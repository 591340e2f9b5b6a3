SPECIFICATION FairSpec
CONSTANTS
  root = root
  gone = gone
  inside = inside
  outside = outside
  blank = blank
  blankEscaped = blankEscaped
  Text <- MCText
  Escaped <- MCEscaped
  OnDisk <- MCOnDisk
  Directory <- MCDirectory
  ClientUri <- MCInFolder
  LinkMethod = {}
  TreeMethod = {"treeView/getChildren"}
  OtherMethod = {"other"}
  FolderLists <- MCOneFolder
  MaxRequests = 1
  MaxChanges = 2
INVARIANTS CallbackPerRequest AnnouncedSettingArrives
PROPERTIES RequestsAnswered ShutdownStops
CHECK_DEADLOCK FALSE
