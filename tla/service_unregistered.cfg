SPECIFICATION FairSpec
CONSTANTS
  root = root
  gone = gone
  inside = inside
  outside = outside
  blank = blank
  blankEscaped = blankEscaped
  Text <- MCText
  Escaped <- MCEscaped
  OnDisk <- MCOnDisk
  Directory <- MCDirectory
  ClientUri <- MCInFolder
  LinkMethod = {"textDocument/hover"}
  TreeMethod = {}
  OtherMethod = {"other"}
  FolderLists <- MCOneFolder
  MaxRequests = 1
  MaxChanges = 0
PROPERTY EveryRequestAnswered
CHECK_DEADLOCK FALSE
