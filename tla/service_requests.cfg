SPECIFICATION Spec
CONSTANTS
  root = root
  gone = gone
  inside = inside
  outside = outside
  blank = blank
  blankEscaped = blankEscaped
  Text <- MCText
  Escaped <- MCEscaped
  OnDisk <- MCOnDisk
  Directory <- MCDirectory
  ClientUri <- MCClientUri
  LinkMethod = {"textDocument/hover"}
  TreeMethod = {}
  OtherMethod = {"other"}
  FolderLists <- MCFolderLists
  MaxRequests = 2
  MaxChanges = 0
INVARIANTS TypeOK PlainFilesServed
PROPERTIES SerialAnswers ServedFromOneStorage
CHECK_DEADLOCK FALSE
