SPECIFICATION Spec
CONSTANTS
  root = root
  gone = gone
  inside = inside
  outside = outside
  blank = blank
  blankEscaped = blankEscaped
  Text <- MCText
  Escaped <- MCEscaped
  OnDisk <- MCOnDisk
  Directory <- MCDirectory
  ClientUri <- MCClientUri
  LinkMethod = {"textDocument/hover"}
  TreeMethod = {}
  OtherMethod = {"other"}
  FolderLists <- MCOneFolder
  MaxRequests = 1
  MaxChanges = 0
INVARIANT FilesServed
CHECK_DEADLOCK FALSE
