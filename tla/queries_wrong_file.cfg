SPECIFICATION Spec
CONSTANTS
  a = a
  b = b
  Name <- MCName
  NameWidth = 1
  Uri = {u1, u2}
  Target <- MCTarget
  MayBeEmpty = FALSE
  MayMisread = FALSE
  TagWidth = 10
  Uint32 = 1000
  MaxFiles = 2
  MaxTags = 3
  MaxLinks = 1
INVARIANT NameOfOwnFile
CHECK_DEADLOCK FALSE
