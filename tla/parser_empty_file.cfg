SPECIFICATION Spec
CONSTANTS
  a = a
  b = b
  Name <- MCName
  NameWidth = 1
  Uri = {u1, u2}
  Target <- MCTarget
  MayBeEmpty = TRUE
  MayMisread = FALSE
  TagWidth = 10
  Uint32 = 1000
  MaxFiles = 2
  MaxTags = 1
INVARIANT NewlinesSaved
CHECK_DEADLOCK FALSE
