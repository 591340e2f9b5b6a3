SPECIFICATION TextSpec
CONSTANTS
  a = a
  b = b
  Name <- MCName
  NameWidth = 2
  Uri = {u1, u2}
  Target <- MCTarget
  MayBeEmpty = FALSE
  MayMisread = TRUE
  TagWidth = 10
  Uint32 = 1000
  MaxFiles = 2
  MaxTags = 2
  MaxLinks = 1
  MayEdit = TRUE
  Gap = 3
INVARIANTS TextTypeOK LinkUnderCursor RangesCoverText PlacesLeadBack
CHECK_DEADLOCK FALSE
