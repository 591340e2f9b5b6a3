SPECIFICATION Spec
CONSTANTS
  a = a
  b = b
  Name <- MCName
  NameWidth = 1
  Uri = {u1}
  Target <- MCTarget
  MayBeEmpty = FALSE
  MayMisread = TRUE
  TagWidth = 10
  Uint32 = 1000
  MaxFiles = 1
  MaxTags = 6
INVARIANTS TypeOK ParentChain ChildrenAgree OwnersAgree
PROPERTY LexicalScoping
CHECK_DEADLOCK FALSE
