SPECIFICATION Spec
CONSTANTS
  a = a
  b = b
  Name <- MCName
  NameWidth = 2
  Uri = {u1, u2}
  Target <- MCTarget
  MayBeEmpty = TRUE
  MayMisread = TRUE
  TagWidth = 10
  Uint32 = 1000
  MaxFiles = 2
  MaxTags = 3
  MaxLinks = 1
INVARIANTS ParentChain OwnersAgree DefinitionOfPrefix ReferencesInvertDefinition HoverLinksAreDefinitions OwnerAgrees ChildrenOnce FoldMarker ParentOfChild
PROPERTY LexicalScoping
CHECK_DEADLOCK FALSE
