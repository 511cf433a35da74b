SPECIFICATION Spec
CONSTANTS
  Documents <- MCDocuments
  Lower <- MCLower
  Sheets <- MCSheets
  Scenes <- MCScenes
  IdWeight = 64
  TagWeight = 8
  Wrap = 256
  None = None
INVARIANTS
  TypeOK
  TreeIsKept
  ParsesAsWritten
  MatchIsSound
  MatchIsComplete
  MergeVisitsAll
PROPERTIES
  ValuesAreKept
  CascadeIsKept
  TokensOnlyGrow
CHECK_DEADLOCK FALSE
