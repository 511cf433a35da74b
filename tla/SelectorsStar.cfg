SPECIFICATION Spec
CONSTANTS
  Documents <- MCDocuments
  Lower <- MCLower
  Sheets <- MCSheets
  Scenes <- MCScenes
  IdWeight = 64
  TagWeight = 8
  Wrap = 256
  None = None
INVARIANT
  LowestFirst
CHECK_DEADLOCK FALSE
