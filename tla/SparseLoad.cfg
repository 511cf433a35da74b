SPECIFICATION Spec
CONSTANTS
  MinBlockSize = 2
  MinFileSize = 3
  Labels <- MCLabels
  Shelves <- MCShelves
  MaxLoads = 2
  Data <- MCData
  Workers = {1, 2}
  Garbage = Garbage
  None = None
INVARIANTS
  TypeOK
  DigestIsComplete
  FilesAreAccountedFor
PROPERTIES
  LoadIsFaithful
  LoadSettles
CHECK_DEADLOCK FALSE
