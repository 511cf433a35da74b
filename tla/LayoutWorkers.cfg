\* Two traversals over trees of one to three levels, with three workers.
CONSTANTS
  Workers = {w1, w2, w3}
  MinParallel = 2
  Directions <- MCDirections
  ReadBack <- MCReadBack
  Trees <- MCTrees
  IgnoreCL = {TRUE, FALSE}
  Habits = {"early", "reload"}
  Faults = {"error"}
  MaxLoads = 3
  MaxCalls = 3
SPECIFICATION FairSpec
INVARIANTS
  TypeOK
  NoFreeWorkerIsNeverThrown
  WorkersAccounted
  LevelBarrier
  RendersAreSerial
  OwnVisitsAreCurrent
PROPERTIES
  ImplementsService
  RenderEnds
  CallersAreServed
CHECK_DEADLOCK FALSE
