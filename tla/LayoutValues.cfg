\* One careful render without errors: what the long levels get.
CONSTANTS
  Workers = {w1, w2, w3}
  MinParallel = 2
  Directions <- MCDirections
  ReadBack <- MCReadBack
  Trees <- MCTrees
  IgnoreCL = {TRUE}
  Habits = {}
  Faults = {}
  MaxLoads = 1
  MaxCalls = 1
SPECIFICATION FairSpec
INVARIANT RenderIsComplete
CHECK_DEADLOCK FALSE
