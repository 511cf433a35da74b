SPECIFICATION Spec
CONSTANTS
  Trees <- MCTrees
  Inputs <- MCInputs
  Width = 144
  Height = 144
  FullVotes = 4
  RectangleSize = 6
  OutlineSize = 12
  MaxRenders = 2
  NaN = NaN
  None = None
INVARIANTS
  TypeOK
  NodesSeeTheInputs
  TotalsReachTheRoot
  ChildrenTileTheirParent
  AreaIsVotes
  VerticesArePartitioned
  FrameShowsTheLayout
CHECK_DEADLOCK FALSE
