SPECIFICATION Spec
CONSTANTS
  kNumPictureBuffers = 3
  kBufferingSlack = 1
  kMaxInFlightDecodes = 4
  MaxInputs = 5
  StreamSize <- SizeChanges
  Faults <- AllFaults
INVARIANTS
  TypeOK
  SurfaceHoldsPendingSample
  NoProtocolError
  PictureShowsItsFrame
  InDecodeOrder
  ResetDoneIsLast
  NoLostWakeUp
  ResolutionBranchIsDead
CHECK_DEADLOCK FALSE
