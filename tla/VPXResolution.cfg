SPECIFICATION Spec
CONSTANTS
  kNumPictureBuffers = 3
  kBufferingSlack = 1
  kMaxInFlightDecodes = 3
  MaxInputs = 3
  StreamSize <- SizeChanges
  Faults <- NoFaults
INVARIANT PictureHasFrameSize
CHECK_DEADLOCK FALSE
