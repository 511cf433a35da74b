SPECIFICATION Spec
CONSTANTS
  kNumPictureBuffers = 3
  kBufferingSlack = 1
  kMaxInFlightDecodes = 3
  MaxInputs = 3
  StreamSize <- OneSize
  Faults <- NoFaults
INVARIANT PictureBuffersAreReused
CHECK_DEADLOCK FALSE
