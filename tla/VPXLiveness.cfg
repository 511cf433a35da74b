SPECIFICATION FairSpec
CONSTANTS
  kNumPictureBuffers = 3
  kBufferingSlack = 1
  kMaxInFlightDecodes = 3
  MaxInputs = 4
  StreamSize <- OneSize
  Faults <- Abort
PROPERTIES
  RequestsAreAnswered
  DecodesAreAcknowledged
CHECK_DEADLOCK FALSE
