SPECIFICATION FairSpec
CONSTANTS
  kNumPictureBuffers = 3
  kBufferingSlack = 1
  kMaxInFlightDecodes = 3
  MaxInputs = 2
  StreamSize <- OneSize
  Faults <- DecodeFaults
PROPERTY DecodesAreAcknowledged
CHECK_DEADLOCK FALSE
