SPECIFICATION FairSpec
CONSTANTS
    RequestSize = 6
    Payloads <- ShortAndLong
    LengthSize <- LengthOf
    BufferSize = 16
    MaxFrames = 1
PROPERTY EndIsNoticed
CHECK_DEADLOCK FALSE
