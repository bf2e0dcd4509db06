SPECIFICATION Spec
CONSTANTS
    RequestSize = 6
    Payloads <- ShortAndLong
    LengthSize <- LengthOf
    BufferSize = 16
    MaxFrames = 3
INVARIANT TypeOK
INVARIANT MessagesAreWhole
CHECK_DEADLOCK FALSE
