SPECIFICATION MCSpec
CONSTANTS
    MaxAddresses = 2
    never = never
    Never = never
    Timeouts <- NoneZeroAndThree
    MaxNow = 1
    MaxInterrupts = 2
INVARIANTS AllAddressesTried ConnectedIffSuccess OnTime
PROPERTIES AttemptEnds
