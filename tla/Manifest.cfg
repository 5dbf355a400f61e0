SPECIFICATION Spec
CONSTANTS
    Ptr = {16, 32, 48}
    Size = {1, 3}
    MaxCounter = 4
    Word32 = 4
    MaxCount = 2
INVARIANTS GoReadsGo ShimReadsShim
CHECK_DEADLOCK FALSE
