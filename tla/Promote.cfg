SPECIFICATION PromoteSpec
CONSTANTS
    GCEnabled = TRUE
    MayFail = TRUE
INVARIANTS PinnedIsKept
