\* Every PATH of up to three entries, up to two arguments.
SPECIFICATION Spec
CONSTANTS
    Entries = 3
    MaxArgs = 2
    Stale = "stale"
INVARIANTS TypeOK SameProgram SuccessIsOneProgram DeniedIsSeen NotPassedOver ErrnoIsFresh
CHECK_DEADLOCK FALSE
