\* Three runs on one target, one after the other.
SPECIFICATION Spec
CONSTANTS
    Run = {r1, r2, r3}
    Modes = {exec, private}
    Private = private
    NoFile = NoFile
INVARIANTS TypeOK NoLoss KeptIsFinished
PROPERTIES ChangedWhenReady SuccessInstalls
CHECK_DEADLOCK FALSE
