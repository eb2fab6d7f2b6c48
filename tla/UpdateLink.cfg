\* Two runs, a move, a kill or failing call, and two changes by others.
SPECIFICATION Spec
CONSTANTS
    Link = {"rootfs", "usr", "etc", "var"}
    Rootfs = "rootfs"
    Volumes = 2
    VolumeOf <- MCVolumeOf
    MaxRuns = 2
    MaxMoves = 1
    MaxKills = 1
    MaxOthers = 2
INVARIANTS TypeOK ViewKept LostOnlyInFlight ViewsAgree
PROPERTIES UpdatedWhenDone RunEnds
CHECK_DEADLOCK FALSE
