\* Both conversions on all short paths, with one file unlinked meanwhile.
SPECIFICATION Spec
CONSTANTS
    root = root
    p = p
    jb = jb
    jx = jx
    rx = rx
    file = file
    Nothing = Nothing
    Root = root
    JbRoot = jb
    JbParent = p
    Name <- MCName
    Node <- MCNode
    Dir <- MCDir
    Parent <- MCParent
    JBROOT <- MCJBROOT
    Length <- MCLength
    Trees <- MCTrees
    Inputs <- MCInputs
    Removable <- Removables
    ROOTFS_NAME = "rootfs"
    JbrootNames = {"jb"}
    PATH_MAX = 24
    MaxUnlinks = 1
    Mirror = FALSE
    Starts = {root, jb, jx}
    JbrootTokens = {"", "..", "x", "rootfs"}
    JbrootMax = 5
    RootfsTokens = {"", "..", "x", "rootfs", "p", "jb"}
    RootfsMax = 4
INVARIANTS TypeOK JbrootDenotes RootfsDenotes FailsAtLimit
CHECK_DEADLOCK FALSE
