\* rootfs_alloc on paths through two directories with jbroot names.
SPECIFICATION Spec
CONSTANTS
    root = root
    p = p
    jb = jb
    jx = jx
    rx = rx
    file = file
    Nothing = Nothing
    Root = root
    JbRoot = jb
    JbParent = p
    Name <- MCName
    Node <- MCNode
    Dir <- MCDir
    Parent <- MCParent
    JBROOT <- MCJBROOT
    Length <- MCLength
    Trees <- MCTrees
    Inputs <- MCInputs
    Removable <- Removables
    ROOTFS_NAME = "rootfs"
    JbrootNames = {"jb"}
    PATH_MAX = 100
    MaxUnlinks = 0
    Mirror = TRUE
    Starts = {root}
    JbrootTokens = {""}
    JbrootMax = 0
    RootfsTokens = {"", "p", "jb"}
    RootfsMax = 5
INVARIANT RootfsDenotesAlways
CHECK_DEADLOCK FALSE
