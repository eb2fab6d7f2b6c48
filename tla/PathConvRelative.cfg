\* jbrootat_alloc on relative paths.
SPECIFICATION Spec
CONSTANTS
    root = root
    p = p
    jb = jb
    jx = jx
    rx = rx
    file = file
    Nothing = Nothing
    Root = root
    JbRoot = jb
    JbParent = p
    Name <- MCName
    Node <- MCNode
    Dir <- MCDir
    Parent <- MCParent
    JBROOT <- MCJBROOT
    Length <- MCLength
    Trees <- MCTrees
    Inputs <- MCInputs
    Removable <- Removables
    ROOTFS_NAME = "rootfs"
    JbrootNames = {"jb"}
    PATH_MAX = 100
    MaxUnlinks = 0
    Mirror = FALSE
    Starts = {root, jb}
    JbrootTokens = {"..", "x", "rootfs"}
    JbrootMax = 5
    RootfsTokens = {""}
    RootfsMax = 0
INVARIANT JbrootDenotesAlways
CHECK_DEADLOCK FALSE
