----------------------------- MODULE MCPathConv -----------------------------
(***************************************************************************)
(* A small file tree for PathConv:                                         *)
(*                                                                         *)
(*     /          Root      x -> rx or nothing                             *)
(*     /p         P         JB_ROOT_PARENT                                 *)
(*     /p/jb      J         JBROOT; rootfs -> /                            *)
(*     /p/jb/x              a directory jx, a link to /, a file or nothing *)
(*     jx/x                 a link to jbroot, a link to P or nothing       *)
(*                                                                         *)
(* With Mirror, jbroot also holds what looks like its own place: jb/p is   *)
(* jx and jx/jb is a file.                                                 *)
(***************************************************************************)
(* The paths are all those of up to JbrootMax, or RootfsMax, tokens.       *)
(***************************************************************************)
EXTENDS PathConv, FiniteSets

CONSTANTS
    root, p, jb, jx, rx, file,
    Mirror,
    Starts,                     \* the working directories of the caller
    JbrootTokens, JbrootMax,    \* the paths given to jbrootat_alloc
    RootfsTokens, RootfsMax     \* the paths given to rootfs_alloc

MCName == {"x", "rootfs", "p", "jb"}
MCNode == {root, p, jb, jx, rx, file}
MCDir == MCNode \ {file}
MCParent == [d \in MCDir |-> IF d = jb THEN p ELSE IF d = jx THEN jb ELSE root]
MCJBROOT == <<"/", "p", "/", "jb">>
MCLength == [i \in Item \cup {""} |->
    IF i = "" THEN 0 ELSE IF i \in {"..", "jb"} THEN 2 ELSE IF i = "rootfs" THEN 6 ELSE 1]

Fixture(e) ==
    [dn \in MCDir \X MCName |->
        IF dn = <<root, "p">> THEN p
        ELSE IF dn = <<p, "jb">> THEN jb
        ELSE IF dn = <<jb, "rootfs">> THEN root
        ELSE IF dn \in DOMAIN e THEN e[dn]
        ELSE IF Mirror /\ dn = <<jb, "p">> THEN jx
        ELSE IF Mirror /\ dn = <<jx, "jb">> THEN file
        ELSE Nothing]

Removables == {<<root, "x">>, <<jb, "x">>, <<jx, "x">>}

MCTrees ==
    {Fixture(e) : e \in
        {f \in [Removables -> MCNode \cup {Nothing}] :
            /\ f[<<root, "x">>] \in {rx, Nothing}
            /\ f[<<jb, "x">>] \in {jx, root, file, Nothing}
            /\ f[<<jx, "x">>] \in IF f[<<jb, "x">>] = jx THEN {jb, p, Nothing}
                                  ELSE {Nothing}}}

(* The string whose tokens are ts. *)
Joined(ts) ==
    LET str[i \in 0 .. Len(ts)] ==
            IF i = 0 THEN <<>>
            ELSE str[i - 1] \o (IF i > 1 THEN <<"/">> ELSE <<>>)
                            \o (IF ts[i] = "" THEN <<>> ELSE <<ts[i]>>)
    IN str[Len(ts)]

Paths(tokens, max) ==
    {Joined(ts) : ts \in UNION {[1 .. n -> tokens] : n \in 1 .. max}}

MCInputs ==
    [op : {"jbroot"}, start : Starts, path : Paths(JbrootTokens, JbrootMax)] \cup
    [op : {"rootfs"}, start : Starts, path : Paths(RootfsTokens, RootfsMax)]
=============================================================================
