------------------------------ MODULE FileTree ------------------------------
(***************************************************************************)
(* The file tree the conversions of jbroot.c work on, and the two ways a   *)
(* path is looked up in it: by the kernel, and as a process that lives in  *)
(* jbroot should see it.                                                   *)
(*                                                                         *)
(* A path is a string, here a sequence of items: "/", ".", ".." and names, *)
(* no two of them adjacent but for slashes.  A symbolic link is an edge to *)
(* the node it leads to: every lookup modelled here follows links.         *)
(***************************************************************************)
EXTENDS Integers, Sequences

CONSTANTS
    Name,         \* the names of files and directories
    Node,         \* files and directories
    Dir,          \* the directories among them
    Root,         \* the real "/"
    JbRoot,       \* the directory JBROOT
    JbParent,     \* the directory JB_ROOT_PARENT
    Parent,       \* Parent[d]: the directory ".." of d
    Nothing       \* the result of a lookup that fails

ASSUME DirAssumption == Dir \subseteq Node /\ {Root, JbRoot, JbParent} \subseteq Dir
ASSUME ParentAssumption == Parent \in [Dir -> Dir] /\ Parent[Root] = Root
ASSUME NothingAssumption == Nothing \notin Node
ASSUME NameAssumption == Name \cap {"/", ".", ".."} = {}

Item == Name \cup {"/", ".", ".."}

(* The contents of the directories: what name leads where. *)
Edges == [Dir \X Name -> Node \cup {Nothing}]

IsAbsolute(s) == s # <<>> /\ s[1] = "/"

(* One item of a path, from node n.  Only a directory has a "." or a "/".  *)
Go(e, n, item) ==
    IF n \notin Dir THEN Nothing
    ELSE IF item \in {"/", "."} THEN n
    ELSE IF item = ".." THEN Parent[n]
    ELSE e[<<n, item>>]

(* All items of s, from node n.                                            *)
Walk(e, n, s) ==
    LET at[i \in 0 .. Len(s)] == IF i = 0 THEN n ELSE Go(e, at[i - 1], s[i])
    IN at[Len(s)]

(* namei(): an absolute path starts at the real root, "" does not exist.   *)
Lookup(e, from, s) ==
    IF s = <<>> THEN Nothing ELSE Walk(e, IF IsAbsolute(s) THEN Root ELSE from, s)

(***************************************************************************)
(* The jbroot view: an absolute path starts at jbroot, and nothing is      *)
(* above jbroot or above the real root (which is seen as jbroot:/rootfs).  *)
(***************************************************************************)
GoInJbroot(e, n, item) ==
    IF item = ".." /\ n \in {JbRoot, Root} THEN JbRoot ELSE Go(e, n, item)

WalkInJbroot(e, n, s) ==
    LET at[i \in 0 .. Len(s)] == IF i = 0 THEN n ELSE GoInJbroot(e, at[i - 1], s[i])
    IN at[Len(s)]

LookupInJbroot(e, from, s) ==
    IF s = <<>> THEN Nothing
    ELSE WalkInJbroot(e, IF IsAbsolute(s) THEN JbRoot ELSE from, s)
=============================================================================
