------------------------------ MODULE PathConv ------------------------------
(***************************************************************************)
(* The two conversions of jbroot.c.                                        *)
(*                                                                         *)
(*   jbrootat_alloc(fd, path): a path of the jbroot view becomes a path    *)
(*     for the kernel;                                                     *)
(*   rootfs_alloc(path): a path of the kernel becomes a path of the jbroot *)
(*     view.                                                               *)
(*                                                                         *)
(* Each is a loop over the tokens of the path.  A token that could leave   *)
(* the view (".." or the name of a jbroot directory) makes the loop ask    *)
(* the kernel, with fstatat(), where the part converted so far leads.      *)
(* Between two iterations other processes may unlink files, and when the   *)
(* conversion is done its caller passes the result to the kernel.          *)
(***************************************************************************)
EXTENDS FileTree

CONSTANTS
    Inputs,       \* the calls: records [op, start, path]
    Trees,        \* the initial contents of the file tree, a subset of Edges
    Removable,    \* the pairs <<directory, name>> that may be unlinked
    MaxUnlinks,   \* bound: how many of them are, during one call
    JBROOT,       \* the string JBROOT
    ROOTFS_NAME,  \* the name of the link to the real root in jbroot
    JbrootNames,  \* the names is_jbroot_name() accepts
    Length,       \* Length[i]: the length of the item i
    PATH_MAX

(* The tree e without the entries R.                                       *)
Pruned(e, R) == [dn \in Dir \X Name |-> IF dn \in R THEN Nothing ELSE e[dn]]

ASSUME TreesAssumption == Trees \subseteq Edges
ASSUME RemovableAssumption == Removable \subseteq Dir \X Name /\ MaxUnlinks \in Nat
ASSUME NamesAssumption == ROOTFS_NAME \in Name /\ JbrootNames \subseteq Name

(* In a tree that is jailbroken JBROOT and its link to the real root are   *)
(* there and stay, and what has a jbroot name in JB_ROOT_PARENT is there   *)
(* and is jbroot: rootfs_alloc looks at the name and its parent only.      *)
ASSUME JbrootAssumption ==
    /\ JBROOT \in Seq(Item) /\ IsAbsolute(JBROOT)
    /\ \A e \in Trees, R \in SUBSET Removable : Lookup(Pruned(e, R), Root, JBROOT) = JbRoot
    /\ \A e \in Trees : e[<<JbRoot, ROOTFS_NAME>>] = Root
    /\ <<JbRoot, ROOTFS_NAME>> \notin Removable
    /\ \A e \in Trees, n \in JbrootNames : e[<<JbParent, n>>] = JbRoot

(* Strings: there is a slash between two names.                            *)
ASSUME InputsAssumption ==
    /\ Inputs \subseteq [op : {"jbroot", "rootfs"}, start : Dir, path : Seq(Item)]
    /\ \A in \in Inputs : \A i \in 1 .. Len(in.path) - 1 :
          in.path[i] = "/" \/ in.path[i + 1] = "/"
ASSUME LengthAssumption ==
    /\ PATH_MAX \in Nat
    /\ \A i \in Item : Length[i] \in Nat \ {0}
    /\ Length["/"] = 1 /\ Length["."] = 1 /\ Length[".."] = 2

VARIABLES
    tree,       \* the contents of the directories
    tree0,      \* history: the contents when the call began
    unlinks,    \* history: how many files were unlinked
    op,         \* "jbroot" or "rootfs"
    start,      \* the directory of fd, or the working directory
    path,       \* the argument
    left,       \* what is left of it
    resolved,   \* what it was converted to so far
    based,      \* jbroot_based of rootfs_alloc
    pc,         \* "loop", "finish", "call", "done"
    result,     \* the string the conversion returns
    failed,     \* history: the path is too long, and is the result as it is
    found       \* where the result leads

files == <<tree, tree0, unlinks>>
call == <<op, start, path>>
vars == <<files, call, left, resolved, based, pc, result, failed, found>>

StrLen(s) ==
    LET sum[i \in 0 .. Len(s)] == IF i = 0 THEN 0 ELSE sum[i - 1] + Length[s[i]]
    IN sum[Len(s)]

(* An empty path and one that does not fit are returned as they are.       *)
Init ==
    /\ tree \in Trees
    /\ tree0 = tree
    /\ unlinks = 0
    /\ \E in \in Inputs : op = in.op /\ start = in.start /\ path = in.path
    /\ left = path
    /\ resolved = <<>>
    /\ based = FALSE
    /\ pc = IF path = <<>> \/ StrLen(path) >= PATH_MAX THEN "call" ELSE "loop"
    /\ result = path
    /\ failed = (StrLen(path) >= PATH_MAX)
    /\ found = Nothing

-----------------------------------------------------------------------------
(* Seeded bug: an empty token stays empty. *)
TokenMayBeEmpty == IF left = <<>> \/ left[1] = "/" THEN "" ELSE left[1]

(* The next token: up to the next slash, and "/" for an empty one.         *)
Token == IF left = <<>> \/ left[1] = "/" THEN "/" ELSE left[1]

SlashAt == IF left # <<>> /\ left[1] = "/" THEN 1 ELSE 2

(* What is left behind the slash.  left_len does not count the slashes, so *)
(* it is not 0 as long as there was one: "a/" has a last, empty token.     *)
HasSlash == SlashAt <= Len(left)

LeftBehind == SubSeq(left, SlashAt + 1, Len(left))

(* Seeded bug: a slash is added behind a slash, too. *)
SeparatedTwice == IF resolved # <<>> THEN Append(resolved, "/") ELSE resolved

(* resolved, with the slash that the next token needs.                     *)
Separated ==
    IF resolved # <<>> /\ resolved[Len(resolved)] # "/"
    THEN Append(resolved, "/")
    ELSE resolved

Slashes(s) == {n \in 0 .. Len(s) : \A i \in 1 .. n : s[i] = "/"}

StripSlashes(s) ==
    LET n == CHOOSE n \in Slashes(s) : \A m \in Slashes(s) : m <= n
    IN SubSeq(s, n + 1, Len(s))

(* fstatat() of the part converted so far; "" is asked as ".".             *)
Stat(from, s) == Lookup(tree, from, IF s = <<>> THEN <<".">> ELSE s)

(* Seeded bug: jbrootfd is given the absolute string, and is not used. *)
CheckedFromRoot == Stat(IF IsAbsolute(path) THEN JbRoot ELSE start, Separated)

(* Where __private_jbrootat_alloc believes that the part converted leads.  *)
CheckedDir ==
    IF IsAbsolute(path)
    THEN Stat(JbRoot, StripSlashes(Separated))
    ELSE Stat(start, Separated)

(* The string that resolved becomes by the next token.                     *)
JbrootToken ==
    IF Token # ".." THEN Append(Separated, Token)
    ELSE IF CheckedDir = JbRoot THEN Append(Separated, ".")
    ELSE IF CheckedDir = Root THEN <<"/">>
    ELSE Append(Separated, "..")

(* Seeded bug: the name alone makes a directory jbroot. *)
NamedLikeJbroot == Token \in JbrootNames

IsJbrootDir ==
    /\ Token \in JbrootNames
    /\ Stat(start, Separated) = JbParent

RootfsToken == IF IsJbrootDir THEN <<"/">> ELSE Append(Separated, Token)

(* One iteration of the loop of either conversion.  When the string gets   *)
(* too long the conversion fails, and the caller gets a copy of the path.  *)
Iterate(newResolved, newBased) ==
    /\ pc = "loop"
    /\ IF StrLen(Separated) >= PATH_MAX \/ StrLen(newResolved) >= PATH_MAX
       THEN /\ result' = path
            /\ failed' = TRUE
            /\ pc' = "call"
            /\ UNCHANGED <<left, resolved, based>>
       ELSE /\ left' = IF HasSlash THEN LeftBehind ELSE <<>>
            /\ resolved' = newResolved
            /\ based' = newBased
            /\ pc' = IF HasSlash THEN "loop" ELSE "finish"
            /\ UNCHANGED <<result, failed>>
    /\ UNCHANGED <<files, call, found>>

JbrootIterate == op = "jbroot" /\ Iterate(JbrootToken, based)

RootfsIterate == op = "rootfs" /\ Iterate(RootfsToken, based \/ IsJbrootDir)

(* The loop's result without a trailing slash.                             *)
Fixed ==
    IF Len(resolved) > 1 /\ resolved[Len(resolved)] = "/"
    THEN SubSeq(resolved, 1, Len(resolved) - 1)
    ELSE resolved

(* jbrootat_alloc: /rootfs/... is a path of the real root, and any other   *)
(* absolute path is below JBROOT.                                          *)
JbrootFinish ==
    /\ op = "jbroot"
    /\ pc = "finish"
    /\ result' = IF ~IsAbsolute(Fixed) THEN Fixed
                 ELSE IF Fixed = <<"/", ROOTFS_NAME>> THEN <<"/">>
                 ELSE IF /\ Len(Fixed) > 2
                         /\ SubSeq(Fixed, 1, 3) = <<"/", ROOTFS_NAME, "/">>
                      THEN SubSeq(Fixed, 3, Len(Fixed))
                 ELSE JBROOT \o Fixed
    /\ pc' = "call"
    /\ UNCHANGED <<files, call, left, resolved, based, failed, found>>

(* __private_rootfs_alloc: what is not in jbroot is below /rootfs.         *)
RootfsFinish ==
    /\ op = "rootfs"
    /\ pc = "finish"
    /\ result' = IF ~based /\ IsAbsolute(path)
                 THEN <<"/", ROOTFS_NAME>> \o Fixed
                 ELSE Fixed
    /\ pc' = "call"
    /\ UNCHANGED <<files, call, left, resolved, based, failed, found>>

(***************************************************************************)
(* The caller uses the result: the kernel looks up what jbroot_alloc       *)
(* returned, and a process in jbroot what rootfs_alloc returned.  That the *)
(* kernel refuses a result which its prefix has made too long is left out. *)
(***************************************************************************)
Use ==
    /\ pc = "call"
    /\ pc' = "done"
    /\ found' = IF op = "jbroot" THEN Lookup(tree, start, result)
                ELSE LookupInJbroot(tree, start, result)
    /\ UNCHANGED <<files, call, left, resolved, based, result, failed>>

(* Another process removes a file, an empty directory or a link.           *)
Unlink(d, n) ==
    /\ pc # "done"
    /\ unlinks < MaxUnlinks
    /\ tree[<<d, n>>] # Nothing
    /\ tree' = [tree EXCEPT ![<<d, n>>] = Nothing]
    /\ unlinks' = unlinks + 1
    /\ UNCHANGED <<tree0, call, left, resolved, based, pc, result, failed, found>>

Next ==
    \/ JbrootIterate
    \/ RootfsIterate
    \/ JbrootFinish
    \/ RootfsFinish
    \/ Use
    \/ \E r \in Removable : Unlink(r[1], r[2])

Spec == Init /\ [][Next]_vars

-----------------------------------------------------------------------------
(***************************************************************************)
(* Properties                                                              *)
(***************************************************************************)
(* Types of the variables of the conversions.                              *)
TypeOK ==
    /\ tree \in Edges /\ tree0 \in Edges
    /\ unlinks \in 0 .. MaxUnlinks
    /\ op \in {"jbroot", "rootfs"}
    /\ start \in Dir
    /\ {path, left, resolved, result} \subseteq Seq(Item)
    /\ based \in BOOLEAN /\ failed \in BOOLEAN
    /\ pc \in {"loop", "finish", "call", "done"}
    /\ found \in Node \cup {Nothing}

(* A file that is removed during the call may make a lookup fail; it may   *)
(* not make it find anything else.                                         *)
Finds(n) == found = n \/ (unlinks > 0 /\ found = Nothing)

(***************************************************************************)
(* What jbrootat_alloc returns leads the kernel where the path leads in    *)
(* the jbroot view: never above jbroot, to the real root only through      *)
(* rootfs, and to the same file or to none, whatever links the path goes   *)
(* through and whatever is unlinked between the checks and the lookup,     *)
(* unless the path is too long and comes back as it was.                   *)
(* (Relative paths as long as they do not restart at jbroot, see           *)
(* JbrootDenotesAlways.)                                                   *)
(***************************************************************************)
JbrootDenotes ==
    /\ pc = "done"
    /\ op = "jbroot"
    /\ ~failed
    /\ IsAbsolute(path) \/ ~IsAbsolute(resolved)
    => Finds(LookupInJbroot(tree0, start, path))

(***************************************************************************)
(* The same of every path: "resolved path is always in jbroot-dir", says   *)
(* the comment at jbroot.c:109 of what the checks look at.                 *)
(***************************************************************************)
JbrootDenotesAlways ==
    pc = "done" /\ op = "jbroot" /\ ~failed => Finds(LookupInJbroot(tree0, start, path))

HasDotDot == \E i \in 1 .. Len(path) : path[i] = ".."

JbrootNamesIn(s) == {i \in 1 .. Len(s) : s[i] \in JbrootNames}

(* A path is not too long unless it ends at the limit: an empty last token *)
(* takes one character more than it has.                                   *)
FailsAtLimit == failed => StrLen(path) >= PATH_MAX - 1

(***************************************************************************)
(* What rootfs_alloc returns leads a process in jbroot where the path      *)
(* leads the kernel, in jbroot or outside, wherever the process is.  The   *)
(* paths are those the kernel hands out, without "..", and they go through *)
(* at most one directory with the name of a jbroot.                        *)
(***************************************************************************)
RootfsDenotes ==
    /\ pc = "done"
    /\ op = "rootfs"
    /\ ~failed
    /\ ~HasDotDot
    /\ \A i, j \in JbrootNamesIn(path) : i = j
    => Finds(Lookup(tree0, start, path))

(* The same of every path without ".." (roothide.h:33, "convert            *)
(* rootfs-based path to jbroot-based path").                               *)
RootfsDenotesAlways ==
    pc = "done" /\ op = "rootfs" /\ ~failed /\ ~HasDotDot => Finds(Lookup(tree0, start, path))
=============================================================================
