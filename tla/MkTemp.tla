------------------------------- MODULE MkTemp -------------------------------
(***************************************************************************)
(* find_temp_path() of vroot_mktemp.c and the callers mkstemp, mkdtemp and *)
(* mktemp: processes that look for a free name in one directory.           *)
(*                                                                         *)
(* A name is what stands for the X's of the template, a function from      *)
(* positions to characters of padchar.  The first one is random; after a   *)
(* collision the characters are turned like an odometer, each of them      *)
(* carrying to the next position when it is back at its first value.       *)
(***************************************************************************)
EXTENDS Naturals, FiniteSets

CONSTANTS
    Proc,       \* the processes
    Actions,    \* the actions they use: "mkostemps", "mkdtemp", "mktemp"
    Positions,  \* how many X's the template has
    Pads,       \* how many characters padchar has (62 in the code)
    Nobody,     \* the creator of a name that is not in the directory
    Somebody    \* the creator of the files that were there before

ASSUME PositionsAssumption == Positions \in Nat
ASSUME PadsAssumption == Pads \in Nat \ {0}
ASSUME ActionsAssumption == Actions \subseteq {"mkostemps", "mkdtemp", "mktemp"}
ASSUME NobodyAssumption == {Nobody, Somebody} \cap Proc = {} /\ Nobody # Somebody

Position == 1 .. Positions
Char == 0 .. Pads - 1
Candidate == [Position -> Char]

VARIABLES
    dir,      \* dir[c]: who created candidate c, Nobody if it is not there
    action,   \* the action of each process's call
    pc,       \* "idle", "stat", "try", "turn", "done", "opened", "failed"
    first,    \* carrybuf: the first candidate
    path,     \* the candidate in the caller's buffer
    errno,    \* "EEXIST", "other", or "none"
    tried     \* history: the candidates the action was invoked on

vars == <<dir, action, pc, first, path, errno, tried>>

Init ==
    /\ dir \in [Candidate -> {Nobody, Somebody}]
    /\ action \in [Proc -> Actions]
    /\ pc = [p \in Proc |-> "idle"]
    /\ first = [p \in Proc |-> [i \in Position |-> 0]]
    /\ path = first
    /\ errno = [p \in Proc |-> "none"]
    /\ tried = [p \in Proc |-> {}]

(* mkostemps and mkdtemp create the file or directory, mktemp only looks.  *)
Creates(p) == action[p] # "mktemp"

Goto(p, label) == pc' = [pc EXCEPT ![p] = label]

Fail(p, error) ==
    /\ Goto(p, "failed")
    /\ errno' = [errno EXCEPT ![p] = error]

-----------------------------------------------------------------------------
(* The X's are filled with random characters.                              *)
Fill(p) ==
    /\ pc[p] = "idle"
    /\ \E c \in Candidate :
          /\ first' = [first EXCEPT ![p] = c]
          /\ path' = [path EXCEPT ![p] = c]
    /\ Goto(p, IF Creates(p) THEN "stat" ELSE "try")
    /\ UNCHANGED <<dir, action, errno, tried>>

(* stat_base_dir: the directory must be there and be a directory.          *)
StatBaseDir(p) ==
    /\ pc[p] = "stat"
    /\ Goto(p, "try")
    /\ UNCHANGED <<dir, action, first, path, errno, tried>>

StatBaseDirFails(p) ==
    /\ pc[p] = "stat"
    /\ Fail(p, "other")
    /\ UNCHANGED <<dir, action, first, path, tried>>

(* Seeded bug: the file is opened without O_EXCL.                          *)
TryDoneShared(p) ==
    /\ pc[p] = "try"
    /\ dir' = IF Creates(p) THEN [dir EXCEPT ![path[p]] = p] ELSE dir
    /\ tried' = [tried EXCEPT ![p] = @ \cup {path[p]}]
    /\ Goto(p, "done")
    /\ UNCHANGED <<action, first, path, errno>>

(* The action finds the candidate vacant: FTPP_DONE.  O_CREAT|O_EXCL and   *)
(* mkdir() create it in the same step.                                     *)
TryDone(p) ==
    /\ pc[p] = "try"
    /\ dir[path[p]] = Nobody
    /\ dir' = IF Creates(p) THEN [dir EXCEPT ![path[p]] = p] ELSE dir
    /\ tried' = [tried EXCEPT ![p] = @ \cup {path[p]}]
    /\ Goto(p, "done")
    /\ UNCHANGED <<action, first, path, errno>>

(* It exists: FTPP_TRY_NEXT.                                               *)
TryNext(p) ==
    /\ pc[p] = "try"
    /\ dir[path[p]] # Nobody
    /\ tried' = [tried EXCEPT ![p] = @ \cup {path[p]}]
    /\ Goto(p, "turn")
    /\ UNCHANGED <<dir, action, first, path, errno>>

(* Any other error of openat, mkdirat or fstatat: FTPP_ERROR.              *)
TryError(p) ==
    /\ pc[p] = "try"
    /\ Fail(p, "other")
    /\ UNCHANGED <<dir, action, first, path, tried>>

(* Seeded bug: no return to padchar[0] at the end of padchar.              *)
TurnedPastEnd(c) == c + 1

(* padchar[0] follows the last character.                                  *)
Turned(c) == (c + 1) % Pads

(* Seeded bug: the carry compares with padchar[0], not with carrybuf.      *)
CarriedAtZero(p, i) == \A j \in 1 .. i : Turned(path[p][j]) = 0

(* The positions up to i are all back at their first character when they   *)
(* are turned, so the carry reaches position i + 1.                        *)
CarriedUpTo(p, i) == \A j \in 1 .. i : Turned(path[p][j]) = first[p][j]

(* Seeded bug: the carry is noticed, but only the first position turns.    *)
TurnFirst(p) ==
    [i \in Position |-> IF i = 1 THEN Turned(path[p][i]) ELSE path[p][i]]

(* The characters the carry reaches are turned, the others stay.           *)
TurnName(p) ==
    [i \in Position |->
        IF CarriedUpTo(p, i - 1) THEN Turned(path[p][i]) ELSE path[p][i]]

(* Seeded bug: the carry out of the last position is not noticed.          *)
TurnForEver(p) ==
    /\ pc[p] = "turn"
    /\ path' = [path EXCEPT ![p] = TurnName(p)]
    /\ Goto(p, "try")
    /\ UNCHANGED <<dir, action, first, errno, tried>>

(* The next candidate; EEXIST when the carry leaves the last position.     *)
Turn(p) ==
    /\ pc[p] = "turn"
    /\ path' = [path EXCEPT ![p] = TurnName(p)]
    /\ IF CarriedUpTo(p, Positions)
       THEN Fail(p, "EEXIST")
       ELSE Goto(p, "try") /\ UNCHANGED errno
    /\ UNCHANGED <<dir, action, first, tried>>

(* The caller of mktemp opens the name it was given, with O_CREAT.         *)
Open(p) ==
    /\ pc[p] = "done"
    /\ ~Creates(p)
    /\ dir' = IF dir[path[p]] = Nobody THEN [dir EXCEPT ![path[p]] = p] ELSE dir
    /\ Goto(p, "opened")
    /\ UNCHANGED <<action, first, path, errno, tried>>

(* The caller removes what it created and may ask again, with a template.  *)
Remove(p) ==
    /\ pc[p] \in {"done", "opened"}
    /\ dir[path[p]] = p
    /\ dir' = [dir EXCEPT ![path[p]] = Nobody]
    /\ path' = [path EXCEPT ![p] = [i \in Position |-> 0]]
    /\ first' = [first EXCEPT ![p] = [i \in Position |-> 0]]
    /\ tried' = [tried EXCEPT ![p] = {}]
    /\ Goto(p, "idle")
    /\ UNCHANGED <<action, errno>>

FindTempPath(p) ==
    \/ StatBaseDir(p)
    \/ StatBaseDirFails(p)
    \/ TryDone(p)
    \/ TryNext(p)
    \/ TryError(p)
    \/ Turn(p)

Next == \E p \in Proc : Fill(p) \/ FindTempPath(p) \/ Open(p) \/ Remove(p)

Spec == Init /\ [][Next]_vars

(* A process inside find_temp_path() runs on.                              *)
FairSpec == Spec /\ \A p \in Proc : WF_vars(FindTempPath(p))

-----------------------------------------------------------------------------
(***************************************************************************)
(* Properties                                                              *)
(***************************************************************************)
(* Types of the variables of find_temp_path().                             *)
TypeOK ==
    /\ dir \in [Candidate -> Proc \cup {Nobody, Somebody}]
    /\ action \in [Proc -> Actions]
    /\ pc \in [Proc -> {"idle", "stat", "try", "turn", "done", "opened", "failed"}]
    /\ first \in [Proc -> Candidate]
    /\ path \in [Proc -> Candidate]
    /\ errno \in [Proc -> {"none", "EEXIST", "other"}]
    /\ tried \in [Proc -> SUBSET Candidate]

(***************************************************************************)
(* The file or directory mkstemp, mkdtemp and their variants return was    *)
(* created by that call, it is still there, and no other call returned it. *)
(***************************************************************************)
OwnsItsFile ==
    \A p \in Proc : pc[p] = "done" /\ Creates(p) =>
        /\ dir[path[p]] = p
        /\ \A q \in Proc \ {p} : pc[q] = "done" /\ Creates(q) => path[q] # path[p]

(***************************************************************************)
(* EEXIST is reported only after every candidate was tried ("have we tried *)
(* all possible permutations?"), wherever the random start was.            *)
(***************************************************************************)
EexistIsExhaustion ==
    \A p \in Proc : errno[p] = "EEXIST" => tried[p] = Candidate

(* No candidate is tried twice: the odometer does not come back to a name  *)
(* before all of them were used.                                           *)
NeverTwice ==
    [][\A p \in Proc : pc[p] = "turn" /\ pc'[p] = "try" => path'[p] \notin tried[p]]_vars

(* The search ends, although others create and remove files meanwhile.     *)
SearchEnds == \A p \in Proc : pc[p] = "try" ~> pc[p] \in {"done", "failed"}
=============================================================================
