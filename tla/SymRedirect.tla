---------------------------- MODULE SymRedirect -----------------------------
(***************************************************************************)
(* How symredirect replaces the mach-o it is given: main(), copy_file()    *)
(* and processMachO() of symredirect.cpp.                                  *)
(*                                                                         *)
(* A run copies the target to a temporary file, redirects the symbols      *)
(* there, unlinks the target, creates it again and copies the result back. *)
(* Every call can fail, and the run can end anywhere: it is killed, or one *)
(* of its assertions fails.  Runs follow one another on the same target.   *)
(*                                                                         *)
(* Of a file's content the model keeps whether it is whole and whether it  *)
(* is redirected: "orig" and "new" are whole, "part" is cut off, "half" is *)
(* a file processMachO() has begun to change.                              *)
(***************************************************************************)
CONSTANTS
    Run,       \* the runs of symredirect on this target
    Modes,     \* permission bits a target may have
    Private,   \* the permission bits 0600
    NoFile     \* in place of a content: there is no such file

ASSUME ModesAssumption == Private \in Modes
ASSUME NoFileAssumption == NoFile \notin {"orig", "new", "part", "half"}

VARIABLES
    target,    \* content of the target
    mode,      \* its permission bits
    temp,      \* temp[r]: content of the temporary file of run r
    pc,        \* where each run is
    st,        \* st[r]: the permission bits that run r read
    source     \* history: source[r] is the content that run r copied

vars == <<target, mode, temp, pc, st, source>>

Whole == {"orig", "new"}
Content == Whole \cup {"part", "half"}

(* What the temporary file holds after processMachO() has succeeded.       *)
Redirected(content) == IF content \in Whole THEN "new" ELSE "part"

Live == {"copy", "process", "rewrite", "unlink", "create", "write", "chmod", "return"}
Ended == {"done", "failed", "kept", "killed"}

Init ==
    /\ target \in Whole
    /\ mode \in Modes
    /\ temp = [r \in Run |-> NoFile]
    /\ pc = [r \in Run |-> "idle"]
    /\ st = [r \in Run |-> Private]
    /\ source = [r \in Run |-> NoFile]

Goto(r, label) == pc' = [pc EXCEPT ![r] = label]

Temp(r, content) == temp' = [temp EXCEPT ![r] = content]

(* ~TempCleanup() unlinks temp, and does not look whether it succeeds.     *)
Cleanup(r) == Temp(r, NoFile) \/ UNCHANGED temp

(* return -1 with cleanup in force.                                        *)
FailClean(r) ==
    /\ Cleanup(r)
    /\ Goto(r, "failed")

(* The same with cleanup.path = nullptr: temp stays.                       *)
FailKept(r) ==
    /\ Goto(r, "kept")
    /\ UNCHANGED temp

-----------------------------------------------------------------------------
(* Seeded bug: nobody looks at what realpath() and stat() return.          *)
BeginUnchecked(r) ==
    /\ pc[r] = "idle"
    /\ \A q \in Run : pc[q] \notin Live
    /\ st' = [st EXCEPT ![r] = mode]
    /\ Temp(r, "part")
    /\ Goto(r, "copy")
    /\ UNCHANGED <<target, mode, source>>

(* realpath(), stat() and mkstemp() succeed.                               *)
Begin(r) ==
    /\ pc[r] = "idle"
    /\ \A q \in Run : pc[q] \notin Live
    /\ target # NoFile
    /\ st' = [st EXCEPT ![r] = mode]
    /\ Temp(r, "part")
    /\ Goto(r, "copy")
    /\ UNCHANGED <<target, mode, source>>

(* One of them fails; the first two do when there is no target.            *)
BeginFails(r) ==
    /\ pc[r] = "idle"
    /\ \A q \in Run : pc[q] \notin Live
    /\ Goto(r, "failed")
    /\ UNCHANGED <<target, mode, temp, st, source>>

(* copy_file(resolved, temp) *)
Copy(r) ==
    /\ pc[r] = "copy"
    /\ Temp(r, target)
    /\ source' = [source EXCEPT ![r] = target]
    /\ Goto(r, "process")
    /\ UNCHANGED <<target, mode, st>>

CopyFails(r) ==
    /\ pc[r] = "copy"
    /\ FailClean(r)
    /\ UNCHANGED <<target, mode, st, source>>

(* processMachO() maps the file and begins to write: new bindings, strings *)
(* and the signature go behind the end.                                    *)
Process(r) ==
    /\ pc[r] = "process"
    /\ Temp(r, "half")
    /\ Goto(r, "rewrite")
    /\ UNCHANGED <<target, mode, st, source>>

(* Seeded bug: a short write of the mapped file is taken for success.      *)
RewriteShort(r) ==
    /\ pc[r] = "rewrite"
    /\ temp[r] = "half"
    /\ Goto(r, "unlink")
    /\ UNCHANGED <<target, mode, temp, st, source>>

(* ... and last the mapped file, with its changes, goes over the old one.  *)
Rewrite(r) ==
    /\ pc[r] = "rewrite"
    /\ Temp(r, Redirected(source[r]))
    /\ Goto(r, "unlink")
    /\ UNCHANGED <<target, mode, st, source>>

(* Seeded bug: main() does not look at the result of processMachO().       *)
ProcessIgnored(r) ==
    /\ pc[r] \in {"process", "rewrite"}
    /\ Goto(r, "unlink")
    /\ UNCHANGED <<target, mode, temp, st, source>>

(* Not a mach-o it can process, no room in the header, no slice at all, or *)
(* a call that fails.                                                      *)
ProcessFails(r) ==
    /\ pc[r] \in {"process", "rewrite"}
    /\ FailClean(r)
    /\ UNCHANGED <<target, mode, st, source>>

(* copy_file(temp, resolved, true): unlink(destination)                    *)
Unlink(r) ==
    /\ pc[r] = "unlink"
    /\ target' = NoFile
    /\ Goto(r, "create")
    /\ UNCHANGED <<mode, temp, st, source>>

(* ... open(destination, O_WRONLY|O_CREAT|O_TRUNC|O_EXCL, 0600)            *)
Create(r) ==
    /\ pc[r] = "create"
    /\ target' = "part"
    /\ mode' = Private
    /\ Goto(r, "write")
    /\ UNCHANGED <<temp, st, source>>

(* Seeded bug: one write(), which may write less than it was asked to.     *)
WriteOnce(r) ==
    /\ pc[r] = "write"
    /\ target' \in {temp[r], "part"}
    /\ Goto(r, "chmod")
    /\ UNCHANGED <<mode, temp, st, source>>

(* ... and the loop that writes all of it.                                 *)
Write(r) ==
    /\ pc[r] = "write"
    /\ target' = temp[r]
    /\ Goto(r, "chmod")
    /\ UNCHANGED <<mode, temp, st, source>>

(* chmod(resolved, st.st_mode & 0777)                                      *)
Chmod(r) ==
    /\ pc[r] = "chmod"
    /\ mode' = st[r]
    /\ Goto(r, "return")
    /\ UNCHANGED <<target, temp, st, source>>

(* return 0                                                                *)
Return(r) ==
    /\ pc[r] = "return"
    /\ Cleanup(r)
    /\ Goto(r, "done")
    /\ UNCHANGED <<target, mode, st, source>>

(* Seeded bug: cleanup.path is not cleared, and temp goes as well.         *)
ReplaceFailsClean(r) ==
    /\ pc[r] \in {"unlink", "create", "write", "chmod"}
    /\ FailClean(r)
    /\ UNCHANGED <<target, mode, st, source>>

(* Any of these calls fails.                                               *)
ReplaceFails(r) ==
    /\ pc[r] \in {"unlink", "create", "write", "chmod"}
    /\ FailKept(r)
    /\ UNCHANGED <<target, mode, st, source>>

(* The process ends here: a signal, abort(), or an assertion that fails.   *)
Killed(r) ==
    /\ pc[r] \in Live
    /\ Goto(r, "killed")
    /\ UNCHANGED <<target, mode, temp, st, source>>

Next ==
    \E r \in Run :
        \/ Begin(r)
        \/ BeginFails(r)
        \/ Copy(r)
        \/ CopyFails(r)
        \/ Process(r)
        \/ Rewrite(r)
        \/ ProcessFails(r)
        \/ Unlink(r)
        \/ Create(r)
        \/ Write(r)
        \/ Chmod(r)
        \/ Return(r)
        \/ ReplaceFails(r)
        \/ Killed(r)

Spec == Init /\ [][Next]_vars

-----------------------------------------------------------------------------
(***************************************************************************)
(* Properties                                                              *)
(***************************************************************************)
(* Types of the files and of the runs; a live run has its temporary file.  *)
TypeOK ==
    /\ target \in Content \cup {NoFile}
    /\ mode \in Modes
    /\ temp \in [Run -> Content \cup {NoFile}]
    /\ pc \in [Run -> {"idle"} \cup Live \cup Ended]
    /\ st \in [Run -> Modes]
    /\ source \in [Run -> Content \cup {NoFile}]
    /\ \A r \in Run : pc[r] \in Live => temp[r] # NoFile

(***************************************************************************)
(* Whatever fails and wherever a run is killed, a whole copy of the        *)
(* mach-o is left: the target, or the temporary file of some run.          *)
(***************************************************************************)
NoLoss == target \in Whole \/ \E r \in Run : temp[r] \in Whole

(***************************************************************************)
(* The target is changed only by a run whose temporary file is finished:   *)
(* a run that fails or is killed before that has not touched it.           *)
(***************************************************************************)
ChangedWhenReady ==
    [][target' # target => \E r \in Run : temp[r] = Redirected(source[r])
                                            /\ pc[r] # pc'[r]]_vars

(***************************************************************************)
(* A run that reports success has installed what it made of the target,    *)
(* under the permission bits the target had before.                        *)
(***************************************************************************)
SuccessInstalls ==
    [][\A r \in Run : pc'[r] = "done" /\ pc[r] # "done" =>
          /\ target' = Redirected(source[r])
          /\ mode' = st[r]]_vars

(***************************************************************************)
(* A run that fails while it replaces the target leaves all that it made   *)
(* of it in its temporary file, wherever the replacement stopped.          *)
(***************************************************************************)
KeptIsFinished == \A r \in Run : pc[r] = "kept" => temp[r] = Redirected(source[r])
=============================================================================
