------------------------- MODULE SymRedirectProofs --------------------------
(***************************************************************************)
(* Whatever fails and wherever a run is killed, no mach-o is lost: NoLoss  *)
(* and the properties of a finished run hold for any number of runs.       *)
(***************************************************************************)
EXTENDS SymRedirect, TLAPS

(* Runs follow one another.                                                *)
OneLive == \A r, q \in Run : pc[r] \in Live /\ pc[q] \in Live => r = q

(* What a run's files hold at each point of the run.                       *)
Phase(r) ==
    /\ pc[r] = "idle" => temp[r] = NoFile
    /\ pc[r] = "copy" => temp[r] = "part" /\ target # NoFile
    /\ pc[r] \in {"process", "rewrite", "unlink"} => source[r] = target
    /\ pc[r] = "process" => temp[r] = target
    /\ pc[r] = "rewrite" => temp[r] = "half"
    /\ pc[r] \in {"unlink", "create", "write", "chmod", "return", "kept"} =>
          temp[r] = Redirected(source[r])
    /\ pc[r] = "create" => target = NoFile
    /\ pc[r] = "write" => target = "part"
    /\ pc[r] \in {"chmod", "return"} => target = temp[r]
    /\ pc[r] = "return" => mode = st[r]

Phases == \A r \in Run : Phase(r)

IInv == TypeOK /\ OneLive /\ Phases /\ NoLoss

-----------------------------------------------------------------------------
LEMMA Files == NoFile \notin Whole /\ "part" \notin Whole /\ "half" \notin Whole
  BY NoFileAssumption DEF Whole

(* What comes out of processMachO() is never nothing, and is whole when    *)
(* what went in was whole.                                                 *)
LEMMA RedirectedWhole ==
    ASSUME NEW content
    PROVE  /\ Redirected(content) \in Content \ {NoFile}
           /\ content \in Whole => Redirected(content) \in Whole
  BY NoFileAssumption DEF Redirected, Content, Whole

LEMMA InitIInv == Init => IInv
<1> SUFFICES ASSUME Init PROVE IInv
  OBVIOUS
<1>1. TypeOK
  BY ModesAssumption DEF Init, TypeOK, Content, Live
<1>2. OneLive /\ Phases
  BY DEF Init, OneLive, Phases, Phase, Live
<1>3. NoLoss
  BY DEF Init, NoLoss
<1> QED
  BY <1>1, <1>2, <1>3 DEF IInv

(* Only one run is live after a step.                                      *)
LEMMA NextOneLive == TypeOK /\ OneLive /\ [Next]_vars => OneLive'
<1> SUFFICES ASSUME TypeOK, OneLive, [Next]_vars PROVE OneLive'
  OBVIOUS
<1>1. CASE UNCHANGED vars
  BY <1>1 DEF vars, OneLive
<1>2. ASSUME NEW r \in Run, Begin(r) PROVE OneLive'
  BY <1>2 DEF Begin, Goto, OneLive, TypeOK
<1>3. ASSUME NEW r \in Run, NEW l, pc' = [pc EXCEPT ![r] = l],
             pc[r] \in Live \/ l \notin Live
      PROVE  OneLive'
  BY <1>3 DEF OneLive, TypeOK
<1>4. ASSUME NEW r \in Run, BeginFails(r) PROVE OneLive'
  BY <1>4, <1>3 DEF BeginFails, Goto, Live
<1>5. ASSUME NEW r \in Run, Copy(r) PROVE OneLive'
  BY <1>5, <1>3 DEF Copy, Goto, Live
<1>6. ASSUME NEW r \in Run, CopyFails(r) PROVE OneLive'
  BY <1>6, <1>3 DEF CopyFails, FailClean, Goto, Live
<1>7. ASSUME NEW r \in Run, Process(r) PROVE OneLive'
  BY <1>7, <1>3 DEF Process, Goto, Live
<1>8. ASSUME NEW r \in Run, Rewrite(r) PROVE OneLive'
  BY <1>8, <1>3 DEF Rewrite, Goto, Live
<1>9. ASSUME NEW r \in Run, ProcessFails(r) PROVE OneLive'
  BY <1>9, <1>3 DEF ProcessFails, FailClean, Goto, Live
<1>10. ASSUME NEW r \in Run, Unlink(r) PROVE OneLive'
  BY <1>10, <1>3 DEF Unlink, Goto, Live
<1>11. ASSUME NEW r \in Run, Create(r) PROVE OneLive'
  BY <1>11, <1>3 DEF Create, Goto, Live
<1>12. ASSUME NEW r \in Run, Write(r) PROVE OneLive'
  BY <1>12, <1>3 DEF Write, Goto, Live
<1>13. ASSUME NEW r \in Run, Chmod(r) PROVE OneLive'
  BY <1>13, <1>3 DEF Chmod, Goto, Live
<1>14. ASSUME NEW r \in Run, Return(r) PROVE OneLive'
  BY <1>14, <1>3 DEF Return, Goto, Live
<1>15. ASSUME NEW r \in Run, ReplaceFails(r) PROVE OneLive'
  BY <1>15, <1>3 DEF ReplaceFails, FailKept, Goto, Live
<1>16. ASSUME NEW r \in Run, Killed(r) PROVE OneLive'
  BY <1>16, <1>3 DEF Killed, Goto, Live
<1> QED
  BY <1>1, <1>2, <1>4, <1>5, <1>6, <1>7, <1>8, <1>9, <1>10, <1>11, <1>12, <1>13,
     <1>14, <1>15, <1>16 DEF Next

(* What a run does to its own files cannot lose the last whole copy when   *)
(* there is one among the target and its temporary file afterwards.        *)
LEMMA Survives ==
    ASSUME NoLoss, NEW r \in Run,
           \A q \in Run \ {r} : temp'[q] = temp[q],
           target \in Whole \/ temp[r] \in Whole =>
              target' \in Whole \/ temp'[r] \in Whole
    PROVE  NoLoss'
  BY DEF NoLoss

(* The phases of the runs that do not take a step: they are not live, and  *)
(* all that is said of them is what their temporary files hold.            *)
LEMMA OthersPhase ==
    ASSUME TypeOK, Phases,
           NEW r \in Run,
           \A q \in Run \ {r} :
              /\ pc[q] \notin Live
              /\ pc'[q] = pc[q] /\ temp'[q] = temp[q] /\ source'[q] = source[q],
           Phase(r)'
    PROVE  Phases'
<1> SUFFICES ASSUME NEW q \in Run, q # r PROVE Phase(q)'
  BY DEF Phases
<1>1. Phase(q) /\ pc[q] \notin Live /\ pc'[q] = pc[q]
  BY DEF Phases
<1> QED
  BY <1>1 DEF Phase, Live

(* What is left to show of a step of a live run: the types, the phase it   *)
(* reaches and the whole copy.                                             *)
LEMMA LiveStep ==
    ASSUME IInv, OneLive', NEW r \in Run, pc[r] \in Live,
           NEW l, pc' = [pc EXCEPT ![r] = l],
           \A q \in Run \ {r} : temp'[q] = temp[q] /\ source'[q] = source[q],
           TypeOK', Phase(r)',
           target \in Whole \/ temp[r] \in Whole =>
              target' \in Whole \/ temp'[r] \in Whole
    PROVE  IInv'
<1>1. \A q \in Run \ {r} : pc[q] \notin Live /\ pc'[q] = pc[q]
  BY DEF IInv, OneLive, TypeOK
<1>2. Phases'
  BY <1>1, OthersPhase DEF IInv
<1>3. NoLoss'
  BY Survives DEF IInv
<1> QED
  BY <1>2, <1>3 DEF IInv

LEMMA BeginStep ==
    ASSUME IInv, OneLive', NEW r \in Run, Begin(r) \/ BeginFails(r)
    PROVE  IInv'
<1> USE DEF Goto, Temp, Cleanup
<1>1. TypeOK'
  BY NoFileAssumption DEF IInv, TypeOK, Begin, BeginFails, Content, Live, Ended, Whole
<1>2. \A q \in Run \ {r} :
         /\ pc[q] \notin Live
         /\ pc'[q] = pc[q] /\ temp'[q] = temp[q] /\ source'[q] = source[q]
  BY DEF IInv, TypeOK, Begin, BeginFails
<1>3. Phase(r)'
  BY DEF IInv, TypeOK, Begin, BeginFails, Phase
<1>4. temp[r] = NoFile /\ target' = target
  BY DEF IInv, Phases, Phase, Begin, BeginFails
<1> QED
  BY <1>1, <1>2, <1>3, <1>4, OthersPhase, Survives, Files DEF IInv

LEMMA CopyStep ==
    ASSUME IInv, OneLive', NEW r \in Run, Copy(r)
    PROVE  IInv'
<1> USE DEF Goto, Temp, Cleanup
<1>1. pc[r] \in Live /\ Phase(r)
  BY DEF IInv, Phases, Copy, Live
<1>2. TypeOK'
  BY <1>1, NoFileAssumption, ModesAssumption, RedirectedWhole
     DEF IInv, TypeOK, Copy, Content, Live, Ended, Whole, Phase
<1>3. Phase(r)'
  BY <1>1 DEF IInv, TypeOK, Copy, Phase
<1>4. target \in Whole \/ temp[r] \in Whole =>
         target' \in Whole \/ temp'[r] \in Whole
  BY <1>1, Files, RedirectedWhole DEF IInv, TypeOK, Copy, Phase
<1>5. /\ \E l : pc' = [pc EXCEPT ![r] = l]
      /\ \A q \in Run \ {r} : temp'[q] = temp[q] /\ source'[q] = source[q]
  BY DEF IInv, TypeOK, Copy
<1> QED
  BY <1>1, <1>2, <1>3, <1>4, <1>5, LiveStep

LEMMA FailStep ==
    ASSUME IInv, OneLive', NEW r \in Run, CopyFails(r) \/ ProcessFails(r)
    PROVE  IInv'
<1> USE DEF Goto, Temp, Cleanup
<1>1. pc[r] \in Live /\ Phase(r)
  BY DEF IInv, Phases, CopyFails, ProcessFails, Live
<1>2. TypeOK'
  BY <1>1, NoFileAssumption, ModesAssumption, RedirectedWhole
     DEF IInv, TypeOK, CopyFails, ProcessFails, FailClean, Content, Live, Ended, Whole, Phase
<1>3. Phase(r)'
  BY <1>1 DEF IInv, TypeOK, CopyFails, ProcessFails, FailClean, Phase
<1>4. target \in Whole \/ temp[r] \in Whole =>
         target' \in Whole \/ temp'[r] \in Whole
  BY <1>1, Files, RedirectedWhole DEF IInv, TypeOK, CopyFails, ProcessFails, FailClean, Phase
<1>5. /\ \E l : pc' = [pc EXCEPT ![r] = l]
      /\ \A q \in Run \ {r} : temp'[q] = temp[q] /\ source'[q] = source[q]
  BY DEF IInv, TypeOK, CopyFails, ProcessFails, FailClean
<1> QED
  BY <1>1, <1>2, <1>3, <1>4, <1>5, LiveStep

LEMMA ProcessStep ==
    ASSUME IInv, OneLive', NEW r \in Run, Process(r)
    PROVE  IInv'
<1> USE DEF Goto, Temp, Cleanup
<1>1. pc[r] \in Live /\ Phase(r)
  BY DEF IInv, Phases, Process, Live
<1>2. TypeOK'
  BY <1>1, NoFileAssumption, ModesAssumption, RedirectedWhole
     DEF IInv, TypeOK, Process, Content, Live, Ended, Whole, Phase
<1>3. Phase(r)'
  BY <1>1 DEF IInv, TypeOK, Process, Phase
<1>4. target \in Whole \/ temp[r] \in Whole =>
         target' \in Whole \/ temp'[r] \in Whole
  BY <1>1, Files, RedirectedWhole DEF IInv, TypeOK, Process, Phase
<1>5. /\ \E l : pc' = [pc EXCEPT ![r] = l]
      /\ \A q \in Run \ {r} : temp'[q] = temp[q] /\ source'[q] = source[q]
  BY DEF IInv, TypeOK, Process
<1> QED
  BY <1>1, <1>2, <1>3, <1>4, <1>5, LiveStep

LEMMA RewriteStep ==
    ASSUME IInv, OneLive', NEW r \in Run, Rewrite(r)
    PROVE  IInv'
<1> USE DEF Goto, Temp, Cleanup
<1>1. pc[r] \in Live /\ Phase(r)
  BY DEF IInv, Phases, Rewrite, Live
<1>2. TypeOK'
  BY <1>1, NoFileAssumption, ModesAssumption, RedirectedWhole
     DEF IInv, TypeOK, Rewrite, Content, Live, Ended, Whole, Phase
<1>3. Phase(r)'
  BY <1>1 DEF IInv, TypeOK, Rewrite, Phase
<1>4. target \in Whole \/ temp[r] \in Whole =>
         target' \in Whole \/ temp'[r] \in Whole
  BY <1>1, Files, RedirectedWhole DEF IInv, TypeOK, Rewrite, Phase
<1>5. /\ \E l : pc' = [pc EXCEPT ![r] = l]
      /\ \A q \in Run \ {r} : temp'[q] = temp[q] /\ source'[q] = source[q]
  BY DEF IInv, TypeOK, Rewrite
<1> QED
  BY <1>1, <1>2, <1>3, <1>4, <1>5, LiveStep

LEMMA UnlinkStep ==
    ASSUME IInv, OneLive', NEW r \in Run, Unlink(r)
    PROVE  IInv'
<1> USE DEF Goto, Temp, Cleanup
<1>1. pc[r] \in Live /\ Phase(r)
  BY DEF IInv, Phases, Unlink, Live
<1>2. TypeOK'
  BY <1>1, NoFileAssumption, ModesAssumption, RedirectedWhole
     DEF IInv, TypeOK, Unlink, Content, Live, Ended, Whole, Phase
<1>3. Phase(r)'
  BY <1>1 DEF IInv, TypeOK, Unlink, Phase
<1>4. target \in Whole \/ temp[r] \in Whole =>
         target' \in Whole \/ temp'[r] \in Whole
  BY <1>1, Files, RedirectedWhole DEF IInv, TypeOK, Unlink, Phase
<1>5. /\ \E l : pc' = [pc EXCEPT ![r] = l]
      /\ \A q \in Run \ {r} : temp'[q] = temp[q] /\ source'[q] = source[q]
  BY DEF IInv, TypeOK, Unlink
<1> QED
  BY <1>1, <1>2, <1>3, <1>4, <1>5, LiveStep

LEMMA CreateStep ==
    ASSUME IInv, OneLive', NEW r \in Run, Create(r)
    PROVE  IInv'
<1> USE DEF Goto, Temp, Cleanup
<1>1. pc[r] \in Live /\ Phase(r)
  BY DEF IInv, Phases, Create, Live
<1>2. TypeOK'
  BY <1>1, NoFileAssumption, ModesAssumption, RedirectedWhole
     DEF IInv, TypeOK, Create, Content, Live, Ended, Whole, Phase
<1>3. Phase(r)'
  BY <1>1 DEF IInv, TypeOK, Create, Phase
<1>4. target \in Whole \/ temp[r] \in Whole =>
         target' \in Whole \/ temp'[r] \in Whole
  BY <1>1, Files, RedirectedWhole DEF IInv, TypeOK, Create, Phase
<1>5. /\ \E l : pc' = [pc EXCEPT ![r] = l]
      /\ \A q \in Run \ {r} : temp'[q] = temp[q] /\ source'[q] = source[q]
  BY DEF IInv, TypeOK, Create
<1> QED
  BY <1>1, <1>2, <1>3, <1>4, <1>5, LiveStep

LEMMA WriteStep ==
    ASSUME IInv, OneLive', NEW r \in Run, Write(r)
    PROVE  IInv'
<1> USE DEF Goto, Temp, Cleanup
<1>1. pc[r] \in Live /\ Phase(r)
  BY DEF IInv, Phases, Write, Live
<1>2. TypeOK'
  BY <1>1, NoFileAssumption, ModesAssumption, RedirectedWhole
     DEF IInv, TypeOK, Write, Content, Live, Ended, Whole, Phase
<1>3. Phase(r)'
  BY <1>1 DEF IInv, TypeOK, Write, Phase
<1>4. target \in Whole \/ temp[r] \in Whole =>
         target' \in Whole \/ temp'[r] \in Whole
  BY <1>1, Files, RedirectedWhole DEF IInv, TypeOK, Write, Phase
<1>5. /\ \E l : pc' = [pc EXCEPT ![r] = l]
      /\ \A q \in Run \ {r} : temp'[q] = temp[q] /\ source'[q] = source[q]
  BY DEF IInv, TypeOK, Write
<1> QED
  BY <1>1, <1>2, <1>3, <1>4, <1>5, LiveStep

LEMMA ChmodStep ==
    ASSUME IInv, OneLive', NEW r \in Run, Chmod(r)
    PROVE  IInv'
<1> USE DEF Goto, Temp, Cleanup
<1>1. pc[r] \in Live /\ Phase(r)
  BY DEF IInv, Phases, Chmod, Live
<1>2. TypeOK'
  BY <1>1, NoFileAssumption, ModesAssumption, RedirectedWhole
     DEF IInv, TypeOK, Chmod, Content, Live, Ended, Whole, Phase
<1>3. Phase(r)'
  BY <1>1 DEF IInv, TypeOK, Chmod, Phase
<1>4. target \in Whole \/ temp[r] \in Whole =>
         target' \in Whole \/ temp'[r] \in Whole
  BY <1>1, Files, RedirectedWhole DEF IInv, TypeOK, Chmod, Phase
<1>5. /\ \E l : pc' = [pc EXCEPT ![r] = l]
      /\ \A q \in Run \ {r} : temp'[q] = temp[q] /\ source'[q] = source[q]
  BY DEF IInv, TypeOK, Chmod
<1> QED
  BY <1>1, <1>2, <1>3, <1>4, <1>5, LiveStep

LEMMA ReturnStep ==
    ASSUME IInv, OneLive', NEW r \in Run, Return(r)
    PROVE  IInv'
<1> USE DEF Goto, Temp, Cleanup
<1>1. pc[r] \in Live /\ Phase(r)
  BY DEF IInv, Phases, Return, Live
<1>2. TypeOK'
  BY <1>1, NoFileAssumption, ModesAssumption, RedirectedWhole
     DEF IInv, TypeOK, Return, Content, Live, Ended, Whole, Phase
<1>3. Phase(r)'
  BY <1>1 DEF IInv, TypeOK, Return, Phase
<1>4. target \in Whole \/ temp[r] \in Whole =>
         target' \in Whole \/ temp'[r] \in Whole
  BY <1>1, Files, RedirectedWhole DEF IInv, TypeOK, Return, Phase
<1>5. /\ \E l : pc' = [pc EXCEPT ![r] = l]
      /\ \A q \in Run \ {r} : temp'[q] = temp[q] /\ source'[q] = source[q]
  BY DEF IInv, TypeOK, Return
<1> QED
  BY <1>1, <1>2, <1>3, <1>4, <1>5, LiveStep

LEMMA ReplaceFailsStep ==
    ASSUME IInv, OneLive', NEW r \in Run, ReplaceFails(r)
    PROVE  IInv'
<1> USE DEF Goto, Temp, Cleanup
<1>1. pc[r] \in Live /\ Phase(r)
  BY DEF IInv, Phases, ReplaceFails, Live
<1>2. TypeOK'
  BY <1>1, NoFileAssumption, ModesAssumption, RedirectedWhole
     DEF IInv, TypeOK, ReplaceFails, FailKept, Content, Live, Ended, Whole, Phase
<1>3. Phase(r)'
  BY <1>1 DEF IInv, TypeOK, ReplaceFails, FailKept, Phase
<1>4. target \in Whole \/ temp[r] \in Whole =>
         target' \in Whole \/ temp'[r] \in Whole
  BY <1>1, Files, RedirectedWhole DEF IInv, TypeOK, ReplaceFails, FailKept, Phase
<1>5. /\ \E l : pc' = [pc EXCEPT ![r] = l]
      /\ \A q \in Run \ {r} : temp'[q] = temp[q] /\ source'[q] = source[q]
  BY DEF IInv, TypeOK, ReplaceFails, FailKept
<1> QED
  BY <1>1, <1>2, <1>3, <1>4, <1>5, LiveStep

LEMMA KilledStep ==
    ASSUME IInv, OneLive', NEW r \in Run, Killed(r)
    PROVE  IInv'
<1> USE DEF Goto, Temp, Cleanup
<1>1. pc[r] \in Live /\ Phase(r)
  BY DEF IInv, Phases, Killed, Live
<1>2. TypeOK'
  BY <1>1, NoFileAssumption, ModesAssumption, RedirectedWhole
     DEF IInv, TypeOK, Killed, Content, Live, Ended, Whole, Phase
<1>3. Phase(r)'
  BY <1>1 DEF IInv, TypeOK, Killed, Phase
<1>4. target \in Whole \/ temp[r] \in Whole =>
         target' \in Whole \/ temp'[r] \in Whole
  BY <1>1, Files, RedirectedWhole DEF IInv, TypeOK, Killed, Phase
<1>5. /\ \E l : pc' = [pc EXCEPT ![r] = l]
      /\ \A q \in Run \ {r} : temp'[q] = temp[q] /\ source'[q] = source[q]
  BY DEF IInv, TypeOK, Killed
<1> QED
  BY <1>1, <1>2, <1>3, <1>4, <1>5, LiveStep

LEMMA NextIInv == IInv /\ [Next]_vars => IInv'
<1> SUFFICES ASSUME IInv, [Next]_vars PROVE IInv'
  OBVIOUS
<1>1. OneLive'
  BY NextOneLive DEF IInv
<1>2. CASE UNCHANGED vars
  BY <1>2 DEF vars, IInv, TypeOK, OneLive, Phases, Phase, NoLoss
<1>3. CASE Next
  BY <1>1, <1>3, BeginStep, CopyStep, FailStep, ProcessStep, RewriteStep, UnlinkStep,
     CreateStep, WriteStep, ChmodStep, ReturnStep, ReplaceFailsStep, KilledStep DEF Next
<1> QED
  BY <1>2, <1>3

-----------------------------------------------------------------------------
(* The inductive invariant of the runs holds in every state.               *)
THEOREM Invariance == Spec => []IInv
<1>1. IInv /\ [Next]_vars => IInv'
  BY NextIInv
<1> QED
  BY InitIInv, <1>1, PTL DEF Spec

(* The files and the runs have their types.                                *)
THEOREM TypeCorrect == Spec => []TypeOK
<1>1. IInv => TypeOK
  BY DEF IInv
<1> QED
  BY Invariance, <1>1, PTL

(* Whatever fails and wherever a run is killed, a whole copy is left, for  *)
(* any number of runs.                                                     *)
THEOREM NothingLost == Spec => []NoLoss
<1>1. IInv => NoLoss
  BY DEF IInv
<1> QED
  BY Invariance, <1>1, PTL

(* A run that fails while it replaces the target leaves all it made.       *)
THEOREM Kept == Spec => []KeptIsFinished
<1>1. IInv => KeptIsFinished
  BY DEF IInv, Phases, Phase, KeptIsFinished
<1> QED
  BY Invariance, <1>1, PTL

(* Success means that the result is installed under the old permissions.   *)
THEOREM Success == Spec => SuccessInstalls
<1>1. IInv /\ [Next]_vars =>
         [\A r \in Run : pc'[r] = "done" /\ pc[r] # "done" =>
             /\ target' = Redirected(source[r])
             /\ mode' = st[r]]_vars
  <2> SUFFICES ASSUME IInv, Next,
                      NEW r \in Run, pc'[r] = "done", pc[r] # "done"
               PROVE  target' = Redirected(source[r]) /\ mode' = st[r]
    OBVIOUS
  <2>1. pc \in [Run -> {"idle"} \cup Live \cup Ended]
    BY DEF IInv, TypeOK
  <2>2. Return(r)
    BY <2>1 DEF Next, Begin, BeginFails, Copy, CopyFails, Process, Rewrite, ProcessFails,
       Unlink, Create, Write, Chmod, Return, ReplaceFails, Killed, FailClean, FailKept, Goto
  <2> QED
    BY <2>2 DEF IInv, Phases, Phase, Return
<1> QED
  BY Invariance, <1>1, PTL DEF Spec, SuccessInstalls

(* The target is changed only by a run whose temporary file is finished.   *)
THEOREM ReadyFirst == Spec => ChangedWhenReady
<1>1. IInv /\ [Next]_vars =>
         [target' # target => \E r \in Run : temp[r] = Redirected(source[r])
                                                /\ pc[r] # pc'[r]]_vars
  <2> SUFFICES ASSUME IInv, Next, target' # target
               PROVE  \E r \in Run : temp[r] = Redirected(source[r]) /\ pc[r] # pc'[r]
    OBVIOUS
  <2>1. PICK r \in Run : Unlink(r) \/ Create(r) \/ Write(r)
    BY DEF Next, Begin, BeginFails, Copy, CopyFails, Process, Rewrite, ProcessFails, Chmod,
       Return, ReplaceFails, Killed
  <2>2. temp[r] = Redirected(source[r])
    BY <2>1 DEF IInv, Phases, Phase, Unlink, Create, Write
  <2>3. pc[r] # pc'[r]
    BY <2>1 DEF IInv, TypeOK, Unlink, Create, Write, Goto
  <2> QED
    BY <2>2, <2>3
<1> QED
  BY Invariance, <1>1, PTL DEF Spec, ChangedWhenReady
=============================================================================
