---------------------------- MODULE MkTempProofs ----------------------------
(***************************************************************************)
(* What mkstemp, mkdtemp and their variants promise about the name they    *)
(* return holds for any number of processes, any length of the template    *)
(* and any alphabet; the odometer visits every name once, from any start.  *)
(***************************************************************************)
EXTENDS MkTemp, FiniteSetTheorems, WellFoundedInduction, TLAPS

(* OwnsItsFile without its second half, which follows from it: a name has  *)
(* one creator.                                                            *)
Owned ==
    \A p \in Proc : pc[p] = "done" /\ Creates(p) => dir[path[p]] = p

IInv == TypeOK /\ Owned

-----------------------------------------------------------------------------
(* Turning a name gives a name: padchar[0] comes after the last character. *)
LEMMA TurnNameType ==
    ASSUME TypeOK, NEW p \in Proc
    PROVE  TurnName(p) \in Candidate
<1>1. path[p] \in [Position -> Char]
  BY DEF TypeOK, Candidate
<1>2. ASSUME NEW i \in Position
      PROVE  Turned(path[p][i]) \in Char
  <2>1. path[p][i] \in Nat
    BY <1>1 DEF Char
  <2>2. (path[p][i] + 1) % Pads \in 0 .. Pads - 1
    BY <2>1, PadsAssumption
  <2> QED
    BY <2>2 DEF Turned, Char
<1>3. \A i \in Position : path[p][i] \in Char
  BY <1>1
<1> QED
  BY <1>2, <1>3 DEF TurnName, Candidate

(* The initial states satisfy the invariant.                               *)
LEMMA InitIInv == Init => IInv
<1> SUFFICES ASSUME Init PROVE IInv
  OBVIOUS
<1>1. [i \in Position |-> 0] \in Candidate
  BY PadsAssumption DEF Candidate, Char
<1>2. TypeOK
  BY <1>1 DEF Init, TypeOK
<1>3. Owned
  BY DEF Init, Owned
<1> QED
  BY <1>2, <1>3 DEF IInv

(* Every step of every process keeps the types.                            *)
LEMMA NextTypeOK == TypeOK /\ [Next]_vars => TypeOK'
<1> SUFFICES ASSUME TypeOK, [Next]_vars PROVE TypeOK'
  OBVIOUS
<1> USE DEF TypeOK
<1>1. ASSUME NEW p \in Proc, Fill(p) PROVE TypeOK'
  BY <1>1 DEF Fill, Goto
<1>2. ASSUME NEW p \in Proc, StatBaseDir(p) PROVE TypeOK'
  BY <1>2 DEF StatBaseDir, Goto
<1>3. ASSUME NEW p \in Proc, StatBaseDirFails(p) PROVE TypeOK'
  BY <1>3 DEF StatBaseDirFails, Fail, Goto
<1>4. ASSUME NEW p \in Proc, TryDone(p) PROVE TypeOK'
  BY <1>4 DEF TryDone, Goto
<1>5. ASSUME NEW p \in Proc, TryNext(p) PROVE TypeOK'
  BY <1>5 DEF TryNext, Goto
<1>6. ASSUME NEW p \in Proc, TryError(p) PROVE TypeOK'
  BY <1>6 DEF TryError, Fail, Goto
<1>7. ASSUME NEW p \in Proc, Turn(p) PROVE TypeOK'
  BY <1>7, TurnNameType DEF Turn, Fail, Goto
<1>8. ASSUME NEW p \in Proc, Open(p) PROVE TypeOK'
  BY <1>8 DEF Open, Goto
<1>9. ASSUME NEW p \in Proc, Remove(p) PROVE TypeOK'
  <2>1. [i \in Position |-> 0] \in Candidate
    BY PadsAssumption DEF Candidate, Char
  <2> QED
    BY <1>9, <2>1 DEF Remove, Goto
<1>10. CASE UNCHANGED vars
  BY <1>10 DEF vars
<1> QED
  BY <1>1, <1>2, <1>3, <1>4, <1>5, <1>6, <1>7, <1>8, <1>9, <1>10
     DEF Next, FindTempPath

(* A name that a call created stays that call's until its caller removes   *)
(* it: the others create only where nothing is, and remove only their own. *)
LEMMA NextOwned == TypeOK /\ Owned /\ [Next]_vars => Owned'
<1> SUFFICES ASSUME TypeOK, Owned, [Next]_vars,
                    NEW q \in Proc, pc'[q] = "done", Creates(q)'
             PROVE  dir'[path'[q]] = q
  BY DEF Owned
<1> USE DEF TypeOK
<1>nobody. q # Nobody
  BY NobodyAssumption
<1>creates. action' = action => Creates(q)
  BY DEF Creates
<1>keep. ASSUME UNCHANGED <<dir, action, path>>, pc'[q] = "done" => pc[q] = "done"
         PROVE  dir'[path'[q]] = q
  BY <1>keep, <1>creates DEF Owned
<1>1. ASSUME NEW p \in Proc, Fill(p) PROVE dir'[path'[q]] = q
  <2>1. pc'[p] # "done" /\ p # q
    BY <1>1 DEF Fill, Goto
  <2>2. pc[q] = "done" /\ path'[q] = path[q] /\ UNCHANGED <<dir, action>>
    BY <1>1, <2>1 DEF Fill, Goto
  <2> QED
    BY <2>2, <1>creates DEF Owned
<1>2. ASSUME NEW p \in Proc, StatBaseDir(p) PROVE dir'[path'[q]] = q
  BY <1>2, <1>keep DEF StatBaseDir, Goto
<1>3. ASSUME NEW p \in Proc, StatBaseDirFails(p) PROVE dir'[path'[q]] = q
  BY <1>3, <1>keep DEF StatBaseDirFails, Fail, Goto
<1>4. ASSUME NEW p \in Proc, TryDone(p) PROVE dir'[path'[q]] = q
  <2>1. CASE p = q
    BY <1>4, <2>1, <1>creates DEF TryDone
  <2>2. CASE p # q
    <3>1. pc[q] = "done" /\ Creates(q) /\ path' = path
      BY <1>4, <2>2, <1>creates DEF TryDone, Goto
    <3>2. dir[path[q]] = q
      BY <3>1 DEF Owned
    <3>3. path[q] # path[p]
      BY <3>2, <1>4, <1>nobody DEF TryDone
    <3> QED
      BY <3>1, <3>2, <3>3, <1>4 DEF TryDone
  <2> QED
    BY <2>1, <2>2
<1>5. ASSUME NEW p \in Proc, TryNext(p) PROVE dir'[path'[q]] = q
  BY <1>5, <1>keep DEF TryNext, Goto
<1>6. ASSUME NEW p \in Proc, TryError(p) PROVE dir'[path'[q]] = q
  BY <1>6, <1>keep DEF TryError, Fail, Goto
<1>7. ASSUME NEW p \in Proc, Turn(p) PROVE dir'[path'[q]] = q
  <2>1. pc'[p] # "done" /\ p # q
    BY <1>7 DEF Turn, Fail, Goto
  <2>2. pc[q] = "done" /\ path'[q] = path[q] /\ UNCHANGED <<dir, action>>
    BY <1>7, <2>1 DEF Turn, Fail, Goto
  <2> QED
    BY <2>2, <1>creates DEF Owned
<1>8. ASSUME NEW p \in Proc, Open(p) PROVE dir'[path'[q]] = q
  <2>1. pc'[p] # "done" /\ p # q
    BY <1>8 DEF Open, Goto
  <2>2. pc[q] = "done" /\ Creates(q) /\ path' = path
    BY <1>8, <2>1, <1>creates DEF Open, Goto
  <2>3. dir[path[q]] = q
    BY <2>2 DEF Owned
  <2>4. CASE dir[path[p]] = Nobody
    <3>1. path[q] # path[p]
      BY <2>3, <2>4, <1>nobody
    <3> QED
      BY <2>2, <2>3, <2>4, <3>1, <1>8 DEF Open
  <2>5. CASE dir[path[p]] # Nobody
    BY <2>2, <2>3, <2>5, <1>8 DEF Open
  <2> QED
    BY <2>4, <2>5
<1>9. ASSUME NEW p \in Proc, Remove(p) PROVE dir'[path'[q]] = q
  <2>1. pc'[p] # "done" /\ p # q
    BY <1>9 DEF Remove, Goto
  <2>2. pc[q] = "done" /\ Creates(q) /\ path'[q] = path[q]
    BY <1>9, <2>1, <1>creates DEF Remove, Goto
  <2>3. dir[path[q]] = q /\ dir[path[p]] = p
    BY <2>2, <1>9 DEF Owned, Remove
  <2>4. path[q] # path[p]
    BY <2>1, <2>3
  <2> QED
    BY <2>2, <2>3, <2>4, <1>9 DEF Remove
<1>10. CASE UNCHANGED vars
  BY <1>10, <1>keep DEF vars
<1> QED
  BY <1>1, <1>2, <1>3, <1>4, <1>5, <1>6, <1>7, <1>8, <1>9, <1>10
     DEF Next, FindTempPath

-----------------------------------------------------------------------------
(* The inductive invariant of find_temp_path() holds in every state.       *)
THEOREM Invariance == Spec => []IInv
<1>1. IInv /\ [Next]_vars => IInv'
  BY NextTypeOK, NextOwned DEF IInv
<1> QED
  BY InitIInv, <1>1, PTL DEF Spec

(* The variables of find_temp_path() have their types, for any number of   *)
(* processes, X's and characters: the odometer stays within padchar.       *)
THEOREM TypeCorrect == Spec => []TypeOK
<1>1. IInv => TypeOK
  BY DEF IInv
<1> QED
  BY Invariance, <1>1, PTL

(* No two calls of mkstemp or mkdtemp return one name, and the file a call *)
(* returned is its own until its caller removes it.                        *)
THEOREM Ownership == Spec => []OwnsItsFile
<1>1. IInv => OwnsItsFile
  BY DEF IInv, Owned, OwnsItsFile
<1> QED
  BY Invariance, <1>1, PTL
-----------------------------------------------------------------------------
(* Among some positions there is a least one.  (The library's induction    *)
(* takes an operator; the well-foundedness of the proper subsets of a      *)
(* finite set does not, and the positions below a position are such a set.)*)
LEMMA Least ==
    ASSUME NEW N \in Nat, NEW T \in SUBSET (1 .. N), T # {}
    PROVE  \E x \in T : \A y \in T : x <= y
<1> DEFINE Below(x) == {z \in 1 .. N : z < x}
           Belows == {Below(x) : x \in T}
<1>1. IsWellFoundedOn(StrictSubsetOrdering(1 .. N), SUBSET (1 .. N))
  <2>1. IsFiniteSet(1 .. N)
    BY FS_Interval
  <2>2. FiniteSubsetsOf(1 .. N) = SUBSET (1 .. N)
    BY <2>1, FS_FiniteSubsetsOfFinite
  <2> QED
    BY <2>2, FS_StrictSubsetOrderingWellFounded
<1>2. Belows \subseteq SUBSET (1 .. N) /\ Belows # {}
  OBVIOUS
<1>3. PICK b \in Belows : \A c \in Belows : <<c, b>> \notin StrictSubsetOrdering(1 .. N)
  <2> HIDE DEF Belows
  <2> QED
    BY <1>1, <1>2, WFMin
<1>4. PICK x \in T : b = Below(x)
  OBVIOUS
<1>5. ASSUME NEW y \in T, y < x
      PROVE  FALSE
  <2>1. Below(y) \subseteq Below(x) /\ y \in Below(x) /\ y \notin Below(y)
    BY <1>5
  <2>2. <<Below(y), Below(x)>> \in StrictSubsetOrdering(1 .. N)
    <3>1. Below(y) \in SUBSET (1 .. N) /\ Below(x) \in SUBSET (1 .. N)
      OBVIOUS
    <3> HIDE DEF Below
    <3> QED
      BY <2>1, <3>1 DEF StrictSubsetOrdering
  <2> QED
    BY <1>3, <1>4, <2>2
<1> QED
  BY <1>5

(* ... and a greatest one.                                                 *)
LEMMA Greatest ==
    ASSUME NEW N \in Nat, NEW T \in SUBSET (1 .. N), T # {}
    PROVE  \E x \in T : \A y \in T : y <= x
<1> DEFINE M == {N + 1 - x : x \in T}
<1>1. M \in SUBSET (1 .. N) /\ M # {}
  <2>1. \A x \in T : N + 1 - x \in 1 .. N
    OBVIOUS
  <2> QED
    BY <2>1
<1>2. PICK m \in M : \A k \in M : m <= k
  <2> HIDE DEF M
  <2> QED
    BY <1>1, Least
<1>3. PICK x \in T : m = N + 1 - x
  OBVIOUS
<1>4. ASSUME NEW y \in T
      PROVE  y <= x
  <2>1. N + 1 - y \in M
    OBVIOUS
  <2>2. N + 1 - x <= N + 1 - y
    BY <1>2, <1>3, <2>1
  <2> QED
    BY <2>2
<1> QED
  BY <1>4

-----------------------------------------------------------------------------
(***************************************************************************)
(* The order in which the odometer visits the names.  Turns(x, f) is how   *)
(* often a position that started at f was turned to show x; a later        *)
(* position counts for more than all earlier ones.                         *)
(***************************************************************************)
Turns(x, f) == IF f <= x THEN x - f ELSE x + Pads - f

Before(c, b, f) ==
    \E i \in Position :
        /\ Turns(c[i], f[i]) < Turns(b[i], f[i])
        /\ \A j \in Position : j > i => c[j] = b[j]

Earlier(b, f) == {c \in Candidate : Before(c, b, f)}

(* What was tried is what comes before the candidate in the buffer.        *)
Odometer(p) ==
    /\ pc[p] \in {"idle", "stat"} => tried[p] = {}
    /\ pc[p] = "stat" => path[p] = first[p]
    /\ pc[p] = "try" => tried[p] = Earlier(path[p], first[p])
    /\ pc[p] = "turn" => tried[p] = Earlier(path[p], first[p]) \cup {path[p]}
    /\ errno[p] # "none" => pc[p] = "failed"
    /\ errno[p] = "EEXIST" => tried[p] = Candidate

OInv == TypeOK /\ \A p \in Proc : Odometer(p)

(* One turn counts as one, and the last comes back to the start.           *)
LEMMA TurnsOnce ==
    ASSUME NEW x \in Char, NEW f \in Char
    PROVE  /\ Turns(x, f) \in 0 .. Pads - 1
           /\ Turns(x, f) = 0 <=> x = f
           /\ Turned(x) \in Char
           /\ Turned(x) = f <=> Turns(x, f) = Pads - 1
           /\ Turned(x) # f => Turns(Turned(x), f) = Turns(x, f) + 1
<1>1. Turned(x) = IF x + 1 = Pads THEN 0 ELSE x + 1
  <2>1. CASE x + 1 = Pads
    BY <2>1, PadsAssumption DEF Turned, Char
  <2>2. CASE x + 1 # Pads
    BY <2>2, PadsAssumption DEF Turned, Char
  <2> QED
    BY <2>1, <2>2
<1> QED
  BY <1>1, PadsAssumption DEF Turns, Char

LEMMA TurnsInjective ==
    ASSUME NEW x \in Char, NEW y \in Char, NEW f \in Char, Turns(x, f) = Turns(y, f)
    PROVE  x = y
  BY PadsAssumption DEF Turns, Char

(* Two names differ in a last position.                                    *)
LEMMA LastDifference ==
    ASSUME NEW c \in Candidate, NEW b \in Candidate, c # b
    PROVE  \E i \in Position : c[i] # b[i] /\ \A j \in Position : j > i => c[j] = b[j]
<1> DEFINE T == {i \in Position : c[i] # b[i]}
<1>1. T \in SUBSET (1 .. Positions) /\ T # {}
  <2>1. c = [i \in Position |-> c[i]] /\ b = [i \in Position |-> b[i]]
    BY DEF Candidate
  <2> QED
    BY <2>1 DEF Position
<1>2. PICK i \in T : \A j \in T : j <= i
  <2> HIDE DEF T
  <2> QED
    BY <1>1, Greatest, PositionsAssumption
<1>3. \A j \in Position : j > i => c[j] = b[j]
  BY <1>2 DEF Position
<1> QED
  BY <1>3

(* Nothing comes before the first candidate, or before itself.             *)
LEMMA NothingBeforeFirst ==
    ASSUME NEW f \in Candidate
    PROVE  Earlier(f, f) = {}
<1> SUFFICES ASSUME NEW c \in Candidate, NEW i \in Position, Turns(c[i], f[i]) < Turns(f[i], f[i])
             PROVE  FALSE
  BY DEF Earlier, Before
<1>1. c[i] \in Char /\ f[i] \in Char
  BY DEF Candidate
<1>2. Turns(c[i], f[i]) \in 0 .. Pads - 1
  BY <1>1, TurnsOnce
<1>3. Turns(f[i], f[i]) = 0
  BY <1>1, TurnsOnce
<1> QED
  BY <1>2, <1>3

LEMMA NotBeforeItself ==
    ASSUME NEW c \in Candidate, NEW f \in Candidate
    PROVE  c \notin Earlier(c, f)
<1>1. \A i \in Position : Turns(c[i], f[i]) \in Int
  <2> TAKE i \in Position
  <2>1. c[i] \in Char /\ f[i] \in Char
    BY DEF Candidate
  <2>2. Turns(c[i], f[i]) \in 0 .. Pads - 1
    BY <2>1, TurnsOnce
  <2> QED
    BY <2>2
<1> QED
  BY <1>1 DEF Earlier, Before

(* When every position is about to be back at its start, every name but    *)
(* the one in the buffer comes before it.                                  *)
LEMMA LastName ==
    ASSUME NEW b \in Candidate, NEW f \in Candidate, \A j \in Position : Turned(b[j]) = f[j]
    PROVE  Earlier(b, f) \cup {b} = Candidate
<1> SUFFICES ASSUME NEW c \in Candidate, c # b
             PROVE  Before(c, b, f)
  BY DEF Earlier
<1>1. PICK i \in Position : c[i] # b[i] /\ \A j \in Position : j > i => c[j] = b[j]
  BY LastDifference
<1>2. b[i] \in Char /\ c[i] \in Char /\ f[i] \in Char
  BY DEF Candidate
<1>3. Turns(b[i], f[i]) = Pads - 1
  BY <1>2, TurnsOnce
<1>4. Turns(c[i], f[i]) # Turns(b[i], f[i])
  BY <1>1, <1>2, TurnsInjective
<1>5. Turns(c[i], f[i]) < Turns(b[i], f[i])
  <2>1. Turns(c[i], f[i]) \in 0 .. Pads - 1
    BY <1>2, TurnsOnce
  <2> QED
    BY <2>1, <1>3, <1>4, PadsAssumption
<1> QED
  BY <1>1, <1>5 DEF Before

(* A turn that stops at position k moves to the next name: what comes      *)
(* before it is what came before the old name, and the old name.           *)
LEMMA NextName ==
    ASSUME NEW f \in Candidate, NEW b \in Candidate, NEW n \in Candidate,
           NEW k \in Position, Turned(b[k]) # f[k],
           \A j \in Position : j < k => Turned(b[j]) = f[j],
           \A i \in Position : n[i] = IF i <= k THEN Turned(b[i]) ELSE b[i]
    PROVE  Earlier(n, f) = Earlier(b, f) \cup {b}
<1>1. \A i \in Position : b[i] \in Char /\ f[i] \in Char /\ i \in Nat
  BY DEF Candidate, Position
<1>2. /\ Turns(b[k], f[k]) \in Nat
      /\ Turns(n[k], f[k]) = Turns(b[k], f[k]) + 1
  <2>1. n[k] = Turned(b[k])
    BY <1>1
  <2>2. Turns(b[k], f[k]) \in 0 .. Pads - 1
    BY <1>1, TurnsOnce
  <2> QED
    BY <2>1, <2>2, <1>1, TurnsOnce, PadsAssumption
<1>3. \A j \in Position : j > k => n[j] = b[j]
  BY <1>1
<1>4. \A j \in Position : j < k => Turns(n[j], f[j]) = 0 /\ Turns(b[j], f[j]) = Pads - 1
  <2> SUFFICES ASSUME NEW j \in Position, j < k
               PROVE  Turns(n[j], f[j]) = 0 /\ Turns(b[j], f[j]) = Pads - 1
    OBVIOUS
  <2>1. n[j] = f[j] /\ Turned(b[j]) = f[j]
    BY <1>1
  <2> QED
    BY <2>1, <1>1, TurnsOnce
<1>5. ASSUME NEW c \in Candidate, Before(c, b, f) \/ c = b
      PROVE  Before(c, n, f)
  <2>1. CASE c = b
    <3>1. Turns(c[k], f[k]) < Turns(n[k], f[k])
      BY <2>1, <1>2
    <3> QED
      BY <2>1, <3>1, <1>3 DEF Before
  <2>2. CASE Before(c, b, f)
    <3>1. PICK i \in Position : /\ Turns(c[i], f[i]) < Turns(b[i], f[i])
                                /\ \A j \in Position : j > i => c[j] = b[j]
      BY <2>2 DEF Before
    <3>2. CASE i > k
      <4>1. n[i] = b[i] /\ \A j \in Position : j > i => c[j] = n[j]
        BY <3>1, <3>2, <1>1, <1>3
      <4> QED
        BY <3>1, <4>1 DEF Before
    <3>3. CASE i <= k
      <4>1. \A j \in Position : j > k => c[j] = n[j]
        BY <3>1, <3>3, <1>1, <1>3
      <4>2. Turns(c[k], f[k]) < Turns(n[k], f[k])
        <5>1. c[k] \in Char
          BY DEF Candidate
        <5>2. Turns(c[k], f[k]) \in Nat
          BY <5>1, <1>1, TurnsOnce
        <5>3. CASE i = k
          BY <5>2, <5>3, <3>1, <1>2
        <5>4. CASE i < k
          <6>1. c[k] = b[k]
            BY <5>4, <3>1
          <6> QED
            BY <6>1, <1>2
        <5> QED
          BY <5>3, <5>4, <3>3, <1>1
      <4> QED
        BY <4>1, <4>2 DEF Before
    <3> QED
      BY <3>2, <3>3, <1>1
  <2> QED
    BY <1>5, <2>1, <2>2
<1>6. ASSUME NEW c \in Candidate, Before(c, n, f), c # b
      PROVE  Before(c, b, f)
  <2>1. PICK i \in Position : /\ Turns(c[i], f[i]) < Turns(n[i], f[i])
                              /\ \A j \in Position : j > i => c[j] = n[j]
    BY <1>6 DEF Before
  <2>2. \A j \in Position : c[j] \in Char /\ Turns(c[j], f[j]) \in 0 .. Pads - 1
    <3> TAKE j \in Position
    <3>1. c[j] \in Char
      BY DEF Candidate
    <3> QED
      BY <3>1, <1>1, TurnsOnce
  <2>3. CASE i > k
    <3>1. n[i] = b[i] /\ \A j \in Position : j > i => c[j] = b[j]
      BY <2>1, <2>3, <1>1, <1>3
    <3> QED
      BY <2>1, <3>1 DEF Before
  <2>4. ~(i < k)
    <3>1. Turns(c[i], f[i]) \in 0 .. Pads - 1
      BY <2>2
    <3> QED
      BY <3>1, <2>1, <1>4
  <2>5. CASE i = k
    <3>1. \A j \in Position : j > k => c[j] = b[j]
      BY <2>1, <2>5, <1>3
    <3>2. CASE Turns(c[k], f[k]) < Turns(b[k], f[k])
      BY <3>1, <3>2 DEF Before
    <3>3. CASE ~(Turns(c[k], f[k]) < Turns(b[k], f[k]))
      <4>1. Turns(c[k], f[k]) = Turns(b[k], f[k])
        <5>1. Turns(c[k], f[k]) \in 0 .. Pads - 1
          BY <2>2
        <5> QED
          BY <5>1, <2>1, <2>5, <3>3, <1>2, PadsAssumption
      <4>2. c[k] = b[k]
        BY <4>1, <2>2, <1>1, TurnsInjective
      <4>3. PICK l \in Position : c[l] # b[l] /\ \A j \in Position : j > l => c[j] = b[j]
        BY <1>6, LastDifference
      <4>4. l < k
        BY <4>2, <4>3, <3>1, <1>1
      <4>5. Turns(b[l], f[l]) = Pads - 1 /\ Turns(c[l], f[l]) # Turns(b[l], f[l])
        BY <4>3, <4>4, <1>4, <2>2, <1>1, TurnsInjective
      <4>6. Turns(c[l], f[l]) < Turns(b[l], f[l])
        <5>1. Turns(c[l], f[l]) \in 0 .. Pads - 1
          BY <2>2
        <5> QED
          BY <5>1, <4>5, PadsAssumption
      <4> QED
        BY <4>3, <4>6 DEF Before
    <3> QED
      BY <3>2, <3>3
  <2> QED
    BY <2>3, <2>4, <2>5, <1>1
<1> QED
  BY <1>5, <1>6 DEF Earlier

(* The turn of the model is such a turn, or leaves the last position.      *)
LEMMA TurnStep ==
    ASSUME OInv, NEW p \in Proc, Turn(p)
    PROVE  Odometer(p)'
<1> USE DEF Goto, Fail
<1>1. path[p] \in Candidate /\ first[p] \in Candidate /\ TurnName(p) \in Candidate
  BY TurnNameType DEF OInv, TypeOK
<1>2. /\ path'[p] = TurnName(p)
      /\ first' = first /\ tried' = tried
      /\ tried[p] = Earlier(path[p], first[p]) \cup {path[p]}
      /\ errno[p] = "none"
  BY DEF OInv, TypeOK, Odometer, Turn
<1>3. CASE CarriedUpTo(p, Positions)
  <2>1. tried[p] = Candidate
    BY <1>1, <1>2, <1>3, LastName DEF CarriedUpTo, Position
  <2>2. pc'[p] = "failed"
    BY <1>3 DEF OInv, TypeOK, Turn
  <2> QED
    BY <2>1, <2>2, <1>2 DEF Odometer
<1>4. CASE ~CarriedUpTo(p, Positions)
  <2> DEFINE T == {i \in Position : Turned(path[p][i]) # first[p][i]}
  <2>1. T \in SUBSET (1 .. Positions) /\ T # {}
    BY <1>4 DEF CarriedUpTo, Position
  <2>2. PICK k \in T : \A j \in T : k <= j
    <3> HIDE DEF T
    <3> QED
      BY <2>1, Least, PositionsAssumption
  <2>3. k \in Position /\ k \in Nat /\ Turned(path[p][k]) # first[p][k]
    BY DEF Position
  <2>4. \A j \in Position : j < k => Turned(path[p][j]) = first[p][j]
    BY <2>2, <2>3 DEF Position
  <2>5. \A i \in Position : CarriedUpTo(p, i - 1) <=> i <= k
    <3> SUFFICES ASSUME NEW i \in Position
                 PROVE  CarriedUpTo(p, i - 1) <=> i <= k
      OBVIOUS
    <3>1. CASE i <= k
      BY <3>1, <2>3, <2>4, PositionsAssumption DEF CarriedUpTo, Position
    <3>2. CASE k < i
      BY <3>2, <2>3 DEF CarriedUpTo, Position
    <3> QED
      BY <3>1, <3>2, <2>3 DEF Position
  <2>6. \A i \in Position :
           TurnName(p)[i] = IF i <= k THEN Turned(path[p][i]) ELSE path[p][i]
    BY <2>5 DEF TurnName
  <2>7. Earlier(TurnName(p), first[p]) = Earlier(path[p], first[p]) \cup {path[p]}
    <3>1. PICK b \in Candidate, f \in Candidate, n \in Candidate :
             b = path[p] /\ f = first[p] /\ n = TurnName(p)
      BY <1>1
    <3>2. /\ k \in Position /\ Turned(b[k]) # f[k]
          /\ \A j \in Position : j < k => Turned(b[j]) = f[j]
          /\ \A i \in Position : n[i] = IF i <= k THEN Turned(b[i]) ELSE b[i]
      BY <2>3, <2>4, <2>6, <3>1
    <3>3. Earlier(n, f) = Earlier(b, f) \cup {b}
      BY <3>2, NextName
    <3> QED
      BY <3>1, <3>3
  <2>8. pc'[p] = "try" /\ errno' = errno
    BY <1>4 DEF OInv, TypeOK, Turn
  <2> QED
    BY <1>2, <2>7, <2>8 DEF Odometer
<1> QED
  BY <1>3, <1>4

(* A step of one process does not touch what the others have tried.        *)
LEMMA OthersKeep ==
    ASSUME OInv, NEW p \in Proc, NEW q \in Proc, p # q,
           Fill(p) \/ FindTempPath(p) \/ Open(p) \/ Remove(p)
    PROVE  Odometer(q)'
<1>1. /\ pc'[q] = pc[q] /\ path'[q] = path[q] /\ first'[q] = first[q]
      /\ errno'[q] = errno[q] /\ tried'[q] = tried[q]
  BY DEF OInv, TypeOK, Fill, FindTempPath, StatBaseDir, StatBaseDirFails, TryDone, TryNext,
         TryError, Turn, Open, Remove, Goto, Fail
<1> QED
  BY <1>1 DEF OInv, Odometer

LEMMA OwnStep ==
    ASSUME OInv, NEW p \in Proc, Fill(p) \/ FindTempPath(p) \/ Open(p) \/ Remove(p)
    PROVE  Odometer(p)'
<1> USE DEF OInv, TypeOK, Odometer, Goto, Fail
<1>1. CASE Fill(p)
  <2>1. PICK c \in Candidate : path'[p] = c /\ first'[p] = c
    BY <1>1 DEF Fill
  <2>2. Earlier(c, c) = {}
    BY NothingBeforeFirst
  <2>3. pc'[p] \in {"stat", "try"} /\ tried'[p] = {} /\ errno'[p] = "none"
    BY <1>1 DEF Fill
  <2> QED
    BY <2>1, <2>2, <2>3
<1>2. CASE StatBaseDir(p)
  <2>1. Earlier(path[p], first[p]) = {}
    BY <1>2, NothingBeforeFirst DEF StatBaseDir
  <2> QED
    BY <1>2, <2>1 DEF StatBaseDir
<1>3. CASE StatBaseDirFails(p) \/ TryError(p)
  BY <1>3 DEF StatBaseDirFails, TryError
<1>4. CASE TryDone(p) \/ TryNext(p)
  BY <1>4 DEF TryDone, TryNext
<1>5. CASE Turn(p)
  BY <1>5, TurnStep
<1>6. CASE Open(p)
  BY <1>6 DEF Open
<1>7. CASE Remove(p)
  BY <1>7 DEF Remove
<1> QED
  BY <1>1, <1>2, <1>3, <1>4, <1>5, <1>6, <1>7 DEF FindTempPath

LEMMA NextOInv == OInv /\ [Next]_vars => OInv'
<1> SUFFICES ASSUME OInv, [Next]_vars PROVE OInv'
  OBVIOUS
<1>1. TypeOK'
  BY NextTypeOK DEF OInv
<1>2. ASSUME NEW q \in Proc PROVE Odometer(q)'
  <2>1. CASE UNCHANGED vars
    BY <2>1 DEF vars, OInv, Odometer
  <2>2. ASSUME NEW p \in Proc, Fill(p) \/ FindTempPath(p) \/ Open(p) \/ Remove(p)
        PROVE  Odometer(q)'
    BY <2>2, OthersKeep, OwnStep
  <2> QED
    BY <2>1, <2>2 DEF Next
<1> QED
  BY <1>1, <1>2 DEF OInv

LEMMA OInvariance == Spec => []OInv
<1>1. Init => OInv
  <2> SUFFICES ASSUME Init PROVE OInv
    OBVIOUS
  <2>1. TypeOK
    BY InitIInv DEF IInv
  <2>2. \A p \in Proc : Odometer(p)
    BY DEF Init, Odometer
  <2> QED
    BY <2>1, <2>2 DEF OInv
<1> QED
  BY <1>1, NextOInv, PTL DEF Spec

(* EEXIST means that every name was tried, wherever the random start was   *)
(* and however long the template and the alphabet are.                     *)
THEOREM Exhaustion == Spec => []EexistIsExhaustion
<1>1. OInv => EexistIsExhaustion
  BY DEF OInv, Odometer, EexistIsExhaustion
<1> QED
  BY OInvariance, <1>1, PTL

(* The odometer does not come back to a name before it has used all.       *)
THEOREM NoRepetition == Spec => NeverTwice
<1>1. OInv /\ OInv' /\ [Next]_vars =>
         [\A p \in Proc : pc[p] = "turn" /\ pc'[p] = "try" => path'[p] \notin tried[p]]_vars
  <2> SUFFICES ASSUME OInv, OInv', Next, NEW p \in Proc, pc[p] = "turn", pc'[p] = "try"
               PROVE  path'[p] \notin tried[p]
    OBVIOUS
  <2>1. tried'[p] = Earlier(path'[p], first'[p])
    BY DEF OInv, Odometer
  <2>2. path'[p] \notin tried'[p]
    BY <2>1, NotBeforeItself DEF OInv, TypeOK
  <2>3. tried'[p] = tried[p]
    BY DEF OInv, TypeOK, Next, Fill, FindTempPath, StatBaseDir, StatBaseDirFails, TryDone,
           TryNext, TryError, Turn, Open, Remove, Goto, Fail
  <2> QED
    BY <2>2, <2>3
<1> QED
  BY OInvariance, <1>1, PTL DEF Spec, NeverTwice

(* The names a call has still to try; a failed try takes one from them.    *)
Untried(p) == Candidate \ tried[p]

TriesNewNames ==
    \A p \in Proc : TryNext(p) =>
        path[p] \in Untried(p) /\ Untried(p)' = Untried(p) \ {path[p]}

(* Each failed try is of a new name, the first included, so the search is  *)
(* over after at most as many tries as there are names, whatever others    *)
(* create and remove meanwhile: the measure behind SearchEnds.             *)
THEOREM EachTryIsNew == Spec => [][TriesNewNames]_vars
<1>1. ASSUME OInv
      PROVE  TriesNewNames
  <2> SUFFICES ASSUME NEW p \in Proc, TryNext(p)
               PROVE  path[p] \in Untried(p) /\ Untried(p)' = Untried(p) \ {path[p]}
    BY DEF TriesNewNames
  <2>1. /\ path[p] \in Candidate /\ first[p] \in Candidate
        /\ tried[p] = Earlier(path[p], first[p])
    BY <1>1 DEF OInv, TypeOK, Odometer, TryNext
  <2>2. path[p] \notin tried[p]
    BY <2>1, NotBeforeItself
  <2>3. tried'[p] = tried[p] \cup {path[p]}
    BY <1>1 DEF OInv, TypeOK, TryNext
  <2> QED
    BY <2>1, <2>2, <2>3 DEF Untried, Candidate, Position, Char
<1> QED
  BY OInvariance, <1>1, PTL DEF Spec
=============================================================================
