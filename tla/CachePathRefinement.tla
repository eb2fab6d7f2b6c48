------------------------ MODULE CachePathRefinement ------------------------
(***************************************************************************)
(* Proof that cache_path() implements InternTable when the first call is   *)
(* made alone: the search of a call that finds its path is a hit, the      *)
(* counting of a new entry is a miss, and every other step, the growth of  *)
(* the table included, changes nothing that a caller can see.              *)
(***************************************************************************)
EXTENDS CachePathProofs

(* The table of InternTable, and the answers, as CachePath defines them.   *)
TableOf(E) == [p \in {e.str : e \in E} |-> CHOOSE e \in E : e.str = p]

Answer == [t \in Thread |-> IF Decided(t) THEN cachedpath[t] ELSE None]

Distinct(E) == \A e, f \in E : e.str = f.str => e = f

(* A thread that is in no call asks for nothing.                           *)
RInv == IInv /\ \A t \in Thread : pc[t] = "idle" => path[t] = None

-----------------------------------------------------------------------------
(* An entry is what the table holds under its string.                      *)
LEMMA EntryOfTable ==
    ASSUME NEW E, Distinct(E), NEW e \in E
    PROVE  e.str \in DOMAIN TableOf(E) /\ TableOf(E)[e.str] = e
  <1>1. e.str \in {f.str : f \in E}
    OBVIOUS
  <1>2. (CHOOSE f \in E : f.str = e.str) = e
    BY DEF Distinct
  <1> QED
    BY <1>1, <1>2 DEF TableOf

(* The entries of the table are distinct pointers.                         *)
LEMMA EntriesDistinct ==
    ASSUME IInv
    PROVE  Distinct(Entries) /\ Entries \subseteq Pointer
  <1>1. \A i \in 1 .. used : array # 0
    BY DEF IInv, PhaseInv, TypeOK
  <1> QED
    BY <1>1 DEF IInv, TableInv, Distinct, Entries

(* What a caller cannot see does not change the abstract table.            *)
LEMMA Stutters ==
    ASSUME Entries' = Entries, path' = path, Answer' = Answer
    PROVE  UNCHANGED Abstract!vars
  <1>1. TableOf(Entries)' = TableOf(Entries)
    BY DEF TableOf
  <1> QED
    BY <1>1 DEF Abstract!vars, TableOf, Answer

-----------------------------------------------------------------------------
LEMMA CallRefines ==
    ASSUME RInv, NEW t \in Thread, NEW p \in Path, Call(t, p)
    PROVE  Abstract!Call(t, p)
  <1>1. path[t] = None /\ path' = [path EXCEPT ![t] = p]
    BY DEF RInv, Call, At
  <1>2. Entries' = Entries
    BY DEF Call, table, Entries
  <1>3. TableOf(Entries)' = TableOf(Entries)
    BY <1>2 DEF TableOf
  <1>4. Answer' = Answer
    <2>1. \A u \in Thread : Decided(u)' = Decided(u)
      BY DEF RInv, IInv, TypeOK, Call, At, Goto, Decided
    <2> QED
      BY <2>1 DEF Call, Answer
  <1> QED
    BY <1>1, <1>3, <1>4 DEF Abstract!Call, TableOf, Answer

LEMMA FoundRefines ==
    ASSUME RInv, NEW t \in Thread, Found(t)
    PROVE  Abstract!Hit(t)
  <1> USE DEF At, Goto
  <1>1. PICK i \in 0 .. used - 1 :
           Matches(i, path[t]) /\ cachedpath' = [cachedpath EXCEPT ![t] = Cell(i)]
    BY DEF Found
  <1>2. Ready /\ InCritical(t)
    BY DEF RInv, IInv, PhaseInv, Found, InCritical
  <1>3. i + 1 \in 1 .. used
    BY DEF RInv, IInv, TypeOK
  <1>4. Cell(i) = mem[array][i + 1] /\ Cell(i).str = path[t]
    BY <1>1 DEF Matches, Cell
  <1>5. Cell(i) \in Entries
    BY <1>3, <1>4 DEF Entries
  <1>6. path[t] \in DOMAIN TableOf(Entries) /\ TableOf(Entries)[path[t]] = Cell(i)
    <2>1. Distinct(Entries)
      BY EntriesDistinct DEF RInv
    <2> QED
      BY <2>1, <1>4, <1>5, EntryOfTable
  <1>7. Entries' = Entries /\ path' = path
    BY DEF Found, table, Entries
  <1>8. TableOf(Entries)' = TableOf(Entries)
    BY <1>7 DEF TableOf
  <1>9. Answer[t] = None /\ Answer' = [Answer EXCEPT ![t] = Cell(i)]
    <2>1. ~Decided(t) /\ Decided(t)'
      BY DEF RInv, IInv, TypeOK, Found, Decided
    <2>2. \A u \in Thread \ {t} : Decided(u)' = Decided(u) /\ cachedpath'[u] = cachedpath[u]
      BY <1>1 DEF RInv, IInv, TypeOK, Found, Decided
    <2>3. cachedpath'[t] = Cell(i)
      BY <1>1 DEF RInv, IInv, TypeOK
    <2> QED
      BY <2>1, <2>2, <2>3 DEF Answer
  <1> QED
    BY <1>6, <1>7, <1>8, <1>9 DEF Abstract!Hit, TableOf, Answer

LEMMA BumpRefines ==
    ASSUME RInv, NEW t \in Thread, Bump(t)
    PROVE  Abstract!Miss(t)
  <1> USE DEF At, Goto
  <1> DEFINE e == cachedpath[t]
  <1>1. /\ path[t] \in Path
        /\ e \in Pointer
        /\ e.str = path[t]
        /\ \A i \in 1 .. used : mem[array][i].str # path[t]
        /\ mem[array][used + 1] = e
    BY DEF RInv, IInv, LocalInv, Knows, Bump
  <1>2. Entries' = Entries \cup {e}
    <2>1. used \in Nat /\ used' = used + 1 /\ mem' = mem /\ array' = array
      BY DEF RInv, IInv, TypeOK, Bump
    <2>2. 1 .. used + 1 = (1 .. used) \cup {used + 1}
      BY <2>1
    <2> QED
      BY <1>1, <2>1, <2>2 DEF Entries
  <1>3. \A f \in Entries : f.str # e.str
    BY <1>1 DEF Entries
  <1>4. Distinct(Entries \cup {e})
    <2>1. Distinct(Entries)
      BY EntriesDistinct DEF RInv
    <2> QED
      BY <2>1, <1>3 DEF Distinct
  <1>5. TableOf(Entries)' = [p \in DOMAIN TableOf(Entries) \cup {path[t]} |->
                                IF p = path[t] THEN e ELSE TableOf(Entries)[p]]
    <2>1. TableOf(Entries)' = TableOf(Entries \cup {e})
      BY <1>2 DEF TableOf
    <2> DEFINE All == Entries \cup {e}
               New == TableOf(All)
    <2>a. DOMAIN New = DOMAIN TableOf(Entries) \cup {path[t]}
      BY <1>1 DEF TableOf
    <2>b. ASSUME NEW p \in DOMAIN New
          PROVE  New[p] = IF p = path[t] THEN e ELSE TableOf(Entries)[p]
      <3>1. PICK f \in All : p = f.str
        BY <2>b DEF TableOf
      <3>2. New[p] = f
        BY <1>4, <3>1, EntryOfTable
      <3>3. CASE f = e
        BY <1>1, <3>1, <3>2, <3>3
      <3>4. CASE f # e
        <4>1. f \in Entries /\ Distinct(Entries)
          BY <3>4, EntriesDistinct DEF RInv
        <4>2. TableOf(Entries)[p] = f
          BY <3>1, <4>1, EntryOfTable
        <4> QED
          BY <1>1, <1>3, <3>1, <3>2, <4>1, <4>2
      <3> QED
        BY <3>3, <3>4
    <2>2. /\ DOMAIN New = DOMAIN TableOf(Entries) \cup {path[t]}
          /\ \A p \in DOMAIN New : New[p] = IF p = path[t] THEN e ELSE TableOf(Entries)[p]
      BY <2>a, <2>b
    <2>3. New = [p \in DOMAIN New |-> New[p]]
      BY DEF TableOf
    <2> HIDE DEF New
    <2>4. New = [p \in DOMAIN TableOf(Entries) \cup {path[t]} |->
                    IF p = path[t] THEN e ELSE TableOf(Entries)[p]]
      BY <2>2, <2>3
    <2> QED
      BY <2>1, <2>4 DEF New
  <1>6. Answer' = [Answer EXCEPT ![t] = e] /\ Answer'[t] = e
    <2>1. Decided(t)' /\ \A u \in Thread \ {t} : Decided(u)' = Decided(u)
      BY DEF RInv, IInv, TypeOK, Bump, Decided
    <2>2. cachedpath' = cachedpath
      BY DEF Bump, locals
    <2> QED
      BY <2>1, <2>2 DEF Answer
  <1>7. path[t] \notin DOMAIN TableOf(Entries)
    BY <1>1, <1>3 DEF TableOf
  <1>8. e \notin Abstract!Range(TableOf(Entries))
    <2> SUFFICES ASSUME NEW p \in DOMAIN TableOf(Entries), TableOf(Entries)[p] = e
                 PROVE  FALSE
      BY DEF Abstract!Range
    <2>1. PICK f \in Entries : p = f.str
      BY DEF TableOf
    <2>2. TableOf(Entries)[p] = f
      BY <2>1, EntriesDistinct, EntryOfTable DEF RInv
    <2> QED
      BY <2>2, <1>3
  <1>9. path' = path
    BY DEF Bump, locals
  <1>10. path[t] \in Path \ DOMAIN TableOf(Entries)
    BY <1>1, <1>7
  <1>11. Answer'[t] \in Pointer \ Abstract!Range(TableOf(Entries))
    BY <1>1, <1>6, <1>8
  <1>12. Answer' = [Answer EXCEPT ![t] = Answer'[t]]
    BY <1>6
  <1>13. TableOf(Entries)' = [p \in DOMAIN TableOf(Entries) \cup {path[t]} |->
                                 IF p = path[t] THEN Answer'[t] ELSE TableOf(Entries)[p]]
    BY <1>5, <1>6
  <1> HIDE DEF e
  <1> QED
    BY Zenon, <1>9, <1>10, <1>11, <1>12, <1>13 DEF Abstract!Miss, TableOf, Answer

LEMMA UnlockRefines ==
    ASSUME RInv, NEW t \in Thread, Unlock(t)
    PROVE  Abstract!Return(t)
  <1> USE DEF At, Goto
  <1>1. Entries' = Entries
    BY DEF Unlock, table, Entries
  <1>2. TableOf(Entries)' = TableOf(Entries)
    BY <1>1 DEF TableOf
  <1>3. Answer[t] # None
    <2>1. pc[t] = "unlock" /\ cachedpath[t] \in Pointer
      BY DEF RInv, IInv, LocalInv, Knows, Unlock
    <2> QED
      BY <2>1, NoneAssumption DEF Answer, Decided
  <1>4. Answer' = [Answer EXCEPT ![t] = None]
    <2>1. /\ ~Decided(t)'
          /\ \A u \in Thread \ {t} : Decided(u)' = Decided(u) /\ cachedpath'[u] = cachedpath[u]
      BY DEF RInv, IInv, TypeOK, Unlock, Decided
    <2> QED
      BY <2>1 DEF Answer
  <1>5. path' = [path EXCEPT ![t] = None]
    BY DEF Unlock
  <1> QED
    BY <1>2, <1>3, <1>4, <1>5 DEF Abstract!Return, TableOf, Answer

-----------------------------------------------------------------------------
(* The steps nobody sees.                                                  *)
LEMMA InitialiseStutters ==
    ASSUME RInv, NEW t \in Thread, Initialise(t) \/ Lock(t)
    PROVE  UNCHANGED Abstract!vars
  <1> USE DEF At, Goto
  <1>1. path' = path /\ cachedpath' = cachedpath
    BY DEF Initialise, Check, InitLock, Recheck, StoreField, InitUnlock, Lock, locals
  <1>2. \A u \in Thread : Decided(u)' = Decided(u)
    BY DEF RInv, IInv, TypeOK, Initialise, Check, InitLock, Recheck, StoreField, InitUnlock,
           Lock, Decided
  <1>3. Entries' = Entries
    <2>1. CASE \E f \in Fields : StoreField(t, f)
      <3>1. used = 0 /\ used' = 0
        BY <2>1 DEF RInv, IInv, PhaseInv, StoreField
      <3> QED
        BY <3>1 DEF Entries
    <2>2. CASE UNCHANGED table
      BY <2>2 DEF table, Entries
    <2> QED
      BY <2>1, <2>2 DEF Initialise, Check, InitLock, Recheck, InitUnlock, Lock
  <1> QED
    BY <1>1, <1>2, <1>3, Stutters DEF Answer

LEMMA CriticalStutters ==
    ASSUME RInv, NEW t \in Thread, NotFound(t) \/ Insert(t) \/ Roomy(t) \/ GrowFree(t)
    PROVE  UNCHANGED Abstract!vars
  <1> USE DEF At, Goto
  <1>1. path' = path /\ \A u \in Thread \ {t} : cachedpath'[u] = cachedpath[u]
    BY DEF RInv, IInv, TypeOK, NotFound, Insert, Roomy, GrowFree, locals
  <1>2. \A u \in Thread : Decided(u)' = Decided(u)
    BY DEF RInv, IInv, TypeOK, NotFound, Insert, Roomy, GrowFree, Decided
  <1>3. Decided(t) => cachedpath'[t] = cachedpath[t]
    BY DEF NotFound, Insert, Roomy, GrowFree, locals, Decided
  <1>4. Entries' = Entries
    <2>1. CASE Insert(t)
      <3>1. array' = array /\ used' = used /\ used \in Nat
        BY <2>1 DEF RInv, IInv, TypeOK, Insert
      <3>2. \A i \in 1 .. used : mem'[array][i] = mem[array][i]
        <4>1. array \in 1 .. Len(mem) /\ mem[array] \in Seq(Words) /\ mem \in Seq(Seq(Words))
          BY <2>1 DEF RInv, IInv, TypeOK, Insert, Live, Words
        <4>2. mem' = [mem EXCEPT ![array] = [mem[array] EXCEPT ![used + 1] = cachedpath[t]]]
          BY <2>1 DEF Insert
        <4>3. mem'[array] = [mem[array] EXCEPT ![used + 1] = cachedpath[t]]
          BY <4>1, <4>2
        <4>4. \A i \in 1 .. used : i # used + 1 /\ i \in DOMAIN mem[array]
          BY <2>1, <3>1, <4>1 DEF Insert, Live
        <4> QED
          BY <4>3, <4>4
      <3> QED
        BY <3>1, <3>2 DEF Entries
    <2>2. CASE UNCHANGED <<array, used, mem>>
      BY <2>2 DEF Entries
    <2> QED
      BY <2>1, <2>2 DEF NotFound, Roomy, GrowFree, table
  <1> QED
    BY <1>1, <1>2, <1>3, <1>4, Stutters DEF Answer

LEMMA GrowStutters ==
    ASSUME RInv, NEW t \in Thread, GrowCopy(t) \/ GrowPublish(t)
    PROVE  UNCHANGED Abstract!vars
  <1> USE DEF At, Goto
  <1>1. path' = path /\ cachedpath' = cachedpath
    BY DEF GrowCopy, GrowPublish, locals
  <1>2. \A u \in Thread : Decided(u)' = Decided(u)
    BY DEF RInv, IInv, TypeOK, GrowCopy, GrowPublish, Decided
  <1>3. used' = used
    BY DEF GrowCopy, GrowPublish
  <1>4. \A i \in 1 .. used : mem'[array'][i] = mem[array][i]
    <2>1. CASE GrowCopy(t)
      <3>1. array \in 1 .. Len(mem) /\ mem \in Seq(Seq(Words))
        BY <2>1 DEF RInv, IInv, TypeOK, GrowCopy, Live, Words
      <3>2. mem'[array] = mem[array] /\ array' = array
        BY <2>1, <3>1 DEF GrowCopy
      <3> QED
        BY <3>2
    <2>2. CASE GrowPublish(t)
      BY <2>2 DEF RInv, IInv, LocalInv, Knows, GrowPublish
    <2> QED
      BY <2>1, <2>2
  <1>5. Entries' = Entries
    BY <1>3, <1>4 DEF Entries
  <1> QED
    BY <1>1, <1>2, <1>5, Stutters DEF Answer

-----------------------------------------------------------------------------
LEMMA NextRefines ==
    ASSUME RInv, [Next]_vars
    PROVE  [Abstract!Next]_(Abstract!vars)
  <1>1. CASE UNCHANGED vars
    <2>1. UNCHANGED <<array, used, mem, path, cachedpath, pc>>
      BY <1>1 DEF vars, table, locals
    <2>2. Entries' = Entries /\ Answer' = Answer
      BY <2>1 DEF Entries, Answer, Decided
    <2> QED
      BY <2>1, <2>2, Stutters
  <1>2. ASSUME NEW t \in Thread, NEW p \in Path, Call(t, p)
        PROVE  Abstract!Next
    BY <1>2, CallRefines DEF Abstract!Next
  <1>3. ASSUME NEW t \in Thread, Step(t)
        PROVE  [Abstract!Next]_(Abstract!vars)
    <2>1. ~LockFails(t) /\ ~SearchWild(t) /\ ~InsertWild(t) /\ ~GrowCopyWild(t) /\ ~GrowFreeWild(t)
      BY NothingWild DEF RInv
    <2>2. CASE Found(t) \/ Bump(t) \/ Unlock(t)
      BY <2>2, FoundRefines, BumpRefines, UnlockRefines DEF Abstract!Next
    <2>3. CASE Initialise(t) \/ Lock(t)
      BY <2>3, InitialiseStutters
    <2>4. CASE NotFound(t) \/ Insert(t) \/ Roomy(t) \/ GrowFree(t)
      BY <2>4, CriticalStutters
    <2>5. CASE GrowCopy(t) \/ GrowPublish(t)
      BY <2>5, GrowStutters
    <2> QED
      BY <1>3, <2>1, <2>2, <2>3, <2>4, <2>5 DEF Step, Critical, Grow
  <1> QED
    BY <1>1, <1>2, <1>3 DEF Next

LEMMA RInvariance ==
    ASSUME SoloInit
    PROVE  Spec => []RInv
  <1>1. Init => RInv
    BY InitIInv DEF Init, RInv
  <1>2. RInv /\ [Next]_vars => RInv'
    <2> SUFFICES ASSUME RInv, [Next]_vars
                 PROVE  RInv'
      OBVIOUS
    <2>1. IInv'
      BY NextIInv DEF RInv
    <2>2. ASSUME NEW u \in Thread, pc'[u] = "idle"
          PROVE  path'[u] = None
      <3>1. CASE UNCHANGED vars
        BY <2>2, <3>1 DEF vars, locals, RInv
      <3>2. ASSUME NEW t \in Thread, NEW p \in Path, Call(t, p)
            PROVE  path'[u] = None
        BY <2>2, <3>2 DEF Call, At, Goto, RInv, IInv, TypeOK
      <3>3. ASSUME NEW t \in Thread, Unlock(t)
            PROVE  path'[u] = None
        BY <2>2, <3>3 DEF Unlock, At, Goto, RInv, IInv, TypeOK
      <3>4. ASSUME NEW t \in Thread, Initialise(t)
            PROVE  path'[u] = None
        BY <2>2, <3>4 DEF Initialise, Check, InitLock, Recheck, StoreField, InitUnlock, At,
                          Goto, locals, RInv, IInv, TypeOK
      <3>5. ASSUME NEW t \in Thread, Critical(t) \/ Lock(t)
            PROVE  path'[u] = None
        <4>1. ~SearchWild(t) /\ ~InsertWild(t) /\ ~GrowCopyWild(t) /\ ~GrowFreeWild(t)
          BY NothingWild DEF RInv
        <4>2. path' = path /\ (pc'[u] = "idle" => pc[u] = "idle")
          BY <3>5, <4>1 DEF Critical, Grow, Found, NotFound, Insert, Bump, Roomy, GrowCopy,
                            GrowFree, GrowPublish, Lock, At, Goto, locals, RInv, IInv, TypeOK
        <4> QED
          BY <2>2, <4>2 DEF RInv
      <3> QED
        BY <3>1, <3>2, <3>3, <3>4, <3>5, NothingWild DEF Next, Step, RInv
    <2> QED
      BY <2>1, <2>2 DEF RInv
  <1> QED
    BY <1>1, <1>2, PTL DEF Spec

(* cache_path() implements the intern table that jbroot() and rootfs()     *)
(* promise, for any threads, paths, initial capacity and number of calls.  *)
THEOREM Refinement == SoloInit => (Spec => ImplementsInternTable)
  <1> SUFFICES ASSUME SoloInit
               PROVE  Spec => ImplementsInternTable
    OBVIOUS
  <1>1. Init => Abstract!Init
    BY DEF Init, Abstract!Init, Entries, Decided
  <1>2. RInv /\ [Next]_vars => [Abstract!Next]_(Abstract!vars)
    BY NextRefines
  <1> QED
    BY <1>1, <1>2, RInvariance, PTL DEF Spec, ImplementsInternTable, Abstract!Spec
=============================================================================
