-------------------------- MODULE CachePathProofs --------------------------
(***************************************************************************)
(* Proofs about CachePath for a process that makes its first call while    *)
(* one thread calls (SoloInit): the lock protects the table, no access is  *)
(* wild, and a path has one pointer, for any number of threads, paths,     *)
(* calls and any initial capacity.                                         *)
(***************************************************************************)
EXTENDS CachePath, SequenceTheorems, TLAPS

Words == Pointer \cup {Garbage}

(* The table is initialised, and every store of the initialiser was made.  *)
Ready ==
    /\ array # 0
    /\ lockReady
    /\ todo = {}
    /\ size > 0
    /\ size = Len(mem[array])

(* Until a call has returned, one thread runs, and the initialiser's       *)
(* stores are the only changes of the table.                               *)
PhaseInv ==
    /\ returned = {} => \A t, u \in Thread : pc[t] # "idle" /\ pc[u] # "idle" => t = u
    /\ returned = {} /\ (\A t \in Thread : pc[t] = "idle") => array = 0
    /\ returned # {} => Ready
    /\ array = 0 => used = 0
    /\ \A t \in Thread :
          /\ pc[t] # "initunlock"
          /\ pc[t] = "check" /\ returned = {} => array = 0
          /\ pc[t] \in {"initlock", "recheck"} => array = 0
          /\ pc[t] = "lock" \/ InCritical(t) => Ready
          /\ pc[t] = "store" =>
                /\ returned = {}
                /\ used = 0
                /\ "lock" \in todo \/ lockReady
                /\ IF "array" \in todo THEN array = 0
                   ELSE array # 0 /\ Len(mem[array]) = CACHE_INIT_SIZE
                /\ "size" \in todo \/ size = CACHE_INIT_SIZE
                /\ array \notin freed

(* cache->lock is held by the one thread in the critical section.          *)
LockInv ==
    /\ lock # NoThread => InCritical(lock)
    /\ \A t \in Thread : InCritical(t) => lock = t

(* The table: it has room for one more entry whenever nobody is about to   *)
(* grow it, its block is live whenever nobody is about to replace it, and  *)
(* its entries are distinct strings.                                       *)
TableInv ==
    array # 0 =>
        /\ used <= Len(mem[array])
        /\ used = Len(mem[array]) =>
              lock # NoThread /\ pc[lock] \in {"grow", "free", "publish"}
        /\ array \in freed => lock # NoThread /\ pc[lock] = "publish"
        /\ \A i \in 1 .. used : mem[array][i] \in Pointer
        /\ \A i, j \in 1 .. used : mem[array][i].str = mem[array][j].str => i = j

IsEntry(p, q) == q.str = p /\ \E i \in 1 .. used : mem[array][i] = q

(* What a thread knows of the table at each point of its call.             *)
Knows(t) ==
    /\ pc[t] # "idle" => path[t] \in Path
    /\ pc[t] \in {"insert", "bump"} =>
          /\ cachedpath[t] \in Pointer
          /\ cachedpath[t].str = path[t]
          /\ \A i \in 1 .. used : mem[array][i].str # path[t]
    /\ pc[t] = "bump" => mem[array][used + 1] = cachedpath[t]
    /\ pc[t] \in {"grow", "free", "publish", "unlock"} =>
          cachedpath[t] \in Pointer /\ IsEntry(path[t], cachedpath[t])
    /\ pc[t] \in {"free", "publish"} =>
          /\ newArray[t] # 0
          /\ newArray[t] # array
          /\ newArray[t] \notin freed
          /\ used = size
          /\ Len(mem[newArray[t]]) = size * 2
          /\ \A i \in 1 .. size : mem[newArray[t]][i] = mem[array][i]

LocalInv == \A t \in Thread : Knows(t)

ReturnedInv == \A r \in returned : array # 0 /\ IsEntry(r[1], r[2])

IInv ==
    /\ TypeOK
    /\ PhaseInv
    /\ LockInv
    /\ TableInv
    /\ LocalInv
    /\ ReturnedInv
    /\ ~wild
-----------------------------------------------------------------------------
(* A thread in the critical section is alone there, with the table ready.  *)
LEMMA Alone ==
    ASSUME IInv, NEW t \in Thread, InCritical(t)
    PROVE  /\ Ready
           /\ lock = t
           /\ \A u \in Thread \ {t} : pc[u] \in {"idle", "check", "lock"}
  <1>1. Ready /\ lock = t
    BY DEF IInv, PhaseInv, LockInv
  <1>2. ASSUME NEW u \in Thread, u # t
        PROVE  pc[u] \in {"idle", "check", "lock"}
    <2>1. ~InCritical(u)
      BY <1>2, <1>1 DEF IInv, LockInv
    <2>2. pc[u] \notin {"initlock", "recheck", "initunlock"}
      BY <1>1 DEF IInv, PhaseInv, Ready
    <2>3. pc[u] # "store"
      BY <1>2 DEF IInv, PhaseInv, InCritical
    <2>4. pc[u] \in Labels
      BY DEF IInv, TypeOK
    <2> QED
      BY <2>1, <2>2, <2>3, <2>4 DEF Labels, InCritical
  <1> QED
    BY <1>1, <1>2

(* A step inside the critical section that leaves the table ready keeps    *)
(* the phase and the lock.                                                 *)
LEMMA CriticalPhase ==
    ASSUME IInv, NEW t \in Thread, InCritical(t),
           NEW l \in {"search", "insert", "bump", "grow", "free", "publish", "unlock"},
           pc' = [pc EXCEPT ![t] = l],
           UNCHANGED <<lock, returned>>,
           Ready'
    PROVE  PhaseInv' /\ LockInv'
  <1> pc \in [Thread -> Labels]
    BY DEF IInv, TypeOK
  <1>1. /\ lock = t
        /\ \A u \in Thread \ {t} : pc[u] \in {"idle", "check", "lock"}
    BY Alone
  <1>2. pc'[t] = l /\ \A u \in Thread \ {t} : pc'[u] = pc[u]
    OBVIOUS
  <1>3. LockInv'
    BY <1>1, <1>2 DEF LockInv, InCritical
  <1>4. \A u \in Thread \ {t} : returned = {} => pc[u] = "idle"
    BY DEF IInv, PhaseInv, InCritical
  <1>5. PhaseInv'
    BY <1>1, <1>2, <1>4 DEF PhaseInv, Ready, InCritical
  <1> QED
    BY <1>3, <1>5

(* Such a step leaves the others knowing what they knew.                   *)
LEMMA CriticalLocal ==
    ASSUME IInv, NEW t \in Thread, InCritical(t), NEW l,
           pc' = [pc EXCEPT ![t] = l],
           UNCHANGED path,
           Knows(t)'
    PROVE  LocalInv'
  <1> SUFFICES ASSUME NEW u \in Thread, u # t
               PROVE  Knows(u)'
    BY DEF LocalInv
  <1>1. pc[u] \in {"idle", "check", "lock"}
    BY Alone
  <1>2. pc'[u] = pc[u]
    BY DEF IInv, TypeOK
  <1>3. pc[u] # "idle" => path[u] \in Path
    BY DEF IInv, LocalInv, Knows
  <1> QED
    BY <1>1, <1>2, <1>3 DEF Knows

LEMMA FoundStep ==
    ASSUME IInv, NEW t \in Thread, Found(t)
    PROVE  IInv'
  <1> USE DEF table, locks, locals, history, At, Goto
  <1>1. InCritical(t)
    BY DEF Found, InCritical
  <1>2. Ready /\ lock = t
    BY <1>1, Alone
  <1>a. PICK i \in 0 .. used - 1 :
           Matches(i, path[t]) /\ cachedpath' = [cachedpath EXCEPT ![t] = Cell(i)]
    BY DEF Found
  <1>b. /\ i + 1 \in 1 .. used
        /\ Cell(i) = mem[array][i + 1]
        /\ Cell(i) \in Pointer
        /\ Cell(i).str = path[t]
    BY <1>2, <1>a DEF IInv, TypeOK, TableInv, Ready, Matches, Cell, Live
  <1>3. TypeOK'
    BY <1>a, <1>b DEF IInv, TypeOK, Labels, Found
  <1>4. PhaseInv' /\ LockInv'
    <2>1. Ready'
      BY <1>2 DEF Ready, IInv, TypeOK, Found
    <2> QED
      BY <1>1, <2>1, CriticalPhase DEF Found
  <1>5. TableInv'
    BY <1>2 DEF IInv, TypeOK, TableInv, LocalInv, Knows, Ready, Found
  <1>6. LocalInv'
    <2>1. Knows(t)'
      BY <1>a, <1>b DEF IInv, TypeOK, LocalInv, Knows, IsEntry, Found
    <2> QED
      BY <1>1, <2>1, CriticalLocal DEF Found
  <1>7. ReturnedInv'
    BY <1>2 DEF IInv, TypeOK, ReturnedInv, IsEntry, Ready, Found
  <1> QED
    BY <1>3, <1>4, <1>5, <1>6, <1>7 DEF IInv, Found

LEMMA NotFoundStep ==
    ASSUME IInv, NEW t \in Thread, NotFound(t)
    PROVE  IInv'
  <1> USE DEF table, locks, locals, history, At, Goto
  <1>1. InCritical(t)
    BY DEF NotFound, InCritical
  <1>2. Ready /\ lock = t
    BY <1>1, Alone
  <1>a. /\ path[t] \in Path
        /\ cachedpath'[t] = [str |-> path[t], id |-> strdups + 1]
    BY DEF IInv, TypeOK, LocalInv, Knows, NotFound
  <1>b. cachedpath'[t] \in Pointer /\ cachedpath'[t].str = path[t]
    BY <1>a DEF IInv, TypeOK, Pointer
  <1>c. \A i \in 1 .. used : mem[array][i].str # path[t]
    <2>1. ASSUME NEW i \in 1 .. used
          PROVE  Cell(i - 1) = mem[array][i]
      <3>1. used \in Nat /\ used <= Len(mem[array]) /\ array # 0 /\ array \notin freed
        BY <1>2 DEF IInv, TypeOK, TableInv, Ready, NotFound
      <3>2. i - 1 + 1 = i /\ i <= Len(mem[array])
        BY <3>1, <1>2 DEF IInv, TypeOK, Ready
      <3> QED
        BY <3>1, <3>2 DEF Cell, Live
    <2>2. \A j \in 0 .. used - 1 : Cell(j) # Garbage /\ Cell(j).str # path[t]
      BY DEF Matches, NotFound
    <2>3. used \in Nat
      BY DEF IInv, TypeOK
    <2>4. ASSUME NEW i \in 1 .. used
          PROVE  mem[array][i].str # path[t]
      <3>1. i - 1 \in 0 .. used - 1
        BY <2>3
      <3> QED
        BY <3>1, <2>1, <2>2
    <2> QED
      BY <2>4
  <1>3. TypeOK'
    BY <1>a, <1>b DEF IInv, TypeOK, Labels, NotFound
  <1>4. PhaseInv' /\ LockInv'
    <2>1. Ready'
      BY <1>2 DEF Ready, IInv, TypeOK, NotFound
    <2> QED
      BY <1>1, <2>1, CriticalPhase DEF NotFound
  <1>5. TableInv'
    BY <1>2 DEF IInv, TypeOK, TableInv, LocalInv, Knows, Ready, NotFound
  <1>6. LocalInv'
    <2>1. Knows(t)'
      BY <1>a, <1>b, <1>c DEF IInv, TypeOK, Knows, NotFound
    <2> QED
      BY <1>1, <2>1, CriticalLocal DEF NotFound
  <1>7. ReturnedInv'
    BY <1>2 DEF IInv, TypeOK, ReturnedInv, IsEntry, Ready, NotFound
  <1> QED
    BY <1>3, <1>4, <1>5, <1>6, <1>7 DEF IInv, NotFound

LEMMA BumpStep ==
    ASSUME IInv, NEW t \in Thread, Bump(t)
    PROVE  IInv'
  <1> USE DEF table, locks, locals, history, At, Goto
  <1>1. InCritical(t)
    BY DEF Bump, InCritical
  <1>2. Ready /\ lock = t
    BY <1>1, Alone
  <1>a. /\ used \in Nat
        /\ used + 1 <= Len(mem[array])
        /\ mem[array][used + 1] = cachedpath[t]
        /\ cachedpath[t] \in Pointer
        /\ cachedpath[t].str = path[t]
        /\ \A i \in 1 .. used : mem[array][i].str # path[t]
    <2>1. /\ mem[array][used + 1] = cachedpath[t]
          /\ cachedpath[t] \in Pointer
          /\ cachedpath[t].str = path[t]
          /\ \A i \in 1 .. used : mem[array][i].str # path[t]
      BY DEF IInv, LocalInv, Knows, Bump
    <2>2. pc[t] = "bump" /\ used \in Nat /\ Len(mem[array]) \in Nat
      BY <1>2 DEF IInv, TypeOK, Ready, Bump
    <2>3. used <= Len(mem[array]) /\ used # Len(mem[array])
      BY <1>2, <2>2 DEF IInv, TableInv, Ready
    <2> QED
      BY <2>1, <2>2, <2>3
  <1>b. \A i \in 1 .. used + 1 : i \in 1 .. used \/ i = used + 1
    BY <1>a
  <1>3. TypeOK'
    BY <1>2 DEF IInv, TypeOK, Labels, Bump
  <1>4. PhaseInv' /\ LockInv'
    <2>1. Ready'
      BY <1>2 DEF Ready, IInv, TypeOK, Bump
    <2> QED
      BY <1>1, <2>1, CriticalPhase DEF Bump
  <1>5. TableInv'
    <2>1. \A i \in 1 .. used + 1 : mem[array][i] \in Pointer
      BY <1>2, <1>a, <1>b DEF IInv, TableInv, Ready
    <2>2. \A i, j \in 1 .. used + 1 : mem[array][i].str = mem[array][j].str => i = j
      BY <1>2, <1>a, <1>b DEF IInv, TableInv, Ready
    <2>3. array \notin freed /\ pc'[t] = "grow"
      BY <1>2 DEF IInv, TypeOK, TableInv, Ready, Bump
    <2> QED
      BY <1>2, <1>a, <2>1, <2>2, <2>3, NoThreadAssumption DEF TableInv, Bump
  <1>6. LocalInv'
    <2>1. Knows(t)'
      <3>1. used + 1 \in 1 .. used + 1
        BY <1>a
      <3>2. pc'[t] = "grow" /\ path[t] \in Path
        BY DEF IInv, TypeOK, LocalInv, Knows, Bump
      <3> QED
        BY <1>a, <3>1, <3>2 DEF Knows, IsEntry, Bump
    <2> QED
      BY <1>1, <2>1, CriticalLocal DEF Bump
  <1>7. ReturnedInv'
    BY <1>2 DEF IInv, TypeOK, ReturnedInv, IsEntry, Ready, Bump
  <1> QED
    BY <1>3, <1>4, <1>5, <1>6, <1>7 DEF IInv, Bump

LEMMA RoomyStep ==
    ASSUME IInv, NEW t \in Thread, Roomy(t)
    PROVE  IInv'
  <1> USE DEF table, locks, locals, history, At, Goto
  <1>1. InCritical(t)
    BY DEF Roomy, InCritical
  <1>2. Ready /\ lock = t
    BY <1>1, Alone
  <1>3. TypeOK'
    BY <1>2 DEF IInv, TypeOK, Labels, Roomy
  <1>4. PhaseInv' /\ LockInv'
    <2>1. Ready'
      BY <1>2 DEF Ready, IInv, TypeOK, Roomy
    <2> QED
      BY <1>1, <2>1, CriticalPhase DEF Roomy
  <1>5. TableInv'
    BY <1>2 DEF IInv, TypeOK, TableInv, LocalInv, Knows, Ready, Roomy
  <1>6. LocalInv'
    <2>1. Knows(t)'
      BY <1>2 DEF IInv, TypeOK, TableInv, LocalInv, Knows, IsEntry, Ready, Roomy
    <2> QED
      BY <1>1, <2>1, CriticalLocal DEF Roomy
  <1>7. ReturnedInv'
    BY <1>2 DEF IInv, TypeOK, ReturnedInv, IsEntry, Ready, Roomy
  <1> QED
    BY <1>3, <1>4, <1>5, <1>6, <1>7 DEF IInv, Roomy

LEMMA GrowFreeStep ==
    ASSUME IInv, NEW t \in Thread, GrowFree(t)
    PROVE  IInv'
  <1> USE DEF table, locks, locals, history, At, Goto
  <1>1. InCritical(t)
    BY DEF GrowFree, InCritical
  <1>2. Ready /\ lock = t
    BY <1>1, Alone
  <1>3. TypeOK'
    <2>1. array \in 1 .. Len(mem)
      BY <1>2 DEF IInv, TypeOK, Ready
    <2> QED
      BY <2>1 DEF IInv, TypeOK, Labels, GrowFree
  <1>4. PhaseInv' /\ LockInv'
    <2>1. Ready'
      BY <1>2 DEF Ready, IInv, TypeOK, GrowFree
    <2> QED
      BY <1>1, <2>1, CriticalPhase DEF GrowFree
  <1>5. TableInv'
    BY <1>2 DEF IInv, TypeOK, TableInv, LocalInv, Knows, Ready, GrowFree
  <1>6. LocalInv'
    <2>1. Knows(t)'
      <3>1. /\ pc[t] = "free"
            /\ pc'[t] = "publish"
            /\ freed' = freed \cup {array}
            /\ UNCHANGED <<array, size, used, mem, path, cachedpath, newArray>>
        BY DEF IInv, TypeOK, GrowFree
      <3>2. Knows(t)
        BY DEF IInv, LocalInv
      <3> QED
        BY <3>1, <3>2 DEF Knows, IsEntry
    <2> QED
      BY <1>1, <2>1, CriticalLocal DEF GrowFree
  <1>7. ReturnedInv'
    BY <1>2 DEF IInv, TypeOK, ReturnedInv, IsEntry, Ready, GrowFree
  <1> QED
    BY <1>3, <1>4, <1>5, <1>6, <1>7 DEF IInv, GrowFree

LEMMA GrowPublishStep ==
    ASSUME IInv, NEW t \in Thread, GrowPublish(t)
    PROVE  IInv'
  <1> USE DEF table, locks, locals, history, At, Goto
  <1>1. InCritical(t)
    BY DEF GrowPublish, InCritical
  <1>2. Ready /\ lock = t
    BY <1>1, Alone
  <1>a. /\ newArray[t] \in 1 .. Len(mem)
        /\ newArray[t] \notin freed
        /\ used = size
        /\ size \in Nat
        /\ Len(mem[newArray[t]]) = size * 2
        /\ \A i \in 1 .. used : mem[newArray[t]][i] = mem[array][i]
    BY DEF IInv, TypeOK, LocalInv, Knows, GrowPublish
  <1>b. size > 0 /\ size * 2 > size
    BY <1>2, <1>a DEF Ready
  <1>3. TypeOK'
    BY <1>2 DEF IInv, TypeOK, Labels, GrowPublish
  <1>4. PhaseInv' /\ LockInv'
    <2>1. Ready'
      BY <1>2, <1>a, <1>b DEF Ready, GrowPublish
    <2> QED
      BY <1>1, <2>1, CriticalPhase DEF GrowPublish
  <1>5. TableInv'
    <2>1. \A i \in 1 .. used : mem[newArray[t]][i] \in Pointer
      BY <1>2, <1>a DEF IInv, TableInv, Ready
    <2>2. \A i, j \in 1 .. used :
             mem[newArray[t]][i].str = mem[newArray[t]][j].str => i = j
      BY <1>2, <1>a DEF IInv, TableInv, Ready
    <2>3. array' = newArray[t] /\ UNCHANGED <<used, mem, freed, lock>>
      BY DEF GrowPublish
    <2> QED
      <3>1. used < Len(mem[newArray[t]]) /\ used <= Len(mem[newArray[t]])
        BY <1>a, <1>b
      <3> QED
        BY <1>a, <2>1, <2>2, <2>3, <3>1 DEF TableInv
  <1>6. LocalInv'
    <2>1. Knows(t)'
      <3>1. pc'[t] = "unlock"
        BY DEF IInv, TypeOK, GrowPublish
      <3>2. /\ path[t] \in Path
            /\ cachedpath[t] \in Pointer
            /\ cachedpath[t].str = path[t]
            /\ \E i \in 1 .. used : mem[array][i] = cachedpath[t]
        BY DEF IInv, LocalInv, Knows, IsEntry, GrowPublish
      <3> QED
        BY <1>a, <3>1, <3>2 DEF Knows, IsEntry, GrowPublish
    <2> QED
      BY <1>1, <2>1, CriticalLocal DEF GrowPublish
  <1>7. ReturnedInv'
    BY <1>a DEF IInv, ReturnedInv, IsEntry, GrowPublish
  <1> QED
    BY <1>3, <1>4, <1>5, <1>6, <1>7 DEF IInv, GrowPublish

LEMMA InsertStep ==
    ASSUME IInv, NEW t \in Thread, Insert(t)
    PROVE  IInv'
  <1> USE DEF table, locks, locals, history, At, Goto
  <1>1. InCritical(t)
    BY DEF Insert, InCritical
  <1>2. Ready /\ lock = t
    BY <1>1, Alone
  <1>a. /\ array \in 1 .. Len(mem)
        /\ used + 1 \in 1 .. Len(mem[array])
        /\ mem[array] \in Seq(Words)
        /\ mem \in Seq(Seq(Words))
        /\ cachedpath[t] \in Words
    BY <1>2 DEF IInv, TypeOK, LocalInv, Knows, Ready, Live, Insert, Words
  <1> DEFINE block == [mem[array] EXCEPT ![used + 1] = cachedpath[t]]
  <1>b. /\ block \in Seq(Words)
        /\ Len(block) = Len(mem[array])
        /\ \A j \in 1 .. Len(mem[array]) :
               block[j] = IF j = used + 1 THEN cachedpath[t] ELSE mem[array][j]
    BY <1>a, ExceptSeq
  <1>c. mem' = [mem EXCEPT ![array] = block]
    BY DEF Insert
  <1> HIDE DEF block
  <1>d. /\ mem' \in Seq(Seq(Words))
        /\ Len(mem') = Len(mem)
        /\ \A b \in 1 .. Len(mem) : mem'[b] = IF b = array THEN block ELSE mem[b]
    BY <1>a, <1>b, <1>c, ExceptSeq
  <1>e. \A i \in 1 .. used : mem'[array][i] = mem[array][i]
    <2>1. ASSUME NEW i \in 1 .. used
          PROVE  i \in 1 .. Len(mem[array]) /\ i # used + 1
      BY <1>a DEF IInv, TypeOK
    <2> QED
      BY <1>a, <1>b, <1>d, <2>1
  <1>3. TypeOK'
    BY <1>d DEF IInv, TypeOK, Labels, Insert, Words
  <1>4. PhaseInv' /\ LockInv'
    <2>1. Ready'
      BY <1>2, <1>a, <1>b, <1>d DEF Ready, Insert
    <2> QED
      BY <1>1, <2>1, CriticalPhase DEF Insert
  <1>5. TableInv'
    <2>1. used < Len(mem'[array]) /\ array \notin freed
      BY <1>a, <1>b, <1>d DEF IInv, TypeOK, Insert, Live
    <2>2. UNCHANGED <<array, used, freed, lock>>
      BY DEF Insert
    <2>3. /\ \A i \in 1 .. used : mem'[array][i] \in Pointer
          /\ \A i, j \in 1 .. used : mem'[array][i].str = mem'[array][j].str => i = j
      BY <1>2, <1>e DEF IInv, TableInv, Ready
    <2>4. used \in Nat /\ Len(mem'[array]) \in Nat
      BY <1>a, <1>b, <1>d DEF IInv, TypeOK
    <2> QED
      BY <2>1, <2>2, <2>3, <2>4 DEF TableInv
  <1>6. LocalInv'
    <2>1. Knows(t)'
      <3>1. mem'[array][used + 1] = cachedpath[t] /\ pc'[t] = "bump"
        BY <1>a, <1>b, <1>d DEF IInv, TypeOK, Insert
      <3>2. /\ path[t] \in Path
            /\ cachedpath[t] \in Pointer
            /\ cachedpath[t].str = path[t]
            /\ \A i \in 1 .. used : mem[array][i].str # path[t]
        BY DEF IInv, LocalInv, Knows, Insert
      <3> QED
        BY <1>e, <3>1, <3>2 DEF Knows, Insert
    <2> QED
      BY <1>1, <2>1, CriticalLocal DEF Insert
  <1>7. ReturnedInv'
    BY <1>e DEF IInv, ReturnedInv, IsEntry, Insert
  <1> QED
    BY <1>3, <1>4, <1>5, <1>6, <1>7 DEF IInv, Insert

LEMMA GrowCopyStep ==
    ASSUME IInv, NEW t \in Thread, GrowCopy(t)
    PROVE  IInv'
  <1> USE DEF table, locks, locals, history, At, Goto
  <1>1. InCritical(t)
    BY DEF GrowCopy, InCritical
  <1>2. Ready /\ lock = t
    BY <1>1, Alone
  <1>a. /\ array \in 1 .. Len(mem)
        /\ mem \in Seq(Seq(Words))
        /\ mem[array] \in Seq(Words)
        /\ size \in Nat
        /\ size = Len(mem[array])
    BY <1>2 DEF IInv, TypeOK, Ready, Words
  <1>b. Grown \in Seq(Words) /\ Len(Grown) = size * 2
    <2>1. \A i \in 1 .. size * 2 : (IF i <= size THEN mem[array][i] ELSE Garbage) \in Words
      BY <1>a, ElementOfSeq DEF Words
    <2>2. size * 2 \in Nat
      BY <1>a
    <2>3. Grown \in [1 .. size * 2 -> Words]
      BY <2>1 DEF Grown
    <2>4. Grown \in Seq(Words)
      BY <2>2, <2>3, SeqDef
    <2> QED
      BY <2>2, <2>3, <2>4, LenProperties
  <1>c. \A i \in 1 .. size : Grown[i] = mem[array][i]
    BY <1>a DEF Grown
  <1>d. /\ mem' \in Seq(Seq(Words))
        /\ Len(mem') = Len(mem) + 1
        /\ mem'[Len(mem) + 1] = Grown
        /\ \A b \in 1 .. Len(mem) : mem'[b] = mem[b]
    BY <1>a, <1>b, AppendProperties DEF GrowCopy
  <1>e. newArray' = [newArray EXCEPT ![t] = Len(mem) + 1]
    BY DEF GrowCopy
  <1>3. TypeOK'
    <2>1. pc' \in [Thread -> Labels]
      BY DEF IInv, TypeOK, Labels, GrowCopy
    <2>2. /\ array' \in 0 .. Len(mem')
          /\ freed' \subseteq 1 .. Len(mem')
          /\ newArray' \in [Thread -> 0 .. Len(mem')]
      <3>1. /\ array \in 0 .. Len(mem)
            /\ freed \subseteq 1 .. Len(mem)
            /\ newArray \in [Thread -> 0 .. Len(mem)]
        BY DEF IInv, TypeOK
      <3>2. Len(mem) \in Nat
        BY <1>a
      <3>3. UNCHANGED <<array, freed>>
        BY DEF GrowCopy
      <3> QED
        BY <3>1, <3>2, <3>3, <1>d, <1>e
    <2>3. /\ UNCHANGED <<size, used, lockReady, lock, initlock, path, cachedpath>>
          /\ UNCHANGED <<calls, returned, initialised, strdups, todo, wild>>
      BY DEF GrowCopy
    <2> QED
      BY <1>d, <2>1, <2>2, <2>3 DEF IInv, TypeOK, Words
  <1>4. PhaseInv' /\ LockInv'
    <2>1. Ready'
      BY <1>2, <1>a, <1>d DEF Ready, GrowCopy
    <2> QED
      BY <1>1, <2>1, CriticalPhase DEF GrowCopy
  <1>5. TableInv'
    BY <1>2, <1>a, <1>d, NoThreadAssumption DEF IInv, TypeOK, TableInv, Ready, GrowCopy
  <1>6. LocalInv'
    <2>1. Knows(t)'
      <3>1. /\ pc'[t] = "free"
            /\ newArray'[t] = Len(mem) + 1
            /\ Len(mem) \in Nat
        BY <1>a, <1>e DEF IInv, TypeOK, GrowCopy
      <3>2. newArray'[t] # 0 /\ newArray'[t] # array /\ newArray'[t] \notin freed
        BY <3>1, <1>a DEF IInv, TypeOK
      <3>3. /\ path[t] \in Path
            /\ cachedpath[t] \in Pointer
            /\ cachedpath[t].str = path[t]
            /\ \E i \in 1 .. used : mem[array][i] = cachedpath[t]
        BY DEF IInv, LocalInv, Knows, IsEntry, GrowCopy
      <3>4. \A i \in 1 .. size : mem'[array][i] = mem[array][i]
        BY <1>a, <1>d
      <3>5. used = size /\ UNCHANGED <<array, size, used, path, cachedpath, freed>>
        BY DEF GrowCopy
      <3>6. Len(mem'[newArray'[t]]) = size * 2
        BY <1>b, <1>d, <3>1
      <3>7. \A i \in 1 .. size : mem'[newArray'[t]][i] = mem'[array][i]
        BY <1>c, <1>d, <3>1, <3>4
      <3>8. IsEntry(path[t], cachedpath[t])'
        BY <3>3, <3>4, <3>5 DEF IsEntry
      <3> QED
        BY <3>1, <3>2, <3>3, <3>5, <3>6, <3>7, <3>8 DEF Knows
    <2> QED
      BY <1>1, <2>1, CriticalLocal DEF GrowCopy
  <1>7. ReturnedInv'
    BY <1>2, <1>a, <1>d DEF IInv, ReturnedInv, IsEntry, Ready, GrowCopy
  <1> QED
    BY <1>3, <1>4, <1>5, <1>6, <1>7 DEF IInv, GrowCopy

-----------------------------------------------------------------------------
(* Outside the critical section.                                           *)
LEMMA LockStep ==
    ASSUME IInv, NEW t \in Thread, Lock(t)
    PROVE  IInv'
  <1> USE DEF table, locks, locals, history, At, Goto
  <1>1. Ready
    BY DEF IInv, PhaseInv, Lock
  <1>2. \A u \in Thread : ~InCritical(u)
    BY NoThreadAssumption DEF IInv, LockInv, Lock
  <1>3. /\ pc'[t] = "search"
        /\ \A u \in Thread \ {t} : pc'[u] = pc[u]
    BY DEF IInv, TypeOK, Lock
  <1>4. TypeOK'
    BY DEF IInv, TypeOK, Labels, Lock
  <1>5. PhaseInv'
    BY <1>1, <1>3 DEF IInv, PhaseInv, Ready, InCritical, Lock
  <1>6. LockInv'
    BY <1>2, <1>3 DEF LockInv, InCritical, Lock
  <1>7. TableInv'
    BY <1>1 DEF IInv, TableInv, Ready, Lock
  <1>8. LocalInv'
    BY <1>3 DEF IInv, LocalInv, Knows, IsEntry, Lock
  <1>9. ReturnedInv'
    BY DEF IInv, ReturnedInv, IsEntry, Lock
  <1> QED
    BY <1>4, <1>5, <1>6, <1>7, <1>8, <1>9 DEF IInv, Lock

LEMMA UnlockStep ==
    ASSUME IInv, NEW t \in Thread, Unlock(t)
    PROVE  IInv'
  <1> USE DEF table, locks, locals, history, At, Goto
  <1>1. InCritical(t)
    BY DEF Unlock, InCritical
  <1>2. /\ Ready
        /\ lock = t
        /\ \A u \in Thread \ {t} : pc[u] \in {"idle", "check", "lock"}
    BY <1>1, Alone
  <1>3. /\ pc'[t] = "idle"
        /\ \A u \in Thread \ {t} : pc'[u] = pc[u] /\ path'[u] = path[u]
    BY DEF IInv, TypeOK, Unlock
  <1>4. /\ path[t] \in Path
        /\ cachedpath[t] \in Pointer
        /\ IsEntry(path[t], cachedpath[t])
    BY DEF IInv, LocalInv, Knows, Unlock
  <1>5. lock' = NoThread
    BY <1>2 DEF Unlock
  <1>6. TypeOK'
    BY <1>4, <1>5 DEF IInv, TypeOK, Labels, Unlock
  <1>7. PhaseInv'
    BY <1>2, <1>3 DEF PhaseInv, Ready, InCritical, Unlock
  <1>8. LockInv'
    BY <1>2, <1>3, <1>5 DEF LockInv, InCritical
  <1>9. TableInv'
    BY <1>2 DEF IInv, TableInv, Ready, Unlock
  <1>10. LocalInv'
    <2> SUFFICES ASSUME NEW u \in Thread
                 PROVE  Knows(u)'
      BY DEF LocalInv
    <2>1. CASE u = t
      BY <2>1, <1>3 DEF Knows
    <2>2. CASE u # t
      BY <2>2, <1>2, <1>3 DEF IInv, LocalInv, Knows
    <2> QED
      BY <2>1, <2>2
  <1>11. ReturnedInv'
    BY <1>2, <1>4 DEF IInv, ReturnedInv, IsEntry, Ready, Unlock
  <1> QED
    BY <1>6, <1>7, <1>8, <1>9, <1>10, <1>11 DEF IInv, Unlock

LEMMA CallStep ==
    ASSUME SoloInit, IInv, NEW t \in Thread, NEW p \in Path, Call(t, p)
    PROVE  IInv'
  <1> USE DEF table, locks, locals, history, At, Goto
  <1>1. returned = {} => array = 0 /\ \A u \in Thread : pc[u] = "idle"
    BY DEF IInv, PhaseInv, Call
  <1>2. /\ pc'[t] = "check"
        /\ path'[t] = p
        /\ \A u \in Thread \ {t} : pc'[u] = pc[u] /\ path'[u] = path[u]
    BY DEF IInv, TypeOK, Call
  <1>3. calls' \in [Thread -> 0 .. MaxCalls]
    <2>1. calls[t] + 1 \in 0 .. MaxCalls
      BY MaxCallsAssumption DEF IInv, TypeOK, Call
    <2> QED
      BY <2>1 DEF IInv, TypeOK, Call
  <1>4. TypeOK'
    BY <1>3 DEF IInv, TypeOK, Labels, Call
  <1>5. PhaseInv'
    BY <1>1, <1>2 DEF IInv, PhaseInv, Ready, InCritical, Call
  <1>6. LockInv'
    BY <1>2 DEF IInv, LockInv, InCritical, Call
  <1>7. TableInv'
    BY <1>2 DEF IInv, TypeOK, TableInv, Call
  <1>8. LocalInv'
    <2> SUFFICES ASSUME NEW u \in Thread
                 PROVE  Knows(u)'
      BY DEF LocalInv
    <2>1. CASE u = t
      BY <2>1, <1>2 DEF Knows
    <2>2. CASE u # t
      BY <2>2, <1>2 DEF IInv, LocalInv, Knows, IsEntry, Call
    <2> QED
      BY <2>1, <2>2
  <1>9. ReturnedInv'
    BY DEF IInv, ReturnedInv, IsEntry, Call
  <1> QED
    BY <1>4, <1>5, <1>6, <1>7, <1>8, <1>9 DEF IInv, Call

LEMMA CheckStep ==
    ASSUME IInv, NEW t \in Thread, Check(t)
    PROVE  IInv'
  <1> USE DEF table, locks, locals, history, At, Goto
  <1>1. pc \in [Thread -> Labels] /\ path[t] \in Path
    BY DEF IInv, TypeOK, LocalInv, Knows, Check
  <1>2. /\ pc'[t] \in {"initlock", "lock", "recheck", "store"}
        /\ pc[t] \in {"check", "initlock", "recheck", "store"}
        /\ \A u \in Thread \ {t} : pc'[u] = pc[u]
    BY <1>1 DEF IInv, PhaseInv, Labels, Check
  <1>3. TypeOK'
    BY <1>2 DEF IInv, TypeOK, Labels, PhaseInv, Fields, Check
  <1>4. PhaseInv'
    <2>1. pc'[t] # "initunlock" /\ (pc[t] = "recheck" => array = 0)
      BY <1>1 DEF IInv, PhaseInv, Check
    <2> QED
      BY <2>1, <1>1, <1>2 DEF IInv, PhaseInv, Ready, InCritical, Fields, Check
  <1>5. LockInv'
    BY <1>2 DEF IInv, LockInv, InCritical, Check
  <1>6. TableInv'
    BY <1>2 DEF IInv, TypeOK, TableInv, Check
  <1>7. LocalInv'
    <2> SUFFICES ASSUME NEW u \in Thread
                 PROVE  Knows(u)'
      BY DEF LocalInv
    <2>1. CASE u = t
      BY <2>1, <1>1, <1>2 DEF Knows, Check
    <2>2. CASE u # t
      BY <2>2, <1>2 DEF IInv, LocalInv, Knows, IsEntry, Check
    <2> QED
      BY <2>1, <2>2
  <1>8. ReturnedInv'
    BY DEF IInv, ReturnedInv, IsEntry, Check
  <1> QED
    BY <1>3, <1>4, <1>5, <1>6, <1>7, <1>8 DEF IInv, Check

LEMMA InitLockStep ==
    ASSUME IInv, NEW t \in Thread, InitLock(t)
    PROVE  IInv'
  <1> USE DEF table, locks, locals, history, At, Goto
  <1>1. pc \in [Thread -> Labels] /\ path[t] \in Path
    BY DEF IInv, TypeOK, LocalInv, Knows, InitLock
  <1>2. /\ pc'[t] \in {"initlock", "lock", "recheck", "store"}
        /\ pc[t] \in {"check", "initlock", "recheck", "store"}
        /\ \A u \in Thread \ {t} : pc'[u] = pc[u]
    BY <1>1 DEF IInv, PhaseInv, Labels, InitLock
  <1>3. TypeOK'
    BY <1>2 DEF IInv, TypeOK, Labels, PhaseInv, Fields, InitLock
  <1>4. PhaseInv'
    <2>1. pc'[t] # "initunlock" /\ (pc[t] = "recheck" => array = 0)
      BY <1>1 DEF IInv, PhaseInv, InitLock
    <2> QED
      BY <2>1, <1>1, <1>2 DEF IInv, PhaseInv, Ready, InCritical, Fields, InitLock
  <1>5. LockInv'
    BY <1>2 DEF IInv, LockInv, InCritical, InitLock
  <1>6. TableInv'
    BY <1>2 DEF IInv, TypeOK, TableInv, InitLock
  <1>7. LocalInv'
    <2> SUFFICES ASSUME NEW u \in Thread
                 PROVE  Knows(u)'
      BY DEF LocalInv
    <2>1. CASE u = t
      BY <2>1, <1>1, <1>2 DEF Knows, InitLock
    <2>2. CASE u # t
      BY <2>2, <1>2 DEF IInv, LocalInv, Knows, IsEntry, InitLock
    <2> QED
      BY <2>1, <2>2
  <1>8. ReturnedInv'
    BY DEF IInv, ReturnedInv, IsEntry, InitLock
  <1> QED
    BY <1>3, <1>4, <1>5, <1>6, <1>7, <1>8 DEF IInv, InitLock

LEMMA RecheckStep ==
    ASSUME IInv, NEW t \in Thread, Recheck(t)
    PROVE  IInv'
  <1> USE DEF table, locks, locals, history, At, Goto
  <1>1. pc \in [Thread -> Labels] /\ path[t] \in Path
    BY DEF IInv, TypeOK, LocalInv, Knows, Recheck
  <1>2. /\ pc'[t] \in {"initlock", "lock", "recheck", "store"}
        /\ pc[t] \in {"check", "initlock", "recheck", "store"}
        /\ \A u \in Thread \ {t} : pc'[u] = pc[u]
    BY <1>1 DEF IInv, PhaseInv, Labels, Recheck
  <1>3. TypeOK'
    <2>1. pc' \in [Thread -> Labels]
      BY <1>1 DEF Recheck, Labels
    <2>2. todo' \subseteq Fields
      BY DEF IInv, TypeOK, Recheck
    <2>3. /\ UNCHANGED <<array, size, used, lockReady, mem, freed, lock, calls, returned>>
          /\ UNCHANGED <<path, cachedpath, newArray, strdups, wild>>
      BY DEF Recheck
    <2>4. initlock' \in Thread \cup {NoThread} /\ initialised' \in Nat
      BY DEF IInv, TypeOK, Recheck
    <2> QED
      BY <2>1, <2>2, <2>3, <2>4 DEF IInv, TypeOK
  <1>4. PhaseInv'
    <2>1. array = 0 /\ pc'[t] = "store" /\ todo' = Fields
      BY <1>1 DEF IInv, PhaseInv, Recheck
    <2>2. returned = {} /\ used = 0 /\ array \notin freed
      BY <2>1 DEF IInv, TypeOK, PhaseInv, Ready
    <2>3. \A u \in Thread \ {t} : pc'[u] = "idle"
      BY <2>2, <1>2 DEF IInv, PhaseInv
    <2>4. UNCHANGED <<array, used, returned, freed>>
      BY DEF Recheck
    <2>5. "lock" \in todo' /\ "array" \in todo' /\ "size" \in todo'
      BY <2>1 DEF Fields
    <2> QED
      BY <2>1, <2>2, <2>3, <2>4, <2>5 DEF PhaseInv, InCritical
  <1>5. LockInv'
    <2>1. ~InCritical(t) /\ ~InCritical(t)'
      BY <1>2 DEF InCritical
    <2>2. \A u \in Thread \ {t} : InCritical(u)' = InCritical(u)
      BY <1>2 DEF InCritical
    <2>3. lock' = lock /\ lock \in Thread \cup {NoThread}
      BY DEF IInv, TypeOK, Recheck
    <2> QED
      BY <2>1, <2>2, <2>3 DEF IInv, LockInv
  <1>6. TableInv'
    BY <1>2 DEF IInv, TypeOK, TableInv, Recheck
  <1>7. LocalInv'
    <2> SUFFICES ASSUME NEW u \in Thread
                 PROVE  Knows(u)'
      BY DEF LocalInv
    <2>1. CASE u = t
      BY <2>1, <1>1, <1>2 DEF Knows, Recheck
    <2>2. CASE u # t
      BY <2>2, <1>2 DEF IInv, LocalInv, Knows, IsEntry, Recheck
    <2> QED
      BY <2>1, <2>2
  <1>8. ReturnedInv'
    BY DEF IInv, ReturnedInv, IsEntry, Recheck
  <1> QED
    BY <1>3, <1>4, <1>5, <1>6, <1>7, <1>8 DEF IInv, Recheck

LEMMA InitUnlockStep ==
    ASSUME IInv, NEW t \in Thread, InitUnlock(t)
    PROVE  IInv'
  <1> USE DEF table, locks, locals, history, At, Goto
  <1>1. pc \in [Thread -> Labels] /\ path[t] \in Path
    BY DEF IInv, TypeOK, LocalInv, Knows, InitUnlock
  <1>2. /\ pc'[t] \in {"initlock", "lock", "recheck", "store"}
        /\ pc[t] \in {"check", "initlock", "recheck", "store"}
        /\ \A u \in Thread \ {t} : pc'[u] = pc[u]
    BY <1>1 DEF IInv, PhaseInv, Labels, InitUnlock
  <1>3. TypeOK'
    BY <1>2 DEF IInv, TypeOK, Labels, PhaseInv, Fields, InitUnlock
  <1>4. PhaseInv'
    <2>1. returned = {} /\ pc'[t] = "lock"
      BY <1>1, <1>2 DEF IInv, PhaseInv, InitUnlock
    <2>2. \A u \in Thread \ {t} : pc'[u] = "idle"
      BY <2>1, <1>2 DEF IInv, PhaseInv
    <2>3. Ready
      BY <1>2, InitSizeAssumption DEF IInv, PhaseInv, Ready, InitUnlock
    <2>4. UNCHANGED table /\ UNCHANGED <<returned, todo>>
      BY DEF InitUnlock
    <2> QED
      BY <2>1, <2>2, <2>3, <2>4 DEF PhaseInv, Ready, InCritical
  <1>5. LockInv'
    BY <1>2 DEF IInv, LockInv, InCritical, InitUnlock
  <1>6. TableInv'
    BY <1>2 DEF IInv, TypeOK, TableInv, InitUnlock
  <1>7. LocalInv'
    <2> SUFFICES ASSUME NEW u \in Thread
                 PROVE  Knows(u)'
      BY DEF LocalInv
    <2>1. CASE u = t
      BY <2>1, <1>1, <1>2 DEF Knows, InitUnlock
    <2>2. CASE u # t
      BY <2>2, <1>2 DEF IInv, LocalInv, Knows, IsEntry, InitUnlock
    <2> QED
      BY <2>1, <2>2
  <1>8. ReturnedInv'
    BY DEF IInv, ReturnedInv, IsEntry, InitUnlock
  <1> QED
    BY <1>3, <1>4, <1>5, <1>6, <1>7, <1>8 DEF IInv, InitUnlock

LEMMA StoreFieldStep ==
    ASSUME IInv, NEW t \in Thread, NEW f \in Fields, StoreField(t, f)
    PROVE  IInv'
  <1> USE DEF table, locks, locals, history, At, Goto
  <1>1. /\ pc[t] = "store" /\ pc' = pc
        /\ todo' = todo \ {f}
        /\ returned = {} /\ returned' = {}
        /\ used = 0 /\ used' = 0
        /\ UNCHANGED <<lock, path, freed>>
    BY DEF IInv, PhaseInv, StoreField
  <1>2. \A u \in Thread \ {t} : pc[u] = "idle"
    BY <1>1 DEF IInv, PhaseInv
  <1>3. /\ mem \in Seq(Seq(Words)) /\ Len(mem) \in Nat
        /\ array \in 0 .. Len(mem)
        /\ freed \subseteq 1 .. Len(mem)
        /\ array \notin freed
        /\ IF "array" \in todo THEN array = 0
           ELSE array # 0 /\ Len(mem[array]) = CACHE_INIT_SIZE
    BY <1>1 DEF IInv, TypeOK, PhaseInv, Words
  <1>4. /\ Block(CACHE_INIT_SIZE) \in Seq(Words)
        /\ Len(Block(CACHE_INIT_SIZE)) = CACHE_INIT_SIZE
    <2>1. Block(CACHE_INIT_SIZE) \in [1 .. CACHE_INIT_SIZE -> Words]
      BY DEF Block, Words
    <2>2. Block(CACHE_INIT_SIZE) \in Seq(Words)
      BY <2>1, InitSizeAssumption, SeqDef
    <2> QED
      BY <2>1, <2>2, LenProperties, InitSizeAssumption
  <1>5. /\ mem' \in Seq(Seq(Words))
        /\ Len(mem') \in Nat /\ Len(mem') >= Len(mem)
        /\ array' \in 0 .. Len(mem')
        /\ array' \notin freed
        /\ IF "array" \in todo' THEN array' = 0
           ELSE array' # 0 /\ Len(mem'[array']) = CACHE_INIT_SIZE
    <2>1. CASE f = "array"
      <3>1. mem' = Append(mem, Block(CACHE_INIT_SIZE)) /\ array' = Len(mem) + 1
        BY <2>1 DEF StoreField
      <3>2. /\ mem' \in Seq(Seq(Words))
            /\ Len(mem') = Len(mem) + 1
            /\ mem'[Len(mem) + 1] = Block(CACHE_INIT_SIZE)
        BY <1>3, <1>4, <3>1, AppendProperties
      <3> QED
        BY <1>1, <1>3, <1>4, <2>1, <3>1, <3>2
    <2>2. CASE f # "array"
      BY <1>1, <1>3, <2>2 DEF StoreField
    <2> QED
      BY <2>1, <2>2
  <1>6. TypeOK'
    <2>1. size' \in Nat /\ lockReady' \in BOOLEAN /\ initialised' \in Nat
      BY InitSizeAssumption DEF IInv, TypeOK, StoreField
    <2>2. newArray' \in [Thread -> 0 .. Len(mem')]
      BY <1>5, <1>3 DEF IInv, TypeOK, StoreField
    <2> QED
      BY <1>1, <1>3, <1>5, <2>1, <2>2 DEF IInv, TypeOK, StoreField, Words
  <1>7. PhaseInv'
    <2>1. "lock" \in todo' \/ lockReady'
      BY <1>1 DEF IInv, PhaseInv, StoreField
    <2>2. "size" \in todo' \/ size' = CACHE_INIT_SIZE
      BY <1>1 DEF IInv, PhaseInv, StoreField
    <2> QED
      BY <1>1, <1>2, <1>5, <2>1, <2>2 DEF PhaseInv, InCritical
  <1>8. LockInv'
    BY <1>1 DEF IInv, LockInv, InCritical
  <1>9. TableInv'
    <2>1. array' # 0 => Len(mem'[array']) > 0
      BY <1>5, InitSizeAssumption
    <2> QED
      BY <1>1, <1>5, <2>1 DEF TableInv
  <1>10. LocalInv'
    BY <1>1, <1>2 DEF IInv, LocalInv, Knows
  <1>11. ReturnedInv'
    BY <1>1 DEF ReturnedInv
  <1> QED
    BY <1>6, <1>7, <1>8, <1>9, <1>10, <1>11 DEF IInv, StoreField

(* With the table ready and a thread alone in it, no access can be wild,   *)
(* and the mutex is initialised before anybody locks it.                   *)
LEMMA NothingWild ==
    ASSUME IInv, NEW t \in Thread
    PROVE  /\ ~LockFails(t)
           /\ ~SearchWild(t)
           /\ ~InsertWild(t)
           /\ ~GrowCopyWild(t)
           /\ ~GrowFreeWild(t)
  <1> USE DEF At
  <1>1. ~LockFails(t)
    BY DEF IInv, PhaseInv, Ready, LockFails
  <1>2. ASSUME InCritical(t), pc[t] # "publish"
        PROVE  /\ array \in 1 .. Len(mem)
               /\ array \notin freed
               /\ size = Len(mem[array])
               /\ used <= size
               /\ used \in Nat /\ size \in Nat
               /\ pc[t] \in {"search", "insert"} => used < size
               /\ \A i \in 1 .. used : mem[array][i] \in Pointer
    <2>1. Ready /\ lock = t
      BY <1>2, Alone
    <2>2. Len(mem[array]) \in Nat
      BY <2>1 DEF IInv, TypeOK, Ready
    <2> QED
      BY <1>2, <2>1, <2>2 DEF IInv, TypeOK, TableInv, Ready
  <1>3. ~SearchWild(t)
    <2> SUFFICES ASSUME SearchWild(t)
                 PROVE  FALSE
      OBVIOUS
    <2>1. PICK i \in 0 .. used - 1 : Cell(i) = Garbage
      BY DEF SearchWild
    <2>2. i + 1 \in 1 .. used /\ Live(i + 1)
      BY <2>1, <1>2 DEF SearchWild, InCritical, Live
    <2> QED
      BY <2>1, <2>2, <1>2, GarbageAssumption DEF SearchWild, InCritical, Cell
  <1>4. ~InsertWild(t)
    BY <1>2 DEF InsertWild, InCritical, Live
  <1>5. ~GrowCopyWild(t)
    BY <1>2 DEF GrowCopyWild, InCritical, Live
  <1>6. ~GrowFreeWild(t)
    BY <1>2 DEF GrowFreeWild, InCritical, Live
  <1> QED
    BY <1>1, <1>3, <1>4, <1>5, <1>6

-----------------------------------------------------------------------------
LEMMA InitIInv == Init => IInv
  <1> SUFFICES ASSUME Init
               PROVE  IInv
    OBVIOUS
  <1>1. TypeOK
    <2>1. mem \in Seq(Seq(Words)) /\ Len(mem) = 0
      BY EmptySeq DEF Init
    <2>2. /\ calls \in [Thread -> 0 .. MaxCalls]
          /\ newArray \in [Thread -> 0 .. Len(mem)]
          /\ array \in 0 .. Len(mem)
          /\ freed \subseteq 1 .. Len(mem)
      BY <2>1, MaxCallsAssumption DEF Init
    <2>3. /\ pc \in [Thread -> Labels]
          /\ path \in [Thread -> Path \cup {None}]
          /\ cachedpath \in [Thread -> Pointer \cup {None}]
      BY DEF Init, Labels
    <2>4. /\ size \in Nat /\ used \in Nat /\ strdups \in Nat /\ initialised \in Nat
          /\ lockReady \in BOOLEAN /\ wild \in BOOLEAN
          /\ lock \in Thread \cup {NoThread}
          /\ initlock \in Thread \cup {NoThread}
          /\ todo \subseteq Fields
          /\ returned \subseteq Path \X Pointer
      BY DEF Init
    <2> QED
      BY <2>1, <2>2, <2>3, <2>4 DEF TypeOK, Words
  <1>2. PhaseInv /\ LockInv
    BY DEF Init, PhaseInv, LockInv, InCritical
  <1>3. TableInv /\ LocalInv /\ ReturnedInv
    BY DEF Init, TableInv, LocalInv, Knows, ReturnedInv
  <1> QED
    BY <1>1, <1>2, <1>3 DEF Init, IInv

LEMMA NextIInv ==
    ASSUME SoloInit, IInv, [Next]_vars
    PROVE  IInv'
  <1>1. CASE UNCHANGED vars
    <2>0. /\ UNCHANGED <<array, size, used, lockReady, mem, freed, lock, initlock>>
          /\ UNCHANGED <<path, cachedpath, newArray, calls, returned, initialised>>
          /\ UNCHANGED <<strdups, pc, todo, wild>>
      BY <1>1 DEF vars, table, locks, locals, history
    <2>1. TypeOK'
      BY <2>0 DEF IInv, TypeOK
    <2>2. PhaseInv' /\ LockInv'
      BY <2>0 DEF IInv, PhaseInv, LockInv, Ready, InCritical
    <2>3. TableInv'
      BY <2>0 DEF IInv, TableInv
    <2>4. LocalInv' /\ ReturnedInv'
      BY <2>0 DEF IInv, LocalInv, Knows, IsEntry, ReturnedInv
    <2> QED
      BY <2>0, <2>1, <2>2, <2>3, <2>4 DEF IInv
  <1>2. ASSUME NEW t \in Thread, NEW p \in Path, Call(t, p)
        PROVE  IInv'
    BY <1>2, CallStep
  <1>3. ASSUME NEW t \in Thread, Initialise(t)
        PROVE  IInv'
    BY <1>3, CheckStep, InitLockStep, RecheckStep, StoreFieldStep, InitUnlockStep
       DEF Initialise
  <1>4. ASSUME NEW t \in Thread, Critical(t)
        PROVE  IInv'
    BY <1>4, FoundStep, NotFoundStep, InsertStep, BumpStep, RoomyStep, GrowCopyStep,
       GrowFreeStep, GrowPublishStep, NothingWild DEF Critical, Grow
  <1>5. ASSUME NEW t \in Thread, Lock(t) \/ LockFails(t) \/ Unlock(t)
        PROVE  IInv'
    BY <1>5, LockStep, UnlockStep, NothingWild
  <1> QED
    BY <1>1, <1>2, <1>3, <1>4, <1>5 DEF Next, Step

THEOREM Invariance == SoloInit => (Spec => []IInv)
  <1> SUFFICES ASSUME SoloInit
               PROVE  Spec => []IInv
    OBVIOUS
  <1>1. IInv /\ [Next]_vars => IInv'
    BY NextIInv
  <1> QED
    BY InitIInv, <1>1, PTL DEF Spec

(* The types of the variables of cache_path() hold in every reachable      *)
(* state, for any threads, paths, capacity and number of calls.            *)
THEOREM TypeCorrect == SoloInit => (Spec => []TypeOK)
  BY Invariance, PTL DEF IInv

(* The table is never used outside its live block: growth always comes     *)
(* before the write it makes room for, and frees a block nobody uses.      *)
THEOREM NeverWild == SoloInit => (Spec => []NoWildAccess)
  <1>1. IInv => NoWildAccess
    BY DEF IInv, NoWildAccess
  <1> QED
    BY <1>1, Invariance, PTL

(* cache->lock excludes: two threads are never in the critical section.    *)
THEOREM Exclusion == SoloInit => (Spec => []MutualExclusion)
  <1>1. IInv => MutualExclusion
    BY DEF IInv, LockInv, MutualExclusion
  <1> QED
    BY <1>1, Invariance, PTL

(* Two calls with the same path return the same pointer, whenever and by   *)
(* whomever they are made.                                                 *)
THEOREM InternedPointers == SoloInit => (Spec => []Interned)
  <1>1. IInv => Interned
    <2> SUFFICES ASSUME IInv, NEW r \in returned, NEW s \in returned, r[1] = s[1]
                 PROVE  r[2] = s[2]
      BY DEF Interned
    <2>1. /\ array # 0
          /\ IsEntry(r[1], r[2])
          /\ IsEntry(s[1], s[2])
      BY DEF IInv, ReturnedInv
    <2>2. PICK i \in 1 .. used : mem[array][i] = r[2]
      BY <2>1 DEF IsEntry
    <2>3. PICK j \in 1 .. used : mem[array][j] = s[2]
      BY <2>1 DEF IsEntry
    <2>4. mem[array][i].str = mem[array][j].str
      BY <2>1, <2>2, <2>3 DEF IsEntry
    <2>5. i = j
      BY <2>1, <2>4 DEF IInv, TableInv
    <2> QED
      BY <2>2, <2>3, <2>5
  <1> QED
    BY <1>1, Invariance, PTL
-----------------------------------------------------------------------------
(***************************************************************************)
(* The first calls may race from here on: nothing is assumed of SoloInit.  *)
(* Whoever is past the first test of cache->array, or past initlock, has   *)
(* a table, and whoever still has to store cache->array holds initlock.    *)
(***************************************************************************)
IsSequence(s) == \E S : s \in Seq(S)

RaceTypes ==
    /\ IsSequence(mem)
    /\ initialised \in Nat
    /\ pc \in [Thread -> Labels]
    /\ newArray \in [Thread -> Nat]

Allocation ==
    /\ initialised <= 1
    /\ array = 0 => initialised = 0
    /\ \A t \in Thread :
          /\ pc[t] \in {"recheck", "store", "initunlock"} => initlock = t
          /\ pc[t] = "store" => ("array" \in todo <=> array = 0)
          /\ pc[t] \in {"initunlock", "lock"} \/ InCritical(t) => array # 0
          /\ pc[t] \in {"free", "publish"} => newArray[t] # 0

RaceInv == RaceTypes /\ Allocation

(* A sequence stays one when it grows, and when an element of it changes.  *)
LEMMA SequencesStay ==
    ASSUME NEW s, IsSequence(s), NEW i, NEW x
    PROVE  /\ Len(s) \in Nat
           /\ IsSequence(Append(s, x))
           /\ IsSequence([s EXCEPT ![i] = x])
  <1>1. PICK S : s \in Seq(S)
    BY DEF IsSequence
  <1>2. s \in Seq(S \cup {x})
    BY <1>1
  <1>3. Append(s, x) \in Seq(S \cup {x})
    BY <1>2
  <1>4. [s EXCEPT ![i] = x] \in Seq(S \cup {x})
    <2>1. CASE i \in 1 .. Len(s)
      BY <1>2, <2>1, ExceptSeq
    <2>2. CASE i \notin 1 .. Len(s)
      <3>1. [s EXCEPT ![i] = x] = s
        BY <1>1, <2>2
      <3> QED
        BY <1>2, <3>1
    <2> QED
      BY <2>1, <2>2
  <1> QED
    BY <1>1, <1>3, <1>4 DEF IsSequence

(* The initialiser's steps keep the invariant.                             *)
LEMMA InitialiseRace ==
    ASSUME RaceInv, NEW t \in Thread, Initialise(t)
    PROVE  RaceInv'
  <1> USE NoThreadAssumption DEF RaceInv
  <1>1. CASE Check(t)
    <2>1. RaceTypes'
      BY <1>1 DEF Check, At, Goto, table, locals, history, RaceTypes, Labels
    <2>2. Allocation'
      BY <1>1 DEF Check, At, Goto, table, locks, locals, history, RaceTypes, Allocation, InCritical
    <2> QED
      BY <2>1, <2>2
  <1>2. CASE InitLock(t)
    <2>1. RaceTypes'
      BY <1>2 DEF InitLock, At, Goto, table, locals, history, RaceTypes, Labels
    <2>2. Allocation'
      BY <1>2 DEF InitLock, At, Goto, table, locals, history, RaceTypes, Allocation, InCritical
    <2> QED
      BY <2>1, <2>2
  <1>3. CASE Recheck(t)
    <2>1. RaceTypes'
      BY <1>3 DEF Recheck, At, Goto, table, locals, history, RaceTypes, Labels
    <2>2. Allocation'
      BY <1>3 DEF Recheck, At, Goto, table, locks, locals, history, RaceTypes, Allocation, InCritical, Fields
    <2> QED
      BY <2>1, <2>2
  <1>4. ASSUME NEW f \in Fields, StoreField(t, f)
        PROVE  RaceInv'
    <2>1. IsSequence(mem')
      BY <1>4, SequencesStay DEF StoreField, RaceTypes
    <2>2. RaceTypes'
      BY <1>4, <2>1 DEF StoreField, locals, RaceTypes
    <2>3. /\ pc[t] = "store"
          /\ initlock = t
          /\ \A u \in Thread : pc[u] = "store" => u = t
      BY <1>4 DEF StoreField, At, Allocation
    <2>4. CASE f = "array"
      <3>1. array = 0 /\ array' # 0 /\ initialised' = 1
        BY <1>4, <2>3, <2>4, SequencesStay DEF StoreField, Allocation, RaceTypes
      <3> QED
        BY <1>4, <2>2, <2>3, <2>4, <3>1 DEF StoreField, locks, locals, Allocation, InCritical
    <2>5. CASE f # "array"
      BY <1>4, <2>2, <2>3, <2>5 DEF StoreField, locks, locals, Allocation, InCritical
    <2> QED
      BY <2>4, <2>5
  <1>5. CASE InitUnlock(t)
    <2>1. RaceTypes'
      BY <1>5 DEF InitUnlock, At, Goto, table, locals, history, RaceTypes, Labels
    <2>2. array # 0 /\ initlock = t
      BY <1>5 DEF InitUnlock, At, Allocation
    <2>3. Allocation'
      BY <1>5, <2>2 DEF InitUnlock, At, Goto, table, locals, history, RaceTypes, Allocation, InCritical
    <2> QED
      BY <2>1, <2>3
  <1> QED
    BY <1>1, <1>2, <1>3, <1>4, <1>5 DEF Initialise

(* A step that keeps the table's address, or replaces it by the new block  *)
(* of a growth, keeps the invariant: the thread was past the first test.   *)
LEMMA PastTestRace ==
    ASSUME RaceInv, NEW t \in Thread, RaceTypes',
           pc[t] = "lock" \/ InCritical(t),
           NEW l \in {"idle", "search", "insert", "bump", "grow", "free", "publish", "unlock"},
           pc' = [pc EXCEPT ![t] = l],
           array' # 0,
           \A u \in Thread \ {t} : newArray'[u] = newArray[u],
           l \in {"free", "publish"} => newArray'[t] # 0,
           UNCHANGED <<initlock, todo, initialised>>
    PROVE  RaceInv'
  <1>1. array # 0 /\ pc[t] \notin {"recheck", "store", "initunlock"}
    BY DEF RaceInv, Allocation, InCritical
  <1>2. pc'[t] = l /\ \A u \in Thread \ {t} : pc'[u] = pc[u]
    BY DEF RaceInv, RaceTypes
  <1>3. ASSUME NEW u \in Thread
        PROVE  /\ pc'[u] \in {"recheck", "store", "initunlock"} => initlock' = u
               /\ pc'[u] = "store" => ("array" \in todo' <=> array' = 0)
               /\ pc'[u] \in {"free", "publish"} => newArray'[u] # 0
    <2>1. CASE u = t
      BY <1>2, <2>1
    <2>2. CASE u # t
      BY <1>1, <1>2, <2>2 DEF RaceInv, Allocation
    <2> QED
      BY <2>1, <2>2
  <1>4. Allocation'
    BY <1>3 DEF RaceInv, Allocation
  <1> QED
    BY <1>4 DEF RaceInv

(* The steps from the lock to the return keep the invariant.               *)
LEMMA CriticalRace ==
    ASSUME RaceInv, NEW t \in Thread,
           Lock(t) \/ LockFails(t) \/ Critical(t) \/ Unlock(t)
    PROVE  RaceInv'
  <1> USE DEF At, Goto
  <1> DEFINE Past == pc[t] = "lock" \/ InCritical(t)
  <1>0. Past => array # 0
    BY DEF RaceInv, Allocation
  <1>1. CASE Lock(t) \/ LockFails(t)
    <2>1. RaceTypes'
      BY <1>1 DEF Lock, LockFails, table, locals, history, RaceInv, RaceTypes, Labels
    <2> QED
      BY <1>0, <1>1, <2>1, PastTestRace DEF Lock, LockFails, table, locks, locals, history
  <1>2. CASE Found(t)
    <2>2. RaceTypes'
      BY <1>2 DEF Found, table, history, RaceInv, RaceTypes, Labels
    <2> QED
      BY <1>0, <1>2, <2>2, PastTestRace DEF Found, table, locks, history, InCritical
  <1>3. CASE NotFound(t)
    <2>1. RaceTypes'
      BY <1>3 DEF NotFound, table, history, RaceInv, RaceTypes, Labels
    <2> QED
      BY <1>0, <1>3, <2>1, PastTestRace DEF NotFound, table, locks, history, InCritical
  <1>4. CASE Insert(t)
    <2>1. IsSequence(mem')
      BY <1>4, SequencesStay DEF Insert, RaceInv, RaceTypes
    <2>2. RaceTypes'
      BY <1>4, <2>1 DEF Insert, locals, history, RaceInv, RaceTypes, Labels
    <2> QED
      BY <1>0, <1>4, <2>2, PastTestRace DEF Insert, locks, locals, history, InCritical
  <1>5. CASE Bump(t) \/ Roomy(t) \/ GrowFree(t)
    <2>1. RaceTypes'
      BY <1>5 DEF Bump, Roomy, GrowFree, table, locals, history, RaceInv, RaceTypes, Labels
    <2>2. GrowFree(t) => newArray[t] # 0
      BY DEF GrowFree, RaceInv, Allocation
    <2> QED
      BY <1>0, <1>5, <2>1, <2>2, PastTestRace
         DEF Bump, Roomy, GrowFree, table, locks, locals, history, InCritical
  <1>6. CASE GrowCopy(t)
    <2>1. Len(mem) \in Nat /\ IsSequence(mem')
      BY <1>6, SequencesStay DEF GrowCopy, RaceInv, RaceTypes
    <2>2. RaceTypes'
      BY <1>6, <2>1 DEF GrowCopy, history, RaceInv, RaceTypes, Labels
    <2>3. newArray'[t] # 0 /\ \A u \in Thread \ {t} : newArray'[u] = newArray[u]
      BY <1>6, <2>1 DEF GrowCopy, RaceInv, RaceTypes
    <2> QED
      BY <1>0, <1>6, <2>2, <2>3, PastTestRace DEF GrowCopy, locks, history, InCritical
  <1>7. CASE GrowPublish(t)
    <2>1. RaceTypes'
      BY <1>7 DEF GrowPublish, locals, history, RaceInv, RaceTypes, Labels
    <2>2. array' # 0
      BY <1>7 DEF GrowPublish, RaceInv, Allocation
    <2> QED
      BY <1>7, <2>1, <2>2, PastTestRace DEF GrowPublish, locks, locals, history, InCritical
  <1>8. CASE Unlock(t)
    <2>1. RaceTypes'
      BY <1>8 DEF Unlock, table, RaceInv, RaceTypes, Labels
    <2>2. \A u \in Thread \ {t} : newArray'[u] = newArray[u]
      BY <1>8 DEF Unlock, RaceInv, RaceTypes
    <2> QED
      BY <1>0, <1>8, <2>1, <2>2, PastTestRace DEF Unlock, table, InCritical
  <1>9. CASE SearchWild(t) \/ InsertWild(t) \/ GrowCopyWild(t) \/ GrowFreeWild(t)
    BY <1>9 DEF SearchWild, InsertWild, GrowCopyWild, GrowFreeWild, WildAccess, table, locks,
                locals, history, RaceInv, RaceTypes, Allocation, InCritical
  <1> QED
    BY <1>1, <1>2, <1>3, <1>4, <1>5, <1>6, <1>7, <1>8, <1>9 DEF Critical, Grow

LEMMA RaceInvariance == Spec => []RaceInv
  <1>1. Init => RaceInv
    <2>1. <<>> \in Seq({})
      OBVIOUS
    <2>2. Init => IsSequence(mem)
      BY <2>1 DEF Init, IsSequence
    <2> QED
      BY <2>2 DEF Init, RaceInv, RaceTypes, Allocation, InCritical, Labels
  <1>2. RaceInv /\ [Next]_vars => RaceInv'
    <2> SUFFICES ASSUME RaceInv, [Next]_vars
                 PROVE  RaceInv'
      OBVIOUS
    <2>1. CASE UNCHANGED vars
      BY <2>1 DEF vars, table, locks, locals, history, RaceInv, RaceTypes, Allocation, InCritical
    <2>2. ASSUME NEW t \in Thread, NEW p \in Path, Call(t, p)
          PROVE  RaceInv'
      BY <2>2 DEF Call, At, Goto, table, locks, RaceInv, RaceTypes, Allocation, InCritical, Labels
    <2>3. ASSUME NEW t \in Thread, Step(t)
          PROVE  RaceInv'
      BY <2>3, InitialiseRace, CriticalRace DEF Step
    <2> QED
      BY <2>1, <2>2, <2>3 DEF Next
  <1> QED
    BY <1>1, <1>2, PTL DEF Spec

(* The table is allocated once, however many threads make the first call   *)
(* together and in whatever order its fields become visible: what the      *)
(* double-checked initialisation does guarantee.                           *)
THEOREM AllocatedOnce == Spec => []InitialisedOnce
  <1>1. RaceInv => InitialisedOnce
    BY DEF RaceInv, Allocation, InitialisedOnce
  <1> QED
    BY <1>1, RaceInvariance, PTL

(* A thread is between its two uses of initlock exactly while it holds it. *)
Initialising(t) == pc[t] \in {"recheck", "store", "initunlock"}

HeldInside ==
    /\ pc \in [Thread -> Labels]
    /\ initlock # NoThread => initlock \in Thread /\ Initialising(initlock)
    /\ \A t \in Thread : Initialising(t) => initlock = t

(* The steps behind the initialisation do not touch initlock.              *)
LEMMA PastInitialisation ==
    ASSUME HeldInside, NEW t \in Thread, pc[t] \notin {"recheck", "store", "initunlock"},
           NEW l \in Labels \ {"recheck", "store", "initunlock"},
           pc' = [pc EXCEPT ![t] = l], initlock' = initlock
    PROVE  HeldInside'
  <1>1. pc' \in [Thread -> Labels] /\ pc'[t] = l /\ \A u \in Thread \ {t} : pc'[u] = pc[u]
    BY DEF HeldInside
  <1>2. \A u \in Thread : Initialising(u)' <=> Initialising(u)
    BY <1>1 DEF Initialising
  <1> QED
    BY <1>1, <1>2 DEF HeldInside

(* A thread that waits for initlock waits for one that can go on: whoever  *)
(* has it is in the initialisation, which waits for nothing, and has given *)
(* it back before the call goes on, however the first calls race.          *)
THEOREM InitLockIsReturned == Spec => []HeldInside
  <1>1. Init => HeldInside
    BY DEF Init, HeldInside, Initialising, Labels
  <1>2. HeldInside /\ [Next]_vars => HeldInside'
    <2> SUFFICES ASSUME HeldInside, [Next]_vars
                 PROVE  HeldInside'
      OBVIOUS
    <2> USE DEF At, Goto
    <2>1. CASE UNCHANGED vars
      BY <2>1 DEF vars, locks, HeldInside, Initialising
    <2>2. ASSUME NEW t \in Thread, NEW p \in Path, Call(t, p)
          PROVE  HeldInside'
      BY <2>2, PastInitialisation DEF Call, locks, Labels
    <2>3. ASSUME NEW t \in Thread, Check(t)
          PROVE  HeldInside'
      BY <2>3, PastInitialisation DEF Check, locks, Labels
    <2>4. ASSUME NEW t \in Thread, InitLock(t)
          PROVE  HeldInside'
      BY <2>4, NoThreadAssumption DEF InitLock, HeldInside, Initialising, Labels
    <2>5. ASSUME NEW t \in Thread, Recheck(t)
          PROVE  HeldInside'
      BY <2>5 DEF Recheck, locks, HeldInside, Initialising, Labels
    <2>6. ASSUME NEW t \in Thread, NEW f \in Fields, StoreField(t, f)
          PROVE  HeldInside'
      BY <2>6 DEF StoreField, locks, HeldInside, Initialising
    <2>7. ASSUME NEW t \in Thread, InitUnlock(t)
          PROVE  HeldInside'
      BY <2>7 DEF InitUnlock, HeldInside, Initialising, Labels
    <2>8. ASSUME NEW t \in Thread, Lock(t) \/ LockFails(t)
          PROVE  HeldInside'
      BY <2>8, PastInitialisation DEF Lock, LockFails, locks, Labels
    <2>9. ASSUME NEW t \in Thread, Found(t) \/ NotFound(t) \/ Insert(t) \/ Bump(t)
          PROVE  HeldInside'
      BY <2>9, PastInitialisation DEF Found, NotFound, Insert, Bump, locks, Labels
    <2>10. ASSUME NEW t \in Thread, Roomy(t) \/ GrowCopy(t) \/ GrowFree(t) \/ GrowPublish(t)
           PROVE  HeldInside'
      BY <2>10, PastInitialisation DEF Roomy, GrowCopy, GrowFree, GrowPublish, locks, Labels
    <2>11. ASSUME NEW t \in Thread, Unlock(t)
           PROVE  HeldInside'
      BY <2>11, PastInitialisation DEF Unlock, Labels
    <2>12. ASSUME NEW t \in Thread,
                  SearchWild(t) \/ InsertWild(t) \/ GrowCopyWild(t) \/ GrowFreeWild(t)
           PROVE  HeldInside'
      BY <2>12 DEF SearchWild, InsertWild, GrowCopyWild, GrowFreeWild, WildAccess, locks,
                   HeldInside, Initialising
    <2> QED
      BY <2>1, <2>2, <2>3, <2>4, <2>5, <2>6, <2>7, <2>8, <2>9, <2>10, <2>11, <2>12
         DEF Next, Step, Initialise, Critical, Grow
  <1> QED
    BY <1>1, <1>2, PTL DEF Spec

(* cache->lock is returned, too: when somebody has it he is in the         *)
(* critical section, where no step waits for anything.                     *)
THEOREM LockIsReturned == SoloInit => (Spec => [](lock # NoThread => InCritical(lock)))
  <1>1. IInv => (lock # NoThread => InCritical(lock))
    BY DEF IInv, LockInv
  <1> QED
    BY <1>1, Invariance, PTL
=============================================================================
