----------------------------- MODULE CachePath -----------------------------
(***************************************************************************)
(* cache_path() of cache.c: the table in which jbroot() and rootfs()       *)
(* intern the strings they return, so that a caller may keep the pointer   *)
(* for ever and never frees it.                                            *)
(*                                                                         *)
(* Threads run the function step by step.  The steps are the accesses of   *)
(* the C code to the shared struct cache_path (array, size, used, lock)    *)
(* and to the static initlock.  The first test of cache->array is made     *)
(* outside any lock, and the four stores of the initialiser are plain      *)
(* stores, so a thread that does not take initlock may see them in any     *)
(* order: StoreField performs them in any order.                           *)
(***************************************************************************)
EXTENDS Naturals, Sequences

CONSTANTS
    Thread,            \* the threads of the process
    Path,              \* the converted paths they want interned
    CACHE_INIT_SIZE,   \* initial capacity of the table (100 in cache.h)
    MaxCalls,          \* bound: calls each thread makes
    SoloInit,          \* TRUE: the process calls for the first time while only
                       \* one thread does; FALSE: the first calls may race
    NoThread,          \* the owner of a free mutex
    None,              \* "no path", "no pointer"
    Garbage            \* the contents of memory that was never written

ASSUME InitSizeAssumption == CACHE_INIT_SIZE \in Nat \ {0}
ASSUME MaxCallsAssumption == MaxCalls \in Nat
ASSUME SoloInitAssumption == SoloInit \in BOOLEAN
ASSUME NoThreadAssumption == NoThread \notin Thread

(***************************************************************************)
(* A pointer made by strdup().  Nothing ever frees or writes these         *)
(* strings, so a pointer is its text and its identity: the number of       *)
(* strdup() calls made when it was allocated.                              *)
(***************************************************************************)
Pointer == [str : Path, id : Nat \ {0}]

ASSUME GarbageAssumption == Garbage \notin Pointer
ASSUME NoneAssumption == None \notin Pointer /\ None \notin Path

VARIABLES
    array,      \* cache->array: 0 is NULL, n the n-th block allocated for it
    size,       \* cache->size
    used,       \* cache->used
    lockReady,  \* pthread_mutex_init(&cache->lock) has been performed
    lock,       \* the thread that holds cache->lock, or NoThread
    initlock,   \* the thread that holds the static initlock, or NoThread
    mem,        \* the blocks malloc() returned, in the order of allocation: each
                \* is the sequence of its cells, C's index i being cell i + 1
    freed,      \* the blocks that were freed
    strdups,    \* the number of strdup() calls so far
    pc,         \* where each thread is
    path,       \* the argument of each thread's call
    cachedpath, \* the local cachedpath of each thread's call
    newArray,   \* the local new_cache_array of each thread's call
    todo,       \* the stores the initialiser has not performed yet
    calls,      \* how many calls each thread has begun
    returned,   \* history: every pair <<path, pointer>> a call returned
    initialised,\* history: how many times the initial table was allocated
    wild        \* history: memory outside a live block, or never written,
                \* was used; what happens next is undefined, the model stops

table == <<array, size, used, lockReady, mem, freed>>
locks == <<lock, initlock>>
locals == <<path, cachedpath, newArray>>
history == <<calls, returned, initialised>>
vars == <<table, locks, locals, history, strdups, pc, todo, wild>>

Fields == {"lock", "array", "size", "used"}

(* malloc() of n cells. *)
Block(n) == [i \in 1 .. n |-> Garbage]

(* The block cache->array points to can be accessed at indices below n. *)
Live(n) == array # 0 /\ array \notin freed /\ n <= Len(mem[array])

(* The value a read of cache->array[i] gives. *)
Cell(i) == IF Live(i + 1) THEN mem[array][i + 1] ELSE Garbage

Matches(i, p) == Cell(i) # Garbage /\ Cell(i).str = p

Init ==
    /\ array = 0
    /\ size = 0
    /\ used = 0
    /\ lockReady = FALSE
    /\ lock = NoThread
    /\ initlock = NoThread
    /\ mem = <<>>
    /\ freed = {}
    /\ strdups = 0
    /\ pc = [t \in Thread |-> "idle"]
    /\ path = [t \in Thread |-> None]
    /\ cachedpath = [t \in Thread |-> None]
    /\ newArray = [t \in Thread |-> 0]
    /\ todo = {}
    /\ calls = [t \in Thread |-> 0]
    /\ returned = {}
    /\ initialised = 0
    /\ wild = FALSE

-----------------------------------------------------------------------------
At(t, label) == ~wild /\ pc[t] = label

Goto(t, label) == pc' = [pc EXCEPT ![t] = label]

(* Undefined behaviour: nothing is said about the program from here on. *)
WildAccess ==
    /\ wild' = TRUE
    /\ UNCHANGED <<table, locks, locals, history, strdups, pc, todo>>

(***************************************************************************)
(* jbroot() or rootfs() calls cache_path.  Under SoloInit a thread may     *)
(* call while another call is running only when some call has already      *)
(* returned, that is, after the table was initialised.                     *)
(***************************************************************************)
Call(t, p) ==
    /\ At(t, "idle")
    /\ calls[t] < MaxCalls
    /\ SoloInit => returned # {} \/ \A u \in Thread : pc[u] = "idle"
    /\ calls' = [calls EXCEPT ![t] = @ + 1]
    /\ path' = [path EXCEPT ![t] = p]
    /\ Goto(t, "check")
    /\ UNCHANGED <<table, locks, cachedpath, newArray, returned, initialised,
                   strdups, todo, wild>>

(* if(!cache->array), outside the lock. *)
Check(t) ==
    /\ At(t, "check")
    /\ Goto(t, IF array = 0 THEN "initlock" ELSE "lock")
    /\ UNCHANGED <<table, locks, locals, history, strdups, todo, wild>>

InitLock(t) ==
    /\ At(t, "initlock")
    /\ initlock = NoThread
    /\ initlock' = t
    /\ Goto(t, "recheck")
    /\ UNCHANGED <<table, lock, locals, history, strdups, todo, wild>>

(* Seeded bug: initlock is taken, but cache->array is not tested again. *)
RecheckNothing(t) ==
    /\ At(t, "recheck")
    /\ todo' = Fields
    /\ Goto(t, "store")
    /\ UNCHANGED <<table, locks, locals, history, strdups, wild>>

(* if(!cache->array), under initlock. *)
Recheck(t) ==
    /\ At(t, "recheck")
    /\ IF array = 0
       THEN /\ todo' = Fields
            /\ Goto(t, "store")
       ELSE /\ Goto(t, "initunlock")
            /\ UNCHANGED todo
    /\ UNCHANGED <<table, locks, locals, history, strdups, wild>>

(* One of the initialiser's stores becomes visible. *)
StoreField(t, f) ==
    /\ At(t, "store")
    /\ f \in todo
    /\ todo' = todo \ {f}
    /\ lockReady' = (lockReady \/ f = "lock")
    /\ IF f = "array"
       THEN /\ mem' = Append(mem, Block(CACHE_INIT_SIZE))
            /\ array' = Len(mem) + 1
            /\ initialised' = initialised + 1
       ELSE UNCHANGED <<mem, array, initialised>>
    /\ size' = IF f = "size" THEN CACHE_INIT_SIZE ELSE size
    /\ used' = IF f = "used" THEN 0 ELSE used
    /\ UNCHANGED <<freed, locks, locals, calls, returned, strdups, pc, wild>>

(* Seeded bug: the initialiser forgets initlock. *)
InitKeepLock(t) ==
    /\ \/ At(t, "initunlock")
       \/ At(t, "store") /\ todo = {}
    /\ Goto(t, "lock")
    /\ UNCHANGED <<table, locks, locals, history, strdups, todo, wild>>

InitUnlock(t) ==
    /\ \/ At(t, "initunlock")
       \/ At(t, "store") /\ todo = {}
    /\ initlock' = NoThread
    /\ Goto(t, "lock")
    /\ UNCHANGED <<table, lock, locals, history, strdups, todo, wild>>

-----------------------------------------------------------------------------
(* Seeded bug: the lock does not exclude. *)
LockShared(t) ==
    /\ At(t, "lock")
    /\ lockReady
    /\ lock' = t
    /\ Goto(t, "search")
    /\ UNCHANGED <<table, initlock, locals, history, strdups, todo, wild>>

Lock(t) ==
    /\ At(t, "lock")
    /\ lockReady
    /\ lock = NoThread
    /\ lock' = t
    /\ Goto(t, "search")
    /\ UNCHANGED <<table, initlock, locals, history, strdups, todo, wild>>

(* pthread_mutex_lock() of a mutex whose initialisation is not visible yet: *)
(* an error nobody looks at, and the thread goes on without the mutex.      *)
LockFails(t) ==
    /\ At(t, "lock")
    /\ ~lockReady
    /\ Goto(t, "search")
    /\ UNCHANGED <<table, locks, locals, history, strdups, todo, wild>>

(* Seeded bug: the entry returned is the first one, not the matching one.   *)
FoundFirst(t) ==
    /\ At(t, "search")
    /\ \E i \in 0 .. used - 1 : Matches(i, path[t])
    /\ cachedpath' = [cachedpath EXCEPT ![t] = Cell(0)]
    /\ Goto(t, "grow")
    /\ UNCHANGED <<table, locks, path, newArray, history, strdups, todo, wild>>

(* The search loop stops at the first entry equal to path ...               *)
Found(t) ==
    /\ At(t, "search")
    /\ \E i \in 0 .. used - 1 :
          /\ Matches(i, path[t])
          /\ \A j \in 0 .. i - 1 : Cell(j) # Garbage /\ ~Matches(j, path[t])
          /\ cachedpath' = [cachedpath EXCEPT ![t] = Cell(i)]
    /\ Goto(t, "grow")
    /\ UNCHANGED <<table, locks, path, newArray, history, strdups, todo, wild>>

(* Seeded bug: the caller's string is put into the table, not a copy.       *)
NotFoundNoCopy(t) ==
    /\ At(t, "search")
    /\ \A i \in 0 .. used - 1 : Cell(i) # Garbage /\ ~Matches(i, path[t])
    /\ cachedpath' = [cachedpath EXCEPT ![t] = path[t]]
    /\ Goto(t, "insert")
    /\ UNCHANGED <<table, locks, path, newArray, history, strdups, todo, wild>>

(* ... or reads all of them and duplicates the string ...                   *)
NotFound(t) ==
    /\ At(t, "search")
    /\ \A i \in 0 .. used - 1 : Cell(i) # Garbage /\ ~Matches(i, path[t])
    /\ strdups' = strdups + 1
    /\ cachedpath' = [cachedpath EXCEPT ![t] = [str |-> path[t], id |-> strdups + 1]]
    /\ Goto(t, "insert")
    /\ UNCHANGED <<table, locks, path, newArray, history, todo, wild>>

(* ... or compares with something that is not a string.                     *)
SearchWild(t) ==
    /\ At(t, "search")
    /\ \E i \in 0 .. used - 1 :
          /\ Cell(i) = Garbage
          /\ \A j \in 0 .. i - 1 : Cell(j) # Garbage /\ ~Matches(j, path[t])
    /\ WildAccess

(* cache->array[cache->used] = cachedpath; *)
Insert(t) ==
    /\ At(t, "insert")
    /\ Live(used + 1)
    /\ mem' = [mem EXCEPT ![array][used + 1] = cachedpath[t]]
    /\ Goto(t, "bump")
    /\ UNCHANGED <<array, size, used, lockReady, freed, locks, locals, history, strdups,
                   todo, wild>>

InsertWild(t) ==
    /\ At(t, "insert")
    /\ ~Live(used + 1)
    /\ WildAccess

(* Seeded bug: the entry is written and not counted. *)
BumpNothing(t) ==
    /\ At(t, "bump")
    /\ Goto(t, "grow")
    /\ UNCHANGED <<table, locks, locals, history, strdups, todo, wild>>

(* cache->used++; *)
Bump(t) ==
    /\ At(t, "bump")
    /\ used' = used + 1
    /\ Goto(t, "grow")
    /\ UNCHANGED <<array, size, lockReady, mem, freed, locks, locals, history, strdups,
                   todo, wild>>

(* Seeded bug: the table grows when used exceeds size, one entry too late. *)
RoomyAtSize(t) ==
    /\ At(t, "grow")
    /\ used <= size
    /\ Goto(t, "unlock")
    /\ UNCHANGED <<table, locks, locals, history, strdups, todo, wild>>

(* if(cache->used==cache->size) is false. *)
Roomy(t) ==
    /\ At(t, "grow")
    /\ used # size
    /\ Goto(t, "unlock")
    /\ UNCHANGED <<table, locks, locals, history, strdups, todo, wild>>

(* The new block: malloc of twice the size, memcpy of the old cells. *)
Grown == [i \in 1 .. size * 2 |-> IF i <= size THEN mem[array][i] ELSE Garbage]

GrowCopy(t) ==
    /\ At(t, "grow")
    /\ used = size
    /\ Live(size)
    /\ mem' = Append(mem, Grown)
    /\ newArray' = [newArray EXCEPT ![t] = Len(mem) + 1]
    /\ Goto(t, "free")
    /\ UNCHANGED <<array, size, used, lockReady, freed, locks, path, cachedpath,
                   history, strdups, todo, wild>>

GrowCopyWild(t) ==
    /\ At(t, "grow")
    /\ used = size
    /\ ~Live(size)
    /\ WildAccess

(* free(cache->array); *)
GrowFree(t) ==
    /\ At(t, "free")
    /\ Live(0)
    /\ freed' = freed \cup {array}
    /\ Goto(t, "publish")
    /\ UNCHANGED <<array, size, used, lockReady, mem, locks, locals, history, strdups,
                   todo, wild>>

GrowFreeWild(t) ==
    /\ At(t, "free")
    /\ ~Live(0)
    /\ WildAccess

(* cache->size = cache->size*2; cache->array = new_cache_array; *)
GrowPublish(t) ==
    /\ At(t, "publish")
    /\ size' = size * 2
    /\ array' = newArray[t]
    /\ Goto(t, "unlock")
    /\ UNCHANGED <<used, lockReady, mem, freed, locks, locals, history, strdups,
                   todo, wild>>

(* Seeded bug: cache->lock is still held when the call returns. *)
UnlockForgotten(t) ==
    /\ At(t, "unlock")
    /\ returned' = returned \cup {<<path[t], cachedpath[t]>>}
    /\ path' = [path EXCEPT ![t] = None]
    /\ cachedpath' = [cachedpath EXCEPT ![t] = None]
    /\ newArray' = [newArray EXCEPT ![t] = 0]
    /\ Goto(t, "idle")
    /\ UNCHANGED <<table, locks, calls, initialised, strdups, todo, wild>>

(***************************************************************************)
(* pthread_mutex_unlock() and the return.  Unlocking a mutex the thread    *)
(* does not hold is undefined: the mutex stays as it was or becomes free.  *)
(***************************************************************************)
Unlock(t) ==
    /\ At(t, "unlock")
    /\ lock' \in IF lock = t THEN {NoThread} ELSE {lock, NoThread}
    /\ returned' = returned \cup {<<path[t], cachedpath[t]>>}
    /\ path' = [path EXCEPT ![t] = None]
    /\ cachedpath' = [cachedpath EXCEPT ![t] = None]
    /\ newArray' = [newArray EXCEPT ![t] = 0]
    /\ Goto(t, "idle")
    /\ UNCHANGED <<table, initlock, calls, initialised, strdups, todo, wild>>

-----------------------------------------------------------------------------
Initialise(t) ==
    \/ Check(t)
    \/ InitLock(t)
    \/ Recheck(t)
    \/ \E f \in Fields : StoreField(t, f)
    \/ InitUnlock(t)

Grow(t) ==
    \/ Roomy(t)
    \/ GrowCopy(t)
    \/ GrowCopyWild(t)
    \/ GrowFree(t)
    \/ GrowFreeWild(t)
    \/ GrowPublish(t)

Critical(t) ==
    \/ Found(t)
    \/ NotFound(t)
    \/ SearchWild(t)
    \/ Insert(t)
    \/ InsertWild(t)
    \/ Bump(t)
    \/ Grow(t)

(* A step of a call that has begun. *)
Step(t) ==
    \/ Initialise(t)
    \/ Lock(t)
    \/ LockFails(t)
    \/ Critical(t)
    \/ Unlock(t)

Next == \E t \in Thread : Step(t) \/ \E p \in Path : Call(t, p)

Spec == Init /\ [][Next]_vars

(* The scheduler runs every thread that can run. *)
Fairness == \A t \in Thread : WF_vars(Step(t))

FairSpec == Spec /\ Fairness

-----------------------------------------------------------------------------
(***************************************************************************)
(* Properties                                                              *)
(***************************************************************************)
Labels == {"idle", "check", "initlock", "recheck", "store", "initunlock", "lock",
           "search", "insert", "bump", "grow", "free", "publish", "unlock"}

(* Types of the variables of cache_path().                                 *)
TypeOK ==
    /\ size \in Nat
    /\ used \in Nat
    /\ lockReady \in BOOLEAN
    /\ lock \in Thread \cup {NoThread}
    /\ initlock \in Thread \cup {NoThread}
    /\ mem \in Seq(Seq(Pointer \cup {Garbage}))
    /\ freed \subseteq 1 .. Len(mem)
    /\ array \in 0 .. Len(mem)
    /\ strdups \in Nat
    /\ pc \in [Thread -> Labels]
    /\ path \in [Thread -> Path \cup {None}]
    /\ cachedpath \in [Thread -> Pointer \cup {None}]
    /\ newArray \in [Thread -> 0 .. Len(mem)]
    /\ todo \subseteq Fields
    /\ calls \in [Thread -> 0 .. MaxCalls]
    /\ returned \subseteq Path \X Pointer
    /\ initialised \in Nat
    /\ wild \in BOOLEAN

(***************************************************************************)
(* No call reads, writes or frees memory outside the live block of the     *)
(* table, or takes a cell nobody wrote for a string: the growth of the     *)
(* table happens before the cell it makes room for is written, and no      *)
(* thread still uses the block that growth frees.                          *)
(***************************************************************************)
NoWildAccess == ~wild

InCritical(t) == pc[t] \in {"search", "insert", "bump", "grow", "free", "publish",
                            "unlock"}

(* At most one thread is between the lock and the unlock of cache->lock.   *)
MutualExclusion == \A t, u \in Thread : InCritical(t) /\ InCritical(u) => t = u

(***************************************************************************)
(* Callers keep the pointers and the strings are never freed, so memory is *)
(* bounded only if a path has ONE pointer: any two calls with the same     *)
(* path, at any time and from any thread, return the same pointer.         *)
(***************************************************************************)
Interned == \A r, s \in returned : r[1] = s[1] => r[2] = s[2]

(***************************************************************************)
(* However many threads make the first call together, the second test of   *)
(* cache->array, under initlock, lets one of them allocate the table.      *)
(***************************************************************************)
InitialisedOnce == initialised <= 1

(***************************************************************************)
(* Every call returns: nobody keeps a mutex, and nobody waits for one that *)
(* its holder cannot release.                                              *)
(***************************************************************************)
CallsReturn == \A t \in Thread : pc[t] # "idle" ~> (pc[t] = "idle" \/ wild)

(***************************************************************************)
(* cache_path() implements the intern table: a call that finds its path    *)
(* takes effect in the search, a call that adds it takes effect when used  *)
(* is incremented, and growing the table changes nothing.                  *)
(***************************************************************************)
Decided(t) == pc[t] \in {"grow", "free", "publish", "unlock"}

Entries == {mem[array][i] : i \in 1 .. used}

Abstract == INSTANCE InternTable WITH
    Handle <- Pointer,
    table <- [p \in {e.str : e \in Entries} |-> CHOOSE e \in Entries : e.str = p],
    asked <- path,
    answer <- [t \in Thread |-> IF Decided(t) THEN cachedpath[t] ELSE None]

ImplementsInternTable == Abstract!Spec
=============================================================================
