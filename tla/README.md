# A verification project for libroothide

libroothide lets programs that were written for `/` run in a jailbreak root
(*jbroot*), a directory with a random name. It converts paths between two views
of one file tree. In the **kernel view** `/` is the real root. In the **jbroot
view** `/` is jbroot, nothing is above it, and the real root is `/rootfs`.

This directory holds TLA+ models of that code, the TLC configurations that
check them on small instances, and proofs that hold for every instance.

    tlc -workers 2 -config CachePathSolo.cfg CachePath      # a run
    tlapm CachePathProofs.tla                               # a proof

## 1. Inventory

| component | source | state it keeps | operations | what is hard |
|---|---|---|---|---|
| path cache | cache.c, cache.h | a growing array of interned strings, two mutexes, per process | `cache_path` from `jbroot()`, `rootfs()` | unlocked first test of a double-checked initialisation, growth, free of the old block |
| path conversion | jbroot.c | none of its own; reads the file tree with `fstatat` | `jbrootat_alloc`, `jbroot_alloc`, `rootfs_alloc` | `..`, links, names that look like jbroot; the tree changes between check and use |
| temporary names | vroot_mktemp.c | the template in the caller's buffer, the first candidate | `mkstemp`, `mkdtemp`, `mktemp`, ... | many processes in one directory, the odometer, the end of the search |
| mach-o replacement | symredirect.cpp 834-1015 | the target and a temporary file | one run of the tool | any call fails, the run is killed, later runs |
| symbol redirection | symredirect.cpp 53-832 | the mapped mach-o, the new bind streams | `processTarget`, `rebind` | a sticky state machine rewritten piece by piece |
| link updater | updatelink.c, updatelinks.sh | the symlinks of the file system | one run over all links | unlink and symlink are two steps; assertions end the run |
| program search | vroot_exec.c | the errno being built up | `execvp`, `execvP`, `posix_spawnp` | several failures decide one errno |
| directory views | vroot_rootfs.c | none | `readdir`, `lstat`, `fstatat`, `readlink` | four functions must agree on what `/rootfs` and jbroot are |
| wrapped calls | vroot.c, vroot.h, vroot.cpp | a thread-local callback (`ftw`, `nftw`) | some 300 wrappers | the result of a conversion is used later; buffers |
| symbol lookup | vroot_dlfcn.c | none | `dlopen`, `dlsym`, `dladdr` | - |
| initialisation | init.c, common.c | two constants | a constructor | - |
| trampolines, bindings, tools | vrootapi.c, jbroot.m, jbroot.cpp, stub.h, cmdtool.c | none | - | - |

How they interact: a program's call of `open` reaches the trampoline of
libvrootapi, because symredirect has rewritten the program's imports. The
trampoline branches to the wrapper in libvroot. The wrapper calls
`jbroot_alloc`, which reads the file tree, and gives the result to the kernel.
Callers that do not want to free anything call `jbroot()` or `rootfs()`
instead, which keep every string in the path cache for ever. updatelink uses
those two; its links are found by a `find` that sees the tree through the
directory views. The temporary names and the directory views use the conversion
for each name. All state that is shared between threads is in the path cache; all
state that is shared between processes is in the file system.

What makes each component correct:

* *path cache*: one pointer per string, for ever; no access outside the live
  block; the mutex is held by one thread and always released.
* *path conversion*: the converted path leads in the one view where the path
  led in the other, or nowhere.
* *temporary names*: nobody gets a file of somebody else; the search tries
  every name once and ends.
* *mach-o replacement*: whatever happens, a whole copy is left.
* *symbol redirection*: dyld binds the redirected symbols to the shim library
  and all others as before.
* *link updater*: every link leads where it led, also after a crash and a rerun.
* *program search*: exec and spawn find the same program and report one error.
* *directory views*: the answers on one object are consistent.

## 2. Modules

| module | models | extends |
|---|---|---|
| `InternTable` | abstract: what `jbroot()`/`rootfs()` promise about the pointers they return | Functions |
| `CachePath` | `cache_path()`, one action per access to shared memory; implements `InternTable` | |
| `CachePathProofs` | proofs about `CachePath` | CachePath, TLAPS |
| `CachePathRefinement` | proof that `CachePath` implements `InternTable` | CachePathProofs |
| `FileTree` | the file tree and the two lookups, `Lookup` (kernel) and `LookupInJbroot` (the jbroot view) | |
| `PathConv` | `jbrootat_alloc`, `rootfs_alloc`, token by token, and the use of the result | FileTree |
| `MCPathConv` | a small tree and all short paths | PathConv |
| `PathConvProofs` | proofs about `FileTree` and `PathConv` | PathConv, FiniteSetTheorems, SequenceTheorems, WellFoundedInduction, TLAPS |
| `MkTemp` | `find_temp_path()` and its callers | |
| `MkTempProofs` | proofs about `MkTemp` | MkTemp, FiniteSetTheorems, WellFoundedInduction, TLAPS |
| `SymRedirect` | `main()`, `copy_file()`, `processMachO()` of symredirect | |
| `SymRedirectProofs` | proofs about `SymRedirect` | SymRedirect, TLAPS |
| `Rebind` | `rebind()`, one action per class of opcode, beside what dyld reads | |
| `ProcessTarget` | `processTarget()`: the tables of one slice, each stream by `Rebind`, and what moves | Rebind |
| `MCProcessTarget` | a few lists of libraries and tables, small sizes | ProcessTarget |
| `ProcessTargetProofs` | proofs about `Rebind` and `ProcessTarget` | ProcessTarget, TLAPS |
| `ExecSearch` | `execvPe()` and `posix_spawnp()` on one PATH | |
| `ExecSearchProofs` | proofs about `ExecSearch` | ExecSearch, TLAPS |
| `Views` | what each wrapper of vroot_rootfs.c says an object is | |
| `UpdateLink` | updatelinks.sh and updatelink, with the links seen through `Views` | Views |
| `MCUpdateLink` | four links on two volumes | UpdateLink |
| `UpdateLinkProofs` | proofs about `UpdateLink` and `Views` | UpdateLink, TLAPS |

Definitions that begin with "Seeded bug" are not part of a specification. Each
is a plausible mistake in the definition that follows it, and shows that a
property notices that mistake.

### CachePath

| variables | code |
|---|---|
| `array`, `size`, `used`, `lock`, `lockReady` | the fields of `struct cache_path` |
| `initlock` | the static mutex of `cache_path()` |
| `mem`, `freed` | what malloc() returned and what was given back |
| `pc`, `path`, `cachedpath`, `newArray` | each thread's place and locals |
| `todo` | the stores of the initialiser that other threads cannot see yet |

An action is what happens between two accesses to shared memory. The search is
one action, because it runs under the mutex. An access outside a live block, or
of a cell that was never written, sets `wild`; nothing is defined after that
and the model stops. Unlocking a mutex that the thread does not hold, and
locking one that is not initialised, are nondeterministic choices.
`StoreField` performs the initialiser's stores in any order: the first test of
`cache->array` is outside the locks, so nothing orders them for its reader.

`ImplementsInternTable` is refinement: the abstract table is what the live
block holds, a call's answer is decided when its string is found or counted in,
and every other step is a stutter.

### PathConv

A string is a sequence of items: slashes, `.`, `..`, names. A lookup follows
links, so a link is an edge to the node it leads to. `Iterate` is one turn of
the loop of either function. `JbrootToken` is the check of `..`, `RootfsToken`
the test for a directory with a jbroot name. `JbrootFinish` and `RootfsFinish`
add the prefix. `Use` is the kernel's lookup of the result, without its own limit
on the length of what the prefix has made longer. `Unlink` is another
process, between any two steps.

What the code checks (`CheckedDir`, from jbroot or from the given directory)
and what the kernel does with the result (`Lookup`, from the real root) are
separate definitions. The properties compare them with a third,
`LookupInJbroot`, which is the meaning of a path in the jbroot view and has
nothing to do with tokens. Both lookups go through all items of a string, from
the first (`Walk`, `WalkInJbroot`).

A path that is too long, or becomes so, is returned as it was (jbroot.c:161);
the history variable `failed` says so, and `FailsAtLimit` which paths can be
refused. A path of PATH_MAX-1 characters can, although it fits: its empty last
token takes one character more than it has.

### MkTemp

A candidate is a function from the positions of the X's to characters. `Fill`
draws it, `StatBaseDir` looks at the directory, `TryDone`, `TryNext` and
`TryError` are what an action can report, and `Turn` is the odometer, which
carries out of a position when it is back at its first character (`first`, the
code's carrybuf). `Open` and `Remove` are what callers of these functions do
next, and are external.

### SymRedirect

Of a file the model keeps whether it is whole and whether it is redirected. A
file that is being written is "part" from `Create` until the last write, and a
file that `processMachO()` is changing is "half" from its first write until its
last. Every call has a failing action, and `Killed` ends a run at any point:
the tool asserts on every short write inside `processTarget()`, and abort()
does not run destructors. A run finds what the runs before it left, also part
of a target, which it may or may not recognise as broken.

### Rebind and ProcessTarget

A stream of binding opcodes is a program: some opcodes set the library and the
symbol, which stay set, and the bind opcodes bind the next pointer to both. Of
a stream the model keeps its size in bytes, what is set at its end, and the
list of pairs (library, symbol) that it bound; `Put` is dyld's reading of one
more opcode. `input` is the old stream as far as it was read.

| variables | code |
|---|---|
| `newbind`, `record`, `tmpcache` | the buffers of rebind(); the last two are what newbind becomes with them behind it |
| `libraryOrdinal`, `libraryOrdinalSet`, `symbolName`, `resized`, `rebuilt` | its locals |
| `dylibs`, `shimOrdinal`, `twolevel` | the load commands and the header |
| `symtab`, `imports` | the undefined symbols, the chained imports |
| `given` | history: both tables as they were in the file |
| `newfsize`, `fileEnd`, `vmEnd`, `at` | the size of the file, the end of `__LINKEDIT` in the file and in memory, and where each table in it ends |
| `fresh`, `explicit` | history: whether each record set its library and ended with DO_BIND |

The next opcode is any that may stand there, so the streams are not listed
anywhere and none is left out below the bound. `Replace` is an opcode that sets
a library (kept as it was in `record`, with the shim library in `tmpcache`),
`DoBind` takes one of the two, `DoBindAdd` is a bind opcode that does not end a
record, and `Finish` appends what is left. `ProcessTarget` goes through
`Commands`, `Symtab`, `Imports`, three streams (`CallRebind`, `RebindOpcode`,
`RebindReturns`, or `NoStream`) and `FinishTarget`, in which the strings and the
signature move behind a stream that has moved. `FailTarget` ends it wherever an
assertion, abort() or an error return does.

An ordinal that is stored in a table is cut to the width of its field, and what
is above the largest ordinal is read as a negative one (`ReadBack`), as the
readers at symredirect.cpp:622 and 670 do. `CanRedirect` is the assertions before
the stores.

### ExecSearch

The two functions are copies that have drifted apart, so both walk along one
PATH. An `Answer` is how one entry answers them: whether the name fits into the
buffer, what execve or posix_spawn returns, what the stat after it returns or
which errno it sets, and what the shell does with a script. `ExecEntry` and `SpawnEntry` are the two
switches, `ExecExhausted` and `SpawnExhausted` the code after the two loops. An
exec that succeeds does not return; the model ends the search there. A stat that
fails leaves its own errno in `execvPe()` (line 246) and nothing in
`posix_spawnp()`, which returns its own variable.

### Views

An object is its type, its name, its directory and where it leads. There is one
operator per wrapper, made of that wrapper's own tests in their own order:
readdir goes by the name and by where it leads, the stats by what the kernel
shows. `Agrees` is what a program needs that walks a tree with them.

### UpdateLink

The content of a link is its kind and, if it is an absolute path into jbroot,
which of jbroot's names is in it (`gen` counts these) and whether it is written
as updatelink would write it. `Pipeline` begins one line of the script: `find`
sees the links of the volume in any order (`Find`, by `ReaddirKind`) and writes
them to a pipe; updatelink reads one (`Read`) and makes its calls in turn:
`Lstat`, `ReadLink`, `UnlinkOld`, `SymlinkNew`. That jbroot(rootfs(slink)) is the
same place under jbroot's present name is taken as given here; `PathConv` is
about that. Each is asserted, so a failed
call ends the pipeline (`Fail`) and the shell begins the next. `Kill` is a signal
at any point, `Other` another process that removes or makes a link at any time,
and `Move` the renaming of jbroot between runs. A new link may be listed again
(`todo'` in `SymlinkNew` and `Other`). That jbroot() and rootfs() go through the
cache does not show: the cache is keyed by the converted string, and a new
conversion is made for each call.

## 3. Runs

| run | instance | what it shows |
|---|---|---|
| `cache_solo` | 3 threads, 3 strings, 2 calls each, capacity 2 growing to 4 and 8; the first call is made alone | types, no wild access, exclusion, one pointer per string, every call returns, refinement of `InternTable` |
| `cache_race` | 2 threads, 2 strings, 2 calls each; the first calls race | the table is allocated once, and every call returns |
| `cache_lost` | the same | **finding**: one string gets two pointers |
| `path_conv` | all paths of up to 5 tokens (jbroot) or 4 tokens (rootfs), from 3 directories, 10 trees, 1 unlink at any moment; PATH_MAX is 24 | both conversions lead where the path led, or nowhere; only a path at the limit is too long |
| `path_relative` | the same kind of instance | **finding**: a relative path that restarts at jbroot escapes the check |
| `path_mirror` | a jbroot that contains a copy of its own place | **finding**: rootfs takes a file of jbroot for jbroot |
| `mktemp` | 2 processes, 2 X's, 2 characters, every initial content | ownership, EEXIST only when all names were tried, no name twice, the search ends |
| `symredirect` | 3 runs, one after the other | no loss, the target is changed only when the result is ready, success means installed |
| `redirect` | 5 lists of up to 4 libraries, 2 tables, streams of up to 6 bytes | dyld binds what it shall, the tables agree with the streams and with one another, the sizes and the layout of `__LINKEDIT` fit |
| `rebind_sticky` | the same | **finding**: symbols of a user library are redirected |
| `exec_search` | 3 entries of PATH with every answer, up to 2 arguments | exec and spawn find one program, the errno is justified, an entry that is not permitted is neither forgotten nor invented, nothing is passed over |
| `update_link` | 4 links on 2 volumes, 2 runs, 1 move, 1 kill or failing call, 2 changes by others | what links say is kept, a kill loses one at most, a finished run is complete, it ends; the wrappers agree |

Deadlock is not checked: in each model the callers may stop calling or the
function returns, and in `CachePath` the model stops after a wild access.

**Bounds.** Three threads show a holder, a waiter and a newcomer; three strings
in a table of capacity 2 make it grow while entries are live, and the string
after that goes into the grown block. Two calls per thread let a
thread ask for what it has got. Five tokens are a way up, a way through
`rootfs` or a link, a way up again and one more. Trees hold a directory, a file
or a link to the real root at one place and a link to jbroot or above it at the
next. With PATH_MAX = 24 some of these paths are too long at once, and some
only when their empty last token is written. Two X's have one carry and one overflow, and
two characters make each of the four names reachable from each start. Three
runs are one that breaks the target, one that works on the rest, and one after
that. Six bytes of stream are two records that each set a library and a symbol,
or one whose library takes three bytes; in the instance an ordinal above 2
needs a uleb128 and one above 3 a uleb128 of two bytes, so that four libraries
show every change of size that 128 would. The chained imports cannot hold the
ordinal 4 there and the symbol table cannot hold 5, which the shim library gets
in the last two lists: stored all the same they would be read as -1. Three entries of PATH are one that
fails, one that fails otherwise and one that decides. Two runs are one that is
killed and one after it; two changes by others are one inside an update and one
before or after it. The proofs remove these bounds for the properties they
cover.

**Fairness.** `CachePath` assumes weak fairness of every thread that is inside
a call: the scheduler runs it, and a mutex that is free is given to somebody.
Weak fairness is enough because the number of calls is bounded, so nobody can
be overtaken for ever. `MkTemp` assumes that a process inside `find_temp_path()`
runs on; nothing is assumed of callers, who may never remove anything.
`UpdateLink` assumes weak fairness of find and updatelink together (`Updater`):
the two processes of a pipeline are scheduled while one of them can go on.
Nothing is assumed of a kill, of a move or of other processes; these are finite
in number, because with ever new links find need never end. No fairness is
assumed anywhere else.

## 4. Findings

* `cache_lost`, cache.c:7. The test outside the lock sees the array before
  `size` and `used` are set. A second thread adds an entry; the initialiser's
  late `used = 0` drops it. The next call with that string returns a new
  pointer. With `size` still 0 the growth test never matches either.
* `path_relative`, jbroot.c:104. After `..` has reached the real root the
  conversion restarts at jbroot with an absolute string, but decides by
  `path[0]` where to look it up and gives it to the real root.
* `path_mirror`, jbroot.c:273. After the name of jbroot was replaced by `/`
  the rest of the path is still checked in the real root.
* `rebind_sticky`, symredirect.cpp:386. The comment at line 96 says "only
  redirect symbols which comes from system library". A bind opcode other than
  DO_BIND does not end a record, so its binding is rewritten with the record
  that follows, whatever its library is. Likewise the library of a record that
  was rewritten stays set for a record that does not set one. A stream in which
  every record sets its library and ends with DO_BIND, as in a lazy stream, is
  redirected exactly (`Exact`, proved).

Seen while modelling, and stated in the properties rather than as findings,
because nothing in the repository says otherwise:

* vroot_exec.c:398. In `posix_spawnp()` success takes the default case too, so a
  program that was started and is gone when stat asks for it does not end the
  search (the exception `Vanished` in `SuccessIsOneProgram`).
* vroot_exec.c. An entry of PATH that is too long is passed over by `execvPe()`
  and ends `posix_spawnp()`; and when every entry is too long `execvPe()` reports
  the errno its caller came with, because `cur` is NULL after the loop
  (`ErrnoIsFresh`).
* vroot_exec.c:246. When stat fails `execvPe()` keeps stat's errno. If the last
  entry is behind a directory that may not be searched, it reports EACCES although
  no program was found and refused, where `posix_spawnp()` reports ENOENT; "Call
  stat() to decide which" (line 242) decides only whether the flag is set
  (`LastUnsearchable` in `DeniedIsSeen`).
* updatelink.c:40. The test for the jbroot symlink compares with what lstat says
  of `jbroot("/")`, a string that ends in a slash: that is the directory, which
  no link equals.
* vroot_rootfs.c. readdir calls `.` in jbroot a link, and fstatat calls jbroot
  under its real name a link also when it follows; `Agrees` excepts the first
  and does not ask about the second.

## 5. Proofs

Each proof module has an inductive invariant `IInv`, one lemma per action or per
part of it, and a theorem for each property. The theorems hold for every value
of the constants under the named assumptions of the modules, which TLC
evaluates in the runs.

**CachePathProofs** proves `NoWildAccess`, `MutualExclusion`, `Interned` and the
types under `SoloInit`: the first call is made while one thread calls (which is
what the finding needs and the code does not enforce). `IInv` has six parts:

* `PhaseInv`: until a call has returned only one thread is in the function, and
  each of its phases fixes which stores were made;
* `LockInv`: the mutex is held exactly by the thread in the critical section;
* `TableInv`: there is room for one more entry unless the holder is about to
  grow the table, the block is live unless the holder is about to replace it,
  and the entries are distinct;
* `LocalInv` (`Knows`): what each thread's locals say about the table at each
  label, for instance that the new block starts with the entries of the old;
* `ReturnedInv`: every pointer ever returned is in the table under its string;
* the types, and that nothing wild happened.

`Interned` follows from `ReturnedInv` and the distinctness in `TableInv`. It is
not inductive alone: that the search found no equal entry has to be remembered
until the entry is counted, and that nobody else inserts meanwhile needs
`LockInv`. `InitialisedOnce` is proved without `SoloInit`, for first calls that
race in any way: `Allocation` says that nothing was allocated while the array
pointer is not set, that a thread holds `initlock` from its second test to its
unlock, and that the store of the pointer is outstanding exactly while the
pointer is not set.

`InitLockIsReturned` (for any race) and `LockIsReturned` are the part of
`CallsReturn` that needs no fairness: each mutex is held only by a thread that is
between its lock and its unlock, where no step waits for another thread, so
nobody waits for a thread that has left.

**CachePathRefinement** proves `SoloInit => (Spec => ImplementsInternTable)`.
`FindPath` with a result is a `Hit`, `Bump` (the entry is counted) is a `Miss`,
the return is a `Return`, and every other step stutters, growth included. The
table of `InternTable` is defined from the set of entries, and what makes a step
a stutter is that the step keeps this set, which is `TableInv` and `LocalInv`
again.

**PathConvProofs** proves the types, `JbrootDenotes`, `RootfsDenotes` and
`FailsAtLimit` for every file tree, every path of any length and names of any
length and any files that are unlinked, and
`EveryTurnReads`: a turn of the loop, also one that begins again at jbroot or at
the real root, leaves less of the path to read, so that the loop ends. What is
assumed: JBROOT leads to jbroot and jbroot's link `/rootfs` to the real root, in
each of the trees and whatever is removed; a jbroot name in the parent of jbroot
is jbroot; two names in a string have a slash between them; no item is empty. The
second says that there is one jailbreak at a time, and that the jbroot names in
use are there when the call begins: rootfs_alloc looks at the parent of the name
only (jbroot.c:270), so it would take a name that is not there for jbroot.

`IInv` says of each label what is read and what is written:

* `TreeInv`: the tree is the one the call began with, without some of the
  entries that can be removed. `WalkPruned` makes this useful: a lookup in such a
  tree finds what it found before, or nothing;
* `ReadInv`: `left` is the end of the path, and begins behind a slash;
* `WrittenInv`: `resolved` is absolute when the path is; it ends with one slash
  only if it is a single one or if another precedes it; when rootfs_alloc has
  met jbroot a jbroot name was among the tokens, and what is written is
  jbroot-based;
* `LeadsInv`: what is written, with its slash, leads from its base where what is
  read leads from its own, or nowhere if something was unlinked. At the end this is
  the property. A turn of the loop keeps it because a lookup of a string goes on
  where the lookup of its beginning has got to (`WalkAppend`, `WalkConcat`), and
  because `..` is kept only where the check has seen neither jbroot nor the real
  root, and a directory that was seen can disappear but not become another;
* `LengthInv`: what is written is not longer than what is read.

The lookups are recursive functions over the positions of a string. That they
have the value their recursion states, and that it is the only one, is an
induction; it is done once with a set in place of the predicate (`Induction`,
`Recursion`, `RecursionIsUnique`, `StringInduction`), from the well-foundedness
of proper inclusion on the subsets of 0 .. N.

**MkTempProofs** proves the types, `OwnsItsFile`, `EexistIsExhaustion` and
`NeverTwice`. Ownership: a name which a call has created belongs to that call;
each other step creates only where nothing is and removes only what it owns.
Exhaustion: `Odometer` says that the names tried are exactly those `Earlier` than
the one in the buffer, in the order in which each position counts from its own
first character. `Turn` moves to the next name of this order, or ends when all
positions are back at their first. That a name has a first position to turn and
two names a last position where they differ (`Least`, `Greatest`) is taken from
the well-foundedness of proper inclusion on finite sets, in the form with a set,
because the induction rules with an operator are not available. `EachTryIsNew` is
the measure behind `SearchEnds`: a failed try takes a name from those that are
still to be tried, the first try included.

**SymRedirectProofs** proves `NoLoss`, `KeptIsFinished`, `SuccessInstalls` and
`ChangedWhenReady` for any number of runs. They need `Phase`, which ties what a
run's files hold to its place: until `Unlink` the target is still what the run
copied, and from `Unlink` to the end the temporary file is finished. A step
that destroys one whole copy therefore has another: `Unlink` has the temporary
file, `Return` the target. If the run never had a whole copy, it is the file of
an earlier run that is left, and no run touches another's file (`Survives`).

**ProcessTargetProofs** proves all six properties of `redirect` for every list
of libraries, every table and every stream of any length. The parts of `IInv`
about a stream:

* `Kept`: `record` and `tmpcache` bind as many pointers as the input has, each to
  the same symbol, and from the same library or the shim library;
* `Sized`: while `rebuilt` is false `record` is as long as the input, and so is
  `tmpcache` while `resized` is false;
* `Mirrored`: if every record so far has set its library, `record` and `tmpcache`
  bind exactly the redirected input; and in a record that has set its library
  `record` ends with that library, `tmpcache` with the shim library;
* `Returned`: what is returned is `record`.

`TablesRedone` says that a table is what it was in the file until its step, and
from then on the same table redirected with the whole ordinal: an ordinal within
the limit, which is less than the number of values of the field, is read as it
was stored (`ReadBackFits`), and `CanRedirect` lets no other be stored. With
`Mirrored` this gives `TablesAgree`, also between the tables and the streams.
`Layout` says that `__LINKEDIT` ends with the file, no table lies behind it, and
the strings and the signature are where they were until the last part.

**ExecSearchProofs** proves all six properties of `exec_search` for a PATH of any
length. `Together` says that the two searches have started the same program
unless one of the two exceptions has happened. `DeniedNoted` says that the flag
for EACCES is set, or EACCES reported, only when something was found and not
permitted, or in `execvPe()` when the last stat was denied; `NotForgotten` is the
converse: once something was found and not permitted the flag is set as long as
the search goes on, and a search that comes to its end with it reports EACCES.
`GoesOn` carries `NotPassedOver`: as long as every entry leads on, both still search.

**UpdateLinkProofs** proves `ViewKept`, `LostOnlyInFlight`, `ViewsAgree`,
`UpdatedWhenDone` and the types for any number of links, volumes, runs, moves,
kills and changes. `UpdatesJbroot` says that a link in the midst of an update
said "jbroot", so that the new link says what the old one did. `GoneBounded`
counts: without the link in flight, no more are lost than processes were
killed. `Covered`, for `UpdatedWhenDone`: in a run without a failure every link
that is not up to date is on this volume and still to be seen, in the pipe or in
updatelink's hands, or on a volume to come.

**Only model-checked.** Liveness under fairness (`CallsReturn`, `SearchEnds`,
`RunEnds`), which is beyond the prover. Every invariant and every other action
or refinement property that a passing run checks is proved, `cache_solo`'s under
`SoloInit`.

## 6. What is not modelled

* allocation failures: malloc, strdup and asprintf are assumed to succeed, as the
  code assumes;
* the creation of files between a check of the path conversion and its use: any
  conversion that checks and then uses has this window, and the repository
  promises nothing about it;
* two runs of symredirect on one target at the same time, and a power loss:
  nothing in the code orders or synchronises for either;
* `ftw` and `nftw`, whose callback is one variable per thread; `getcwd` with a
  short buffer; `rmdir` and its `.jbroot` link; `bind`, which reads what it has
  freed: each is in the list of hazards, without a property. All other wrappers
  convert, call and free, which is `PathConv`;
* the layout of mach-o structures: a table is a list of pairs;
* in the program search, `execl` and its variants, which collect their
  arguments, and the choice between PATH and the default path;
* sizes, inode numbers and the copying of results in the directory views;
* argument checks that return before any state changes, logging, formatting;
* `dlopen` and its like (a call of the dynamic linker with a converted path), the
  constructor, the trampolines, the bindings for other languages, the command
  line tools, the back traces, the build: no state of their own.

## 7. Plan

1. `ftw`: the walk, its callback and a callback that walks; `rmdir` as an
   operation of the `FileTree`.
2. `getcwd` at the limits of its buffer, over lengths.
3. An abstract specification of what symredirect promises (the target is
   replaced as a whole, or kept), and the proof that `SymRedirect` implements it.
4. Bounds on the number of steps of the model-checked liveness properties, as
   measures that each step lowers.
