----------------------------- MODULE ExecSearch -----------------------------
(***************************************************************************)
(* The search for a program in PATH: execvPe() and posix_spawnp() of       *)
(* vroot_exec.c.  The two are copies of one another that have drifted      *)
(* apart, so the model lets both walk through the same PATH, and each      *)
(* entry answers both in the same way.                                     *)
(*                                                                         *)
(* An entry answers with what execve or posix_spawn, the stat that may     *)
(* follow, and the shell that may be tried return.  stat comes later and   *)
(* answers for itself: the file may have come or gone in between.          *)
(***************************************************************************)
EXTENDS Integers, Sequences

CONSTANTS
    Entries,      \* bound: the entries of PATH
    MaxArgs,      \* bound: the arguments of the program
    Stale         \* the errno the caller comes with, told from all others

Fatal == {"E2BIG", "ENOMEM", "ETXTBSY"}
Passed == {"ELOOP", "ENAMETOOLONG", "ENOENT", "ENOTDIR"}
Errno == Fatal \cup Passed \cup {"ENOEXEC", "EACCES", "EIO", Stale}

ASSUME BoundsAssumption == Entries \in Nat \ {0} /\ MaxArgs \in Nat
ASSUME StaleAssumption == Stale \notin Fatal \cup Passed \cup {"OK", "ENOEXEC", "EACCES", "EIO"}

VARIABLES
    name,         \* "plain", "slash" or "empty"
    argc,         \* the length of argv without the NULL
    left,         \* the entries of PATH still to be tried
    seen,         \* what the others answered
    exec, spawn,  \* the two searches
    shellArgs     \* the arguments of the shell, and the space for them

vars == <<name, argc, left, seen, exec, spawn, shellArgs>>

(* What one class of entries answers: fits says whether the name fits in   *)
(* the buffer behind it, and stat is what stat returns, or its errno.      *)
Answer == [fits : BOOLEAN, run : {"OK", "E2BIG", "ENOENT", "ENOEXEC", "EACCES", "EIO"},
           stat : {"OK", "ENOENT", "EACCES"}, shell : {"OK", "ENOMEM"}]

Over(search) == search.at # "search"

Searching == [at |-> "search", err |-> Stale, eacces |-> FALSE, started |-> <<>>]

Init ==
    /\ name \in {"plain", "slash", "empty"}
    /\ argc \in 0 .. MaxArgs
    /\ left \in CASE name = "plain" -> 1 .. Entries [] name = "slash" -> {1} [] OTHER -> {0}
    /\ seen = <<>>
    /\ exec = Searching
    /\ spawn = Searching
    /\ shellArgs = [args |-> <<"NULL">>, space |-> 1]

-----------------------------------------------------------------------------
End(search, err) == [search EXCEPT !.at = "end", !.err = err]

(* execve has succeeded, or posix_spawn: a process runs it.                *)
Start(search, what) == [search EXCEPT !.started = Append(@, <<Len(seen) + 1, what>>)]

(* Seeded bug: nobody looks at what the shell's execve returns.            *)
ShellIgnored(search, a) == End(IF a.shell = "OK" THEN Start(search, "shell") ELSE search, "OK")

(* A script without #! is given to the shell.                              *)
Shell(search, a) ==
    IF a.shell = "OK" THEN End(Start(search, "shell"), "OK") ELSE End(search, a.shell)

(* Seeded bug: stat is not asked about EACCES.                             *)
DeniedUnasked(search, a) ==
    IF a.run = "EACCES" THEN [search EXCEPT !.eacces = TRUE]
    ELSE IF a.stat # "OK" THEN search
    ELSE End(search, a.run)

(* Seeded bug: an entry that may not be run ends the search.               *)
DeniedEnds(search, a) == IF a.stat = "OK" THEN End(search, a.run) ELSE search

(* default: stat() decides whether the search goes on.                     *)
Default(search, a) ==
    IF a.stat # "OK" THEN search
    ELSE IF a.run = "EACCES" THEN [search EXCEPT !.eacces = TRUE]
    ELSE End(search, a.run)

(* Seeded bug: errno is put back when the search goes on.                  *)
ExecRestores(search, a) ==
    CASE a.run = "OK" /\ a.fits -> End(Start(search, "program"), "OK")
      [] a.run = "ENOEXEC" /\ a.fits -> Shell(search, a)
      [] OTHER -> IF a.fits THEN Default(search, a) ELSE search

(* One entry in execvPe(): errno is what the last call left there, also if *)
(* that is the stat; it is put back only when the search ends.             *)
ExecEntry(search, a) ==
    CASE ~a.fits -> search
      [] a.fits /\ a.run = "OK" -> End(Start(search, "program"), "OK")
      [] a.fits /\ a.run \in Fatal -> End(search, a.run)
      [] a.fits /\ a.run \in Passed -> [search EXCEPT !.err = a.run]
      [] a.fits /\ a.run = "ENOEXEC" -> Shell(search, a)
      [] OTHER -> Default([search EXCEPT !.err = IF a.stat = "OK" THEN a.run ELSE a.stat], a)

(* Seeded bug: a script without #! is passed over.                         *)
SpawnNoShell(search, a) ==
    CASE ~a.fits -> End(search, "ENAMETOOLONG")
      [] a.run = "OK" -> Default(Start(search, "program"), a)
      [] a.run \in Fatal -> End(search, a.run)
      [] OTHER -> Default(search, a)

(* One entry in posix_spawnp(): success is one of the default cases.       *)
SpawnEntry(search, a) ==
    CASE ~a.fits -> End(search, "ENAMETOOLONG")
      [] a.fits /\ a.run = "OK" -> Default(Start(search, "program"), a)
      [] a.fits /\ a.run \in Fatal -> End(search, a.run)
      [] a.fits /\ a.run \in Passed -> search
      [] a.fits /\ a.run = "ENOEXEC" -> Shell(search, a)
      [] OTHER -> Default(search, a)

(* Seeded bug: the flag is forgotten at the end of the loop.               *)
ForgetsDenied(search) == End(search, search.err)

(* The end of the loop.  strsep() has made cur NULL by then, so that       *)
(* execvPe() keeps the errno it has.                                       *)
ExecExhausted(search) == End(search, IF search.eacces THEN "EACCES" ELSE search.err)
SpawnExhausted(search) == End(search, IF search.eacces THEN "EACCES" ELSE "ENOENT")

(* Seeded bug: argv[0] and the NULL are taken to be one.                   *)
TightSpace == IF argc + 1 > 3 THEN argc + 1 ELSE 3

Space == IF argc + 2 > 3 THEN argc + 2 ELSE 3

(* memp: argv[0] or "sh", the path, the arguments behind argv[0], NULL.    *)
Memp ==
    IF argc > 0
    THEN <<"argv0", "path">> \o [i \in 1 .. argc |-> IF i = argc THEN "NULL" ELSE "arg"]
    ELSE <<"sh", "path", "NULL">>

-----------------------------------------------------------------------------
EmptyName ==
    /\ name = "empty"
    /\ ~Over(exec)
    /\ exec' = End(exec, "ENOENT")
    /\ spawn' = End(spawn, "ENOENT")
    /\ UNCHANGED <<name, argc, left, seen, shellArgs>>

(* The next entry, or the name itself if it has a slash.                   *)
Entry(a) ==
    /\ left > 0
    /\ ~Over(exec) \/ ~Over(spawn)
    /\ left' = left - 1
    /\ name = "slash" => a.fits
    /\ seen' = Append(seen, a)
    /\ exec' = IF Over(exec) THEN exec ELSE ExecEntry(exec, a)
    /\ spawn' = IF Over(spawn) THEN spawn ELSE SpawnEntry(spawn, a)
    /\ shellArgs' = IF a.fits /\ a.run = "ENOEXEC" THEN [args |-> Memp, space |-> Space] ELSE shellArgs
    /\ UNCHANGED <<name, argc>>

Exhausted ==
    /\ name # "empty"
    /\ left = 0
    /\ ~Over(exec) \/ ~Over(spawn)
    /\ exec' = IF Over(exec) THEN exec ELSE ExecExhausted(exec)
    /\ spawn' = IF Over(spawn) THEN spawn ELSE SpawnExhausted(spawn)
    /\ UNCHANGED <<name, argc, left, seen, shellArgs>>

Next ==
    \/ EmptyName
    \/ \E a \in Answer : Entry(a)
    \/ Exhausted

Spec == Init /\ [][Next]_vars

-----------------------------------------------------------------------------
(***************************************************************************)
(* Properties                                                              *)
(***************************************************************************)
Search == [at : {"search", "end"}, err : Errno \cup {"OK"}, eacces : BOOLEAN,
           started : Seq((1 .. Entries) \X {"program", "shell"})]

(* The types; and the shell gets its path and a NULL inside the space.     *)
TypeOK ==
    /\ name \in {"plain", "slash", "empty"} /\ argc \in 0 .. MaxArgs
    /\ seen \in Seq(Answer) /\ left \in 0 .. (Entries - Len(seen))
    /\ exec \in Search /\ spawn \in Search
    /\ Len(shellArgs.args) <= shellArgs.space
    /\ shellArgs.args[Len(shellArgs.args)] = "NULL"

AllOver == Over(exec) /\ Over(spawn)

(* A program that has been started and is gone when stat asks for it.      *)
Vanished == \E k \in DOMAIN seen : seen[k].fits /\ seen[k].run = "OK" /\ seen[k].stat # "OK"

(***************************************************************************)
(* Both find the same program, but for two cases: an entry that is too     *)
(* long ends the search in posix_spawnp() only, and posix_spawnp() asks    *)
(* stat for a program that it has already started.                         *)
(***************************************************************************)
SameProgram ==
    AllOver /\ ~Vanished =>
        \/ exec.started = spawn.started
        \/ spawn.started = <<>> /\ spawn.err = "ENAMETOOLONG"

(***************************************************************************)
(* Success is reported exactly when one program was started.  The comment  *)
(* "We hope that the race for a stat() is unimportant" is true of this     *)
(* property for execvPe(), and for posix_spawnp() only while no program    *)
(* that it starts vanishes: then it starts another, or reports ENOENT.     *)
(***************************************************************************)
SuccessIsOneProgram ==
    AllOver =>
        /\ (exec.err = "OK") <=> (Len(exec.started) = 1)
        /\ ~Vanished => ((spawn.err = "OK") <=> (Len(spawn.started) = 1))

(* An entry that is there and may not be run.                              *)
Denied == \E k \in DOMAIN seen : seen[k].fits /\ seen[k].run = "EACCES" /\ seen[k].stat = "OK"

(* The last entry that was tried is behind a directory that may not be     *)
(* searched: stat is denied as well.                                       *)
LastUnsearchable ==
    \E k \in DOMAIN seen :
        /\ seen[k].fits /\ seen[k].stat = "EACCES"
        /\ \A j \in k + 1 .. Len(seen) : ~seen[j].fits

(* What is reported when nothing was there.                                *)
NothingThere == {"ELOOP", "ENOENT", "ENOTDIR", Stale}

(***************************************************************************)
(* An entry that may not be run is not forgotten: a search that met one is *)
(* never reported as if nothing had been there.  And EACCES is reported    *)
(* only when there was one and nothing else was started, so that "stat()   *)
(* to decide which" tells it from a directory that may not be searched:    *)
(* always in posix_spawnp(), but in execvPe(), which keeps the errno of    *)
(* stat, only if that directory was not the last one.                      *)
(***************************************************************************)
DeniedIsSeen ==
    /\ \A search \in {exec, spawn} :
          Over(search) =>
            /\ Denied => search.err \notin NothingThere
            /\ search.err = "EACCES" => search.started = <<>> \/ Vanished
    /\ Over(spawn) /\ spawn.err = "EACCES" => Denied
    /\ Over(exec) /\ exec.err = "EACCES" => Denied \/ LastUnsearchable

(***************************************************************************)
(* Nothing that can be run is passed over: the search goes on behind any   *)
(* number of entries that have no program, have one that is not permitted, *)
(* or cannot be searched, and ends at the first program that can be run.   *)
(***************************************************************************)
NotPassedOver ==
    LET Leads(k) == \A j \in 1 .. k : seen[j].fits /\ seen[j].run \in {"EACCES", "ENOENT"}
    IN  AllOver =>
          /\ Leads(Len(seen)) => left = 0
          /\ \A k \in DOMAIN seen :
                Leads(k - 1) /\ seen[k].fits /\ seen[k].run = "OK" =>
                    /\ exec.started = << <<k, "program">> >>
                    /\ Len(spawn.started) >= 1 /\ spawn.started[1] = <<k, "program">>

(***************************************************************************)
(* The errno of a failed exec is that of one of its calls, unless every    *)
(* entry was too long: then it is what it was before.                      *)
(***************************************************************************)
ErrnoIsFresh ==
    Over(exec) /\ exec.err = Stale => \A k \in DOMAIN seen : ~seen[k].fits
=============================================================================
