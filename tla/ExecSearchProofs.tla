-------------------------- MODULE ExecSearchProofs --------------------------
(***************************************************************************)
(* However long PATH is and whatever its entries answer: success is one    *)
(* program, execvPe() and posix_spawnp() find the same one unless an entry *)
(* is too long or a program vanishes, nothing runnable is passed over, and *)
(* what is reported has happened.                                          *)
(***************************************************************************)
EXTENDS ExecSearch, TLAPS

(* What a search reports, and with what it goes on.                        *)
ExecReports ==
    IF Over(exec) THEN exec.err = "OK" <=> Len(exec.started) = 1
    ELSE exec.started = <<>> /\ exec.err # "OK"

SpawnReports ==
    ~Vanished => IF Over(spawn) THEN spawn.err = "OK" <=> Len(spawn.started) = 1
                 ELSE spawn.started = <<>>

(* The two searches go together until an entry is too long.                *)
Together ==
    ~Vanished => \/ exec.at = spawn.at /\ exec.started = spawn.started
                 \/ /\ Over(spawn) /\ spawn.err = "ENAMETOOLONG"
                    /\ spawn.started = <<>>

(* EACCES, noted or reported, comes from an entry that was not permitted,  *)
(* or in execvPe() from a stat that was denied last.                       *)
DeniedNoted ==
    /\ exec.eacces \/ spawn.eacces \/ spawn.err = "EACCES" => Denied
    /\ exec.err = "EACCES" => Denied \/ LastUnsearchable
    /\ \A search \in {exec, spawn} :
          ~Over(search) \/ search.err = "EACCES" => search.started = <<>> \/ Vanished

(* What was not permitted is noted until PATH ends, and then reported.     *)
NotForgotten ==
    \A search \in {exec, spawn} :
        /\ ~Over(search) /\ Denied => search.eacces
        /\ Over(search) /\ search.err \in NothingThere \cup {"EACCES"} =>
              left = 0 /\ (Denied => search.err = "EACCES")

StaleUntilFits ==
    exec.err = Stale => /\ \A k \in DOMAIN seen : ~seen[k].fits
                        /\ Over(exec) => left = 0

(* No entry is tried for an empty name.                                    *)
EmptyTriesNone ==
    name = "empty" => /\ left = 0 /\ seen = <<>> /\ exec.at = spawn.at
                      /\ exec.started = <<>> /\ spawn.started = <<>>

IInv ==
    /\ TypeOK /\ ExecReports /\ SpawnReports /\ Together
    /\ DeniedNoted /\ NotForgotten /\ StaleUntilFits /\ EmptyTriesNone

-----------------------------------------------------------------------------
LEMMA InitInv == Init => IInv
<1> SUFFICES ASSUME Init PROVE IInv
  OBVIOUS
<1>1. /\ exec = Searching /\ spawn = Searching /\ seen = <<>>
      /\ DOMAIN seen = {} /\ Len(seen) = 0 /\ Len(<<>>) = 0
  BY DEF Init
<1>2. Searching \in Search
  BY DEF Searching, Search, Errno
<1>3. left \in 0 .. Entries
  BY BoundsAssumption DEF Init
<1>4. TypeOK
  BY <1>1, <1>2, <1>3, BoundsAssumption DEF Init, TypeOK
<1>5. ExecReports /\ SpawnReports /\ Together /\ DeniedNoted /\ NotForgotten /\ StaleUntilFits
  BY <1>1, StaleAssumption DEF Searching, Over, ExecReports, SpawnReports, Together,
     DeniedNoted, NotForgotten, Denied, StaleUntilFits
<1>6. EmptyTriesNone
  BY <1>1 DEF Init, Searching, EmptyTriesNone
<1> QED
  BY <1>4, <1>5, <1>6 DEF IInv

(* The shell's arguments fit.                                              *)
LEMMA MempFits ==
    ASSUME argc \in Nat
    PROVE  Len(Memp) <= Space /\ Memp[Len(Memp)] = "NULL"
<1>1. CASE argc > 0
  <2> DEFINE tail == [i \in 1 .. argc |-> IF i = argc THEN "NULL" ELSE "arg"]
  <2>1. tail \in Seq({"NULL", "arg"}) /\ Len(tail) = argc /\ tail[argc] = "NULL"
    BY <1>1
  <2>2. Memp = <<"argv0", "path">> \o tail
    BY <1>1 DEF Memp
  <2> HIDE DEF tail
  <2>3. Len(Memp) = argc + 2 /\ Memp[argc + 2] = "NULL"
    BY <1>1, <2>1, <2>2
  <2> QED
    BY <1>1, <2>3 DEF Space
<1>2. CASE ~(argc > 0)
  <2>1. Memp = <<"sh", "path", "NULL">>
    BY <1>2 DEF Memp
  <2> QED
    BY <1>2, <2>1 DEF Space
<1> QED
  BY <1>1, <1>2

(* What the two searches make of an entry.                                 *)
LEMMA EntryTypes ==
    ASSUME TypeOK, NEW a \in Answer, left > 0
    PROVE  /\ ExecEntry(exec, a) \in Search
           /\ SpawnEntry(spawn, a) \in Search
<1>1. Len(seen) + 1 \in 1 .. Entries
  BY BoundsAssumption DEF TypeOK
<1>2. \A what \in {"program", "shell"}, search \in Search :
          Append(search.started, <<Len(seen) + 1, what>>) \in Seq((1 .. Entries) \X {"program", "shell"})
  BY <1>1 DEF Search
<1>3. \A what \in {"program", "shell"}, search \in Search : Start(search, what) \in Search
  BY <1>2 DEF Start, Search
<1>4. \A search \in Search, err \in Errno \cup {"OK"} : End(search, err) \in Search
  BY DEF End, Search
<1>5. a.run \in Errno \cup {"OK"} /\ a.shell \in Errno \cup {"OK"}
      /\ "ENAMETOOLONG" \in Errno /\ "ENOENT" \in Errno /\ "OK" \in Errno \cup {"OK"}
  BY DEF Answer, Errno, Fatal, Passed
<1>6. \A search \in Search : Shell(search, a) \in Search
  BY <1>3, <1>4, <1>5 DEF Shell
<1>7. \A search \in Search : Default(search, a) \in Search
  <2>1. \A search \in Search : [search EXCEPT !.eacces = TRUE] \in Search
    BY DEF Search
  <2> QED
    BY <1>4, <1>5, <2>1 DEF Default
<1>8. \A search \in Search, err \in Errno : [search EXCEPT !.err = err] \in Search
  BY DEF Search
<1>9. exec \in Search /\ spawn \in Search
  BY DEF TypeOK
<1>10. ExecEntry(exec, a) \in Search
  <2>2. CASE ~a.fits
    BY <1>9, <2>2 DEF ExecEntry
  <2>3. CASE a.fits /\ a.run = "OK"
    BY <1>3, <1>4, <1>5, <1>9, <2>3 DEF ExecEntry, Fatal, Passed
  <2>4. CASE a.fits /\ a.run \in Fatal
    BY <1>4, <1>5, <1>9, <2>4 DEF ExecEntry, Fatal, Passed
  <2>5. CASE a.fits /\ a.run \in Passed
    BY <1>8, <1>9, <2>5 DEF ExecEntry, Passed, Fatal, Errno
  <2>6. CASE a.fits /\ a.run = "ENOEXEC"
    BY <1>6, <1>9, <2>6 DEF ExecEntry, Passed, Fatal
  <2>7. CASE a.fits /\ a.run \in {"EACCES", "EIO"}
    <3>1. (IF a.stat = "OK" THEN a.run ELSE a.stat) \in Errno
      BY <2>7 DEF Answer, Errno, Passed
    <3> QED
      BY <1>7, <1>8, <1>9, <2>7, <3>1 DEF ExecEntry, Passed, Fatal
  <2> QED
    BY <2>2, <2>3, <2>4, <2>5, <2>6, <2>7 DEF Answer, Fatal, Passed
<1>11. SpawnEntry(spawn, a) \in Search
  BY <1>3, <1>4, <1>5, <1>6, <1>7, <1>9 DEF SpawnEntry
<1> QED
  BY <1>10, <1>11

LEMMA StepTypes ==
    ASSUME TypeOK, [Next]_vars
    PROVE  TypeOK'
<1>1. CASE EmptyName
  <2>1. exec' \in Search /\ spawn' \in Search
    BY <1>1 DEF EmptyName, TypeOK, End, Search, Errno, Passed
  <2> QED
    BY <1>1, <2>1 DEF EmptyName, TypeOK
<1>2. ASSUME NEW a \in Answer, Entry(a)
      PROVE  TypeOK'
  <2>1. exec' \in Search /\ spawn' \in Search
    BY <1>2, EntryTypes DEF Entry, TypeOK
  <2>2. /\ seen' \in Seq(Answer) /\ Len(seen') = Len(seen) + 1
        /\ left' \in 0 .. (Entries - Len(seen'))
    BY <1>2, BoundsAssumption DEF Entry, TypeOK
  <2>3. Len(shellArgs'.args) <= shellArgs'.space
        /\ shellArgs'.args[Len(shellArgs'.args)] = "NULL"
    <3>1. argc \in Nat
      BY BoundsAssumption DEF TypeOK
    <3>2. CASE a.fits /\ a.run = "ENOEXEC"
      <4>1. shellArgs' = [args |-> Memp, space |-> Space]
        BY <1>2, <3>2 DEF Entry
      <4> QED
        BY <3>1, <4>1, MempFits
    <3>3. CASE ~(a.fits /\ a.run = "ENOEXEC")
      BY <1>2, <3>3 DEF Entry, TypeOK
    <3> QED
      BY <3>2, <3>3
  <2> QED
    BY <1>2, <2>1, <2>2, <2>3 DEF Entry, TypeOK
<1>3. CASE Exhausted
  <2>1. exec' \in Search /\ spawn' \in Search
    BY <1>3 DEF Exhausted, TypeOK, ExecExhausted, SpawnExhausted, End, Search, Errno, Passed
  <2> QED
    BY <1>3, <2>1 DEF Exhausted, TypeOK
<1>4. CASE UNCHANGED vars
  BY <1>4 DEF vars, TypeOK
<1> QED
  BY <1>1, <1>2, <1>3, <1>4 DEF Next

(* What the searches make of an entry, case by case.                       *)
LEMMA EntryCases ==
    ASSUME NEW search \in Search, NEW a \in Answer
    PROVE  /\ ~a.fits => /\ ExecEntry(search, a) = search
                         /\ SpawnEntry(search, a) = End(search, "ENAMETOOLONG")
           /\ a.fits /\ a.run = "OK" =>
                /\ ExecEntry(search, a) = End(Start(search, "program"), "OK")
                /\ SpawnEntry(search, a) = IF a.stat = "OK" THEN End(Start(search, "program"), "OK")
                                           ELSE Start(search, "program")
           /\ a.fits /\ a.run = "E2BIG" =>
                ExecEntry(search, a) = End(search, "E2BIG") /\ SpawnEntry(search, a) = End(search, "E2BIG")
           /\ a.fits /\ a.run = "ENOENT" =>
                ExecEntry(search, a) = [search EXCEPT !.err = "ENOENT"] /\ SpawnEntry(search, a) = search
           /\ a.fits /\ a.run = "ENOEXEC" =>
                ExecEntry(search, a) = Shell(search, a) /\ SpawnEntry(search, a) = Shell(search, a)
           /\ a.fits /\ a.run \in {"EACCES", "EIO"} /\ a.stat # "OK" =>
                ExecEntry(search, a) = [search EXCEPT !.err = a.stat] /\ SpawnEntry(search, a) = search
           /\ a.fits /\ a.run = "EACCES" /\ a.stat = "OK" =>
                /\ ExecEntry(search, a) = [search EXCEPT !.err = "EACCES", !.eacces = TRUE]
                /\ SpawnEntry(search, a) = [search EXCEPT !.eacces = TRUE]
           /\ a.fits /\ a.run = "EIO" /\ a.stat = "OK" =>
                ExecEntry(search, a) = End(search, "EIO") /\ SpawnEntry(search, a) = End(search, "EIO")
<1>1. a.fits \in BOOLEAN /\ a.stat \in {"OK", "ENOENT", "EACCES"}
  BY DEF Answer
<1>2. CASE ~a.fits
  BY <1>2 DEF ExecEntry, SpawnEntry, Fatal, Passed
<1>3. CASE a.fits /\ a.run = "OK"
  BY <1>1, <1>3 DEF ExecEntry, SpawnEntry, Fatal, Passed, Default
<1>4. CASE a.fits /\ a.run = "E2BIG"
  BY <1>4 DEF ExecEntry, SpawnEntry, Fatal, Passed
<1>5. CASE a.fits /\ a.run = "ENOENT"
  BY <1>5 DEF ExecEntry, SpawnEntry, Fatal, Passed
<1>6. CASE a.fits /\ a.run = "ENOEXEC"
  BY <1>6 DEF ExecEntry, SpawnEntry, Fatal, Passed
<1>7. CASE a.fits /\ a.run \in {"EACCES", "EIO"} /\ a.stat # "OK"
  BY <1>7 DEF ExecEntry, SpawnEntry, Fatal, Passed, Default
<1>8. CASE a.fits /\ a.run = "EACCES" /\ a.stat = "OK"
  BY <1>8 DEF ExecEntry, SpawnEntry, Fatal, Passed, Default, Search
<1>9. CASE a.fits /\ a.run = "EIO" /\ a.stat = "OK"
  BY <1>9 DEF ExecEntry, SpawnEntry, Fatal, Passed, Default, End, Search
<1> QED
  BY <1>1, <1>2, <1>3, <1>4, <1>5, <1>6, <1>7, <1>8, <1>9 DEF Answer

(* The pair that is added when a program is started.                       *)
Started(search, what) == Append(search.started, <<Len(seen) + 1, what>>)

(* The fields of a search that ends.                                       *)
LEMMA Ends ==
    ASSUME NEW search \in Search, NEW err
    PROVE  /\ End(search, err).at = "end"
           /\ End(search, err).err = err
           /\ End(search, err).eacces = search.eacces
           /\ End(search, err).started = search.started
  BY DEF End, Search

(* And of one that has started a program.                                  *)
LEMMA Starts ==
    ASSUME NEW search \in Search, NEW what
    PROVE  /\ Start(search, what).at = search.at
           /\ Start(search, what).err = search.err
           /\ Start(search, what).eacces = search.eacces
           /\ Start(search, what).started = Started(search, what)
           /\ End(Start(search, what), "OK").at = "end"
           /\ End(Start(search, what), "OK").err = "OK"
           /\ End(Start(search, what), "OK").eacces = search.eacces
           /\ End(Start(search, what), "OK").started = Started(search, what)
<1> DEFINE started == Started(search, what)
<1>1. Start(search, what) = [search EXCEPT !.started = started]
  BY DEF Start, Search, Started
<1> HIDE DEF started
<1>2. /\ Start(search, what).at = search.at
      /\ Start(search, what).err = search.err
      /\ Start(search, what).eacces = search.eacces
      /\ Start(search, what).started = started
  BY <1>1 DEF Search
<1>3. /\ End(Start(search, what), "OK").at = "end"
      /\ End(Start(search, what), "OK").err = "OK"
      /\ End(Start(search, what), "OK").eacces = search.eacces
      /\ End(Start(search, what), "OK").started = started
  BY <1>1 DEF End, Search
<1> QED
  BY <1>2, <1>3 DEF started

(* One entry in execvPe(), field by field.                                 *)
LEMMA ExecFields ==
    ASSUME NEW search \in Search, search.at = "search", NEW a \in Answer,
           NEW e, e = ExecEntry(search, a)
    PROVE  /\ e.at \in {"search", "end"}
           /\ e.at = "search" <=>
                ~a.fits \/ a.run \in {"ENOENT", "EACCES"} \/ (a.run = "EIO" /\ a.stat # "OK")
           /\ ~a.fits => e = search
           /\ a.fits /\ a.run = "OK" => e.err = "OK" /\ e.started = Started(search, "program")
           /\ a.fits /\ a.run = "ENOEXEC" =>
                IF a.shell = "OK" THEN e.err = "OK" /\ e.started = Started(search, "shell")
                ELSE e.err = "ENOMEM" /\ e.started = search.started
           /\ a.fits /\ a.run \notin {"OK", "ENOEXEC"} =>
                /\ e.started = search.started
                /\ e.err \in {"ENOENT", "E2BIG", "EIO", "EACCES"}
           /\ e.eacces <=> search.eacces \/ (a.fits /\ a.run = "EACCES" /\ a.stat = "OK")
           /\ e.err = "EACCES" => \/ search.err = "EACCES" /\ ~a.fits
                                  \/ a.fits /\ a.run = "EACCES" /\ a.stat = "OK"
                                  \/ a.fits /\ a.stat = "EACCES"
           /\ e.at = "end" => e.err \in {"OK", "E2BIG", "ENOMEM", "EIO"}
<1>1. a.fits \in BOOLEAN /\ a.stat \in {"OK", "ENOENT", "EACCES"} /\ a.shell \in {"OK", "ENOMEM"}
      /\ a.run \in {"OK", "E2BIG", "ENOENT", "ENOEXEC", "EACCES", "EIO"}
  BY DEF Answer
<1>2. CASE ~a.fits
  BY <1>2, EntryCases
<1>3. CASE a.fits /\ a.run = "OK"
  <2>1. e = End(Start(search, "program"), "OK")
    BY <1>3, EntryCases
  <2> QED
    BY <1>3, <2>1, Starts
<1>4. CASE a.fits /\ a.run = "E2BIG"
  <2>1. e = End(search, "E2BIG")
    BY <1>4, EntryCases
  <2> QED
    BY <1>4, <2>1, Ends
<1>5. CASE a.fits /\ a.run = "ENOENT"
  BY <1>5, EntryCases DEF Search
<1>6. CASE a.fits /\ a.run = "ENOEXEC" /\ a.shell = "OK"
  <2>1. e = End(Start(search, "shell"), "OK")
    BY <1>6, EntryCases DEF Shell
  <2> QED
    BY <1>6, <2>1, Starts
<1>7. CASE a.fits /\ a.run = "ENOEXEC" /\ a.shell = "ENOMEM"
  <2>1. e = End(search, "ENOMEM")
    BY <1>7, EntryCases DEF Shell
  <2> QED
    BY <1>7, <2>1, Ends
<1>8. CASE a.fits /\ a.run \in {"EACCES", "EIO"} /\ a.stat # "OK"
  <2>1. e = [search EXCEPT !.err = a.stat]
    BY <1>8, EntryCases
  <2>2. /\ e.at = "search" /\ e.err = a.stat /\ e.started = search.started
        /\ e.eacces = search.eacces
    BY <2>1 DEF Search
  <2>3. a.stat \in {"ENOENT", "EACCES"}
    BY <1>1, <1>8
  <2> QED
    BY <1>8, <2>2, <2>3
<1>9. CASE a.fits /\ a.run = "EACCES" /\ a.stat = "OK"
  <2>1. e = [search EXCEPT !.err = "EACCES", !.eacces = TRUE]
    BY <1>9, EntryCases
  <2>2. /\ e.at = "search" /\ e.err = "EACCES" /\ e.started = search.started
        /\ e.eacces = TRUE
    BY <2>1 DEF Search
  <2> QED
    BY <1>9, <2>2
<1>10. CASE a.fits /\ a.run = "EIO" /\ a.stat = "OK"
  <2>1. e = End(search, "EIO")
    BY <1>10, EntryCases
  <2> QED
    BY <1>10, <2>1, Ends
<1> QED
  BY <1>1, <1>2, <1>3, <1>4, <1>5, <1>6, <1>7, <1>8, <1>9, <1>10

(* And in posix_spawnp().                                                  *)
LEMMA SpawnFields ==
    ASSUME NEW search \in Search, search.at = "search", NEW a \in Answer,
           NEW e, e = SpawnEntry(search, a)
    PROVE  /\ e.at \in {"search", "end"}
           /\ e.at = "search" <=>
                /\ a.fits
                /\ a.run \in {"ENOENT", "EACCES"} \/ (a.run \in {"OK", "EIO"} /\ a.stat # "OK")
           /\ ~a.fits => e.err = "ENAMETOOLONG" /\ e.started = search.started
           /\ a.fits /\ a.run = "OK" =>
                /\ e.started = Started(search, "program")
                /\ a.stat = "OK" => e.err = "OK"
           /\ a.fits /\ a.run = "ENOEXEC" =>
                IF a.shell = "OK" THEN e.err = "OK" /\ e.started = Started(search, "shell")
                ELSE e.err = "ENOMEM" /\ e.started = search.started
           /\ a.fits /\ a.run \notin {"OK", "ENOEXEC"} =>
                /\ e.started = search.started
                /\ e.at = "end" => e.err \in {"E2BIG", "EIO"}
           /\ e.eacces <=> search.eacces \/ (a.fits /\ a.run = "EACCES" /\ a.stat = "OK")
           /\ e.err = "EACCES" => search.err = "EACCES"
           /\ e.at = "end" => e.err \in {"OK", "E2BIG", "ENOMEM", "EIO", "ENAMETOOLONG"}
<1>1. a.fits \in BOOLEAN /\ a.stat \in {"OK", "ENOENT", "EACCES"} /\ a.shell \in {"OK", "ENOMEM"}
      /\ a.run \in {"OK", "E2BIG", "ENOENT", "ENOEXEC", "EACCES", "EIO"}
  BY DEF Answer
<1>2. CASE ~a.fits
  <2>1. e = End(search, "ENAMETOOLONG")
    BY <1>2, EntryCases
  <2> QED
    BY <1>2, <2>1, Ends
<1>3. CASE a.fits /\ a.run = "OK" /\ a.stat = "OK"
  <2>1. e = End(Start(search, "program"), "OK")
    BY <1>3, EntryCases
  <2> QED
    BY <1>3, <2>1, Starts
<1>11. CASE a.fits /\ a.run = "OK" /\ a.stat # "OK"
  <2>1. e = Start(search, "program")
    BY <1>11, EntryCases
  <2> QED
    BY <1>11, <2>1, Starts
<1>4. CASE a.fits /\ a.run = "E2BIG"
  <2>1. e = End(search, "E2BIG")
    BY <1>4, EntryCases
  <2> QED
    BY <1>4, <2>1, Ends
<1>5. CASE a.fits /\ a.run = "ENOENT"
  BY <1>5, EntryCases DEF Search
<1>6. CASE a.fits /\ a.run = "ENOEXEC" /\ a.shell = "OK"
  <2>1. e = End(Start(search, "shell"), "OK")
    BY <1>6, EntryCases DEF Shell
  <2> QED
    BY <1>6, <2>1, Starts
<1>7. CASE a.fits /\ a.run = "ENOEXEC" /\ a.shell = "ENOMEM"
  <2>1. e = End(search, "ENOMEM")
    BY <1>7, EntryCases DEF Shell
  <2> QED
    BY <1>7, <2>1, Ends
<1>8. CASE a.fits /\ a.run \in {"EACCES", "EIO"} /\ a.stat # "OK"
  BY <1>8, EntryCases DEF Search
<1>9. CASE a.fits /\ a.run = "EACCES" /\ a.stat = "OK"
  <2>1. e = [search EXCEPT !.eacces = TRUE]
    BY <1>9, EntryCases
  <2>2. /\ e.at = "search" /\ e.err = search.err /\ e.started = search.started
        /\ e.eacces = TRUE
    BY <2>1 DEF Search
  <2> QED
    BY <1>9, <2>2
<1>10. CASE a.fits /\ a.run = "EIO" /\ a.stat = "OK"
  <2>1. e = End(search, "EIO")
    BY <1>10, EntryCases
  <2> QED
    BY <1>10, <2>1, Ends
<1> QED
  BY <1>1, <1>2, <1>3, <1>4, <1>5, <1>6, <1>7, <1>8, <1>9, <1>10, <1>11

(* What is seen stays seen.                                                *)
LEMMA Seen ==
    ASSUME TypeOK, NEW a \in Answer, seen' = Append(seen, a)
    PROVE  /\ Vanished => Vanished'
           /\ a.fits /\ a.run = "OK" /\ a.stat # "OK" => Vanished'
           /\ Denied => Denied'
           /\ a.fits /\ a.run = "EACCES" /\ a.stat = "OK" => Denied'
           /\ Denied' => Denied \/ (a.fits /\ a.run = "EACCES" /\ a.stat = "OK")
           /\ ~a.fits /\ LastUnsearchable => LastUnsearchable'
           /\ a.fits /\ a.stat = "EACCES" => LastUnsearchable'
           /\ ~a.fits /\ (\A k \in DOMAIN seen : ~seen[k].fits) =>
                  \A k \in DOMAIN seen' : ~seen'[k].fits
<1>1. /\ DOMAIN seen' = 1 .. Len(seen) + 1 /\ Len(seen) \in Nat
      /\ DOMAIN seen = 1 .. Len(seen)
      /\ \A k \in 1 .. Len(seen) : seen'[k] = seen[k]
      /\ seen'[Len(seen) + 1] = a
  BY DEF TypeOK
<1>2. Len(seen) + 1 \in DOMAIN seen' /\ \A k \in DOMAIN seen : k \in DOMAIN seen'
  BY <1>1
<1>3. Vanished => Vanished'
  BY <1>1, <1>2 DEF Vanished
<1>4. a.fits /\ a.run = "OK" /\ a.stat # "OK" => Vanished'
  BY <1>1, <1>2 DEF Vanished
<1>5. Denied => Denied'
  BY <1>1, <1>2 DEF Denied
<1>6. a.fits /\ a.run = "EACCES" /\ a.stat = "OK" => Denied'
  BY <1>1, <1>2 DEF Denied
<1>7. ~a.fits /\ (\A k \in DOMAIN seen : ~seen[k].fits) =>
          \A k \in DOMAIN seen' : ~seen'[k].fits
  BY <1>1
<1>8. Denied' => Denied \/ (a.fits /\ a.run = "EACCES" /\ a.stat = "OK")
  BY <1>1 DEF Denied
<1>9. ASSUME ~a.fits, LastUnsearchable
      PROVE  LastUnsearchable'
  <2>1. PICK k \in 1 .. Len(seen) : /\ seen[k].fits /\ seen[k].stat = "EACCES"
                                   /\ \A j \in k + 1 .. Len(seen) : ~seen[j].fits
    BY <1>1, <1>9 DEF LastUnsearchable
  <2>2. /\ k \in DOMAIN seen' /\ seen'[k].fits /\ seen'[k].stat = "EACCES"
        /\ \A j \in k + 1 .. Len(seen') : ~seen'[j].fits
    BY <1>1, <1>9, <2>1
  <2> QED
    BY <2>2 DEF LastUnsearchable
<1>10. a.fits /\ a.stat = "EACCES" => LastUnsearchable'
  BY <1>1, <1>2 DEF LastUnsearchable
<1> QED
  BY <1>3, <1>4, <1>5, <1>6, <1>7, <1>8, <1>9, <1>10

(* The next entry of PATH.                                                 *)
LEMMA EntryStep ==
    ASSUME IInv, NEW a \in Answer, Entry(a)
    PROVE  ExecReports' /\ SpawnReports' /\ Together' /\ DeniedNoted' /\ NotForgotten'
           /\ StaleUntilFits'
<1>1. /\ exec \in Search /\ spawn \in Search /\ seen' = Append(seen, a)
      /\ exec' = IF Over(exec) THEN exec ELSE ExecEntry(exec, a)
      /\ spawn' = IF Over(spawn) THEN spawn ELSE SpawnEntry(spawn, a)
      /\ left > 0
      /\ TypeOK /\ ExecReports /\ SpawnReports /\ Together /\ DeniedNoted /\ NotForgotten
      /\ StaleUntilFits
  BY DEF IInv, TypeOK, Entry
<1>2. /\ a.fits \in BOOLEAN /\ a.stat \in {"OK", "ENOENT", "EACCES"}
      /\ a.run \in {"OK", "E2BIG", "ENOENT", "ENOEXEC", "EACCES", "EIO"}
      /\ a.shell \in {"OK", "ENOMEM"}
  BY DEF Answer
<1>3. /\ exec.at \in {"search", "end"} /\ spawn.at \in {"search", "end"}
      /\ exec.started \in Seq((1 .. Entries) \X {"program", "shell"})
  BY <1>1 DEF Search
<1>4. ASSUME NEW search, NEW what, search.started = <<>>
      PROVE  Len(Started(search, what)) = 1
  BY <1>4 DEF Started
<1>5. ASSUME ~Over(exec)
      PROVE  exec.at = "search" /\ exec.started = <<>> /\ exec.err # "OK"
             /\ exec' = ExecEntry(exec, a)
  BY <1>1, <1>3, <1>5 DEF ExecReports, Over
<1>6. ASSUME ~Over(spawn)
      PROVE  spawn.at = "search" /\ spawn' = SpawnEntry(spawn, a)
  BY <1>1, <1>3, <1>6 DEF Over
<1>e. ASSUME ~Over(exec)
      PROVE  ExecReports'
  <2>1. CASE exec'.at = "search"
    BY <1>1, <1>2, <1>5, <1>e, <2>1, ExecFields DEF ExecReports, Over
  <2>2. CASE exec'.at # "search"
    <3>1. /\ a.fits /\ a.run \notin {"ENOENT", "EACCES"} /\ exec'.at = "end"
          /\ a.run = "OK" => exec'.err = "OK" /\ exec'.started = Started(exec, "program")
          /\ a.run = "ENOEXEC" /\ a.shell = "OK" =>
                exec'.err = "OK" /\ exec'.started = Started(exec, "shell")
          /\ a.run = "ENOEXEC" /\ a.shell # "OK" => exec'.err = "ENOMEM" /\ exec'.started = <<>>
          /\ a.run \notin {"OK", "ENOEXEC"} =>
                exec'.err \in {"ENOENT", "E2BIG", "EIO", "EACCES"} /\ exec'.started = <<>>
      BY <1>1, <1>2, <1>5, <1>e, <2>2, ExecFields
    <3>2. Len(Started(exec, "program")) = 1 /\ Len(Started(exec, "shell")) = 1 /\ Len(<<>>) = 0
      BY <1>4, <1>5, <1>e
    <3>3. (exec'.err = "OK") <=> (Len(exec'.started) = 1)
      <4>1. CASE a.run = "OK" \/ (a.run = "ENOEXEC" /\ a.shell = "OK")
        BY <3>1, <3>2, <4>1
      <4>2. CASE a.run = "ENOEXEC" /\ a.shell # "OK"
        <5>1. exec'.err # "OK" /\ exec'.started = <<>>
          BY <3>1, <4>2
        <5> QED
          BY <3>2, <5>1
      <4>3. CASE a.run \notin {"OK", "ENOEXEC"}
        <5>1. exec'.err # "OK" /\ exec'.started = <<>>
          BY <3>1, <4>3
        <5> QED
          BY <3>2, <5>1
      <4> QED
        BY <4>1, <4>2, <4>3
    <3> QED
      BY <3>1, <3>3 DEF ExecReports, Over
  <2> QED
    BY <2>1, <2>2
<1>7. ExecReports'
  BY <1>1, <1>e DEF ExecReports, Over
<1>s. ASSUME ~Over(spawn), ~Vanished'
      PROVE  IF Over(spawn)' THEN spawn'.err = "OK" <=> Len(spawn'.started) = 1
             ELSE spawn'.started = <<>>
  <2>1. ~Vanished /\ (a.fits /\ a.run = "OK" => a.stat = "OK")
    BY <1>1, <1>2, <1>s, Seen
  <2>2. spawn.started = <<>>
    BY <1>1, <1>s, <2>1 DEF SpawnReports
  <2>3. CASE spawn'.at = "search"
    BY <1>1, <1>2, <1>6, <1>s, <2>1, <2>2, <2>3, SpawnFields DEF Over
  <2>4. CASE spawn'.at # "search"
    <3>1. /\ spawn'.at = "end"
          /\ ~a.fits => spawn'.err = "ENAMETOOLONG" /\ spawn'.started = <<>>
          /\ a.fits /\ a.run = "OK" => spawn'.err = "OK" /\ spawn'.started = Started(spawn, "program")
          /\ a.fits /\ a.run = "ENOEXEC" /\ a.shell = "OK" =>
                spawn'.err = "OK" /\ spawn'.started = Started(spawn, "shell")
          /\ a.fits /\ a.run = "ENOEXEC" /\ a.shell # "OK" =>
                spawn'.err = "ENOMEM" /\ spawn'.started = <<>>
          /\ a.fits /\ a.run \notin {"OK", "ENOEXEC"} =>
                spawn'.err \in {"E2BIG", "EIO"} /\ spawn'.started = <<>>
      BY <1>1, <1>2, <1>6, <1>s, <2>1, <2>2, <2>4, SpawnFields
    <3>2. Len(Started(spawn, "program")) = 1 /\ Len(Started(spawn, "shell")) = 1 /\ Len(<<>>) = 0
      BY <1>4, <2>2
    <3> QED
      BY <1>2, <3>1, <3>2 DEF Over
  <2> QED
    BY <2>3, <2>4
<1>8. SpawnReports'
  BY <1>1, <1>s, Seen DEF SpawnReports, Over
<1>9. Together'
  <2> SUFFICES ASSUME ~Vanished' PROVE Together'
    BY DEF Together
  <2>1. ~Vanished /\ (a.fits /\ a.run = "OK" => a.stat = "OK")
    BY <1>1, <1>2, Seen
  <2>2. CASE Over(spawn) /\ spawn.err = "ENAMETOOLONG" /\ spawn.started = <<>>
    BY <1>1, <2>2 DEF Together, Over
  <2>3. CASE Over(exec) /\ Over(spawn) /\ exec.at = spawn.at /\ exec.started = spawn.started
    BY <1>1, <2>3 DEF Together, Over
  <2>4. CASE ~Over(exec) /\ ~Over(spawn)
    <3>1. spawn.started = <<>>
      BY <1>1, <2>1, <2>4 DEF SpawnReports
    <3>2. exec.started = spawn.started /\ Started(exec, "program") = Started(spawn, "program")
          /\ Started(exec, "shell") = Started(spawn, "shell")
      BY <1>5, <2>4, <3>1 DEF Started
    <3>3. CASE ~a.fits
      BY <1>1, <1>6, <2>4, <3>1, <3>3, SpawnFields DEF Together, Over
    <3>4. CASE a.fits
      <4>1. (exec'.at = "search" <=> spawn'.at = "search")
            /\ exec'.at \in {"search", "end"} /\ spawn'.at \in {"search", "end"}
        BY <1>1, <1>2, <1>5, <1>6, <2>1, <2>4, <3>4, ExecFields, SpawnFields
      <4>2. exec'.started = spawn'.started
        BY <1>1, <1>2, <1>5, <1>6, <2>4, <3>2, <3>4, ExecFields, SpawnFields
      <4> QED
        BY <4>1, <4>2 DEF Together
    <3> QED
      BY <3>3, <3>4
  <2> QED
    BY <1>1, <1>3, <2>1, <2>2, <2>3, <2>4 DEF Together, Over
<1>10. DeniedNoted'
  <2>1. /\ exec.eacces \/ spawn.eacces \/ spawn.err = "EACCES" => Denied
        /\ exec.err = "EACCES" => Denied \/ LastUnsearchable
        /\ ~Over(exec) \/ exec.err = "EACCES" => exec.started = <<>> \/ Vanished
        /\ ~Over(spawn) \/ spawn.err = "EACCES" => spawn.started = <<>> \/ Vanished
    BY <1>1 DEF DeniedNoted
  <2>2. exec'.eacces \/ spawn'.eacces \/ spawn'.err = "EACCES" => Denied'
    BY <1>1, <1>2, <1>3, <1>5, <1>6, <2>1, Seen, ExecFields, SpawnFields
  <2>3. exec'.err = "EACCES" => Denied' \/ LastUnsearchable'
    <3>1. CASE Over(exec)
      <4>1. exec'.err # "EACCES"
        BY <1>1, <3>1 DEF NotForgotten
      <4> QED
        BY <4>1
    <3>2. CASE ~Over(exec)
      BY <1>1, <1>2, <1>5, <2>1, <3>2, Seen, ExecFields
    <3> QED
      BY <3>1, <3>2
  <2>4. ~Over(exec)' \/ exec'.err = "EACCES" => exec'.started = <<>> \/ Vanished'
    BY <1>1, <1>2, <1>3, <1>5, <2>1, Seen, ExecFields DEF Over
  <2>5. ~Over(spawn)' \/ spawn'.err = "EACCES" => spawn'.started = <<>> \/ Vanished'
    BY <1>1, <1>2, <1>3, <1>6, <2>1, Seen, SpawnFields DEF Over
  <2> QED
    BY <2>2, <2>3, <2>4, <2>5 DEF DeniedNoted, Over
<1>12. NotForgotten'
  <2> DEFINE Ending == {"OK", "E2BIG", "ENOMEM", "EIO", "ENAMETOOLONG"}
  <2>1. \A err \in Ending : err \notin NothingThere \cup {"EACCES"}
    BY StaleAssumption DEF NothingThere, Fatal, Passed
  <2> HIDE DEF Ending
  <2>2. ASSUME NEW old \in {exec, spawn}, NEW new,
               Over(old) => new = old,
               ~Over(old) =>
                 /\ new.at \in {"search", "end"}
                 /\ new.eacces <=> old.eacces \/ (a.fits /\ a.run = "EACCES" /\ a.stat = "OK")
                 /\ new.at = "end" => new.err \in Ending
        PROVE  /\ new.at = "search" /\ Denied' => new.eacces
               /\ new.at # "search" => new.err \notin NothingThere \cup {"EACCES"}
    <3>1. CASE Over(old)
      BY <1>1, <2>2, <3>1 DEF NotForgotten, Over
    <3>2. CASE ~Over(old)
      <4>1. Denied => old.eacces
        BY <1>1, <3>2 DEF NotForgotten
      <4>2. Denied' => new.eacces
        BY <1>1, <2>2, <3>2, <4>1, Seen
      <4> QED
        BY <2>1, <2>2, <3>2, <4>2
    <3> QED
      BY <3>1, <3>2
  <2>3. ~Over(exec) =>
          /\ exec'.at \in {"search", "end"}
          /\ exec'.eacces <=> exec.eacces \/ (a.fits /\ a.run = "EACCES" /\ a.stat = "OK")
          /\ exec'.at = "end" => exec'.err \in Ending
    BY <1>1, <1>5, ExecFields DEF Ending
  <2>4. ~Over(spawn) =>
          /\ spawn'.at \in {"search", "end"}
          /\ spawn'.eacces <=> spawn.eacces \/ (a.fits /\ a.run = "EACCES" /\ a.stat = "OK")
          /\ spawn'.at = "end" => spawn'.err \in Ending
    BY <1>1, <1>6, SpawnFields DEF Ending
  <2>5. /\ exec'.at = "search" /\ Denied' => exec'.eacces
        /\ exec'.at # "search" => exec'.err \notin NothingThere \cup {"EACCES"}
    BY <1>1, <2>2, <2>3
  <2>6. /\ spawn'.at = "search" /\ Denied' => spawn'.eacces
        /\ spawn'.at # "search" => spawn'.err \notin NothingThere \cup {"EACCES"}
    BY <1>1, <2>2, <2>4
  <2> QED
    BY <2>5, <2>6 DEF NotForgotten, Over, NothingThere
<1>11. StaleUntilFits'
  <2> SUFFICES ASSUME exec'.err = Stale PROVE StaleUntilFits'
    BY DEF StaleUntilFits
  <2>1. CASE Over(exec)
    BY <1>1, <2>1 DEF StaleUntilFits
  <2>2. CASE ~Over(exec)
    <3>1. ~a.fits /\ exec.err = Stale
      BY <1>1, <1>2, <1>5, <2>2, StaleAssumption, ExecFields DEF Fatal, Passed
    <3>2. \A k \in DOMAIN seen' : ~seen'[k].fits
      BY <1>1, <3>1, Seen DEF StaleUntilFits
    <3> QED
      BY <1>1, <1>5, <2>2, <3>1, <3>2, ExecFields DEF StaleUntilFits, Over
  <2> QED
    BY <2>1, <2>2
<1> QED
  BY <1>7, <1>8, <1>9, <1>10, <1>11, <1>12

(* The end of PATH, and a name that is empty.                              *)
LEMMA LastStep ==
    ASSUME IInv, EmptyName \/ Exhausted
    PROVE  ExecReports' /\ SpawnReports' /\ Together' /\ DeniedNoted' /\ NotForgotten'
           /\ StaleUntilFits' /\ EmptyTriesNone'
<1>1. /\ exec \in Search /\ spawn \in Search /\ UNCHANGED <<name, left, seen>>
      /\ left = 0 /\ (Vanished' <=> Vanished) /\ (Denied' <=> Denied)
      /\ LastUnsearchable' <=> LastUnsearchable
      /\ ExecReports /\ SpawnReports /\ Together /\ DeniedNoted /\ NotForgotten
      /\ StaleUntilFits /\ EmptyTriesNone
  BY DEF IInv, TypeOK, EmptyName, Exhausted, Vanished, Denied, LastUnsearchable, EmptyTriesNone
<1>2. exec.at \in {"search", "end"} /\ spawn.at \in {"search", "end"} /\ Len(<<>>) = 0
      /\ exec.eacces \in BOOLEAN /\ spawn.eacces \in BOOLEAN
  BY <1>1 DEF Search
<1>3. /\ Over(exec) => exec' = exec
      /\ ~Over(exec) => /\ exec'.at = "end" /\ exec'.started = exec.started
                        /\ exec'.eacces = exec.eacces
                        /\ exec'.err \in {"EACCES", "ENOENT", exec.err}
                        /\ exec'.err = "EACCES" => exec.eacces \/ exec.err = "EACCES"
                        /\ exec.eacces => exec'.err = "EACCES" \/ name = "empty"
  <2>1. CASE Over(exec)
    BY <2>1 DEF EmptyName, Exhausted
  <2>2. CASE ~Over(exec)
    <3>1. PICK err : exec' = End(exec, err) /\ err \in {"EACCES", "ENOENT", exec.err}
                     /\ (err = "EACCES" => exec.eacces \/ exec.err = "EACCES")
                     /\ (exec.eacces => err = "EACCES" \/ name = "empty")
      BY <2>2 DEF EmptyName, Exhausted, ExecExhausted
    <3> QED
      BY <1>1, <2>2, <3>1, Ends
  <2> QED
    BY <2>1, <2>2
<1>4. /\ name # "empty" /\ Over(spawn) => spawn' = spawn
      /\ name = "empty" \/ ~Over(spawn) =>
            /\ spawn'.at = "end" /\ spawn'.started = spawn.started
            /\ spawn'.eacces = spawn.eacces
            /\ spawn'.err \in {"EACCES", "ENOENT"}
            /\ spawn'.err = "EACCES" => spawn.eacces
            /\ spawn.eacces => spawn'.err = "EACCES" \/ name = "empty"
  <2>1. CASE name # "empty" /\ Over(spawn)
    BY <2>1 DEF EmptyName, Exhausted
  <2>2. CASE name = "empty" \/ ~Over(spawn)
    <3>1. PICK err : spawn' = End(spawn, err) /\ err \in {"EACCES", "ENOENT"}
                     /\ (err = "EACCES" => spawn.eacces)
                     /\ (spawn.eacces => err = "EACCES" \/ name = "empty")
      BY <1>2, <2>2 DEF EmptyName, Exhausted, SpawnExhausted
    <3> QED
      BY <1>1, <2>2, <3>1, Ends
  <2> QED
    BY <2>1, <2>2
<1>5. name = "empty" => ~Over(exec) /\ ~Over(spawn)
  BY <1>1, <1>2 DEF EmptyName, Exhausted, EmptyTriesNone, Over
<1>6. ExecReports'
  <2>1. CASE Over(exec)
    BY <1>1, <1>3, <2>1 DEF ExecReports, Over
  <2>2. CASE ~Over(exec)
    <3>1. exec'.err # "OK" /\ exec'.started = <<>> /\ exec'.at = "end"
      BY <1>1, <1>3, <2>2 DEF ExecReports
    <3> QED
      BY <1>2, <3>1 DEF ExecReports, Over
  <2> QED
    BY <2>1, <2>2
<1>7. SpawnReports'
  <2> SUFFICES ASSUME ~Vanished PROVE SpawnReports'
    BY <1>1 DEF SpawnReports
  <2>1. CASE Over(spawn)
    BY <1>1, <1>4, <1>5, <2>1 DEF SpawnReports, Over
  <2>2. CASE ~Over(spawn)
    <3>1. spawn'.err # "OK" /\ spawn'.started = <<>> /\ spawn'.at = "end"
      BY <1>1, <1>4, <2>2 DEF SpawnReports
    <3> QED
      BY <1>2, <3>1 DEF SpawnReports, Over
  <2> QED
    BY <2>1, <2>2
<1>8. Together'
  BY <1>1, <1>2, <1>3, <1>4, <1>5 DEF Together, Over
<1>9. DeniedNoted'
  <2>1. (exec'.eacces => Denied) /\ (exec'.err = "EACCES" => Denied \/ LastUnsearchable)
        /\ (exec'.err = "EACCES" => exec'.started = <<>> \/ Vanished)
    BY <1>1, <1>3 DEF DeniedNoted
  <2>2. (spawn'.eacces \/ spawn'.err = "EACCES" => Denied)
        /\ (spawn'.err = "EACCES" => spawn'.started = <<>> \/ Vanished)
    BY <1>1, <1>4, <1>5 DEF DeniedNoted
  <2>3. Over(exec)' /\ Over(spawn)'
    BY <1>3, <1>4, <1>5 DEF Over
  <2> QED
    BY <1>1, <2>1, <2>2, <2>3 DEF DeniedNoted, Over
<1>12. NotForgotten'
  <2>1. Over(exec)' /\ Over(spawn)' /\ left' = 0
    BY <1>1, <1>3, <1>4, <1>5 DEF Over
  <2>2. name = "empty" => ~Denied
    BY <1>1 DEF EmptyTriesNone, Denied
  <2>3. exec'.err \in NothingThere \cup {"EACCES"} /\ Denied => exec'.err = "EACCES"
    BY <1>1, <1>3, <2>2 DEF NotForgotten
  <2>4. spawn'.err \in NothingThere \cup {"EACCES"} /\ Denied => spawn'.err = "EACCES"
    BY <1>1, <1>4, <1>5, <2>2 DEF NotForgotten
  <2> QED
    BY <1>1, <2>1, <2>3, <2>4 DEF NotForgotten, NothingThere
<1>10. StaleUntilFits'
  BY <1>1, <1>3, StaleAssumption DEF StaleUntilFits, Fatal, Passed
<1>11. EmptyTriesNone'
  BY <1>1, <1>3, <1>4, <1>5 DEF EmptyTriesNone
<1> QED
  BY <1>6, <1>7, <1>8, <1>9, <1>10, <1>11, <1>12

-----------------------------------------------------------------------------
(* The inductive invariant.                                                *)
LEMMA Invariance == Spec => []IInv
<1>1. IInv /\ [Next]_vars => IInv'
  <2> SUFFICES ASSUME IInv, [Next]_vars PROVE IInv'
    OBVIOUS
  <2>1. TypeOK'
    BY StepTypes DEF IInv
  <2>2. ASSUME NEW a \in Answer, Entry(a)
        PROVE  EmptyTriesNone'
    BY <2>2 DEF IInv, Entry, EmptyTriesNone
  <2>3. CASE UNCHANGED vars
    BY <2>1, <2>3 DEF vars, IInv, ExecReports, SpawnReports, Together, DeniedNoted,
       NotForgotten, StaleUntilFits, EmptyTriesNone, Vanished, Denied, LastUnsearchable, Over
  <2> QED
    BY <2>1, <2>2, <2>3, EntryStep, LastStep DEF IInv, Next
<1> QED
  BY InitInv, <1>1, PTL DEF Spec

(* The searches keep their types, and the arguments of the shell end with  *)
(* a NULL inside the array that execvPe() and posix_spawnp() allocate.     *)
THEOREM TypeCorrect == Spec => []TypeOK
<1>1. IInv => TypeOK
  BY DEF IInv
<1> QED
  BY <1>1, Invariance, PTL

(* execvPe() and posix_spawnp() find the same program, unless an entry is  *)
(* too long for posix_spawnp() or a program that it starts vanishes.       *)
THEOREM ProgramsAreTheSame == Spec => []SameProgram
<1>1. IInv => SameProgram
  BY DEF IInv, TypeOK, Search, Together, SameProgram, AllOver, Over
<1> QED
  BY <1>1, Invariance, PTL

(* Success is reported exactly when one program was started.               *)
THEOREM OneProgram == Spec => []SuccessIsOneProgram
<1>1. IInv => SuccessIsOneProgram
  BY DEF IInv, ExecReports, SpawnReports, SuccessIsOneProgram, AllOver
<1> QED
  BY <1>1, Invariance, PTL

(* An entry that was not permitted is never reported as missing, and       *)
(* EACCES is reported only when there was one, in execvPe() also when the  *)
(* last directory could not be searched.                                   *)
THEOREM DenialsAreSeen == Spec => []DeniedIsSeen
<1>1. ASSUME IInv
      PROVE  DeniedIsSeen
  <2>1. ASSUME NEW search \in {exec, spawn}, Over(search), Denied
        PROVE  search.err \notin NothingThere
    <3>1. search.err \in NothingThere => search.err = "EACCES"
      BY <1>1, <2>1 DEF IInv, NotForgotten
    <3> QED
      BY <3>1, StaleAssumption DEF NothingThere
  <2> QED
    BY <1>1, <2>1 DEF IInv, DeniedNoted, DeniedIsSeen
<1> QED
  BY <1>1, Invariance, PTL

(* execvPe() leaves the errno that it came with only when all entries were *)
(* too long.                                                               *)
THEOREM ErrnoComesFromACall == Spec => []ErrnoIsFresh
<1>1. IInv => ErrnoIsFresh
  BY DEF IInv, StaleUntilFits, ErrnoIsFresh
<1> QED
  BY <1>1, Invariance, PTL

-----------------------------------------------------------------------------
(* The entries up to k have no program, or one that is not permitted.      *)
Leads(k) == \A j \in 1 .. k : seen[j].fits /\ seen[j].run \in {"EACCES", "ENOENT"}

FirstRuns(k) ==
    /\ Over(exec) /\ exec.started = << <<k, "program">> >>
    /\ Len(spawn.started) >= 1 /\ spawn.started[1] = <<k, "program">>

(* A search that has met nothing to run goes on, and one that meets it     *)
(* takes it.                                                               *)
GoesOn ==
    /\ Leads(Len(seen)) => /\ spawn.started = <<>>
                           /\ left = 0 \/ (~Over(exec) /\ ~Over(spawn))
    /\ \A k \in DOMAIN seen :
           Leads(k - 1) /\ seen[k].fits /\ seen[k].run = "OK" => FirstRuns(k)

(* A program that posix_spawnp() starts later comes behind the first.      *)
LEMMA FirstStays ==
    ASSUME IInv, NEW k, FirstRuns(k), NEW a \in Answer, Entry(a)
    PROVE  FirstRuns(k)'
<1>1. /\ exec' = exec /\ spawn \in Search
      /\ spawn' = IF Over(spawn) THEN spawn ELSE SpawnEntry(spawn, a)
  BY DEF IInv, TypeOK, Entry, FirstRuns
<1>2. \/ spawn'.started = spawn.started
      \/ \E what : spawn'.started = Started(spawn, what)
  <2>1. CASE Over(spawn)
    BY <1>1, <2>1
  <2>2. CASE ~Over(spawn)
    <3>1. spawn.at = "search" /\ spawn' = SpawnEntry(spawn, a)
      BY <1>1, <2>2 DEF Over, Search
    <3>2. a.fits \in BOOLEAN /\ a.run \in {"OK", "E2BIG", "ENOENT", "ENOEXEC", "EACCES", "EIO"}
      BY DEF Answer
    <3> QED
      BY <1>1, <3>1, <3>2, SpawnFields
  <2> QED
    BY <2>1, <2>2
<1>3. spawn.started \in Seq((1 .. Entries) \X {"program", "shell"})
  BY <1>1 DEF Search
<1>4. ASSUME NEW what
      PROVE  /\ Len(Started(spawn, what)) = Len(spawn.started) + 1
             /\ Len(spawn.started) >= 1 => Started(spawn, what)[1] = spawn.started[1]
  BY <1>3 DEF Started
<1> QED
  BY <1>1, <1>2, <1>3, <1>4 DEF FirstRuns, Over

LEMMA StepGoesOn ==
    ASSUME IInv, GoesOn, [Next]_vars
    PROVE  GoesOn'
<1>1. TypeOK /\ exec \in Search /\ spawn \in Search /\ ExecReports
  BY DEF IInv, TypeOK
<1>2. ASSUME NEW a \in Answer, Entry(a)
      PROVE  GoesOn'
  <2>1. /\ seen' = Append(seen, a) /\ left > 0
        /\ exec' = IF Over(exec) THEN exec ELSE ExecEntry(exec, a)
        /\ spawn' = IF Over(spawn) THEN spawn ELSE SpawnEntry(spawn, a)
    BY <1>2 DEF Entry
  <2>2. /\ Len(seen') = Len(seen) + 1 /\ Len(seen) \in Nat
        /\ DOMAIN seen = 1 .. Len(seen) /\ DOMAIN seen' = 1 .. Len(seen) + 1
        /\ \A k \in 1 .. Len(seen) : seen'[k] = seen[k]
        /\ seen'[Len(seen) + 1] = a
    BY <1>1, <2>1 DEF TypeOK
  <2>3. ASSUME NEW k \in 0 .. Len(seen), Leads(k)'
        PROVE  Leads(k)
    BY <2>2, <2>3 DEF Leads
  <2>4. ASSUME Leads(Len(seen))
        PROVE  /\ exec.at = "search" /\ spawn.at = "search"
               /\ exec.started = <<>> /\ spawn.started = <<>>
               /\ exec' = ExecEntry(exec, a) /\ spawn' = SpawnEntry(spawn, a)
    BY <1>1, <2>1, <2>4 DEF GoesOn, Over, ExecReports
  <2>5. ASSUME Leads(Len(seen))'
        PROVE  spawn'.started = <<>> /\ ~Over(exec)' /\ ~Over(spawn)'
    <3>1. Leads(Len(seen)) /\ a.fits /\ a.run \in {"EACCES", "ENOENT"}
      BY <2>2, <2>5 DEF Leads
    <3> QED
      BY <1>1, <2>4, <3>1, ExecFields, SpawnFields DEF Over
  <2>6. ASSUME NEW k \in DOMAIN seen', Leads(k - 1)', seen'[k].fits, seen'[k].run = "OK"
        PROVE  FirstRuns(k)'
    <3>1. CASE k \in 1 .. Len(seen)
      <4>1. Leads(k - 1) /\ seen[k].fits /\ seen[k].run = "OK" /\ k \in DOMAIN seen
        BY <2>2, <2>3, <2>6, <3>1
      <4> QED
        BY <1>2, <4>1, FirstStays DEF GoesOn
    <3>2. CASE k = Len(seen) + 1
      <4>1. Leads(Len(seen)) /\ a.fits /\ a.run = "OK"
        BY <2>2, <2>3, <2>6, <3>2
      <4>2. /\ exec'.at # "search" /\ exec'.started = Started(exec, "program")
            /\ spawn'.started = Started(spawn, "program")
        BY <1>1, <2>4, <4>1, ExecFields, SpawnFields
      <4>3. /\ Started(exec, "program") = << <<k, "program">> >>
            /\ Len(Started(spawn, "program")) = 1
            /\ Started(spawn, "program")[1] = <<k, "program">>
        <5>1. Started(exec, "program") = Append(<<>>, <<k, "program">>)
              /\ Started(spawn, "program") = Append(<<>>, <<k, "program">>)
          BY <2>4, <3>2, <4>1 DEF Started
        <5>2. \A x : Append(<<>>, x) = <<x>> /\ Len(<<x>>) = 1 /\ <<x>>[1] = x
          OBVIOUS
        <5> QED
          BY <5>1, <5>2
      <4> QED
        BY <4>2, <4>3 DEF FirstRuns, Over
    <3> QED
      BY <2>2, <3>1, <3>2
  <2> QED
    <3>1. \A k \in DOMAIN seen' :
              Leads(k - 1)' /\ seen'[k].fits /\ seen'[k].run = "OK" => FirstRuns(k)'
      BY <2>6
    <3> QED
      BY <2>5, <3>1 DEF GoesOn
<1>3. CASE EmptyName \/ Exhausted
  <2>1. UNCHANGED <<seen, left>> /\ left = 0
    BY <1>3 DEF EmptyName, Exhausted, IInv, EmptyTriesNone
  <2>2. /\ Over(exec) => Over(exec)' /\ exec'.started = exec.started
        /\ spawn'.started = spawn.started
    BY <1>1, <1>3, Ends DEF EmptyName, Exhausted, ExecExhausted, SpawnExhausted, Over
  <2>3. \A k : FirstRuns(k) => FirstRuns(k)'
    BY <2>2 DEF FirstRuns
  <2>4. \A k : Leads(k)' <=> Leads(k)
    BY <2>1 DEF Leads
  <2> QED
    BY <2>1, <2>2, <2>3, <2>4 DEF GoesOn
<1>4. CASE UNCHANGED vars
  BY <1>4 DEF vars, GoesOn, Leads, FirstRuns, Over
<1> QED
  BY <1>2, <1>3, <1>4 DEF Next

(* The search ends at the first program that can be run, behind any number *)
(* of entries that have none or one that is not permitted.                 *)
THEOREM NothingIsPassedOver == Spec => []NotPassedOver
<1>1. Init => GoesOn
  BY BoundsAssumption DEF Init, GoesOn, Leads, Searching, Over
<1>2. IInv /\ GoesOn /\ [Next]_vars => GoesOn'
  BY StepGoesOn
<1>3. GoesOn => NotPassedOver
  <2> SUFFICES ASSUME GoesOn, AllOver PROVE NotPassedOver
    BY DEF NotPassedOver
  <2>1. Leads(Len(seen)) => left = 0
    BY DEF GoesOn, AllOver
  <2>2. ASSUME NEW k \in DOMAIN seen, Leads(k - 1), seen[k].fits, seen[k].run = "OK"
        PROVE  /\ exec.started = << <<k, "program">> >>
               /\ Len(spawn.started) >= 1 /\ spawn.started[1] = <<k, "program">>
    BY <2>2 DEF GoesOn, FirstRuns
  <2> QED
    BY <2>1, <2>2 DEF NotPassedOver, Leads
<1> QED
  BY <1>1, <1>2, <1>3, Invariance, PTL DEF Spec
=============================================================================
