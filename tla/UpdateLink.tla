----------------------------- MODULE UpdateLink -----------------------------
(***************************************************************************)
(* updatelinks.sh and updatelink.c: after jbroot has got a new name, the   *)
(* absolute links into it are made anew.                                   *)
(*                                                                         *)
(* For one volume after the other find writes the links it sees into a     *)
(* pipe and updatelink reads them.  A link is updated by unlink and        *)
(* symlink, which makes it new to find, so that it may be listed again.    *)
(* Every call is in an assertion: when one fails, the volume is over.      *)
(* updatelink can be killed anywhere, and other processes remove and make  *)
(* links at any time.  jbroot moves while no run is under way.             *)
(***************************************************************************)
EXTENDS Views, Integers, FiniteSets

CONSTANTS
    Link,        \* places of links in jbroot
    Rootfs,      \* one of them: jbroot:/rootfs
    Volumes,     \* the volumes are 1 .. Volumes
    VolumeOf,    \* VolumeOf[l]: the volume find sees l on
    MaxRuns, MaxMoves, MaxKills, MaxOthers    \* bounds

ASSUME LinkAssumption == Rootfs \in Link /\ VolumeOf \in [Link -> 1 .. Volumes]
ASSUME BoundsAssumption == {Volumes, MaxRuns, MaxMoves, MaxKills, MaxOthers} \subseteq Nat

VARIABLES
    content,     \* content[l]: what the link l has in it
    gen,         \* which of its names jbroot has
    volume,      \* the volume of the run; 0: no run
    todo,        \* the links find will still see
    pipe,        \* the links it has seen
    pc, cur,     \* updatelink, and the link it has read last
    newpath,     \* what the link becomes
    runs, kills, others,
    failed,      \* history: a volume of the run was not finished
    said,        \* history: what a link says in the jbroot view, as made
    raced        \* history: links others changed in the midst of an update

file == <<content, gen>>
run == <<volume, todo, pipe, pc, cur, newpath>>
history == <<runs, kills, others, failed, said, raced>>
vars == <<file, run, history>>

(***************************************************************************)
(* The content of a link.  An absolute path into jbroot names a generation *)
(* of it and can be written in more than one way; the others are "root",   *)
(* an absolute path elsewhere, ".jbroot", and a relative path.             *)
(***************************************************************************)
InJbroot(g, canonical) == [kind |-> "jbroot", gen |-> g, canonical |-> canonical]
Elsewhere(kind) == [kind |-> kind, gen |-> 0, canonical |-> TRUE]

NoLink == Elsewhere("none")

Content == {InJbroot(g, c) : g \in 0 .. MaxMoves, c \in BOOLEAN}
           \cup {Elsewhere(kind) : kind \in {"root", "absolute", ".jbroot", "relative"}}

(* rootfs(slink): the name of any generation is taken away.                *)
View(c) == c.kind

(* A link into jbroot leads there while it has its present name.           *)
ObjectOf(l) ==
    [type |-> "lnk", name |-> IF l = Rootfs THEN "rootfs" ELSE "other",
     parent |-> IF l = Rootfs THEN "jbroot" ELSE "other",
     leads |-> CASE content[l].kind = "root" -> "root"
                 [] content[l].kind = "jbroot" -> IF content[l].gen = gen THEN "jbroot" ELSE "none"
                 [] OTHER -> "dir"]

Init ==
    /\ content \in [Link -> {InJbroot(0, TRUE), InJbroot(0, FALSE)}
                            \cup {Elsewhere(kind) : kind \in {"absolute", "relative"}}
                            \cup {Elsewhere("root")}]
    /\ \A l \in Link : content[l] = Elsewhere("root") <=> l = Rootfs
    /\ gen = 0
    /\ volume = 0
    /\ todo = {} /\ pipe = {}
    /\ pc = "read" /\ cur = Rootfs /\ newpath = NoLink
    /\ runs = 0 /\ kills = 0 /\ others = 0
    /\ failed = FALSE
    /\ said = [l \in Link |-> View(content[l])]
    /\ raced = {}

Exists(l) == content[l] # NoLink
On(v) == {l \in Link : VolumeOf[l] = v /\ Exists(l)}

Goto(label) == pc' = label

(* Seeded bug: updatelink is taken to be where it was.                     *)
PipelineContinues(v) ==
    /\ volume' = v
    /\ todo' = On(v)
    /\ pipe' = {}
    /\ UNCHANGED <<pc, cur, newpath>>

(* A pipeline of the script begins, or with 0 the script has ended.        *)
Pipeline(v) ==
    /\ volume' = v
    /\ todo' = On(v)
    /\ pipe' = {}
    /\ cur' = Rootfs /\ newpath' = NoLink
    /\ Goto("read")

(* Seeded bug: the script has one pipeline.                                 *)
OneVolume == 0

NextVolume == IF volume < Volumes THEN volume + 1 ELSE 0

-----------------------------------------------------------------------------
Start ==
    /\ volume = 0
    /\ runs < MaxRuns
    /\ Pipeline(1)
    /\ runs' = runs + 1
    /\ failed' = FALSE
    /\ UNCHANGED <<file, kills, others, said, raced>>

(* jbroot gets a new name.                                                 *)
Move ==
    /\ volume = 0
    /\ gen < MaxMoves
    /\ gen' = gen + 1
    /\ UNCHANGED <<content, run, history>>

(* find -type l reads a directory through vroot.                           *)
Find(l) ==
    /\ volume # 0
    /\ l \in todo
    /\ todo' = todo \ {l}
    /\ pipe' = IF Exists(l) /\ ReaddirKind(ObjectOf(l)) = "lnk" THEN pipe \cup {l} ELSE pipe
    /\ UNCHANGED <<file, volume, pc, cur, newpath, history>>

(* An assertion fails, or a signal comes: find gets SIGPIPE, and the shell *)
(* goes on with the next volume.                                           *)
Fail ==
    /\ Pipeline(NextVolume)
    /\ failed' = TRUE
    /\ UNCHANGED <<file, runs, others, said, raced>>

Read(l) ==
    /\ volume # 0
    /\ pc = "read"
    /\ l \in pipe
    /\ pipe' = pipe \ {l}
    /\ cur' = l
    /\ Goto("lstat")
    /\ UNCHANGED <<file, volume, todo, newpath, history>>

Lstat ==
    /\ pc = "lstat"
    /\ IF Exists(cur)
       THEN Goto("readlink") /\ UNCHANGED <<file, volume, todo, pipe, cur, newpath, history>>
       ELSE Fail /\ UNCHANGED kills

(* Seeded bug: an updated link is updated again.                           *)
MustUpdateAlways(c) == c.kind = "jbroot"

(* Seeded bug: the paths below /rootfs/ are not skipped.                   *)
MustUpdateAll(c) == c # InJbroot(gen, TRUE) /\ c.kind \in {"jbroot", "absolute"}

(* Not /rootfs/..., and not what it will be.                               *)
MustUpdate(c) == c.kind = "jbroot" /\ c # InJbroot(gen, TRUE)

(* readlink() and what follows from the link.  That jbroot(rootfs(slink))  *)
(* is the same place under the present name of jbroot is taken as given    *)
(* here: it is what PathConv is about.                                     *)
ReadLink ==
    /\ pc = "readlink"
    /\ IF ~Exists(cur)
       THEN Fail /\ UNCHANGED kills
       ELSE /\ IF MustUpdate(content[cur])
               THEN Goto("unlink") /\ newpath' = InJbroot(gen, TRUE)
               ELSE Goto("read") /\ UNCHANGED newpath
            /\ UNCHANGED <<file, volume, todo, pipe, cur, history>>

(* Seeded bug: the next link is read before the new one is made.           *)
UnlinkOnly ==
    /\ pc = "unlink"
    /\ Exists(cur)
    /\ content' = [content EXCEPT ![cur] = NoLink]
    /\ Goto("read")
    /\ UNCHANGED <<gen, volume, todo, pipe, cur, newpath, history>>

UnlinkOld ==
    /\ pc = "unlink"
    /\ IF Exists(cur)
       THEN /\ content' = [content EXCEPT ![cur] = NoLink]
            /\ Goto("symlink")
            /\ UNCHANGED <<gen, volume, todo, pipe, cur, newpath, history>>
       ELSE Fail /\ UNCHANGED kills

(* The new link is where find may come by again.  The call can fail.       *)
SymlinkNew ==
    /\ pc = "symlink"
    /\ ~Exists(cur)
    /\ content' = [content EXCEPT ![cur] = newpath]
    /\ todo' \in {todo, todo \cup {cur}}
    /\ Goto("read")
    /\ UNCHANGED <<gen, volume, pipe, cur, newpath, history>>

SymlinkFails ==
    /\ pc = "symlink"
    /\ \/ Exists(cur) /\ UNCHANGED kills
       \/ kills < MaxKills /\ kills' = kills + 1
    /\ Fail

(* updatelink ends when find has, and with it the pipeline.                *)
EndVolume ==
    /\ volume # 0
    /\ pc = "read"
    /\ todo = {} /\ pipe = {}
    /\ Pipeline(NextVolume)
    /\ UNCHANGED <<file, history>>

Kill ==
    /\ volume # 0
    /\ kills < MaxKills
    /\ kills' = kills + 1
    /\ Fail

InUpdate(l) == volume # 0 /\ cur = l /\ pc \in {"unlink", "symlink"}

(* Another process removes the link l, or makes one with vroot_symlink(),  *)
(* which find may see.                                                     *)
Other(l, c) ==
    /\ l # Rootfs
    /\ others < MaxOthers
    /\ IF c = NoLink THEN Exists(l) \/ InUpdate(l) ELSE ~Exists(l)
    /\ content' = [content EXCEPT ![l] = c]
    /\ said' = [said EXCEPT ![l] = View(c)]
    /\ raced' = IF InUpdate(l) THEN raced \cup {l} ELSE raced
    /\ others' = others + 1
    /\ todo' \in {todo} \cup (IF c # NoLink /\ volume = VolumeOf[l] THEN {todo \cup {l}} ELSE {})
    /\ UNCHANGED <<gen, volume, pipe, pc, cur, newpath, runs, kills, failed>>

Updater ==
    \/ \E l \in Link : Find(l)
    \/ \E l \in Link : Read(l)
    \/ Lstat
    \/ ReadLink
    \/ UnlinkOld
    \/ SymlinkNew
    \/ SymlinkFails
    \/ EndVolume

Next ==
    \/ Start
    \/ Move
    \/ Updater
    \/ Kill
    \/ \E l \in Link, c \in {NoLink, InJbroot(gen, TRUE), Elsewhere("relative")} : Other(l, c)

(* The processes of a run are scheduled.                                   *)
Spec == Init /\ [][Next]_vars /\ WF_vars(Updater)

-----------------------------------------------------------------------------
(***************************************************************************)
(* Properties                                                              *)
(***************************************************************************)
(* The types; and a run begins and ends between two links.                 *)
TypeOK ==
    /\ content \in [Link -> Content \cup {NoLink}]
    /\ gen \in 0 .. MaxMoves
    /\ volume \in 0 .. Volumes
    /\ todo \subseteq Link /\ pipe \subseteq Link /\ cur \in Link
    /\ pc \in {"read", "lstat", "readlink", "unlink", "symlink"}
    /\ volume = 0 => todo = {} /\ pipe = {} /\ pc = "read"
    /\ pc \in {"unlink", "symlink"} => newpath = InJbroot(gen, TRUE)
    /\ runs \in 0 .. MaxRuns /\ kills \in 0 .. MaxKills /\ others \in 0 .. MaxOthers
    /\ said \in [Link -> {View(c) : c \in Content \cup {NoLink}}]
    /\ raced \subseteq Link /\ failed \in BOOLEAN

(***************************************************************************)
(* What a link says in the jbroot view is what it said when it was made,   *)
(* however often jbroot moves and the links are updated, and whoever is    *)
(* killed.  (But a link that another process changes between readlink and  *)
(* symlink may be given the content it had before.)                        *)
(***************************************************************************)
ViewKept == \A l \in Link \ raced : Exists(l) => View(content[l]) = said[l]

Lost == {l \in Link \ raced : said[l] # "none" /\ ~Exists(l)}

(* Only the link that is being updated can be lost, one for each process   *)
(* that is killed there and each call that fails.                          *)
LostOnlyInFlight == Cardinality(Lost) <= kills + IF pc = "symlink" THEN 1 ELSE 0

(***************************************************************************)
(* A run whose volumes are all finished has updated every link into        *)
(* jbroot, those that other processes have changed during it included.     *)
(***************************************************************************)
UpdatedWhenDone ==
    [][volume # 0 /\ volume' = 0 /\ ~failed' =>
        \A l \in Link : Exists(l) /\ content[l].kind = "jbroot" =>
            content[l] = InJbroot(gen, TRUE)]_vars

(* Every run ends, although an updated link is listed again: it is not     *)
(* updated a second time.                                                  *)
RunEnds == volume # 0 ~> volume = 0

Others == {[type |-> "dir", name |-> ".jbroot-", parent |-> "other", leads |-> "jbroot"],
           [type |-> "dir", name |-> ".jbroot-", parent |-> "other", leads |-> "dir"],
           [type |-> "dir", name |-> "dot", parent |-> "jbroot", leads |-> "jbroot"],
           [type |-> "dir", name |-> "rootfs", parent |-> "jbroot", leads |-> "dir"],
           [type |-> "lnk", name |-> "rootfs", parent |-> "other", leads |-> "root"],
           [type |-> "reg", name |-> "other", parent |-> "jbroot", leads |-> "reg"]}

(***************************************************************************)
(* The wrappers agree about every link, before, during and after a move,   *)
(* and about the objects that look like jbroot or rootfs and may not be.   *)
(***************************************************************************)
ViewsAgree ==
    /\ \A l \in Link : Exists(l) => Agrees(ObjectOf(l))
    /\ \A o \in Others : Agrees(o)
=============================================================================
