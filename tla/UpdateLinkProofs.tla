-------------------------- MODULE UpdateLinkProofs --------------------------
(***************************************************************************)
(* However many links, volumes, runs, moves of jbroot, kills and changes   *)
(* by other processes there are: links keep what they say, only links in   *)
(* flight are lost, a run that finishes its volumes has updated all, and   *)
(* the wrappers agree about every link on the way.                         *)
(***************************************************************************)
EXTENDS UpdateLink, FiniteSetTheorems, TLAPS

Pcs == {"read", "lstat", "readlink", "unlink", "symlink"}

(* jbroot:/rootfs is never updated.                                        *)
RootfsKept ==
    /\ content[Rootfs] = Elsewhere("root")
    /\ pc \in {"unlink", "symlink"} => cur # Rootfs

(* A link that is being updated was one into jbroot.                       *)
UpdatesJbroot == pc \in {"unlink", "symlink"} /\ cur \notin raced => said[cur] = "jbroot"

(* The links that are lost for good.                                       *)
Gone == IF pc = "symlink" THEN Lost \ {cur} ELSE Lost

GoneBounded == IsFiniteSet(Lost) /\ kills \in Nat /\ Cardinality(Gone) <= kills

(* A link that is still to be updated will be come by, or the run fails.   *)
Pending(l) ==
    \/ VolumeOf[l] > volume
    \/ VolumeOf[l] = volume /\ l \in todo \cup pipe
    \/ VolumeOf[l] = volume /\ cur = l /\ pc \in {"lstat", "readlink", "unlink"}

Covered ==
    volume # 0 /\ ~failed =>
        \A l \in Link :
            content[l].kind = "jbroot" /\ content[l] # InJbroot(gen, TRUE) => Pending(l)

IInv == TypeOK /\ RootfsKept /\ ViewKept /\ UpdatesJbroot /\ GoneBounded /\ Covered

-----------------------------------------------------------------------------
LEMMA ContentKinds ==
    /\ \A g, c : InJbroot(g, c).kind = "jbroot"
    /\ \A k : Elsewhere(k).kind = k
    /\ NoLink.kind = "none"
    /\ \A g \in 0 .. MaxMoves, c \in BOOLEAN : InJbroot(g, c) \in Content /\ InJbroot(g, c) # NoLink
    /\ \A k \in {"root", "absolute", ".jbroot", "relative"} :
           Elsewhere(k) \in Content /\ Elsewhere(k) # NoLink
  BY DEF InJbroot, Elsewhere, NoLink, Content

LEMMA Constants ==
    /\ Rootfs \in Link /\ Volumes \in Nat /\ Volumes >= 1
    /\ \A l \in Link : VolumeOf[l] \in 1 .. Volumes
    /\ {MaxMoves, MaxKills, MaxRuns, MaxOthers} \subseteq Nat
  BY LinkAssumption, BoundsAssumption

LEMMA InitInv == Init => IInv
<1> SUFFICES ASSUME Init PROVE IInv
  OBVIOUS
<1>0. \A l \in Link : content[l] \in Content /\ content[l] # NoLink
  <2> SUFFICES ASSUME NEW l \in Link
               PROVE  content[l] \in Content /\ content[l] # NoLink
    OBVIOUS
  <2>1. \/ content[l] = InJbroot(0, TRUE) \/ content[l] = InJbroot(0, FALSE)
        \/ content[l] = Elsewhere("absolute") \/ content[l] = Elsewhere("relative")
        \/ content[l] = Elsewhere("root")
    BY DEF Init
  <2>2. 0 \in 0 .. MaxMoves
    BY Constants
  <2> QED
    BY <2>1, <2>2, ContentKinds
<1>1. TypeOK
  <2>2. content \in [Link -> Content \cup {NoLink}]
    BY <1>0 DEF Init
  <2>3. said \in [Link -> {View(c) : c \in Content \cup {NoLink}}]
    BY <1>0 DEF Init
  <2>4. 0 \in 0 .. MaxRuns /\ 0 \in 0 .. MaxKills /\ 0 \in 0 .. MaxOthers
        /\ 0 \in 0 .. MaxMoves /\ 0 \in 0 .. Volumes
    BY Constants
  <2> QED
    BY <2>2, <2>3, <2>4, Constants DEF Init, TypeOK
<1>2. RootfsKept /\ UpdatesJbroot /\ Covered
  BY Constants DEF Init, RootfsKept, UpdatesJbroot, Covered
<1>3. ViewKept
  BY DEF Init, ViewKept
<1>4. GoneBounded
  <2>1. \A l \in Link : Exists(l)
    BY <1>0 DEF Exists
  <2>2. Lost = {} /\ Gone = {}
    BY <2>1 DEF Lost, Gone
  <2> QED
    BY <2>2, FS_EmptySet DEF Init, GoneBounded
<1> QED
  BY <1>1, <1>2, <1>3, <1>4 DEF IInv

-----------------------------------------------------------------------------
(* Each call that fails is one of these: what it leaves alone.             *)
LEMMA PipelineTypes ==
    ASSUME TypeOK, NEW v \in 0 .. Volumes, Pipeline(v)
    PROVE  /\ volume' \in 0 .. Volumes
           /\ todo' \subseteq Link /\ pipe' \subseteq Link /\ cur' \in Link
           /\ pc' = "read"
           /\ volume' = 0 => todo' = {} /\ pipe' = {}
  BY Constants DEF Pipeline, On, Goto

LEMMA NextVolumeType == TypeOK => NextVolume \in 0 .. Volumes
  BY Constants DEF TypeOK, NextVolume

LEMMA StepTypes ==
    ASSUME TypeOK, [Next]_vars
    PROVE  TypeOK'
<1>1. CASE Start
  <2>1. Pipeline(1) /\ 1 \in 0 .. Volumes /\ UNCHANGED file
    BY <1>1, Constants DEF Start
  <2>2. runs' \in 0 .. MaxRuns /\ UNCHANGED <<kills, others, said, raced>> /\ failed' = FALSE
    BY <1>1, Constants DEF Start, TypeOK
  <2> QED
    BY <2>1, <2>2, PipelineTypes DEF TypeOK, file
<1>2. ASSUME (Fail /\ kills' \in 0 .. MaxKills) \/ EndVolume
      PROVE  TypeOK'
  <2>1. Pipeline(NextVolume) /\ UNCHANGED file
    BY <1>2 DEF Fail, EndVolume
  <2>2. /\ UNCHANGED <<runs, others, said, raced>> /\ failed' \in BOOLEAN
        /\ kills' \in 0 .. MaxKills
    BY <1>2 DEF Fail, EndVolume, history, TypeOK
  <2> QED
    BY <2>1, <2>2, PipelineTypes, NextVolumeType DEF TypeOK, file
<1>3. CASE Move
  BY <1>3, Constants DEF Move, TypeOK, run, history
<1>4. ASSUME NEW l \in Link, Find(l) \/ Read(l)
      PROVE  TypeOK'
  BY <1>4 DEF Find, Read, TypeOK, file, history, Goto
<1>5. CASE Lstat /\ ~Fail
  BY <1>5 DEF Lstat, TypeOK, file, history, Goto
<1>6. CASE ReadLink /\ ~Fail
  <2>1. /\ UNCHANGED <<file, volume, todo, pipe, cur, history>>
        /\ pc = "readlink"
        /\ \/ pc' = "unlink" /\ newpath' = InJbroot(gen, TRUE)
           \/ pc' = "read"
    BY <1>6 DEF ReadLink, Goto
  <2> QED
    BY <2>1 DEF TypeOK, file, history
<1>7. CASE UnlinkOld /\ ~Fail
  BY <1>7 DEF UnlinkOld, TypeOK, history, Goto
<1>8. CASE SymlinkNew
  <2>1. newpath \in Content
    BY <1>8, Constants, ContentKinds DEF SymlinkNew, TypeOK
  <2> QED
    BY <1>8, <2>1 DEF SymlinkNew, TypeOK, history, Goto
<1>9. ASSUME NEW l \in Link, NEW c \in {NoLink, InJbroot(gen, TRUE), Elsewhere("relative")},
             Other(l, c)
      PROVE  TypeOK'
  <2>1. c \in Content \cup {NoLink}
    BY Constants, ContentKinds DEF TypeOK
  <2>2. todo' \subseteq Link /\ (volume = 0 => todo' = todo)
    BY <1>9, Constants DEF Other, TypeOK
  <2>3. others' \in 0 .. MaxOthers /\ said' \in [Link -> {View(d) : d \in Content \cup {NoLink}}]
        /\ raced' \subseteq Link
    BY <1>9, <2>1, Constants DEF Other, TypeOK
  <2>4. content' \in [Link -> Content \cup {NoLink}]
    BY <1>9, <2>1 DEF Other, TypeOK
  <2>5. UNCHANGED <<gen, volume, pipe, pc, cur, newpath, runs, kills, failed>>
    BY <1>9 DEF Other
  <2> QED
    BY <2>2, <2>3, <2>4, <2>5 DEF TypeOK
<1>10. CASE UNCHANGED vars
  BY <1>10 DEF vars, file, run, history, TypeOK
<1>11. kills + 1 \in 0 .. MaxKills \/ kills >= MaxKills
  BY Constants DEF TypeOK
<1>12. CASE Kill \/ SymlinkFails
  <2>1. Fail /\ kills' \in 0 .. MaxKills
    BY <1>11, <1>12, Constants DEF Kill, SymlinkFails, TypeOK
  <2> QED
    BY <1>2, <2>1
<1>13. CASE (Lstat /\ Fail) \/ (ReadLink /\ Fail) \/ (UnlinkOld /\ Fail)
  <2>1. Fail /\ kills' \in 0 .. MaxKills
    BY <1>13 DEF Lstat, ReadLink, UnlinkOld, TypeOK, history
  <2> QED
    BY <1>2, <2>1
<1> QED
  BY <1>1, <1>2, <1>3, <1>4, <1>5, <1>6, <1>7, <1>8, <1>9, <1>10, <1>12, <1>13
     DEF Next, Updater

-----------------------------------------------------------------------------
(* What goes before every step below.                                      *)
LEMMA StepRootfs ==
    ASSUME IInv, [Next]_vars
    PROVE  RootfsKept'
<1>1. TypeOK /\ RootfsKept /\ Rootfs \in Link
  BY Constants DEF IInv
<1>2. ASSUME UNCHANGED content, pc' \in {"unlink", "symlink"} => cur' # Rootfs
      PROVE  RootfsKept'
  BY <1>1, <1>2 DEF RootfsKept
<1>3. ASSUME Fail \/ Start \/ EndVolume
      PROVE  RootfsKept'
  BY <1>2, <1>3 DEF Fail, Start, EndVolume, Pipeline, Goto, file
<1>4. ASSUME NEW l \in Link, Find(l) \/ Read(l)
      PROVE  RootfsKept'
  BY <1>1, <1>2, <1>4 DEF Find, Read, Goto, file, RootfsKept
<1>5. CASE Lstat /\ ~Fail
  BY <1>2, <1>5 DEF Lstat, Goto, file
<1>6. CASE ReadLink /\ ~Fail
  <2>1. MustUpdate(content[cur]) => cur # Rootfs
    BY <1>1, ContentKinds DEF RootfsKept, MustUpdate
  <2> QED
    BY <1>2, <1>6, <2>1 DEF ReadLink, Goto, file
<1>7. CASE (UnlinkOld /\ ~Fail) \/ SymlinkNew
  BY <1>1, <1>7 DEF UnlinkOld, SymlinkNew, Goto, RootfsKept, TypeOK
<1>8. ASSUME NEW l \in Link, NEW c, Other(l, c)
      PROVE  RootfsKept'
  BY <1>1, <1>8 DEF Other, RootfsKept, TypeOK
<1>9. CASE Move \/ UNCHANGED vars
  BY <1>1, <1>9 DEF Move, vars, file, run, RootfsKept
<1> QED
  BY <1>3, <1>4, <1>5, <1>6, <1>7, <1>8, <1>9 DEF Next, Updater, Kill, SymlinkFails

LEMMA StepView ==
    ASSUME IInv, [Next]_vars
    PROVE  ViewKept' /\ UpdatesJbroot'
<1>1. TypeOK /\ ViewKept /\ UpdatesJbroot
  BY DEF IInv
<1>2. ASSUME UNCHANGED <<content, said, raced>>,
             pc' \in {"unlink", "symlink"} =>
                pc \in {"unlink", "symlink"} /\ cur' = cur
      PROVE  ViewKept' /\ UpdatesJbroot'
  BY <1>1, <1>2 DEF ViewKept, UpdatesJbroot, Exists, View
<1>3. ASSUME Fail \/ Start \/ EndVolume
      PROVE  ViewKept' /\ UpdatesJbroot'
  BY <1>2, <1>3 DEF Fail, Start, EndVolume, Pipeline, Goto, file, history
<1>4. ASSUME NEW l \in Link, Find(l) \/ Read(l)
      PROVE  ViewKept' /\ UpdatesJbroot'
  BY <1>2, <1>4 DEF Find, Read, Goto, file, history
<1>5. CASE Lstat /\ ~Fail
  BY <1>2, <1>5 DEF Lstat, Goto, file, history
<1>6. CASE ReadLink /\ ~Fail
  <2>1. UNCHANGED <<content, said, raced, cur>> /\ Exists(cur)
        /\ (pc' = "unlink" => MustUpdate(content[cur]))
        /\ pc' \in {"read", "unlink"}
    BY <1>6 DEF ReadLink, Goto, file, history
  <2>2. cur \in Link
    BY <1>1 DEF TypeOK
  <2>3. pc' = "unlink" /\ cur \notin raced => said[cur] = "jbroot"
    BY <1>1, <2>1, <2>2 DEF ViewKept, MustUpdate, View
  <2> QED
    BY <1>1, <2>1, <2>3 DEF ViewKept, UpdatesJbroot, Exists, View
<1>7. CASE UnlinkOld /\ ~Fail
  <2>1. content' = [content EXCEPT ![cur] = NoLink] /\ pc = "unlink" /\ pc' = "symlink"
        /\ UNCHANGED <<said, raced, cur>>
    BY <1>7 DEF UnlinkOld, Goto, history
  <2> QED
    BY <1>1, <2>1 DEF ViewKept, UpdatesJbroot, Exists, View, TypeOK
<1>8. CASE SymlinkNew
  <2>1. content' = [content EXCEPT ![cur] = newpath] /\ pc = "symlink" /\ pc' = "read"
        /\ UNCHANGED <<said, raced, cur>>
    BY <1>8 DEF SymlinkNew, Goto, history
  <2>2. newpath = InJbroot(gen, TRUE)
    BY <1>1, <2>1 DEF TypeOK
  <2>3. InJbroot(gen, TRUE).kind = "jbroot"
    BY DEF InJbroot
  <2>4. View(newpath) = "jbroot"
    BY <2>2, <2>3 DEF View
  <2> QED
    BY <1>1, <2>1, <2>4 DEF ViewKept, UpdatesJbroot, Exists, View, TypeOK
<1>9. ASSUME NEW l \in Link, NEW c, Other(l, c)
      PROVE  ViewKept' /\ UpdatesJbroot'
  <2>1. /\ content' = [content EXCEPT ![l] = c] /\ said' = [said EXCEPT ![l] = View(c)]
        /\ raced' = IF InUpdate(l) THEN raced \cup {l} ELSE raced
        /\ pc' = pc /\ cur' = cur /\ volume' = volume
    BY <1>9 DEF Other
  <2>2. pc \in {"unlink", "symlink"} => volume # 0
    BY <1>1 DEF TypeOK
  <2>3. pc' \in {"unlink", "symlink"} /\ cur' \notin raced' => cur # l
    BY <2>1, <2>2 DEF InUpdate
  <2>4. UpdatesJbroot'
    BY <1>1, <2>1, <2>3 DEF UpdatesJbroot
  <2>5. ASSUME NEW m \in Link \ raced', Exists(m)'
        PROVE  View(content'[m]) = said'[m]
    <3>1. m \notin raced
      BY <2>1, <2>5
    <3>2. CASE m = l
      BY <1>1, <2>1, <3>2 DEF TypeOK
    <3>3. CASE m # l
      BY <1>1, <2>1, <2>5, <3>1, <3>3 DEF TypeOK, ViewKept, Exists
    <3> QED
      BY <3>2, <3>3
  <2> QED
    BY <2>4, <2>5 DEF ViewKept
<1>10. CASE Move \/ UNCHANGED vars
  BY <1>2, <1>10 DEF Move, vars, file, run, history
<1> QED
  BY <1>3, <1>4, <1>5, <1>6, <1>7, <1>8, <1>9, <1>10 DEF Next, Updater, Kill, SymlinkFails

-----------------------------------------------------------------------------
(* No more links are gone, or one more and one more call has failed.       *)
LEMMA BoundKept ==
    ASSUME GoneBounded, NEW x, Lost' \subseteq Lost \cup {x},
           \/ Gone' \subseteq Gone /\ kills' = kills
           \/ Gone' \subseteq Gone \cup {x} /\ kills' = kills + 1
    PROVE  GoneBounded'
<1>1. IsFiniteSet(Lost) /\ Gone \subseteq Lost /\ kills \in Nat
      /\ Cardinality(Gone) <= kills
  BY DEF GoneBounded, Gone
<1>2. IsFiniteSet(Gone)
  BY <1>1, FS_Subset
<1>3. IsFiniteSet(Lost \cup {x}) /\ IsFiniteSet(Gone \cup {x})
      /\ Cardinality(Gone \cup {x}) <= Cardinality(Gone) + 1
  <2>1. Cardinality(Gone) \in Nat
    BY <1>2, FS_CardinalityType
  <2>2. IsFiniteSet(Lost \cup {x})
    BY <1>1, FS_AddElement
  <2>3. IsFiniteSet(Gone \cup {x})
        /\ (Cardinality(Gone \cup {x}) = Cardinality(Gone)
            \/ Cardinality(Gone \cup {x}) = Cardinality(Gone) + 1)
    BY <1>2, FS_AddElement
  <2> QED
    BY <2>1, <2>2, <2>3
<1>4. IsFiniteSet(Lost')
  BY <1>3, FS_Subset
<1>5. CASE Gone' \subseteq Gone /\ kills' = kills
  <2>1. Cardinality(Gone') <= Cardinality(Gone) /\ IsFiniteSet(Gone')
    BY <1>2, <1>5, FS_Subset
  <2>2. Cardinality(Gone') \in Nat /\ Cardinality(Gone) \in Nat
    BY <1>2, <2>1, FS_CardinalityType
  <2> QED
    BY <1>1, <1>4, <1>5, <2>1, <2>2 DEF GoneBounded
<1>6. CASE Gone' \subseteq Gone \cup {x} /\ kills' = kills + 1
  <2>1. Cardinality(Gone') <= Cardinality(Gone \cup {x}) /\ IsFiniteSet(Gone')
    BY <1>3, <1>6, FS_Subset
  <2>2. Cardinality(Gone') \in Nat /\ Cardinality(Gone) \in Nat
        /\ Cardinality(Gone \cup {x}) \in Nat
    BY <1>2, <1>3, <2>1, FS_CardinalityType
  <2> QED
    BY <1>1, <1>3, <1>4, <1>6, <2>1, <2>2 DEF GoneBounded
<1> QED
  BY <1>5, <1>6

LEMMA StepGone ==
    ASSUME IInv, [Next]_vars
    PROVE  GoneBounded'
<1>1. TypeOK /\ UpdatesJbroot /\ GoneBounded
  BY DEF IInv
<1>2. ASSUME UNCHANGED <<content, said, raced, kills>>,
             pc = "symlink" => Exists(cur) \/ (pc' = "symlink" /\ cur' = cur),
             pc' = "symlink" => pc = "symlink" /\ cur' = cur
      PROVE  GoneBounded'
  <2>1. Lost' = Lost
    BY <1>2 DEF Lost, Exists
  <2>2. Gone' \subseteq Gone
    BY <1>2, <2>1 DEF Gone, Lost
  <2> QED
    BY <1>1, <1>2, <2>1, <2>2, BoundKept
<1>3. CASE Start \/ EndVolume
  <2>1. pc = "read"
    BY <1>1, <1>3 DEF Start, EndVolume, TypeOK
  <2> QED
    BY <1>2, <1>3, <2>1 DEF Start, EndVolume, Pipeline, Goto, file, history
<1>4. CASE (Lstat \/ ReadLink \/ UnlinkOld) /\ Fail
  <2>1. pc # "symlink" /\ kills' = kills
    BY <1>4 DEF Lstat, ReadLink, UnlinkOld, history
  <2> QED
    BY <1>2, <1>4, <2>1 DEF Fail, Pipeline, Goto, file
<1>5. CASE Kill \/ SymlinkFails
  <2>1. Fail /\ (Kill \/ (pc = "symlink" /\ (kills' = kills => Exists(cur))))
        /\ kills' \in {kills, kills + 1} /\ (Kill => kills' = kills + 1)
    BY <1>1, <1>5 DEF Kill, SymlinkFails, TypeOK
  <2>2. UNCHANGED <<content, said, raced>> /\ pc' = "read"
    BY <2>1 DEF Fail, Pipeline, Goto, file
  <2>3. CASE kills' = kills
    BY <1>1, <1>2, <2>1, <2>2, <2>3 DEF TypeOK
  <2>4. CASE kills' = kills + 1
    <3>1. Lost' = Lost
      BY <2>2 DEF Lost, Exists
    <3>2. Gone' \subseteq Gone \cup {cur}
      BY <2>2, <3>1 DEF Gone
    <3> QED
      BY <1>1, <2>4, <3>1, <3>2, BoundKept
  <2> QED
    BY <2>1, <2>3, <2>4
<1>6. ASSUME NEW l \in Link, Find(l)
      PROVE  GoneBounded'
  BY <1>2, <1>6 DEF Find, file, history
<1>7. ASSUME NEW l \in Link, Read(l)
      PROVE  GoneBounded'
  BY <1>2, <1>7 DEF Read, Goto, file, history
<1>8. CASE (Lstat \/ ReadLink) /\ ~Fail
  <2>1. pc # "symlink" /\ pc' # "symlink" /\ UNCHANGED <<file, history>>
    BY <1>8 DEF Lstat, ReadLink, Goto
  <2> QED
    BY <1>2, <2>1 DEF file, history
<1>9. CASE UnlinkOld /\ ~Fail
  <2>1. content' = [content EXCEPT ![cur] = NoLink] /\ pc = "unlink" /\ pc' = "symlink"
        /\ UNCHANGED <<said, raced, cur, kills>>
    BY <1>9 DEF UnlinkOld, Goto, history
  <2>2. Lost' \subseteq Lost \cup {cur}
    BY <1>1, <2>1 DEF Lost, Exists, TypeOK
  <2>3. Gone' \subseteq Gone
    BY <2>1, <2>2 DEF Gone
  <2> QED
    BY <1>1, <2>1, <2>2, <2>3, BoundKept
<1>10. CASE SymlinkNew
  <2>1. content' = [content EXCEPT ![cur] = newpath] /\ pc = "symlink" /\ pc' = "read"
        /\ UNCHANGED <<said, raced, cur, kills>>
    BY <1>10 DEF SymlinkNew, Goto, history
  <2>2. newpath # NoLink
    BY <1>1, <2>1, ContentKinds DEF TypeOK
  <2>3. Lost' \subseteq Lost \ {cur}
    BY <1>1, <2>1, <2>2 DEF Lost, Exists, TypeOK
  <2>4. Gone' \subseteq Gone
    BY <2>1, <2>3 DEF Gone
  <2> QED
    BY <1>1, <2>1, <2>3, <2>4, BoundKept
<1>11. ASSUME NEW l \in Link, NEW c, Other(l, c)
       PROVE  GoneBounded'
  <2>1. /\ content' = [content EXCEPT ![l] = c] /\ said' = [said EXCEPT ![l] = View(c)]
        /\ raced \subseteq raced' /\ UNCHANGED <<pc, cur, kills>>
    BY <1>11 DEF Other
  <2>2. ASSUME NEW m \in Lost'
        PROVE  m \in Lost
    <3>1. m \in Link \ raced' /\ said'[m] # "none" /\ content'[m] = NoLink
      BY <2>2 DEF Lost, Exists
    <3>2. m # l
      BY <1>1, <2>1, <3>1, ContentKinds DEF TypeOK, View
    <3> QED
      BY <1>1, <2>1, <3>1, <3>2 DEF Lost, Exists, TypeOK
  <2>3. Gone' \subseteq Gone
    BY <2>1, <2>2 DEF Gone
  <2> QED
    BY <1>1, <2>1, <2>2, <2>3, BoundKept
<1>12. CASE Move \/ UNCHANGED vars
  BY <1>2, <1>12 DEF Move, vars, file, run, history
<1> QED
  BY <1>3, <1>4, <1>5, <1>6, <1>7, <1>8, <1>9, <1>10, <1>11, <1>12 DEF Next, Updater

-----------------------------------------------------------------------------
(* A link that find sees goes into the pipe, unless it is jbroot:/rootfs.  *)
LEMMA FindLists ==
    ASSUME NEW l \in Link, l # Rootfs
    PROVE  ReaddirKind(ObjectOf(l)) = "lnk"
<1>1. ObjectOf(l).type = "lnk" /\ ObjectOf(l).name = "other"
  BY DEF ObjectOf
<1> QED
  BY <1>1 DEF ReaddirKind, IsRootfs

LEMMA StepCovered ==
    ASSUME IInv, [Next]_vars
    PROVE  Covered'
<1>1. TypeOK /\ RootfsKept /\ Covered
  BY DEF IInv
<1> DEFINE Old(l) == content[l].kind = "jbroot" /\ content[l] # InJbroot(gen, TRUE)
<1>2. ASSUME volume' # 0, ~failed', UNCHANGED <<volume, failed>>,
             \A l \in Link : Old(l)' => Old(l),
             \A l \in Link : Pending(l) /\ Old(l)' => Pending(l)'
      PROVE  Covered'
  BY <1>1, <1>2 DEF Covered
<1>3. CASE volume' = 0 \/ failed'
  BY <1>1, <1>3 DEF Covered
<1>4. CASE Start
  <2>1. Pipeline(1) /\ UNCHANGED file
    BY <1>4 DEF Start
  <2>2. ASSUME NEW l \in Link, content'[l].kind = "jbroot"
        PROVE  Pending(l)'
    <3>1. Exists(l) /\ VolumeOf[l] \in 1 .. Volumes
      BY <2>1, <2>2, Constants, ContentKinds DEF Exists, file
    <3> QED
      BY <2>1, <3>1, Constants DEF Pending, Pipeline, On
  <2> QED
    BY <2>2 DEF Covered
<1>5. CASE EndVolume /\ volume < Volumes
  <2>1. Pipeline(volume + 1) /\ UNCHANGED <<file, history>> /\ volume \in Nat
        /\ volume # 0 /\ pc = "read" /\ todo = {} /\ pipe = {}
    BY <1>1, <1>5 DEF EndVolume, NextVolume, TypeOK
  <2>2. ASSUME NEW l \in Link, Old(l), ~failed
        PROVE  Pending(l)'
    <3>1. VolumeOf[l] > volume
      BY <1>1, <2>1, <2>2 DEF Covered, Pending
    <3>2. Exists(l) /\ VolumeOf[l] \in 1 .. Volumes
      BY <2>2, Constants, ContentKinds DEF Exists
    <3> QED
      BY <2>1, <3>1, <3>2, Constants DEF Pending, Pipeline, On
  <2>3. UNCHANGED <<content, gen, failed>>
    BY <2>1 DEF file, history
  <2> QED
    BY <2>2, <2>3 DEF Covered
<1>6. ASSUME NEW l \in Link, Find(l), ~failed'
      PROVE  Covered'
  <2>1. volume # 0 /\ UNCHANGED <<content, gen, volume, pc, cur, failed>>
        /\ todo' = todo \ {l}
    BY <1>6 DEF Find, file, history
  <2>2. Old(l) => l # Rootfs /\ Exists(l)
    BY <1>1, ContentKinds DEF RootfsKept, Exists
  <2>3. Old(l) => pipe' = pipe \cup {l}
    BY <1>6, <2>2, FindLists DEF Find
  <2>4. pipe \subseteq pipe'
    BY <1>6 DEF Find
  <2>5. \A m \in Link : Pending(m) /\ Old(m) => Pending(m)'
    BY <2>1, <2>3, <2>4 DEF Pending
  <2> QED
    BY <1>2, <1>6, <2>1, <2>5
<1>7. ASSUME NEW l \in Link, Read(l), ~failed'
      PROVE  Covered'
  <2>1. volume # 0 /\ UNCHANGED <<content, gen, volume, todo, failed>>
        /\ pipe' = pipe \ {l} /\ pc = "read" /\ pc' = "lstat" /\ cur' = l
    BY <1>7 DEF Read, file, history, Goto
  <2>2. \A m \in Link : Pending(m) => Pending(m)'
    BY <2>1 DEF Pending
  <2> QED
    BY <1>2, <1>7, <2>1, <2>2
<1>8. CASE Lstat /\ ~Fail /\ ~failed' /\ volume' # 0
  <2>1. UNCHANGED <<file, volume, todo, pipe, cur, history>> /\ pc = "lstat" /\ pc' = "readlink"
    BY <1>8 DEF Lstat, Goto
  <2>2. \A m \in Link : Pending(m) => Pending(m)'
    BY <2>1 DEF Pending
  <2> QED
    BY <1>2, <1>8, <2>1, <2>2 DEF file, history
<1>9. CASE ReadLink /\ ~Fail /\ ~failed' /\ volume' # 0
  <2>1. UNCHANGED <<file, volume, todo, pipe, cur, history>> /\ pc = "readlink"
        /\ pc' = IF MustUpdate(content[cur]) THEN "unlink" ELSE "read"
    BY <1>9 DEF ReadLink, Goto
  <2>2. \A m \in Link : Pending(m) /\ Old(m) => Pending(m)'
    BY <2>1 DEF Pending, MustUpdate
  <2> QED
    BY <1>2, <1>9, <2>1, <2>2 DEF file, history
<1>10. CASE UnlinkOld /\ ~Fail /\ ~failed' /\ volume' # 0
  <2>1. content' = [content EXCEPT ![cur] = NoLink] /\ pc = "unlink" /\ pc' = "symlink"
        /\ UNCHANGED <<gen, volume, todo, pipe, cur, failed>>
    BY <1>10 DEF UnlinkOld, Goto, history
  <2>2. \A m \in Link : Old(m)' => Old(m) /\ m # cur
    BY <1>1, <2>1, ContentKinds DEF TypeOK
  <2>3. \A m \in Link : Pending(m) /\ Old(m)' => Pending(m)'
    BY <2>1, <2>2 DEF Pending
  <2> QED
    BY <1>2, <1>10, <2>1, <2>2, <2>3
<1>11. CASE SymlinkNew /\ ~failed' /\ volume' # 0
  <2>1. content' = [content EXCEPT ![cur] = newpath] /\ pc = "symlink" /\ pc' = "read"
        /\ UNCHANGED <<gen, volume, pipe, cur, failed>> /\ todo \subseteq todo'
        /\ newpath = InJbroot(gen, TRUE)
    BY <1>1, <1>11 DEF SymlinkNew, Goto, history, TypeOK
  <2>2. \A m \in Link : Old(m)' => Old(m)
    BY <1>1, <2>1 DEF TypeOK
  <2>3. \A m \in Link : Pending(m) => Pending(m)'
    BY <2>1 DEF Pending
  <2> QED
    BY <1>2, <1>11, <2>1, <2>2, <2>3
<1>12. ASSUME NEW l \in Link, NEW c \in {NoLink, InJbroot(gen, TRUE), Elsewhere("relative")},
              Other(l, c), ~failed', volume' # 0
       PROVE  Covered'
  <2>1. content' = [content EXCEPT ![l] = c]
        /\ UNCHANGED <<gen, volume, pipe, pc, cur, failed>> /\ todo \subseteq todo'
    BY <1>12 DEF Other
  <2>2. \A m \in Link : Old(m)' => Old(m)
    BY <1>1, <2>1, ContentKinds DEF TypeOK
  <2>3. \A m \in Link : Pending(m) => Pending(m)'
    BY <2>1 DEF Pending
  <2> QED
    BY <1>2, <1>12, <2>1, <2>2, <2>3
<1>13. CASE UNCHANGED vars
  BY <1>1, <1>13 DEF vars, file, run, history, Covered, Pending
<1>14. Move => volume' = 0
  BY DEF Move, run
<1>15. EndVolume => volume < Volumes \/ volume' = 0
  BY DEF EndVolume, Pipeline, NextVolume
<1>16. Fail => failed'
  BY DEF Fail
<1> QED
  BY <1>3, <1>4, <1>5, <1>6, <1>7, <1>8, <1>9, <1>10, <1>11, <1>12, <1>13, <1>14,
     <1>15, <1>16 DEF Next, Updater, Kill, SymlinkFails

-----------------------------------------------------------------------------
(* The inductive invariant.                                                *)
LEMMA Invariance == Spec => []IInv
<1>1. IInv /\ [Next]_vars => IInv'
  BY StepTypes, StepRootfs, StepView, StepGone, StepCovered DEF IInv
<1> QED
  BY InitInv, <1>1, PTL DEF Spec

(* Every variable keeps its type, and a run begins and ends between two    *)
(* links, whatever fails on the way.                                       *)
THEOREM TypeCorrect == Spec => []TypeOK
<1>1. IInv => TypeOK
  BY DEF IInv
<1> QED
  BY <1>1, Invariance, PTL

(* A link that no other process touches in the midst of its update says in *)
(* the jbroot view what it said when it was made.                          *)
THEOREM ViewsAreKept == Spec => []ViewKept
<1>1. IInv => ViewKept
  BY DEF IInv
<1> QED
  BY <1>1, Invariance, PTL

(* updatelink loses a link for each kill or failing call at most, and      *)
(* while it makes one anew, this one.                                      *)
THEOREM LossesAreBounded == Spec => []LostOnlyInFlight
<1>1. IInv => LostOnlyInFlight
  <2> SUFFICES ASSUME IInv
               PROVE  LostOnlyInFlight
    OBVIOUS
  <2>1. IsFiniteSet(Lost) /\ kills \in Nat /\ Cardinality(Gone) <= kills
    BY DEF IInv, GoneBounded
  <2>2. Cardinality(Lost) \in Nat
    BY <2>1, FS_CardinalityType
  <2>3. CASE pc # "symlink"
    BY <2>1, <2>2, <2>3 DEF Gone, LostOnlyInFlight
  <2>4. CASE pc = "symlink" /\ cur \in Lost
    <3>1. Cardinality(Lost \ {cur}) = Cardinality(Lost) - 1
      BY <2>1, <2>4, FS_RemoveElement
    <3> QED
      BY <2>1, <2>2, <2>4, <3>1 DEF Gone, LostOnlyInFlight
  <2>5. CASE pc = "symlink" /\ cur \notin Lost
    <3>1. Lost \ {cur} = Lost
      BY <2>5
    <3> QED
      BY <2>1, <2>2, <2>5, <3>1 DEF Gone, LostOnlyInFlight
  <2> QED
    BY <2>3, <2>4, <2>5
<1> QED
  BY <1>1, Invariance, PTL

(* The wrappers agree about jbroot:/rootfs, about every other link, before *)
(* and after a move, and about the objects that look like either.          *)
THEOREM WrappersAgree == Spec => []ViewsAgree
<1>1. IInv => ViewsAgree
  <2> SUFFICES ASSUME IInv
               PROVE  ViewsAgree
    OBVIOUS
  <2>1. Agrees(ObjectOf(Rootfs))
    <3>1. ObjectOf(Rootfs) = [type |-> "lnk", name |-> "rootfs", parent |-> "jbroot",
                              leads |-> "root"]
      BY ContentKinds DEF IInv, RootfsKept, ObjectOf
    <3> QED
      BY <3>1 DEF Agrees, ReaddirKind, LstatKind, FstatatKind, Readlink,
         OpensDirectory, IsRootfs, IsJbroot
  <2>2. ASSUME NEW l \in Link, l # Rootfs
        PROVE  Agrees(ObjectOf(l))
    <3>1. ObjectOf(l).type = "lnk" /\ ObjectOf(l).name = "other"
      BY <2>2 DEF ObjectOf
    <3> QED
      BY <3>1 DEF Agrees, ReaddirKind, LstatKind, FstatatKind, Readlink,
         OpensDirectory, IsRootfs, IsJbroot
  <2>3. \A o \in Others : Agrees(o)
    BY DEF Others, Agrees, ReaddirKind, LstatKind, FstatatKind, Readlink,
       OpensDirectory, IsRootfs, IsJbroot
  <2> QED
    BY <2>1, <2>2, <2>3 DEF ViewsAgree
<1> QED
  BY <1>1, Invariance, PTL

(* A run in which no volume has failed has updated every link into jbroot  *)
(* when it ends, whatever other processes do meanwhile.                    *)
THEOREM FinishedRunsAreComplete == Spec => UpdatedWhenDone
<1> DEFINE Complete ==
        volume # 0 /\ volume' = 0 /\ ~failed' =>
            \A l \in Link : Exists(l) /\ content[l].kind = "jbroot" =>
                content[l] = InJbroot(gen, TRUE)
<1>1. IInv /\ [Next]_vars => [Complete]_vars
  <2> SUFFICES ASSUME IInv, Next, volume # 0, volume' = 0, ~failed',
                      NEW l \in Link, content[l].kind = "jbroot",
                      content[l] # InJbroot(gen, TRUE)
               PROVE  FALSE
    OBVIOUS
  <2>1. EndVolume /\ ~failed
    <3>1. EndVolume
      BY DEF Next, Updater, Start, Move, Find, Read, Lstat, ReadLink, UnlinkOld,
         SymlinkNew, SymlinkFails, Kill, Fail, Other, run
    <3> QED
      BY <3>1 DEF EndVolume, history
  <2>2. volume \in 0 .. Volumes /\ volume + 1 # 0
    BY Constants DEF IInv, TypeOK
  <2>3. volume = Volumes /\ pc = "read" /\ todo = {} /\ pipe = {}
    BY <2>1, <2>2, Constants DEF EndVolume, Pipeline, NextVolume
  <2>4. Pending(l)
    BY <2>1 DEF IInv, Covered
  <2> QED
    BY <2>3, <2>4, Constants DEF Pending
<1>2. Spec => [][Complete]_vars
  BY <1>1, Invariance, PTL DEF Spec
<1> QED
  BY <1>2 DEF UpdatedWhenDone
=============================================================================
