--------------------------- MODULE PathConvProofs ---------------------------
(***************************************************************************)
(* What jbrootat_alloc and rootfs_alloc promise about the path they return *)
(* holds for every file tree, every path and any number of files that are  *)
(* removed meanwhile.                                                      *)
(***************************************************************************)
EXTENDS PathConv, FiniteSetTheorems, SequenceTheorems, WellFoundedInduction, TLAPS

(***************************************************************************)
(* Induction and recursion up to N, with a set and with a function for the *)
(* step.                                                                   *)
(***************************************************************************)
LEMMA Induction ==
    ASSUME NEW N \in Nat, NEW T, 0 \in T, \A i \in 0 .. N - 1 : i \in T => i + 1 \in T
    PROVE  \A i \in 0 .. N : i \in T
<1> DEFINE Below(x) == {z \in 0 .. N : z < x}
           Missing == {Below(x) : x \in {y \in 0 .. N : y \notin T}}
<1> SUFFICES ASSUME NEW m \in 0 .. N, m \notin T
             PROVE  FALSE
  OBVIOUS
<1>1. IsWellFoundedOn(StrictSubsetOrdering(0 .. N), SUBSET (0 .. N))
  <2>1. IsFiniteSet(0 .. N)
    BY FS_Interval
  <2>2. FiniteSubsetsOf(0 .. N) = SUBSET (0 .. N)
    BY <2>1, FS_FiniteSubsetsOfFinite
  <2> QED
    BY <2>2, FS_StrictSubsetOrderingWellFounded
<1>2. Missing \subseteq SUBSET (0 .. N) /\ Missing # {}
  OBVIOUS
<1>3. PICK b \in Missing : \A c \in Missing : <<c, b>> \notin StrictSubsetOrdering(0 .. N)
  <2> HIDE DEF Missing
  <2> QED
    BY <1>1, <1>2, WFMin
<1>4. PICK x \in 0 .. N : x \notin T /\ b = Below(x)
  OBVIOUS
<1>5. x # 0 /\ x - 1 \in 0 .. N - 1 /\ x - 1 \in 0 .. N /\ x - 1 + 1 = x
  BY <1>4
<1>6. x - 1 \notin T
  BY <1>4, <1>5
<1>7. Below(x - 1) \in Missing
  BY <1>5, <1>6
<1>8. Below(x - 1) \subseteq Below(x) /\ x - 1 \in Below(x) /\ x - 1 \notin Below(x - 1)
  BY <1>5
<1>9. <<Below(x - 1), Below(x)>> \in StrictSubsetOrdering(0 .. N)
  <2>1. Below(x - 1) \in SUBSET (0 .. N) /\ Below(x) \in SUBSET (0 .. N)
    OBVIOUS
  <2> HIDE DEF Below
  <2> QED
    BY <1>8, <2>1 DEF StrictSubsetOrdering
<1> QED
  BY <1>3, <1>4, <1>7, <1>9

(* g is what a recursion with the step f from a takes N steps to.          *)
Recurs(g, S, N, a, f) ==
    /\ g \in [0 .. N -> S]
    /\ g[0] = a
    /\ \A i \in 1 .. N : g[i] = f[<<g[i - 1], i>>]

LEMMA Recursion ==
    ASSUME NEW S, NEW N \in Nat, NEW a \in S, NEW f \in [S \X (1 .. N) -> S]
    PROVE  \E g : Recurs(g, S, N, a, f)
<1> DEFINE T == {n \in 0 .. N : \E g : Recurs(g, S, n, a, f)}
<1>1. 0 \in T
  <2>1. Recurs([i \in 0 .. 0 |-> a], S, 0, a, f)
    BY DEF Recurs
  <2> QED
    BY <2>1
<1>2. ASSUME NEW n \in 0 .. N - 1, n \in T
      PROVE  n + 1 \in T
  <2>1. PICK g : Recurs(g, S, n, a, f)
    BY <1>2
  <2> DEFINE next == f[<<g[n], n + 1>>]
             h == [i \in 0 .. n + 1 |-> IF i <= n THEN g[i] ELSE next]
  <2>2. next \in S
    <3>1. g[n] \in S /\ n + 1 \in 1 .. N
      BY <2>1 DEF Recurs
    <3> QED
      BY <3>1
  <2>3. h \in [0 .. n + 1 -> S] /\ h[0] = a
    BY <2>1, <2>2 DEF Recurs
  <2>4. ASSUME NEW i \in 1 .. n + 1
        PROVE  h[i] = f[<<h[i - 1], i>>]
    <3>1. CASE i <= n
      BY <2>1, <3>1 DEF Recurs
    <3>2. CASE i = n + 1
      BY <3>2
    <3> QED
      BY <3>1, <3>2
  <2>5. Recurs(h, S, n + 1, a, f)
    <3> HIDE DEF h
    <3> QED
      BY <2>3, <2>4 DEF Recurs
  <2> QED
    BY <2>5
<1> HIDE DEF T
<1>3. N \in T
  BY <1>1, <1>2, Induction
<1> QED
  BY <1>3 DEF T

(* What takes the same steps is the same.                                  *)
Follows(h, S, N, f) == \A i \in 1 .. N : h[i - 1] \in S => h[i] = f[<<h[i - 1], i>>]

LEMMA RecursionIsUnique ==
    ASSUME NEW S, NEW N \in Nat, NEW a, NEW f, NEW g, Recurs(g, S, N, a, f),
           NEW h, h[0] = a, Follows(h, S, N, f)
    PROVE  h[N] = g[N]
<1> DEFINE T == {i \in 0 .. N : h[i] = g[i]}
<1>1. 0 \in T
  BY DEF Recurs
<1>2. ASSUME NEW i \in 0 .. N - 1, i \in T
      PROVE  i + 1 \in T
  <2>1. i + 1 \in 1 .. N /\ i + 1 - 1 = i /\ g[i] \in S
    BY DEF Recurs
  <2>2. g[i + 1] = f[<<g[i], i + 1>>]
    BY <2>1 DEF Recurs
  <2>3. h[i + 1] = f[<<h[i], i + 1>>]
    BY <1>2, <2>1 DEF Follows
  <2> QED
    BY <1>2, <2>1, <2>2, <2>3
<1> HIDE DEF T
<1>3. \A i \in 0 .. N : i \in T
  BY <1>1, <1>2, Induction
<1> QED
  BY <1>3 DEF T

(* Induction over strings, with a set for what is shown of them.           *)
LEMMA StringInduction ==
    ASSUME NEW T, <<>> \in T, \A t \in Seq(Item), x \in Item : t \in T => Append(t, x) \in T
    PROVE  \A s \in Seq(Item) : s \in T
<1> SUFFICES ASSUME NEW s \in Seq(Item)
             PROVE  s \in T
  OBVIOUS
<1> DEFINE N == Len(s)
           I == {i \in 0 .. N : SubSeq(s, 1, i) \in T}
<1>1. N \in Nat /\ SubSeq(s, 1, 0) = <<>> /\ SubSeq(s, 1, N) = s
  OBVIOUS
<1>2. 0 \in I
  <2>1. SubSeq(s, 1, 0) \in T
    BY Zenon, <1>1
  <2>2. 0 \in 0 .. N
    BY <1>1
  <2> QED
    BY <2>1, <2>2
<1>3. ASSUME NEW i \in 0 .. N - 1, i \in I
      PROVE  i + 1 \in I
  <2>1. /\ s[i + 1] \in Item /\ SubSeq(s, 1, i) \in Seq(Item)
        /\ SubSeq(s, 1, i + 1) = Append(SubSeq(s, 1, i), s[i + 1])
    OBVIOUS
  <2>2. SubSeq(s, 1, i) \in T
    BY <1>3
  <2>3. SubSeq(s, 1, i + 1) \in T
    BY <2>1, <2>2
  <2> QED
    BY <2>3
<1> HIDE DEF I, N
<1>4. \A i \in 0 .. N : i \in I
  BY <1>1, <1>2, <1>3, Induction
<1>5. N \in I
  BY <1>1, <1>4
<1> QED
  BY <1>1, <1>5 DEF I

(* A string is its two parts.                                              *)
LEMMA SplitString ==
    ASSUME NEW s \in Seq(Item), NEW n \in 0 .. Len(s)
    PROVE  /\ SubSeq(s, 1, n) \in Seq(Item) /\ Len(SubSeq(s, 1, n)) = n
           /\ SubSeq(s, n + 1, Len(s)) \in Seq(Item)
           /\ Len(SubSeq(s, n + 1, Len(s))) = Len(s) - n
           /\ \A i \in 1 .. n : SubSeq(s, 1, n)[i] = s[i]
           /\ \A i \in 1 .. Len(s) - n : SubSeq(s, n + 1, Len(s))[i] = s[n + i]
           /\ s = SubSeq(s, 1, n) \o SubSeq(s, n + 1, Len(s))
<1> DEFINE t == SubSeq(s, 1, n)
           u == SubSeq(s, n + 1, Len(s))
<1>1. t \in Seq(Item) /\ Len(t) = n /\ u \in Seq(Item) /\ Len(u) = Len(s) - n /\ Len(s) \in Nat
  OBVIOUS
<1>2. /\ \A i \in 1 .. n : t[i] = s[i]
      /\ \A i \in 1 .. Len(s) - n : u[i] = s[n + i]
  OBVIOUS
<1> HIDE DEF t, u
<1>3. t \o u \in Seq(Item) /\ Len(t \o u) = Len(s)
  BY <1>1
<1>4. ASSUME NEW i \in 1 .. Len(s)
      PROVE  (t \o u)[i] = s[i]
  <2>1. (t \o u)[i] = IF i <= Len(t) THEN t[i] ELSE u[i - Len(t)]
    BY <1>1, ConcatProperties
  <2>2. CASE i <= n
    BY <1>1, <1>2, <2>1, <2>2
  <2>3. CASE n < i
    <3>1. i - n \in 1 .. Len(s) - n /\ n + (i - n) = i
      BY <2>3
    <3> QED
      BY <1>1, <1>2, <2>1, <2>3, <3>1
  <2> QED
    BY <1>1, <2>2, <2>3
<1>5. s = t \o u
  BY <1>3, <1>4, SeqEqual
<1> QED
  BY <1>1, <1>2, <1>5 DEF t, u

-----------------------------------------------------------------------------
(* The nodes a walk can be at, and its steps.                              *)
Place == Node \cup {Nothing}

Steps(e, s) == [c \in Place \X (1 .. Len(s)) |-> Go(e, c[1], s[c[2]])]
StepsInJbroot(e, s) == [c \in Place \X (1 .. Len(s)) |-> GoInJbroot(e, c[1], s[c[2]])]

LEMMA GoType ==
    ASSUME NEW e \in Edges, NEW n \in Place, NEW i \in Item
    PROVE  Go(e, n, i) \in Place /\ GoInJbroot(e, n, i) \in Place
<1>1. n \in Dir => Parent[n] \in Dir /\ n \in Node
  BY DirAssumption, ParentAssumption
<1>2. n \in Dir /\ i \in Name => e[<<n, i>>] \in Place
  BY <1>1 DEF Edges, Place
<1>3. JbRoot \in Place /\ Nothing \in Place
  BY DirAssumption DEF Place
<1>4. \A d \in Dir : d \in Place
  BY DirAssumption DEF Place
<1> QED
  BY <1>1, <1>2, <1>3, <1>4 DEF Go, GoInJbroot, Item

LEMMA StepsType ==
    ASSUME NEW e \in Edges, NEW s \in Seq(Item)
    PROVE  /\ Len(s) \in Nat
           /\ Steps(e, s) \in [Place \X (1 .. Len(s)) -> Place]
           /\ StepsInJbroot(e, s) \in [Place \X (1 .. Len(s)) -> Place]
           /\ \A i \in 1 .. Len(s) : i - 1 \in 0 .. Len(s) /\ s[i] \in Item
           /\ \A d \in Place, i \in 1 .. Len(s) :
                 /\ Steps(e, s)[<<d, i>>] = Go(e, d, s[i])
                 /\ StepsInJbroot(e, s)[<<d, i>>] = GoInJbroot(e, d, s[i])
  BY GoType DEF Steps, StepsInJbroot

(* A walk is the last of its places.                                       *)
LEMMA WalkPlaces ==
    ASSUME NEW e \in Edges, NEW n \in Place, NEW s \in Seq(Item)
    PROVE  \E g : /\ Recurs(g, Place, Len(s), n, Steps(e, s))
                  /\ Walk(e, n, s) = g[Len(s)]
<1> DEFINE Walks(g) == g = [i \in 0 .. Len(s) |-> IF i = 0 THEN n ELSE Go(e, g[i - 1], s[i])]
<1>1. PICK g : Recurs(g, Place, Len(s), n, Steps(e, s))
  BY StepsType, Recursion
<1>2. Walks(g)
  <2>1. g \in [0 .. Len(s) -> Place] /\ g[0] = n
    BY <1>1 DEF Recurs
  <2>2. ASSUME NEW i \in 1 .. Len(s)
        PROVE  g[i] = Go(e, g[i - 1], s[i])
    <3>1. g[i - 1] \in Place
      BY <2>1, StepsType
    <3>2. g[i] = Steps(e, s)[<<g[i - 1], i>>]
      BY <1>1 DEF Recurs
    <3> QED
      BY <3>1, <3>2, StepsType
  <2> QED
    BY <2>1, <2>2, StepsType
<1>3. PICK h : Walks(h) /\ Walk(e, n, s) = h[Len(s)]
  <2>1. Walk(e, n, s) = (CHOOSE h : Walks(h))[Len(s)]
    BY Zenon DEF Walk
  <2>2. Walks(CHOOSE h : Walks(h))
    <3> HIDE DEF Walks
    <3> QED
      BY <1>2
  <2> QED
    BY Zenon, <2>1, <2>2
<1>4. h[0] = n
  BY <1>3, StepsType
<1>5. Follows(h, Place, Len(s), Steps(e, s))
  <2>1. ASSUME NEW i \in 1 .. Len(s), h[i - 1] \in Place
        PROVE  h[i] = Steps(e, s)[<<h[i - 1], i>>]
    <3>1. h[i] = Go(e, h[i - 1], s[i])
      BY <1>3, StepsType
    <3> QED
      BY <2>1, <3>1, StepsType
  <2> QED
    BY <2>1 DEF Follows
<1>6. h[Len(s)] = g[Len(s)]
  <2> HIDE DEF Walks
  <2> QED
    BY <1>1, <1>4, <1>5, StepsType, RecursionIsUnique
<1> QED
  BY <1>1, <1>3, <1>6

LEMMA WalkInJbrootPlaces ==
    ASSUME NEW e \in Edges, NEW n \in Place, NEW s \in Seq(Item)
    PROVE  \E g : /\ Recurs(g, Place, Len(s), n, StepsInJbroot(e, s))
                  /\ WalkInJbroot(e, n, s) = g[Len(s)]
<1> DEFINE Walks(g) == g = [i \in 0 .. Len(s) |-> IF i = 0 THEN n ELSE GoInJbroot(e, g[i - 1], s[i])]
<1>1. PICK g : Recurs(g, Place, Len(s), n, StepsInJbroot(e, s))
  BY StepsType, Recursion
<1>2. Walks(g)
  <2>1. g \in [0 .. Len(s) -> Place] /\ g[0] = n
    BY <1>1 DEF Recurs
  <2>2. ASSUME NEW i \in 1 .. Len(s)
        PROVE  g[i] = GoInJbroot(e, g[i - 1], s[i])
    <3>1. g[i - 1] \in Place
      BY <2>1, StepsType
    <3>2. g[i] = StepsInJbroot(e, s)[<<g[i - 1], i>>]
      BY <1>1 DEF Recurs
    <3> QED
      BY <3>1, <3>2, StepsType
  <2> QED
    BY <2>1, <2>2, StepsType
<1>3. PICK h : Walks(h) /\ WalkInJbroot(e, n, s) = h[Len(s)]
  <2>1. WalkInJbroot(e, n, s) = (CHOOSE h : Walks(h))[Len(s)]
    BY Zenon DEF WalkInJbroot
  <2>2. Walks(CHOOSE h : Walks(h))
    <3> HIDE DEF Walks
    <3> QED
      BY <1>2
  <2> QED
    BY Zenon, <2>1, <2>2
<1>4. h[0] = n
  BY <1>3, StepsType
<1>5. Follows(h, Place, Len(s), StepsInJbroot(e, s))
  <2>1. ASSUME NEW i \in 1 .. Len(s), h[i - 1] \in Place
        PROVE  h[i] = StepsInJbroot(e, s)[<<h[i - 1], i>>]
    <3>1. h[i] = GoInJbroot(e, h[i - 1], s[i])
      BY <1>3, StepsType
    <3> QED
      BY <2>1, <3>1, StepsType
  <2> QED
    BY <2>1 DEF Follows
<1>6. h[Len(s)] = g[Len(s)]
  <2> HIDE DEF Walks
  <2> QED
    BY <1>1, <1>4, <1>5, StepsType, RecursionIsUnique
<1> QED
  BY <1>1, <1>3, <1>6

(* What a walk is, without the recursion.                                  *)
LEMMA WalkEmpty ==
    ASSUME NEW e \in Edges, NEW n \in Place
    PROVE  Walk(e, n, <<>>) = n /\ WalkInJbroot(e, n, <<>>) = n
<1>1. <<>> \in Seq(Item) /\ Len(<<>>) = 0
  OBVIOUS
<1>2. PICK g : /\ Recurs(g, Place, Len(<<>>), n, Steps(e, <<>>))
               /\ Walk(e, n, <<>>) = g[Len(<<>>)]
  BY <1>1, WalkPlaces
<1>3. PICK h : /\ Recurs(h, Place, Len(<<>>), n, StepsInJbroot(e, <<>>))
               /\ WalkInJbroot(e, n, <<>>) = h[Len(<<>>)]
  BY <1>1, WalkInJbrootPlaces
<1> QED
  BY <1>1, <1>2, <1>3 DEF Recurs

LEMMA WalkAppend ==
    ASSUME NEW e \in Edges, NEW n \in Place, NEW s \in Seq(Item), NEW x \in Item
    PROVE  /\ Walk(e, n, Append(s, x)) = Go(e, Walk(e, n, s), x)
           /\ WalkInJbroot(e, n, Append(s, x)) = GoInJbroot(e, WalkInJbroot(e, n, s), x)
<1> DEFINE t == Append(s, x)
<1>1. /\ t \in Seq(Item) /\ Len(s) \in Nat /\ Len(t) = Len(s) + 1 /\ t[Len(t)] = x
      /\ \A i \in 1 .. Len(s) : t[i] = s[i]
  OBVIOUS
<1>2. Len(t) \in 1 .. Len(t) /\ Len(t) - 1 = Len(s) /\ Len(t) \in Nat /\ Len(s) \in 0 .. Len(t)
  BY <1>1
<1>3. \A i \in 1 .. Len(s) : i \in 1 .. Len(t)
  BY <1>1
<1> HIDE DEF t
<1>4. Walk(e, n, t) = Go(e, Walk(e, n, s), x)
  <2>1. PICK g : Recurs(g, Place, Len(s), n, Steps(e, s)) /\ Walk(e, n, s) = g[Len(s)]
    BY WalkPlaces
  <2>2. PICK h : Recurs(h, Place, Len(t), n, Steps(e, t)) /\ Walk(e, n, t) = h[Len(t)]
    BY <1>1, WalkPlaces
  <2>3. h[0] = n /\ h \in [0 .. Len(t) -> Place]
    BY <2>2 DEF Recurs
  <2>4. ASSUME NEW i \in 1 .. Len(t)
        PROVE  h[i - 1] \in Place /\ h[i] = Go(e, h[i - 1], t[i])
    <3>1. h[i] = Steps(e, t)[<<h[i - 1], i>>]
      BY <2>2 DEF Recurs
    <3>2. h[i - 1] \in Place
      BY <1>1, <2>3, StepsType
    <3> QED
      BY <1>1, <3>1, <3>2, StepsType
  <2>5. Follows(h, Place, Len(s), Steps(e, s))
    <3>1. ASSUME NEW i \in 1 .. Len(s), h[i - 1] \in Place
          PROVE  h[i] = Steps(e, s)[<<h[i - 1], i>>]
      <4>1. h[i] = Go(e, h[i - 1], s[i])
        BY <1>1, <1>3, <2>4
      <4> QED
        BY <3>1, <4>1, StepsType
    <3> QED
      BY <3>1 DEF Follows
  <2>6. h[Len(s)] = g[Len(s)]
    BY <1>1, <2>1, <2>3, <2>5, RecursionIsUnique
  <2> QED
    BY <1>1, <1>2, <2>1, <2>2, <2>4, <2>6
<1>5. WalkInJbroot(e, n, t) = GoInJbroot(e, WalkInJbroot(e, n, s), x)
  <2>1. PICK g : Recurs(g, Place, Len(s), n, StepsInJbroot(e, s)) /\ WalkInJbroot(e, n, s) = g[Len(s)]
    BY WalkInJbrootPlaces
  <2>2. PICK h : Recurs(h, Place, Len(t), n, StepsInJbroot(e, t)) /\ WalkInJbroot(e, n, t) = h[Len(t)]
    BY <1>1, WalkInJbrootPlaces
  <2>3. h[0] = n /\ h \in [0 .. Len(t) -> Place]
    BY <2>2 DEF Recurs
  <2>4. ASSUME NEW i \in 1 .. Len(t)
        PROVE  h[i - 1] \in Place /\ h[i] = GoInJbroot(e, h[i - 1], t[i])
    <3>1. h[i] = StepsInJbroot(e, t)[<<h[i - 1], i>>]
      BY <2>2 DEF Recurs
    <3>2. h[i - 1] \in Place
      BY <1>1, <2>3, StepsType
    <3> QED
      BY <1>1, <3>1, <3>2, StepsType
  <2>5. Follows(h, Place, Len(s), StepsInJbroot(e, s))
    <3>1. ASSUME NEW i \in 1 .. Len(s), h[i - 1] \in Place
          PROVE  h[i] = StepsInJbroot(e, s)[<<h[i - 1], i>>]
      <4>1. h[i] = GoInJbroot(e, h[i - 1], s[i])
        BY <1>1, <1>3, <2>4
      <4> QED
        BY <3>1, <4>1, StepsType
    <3> QED
      BY <3>1 DEF Follows
  <2>6. h[Len(s)] = g[Len(s)]
    BY <1>1, <2>1, <2>3, <2>5, RecursionIsUnique
  <2> QED
    BY <1>1, <1>2, <2>1, <2>2, <2>4, <2>6
<1> QED
  BY <1>4, <1>5 DEF t

LEMMA WalkType ==
    ASSUME NEW e \in Edges, NEW n \in Place, NEW s \in Seq(Item)
    PROVE  Walk(e, n, s) \in Place /\ WalkInJbroot(e, n, s) \in Place
<1>1. Len(s) \in 0 .. Len(s)
  OBVIOUS
<1>2. PICK g : Recurs(g, Place, Len(s), n, Steps(e, s)) /\ Walk(e, n, s) = g[Len(s)]
  BY WalkPlaces
<1>3. PICK h : /\ Recurs(h, Place, Len(s), n, StepsInJbroot(e, s))
               /\ WalkInJbroot(e, n, s) = h[Len(s)]
  BY WalkInJbrootPlaces
<1> QED
  BY <1>1, <1>2, <1>3 DEF Recurs

-----------------------------------------------------------------------------
(* One item of a path.                                                     *)
LEMMA GoFacts ==
    ASSUME NEW e \in Edges, NEW n \in Place, NEW x \in Item
    PROVE  /\ Go(e, Go(e, n, "/"), "/") = Go(e, n, "/")
           /\ n \in Dir => Go(e, n, "/") = n /\ Go(e, n, ".") = n
           /\ Go(e, Nothing, x) = Nothing /\ GoInJbroot(e, Nothing, x) = Nothing
           /\ x # ".." => GoInJbroot(e, n, x) = Go(e, n, x)
           /\ n \notin {JbRoot, Root} => GoInJbroot(e, n, x) = Go(e, n, x)
           /\ x \in Name /\ n \in Dir => Go(e, n, x) = e[<<n, x>>]
<1>1. Nothing \notin Dir /\ Nothing # JbRoot /\ Nothing # Root
  BY DirAssumption, NothingAssumption
<1> QED
  BY <1>1, NameAssumption DEF Go, GoInJbroot

(* When files are removed a lookup finds what it found before, or nothing. *)
LEMMA GoPruned ==
    ASSUME NEW e \in Edges, NEW R, NEW n \in Place, NEW x \in Item
    PROVE  /\ Pruned(e, R) \in Edges
           /\ Go(Pruned(e, R), n, x) \in {Go(e, n, x), Nothing}
           /\ GoInJbroot(Pruned(e, R), n, x) \in {GoInJbroot(e, n, x), Nothing}
<1>1. Pruned(e, R) \in Edges
  BY DEF Pruned, Edges
<1>2. ASSUME n \in Dir, x \in Name
      PROVE  Pruned(e, R)[<<n, x>>] \in {e[<<n, x>>], Nothing}
  BY <1>2 DEF Pruned
<1>3. Go(Pruned(e, R), n, x) \in {Go(e, n, x), Nothing}
  BY <1>2 DEF Go, Item
<1> QED
  BY <1>1, <1>3 DEF GoInJbroot

(* A lookup in a tree from which files were removed finds what it found    *)
(* before, or nothing: what fstatat() saw is still so, or gone.            *)
LEMMA WalkPruned ==
    ASSUME NEW e \in Edges, NEW R, NEW n \in Place, NEW s \in Seq(Item)
    PROVE  /\ Walk(Pruned(e, R), n, s) \in {Walk(e, n, s), Nothing}
           /\ WalkInJbroot(Pruned(e, R), n, s) \in {WalkInJbroot(e, n, s), Nothing}
<1> DEFINE p == Pruned(e, R)
           T == {t \in Seq(Item) :
                    /\ Walk(p, n, t) \in {Walk(e, n, t), Nothing}
                    /\ WalkInJbroot(p, n, t) \in {WalkInJbroot(e, n, t), Nothing}}
<1>1. p \in Edges
  BY DEF Pruned, Edges
<1>2. ASSUME NEW v \in Place, NEW x \in Item
      PROVE  /\ Go(p, v, x) \in {Go(e, v, x), Nothing}
             /\ GoInJbroot(p, v, x) \in {GoInJbroot(e, v, x), Nothing}
             /\ Go(p, Nothing, x) = Nothing /\ GoInJbroot(p, Nothing, x) = Nothing
  BY <1>1, GoPruned, GoFacts
<1> HIDE DEF p
<1>3. <<>> \in T
  BY <1>1, WalkEmpty
<1>4. ASSUME NEW t \in Seq(Item), NEW x \in Item, t \in T
      PROVE  Append(t, x) \in T
  <2>1. Walk(e, n, t) \in Place /\ WalkInJbroot(e, n, t) \in Place
    BY WalkType
  <2>2. /\ Walk(e, n, Append(t, x)) = Go(e, Walk(e, n, t), x)
        /\ WalkInJbroot(e, n, Append(t, x)) = GoInJbroot(e, WalkInJbroot(e, n, t), x)
        /\ Walk(p, n, Append(t, x)) = Go(p, Walk(p, n, t), x)
        /\ WalkInJbroot(p, n, Append(t, x)) = GoInJbroot(p, WalkInJbroot(p, n, t), x)
    BY <1>1, WalkAppend
  <2>3. Walk(p, n, Append(t, x)) \in {Walk(e, n, Append(t, x)), Nothing}
    BY <1>2, <1>4, <2>1, <2>2
  <2>4. WalkInJbroot(p, n, Append(t, x)) \in {WalkInJbroot(e, n, Append(t, x)), Nothing}
    BY <1>2, <1>4, <2>1, <2>2
  <2> QED
    BY <2>3, <2>4
<1> HIDE DEF T
<1>5. s \in T
  BY <1>3, <1>4, StringInduction
<1> QED
  BY <1>5 DEF T, p

LEMMA WalkConcat ==
    ASSUME NEW e \in Edges, NEW n \in Place, NEW s \in Seq(Item), NEW t \in Seq(Item)
    PROVE  /\ Walk(e, n, s \o t) = Walk(e, Walk(e, n, s), t)
           /\ WalkInJbroot(e, n, s \o t) = WalkInJbroot(e, WalkInJbroot(e, n, s), t)
<1> DEFINE v == Walk(e, n, s)
           w == WalkInJbroot(e, n, s)
           T == {u \in Seq(Item) : /\ Walk(e, n, s \o u) = Walk(e, v, u)
                                   /\ WalkInJbroot(e, n, s \o u) = WalkInJbroot(e, w, u)}
<1>1. v \in Place /\ w \in Place
  BY WalkType
<1>2. <<>> \in T
  <2>1. s \o <<>> = s
    OBVIOUS
  <2>2. Walk(e, v, <<>>) = v /\ WalkInJbroot(e, w, <<>>) = w
    BY <1>1, WalkEmpty
  <2> QED
    BY <2>1, <2>2
<1>3. ASSUME NEW u \in Seq(Item), NEW x \in Item, u \in T
      PROVE  Append(u, x) \in T
  <2> DEFINE su == s \o u
  <2>1. su \in Seq(Item) /\ s \o Append(u, x) = Append(su, x)
    OBVIOUS
  <2>2. Walk(e, n, su) = Walk(e, v, u) /\ WalkInJbroot(e, n, su) = WalkInJbroot(e, w, u)
    BY <1>3
  <2> HIDE DEF su, v, w
  <2>3. /\ Walk(e, n, Append(su, x)) = Go(e, Walk(e, n, su), x)
        /\ WalkInJbroot(e, n, Append(su, x)) = GoInJbroot(e, WalkInJbroot(e, n, su), x)
    BY <2>1, WalkAppend
  <2>4. /\ Walk(e, v, Append(u, x)) = Go(e, Walk(e, v, u), x)
        /\ WalkInJbroot(e, w, Append(u, x)) = GoInJbroot(e, WalkInJbroot(e, w, u), x)
    BY <1>1, WalkAppend
  <2>5. Walk(e, n, s \o Append(u, x)) = Walk(e, v, Append(u, x))
    BY <2>1, <2>2, <2>3, <2>4
  <2>6. WalkInJbroot(e, n, s \o Append(u, x)) = WalkInJbroot(e, w, Append(u, x))
    BY <2>1, <2>2, <2>3, <2>4
  <2> QED
    BY <2>5, <2>6
<1> HIDE DEF T
<1>4. t \in T
  BY <1>2, <1>3, StringInduction
<1> QED
  BY <1>4 DEF T

(* Without ".." nothing of the jbroot view is special.                     *)
LEMMA WalkWithoutDotDot ==
    ASSUME NEW e \in Edges, NEW n \in Place, NEW s \in Seq(Item),
           \A i \in 1 .. Len(s) : s[i] # ".."
    PROVE  WalkInJbroot(e, n, s) = Walk(e, n, s)
<1> DEFINE Plain(t) == \A i \in 1 .. Len(t) : t[i] # ".."
           T == {t \in Seq(Item) : Plain(t) => WalkInJbroot(e, n, t) = Walk(e, n, t)}
<1>1. <<>> \in T
  BY WalkEmpty
<1>2. ASSUME NEW t \in Seq(Item), NEW x \in Item, t \in T
      PROVE  Append(t, x) \in T
  <2> SUFFICES ASSUME Plain(Append(t, x))
               PROVE  WalkInJbroot(e, n, Append(t, x)) = Walk(e, n, Append(t, x))
    <3> HIDE DEF Plain
    <3> QED
      OBVIOUS
  <2>1. Plain(t)
    <3>1. \A i \in 1 .. Len(t) : i \in 1 .. Len(Append(t, x)) /\ Append(t, x)[i] = t[i]
      OBVIOUS
    <3> QED
      BY <3>1
  <2>2. x # ".."
    <3>1. Len(t) + 1 \in 1 .. Len(Append(t, x)) /\ Append(t, x)[Len(t) + 1] = x
      OBVIOUS
    <3> QED
      BY <3>1
  <2> HIDE DEF Plain
  <2>3. WalkInJbroot(e, n, t) = Walk(e, n, t) /\ Walk(e, n, t) \in Place
    BY <1>2, <2>1, WalkType
  <2>4. /\ Walk(e, n, Append(t, x)) = Go(e, Walk(e, n, t), x)
        /\ WalkInJbroot(e, n, Append(t, x)) = GoInJbroot(e, WalkInJbroot(e, n, t), x)
    BY WalkAppend
  <2>5. GoInJbroot(e, Walk(e, n, t), x) = Go(e, Walk(e, n, t), x)
    BY <2>2, <2>3, GoFacts
  <2> QED
    BY <2>3, <2>4, <2>5
<1>3. s \in T
  <2> HIDE DEF T
  <2> QED
    BY <1>1, <1>2, StringInduction
<1> QED
  BY <1>3

(* Slashes do not lead anywhere.                                           *)
LEMMA WalkSlashes ==
    ASSUME NEW e \in Edges, NEW n \in Dir, NEW s \in Seq(Item),
           \A i \in 1 .. Len(s) : s[i] = "/"
    PROVE  Walk(e, n, s) = n
<1> DEFINE Plain(t) == \A i \in 1 .. Len(t) : t[i] = "/"
           T == {t \in Seq(Item) : Plain(t) => Walk(e, n, t) = n}
<1>1. n \in Place
  BY DirAssumption DEF Place
<1>2. <<>> \in T
  BY <1>1, WalkEmpty
<1>3. ASSUME NEW t \in Seq(Item), NEW x \in Item, t \in T
      PROVE  Append(t, x) \in T
  <2> SUFFICES ASSUME Plain(Append(t, x))
               PROVE  Walk(e, n, Append(t, x)) = n
    <3> HIDE DEF Plain
    <3> QED
      OBVIOUS
  <2>1. Plain(t)
    <3>1. \A i \in 1 .. Len(t) : i \in 1 .. Len(Append(t, x)) /\ Append(t, x)[i] = t[i]
      OBVIOUS
    <3> QED
      BY <3>1
  <2>2. x = "/"
    <3>1. Len(t) + 1 \in 1 .. Len(Append(t, x)) /\ Append(t, x)[Len(t) + 1] = x
      OBVIOUS
    <3> QED
      BY <3>1
  <2> HIDE DEF Plain
  <2>3. Walk(e, n, t) = n
    BY <1>3, <2>1
  <2>4. Go(e, n, "/") = n
    BY <1>1, <2>2, GoFacts
  <2>5. Walk(e, n, Append(t, x)) = Go(e, Walk(e, n, t), x)
    BY <1>1, WalkAppend
  <2> QED
    BY Zenon, <2>2, <2>3, <2>4, <2>5
<1>4. s \in T
  <2> HIDE DEF T
  <2> QED
    BY <1>2, <1>3, StringInduction
<1> QED
  BY <1>4

(* A string without its leading slashes leads to the same node.            *)
LEMMA StripSlashesFacts ==
    ASSUME NEW s \in Seq(Item)
    PROVE  /\ StripSlashes(s) \in Seq(Item) /\ ~IsAbsolute(StripSlashes(s))
           /\ \A e \in Edges, n \in Dir : Walk(e, n, StripSlashes(s)) = Walk(e, n, s)
<1> DEFINE T == {k \in 0 .. Len(s) : \E n \in Slashes(s) : \A m \in Slashes(s) : m <= k => m <= n}
<1>1. Len(s) \in Nat /\ 0 \in Slashes(s) /\ Slashes(s) \subseteq 0 .. Len(s)
  BY DEF Slashes
<1>2. 0 \in T
  BY <1>1
<1>3. ASSUME NEW k \in 0 .. Len(s) - 1, k \in T
      PROVE  k + 1 \in T
  <2>1. k + 1 \in 0 .. Len(s)
    OBVIOUS
  <2>2. CASE k + 1 \in Slashes(s)
    BY <2>1, <2>2
  <2>3. CASE k + 1 \notin Slashes(s)
    <3>1. PICK n \in Slashes(s) : \A m \in Slashes(s) : m <= k => m <= n
      BY <1>3
    <3>2. \A m \in Slashes(s) : m <= k + 1 => m <= n
      BY <1>1, <2>3, <3>1
    <3> QED
      BY <2>1, <3>2
  <2> QED
    BY <2>2, <2>3
<1>4. Len(s) \in T
  <2> HIDE DEF T
  <2>1. \A k \in 0 .. Len(s) : k \in T
    BY <1>1, <1>2, <1>3, Induction
  <2> QED
    BY <1>1, <2>1
<1>5. PICK n \in Slashes(s) : /\ \A m \in Slashes(s) : m <= n
                             /\ StripSlashes(s) = SubSeq(s, n + 1, Len(s))
  <2>1. \E n \in Slashes(s) : \A m \in Slashes(s) : m <= n
    BY <1>1, <1>4
  <2> QED
    BY <2>1 DEF StripSlashes
<1> DEFINE t == SubSeq(s, 1, n)
           u == SubSeq(s, n + 1, Len(s))
<1>6. t \in Seq(Item) /\ u \in Seq(Item) /\ s = t \o u
  BY <1>1, SplitString
<1>7. \A i \in 1 .. Len(t) : t[i] = "/"
  BY <1>1 DEF Slashes
<1>8. ~IsAbsolute(u)
  <2> SUFFICES ASSUME u # <<>>, u[1] = "/"
               PROVE  FALSE
    BY DEF IsAbsolute
  <2>1. n + 1 \in 1 .. Len(s) /\ s[n + 1] = "/"
    BY <1>1
  <2>2. \A i \in 1 .. n + 1 : s[i] = "/"
    BY <1>1, <2>1 DEF Slashes
  <2>3. n + 1 \in Slashes(s)
    BY <1>1, <2>1, <2>2 DEF Slashes
  <2> QED
    BY <1>1, <1>5, <2>3
<1>9. ASSUME NEW e \in Edges, NEW d \in Dir
      PROVE  Walk(e, d, u) = Walk(e, d, s)
  <2> HIDE DEF t, u
  <2>1. d \in Place
    BY DirAssumption DEF Place
  <2>2. Walk(e, d, t) = d
    BY <1>6, <1>7, WalkSlashes
  <2> QED
    BY <1>6, <2>1, <2>2, WalkConcat
<1> QED
  BY <1>5, <1>6, <1>8, <1>9

(* The slash that the next token needs, and the trailing one.              *)
Slashed(s) == IF s # <<>> /\ s[Len(s)] # "/" THEN Append(s, "/") ELSE s

LEMMA LastItem ==
    ASSUME NEW s \in Seq(Item), s # <<>>
    PROVE  /\ Len(s) \in 1 .. Len(s) /\ s[Len(s)] \in Item
           /\ SubSeq(s, 1, Len(s) - 1) \in Seq(Item)
           /\ s = Append(SubSeq(s, 1, Len(s) - 1), s[Len(s)])
  OBVIOUS

LEMMA AppendFacts ==
    ASSUME NEW s \in Seq(Item), NEW x \in Item
    PROVE  /\ Append(s, x) \in Seq(Item) /\ Append(s, x) # <<>>
           /\ Len(Append(s, x)) = Len(s) + 1 /\ Append(s, x)[Len(s) + 1] = x
           /\ \A i \in 1 .. Len(s) : Append(s, x)[i] = s[i]
           /\ Append(s, x)[1] = IF s = <<>> THEN x ELSE s[1]
  OBVIOUS

LEMMA WalkTrailingSlash ==
    ASSUME NEW e \in Edges, NEW n \in Place, NEW s \in Seq(Item), s # <<>>, s[Len(s)] = "/"
    PROVE  /\ Go(e, Walk(e, n, s), "/") = Walk(e, n, s)
           /\ Go(e, WalkInJbroot(e, n, s), "/") = WalkInJbroot(e, n, s)
<1> DEFINE t == SubSeq(s, 1, Len(s) - 1)
<1>1. t \in Seq(Item) /\ s = Append(t, "/") /\ "/" \in Item
  BY LastItem DEF Item
<1> HIDE DEF t
<1>2. Walk(e, n, t) \in Place /\ WalkInJbroot(e, n, t) \in Place
  BY <1>1, WalkType
<1>3. /\ Walk(e, n, Append(t, "/")) = Go(e, Walk(e, n, t), "/")
      /\ WalkInJbroot(e, n, Append(t, "/")) = GoInJbroot(e, WalkInJbroot(e, n, t), "/")
  BY <1>1, WalkAppend
<1>4. GoInJbroot(e, WalkInJbroot(e, n, t), "/") = Go(e, WalkInJbroot(e, n, t), "/")
  BY <1>1, <1>2, GoFacts
<1>5. /\ Go(e, Go(e, Walk(e, n, t), "/"), "/") = Go(e, Walk(e, n, t), "/")
      /\ Go(e, Go(e, WalkInJbroot(e, n, t), "/"), "/") = Go(e, WalkInJbroot(e, n, t), "/")
  BY <1>1, <1>2, GoFacts
<1>6. Walk(e, n, s) = Go(e, Walk(e, n, t), "/")
  BY Zenon, <1>1, <1>3
<1>7. WalkInJbroot(e, n, s) = Go(e, WalkInJbroot(e, n, t), "/")
  BY Zenon, <1>1, <1>3, <1>4
<1> QED
  BY <1>5, <1>6, <1>7

LEMMA WalkSlashed ==
    ASSUME NEW e \in Edges, NEW n \in Place, NEW s \in Seq(Item), s # <<>>
    PROVE  /\ Slashed(s) \in Seq(Item) /\ Slashed(s) # <<>>
           /\ Slashed(s)[Len(Slashed(s))] = "/"
           /\ Slashed(s)[1] = s[1]
           /\ Walk(e, n, Slashed(s)) = Go(e, Walk(e, n, s), "/")
<1>1. "/" \in Item
  BY DEF Item
<1>2. CASE s[Len(s)] = "/"
  BY <1>2, WalkTrailingSlash DEF Slashed
<1>3. CASE s[Len(s)] # "/"
  <2> DEFINE t == Append(s, "/")
  <2>1. t \in Seq(Item) /\ t # <<>> /\ t[Len(t)] = "/" /\ t[1] = s[1]
    BY <1>1
  <2>2. Slashed(s) = t
    BY <1>3 DEF Slashed
  <2>3. Walk(e, n, t) = Go(e, Walk(e, n, s), "/")
    BY <1>1, WalkAppend
  <2> HIDE DEF t
  <2> QED
    BY <2>1, <2>2, <2>3
<1> QED
  BY <1>2, <1>3

-----------------------------------------------------------------------------
(* The length of a string, without the recursion.                          *)
Adds(s) == [c \in Nat \X (1 .. Len(s)) |-> c[1] + Length[s[c[2]]]]

LEMMA AddsType ==
    ASSUME NEW s \in Seq(Item)
    PROVE  /\ Len(s) \in Nat
           /\ Adds(s) \in [Nat \X (1 .. Len(s)) -> Nat]
           /\ \A i \in 1 .. Len(s) : i - 1 \in 0 .. Len(s) /\ s[i] \in Item
           /\ \A n \in Nat, i \in 1 .. Len(s) : Adds(s)[<<n, i>>] = n + Length[s[i]]
  BY LengthAssumption DEF Adds

LEMMA StrLenSums ==
    ASSUME NEW s \in Seq(Item)
    PROVE  \E g : Recurs(g, Nat, Len(s), 0, Adds(s)) /\ StrLen(s) = g[Len(s)]
<1> DEFINE Sums(g) == g = [i \in 0 .. Len(s) |-> IF i = 0 THEN 0 ELSE g[i - 1] + Length[s[i]]]
<1>1. PICK g : Recurs(g, Nat, Len(s), 0, Adds(s))
  BY AddsType, Recursion
<1>2. Sums(g)
  <2>1. g \in [0 .. Len(s) -> Nat] /\ g[0] = 0
    BY <1>1 DEF Recurs
  <2>2. ASSUME NEW i \in 1 .. Len(s)
        PROVE  g[i] = g[i - 1] + Length[s[i]]
    <3>1. g[i - 1] \in Nat
      BY <2>1, AddsType
    <3>2. g[i] = Adds(s)[<<g[i - 1], i>>]
      BY <1>1 DEF Recurs
    <3> QED
      BY <3>1, <3>2, AddsType
  <2> QED
    BY <2>1, <2>2, AddsType
<1>3. PICK h : Sums(h) /\ StrLen(s) = h[Len(s)]
  <2>1. StrLen(s) = (CHOOSE h : Sums(h))[Len(s)]
    BY Zenon DEF StrLen
  <2>2. Sums(CHOOSE h : Sums(h))
    <3> HIDE DEF Sums
    <3> QED
      BY <1>2
  <2> QED
    BY Zenon, <2>1, <2>2
<1>4. h[0] = 0
  BY <1>3, AddsType
<1>5. Follows(h, Nat, Len(s), Adds(s))
  <2>1. ASSUME NEW i \in 1 .. Len(s), h[i - 1] \in Nat
        PROVE  h[i] = Adds(s)[<<h[i - 1], i>>]
    <3>1. h[i] = h[i - 1] + Length[s[i]]
      BY <1>3, AddsType
    <3> QED
      BY <2>1, <3>1, AddsType
  <2> QED
    BY <2>1 DEF Follows
<1>6. h[Len(s)] = g[Len(s)]
  <2> HIDE DEF Sums
  <2> QED
    BY <1>1, <1>4, <1>5, AddsType, RecursionIsUnique
<1> QED
  BY <1>1, <1>3, <1>6

LEMMA StrLenEmpty == StrLen(<<>>) = 0
<1>1. <<>> \in Seq(Item) /\ Len(<<>>) = 0
  OBVIOUS
<1>2. PICK g : Recurs(g, Nat, Len(<<>>), 0, Adds(<<>>)) /\ StrLen(<<>>) = g[Len(<<>>)]
  BY <1>1, StrLenSums
<1> QED
  BY <1>1, <1>2 DEF Recurs

LEMMA StrLenAppend ==
    ASSUME NEW s \in Seq(Item), NEW x \in Item
    PROVE  StrLen(s) \in Nat /\ StrLen(Append(s, x)) = StrLen(s) + Length[x]
<1> DEFINE t == Append(s, x)
<1>1. /\ t \in Seq(Item) /\ Len(s) \in Nat /\ Len(t) = Len(s) + 1 /\ t[Len(t)] = x
      /\ \A i \in 1 .. Len(s) : t[i] = s[i]
  OBVIOUS
<1>2. Len(t) \in 1 .. Len(t) /\ Len(t) - 1 = Len(s) /\ Len(t) \in Nat /\ Len(s) \in 0 .. Len(s)
  BY <1>1
<1>3. \A i \in 1 .. Len(s) : i \in 1 .. Len(t)
  BY <1>1
<1> HIDE DEF t
<1>4. PICK g : Recurs(g, Nat, Len(s), 0, Adds(s)) /\ StrLen(s) = g[Len(s)]
  BY StrLenSums
<1>5. PICK h : Recurs(h, Nat, Len(t), 0, Adds(t)) /\ StrLen(t) = h[Len(t)]
  BY <1>1, StrLenSums
<1>6. h[0] = 0 /\ h \in [0 .. Len(t) -> Nat]
  BY <1>5 DEF Recurs
<1>7. ASSUME NEW i \in 1 .. Len(t)
      PROVE  h[i - 1] \in Nat /\ h[i] = h[i - 1] + Length[t[i]]
  <2>1. h[i] = Adds(t)[<<h[i - 1], i>>]
    BY <1>5 DEF Recurs
  <2>2. h[i - 1] \in Nat
    BY <1>1, <1>6, AddsType
  <2> QED
    BY <1>1, <2>1, <2>2, AddsType
<1>8. Follows(h, Nat, Len(s), Adds(s))
  <2>1. ASSUME NEW i \in 1 .. Len(s), h[i - 1] \in Nat
        PROVE  h[i] = Adds(s)[<<h[i - 1], i>>]
    <3>1. h[i] = h[i - 1] + Length[s[i]]
      BY <1>1, <1>3, <1>7
    <3> QED
      BY <2>1, <3>1, AddsType
  <2> QED
    BY <2>1 DEF Follows
<1>9. h[Len(s)] = g[Len(s)] /\ h[Len(s)] \in Nat
  <2>1. h[Len(s)] = g[Len(s)]
    BY <1>1, <1>4, <1>6, <1>8, RecursionIsUnique
  <2> QED
    BY <1>2, <1>7, <2>1
<1>10. StrLen(t) = StrLen(s) + Length[x]
  BY <1>1, <1>2, <1>4, <1>5, <1>7, <1>9
<1> QED
  BY <1>4, <1>9, <1>10 DEF t

LEMMA StrLenType == \A s \in Seq(Item) : StrLen(s) \in Nat
  BY StrLenAppend DEF Item

(* No prefix is longer than the string.                                    *)
LEMMA StrLenPrefix ==
    ASSUME NEW s \in Seq(Item), NEW i \in 0 .. Len(s)
    PROVE  StrLen(SubSeq(s, 1, i)) <= StrLen(s)
<1> DEFINE Bounded(t) == \A j \in 0 .. Len(t) : StrLen(SubSeq(t, 1, j)) <= StrLen(t)
           T == {t \in Seq(Item) : Bounded(t)}
<1>1. <<>> \in T
  <2>1. ASSUME NEW j \in 0 .. Len(<<>>)
        PROVE  StrLen(SubSeq(<<>>, 1, j)) <= StrLen(<<>>)
    <3>1. SubSeq(<<>>, 1, j) = <<>>
      OBVIOUS
    <3>2. StrLen(SubSeq(<<>>, 1, j)) = 0
      BY Zenon, <3>1, StrLenEmpty
    <3> QED
      BY <3>2, StrLenEmpty
  <2> QED
    BY <2>1
<1>2. ASSUME NEW t \in Seq(Item), NEW x \in Item, t \in T
      PROVE  Append(t, x) \in T
  <2> DEFINE u == Append(t, x)
  <2>1. u \in Seq(Item) /\ Len(u) = Len(t) + 1 /\ Len(t) \in Nat
    OBVIOUS
  <2>2. StrLen(u) = StrLen(t) + Length[x] /\ StrLen(t) \in Nat /\ Length[x] \in Nat
    BY StrLenAppend, LengthAssumption
  <2>3. ASSUME NEW j \in 0 .. Len(u)
        PROVE  StrLen(SubSeq(u, 1, j)) <= StrLen(u)
    <3>1. CASE j = Len(t) + 1
      <4>1. SubSeq(u, 1, j) = u
        BY <3>1
      <4>2. StrLen(SubSeq(u, 1, j)) = StrLen(u)
        BY Zenon, <4>1
      <4> QED
        BY <2>2, <4>2
    <3>2. CASE j \in 0 .. Len(t)
      <4> DEFINE v == SubSeq(t, 1, j)
      <4>1. SubSeq(u, 1, j) = v /\ v \in Seq(Item)
        BY <3>2
      <4>2. StrLen(v) <= StrLen(t)
        BY <1>2, <3>2
      <4>3. StrLen(SubSeq(u, 1, j)) = StrLen(v)
        BY Zenon, <4>1
      <4>4. StrLen(v) \in Nat
        BY <4>1, StrLenType
      <4> HIDE DEF u, v
      <4> QED
        BY <2>2, <4>2, <4>3, <4>4
    <3> QED
      BY <2>1, <3>1, <3>2
  <2> QED
    BY <2>1, <2>3
<1>3. s \in T
  <2> HIDE DEF T
  <2> QED
    BY <1>1, <1>2, StringInduction
<1> QED
  BY <1>3

-----------------------------------------------------------------------------
(* What is read of the path, where the path starts for who wrote it and    *)
(* for who gets the result, and where it leads.                            *)
Done == Len(path) - Len(left)
Prefix == SubSeq(path, 1, Done)

From == IF ~IsAbsolute(path) THEN start ELSE IF op = "jbroot" THEN JbRoot ELSE Root
Base == IF based THEN JbRoot ELSE From

See(s) == IF op = "jbroot" THEN WalkInJbroot(tree0, From, s) ELSE Walk(tree0, From, s)

Expected ==
    IF op = "jbroot" THEN LookupInJbroot(tree0, start, path) ELSE Lookup(tree0, start, path)

Leads(n, v) == n = v \/ (unlinks > 0 /\ n = Nothing)

(* Files are only removed.                                                 *)
TreeInv ==
    /\ tree0 \in Trees
    /\ \E R \in SUBSET Removable : tree = Pruned(tree0, R)
    /\ unlinks = 0 => tree = tree0

InputInv == \E in \in Inputs : op = in.op /\ start = in.start /\ path = in.path

(* The loop has read the path up to a slash, finish all of it.             *)
ReadInv ==
    /\ Len(left) <= Len(path) /\ left = SubSeq(path, Done + 1, Len(path))
    /\ pc = "loop" => /\ path # <<>>
                      /\ Done > 0 => path[Done] = "/"
                      /\ resolved = <<>> <=> Done = 0
    /\ pc = "finish" => path # <<>> /\ left = <<>> /\ resolved # <<>>

(* What is written: where it starts, how it ends, what it is made of.      *)
WrittenInv ==
    /\ Len(resolved) > 1 /\ resolved[Len(resolved)] = "/" => resolved[Len(resolved) - 1] = "/"
    /\ IsAbsolute(path) /\ resolved # <<>> => IsAbsolute(resolved)
    /\ based => /\ op = "rootfs" /\ IsAbsolute(resolved)
                /\ \E i \in 1 .. Done : path[i] \in JbrootNames
    /\ op = "rootfs" /\ ~based /\ ~IsAbsolute(path) => ~IsAbsolute(resolved)
    /\ op = "rootfs" /\ ~HasDotDot => \A i \in 1 .. Len(resolved) : resolved[i] # ".."

(* The calls the properties are about, when the string is r so far.        *)
InScope(r) ==
    IF op = "jbroot" THEN IsAbsolute(path) \/ ~IsAbsolute(r)
    ELSE ~HasDotDot /\ \A i, j \in JbrootNamesIn(path) : i = j

(* What is written leads where what is read leads.                         *)
LeadsInv ==
    InScope(resolved) =>
        /\ pc = "loop" => Leads(Walk(tree, Base, Separated), See(Prefix))
        /\ pc = "finish" => Leads(Walk(tree, Base, resolved), See(path))
        /\ pc = "call" /\ ~failed =>
              Leads(IF op = "jbroot" THEN Lookup(tree, start, result)
                    ELSE LookupInJbroot(tree, start, result), Expected)
        /\ pc = "done" /\ ~failed => Leads(found, Expected)

(* What is written is not longer than what is read.                        *)
LengthInv ==
    /\ failed => StrLen(path) >= PATH_MAX - 1
    /\ pc = "loop" => StrLen(Separated) <= StrLen(Prefix)

IInv == TypeOK /\ TreeInv /\ InputInv /\ ReadInv /\ WrittenInv /\ LeadsInv /\ LengthInv

(* What the assumptions say of a call.                                     *)
LEMMA CallFacts ==
    ASSUME InputInv
    PROVE  /\ op \in {"jbroot", "rootfs"} /\ start \in Dir /\ path \in Seq(Item)
           /\ From \in Dir /\ Base \in Dir /\ From \in Place /\ Base \in Place
           /\ \A i \in 1 .. Len(path) - 1 : path[i] = "/" \/ path[i + 1] = "/"
<1>1. PICK in \in Inputs : op = in.op /\ start = in.start /\ path = in.path
  BY DEF InputInv
<1>2. /\ op \in {"jbroot", "rootfs"} /\ start \in Dir /\ path \in Seq(Item)
      /\ \A i \in 1 .. Len(path) - 1 : path[i] = "/" \/ path[i + 1] = "/"
  BY <1>1, InputsAssumption
<1>3. From \in Dir /\ Base \in Dir
  BY <1>2, DirAssumption DEF From, Base
<1>4. \A d \in Dir : d \in Place
  BY DirAssumption DEF Place
<1> QED
  BY <1>2, <1>3, <1>4

LEMMA PlaceFacts ==
    /\ \A d \in Dir : d \in Place /\ d # Nothing
    /\ Nothing \in Place /\ Root \in Dir /\ JbRoot \in Dir /\ JbParent \in Dir
  BY DirAssumption, NothingAssumption DEF Place

LEMMA ItemFacts == {"/", ".", ".."} \subseteq Item /\ Name \subseteq Item
  BY DEF Item

(* What is left of a file tree.                                            *)
LEMMA TreeFacts ==
    ASSUME TreeInv
    PROVE  /\ tree \in Edges /\ tree0 \in Edges
           /\ \E R \in SUBSET Removable : tree = Pruned(tree0, R)
           /\ tree[<<JbRoot, ROOTFS_NAME>>] = Root
           /\ Lookup(tree, Root, JBROOT) = JbRoot
           /\ \A n \in JbrootNames : tree0[<<JbParent, n>>] = JbRoot
<1>1. PICK R \in SUBSET Removable : tree = Pruned(tree0, R)
  BY DEF TreeInv
<1>2. tree0 \in Trees /\ tree0 \in Edges
  BY TreesAssumption DEF TreeInv
<1>3. tree \in Edges
  BY <1>1, <1>2 DEF Pruned, Edges
<1>4. tree[<<JbRoot, ROOTFS_NAME>>] = Root
  <2>1. <<JbRoot, ROOTFS_NAME>> \in Dir \X Name /\ <<JbRoot, ROOTFS_NAME>> \notin R
    BY DirAssumption, NamesAssumption, JbrootAssumption
  <2>2. tree0[<<JbRoot, ROOTFS_NAME>>] = Root
    BY <1>2, JbrootAssumption
  <2> QED
    BY <1>1, <2>1, <2>2 DEF Pruned
<1>5. Lookup(tree, Root, JBROOT) = JbRoot
  BY <1>1, <1>2, JbrootAssumption
<1> QED
  BY <1>1, <1>2, <1>3, <1>4, <1>5, JbrootAssumption

LEMMA LeadsGo ==
    ASSUME TreeInv, unlinks \in Nat, NEW n \in Place, NEW v \in Place, NEW x \in Item, Leads(n, v)
    PROVE  Leads(Go(tree, n, x), Go(tree0, v, x))
<1>1. PICK R \in SUBSET Removable : tree = Pruned(tree0, R)
  BY TreeFacts
<1>2. Go(tree, n, x) \in {Go(tree0, n, x), Nothing} /\ Go(tree, Nothing, x) = Nothing
  BY <1>1, TreeFacts, GoPruned, GoFacts
<1>3. CASE unlinks = 0
  BY <1>3 DEF Leads, TreeInv
<1>4. CASE unlinks > 0
  BY <1>2, <1>4 DEF Leads
<1> QED
  BY <1>3, <1>4

(* The next token, in the path.                                            *)
LEMMA TokenRead ==
    ASSUME InputInv, ReadInv, pc = "loop"
    PROVE  /\ Done \in 0 .. Len(path) /\ Token \in Item /\ Prefix \in Seq(Item)
           /\ left \in Seq(Item) /\ LeftBehind \in Seq(Item)
           /\ left = <<>> =>
                 /\ Token = "/" /\ ~HasSlash /\ Done = Len(path)
                 /\ path # <<>> /\ path[Len(path)] = "/" /\ Prefix = path
           /\ left # <<>> =>
                 /\ Done + 1 \in 1 .. Len(path) /\ Token = path[Done + 1]
                 /\ SubSeq(path, 1, Done + 1) = Append(Prefix, Token)
           /\ left # <<>> /\ Token = "/" =>
                 /\ HasSlash /\ LeftBehind = SubSeq(path, Done + 2, Len(path))
                 /\ Len(LeftBehind) = Len(path) - (Done + 1)
           /\ left # <<>> /\ Token # "/" /\ ~HasSlash => Done + 1 = Len(path)
           /\ left # <<>> /\ Token # "/" /\ HasSlash =>
                 /\ Done + 2 \in 1 .. Len(path) /\ path[Done + 2] = "/"
                 /\ LeftBehind = SubSeq(path, Done + 3, Len(path))
                 /\ Len(LeftBehind) = Len(path) - (Done + 2)
                 /\ SubSeq(path, 1, Done + 2) = Append(Append(Prefix, Token), "/")
<1> DEFINE k == Done
<1>1. path \in Seq(Item) /\ \A i \in 1 .. Len(path) - 1 : path[i] = "/" \/ path[i + 1] = "/"
  BY CallFacts
<1>2. path # <<>> /\ Len(path) \in Nat
  BY <1>1 DEF ReadInv
<1>3. k \in 0 .. Len(path) /\ left = SubSeq(path, k + 1, Len(path)) /\ Len(left) = Len(path) - k
  <2>1. left = SubSeq(path, k + 1, Len(path)) /\ Len(left) <= Len(path)
    BY DEF ReadInv
  <2>2. Len(left) \in Nat
    BY <1>1, <2>1 DEF Done
  <2> QED
    BY <1>2, <2>1, <2>2 DEF Done
<1>4. k > 0 => path[k] = "/"
  BY DEF ReadInv
<1>5. Prefix = SubSeq(path, 1, k)
  BY DEF Prefix
<1> HIDE DEF k
<1>6. left \in Seq(Item) /\ Prefix \in Seq(Item)
  BY <1>1, <1>2, <1>3, <1>5, SplitString
<1>7. CASE left = <<>>
  <2>1. k = Len(path)
    <3>1. Len(left) = 0
      BY <1>7
    <3>2. Len(left) = Len(path) - k /\ k \in Nat
      BY <1>3
    <3> QED
      BY <1>2, <3>1, <3>2
  <2>2. Prefix = path
    BY <1>1, <1>5, <2>1
  <2> QED
    BY <1>2, <1>3, <1>4, <1>6, <1>7, <2>1, <2>2, ItemFacts DEF k, Token, HasSlash, SlashAt, LeftBehind
<1>8. CASE left # <<>>
  <2>1. k + 1 \in 1 .. Len(path) /\ left[1] = path[k + 1] /\ path[k + 1] \in Item
    BY <1>1, <1>2, <1>3, <1>8
  <2>2. Token = path[k + 1]
    BY <1>8, <2>1 DEF Token
  <2>3. SubSeq(path, 1, k + 1) = Append(Prefix, Token)
    BY <1>1, <1>3, <1>5, <2>1, <2>2
  <2>4. CASE Token = "/"
    <3>1. SlashAt = 1 /\ HasSlash
      BY <1>3, <1>8, <2>1, <2>2, <2>4 DEF SlashAt, HasSlash
    <3>2. LeftBehind = SubSeq(path, k + 2, Len(path)) /\ Len(LeftBehind) = Len(path) - (k + 1)
      BY <1>1, <1>2, <1>3, <2>1, <3>1 DEF LeftBehind
    <3>3. LeftBehind \in Seq(Item)
      BY <1>6, <3>1 DEF LeftBehind
    <3> QED
      BY <1>3, <1>6, <1>8, <2>1, <2>2, <2>3, <2>4, <3>1, <3>2, <3>3 DEF k
  <2>5. CASE Token # "/"
    <3>1. SlashAt = 2
      BY <2>1, <2>2, <2>5 DEF SlashAt
    <3>2. LeftBehind \in Seq(Item)
      BY <1>6, <3>1 DEF LeftBehind
    <3>3. CASE HasSlash
      <4>1. k + 2 \in 1 .. Len(path)
        BY <1>2, <1>3, <3>1, <3>3 DEF HasSlash
      <4>2. path[k + 2] = "/"
        <5>1. k + 1 \in 1 .. Len(path) - 1 /\ (k + 1) + 1 = k + 2
          BY <1>2, <1>3, <4>1
        <5> QED
          BY <1>1, <2>2, <2>5, <5>1
      <4>3. LeftBehind = SubSeq(path, k + 3, Len(path)) /\ Len(LeftBehind) = Len(path) - (k + 2)
        BY <1>1, <1>2, <1>3, <4>1, <3>1 DEF LeftBehind
      <4>4. SubSeq(path, 1, k + 2) = Append(SubSeq(path, 1, k + 1), path[k + 2])
        <5> DEFINE m == k + 1
        <5>1. m \in 0 .. Len(path) - 1 /\ m + 1 = k + 2
          BY <1>2, <1>3, <4>1
        <5> HIDE DEF m
        <5>2. SubSeq(path, 1, m + 1) = Append(SubSeq(path, 1, m), path[m + 1])
          BY <1>1, <5>1
        <5> QED
          BY <5>1, <5>2 DEF m
      <4> QED
        BY <1>3, <1>6, <1>8, <2>1, <2>2, <2>3, <2>5, <3>2, <3>3, <4>1, <4>2, <4>3, <4>4 DEF k
    <3>4. CASE ~HasSlash
      <4>1. k + 1 = Len(path)
        BY <1>2, <1>3, <2>1, <3>1, <3>4 DEF HasSlash
      <4> QED
        BY <1>3, <1>6, <1>8, <2>1, <2>2, <2>3, <2>5, <3>2, <3>4, <4>1 DEF k
    <3> QED
      BY <3>3, <3>4
  <2> QED
    BY <2>4, <2>5
<1> QED
  BY <1>7, <1>8

(* The steps of who wrote the path.                                        *)
SeeGo(v, x) == IF op = "jbroot" THEN GoInJbroot(tree0, v, x) ELSE Go(tree0, v, x)

LEMMA SeeFacts ==
    ASSUME InputInv, TreeInv, NEW s \in Seq(Item)
    PROVE  /\ See(s) \in Place /\ See(<<>>) = From
           /\ \A x \in Item : See(Append(s, x)) = SeeGo(See(s), x) /\ SeeGo(See(s), x) \in Place
           /\ SeeGo(See(s), "/") = Go(tree0, See(s), "/")
           /\ s # <<>> /\ s[Len(s)] = "/" => Go(tree0, See(s), "/") = See(s)
<1>1. tree0 \in Edges /\ From \in Place /\ "/" \in Item
  BY CallFacts, TreeFacts, ItemFacts
<1> DEFINE w == Walk(tree0, From, s)
           j == WalkInJbroot(tree0, From, s)
<1>2. w \in Place /\ j \in Place
  BY <1>1, WalkType
<1>3. Walk(tree0, From, <<>>) = From /\ WalkInJbroot(tree0, From, <<>>) = From
  BY <1>1, WalkEmpty
<1>4. ASSUME NEW x \in Item
      PROVE  /\ Walk(tree0, From, Append(s, x)) = Go(tree0, w, x)
             /\ WalkInJbroot(tree0, From, Append(s, x)) = GoInJbroot(tree0, j, x)
             /\ Go(tree0, w, x) \in Place /\ GoInJbroot(tree0, j, x) \in Place
  BY <1>1, <1>2, WalkAppend, GoType
<1>5. GoInJbroot(tree0, j, "/") = Go(tree0, j, "/")
  BY <1>1, <1>2, GoFacts
<1>6. ASSUME s # <<>>, s[Len(s)] = "/"
      PROVE  Go(tree0, w, "/") = w /\ Go(tree0, j, "/") = j
  BY <1>1, <1>6, WalkTrailingSlash
<1> HIDE DEF w, j
<1>7. See(s) = IF op = "jbroot" THEN j ELSE w
  BY DEF See, w, j
<1> QED
  BY <1>2, <1>3, <1>4, <1>5, <1>6, <1>7 DEF See, SeeGo

(* How far the path is read when a token is.                               *)
ReadTo == Len(path) - Len(LeftBehind)

LEMMA SeeToken ==
    ASSUME InputInv, TreeInv, ReadInv, pc = "loop"
    PROVE  /\ See(Prefix) \in Place /\ SeeGo(See(Prefix), Token) \in Place
           /\ ~HasSlash => See(path) = SeeGo(See(Prefix), Token)
           /\ HasSlash => See(SubSeq(path, 1, ReadTo)) = Go(tree0, SeeGo(See(Prefix), Token), "/")
<1> DEFINE v == See(Prefix)
           t == Append(Prefix, Token)
<1>1. Prefix \in Seq(Item) /\ Token \in Item /\ "/" \in Item /\ Done \in 0 .. Len(path) /\ path \in Seq(Item)
  BY TokenRead, CallFacts, ItemFacts
<1>2. v \in Place /\ See(t) = SeeGo(v, Token) /\ SeeGo(v, Token) \in Place
  BY <1>1, SeeFacts
<1>3. t \in Seq(Item)
  BY <1>1
<1>4. CASE left = <<>>
  <2>1. Token = "/" /\ ~HasSlash /\ path # <<>> /\ path[Len(path)] = "/" /\ Prefix = path
    BY <1>4, TokenRead
  <2>2. SeeGo(See(path), "/") = See(path)
    BY <1>1, <2>1, SeeFacts
  <2> QED
    BY <1>2, <2>1, <2>2
<1>5. CASE left # <<>> /\ Token = "/"
  <2>1. /\ HasSlash /\ Len(LeftBehind) = Len(path) - (Done + 1)
        /\ SubSeq(path, 1, Done + 1) = t
    BY <1>5, TokenRead
  <2>2. ReadTo = Done + 1
    BY <1>1, <2>1 DEF ReadTo
  <2>3. t # <<>> /\ t[Len(t)] = "/"
    BY <1>1, <1>5
  <2> HIDE DEF t
  <2>4. Go(tree0, See(t), "/") = See(t)
    BY <1>3, <2>3, SeeFacts
  <2> QED
    BY <1>2, <2>1, <2>2, <2>4
<1>6. CASE left # <<>> /\ Token # "/" /\ ~HasSlash
  <2>1. Done + 1 = Len(path) /\ SubSeq(path, 1, Done + 1) = t
    BY <1>6, TokenRead
  <2>2. t = path
    BY <1>1, <2>1
  <2> QED
    BY <1>2, <1>6, <2>2
<1>7. CASE left # <<>> /\ Token # "/" /\ HasSlash
  <2>1. /\ Len(LeftBehind) = Len(path) - (Done + 2)
        /\ SubSeq(path, 1, Done + 2) = Append(t, "/")
    BY <1>7, TokenRead
  <2>2. ReadTo = Done + 2
    BY <1>1, <2>1 DEF ReadTo
  <2> HIDE DEF t
  <2>3. See(Append(t, "/")) = Go(tree0, See(t), "/")
    BY <1>1, <1>3, SeeFacts
  <2> QED
    BY <1>2, <1>7, <2>1, <2>2, <2>3
<1> QED
  BY <1>4, <1>5, <1>6, <1>7

(* Where what is written so far leads, in the words of the code.           *)
LEMMA SeparatedFacts ==
    ASSUME TypeOK, InputInv, TreeInv, NEW n \in Place
    PROVE  /\ Separated = Slashed(resolved) /\ Separated \in Seq(Item)
           /\ resolved = <<>> => Separated = <<>>
           /\ resolved # <<>> => Separated # <<>> /\ Separated[1] = resolved[1]
           /\ IsAbsolute(Separated) <=> IsAbsolute(resolved)
           /\ Walk(tree, n, Separated) \in Place
           /\ \A x \in Item : /\ Append(Separated, x) \in Seq(Item)
                              /\ Append(Separated, x) # <<>>
                              /\ Walk(tree, n, Append(Separated, x)) =
                                    Go(tree, Walk(tree, n, Separated), x)
<1>1. resolved \in Seq(Item) /\ tree \in Edges
  BY TreeFacts DEF TypeOK
<1>2. Separated = Slashed(resolved)
  BY DEF Separated, Slashed
<1>3. resolved = <<>> => Separated = <<>>
  BY DEF Separated
<1>4. resolved # <<>> =>
        Separated \in Seq(Item) /\ Separated # <<>> /\ Separated[1] = resolved[1]
  BY <1>1, <1>2, WalkSlashed
<1>5. Separated \in Seq(Item)
  BY <1>1, <1>3, <1>4
<1>6. IsAbsolute(Separated) <=> IsAbsolute(resolved)
  BY <1>3, <1>4 DEF IsAbsolute
<1>7. \A x \in Item : Append(Separated, x) \in Seq(Item) /\ Append(Separated, x) # <<>>
  BY <1>5, AppendFacts
<1> QED
  BY <1>1, <1>2, <1>3, <1>4, <1>5, <1>6, <1>7, WalkType, WalkAppend

LEMMA WalkSingle ==
    ASSUME NEW e \in Edges, NEW n \in Place, NEW x \in Item
    PROVE  /\ <<x>> \in Seq(Item) /\ <<x>> # <<>>
           /\ Walk(e, n, <<x>>) = Go(e, n, x)
           /\ WalkInJbroot(e, n, <<x>>) = GoInJbroot(e, n, x)
<1> DEFINE empty == <<>>
<1>1. empty \in Seq(Item) /\ Append(empty, x) = <<x>>
  OBVIOUS
<1>2. Walk(e, n, empty) = n /\ WalkInJbroot(e, n, empty) = n
  BY WalkEmpty
<1> HIDE DEF empty
<1>3. /\ Walk(e, n, Append(empty, x)) = Go(e, n, x)
      /\ WalkInJbroot(e, n, Append(empty, x)) = GoInJbroot(e, n, x)
  <2>1. /\ Walk(e, n, Append(empty, x)) = Go(e, Walk(e, n, empty), x)
        /\ WalkInJbroot(e, n, Append(empty, x)) = GoInJbroot(e, WalkInJbroot(e, n, empty), x)
    BY <1>1, WalkAppend
  <2> QED
    BY Zenon, <1>2, <2>1
<1>4. Walk(e, n, <<x>>) = Go(e, n, x)
  BY Zenon, <1>1, <1>3
<1>5. WalkInJbroot(e, n, <<x>>) = GoInJbroot(e, n, x)
  BY Zenon, <1>1, <1>3
<1> QED
  BY <1>4, <1>5

LEMMA IsAbsoluteAppend ==
    ASSUME NEW s \in Seq(Item), NEW x \in Item
    PROVE  IsAbsolute(Append(s, x)) <=> IF s = <<>> THEN x = "/" ELSE IsAbsolute(s)
  BY AppendFacts DEF IsAbsolute

(* fstatat() of a converted part finds the directory it leads to.          *)
LEMMA StatFacts ==
    ASSUME TreeInv, NEW d \in Dir, NEW s \in Seq(Item)
    PROVE  Stat(d, s) = Walk(tree, IF IsAbsolute(s) THEN Root ELSE d, s)
<1>1. d \in Place /\ tree \in Edges /\ "." \in Item
  BY PlaceFacts, TreeFacts, ItemFacts
<1>2. CASE s = <<>>
  <2>1. <<".">> # <<>> /\ ~IsAbsolute(<<".">>)
    BY DEF IsAbsolute
  <2>2. Walk(tree, d, <<".">>) = Go(tree, d, ".")
    BY <1>1, WalkSingle
  <2>3. Go(tree, d, ".") = d
    BY <1>1, GoFacts
  <2>4. Stat(d, s) = Walk(tree, d, <<".">>)
    BY <1>2, <2>1 DEF Stat, Lookup
  <2>5. Walk(tree, d, s) = d /\ ~IsAbsolute(s)
    BY <1>1, <1>2, WalkEmpty DEF IsAbsolute
  <2> QED
    BY <2>2, <2>3, <2>4, <2>5
<1>3. CASE s # <<>>
  BY <1>3 DEF Stat, Lookup
<1> QED
  BY <1>2, <1>3

LEMMA CheckedDirFacts ==
    ASSUME TypeOK, InputInv, TreeInv, WrittenInv, op = "jbroot", InScope(resolved)
    PROVE  CheckedDir = Walk(tree, Base, Separated)
<1>1. Base = From /\ tree \in Edges /\ JbRoot \in Dir /\ start \in Dir
  BY CallFacts, TreeFacts, PlaceFacts DEF Base, WrittenInv
<1>2. Separated \in Seq(Item) /\ (IsAbsolute(Separated) <=> IsAbsolute(resolved))
  BY SeparatedFacts, PlaceFacts
<1>3. CASE IsAbsolute(path)
  <2>1. /\ StripSlashes(Separated) \in Seq(Item) /\ ~IsAbsolute(StripSlashes(Separated))
        /\ Walk(tree, JbRoot, StripSlashes(Separated)) = Walk(tree, JbRoot, Separated)
    BY <1>1, <1>2, StripSlashesFacts
  <2> QED
    BY <1>1, <1>3, <2>1, StatFacts DEF CheckedDir, From
<1>4. CASE ~IsAbsolute(path)
  BY <1>1, <1>2, <1>4, StatFacts DEF CheckedDir, From, InScope
<1> QED
  BY <1>3, <1>4

LEMMA SeparatedIs ==
    ASSUME TypeOK, InputInv, TreeInv
    PROVE  /\ Separated = Slashed(resolved) /\ Separated \in Seq(Item)
           /\ Separated = <<>> <=> resolved = <<>>
           /\ IsAbsolute(Separated) <=> IsAbsolute(resolved)
           /\ Separated # <<>> => Separated[Len(Separated)] = "/"
<1>1. Nothing \in Place /\ tree \in Edges /\ resolved \in Seq(Item)
  BY PlaceFacts, TreeFacts DEF TypeOK
<1>2. /\ Separated = Slashed(resolved) /\ Separated \in Seq(Item)
      /\ Separated = <<>> <=> resolved = <<>>
      /\ IsAbsolute(Separated) <=> IsAbsolute(resolved)
  BY <1>1, SeparatedFacts
<1> QED
  BY <1>1, <1>2, WalkSlashed

(***************************************************************************)
(* Every token that jbrootat_alloc writes leads where the token it reads   *)
(* leads in the jbroot view: a ".." never above jbroot.                    *)
(***************************************************************************)
LEMMA JbrootTokenLeads ==
    ASSUME TypeOK, InputInv, TreeInv, ReadInv, WrittenInv, LeadsInv,
           pc = "loop", op = "jbroot", InScope(JbrootToken)
    PROVE  Leads(Walk(tree, Base, JbrootToken), SeeGo(See(Prefix), Token))
<1> DEFINE n == Walk(tree, Base, Separated)
           v == See(Prefix)
<1>1. /\ Token \in Item /\ v \in Place /\ n \in Place /\ Base \in Place /\ Base = From
      /\ tree \in Edges /\ tree0 \in Edges /\ unlinks \in Nat
  <2>1. Base = From
    BY DEF Base, WrittenInv
  <2>2. Prefix \in Seq(Item)
    BY TokenRead
  <2> QED
    BY <2>1, <2>2, TokenRead, SeeFacts, CallFacts, SeparatedFacts, TreeFacts,
       RemovableAssumption DEF TypeOK
<1>2. ASSUME NEW x \in Item
      PROVE  /\ Walk(tree, Base, Append(Separated, x)) = Go(tree, n, x)
             /\ IsAbsolute(resolved) => IsAbsolute(Append(Separated, x))
  <2>1. Separated \in Seq(Item) /\ (IsAbsolute(Separated) <=> IsAbsolute(resolved))
    BY <1>1, SeparatedFacts
  <2>2. IsAbsolute(Separated) => IsAbsolute(Append(Separated, x))
    BY <2>1, IsAbsoluteAppend DEF IsAbsolute
  <2> QED
    BY <1>1, <2>1, <2>2, SeparatedFacts
<1>3. InScope(resolved)
  <2>1. IsAbsolute(resolved) => IsAbsolute(JbrootToken)
    <3>1. IsAbsolute(<<"/">>)
      BY DEF IsAbsolute
    <3> QED
      BY <1>1, <1>2, <3>1, ItemFacts DEF JbrootToken
  <2> QED
    BY <2>1 DEF InScope
<1>4. Leads(n, v)
  BY <1>3 DEF LeadsInv
<1>5. CheckedDir = n
  BY <1>3, CheckedDirFacts
<1>6. JbRoot # Nothing /\ Root # Nothing /\ JbRoot \in Dir /\ JbRoot \in Place
  BY PlaceFacts
<1> HIDE DEF n, v
<1>7. CASE Token # ".."
  <2>1. JbrootToken = Append(Separated, Token)
    BY <1>7 DEF JbrootToken
  <2>2. SeeGo(v, Token) = Go(tree0, v, Token)
    BY <1>1, <1>7, GoFacts DEF SeeGo
  <2> QED
    BY <1>1, <1>2, <1>4, <2>1, <2>2, LeadsGo DEF n, v
<1>8. CASE Token = ".." /\ n = JbRoot
  <2>1. JbrootToken = Append(Separated, ".")
    BY <1>5, <1>8 DEF JbrootToken
  <2>2. Walk(tree, Base, JbrootToken) = JbRoot
    <3>1. Walk(tree, Base, JbrootToken) = Go(tree, n, ".")
      BY <1>2, <2>1, ItemFacts
    <3>2. Go(tree, JbRoot, ".") = JbRoot
      BY <1>1, <1>6, ItemFacts, GoFacts
    <3> QED
      BY <1>8, <3>1, <3>2
  <2>3. v = JbRoot
    BY <1>4, <1>6, <1>8 DEF Leads
  <2>4. SeeGo(v, Token) = JbRoot
    BY <1>8, <2>3 DEF SeeGo, GoInJbroot
  <2> QED
    BY <2>2, <2>4 DEF Leads, v
<1>9. CASE Token = ".." /\ n # JbRoot /\ n = Root
  <2>1. JbrootToken = <<"/">>
    BY <1>5, <1>9 DEF JbrootToken
  <2>2. Base = JbRoot
    BY <1>1, <2>1 DEF From, InScope, IsAbsolute
  <2>3. Walk(tree, JbRoot, <<"/">>) = JbRoot
    <3>1. Walk(tree, JbRoot, <<"/">>) = Go(tree, JbRoot, "/")
      BY <1>1, <1>6, ItemFacts, WalkSingle
    <3>2. Go(tree, JbRoot, "/") = JbRoot
      BY <1>1, <1>6, ItemFacts, GoFacts
    <3> QED
      BY <3>1, <3>2
  <2>4. v = Root
    BY <1>4, <1>6, <1>9 DEF Leads
  <2>5. SeeGo(v, Token) = JbRoot
    BY <1>9, <2>4 DEF SeeGo, GoInJbroot
  <2> QED
    BY <2>1, <2>2, <2>3, <2>5 DEF Leads, v
<1>10. CASE Token = ".." /\ n # JbRoot /\ n # Root
  <2>1. JbrootToken = Append(Separated, Token)
    BY <1>5, <1>10 DEF JbrootToken
  <2>2. Leads(Go(tree, n, Token), Go(tree0, v, Token))
    BY <1>1, <1>4, LeadsGo
  <2>3. CASE n = v
    <3>1. SeeGo(v, Token) = Go(tree0, v, Token)
      BY <1>1, <1>10, <2>3, GoFacts DEF SeeGo
    <3> QED
      BY <1>1, <1>2, <2>1, <2>2, <3>1 DEF v
  <2>4. CASE n = Nothing /\ unlinks > 0
    <3>1. Go(tree, n, Token) = Nothing
      BY <1>1, <2>4, GoFacts
    <3> QED
      BY <1>1, <1>2, <2>1, <2>4, <3>1 DEF Leads
  <2> QED
    BY <1>4, <2>3, <2>4 DEF Leads
<1> QED
  BY <1>7, <1>8, <1>9, <1>10

(***************************************************************************)
(* Every token that rootfs_alloc writes leads a process in jbroot where    *)
(* the token it reads leads the kernel: the name of a jbroot directory in  *)
(* its parent leads to jbroot.                                             *)
(***************************************************************************)
LEMMA RootfsTokenLeads ==
    ASSUME TypeOK, InputInv, TreeInv, ReadInv, WrittenInv, LeadsInv,
           pc = "loop", op = "rootfs", InScope(resolved)
    PROVE  Leads(Walk(tree, IF based \/ IsJbrootDir THEN JbRoot ELSE From, RootfsToken),
                 SeeGo(See(Prefix), Token))
<1> DEFINE n == Walk(tree, Base, Separated)
           v == See(Prefix)
<1>1. /\ Token \in Item /\ v \in Place /\ n \in Place /\ Base \in Place
      /\ tree \in Edges /\ tree0 \in Edges /\ unlinks \in Nat
  <2>1. Prefix \in Seq(Item)
    BY TokenRead
  <2> QED
    BY <2>1, TokenRead, SeeFacts, CallFacts, SeparatedFacts, TreeFacts,
       RemovableAssumption DEF TypeOK
<1>2. Leads(n, v)
  BY DEF LeadsInv
<1>3. SeeGo(v, Token) = Go(tree0, v, Token)
  BY DEF SeeGo
<1> HIDE DEF n, v
<1>4. CASE IsJbrootDir
  <2>1. Token \in JbrootNames /\ Token \in Name /\ Token # "/"
    BY <1>4, NamesAssumption, NameAssumption DEF IsJbrootDir
  <2>2. left # <<>> /\ Done \in 0 .. Len(path) /\ Done + 1 \in 1 .. Len(path) /\ Token = path[Done + 1]
    BY <2>1, TokenRead
  <2>3. ~based
    <3> SUFFICES ASSUME based
                 PROVE  FALSE
      OBVIOUS
    <3>1. PICK i \in 1 .. Done : path[i] \in JbrootNames
      BY DEF WrittenInv
    <3>2. i \in JbrootNamesIn(path) /\ Done + 1 \in JbrootNamesIn(path) /\ i # Done + 1
      BY <2>1, <2>2, <3>1 DEF JbrootNamesIn
    <3> QED
      BY <3>2 DEF InScope
  <2>4. resolved = <<>> => ~IsAbsolute(path)
    BY <2>1, <2>2 DEF ReadInv, IsAbsolute
  <2>5. Stat(start, Separated) = n
    <3>1. Stat(start, Separated) = Walk(tree, IF IsAbsolute(resolved) THEN Root ELSE start, Separated)
      BY <1>1, CallFacts, SeparatedFacts, StatFacts
    <3>2. Base = IF IsAbsolute(resolved) THEN Root ELSE start
      BY <2>3, <2>4 DEF Base, From, WrittenInv, IsAbsolute
    <3> QED
      BY <3>1, <3>2 DEF n
  <2>6. v = JbParent
    BY <1>2, <1>4, <2>5, PlaceFacts DEF Leads, IsJbrootDir
  <2>7. SeeGo(v, Token) = JbRoot
    <3>1. Go(tree0, JbParent, Token) = tree0[<<JbParent, Token>>]
      BY <1>1, <2>1, PlaceFacts, GoFacts
    <3> QED
      BY <1>3, <2>1, <2>6, <3>1, TreeFacts
  <2>8. Walk(tree, JbRoot, <<"/">>) = JbRoot
    <3>1. Walk(tree, JbRoot, <<"/">>) = Go(tree, JbRoot, "/")
      BY <1>1, PlaceFacts, ItemFacts, WalkSingle
    <3>2. Go(tree, JbRoot, "/") = JbRoot
      BY <1>1, PlaceFacts, ItemFacts, GoFacts
    <3> QED
      BY <3>1, <3>2
  <2> QED
    BY <1>4, <2>7, <2>8 DEF RootfsToken, Leads, v
<1>5. CASE ~IsJbrootDir
  <2>1. RootfsToken = Append(Separated, Token)
    BY <1>5 DEF RootfsToken
  <2>2. Walk(tree, Base, Append(Separated, Token)) = Go(tree, n, Token)
    BY <1>1, SeparatedFacts DEF n
  <2>3. Leads(Go(tree, n, Token), Go(tree0, v, Token))
    BY <1>1, <1>2, LeadsGo
  <2>4. Base = IF based \/ IsJbrootDir THEN JbRoot ELSE From
    BY <1>5 DEF Base
  <2> QED
    BY <1>3, <2>1, <2>2, <2>3, <2>4 DEF v
<1> QED
  BY <1>4, <1>5

(* One iteration, of either conversion.                                    *)
NewResolved == IF op = "jbroot" THEN JbrootToken ELSE RootfsToken
NewBased == IF op = "jbroot" THEN based ELSE based \/ IsJbrootDir
NewDone == IF HasSlash THEN ReadTo ELSE Len(path)

LEMMA TokenLeads ==
    ASSUME TypeOK, InputInv, TreeInv, ReadInv, WrittenInv, LeadsInv,
           pc = "loop", InScope(NewResolved)
    PROVE  Leads(Walk(tree, IF NewBased THEN JbRoot ELSE From, NewResolved),
                 SeeGo(See(Prefix), Token))
<1>1. CASE op = "jbroot"
  <2>1. NewResolved = JbrootToken /\ (IF NewBased THEN JbRoot ELSE From) = Base
    BY <1>1 DEF NewResolved, NewBased, Base
  <2> QED
    BY <1>1, <2>1, JbrootTokenLeads
<1>2. CASE op = "rootfs"
  <2>1. NewResolved = RootfsToken /\ (NewBased <=> based \/ IsJbrootDir)
    BY <1>2 DEF NewResolved, NewBased
  <2>2. InScope(resolved)
    BY <1>2 DEF InScope
  <2> QED
    BY <1>2, <2>1, <2>2, RootfsTokenLeads
<1> QED
  BY <1>1, <1>2, CallFacts

(* The string is as before with one item more, or starts again at "/".     *)
LEMMA NewResolvedIs ==
    ASSUME TypeOK, InputInv, TreeInv, ReadInv, pc = "loop"
    PROVE  /\ NewResolved \in Seq(Item) /\ NewResolved # <<>> /\ NewBased \in BOOLEAN
           /\ \/ NewResolved = <<"/">> /\ Token # "/"
              \/ \E x \in Item : /\ NewResolved = Append(Separated, x)
                                 /\ x = "/" <=> Token = "/"
                                 /\ x # Token => op = "jbroot" /\ x = "." /\ Token = ".."
           /\ NewResolved # Append(Separated, Token) => Token # "/"
           /\ op = "rootfs" /\ ~IsJbrootDir => NewResolved = Append(Separated, Token)
           /\ op = "rootfs" /\ IsJbrootDir =>
                 NewResolved = <<"/">> /\ Token \in JbrootNames /\ left # <<>>
<1>1. Token \in Item /\ Separated \in Seq(Item) /\ op \in {"jbroot", "rootfs"}
  BY TokenRead, SeparatedFacts, PlaceFacts, CallFacts
<1>2. \A x \in Item : Append(Separated, x) \in Seq(Item) /\ Append(Separated, x) # <<>>
  BY <1>1, AppendFacts
<1>3. <<"/">> \in Seq(Item) /\ <<"/">> # <<>>
  BY ItemFacts
<1>4. IsJbrootDir => Token \in JbrootNames /\ Token # "/" /\ left # <<>>
  BY NamesAssumption, NameAssumption DEF IsJbrootDir, Token
<1>5. NewBased \in BOOLEAN
  BY DEF NewBased, TypeOK, IsJbrootDir
<1>6. CASE op = "jbroot"
  BY <1>1, <1>2, <1>3, <1>5, <1>6, ItemFacts DEF NewResolved, JbrootToken
<1>7. CASE op = "rootfs"
  BY <1>1, <1>2, <1>3, <1>4, <1>5, <1>7 DEF NewResolved, RootfsToken
<1> QED
  BY <1>1, <1>6, <1>7

LEMMA NewDoneIs ==
    ASSUME InputInv, ReadInv, pc = "loop"
    PROVE  /\ NewDone \in Done .. Len(path) /\ Done \in Nat
           /\ left # <<>> => NewDone > Done /\ Done + 1 \in 1 .. NewDone
           /\ NewDone > 0
           /\ HasSlash => /\ ReadTo = NewDone /\ path[NewDone] = "/"
                          /\ LeftBehind = SubSeq(path, NewDone + 1, Len(path))
                          /\ Len(LeftBehind) <= Len(path)
<1>1. path \in Seq(Item) /\ path # <<>> /\ Len(path) \in Nat /\ Len(path) > 0
  BY CallFacts DEF ReadInv
<1>2. Done \in 0 .. Len(path)
  BY TokenRead
<1>3. CASE ~HasSlash
  BY <1>1, <1>2, <1>3, TokenRead DEF NewDone
<1>4. CASE HasSlash /\ Token = "/"
  <2>1. left # <<>>
    BY <1>4, TokenRead
  <2>2. /\ Done + 1 \in 1 .. Len(path) /\ Token = path[Done + 1]
        /\ LeftBehind = SubSeq(path, Done + 2, Len(path))
        /\ Len(LeftBehind) = Len(path) - (Done + 1)
    BY <1>4, <2>1, TokenRead
  <2>3. ReadTo = Done + 1
    <3> DEFINE k == Done
    <3>1. k \in Int /\ Len(path) \in Int /\ Len(LeftBehind) = Len(path) - (k + 1)
      BY <1>1, <1>2, <2>2
    <3> HIDE DEF k
    <3>2. ReadTo = k + 1
      BY <3>1 DEF ReadTo
    <3> QED
      BY <3>2 DEF k
  <2>4. NewDone = ReadTo
    BY <1>4 DEF NewDone
  <2> QED
    BY <1>1, <1>2, <1>4, <2>1, <2>2, <2>3, <2>4
<1>5. CASE HasSlash /\ Token # "/"
  <2>1. left # <<>>
    BY <1>5, TokenRead
  <2>2. /\ Done + 2 \in 1 .. Len(path) /\ path[Done + 2] = "/"
        /\ LeftBehind = SubSeq(path, Done + 3, Len(path))
        /\ Len(LeftBehind) = Len(path) - (Done + 2)
    BY <1>5, <2>1, TokenRead
  <2>3. ReadTo = Done + 2
    <3> DEFINE k == Done
    <3>1. k \in Int /\ Len(path) \in Int /\ Len(LeftBehind) = Len(path) - (k + 2)
      BY <1>1, <1>2, <2>2
    <3> HIDE DEF k
    <3>2. ReadTo = k + 2
      BY <3>1 DEF ReadTo
    <3> QED
      BY <3>2 DEF k
  <2>4. NewDone = ReadTo
    BY <1>5 DEF NewDone
  <2> QED
    BY <1>1, <1>2, <1>5, <2>1, <2>2, <2>3, <2>4
<1> QED
  BY <1>3, <1>4, <1>5

LEMMA NewWritten ==
    ASSUME TypeOK, InputInv, TreeInv, ReadInv, WrittenInv, pc = "loop"
    PROVE  /\ Len(NewResolved) > 1 /\ NewResolved[Len(NewResolved)] = "/" =>
                 NewResolved[Len(NewResolved) - 1] = "/"
           /\ IsAbsolute(path) => IsAbsolute(NewResolved)
           /\ NewBased => /\ op = "rootfs" /\ IsAbsolute(NewResolved)
                          /\ \E i \in 1 .. NewDone : path[i] \in JbrootNames
           /\ op = "rootfs" /\ ~NewBased /\ ~IsAbsolute(path) => ~IsAbsolute(NewResolved)
           /\ op = "rootfs" /\ ~HasDotDot =>
                 \A i \in 1 .. Len(NewResolved) : NewResolved[i] # ".."
<1> DEFINE r == Separated
<1>1. /\ r \in Seq(Item) /\ Token \in Item
      /\ (IsAbsolute(r) <=> IsAbsolute(resolved)) /\ (r = <<>> <=> resolved = <<>>)
      /\ r = Slashed(resolved)
  BY SeparatedIs, TokenRead
<1>2. r # <<>> => r[Len(r)] = "/"
  BY SeparatedIs
<1>3. \A x \in Item : /\ Append(r, x) \in Seq(Item) /\ Len(Append(r, x)) = Len(r) + 1
                       /\ Append(r, x)[Len(r) + 1] = x
                       /\ \A i \in 1 .. Len(r) : Append(r, x)[i] = r[i]
  BY <1>1, AppendFacts
<1>4. \/ NewResolved = <<"/">> /\ Token # "/"
      \/ \E x \in Item : /\ NewResolved = Append(r, x)
                         /\ x = "/" <=> Token = "/"
                         /\ x # Token => op = "jbroot" /\ x = "." /\ Token = ".."
  BY NewResolvedIs
<1>5. IsAbsolute(<<"/">>) /\ Len(<<"/">>) = 1 /\ <<"/">>[1] = "/"
  BY DEF IsAbsolute
<1>6. resolved = <<>> => Done = 0 /\ left # <<>> /\ Token = path[1] /\ path # <<>>
  <2>1. resolved = <<>> => Done = 0
    BY DEF ReadInv
  <2>2. Done = 0 => left # <<>>
    BY CallFacts, TokenRead
  <2>3. path # <<>>
    BY DEF ReadInv
  <2> QED
    BY <2>1, <2>2, <2>3, TokenRead
<1>7. resolved # <<>> => r # <<>>
  BY <1>1
<1> HIDE DEF r
<1>8. Len(NewResolved) > 1 /\ NewResolved[Len(NewResolved)] = "/" =>
        NewResolved[Len(NewResolved) - 1] = "/"
  <2>1. CASE NewResolved = <<"/">>
    BY <1>5, <2>1
  <2>2. ASSUME NEW x \in Item, NewResolved = Append(r, x), Len(NewResolved) > 1
        PROVE  NewResolved[Len(NewResolved) - 1] = "/"
    <3>1. Len(NewResolved) = Len(r) + 1 /\ Len(r) \in 1 .. Len(r) /\ r # <<>>
      BY <1>1, <1>3, <2>2
    <3>2. NewResolved[Len(r)] = r[Len(r)]
      BY <1>3, <2>2, <3>1
    <3>3. Len(NewResolved) - 1 = Len(r)
      BY <1>1, <3>1
    <3> QED
      BY <1>2, <3>1, <3>2, <3>3
  <2>3. NewResolved = <<"/">> \/ \E x \in Item : NewResolved = Append(r, x)
    BY <1>4
  <2> QED
    BY <2>1, <2>2, <2>3
<1>9. IsAbsolute(resolved) => IsAbsolute(NewResolved)
  <2>1. CASE NewResolved = <<"/">>
    BY <1>5, <2>1
  <2>2. ASSUME NEW x \in Item, NewResolved = Append(r, x), IsAbsolute(resolved)
        PROVE  IsAbsolute(NewResolved)
    <3>1. r # <<>> /\ IsAbsolute(r)
      BY <1>1, <2>2 DEF IsAbsolute
    <3> QED
      BY <1>1, <2>2, <3>1, IsAbsoluteAppend
  <2>3. NewResolved = <<"/">> \/ \E x \in Item : NewResolved = Append(r, x)
    BY <1>4
  <2> QED
    BY <2>1, <2>2, <2>3
<1>10. IsAbsolute(path) => IsAbsolute(NewResolved)
  <2>1. CASE resolved # <<>>
    BY <1>9, <2>1 DEF WrittenInv
  <2>2. CASE resolved = <<>> /\ IsAbsolute(path)
    <3>1. Token = "/" /\ r = <<>>
      BY <1>1, <1>6, <2>2 DEF IsAbsolute
    <3>2. NewResolved = Append(r, "/") /\ "/" \in Item
      BY <1>4, <3>1, ItemFacts
    <3> QED
      BY <1>1, <3>1, <3>2, IsAbsoluteAppend
  <2> QED
    BY <2>1, <2>2
<1>11. ASSUME NewBased
       PROVE  /\ op = "rootfs" /\ IsAbsolute(NewResolved)
              /\ \E i \in 1 .. NewDone : path[i] \in JbrootNames
  <2>1. op = "rootfs" /\ (based \/ IsJbrootDir)
    BY <1>11, CallFacts DEF NewBased, WrittenInv
  <2>2. NewDone \in Done .. Len(path) /\ Done \in Nat
    BY NewDoneIs
  <2>3. CASE based
    <3>1. PICK i \in 1 .. Done : path[i] \in JbrootNames
      BY <2>3 DEF WrittenInv
    <3>2. i \in 1 .. NewDone
      BY <2>2, <3>1, CallFacts
    <3> QED
      BY <1>9, <2>1, <2>3, <3>1, <3>2 DEF WrittenInv
  <2>4. CASE IsJbrootDir
    <3>1. NewResolved = <<"/">> /\ Token \in JbrootNames /\ left # <<>>
      BY <2>1, <2>4, NewResolvedIs
    <3>2. Done + 1 \in 1 .. NewDone /\ path[Done + 1] = Token
      BY <3>1, NewDoneIs, TokenRead
    <3> QED
      BY <1>5, <2>1, <3>1, <3>2
  <2> QED
    BY <2>1, <2>3, <2>4
<1>12. ASSUME op = "rootfs", ~NewBased, ~IsAbsolute(path)
       PROVE  ~IsAbsolute(NewResolved)
  <2>1. ~based /\ ~IsJbrootDir
    BY <1>12 DEF NewBased
  <2>2. NewResolved = Append(r, Token)
    BY <1>12, <2>1, NewResolvedIs DEF r
  <2>3. ~IsAbsolute(resolved)
    BY <1>12, <2>1 DEF WrittenInv
  <2>4. resolved = <<>> => Token # "/"
    BY <1>6, <1>12 DEF IsAbsolute
  <2> QED
    BY <1>1, <2>2, <2>3, <2>4, IsAbsoluteAppend
<1>13. ASSUME op = "rootfs", ~HasDotDot, NEW i \in 1 .. Len(NewResolved)
       PROVE  NewResolved[i] # ".."
  <2>1. Token # ".."
    BY <1>13, TokenRead DEF HasDotDot
  <2>2. \A k \in 1 .. Len(resolved) : resolved[k] # ".."
    BY <1>13 DEF WrittenInv
  <2>3. \A k \in 1 .. Len(r) : r[k] # ".."
    <3>1. resolved \in Seq(Item) /\ "/" \in Item
      BY ItemFacts DEF TypeOK
    <3>2. CASE r = resolved
      BY <2>2, <3>2
    <3>3. CASE r = Append(resolved, "/")
      <4>1. Len(r) = Len(resolved) + 1 /\ r[Len(resolved) + 1] = "/" /\ Len(resolved) \in Nat
        BY <3>1, <3>3, AppendFacts
      <4>2. \A k \in 1 .. Len(resolved) : r[k] = resolved[k]
        BY <3>1, <3>3, AppendFacts
      <4> QED
        BY <2>2, <4>1, <4>2
    <3> QED
      BY <1>1, <3>2, <3>3 DEF Slashed
  <2>4. CASE NewResolved = <<"/">>
    BY <1>5, <2>4
  <2>5. CASE NewResolved = Append(r, Token)
    <3>1. i \in 1 .. Len(r) \/ i = Len(r) + 1
      BY <1>1, <1>3, <2>5
    <3> QED
      BY <1>1, <1>3, <2>1, <2>3, <2>5, <3>1
  <2>6. NewResolved = <<"/">> \/ NewResolved = Append(r, Token)
    BY <1>4, <1>13
  <2> QED
    BY <2>4, <2>5, <2>6
<1> QED
  BY <1>8, <1>10, <1>11, <1>12, <1>13

LEMMA NewLength ==
    ASSUME TypeOK, InputInv, TreeInv, ReadInv, LengthInv, pc = "loop"
    PROVE  /\ StrLen(Separated) <= StrLen(path) /\ StrLen(NewResolved) <= StrLen(path) + 1
           /\ {StrLen(Separated), StrLen(NewResolved), StrLen(path)} \subseteq Nat
           /\ HasSlash => StrLen(Slashed(NewResolved)) <= StrLen(SubSeq(path, 1, NewDone))
<1> DEFINE r == Separated
           a == NewResolved
           t == Append(Prefix, Token)
           u == SubSeq(path, 1, NewDone)
<1>1. /\ r \in Seq(Item) /\ a \in Seq(Item) /\ Token \in Item /\ Prefix \in Seq(Item)
      /\ path \in Seq(Item) /\ Done \in 0 .. Len(path) /\ Len(path) \in Nat
  <2>1. r \in Seq(Item) /\ a \in Seq(Item)
    BY SeparatedIs, NewResolvedIs
  <2>2. path \in Seq(Item) /\ Len(path) \in Nat
    BY CallFacts
  <2> QED
    BY <2>1, <2>2, TokenRead
<1>2. t \in Seq(Item) /\ NewDone \in 0 .. Len(path) /\ u \in Seq(Item)
  <2>1. t \in Seq(Item)
    BY <1>1, AppendFacts
  <2>2. NewDone \in 0 .. Len(path)
    BY <1>1, NewDoneIs
  <2> QED
    BY <1>1, <2>1, <2>2, SplitString
<1>3. /\ StrLen(r) \in Nat /\ StrLen(a) \in Nat /\ StrLen(path) \in Nat /\ StrLen(Prefix) \in Nat
      /\ StrLen(u) \in Nat /\ StrLen(t) = StrLen(Prefix) + Length[Token]
      /\ Length[Token] \in Nat \ {0}
  BY <1>1, <1>2, StrLenType, StrLenAppend, LengthAssumption
<1>4. StrLen(r) <= StrLen(Prefix) /\ StrLen(Prefix) <= StrLen(path)
  <2>1. StrLen(SubSeq(path, 1, Done)) <= StrLen(path)
    BY <1>1, StrLenPrefix
  <2> QED
    BY <2>1 DEF LengthInv, Prefix
<1>5. StrLen(a) <= StrLen(r) + Length[Token]
  <2>1. CASE a = <<"/">>
    <3> DEFINE empty == <<>>
    <3>1. empty \in Seq(Item) /\ Append(empty, "/") = <<"/">> /\ "/" \in Item
      BY ItemFacts
    <3>2. StrLen(empty) = 0
      BY StrLenEmpty
    <3> HIDE DEF empty
    <3>3. StrLen(Append(empty, "/")) = 1
      BY <3>1, <3>2, StrLenAppend, LengthAssumption
    <3>4. StrLen(a) = 1
      BY Zenon, <2>1, <3>1, <3>3
    <3> QED
      BY <1>3, <3>4
  <2>2. ASSUME NEW x \in Item, a = Append(r, x), x # Token => x = "." /\ Token = ".."
        PROVE  StrLen(a) <= StrLen(r) + Length[Token]
    <3>1. StrLen(a) = StrLen(r) + Length[x] /\ Length[x] \in Nat
      BY <1>1, <2>2, StrLenAppend, LengthAssumption
    <3>2. Length[x] <= Length[Token]
      BY <1>3, <2>2, <3>1, LengthAssumption
    <3> QED
      BY <1>3, <3>1, <3>2
  <2> QED
    BY <2>1, <2>2, NewResolvedIs
<1>6. StrLen(a) <= StrLen(path) + 1
  <2>1. CASE left = <<>>
    <3>1. Prefix = path /\ Length[Token] = 1
      BY <2>1, TokenRead, LengthAssumption
    <3> QED
      BY <1>3, <1>4, <1>5, <3>1
  <2>2. CASE left # <<>>
    <3>1. Done + 1 \in 0 .. Len(path) /\ SubSeq(path, 1, Done + 1) = t
      BY <1>1, <2>2, TokenRead
    <3>2. StrLen(SubSeq(path, 1, Done + 1)) <= StrLen(path)
      BY <1>1, <3>1, StrLenPrefix
    <3>3. StrLen(t) <= StrLen(path)
      BY <3>1, <3>2
    <3> QED
      BY <1>3, <1>4, <1>5, <3>3
  <2> QED
    BY <2>1, <2>2
<1>7. ASSUME HasSlash
      PROVE  StrLen(Slashed(a)) <= StrLen(u)
  <2>1. left # <<>>
    BY <1>7, TokenRead
  <2>2. CASE Token = "/"
    <3>1. a = Append(r, "/")
      BY <2>2, NewResolvedIs
    <3>2. a # <<>> /\ a[Len(a)] = "/"
      BY <1>1, <3>1, ItemFacts, AppendFacts
    <3>3. Slashed(a) = a
      BY <3>2 DEF Slashed
    <3>4. u = t
      <4>1. /\ Len(LeftBehind) = Len(path) - (Done + 1)
            /\ SubSeq(path, 1, Done + 1) = t
        BY <2>1, <2>2, TokenRead
      <4>2. ReadTo = Done + 1
        BY <1>1, <4>1 DEF ReadTo
      <4>3. NewDone = Done + 1
        BY <1>7, <4>2 DEF NewDone
      <4> QED
        BY <4>1, <4>3
    <3> HIDE DEF r, a, t, u
    <3>5. StrLen(a) <= StrLen(t)
      BY <1>3, <1>4, <1>5
    <3> QED
      BY <3>3, <3>4, <3>5
  <2>3. CASE Token # "/"
    <3>1. StrLen(Slashed(a)) <= StrLen(a) + 1
      <4>1. StrLen(Append(a, "/")) = StrLen(a) + Length["/"]
        BY <1>1, ItemFacts, StrLenAppend
      <4>2. StrLen(Append(a, "/")) = StrLen(a) + 1
        BY Zenon, <4>1, LengthAssumption
      <4> QED
        BY <1>3, <4>2 DEF Slashed
    <3>2. u = Append(t, "/")
      <4>1. /\ Len(LeftBehind) = Len(path) - (Done + 2)
            /\ SubSeq(path, 1, Done + 2) = Append(t, "/")
        BY <1>7, <2>1, <2>3, TokenRead
      <4>2. ReadTo = Done + 2
        BY <1>1, <4>1 DEF ReadTo
      <4>3. NewDone = Done + 2
        BY <1>7, <4>2 DEF NewDone
      <4> QED
        BY <4>1, <4>3
    <3>3. StrLen(u) = StrLen(t) + 1
      <4>1. StrLen(Append(t, "/")) = StrLen(t) + 1
        BY <1>2, ItemFacts, StrLenAppend, LengthAssumption
      <4> QED
        BY <3>2, <4>1
    <3>4. StrLen(Slashed(a)) \in Nat
      <4>1. Slashed(a) \in Seq(Item)
        BY <1>1, ItemFacts, AppendFacts DEF Slashed
      <4> QED
        BY <4>1, StrLenType
    <3> HIDE DEF r, a, t, u
    <3>5. StrLen(a) <= StrLen(t) /\ StrLen(t) \in Nat /\ StrLen(a) \in Nat
      BY <1>3, <1>4, <1>5
    <3>6. \A k, m, n \in Nat : k <= m + 1 /\ m <= n => k <= n + 1
      OBVIOUS
    <3> QED
      BY <3>1, <3>3, <3>4, <3>5, <3>6
  <2> QED
    BY <2>2, <2>3
<1> QED
  BY <1>3, <1>4, <1>6, <1>7

-----------------------------------------------------------------------------
(* The strings that the two conversions return.                            *)
JbrootResult ==
    IF ~IsAbsolute(Fixed) THEN Fixed
    ELSE IF Fixed = <<"/", ROOTFS_NAME>> THEN <<"/">>
    ELSE IF Len(Fixed) > 2 /\ SubSeq(Fixed, 1, 3) = <<"/", ROOTFS_NAME, "/">>
         THEN SubSeq(Fixed, 3, Len(Fixed))
    ELSE JBROOT \o Fixed

RootfsResult ==
    IF ~based /\ IsAbsolute(path) THEN <<"/", ROOTFS_NAME>> \o Fixed ELSE Fixed

(* The trailing slash can go because there is another one before it.       *)
LEMMA FixedFacts ==
    ASSUME TypeOK, TreeInv, WrittenInv, resolved # <<>>
    PROVE  /\ Fixed \in Seq(Item) /\ Fixed # <<>>
           /\ IsAbsolute(Fixed) <=> IsAbsolute(resolved)
           /\ \A i \in 1 .. Len(Fixed) : i \in 1 .. Len(resolved) /\ Fixed[i] = resolved[i]
           /\ \A n \in Place : Walk(tree, n, Fixed) = Walk(tree, n, resolved)
<1>1. resolved \in Seq(Item) /\ tree \in Edges
  BY TreeFacts DEF TypeOK
<1>2. CASE Len(resolved) > 1 /\ resolved[Len(resolved)] = "/"
  <2> DEFINE f == SubSeq(resolved, 1, Len(resolved) - 1)
  <2>1. Fixed = f
    BY <1>2 DEF Fixed
  <2>2. /\ f \in Seq(Item) /\ f # <<>> /\ Len(f) = Len(resolved) - 1
        /\ \A i \in 1 .. Len(f) : i \in 1 .. Len(resolved) /\ f[i] = resolved[i]
    <3>1. Len(resolved) \in Nat /\ Len(resolved) - 1 \in 0 .. Len(resolved) /\ Len(resolved) - 1 > 0
      BY <1>1, <1>2
    <3>2. f \in Seq(Item) /\ Len(f) = Len(resolved) - 1
      BY <1>1, <3>1, SplitString
    <3>3. \A i \in 1 .. Len(resolved) - 1 : f[i] = resolved[i]
      BY <1>1, <3>1, SplitString
    <3> HIDE DEF f
    <3> QED
      BY <3>1, <3>2, <3>3
  <2>3. resolved = Append(f, "/")
    BY <1>1, <1>2, LastItem
  <2>4. f[Len(f)] = "/" /\ f[1] = resolved[1]
    <3>1. Len(f) \in 1 .. Len(f) /\ 1 \in 1 .. Len(f)
      BY <2>2
    <3>2. resolved[Len(resolved) - 1] = "/"
      BY <1>2 DEF WrittenInv
    <3> QED
      BY <2>2, <3>1, <3>2
  <2> HIDE DEF f
  <2>5. ASSUME NEW n \in Place
        PROVE  Walk(tree, n, f) = Walk(tree, n, resolved)
    <3>1. Walk(tree, n, Append(f, "/")) = Go(tree, Walk(tree, n, f), "/")
      BY <1>1, <2>2, ItemFacts, WalkAppend
    <3>2. Go(tree, Walk(tree, n, f), "/") = Walk(tree, n, f)
      BY <1>1, <2>2, <2>4, WalkTrailingSlash
    <3> QED
      BY Zenon, <2>3, <3>1, <3>2
  <2> QED
    BY <2>1, <2>2, <2>4, <2>5 DEF IsAbsolute
<1>3. CASE ~(Len(resolved) > 1 /\ resolved[Len(resolved)] = "/")
  <2>1. Fixed = resolved
    BY <1>3 DEF Fixed
  <2> QED
    BY <1>1, <2>1
<1> QED
  BY <1>2, <1>3

LEMMA RootfsLink ==
    ASSUME TreeInv
    PROVE  /\ <<"/", ROOTFS_NAME>> \in Seq(Item)
           /\ Walk(tree, JbRoot, <<"/", ROOTFS_NAME>>) = Root
           /\ WalkInJbroot(tree, JbRoot, <<"/", ROOTFS_NAME>>) = Root
<1> DEFINE r == ROOTFS_NAME
           slash == <<"/">>
<1>1. /\ tree \in Edges /\ JbRoot \in Dir /\ JbRoot \in Place /\ r \in Name /\ r \in Item
      /\ "/" \in Item /\ tree[<<JbRoot, r>>] = Root
  BY TreeFacts, PlaceFacts, NamesAssumption, ItemFacts
<1>2. slash \in Seq(Item) /\ Append(slash, r) = <<"/", r>>
  <2> DEFINE a == Append(slash, r)
             t == <<"/", r>>
  <2>1. slash \in Seq(Item) /\ Len(slash) = 1 /\ slash[1] = "/"
    BY <1>1
  <2>2. t \in Seq(Item) /\ Len(t) = 2 /\ t[1] = "/" /\ t[2] = r
    BY <1>1
  <2>3. a \in Seq(Item) /\ Len(a) = 2 /\ a[1] = "/" /\ a[2] = r
    <3> HIDE DEF slash
    <3>1. /\ a \in Seq(Item) /\ Len(a) = Len(slash) + 1 /\ a[Len(slash) + 1] = r
          /\ \A i \in 1 .. Len(slash) : a[i] = slash[i]
      BY <1>1, <2>1, AppendFacts
    <3>2. 1 \in 1 .. Len(slash) /\ Len(slash) + 1 = 2
      BY <2>1
    <3>3. a[1] = slash[1]
      BY <3>1, <3>2
    <3> HIDE DEF a
    <3> QED
      BY <2>1, <3>1, <3>2, <3>3
  <2>4. \A i \in 1 .. 2 : i = 1 \/ i = 2
    OBVIOUS
  <2> HIDE DEF a, t
  <2>5. \A i \in 1 .. Len(a) : a[i] = t[i]
    BY <2>2, <2>3, <2>4
  <2>6. a = t
    BY <2>2, <2>3, <2>5, SeqEqual
  <2> QED
    BY <2>1, <2>6 DEF a, t
<1>3. r # ".."
  BY <1>1, NameAssumption
<1>4. Go(tree, JbRoot, "/") = JbRoot /\ GoInJbroot(tree, JbRoot, "/") = JbRoot
  <2>1. Go(tree, JbRoot, "/") = JbRoot
    BY <1>1, GoFacts
  <2>2. GoInJbroot(tree, JbRoot, "/") = Go(tree, JbRoot, "/")
    BY DEF GoInJbroot
  <2> QED
    BY <2>1, <2>2
<1>5. Go(tree, JbRoot, r) = Root /\ GoInJbroot(tree, JbRoot, r) = Root
  BY <1>1, <1>3, GoFacts
<1>6. Walk(tree, JbRoot, slash) = JbRoot /\ WalkInJbroot(tree, JbRoot, slash) = JbRoot
  BY <1>1, <1>4, WalkSingle
<1> HIDE DEF slash
<1>7. /\ Walk(tree, JbRoot, Append(slash, r)) = Root
      /\ WalkInJbroot(tree, JbRoot, Append(slash, r)) = Root
  <2>1. /\ Walk(tree, JbRoot, Append(slash, r)) = Go(tree, Walk(tree, JbRoot, slash), r)
        /\ WalkInJbroot(tree, JbRoot, Append(slash, r))
              = GoInJbroot(tree, WalkInJbroot(tree, JbRoot, slash), r)
    BY <1>1, <1>2, WalkAppend
  <2> QED
    BY Zenon, <1>5, <1>6, <2>1
<1>8. Append(slash, r) \in Seq(Item)
  BY <1>1, <1>2, AppendFacts
<1> QED
  BY Zenon, <1>2, <1>7, <1>8

(***************************************************************************)
(* The kernel finds, by what jbrootat_alloc returns, what the converted    *)
(* tokens lead to.                                                         *)
(***************************************************************************)
LEMMA JbrootResultLeads ==
    ASSUME TypeOK, InputInv, TreeInv, ReadInv, WrittenInv,
           pc = "finish", op = "jbroot", InScope(resolved)
    PROVE  Lookup(tree, start, JbrootResult) = Walk(tree, Base, resolved)
<1> DEFINE f == Fixed
<1>1. /\ f \in Seq(Item) /\ f # <<>> /\ (IsAbsolute(f) <=> IsAbsolute(resolved))
      /\ \A n \in Place : Walk(tree, n, f) = Walk(tree, n, resolved)
  BY FixedFacts DEF ReadInv
<1>2. /\ Base = From /\ Base \in Place /\ tree \in Edges
      /\ {Root, JbRoot} \subseteq Place /\ Root \in Dir
  BY CallFacts, TreeFacts, PlaceFacts DEF Base, WrittenInv
<1> HIDE DEF f
<1>3. CASE ~IsAbsolute(f)
  <2>1. JbrootResult = f
    BY <1>3 DEF JbrootResult, f
  <2>2. Base = start
    BY <1>1, <1>2, <1>3 DEF From, WrittenInv, ReadInv
  <2> QED
    BY <1>1, <1>2, <1>3, <2>1, <2>2 DEF Lookup
<1>4. CASE IsAbsolute(f)
  <2>1. Base = JbRoot
    BY <1>1, <1>2, <1>4 DEF From, InScope
  <2>2. CASE f = <<"/", ROOTFS_NAME>>
    <3>1. JbrootResult = <<"/">>
      BY <1>4, <2>2 DEF JbrootResult, f
    <3>2. <<"/">> # <<>> /\ IsAbsolute(<<"/">>)
      BY DEF IsAbsolute
    <3>3. Walk(tree, Root, <<"/">>) = Root
      <4>1. Walk(tree, Root, <<"/">>) = Go(tree, Root, "/")
        BY <1>2, ItemFacts, WalkSingle
      <4> QED
        BY <1>2, <4>1, ItemFacts, GoFacts
    <3>4. Lookup(tree, start, JbrootResult) = Root
      BY <3>1, <3>2, <3>3 DEF Lookup
    <3>5. Walk(tree, JbRoot, f) = Root
      BY <2>2, RootfsLink
    <3> QED
      BY <1>1, <1>2, <2>1, <3>4, <3>5
  <2>3. CASE f # <<"/", ROOTFS_NAME>> /\ Len(f) > 2 /\ SubSeq(f, 1, 3) = <<"/", ROOTFS_NAME, "/">>
    <3> DEFINE t == SubSeq(f, 1, 2)
               u == SubSeq(f, 3, Len(f))
    <3>1. JbrootResult = u
      BY <1>4, <2>3 DEF JbrootResult, f
    <3>2. t \in Seq(Item) /\ u \in Seq(Item) /\ f = t \o u
      <4>1. 2 \in 0 .. Len(f) /\ 2 + 1 = 3
        BY <1>1, <2>3
      <4> QED
        BY <1>1, <4>1, SplitString
    <3>3. f[1] = "/" /\ f[2] = ROOTFS_NAME /\ f[3] = "/"
      <4> DEFINE w == SubSeq(f, 1, 3)
      <4>1. w[1] = f[1] /\ w[2] = f[2] /\ w[3] = f[3]
        BY <1>1, <2>3
      <4>2. w = <<"/", ROOTFS_NAME, "/">>
        BY <2>3
      <4> HIDE DEF w
      <4> QED
        BY <4>1, <4>2
    <3>4. u # <<>> /\ IsAbsolute(u)
      <4>1. Len(f) \in Nat /\ 2 \in 0 .. Len(f) /\ 2 + 1 = 3 /\ 1 \in 1 .. Len(f) - 2
        BY <1>1, <2>3
      <4>2. Len(u) = Len(f) - 2 /\ u[1] = f[2 + 1]
        BY <1>1, <4>1, SplitString
      <4> HIDE DEF u
      <4> QED
        BY <3>3, <4>1, <4>2 DEF IsAbsolute
    <3>5. t = <<"/", ROOTFS_NAME>>
      <4>1. Len(t) = 2 /\ t[1] = f[1] /\ t[2] = f[2]
        BY <1>1, <2>3
      <4>2. \A i \in 1 .. Len(t) : i = 1 \/ i = 2
        BY <4>1
      <4>3. Len(<<"/", ROOTFS_NAME>>) = 2 /\ <<"/", ROOTFS_NAME>> \in Seq(Item)
        BY RootfsLink
      <4> HIDE DEF t
      <4> QED
        BY <3>2, <3>3, <4>1, <4>2, <4>3, SeqEqual
    <3> HIDE DEF t, u
    <3>6. Walk(tree, JbRoot, t) = Root
      BY <3>5, RootfsLink
    <3>7. Walk(tree, JbRoot, t \o u) = Walk(tree, Root, u)
      BY <1>2, <3>2, <3>6, WalkConcat
    <3>8. Lookup(tree, start, JbrootResult) = Walk(tree, Root, u)
      BY <3>1, <3>4 DEF Lookup
    <3>9. Walk(tree, JbRoot, f) = Walk(tree, Root, u)
      BY Zenon, <3>2, <3>7
    <3> QED
      BY <1>1, <1>2, <2>1, <3>8, <3>9
  <2>4. CASE /\ f # <<"/", ROOTFS_NAME>>
             /\ ~(Len(f) > 2 /\ SubSeq(f, 1, 3) = <<"/", ROOTFS_NAME, "/">>)
    <3> DEFINE b == JBROOT
               c == b \o f
    <3>1. JbrootResult = c
      BY <1>4, <2>4 DEF JbrootResult, f
    <3>2. b \in Seq(Item) /\ b # <<>> /\ b[1] = "/" /\ Walk(tree, Root, b) = JbRoot
      BY JbrootAssumption, TreeFacts DEF IsAbsolute, Lookup
    <3>3. c # <<>> /\ IsAbsolute(c)
      <4> HIDE DEF b
      <4>1. /\ Len(c) = Len(b) + Len(f) /\ Len(b) \in Nat /\ Len(b) > 0 /\ Len(f) \in Nat
            /\ c \in Seq(Item)
        BY <1>1, <3>2, ConcatProperties
      <4>2. c[1] = b[1]
        BY <1>1, <3>2, <4>1, ConcatProperties
      <4> QED
        BY <3>2, <4>1, <4>2 DEF IsAbsolute
    <3>4. Walk(tree, Root, b \o f) = Walk(tree, JbRoot, f)
      <4> HIDE DEF b
      <4> QED
        BY <1>1, <1>2, <3>2, WalkConcat
    <3>5. Lookup(tree, start, JbrootResult) = Walk(tree, Root, c)
      <4> HIDE DEF c
      <4> QED
        BY <3>1, <3>3 DEF Lookup
    <3> QED
      BY <1>1, <1>2, <2>1, <3>4, <3>5
  <2> QED
    BY <2>2, <2>3, <2>4
<1> QED
  BY <1>3, <1>4

(***************************************************************************)
(* A process in jbroot finds, by what rootfs_alloc returns, what the       *)
(* converted tokens lead to.                                               *)
(***************************************************************************)
LEMMA RootfsResultLeads ==
    ASSUME TypeOK, InputInv, TreeInv, ReadInv, WrittenInv,
           pc = "finish", op = "rootfs", InScope(resolved)
    PROVE  LookupInJbroot(tree, start, RootfsResult) = Walk(tree, Base, resolved)
<1> DEFINE f == Fixed
<1>1. /\ f \in Seq(Item) /\ f # <<>> /\ (IsAbsolute(f) <=> IsAbsolute(resolved))
      /\ \A n \in Place : Walk(tree, n, f) = Walk(tree, n, resolved)
      /\ \A i \in 1 .. Len(f) : f[i] # ".."
  BY FixedFacts DEF ReadInv, WrittenInv, InScope
<1>2. Base \in Place /\ From \in Place /\ tree \in Edges /\ {Root, JbRoot} \subseteq Place
  BY CallFacts, TreeFacts, PlaceFacts
<1>3. resolved # <<>>
  BY DEF ReadInv
<1> HIDE DEF f
<1>4. \A n \in Place : WalkInJbroot(tree, n, f) = Walk(tree, n, resolved)
  BY <1>1, <1>2, WalkWithoutDotDot
<1>5. CASE ~based /\ IsAbsolute(path)
  <2> DEFINE b == <<"/", ROOTFS_NAME>>
             c == b \o f
  <2>1. RootfsResult = c /\ Base = Root
    BY <1>5 DEF RootfsResult, f, Base, From
  <2>2. b \in Seq(Item) /\ b # <<>> /\ b[1] = "/" /\ WalkInJbroot(tree, JbRoot, b) = Root
    BY RootfsLink
  <2> HIDE DEF b
  <2>3. c # <<>> /\ IsAbsolute(c)
    <3>1. /\ Len(c) = Len(b) + Len(f) /\ Len(b) \in Nat /\ Len(b) > 0 /\ Len(f) \in Nat
          /\ c \in Seq(Item)
      BY <1>1, <2>2, ConcatProperties
    <3>2. c[1] = b[1]
      BY <1>1, <2>2, <3>1, ConcatProperties
    <3> QED
      BY <2>2, <3>1, <3>2 DEF IsAbsolute
  <2>4. WalkInJbroot(tree, JbRoot, b \o f) = WalkInJbroot(tree, Root, f)
    BY <1>1, <1>2, <2>2, WalkConcat
  <2>5. LookupInJbroot(tree, start, RootfsResult) = WalkInJbroot(tree, JbRoot, c)
    <3> HIDE DEF c
    <3> QED
      BY <2>1, <2>3 DEF LookupInJbroot
  <2> QED
    BY <1>2, <1>4, <2>1, <2>4, <2>5
<1>6. CASE based \/ ~IsAbsolute(path)
  <2>1. RootfsResult = f
    BY <1>6 DEF RootfsResult, f
  <2>2. Base = IF IsAbsolute(f) THEN JbRoot ELSE start
    BY <1>1, <1>3, <1>6 DEF Base, From, WrittenInv
  <2> QED
    BY <1>1, <1>2, <1>4, <2>1, <2>2 DEF LookupInJbroot
<1> QED
  BY <1>5, <1>6

-----------------------------------------------------------------------------
(* The invariant, action by action.                                        *)
LEMMA InitStep ==
    ASSUME Init
    PROVE  IInv
<1>1. PICK in \in Inputs : op = in.op /\ start = in.start /\ path = in.path
  BY DEF Init
<1>2. InputInv
  BY <1>1 DEF InputInv
<1>3. /\ op \in {"jbroot", "rootfs"} /\ start \in Dir /\ path \in Seq(Item)
      /\ From \in Place /\ Base = From
  BY <1>2, CallFacts DEF Init, Base
<1>4. tree \in Edges /\ tree0 = tree
  BY TreesAssumption DEF Init
<1>5. TreeInv
  <2>1. tree = Pruned(tree0, {}) /\ {} \in SUBSET Removable
    <3>1. tree = [dn \in Dir \X Name |-> tree[dn]]
      BY <1>4 DEF Edges
    <3>2. Pruned(tree, {}) = [dn \in Dir \X Name |-> tree[dn]]
      BY DEF Pruned
    <3> QED
      BY <1>4, <3>1, <3>2
  <2> QED
    BY <2>1 DEF Init, TreeInv
<1>6. left = path /\ resolved = <<>> /\ Len(path) \in Nat /\ <<>> \in Seq(Item)
  BY <1>3 DEF Init
<1>7. Done = 0 /\ Prefix = <<>> /\ left = SubSeq(path, Done + 1, Len(path))
  <2>1. Done = 0
    BY <1>6 DEF Done
  <2>2. SubSeq(path, 1, 0) = <<>> /\ path = SubSeq(path, 1, Len(path))
    BY <1>3
  <2> QED
    BY <1>6, <2>1, <2>2 DEF Prefix
<1>8. TypeOK
  <2>1. unlinks \in 0 .. MaxUnlinks
    BY RemovableAssumption DEF Init
  <2>2. {path, left, resolved, result} \subseteq Seq(Item)
    BY <1>3, <1>6 DEF Init
  <2>3. failed \in BOOLEAN /\ based \in BOOLEAN
    <3> DEFINE P == StrLen(path) >= PATH_MAX
    <3>1. P \in BOOLEAN
      OBVIOUS
    <3>2. failed = P /\ based = FALSE
      BY DEF Init
    <3> HIDE DEF P
    <3> QED
      BY <3>1, <3>2
  <2>4. pc \in {"loop", "finish", "call", "done"} /\ found \in Node \cup {Nothing}
    BY DEF Init
  <2> QED
    BY <1>3, <1>4, <2>1, <2>2, <2>3, <2>4 DEF TypeOK
<1>9. ReadInv
  BY <1>6, <1>7 DEF Init, ReadInv
<1>10. WrittenInv
  <2>1. Len(<<>>) = 0 /\ ~IsAbsolute(<<>>)
    BY DEF IsAbsolute
  <2> QED
    BY <1>6, <2>1 DEF Init, WrittenInv
<1>11. Separated = <<>>
  BY <1>6 DEF Separated
<1>12. LeadsInv
  <2>1. pc = "loop" => Leads(Walk(tree, Base, Separated), See(Prefix))
    <3>1. Walk(tree, Base, Separated) = From
      BY <1>3, <1>4, <1>11, WalkEmpty
    <3>2. See(Prefix) = From
      BY <1>2, <1>5, <1>6, <1>7, SeeFacts
    <3> QED
      BY <3>1, <3>2 DEF Leads
  <2>2. pc = "call" /\ ~failed =>
           Leads(IF op = "jbroot" THEN Lookup(tree, start, result)
                 ELSE LookupInJbroot(tree, start, result), Expected)
    <3>1. Lookup(tree, start, <<>>) = Nothing /\ LookupInJbroot(tree, start, <<>>) = Nothing
      BY DEF Lookup, LookupInJbroot
    <3>2. Lookup(tree0, start, <<>>) = Nothing /\ LookupInJbroot(tree0, start, <<>>) = Nothing
      BY DEF Lookup, LookupInJbroot
    <3>3. pc = "call" /\ ~failed => path = <<>>
      BY DEF Init
    <3> QED
      BY <3>1, <3>2, <3>3 DEF Init, Leads, Expected
  <2> QED
    BY <2>1, <2>2 DEF Init, LeadsInv
<1>13. LengthInv
  <2>1. StrLen(path) \in Nat
    BY <1>3, StrLenType
  <2>2. StrLen(Separated) = StrLen(Prefix) /\ StrLen(Prefix) = 0
    BY <1>7, <1>11, StrLenEmpty
  <2>3. failed => StrLen(path) >= PATH_MAX
    BY DEF Init
  <2>4. failed => StrLen(path) >= PATH_MAX - 1
    BY <2>1, <2>3, LengthAssumption
  <2> QED
    BY <2>2, <2>4 DEF LengthInv
<1> QED
  BY <1>2, <1>5, <1>8, <1>9, <1>10, <1>12, <1>13 DEF IInv

LEMMA IterateFailsStep ==
    ASSUME IInv, pc = "loop", result' = path, failed' = TRUE, pc' = "call",
           StrLen(Separated) >= PATH_MAX \/ StrLen(NewResolved) >= PATH_MAX,
           UNCHANGED <<left, resolved, based, files, call, found>>
    PROVE  IInv'
<1>1. TypeOK'
  BY CallFacts DEF IInv, TypeOK, files, call
<1>2. TreeInv' /\ InputInv'
  BY DEF IInv, TreeInv, InputInv, files, call
<1>3. ReadInv'
  BY DEF IInv, ReadInv, Done, call
<1>4. WrittenInv'
  BY DEF IInv, WrittenInv, Done, HasDotDot, call
<1>5. LeadsInv'
  BY DEF LeadsInv
<1>6. LengthInv'
  <2>1. /\ StrLen(Separated) <= StrLen(path) /\ StrLen(NewResolved) <= StrLen(path) + 1
        /\ {StrLen(Separated), StrLen(NewResolved), StrLen(path)} \subseteq Nat
    BY NewLength DEF IInv
  <2>2. StrLen(path) >= PATH_MAX - 1
    BY <2>1, LengthAssumption
  <2>3. path' = path
    BY DEF call
  <2> QED
    BY <2>2, <2>3 DEF LengthInv
<1> QED
  BY <1>1, <1>2, <1>3, <1>4, <1>5, <1>6 DEF IInv

LEMMA IterateReadsStep ==
    ASSUME IInv, pc = "loop",
           left' = IF HasSlash THEN LeftBehind ELSE <<>>,
           resolved' = NewResolved, based' = NewBased,
           pc' = IF HasSlash THEN "loop" ELSE "finish",
           UNCHANGED <<result, failed, files, call, found>>
    PROVE  IInv'
<1>1. /\ NewResolved \in Seq(Item) /\ NewResolved # <<>> /\ NewBased \in BOOLEAN
      /\ LeftBehind \in Seq(Item) /\ <<>> \in Seq(Item)
  BY NewResolvedIs, TokenRead DEF IInv
<1>2. path \in Seq(Item) /\ Len(path) \in Nat /\ path # <<>>
  BY CallFacts DEF IInv, ReadInv
<1>3. TypeOK'
  BY <1>1 DEF IInv, TypeOK, files, call
<1>4. TreeInv' /\ InputInv'
  BY DEF IInv, TreeInv, InputInv, files, call
<1>5. /\ NewDone \in 0 .. Len(path) /\ NewDone > 0
      /\ HasSlash => /\ ReadTo = NewDone /\ path[NewDone] = "/"
                     /\ LeftBehind = SubSeq(path, NewDone + 1, Len(path))
                     /\ Len(LeftBehind) <= Len(path)
  <2>1. NewDone \in Done .. Len(path) /\ Done \in Nat
    BY NewDoneIs DEF IInv
  <2>2. NewDone \in 0 .. Len(path)
    BY <1>2, <2>1
  <2> QED
    BY <2>2, NewDoneIs DEF IInv
<1>6. Done' = NewDone
  <2>1. CASE HasSlash
    BY <1>5, <2>1 DEF Done, ReadTo, NewDone, call
  <2>2. CASE ~HasSlash
    <3>1. left' = <<>> /\ path' = path /\ Len(<<>>) = 0
      BY <2>2 DEF call
    <3>2. Done' = Len(path)
      BY <1>2, <3>1 DEF Done
    <3> QED
      BY <2>2, <3>2 DEF NewDone
  <2> QED
    BY <2>1, <2>2
<1>7. path' = path /\ op' = op /\ start' = start /\ tree' = tree /\ tree0' = tree0 /\ unlinks' = unlinks
  BY DEF files, call
<1>8. ReadInv'
  <2>1. CASE HasSlash
    BY <1>1, <1>2, <1>5, <1>6, <1>7, <2>1 DEF ReadInv
  <2>2. CASE ~HasSlash
    <3>1. NewDone = Len(path) /\ left' = <<>> /\ pc' = "finish"
      BY <2>2 DEF NewDone
    <3>2. Len(<<>>) = 0 /\ SubSeq(path, Len(path) + 1, Len(path)) = <<>>
      BY <1>2
    <3> QED
      BY <1>1, <1>2, <1>6, <1>7, <3>1, <3>2 DEF ReadInv
  <2> QED
    BY <2>1, <2>2
<1>9. WrittenInv'
  <2>1. /\ Len(NewResolved) > 1 /\ NewResolved[Len(NewResolved)] = "/" =>
              NewResolved[Len(NewResolved) - 1] = "/"
        /\ IsAbsolute(path) => IsAbsolute(NewResolved)
        /\ NewBased => /\ op = "rootfs" /\ IsAbsolute(NewResolved)
                       /\ \E i \in 1 .. NewDone : path[i] \in JbrootNames
        /\ op = "rootfs" /\ ~NewBased /\ ~IsAbsolute(path) => ~IsAbsolute(NewResolved)
        /\ op = "rootfs" /\ ~HasDotDot =>
              \A i \in 1 .. Len(NewResolved) : NewResolved[i] # ".."
    BY NewWritten DEF IInv
  <2>2. HasDotDot' = HasDotDot
    BY <1>7 DEF HasDotDot
  <2> QED
    BY <1>6, <1>7, <2>1, <2>2 DEF WrittenInv
<1>10. LeadsInv'
  <2> DEFINE b == IF NewBased THEN JbRoot ELSE From
             v == SeeGo(See(Prefix), Token)
  <2> SUFFICES ASSUME InScope(NewResolved)
               PROVE  /\ pc' = "loop" => Leads(Walk(tree, b, Slashed(NewResolved)),
                                              See(SubSeq(path, 1, NewDone)))
                      /\ pc' = "finish" => Leads(Walk(tree, b, NewResolved), See(path))
    <3>1. InScope(resolved)' = InScope(NewResolved)
      BY <1>7 DEF InScope, HasDotDot, JbrootNamesIn
    <3>2. Base' = b
      BY <1>7 DEF Base, From
    <3>3. Separated' = Slashed(NewResolved)
      BY DEF Separated, Slashed
    <3>4. Prefix' = SubSeq(path, 1, NewDone)
      BY <1>6, <1>7 DEF Prefix
    <3>5. See(Prefix)' = See(SubSeq(path, 1, NewDone)) /\ See(path)' = See(path)
      BY <1>7, <3>4 DEF See, From
    <3>6. pc' \in {"loop", "finish"}
      OBVIOUS
    <3> HIDE DEF b, v
    <3> QED
      BY <1>7, <3>1, <3>2, <3>3, <3>5, <3>6 DEF LeadsInv, Leads
  <2>1. Leads(Walk(tree, b, NewResolved), v)
    BY TokenLeads DEF IInv
  <2>2. b \in Place /\ v \in Place /\ tree \in Edges /\ unlinks \in Nat /\ "/" \in Item
    BY CallFacts, PlaceFacts, SeeToken, TreeFacts, ItemFacts, RemovableAssumption DEF IInv, TypeOK
  <2> HIDE DEF b, v
  <2>3. Walk(tree, b, NewResolved) \in Place
    BY <1>1, <2>2, WalkType
  <2>4. Leads(Go(tree, Walk(tree, b, NewResolved), "/"), Go(tree0, v, "/"))
    BY <2>1, <2>2, <2>3, LeadsGo DEF IInv
  <2>5. Walk(tree, b, Slashed(NewResolved)) = Go(tree, Walk(tree, b, NewResolved), "/")
    BY <1>1, <2>2, WalkSlashed
  <2>6. CASE HasSlash
    <3>1. See(SubSeq(path, 1, NewDone)) = Go(tree0, v, "/")
      BY <1>5, <2>6, SeeToken DEF IInv, v
    <3> QED
      BY <2>4, <2>5, <2>6, <3>1
  <2>7. CASE ~HasSlash
    <3>1. See(path) = v
      BY <2>7, SeeToken DEF IInv, v
    <3> QED
      BY <2>1, <2>7, <3>1
  <2> QED
    BY <2>6, <2>7
<1>11. LengthInv'
  <2>1. HasSlash => StrLen(Slashed(NewResolved)) <= StrLen(SubSeq(path, 1, NewDone))
    BY NewLength DEF IInv
  <2>2. Separated' = Slashed(NewResolved)
    BY DEF Separated, Slashed
  <2>3. Prefix' = SubSeq(path, 1, NewDone)
    BY <1>6, <1>7 DEF Prefix
  <2>4. StrLen(Separated)' = StrLen(Slashed(NewResolved))
    BY <2>2 DEF StrLen
  <2>5. StrLen(Prefix)' = StrLen(SubSeq(path, 1, NewDone))
    BY <2>3 DEF StrLen
  <2> QED
    BY <1>7, <2>1, <2>4, <2>5 DEF IInv, LengthInv
<1> QED
  BY <1>3, <1>4, <1>8, <1>9, <1>10, <1>11 DEF IInv

LEMMA IterateStep ==
    ASSUME IInv, JbrootIterate \/ RootfsIterate
    PROVE  IInv'
<1>1. Iterate(NewResolved, NewBased)
  <2>1. CASE JbrootIterate
    BY <2>1 DEF JbrootIterate, NewResolved, NewBased
  <2>2. CASE RootfsIterate
    BY <2>2 DEF RootfsIterate, NewResolved, NewBased
  <2> QED
    BY <2>1, <2>2
<1>2. pc = "loop" /\ UNCHANGED <<files, call, found>>
  BY <1>1 DEF Iterate
<1>3. CASE StrLen(Separated) >= PATH_MAX \/ StrLen(NewResolved) >= PATH_MAX
  <2>1. result' = path /\ failed' = TRUE /\ pc' = "call" /\ UNCHANGED <<left, resolved, based>>
    BY <1>1, <1>3 DEF Iterate
  <2> QED
    BY <1>2, <1>3, <2>1, IterateFailsStep
<1>4. CASE ~(StrLen(Separated) >= PATH_MAX \/ StrLen(NewResolved) >= PATH_MAX)
  <2>1. /\ left' = IF HasSlash THEN LeftBehind ELSE <<>>
        /\ resolved' = NewResolved /\ based' = NewBased
        /\ pc' = IF HasSlash THEN "loop" ELSE "finish"
        /\ UNCHANGED <<result, failed>>
    BY <1>1, <1>4 DEF Iterate
  <2> QED
    BY <1>2, <2>1, IterateReadsStep
<1> QED
  BY <1>3, <1>4

LEMMA LookupType ==
    ASSUME NEW e \in Edges, NEW d \in Dir, NEW s \in Seq(Item)
    PROVE  Lookup(e, d, s) \in Place /\ LookupInJbroot(e, d, s) \in Place
  BY PlaceFacts, WalkType DEF Lookup, LookupInJbroot

(* What the conversion's loop has left as it is.                           *)
LEMMA ExpectedSeen ==
    ASSUME path # <<>>, op \in {"jbroot", "rootfs"}
    PROVE  See(path) = Expected
  BY DEF See, Expected, From, Lookup, LookupInJbroot

LEMMA FinishStep ==
    ASSUME IInv, JbrootFinish \/ RootfsFinish
    PROVE  IInv'
<1>1. /\ pc = "finish" /\ pc' = "call"
      /\ UNCHANGED <<files, call, left, resolved, based, failed, found>>
      /\ result' = IF op = "jbroot" THEN JbrootResult ELSE RootfsResult
  <2>1. CASE JbrootFinish
    BY <2>1 DEF JbrootFinish, JbrootResult
  <2>2. CASE RootfsFinish
    BY <2>2 DEF RootfsFinish, RootfsResult
  <2> QED
    BY <2>1, <2>2
<1>2. /\ path' = path /\ op' = op /\ start' = start /\ tree' = tree /\ tree0' = tree0
      /\ unlinks' = unlinks /\ resolved' = resolved /\ left' = left /\ based' = based
      /\ failed' = failed
  BY <1>1 DEF files, call
<1>3. Fixed \in Seq(Item) /\ resolved # <<>> /\ path # <<>> /\ op \in {"jbroot", "rootfs"}
  BY <1>1, FixedFacts DEF IInv, ReadInv, TypeOK
<1>4. result' \in Seq(Item)
  <2>1. JbrootResult \in Seq(Item)
    <3>1. <<"/">> \in Seq(Item)
      BY ItemFacts
    <3>2. Len(Fixed) > 2 => SubSeq(Fixed, 3, Len(Fixed)) \in Seq(Item)
      <4> SUFFICES ASSUME Len(Fixed) > 2
                   PROVE  SubSeq(Fixed, 3, Len(Fixed)) \in Seq(Item)
        OBVIOUS
      <4>1. 2 \in 0 .. Len(Fixed) /\ 2 + 1 = 3
        BY <1>3
      <4> QED
        BY <1>3, <4>1, SplitString
    <3>3. JBROOT \o Fixed \in Seq(Item)
      BY <1>3, JbrootAssumption, ConcatProperties
    <3> QED
      BY <1>3, <3>1, <3>2, <3>3 DEF JbrootResult
  <2>2. RootfsResult \in Seq(Item)
    <3>1. <<"/", ROOTFS_NAME>> \in Seq(Item)
      BY RootfsLink DEF IInv
    <3>2. <<"/", ROOTFS_NAME>> \o Fixed \in Seq(Item)
      BY <1>3, <3>1, ConcatProperties
    <3> QED
      BY <1>3, <3>2 DEF RootfsResult
  <2> QED
    BY <1>1, <2>1, <2>2
<1>5. TypeOK'
  BY <1>1, <1>2, <1>4 DEF IInv, TypeOK
<1>6. TreeInv' /\ InputInv' /\ ReadInv'
  BY <1>1, <1>2 DEF IInv, TreeInv, InputInv, ReadInv, Done
<1>7. WrittenInv'
  BY <1>2 DEF IInv, WrittenInv, Done, HasDotDot
<1>8. LeadsInv'
  <2> DEFINE look == IF op = "jbroot" THEN Lookup(tree, start, result')
                     ELSE LookupInJbroot(tree, start, result')
  <2>1. ASSUME InScope(resolved)
        PROVE  Leads(look, Expected)
    <3>1. Leads(Walk(tree, Base, resolved), Expected)
      <4>1. Leads(Walk(tree, Base, resolved), See(path))
        BY <1>1, <2>1 DEF IInv, LeadsInv
      <4> QED
        BY <1>3, <4>1, ExpectedSeen
    <3>2. look = Walk(tree, Base, resolved)
      <4>1. CASE op = "jbroot"
        <5>1. Lookup(tree, start, JbrootResult) = Walk(tree, Base, resolved)
          BY <1>1, <2>1, <4>1, JbrootResultLeads DEF IInv
        <5>2. result' = JbrootResult
          BY <1>1, <4>1
        <5> QED
          BY <4>1, <5>1, <5>2
      <4>2. CASE op = "rootfs"
        <5>1. LookupInJbroot(tree, start, RootfsResult) = Walk(tree, Base, resolved)
          BY <1>1, <2>1, <4>2, RootfsResultLeads DEF IInv
        <5>2. result' = RootfsResult
          BY <1>1, <4>2
        <5> QED
          BY <4>2, <5>1, <5>2
      <4> QED
        BY <1>3, <4>1, <4>2
    <3> QED
      BY <3>1, <3>2
  <2>2. InScope(resolved)' = InScope(resolved)
    BY <1>2 DEF InScope, HasDotDot, JbrootNamesIn
  <2>3. Expected' = Expected
    BY <1>2 DEF Expected
  <2>4. (IF op = "jbroot" THEN Lookup(tree, start, result)
         ELSE LookupInJbroot(tree, start, result))' = look
    BY <1>2
  <2> HIDE DEF look
  <2> QED
    BY <1>1, <1>2, <2>1, <2>2, <2>3, <2>4 DEF LeadsInv, Leads
<1>9. LengthInv'
  BY <1>1, <1>2 DEF IInv, LengthInv
<1> QED
  BY <1>5, <1>6, <1>7, <1>8, <1>9 DEF IInv

LEMMA UseStep ==
    ASSUME IInv, Use
    PROVE  IInv'
<1> DEFINE look == IF op = "jbroot" THEN Lookup(tree, start, result)
                   ELSE LookupInJbroot(tree, start, result)
<1>1. /\ pc = "call" /\ pc' = "done" /\ found' = look
      /\ path' = path /\ op' = op /\ start' = start /\ tree' = tree /\ tree0' = tree0
      /\ unlinks' = unlinks /\ resolved' = resolved /\ left' = left /\ based' = based
      /\ failed' = failed /\ result' = result
  BY DEF Use, files, call
<1>2. look \in Node \cup {Nothing}
  BY TreeFacts, LookupType DEF IInv, TypeOK, Place
<1>3. TypeOK'
  BY <1>1, <1>2 DEF IInv, TypeOK
<1>4. TreeInv' /\ InputInv' /\ ReadInv'
  BY <1>1 DEF IInv, TreeInv, InputInv, ReadInv, Done
<1>5. WrittenInv'
  BY <1>1 DEF IInv, WrittenInv, Done, HasDotDot
<1>6. LeadsInv'
  <2>1. InScope(resolved) /\ ~failed => Leads(look, Expected)
    BY <1>1 DEF IInv, LeadsInv
  <2>2. InScope(resolved)' = InScope(resolved)
    BY <1>1 DEF InScope, HasDotDot, JbrootNamesIn
  <2>3. Expected' = Expected
    BY <1>1 DEF Expected
  <2> HIDE DEF look
  <2> QED
    BY <1>1, <2>1, <2>2, <2>3 DEF LeadsInv, Leads
<1>7. LengthInv'
  BY <1>1 DEF IInv, LengthInv
<1> QED
  BY <1>3, <1>4, <1>5, <1>6, <1>7 DEF IInv

LEMMA UnlinkStep ==
    ASSUME IInv, NEW r \in Removable, Unlink(r[1], r[2])
    PROVE  IInv'
<1> DEFINE dn == <<r[1], r[2]>>
<1>1. dn \in Dir \X Name /\ dn \in Removable
  BY RemovableAssumption
<1>2. tree \in Edges /\ tree0 \in Edges
  BY TreeFacts DEF IInv
<1>3. /\ tree' = [tree EXCEPT ![dn] = Nothing] /\ unlinks' = unlinks + 1 /\ unlinks < MaxUnlinks
      /\ path' = path /\ op' = op /\ start' = start /\ tree0' = tree0 /\ pc' = pc
      /\ resolved' = resolved /\ left' = left /\ based' = based
      /\ failed' = failed /\ result' = result /\ found' = found
  BY DEF Unlink, call
<1> HIDE DEF dn
<1>4. tree' = Pruned(tree, {dn})
  <2>1. tree = [c \in Dir \X Name |-> tree[c]]
    BY <1>2 DEF Edges
  <2> QED
    BY <1>1, <1>3, <2>1 DEF Pruned
<1>5. tree' \in Edges
  BY <1>2, <1>4 DEF Pruned, Edges
<1>6. unlinks' \in 0 .. MaxUnlinks /\ unlinks' > 0
  BY <1>3, RemovableAssumption DEF IInv, TypeOK
<1>7. TypeOK'
  BY <1>3, <1>5, <1>6 DEF IInv, TypeOK
<1>8. TreeInv'
  <2>1. PICK R \in SUBSET Removable : tree = Pruned(tree0, R)
    BY DEF IInv, TreeInv
  <2>2. R \cup {dn} \in SUBSET Removable
    BY <1>1, <2>1
  <2>3. tree' = Pruned(tree0, R \cup {dn})
    BY <1>4, <2>1 DEF Pruned
  <2> DEFINE Q == R \cup {dn}
  <2>4. Q \in SUBSET Removable /\ tree' = Pruned(tree0', Q)
    BY <1>3, <2>2, <2>3
  <2> HIDE DEF Q
  <2>5. \E S \in SUBSET Removable : tree' = Pruned(tree0', S)
    BY <2>4
  <2>6. tree0' \in Trees /\ (unlinks' = 0 => tree' = tree0')
    BY <1>3, <1>6 DEF IInv, TreeInv
  <2> QED
    BY <2>5, <2>6 DEF TreeInv
<1>9. InputInv' /\ ReadInv'
  BY <1>3 DEF IInv, InputInv, ReadInv, Done
<1>10. WrittenInv'
  BY <1>3 DEF IInv, WrittenInv, Done, HasDotDot
<1>11. LeadsInv'
  <2>1. ASSUME NEW n, NEW m, NEW v, Leads(n, v), m \in {n, Nothing}
        PROVE  m = v \/ (unlinks' > 0 /\ m = Nothing)
    BY <1>6, <2>1 DEF Leads
  <2>2. ASSUME NEW n \in Place, NEW s \in Seq(Item)
        PROVE  /\ Walk(tree', n, s) \in {Walk(tree, n, s), Nothing}
               /\ WalkInJbroot(tree', n, s) \in {WalkInJbroot(tree, n, s), Nothing}
    BY <1>2, <1>4, WalkPruned
  <2>3. /\ Base \in Place /\ start \in Place /\ Root \in Place /\ JbRoot \in Place
        /\ resolved \in Seq(Item) /\ result \in Seq(Item) /\ Separated \in Seq(Item)
    BY CallFacts, PlaceFacts, SeparatedIs DEF IInv, TypeOK
  <2>4. Lookup(tree', start, result) \in {Lookup(tree, start, result), Nothing}
    BY <2>2, <2>3 DEF Lookup
  <2>5. LookupInJbroot(tree', start, result) \in {LookupInJbroot(tree, start, result), Nothing}
    BY <2>2, <2>3 DEF LookupInJbroot
  <2>6. /\ Walk(tree', Base, Separated) \in {Walk(tree, Base, Separated), Nothing}
        /\ Walk(tree', Base, resolved) \in {Walk(tree, Base, resolved), Nothing}
    BY <2>2, <2>3
  <2>7. /\ InScope(resolved)' = InScope(resolved)
        /\ Base' = Base /\ Separated' = Separated /\ Expected' = Expected
        /\ See(Prefix)' = See(Prefix) /\ See(path)' = See(path)
    BY <1>3 DEF InScope, HasDotDot, JbrootNamesIn, Base, From, Separated, Expected, See, Prefix, Done
  <2> SUFFICES ASSUME InScope(resolved)
               PROVE  /\ pc = "loop" => Leads(Walk(tree, Base, Separated), See(Prefix))'
                      /\ pc = "finish" => Leads(Walk(tree, Base, resolved), See(path))'
                      /\ pc = "call" /\ ~failed =>
                            Leads(IF op = "jbroot" THEN Lookup(tree, start, result)
                                  ELSE LookupInJbroot(tree, start, result), Expected)'
                      /\ pc = "done" /\ ~failed => Leads(found, Expected)'
    BY <1>3, <2>7 DEF LeadsInv
  <2>8. ASSUME pc = "loop"
        PROVE  Leads(Walk(tree, Base, Separated), See(Prefix))'
    <3>1. Leads(Walk(tree, Base, Separated), See(Prefix))
      BY <2>8 DEF IInv, LeadsInv
    <3>2. \/ Walk(tree', Base, Separated) = See(Prefix)
          \/ unlinks' > 0 /\ Walk(tree', Base, Separated) = Nothing
      BY <2>1, <2>6, <3>1
    <3> QED
      BY <2>7, <3>2 DEF Leads
  <2>9. ASSUME pc = "finish"
        PROVE  Leads(Walk(tree, Base, resolved), See(path))'
    <3>1. Leads(Walk(tree, Base, resolved), See(path))
      BY <2>9 DEF IInv, LeadsInv
    <3>2. \/ Walk(tree', Base, resolved) = See(path)
          \/ unlinks' > 0 /\ Walk(tree', Base, resolved) = Nothing
      BY <2>1, <2>6, <3>1
    <3> QED
      BY <1>3, <2>7, <3>2 DEF Leads
  <2>10. ASSUME pc = "call", ~failed
         PROVE  Leads(IF op = "jbroot" THEN Lookup(tree, start, result)
                      ELSE LookupInJbroot(tree, start, result), Expected)'
    <3> DEFINE look(e) == IF op = "jbroot" THEN Lookup(e, start, result)
                          ELSE LookupInJbroot(e, start, result)
    <3>1. Leads(look(tree), Expected)
      BY <2>10 DEF IInv, LeadsInv
    <3>2. look(tree') \in {look(tree), Nothing}
      BY <2>4, <2>5
    <3>3. (IF op = "jbroot" THEN Lookup(tree, start, result)
           ELSE LookupInJbroot(tree, start, result))' = look(tree')
      BY <1>3
    <3> HIDE DEF look
    <3>4. look(tree') = Expected \/ (unlinks' > 0 /\ look(tree') = Nothing)
      BY <2>1, <3>1, <3>2
    <3> QED
      BY <2>7, <3>3, <3>4 DEF Leads
  <2>11. ASSUME pc = "done", ~failed
         PROVE  Leads(found, Expected)'
    <3>1. Leads(found, Expected)
      BY <2>11 DEF IInv, LeadsInv
    <3> QED
      BY <1>3, <1>6, <2>7, <3>1 DEF Leads
  <2> QED
    BY <2>8, <2>9, <2>10, <2>11
<1>12. LengthInv'
  <2>1. Separated' = Separated /\ Prefix' = Prefix /\ path' = path
    BY <1>3 DEF Separated, Prefix, Done
  <2>2. /\ StrLen(Separated)' = StrLen(Separated) /\ StrLen(Prefix)' = StrLen(Prefix)
        /\ StrLen(path)' = StrLen(path)
    BY <2>1 DEF StrLen
  <2> QED
    BY <1>3, <2>2 DEF IInv, LengthInv
<1> QED
  BY <1>7, <1>8, <1>9, <1>10, <1>11, <1>12 DEF IInv

LEMMA StutterStep ==
    ASSUME IInv, UNCHANGED vars
    PROVE  IInv'
<1>1. /\ tree' = tree /\ tree0' = tree0 /\ unlinks' = unlinks /\ op' = op /\ start' = start
      /\ path' = path /\ left' = left /\ resolved' = resolved /\ based' = based /\ pc' = pc
      /\ result' = result /\ failed' = failed /\ found' = found
  BY DEF vars, files, call
<1>2. (TypeOK /\ TreeInv /\ InputInv)'
  BY <1>1 DEF IInv, TypeOK, TreeInv, InputInv
<1>3. (ReadInv /\ WrittenInv)'
  BY <1>1 DEF IInv, ReadInv, WrittenInv, Done, HasDotDot
<1>4. LeadsInv'
  BY <1>1 DEF IInv, LeadsInv, InScope, HasDotDot, JbrootNamesIn, Leads, Base, From, Separated,
     See, Prefix, Done, Expected
<1>5. LengthInv'
  <2>1. Separated' = Separated /\ Prefix' = Prefix /\ path' = path
    BY <1>1 DEF Separated, Prefix, Done
  <2>2. /\ StrLen(Separated)' = StrLen(Separated) /\ StrLen(Prefix)' = StrLen(Prefix)
        /\ StrLen(path)' = StrLen(path)
    BY <2>1 DEF StrLen
  <2> QED
    BY <1>1, <2>2 DEF IInv, LengthInv
<1> QED
  BY <1>2, <1>3, <1>4, <1>5 DEF IInv

LEMMA Inductive == Spec => []IInv
<1>1. Init => IInv
  BY InitStep
<1>2. IInv /\ [Next]_vars => IInv'
  <2> SUFFICES ASSUME IInv, [Next]_vars
               PROVE  IInv'
    OBVIOUS
  <2>1. CASE JbrootIterate \/ RootfsIterate
    BY <2>1, IterateStep
  <2>2. CASE JbrootFinish \/ RootfsFinish
    BY <2>2, FinishStep
  <2>3. CASE Use
    BY <2>3, UseStep
  <2>4. ASSUME NEW r \in Removable, Unlink(r[1], r[2])
        PROVE  IInv'
    BY <2>4, UnlinkStep
  <2>5. CASE UNCHANGED vars
    BY <2>5, StutterStep
  <2> QED
    BY <2>1, <2>2, <2>3, <2>4, <2>5 DEF Next
<1> QED
  BY <1>1, <1>2, PTL DEF Spec

-----------------------------------------------------------------------------
(* The variables of both conversions have their types.                     *)
THEOREM TypeCorrect == Spec => []TypeOK
<1>1. IInv => TypeOK
  BY DEF IInv
<1> QED
  BY <1>1, Inductive, PTL

(***************************************************************************)
(* What jbrootat_alloc returns leads the kernel where the path leads in    *)
(* the jbroot view, never above jbroot, whatever is unlinked meanwhile.    *)
(***************************************************************************)
THEOREM JbrootConverts == Spec => []JbrootDenotes
<1>1. IInv => JbrootDenotes
  BY DEF IInv, LeadsInv, InScope, Leads, Expected, JbrootDenotes, Finds
<1> QED
  BY <1>1, Inductive, PTL

(***************************************************************************)
(* What rootfs_alloc returns leads a process in jbroot where the path      *)
(* leads the kernel.                                                       *)
(***************************************************************************)
THEOREM RootfsConverts == Spec => []RootfsDenotes
<1>1. IInv => RootfsDenotes
  BY DEF IInv, LeadsInv, InScope, Leads, Expected, RootfsDenotes, Finds
<1> QED
  BY <1>1, Inductive, PTL

(***************************************************************************)
(* Only a path at the limit comes back unconverted: nothing that is        *)
(* written is longer than what was read, but for a slash at the end.       *)
(***************************************************************************)
THEOREM OnlyLongPathsFail == Spec => []FailsAtLimit
<1>1. IInv => FailsAtLimit
  BY DEF IInv, LengthInv, FailsAtLimit
<1> QED
  BY <1>1, Inductive, PTL

(* Each step of the loop reads some of the path, and the others only       *)
(* remove files: a conversion takes a step for each token at most.         *)
TurnReads == pc = "loop" /\ tree' = tree => pc' # "loop" \/ Len(left') < Len(left)

(***************************************************************************)
(* The loop of either conversion ends, also where ".." or a jbroot name    *)
(* makes it begin again at jbroot or at the real root: what is left of the *)
(* path gets shorter with every turn.                                      *)
(***************************************************************************)
THEOREM EveryTurnReads == Spec => [][TurnReads]_vars
<1>1. ASSUME IInv, Next
      PROVE  TurnReads
  <2> SUFFICES ASSUME pc = "loop", tree' = tree, pc' = "loop"
               PROVE  Len(left') < Len(left)
    BY DEF TurnReads
  <2>1. CASE JbrootIterate \/ RootfsIterate
    <3>1. HasSlash /\ left' = LeftBehind
      BY <2>1 DEF JbrootIterate, RootfsIterate, Iterate
    <3>2. left \in Seq(Item)
      BY <1>1 DEF IInv, TypeOK
    <3>3. left # <<>> /\ SlashAt \in 1 .. Len(left)
      BY <3>1, <3>2 DEF HasSlash, SlashAt
    <3> QED
      BY <3>1, <3>2, <3>3 DEF LeftBehind
  <2>2. CASE JbrootFinish \/ RootfsFinish \/ Use
    BY <2>2 DEF JbrootFinish, RootfsFinish, Use
  <2>3. ASSUME NEW r \in Removable, Unlink(r[1], r[2])
        PROVE  FALSE
    <3>1. r \in Dir \X Name /\ r = <<r[1], r[2]>>
      BY RemovableAssumption
    <3>2. tree \in Edges
      BY <1>1 DEF IInv, TypeOK
    <3> QED
      BY <2>3, <3>1, <3>2 DEF Unlink, Edges
  <2> QED
    BY <1>1, <2>1, <2>2, <2>3 DEF Next
<1> QED
  BY <1>1, Inductive, PTL DEF Spec
=============================================================================
