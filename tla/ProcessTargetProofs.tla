------------------------ MODULE ProcessTargetProofs -------------------------
(***************************************************************************)
(* Whatever a binding stream holds and whatever libraries a mach-o loads:  *)
(* every pointer stays bound to its symbol, a stream that stays where it   *)
(* is has the size it had, explicit streams are redirected exactly, and    *)
(* the tables agree with them and with one another.                        *)
(***************************************************************************)
EXTENDS ProcessTarget, SequenceTheorems, TLAPS

Located == shimOrdinal \in DOMAIN dylibs /\ dylibs[shimOrdinal] = "shim"

(* Where the function is, and what it knows of the libraries.              *)
Phase ==
    /\ step = "commands" => dylibs \in Loads
    /\ step \notin {"commands", "skipped", "failed"} => Located
    /\ pc # "idle" => step \in Types \cup {"failed"} /\ Located
    /\ step \in Types => type \in Types

(* The stream s binds as many pointers as t to the same symbols.           *)
Follows(s, t) ==
    /\ s.sym = t.sym
    /\ s.lib \in {t.lib, shimOrdinal}
    /\ Len(s.bound) = Len(t.bound)
    /\ \A k \in DOMAIN t.bound :
          /\ s.bound[k][2] = t.bound[k][2]
          /\ s.bound[k][1] \in {t.bound[k][1], shimOrdinal}

Kept == Follows(record, input) /\ Follows(tmpcache, input)

Sized ==
    ~rebuilt => /\ record.size = input.size
                /\ ~resized => tmpcache.size = input.size

(* When every record so far has set its library and was ended by DO_BIND,  *)
(* both streams have the pointers of the input, redirected.                *)
Mirrors(s, t) ==
    /\ Len(s.bound) = Len(t.bound)
    /\ \A k \in DOMAIN t.bound : s.bound[k] = Redirected(t.bound[k])

Mirrored ==
    /\ input.lib = libraryOrdinal /\ input.sym = symbolName
    /\ fresh => /\ record.lib = libraryOrdinal
                /\ libraryOrdinal \in DOMAIN dylibs => tmpcache.lib = shimOrdinal
    /\ explicit /\ type # "weak" => Mirrors(record, input) /\ Mirrors(tmpcache, input)

Returned == pc = "returned" => newbind = record

Streams == pc # "idle" => Kept /\ Sized /\ Mirrored /\ Returned

StreamTypes == {newbind, tmpcache, record, input} \subseteq Stream

(* The table new is old, redirected.                                       *)
Redone(old, new) ==
    DOMAIN new = DOMAIN old /\ \A k \in DOMAIN old : new[k] = Redirected(old[k])

(* A table is what it was until its step, and redirected from then on.     *)
TablesRedone ==
    /\ IF step \in {"commands", "symtab"} THEN symtab = given.symtab
       ELSE step \notin {"skipped", "failed"} => Redone(given.symtab, symtab)
    /\ IF step \in {"commands", "symtab", "imports"} THEN imports = given.imports
       ELSE step \notin {"skipped", "failed"} => Redone(given.imports, imports)

(* Until the last step __LINKEDIT ends with the file, and what must be the *)
(* last thing in it is where it was.                                       *)
Layout ==
    /\ step \notin {"done", "skipped", "failed"} =>
          /\ fileEnd = newfsize /\ vmEnd >= fileEnd /\ newfsize >= FileSize
          /\ \A region \in Regions : at[region] <= fileEnd
          /\ at["strings"] = FileSize - TailSize /\ at["signature"] = FileSize
    /\ LinkeditCovers

IInv == TargetTypeOK /\ Phase /\ Streams /\ TablesRedone /\ Layout

-----------------------------------------------------------------------------
(* What dyld reads when an opcode of each kind follows the stream s.       *)
LEMMA PutSetLib ==
    ASSUME NEW s, NEW n, NEW len
    PROVE  Put(s, SetLib(n, len)) =
             [size |-> s.size + len, lib |-> n, sym |-> s.sym, bound |-> s.bound]
  BY DEF Put, SetLib

LEMMA PutSetSym ==
    ASSUME NEW s, NEW symbol
    PROVE  Put(s, SetSym(symbol)) =
             [size |-> s.size + 1, lib |-> s.lib, sym |-> symbol, bound |-> s.bound]
  BY DEF Put, SetSym

LEMMA PutBind ==
    ASSUME NEW s, NEW b, b = Append(s.bound, <<s.lib, s.sym>>)
    PROVE  Put(s, Bind) =
             [size |-> s.size + 1, lib |-> s.lib, sym |-> s.sym, bound |-> b]
  BY DEF Put, Bind

LEMMA PutOther ==
    ASSUME NEW s
    PROVE  Put(s, Other) =
             [size |-> s.size + 1, lib |-> s.lib, sym |-> s.sym, bound |-> s.bound]
  BY DEF Put, Other

(* A stream stays a stream.                                                *)
LEMMA PutType ==
    ASSUME NEW s \in Stream
    PROVE  /\ \A n \in Ordinal, len \in Nat : Put(s, SetLib(n, len)) \in Stream
           /\ \A symbol \in Symbol : Put(s, SetSym(symbol)) \in Stream
           /\ Put(s, Bind) \in Stream
           /\ Put(s, Other) \in Stream
<1>1. /\ s.size \in Nat /\ s.lib \in Ordinal /\ s.sym \in Symbol \cup {NoSymbol}
      /\ s.bound \in Seq(Ordinal \X (Symbol \cup {NoSymbol}))
  BY DEF Stream
<1>2. Append(s.bound, <<s.lib, s.sym>>) \in Seq(Ordinal \X (Symbol \cup {NoSymbol}))
  BY <1>1
<1>3. \A n \in Ordinal, len \in Nat : Put(s, SetLib(n, len)) \in Stream
  BY <1>1, PutSetLib DEF Stream
<1>4. \A symbol \in Symbol : Put(s, SetSym(symbol)) \in Stream
  BY <1>1, PutSetSym DEF Stream
<1>5. Put(s, Bind) \in Stream
  <2> DEFINE b == Append(s.bound, <<s.lib, s.sym>>)
  <2> HIDE DEF b
  <2>1. Put(s, Bind) = [size |-> s.size + 1, lib |-> s.lib, sym |-> s.sym, bound |-> b]
    BY PutBind DEF b
  <2>2. b \in Seq(Ordinal \X (Symbol \cup {NoSymbol}))
    BY <1>2 DEF b
  <2> QED
    BY <1>1, <2>1, <2>2 DEF Stream
<1>6. Put(s, Other) \in Stream
  BY <1>1, PutOther DEF Stream
<1> QED
  BY <1>3, <1>4, <1>5, <1>6

(* A stream that follows another does so behind the same opcode, or when   *)
(* it is given the shim library in place of any other.                     *)
LEMMA PutFollows ==
    ASSUME NEW s \in Stream, NEW t \in Stream, Follows(s, t)
    PROVE  /\ \A n, a, b : Follows(Put(s, SetLib(n, a)), Put(t, SetLib(n, b)))
           /\ \A n, a, b : Follows(Put(s, SetLib(shimOrdinal, a)), Put(t, SetLib(n, b)))
           /\ \A symbol : Follows(Put(s, SetSym(symbol)), Put(t, SetSym(symbol)))
           /\ Follows(Put(s, Bind), Put(t, Bind))
           /\ Follows(Put(s, Other), Put(t, Other))
<1>1. /\ s.bound \in Seq(Ordinal \X (Symbol \cup {NoSymbol}))
      /\ t.bound \in Seq(Ordinal \X (Symbol \cup {NoSymbol}))
  BY DEF Stream
<1>2. \A n, a, b : Follows(Put(s, SetLib(n, a)), Put(t, SetLib(n, b)))
  BY PutSetLib DEF Follows
<1>3. \A n, a, b : Follows(Put(s, SetLib(shimOrdinal, a)), Put(t, SetLib(n, b)))
  BY PutSetLib DEF Follows
<1>4. \A symbol : Follows(Put(s, SetSym(symbol)), Put(t, SetSym(symbol)))
  BY PutSetSym DEF Follows
<1>5. Follows(Put(s, Bind), Put(t, Bind))
  <2> DEFINE u == Append(s.bound, <<s.lib, s.sym>>)
             v == Append(t.bound, <<t.lib, t.sym>>)
  <2>1. /\ Len(u) = Len(s.bound) + 1 /\ Len(v) = Len(t.bound) + 1
        /\ DOMAIN v = 1 .. (Len(t.bound) + 1) /\ Len(t.bound) \in Nat
        /\ Len(s.bound) = Len(t.bound)
    BY <1>1 DEF Follows
  <2>2. /\ \A k \in 1 .. Len(t.bound) : u[k] = s.bound[k] /\ v[k] = t.bound[k]
        /\ u[Len(t.bound) + 1] = <<s.lib, s.sym>>
        /\ v[Len(t.bound) + 1] = <<t.lib, t.sym>>
    BY <1>1, <2>1
  <2>3. \A k \in DOMAIN v : v[k][2] = u[k][2] /\ u[k][1] \in {v[k][1], shimOrdinal}
    <3> SUFFICES ASSUME NEW k \in DOMAIN v
                 PROVE  v[k][2] = u[k][2] /\ u[k][1] \in {v[k][1], shimOrdinal}
      OBVIOUS
    <3>1. CASE k \in 1 .. Len(t.bound)
      <4>1. k \in DOMAIN t.bound
        BY <1>1, <3>1
      <4> QED
        BY <4>1, <3>1, <2>2 DEF Follows
    <3>2. CASE k = Len(t.bound) + 1
      BY <3>2, <2>2 DEF Follows
    <3> QED
      BY <2>1, <3>1, <3>2
  <2> HIDE DEF u, v
  <2>4. /\ Put(s, Bind).bound = u /\ Put(t, Bind).bound = v
        /\ Put(s, Bind).lib = s.lib /\ Put(t, Bind).lib = t.lib
        /\ Put(s, Bind).sym = s.sym /\ Put(t, Bind).sym = t.sym
    <3>1. /\ Put(s, Bind) = [size |-> s.size + 1, lib |-> s.lib, sym |-> s.sym, bound |-> u]
          /\ Put(t, Bind) = [size |-> t.size + 1, lib |-> t.lib, sym |-> t.sym, bound |-> v]
      BY PutBind DEF u, v
    <3> QED
      BY <3>1
  <2> QED
    BY <2>1, <2>3, <2>4 DEF Follows
<1>6. Follows(Put(s, Other), Put(t, Other))
  BY PutOther DEF Follows
<1> QED
  BY <1>2, <1>3, <1>4, <1>5, <1>6

(* The pointers of a stream that mirrors another, behind an opcode that    *)
(* binds none.                                                             *)
LEMMA PutMirrors ==
    ASSUME NEW s \in Stream, NEW t \in Stream, Mirrors(s, t),
           NEW a, NEW b, a.set # "bound", b.set # "bound"
    PROVE  Mirrors(Put(s, a), Put(t, b))
  BY DEF Mirrors, Put

(* Binding the redirected pointer.                                         *)
LEMMA BindMirrors ==
    ASSUME NEW s \in Stream, NEW t \in Stream, Mirrors(s, t),
           <<s.lib, s.sym>> = Redirected(<<t.lib, t.sym>>)
    PROVE  Mirrors(Put(s, Bind), Put(t, Bind))
<1> DEFINE u == Append(s.bound, <<s.lib, s.sym>>)
           v == Append(t.bound, <<t.lib, t.sym>>)
<1>1. /\ s.bound \in Seq(Ordinal \X (Symbol \cup {NoSymbol}))
      /\ t.bound \in Seq(Ordinal \X (Symbol \cup {NoSymbol}))
  BY DEF Stream
<1>2. /\ Len(u) = Len(s.bound) + 1 /\ Len(v) = Len(t.bound) + 1
      /\ DOMAIN v = 1 .. (Len(t.bound) + 1) /\ Len(t.bound) \in Nat
      /\ Len(s.bound) = Len(t.bound)
  BY <1>1 DEF Mirrors
<1>3. /\ \A k \in 1 .. Len(t.bound) : u[k] = s.bound[k] /\ v[k] = t.bound[k]
      /\ u[Len(t.bound) + 1] = <<s.lib, s.sym>>
      /\ v[Len(t.bound) + 1] = <<t.lib, t.sym>>
  BY <1>1, <1>2
<1>4. ASSUME NEW k \in DOMAIN v
      PROVE  u[k] = Redirected(v[k])
  <2>1. CASE k \in 1 .. Len(t.bound)
    <3>1. k \in DOMAIN t.bound
      BY <1>1, <2>1
    <3> QED
      BY <3>1, <2>1, <1>3 DEF Mirrors
  <2>2. CASE k = Len(t.bound) + 1
    BY <2>2, <1>3
  <2> QED
    BY <1>2, <2>1, <2>2
<1> HIDE DEF u, v
<1>5. /\ Put(s, Bind) = [size |-> s.size + 1, lib |-> s.lib, sym |-> s.sym, bound |-> u]
      /\ Put(t, Bind) = [size |-> t.size + 1, lib |-> t.lib, sym |-> t.sym, bound |-> v]
  BY PutBind DEF u, v
<1>6. Put(s, Bind).bound = u /\ Put(t, Bind).bound = v
  BY <1>5
<1> QED
  BY <1>2, <1>4, <1>6 DEF Mirrors

-----------------------------------------------------------------------------
(* An opcode that is copied behind all three streams.                      *)
LEMMA CopyStreams ==
    ASSUME TypeOK, Streams, NEW op, Copy(op), op.size \in Nat,
           \A s \in Stream : Put(s, op) \in Stream,
           \A s, t \in Stream : Follows(s, t) => Follows(Put(s, op), Put(t, op))
    PROVE  StreamTypes' /\ Kept' /\ Sized' /\ Returned'
<1>1. /\ {newbind, tmpcache, record, input} \subseteq Stream
      /\ Kept /\ Sized
  BY DEF TypeOK, Streams, Copy, Reading
<1>2. /\ tmpcache' = Put(tmpcache, op) /\ record' = Put(record, op)
      /\ input' = Put(input, op) /\ newbind' = newbind
      /\ shimOrdinal' = shimOrdinal /\ rebuilt' = rebuilt /\ resized' = resized
      /\ pc' = "read"
  BY DEF Copy, Reading, header
<1>3. StreamTypes'
  BY <1>1, <1>2 DEF StreamTypes
<1>4. Follows(record', input') /\ Follows(tmpcache', input')
  BY <1>1, <1>2 DEF Kept
<1>5. Kept'
  BY <1>2, <1>4 DEF Kept, Follows
<1>6. /\ record'.size = record.size + op.size
      /\ tmpcache'.size = tmpcache.size + op.size
      /\ input'.size = input.size + op.size
  BY <1>2 DEF Put
<1>7. Sized'
  BY <1>1, <1>2, <1>6 DEF Sized
<1> QED
  BY <1>2, <1>3, <1>5, <1>7 DEF Returned

(* An opcode that sets the library.                                        *)
LEMMA ReplaceStreams ==
    ASSUME TypeOK, Streams, Located, NEW n \in DOMAIN dylibs,
           NEW a \in Nat, NEW b \in Nat, NEW grows \in BOOLEAN, ~grows => a = b,
           Replace(n, a, b, grows)
    PROVE  StreamTypes' /\ Kept' /\ Sized' /\ Mirrored' /\ Returned'
<1>1. /\ {newbind, tmpcache, record, input} \subseteq Stream
      /\ Kept /\ Sized /\ Mirrored
      /\ rebuilt \in BOOLEAN /\ resized \in BOOLEAN
  BY DEF TypeOK, Streams, Replace, Reading
<1>2. /\ tmpcache' = Put(tmpcache, SetLib(shimOrdinal, b))
      /\ record' = Put(record, SetLib(n, a))
      /\ input' = Put(input, SetLib(n, a)) /\ newbind' = newbind
      /\ shimOrdinal' = shimOrdinal /\ dylibs' = dylibs /\ twolevel' = twolevel
      /\ rebuilt' = rebuilt /\ resized' = (resized \/ grows)
      /\ libraryOrdinal' = n /\ symbolName' = symbolName
      /\ type' = type /\ explicit' = explicit
      /\ pc' = "read"
  BY DEF Replace, Reading, header
<1>3. n \in Ordinal /\ shimOrdinal \in Ordinal
  BY DEF TypeOK, Located, Ordinal
<1>4. StreamTypes'
  BY <1>1, <1>2, <1>3, PutType DEF StreamTypes
<1>5. Follows(record', input') /\ Follows(tmpcache', input')
  BY <1>1, <1>2, PutFollows DEF Kept
<1>6. Kept'
  BY <1>2, <1>5 DEF Kept, Follows
<1>7. /\ record' = [size |-> record.size + a, lib |-> n, sym |-> record.sym, bound |-> record.bound]
      /\ input' = [size |-> input.size + a, lib |-> n, sym |-> input.sym, bound |-> input.bound]
      /\ tmpcache' = [size |-> tmpcache.size + b, lib |-> shimOrdinal,
                      sym |-> tmpcache.sym, bound |-> tmpcache.bound]
  BY <1>2, PutSetLib
<1>8. Sized'
  BY <1>1, <1>2, <1>7 DEF Sized
<1>9. Mirrored'
  <2>1. /\ input'.lib = libraryOrdinal' /\ input'.sym = symbolName'
        /\ record'.lib = libraryOrdinal' /\ tmpcache'.lib = shimOrdinal'
    BY <1>1, <1>2, <1>7 DEF Mirrored
  <2>2. explicit' /\ type' # "weak" => Mirrors(record', input') /\ Mirrors(tmpcache', input')
    BY <1>1, <1>2, <1>7 DEF Mirrored, Mirrors
  <2>3. explicit' /\ type' # "weak" => Mirrors(record, input)' /\ Mirrors(tmpcache, input)'
    BY <1>2, <2>2 DEF Mirrors, Redirected, Redirects, FromSystem
  <2> QED
    BY <2>1, <2>3 DEF Mirrored
<1> QED
  BY <1>2, <1>4, <1>6, <1>8, <1>9 DEF Returned

LEMMA SetSpecialStreams ==
    ASSUME TypeOK, Streams, NEW n \in Special, SetSpecial(n)
    PROVE  StreamTypes' /\ Kept' /\ Sized' /\ Mirrored' /\ Returned'
<1> DEFINE op == SetLib(n, 1)
<1>1. n \in Ordinal /\ n \notin DOMAIN dylibs
  BY SpecialAssumption DEF Ordinal, TypeOK
<1>2. op.size \in Nat /\ op.set # "bound"
  BY DEF SetLib
<1>3. \A s \in Stream : Put(s, op) \in Stream
  BY <1>1, PutType
<1>4. \A s, t \in Stream : Follows(s, t) => Follows(Put(s, op), Put(t, op))
  BY PutFollows
<1>5. /\ Copy(op) /\ Streams /\ pc = "read"
      /\ libraryOrdinal' = n /\ symbolName' = symbolName /\ explicit' = explicit
  BY DEF SetSpecial, Copy, Reading
<1> HIDE DEF op
<1>6. StreamTypes' /\ Kept' /\ Sized' /\ Returned'
  BY <1>2, <1>3, <1>4, <1>5, CopyStreams
<1>7. /\ {newbind, tmpcache, record, input} \subseteq Stream
      /\ Mirrored
  BY <1>5 DEF TypeOK, Streams
<1>8. /\ tmpcache' = Put(tmpcache, op) /\ record' = Put(record, op)
      /\ input' = Put(input, op) /\ type' = type
      /\ shimOrdinal' = shimOrdinal /\ dylibs' = dylibs /\ twolevel' = twolevel
  BY <1>5 DEF Copy, header
<1>9. /\ input'.lib = n /\ input'.sym = input.sym /\ record'.lib = n
  BY <1>8, PutSetLib DEF op
<1>10. explicit' /\ type' # "weak" => Mirrors(record', input') /\ Mirrors(tmpcache', input')
  BY <1>2, <1>5, <1>7, <1>8, PutMirrors DEF Mirrored
<1>11. explicit' /\ type' # "weak" => Mirrors(record, input)' /\ Mirrors(tmpcache, input)'
  BY <1>8, <1>10 DEF Mirrors, Redirected, Redirects, FromSystem
<1> QED
  BY <1>1, <1>5, <1>6, <1>7, <1>8, <1>9, <1>11 DEF Mirrored

(* The opcodes that leave the library as it is.                            *)
LEMMA SetSymbolStreams ==
    ASSUME TypeOK, Streams, NEW symbol \in Symbol, SetSymbol(symbol)
    PROVE  StreamTypes' /\ Kept' /\ Sized' /\ Mirrored' /\ Returned'
<1> DEFINE op == SetSym(symbol)
<1>2. op.size \in Nat /\ op.set # "bound"
  BY DEF SetSym
<1>3. \A s \in Stream : Put(s, op) \in Stream
  BY PutType
<1>4. \A s, t \in Stream : Follows(s, t) => Follows(Put(s, op), Put(t, op))
  BY PutFollows
<1>5. /\ Copy(op) /\ pc = "read" /\ fresh' = fresh
      /\ libraryOrdinal' = libraryOrdinal /\ symbolName' = symbol /\ explicit' = explicit
  BY DEF SetSymbol, Copy, Reading
<1> HIDE DEF op
<1>6. StreamTypes' /\ Kept' /\ Sized' /\ Returned'
  BY <1>2, <1>3, <1>4, <1>5, CopyStreams
<1>7. /\ {newbind, tmpcache, record, input} \subseteq Stream
      /\ Mirrored
  BY <1>5 DEF TypeOK, Streams
<1>8. /\ tmpcache' = Put(tmpcache, op) /\ record' = Put(record, op)
      /\ input' = Put(input, op) /\ type' = type
      /\ shimOrdinal' = shimOrdinal /\ dylibs' = dylibs /\ twolevel' = twolevel
  BY <1>5 DEF Copy, header
<1>9. /\ input'.lib = input.lib /\ input'.sym = symbol
      /\ record'.lib = record.lib /\ tmpcache'.lib = tmpcache.lib
  BY <1>8, PutSetSym DEF op
<1>10. explicit' /\ type' # "weak" => Mirrors(record', input') /\ Mirrors(tmpcache', input')
  BY <1>2, <1>5, <1>7, <1>8, PutMirrors DEF Mirrored
<1>11. explicit' /\ type' # "weak" => Mirrors(record, input)' /\ Mirrors(tmpcache, input)'
  BY <1>8, <1>10 DEF Mirrors, Redirected, Redirects, FromSystem
<1> QED
  BY <1>5, <1>6, <1>7, <1>8, <1>9, <1>11 DEF Mirrored

LEMMA OtherStreams ==
    ASSUME TypeOK, Streams, OtherOpcode
    PROVE  StreamTypes' /\ Kept' /\ Sized' /\ Mirrored' /\ Returned'
<1>2. Other.size \in Nat /\ Other.set # "bound"
  BY DEF Other
<1>3. \A s \in Stream : Put(s, Other) \in Stream
  BY PutType
<1>4. \A s, t \in Stream : Follows(s, t) => Follows(Put(s, Other), Put(t, Other))
  BY PutFollows
<1>5. /\ Copy(Other) /\ pc = "read" /\ fresh' = fresh
      /\ libraryOrdinal' = libraryOrdinal /\ symbolName' = symbolName
      /\ explicit' = explicit
  BY DEF OtherOpcode, Copy, Reading
<1>6. StreamTypes' /\ Kept' /\ Sized' /\ Returned'
  BY <1>2, <1>3, <1>4, <1>5, CopyStreams
<1>7. /\ {newbind, tmpcache, record, input} \subseteq Stream
      /\ Mirrored
  BY <1>5 DEF TypeOK, Streams
<1>8. /\ tmpcache' = Put(tmpcache, Other) /\ record' = Put(record, Other)
      /\ input' = Put(input, Other) /\ type' = type
      /\ shimOrdinal' = shimOrdinal /\ dylibs' = dylibs /\ twolevel' = twolevel
  BY <1>5 DEF Copy, header
<1>9. /\ input'.lib = input.lib /\ input'.sym = input.sym
      /\ record'.lib = record.lib /\ tmpcache'.lib = tmpcache.lib
  BY <1>8, PutOther
<1>10. explicit' /\ type' # "weak" => Mirrors(record', input') /\ Mirrors(tmpcache', input')
  BY <1>2, <1>5, <1>7, <1>8, PutMirrors DEF Mirrored
<1>11. explicit' /\ type' # "weak" => Mirrors(record, input)' /\ Mirrors(tmpcache, input)'
  BY <1>8, <1>10 DEF Mirrors, Redirected, Redirects, FromSystem
<1> QED
  BY <1>5, <1>6, <1>7, <1>8, <1>9, <1>11 DEF Mirrored

(* A binding that is not the end of a record.                              *)
LEMMA DoBindAddStreams ==
    ASSUME TypeOK, Streams, DoBindAdd
    PROVE  StreamTypes' /\ Kept' /\ Sized' /\ Mirrored' /\ Returned'
<1>2. Bind.size \in Nat
  BY DEF Bind
<1>3. \A s \in Stream : Put(s, Bind) \in Stream
  BY PutType
<1>4. \A s, t \in Stream : Follows(s, t) => Follows(Put(s, Bind), Put(t, Bind))
  BY PutFollows
<1>5. /\ Copy(Bind) /\ pc = "read" /\ fresh' = fresh /\ explicit' = FALSE
      /\ libraryOrdinal' = libraryOrdinal /\ symbolName' = symbolName
  BY DEF DoBindAdd, Copy, Reading
<1>6. StreamTypes' /\ Kept' /\ Sized' /\ Returned'
  BY <1>2, <1>3, <1>4, <1>5, CopyStreams
<1>7. Mirrored
  BY <1>5 DEF Streams
<1>8. /\ tmpcache' = Put(tmpcache, Bind) /\ record' = Put(record, Bind)
      /\ input' = Put(input, Bind)
      /\ shimOrdinal' = shimOrdinal /\ dylibs' = dylibs
  BY <1>5 DEF Copy, header
<1>9. /\ input'.lib = input.lib /\ input'.sym = input.sym
      /\ record'.lib = record.lib /\ tmpcache'.lib = tmpcache.lib
  BY <1>8 DEF Put, Bind
<1> QED
  BY <1>5, <1>6, <1>7, <1>8, <1>9 DEF Mirrored

(* The end of a record: one of the two streams becomes both.               *)
LEMMA DoBindStreams ==
    ASSUME TypeOK, Streams, Located, DoBind
    PROVE  StreamTypes' /\ Kept' /\ Sized' /\ Mirrored' /\ Returned'
<1>1. /\ {newbind, tmpcache, record, input, Taken} \subseteq Stream
      /\ Kept /\ Sized /\ Mirrored
      /\ rebuilt \in BOOLEAN /\ resized \in BOOLEAN
  BY DEF TypeOK, Streams, DoBind, Reading, Taken
<1>2. /\ tmpcache' = Put(Taken, Bind) /\ record' = Put(Taken, Bind)
      /\ input' = Put(input, Bind) /\ newbind' = Taken
      /\ rebuilt' = (rebuilt \/ (Shim /\ resized)) /\ resized' = (resized /\ ~Shim)
      /\ shimOrdinal' = shimOrdinal /\ dylibs' = dylibs /\ twolevel' = twolevel
      /\ libraryOrdinal' = libraryOrdinal /\ symbolName' = symbolName
      /\ type' = type /\ explicit' = (explicit /\ fresh) /\ fresh' = FALSE
      /\ pc' = "read"
  BY DEF DoBind, Reading, header, NextRecord, Rebuilt
<1>3. StreamTypes'
  BY <1>1, <1>2, PutType DEF StreamTypes
<1>4. Follows(Taken, input)
  BY <1>1 DEF Kept, Taken
<1>5. Follows(record', input') /\ Follows(tmpcache', input')
  BY <1>1, <1>2, <1>4, PutFollows
<1>6. Kept'
  BY <1>2, <1>5 DEF Kept, Follows
<1>7. /\ record'.size = Taken.size + 1 /\ tmpcache'.size = Taken.size + 1
      /\ input'.size = input.size + 1
      /\ input'.lib = input.lib /\ input'.sym = input.sym
  BY <1>2 DEF Put, Bind
<1>8. ~rebuilt' => Taken.size = input.size
  BY <1>1, <1>2 DEF Sized, Taken
<1>9. Sized'
  BY <1>7, <1>8 DEF Sized
<1>10. explicit' /\ type' # "weak" => Mirrors(record, input)' /\ Mirrors(tmpcache, input)'
  <2> SUFFICES ASSUME explicit, fresh, type # "weak"
               PROVE  Mirrors(record, input)' /\ Mirrors(tmpcache, input)'
    BY <1>2
  <2>1. Mirrors(Taken, input)
    BY <1>1 DEF Mirrored, Taken
  <2>2. Taken.sym = input.sym /\ input.lib = libraryOrdinal /\ input.sym = symbolName
    BY <1>1, <1>4 DEF Mirrored, Follows
  <2>3. Shim <=> Redirects(libraryOrdinal, symbolName)
    BY DEF Shim, Skipped
  <2>4. CASE Shim
    <3>1. libraryOrdinal \in DOMAIN dylibs
      BY <2>3, <2>4 DEF Redirects, FromSystem
    <3>2. Taken.lib = shimOrdinal
      BY <1>1, <2>4, <3>1 DEF Taken, Mirrored
    <3>3. <<Taken.lib, Taken.sym>> = Redirected(<<input.lib, input.sym>>)
      BY <2>2, <2>3, <2>4, <3>2 DEF Redirected
    <3>4. Mirrors(Put(Taken, Bind), Put(input, Bind))
      BY <1>1, <2>1, <3>3, BindMirrors
    <3> QED
      BY <1>2, <3>4 DEF Mirrors, Redirected, Redirects, FromSystem
  <2>5. CASE ~Shim
    <3>1. Taken.lib = libraryOrdinal
      BY <1>1, <2>5 DEF Taken, Mirrored
    <3>2. <<Taken.lib, Taken.sym>> = Redirected(<<input.lib, input.sym>>)
      BY <2>2, <2>3, <2>5, <3>1 DEF Redirected
    <3>3. Mirrors(Put(Taken, Bind), Put(input, Bind))
      BY <1>1, <2>1, <3>2, BindMirrors
    <3> QED
      BY <1>2, <3>3 DEF Mirrors, Redirected, Redirects, FromSystem
  <2> QED
    BY <2>4, <2>5
<1>11. Mirrored'
  BY <1>1, <1>2, <1>7, <1>10 DEF Mirrored
<1> QED
  BY <1>2, <1>3, <1>6, <1>9, <1>11 DEF Returned

(* What ends rebind(): newbind becomes the record, or nothing changes.     *)
LEMMA EndStreams ==
    ASSUME TypeOK, Streams, Finish \/ Abort
    PROVE  StreamTypes' /\ Kept' /\ Sized' /\ Mirrored' /\ Returned'
<1>1. /\ {newbind, tmpcache, record, input} \subseteq Stream
      /\ Kept /\ Sized /\ Mirrored
  BY DEF TypeOK, Streams, Finish, Abort
<1>2. UNCHANGED <<type, header, locals, tmpcache, record, input, fresh, explicit>>
  BY DEF Finish, Abort, streams
<1>3. /\ newbind' = record \/ newbind' = newbind
      /\ pc' = "returned" => newbind' = record
  BY DEF Finish, Abort, streams
<1>4. StreamTypes'
  BY <1>1, <1>2, <1>3 DEF StreamTypes
<1>5. Kept' /\ Sized'
  BY <1>1, <1>2 DEF Kept, Sized, Follows, header, locals
<1>6. Mirrored'
  BY <1>1, <1>2 DEF Mirrored, Mirrors, Redirected, Redirects, FromSystem, header, locals
<1> QED
  BY <1>2, <1>3, <1>4, <1>5, <1>6 DEF Returned

(* Every opcode, of any stream.                                            *)
LEMMA OpcodeStreams ==
    ASSUME TypeOK, Streams, Located, Opcode
    PROVE  StreamTypes' /\ Kept' /\ Sized' /\ Mirrored' /\ Returned'
<1>1. /\ shimOrdinal \in 1 .. MaxOrdinal
      /\ DOMAIN dylibs \subseteq 1 .. MaxOrdinal
      /\ \A n \in 1 .. MaxOrdinal : UlebLen[n] \in Nat
  BY MaskAssumption, UlebLenAssumption DEF TypeOK, Located
<1>2. ASSUME NEW n \in DOMAIN dylibs, SetOrdinalImm(n)
      PROVE  StreamTypes' /\ Kept' /\ Sized' /\ Mirrored' /\ Returned'
  <2> DEFINE b == IF Fits THEN 1 ELSE 1 + UlebLen[shimOrdinal]
  <2>1. b \in Nat /\ (~~Fits => 1 = b)
    BY <1>1
  <2>2. Replace(n, 1, b, ~Fits)
    BY <1>2 DEF SetOrdinalImm
  <2>3. (~Fits) \in BOOLEAN
    OBVIOUS
  <2> HIDE DEF b
  <2> QED
    BY <2>1, <2>2, <2>3, ReplaceStreams
<1>3. ASSUME NEW n \in DOMAIN dylibs, SetOrdinalUleb(n)
      PROVE  StreamTypes' /\ Kept' /\ Sized' /\ Mirrored' /\ Returned'
  <2> DEFINE a == 1 + UlebLen[n]
             b == 1 + UlebLen[shimOrdinal]
             grows == UlebLen[n] # UlebLen[shimOrdinal]
  <2>1. a \in Nat /\ b \in Nat /\ grows \in BOOLEAN /\ (~grows => a = b)
    BY <1>1
  <2>2. Replace(n, a, b, grows)
    BY <1>3 DEF SetOrdinalUleb
  <2> HIDE DEF a, b, grows
  <2> QED
    BY <2>1, <2>2, ReplaceStreams
<1> QED
  BY <1>2, <1>3, SetSpecialStreams, SetSymbolStreams, OtherStreams,
     DoBindAddStreams, DoBindStreams, EndStreams DEF Opcode

(* What an opcode leaves alone, and the types of what it changes.          *)
LEMMA OpcodeFrame ==
    ASSUME TypeOK, Opcode
    PROVE  /\ UNCHANGED <<type, header>>
           /\ pc = "read" /\ pc' \in {"read", "returned", "aborted"}
<1>1. ASSUME NEW n, NEW a, NEW b, NEW g, Replace(n, a, b, g)
      PROVE  UNCHANGED <<type, header>> /\ pc = "read" /\ pc' = "read"
  BY <1>1 DEF Replace, Reading
<1>2. ASSUME NEW op, Copy(op)
      PROVE  UNCHANGED <<type, header>> /\ pc = "read" /\ pc' = "read"
  BY <1>2 DEF Copy, Reading
<1>3. CASE DoBind
  BY <1>3 DEF DoBind, Reading
<1>4. CASE Finish \/ Abort
  BY <1>4 DEF Finish, Abort
<1> QED
  BY <1>1, <1>2, <1>3, <1>4 DEF Opcode, SetOrdinalImm, SetOrdinalUleb,
     SetSpecial, SetSymbol, OtherOpcode, DoBindAdd

LEMMA OpcodeLocals ==
    ASSUME TypeOK, Opcode
    PROVE  /\ libraryOrdinal' \in Ordinal /\ libraryOrdinalSet' \in BOOLEAN
           /\ symbolName' \in Symbol \cup {NoSymbol}
           /\ resized' \in BOOLEAN /\ rebuilt' \in BOOLEAN
           /\ fresh' \in BOOLEAN /\ explicit' \in BOOLEAN
<1> DEFINE Goal ==
           /\ libraryOrdinal' \in Ordinal /\ libraryOrdinalSet' \in BOOLEAN
           /\ symbolName' \in Symbol \cup {NoSymbol}
           /\ resized' \in BOOLEAN /\ rebuilt' \in BOOLEAN
           /\ fresh' \in BOOLEAN /\ explicit' \in BOOLEAN
<1>1. DOMAIN dylibs \subseteq Ordinal /\ Special \subseteq Ordinal
  BY DEF TypeOK, Ordinal
<1>2. ASSUME NEW n \in DOMAIN dylibs, NEW a, NEW b, NEW g \in BOOLEAN, Replace(n, a, b, g)
      PROVE  Goal
  BY <1>1, <1>2 DEF Replace, TypeOK
<1>3. ASSUME NEW n \in DOMAIN dylibs, SetOrdinalImm(n)
      PROVE  Goal
  <2>1. (~Fits) \in BOOLEAN
    OBVIOUS
  <2> QED
    BY <1>2, <1>3, <2>1 DEF SetOrdinalImm
<1>4. ASSUME NEW n \in DOMAIN dylibs, SetOrdinalUleb(n)
      PROVE  Goal
  <2>1. (UlebLen[n] # UlebLen[shimOrdinal]) \in BOOLEAN
    OBVIOUS
  <2> QED
    BY <1>2, <1>4, <2>1 DEF SetOrdinalUleb
<1>5. ASSUME NEW n \in Special, SetSpecial(n)
      PROVE  Goal
  BY <1>1, <1>5 DEF SetSpecial, Copy, TypeOK
<1>6. ASSUME NEW symbol \in Symbol, SetSymbol(symbol)
      PROVE  Goal
  BY <1>6 DEF SetSymbol, Copy, TypeOK
<1>7. CASE OtherOpcode \/ DoBindAdd
  BY <1>7 DEF OtherOpcode, DoBindAdd, Copy, TypeOK
<1>8. CASE DoBind
  BY <1>8 DEF DoBind, Rebuilt, TypeOK
<1>9. CASE Finish \/ Abort
  BY <1>9 DEF Finish, Abort, locals, TypeOK
<1> QED
  BY <1>3, <1>4, <1>5, <1>6, <1>7, <1>8, <1>9 DEF Opcode

-----------------------------------------------------------------------------
LEMMA EmptyStream ==
    Empty \in Stream /\ Follows(Empty, Empty) /\ Mirrors(Empty, Empty)
<1>1. 0 \in Ordinal
  BY SpecialAssumption DEF Ordinal
<1>2. <<>> \in Seq(Ordinal \X (Symbol \cup {NoSymbol})) /\ DOMAIN <<>> = {} /\ Len(<<>>) = 0
  OBVIOUS
<1> QED
  BY <1>1, <1>2 DEF Empty, Stream, Follows, Mirrors

LEMMA ResetTypes ==
    ASSUME NEW t \in Types, Reset(t)
    PROVE  /\ type' \in Types /\ libraryOrdinal' \in Ordinal
           /\ libraryOrdinalSet' \in BOOLEAN /\ symbolName' \in Symbol \cup {NoSymbol}
           /\ resized' \in BOOLEAN /\ rebuilt' \in BOOLEAN
           /\ fresh' \in BOOLEAN /\ explicit' \in BOOLEAN
           /\ StreamTypes'
<1>1. 0 \in Ordinal
  BY SpecialAssumption DEF Ordinal
<1> QED
  BY <1>1, EmptyStream DEF Reset, StreamTypes

(* A page more or less: the memory of __LINKEDIT is rounded up.            *)
LEMMA RoundPageCovers ==
    ASSUME NEW n \in Nat
    PROVE  RoundPage(n) \in Nat /\ RoundPage(n) >= n /\ RoundPage(n) % PageSize = 0
<1> DEFINE q == (n + PageSize - 1) \div PageSize
<1>1. PageSize \in Nat \ {0}
  BY SizesAssumption
<1>2. q \in Nat
  BY <1>1
<1>3. n <= q * PageSize
  BY <1>1
<1>4. q * PageSize \in Nat
  BY <1>1, <1>2
<1>5. (q * PageSize) % PageSize = 0
  BY <1>1, <1>2
<1> QED
  BY <1>3, <1>4, <1>5 DEF RoundPage

(* An ordinal within the limit is read as it was stored.                   *)
LEMMA ReadBackFits ==
    ASSUME NEW n \in Nat, NEW max \in Nat, NEW field \in Nat, n <= max, max < field
    PROVE  ReadBack(n, max, field) = n
<1>1. n % field = n
  <2>1. n >= 0 /\ n < field /\ field > 0
    OBVIOUS
  <2> QED
    BY <2>1
<1> QED
  BY <1>1 DEF ReadBack

(* A table behind its step.                                                *)
LEMMA TableRedone ==
    ASSUME Located, TargetTypeOK, NEW table \in Seq(Ordinal \X Symbol),
           NEW max \in Nat, NEW field \in Nat, max < field, CanRedirect(table, max)
    PROVE  /\ RedirectTable(table, max, field) \in Seq(Ordinal \X Symbol)
           /\ Redone(table, RedirectTable(table, max, field))
<1>1. shimOrdinal \in Ordinal /\ shimOrdinal \in Nat
  BY MaskAssumption DEF Located, TargetTypeOK, TypeOK, Ordinal
<1>2. DOMAIN table = 1 .. Len(table) /\ Len(table) \in Nat
      /\ \A k \in 1 .. Len(table) : table[k] \in Ordinal \X Symbol
  OBVIOUS
<1>3. ASSUME NEW k \in 1 .. Len(table)
      PROVE  /\ RedirectTable(table, max, field)[k] = Redirected(table[k])
             /\ Redirected(table[k]) \in Ordinal \X Symbol
  <2>1. PICK o \in Ordinal, y \in Symbol : table[k] = <<o, y>>
    BY <1>2
  <2>2. CASE Redirects(o, y)
    <3>1. shimOrdinal <= max
      BY <1>2, <2>1, <2>2 DEF CanRedirect
    <3>2. ReadBack(shimOrdinal, max, field) = shimOrdinal
      BY <1>1, <3>1, ReadBackFits
    <3> QED
      BY <1>1, <1>2, <2>1, <2>2, <3>2 DEF RedirectTable, Redirected
  <2>3. CASE ~Redirects(o, y)
    BY <1>2, <2>1, <2>3 DEF RedirectTable, Redirected
  <2> QED
    BY <2>2, <2>3
<1>4. DOMAIN RedirectTable(table, max, field) = 1 .. Len(table)
  BY <1>2 DEF RedirectTable
<1>5. RedirectTable(table, max, field) =
          [k \in 1 .. Len(table) |-> RedirectTable(table, max, field)[k]]
  BY <1>2 DEF RedirectTable
<1>6. RedirectTable(table, max, field) \in Seq(Ordinal \X Symbol)
  BY <1>2, <1>3, <1>5
<1> QED
  BY <1>2, <1>3, <1>4, <1>6 DEF Redone

-----------------------------------------------------------------------------
LEMMA InitInv == Init => IInv
<1> SUFFICES ASSUME Init PROVE IInv
  OBVIOUS
<1>1. /\ Empty \in Stream /\ 0 \in Ordinal
      /\ dylibs \in Seq(Libraries) /\ Len(dylibs) <= MaxOrdinal
      /\ shimOrdinal \in 0 .. MaxOrdinal
  BY EmptyStream, SpecialAssumption, LoadsAssumption, MaskAssumption
     DEF Init, Ordinal, Libraries
<1>2. TypeOK
  BY <1>1 DEF Init, TypeOK, Types
<1>3. /\ RoundPage(FileSize) \in Nat /\ RoundPage(FileSize) >= FileSize
      /\ FileSize \in Nat /\ FileSize - TailSize \in Nat
      /\ FileSize - TailSize <= FileSize
  BY SizesAssumption, RoundPageCovers
<1>4. TargetTypeOK
  BY <1>2, <1>3, TablesAssumption DEF Init, TargetTypeOK, Regions
<1>5. Phase /\ Streams /\ TablesRedone
  BY DEF Init, Phase, Streams, TablesRedone, Types
<1>6. Layout
  BY <1>3 DEF Init, Layout, LinkeditCovers, KeepsSize, Regions
<1> QED
  BY <1>4, <1>5, <1>6 DEF IInv

(* Types: of the locals of rebind(), of the rest.                          *)
LEMMA StepTypes ==
    ASSUME IInv, [Next]_vars
    PROVE  TypeOK'
<1>1. TypeOK /\ Phase /\ Streams /\ step \in {"commands", "symtab", "imports",
             "tail", "done", "skipped", "failed"} \cup Types
  BY DEF IInv, TargetTypeOK
<1>2. CASE UNCHANGED rebindVars
  BY <1>1, <1>2 DEF rebindVars, header, locals, streams, TypeOK
<1>3. CASE Commands
  <2>1. step = "commands" /\ pc = "idle"
    BY <1>1, <1>3 DEF Commands, Phase, Types
  <2>2. dylibs \in Seq(Libraries) /\ Len(dylibs) < MaxOrdinal /\ Len(dylibs) \in Nat
        /\ MaxOrdinal \in Nat /\ DOMAIN dylibs = 1 .. Len(dylibs)
    BY <2>1, <1>1, LoadsAssumption, MaskAssumption DEF Phase, Libraries
  <2>3. dylibs' \in Seq(Libraries) /\ Len(dylibs') <= MaxOrdinal
        /\ shimOrdinal' \in 0 .. MaxOrdinal
    BY <2>2, <1>3 DEF Commands, Libraries, ShimPlace, Last, Shims
  <2>4. UNCHANGED <<type, twolevel, locals, streams, fresh, explicit, pc>>
    BY <1>3 DEF Commands
  <2> QED
    BY <1>1, <2>1, <2>3, <2>4 DEF TypeOK, locals, streams
<1>4. CASE CallRebind
  <2>1. step \in Types /\ Reset(step) /\ UNCHANGED header /\ pc' = "read"
    BY <1>4 DEF CallRebind
  <2>2. Located
    BY <1>1, <2>1 DEF Phase, Types
  <2> QED
    BY <1>1, <2>1, <2>2, ResetTypes DEF TypeOK, header, StreamTypes, Located
<1>5. CASE RebindOpcode
  <2>1. Opcode /\ Located
    BY <1>1, <1>5, OpcodeFrame DEF RebindOpcode, Phase
  <2>2. StreamTypes'
    BY <1>1, <2>1, OpcodeStreams
  <2> QED
    BY <1>1, <2>1, <2>2, OpcodeFrame, OpcodeLocals DEF TypeOK, header, StreamTypes
<1>6. CASE RebindReturns
  <2>1. Reset("bind") /\ UNCHANGED header /\ pc' = "idle" /\ "bind" \in Types
    BY <1>6 DEF RebindReturns, Types
  <2> QED
    BY <1>1, <2>1, ResetTypes DEF TypeOK, header, StreamTypes
<1> QED
  BY <1>2, <1>3, <1>4, <1>5, <1>6 DEF Next, vars, SkipTarget, FailTarget, Symtab,
     Imports, NoStream, FinishTarget

LEMMA StepTargetTypes ==
    ASSUME IInv, [Next]_vars
    PROVE  TargetTypeOK'
<1> DEFINE Steps == {"commands", "symtab", "imports", "tail",
                     "done", "skipped", "failed"} \cup Types
           Rest == /\ step' \in Steps
                   /\ thin' \in BOOLEAN /\ signed' \in BOOLEAN
                   /\ {symtab', imports'} \subseteq Seq(Ordinal \X Symbol)
                   /\ given' \in [symtab : Tables, imports : Tables]
                   /\ {newfsize', fileEnd', vmEnd'} \subseteq Nat
                   /\ at' \in [Regions -> Nat]
<1>1. TargetTypeOK /\ TypeOK /\ Phase
  BY DEF IInv, TargetTypeOK
<1>2. ASSUME UNCHANGED <<slice, symtab, imports, layout>>, step' \in Steps
      PROVE  Rest
  BY <1>1, <1>2 DEF TargetTypeOK, slice, layout
<1>3. ASSUME Symtab \/ Imports
      PROVE  Rest
  <2>1. Located
    BY <1>1, <1>3 DEF Phase, Symtab, Imports
  <2>2. symtab' \in Seq(Ordinal \X Symbol) /\ imports' \in Seq(Ordinal \X Symbol)
    <3>1. symtab \in Seq(Ordinal \X Symbol) /\ imports \in Seq(Ordinal \X Symbol)
      BY <1>1 DEF TargetTypeOK
    <3>2. CASE Symtab
      BY <1>1, <2>1, <3>1, <3>2, TableRedone, LimitsAssumption DEF Symtab
    <3>3. CASE Imports
      BY <1>1, <2>1, <3>1, <3>3, TableRedone, LimitsAssumption DEF Imports
    <3> QED
      BY <1>3, <3>2, <3>3
  <2> QED
    BY <1>1, <1>3, <2>2 DEF TargetTypeOK, Symtab, Imports, Goto, slice, layout, Types
<1>4. ASSUME RebindReturns
      PROVE  Rest
  <2>1. newbind.size \in Nat
    BY <1>1 DEF TypeOK, Stream
  <2>2. {newfsize', fileEnd', vmEnd'} \subseteq Nat /\ at' \in [Regions -> Nat]
    <3>1. CASE rebuilt
      <4>1. newfsize \in Nat /\ fileEnd \in Nat /\ vmEnd \in Nat /\ at \in [Regions -> Nat]
        BY <1>1 DEF TargetTypeOK
      <4>2. AppendTable(step, newbind.size)
        BY <1>4, <3>1 DEF RebindReturns
      <4>3. /\ newfsize' \in Nat /\ fileEnd' \in Nat /\ vmEnd' \in Nat
            /\ at' = [at EXCEPT ![step] = newfsize + newbind.size]
        BY <2>1, <4>1, <4>2 DEF AppendTable
      <4>4. newfsize + newbind.size \in Nat
        BY <2>1, <4>1
      <4> QED
        BY <4>1, <4>3, <4>4
    <3>2. CASE ~rebuilt
      BY <1>1, <1>4, <3>2 DEF TargetTypeOK, RebindReturns, layout
    <3> QED
      BY <3>1, <3>2
  <2>3. step' \in Steps /\ UNCHANGED <<slice, symtab, imports>>
    BY <1>4 DEF RebindReturns, Goto, After, Types
  <2> QED
    BY <1>1, <2>2, <2>3 DEF TargetTypeOK, slice
<1>5. ASSUME FinishTarget
      PROVE  Rest
  <2>1. TailSize \in Nat /\ newfsize \in Nat /\ fileEnd \in Nat
        /\ RoundPage(vmEnd + TailSize) \in Nat /\ RoundPage(vmEnd + 2 * TailSize) \in Nat
    <3>1. TailSize \in Nat /\ newfsize \in Nat /\ fileEnd \in Nat /\ vmEnd \in Nat
      BY <1>1, SizesAssumption DEF TargetTypeOK
    <3>2. vmEnd + TailSize \in Nat /\ vmEnd + 2 * TailSize \in Nat
      BY <3>1
    <3> QED
      BY <3>1, <3>2, RoundPageCovers
  <2>2. {newfsize', fileEnd', vmEnd'} \subseteq Nat /\ at' \in [Regions -> Nat]
    <3>1. CASE AppendTail /\ signed
      <4>1. newfsize + TailSize \in Nat /\ newfsize + 2 * TailSize \in Nat
            /\ fileEnd + 2 * TailSize \in Nat /\ at \in [Regions -> Nat]
        BY <1>1, <2>1 DEF TargetTypeOK
      <4> QED
        BY <2>1, <3>1, <4>1 DEF AppendTail
    <3>2. CASE AppendTail /\ ~signed
      <4>1. newfsize + TailSize \in Nat /\ fileEnd + TailSize \in Nat /\ at \in [Regions -> Nat]
        BY <1>1, <2>1 DEF TargetTypeOK
      <4> QED
        BY <2>1, <3>2, <4>1 DEF AppendTail
    <3>3. CASE KeepTail
      BY <1>1, <3>3, RoundPageCovers DEF TargetTypeOK, KeepTail
    <3> QED
      BY <1>5, <3>1, <3>2, <3>3 DEF FinishTarget
  <2>3. step' \in Steps /\ UNCHANGED <<slice, symtab, imports>>
    BY <1>5 DEF FinishTarget, Goto
  <2> QED
    BY <1>1, <2>2, <2>3 DEF TargetTypeOK, slice
<1>6. Rest
  <2>1. CASE NoStream
    BY <1>2, <2>1 DEF NoStream, Goto, After, Types
  <2>2. CASE SkipTarget \/ FailTarget \/ Commands
    BY <1>2, <2>2 DEF SkipTarget, FailTarget, Commands, Goto
  <2>3. CASE CallRebind \/ RebindOpcode
    BY <1>2, <2>3 DEF CallRebind, RebindOpcode
  <2>4. CASE UNCHANGED vars
    BY <1>1, <1>2, <2>4 DEF vars, TargetTypeOK
  <2> QED
    BY <1>3, <1>4, <1>5, <2>1, <2>2, <2>3, <2>4 DEF Next
<1> QED
  BY <1>6, StepTypes DEF TargetTypeOK

(* Where the function is.                                                  *)
LEMMA StepPhase ==
    ASSUME IInv, [Next]_vars
    PROVE  Phase'
<1>1. TypeOK /\ Phase /\ TargetTypeOK
  BY DEF IInv, TargetTypeOK
<1>2. CASE SkipTarget \/ FailTarget
  BY <1>1, <1>2 DEF SkipTarget, FailTarget, Goto, Phase, Located, Types, rebindVars, header
<1>3. CASE Commands
  <2>1. step = "commands" /\ pc = "idle" /\ pc' = "idle" /\ step' = "symtab"
    BY <1>1, <1>3 DEF Commands, Phase, Types, Goto
  <2>2. dylibs \in Seq(Libraries) /\ Len(dylibs) \in Nat
        /\ DOMAIN dylibs = 1 .. Len(dylibs)
    BY <1>1 DEF TypeOK
  <2>3. Located'
    BY <2>2, <1>3 DEF Commands, ShimPlace, Last, Shims, Located
  <2> QED
    BY <2>1, <2>3 DEF Phase, Types
<1>4. CASE Symtab \/ Imports \/ FinishTarget \/ NoStream
  <2>1. UNCHANGED rebindVars /\ step \notin {"commands", "skipped", "failed"}
        /\ pc = "idle" /\ step' \in {"imports", "tail", "done"} \cup Types
    BY <1>1, <1>4 DEF Symtab, Imports, FinishTarget, NoStream, Phase, Types, Goto, After
  <2> QED
    BY <1>1, <2>1 DEF Phase, Located, rebindVars, header, Types, TypeOK
<1>5. CASE CallRebind
  <2>1. step \in Types /\ step' = step /\ Reset(step) /\ UNCHANGED header
    BY <1>5 DEF CallRebind
  <2> QED
    BY <1>1, <2>1, ResetTypes DEF Phase, Located, header, Types
<1>6. CASE RebindOpcode
  <2>1. Opcode /\ step' = step
    BY <1>6 DEF RebindOpcode
  <2> QED
    BY <1>1, <2>1, OpcodeFrame DEF Phase, Located, header
<1>7. CASE RebindReturns
  <2>1. step \in Types /\ Reset("bind") /\ UNCHANGED header /\ pc' = "idle"
        /\ step' \in {"tail"} \cup Types
    BY <1>7 DEF RebindReturns, Goto, After, Types
  <2> QED
    BY <1>1, <2>1 DEF Phase, Located, header, Types, Reset
<1>8. CASE UNCHANGED vars
  BY <1>1, <1>8 DEF vars, rebindVars, header, Phase, Located
<1> QED
  BY <1>2, <1>3, <1>4, <1>5, <1>6, <1>7, <1>8 DEF Next

LEMMA StepStreams ==
    ASSUME IInv, [Next]_vars
    PROVE  Streams'
<1>1. TypeOK /\ Phase /\ Streams
  BY DEF IInv, TargetTypeOK
<1>2. CASE UNCHANGED rebindVars
  <2>1. Kept => Kept'
    BY <1>2 DEF rebindVars, header, locals, streams, Kept, Follows
  <2>2. (Sized => Sized') /\ (Returned => Returned')
    BY <1>2 DEF rebindVars, header, locals, streams, Sized, Returned
  <2>3. Mirrored => Mirrored'
    BY <1>2 DEF rebindVars, header, locals, streams,
       Mirrored, Mirrors, Redirected, Redirects, FromSystem
  <2> QED
    BY <1>1, <1>2, <2>1, <2>2, <2>3 DEF Streams, rebindVars
<1>3. CASE Commands
  BY <1>1, <1>3 DEF Commands, Phase, Streams, Types
<1>4. CASE CallRebind
  <2>1. Reset(step) /\ UNCHANGED header /\ pc' = "read"
    BY <1>4 DEF CallRebind
  <2>2. Follows(record', input') /\ Follows(tmpcache', input')
        /\ Mirrors(record', input') /\ Mirrors(tmpcache', input')
    BY <2>1, EmptyStream DEF Reset
  <2>3. Kept'
    BY <2>1, <2>2 DEF Kept, Follows, header
  <2>4. Mirrors(record, input)' /\ Mirrors(tmpcache, input)'
    BY <2>1, <2>2 DEF Mirrors, Redirected, Redirects, FromSystem, header
  <2>5. Sized' /\ Mirrored' /\ Returned'
    BY <2>1, <2>4 DEF Reset, Sized, Mirrored, Returned, Empty
  <2> QED
    BY <2>3, <2>5 DEF Streams
<1>5. CASE RebindOpcode
  <2>1. Opcode /\ Located
    BY <1>1, <1>5, OpcodeFrame DEF RebindOpcode, Phase
  <2> QED
    BY <1>1, <2>1, OpcodeStreams DEF Streams
<1>6. CASE RebindReturns
  BY <1>6 DEF RebindReturns, Streams
<1> QED
  BY <1>2, <1>3, <1>4, <1>5, <1>6 DEF Next, vars, SkipTarget, FailTarget, Symtab,
     Imports, NoStream, FinishTarget

LEMMA StepRedone ==
    ASSUME IInv, [Next]_vars
    PROVE  TablesRedone'
<1>1. TargetTypeOK /\ TypeOK /\ Phase /\ TablesRedone
  BY DEF IInv, TargetTypeOK
<1>2. ASSUME NEW old, NEW new, Redone(old, new), UNCHANGED header
      PROVE  DOMAIN new = DOMAIN old /\ \A k \in DOMAIN old : new[k] = Redirected(old[k])'
  BY <1>2 DEF Redone, Redirected, Redirects, FromSystem, header
<1>3. ASSUME UNCHANGED <<header, slice, symtab, imports>>,
             step' \in {"skipped", "failed"} \/ step' = step
             \/ (step \in {"bind", "lazy", "weak", "tail"}
                 /\ step' \in {"bind", "lazy", "weak", "tail", "done"})
      PROVE  TablesRedone'
  BY <1>1, <1>2, <1>3 DEF TablesRedone, Redone, slice
<1>4. CASE Commands
  BY <1>1, <1>4 DEF Commands, Goto, TablesRedone, slice
<1>5. CASE Symtab
  <2>1. Located /\ UNCHANGED header /\ step' = "imports" /\ step = "symtab"
        /\ symtab' = RedirectTable(symtab, MAX_LIBRARY_ORDINAL, SymtabField)
        /\ UNCHANGED <<given, imports>>
    BY <1>1, <1>5 DEF Symtab, Phase, rebindVars, Goto, slice
  <2>2. Redone(given.symtab, symtab')
    <3>1. /\ symtab \in Seq(Ordinal \X Symbol) /\ CanRedirect(symtab, MAX_LIBRARY_ORDINAL)
          /\ symtab = given.symtab
      BY <1>1, <1>5, <2>1 DEF TargetTypeOK, Symtab, TablesRedone
    <3> QED
      BY <1>1, <2>1, <3>1, TableRedone, LimitsAssumption
  <2>3. Redone(given.symtab, symtab)'
    BY <1>2, <2>1, <2>2 DEF Redone
  <2> QED
    BY <1>1, <2>1, <2>3 DEF TablesRedone
<1>6. CASE Imports
  <2>1. Located /\ UNCHANGED header /\ step' = "bind" /\ step = "imports"
        /\ imports' = RedirectTable(imports, MaxChained, ChainedField)
        /\ UNCHANGED <<given, symtab>>
    BY <1>1, <1>6 DEF Imports, Phase, rebindVars, Goto, slice
  <2>2. Redone(given.imports, imports') /\ Redone(given.symtab, symtab)
    <3>1. /\ imports \in Seq(Ordinal \X Symbol) /\ CanRedirect(imports, MaxChained)
          /\ imports = given.imports /\ Redone(given.symtab, symtab)
      BY <1>1, <1>6, <2>1 DEF TargetTypeOK, Imports, TablesRedone
    <3> QED
      BY <1>1, <2>1, <3>1, TableRedone, LimitsAssumption
  <2>3. Redone(given.imports, imports)' /\ Redone(given.symtab, symtab)'
    BY <1>2, <2>1, <2>2 DEF Redone
  <2> QED
    BY <2>1, <2>3 DEF TablesRedone
<1>7. CASE SkipTarget \/ FailTarget
  BY <1>3, <1>7 DEF SkipTarget, FailTarget, Goto, rebindVars
<1>8. CASE NoStream \/ FinishTarget
  BY <1>3, <1>8 DEF NoStream, FinishTarget, Types, rebindVars, Goto, After
<1>9. CASE CallRebind \/ RebindReturns
  BY <1>3, <1>9 DEF CallRebind, RebindReturns, Types, Goto, After
<1>10. CASE RebindOpcode
  BY <1>1, <1>3, <1>10, OpcodeFrame DEF RebindOpcode
<1>11. CASE UNCHANGED vars
  BY <1>3, <1>11 DEF vars, rebindVars
<1> QED
  BY <1>4, <1>5, <1>6, <1>7, <1>8, <1>9, <1>10, <1>11 DEF Next

(* A table goes to the end of __LINKEDIT.                                  *)
LEMMA StepLayout ==
    ASSUME IInv, [Next]_vars
    PROVE  Layout'
<1>1. TargetTypeOK /\ TypeOK /\ Phase /\ Layout
  BY DEF IInv, TargetTypeOK
<1>2. /\ newfsize \in Nat /\ fileEnd \in Nat /\ vmEnd \in Nat /\ at \in [Regions -> Nat]
      /\ FileSize \in Nat /\ TailSize \in Nat
  BY <1>1, SizesAssumption DEF TargetTypeOK
<1>3. ASSUME UNCHANGED <<slice, layout>>, step' # "done",
             step \in {"done", "skipped", "failed"} => step' \in {"skipped", "failed"}
      PROVE  Layout'
  BY <1>1, <1>3 DEF Layout, LinkeditCovers, KeepsSize, slice, layout
<1>4. CASE RebindReturns
  <2>1. step \in Types /\ step' \in {"tail"} \cup Types /\ UNCHANGED slice
    BY <1>4 DEF RebindReturns, Goto, After, Types
  <2>2. CASE ~rebuilt
    BY <1>3, <1>4, <2>1, <2>2 DEF RebindReturns, Types
  <2>3. CASE rebuilt
    <3>1. thin /\ AppendTable(step, newbind.size) /\ newbind.size \in Nat /\ step # "strings"
          /\ step # "signature"
      BY <1>1, <1>4, <2>1, <2>3 DEF RebindReturns, Movable, TypeOK, Stream, Types
    <3>2. /\ fileEnd = newfsize /\ vmEnd >= fileEnd /\ newfsize >= FileSize
          /\ \A region \in Regions : at[region] <= fileEnd
          /\ at["strings"] = FileSize - TailSize /\ at["signature"] = FileSize
      BY <1>1, <2>1 DEF Layout, Types
    <3>3. /\ fileEnd' = newfsize' /\ vmEnd' >= fileEnd' /\ newfsize' >= FileSize
          /\ at'["strings"] = FileSize - TailSize /\ at'["signature"] = FileSize
      BY <1>2, <3>1, <3>2 DEF AppendTable, Regions
    <3>4. \A region \in Regions : at'[region] <= fileEnd'
      BY <1>2, <3>1, <3>2 DEF AppendTable
    <3> QED
      BY <2>1, <3>1, <3>3, <3>4 DEF Layout, LinkeditCovers, KeepsSize, slice, Types
  <2> QED
    BY <2>2, <2>3
<1>5. CASE FinishTarget
  <2>1. step = "tail" /\ step' = "done" /\ UNCHANGED slice
    BY <1>5 DEF FinishTarget, Goto
  <2>2. /\ fileEnd = newfsize /\ vmEnd >= fileEnd /\ newfsize >= FileSize
        /\ \A region \in Regions : at[region] <= fileEnd
        /\ at["strings"] = FileSize - TailSize /\ at["signature"] = FileSize
        /\ ~thin => newfsize = FileSize
    BY <1>1, <2>1 DEF Layout, LinkeditCovers, KeepsSize
  <2>3. CASE AppendTail /\ signed
    <3>1. /\ RoundPage(vmEnd + 2 * TailSize) \in Nat
          /\ RoundPage(vmEnd + 2 * TailSize) >= vmEnd + 2 * TailSize
          /\ RoundPage(vmEnd + 2 * TailSize) % PageSize = 0
      BY <1>2, RoundPageCovers
    <3>2. /\ fileEnd' = newfsize' /\ vmEnd' >= fileEnd' /\ vmEnd' % PageSize = 0
          /\ at'["signature"] = fileEnd' /\ at'["strings"] = fileEnd' - TailSize
      BY <1>2, <2>2, <2>3, <3>1 DEF AppendTail, Regions
    <3>3. \A region \in Regions : at'[region] <= fileEnd'
      BY <1>2, <2>2, <2>3 DEF AppendTail, Regions
    <3>4. thin
      BY <2>2, <2>3 DEF AppendTail
    <3> QED
      BY <2>1, <2>3, <3>2, <3>3, <3>4 DEF Layout, LinkeditCovers, KeepsSize, slice
  <2>4. CASE AppendTail /\ ~signed
    <3>1. /\ RoundPage(vmEnd + TailSize) \in Nat
          /\ RoundPage(vmEnd + TailSize) >= vmEnd + TailSize
          /\ RoundPage(vmEnd + TailSize) % PageSize = 0
      BY <1>2, RoundPageCovers
    <3>2. /\ fileEnd' = newfsize' /\ vmEnd' >= fileEnd' /\ vmEnd' % PageSize = 0
          /\ at'["strings"] = fileEnd'
      BY <1>2, <2>2, <2>4, <3>1 DEF AppendTail, Regions
    <3>3. \A region \in Regions : at'[region] <= fileEnd'
      BY <1>2, <2>2, <2>4 DEF AppendTail, Regions
    <3>4. thin
      BY <2>2, <2>4 DEF AppendTail
    <3> QED
      BY <2>1, <2>4, <3>2, <3>3, <3>4 DEF Layout, LinkeditCovers, KeepsSize, slice
  <2>5. CASE KeepTail
    <3>1. /\ vmEnd' \in Nat /\ vmEnd' >= vmEnd /\ vmEnd' % PageSize = 0
      BY <1>2, <2>5, RoundPageCovers DEF KeepTail
    <3>2. UNCHANGED <<newfsize, fileEnd, at>> /\ newfsize = FileSize
      BY <2>5 DEF KeepTail
    <3>3. fileEnd' = newfsize' /\ vmEnd' >= fileEnd'
      BY <1>2, <2>2, <3>1, <3>2
    <3>4. at'["signature"] = fileEnd' /\ at'["strings"] = fileEnd' - TailSize
          /\ \A region \in Regions : at'[region] <= fileEnd'
      BY <2>2, <3>2
    <3> QED
      BY <2>1, <3>1, <3>2, <3>3, <3>4 DEF Layout, LinkeditCovers, KeepsSize, slice
  <2> QED
    BY <1>5, <2>3, <2>4, <2>5 DEF FinishTarget
<1>6. CASE SkipTarget \/ FailTarget
  BY <1>3, <1>6 DEF SkipTarget, FailTarget, Goto
<1>7. CASE Commands \/ Symtab \/ Imports
  BY <1>3, <1>7 DEF Commands, Symtab, Imports, Goto
<1>8. CASE NoStream
  BY <1>3, <1>8 DEF NoStream, Goto, After, Types
<1>9. CASE CallRebind \/ RebindOpcode
  BY <1>3, <1>9 DEF CallRebind, RebindOpcode, Types
<1>10. CASE UNCHANGED vars
  BY <1>1, <1>10 DEF vars, slice, layout, Layout, LinkeditCovers, KeepsSize
<1> QED
  BY <1>4, <1>5, <1>6, <1>7, <1>8, <1>9, <1>10 DEF Next

-----------------------------------------------------------------------------
(* The inductive invariant.                                                *)
LEMMA Invariance == Spec => []IInv
<1>1. IInv /\ [Next]_vars => IInv'
  BY StepTargetTypes, StepPhase, StepStreams, StepRedone, StepLayout DEF IInv
<1> QED
  BY InitInv, <1>1, PTL DEF Spec

(* processTarget() keeps every variable in its type: no ordinal, size or   *)
(* offset leaves its range, whatever the libraries and the opcodes are.    *)
THEOREM TargetTypeCorrect == Spec => []TargetTypeOK
<1>1. IInv => TargetTypeOK
  BY DEF IInv
<1> QED
  BY <1>1, Invariance, PTL

(* The stream that rebind() returns binds as many pointers as the one it   *)
(* read, each to its symbol, and from its library or the shim library.     *)
THEOREM SymbolsAreKept == Spec => []SymbolsKept
<1>1. IInv => SymbolsKept
  BY DEF IInv, Streams, Returned, Kept, Follows, SymbolsKept
<1> QED
  BY <1>1, Invariance, PTL

(* The assertion on the size of a stream that processTarget() writes over  *)
(* the old one never fails.                                                *)
THEOREM SizesAreKept == Spec => []SizeKept
<1>1. IInv => SizeKept
  BY DEF IInv, Streams, Returned, Sized, SizeKept
<1> QED
  BY <1>1, Invariance, PTL

(* A stream whose records all set their library and end with DO_BIND, as   *)
(* those of lazy streams do, is redirected exactly.                        *)
THEOREM RedirectionIsExact == Spec => []Exact
<1>1. IInv => Exact
  <2> SUFFICES ASSUME IInv, pc = "returned", explicit, type # "weak"
               PROVE  newbind.bound = [k \in DOMAIN input.bound |-> Redirected(input.bound[k])]
    BY DEF Exact
  <2>1. newbind = record /\ Mirrors(record, input) /\ {record, input} \subseteq Stream
    BY DEF IInv, TargetTypeOK, TypeOK, Streams, Returned, Mirrored
  <2>2. record.bound \in Seq(Ordinal \X (Symbol \cup {NoSymbol}))
        /\ input.bound \in Seq(Ordinal \X (Symbol \cup {NoSymbol}))
    BY <2>1 DEF Stream
  <2>3. DOMAIN record.bound = DOMAIN input.bound
    BY <2>1, <2>2 DEF Mirrors
  <2>4. record.bound = [k \in DOMAIN record.bound |-> record.bound[k]]
    BY <2>2
  <2> QED
    BY <2>1, <2>3, <2>4 DEF Mirrors
<1> QED
  BY <1>1, Invariance, PTL

(* Behind the two tables, what is redirected is read from the shim library *)
(* and everything else as before, whatever the widths of the fields; and   *)
(* the tables agree with one another and with every explicit stream.       *)
THEOREM AllTablesAgree == Spec => []TablesAgree
<1>1. ASSUME IInv, step \in Types \cup {"tail", "done"}
      PROVE  TablesAgree
  <2>1. /\ Located /\ Redone(given.symtab, symtab) /\ Redone(given.imports, imports)
        /\ given.symtab \in Seq(Ordinal \X Symbol) /\ given.imports \in Seq(Ordinal \X Symbol)
    BY <1>1, TablesAssumption DEF IInv, Phase, TablesRedone, TargetTypeOK, Types
  <2>2. ASSUME NEW old \in Seq(Ordinal \X Symbol), NEW new, Redone(old, new)
        PROVE  FromShim(old, new)
    BY <2>1, <2>2 DEF FromShim, Redone, Redirected, Located
  <2>3. Agree(given.symtab, symtab, given.imports, imports)
    BY <2>1 DEF Agree, Redone
  <2>4. ASSUME pc = "returned", explicit, type # "weak"
        PROVE  /\ Agree(given.symtab, symtab, input.bound, newbind.bound)
               /\ Agree(given.imports, imports, input.bound, newbind.bound)
    <3>1. newbind = record /\ Mirrors(record, input)
      BY <1>1, <2>4 DEF IInv, Streams, Returned, Mirrored
    <3> QED
      BY <2>1, <3>1 DEF Agree, Redone, Mirrors
  <2> QED
    BY <2>1, <2>2, <2>3, <2>4 DEF TablesAgree
<1>2. IInv => TablesAgree
  BY <1>1 DEF TablesAgree
<1> QED
  BY <1>2, Invariance, PTL

(* A slice of a fat file never grows into the next one; and when the slice *)
(* is done __LINKEDIT covers the file and ends with what must be last in   *)
(* it, whatever the size of the streams and of a page.                     *)
THEOREM LinkeditIsCovered == Spec => []LinkeditCovers
<1>1. IInv => LinkeditCovers
  BY DEF IInv, Layout
<1> QED
  BY <1>1, Invariance, PTL
=============
