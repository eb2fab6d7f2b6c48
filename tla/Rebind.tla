------------------------------- MODULE Rebind -------------------------------
(***************************************************************************)
(* rebind() of symredirect.cpp: it copies a stream of binding opcodes and  *)
(* makes the redirected symbols come from the shim library.                *)
(*                                                                         *)
(* The stream is a program for dyld: opcodes set the library and the       *)
(* symbol, both stay set, and a bind opcode binds the next pointer.        *)
(* rebind() cuts it into records that end before DO_BIND, keeps each       *)
(* record twice, as it was (record) and with every library replaced        *)
(* (tmpcache), and at DO_BIND takes one of the two.                        *)
(*                                                                         *)
(* The opcodes come one at a time, any of them at any point.  Of a stream  *)
(* the model keeps its size and what dyld has read in it: the library and  *)
(* the symbol that are set, and what was bound.  tmpcache and record are   *)
(* the streams that newbind becomes with them behind it.                   *)
(***************************************************************************)
EXTENDS Integers, Sequences

CONSTANTS
    Symbol, NoSymbol,
    ShimApis,              \* g_shim_apis: the symbols the shim library has
    Special,               \* ordinals that name no library (self, flat, ...)
    BIND_IMMEDIATE_MASK,   \* larger ordinals do not fit into the opcode
    MaxOrdinal,            \* bound: more libraries than any mach-o loads
    UlebLen,               \* UlebLen[n]: the bytes n takes as a uleb128
    Loads,                 \* the lists of libraries a mach-o may load
    MaxSize                \* bound: the bytes of a stream, but its last opcode

ASSUME ShimApisAssumption == ShimApis \subseteq Symbol /\ NoSymbol \notin Symbol
ASSUME SpecialAssumption == Special \subseteq {i \in Int : i <= 0} /\ 0 \in Special
ASSUME UlebLenAssumption ==
    /\ DOMAIN UlebLen = 1 .. MaxOrdinal
    /\ \A n \in 1 .. MaxOrdinal : UlebLen[n] \in Nat \ {0}
ASSUME LoadsAssumption ==
    \A libraries \in Loads :
        /\ libraries \in Seq({"system", "user", "shim"})
        /\ Len(libraries) < MaxOrdinal
ASSUME MaskAssumption ==
    BIND_IMMEDIATE_MASK \in Nat /\ MaxSize \in Nat /\ MaxOrdinal \in Nat

VARIABLES
    type,               \* "bind", "lazy" or "weak"
    dylibs,             \* the libraries loaded: "system", "user" or "shim"
    shimOrdinal,        \* the place of the shim library among them
    twolevel,           \* the flags MH_TWOLEVEL and not MH_FORCE_FLAT
    libraryOrdinal, libraryOrdinalSet, symbolName,
    resized, rebuilt,
    newbind, tmpcache, record,
    input,              \* the stream that was read so far
    fresh,              \* history: the record has set its library
    explicit,           \* history: all records did, and end with DO_BIND
    pc                  \* "read", "returned", "aborted"

header == <<dylibs, shimOrdinal, twolevel>>
locals == <<libraryOrdinal, libraryOrdinalSet, symbolName, resized, rebuilt>>
streams == <<newbind, tmpcache, record, input>>
rebindVars == <<type, header, locals, streams, fresh, explicit, pc>>

Types == {"bind", "lazy", "weak"}
Libraries == {"system", "user", "shim"}
Ordinal == Special \cup (Nat \ {0})
Stream == [size : Nat, lib : Ordinal, sym : Symbol \cup {NoSymbol},
           bound : Seq(Ordinal \X (Symbol \cup {NoSymbol}))]

Empty == [size |-> 0, lib |-> 0, sym |-> NoSymbol, bound |-> <<>>]

(* Opcodes, and what dyld reads when one follows the stream s.             *)
SetLib(ordinal, len) == [set |-> "lib", to |-> ordinal, size |-> len]
SetSym(symbol) == [set |-> "sym", to |-> symbol, size |-> 1]
Bind == [set |-> "bound", size |-> 1]
Other == [set |-> "other", size |-> 1]

Put(s, op) ==
    [size |-> s.size + op.size,
     lib |-> IF op.set = "lib" THEN op.to ELSE s.lib,
     sym |-> IF op.set = "sym" THEN op.to ELSE s.sym,
     bound |-> IF op.set = "bound" THEN Append(s.bound, <<s.lib, s.sym>>) ELSE s.bound]

FromSystem(ordinal) == ordinal \in DOMAIN dylibs /\ dylibs[ordinal] = "system"

(* processSymbol(): TRUE, or abort(), or else FALSE.                       *)
Redirects(ordinal, symbol) == symbol \in ShimApis /\ FromSystem(ordinal) /\ twolevel

Aborts(ordinal, symbol) ==
    /\ symbol \in ShimApis
    /\ ordinal \notin DOMAIN dylibs \/ (FromSystem(ordinal) /\ ~twolevel)

(* The variables of rebind() when it begins with a stream of type t.       *)
Reset(t) ==
    /\ type' = t
    /\ libraryOrdinal' = 0
    /\ libraryOrdinalSet' = (t = "weak")
    /\ symbolName' = NoSymbol
    /\ resized' = FALSE /\ rebuilt' = FALSE
    /\ newbind' = Empty /\ tmpcache' = Empty /\ record' = Empty /\ input' = Empty
    /\ fresh' = FALSE /\ explicit' = TRUE

RebindInit ==
    /\ type \in Types
    /\ dylibs \in Loads
    /\ shimOrdinal \in {n \in DOMAIN dylibs : dylibs[n] = "shim"}
    /\ twolevel \in BOOLEAN
    /\ libraryOrdinal = 0
    /\ libraryOrdinalSet = (type = "weak")
    /\ symbolName = NoSymbol
    /\ resized = FALSE /\ rebuilt = FALSE
    /\ newbind = Empty /\ tmpcache = Empty /\ record = Empty /\ input = Empty
    /\ fresh = FALSE /\ explicit = TRUE
    /\ pc = "read"

Reading == pc = "read" /\ input.size < MaxSize

(* An opcode that is copied.                                               *)
Copy(op) ==
    /\ Reading
    /\ tmpcache' = Put(tmpcache, op)
    /\ record' = Put(record, op)
    /\ input' = Put(input, op)
    /\ UNCHANGED <<type, header, resized, rebuilt, newbind, pc>>

(* An opcode of oldlen bytes that sets the library; the shim library takes *)
(* newlen bytes in its place.                                              *)
Replace(n, oldlen, newlen, grows) ==
    /\ Reading
    /\ type # "weak"
    /\ libraryOrdinal' = n /\ libraryOrdinalSet' = TRUE /\ fresh' = TRUE
    /\ tmpcache' = Put(tmpcache, SetLib(shimOrdinal, newlen))
    /\ record' = Put(record, SetLib(n, oldlen))
    /\ input' = Put(input, SetLib(n, oldlen))
    /\ resized' = (resized \/ grows)
    /\ UNCHANGED <<type, header, symbolName, rebuilt, newbind, explicit, pc>>

Fits == shimOrdinal < BIND_IMMEDIATE_MASK

SetOrdinalImm(n) ==
    /\ n \in DOMAIN dylibs /\ n <= BIND_IMMEDIATE_MASK
    /\ Replace(n, 1, IF Fits THEN 1 ELSE 1 + UlebLen[shimOrdinal], ~Fits)

SetOrdinalUleb(n) ==
    /\ n \in DOMAIN dylibs
    /\ Replace(n, 1 + UlebLen[n], 1 + UlebLen[shimOrdinal],
               UlebLen[n] # UlebLen[shimOrdinal])

(* The special ordinals are copied.                                        *)
SetSpecial(n) ==
    /\ type # "weak"
    /\ Copy(SetLib(n, 1))
    /\ libraryOrdinal' = n /\ libraryOrdinalSet' = TRUE /\ fresh' = TRUE
    /\ UNCHANGED <<symbolName, explicit>>

SetSymbol(symbol) ==
    /\ Copy(SetSym(symbol))
    /\ symbolName' = symbol
    /\ UNCHANGED <<libraryOrdinal, libraryOrdinalSet, fresh, explicit>>

(* Type, addend, segment, address, threaded; and DONE in a lazy stream.    *)
OtherOpcode ==
    /\ Copy(Other)
    /\ UNCHANGED <<libraryOrdinal, libraryOrdinalSet, symbolName, fresh, explicit>>

(* A linker's stream binds when dyld knows what.                           *)
Bindable == libraryOrdinalSet /\ symbolName # NoSymbol

(* DO_BIND_ADD_ADDR_..., DO_BIND_ULEB_TIMES_...: not the end of a record.  *)
DoBindAdd ==
    /\ Bindable
    /\ type # "lazy"
    /\ Copy(Bind)
    /\ explicit' = FALSE
    /\ UNCHANGED <<libraryOrdinal, libraryOrdinalSet, symbolName, fresh>>

(* The self-bindings of a weak table are skipped.                          *)
Skipped == type = "weak" /\ libraryOrdinal = 0

Shim == ~Skipped /\ Redirects(libraryOrdinal, symbolName)

(* Seeded bug: rebuilt is not set, the new stream is taken for as long.    *)
RebuiltForgotten == rebuilt

(* A stream must move when a record that it takes has another size.        *)
Rebuilt == rebuilt \/ (Shim /\ resized)

(* Seeded bug: what the record was before is taken with the symbol.        *)
AnyRecord == IF symbolName \in ShimApis /\ ~Skipped THEN tmpcache ELSE record

Taken == IF Shim THEN tmpcache ELSE record

(* Seeded bug: the opcode itself is in neither record.                     *)
RecordWithoutBind == Taken

(* The next record begins with the DO_BIND that ended this one.            *)
NextRecord == Put(Taken, Bind)

(* DO_BIND: newbind gets one of the two records.                           *)
DoBind ==
    /\ Reading
    /\ Bindable
    /\ Skipped \/ ~Aborts(libraryOrdinal, symbolName)
    /\ rebuilt' = Rebuilt
    /\ resized' = (resized /\ ~Shim)
    /\ newbind' = Taken
    /\ tmpcache' = NextRecord
    /\ record' = NextRecord
    /\ input' = Put(input, Bind)
    /\ explicit' = (explicit /\ fresh)
    /\ fresh' = FALSE
    /\ UNCHANGED <<type, header, libraryOrdinal, libraryOrdinalSet, symbolName, pc>>

(* DONE, or the end of the data: what is left goes behind newbind.         *)
Finish ==
    /\ pc = "read"
    /\ newbind' = record
    /\ pc' = "returned"
    /\ UNCHANGED <<type, header, locals, tmpcache, record, input, fresh, explicit>>

(* A shim symbol from no library, an unknown opcode, or one that cannot be *)
(* in a stream of this type.                                               *)
Abort ==
    /\ pc = "read"
    /\ pc' = "aborted"
    /\ UNCHANGED <<type, header, locals, streams, fresh, explicit>>

Opcode ==
    \/ \E n \in DOMAIN dylibs : SetOrdinalImm(n)
    \/ \E n \in DOMAIN dylibs : SetOrdinalUleb(n)
    \/ \E n \in Special : SetSpecial(n)
    \/ \E symbol \in Symbol : SetSymbol(symbol)
    \/ OtherOpcode
    \/ DoBindAdd
    \/ DoBind
    \/ Finish
    \/ Abort

RebindSpec == RebindInit /\ [][Opcode]_rebindVars

-----------------------------------------------------------------------------
(***************************************************************************)
(* Properties                                                              *)
(***************************************************************************)
TypeOK ==
    /\ type \in Types
    /\ dylibs \in Seq(Libraries) /\ Len(dylibs) <= MaxOrdinal
    /\ shimOrdinal \in 0 .. MaxOrdinal
    /\ pc = "read" => shimOrdinal \in DOMAIN dylibs
    /\ twolevel \in BOOLEAN
    /\ libraryOrdinal \in Ordinal
    /\ libraryOrdinalSet \in BOOLEAN
    /\ symbolName \in Symbol \cup {NoSymbol}
    /\ resized \in BOOLEAN /\ rebuilt \in BOOLEAN
    /\ {newbind, tmpcache, record, input} \subseteq Stream
    /\ fresh \in BOOLEAN /\ explicit \in BOOLEAN
    /\ pc \in {"idle", "read", "returned", "aborted"}

(* What dyld shall bind in place of the binding b.                         *)
Redirected(b) == IF Redirects(b[1], b[2]) THEN <<shimOrdinal, b[2]>> ELSE b

(***************************************************************************)
(* When every record sets its library and ends with DO_BIND, as those of a *)
(* lazy stream do, dyld binds with the new stream what it bound before,    *)
(* the shim symbols of system libraries from the shim library, and all     *)
(* others from where they came.                                            *)
(***************************************************************************)
Exact ==
    pc = "returned" /\ explicit /\ type # "weak" =>
        newbind.bound = [k \in DOMAIN input.bound |-> Redirected(input.bound[k])]

(***************************************************************************)
(* However a stream is compressed, as many pointers are bound, each to the *)
(* symbol it had, from the library it had or from the shim library.        *)
(***************************************************************************)
SymbolsKept ==
    pc = "returned" =>
        /\ Len(newbind.bound) = Len(input.bound)
        /\ \A k \in DOMAIN input.bound :
              /\ newbind.bound[k][2] = input.bound[k][2]
              /\ newbind.bound[k][1] \in {input.bound[k][1], shimOrdinal}

(* The assertion *size == newsize: a stream that goes over the old one is  *)
(* as long as it.                                                          *)
SizeKept == pc = "returned" /\ ~rebuilt => newbind.size = input.size

(***************************************************************************)
(* The comment "only redirect symbols which comes from system library"     *)
(* (symredirect.cpp:96), of every stream.                                  *)
(***************************************************************************)
OnlySystemLibraries ==
    pc = "returned" =>
        \A k \in DOMAIN input.bound :
            newbind.bound[k] # input.bound[k] => FromSystem(input.bound[k][1])
=============================================================================
