--------------------------- MODULE ProcessTarget ----------------------------
(***************************************************************************)
(* processTarget() of symredirect.cpp: the redirection of one slice.       *)
(*                                                                         *)
(* It finds the shim library among the libraries of the mach-o or adds it, *)
(* then goes through every table that says where a symbol comes from: the  *)
(* symbol table, the chained imports, and the three binding streams, each  *)
(* with rebind().  A stream that has become longer is appended to the file *)
(* and to __LINKEDIT; the strings and the signature then follow it.        *)
(*                                                                         *)
(* Offsets are those of the slice; of __LINKEDIT the model keeps its end   *)
(* in the file and in memory.                                              *)
(***************************************************************************)
EXTENDS Rebind

CONSTANTS
    Tables,              \* the symbol tables and the chained imports
    MAX_LIBRARY_ORDINAL, \* the largest ordinal the symbol table can hold
    SymtabField,         \* the number of values of its field
    MaxChained,          \* the largest ordinal the chained imports can hold
    ChainedField,        \* the number of values of theirs
    FileSize,            \* the end of __LINKEDIT before
    TailSize,            \* the size of the strings, and of the signature
    PageSize

ASSUME LimitsAssumption ==
    /\ {MAX_LIBRARY_ORDINAL, SymtabField, MaxChained, ChainedField} \subseteq Nat
    /\ MAX_LIBRARY_ORDINAL < SymtabField /\ MaxChained < ChainedField
ASSUME TablesAssumption == Tables \subseteq Seq(Ordinal \X Symbol)
ASSUME SizesAssumption ==
    /\ FileSize \in Nat /\ TailSize \in Nat /\ PageSize \in Nat \ {0}
    /\ TailSize <= FileSize

VARIABLES
    step,       \* the part of the function
    thin,       \* slice_offset = 0
    signed,     \* the mach-o has a code signature
    symtab,     \* the undefined symbols: pairs of library and symbol
    imports,    \* the chained imports, likewise
    given,      \* history: both tables as they were in the file
    newfsize,   \* the end of the file
    fileEnd,    \* the end of __LINKEDIT in the file
    vmEnd,      \* and in memory
    at          \* where the tables of __LINKEDIT that were moved end

layout == <<newfsize, fileEnd, vmEnd, at>>
slice == <<thin, signed, given>>
vars == <<rebindVars, step, slice, symtab, imports, layout>>

Regions == {"bind", "lazy", "strings", "signature"}

RoundPage(n) == ((n + PageSize - 1) \div PageSize) * PageSize

Init ==
    /\ type = "bind"
    /\ dylibs \in Loads
    /\ shimOrdinal = 0
    /\ twolevel \in BOOLEAN
    /\ libraryOrdinal = 0 /\ libraryOrdinalSet = FALSE
    /\ symbolName = NoSymbol
    /\ resized = FALSE /\ rebuilt = FALSE
    /\ newbind = Empty /\ tmpcache = Empty /\ record = Empty /\ input = Empty
    /\ fresh = FALSE /\ explicit = TRUE
    /\ pc = "idle"
    /\ step = "commands"
    /\ thin \in BOOLEAN /\ signed \in BOOLEAN
    /\ symtab \in Tables /\ imports \in Tables
    /\ given = [symtab |-> symtab, imports |-> imports]
    /\ newfsize = FileSize /\ fileEnd = FileSize /\ vmEnd = RoundPage(FileSize)
    /\ at = [r \in Regions |-> IF r = "signature" THEN FileSize ELSE FileSize - TailSize]

Goto(s) == step' = s

(* return 0 before anything is changed: 32 bits, another CPU, another type *)
(* of file or another platform.                                            *)
SkipTarget ==
    /\ step = "commands"
    /\ Goto("skipped")
    /\ UNCHANGED <<rebindVars, slice, symtab, imports, layout>>

(* return -1, abort() or a failed assertion: MH_FORCE_FLAT, no space for   *)
(* the load command, an unknown format, and what the guards below leave.   *)
FailTarget ==
    /\ step \notin {"done", "skipped", "failed"}
    /\ Goto("failed")
    /\ UNCHANGED <<rebindVars, slice, symtab, imports, layout>>

Shims == {n \in DOMAIN dylibs : dylibs[n] = "shim"}

Last(places) == {n \in places : \A m \in places : m <= n}

(* Seeded bug: the number of the new library is counted twice.             *)
ShimPlaceTwice == IF Shims # {} THEN Last(Shims) ELSE {Len(dylibs) + 2}

(* The last shim library counts, or else the new one.                      *)
ShimPlace == IF Shims # {} THEN Last(Shims) ELSE {Len(dylibs) + 1}

(* The load commands.                                                      *)
Commands ==
    /\ step = "commands"
    /\ dylibs' = IF Shims # {} THEN dylibs ELSE Append(dylibs, "shim")
    /\ shimOrdinal' \in ShimPlace
    /\ Goto("symtab")
    /\ UNCHANGED <<type, twolevel, locals, streams, fresh, explicit, pc,
                   slice, symtab, imports, layout>>

(* What is read when the ordinal n was stored in a field: it is cut to the *)
(* values of the field, and those above max are read as negative ones, the *)
(* special ordinals.                                                       *)
ReadBack(n, max, field) ==
    LET value == n % field IN IF value > max THEN value - field ELSE value

(* A table with the redirected symbols.                                    *)
RedirectTable(table, max, field) ==
    [k \in DOMAIN table |->
        IF Redirects(table[k][1], table[k][2])
        THEN <<ReadBack(shimOrdinal, max, field), table[k][2]>>
        ELSE table[k]]

(* Seeded bug: nobody asks whether the ordinal can be stored.              *)
CanRedirectAny(table, max) ==
    \A k \in DOMAIN table : ~Aborts(table[k][1], table[k][2])

(* The assertions: the fields of the table can hold the shim's ordinal.    *)
CanRedirect(table, max) ==
    \A k \in DOMAIN table :
        /\ ~Aborts(table[k][1], table[k][2])
        /\ Redirects(table[k][1], table[k][2]) => shimOrdinal <= max

Symtab ==
    /\ step = "symtab"
    /\ CanRedirect(symtab, MAX_LIBRARY_ORDINAL)
    /\ symtab' = RedirectTable(symtab, MAX_LIBRARY_ORDINAL, SymtabField)
    /\ Goto("imports")
    /\ UNCHANGED <<rebindVars, slice, imports, layout>>

Imports ==
    /\ step = "imports"
    /\ CanRedirect(imports, MaxChained)
    /\ imports' = RedirectTable(imports, MaxChained, ChainedField)
    /\ Goto("bind")
    /\ UNCHANGED <<rebindVars, slice, symtab, layout>>

After == [bind |-> "weak", weak |-> "lazy", lazy |-> "tail"]

(* The mach-o has no such stream.                                          *)
NoStream ==
    /\ step \in Types
    /\ pc = "idle"
    /\ Goto(After[step])
    /\ UNCHANGED <<rebindVars, slice, symtab, imports, layout>>

CallRebind ==
    /\ step \in Types
    /\ pc = "idle"
    /\ Reset(step)
    /\ pc' = "read"
    /\ UNCHANGED <<header, step, slice, symtab, imports, layout>>

RebindOpcode ==
    /\ step \in Types
    /\ Opcode
    /\ UNCHANGED <<step, slice, symtab, imports, layout>>

(* Seeded bug: the file grows, but __LINKEDIT does not.                    *)
AppendToFile(region, size) ==
    /\ newfsize' = newfsize + size
    /\ at' = [at EXCEPT ![region] = newfsize + size]
    /\ UNCHANGED <<fileEnd, vmEnd>>

(* A table goes to the end of the file and of __LINKEDIT.                  *)
AppendTable(region, size) ==
    /\ newfsize' = newfsize + size
    /\ fileEnd' = fileEnd + size
    /\ vmEnd' = vmEnd + size
    /\ at' = [at EXCEPT ![region] = newfsize + size]

(* Seeded bug: what is behind a slice is not looked at.                    *)
MovableAnywhere == type # "weak"

(* A stream that becomes longer is moved, which works in a thin file only; *)
(* the weak one does not change.                                           *)
Movable == thin /\ type # "weak"

(* What rebind() returns is written; its variables are gone.               *)
RebindReturns ==
    /\ step \in Types
    /\ pc = "returned"
    /\ IF rebuilt
       THEN Movable /\ AppendTable(step, newbind.size)
       ELSE UNCHANGED layout
    /\ Reset("bind")
    /\ pc' = "idle"
    /\ Goto(After[step])
    /\ UNCHANGED <<header, slice, symtab, imports>>

(* Seeded bug: the signature stays where it was.                           *)
TailIsStrings == newfsize # FileSize /\ AppendTable("strings", TailSize)

(* When a stream was moved, the strings go behind it, and the signature.   *)
AppendTail ==
    /\ newfsize # FileSize
    /\ IF signed
       THEN /\ newfsize' = newfsize + 2 * TailSize
            /\ fileEnd' = fileEnd + 2 * TailSize
            /\ vmEnd' = RoundPage(vmEnd + 2 * TailSize)
            /\ at' = [at EXCEPT !["strings"] = newfsize + TailSize,
                                !["signature"] = newfsize + 2 * TailSize]
       ELSE /\ newfsize' = newfsize + TailSize
            /\ fileEnd' = fileEnd + TailSize
            /\ vmEnd' = RoundPage(vmEnd + TailSize)
            /\ at' = [at EXCEPT !["strings"] = newfsize + TailSize]

KeepTail ==
    /\ newfsize = FileSize
    /\ vmEnd' = RoundPage(vmEnd)
    /\ UNCHANGED <<newfsize, fileEnd, at>>

FinishTarget ==
    /\ step = "tail"
    /\ AppendTail \/ KeepTail
    /\ Goto("done")
    /\ UNCHANGED <<rebindVars, slice, symtab, imports>>

Next ==
    \/ SkipTarget
    \/ FailTarget
    \/ Commands
    \/ Symtab
    \/ Imports
    \/ NoStream
    \/ CallRebind
    \/ RebindOpcode
    \/ RebindReturns
    \/ FinishTarget

Spec == Init /\ [][Next]_vars

-----------------------------------------------------------------------------
(***************************************************************************)
(* Properties                                                              *)
(***************************************************************************)
TargetTypeOK ==
    /\ TypeOK
    /\ step \in {"commands", "symtab", "imports", "tail",
                "done", "skipped", "failed"} \cup Types
    /\ thin \in BOOLEAN /\ signed \in BOOLEAN
    /\ {symtab, imports} \subseteq Seq(Ordinal \X Symbol)
    /\ given \in [symtab : Tables, imports : Tables]
    /\ {newfsize, fileEnd, vmEnd} \subseteq Nat
    /\ at \in [Regions -> Nat]

(* A shim symbol of a system library is read from the shim library, any    *)
(* other symbol from where it came.                                        *)
FromShim(old, new) ==
    \A k \in DOMAIN old :
        IF Redirects(old[k][1], old[k][2])
        THEN /\ new[k][1] \in DOMAIN dylibs /\ dylibs[new[k][1]] = "shim"
             /\ new[k][2] = old[k][2]
        ELSE new[k] = old[k]

(* What was read in two places alike still is.                             *)
Agree(old1, new1, old2, new2) ==
    \A j \in DOMAIN old1, k \in DOMAIN old2 : old1[j] = old2[k] => new1[j] = new2[k]

(***************************************************************************)
(* Behind the two tables, dyld and the tools read the same of a slice:     *)
(* the shim library for what is redirected, in spite of the limits of the  *)
(* fields, and one library for one symbol in the symbol table, in the      *)
(* chained imports and in every explicit stream that rebind() returns.     *)
(* A slice in which one of the fields is too small for the ordinal of the  *)
(* shim library never comes so far (the assertions shimOrdinal <=          *)
(* MAX_LIBRARY_ORDINAL and shimOrdinal <= maxOrdinal).                     *)
(***************************************************************************)
TablesAgree ==
    step \in Types \cup {"tail", "done"} =>
        /\ FromShim(given.symtab, symtab)
        /\ FromShim(given.imports, imports)
        /\ Agree(given.symtab, symtab, given.imports, imports)
        /\ pc = "returned" /\ explicit /\ type # "weak" =>
              /\ Agree(given.symtab, symtab, input.bound, newbind.bound)
              /\ Agree(given.imports, imports, input.bound, newbind.bound)

(* A slice of a fat file keeps its size, for the next one is behind it.    *)
KeepsSize == ~thin => newfsize = FileSize

(***************************************************************************)
(* Only a slice that may grow has grown; and when it is done, __LINKEDIT   *)
(* ends with the file, its memory holds all of it, and what must be the    *)
(* last thing in it is: the signature, or else the strings of a file that  *)
(* has grown.                                                              *)
(***************************************************************************)
LinkeditCovers ==
    /\ KeepsSize
    /\ step = "done" =>
          /\ fileEnd = newfsize
          /\ vmEnd >= fileEnd /\ vmEnd % PageSize = 0
          /\ \A region \in Regions : at[region] <= fileEnd
          /\ signed => at["signature"] = fileEnd /\ at["strings"] = fileEnd - TailSize
          /\ ~signed /\ newfsize # FileSize => at["strings"] = fileEnd
=============================================================================
