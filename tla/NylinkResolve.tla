--------------------------- MODULE NylinkResolve ---------------------------
(***************************************************************************)
(* Input loading, lazy archive extraction and symbol resolution of nylink  *)
(* (nylink_context.c, nylink_archive.c).                                   *)
(*                                                                         *)
(* The driver (main.c, nybit link) adds the inputs in command-line order,  *)
(* sets the output mode and resolves once.  The loops of the code are      *)
(* unrolled into steps: one archive member, one archive index entry, one   *)
(* symbol of an extraction pass, one symbol of the binding loop.           *)
(***************************************************************************)
EXTENDS Naturals, Sequences, FiniteSets

CONSTANTS
    Name,       \* the (non-empty) symbol names
    ImpOf,      \* ImpOf[n] is the name __imp_<n>
    Object,     \* the object files and shared libraries that can be given
    ArFile,     \* the archive files that can be given
    MaxInputs   \* bound: inputs on one command line

Binding == {"local", "global", "weak"}

(* Where a symbol is defined: "undef" is st_shndx 0, "section" a section of *)
(* the object, "special" a reserved index (ABS, COMMON), which the archive  *)
(* indexer counts as a definition and the reader does not; "shared" comes   *)
(* from a shared library, "import" from a short-format import member.       *)
Place == {"undef", "section", "special", "shared", "import"}

(* Neither of the last two is ever local: the reader of shared libraries    *)
(* passes over local symbols, and an import is global.                      *)
Symbol == {s \in [name : Name, bind : Binding, at : Place] :
              s.bind = "local" => s.at \notin {"shared", "import"}}

IsDefined(s) == s.at \in {"section", "shared", "import"}
IsDynamic(s) == s.at \in {"shared", "import"}
IsStatic(s)  == s.at = "section"

(* An object file: its format by magic number, the symbols its reader adds  *)
(* to the context, and whether the reader reaches the end without a fault.  *)
(* "truncated" also stands for a library that is not found and a file that  *)
(* cannot be read: the driver then prints a message of its own and ends the *)
(* link, with nothing recorded.                                             *)
ObjectRec == [fmt : {"elf", "coff", "unknown", "truncated"},
              syms : Seq(Symbol), ok : BOOLEAN]

IndexEntry == [name : Name, member : Nat]

(* A member of an archive file; its position stands for its header offset.  *)
MemberRec == [kind : {"linker"}, entries : Seq(IndexEntry)]
             \cup [kind : {"object"}, obj : ObjectRec]
             \cup [kind : {"import"}, sym : Name]
             \cup [kind : {"corrupt"}]

ASSUME ResolveAssumption ==
    /\ ImpOf \in [Name -> Name]
    /\ Object \subseteq ObjectRec
    /\ ArFile \subseteq Seq(MemberRec)
    /\ MaxInputs \in Nat

VARIABLES
    phase,      \* where the driver and the linker are
    inputs,     \* inputs taken from the command line so far
    shared,     \* ctx->is_shared
    objects,    \* ctx->objects: format and where the object came from
    symbols,    \* ctx->symbols; a symbol's id is its position
    archives,   \* ctx->archives: the file and the index built for it
    peImp,      \* ctx->pe_imp_sym_names
    extracted,  \* <<archive, member>> with is_extracted set
    diags,      \* ctx->diagnostics (has_error is diags # {})
    member,     \* nylink_read_archive: next member of the last archive
    linker,     \* nylink_read_archive: seen_first_linker
    pending,    \* calls of add_archive_symbol still to make for it
    scan,       \* extraction: next symbol of the pass
    progress,   \* extraction: progress
    cursor,     \* resolution: next symbol of the binding loop
    refs,       \* resolution: refs[n] is the sym_id of name n, 0 if absent
    resolved    \* ctx->resolved_symbols, <<>> while not allocated

ctx == <<inputs, shared, objects, symbols, archives, peImp, extracted, diags>>
reading == <<member, linker, pending>>
extraction == <<scan, progress>>
binding == <<cursor, refs>>
vars == <<phase, ctx, reading, extraction, binding, resolved>>

Phase == {"input", "archive", "scan", "bind", "check", "resolved", "failed"}

Diag == [what : {"input", "archive", "duplicate", "undefined"},
         name : Name \cup {""}]

PendingEntry == [name : Name, member : Nat, indexed : BOOLEAN]

ResolvedSym == [is_defined : BOOLEAN, is_dynamic : BOOLEAN]

TypeOK ==
    /\ phase \in Phase
    /\ inputs \in Nat
    /\ shared \in BOOLEAN
    /\ objects \in Seq([fmt : {"elf", "coff", "unknown"}, from : Nat \X Nat])
    /\ symbols \in Seq(Symbol)
    /\ archives \in Seq([file : ArFile, index : Seq(IndexEntry)])
    /\ peImp \subseteq Name
    /\ extracted \subseteq (Nat \X Nat)
    /\ diags \subseteq Diag
    /\ member \in Nat \ {0}
    /\ linker \in BOOLEAN
    /\ pending \in Seq(PendingEntry)
    /\ scan \in Nat \ {0}
    /\ progress \in BOOLEAN
    /\ cursor \in Nat \ {0}
    /\ refs \in [Name -> Nat]
    /\ resolved \in Seq(ResolvedSym)

-----------------------------------------------------------------------------
Init ==
    /\ phase = "input"
    /\ inputs = 0
    /\ shared = FALSE
    /\ objects = <<>>
    /\ symbols = <<>>
    /\ archives = <<>>
    /\ peImp = {}
    /\ extracted = {}
    /\ diags = {}
    /\ member = 1 /\ linker = FALSE /\ pending = <<>>
    /\ scan = 1 /\ progress = FALSE
    /\ cursor = 1
    /\ refs = [n \in Name |-> 0]
    /\ resolved = <<>>

(* nylink_add_object: a truncated object is refused before it is recorded;  *)
(* one of the wrong or of an unknown format is recorded without symbols.    *)
FormatRefused(o) ==
    \/ o.fmt = "unknown"
    \/ objects # <<>> /\ objects[1].fmt # o.fmt

Accepted(o) == o.fmt # "truncated" /\ ~FormatRefused(o) /\ o.ok

nylink_add_object(o, from) ==
    /\ objects' = IF o.fmt = "truncated" THEN objects
                  ELSE Append(objects,
                         [fmt |-> IF FormatRefused(o) THEN "unknown" ELSE o.fmt,
                          from |-> from])
    /\ symbols' = IF o.fmt = "truncated" \/ FormatRefused(o) THEN symbols
                  ELSE symbols \o o.syms
    /\ diags' = IF Accepted(o) THEN diags
                ELSE diags \cup {[what |-> "input", name |-> ""]}

(* The driver's loop over its inputs: the first failure ends the link.      *)
AddObject(o) ==
    /\ phase = "input"
    /\ inputs < MaxInputs
    /\ inputs' = inputs + 1
    /\ nylink_add_object(o, <<0, 0>>)
    /\ phase' = IF Accepted(o) THEN "input" ELSE "failed"
    /\ UNCHANGED <<shared, archives, peImp, extracted, reading, extraction,
                   binding, resolved>>

nylink_add_archive(f) ==
    /\ phase = "input"
    /\ inputs < MaxInputs
    /\ inputs' = inputs + 1
    /\ archives' = Append(archives, [file |-> f, index |-> <<>>])
    /\ phase' = "archive"
    /\ member' = 1 /\ linker' = FALSE /\ pending' = <<>>
    /\ UNCHANGED <<shared, objects, symbols, peImp, extracted, diags,
                   extraction, binding, resolved>>

(* index_symbols_from_elf / _coff: global and weak symbols with a section   *)
(* index that is not zero in ELF and positive in COFF; a member of an       *)
(* unreadable format is not indexed.                                        *)
ObjectEntries(m, o) ==
    [i \in 1..Len(o.syms) |->
        [name |-> o.syms[i].name, member |-> m,
         indexed |-> /\ o.syms[i].bind # "local"
                     /\ \/ o.fmt = "elf" /\ o.syms[i].at # "undef"
                        \/ o.fmt = "coff" /\ o.syms[i].at = "section"]]

LinkerEntries(es) ==
    [i \in 1..Len(es) |->
        [name |-> es[i].name, member |-> es[i].member, indexed |-> TRUE]]

ImportEntries(m, n) ==
    << [name |-> n, member |-> m, indexed |-> TRUE],
       [name |-> ImpOf[n], member |-> m, indexed |-> TRUE] >>

LastFile == archives[Len(archives)].file

(* nylink_read_archive, one member: a linker member lists its entries, an   *)
(* object is indexed only when no linker member came first, an import only  *)
(* when no archive has imported the name before.                            *)
nylink_read_archive ==
    /\ phase = "archive"
    /\ pending = <<>>
    /\ member <= Len(LastFile)
    /\ LastFile[member].kind # "corrupt"
    /\ member' = member + 1
    /\ LET m == LastFile[member] IN
         /\ linker' = (linker \/ m.kind = "linker")
         /\ pending' = CASE m.kind = "linker" -> LinkerEntries(m.entries)
                         [] m.kind = "object" ->
                              IF linker THEN <<>> ELSE ObjectEntries(member, m.obj)
                         [] m.kind = "import" ->
                              IF m.sym \in peImp THEN <<>>
                              ELSE ImportEntries(member, m.sym)
         /\ peImp' = IF m.kind = "import" THEN peImp \cup {m.sym} ELSE peImp
    /\ UNCHANGED <<phase, inputs, shared, objects, symbols, archives,
                   extracted, diags, extraction, binding, resolved>>

ReadArchiveFails ==
    /\ phase = "archive"
    /\ pending = <<>>
    /\ member <= Len(LastFile)
    /\ LastFile[member].kind = "corrupt"
    /\ diags' = diags \cup {[what |-> "archive", name |-> ""]}
    /\ phase' = "failed"
    /\ UNCHANGED <<inputs, shared, objects, symbols, archives, peImp,
                   extracted, reading, extraction, binding, resolved>>

(* add_archive_symbol: an entry already present is not added again.         *)
add_archive_symbol ==
    /\ phase = "archive"
    /\ pending # <<>>
    /\ pending' = Tail(pending)
    /\ LET p == Head(pending)
           e == [name |-> p.name, member |-> p.member]
           a == Len(archives)
       IN archives' =
            IF p.indexed /\ \A i \in 1..Len(archives[a].index) :
                                archives[a].index[i] # e
            THEN [archives EXCEPT ![a].index = Append(@, e)]
            ELSE archives
    /\ UNCHANGED <<phase, inputs, shared, objects, symbols, peImp, extracted,
                   diags, member, linker, extraction, binding, resolved>>

ReadArchiveReturns ==
    /\ phase = "archive"
    /\ pending = <<>>
    /\ member > Len(LastFile)
    /\ phase' = "input"
    /\ UNCHANGED <<ctx, reading, extraction, binding, resolved>>

(* The driver sets the output mode (is_shared for SHARED, PIE and DLL) and  *)
(* calls nylink_resolve_symbols; without archives nothing is scanned.       *)
CallResolve ==
    /\ phase = "input"
    /\ inputs > 0
    /\ shared' \in BOOLEAN
    /\ phase' = IF archives = <<>> THEN "bind" ELSE "scan"
    /\ scan' = 1 /\ progress' = FALSE
    /\ UNCHANGED <<inputs, objects, symbols, archives, peImp, extracted,
                   diags, reading, binding, resolved>>

-----------------------------------------------------------------------------
(* nylink_extract_needed_archive_members                                    *)

(* Symbol s asks for a definition: it is not local, not defined, and no     *)
(* other non-local symbol of its name is.                                   *)
Wanted(s) ==
    /\ symbols[s].bind # "local"
    /\ ~IsDefined(symbols[s])
    /\ \A o \in 1..Len(symbols) :
          ~ /\ o # s
            /\ IsDefined(symbols[o])
            /\ symbols[o].bind # "local"
            /\ symbols[o].name = symbols[s].name

(* The index entries of all archives, as <<archive, position>>.             *)
IndexPos == UNION {{<<a, k>> : k \in 1..Len(archives[a].index)} :
                       a \in 1..Len(archives)}

IsMember(a, m) ==
    /\ m \in 1..Len(archives[a].file)
    /\ archives[a].file[m].kind \in {"object", "import"}

(* An entry that satisfies the name and whose member is not yet extracted.  *)
(* Mutant: is_extracted is not tested.                                      *)
OffersAgain(p, n) ==
    LET e == archives[p[1]].index[p[2]] IN
      e.name = n /\ IsMember(p[1], e.member)

Offers(p, n) ==
    LET e == archives[p[1]].index[p[2]] IN
      /\ e.name = n
      /\ IsMember(p[1], e.member)
      /\ <<p[1], e.member>> \notin extracted

Before(p, q) == p[1] < q[1] \/ (p[1] = q[1] /\ p[2] < q[2])

(* Once an earlier symbol of the pass has made progress, the breaks that    *)
(* end a successful search also end the search for the later symbols, after *)
(* the first entry of the first archive.                                    *)
Searched == IF progress THEN IndexPos \cap {<<1, 1>>} ELSE IndexPos

Found(p, n) ==
    /\ p \in Searched
    /\ Offers(p, n)
    /\ \A q \in Searched : Before(q, p) => ~Offers(q, n)

(* Short-format import member: defines <sym> and __imp_<sym>.               *)
ImportSymbols(n) ==
    << [name |-> n, bind |-> "global", at |-> "import"],
       [name |-> ImpOf[n], bind |-> "global", at |-> "import"] >>

(* Mutant: the result of nylink_add_object is ignored.                      *)
ExtractUnchecked(a, m) ==
    /\ extracted' = extracted \cup {<<a, m>>}
    /\ progress' = TRUE /\ scan' = scan + 1 /\ phase' = phase
    /\ LET mem == archives[a].file[m] IN
         \/ /\ mem.kind = "import"
            /\ symbols' = symbols \o ImportSymbols(mem.sym)
            /\ UNCHANGED <<objects, diags>>
         \/ mem.kind = "object" /\ nylink_add_object(mem.obj, <<a, m>>)

ExtractMember(a, m) ==
    /\ extracted' = extracted \cup {<<a, m>>}
    /\ LET mem == archives[a].file[m] IN
         \/ /\ mem.kind = "import"
            /\ symbols' = symbols \o ImportSymbols(mem.sym)
            /\ progress' = TRUE
            /\ scan' = scan + 1
            /\ UNCHANGED <<phase, objects, diags>>
         \/ /\ mem.kind = "object"
            /\ nylink_add_object(mem.obj, <<a, m>>)
            /\ IF Accepted(mem.obj)
               THEN phase' = phase /\ progress' = TRUE /\ scan' = scan + 1
               ELSE phase' = "failed" /\ UNCHANGED extraction

ExtractFor ==
    /\ phase = "scan"
    /\ scan <= Len(symbols)
    /\ Wanted(scan)
    /\ \E p \in Searched :
         /\ Found(p, symbols[scan].name)
         /\ ExtractMember(p[1], archives[p[1]].index[p[2]].member)
    /\ UNCHANGED <<inputs, shared, archives, peImp, reading, binding, resolved>>

SkipSymbol ==
    /\ phase = "scan"
    /\ scan <= Len(symbols)
    /\ Wanted(scan) => \A p \in Searched : ~Offers(p, symbols[scan].name)
    /\ scan' = scan + 1
    /\ UNCHANGED <<phase, ctx, reading, progress, binding, resolved>>

(* Mutant: one pass only.                                                   *)
EndOnlyPass ==
    /\ phase = "scan"
    /\ scan > Len(symbols)
    /\ scan' = 1 /\ progress' = FALSE /\ phase' = "bind"
    /\ UNCHANGED <<ctx, reading, binding, resolved>>

(* Mutant: progress is not reset at the start of a pass.                    *)
EndPassKeepsProgress ==
    /\ phase = "scan"
    /\ scan > Len(symbols)
    /\ scan' = 1 /\ progress' = progress
    /\ phase' = IF progress THEN "scan" ELSE "bind"
    /\ UNCHANGED <<ctx, reading, binding, resolved>>

EndPass ==
    /\ phase = "scan"
    /\ scan > Len(symbols)
    /\ scan' = 1
    /\ progress' = FALSE
    /\ phase' = IF progress THEN "scan" ELSE "bind"
    /\ UNCHANGED <<ctx, reading, binding, resolved>>

-----------------------------------------------------------------------------
(* nylink_resolve_symbols                                                   *)

(* Does symbol s replace symbol c as the entry for their common name?       *)
(* Mutant: a static definition does not override one of a shared library.   *)
ReplacesNoStatic(s, c) ==
    /\ IsDefined(s)
    /\ \/ ~IsDefined(c)
       \/ /\ ~IsDynamic(c) /\ ~IsDynamic(s)
          /\ c.bind = "weak" /\ s.bind = "global"

Replaces(s, c) ==
    /\ IsDefined(s)
    /\ \/ ~IsDefined(c)
       \/ IsDynamic(c) /\ ~IsDynamic(s)
       \/ /\ ~IsDynamic(c) /\ ~IsDynamic(s)
          /\ c.bind = "weak" /\ s.bind = "global"

(* Mutant: the first definition's binding is not looked at.                 *)
DuplicatesAny(s, c) ==
    IsStatic(s) /\ IsStatic(c) /\ s.bind = "global"

Duplicates(s, c) ==
    /\ IsStatic(s) /\ IsStatic(c)
    /\ s.bind = "global" /\ c.bind = "global"

BindSymbol ==
    /\ phase = "bind"
    /\ cursor <= Len(symbols)
    /\ cursor' = cursor + 1
    /\ LET s == symbols[cursor]
           r == refs[s.name]
       IN \/ /\ s.bind = "local"
             /\ UNCHANGED <<refs, diags>>
          \/ /\ s.bind # "local" /\ r = 0
             /\ refs' = [refs EXCEPT ![s.name] = cursor]
             /\ UNCHANGED diags
          \/ /\ s.bind # "local" /\ r # 0
             /\ refs' = IF Replaces(s, symbols[r])
                        THEN [refs EXCEPT ![s.name] = cursor] ELSE refs
             /\ diags' = IF Duplicates(s, symbols[r])
                         THEN diags \cup {[what |-> "duplicate", name |-> s.name]}
                         ELSE diags
    /\ UNCHANGED <<phase, inputs, shared, objects, symbols, archives, peImp,
                   extracted, reading, extraction, resolved>>

BindDone ==
    /\ phase = "bind"
    /\ cursor > Len(symbols)
    /\ phase' = "check"
    /\ UNCHANGED <<ctx, reading, extraction, binding, resolved>>

(* An entry that stays undefined is an error unless the output is shared or *)
(* the entry is weak.                                                       *)
(* Mutant: the test on the binding is inverted.                             *)
UnresolvedWeak(n) ==
    /\ refs[n] # 0
    /\ ~IsDefined(symbols[refs[n]])
    /\ ~shared
    /\ symbols[refs[n]].bind = "weak"

Unresolved(n) ==
    /\ refs[n] # 0
    /\ ~IsDefined(symbols[refs[n]])
    /\ ~shared
    /\ symbols[refs[n]].bind # "weak"

(* The state of symbol s after resolution, before it has an address.        *)
ResolvedState(s) ==
    LET sym == symbols[s]
        own == sym.bind = "local" \/ refs[sym.name] = 0
        def == IF own THEN sym ELSE symbols[refs[sym.name]]
    IN [is_defined |-> IsDefined(def), is_dynamic |-> IsDynamic(def)]

CheckRefs ==
    /\ phase = "check"
    /\ LET missing == {n \in Name : Unresolved(n)}
           success == missing = {} /\ \A n \in Name :
                          [what |-> "duplicate", name |-> n] \notin diags
       IN /\ diags' = diags \cup {[what |-> "undefined", name |-> n] : n \in missing}
          /\ phase' = IF success THEN "resolved" ELSE "failed"
          /\ resolved' = IF success
                         THEN [s \in 1..Len(symbols) |-> ResolvedState(s)]
                         ELSE resolved
    /\ UNCHANGED <<inputs, shared, objects, symbols, archives, peImp,
                   extracted, reading, extraction, binding>>

-----------------------------------------------------------------------------
(* nylink_resolve_symbols has returned, or the driver has given up.         *)
Finished == phase \in {"resolved", "failed"} /\ UNCHANGED vars

Linking ==
    \/ nylink_read_archive \/ ReadArchiveFails \/ add_archive_symbol
    \/ ReadArchiveReturns
    \/ ExtractFor \/ SkipSymbol \/ EndPass
    \/ BindSymbol \/ BindDone \/ CheckRefs

Next ==
    \/ \E o \in Object : AddObject(o)
    \/ \E f \in ArFile : nylink_add_archive(f)
    \/ CallResolve
    \/ Linking
    \/ Finished

(* The linker is a sequential program: it keeps taking its own steps.       *)
Spec == Init /\ [][Next]_vars /\ WF_vars(Linking)

-----------------------------------------------------------------------------
(* Properties                                                               *)

IsNamed(i, n) == symbols[i].name = n
IsStrongDef(s) == IsStatic(s) /\ s.bind = "global"
NonLocal(i, n) == symbols[i].bind # "local" /\ IsNamed(i, n)

(* No archive member is loaded twice, however many passes, index entries    *)
(* and symbols lead to it (is_extracted, nylink_archive.c:467-474).         *)
ExtractedOnce ==
    \A i, j \in 1..Len(objects) :
        objects[i].from = objects[j].from => i = j \/ objects[i].from = <<0, 0>>

(* When the extraction loop ends no archive still holds an unextracted      *)
(* member for a symbol that wants one: the early breaks of a pass that made *)
(* progress only postpone a search to the next pass.                        *)
ExtractionComplete ==
    phase \in {"bind", "check", "resolved"} =>
        \A s \in 1..Len(symbols) :
            Wanted(s) => \A p \in IndexPos : ~Offers(p, symbols[s].name)

(* static global > static weak > from a shared library > undefined          *)
Rank(s) == CASE IsStatic(s) /\ s.bind = "global" -> 3
             [] IsStatic(s) /\ s.bind # "global" -> 2
             [] IsDynamic(s) -> 1
             [] OTHER -> 0

(* At every step of the binding loop refs holds, for each name, the first   *)
(* symbol of the highest rank among the non-local symbols read so far.      *)
WinnerIsBest ==
    \A n \in Name :
        /\ refs[n] # 0 => /\ refs[n] \in 1..(cursor - 1)
                          /\ refs[n] <= Len(symbols)
                          /\ NonLocal(refs[n], n)
        /\ \A j \in 1..Len(symbols) : j < cursor /\ NonLocal(j, n) =>
              /\ refs[n] # 0
              /\ Rank(symbols[j]) <= Rank(symbols[refs[n]])
              /\ Rank(symbols[j]) = Rank(symbols[refs[n]]) => refs[n] <= j

StrongDefs(n, k) ==
    {i \in 1..Len(symbols) : i < k /\ IsNamed(i, n) /\ IsStrongDef(symbols[i])}

(* A duplicate is reported for a name exactly when two global definitions   *)
(* in sections have been read, whatever weak, shared-library or undefined   *)
(* symbols of the name stand between them.                                  *)
DuplicatesExact ==
    \A n \in Name :
        [what |-> "duplicate", name |-> n] \in diags <=>
            \E i, j \in StrongDefs(n, cursor) : i # j

(* A link that resolves has a definition for every name whose first         *)
(* non-local symbol is a strong reference, unless the output is shared.     *)
ResolvedIsDefined ==
    phase = "resolved" /\ ~shared =>
        \A s \in 1..Len(symbols) :
            LET n == symbols[s].name IN
            /\ symbols[s].bind = "global"
            /\ \A j \in 1..(s-1) : ~NonLocal(j, n)
            => \E d \in 1..Len(symbols) : NonLocal(d, n) /\ IsDefined(symbols[d])

(* A link fails with a diagnostic or succeeds without one, also when the    *)
(* faulty object is a member pulled out of an archive half-way through.     *)
DiagnosedFailure ==
    /\ phase = "failed" => diags # {}
    /\ phase = "resolved" => diags = {}

(* Every link ends: the extraction loop cannot run forever although each    *)
(* pass that extracts something asks for another.                           *)
Terminates == (phase = "scan") ~> (phase \in {"resolved", "failed"})

(* nylink_context.c:426-427: "Undefined externals resolve at runtime in     *)
(* shared/PIE output; weak undefined references resolve to 0 everywhere".   *)
(* Nothing else may stay undefined: a strong reference of a resolved        *)
(* executable has a definition, whichever reference comes first.            *)
NoStrongUndefined ==
    phase = "resolved" /\ ~shared =>
        \A s \in 1..Len(symbols) :
            symbols[s].bind = "global" =>
                \E d \in 1..Len(symbols) :
                    NonLocal(d, symbols[s].name) /\ IsDefined(symbols[d])

=============================================================================
