--------------------------- MODULE NylinkLayout ---------------------------
(***************************************************************************)
(* nylink_layout_internal: from resolved symbols to the addresses of an    *)
(* image.  The linker lays the image out from a plan of what relocation    *)
(* will need later: PLT entries, GOT slots, dynamic relocations, import    *)
(* thunks.  NylinkImage fills it in from that plan.                        *)
(*                                                                         *)
(* Bytes are kept only where an address, a displacement or a size depends  *)
(* on them.  A name is a pair <<prefix, base>>, so that "__imp_" and       *)
(* ".refptr." names can be formed.                                         *)
(***************************************************************************)
EXTENDS Integers, Sequences, FiniteSets, SequencesExt, FiniteSetsExt

CONSTANTS
    Jobs,       \* what may be linked: configuration, sections, symbols, relocations
    Length,     \* strlen of a name
    Hash,       \* elf_sysv_hash of a name
    PeBase      \* default image base: 0x140000000, 0x180000000 for a DLL

VARIABLES
    job,        \* the link
    pc,         \* next phase
    r,          \* the loops over relocations: the next one
    ctx         \* Nylink_Context

layoutVars == <<job, pc, r, ctx>>

conf == ctx.conf            \* is_shared, uses_dynamic, soname, interp, trampoline
out == ctx.out              \* out_sections: file and memory size, alignment
at == ctx.at                \* sec_layouts: offset of each section in its output section
resolved == ctx.resolved    \* resolved_symbols
imports == ctx.imports      \* import_sym_ids, import_plt_idx, import_got_idx
plans == ctx.plans          \* reloc_plans, reloc_plan_slots
planned == ctx.planned      \* rela_dyn_count
pe == ctx.pe                \* export table, thunks, import address table
dynsym == ctx.dynsym        \* dynsym_sym_ids without the null entry
hash == ctx.hash            \* buckets and chains of .hash
cursor == ctx.cursor        \* current_rva and current_file_off
pieces == ctx.pieces        \* address, file offset and size of each piece of the image
file_end == ctx.file_end    \* total_file_size
start == ctx.start          \* entry_point_va, and what the start code calls

Page == 4096
None == -1              \* UINT32_MAX
Unnamed == <<"", "">>
MainName == <<"", "main">>
StartName == <<"", "_start">>
DefaultInterp == <<"", "interp">>
DefaultDll == <<"", "output.dll">>
Kinds == <<"text", "rodata", "data", "bss">>

NamesOf(j) ==
    {DefaultInterp, DefaultDll, j.soname, j.rpath, j.interp}
      \cup j.needed \cup j.exports \cup Range(j.dlls)
      \cup {j.symbols[s].name : s \in DOMAIN j.symbols}
      \cup {j.imports[i].name : i \in DOMAIN j.imports}

RelocTypes == {"none", "abs64", "pc32", "plt32", "gotpcrel", "call26", "adrp", "add_lo12",
               "ldst32_lo12", "ldst64_lo12"}

ASSUME NamesAssumption ==
    Length \in [DOMAIN Length -> Nat] /\ Hash \in [DOMAIN Hash -> Nat]

ASSUME BaseAssumption == PeBase \in [{"executable", "dll"} -> Nat]

(* Alignments are powers of two, which align_up_checked takes for granted.  *)
Alignments ==
    {0, 1, 2, 4, 8, 16, 32, 64, 128, 256, 512, 1024, 2048, 4096, 8192, 16384, 32768,
     65536, 131072, 262144, 524288, 1048576, 2097152, 4194304, 8388608, 16777216,
     33554432, 67108864, 134217728, 268435456, 536870912, 1073741824}

(* What the readers of object files have checked: sections, symbols and     *)
(* relocations refer to what is there.                                      *)
ASSUME JobsAssumption ==
    \A j \in Jobs :
        /\ j.base \in Nat
        /\ j.sections \in Seq([kind : Range(Kinds), size : Nat, align : Alignments])
        /\ j.symbols \in Seq([name : STRING \X STRING, bind : {"local", "weak", "global"},
                              def : BOOLEAN, dyn : BOOLEAN, func : BOOLEAN,
                              sec : 0..Len(j.sections), value : Nat, default : BOOLEAN])
        /\ j.relocs \in Seq([type : RelocTypes, sec : 0..Len(j.sections), off : Nat,
                             sym : 0..Len(j.symbols), addend : Int])
        /\ j.imports \in Seq([name : STRING \X STRING, dll : DOMAIN j.dlls])
        /\ j.dlls \in Seq(STRING \X STRING) /\ IsFiniteSet(j.needed) /\ IsFiniteSet(j.exports)
        /\ NamesOf(j) \subseteq DOMAIN Length \cap DOMAIN Hash

Pe == job.format = "pe"
A64 == job.machine = "aarch64"
Dynamic == conf.uses_dynamic /\ ~Pe
Sections == DOMAIN job.sections
Symbols == DOMAIN job.symbols
Relocs == DOMAIN job.relocs
Sym(s) == job.symbols[s]
Static(s) == Sym(s).def /\ ~Sym(s).dyn

(* A definition in a section that is part of the image; sec is 0 for one in *)
(* a section that the readers leave out.                                    *)
InSection(s) == Static(s) /\ Sym(s).sec \in Sections

(* Mutant: the alignment is reached by going back.                          *)
AlignDown(v, a) == IF a <= 1 THEN v ELSE (v \div a) * a

AlignUp(v, a) == IF a <= 1 THEN v ELSE ((v + a - 1) \div a) * a

(* The sum of the natural numbers f(x): a unit for each of 1..f(x).         *)
SumOf(S, f(_)) == Cardinality(UNION {{<<x, unit>> : unit \in 1..f(x)} : x \in S})

-----------------------------------------------------------------------------
(* Symbols.  The table the resolver leaves is modelled in NylinkResolve; it *)
(* is given here by its result.                                             *)

FirstOf(S) == IF S = {} THEN 0 ELSE Min(S)

(* nylink_find_symbol: the first static global of a name, else the          *)
(* candidate its loop ends with; 0 when no symbol has the name.  The first  *)
(* symbol gives way to the first static weak one unless it is static, and   *)
(* to the first one of a shared library unless it is defined.               *)
nylink_find_symbol(n) ==
    LET named == {s \in Symbols : Sym(s).name = n}
        bound(bind) == {s \in named : Static(s) /\ Sym(s).bind = bind}
        shared == {s \in named : Sym(s).def /\ Sym(s).dyn}
        first == FirstOf(named)
    IN IF bound("global") # {} THEN Min(bound("global"))
       ELSE IF named = {} \/ Static(first) THEN first
       ELSE IF bound("weak") # {} THEN Min(bound("weak"))
       ELSE IF shared # {} THEN Min(shared) ELSE first

InitiallyResolved(j) ==
    LET symbol(s) == j.symbols[s]
        same(s) == {t \in DOMAIN j.symbols : /\ symbol(t).name = symbol(s).name
                                             /\ symbol(t).bind # "local"}
        alone(s) == symbol(s).bind = "local" \/ symbol(s).name = Unnamed
        def(s) == IF alone(s) THEN symbol(s).def
                  ELSE \E t \in same(s) : symbol(t).def
        dyn(s) == IF alone(s) THEN symbol(s).dyn
                  ELSE def(s) /\ \A t \in same(s) : symbol(t).def => symbol(t).dyn
    IN [s \in DOMAIN j.symbols |-> [def |-> def(s), dyn |-> dyn(s), va |-> 0]]

-----------------------------------------------------------------------------
(* Configuration: the head of nylink_layout_internal.                       *)

UsesDynamic(is_shared) ==
    \/ is_shared
    \/ job.needed # {}
    \/ job.soname # Unnamed
    \/ job.interp # Unnamed
    \/ job.shared_input

(* An executable whose entry is main, without a _start of its own, gets 16  *)
(* bytes of start code at the head of .text.                                *)
NeedsTrampoline ==
    LET s == nylink_find_symbol(StartName) IN
    /\ job.mode = "executable" /\ ~Pe
    /\ job.entry \in {Unnamed, MainName}
    /\ s = 0 \/ ~Sym(s).def

(* Mutant: no room is left for the start code.                              *)
NoRoom(kind, trampoline) == 0

(* The start code comes before the first section of .text.                  *)
FirstOffset(kind, trampoline) == IF kind = "text" /\ trampoline THEN 16 ELSE 0

Configure ==
    LET is_shared == job.mode \in {"shared", "dll"}
        dynamic == UsesDynamic(is_shared)
        default == ~Pe /\ dynamic /\ job.mode # "shared" /\ job.interp = Unnamed
    IN /\ pc = "configure"
       /\ IF job.coff # Pe
          THEN pc' = "failed" /\ UNCHANGED ctx
          ELSE /\ pc' = "place"
               /\ ctx' = [ctx EXCEPT
                            !.conf =
                              [is_shared |-> is_shared,
                               uses_dynamic |-> dynamic,
                               soname |-> IF is_shared THEN job.soname ELSE Unnamed,
                               interp |-> IF default THEN DefaultInterp ELSE job.interp,
                               trampoline |-> NeedsTrampoline],
                            !.out =
                              [k \in Range(Kinds) |->
                                 LET first == FirstOffset(k, NeedsTrampoline)
                                 IN [file |-> first, mem |-> first, align |-> 16]]]
       /\ UNCHANGED <<job, r>>

-----------------------------------------------------------------------------
(* The four output sections, each the input sections of its kind in order.  *)
(* The code goes over the sections once for each kind; what it does for one *)
(* kind does not depend on the others, so one pass does for all.            *)

PlaceSection ==
    LET s == job.sections[r]
        offset == AlignUp(out[s.kind].mem, s.align)
        end == offset + s.size
    IN /\ pc = "place" /\ r \in Sections
       /\ r' = r + 1
       /\ ctx' = [ctx EXCEPT
                    !.at = Append(@, offset),
                    !.out[s.kind] = [file |-> IF s.kind = "bss" THEN 0 ELSE end, mem |-> end,
                                     align |-> Max({@.align, s.align})]]
       /\ UNCHANGED <<job, pc>>

SectionsPlaced ==
    /\ pc = "place" /\ r \notin Sections
    /\ pc' = "plan"
    /\ r' = 1
    /\ UNCHANGED <<job, ctx>>

-----------------------------------------------------------------------------
(* The plan of a dynamic image: what each relocation will need.             *)

Indirect == {"gotpcrel", "adrp", "add_lo12", "ldst32_lo12", "ldst64_lo12"}
Writable(x) == x.sec # 0 /\ job.sections[x.sec].kind = "data"

Imported(n) == {i \in DOMAIN imports : Sym(imports[i].sym).name = n}

(* import_intern: the import of a name, preferring the shared library's     *)
(* symbol to the reference.                                                 *)
import_intern(s) ==
    LET n == Sym(s).name
        defs == {t \in Symbols : Sym(t).dyn /\ Sym(t).def /\ Sym(t).name = n}
    IN IF Imported(n) # {} THEN imports
       ELSE Append(imports, [sym |-> IF defs = {} THEN s ELSE Min(defs),
                             plt |-> None, got |-> None])

Used(list, field) == Cardinality({i \in DOMAIN list : list[i][field] # None})

(* Mutant: a GOT slot is counted for every use of it.                       *)
TakeSlotPerUse(list, i, field) ==
    IF list[i][field] # None THEN [list |-> list, new |-> TRUE]
    ELSE [list |-> [list EXCEPT ![i][field] = Used(list, field)], new |-> TRUE]

(* The PLT entry or GOT slot of an import, taken when first needed.         *)
TakeSlot(list, i, field) ==
    IF list[i][field] # None THEN [list |-> list, new |-> FALSE]
    ELSE [list |-> [list EXCEPT ![i][field] = Used(list, field)], new |-> TRUE]

Plan(kind, slot, list, count) ==
    [fails |-> FALSE, kind |-> kind, slot |-> slot, imports |-> list, count |-> count]
NoPlan == Plan("static", None, imports, 0)
Refused == [NoPlan EXCEPT !.fails = TRUE]

PlanFor(x) ==
    LET s == Sym(x.sym)
        state == resolved[x.sym]
        weak_undef == ~state.def /\ s.bind = "weak"
        dynamic_ref == state.dyn \/ (~state.def /\ job.mode = "shared")
        list == import_intern(x.sym)
        i == CHOOSE k \in DOMAIN list : Sym(list[k].sym).name = s.name
        slot(field) == TakeSlot(list, i, field)
    IN IF x.sym = 0 THEN NoPlan
       ELSE IF weak_undef
       THEN IF x.type = "abs64" THEN Plan("dyn_abs64", i, list, 1) ELSE NoPlan
       ELSE IF ~dynamic_ref
       THEN IF x.type = "abs64" THEN Plan("relative", None, imports, 1) ELSE NoPlan
       ELSE CASE x.type = "abs64" ->
                   IF Writable(x) THEN Plan("dyn_abs64", i, list, 1) ELSE Refused
              [] x.type \in Indirect ->
                   LET taken == slot("got") IN
                   Plan("got", taken.list[i].got, taken.list, IF taken.new THEN 1 ELSE 0)
              [] x.type \in {"plt32", "call26"} \/ (x.type = "pc32" /\ s.func) ->
                   LET taken == slot("plt") IN
                   Plan("plt", taken.list[i].plt, taken.list, 0)
              [] x.type = "pc32" /\ ~s.func -> Refused
              [] OTHER -> Plan("static", None, list, 0)

PlanRelocation ==
    LET p == PlanFor(job.relocs[r]) IN
    /\ pc = "plan" /\ Dynamic /\ r \in Relocs
    /\ r' = r + 1
    /\ pc' = IF p.fails THEN "failed" ELSE "plan"
    /\ ctx' = [ctx EXCEPT !.plans = Append(@, [kind |-> p.kind, slot |-> p.slot]),
                          !.imports = p.imports,
                          !.planned = @ + p.count]
    /\ UNCHANGED job

Planned ==
    /\ pc = "plan"
    /\ ~Dynamic \/ r \notin Relocs
    /\ pc' = IF Pe THEN "exports" ELSE IF Dynamic THEN "dynsym" ELSE "address"
    /\ r' = 1
    /\ UNCHANGED <<job, ctx>>

-----------------------------------------------------------------------------
(* PE tables.  They are built before the sections have addresses, from the  *)
(* addresses the sections would get if nothing more were appended to them.  *)

image_base ==
    IF job.base # 0 THEN job.base
    ELSE IF Pe THEN PeBase[IF job.mode = "dll" THEN "dll" ELSE "executable"]
    ELSE IF conf.is_shared THEN 0 ELSE 4194304

pe_append(section, align, size) ==
    LET end == AlignUp(section.file, align) + size IN
    [section EXCEPT !.file = end, !.mem = end]

TextRva == AlignUp(out["text"].mem, Page)
RdataRva == Page + TextRva

DllName ==
    IF conf.soname # Unnamed THEN conf.soname
    ELSE IF job.soname # Unnamed THEN job.soname ELSE DefaultDll

ExportTableSize ==
    AlignUp(40 + 10 * Cardinality(job.exports) + Length[DllName] + 1
              + SumOf(job.exports, LAMBDA n : Length[n] + 1), 4)

(* Mutant: .data is taken to follow .text.                                  *)
ExportRvaWithoutRdata(n, padded) ==
    LET s == nylink_find_symbol(n)
        kind == job.sections[Sym(s).sec].kind
        section == CASE kind = "rodata" -> TextRva
                     [] kind = "data" -> TextRva
                     [] OTHER -> 0
    IN IF s # 0 /\ InSection(s)
       THEN Page + section + at[Sym(s).sec] + Sym(s).value
       ELSE 0

(* The entry of an exported name in the export address table; padded is     *)
(* .rdata as it is when the table is about to be appended to it.            *)
ExportRva(n, padded) ==
    LET s == nylink_find_symbol(n)
        kind == job.sections[Sym(s).sec].kind
        section == CASE kind = "rodata" -> TextRva
                     [] kind = "data" -> TextRva + AlignUp(padded, Page)
                     [] OTHER -> 0
    IN IF s # 0 /\ InSection(s)
       THEN Page + section + at[Sym(s).sec] + Sym(s).value
       ELSE 0

BuildExports ==
    LET padded == AlignUp(out["rodata"].file, 4) IN
    /\ pc = "exports"
    /\ pc' = "thunks"
    /\ ctx' = IF job.exports = {} THEN ctx
              ELSE [ctx EXCEPT
                      !.pe.export = RdataRva + padded,
                      !.pe.eat = [n \in job.exports |-> ExportRva(n, padded)],
                      !.out["rodata"] = pe_append(@, 4, ExportTableSize)]
    /\ UNCHANGED <<job, r>>

Imports == DOMAIN job.imports
Dlls == DOMAIN job.dlls
IsThunked(i) ==
    LET s == nylink_find_symbol(job.imports[i].name) IN s = 0 \/ Sym(s).func

(* A function gets a thunk of 6 bytes at the end of .text, data gets none.  *)
PlaceThunk ==
    LET text == IF r = 1 THEN pe_append(out["text"], 16, 0) ELSE out["text"] IN
    /\ pc = "thunks" /\ r \in Imports
    /\ r' = r + 1
    /\ ctx' = IF IsThunked(r)
              THEN [ctx EXCEPT !.out["text"] = pe_append(text, 4, 6),
                               !.pe.thunk = Append(@, Page + AlignUp(text.file, 4))]
              ELSE [ctx EXCEPT !.out["text"] = text, !.pe.thunk = Append(@, None)]
    /\ UNCHANGED <<job, pc>>

(* The imports whose slots come before those of DLL d, and among those of   *)
(* its own DLL up to import i.                                              *)
OfEarlier(d) == {j \in Imports : job.imports[j].dll < d}
UpTo(i) == {j \in Imports : job.imports[j].dll = job.imports[i].dll /\ j <= i}

(* Mutant: the slots of a DLL are not ended.                                *)
UnendedFirst(d) == Cardinality(OfEarlier(d)) + 1

(* The import address table has the slots of one DLL after the other, each  *)
(* DLL's ended by an empty one: the first slot of a DLL, and an import's.   *)
FirstSlot(d) == Cardinality(OfEarlier(d)) + d
SlotOf(i) == FirstSlot(job.imports[i].dll) + Cardinality(UpTo(i)) - 1

ImportTable ==
    [slots |-> [k \in 1..(Len(job.imports) + Len(job.dlls)) |->
                  FirstOf({i \in Imports : SlotOf(i) = k})],
     first |-> [d \in Dlls |-> FirstSlot(d)]]

ImportTableSize ==
    LET even(n) == AlignUp(n, 2) IN
    AlignUp(2 * 8 * (Len(job.imports) + Len(job.dlls)) + 20 * (Len(job.dlls) + 1)
              + SumOf(Imports, LAMBDA i : even(Length[job.imports[i].name] + 3))
              + SumOf(Dlls, LAMBDA d : Length[job.dlls[d]] + 1), 8)

(* What resolved_symbols gets for an import, its thunk or else its slot,    *)
(* and for the __imp_ name of it, always the slot.  The last import of the  *)
(* loop that finds the symbol is the one that counts.                       *)
ImportVa(s, tables) ==
    LET imp(i) == <<"__imp_", job.imports[i].name[2]>>
        by_name == {i \in Imports : nylink_find_symbol(job.imports[i].name) = s}
        by_imp == {i \in Imports : nylink_find_symbol(imp(i)) = s}
        i == Max(by_name \cup by_imp)
    IN image_base + (IF i \notin by_imp /\ tables.thunk[i] # None
                     THEN tables.thunk[i] ELSE tables.iat[i])

BuildImports ==
    LET base == RdataRva + AlignUp(out["rodata"].file, 8)
        iat == [i \in Imports |-> base + 8 * (SlotOf(i) - 1)]
        tables == [pe EXCEPT !.table = base, !.slots = ImportTable.slots,
                             !.first = ImportTable.first, !.iat = iat,
                             !.disp = [i \in Imports |-> iat[i] - (pe.thunk[i] + 6)]]
        named == {nylink_find_symbol(n) : n \in {job.imports[i].name : i \in Imports}
                     \cup {<<"__imp_", job.imports[i].name[2]>> : i \in Imports}}
    IN /\ pc = "thunks" /\ r \notin Imports
       /\ pc' = "address"
       /\ r' = 1
       /\ ctx' = IF Imports = {} THEN ctx
                 ELSE [ctx EXCEPT
                         !.pe = tables,
                         !.out["rodata"] = pe_append(@, 8, ImportTableSize),
                         !.resolved = [s \in Symbols |->
                            IF s \in named
                            THEN [def |-> TRUE, dyn |-> TRUE, va |-> ImportVa(s, tables)]
                            ELSE resolved[s]]]
       /\ UNCHANGED job

-----------------------------------------------------------------------------
(* The tables of a dynamic ELF image.                                       *)

Exportable(s) ==
    /\ job.mode = "shared"
    /\ Sym(s).name # Unnamed /\ Sym(s).bind # "local" /\ Sym(s).default
    /\ Static(s)
    /\ resolved[s].def /\ ~resolved[s].dyn

(* dynsym_has_name                                                          *)
InDynsym(n) == \E d \in DOMAIN dynsym : Sym(dynsym[d]).name = n

(* A shared library exports what it defines; then come the imports.         *)
ExportSymbol ==
    /\ pc = "dynsym" /\ r \in Symbols
    /\ r' = r + 1
    /\ ctx' = IF Exportable(r) /\ ~InDynsym(Sym(r).name)
              THEN [ctx EXCEPT !.dynsym = Append(@, r)] ELSE ctx
    /\ UNCHANGED <<job, pc>>

SymbolsExported ==
    /\ pc = "dynsym" /\ r \notin Symbols
    /\ pc' = "dynimp"
    /\ r' = 1
    /\ UNCHANGED <<job, ctx>>

ImportSymbol ==
    LET s == imports[r].sym IN
    /\ pc = "dynimp" /\ r \in DOMAIN imports
    /\ r' = r + 1
    /\ ctx' = IF InDynsym(Sym(s).name) THEN ctx ELSE [ctx EXCEPT !.dynsym = Append(@, s)]
    /\ UNCHANGED <<job, pc>>

(* All names are known: .hash gets as many buckets as .dynsym has entries.  *)
SymbolsImported ==
    /\ pc = "dynimp" /\ r \notin DOMAIN imports
    /\ pc' = "hash"
    /\ r' = 1
    /\ ctx' = [ctx EXCEPT !.hash = [bucket |-> [b \in 0..Len(dynsym) |-> 0], chain |-> <<>>]]
    /\ UNCHANGED job

BucketOf(d) == Hash[Sym(dynsym[d]).name] % (Len(dynsym) + 1)

(* Mutant: a bucket keeps only the last name.                               *)
ChainNothing(d) == 0

(* What the chain goes on with after name d: the earlier head of its bucket.*)
ChainAfter(d) == hash.bucket[BucketOf(d)]

HashName ==
    /\ pc = "hash" /\ r \in DOMAIN dynsym
    /\ r' = r + 1
    /\ ctx' = [ctx EXCEPT !.hash = [bucket |-> [hash.bucket EXCEPT ![BucketOf(r)] = r],
                                    chain |-> Append(hash.chain, ChainAfter(r))]]
    /\ UNCHANGED <<job, pc>>

NamesHashed ==
    /\ pc = "hash" /\ r \notin DOMAIN dynsym
    /\ pc' = "address"
    /\ r' = 1
    /\ UNCHANGED <<job, ctx>>

-----------------------------------------------------------------------------
(* Addresses and file offsets.                                              *)

Strings ==
    ({conf.soname, job.rpath} \cup job.needed
        \cup {Sym(dynsym[d]).name : d \in DOMAIN dynsym}) \ {Unnamed}

One(cond) == IF cond THEN 1 ELSE 0
PltCount == Used(imports, "plt")
GotCount == Used(imports, "got")
PltHead == IF A64 THEN 32 ELSE 16
HasInterp == job.mode # "shared" /\ conf.interp # Unnamed

(* Mutant: no room for the entry DT_DEBUG.                                  *)
DynamicRoomWithoutInterp ==
    8 + One(conf.soname # Unnamed) + One(job.rpath # Unnamed)
      + Cardinality(job.needed) + 1
      + 3 * One(planned > 0) + 4 * One(PltCount > 0)

DynamicRoom ==
    8 + One(conf.soname # Unnamed) + One(job.rpath # Unnamed)
      + Cardinality(job.needed) + One(conf.interp # Unnamed) + 1
      + 3 * One(planned > 0) + 4 * One(PltCount > 0)

FileAlign == IF Pe THEN 512 ELSE Page

(* The sizes of the tables of a dynamic image.                              *)
TableSize ==
    LET names == Len(dynsym) + 1 IN
    [interp |-> IF HasInterp THEN Length[conf.interp] + 1 ELSE 0,
     hash |-> 4 * (2 + 2 * names),
     dynsym |-> 24 * names,
     dynstr |-> 1 + SumOf(Strings, LAMBDA n : Length[n] + 1),
     rela_dyn |-> 24 * planned,
     rela_plt |-> 24 * PltCount,
     plt |-> IF PltCount > 0 THEN PltHead + 16 * PltCount ELSE 0,
     got |-> IF GotCount > 0 THEN 8 * GotCount ELSE 8,
     dynamic |-> 16 * DynamicRoom,
     got_plt |-> IF PltCount > 0 THEN 8 * (3 + PltCount) ELSE 0]

TableAlign(n) ==
    CASE n = "plt" -> 16
      [] n \in {"got", "got_plt"} -> Page
      [] n \notin {"plt", "got", "got_plt"} -> 1

(* A piece: its size in the file and in memory, the alignment of its start  *)
(* in memory and in the file, and what its size is rounded up to.           *)
Table(n) ==
    LET size == IF Dynamic THEN TableSize[n] ELSE 0
        round == IF n = "plt" THEN 16 ELSE 8
    IN [file |-> size, mem |-> size, align |-> TableAlign(n), falign |-> TableAlign(n),
        round |-> round, fround |-> round]

OutputSection(k) ==
    [file |-> out[k].file, mem |-> out[k].mem,
     align |-> Page, falign |-> IF k = "bss" THEN 1 ELSE FileAlign,
     round |-> Page, fround |-> FileAlign]

(* The pieces in the order of their addresses: tables that are only read,   *)
(* three output sections, tables that are written, and .bss.                *)
PieceOrder ==
    <<"interp", "hash", "dynsym", "dynstr", "rela_dyn", "rela_plt", "plt",
      "text", "rodata", "data", "got", "dynamic", "got_plt", "bss">>

PieceNames == Range(PieceOrder)
Nowhere == [va |-> 0, off |-> 0, file |-> 0, mem |-> 0]

PieceOf(n) == IF n \in Range(Kinds) THEN OutputSection(n) ELSE Table(n)

(* One piece: current_rva and current_file_off are aligned, the piece gets  *)
(* them, and they move past it.  An empty piece has no place and does not   *)
(* move them.                                                               *)
PlacePiece ==
    LET n == PieceOrder[r]
        p == PieceOf(n)
        rva == AlignUp(cursor.rva, p.align)
        off == AlignUp(cursor.off, p.falign)
    IN /\ pc = "address" /\ r \in DOMAIN PieceOrder
       /\ r' = r + 1
       /\ ctx' = IF p.mem = 0 THEN ctx
                 ELSE [ctx EXCEPT
                         !.pieces[n] = [va |-> image_base + rva,
                                        off |-> IF n = "bss" THEN 0 ELSE off,
                                        file |-> p.file, mem |-> p.mem],
                         !.cursor = [rva |-> rva + AlignUp(p.mem, p.round),
                                     off |-> off + AlignUp(p.file, p.fround)]]
       /\ UNCHANGED <<job, pc>>

PiecesPlaced ==
    /\ pc = "address" /\ r \notin DOMAIN PieceOrder
    /\ pc' = "symbols"
    /\ ctx' = [ctx EXCEPT !.file_end = cursor.off]
    /\ UNCHANGED <<job, r>>

SectionVa(i) == pieces[job.sections[i].kind].va + at[i]

(* The address of a definition; an import keeps what BuildImports gave it.  *)
OwnVa(s) ==
    IF InSection(s) THEN SectionVa(Sym(s).sec) + Sym(s).value
    ELSE IF Sym(s).dyn THEN resolved[s].va ELSE 0

FinalSymbol(s) ==
    LET d == nylink_find_symbol(Sym(s).name) IN
    IF Sym(s).name = Unnamed \/ ~Sym(d).def
    THEN [resolved[s] EXCEPT !.va = OwnVa(s)]
    ELSE [def |-> TRUE, dyn |-> Sym(d).dyn,
          va |-> IF Sym(d).dyn /\ OwnVa(d) = 0 THEN OwnVa(s) ELSE OwnVa(d)]

(* .refptr.x is a cell holding the address of x; when x is imported data    *)
(* its first definition stands for the import address table slot instead.   *)
Refptr(i) ==
    FirstOf({s \in Symbols : Static(s) /\ Sym(s).name = <<".refptr.", job.imports[i].name[2]>>})

Redirected == {Refptr(i) : i \in {k \in Imports : Pe /\ pe.thunk[k] = None}} \ {0}

SymbolAddresses ==
    /\ pc = "symbols"
    /\ pc' = "entry"
    /\ ctx' = [ctx EXCEPT !.resolved = [s \in Symbols |->
          IF s \in Redirected
          THEN LET i == CHOOSE k \in Imports : pe.thunk[k] = None /\ Refptr(k) = s
               IN [def |-> TRUE, dyn |-> TRUE, va |-> image_base + pe.iat[i]]
          ELSE FinalSymbol(s)]]
    /\ UNCHANGED <<job, r>>

(* The entry point, and the call of the start code when there is one.       *)
FindEntry ==
    LET named == IF job.entry = Unnamed THEN MainName ELSE job.entry
        chosen == IF nylink_find_symbol(named) # 0 THEN nylink_find_symbol(named)
                  ELSE nylink_find_symbol(StartName)
        own == IF job.entry = Unnamed THEN 0 ELSE nylink_find_symbol(job.entry)
        library == job.mode \in {"shared", "dll"}
        s == IF library THEN own ELSE chosen
        va == IF s # 0 /\ Sym(s).def THEN resolved[s].va ELSE 0
        text == pieces["text"]
        inside == /\ s # 0 /\ Sym(s).def
                  /\ va >= text.va /\ va < text.va + text.mem
    IN /\ pc = "entry"
       /\ IF ~library /\ ~inside
          THEN pc' = "failed" /\ UNCHANGED ctx
          ELSE /\ pc' = "tables"
               /\ ctx' = [ctx EXCEPT !.start =
                            IF conf.trampoline
                            THEN [va |-> text.va,
                                  call |-> va - (text.va + IF A64 THEN 0 ELSE 5)]
                            ELSE [va |-> va, call |-> 0]]
       /\ r' = 1
       /\ UNCHANGED job

LayoutInit ==
    /\ job \in Jobs
    /\ pc = "configure"
    /\ r = 1
    /\ ctx = [conf |-> [is_shared |-> FALSE, uses_dynamic |-> FALSE, soname |-> Unnamed,
                        interp |-> Unnamed, trampoline |-> FALSE],
              out |-> [k \in Range(Kinds) |-> [file |-> 0, mem |-> 0, align |-> 16]],
              at |-> <<>>,
              resolved |-> InitiallyResolved(job),
              imports |-> <<>>, plans |-> <<>>, planned |-> 0,
              pe |-> [export |-> 0, eat |-> <<>>, table |-> 0, slots |-> <<>>,
                      first |-> <<>>, iat |-> <<>>, thunk |-> <<>>, disp |-> <<>>],
              dynsym |-> <<>>,
              hash |-> [bucket |-> <<>>, chain |-> <<>>],
              cursor |-> [rva |-> Page, off |-> IF Pe THEN 1024 ELSE Page],
              pieces |-> [n \in PieceNames |-> Nowhere],
              file_end |-> 0,
              start |-> [va |-> 0, call |-> 0]]

LayoutNext ==
    \/ Configure \/ PlaceSection \/ SectionsPlaced \/ PlanRelocation \/ Planned
    \/ BuildExports \/ PlaceThunk \/ BuildImports
    \/ ExportSymbol \/ SymbolsExported \/ ImportSymbol \/ SymbolsImported
    \/ HashName \/ NamesHashed
    \/ PlacePiece \/ PiecesPlaced \/ SymbolAddresses \/ FindEntry

=============================================================================
