---------------------------- MODULE NylinkImage ----------------------------
(***************************************************************************)
(* nylink_apply_relocations_internal on the image NylinkLayout has laid    *)
(* out, and the headers the two emitters write.  The properties load the   *)
(* image, at any bias its headers allow, and follow every relocated place. *)
(***************************************************************************)
EXTENDS NylinkLayout

CONSTANTS
    Disp32,     \* INT32_MAX
    Imm26,      \* 2^25: words a branch reaches
    Imm21       \* 2^20: pages an ADRP reaches

ASSUME ImageAssumption == {Disp32, Imm26, Imm21} \subseteq Nat \ {0}

VARIABLES
    plt,        \* the entries of .plt with their .rela.plt relocation
    rela,       \* .rela.dyn
    fixups,     \* pe_base_relocs
    written,    \* what relocation wrote at each relocation's place
    ok,         \* no relocation has failed
    head        \* what the emitter writes in the headers

imageVars == <<plt, rela, fixups, written, ok, head>>
vars == <<layoutVars, imageVars>>

-----------------------------------------------------------------------------
(* nylink_apply_relocations_internal: first the PLT and the GOT, then every *)
(* relocation in turn.                                                      *)

DynIdx(i) ==
    FirstOf({d \in DOMAIN dynsym : Sym(dynsym[d]).name = Sym(imports[i].sym).name})

(* One PLT entry.  On x86-64 a jump through the slot; on AArch64 an adrp,   *)
(* an ldr and a br, each with the register it names and the page the adrp   *)
(* adds to its own.                                                         *)
PltEntry(i) ==
    LET entry == pieces["plt"].va + PltHead + 16 * imports[i].plt
        slot == pieces["got_plt"].va + 24 + 8 * imports[i].plt
        common == [entry |-> entry, slot |-> slot, sym |-> DynIdx(i)]
    IN IF A64
       THEN [code |-> [adrp |-> "x17", ldr |-> "x16",
                       pages |-> (slot - entry) \div Page, low |-> slot % Page],
             table |-> common]
       ELSE [code |-> [disp |-> slot - (entry + 6)], table |-> common]

GlobDat(i) == [at |-> pieces["got"].va + 8 * imports[i].got,
               type |-> "symbol", sym |-> DynIdx(i), addend |-> 0]

(* One import: its PLT entry, and the relocation of its GOT slot, which     *)
(* push_rela_dyn refuses when .rela.dyn is full.                            *)
FillTables ==
    LET pushes == imports[r].got # None /\ planned > 0
        full == Len(rela) >= planned
    IN /\ pc = "tables" /\ r \in DOMAIN imports
       /\ r' = r + 1
       /\ plt' = IF imports[r].plt = None THEN plt
                 ELSE [k \in DOMAIN plt \cup {imports[r].plt} |->
                         IF k = imports[r].plt THEN PltEntry(r) ELSE plt[k]]
       /\ rela' = IF pushes /\ ~full THEN Append(rela, GlobDat(r)) ELSE rela
       /\ pc' = IF pushes /\ full THEN "failed" ELSE "tables"
       /\ UNCHANGED <<job, ctx, fixups, written, ok, head>>

TablesFilled ==
    /\ pc = "tables" /\ r \notin DOMAIN imports
    /\ pc' = "relocate"
    /\ r' = 1
    /\ UNCHANGED <<job, ctx, imageVars>>

PlanOf(k) == IF plans = <<>> THEN [kind |-> "static", slot |-> None] ELSE plans[k]
PlaceOf(x) == SectionVa(x.sec) + x.off
Fits(x, width) == at[x.sec] + x.off + width <= out[job.sections[x.sec].kind].file

(* The address a relocation other than abs64 is computed from, None when    *)
(* the symbol has none.                                                     *)
TargetVa(x, plan) ==
    LET state == resolved[x.sym]
        head_size == IF x.type = "call26" THEN 32 ELSE 16
    IN IF plan.kind = "plt" THEN pieces["plt"].va + head_size + 16 * plan.slot
       ELSE IF plan.kind = "got" THEN pieces["got"].va + 8 * plan.slot
       ELSE IF x.type = "gotpcrel" THEN None
       ELSE IF state.def /\ ~state.dyn THEN state.va
       ELSE IF x.type \in {"pc32", "plt32"} /\ state.dyn /\ state.va # 0 THEN state.va
       ELSE IF ~state.def /\ Sym(x.sym).bind = "weak" THEN 0
       ELSE None

Wrote(v) == [ok |-> TRUE, wrote |-> <<v>>, rela |-> <<>>, fixup |-> {}]
Skipped == [Wrote(0) EXCEPT !.wrote = <<>>]
Failed == [Skipped EXCEPT !.ok = FALSE]

(* R_X86_64_64 and R_AARCH64_ABS64.                                         *)
Absolute(x, plan) ==
    LET val == resolved[x.sym].va + x.addend
        push(v, type, sym, addend) ==
          IF Len(rela) >= planned THEN Failed
          ELSE [Wrote(v) EXCEPT !.rela = <<[at |-> PlaceOf(x), type |-> type,
                                            sym |-> sym, addend |-> addend]>>]
    IN IF ~A64 /\ x.sym \in Redirected THEN Skipped
       ELSE IF ~Fits(x, 8) THEN Failed
       ELSE CASE plan.kind = "dyn_abs64" ->
                   push(x.addend, "symbol", DynIdx(plan.slot), x.addend)
              [] plan.kind = "relative" -> push(val, "relative", 0, val)
              [] OTHER -> [Wrote(val) EXCEPT !.fixup =
                             IF Pe THEN {PlaceOf(x) - image_base} ELSE {}]

Wrap32(v) == ((v + Disp32 + 1) % (2 * (Disp32 + 1))) - (Disp32 + 1)

(* The relocations that patch an instruction.                               *)
Patch(x, plan) ==
    LET target == TargetVa(x, plan)
        S == target + x.addend
        val == S - PlaceOf(x)
        pages == (S \div Page) - (PlaceOf(x) \div Page)
    IN IF ~Fits(x, 4) \/ target = None THEN Failed
       ELSE CASE x.type \in {"pc32", "plt32", "gotpcrel"} ->
                   IF val < -Disp32 - 1 \/ val > Disp32 THEN Failed ELSE Wrote(Wrap32(val))
              [] x.type = "call26" ->
                   IF val % 4 # 0 \/ val \div 4 < -Imm26 \/ val \div 4 >= Imm26
                   THEN Failed ELSE Wrote(val)
              [] x.type = "adrp" ->
                   IF pages < -Imm21 \/ pages >= Imm21 THEN Failed ELSE Wrote(pages)
              [] x.type = "add_lo12" -> Wrote(S % Page)
              [] x.type = "ldst32_lo12" -> IF S % 4 # 0 THEN Failed ELSE Wrote(S % Page)
              [] x.type = "ldst64_lo12" -> IF S % 8 # 0 THEN Failed ELSE Wrote(S % Page)

Apply(x, plan) ==
    CASE x.sec = 0 -> Failed
      [] x.sec # 0 /\ x.type = "none" -> Skipped
      [] x.sec # 0 /\ x.type # "none" /\ x.sym = 0 -> Failed
      [] x.sec # 0 /\ x.sym # 0 /\ x.type = "abs64" -> Absolute(x, plan)
      [] x.sec # 0 /\ x.sym # 0 /\ x.type \notin {"none", "abs64"} -> Patch(x, plan)

Relocate ==
    LET result == Apply(job.relocs[r], PlanOf(r)) IN
    /\ pc = "relocate" /\ r \in Relocs
    /\ r' = r + 1
    /\ ok' = (ok /\ result.ok)
    /\ written' = Append(written, result.wrote)
    /\ rela' = rela \o result.rela
    /\ fixups' = fixups \cup result.fixup
    /\ UNCHANGED <<job, pc, ctx, plt, head>>

Relocated ==
    /\ pc = "relocate" /\ r \notin Relocs
    /\ pc' = IF ok THEN "emit" ELSE "failed"
    /\ UNCHANGED <<job, r, ctx, imageVars>>

-----------------------------------------------------------------------------
(* The headers: what of the file is mapped where.                           *)

Load(flags, off, va, file, mem) ==
    [flags |-> flags, off |-> off, va |-> va, file |-> file, mem |-> mem]

FileEnd(n) == IF pieces[n].file > 0 THEN pieces[n].off + pieces[n].file ELSE 0
RxPieces == {"interp", "hash", "dynsym", "dynstr", "rela_dyn", "rela_plt", "plt", "text"}

RxLoad ==
    LET end == Max({FileEnd(n) : n \in RxPieces}
                     \cup (IF pieces["text"].file > 0 THEN {} ELSE {Page}))
    IN Load({"r", "x"}, 0, image_base, end, end)

(* Mutant: the segment ends with the dynamic section.                       *)
RwLoadToDynamic ==
    LET data == pieces["data"]
        bss == pieces["bss"]
        first == IF data.mem > 0 THEN data ELSE IF Dynamic THEN pieces["got"] ELSE bss
        end == Max({FileEnd("data"), FileEnd("got"), FileEnd("dynamic")})
        bss_end == IF bss.mem > 0 THEN bss.va + bss.mem ELSE 0
        mem_end == IF data.mem = 0 /\ ~Dynamic THEN bss_end
                   ELSE Max({image_base + end, bss_end})
    IN Load({"r", "w"}, first.off, first.va, end - first.off, mem_end - first.va)

RwLoad ==
    LET data == pieces["data"]
        bss == pieces["bss"]
        first == IF data.mem > 0 THEN data ELSE IF Dynamic THEN pieces["got"] ELSE bss
        end == Max({FileEnd("data"), FileEnd("got"), FileEnd("dynamic"), FileEnd("got_plt")})
        bss_end == IF bss.mem > 0 THEN bss.va + bss.mem ELSE 0
        mem_end == IF data.mem = 0 /\ ~Dynamic THEN bss_end
                   ELSE Max({image_base + end, bss_end})
    IN Load({"r", "w"}, first.off, first.va, end - first.off, mem_end - first.va)

ElfLoads ==
    LET ro == pieces["rodata"] IN
    {RxLoad}
      \cup (IF ro.mem > 0 THEN {Load({"r"}, ro.off, ro.va, ro.file, ro.mem)} ELSE {})
      \cup (IF pieces["data"].mem > 0 \/ Dynamic \/ pieces["bss"].mem > 0
            THEN {RwLoad} ELSE {})

(* The entries of .dynamic, counted as they are written.                    *)
DynamicWritten ==
    One(conf.soname # Unnamed) + Cardinality(job.needed) + 5
      + 3 * One(pieces["rela_dyn"].file > 0) + 4 * One(pieces["rela_plt"].file > 0)
      + One(job.rpath # Unnamed) + One(HasInterp) + 4

EmitElf ==
    /\ pc = "emit" /\ ~Pe
    /\ pc' = "done"
    /\ head' = [head EXCEPT !.loads = ElfLoads,
                            !.movable = job.mode \in {"pie", "shared"},
                            !.dynamic = IF Dynamic THEN DynamicWritten ELSE 0]
    /\ UNCHANGED <<job, r, ctx, plt, rela, fixups, written, ok>>

(* The .reloc section: a block for each page that has a fixup.              *)
BaseRelocSize ==
    LET pages == {f \div Page : f \in fixups} IN
    SumOf(pages, LAMBDA p : 8 + 2 * AlignUp(Cardinality({f \in fixups : f \div Page = p}), 2))

PeFlags == [k \in Range(Kinds) |-> CASE k = "text" -> {"r", "x"}
                                     [] k = "rodata" -> {"r"}
                                     [] OTHER -> {"r", "w"}]

(* The sections of a PE image, and behind them .reloc.                      *)
PeLoads ==
    LET present == {k \in Range(Kinds) : pieces[k].mem > 0}
        end == Max({Page} \cup {pieces[k].va - image_base + AlignUp(pieces[k].mem, Page)
                                  : k \in present})
    IN {Load(PeFlags[k], pieces[k].off, pieces[k].va,
             AlignUp(pieces[k].file, 512), pieces[k].mem) : k \in present}
         \cup (IF fixups = {} THEN {}
               ELSE {Load({"r"}, file_end, image_base + end,
                          AlignUp(BaseRelocSize, 512), BaseRelocSize)})

EmitPe ==
    /\ pc = "emit" /\ Pe
    /\ pc' = "done"
    /\ head' = [head EXCEPT !.loads = PeLoads, !.movable = fixups # {}]
    /\ UNCHANGED <<job, r, ctx, plt, rela, fixups, written, ok>>

-----------------------------------------------------------------------------
Init ==
    /\ LayoutInit
    /\ plt = <<>> /\ rela = <<>> /\ fixups = {} /\ written = <<>>
    /\ ok = TRUE
    /\ head = [loads |-> {}, movable |-> FALSE, dynamic |-> 0]

Stopped == pc \in {"done", "failed"} /\ UNCHANGED vars

Next ==
    \/ LayoutNext /\ UNCHANGED imageVars
    \/ FillTables \/ TablesFilled \/ Relocate \/ Relocated \/ EmitElf \/ EmitPe
    \/ Stopped

Spec == Init /\ [][Next]_vars

-----------------------------------------------------------------------------
(* The loader (external): what the places of a finished image hold and      *)
(* reach when it is loaded at a bias.  A value is a number, added to the    *)
(* address of a symbol of another image unless that is Unnamed.             *)

Address(n) == [of |-> Unnamed, n |-> n]
External(name, n) == [of |-> name, n |-> n]
Garbage == [of |-> <<"", "garbage">>, n |-> 0]

Biases == IF head.movable THEN {0, 16 * Page} ELSE {0}

(* What .dynsym entry d stands for, found by name as the loader does.       *)
DynamicValue(d, n, bias) ==
    LET s == dynsym[d] IN
    IF d = 0 THEN Address(n)
    ELSE IF Static(s) THEN Address(resolved[s].va + bias + n)
    ELSE External(Sym(s).name, n)

(* The 8 bytes at va, where the linker wrote v.                             *)
Word(va, v, bias) ==
    LET own == {k \in DOMAIN rela : rela[k].at = va} IN
    IF own # {}
    THEN LET e == rela[Max(own)] IN
         IF e.type = "relative" THEN Address(bias + e.addend)
         ELSE DynamicValue(e.sym, e.addend, bias)
    ELSE IF va - image_base \in fixups THEN Address(v + bias) ELSE Address(v)

(* The import address table slot at rva: the loader walks the slots of each *)
(* DLL up to an empty one.                                                  *)
Walked(d) ==
    {k \in pe.first[d]..Len(pe.slots) : \A j \in pe.first[d]..k : pe.slots[j] # 0}

Slot(rva) ==
    LET k == (rva - pe.table) \div 8 + 1
        dlls == {d \in DOMAIN pe.first : k \in Walked(d)}
    IN IF (rva - pe.table) % 8 = 0 /\ k \in DOMAIN pe.slots /\ Cardinality(dlls) = 1
          /\ job.imports[pe.slots[k]].dll \in dlls
       THEN External(<<"__imp_", job.imports[pe.slots[k]].name[2]>>, 0)
       ELSE Garbage

(* Where control or a load that reaches va ends up: behind a PLT entry or a *)
(* thunk, at a slot of the import address table, or at va itself.           *)
PltSlot(e) ==
    IF ~A64 THEN e.table.entry + 6 + e.code.disp
    ELSE IF e.code.adrp # e.code.ldr THEN None
    ELSE ((e.table.entry \div Page) + e.code.pages) * Page + e.code.low

Follow(va, bias) ==
    LET entries == {k \in DOMAIN plt : plt[k].table.entry = va}
        thunks == {i \in DOMAIN pe.thunk : pe.thunk[i] # None /\ image_base + pe.thunk[i] = va}
        in_iat == pe.slots # <<>> /\ va - image_base \in pe.table..(pe.table + 8 * Len(pe.slots) - 1)
    IN IF entries # {}
       THEN LET slot == PltSlot(plt[Min(entries)])
                jump == {k \in DOMAIN plt : plt[k].table.slot = slot}
            IN IF jump = {} THEN Garbage
               ELSE DynamicValue(plt[Min(jump)].table.sym, 0, bias)
       ELSE IF thunks # {}
       THEN LET i == Min(thunks)
                slot == Slot(pe.thunk[i] + 6 + pe.disp[i])
            IN IF slot = Garbage THEN Garbage ELSE External(<<"", slot.of[2]>>, 0)
       ELSE IF in_iat THEN Slot(va - image_base)
       ELSE Address(va + bias)

-----------------------------------------------------------------------------
(* Properties                                                               *)

(* What relocation x refers to: its symbol's definition, the import of its  *)
(* name, or nothing, which a word of a dynamic image leaves to the loader.  *)
WeakUndefined(s) == ~resolved[s].def /\ Sym(s).bind = "weak"

Definition(x) ==
    IF Sym(x.sym).name = Unnamed THEN x.sym ELSE nylink_find_symbol(Sym(x.sym).name)

Meaning(x, bias) ==
    LET name == Sym(x.sym).name
        d == Definition(x)
        imported == {i \in Imports : job.imports[i].name[2] = name[2]}
    IN IF name[1] \in {"__imp_", ".refptr."} /\ imported # {}
       THEN External(<<"__imp_", name[2]>>, 0)
       ELSE IF Static(d) THEN Address(SectionVa(Sym(d).sec) + Sym(d).value + bias)
       ELSE IF WeakUndefined(x.sym) /\ ~(Dynamic /\ x.type = "abs64") THEN Address(0)
       ELSE External(name, 0)

Plus(v, n) == [v EXCEPT !.n = @ + n]

Lo12 == {"add_lo12", "ldst32_lo12", "ldst64_lo12"}

(* What the patched place of relocation k means at a bias.                  *)
Reached(k, bias) ==
    LET x == job.relocs[k]
        v == written[k][1]
        here == PlaceOf(x)
        S == here + v - x.addend
        word == Word(here, v, bias)
    IN CASE x.type = "abs64" /\ ~Pe -> word
         [] x.type = "abs64" /\ Pe -> Plus(Follow(word.n - bias - x.addend, bias), x.addend)
         [] x.type \in {"pc32", "plt32", "call26"} -> Follow(S, bias)
         [] x.type = "gotpcrel" -> Word(S, 0, bias)
         [] x.type = "adrp" -> Address(((here + bias) \div Page + v) * Page)
         [] x.type \in Lo12 -> Address(v)

Intended(k, bias) ==
    LET x == job.relocs[k]
        m == Meaning(x, bias)
        S == m.n + x.addend
    IN CASE x.type = "abs64" -> Plus(m, x.addend)
         [] x.type = "adrp" -> [m EXCEPT !.n = (S \div Page) * Page]
         [] x.type \in Lo12 -> [m EXCEPT !.n = S % Page]
         [] OTHER -> m

(* Known departures, each named for what the code does.                     *)
(*   - a PIE without libraries gets no dynamic relocations but is ET_DYN    *)
(*     (nylink_layout.c:260, nylink_emit_elf.c:595);                        *)
(*   - a weak symbol nobody defines is address 0 before the bias is added   *)
(*     (nylink_reloc.c:296), so a movable image finds it at its bias;       *)
(*   - AArch64 code that adds up the address of an import gets that of its  *)
(*     GOT slot (nylink_layout.c:426), and a PLT entry loads through a      *)
(*     register it has not set (nylink_reloc.c:126-131);                    *)
(*   - a PE reference to imported data by its plain name gets the slot;     *)
(*   - a definition in a section that is not loaded has address 0           *)
(*     (nylink_elf.c:330, nylink_layout.c:940).                             *)
FixedPie == job.mode = "pie" /\ ~Dynamic
BiasedZero(x) == head.movable /\ x.type # "abs64" /\ WeakUndefined(x.sym)
A64Import(x, plan) == A64 /\ plan.kind \in {"plt", "got"}
PlainData(x) == Pe /\ resolved[x.sym].dyn /\ Sym(x.sym).name[1] = "" /\ ~Sym(x.sym).func
Unloaded(x) == Static(Definition(x)) /\ ~InSection(Definition(x))
Departs(k) ==
    LET x == job.relocs[k] IN
    \/ Unloaded(x)
    \/ FixedPie /\ x.type = "abs64"
    \/ BiasedZero(x) \/ A64Import(x, PlanOf(k)) \/ PlainData(x)

(* Whatever address the image is loaded at, every relocated place reaches   *)
(* what its symbol means: the chosen definition, or through a PLT entry,    *)
(* thunk or table slot the import of that name.                             *)
BoundCorrectly ==
    pc = "done" =>
        \A k \in Relocs : written[k] # <<>> /\ ~Departs(k) =>
            \A bias \in Biases : Reached(k, bias) = Intended(k, bias)

(* The number of dynamic relocations .rela.dyn was laid out for is the      *)
(* number pushed into it: too few leave empty entries, too many stop the    *)
(* link with an internal error.                                             *)
PlannedExactly ==
    pc = "done" => Len(rela) = planned

(* The dynamic section has room for the entries the emitter writes, which   *)
(* counts them in a different file from the one that sized it.              *)
DynamicFits ==
    pc = "done" => 16 * head.dynamic <= pieces["dynamic"].file

(* The loader finds every name of .dynsym through .hash: what it visits     *)
(* from the head of the name's bucket on, any set closed under the chain,   *)
(* has the name in it, and a chain goes down, so that it ends.              *)
LookupFinds ==
    pc = "done" /\ Dynamic =>
        \A d \in DOMAIN dynsym :
            /\ \A visited \in SUBSET DOMAIN dynsym :
                  /\ hash.bucket[BucketOf(d)] \in visited
                  /\ \A c \in visited : hash.chain[c] \in visited \cup {0}
                  => d \in visited
            /\ hash.chain[d] < d

Overlap(a, la, b, lb) == a < b + lb /\ b < a + la
Needs(n) == CASE n \in {"text", "plt"} -> "x"
              [] n \in {"data", "bss", "got", "dynamic", "got_plt"} -> "w"
              [] OTHER -> "r"

(* No two pieces of the image overlap, in memory or in the file, and no two *)
(* input sections of an output section, all of which are inside it and      *)
(* after the start code.                                                    *)
NothingOverlaps ==
    pc = "done" =>
        /\ \A n, m \in PieceNames : n # m =>
              LET p == pieces[n]
                  q == pieces[m]
              IN /\ ~Overlap(p.va, p.mem, q.va, q.mem)
                 /\ ~Overlap(p.off, p.file, q.off, q.file)
        /\ \A i \in Sections :
              LET s == job.sections[i] IN
              /\ at[i] >= FirstOffset(s.kind, conf.trampoline)
              /\ at[i] + s.size <= out[s.kind].mem
              /\ \A k \in 1..(i-1) : job.sections[k].kind = s.kind =>
                    at[k] + job.sections[k].size <= at[i]

(* Each piece is mapped by one segment with the permission it needs and     *)
(* none that is both writable and executable, from the place of the file it *)
(* is written to; no two segments share a page, and input sections of an    *)
(* alignment up to a page are aligned.  The base address, which the command *)
(* line may set, has to be that of a page.                                  *)
PiecesMapped ==
    pc = "done" /\ image_base % Page = 0 =>
        LET present == {n \in PieceNames : pieces[n].mem > 0}
            inside(p, l) == l.va <= p.va /\ p.va + p.mem <= l.va + l.mem
            from(p, l) == p.file = 0 \/ (/\ p.off - l.off = p.va - l.va
                                         /\ p.off + p.file <= l.off + l.file)
            pages(l) == [at |-> (l.va \div Page) * Page,
                         len |-> AlignUp((l.va % Page) + l.mem, Page)]
        IN /\ \A n \in present :
                 /\ pieces[n].file > 0 => pieces[n].off >= (IF Pe THEN 1024 ELSE Page)
                 /\ \E l \in head.loads : /\ Needs(n) \in l.flags
                                          /\ inside(pieces[n], l) /\ from(pieces[n], l)
           /\ \A l, m \in head.loads : l # m =>
                 /\ ~Overlap(pages(l).at, pages(l).len, pages(m).at, pages(m).len)
                 /\ Pe => ~Overlap(l.off, l.file, m.off, m.file)
           /\ \A l \in head.loads : /\ ~({"w", "x"} \subseteq l.flags)
                                    /\ ~Pe => (l.va - l.off) % Page = 0
           /\ \A i \in Sections : job.sections[i].align \in 1..Page =>
                 SectionVa(i) % job.sections[i].align = 0

(* The symbol a program starts at, and where its start code leads.          *)
EntrySymbol ==
    LET main == nylink_find_symbol(IF job.entry = Unnamed THEN MainName ELSE job.entry)
    IN IF main = 0 THEN nylink_find_symbol(StartName) ELSE main
EntryVa == start.va + start.call + IF conf.trampoline /\ ~A64 THEN 5 ELSE 0

StartsAtEntry ==
    LET s == EntrySymbol IN
    /\ \/ InSection(s) /\ EntryVa = SectionVa(Sym(s).sec) + Sym(s).value
       \/ Pe /\ Sym(s).dyn /\ \E i \in Imports :
             /\ job.imports[i].name = Sym(s).name
             /\ pe.thunk[i] # None /\ EntryVa = image_base + pe.thunk[i]
    /\ conf.trampoline => \A i \in Sections :
          job.sections[i].kind = "text" => SectionVa(i) >= start.va + 16

(* The program starts at its entry point, through the start code if it has  *)
(* some, and the start code overwrites nothing.  An entry point that a DLL  *)
(* defines is reached through its thunk.                                    *)
EntryReached ==
    pc = "done" /\ job.mode \in {"executable", "pie"} => StartsAtEntry

(* An export is shifted when a table or thunk appended after its address    *)
(* was computed moved its section, when it is in .bss, which the code       *)
(* takes for .text (nylink_layout.c:553-560), and when its output section   *)
(* is empty and is not placed.                                              *)
SectionsEnd(kind) ==
    Max({0} \cup {at[i] + job.sections[i].size :
                    i \in {k \in Sections : job.sections[k].kind = kind}})

Shifted(n) ==
    LET kind == job.sections[Sym(nylink_find_symbol(n)).sec].kind IN
    \/ kind = "bss" \/ pieces[kind].mem = 0
    \/ kind \in {"rodata", "data"} /\ TextRva # AlignUp(SectionsEnd("text"), Page)
    \/ kind = "data" /\ AlignUp(out["rodata"].mem, Page)
                           # AlignUp(AlignUp(SectionsEnd("rodata"), 4), Page)

Exported == {n \in job.exports :
               nylink_find_symbol(n) # 0 /\ InSection(nylink_find_symbol(n))}
ExportIsExact(n) ==
    LET s == nylink_find_symbol(n) IN
    image_base + pe.eat[n] = SectionVa(Sym(s).sec) + Sym(s).value

(* Every export that is not shifted has its address in the export table.    *)
ExportsReached ==
    pc = "done" /\ Pe => \A n \in Exported : Shifted(n) \/ ExportIsExact(n)

(* docs/linker.md:39: a DLL has an "Export Directory Table (`.edata`),      *)
(* Export Address Table (EAT)": every exported definition is at the address *)
(* the table gives.                                                         *)
ExportsExact ==
    pc = "done" /\ Pe => \A n \in Exported : ExportIsExact(n)

(* docs/linker.md:41: PIE output has "Full ASLR compatibility on ELF64      *)
(* platforms": its absolute words mean the same wherever it is loaded.      *)
PieMoves ==
    pc = "done" /\ job.mode = "pie" =>
        \A k \in Relocs : job.relocs[k].type = "abs64" /\ written[k] # <<>> =>
            \A bias \in Biases : Reached(k, bias) = Intended(k, bias)

=============================================================================
