------------------------------- MODULE NyJit -------------------------------
(***************************************************************************)
(* The in-memory linker (src/nyjit/jit.c): nyjit_link maps pages for an    *)
(* encoded module, applies its relocations one by one, building a          *)
(* trampoline for each call that leaves the module, then protects the      *)
(* pages, records them and exports the symbols.  Several modules are       *)
(* linked into one JIT before nyjit_destroy.                               *)
(*                                                                         *)
(* An address is a section of a mapping, or a name of the host (mapping    *)
(* 0).  Bytes and offsets are left out; of a distance only whether the     *)
(* instruction can span it is kept.                                        *)
(***************************************************************************)
EXTENDS Naturals, Sequences, FiniteSets

CONSTANTS
    Name,       \* symbol names
    Encoded,    \* encoded modules that can be linked
    HostAnswer, \* HostAnswer[n]: what the symbol table or the resolver of
                \* the host may say of n: "none", or an address that is
                \* "near" or "far" from the code
    MaxLinks    \* bound: calls of nyjit_link

X86Kind == {"CALL_REL32", "GLOBAL_REL32"}
A64Kind == {"CALL26", "ADRP", "ADD_LO12", "LDST_LO12"}
SymKind == {"text", "rodata", "data", "bss"}

Symbol == [name : Name, kind : SymKind]

(* inside: the four bytes to patch lie in the code.                         *)
Reloc == [kind : X86Kind \cup A64Kind \cup {"other"}, name : Name, inside : BOOLEAN]

(* wide: the sections are too far apart for a displacement.  huge: some are *)
(* too far apart for the 21 page bits of ADRP, 4 GiB, too.                  *)
EncodedRec == [syms : Seq(Symbol), relocs : Seq(Reloc), wide : BOOLEAN, huge : BOOLEAN]

IsInternal(e, n) == \E i \in 1..Len(e.syms) : e.syms[i].name = n

ASSUME JitAssumption ==
    /\ "wild" \notin Name
    /\ Encoded \subseteq EncodedRec
    /\ HostAnswer \in [Name -> SUBSET {"none", "near", "far"}]
    /\ MaxLinks \in Nat

(* The parser makes every global that is named a global of the module, so   *)
(* the encoders never take the address of a host symbol with ADRP.          *)
ASSUME EncoderAssumption ==
    \A e \in Encoded : \A r \in 1..Len(e.relocs) :
        e.relocs[r].kind = "ADRP" => IsInternal(e, e.relocs[r].name)

(* The code of a module that takes addresses with ADRP and its globals fit  *)
(* in 4 GiB.  Nothing in the code checks this: beyond, ADRP is cut.         *)
ASSUME SizeAssumption ==
    \A e \in Encoded : \A r \in 1..Len(e.relocs) :
        e.relocs[r].kind = "ADRP" => ~e.huge

VARIABLES
    pc,         \* "idle", "reloc", "protect", "record" or "destroyed"
    links,      \* calls of nyjit_link so far; names the mapping of each
    mods,       \* mods[m]: the module linked into mapping m
    mapped,     \* mappings the operating system holds
    prot,       \* prot[m]: protection of the code pages of mapping m
    at,         \* next relocation
    room,       \* trampolines the mapping has room for
    used,       \* trampolines built
    patch,      \* patch[m][r]: address relocation r of mapping m leads to
    allocations,    \* jit->allocations
    exports,        \* jit->exports
    diags           \* diagnostics of the last call

vars == <<pc, links, mods, mapped, prot, at, room, used, patch, allocations,
          exports, diags>>

Mapping == 1..MaxLinks
NoModule == [syms |-> <<>>, relocs |-> <<>>, wide |-> FALSE, huge |-> FALSE]
Own(m, k) == [in |-> m, at |-> k]
Host(n) == [in |-> 0, at |-> n]
Wild == Host("wild")    \* not the address the relocation asks for
Address == [in : 0..MaxLinks, at : SymKind \cup Name \cup {"wild"}]
Export == [name : Name, addr : Address]

TypeOK ==
    /\ pc \in {"idle", "reloc", "protect", "record", "destroyed"}
    /\ links \in 0..MaxLinks
    /\ mods \in [Mapping -> Encoded \cup {NoModule}]
    /\ mapped \subseteq Mapping
    /\ prot \in [Mapping -> {"rw", "rx"}]
    /\ at \in Nat \ {0}
    /\ room \in Nat /\ used \in Nat
    /\ patch \in [Mapping -> Seq(Address)]
    /\ allocations \in Seq(Mapping)
    /\ exports \in Seq(Export)
    /\ diags \subseteq {"memory", "bounds", "kind", "unresolved", "exhausted",
                        "range", "protection"}

(* nyjit_create                                                             *)
Init ==
    /\ pc = "idle" /\ links = 0 /\ mods = [m \in Mapping |-> NoModule]
    /\ mapped = {} /\ prot = [m \in Mapping |-> "rw"]
    /\ at = 1 /\ room = 0 /\ used = 0
    /\ patch = [m \in Mapping |-> <<>>]
    /\ allocations = <<>> /\ exports = <<>> /\ diags = {}

-----------------------------------------------------------------------------
(* resolve_internal: the first symbol of the name.                          *)
InternalAddr(e, n, m) ==
    LET i == CHOOSE i \in 1..Len(e.syms) :
               /\ e.syms[i].name = n
               /\ \A j \in 1..(i-1) : e.syms[j].name # n
    IN Own(m, e.syms[i].kind)

IsCall(r) == r.kind \in {"CALL_REL32", "CALL26"}

(* Mutant: one trampoline for each name that is called.                     *)
ExternalNames(e) ==
    Cardinality({e.relocs[r].name : r \in
        {r \in 1..Len(e.relocs) : IsCall(e.relocs[r]) /\ ~IsInternal(e, e.relocs[r].name)}})

(* external_call_count: the call relocations that name no symbol of e.      *)
ExternalCalls(e) ==
    Cardinality({r \in 1..Len(e.relocs) :
                    IsCall(e.relocs[r]) /\ ~IsInternal(e, e.relocs[r].name)})

(* nyjit_link, up to the loop: the mapping is made or refused.              *)
BeginLink(e) ==
    /\ pc = "idle"
    /\ links < MaxLinks
    /\ links' = links + 1
    /\ mods' = [mods EXCEPT ![links'] = e]
    /\ at' = 1 /\ used' = 0
    /\ room' = ExternalCalls(e)
    /\ \/ pc' = "reloc" /\ mapped' = mapped \cup {links'} /\ diags' = {}
       \/ pc' = "idle" /\ mapped' = mapped /\ diags' = {"memory"}
    /\ UNCHANGED <<prot, patch, allocations, exports>>

(* The link fails: the pages are released.                                  *)
Release(d) ==
    /\ diags' = diags \cup {d}
    /\ mapped' = mapped \ {links}
    /\ pc' = "idle"

(* Mutant: the pages of a link that failed stay.                            *)
FailKeepsPages(d) ==
    /\ diags' = diags \cup {d} /\ pc' = "idle"
    /\ UNCHANGED <<mapped, links, mods, prot, at, room, used, patch, allocations, exports>>

FailReloc(d) ==
    /\ Release(d)
    /\ UNCHANGED <<links, mods, prot, at, room, used, patch, allocations, exports>>

(* The next relocation is patched to lead to a.                             *)
Patch(a) ==
    /\ patch' = [patch EXCEPT ![links] = Append(@, a)]
    /\ at' = at + 1
    /\ UNCHANGED <<pc, links, mods, mapped, prot, room, allocations, exports, diags>>

(* A trampoline to a, if there is room.                                     *)
ViaTrampoline(a) ==
    IF used < room THEN Patch(a) /\ used' = used + 1 ELSE FailReloc("exhausted")

(* What each kind does with an external or internal address that is near or *)
(* far.  The page of ADRP is cut to 21 bits without a check: a far address, *)
(* of the host or of the module, becomes another.  The low bits of the      *)
(* other two kinds are right at any distance, LDST_LO12's for an address    *)
(* aligned to the access (the lowering never makes one).                    *)
Apply(kind, a, external, far) ==
    CASE kind = "CALL_REL32" /\ external -> ViaTrampoline(a)
      [] kind \in X86Kind /\ ~(kind = "CALL_REL32" /\ external) ->
           IF far THEN FailReloc("range") ELSE Patch(a) /\ UNCHANGED used
      [] kind = "CALL26" ->
           IF ~far THEN Patch(a) /\ UNCHANGED used
           ELSE IF external THEN ViaTrampoline(a) ELSE FailReloc("range")
      [] kind = "ADRP" -> Patch(IF far THEN Wild ELSE a) /\ UNCHANGED used
      [] OTHER -> Patch(a) /\ UNCHANGED used

mod == mods[links]      \* the module being linked

Relocating == pc = "reloc" /\ at <= Len(mod.relocs)
Current == mod.relocs[at]

RefuseReloc ==
    /\ Relocating
    /\ \/ ~Current.inside /\ FailReloc("bounds")
       \/ Current.inside /\ Current.kind = "other" /\ FailReloc("kind")

CanApply == Relocating /\ Current.inside /\ Current.kind # "other"

(* Out of reach of the current relocation within the mapping.               *)
FarInside == IF Current.kind = "ADRP" THEN mod.huge ELSE mod.wide

RelocInternal ==
    /\ CanApply
    /\ IsInternal(mod, Current.name)
    /\ Apply(Current.kind, InternalAddr(mod, Current.name, links), FALSE, FarInside)

(* Mutant: the answer of the host is not tested for null.                   *)
RelocExternalUnchecked ==
    /\ CanApply
    /\ ~IsInternal(mod, Current.name)
    /\ \E answer \in HostAnswer[Current.name] :
         Apply(Current.kind,
               IF answer = "none" THEN Host("null") ELSE Host(Current.name),
               TRUE, answer = "far")

(* resolve_external: the host is asked once per relocation.                 *)
RelocExternal ==
    /\ CanApply
    /\ ~IsInternal(mod, Current.name)
    /\ \E answer \in HostAnswer[Current.name] :
         \/ answer = "none" /\ FailReloc("unresolved")
         \/ /\ answer # "none"
            /\ Apply(Current.kind, Host(Current.name), TRUE, answer = "far")

(* Mutant: the loop ends before the last relocation.                        *)
RelocsDoneEarly ==
    /\ pc = "reloc"
    /\ at + 1 > Len(mod.relocs)
    /\ pc' = "protect"
    /\ UNCHANGED <<links, mods, mapped, prot, at, room, used, patch,
                   allocations, exports, diags>>

RelocsDone ==
    /\ pc = "reloc"
    /\ at > Len(mod.relocs)
    /\ pc' = "protect"
    /\ UNCHANGED <<links, mods, mapped, prot, at, room, used, patch,
                   allocations, exports, diags>>

(* Mutant: the pages are recorded although protecting them failed.          *)
ProtectUnchecked ==
    /\ pc = "protect"
    /\ \/ prot' = [prot EXCEPT ![links] = "rx"] \/ UNCHANGED prot
    /\ pc' = "record"
    /\ UNCHANGED <<links, mods, mapped, at, room, used, patch, allocations, exports, diags>>

(* protect_pages on the code; for read-only data the result is not used.    *)
(* A module without code skips the call: it has no page left writable.      *)
ProtectText ==
    /\ pc = "protect"
    /\ \/ /\ prot' = [prot EXCEPT ![links] = "rx"]
          /\ pc' = "record"
          /\ UNCHANGED <<mapped, diags>>
       \/ Release("protection") /\ UNCHANGED prot
    /\ UNCHANGED <<links, mods, at, room, used, patch, allocations, exports>>

(* The mapping is recorded and every symbol of the module exported.         *)
RecordAndExport ==
    /\ pc = "record"
    /\ allocations' = Append(allocations, links)
    /\ exports' = exports \o
         [i \in 1..Len(mod.syms) |->
            [name |-> mod.syms[i].name, addr |-> Own(links, mod.syms[i].kind)]]
    /\ pc' = "idle"
    /\ UNCHANGED <<links, mods, mapped, prot, at, room, used, patch, diags>>

(* nyjit_destroy between two calls of nyjit_link.                           *)
nyjit_destroy ==
    /\ pc = "idle"
    /\ mapped' = mapped \ {allocations[i] : i \in 1..Len(allocations)}
    /\ allocations' = <<>> /\ exports' = <<>>
    /\ pc' = "destroyed"
    /\ UNCHANGED <<links, mods, prot, at, room, used, patch, diags>>

Destroyed == pc = "destroyed" /\ UNCHANGED vars

Next ==
    \/ \E e \in Encoded : BeginLink(e)
    \/ RefuseReloc \/ RelocInternal \/ RelocExternal \/ RelocsDone
    \/ ProtectText \/ RecordAndExport
    \/ nyjit_destroy \/ Destroyed

Spec == Init /\ [][Next]_vars

-----------------------------------------------------------------------------
(* Properties                                                               *)

Recorded == {allocations[i] : i \in 1..Len(allocations)}

(* README.md: "zero memory leaks".  Between calls the operating system      *)
(* holds exactly the mappings nyjit_destroy will release, whichever         *)
(* relocation, allocation or protection failed before; after it, none.      *)
NoLeak ==
    /\ pc = "idle" => mapped = Recorded
    /\ pc = "destroyed" => mapped = {}

(* Counting the calls before the loop is enough: the room for trampolines   *)
(* is never exhausted, however the host answers.                            *)
TrampolinesSuffice == "exhausted" \notin diags

(* The address relocation r of mapping m asks for.                          *)
Wanted(m, r) ==
    LET n == mods[m].relocs[r].name
    IN IF IsInternal(mods[m], n) THEN InternalAddr(mods[m], n, m) ELSE Host(n)

(* What nyjit_lookup can return is usable: the mapping is there, its code   *)
(* is executable and no longer writable, and every relocation of the module *)
(* leads to the symbol it names, in the module or in the host.              *)
ExportsUsable ==
    \A i \in 1..Len(exports) :
        LET m == exports[i].addr.in IN
        /\ m \in mapped /\ prot[m] = "rx"
        /\ Len(patch[m]) = Len(mods[m].relocs)
        /\ \A r \in 1..Len(patch[m]) : patch[m][r] = Wanted(m, r)

(* The modules of the library: the recorded mappings in order.              *)
Loaded ==
    [i \in 1..Len(allocations) |->
        [id |-> allocations[i], module |-> mods[allocations[i]],
         targets |-> patch[allocations[i]]]]

Library == INSTANCE JitLibrary WITH open <- (pc # "destroyed"), loaded <- Loaded

(* nyjit_link is indivisible for the host: a link that fails, at whichever  *)
(* of its steps, leaves lookups as they were; one that succeeds adds all    *)
(* symbols of its module at once, with every relocation bound, and no later *)
(* link changes what an earlier one bound.                                  *)
LinksAreAtomic == Library!LibSpec

=============================================================================
