---------------------------- MODULE NyJitProofs ----------------------------
(***************************************************************************)
(* Proofs about NyJit, for any names, modules, host and number of links.   *)
(*                                                                         *)
(* The invariant of a link in progress: its mapping is held and not yet    *)
(* recorded, the relocations before the cursor lead to their symbols, and  *)
(* no more trampolines were built than external calls were passed.  With   *)
(* it NyJit implements JitLibrary, which adds a module in one step.        *)
(***************************************************************************)
EXTENDS NyJit, FiniteSetTheorems, WellFoundedInduction, TLAPS

Linking == pc \in {"reloc", "protect", "record"}

(* The external calls among the first k - 1 relocations of e.               *)
ExtBefore(e, k) ==
    {r \in 1..Len(e.relocs) :
        r < k /\ IsCall(e.relocs[r]) /\ ~IsInternal(e, e.relocs[r].name)}

-----------------------------------------------------------------------------
(* What one relocation can do                                               *)

Applied(a) == Patch(a) /\ UNCHANGED used
Trampolined(a) == Patch(a) /\ used < room /\ used' = used + 1
IsExternalCall == IsCall(Current) /\ ~IsInternal(mod, Current.name)

(* Apply patches the address it is given, except for ADRP on a far address, *)
(* or fails; only external calls use or exhaust trampolines.                *)
LEMMA ApplyOutcome ==
    ASSUME NEW kind \in X86Kind \cup A64Kind, NEW a,
           NEW external \in BOOLEAN, NEW far \in BOOLEAN,
           Apply(kind, a, external, far)
    PROVE  \/ Applied(a)
           \/ kind = "ADRP" /\ far
           \/ external /\ kind \in {"CALL_REL32", "CALL26"} /\ Trampolined(a)
           \/ FailReloc("range")
           \/ /\ external /\ kind \in {"CALL_REL32", "CALL26"}
              /\ ~(used < room) /\ FailReloc("exhausted")
<1>1. CASE kind = "CALL_REL32"
  BY <1>1 DEF Apply, ViaTrampoline, Applied, Trampolined, X86Kind, A64Kind
<1>2. CASE kind = "GLOBAL_REL32"
  BY <1>2 DEF Apply, ViaTrampoline, Applied, Trampolined, X86Kind, A64Kind
<1>3. CASE kind = "CALL26"
  BY <1>3 DEF Apply, ViaTrampoline, Applied, Trampolined, X86Kind, A64Kind
<1>4. CASE kind = "ADRP"
  BY <1>4 DEF Apply, ViaTrampoline, Applied, Trampolined, X86Kind, A64Kind
<1>5. CASE kind \in {"ADD_LO12", "LDST_LO12"}
  BY <1>5 DEF Apply, ViaTrampoline, Applied, Trampolined, X86Kind, A64Kind
<1> QED
  BY <1>1, <1>2, <1>3, <1>4, <1>5 DEF X86Kind, A64Kind

(* The module of the link in progress is one of Encoded, and its mapping is *)
(* one of Mapping.                                                          *)
LinkType ==
    /\ links \in 0..MaxLinks
    /\ Linking => links \in Mapping /\ mods[links] \in Encoded
    /\ mods \in [Mapping -> Encoded \cup {NoModule}]
    /\ at \in Nat \ {0}

LEMMA CurrentType ==
    ASSUME LinkType, CanApply
    PROVE  /\ links \in Mapping /\ mod \in Encoded
           /\ at \in 1..Len(mod.relocs)
           /\ Current \in Reloc
           /\ Current.kind \in X86Kind \cup A64Kind
           /\ mod \in EncodedRec
<1>1. links \in Mapping /\ mod \in Encoded
  BY DEF LinkType, CanApply, Relocating, Linking, mod
<1>2. mod \in EncodedRec
  BY <1>1, JitAssumption
<1>3. mod.relocs \in Seq(Reloc)
  BY <1>2 DEF EncodedRec
<1>4. at \in 1..Len(mod.relocs)
  BY <1>3 DEF LinkType, CanApply, Relocating
<1>5. Current \in Reloc
  BY <1>3, <1>4 DEF Current
<1> QED
  BY <1>1, <1>2, <1>4, <1>5 DEF CanApply, Reloc

(* A relocation step, whatever the host answers: the cursor moves past a    *)
(* relocation that leads to the symbol it names, or the link fails.         *)
LEMMA RelocOutcome ==
    ASSUME LinkType, RelocInternal \/ RelocExternal
    PROVE  \/ Applied(Wanted(links, at))
           \/ IsExternalCall /\ Trampolined(Wanted(links, at))
           \/ FailReloc("range")
           \/ FailReloc("unresolved")
           \/ IsExternalCall /\ ~(used < room) /\ FailReloc("exhausted")
<1>0. CanApply
  BY DEF RelocInternal, RelocExternal
<1>1. /\ links \in Mapping /\ mod \in Encoded
      /\ at \in 1..Len(mod.relocs)
      /\ Current \in Reloc
      /\ Current.kind \in X86Kind \cup A64Kind
      /\ mod \in EncodedRec
  BY <1>0, CurrentType
<1>2. Wanted(links, at) = IF IsInternal(mod, Current.name)
                          THEN InternalAddr(mod, Current.name, links)
                          ELSE Host(Current.name)
  BY DEF Wanted, mod, Current
<1>3. IsCall(Current) <=> Current.kind \in {"CALL_REL32", "CALL26"}
  BY DEF IsCall
<1>4. CASE RelocInternal
  <2>1. /\ IsInternal(mod, Current.name)
        /\ Apply(Current.kind, InternalAddr(mod, Current.name, links), FALSE, FarInside)
    BY <1>4 DEF RelocInternal
  <2>2. FarInside \in BOOLEAN
    BY <1>1 DEF EncodedRec, FarInside
  <2>4. ~(Current.kind = "ADRP" /\ FarInside)
    BY <1>1, SizeAssumption DEF Current, FarInside
  <2>3. \/ Applied(InternalAddr(mod, Current.name, links))
        \/ FailReloc("range")
    BY <1>1, <2>1, <2>2, <2>4, ApplyOutcome
  <2> QED
    BY <1>2, <2>1, <2>3
<1>5. CASE RelocExternal
  <2>1. PICK answer \in HostAnswer[Current.name] :
          \/ answer = "none" /\ FailReloc("unresolved")
          \/ answer # "none" /\ Apply(Current.kind, Host(Current.name), TRUE, answer = "far")
    BY <1>5 DEF RelocExternal
  <2>2. ~IsInternal(mod, Current.name)
    BY <1>5 DEF RelocExternal
  <2>3. Current.kind # "ADRP"
    BY <1>1, <2>2, EncoderAssumption DEF Current
  <2>4. CASE answer # "none" /\ Apply(Current.kind, Host(Current.name), TRUE, answer = "far")
    <3>1. \/ Applied(Host(Current.name))
          \/ Current.kind = "ADRP"
          \/ Current.kind \in {"CALL_REL32", "CALL26"} /\ Trampolined(Host(Current.name))
          \/ FailReloc("range")
          \/ /\ Current.kind \in {"CALL_REL32", "CALL26"}
             /\ ~(used < room) /\ FailReloc("exhausted")
      BY <1>1, <2>4, ApplyOutcome
    <3> QED
      BY <1>2, <1>3, <2>2, <2>3, <3>1 DEF IsExternalCall
  <2> QED
    BY <2>1, <2>4
<1> QED
  BY <1>4, <1>5


(* A relocation is passed, a link is given up, or the trampolines run out.  *)
PatchStep ==
    /\ CanApply
    /\ Patch(Wanted(links, at))
    /\ UNCHANGED used \/ (IsExternalCall /\ used < room /\ used' = used + 1)
FailStep ==
    /\ pc = "reloc"
    /\ \E d \in {"bounds", "kind", "unresolved", "range"} : FailReloc(d)
ExhaustedStep ==
    CanApply /\ IsExternalCall /\ ~(used < room) /\ FailReloc("exhausted")

LEMMA RelocStep ==
    ASSUME LinkType, RefuseReloc \/ RelocInternal \/ RelocExternal
    PROVE  PatchStep \/ FailStep \/ ExhaustedStep
<1>1. CASE RefuseReloc
  BY <1>1 DEF RefuseReloc, Relocating, FailStep
<1>2. CASE RelocInternal \/ RelocExternal
  <2>1. CanApply /\ pc = "reloc"
    BY <1>2 DEF RelocInternal, RelocExternal, CanApply, Relocating
  <2> QED
    BY <1>2, <2>1, RelocOutcome
    DEF PatchStep, FailStep, ExhaustedStep, Applied, Trampolined
<1> QED
  BY <1>1, <1>2

-----------------------------------------------------------------------------
(* Types                                                                    *)

(* The least index of a symbol exists, so InternalAddr is an address.       *)
LEMMA InternalAddrType ==
    ASSUME NEW e \in EncodedRec, NEW n, IsInternal(e, n), NEW m \in Mapping
    PROVE  InternalAddr(e, n, m) \in Address
<1> DEFINE T == {i \in 1..Len(e.syms) : e.syms[i].name = n}
<1>1. e.syms \in Seq(Symbol)
  BY DEF EncodedRec
<1>2. \A k \in 1..Len(e.syms) : e.syms[k] \in Symbol
  BY <1>1
<1>3. \A k \in 1..Len(e.syms) : Own(m, e.syms[k].kind) \in Address
  BY <1>2, JitAssumption DEF Own, Address, Symbol, Mapping
<1>4. T \subseteq Nat /\ T # {}
  BY <1>1 DEF IsInternal
<1>5. PICK i \in T : \A j \in T : ~(<<j, i>> \in OpToRel(<, Nat))
  <2> HIDE DEF T
  <2> QED
    BY <1>4, WFMin, NatLessThanWellFounded
<1>6. \A j \in T : ~(j < i)
  BY <1>4, <1>5 DEF OpToRel
<1>7. /\ i \in 1..Len(e.syms)
      /\ e.syms[i].name = n
      /\ \A j \in 1..(i-1) : e.syms[j].name # n
  BY <1>1, <1>6
<1> DEFINE P(k) == /\ e.syms[k].name = n
                   /\ \A j \in 1..(k-1) : e.syms[j].name # n
           c == CHOOSE k \in 1..Len(e.syms) : P(k)
<1>8. c \in 1..Len(e.syms)
  <2>1. \E k \in 1..Len(e.syms) : P(k)
    BY <1>7
  <2> HIDE DEF P
  <2> QED
    BY <2>1
<1>9. InternalAddr(e, n, m) = Own(m, e.syms[c].kind)
  BY DEF InternalAddr
<1> HIDE DEF c, P
<1> QED
  BY <1>3, <1>8, <1>9, Zenon

LEMMA WantedType ==
    ASSUME LinkType, CanApply
    PROVE  Wanted(links, at) \in Address
<1>1. /\ links \in Mapping
      /\ Current \in Reloc
      /\ mod \in EncodedRec
  BY CurrentType
<1>2. Current.name \in Name
  BY <1>1 DEF Reloc
<1>3. CASE IsInternal(mod, Current.name)
  <2>1. Wanted(links, at) = InternalAddr(mod, Current.name, links)
    BY <1>3 DEF Wanted, mod, Current
  <2> QED
    BY <1>1, <1>3, <2>1, InternalAddrType
<1>4. CASE ~IsInternal(mod, Current.name)
  <2>1. Wanted(links, at) = Host(Current.name)
    BY <1>4 DEF Wanted, mod, Current
  <2> QED
    BY <1>2, <2>1, JitAssumption DEF Host, Address
<1> QED
  BY <1>3, <1>4

(* The external calls are finitely many, and those before the cursor are    *)
(* among them.                                                              *)
LEMMA ExtBeforeFacts ==
    ASSUME NEW e, e.relocs \in Seq(Reloc), NEW k \in Nat
    PROVE  /\ ExternalCalls(e) \in Nat
           /\ IsFiniteSet(ExtBefore(e, k))
           /\ Cardinality(ExtBefore(e, k)) \in Nat
           /\ Cardinality(ExtBefore(e, k)) <= ExternalCalls(e)
<1> DEFINE Calls == {r \in 1..Len(e.relocs) :
                        IsCall(e.relocs[r]) /\ ~IsInternal(e, e.relocs[r].name)}
<1>1. Len(e.relocs) \in Int /\ 1 \in Int
  OBVIOUS
<1>2. IsFiniteSet(1..Len(e.relocs))
  <2> DEFINE n == Len(e.relocs)
  <2> HIDE DEF n
  <2> QED
    BY <1>1, FS_Interval DEF n
<1>3. Calls \in SUBSET (1..Len(e.relocs))
  OBVIOUS
<1>4. ExtBefore(e, k) \in SUBSET Calls
  BY DEF ExtBefore
<1>5. ExternalCalls(e) = Cardinality(Calls)
  BY DEF ExternalCalls
<1> HIDE DEF Calls
<1>6. IsFiniteSet(Calls)
  BY <1>2, <1>3, FS_Subset, Zenon
<1>7. /\ IsFiniteSet(ExtBefore(e, k))
      /\ Cardinality(ExtBefore(e, k)) <= Cardinality(Calls)
  BY <1>4, <1>6, FS_Subset, Zenon
<1>8. Cardinality(Calls) \in Nat /\ Cardinality(ExtBefore(e, k)) \in Nat
  BY <1>6, <1>7, FS_CardinalityType, Zenon
<1> QED
  BY <1>5, <1>7, <1>8

TypeInv ==
    /\ TypeOK
    /\ Linking => links \in Mapping /\ mods[links] \in Encoded

LEMMA LinkTypeHolds ==
    ASSUME TypeInv
    PROVE  LinkType
  BY DEF TypeInv, TypeOK, LinkType

(* The symbols of the module being linked are exported with addresses.      *)
LEMMA ExportsType ==
    ASSUME TypeInv, Linking
    PROVE  /\ mod.syms \in Seq(Symbol)
           /\ [i \in 1..Len(mod.syms) |->
                 [name |-> mod.syms[i].name, addr |-> Own(links, mod.syms[i].kind)]]
              \in Seq(Export)
<1>1. mod \in EncodedRec /\ links \in Mapping
  BY JitAssumption DEF TypeInv, mod
<1>2. mod.syms \in Seq(Symbol)
  BY <1>1 DEF EncodedRec
<1>3. links \in 0..MaxLinks
  BY <1>1, JitAssumption DEF Mapping
<1>4. ASSUME NEW i \in 1..Len(mod.syms)
      PROVE  [name |-> mod.syms[i].name, addr |-> Own(links, mod.syms[i].kind)] \in Export
  <2>1. mod.syms[i] \in Symbol
    BY <1>2
  <2>2. Own(links, mod.syms[i].kind) \in Address
    BY <1>3, <2>1 DEF Symbol, Own, Address
  <2> QED
    BY <2>1, <2>2 DEF Symbol, Export
<1>5. Len(mod.syms) \in Nat
  BY <1>2
<1> DEFINE entry(i) == [name |-> mod.syms[i].name, addr |-> Own(links, mod.syms[i].kind)]
<1>6. \A i \in 1..Len(mod.syms) : entry(i) \in Export
  BY <1>4
<1>7. [i \in 1..Len(mod.syms) |-> entry(i)] \in Seq(Export)
  <2> HIDE DEF entry
  <2> QED
    BY <1>5, <1>6
<1> QED
  BY <1>2, <1>7

(* Every state of NyJit has the types TypeOK gives its variables: no        *)
(* relocation is patched with something that is not an address.             *)
LEMMA TypeInvCorrect == Spec => []TypeInv
<1>1. Init => TypeInv
  BY JitAssumption DEF Init, TypeInv, TypeOK, Linking, Mapping
<1>2. TypeInv /\ [Next]_vars => TypeInv'
  <2> SUFFICES ASSUME TypeInv, [Next]_vars
               PROVE  TypeInv'
    OBVIOUS
  <2>0. LinkType
    BY LinkTypeHolds
  <2>1. ASSUME NEW e \in Encoded, BeginLink(e)
        PROVE  TypeInv'
    <3>1. links' \in Mapping /\ links' \in 0..MaxLinks
      BY <2>1, JitAssumption DEF TypeInv, TypeOK, BeginLink, Mapping
    <3>2. e \in EncodedRec
      BY JitAssumption
    <3>3. e.relocs \in Seq(Reloc)
      BY <3>2 DEF EncodedRec
    <3>4. ExternalCalls(e) \in Nat
      BY <3>3, ExtBeforeFacts
    <3>5. mods' \in [Mapping -> Encoded \cup {NoModule}] /\ mods'[links'] = e
      <4>1. mods \in [Mapping -> Encoded \cup {NoModule}]
        BY DEF TypeInv, TypeOK
      <4>2. mods' = [mods EXCEPT ![links'] = e]
        BY <2>1 DEF BeginLink
      <4> QED
        BY <3>1, <4>1, <4>2, Zenon
    <3>6. /\ pc' \in {"idle", "reloc"} /\ at' = 1 /\ used' = 0
          /\ room' = ExternalCalls(e)
          /\ UNCHANGED <<prot, patch, allocations, exports>>
          /\ diags' \in {{}, {"memory"}}
      BY <2>1, Zenon DEF BeginLink
    <3>7. mapped' \subseteq Mapping
      BY <2>1, <3>1 DEF TypeInv, TypeOK, BeginLink
    <3>8. TypeOK'
      BY <3>1, <3>4, <3>5, <3>6, <3>7 DEF TypeInv, TypeOK
    <3> QED
      BY <3>1, <3>5, <3>8 DEF TypeInv
  <2>2. CASE PatchStep
    <3>1. /\ links \in Mapping
          /\ Wanted(links, at) \in Address
      BY <2>0, <2>2, WantedType, CurrentType DEF PatchStep
    <3>2. patch' \in [Mapping -> Seq(Address)]
      BY <2>2, <3>1 DEF PatchStep, Patch, TypeInv, TypeOK
    <3> QED
      BY <2>2, <3>2 DEF PatchStep, Patch, TypeInv, TypeOK, Linking
  <2>3. CASE FailStep
    BY <2>3 DEF FailStep, FailReloc, Release, TypeInv, TypeOK, Linking
  <2>4. CASE ExhaustedStep
    BY <2>4 DEF ExhaustedStep, FailReloc, Release, TypeInv, TypeOK, Linking
  <2>5. CASE RelocsDone
    BY <2>5 DEF RelocsDone, TypeInv, TypeOK, Linking
  <2>6. CASE ProtectText
    BY <2>6 DEF ProtectText, Release, TypeInv, TypeOK, Linking
  <2>7. CASE RecordAndExport
    <3>1. Linking
      BY <2>7 DEF RecordAndExport, Linking
    <3>2. exports' \in Seq(Export) /\ allocations' \in Seq(Mapping)
      BY <2>7, <3>1, ExportsType DEF RecordAndExport, TypeInv, TypeOK
    <3> QED
      BY <2>7, <3>2 DEF RecordAndExport, TypeInv, TypeOK, Linking
  <2>8. CASE nyjit_destroy
    BY <2>8 DEF nyjit_destroy, TypeInv, TypeOK, Linking
  <2>9. CASE UNCHANGED vars
    BY <2>9 DEF vars, TypeInv, TypeOK, Linking
  <2> QED
    BY <2>0, <2>1, <2>2, <2>3, <2>4, <2>5, <2>6, <2>7, <2>8, <2>9, RelocStep
    DEF Next, Destroyed
<1> QED
  BY <1>1, <1>2, PTL DEF Spec

(* Types: a relocation is never patched with the null the host may answer.  *)
THEOREM TypeCorrect == Spec => []TypeOK
<1>1. TypeInv => TypeOK
  BY DEF TypeInv
<1> QED
  BY <1>1, TypeInvCorrect, PTL

-----------------------------------------------------------------------------
(* Pages                                                                    *)

(* Held pages are the recorded ones and those of the link in progress,      *)
(* which is newer than all that are recorded.                               *)
PagesInv ==
    /\ Recorded \subseteq 1..links
    /\ Linking => links \notin Recorded
    /\ pc # "destroyed" => mapped = Recorded \cup (IF Linking THEN {links} ELSE {})
    /\ pc = "destroyed" => mapped = {} /\ Recorded = {}

(* Recording the link in progress adds its mapping and no other.            *)
LEMMA RecordedGrows ==
    ASSUME TypeInv, RecordAndExport
    PROVE  Recorded' = Recorded \cup {links}
<1>1. allocations \in Seq(Mapping) /\ allocations' = Append(allocations, links)
  BY DEF TypeInv, TypeOK, RecordAndExport
<1>2. links \in Mapping
  BY DEF TypeInv, RecordAndExport, Linking
<1>3. Len(allocations') = Len(allocations) + 1 /\ Len(allocations) \in Nat
  BY <1>1, <1>2
<1>4. \A i \in 1..Len(allocations) : allocations'[i] = allocations[i]
  BY <1>1, <1>2
<1>5. allocations'[Len(allocations')] = links
  BY <1>1, <1>2
<1>6. 1..Len(allocations') = (1..Len(allocations)) \cup {Len(allocations')}
  BY <1>3
<1> QED
  BY <1>4, <1>5, <1>6, Zenon DEF Recorded

(* After a failed relocation, allocation or protection the pages of the     *)
(* link are gone, and nyjit_destroy releases all the others.                *)
LEMMA PagesInvCorrect == Spec => []PagesInv
<1>1. Init => PagesInv
  BY DEF Init, PagesInv, Recorded, Linking
<1>2. TypeInv /\ PagesInv /\ [Next]_vars => PagesInv'
  <2> SUFFICES ASSUME TypeInv, PagesInv, [Next]_vars
               PROVE  PagesInv'
    OBVIOUS
  <2>0. LinkType /\ links \in Nat
    BY LinkTypeHolds, JitAssumption DEF TypeInv, TypeOK
  <2>1. ASSUME NEW e \in Encoded, BeginLink(e)
        PROVE  PagesInv'
    <3>1. Recorded' = Recorded /\ links' = links + 1 /\ pc = "idle"
      BY <2>1 DEF BeginLink, Recorded
    <3>2. links' \notin Recorded /\ Recorded \subseteq 1..links'
      BY <2>0, <3>1 DEF PagesInv
    <3> QED
      BY <2>1, <3>1, <3>2 DEF BeginLink, PagesInv, Linking
  <2>2. CASE PatchStep
    <3>1. UNCHANGED <<pc, links, mapped, allocations>>
      BY <2>2 DEF PatchStep, Patch
    <3> QED
      BY <3>1 DEF PagesInv, Recorded, Linking
  <2>3. CASE FailStep \/ ExhaustedStep
    <3>1. /\ pc = "reloc" /\ pc' = "idle" /\ mapped' = mapped \ {links}
          /\ UNCHANGED <<links, allocations>>
      BY <2>3 DEF FailStep, ExhaustedStep, CanApply, Relocating, FailReloc, Release
    <3> QED
      BY <3>1 DEF PagesInv, Recorded, Linking
  <2>4. CASE RelocsDone
    BY <2>4 DEF RelocsDone, PagesInv, Recorded, Linking
  <2>5. CASE ProtectText
    BY <2>5 DEF ProtectText, Release, PagesInv, Recorded, Linking
  <2>6. CASE RecordAndExport
    <3>1. Recorded' = Recorded \cup {links}
      BY <2>6, RecordedGrows
    <3>2. links \in 1..links
      BY <2>6 DEF RecordAndExport, TypeInv, Linking, Mapping
    <3>3. pc = "record" /\ pc' = "idle" /\ UNCHANGED <<links, mapped>>
      BY <2>6 DEF RecordAndExport
    <3> QED
      BY <3>1, <3>2, <3>3 DEF PagesInv, Linking
  <2>7. CASE nyjit_destroy
    <3>1. pc = "idle" /\ pc' = "destroyed" /\ mapped' = mapped \ Recorded /\ links' = links
      BY <2>7 DEF nyjit_destroy, Recorded
    <3>2. Recorded' = {}
      BY <2>7 DEF nyjit_destroy, Recorded
    <3> QED
      BY <3>1, <3>2 DEF PagesInv, Linking
  <2>8. CASE UNCHANGED vars
    BY <2>8 DEF vars, PagesInv, Recorded, Linking
  <2> QED
    BY <2>0, <2>1, <2>2, <2>3, <2>4, <2>5, <2>6, <2>7, <2>8, RelocStep
    DEF Next, Destroyed
<1> QED
  BY <1>1, <1>2, TypeInvCorrect, PTL DEF Spec

(* Between calls the held pages are exactly the recorded ones, and none is  *)
(* held after nyjit_destroy, wherever earlier links failed.                 *)
THEOREM NoLeakCorrect == Spec => []NoLeak
<1>1. PagesInv => NoLeak
  BY DEF PagesInv, NoLeak, Linking
<1> QED
  BY <1>1, PagesInvCorrect, PTL

-----------------------------------------------------------------------------
(* Trampolines                                                              *)

(* The room is the count made before the loop, and no more trampolines are  *)
(* built than external calls were passed.                                   *)
TrampolineInv ==
    /\ pc = "reloc" => /\ room = ExternalCalls(mod)
                       /\ used <= Cardinality(ExtBefore(mod, at))
    /\ TrampolinesSuffice

(* At an external call the calls before it are fewer than all of them.      *)
LEMMA ExtBeforeGrows ==
    ASSUME TypeInv, CanApply
    PROVE  /\ Cardinality(ExtBefore(mod, at)) \in Nat
           /\ Cardinality(ExtBefore(mod, at + 1)) \in Nat
           /\ Cardinality(ExtBefore(mod, at)) <= Cardinality(ExtBefore(mod, at + 1))
           /\ Cardinality(ExtBefore(mod, at + 1)) <= ExternalCalls(mod)
           /\ ExternalCalls(mod) \in Nat
           /\ IsExternalCall =>
                Cardinality(ExtBefore(mod, at + 1)) = Cardinality(ExtBefore(mod, at)) + 1
<1>1. mod \in EncodedRec /\ at \in 1..Len(mod.relocs)
  BY LinkTypeHolds, CurrentType
<1>2. mod.relocs \in Seq(Reloc) /\ at \in Nat /\ at + 1 \in Nat
  BY <1>1 DEF EncodedRec
<1>3. /\ IsFiniteSet(ExtBefore(mod, at)) /\ IsFiniteSet(ExtBefore(mod, at + 1))
      /\ Cardinality(ExtBefore(mod, at)) \in Nat
      /\ Cardinality(ExtBefore(mod, at + 1)) \in Nat
      /\ Cardinality(ExtBefore(mod, at + 1)) <= ExternalCalls(mod)
      /\ ExternalCalls(mod) \in Nat
  BY <1>2, ExtBeforeFacts
<1>4. Cardinality(ExtBefore(mod, at)) <= Cardinality(ExtBefore(mod, at + 1))
  <2>1. ExtBefore(mod, at) \in SUBSET ExtBefore(mod, at + 1)
    BY <1>2 DEF ExtBefore
  <2> QED
    BY <1>3, <2>1, FS_Subset, Zenon
<1>5. ASSUME IsExternalCall
      PROVE  Cardinality(ExtBefore(mod, at + 1)) = Cardinality(ExtBefore(mod, at)) + 1
  <2>1. ExtBefore(mod, at + 1) = ExtBefore(mod, at) \cup {at}
    BY <1>1, <1>2, <1>5 DEF ExtBefore, IsExternalCall, Current
  <2>2. at \notin ExtBefore(mod, at)
    BY <1>2 DEF ExtBefore
  <2> QED
    BY <1>3, <2>1, <2>2, FS_AddElement, Zenon
<1> QED
  BY <1>3, <1>4, <1>5

(* Counting the external calls before the loop reserves enough.             *)
LEMMA TrampolineInvCorrect == Spec => []TrampolineInv
<1>1. Init => TrampolineInv
  BY DEF Init, TrampolineInv, TrampolinesSuffice
<1>2. TypeInv /\ TrampolineInv /\ [Next]_vars => TrampolineInv'
  <2> SUFFICES ASSUME TypeInv, TrampolineInv, [Next]_vars
               PROVE  TrampolineInv'
    OBVIOUS
  <2>0. LinkType /\ used \in Nat
    BY LinkTypeHolds DEF TypeInv, TypeOK
  <2>1. ASSUME NEW e \in Encoded, BeginLink(e)
        PROVE  TrampolineInv'
    <3>1. links' \in Mapping
      BY <2>1, JitAssumption DEF TypeInv, TypeOK, BeginLink, Mapping
    <3>2. mod' = e
      BY <2>1, <3>1, Zenon DEF BeginLink, TypeInv, TypeOK, mod
    <3>3. e \in EncodedRec
      BY JitAssumption
    <3>4. Cardinality(ExtBefore(e, 1)) \in Nat
      BY <3>3, ExtBeforeFacts DEF EncodedRec
    <3>5. room' = ExternalCalls(mod') /\ used' <= Cardinality(ExtBefore(mod', at'))
      BY <2>1, <3>2, <3>4 DEF BeginLink
    <3>6. "exhausted" \notin diags'
      BY <2>1 DEF BeginLink
    <3> QED
      BY <3>5, <3>6 DEF TrampolineInv, TrampolinesSuffice
  <2>2. CASE PatchStep
    <3>1. /\ pc = "reloc" /\ UNCHANGED <<pc, mod, room, diags>> /\ at' = at + 1
      BY <2>2 DEF PatchStep, Patch, CanApply, Relocating, mod
    <3>2. /\ used' = used \/ (IsExternalCall /\ used' = used + 1)
          /\ CanApply
      BY <2>2 DEF PatchStep
    <3>3. used' <= Cardinality(ExtBefore(mod, at + 1))
      BY <2>0, <3>1, <3>2, ExtBeforeGrows DEF TrampolineInv
    <3> QED
      BY <3>1, <3>3 DEF TrampolineInv, TrampolinesSuffice
  <2>3. CASE FailStep
    BY <2>3 DEF FailStep, FailReloc, Release, TrampolineInv, TrampolinesSuffice
  <2>4. CASE ExhaustedStep
    <3>1. CanApply /\ IsExternalCall /\ ~(used < room) /\ pc = "reloc"
      BY <2>4 DEF ExhaustedStep, CanApply, Relocating
    <3>2. used < room
      BY <2>0, <3>1, ExtBeforeGrows DEF TrampolineInv
    <3> QED
      BY <3>1, <3>2
  <2>5. CASE RelocsDone
    BY <2>5 DEF RelocsDone, TrampolineInv, TrampolinesSuffice
  <2>6. CASE ProtectText
    BY <2>6 DEF ProtectText, Release, TrampolineInv, TrampolinesSuffice
  <2>7. CASE RecordAndExport
    BY <2>7 DEF RecordAndExport, TrampolineInv, TrampolinesSuffice
  <2>8. CASE nyjit_destroy
    BY <2>8 DEF nyjit_destroy, TrampolineInv, TrampolinesSuffice
  <2>9. CASE UNCHANGED vars
    BY <2>9 DEF vars, TrampolineInv, TrampolinesSuffice, mod
  <2> QED
    BY <2>0, <2>1, <2>2, <2>3, <2>4, <2>5, <2>6, <2>7, <2>8, <2>9, RelocStep
    DEF Next, Destroyed
<1> QED
  BY <1>1, <1>2, TypeInvCorrect, PTL DEF Spec

(* However the host answers, the trampolines never run out.                 *)
THEOREM TrampolinesSufficeCorrect == Spec => []TrampolinesSuffice
<1>1. TrampolineInv => TrampolinesSuffice
  BY DEF TrampolineInv
<1> QED
  BY <1>1, TrampolineInvCorrect, PTL

-----------------------------------------------------------------------------
(* Exports                                                                  *)

(* Every relocation of mapping m leads to the symbol it names.              *)
Relocated(m) ==
    /\ Len(patch[m]) = Len(mods[m].relocs)
    /\ \A r \in 1..Len(patch[m]) : patch[m][r] = Wanted(m, r)

(* The relocations before the cursor are patched, the mappings to come are  *)
(* blank, recorded mappings are complete, and only those are exported.      *)
PatchInv ==
    /\ \A m \in Mapping : m > links => patch[m] = <<>>
    /\ pc = "reloc" => /\ Len(patch[links]) = at - 1
                       /\ at - 1 <= Len(mod.relocs)
                       /\ \A r \in 1..(at - 1) : patch[links][r] = Wanted(links, r)
    /\ pc \in {"protect", "record"} => Relocated(links)
    /\ pc = "record" => prot[links] = "rx"
    /\ \A m \in Recorded : prot[m] = "rx" /\ Relocated(m)
    /\ \A i \in 1..Len(exports) : exports[i].addr.in \in Recorded

(* A mapping keeps its relocations when neither it nor its module changes.  *)
LEMMA RelocatedKept ==
    ASSUME NEW m, Relocated(m), patch'[m] = patch[m], mods'[m] = mods[m]
    PROVE  Relocated(m)'
  BY DEF Relocated, Wanted

LEMMA PatchInvCorrect == Spec => []PatchInv
<1>1. Init => PatchInv
  BY DEF Init, PatchInv, Recorded
<1>2. TypeInv /\ PagesInv /\ PatchInv /\ [Next]_vars => PatchInv'
  <2> SUFFICES ASSUME TypeInv, PagesInv, PatchInv, [Next]_vars
               PROVE  PatchInv'
    OBVIOUS
  <2>0. /\ LinkType /\ links \in Nat /\ at \in Nat
        /\ Recorded \subseteq Mapping
        /\ Linking => links \in Mapping
    BY LinkTypeHolds, JitAssumption DEF TypeInv, TypeOK, Recorded
  <2>1. ASSUME NEW e \in Encoded, BeginLink(e)
        PROVE  PatchInv'
    <3>1. /\ links' = links + 1 /\ at' = 1 /\ pc' \in {"idle", "reloc"}
          /\ UNCHANGED <<patch, prot, exports, allocations>>
          /\ mods' = [mods EXCEPT ![links'] = e]
      BY <2>1 DEF BeginLink
    <3>2. links' \in Mapping /\ links' > links
      BY <2>1, JitAssumption DEF TypeInv, TypeOK, BeginLink, Mapping
    <3>3. patch'[links'] = <<>>
      BY <3>1, <3>2 DEF PatchInv
    <3>4. \A m \in Mapping : m # links' => mods'[m] = mods[m]
      BY <3>1, <3>2 DEF TypeInv, TypeOK
    <3>5. Recorded' = Recorded
      BY <3>1 DEF Recorded
    <3>6. \A m \in Recorded : Relocated(m)'
      <4> SUFFICES ASSUME NEW m \in Recorded
                   PROVE  Relocated(m)'
        OBVIOUS
      <4>1. m # links' /\ m \in Mapping
        BY <2>0, <3>1 DEF PagesInv
      <4>2. patch'[m] = patch[m] /\ mods'[m] = mods[m] /\ Relocated(m)
        BY <3>1, <3>4, <4>1 DEF PatchInv
      <4> QED
        BY <4>2, RelocatedKept
    <3>7. mod' \in EncodedRec
      <4>1. mods'[links'] = e
        BY <3>1, <3>2, Zenon DEF TypeInv, TypeOK
      <4> QED
        BY <4>1, JitAssumption DEF mod
    <3>8. Len(mod'.relocs) \in Nat
      BY <3>7 DEF EncodedRec
    <3>9. \A m \in Mapping : m > links' => patch'[m] = <<>>
      BY <2>0, <3>1 DEF PatchInv, Mapping
    <3>10. /\ Len(patch'[links']) = at' - 1
           /\ at' - 1 <= Len(mod'.relocs)
           /\ \A r \in 1..(at' - 1) : patch'[links'][r] = Wanted(links, r)'
      BY <3>1, <3>3, <3>8
    <3>11. /\ \A m \in Recorded' : prot'[m] = "rx"
           /\ \A i \in 1..Len(exports') : exports'[i].addr.in \in Recorded'
      BY <3>1, <3>5 DEF PatchInv
    <3> QED
      BY <3>1, <3>5, <3>6, <3>9, <3>10, <3>11 DEF PatchInv
  <2>2. CASE PatchStep
    <3>1. /\ CanApply /\ pc = "reloc"
          /\ UNCHANGED <<pc, links, mods, prot, allocations, exports>>
          /\ at' = at + 1
          /\ patch' = [patch EXCEPT ![links] = Append(@, Wanted(links, at))]
      BY <2>2 DEF PatchStep, Patch, CanApply, Relocating
    <3>2. links \in Mapping /\ at \in 1..Len(mod.relocs) /\ mod \in EncodedRec
      BY <2>0, <3>1, CurrentType
    <3>3. Wanted(links, at) \in Address
      BY <2>0, <3>1, WantedType
    <3>4. /\ patch[links] \in Seq(Address)
          /\ patch'[links] = Append(patch[links], Wanted(links, at))
          /\ \A m \in Mapping : m # links => patch'[m] = patch[m]
      BY <3>1, <3>2 DEF TypeInv, TypeOK
    <3>5. Recorded' = Recorded /\ mod' = mod
      BY <3>1 DEF Recorded, mod
    <3>6. \A m \in Recorded : Relocated(m)'
      <4> SUFFICES ASSUME NEW m \in Recorded
                   PROVE  Relocated(m)'
        OBVIOUS
      <4>1. m # links /\ m \in Mapping
        BY <2>0, <3>1 DEF PagesInv, Linking
      <4>2. patch'[m] = patch[m] /\ mods'[m] = mods[m] /\ Relocated(m)
        BY <3>1, <3>4, <4>1 DEF PatchInv
      <4> QED
        BY <4>2, RelocatedKept
    <3>7. \A r : Wanted(links, r)' = Wanted(links, r)
      BY <3>1 DEF Wanted
    <3>8. Len(patch[links]) = at - 1
          /\ \A r \in 1..(at - 1) : patch[links][r] = Wanted(links, r)
      BY <3>1 DEF PatchInv
    <3>9. /\ Len(patch'[links]) = at
          /\ \A r \in 1..at : patch'[links][r] = Wanted(links, r)
      BY <2>0, <3>2, <3>3, <3>4, <3>8
    <3>10. /\ Len(patch'[links']) = at' - 1
           /\ at' - 1 <= Len(mod'.relocs)
           /\ \A r \in 1..(at' - 1) : patch'[links'][r] = Wanted(links, r)'
      <4>1. Len(mod.relocs) \in Nat
        BY <3>2 DEF EncodedRec
      <4>2. at' - 1 = at /\ at <= Len(mod.relocs)
        BY <2>0, <3>1, <3>2, <4>1
      <4> QED
        BY <3>1, <3>5, <3>7, <3>9, <4>2
    <3>11. \A m \in Mapping : m > links' => patch'[m] = <<>>
      BY <2>0, <3>1, <3>4 DEF PatchInv, Mapping
    <3> QED
      BY <3>1, <3>5, <3>6, <3>10, <3>11 DEF PatchInv
  <2>3. CASE UNCHANGED <<links, mods, prot, patch, allocations, exports>> /\ pc' = "idle"
    <3>1. Recorded' = Recorded
      BY <2>3 DEF Recorded
    <3>2. \A m \in Recorded : Relocated(m)'
      BY <2>3, RelocatedKept DEF PatchInv
    <3> QED
      BY <2>3, <3>1, <3>2 DEF PatchInv
  <2>4. CASE FailStep \/ ExhaustedStep
    BY <2>3, <2>4 DEF FailStep, ExhaustedStep, FailReloc, Release
  <2>5. CASE RelocsDone
    <3>1. /\ pc = "reloc" /\ at > Len(mod.relocs) /\ pc' = "protect"
          /\ UNCHANGED <<links, mods, prot, patch, allocations, exports>>
      BY <2>5 DEF RelocsDone
    <3>2. mod \in EncodedRec
      BY <3>1, JitAssumption DEF TypeInv, Linking, mod
    <3>3. Len(mod.relocs) \in Nat
      BY <3>2 DEF EncodedRec
    <3>4. at - 1 = Len(mod.relocs)
      BY <2>0, <3>1, <3>3 DEF PatchInv
    <3>5. Relocated(links)
      BY <3>1, <3>4 DEF PatchInv, Relocated, mod
    <3>6. Relocated(links)' /\ \A m \in Recorded : Relocated(m)'
      BY <3>1, <3>5, RelocatedKept DEF PatchInv, Relocated, Wanted
    <3>7. Recorded' = Recorded
      BY <3>1 DEF Recorded
    <3> QED
      BY <3>1, <3>6, <3>7 DEF PatchInv
  <2>6. CASE ProtectText
    <3>1. CASE pc' = "idle" /\ UNCHANGED prot
      BY <2>3, <2>6, <3>1 DEF ProtectText
    <3>2. CASE prot' = [prot EXCEPT ![links] = "rx"] /\ pc' = "record"
      <4>1. pc = "protect" /\ UNCHANGED <<links, mods, patch, allocations, exports>>
        BY <2>6 DEF ProtectText
      <4>2. Recorded' = Recorded
        BY <4>1 DEF Recorded
      <4>3. Relocated(links)' /\ \A m \in Recorded : Relocated(m)'
        BY <4>1, RelocatedKept DEF PatchInv, Relocated, Wanted
      <4>4. prot'[links] = "rx" /\ \A m \in Recorded : prot'[m] = "rx"
        BY <2>0, <3>2, <4>1 DEF PatchInv, TypeInv, TypeOK, Linking
      <4> QED
        BY <3>2, <4>1, <4>2, <4>3, <4>4 DEF PatchInv
    <3> QED
      BY <2>6, <3>1, <3>2 DEF ProtectText, Release
  <2>7. CASE RecordAndExport
    <3>1. /\ pc = "record" /\ pc' = "idle" /\ UNCHANGED <<links, mods, prot, patch>>
          /\ exports' = exports \o
               [i \in 1..Len(mod.syms) |->
                  [name |-> mod.syms[i].name, addr |-> Own(links, mod.syms[i].kind)]]
      BY <2>7 DEF RecordAndExport
    <3>2. Recorded' = Recorded \cup {links}
      BY <2>7, RecordedGrows
    <3>3. \A m \in Recorded' : prot'[m] = "rx" /\ Relocated(m)'
      <4>1. \A m \in Recorded' : prot[m] = "rx" /\ Relocated(m)
        BY <3>1, <3>2 DEF PatchInv
      <4> QED
        BY <3>1, <4>1, RelocatedKept
    <3>4. \A i \in 1..Len(exports') : exports'[i].addr.in \in Recorded'
      <4> DEFINE new == [i \in 1..Len(mod.syms) |->
                           [name |-> mod.syms[i].name, addr |-> Own(links, mod.syms[i].kind)]]
      <4>1. \A i \in 1..Len(mod.syms) : new[i].addr.in = links
        BY DEF Own
      <4>2. new \in Seq(Export) /\ mod.syms \in Seq(Symbol) /\ exports \in Seq(Export)
        BY <3>1, ExportsType DEF Linking, TypeInv, TypeOK
      <4>3. Len(new) = Len(mod.syms)
        BY <4>2
      <4> HIDE DEF new
      <4>4. \A i \in 1..Len(exports \o new) :
              \/ i \in 1..Len(exports) /\ (exports \o new)[i] = exports[i]
              \/ \E j \in 1..Len(new) : (exports \o new)[i] = new[j]
        <5> SUFFICES ASSUME NEW i \in 1..Len(exports \o new), ~(i \in 1..Len(exports))
                     PROVE  i - Len(exports) \in 1..Len(new)
                            /\ (exports \o new)[i] = new[i - Len(exports)]
          BY <4>2
        <5> QED
          BY <4>2
      <4>5. exports' = exports \o new
        BY <3>1 DEF new
      <4> QED
        BY <3>2, <4>1, <4>3, <4>4, <4>5 DEF PatchInv
    <3> QED
      BY <3>1, <3>3, <3>4 DEF PatchInv
  <2>8. CASE nyjit_destroy
    <3>1. /\ UNCHANGED <<links, patch>> /\ pc' = "destroyed"
          /\ exports' = <<>> /\ allocations' = <<>>
      BY <2>8 DEF nyjit_destroy
    <3>2. Recorded' = {}
      BY <3>1 DEF Recorded
    <3> QED
      BY <3>1, <3>2 DEF PatchInv
  <2>9. CASE UNCHANGED vars
    <3>1. UNCHANGED <<pc, links, mods, at, prot, patch, allocations, exports>>
      BY <2>9 DEF vars
    <3> QED
      BY <3>1 DEF PatchInv, Relocated, Wanted, Recorded, mod
  <2> QED
    BY <2>0, <2>1, <2>2, <2>4, <2>5, <2>6, <2>7, <2>8, <2>9, RelocStep
    DEF Next, Destroyed
<1> QED
  BY <1>1, <1>2, TypeInvCorrect, PagesInvCorrect, PTL DEF Spec

(* Whatever nyjit_lookup returns lies in pages that are held, executable    *)
(* and not writable, with every relocation leading to the symbol it names.  *)
THEOREM ExportsUsableCorrect == Spec => []ExportsUsable
<1>1. TypeInv /\ PagesInv /\ PatchInv => ExportsUsable
  <2> SUFFICES ASSUME TypeInv, PagesInv, PatchInv, NEW i \in 1..Len(exports)
               PROVE  LET m == exports[i].addr.in IN
                      /\ m \in mapped /\ prot[m] = "rx"
                      /\ Len(patch[m]) = Len(mods[m].relocs)
                      /\ \A r \in 1..Len(patch[m]) : patch[m][r] = Wanted(m, r)
    BY DEF ExportsUsable
  <2>1. exports[i].addr.in \in Recorded
    BY DEF PatchInv
  <2>2. CASE pc = "destroyed"
    BY <2>1, <2>2 DEF PagesInv, PatchInv, Relocated
  <2>3. CASE pc # "destroyed"
    BY <2>1, <2>3 DEF PagesInv, PatchInv, Relocated
  <2> QED
    BY <2>2, <2>3
<1> QED
  BY <1>1, TypeInvCorrect, PagesInvCorrect, PatchInvCorrect, PTL

-----------------------------------------------------------------------------
(* NyJit implements JitLibrary: the linker's many steps are stutters of     *)
(* the library except the one that records and exports, which adds the      *)
(* module, and nyjit_destroy, which closes the library.                     *)


(* Relocation r of e names a symbol of e, or one the host can give.         *)
Answered(e, r) ==
    \/ IsInternal(e, e.relocs[r].name)
    \/ \E a \in HostAnswer[e.relocs[r].name] : a # "none"

(* The relocations that were passed could all be resolved.                  *)
AnsweredInv ==
    /\ pc = "reloc" => \A r \in 1..(at - 1) : Answered(mod, r)
    /\ pc \in {"protect", "record"} => \A r \in 1..Len(mod.relocs) : Answered(mod, r)

(* A relocation is passed, or the link is given up.                         *)
LEMMA ApplyMoves ==
    ASSUME NEW kind, NEW a, NEW external, NEW far, Apply(kind, a, external, far)
    PROVE  \/ pc' = "idle"
           \/ at' = at + 1 /\ UNCHANGED <<pc, links, mods>>
  BY DEF Apply, ViaTrampoline, Patch, FailReloc, Release

LEMMA AnsweredInvCorrect == Spec => []AnsweredInv
<1>1. Init => AnsweredInv
  BY DEF Init, AnsweredInv
<1>2. TypeInv /\ AnsweredInv /\ [Next]_vars => AnsweredInv'
  <2> SUFFICES ASSUME TypeInv, AnsweredInv, [Next]_vars
               PROVE  AnsweredInv'
    OBVIOUS
  <2>0. at \in Nat /\ at > 0
    BY DEF TypeInv, TypeOK
  <2>1. ASSUME NEW e \in Encoded, BeginLink(e)
        PROVE  AnsweredInv'
    <3>1. at' = 1 /\ pc' \in {"reloc", "idle"}
      BY <2>1 DEF BeginLink
    <3> QED
      BY <3>1 DEF AnsweredInv
  <2>2. CASE RefuseReloc
    <3>1. pc' = "idle"
      BY <2>2 DEF RefuseReloc, FailReloc, Release
    <3> QED
      BY <3>1 DEF AnsweredInv
  <2>3. ASSUME pc = "reloc", Answered(mod, at),
               \/ pc' = "idle"
               \/ at' = at + 1 /\ UNCHANGED <<pc, links, mods>>
        PROVE  AnsweredInv'
    <3>1. CASE pc' = "idle"
      BY <3>1 DEF AnsweredInv
    <3>2. CASE at' = at + 1 /\ UNCHANGED <<pc, links, mods>>
      <4>1. mod' = mod
        BY <3>2 DEF mod
      <4>2. \A r \in 1..(at' - 1) : r \in 1..(at - 1) \/ r = at
        BY <2>0, <3>2
      <4>3. \A r \in 1..(at' - 1) : Answered(mod, r)
        BY <2>3, <4>2 DEF AnsweredInv
      <4> QED
        BY <2>3, <3>2, <4>1, <4>3 DEF AnsweredInv, Answered
    <3> QED
      BY <2>3, <3>1, <3>2
  <2>4. CASE RelocInternal
    <3>1. pc = "reloc" /\ Answered(mod, at)
      BY <2>4 DEF RelocInternal, CanApply, Relocating, Current, Answered
    <3> QED
      BY <2>3, <2>4, <3>1, ApplyMoves DEF RelocInternal
  <2>5. CASE RelocExternal
    <3>1. PICK answer \in HostAnswer[Current.name] :
            \/ answer = "none" /\ FailReloc("unresolved")
            \/ /\ answer # "none"
               /\ Apply(Current.kind, Host(Current.name), TRUE, answer = "far")
      BY <2>5 DEF RelocExternal
    <3>2. CASE answer = "none" /\ FailReloc("unresolved")
      BY <3>2 DEF FailReloc, Release, AnsweredInv
    <3>3. CASE /\ answer # "none"
               /\ Apply(Current.kind, Host(Current.name), TRUE, answer = "far")
      <4>1. pc = "reloc" /\ Answered(mod, at)
        BY <2>5, <3>3 DEF RelocExternal, CanApply, Relocating, Current, Answered
      <4> QED
        BY <2>3, <3>3, <4>1, ApplyMoves
    <3> QED
      BY <3>1, <3>2, <3>3
  <2>6. CASE RelocsDone
    <3>1. /\ pc = "reloc" /\ at > Len(mod.relocs) /\ pc' = "protect"
          /\ UNCHANGED <<links, mods>>
      BY <2>6 DEF RelocsDone
    <3>2. mod' = mod
      BY <3>1 DEF mod
    <3>3. mod \in EncodedRec
      BY <3>1, JitAssumption DEF TypeInv, Linking, mod
    <3>4. Len(mod.relocs) \in Nat
      BY <3>3 DEF EncodedRec
    <3>5. \A r \in 1..Len(mod.relocs) : Answered(mod, r)
      BY <2>0, <3>1, <3>4 DEF AnsweredInv
    <3> QED
      BY <3>1, <3>2, <3>5 DEF AnsweredInv, Answered
  <2>7. CASE ProtectText
    <3>1. pc = "protect" /\ pc' \in {"record", "idle"} /\ UNCHANGED <<links, mods>>
      BY <2>7 DEF ProtectText, Release
    <3>2. mod' = mod
      BY <3>1 DEF mod
    <3> QED
      BY <3>1, <3>2 DEF AnsweredInv, Answered
  <2>8. CASE RecordAndExport \/ nyjit_destroy
    <3>1. pc' \in {"idle", "destroyed"}
      BY <2>8 DEF RecordAndExport, nyjit_destroy
    <3> QED
      BY <3>1 DEF AnsweredInv
  <2>9. CASE UNCHANGED vars
    <3>1. UNCHANGED <<pc, links, mods, at>>
      BY <2>9 DEF vars
    <3> QED
      BY <3>1 DEF AnsweredInv, Answered, mod
  <2> QED
    BY <2>1, <2>2, <2>4, <2>5, <2>6, <2>7, <2>8, <2>9 DEF Next, Destroyed
<1> QED
  BY <1>1, <1>2, TypeInvCorrect, PTL DEF Spec

-----------------------------------------------------------------------------
(* The steps of the library                                                 *)

(* A step that leaves the recorded mappings alone leaves the library alone. *)
LEMMA LoadedKept ==
    ASSUME TypeInv, UNCHANGED allocations,
           \A m \in Recorded : patch'[m] = patch[m] /\ mods'[m] = mods[m]
    PROVE  Loaded' = Loaded
<1>1. \A i \in 1..Len(allocations) : allocations[i] \in Recorded
  BY DEF Recorded
<1> QED
  BY <1>1 DEF Loaded

(* Before it is recorded, the link in progress has the targets the library  *)
(* gives its module.                                                        *)
LEMMA TargetsBound ==
    ASSUME TypeInv, PatchInv, pc = "record"
    PROVE  patch[links] = [r \in 1..Len(mod.relocs) |-> Library!Target(mod, links, r)]
<1>1. links \in Mapping /\ mod \in Encoded
  BY DEF TypeInv, Linking, mod
<1>2. mod.relocs \in Seq(Reloc)
  BY <1>1, JitAssumption DEF EncodedRec
<1>3. patch[links] \in Seq(Address)
  BY <1>1 DEF TypeInv, TypeOK
<1>4. Relocated(links)
  BY DEF PatchInv
<1>5. Len(patch[links]) = Len(mod.relocs)
  BY <1>4 DEF Relocated, mod
<1>6. patch[links] = [r \in 1..Len(mod.relocs) |-> patch[links][r]]
  BY <1>3, <1>5
<1>7. ASSUME NEW r \in 1..Len(mod.relocs)
      PROVE  patch[links][r] = Library!Target(mod, links, r)
  <2>1. patch[links][r] = Wanted(links, r)
    BY <1>4, <1>5 DEF Relocated
  <2> QED
    BY <2>1 DEF Wanted, InternalAddr, IsInternal, Own, Host, mod, Library!Target, Library!Defines
<1> QED
  BY <1>6, <1>7, Zenon

(* Recording the link in progress adds its module to the library.           *)
LEMMA RecordAdds ==
    ASSUME TypeInv, PagesInv, PatchInv, AnsweredInv, RecordAndExport
    PROVE  Library!Grow
<1>1. /\ pc = "record" /\ pc' = "idle"
      /\ allocations' = Append(allocations, links)
      /\ UNCHANGED <<mods, patch>>
  BY DEF RecordAndExport
<1>2. /\ links \in Mapping /\ mod \in Encoded
      /\ allocations \in Seq(Mapping)
  BY <1>1 DEF TypeInv, TypeOK, Linking, mod
<1> DEFINE entry == [id |-> links, module |-> mod,
                     targets |-> [r \in 1..Len(mod.relocs) |-> Library!Target(mod, links, r)]]
<1>3. entry = [id |-> links, module |-> mods[links], targets |-> patch[links]]
  BY <1>1, TargetsBound DEF mod
<1>4. /\ Len(allocations) \in Nat
      /\ Len(allocations') = Len(allocations) + 1
      /\ \A i \in 1..Len(allocations) : allocations'[i] = allocations[i]
      /\ allocations'[Len(allocations) + 1] = links
  BY <1>1, <1>2
<1>5. Len(Loaded) = Len(allocations) /\ Len(Loaded') = Len(allocations')
  BY <1>4 DEF Loaded
<1>6. Loaded' = Append(Loaded, entry)
  <2> HIDE DEF entry
  <2>1. Append(Loaded, entry) =
          [i \in 1..(Len(allocations) + 1) |->
             IF i = Len(allocations) + 1 THEN entry ELSE Loaded[i]]
    BY <1>4, <1>5 DEF Loaded
  <2>2. ASSUME NEW i \in 1..(Len(allocations) + 1)
        PROVE  Loaded'[i] = IF i = Len(allocations) + 1 THEN entry ELSE Loaded[i]
    BY <1>1, <1>3, <1>4 DEF Loaded
  <2>3. Loaded' = [i \in 1..(Len(allocations) + 1) |-> Loaded'[i]]
    BY <1>4 DEF Loaded
  <2> QED
    BY <2>1, <2>2, <2>3, Zenon
<1>7. \A i \in 1..Len(Loaded) : Loaded[i].id # links
  <2>1. links \notin Recorded
    BY <1>1 DEF PagesInv, Linking
  <2> QED
    BY <1>5, <2>1 DEF Loaded, Recorded
<1>8. Library!Linkable(mod)
  BY <1>1 DEF AnsweredInv, Answered, IsInternal, Library!Linkable, Library!Defines
<1>9. exports' = exports \o [i \in 1..Len(mod.syms) |->
                    [name |-> mod.syms[i].name, addr |-> [in |-> links, at |-> mod.syms[i].kind]]]
  BY DEF RecordAndExport, Own
<1>10. Library!Add(mod, links)
  BY <1>1, <1>6, <1>7, <1>8, <1>9 DEF Library!Add
<1>11. Len(Loaded') = Len(Loaded) + 1
  BY <1>4, <1>5
<1> QED
  BY <1>2, <1>10, <1>11 DEF Library!Grow, Mapping

(***************************************************************************)
(* nyjit_link is indivisible for the host, for any modules, host and       *)
(* number of links: every step of NyJit is a step of the library or leaves *)
(* it as it was.                                                           *)
(***************************************************************************)
THEOREM LinksAreAtomicCorrect == Spec => LinksAreAtomic
<1>1. Init => Library!LibInit
  <2> SUFFICES ASSUME Init
               PROVE  Library!LibInit
    OBVIOUS
  <2>1. pc = "idle" /\ exports = <<>> /\ allocations = <<>>
    BY DEF Init
  <2>2. Loaded = <<>>
    BY <2>1 DEF Loaded
  <2> QED
    BY <2>1, <2>2 DEF Library!LibInit
<1>2. TypeInv /\ PagesInv /\ PatchInv /\ AnsweredInv /\ [Next]_vars
        => [Library!LibNext]_Library!libVars
  <2> SUFFICES ASSUME TypeInv, PagesInv, PatchInv, AnsweredInv, [Next]_vars
               PROVE  Library!LibNext \/ UNCHANGED Library!libVars
    OBVIOUS
  <2>0. /\ LinkType /\ links \in Nat
        /\ Recorded \subseteq 1..links
        /\ Linking => links \in Mapping /\ links \notin Recorded
    BY LinkTypeHolds DEF TypeInv, TypeOK, PagesInv
  <2>K. ASSUME UNCHANGED <<allocations, exports>>, pc # "destroyed", pc' # "destroyed",
               \A m \in Recorded : patch'[m] = patch[m] /\ mods'[m] = mods[m]
        PROVE  UNCHANGED Library!libVars
    BY <2>K, LoadedKept DEF Library!libVars
  <2>1. ASSUME NEW e \in Encoded, BeginLink(e)
        PROVE  UNCHANGED Library!libVars
    <3>1. /\ links' = links + 1 /\ mods' = [mods EXCEPT ![links'] = e]
          /\ UNCHANGED <<allocations, exports, patch>>
          /\ pc # "destroyed" /\ pc' # "destroyed"
      BY <2>1 DEF BeginLink
    <3>2. \A m \in Recorded : m # links' /\ m \in Mapping
      BY <2>0, <3>1, JitAssumption DEF TypeInv, TypeOK, Mapping
    <3>3. \A m \in Recorded : mods'[m] = mods[m]
      BY <3>1, <3>2 DEF TypeInv, TypeOK
    <3> QED
      BY <2>K, <3>1, <3>3
  <2>2. CASE PatchStep
    <3>1. /\ patch' = [patch EXCEPT ![links] = Append(@, Wanted(links, at))]
          /\ UNCHANGED <<allocations, exports, mods, pc>> /\ pc = "reloc"
      BY <2>2 DEF PatchStep, Patch, CanApply, Relocating
    <3>2. \A m \in Recorded : patch'[m] = patch[m]
      <4>1. links \notin Recorded
        BY <2>0, <3>1 DEF Linking
      <4>2. Recorded \subseteq Mapping
        BY DEF TypeInv, TypeOK, Recorded
      <4> QED
        BY <3>1, <4>1, <4>2 DEF TypeInv, TypeOK
    <3> QED
      BY <2>K, <3>1, <3>2
  <2>3. CASE FailStep \/ ExhaustedStep \/ RelocsDone \/ ProtectText
    <3>1. /\ UNCHANGED <<allocations, exports, mods, patch>>
          /\ pc # "destroyed" /\ pc' # "destroyed"
      BY <2>3 DEF FailStep, ExhaustedStep, FailReloc, Release, RelocsDone, ProtectText,
                  CanApply, Relocating
    <3> QED
      BY <2>K, <3>1
  <2>4. CASE RecordAndExport
    BY <2>4, RecordAdds DEF Library!LibNext
  <2>5. CASE nyjit_destroy
    <3>1. /\ pc = "idle" /\ pc' = "destroyed"
          /\ allocations' = <<>> /\ exports' = <<>>
      BY <2>5 DEF nyjit_destroy
    <3>2. Loaded' = <<>>
      BY <3>1 DEF Loaded
    <3> QED
      BY <3>1, <3>2 DEF Library!LibNext, Library!Close
  <2>6. CASE UNCHANGED vars
    <3>1. UNCHANGED <<pc, allocations, exports, mods, patch>>
      BY <2>6 DEF vars
    <3>2. Loaded' = Loaded
      BY <3>1 DEF Loaded
    <3> QED
      BY <3>1, <3>2 DEF Library!libVars
  <2> QED
    BY <2>0, <2>1, <2>2, <2>3, <2>4, <2>5, <2>6, RelocStep DEF Next, Destroyed
<1> QED
  BY <1>1, <1>2, TypeInvCorrect, PagesInvCorrect, PatchInvCorrect, AnsweredInvCorrect, PTL
  DEF Spec, LinksAreAtomic, Library!LibSpec

=============================================================================
