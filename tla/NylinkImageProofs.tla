------------------------- MODULE NylinkImageProofs -------------------------
(***************************************************************************)
(* Proofs about the layout of an image: that the plan foresees exactly the *)
(* dynamic relocations, that .dynamic is large enough, that nothing        *)
(* overlaps, that .hash leads to every name, and that exports and the      *)
(* entry point have the addresses of their definitions.                    *)
(***************************************************************************)
EXTENDS NylinkImage, TLAPS, FiniteSetTheorems, SequenceTheorems, WellFoundedInduction,
        NaturalsInduction

-----------------------------------------------------------------------------
(* The fields of Nylink_Context and which of them a step changes.           *)

Fields == {"conf", "out", "at", "resolved", "imports", "plans", "planned", "pe",
           "dynsym", "hash", "cursor", "pieces", "file_end", "start"}

Shape == DOMAIN ctx = Fields

Keeps(F) == \A f \in Fields \ F : ctx'[f] = ctx[f]

Moves(from, to, F) ==
    pc = from /\ pc' \in to /\ job' = job /\ Shape' /\ Keeps(F)

(* Each action of nylink_layout_internal: the phase it belongs to, what     *)
(* comes after it, and the fields of the context that it may assign.        *)
LEMMA Steps ==
  ASSUME Shape
  PROVE  /\ Configure =>
              /\ Moves("configure", {"place", "failed"}, {"conf", "out"})
              /\ r' = r
         /\ PlaceSection =>
              /\ Moves("place", {"place"}, {"at", "out"})
              /\ r \in Sections /\ r' = r + 1
         /\ SectionsPlaced =>
              /\ Moves("place", {"plan"}, {})
              /\ r \notin Sections /\ r' = 1
         /\ PlanRelocation =>
              /\ Moves("plan", {"plan", "failed"}, {"plans", "imports", "planned"})
              /\ r \in Relocs /\ r' = r + 1 /\ Dynamic
         /\ Planned =>
              /\ Moves("plan", {"exports", "dynsym", "address"}, {})
              /\ r' = 1 /\ (Dynamic => r \notin Relocs /\ pc' = "dynsym")
         /\ BuildExports =>
              /\ Moves("exports", {"thunks"}, {"pe", "out"})
              /\ r' = r
         /\ PlaceThunk =>
              /\ Moves("thunks", {"thunks"}, {"pe", "out"})
              /\ r' = r + 1
         /\ BuildImports =>
              /\ Moves("thunks", {"address"}, {"pe", "out", "resolved"})
              /\ r' = 1
         /\ ExportSymbol =>
              /\ Moves("dynsym", {"dynsym"}, {"dynsym"})
              /\ r' = r + 1
         /\ SymbolsExported =>
              /\ Moves("dynsym", {"dynimp"}, {})
              /\ r' = 1
         /\ ImportSymbol =>
              /\ Moves("dynimp", {"dynimp"}, {"dynsym"})
              /\ r' = r + 1
         /\ SymbolsImported =>
              /\ Moves("dynimp", {"hash"}, {"hash"})
              /\ r' = 1
         /\ HashName =>
              /\ Moves("hash", {"hash"}, {"hash"})
              /\ r \in DOMAIN dynsym /\ r' = r + 1
         /\ NamesHashed =>
              /\ Moves("hash", {"address"}, {})
              /\ r \notin DOMAIN dynsym /\ r' = 1
         /\ PlacePiece =>
              /\ Moves("address", {"address"}, {"pieces", "cursor"})
              /\ r \in DOMAIN PieceOrder /\ r' = r + 1
         /\ PiecesPlaced =>
              /\ Moves("address", {"symbols"}, {"file_end"})
              /\ r \notin DOMAIN PieceOrder /\ r' = r
         /\ SymbolAddresses =>
              /\ Moves("symbols", {"entry"}, {"resolved"})
              /\ r' = r
         /\ FindEntry =>
              /\ Moves("entry", {"tables", "failed"}, {"start"})
              /\ r' = 1
<1> USE DEF Shape, Keeps, Fields, Moves
<1>1. Configure => Moves("configure", {"place", "failed"}, {"conf", "out"})
                /\ r' = r
  BY DEF Configure
<1>2. PlaceSection => Moves("place", {"place"}, {"at", "out"})
                /\ r \in Sections /\ r' = r + 1
  BY DEF PlaceSection
<1>3. SectionsPlaced => Moves("place", {"plan"}, {})
                /\ r \notin Sections /\ r' = 1
  BY DEF SectionsPlaced
<1>4. PlanRelocation => Moves("plan", {"plan", "failed"}, {"plans", "imports", "planned"})
                /\ r \in Relocs /\ r' = r + 1 /\ Dynamic
  BY DEF PlanRelocation
<1>5. Planned => Moves("plan", {"exports", "dynsym", "address"}, {})
                /\ r' = 1 /\ (Dynamic => r \notin Relocs /\ pc' = "dynsym")
  BY DEF Planned, Dynamic
<1>6. BuildExports => Moves("exports", {"thunks"}, {"pe", "out"})
                /\ r' = r
  BY DEF BuildExports
<1>7. PlaceThunk => Moves("thunks", {"thunks"}, {"pe", "out"})
                /\ r' = r + 1
  BY DEF PlaceThunk
<1>8. BuildImports => Moves("thunks", {"address"}, {"pe", "out", "resolved"})
                /\ r' = 1
  BY DEF BuildImports
<1>9. ExportSymbol => Moves("dynsym", {"dynsym"}, {"dynsym"})
                /\ r' = r + 1
  BY DEF ExportSymbol
<1>10. SymbolsExported => Moves("dynsym", {"dynimp"}, {})
                /\ r' = 1
  BY DEF SymbolsExported
<1>11. ImportSymbol => Moves("dynimp", {"dynimp"}, {"dynsym"})
                /\ r' = r + 1
  BY DEF ImportSymbol
<1>12. SymbolsImported => Moves("dynimp", {"hash"}, {"hash"})
                /\ r' = 1
  BY DEF SymbolsImported
<1>13. HashName => Moves("hash", {"hash"}, {"hash"})
                /\ r \in DOMAIN dynsym /\ r' = r + 1
  BY DEF HashName
<1>14. NamesHashed => Moves("hash", {"address"}, {})
                /\ r \notin DOMAIN dynsym /\ r' = 1
  BY DEF NamesHashed
<1>15. PlacePiece => Moves("address", {"address"}, {"pieces", "cursor"})
                /\ r \in DOMAIN PieceOrder /\ r' = r + 1
  BY DEF PlacePiece
<1>16. PiecesPlaced => Moves("address", {"symbols"}, {"file_end"})
                /\ r \notin DOMAIN PieceOrder /\ r' = r
  BY DEF PiecesPlaced
<1>17. SymbolAddresses => Moves("symbols", {"entry"}, {"resolved"})
                /\ r' = r
  BY DEF SymbolAddresses
<1>18. FindEntry => Moves("entry", {"tables", "failed"}, {"start"})
                /\ r' = 1
  BY DEF FindEntry
<1>19. QED
  BY <1>1, <1>2, <1>3, <1>4, <1>5, <1>6, <1>7, <1>8, <1>9, <1>10, <1>11, <1>12, <1>13, <1>14, <1>15, <1>16, <1>17, <1>18

-----------------------------------------------------------------------------
(* The inductive invariant.                                                 *)

Early == {"configure", "place"}
Laying == {"exports", "thunks", "dynsym", "dynimp", "hash", "address", "symbols", "entry"}
Filling == {"tables", "relocate", "emit", "done"}
Phases == Early \cup {"plan"} \cup Laying \cup Filling \cup {"failed"}

Import == [sym : Symbols, plt : Int, got : Int]
PlanKinds == {"static", "dyn_abs64", "relative", "got", "plt"}
RelocPlan == [kind : PlanKinds, slot : Int]
IsSeq(s) == s \in Seq(Range(s))

TypeInv ==
    /\ job \in Jobs
    /\ pc \in Phases
    /\ r \in Nat \ {0}
    /\ Shape
    /\ imports \in Seq(Import)
    /\ plans \in Seq(RelocPlan)
    /\ IsSeq(rela)
    /\ ok \in BOOLEAN

(* The plans that push a dynamic relocation, and the imports that do.       *)
PushingKinds == {"dyn_abs64", "relative"}
Pushing(n) == {k \in 1..n : k \in DOMAIN plans /\ plans[k].kind \in PushingKinds}
GotUpTo(n) == {i \in 1..n : i \in DOMAIN imports /\ imports[i].got # None}

(* While a dynamic image is planned the plans keep step with the            *)
(* relocations; no other image has plans.                                   *)
PlanInv ==
    /\ pc \in Early => plans = <<>>
    /\ pc \in {"exports", "thunks"} => ~Dynamic
    /\ ~Dynamic => plans = <<>>
    /\ pc = "plan" => r <= Len(job.relocs) + 1
    /\ pc = "plan" /\ Dynamic => Len(plans) = r - 1
    /\ pc \in Laying \cup Filling /\ Dynamic => Len(plans) = Len(job.relocs)
    /\ plans = <<>> => imports = <<>>
    /\ planned = Used(imports, "got") + Cardinality(Pushing(Len(plans)))
    /\ pc # "failed" =>
         \A k \in DOMAIN plans : plans[k].kind \in PushingKinds =>
            job.relocs[k].type = "abs64" /\ job.relocs[k].sym # 0

(* .rela.dyn holds what the imports and relocations gone through pushed.    *)
RelaInv ==
    /\ pc \in Early \cup {"plan"} \cup Laying => rela = <<>> /\ ok
    /\ pc = "tables" => /\ r <= Len(imports) + 1
                        /\ Len(rela) = Cardinality(GotUpTo(r - 1))
                        /\ ok
    /\ pc = "relocate" => /\ r <= Len(job.relocs) + 1
                          /\ ok => Len(rela) = Used(imports, "got")
                                                 + Cardinality(Pushing(r - 1))
    /\ pc \in {"emit", "done"} => Len(rela) = planned

(* The output sections: what each holds so far, which leaves room for the   *)
(* start code, and the input sections placed in them one after the other.   *)
KindSet == {"text", "rodata", "data", "bss"}
Kind(i) == job.sections[i].kind

SectionOK(k, sec) ==
    /\ DOMAIN sec = {"file", "mem", "align"}
    /\ sec.mem \in Nat
    /\ sec.file = IF k = "bss" THEN 0 ELSE sec.mem

SectionsOK == DOMAIN out = KindSet /\ \A k \in KindSet : SectionOK(k, out[k])

RoomLeft == \A k \in KindSet : out[k].mem >= FirstOffset(k, conf.trampoline)

SectionsApart ==
    \A i \in DOMAIN at :
        /\ at[i] >= FirstOffset(Kind(i), conf.trampoline)
        /\ at[i] + job.sections[i].size <= out[Kind(i)].mem
        /\ \A k \in 1..(i-1) : Kind(k) = Kind(i) => at[k] + job.sections[k].size <= at[i]

OutInv ==
    /\ SectionsOK
    /\ at \in Seq(Nat)
    /\ pc \notin {"configure", "failed"} => RoomLeft
    /\ pc # "failed" => SectionsApart
    /\ Len(at) <= Len(job.sections)
    /\ pc = "configure" => at = <<>> /\ r = 1
    /\ pc = "place" => Len(at) = r - 1
    /\ pc \in {"plan"} \cup Laying \cup Filling => Len(at) = Len(job.sections)

(* Names that the configuration is given.                                   *)
ConfInv ==
    /\ conf.soname \in {Unnamed, job.soname}
    /\ conf.interp \in {Unnamed, DefaultInterp, job.interp}

(* .dynsym, and the part of .hash that is built.                            *)
Hashed == IF pc = "hash" THEN r - 1 ELSE Len(dynsym)
Leads(d) ==
    \A visited \in SUBSET (1..Hashed) :
        /\ hash.bucket[BucketOf(d)] \in visited
        /\ \A c \in visited : hash.chain[c] \in visited \cup {0}
        => d \in visited
HashOK ==
    /\ hash.bucket \in [0..Len(dynsym) -> 0..Hashed]
    /\ hash.chain \in Seq(Nat) /\ Len(hash.chain) = Hashed
    /\ \A d \in 1..Hashed : /\ hash.bucket[BucketOf(d)] # 0
                            /\ hash.chain[d] < d
                            /\ Leads(d)
HashBuilt == {"hash", "address", "symbols", "entry"} \cup Filling
HashInv ==
    /\ dynsym \in Seq(Symbols)
    /\ pc = "hash" => r <= Len(dynsym) + 1
    /\ Dynamic /\ pc \in HashBuilt => HashOK

(* The pieces placed so far are in order and end where the cursor is.       *)
Placed == IF pc = "address" THEN r - 1
          ELSE IF pc \in {"symbols", "entry"} \cup Filling THEN 14 ELSE 0
Rank(k) == pieces[PieceOrder[k]]
Ended(p) == /\ p.va + p.mem <= image_base + cursor.rva
            /\ p.off + p.file <= cursor.off
Before(p, q) ==
    q = Nowhere \/ (/\ p.va + p.mem <= q.va
                    /\ p.off + p.file <= q.off \/ (q.off = 0 /\ q.file = 0))
Piece == [va : Nat, off : Nat, file : Nat, mem : Nat]
InOrder ==
    \A k \in 1..14 : /\ k > Placed => Rank(k) = Nowhere
                     /\ Rank(k) = Nowhere \/ Ended(Rank(k))
                     /\ \A j \in 1..(k-1) : Before(Rank(j), Rank(k))
PieceInv ==
    /\ cursor \in [rva : Nat, off : Nat]
    /\ pieces \in [PieceNames -> Piece]
    /\ pc = "address" => r - 1 <= 14
    /\ pc # "failed" => InOrder

(* The three tables whose sizes the emitter counts .dynamic from.           *)
Sized == {"rela_dyn", "rela_plt", "dynamic"}
DynSize(n) ==
    IF ~Dynamic THEN 0
    ELSE IF n = "rela_dyn" THEN 24 * planned
    ELSE IF n = "rela_plt" THEN 24 * PltCount ELSE 16 * DynamicRoom
SizesAsPlanned ==
    \A k \in 1..14 : k <= Placed /\ PieceOrder[k] \in Sized =>
        Rank(k).file = DynSize(PieceOrder[k])
SizeInv ==
    /\ pc # "failed" => SizesAsPlanned
    /\ DOMAIN head = {"loads", "movable", "dynamic"}
    /\ head.dynamic = IF pc = "done" /\ Dynamic THEN DynamicWritten ELSE 0

ImageInv ==
    /\ TypeInv /\ PlanInv /\ RelaInv /\ ConfInv /\ OutInv /\ HashInv /\ PieceInv /\ SizeInv

-----------------------------------------------------------------------------
(* Facts about numbers, sequences and the inputs of a link.                 *)

(* Every nonempty set of naturals has a least element.                      *)
LEMMA NatMin ==
  ASSUME NEW S \in SUBSET Nat, S # {}
  PROVE  \E x \in S : \A y \in S : x =< y
<1> DEFINE R == OpToRel(<, Nat)
<1>1. PICK x \in S : \A y \in S : ~(<<y, x>> \in R)
  BY NatLessThanWellFounded, WFMin
<1>2. \A y \in S : ~(y < x)
  BY <1>1 DEF OpToRel
<1>3. QED
  BY <1>2

(* Min returns an element of the set.                                       *)
LEMMA MinIsIn ==
  ASSUME NEW S \in SUBSET Nat, S # {}
  PROVE  Min(S) \in S
  BY NatMin DEF Min

(* A sequence of what it holds stays one when an element is appended.       *)
LEMMA AppendIsSeq ==
  ASSUME NEW s, IsSeq(s), NEW e
  PROVE  IsSeq(Append(s, e)) /\ Len(Append(s, e)) = Len(s) + 1
<1> DEFINE S == Range(s) \cup {e}
<1>1. s \in Seq(S)
  BY DEF IsSeq, Range
<1>2. /\ Append(s, e) \in Seq(S)
      /\ Len(Append(s, e)) = Len(s) + 1
  BY <1>1
<1> DEFINE t == Append(s, e)
<1>3. t \in Seq(S) /\ Len(t) = Len(s) + 1
  BY <1>2
<1> HIDE DEF t
<1>4. t \in Seq(Range(t))
  BY <1>3, LenProperties, IsASeq, SMT DEF Range
<1>5. QED
  BY <1>3, <1>4 DEF IsSeq, t

(* The indices of a sequence that satisfy a condition can be counted.       *)
LEMMA IndicesFinite ==
  ASSUME NEW n \in Nat, NEW T \in SUBSET (1..n)
  PROVE  IsFiniteSet(T) /\ Cardinality(T) \in Nat
<1>1. IsFiniteSet(1..n)
  BY FS_Interval
<1>2. IsFiniteSet(T)
  BY <1>1, FS_Subset
<1>3. QED
  BY <1>2, FS_CardinalityType

(* What is known of a link that is one of Jobs.                             *)
LEMMA JobTypes ==
  ASSUME job \in Jobs
  PROVE  /\ job.relocs \in Seq([type : RelocTypes, sec : 0..Len(job.sections), off : Nat,
                                sym : 0..Len(job.symbols), addend : Int])
         /\ job.sections \in Seq([kind : Range(Kinds), size : Nat, align : Alignments])
         /\ Relocs = 1..Len(job.relocs) /\ Len(job.relocs) \in Nat
         /\ Sections = 1..Len(job.sections) /\ Len(job.sections) \in Nat
         /\ Symbols = 1..Len(job.symbols) /\ Len(job.symbols) \in Nat
         /\ job.base \in Nat
<1>1. /\ job.relocs \in Seq([type : RelocTypes, sec : 0..Len(job.sections), off : Nat,
                             sym : 0..Len(job.symbols), addend : Int])
      /\ job.sections \in Seq([kind : Range(Kinds), size : Nat, align : Alignments])
      /\ job.base \in Nat
  BY JobsAssumption
<1>2. DOMAIN job.symbols = 1..Len(job.symbols) /\ Len(job.symbols) \in Nat
  BY JobsAssumption, LenProperties
<1>3. DOMAIN job.relocs = 1..Len(job.relocs) /\ Len(job.relocs) \in Nat
  BY <1>1, LenProperties
<1>4. DOMAIN job.sections = 1..Len(job.sections) /\ Len(job.sections) \in Nat
  BY <1>1, LenProperties
<1>5. QED
  BY <1>1, <1>2, <1>3, <1>4 DEF Relocs, Sections, Symbols

(* A relocation refers to a symbol of the link, or to none.                 *)
LEMMA RelocTyped ==
  ASSUME job \in Jobs, NEW k \in Relocs
  PROVE  job.relocs[k].sym \in 0..Len(job.symbols) /\ job.relocs[k].type \in RelocTypes
<1> DEFINE S == [type : RelocTypes, sec : 0..Len(job.sections), off : Nat,
                 sym : 0..Len(job.symbols), addend : Int]
<1>1. job.relocs \in Seq(S) /\ k \in 1..Len(job.relocs)
  BY JobTypes, Zenon
<1>2. \A y \in S : y.sym \in 0..Len(job.symbols) /\ y.type \in RelocTypes
  OBVIOUS
<1> HIDE DEF S
<1>3. QED
  BY <1>1, <1>2

-----------------------------------------------------------------------------
(* The plan.                                                                *)

LEMMA UsedIsNat ==
  ASSUME NEW list \in Seq(Import), NEW field \in {"plt", "got"}
  PROVE  Used(list, field) \in Nat
<1> DEFINE T == {i \in DOMAIN list : list[i][field] # None}
<1>1. T \in SUBSET (1..Len(list)) /\ Len(list) \in Nat
  OBVIOUS
<1>2. QED
  BY <1>1, IndicesFinite DEF Used

(* import_intern leaves a list that has the name and takes no GOT slot.     *)
LEMMA Interned ==
  ASSUME TypeInv, NEW s \in Symbols
  PROVE  /\ import_intern(s) \in Seq(Import)
         /\ Used(import_intern(s), "got") = Used(imports, "got")
         /\ \E k \in DOMAIN import_intern(s) :
               Sym(import_intern(s)[k].sym).name = Sym(s).name
<1> DEFINE n == Sym(s).name
           defs == {t \in Symbols : Sym(t).dyn /\ Sym(t).def /\ Sym(t).name = n}
           d == IF defs = {} THEN s ELSE Min(defs)
           e == [sym |-> d, plt |-> None, got |-> None]
<1>1. d \in Symbols /\ Sym(d).name = n
  <2>1. Symbols \subseteq Nat
    BY JobTypes DEF TypeInv
  <2>2. defs # {} => Min(defs) \in defs
    BY <2>1, MinIsIn
  <2>3. QED
    BY <2>2
<1>2. CASE Imported(n) # {}
  BY <1>2 DEF import_intern, Imported, TypeInv
<1>3. CASE Imported(n) = {}
  <2>1. import_intern(s) = Append(imports, e)
    BY <1>3 DEF import_intern
  <2> HIDE DEF d
  <2>2. e \in Import /\ e.got = None
    BY <1>1 DEF Import, None
  <2> HIDE DEF e
  <2>3. /\ Append(imports, e) \in Seq(Import)
        /\ DOMAIN Append(imports, e) = 1..(Len(imports) + 1)
        /\ DOMAIN imports = 1..Len(imports) /\ Len(imports) \in Nat
        /\ \A k \in 1..Len(imports) : Append(imports, e)[k] = imports[k]
        /\ Append(imports, e)[Len(imports) + 1] = e
    BY <2>2 DEF TypeInv
  <2>4. {i \in DOMAIN Append(imports, e) : Append(imports, e)[i]["got"] # None}
          = {i \in DOMAIN imports : imports[i]["got"] # None}
    BY <2>2, <2>3
  <2>5. Sym(e.sym).name = n
    BY <1>1 DEF e
  <2>6. Used(import_intern(s), "got") = Used(imports, "got")
    BY <2>1, <2>4 DEF Used
  <2>7. \E k \in DOMAIN Append(imports, e) : Sym(Append(imports, e)[k].sym).name = n
    <3>1. Len(imports) + 1 \in DOMAIN Append(imports, e)
      BY <2>3
    <3>2. QED
      BY <2>3, <2>5, <3>1
  <2>8. QED
    BY <2>1, <2>3, <2>6, <2>7
<1>4. QED
  BY <1>2, <1>3

(* A slot is taken, and counted, once.                                      *)
LEMMA SlotTaken ==
  ASSUME NEW list \in Seq(Import), NEW i \in DOMAIN list, NEW field \in {"plt", "got"}
  PROVE  LET taken == TakeSlot(list, i, field) IN
         /\ taken.list \in Seq(Import)
         /\ i \in DOMAIN taken.list
         /\ field = "got" => Used(taken.list, "got")
                               = Used(list, "got") + (IF taken.new THEN 1 ELSE 0)
         /\ field = "plt" => Used(taken.list, "got") = Used(list, "got")
<1> DEFINE u == Used(list, field)
           new == [list EXCEPT ![i][field] = u]
           T(l) == {k \in DOMAIN l : l[k]["got"] # None}
<1>1. u \in Nat
  BY UsedIsNat
<1>2. CASE list[i][field] # None
  <2>1. TakeSlot(list, i, field) = [list |-> list, new |-> FALSE]
    BY <1>2 DEF TakeSlot
  <2>2. Used(list, "got") \in Nat
    BY UsedIsNat
  <2>3. QED
    BY <2>1, <2>2
<1>3. CASE list[i][field] = None
  <2>1. TakeSlot(list, i, field).list = new /\ TakeSlot(list, i, field).new = TRUE
    BY <1>3 DEF TakeSlot
  <2> HIDE DEF u
  <2>2. DOMAIN list = 1..Len(list) /\ Len(list) \in Nat
    OBVIOUS
  <2>3. /\ new \in [1..Len(list) -> Import]
        /\ \A k \in DOMAIN list : k # i => new[k] = list[k]
        /\ new[i][field] = u
        /\ field = "plt" => new[i]["got"] = list[i]["got"]
    <3>1. list[i] \in Import /\ list \in [1..Len(list) -> Import]
      BY <2>2
    <3>2. [list[i] EXCEPT ![field] = u] \in Import
      BY <1>1, <3>1 DEF Import
    <3>3. new = [list EXCEPT ![i] = [list[i] EXCEPT ![field] = u]]
      OBVIOUS
    <3>4. /\ [list[i] EXCEPT ![field] = u][field] = u
          /\ field = "plt" => [list[i] EXCEPT ![field] = u]["got"] = list[i]["got"]
      BY <3>1 DEF Import
    <3>5. QED
      BY <2>2, <3>1, <3>2, <3>3, <3>4
  <2>4. new \in Seq(Import) /\ DOMAIN new = DOMAIN list
    BY <2>2, <2>3
  <2> HIDE DEF new
  <2>5. CASE field = "got"
    <3>1. T(new) = T(list) \cup {i} /\ i \notin T(list)
      BY <1>1, <1>3, <2>3, <2>4, <2>5 DEF None
    <3>2. IsFiniteSet(T(list)) /\ Cardinality(T(list)) \in Nat
      BY <2>2, IndicesFinite
    <3>3. Cardinality(T(new)) = Cardinality(T(list)) + 1
      BY <3>1, <3>2, FS_AddElement
    <3>4. QED
      BY <2>1, <2>4, <2>5, <3>3 DEF Used
  <2>6. CASE field = "plt"
    <3>1. T(new) = T(list)
      BY <2>3, <2>4, <2>6
    <3>2. QED
      BY <2>1, <2>4, <2>6, <3>1 DEF Used
  <2>7. QED
    BY <2>5, <2>6
<1>4. QED
  BY <1>2, <1>3

(* What the plan of a relocation counts is what it will push: a GOT slot    *)
(* when it is new, or a word, and only abs64 relocations are words.         *)
LEMMA PlanCounts ==
  ASSUME TypeInv, r \in Relocs
  PROVE  LET x == job.relocs[r]
             p == PlanFor(x)
         IN /\ p.imports \in Seq(Import)
            /\ p.kind \in PlanKinds /\ p.slot \in Int
            /\ p.count \in {0, 1}
            /\ p.kind \in PushingKinds => x.type = "abs64" /\ x.sym # 0
            /\ Used(p.imports, "got") + (IF p.kind \in PushingKinds THEN 1 ELSE 0)
                 = Used(imports, "got") + p.count
<1> DEFINE x == job.relocs[r]
           p == PlanFor(x)
           s == Sym(x.sym)
           list == import_intern(x.sym)
           i == CHOOSE k \in DOMAIN list : Sym(list[k].sym).name = s.name
           Goal(q) == /\ q.imports \in Seq(Import)
                      /\ q.kind \in PlanKinds /\ q.slot \in Int
                      /\ q.count \in {0, 1}
                      /\ q.kind \in PushingKinds => x.type = "abs64" /\ x.sym # 0
                      /\ Used(q.imports, "got") + (IF q.kind \in PushingKinds THEN 1 ELSE 0)
                           = Used(imports, "got") + q.count
           got == TakeSlot(list, i, "got")
           entry == TakeSlot(list, i, "plt")
<1>1. imports \in Seq(Import) /\ Used(imports, "got") \in Nat
  BY UsedIsNat DEF TypeInv
<1>2. x.sym \in 0..Len(job.symbols)
  BY RelocTyped DEF TypeInv
<1>3. Goal(NoPlan) /\ Goal(Refused)
  BY <1>1 DEF NoPlan, Refused, Plan, PushingKinds, PlanKinds, None
<1>4. ASSUME x.sym # 0
      PROVE  /\ list \in Seq(Import) /\ i \in DOMAIN list /\ i \in Int
             /\ Used(list, "got") = Used(imports, "got")
  <2>1. x.sym \in Symbols
    <3>1. job \in Jobs
      BY DEF TypeInv
    <3>2. Symbols = 1..Len(job.symbols) /\ Len(job.symbols) \in Nat
      BY <3>1, JobTypes, Zenon
    <3>3. QED
      BY <1>2, <1>4, <3>2
  <2>2. /\ list \in Seq(Import)
        /\ Used(list, "got") = Used(imports, "got")
        /\ \E k \in DOMAIN list : Sym(list[k].sym).name = s.name
    BY <2>1, Interned
  <2> HIDE DEF list
  <2>3. i \in DOMAIN list
    BY <2>2
  <2>4. QED
    BY <2>2, <2>3
<1>5. ASSUME x.sym # 0, x.type = "abs64"
      PROVE  Goal(Plan("dyn_abs64", i, list, 1)) /\ Goal(Plan("relative", None, imports, 1))
  <2> HIDE DEF i, list, x
  <2>1. QED
    BY <1>1, <1>4, <1>5 DEF Plan, PushingKinds, PlanKinds, None
<1>6. ASSUME x.sym # 0
      PROVE  Goal(Plan("static", None, list, 0))
  <2> HIDE DEF i, list, x
  <2>1. QED
    BY <1>1, <1>4, <1>6 DEF Plan, PushingKinds, PlanKinds, None
<1>7. ASSUME x.sym # 0
      PROVE  Goal(Plan("got", got.list[i].got, got.list, IF got.new THEN 1 ELSE 0))
  <2>1. /\ got.list \in Seq(Import) /\ i \in DOMAIN got.list
        /\ Used(got.list, "got") = Used(list, "got") + (IF got.new THEN 1 ELSE 0)
    BY <1>4, <1>7, SlotTaken
  <2> HIDE DEF got, i, list, x
  <2>2. got.list[i].got \in Int
    <3>1. got.list[i] \in Import
      BY <2>1
    <3>2. QED
      BY <3>1 DEF Import
  <2>3. QED
    BY <1>1, <1>4, <1>7, <2>1, <2>2 DEF Plan, PushingKinds, PlanKinds
<1>8. ASSUME x.sym # 0
      PROVE  Goal(Plan("plt", entry.list[i].plt, entry.list, 0))
  <2>1. /\ entry.list \in Seq(Import) /\ i \in DOMAIN entry.list
        /\ Used(entry.list, "got") = Used(list, "got")
    BY <1>4, <1>8, SlotTaken
  <2> HIDE DEF entry, i, list, x
  <2>2. entry.list[i].plt \in Int
    <3>1. entry.list[i] \in Import
      BY <2>1
    <3>2. QED
      BY <3>1 DEF Import
  <2>3. QED
    BY <1>1, <1>4, <1>8, <2>1, <2>2 DEF Plan, PushingKinds, PlanKinds
<1>9. \/ p \in {NoPlan, Refused}
      \/ /\ x.sym # 0
         /\ \/ /\ x.type = "abs64"
               /\ p \in {Plan("dyn_abs64", i, list, 1), Plan("relative", None, imports, 1)}
            \/ p \in {Plan("static", None, list, 0),
                      Plan("got", got.list[i].got, got.list, IF got.new THEN 1 ELSE 0),
                      Plan("plt", entry.list[i].plt, entry.list, 0)}
  <2> DEFINE weak == ~resolved[x.sym].def /\ s.bind = "weak"
             dyn == resolved[x.sym].dyn \/ (~resolved[x.sym].def /\ job.mode = "shared")
             toGot == Plan("got", got.list[i].got, got.list, IF got.new THEN 1 ELSE 0)
             toPlt == Plan("plt", entry.list[i].plt, entry.list, 0)
             word == Plan("dyn_abs64", i, list, 1)
             relative == Plan("relative", None, imports, 1)
             plain == Plan("static", None, list, 0)
  <2>1. p = IF x.sym = 0 THEN NoPlan
            ELSE IF weak THEN IF x.type = "abs64" THEN word ELSE NoPlan
            ELSE IF ~dyn THEN IF x.type = "abs64" THEN relative ELSE NoPlan
            ELSE CASE x.type = "abs64" -> IF Writable(x) THEN word ELSE Refused
                   [] x.type \in Indirect -> toGot
                   [] x.type \in {"plt32", "call26"} \/ (x.type = "pc32" /\ s.func) -> toPlt
                   [] x.type = "pc32" /\ ~s.func -> Refused
                   [] OTHER -> plain
    BY DEF PlanFor
  <2> HIDE DEF p, x, s, i, list, got, entry, weak, dyn, toGot, toPlt, word, relative, plain
  <2>2. \/ p \in {NoPlan, Refused}
        \/ x.sym # 0 /\ x.type = "abs64" /\ p \in {word, relative}
        \/ x.sym # 0 /\ p \in {toGot, toPlt, plain}
    BY <2>1 DEF Indirect
  <2>3. QED
    BY <2>2 DEF toGot, toPlt, word, relative, plain
<1>10. Goal(p)
  <2> HIDE DEF p, i, list, x, got, entry, Goal
  <2>1. QED
    BY <1>3, <1>5, <1>6, <1>7, <1>8, <1>9
<1>11. QED
  BY <1>10

(* All that bears on the plan, and how the phases follow each other when    *)
(* none of it changes.                                                      *)
PlanKept ==
    /\ job' = job /\ Shape'
    /\ conf' = conf /\ imports' = imports /\ plans' = plans /\ planned' = planned

PhaseMoves ==
    \/ pc' = pc /\ pc # "plan" /\ r' \in {r, r + 1}
    \/ pc' = pc /\ r' = r
    \/ pc = "place" /\ pc' = "plan" /\ r' = 1
    \/ /\ pc = "plan" /\ pc' \in {"exports", "dynsym", "address"}
       /\ Dynamic => r \notin Relocs /\ pc' = "dynsym"
       /\ r' = 1
    \/ /\ pc \in Laying /\ pc' \in (Laying \ {"exports"}) \cup {"tables", "failed"}
       /\ pc' = "thunks" => pc = "exports"
       /\ r' \in {r, 1}
       /\ pc' = "tables" => r' = 1
    \/ /\ pc \in Filling /\ pc' \in Filling \cup {"failed"}
       /\ pc' # "tables"
       /\ r' \in Nat \ {0}

LEMMA Quiet ==
  ASSUME TypeInv, [Next]_vars, ~Configure, ~PlanRelocation
  PROVE  PlanKept /\ PhaseMoves
<1>0. Shape /\ r \in Nat \ {0}
  BY DEF TypeInv
<1> USE DEF PlanKept, Keeps, Fields, Moves, PhaseMoves, Laying, conf, imports, plans, planned
<1>1. CASE PlaceSection \/ SectionsPlaced \/ Planned
  BY <1>0, <1>1, Steps, SMTT(30)
<1>2. CASE BuildExports \/ PlaceThunk \/ BuildImports
  BY <1>0, <1>2, Steps, SMTT(30)
<1>3. CASE ExportSymbol \/ SymbolsExported \/ ImportSymbol
  BY <1>0, <1>3, Steps, SMTT(30)
<1>4. CASE SymbolsImported \/ HashName \/ NamesHashed
  BY <1>0, <1>4, Steps, SMTT(30)
<1>5. CASE PlacePiece \/ PiecesPlaced \/ SymbolAddresses \/ FindEntry
  BY <1>0, <1>5, Steps, SMTT(30)
<1>6. CASE FillTables \/ TablesFilled \/ Relocate \/ Relocated
  BY <1>0, <1>6 DEF FillTables, TablesFilled, Relocate, Relocated, Filling, Shape
<1>7. CASE EmitElf \/ EmitPe
  BY <1>0, <1>7 DEF EmitElf, EmitPe, Filling, Shape
<1>8. CASE UNCHANGED vars
  BY <1>0, <1>8 DEF vars, layoutVars, Shape
<1>9. QED
  BY <1>1, <1>2, <1>3, <1>4, <1>5, <1>6, <1>7, <1>8 DEF Next, LayoutNext, Stopped

(* The part of the type that belongs to the plan.                           *)
PlanTypes == imports \in Seq(Import) /\ plans \in Seq(RelocPlan)

LEMMA PushingIsFinite ==
  ASSUME NEW n \in Nat
  PROVE  /\ IsFiniteSet(Pushing(n)) /\ Cardinality(Pushing(n)) \in Nat
         /\ IsFiniteSet(GotUpTo(n)) /\ Cardinality(GotUpTo(n)) \in Nat
  BY IndicesFinite DEF Pushing, GotUpTo

LEMMA PlanStep ==
  ASSUME TypeInv, PlanInv, [Next]_vars
  PROVE  PlanTypes' /\ PlanInv'
<1>0. /\ job \in Jobs /\ r \in Nat \ {0} /\ Shape
      /\ imports \in Seq(Import) /\ plans \in Seq(RelocPlan) /\ pc \in Phases
  BY DEF TypeInv
<1>1. Relocs = 1..Len(job.relocs) /\ Len(job.relocs) \in Nat
  BY <1>0, JobTypes, Zenon
<1>2. CASE Configure
  <2>1. /\ Moves("configure", {"place", "failed"}, {"conf", "out"}) /\ r' = r
    BY <1>0, <1>2, Steps
  <2>2. /\ job' = job /\ imports' = imports /\ plans' = plans /\ planned' = planned
        /\ pc = "configure" /\ pc' \in {"place", "failed"}
    BY <2>1 DEF Moves, Keeps, Fields, imports, plans, planned
  <2>3. plans = <<>>
    BY <2>2 DEF PlanInv, Early
  <2>4. PlanTypes'
    BY <1>0, <2>2 DEF PlanTypes, Import, Symbols
  <2>5. /\ Used(imports, "got")' = Used(imports, "got")
        /\ Pushing(Len(plans))' = Pushing(Len(plans))
    BY <2>2 DEF Used, Pushing
  <2>6. plans' = <<>> /\ (plans' = <<>> => imports' = <<>>)
    BY <2>2, <2>3 DEF PlanInv
  <2>7. (planned = Used(imports, "got") + Cardinality(Pushing(Len(plans))))'
    BY <2>2, <2>5 DEF PlanInv
  <2>8. QED
    BY <2>2, <2>4, <2>6, <2>7 DEF PlanInv, Early, Laying, Filling
<1>3. CASE PlanRelocation
  <2> DEFINE x == job.relocs[r]
             p == PlanFor(x)
             e == [kind |-> p.kind, slot |-> p.slot]
  <2>1. Moves("plan", {"plan", "failed"}, {"plans", "imports", "planned"})
          /\ r \in Relocs /\ r' = r + 1 /\ Dynamic
    BY <1>0, <1>3, Steps
  <2>2. /\ job' = job /\ conf' = conf /\ pc = "plan" /\ pc' \in {"plan", "failed"}
        /\ r \in Relocs /\ r' = r + 1 /\ Dynamic /\ (Dynamic')
    BY <2>1 DEF Moves, Keeps, Fields, conf, Dynamic, Pe
  <2>3. /\ imports' = p.imports
        /\ plans' = Append(plans, e)
        /\ planned' = planned + p.count
    BY <1>0, <1>3 DEF PlanRelocation, Shape, Fields, imports, plans, planned
  <2>4. /\ p.imports \in Seq(Import)
        /\ p.kind \in PlanKinds /\ p.slot \in Int
        /\ p.count \in {0, 1}
        /\ p.kind \in PushingKinds => x.type = "abs64" /\ x.sym # 0
        /\ Used(p.imports, "got") + (IF p.kind \in PushingKinds THEN 1 ELSE 0)
             = Used(imports, "got") + p.count
    BY <2>2, PlanCounts
  <2>5. /\ Used(p.imports, "got") \in Nat /\ Used(imports, "got") \in Nat
    BY <1>0, <2>4, UsedIsNat
  <2> HIDE DEF p, x
  <2>6. e \in RelocPlan /\ e.kind = p.kind
    BY <2>4 DEF RelocPlan
  <2> HIDE DEF e
  <2>7. /\ plans' \in Seq(RelocPlan) /\ Len(plans') = Len(plans) + 1
        /\ DOMAIN plans = 1..Len(plans) /\ Len(plans) \in Nat
        /\ DOMAIN plans' = 1..(Len(plans) + 1)
        /\ \A k \in 1..Len(plans) : plans'[k] = plans[k]
        /\ plans'[Len(plans) + 1] = e
    BY <1>0, <2>3, <2>6
  <2>8. Len(plans) = r - 1
    BY <2>2 DEF PlanInv
  <2>9. PlanTypes'
    BY <2>2, <2>3, <2>4, <2>7 DEF PlanTypes, Import, Symbols
  <2>10. Pushing(Len(plans))' = IF p.kind \in PushingKinds
                                THEN Pushing(Len(plans)) \cup {r} ELSE Pushing(Len(plans))
    BY <1>0, <2>6, <2>7, <2>8 DEF Pushing
  <2>11. /\ IsFiniteSet(Pushing(Len(plans))) /\ Cardinality(Pushing(Len(plans))) \in Nat
         /\ r \notin Pushing(Len(plans))
    <3>1. r \notin Pushing(Len(plans))
      BY <1>0, <2>8 DEF Pushing
    <3>2. QED
      BY <2>7, <3>1, PushingIsFinite
  <2> DEFINE pushes == IF p.kind \in PushingKinds THEN 1 ELSE 0
             P == Pushing(Len(plans))
  <2>12. Cardinality(P') = Cardinality(P) + pushes
    <3>1. Cardinality(P \cup {r}) = Cardinality(P) + 1
      BY <2>11, FS_AddElement
    <3>2. QED
      BY <2>10, <2>11, <3>1
  <2>13. (planned = Used(imports, "got") + Cardinality(Pushing(Len(plans))))'
    <3>1. planned = Used(imports, "got") + Cardinality(Pushing(Len(plans)))
      BY DEF PlanInv
    <3>2. Used(imports, "got")' = Used(p.imports, "got")
      BY <2>3 DEF Used
    <3>3. Used(p.imports, "got") + pushes = Used(imports, "got") + p.count
      BY <2>4
    <3>4. pushes \in Nat /\ p.count \in Nat
      BY <2>4
    <3> HIDE DEF pushes
    <3>5. planned + p.count = Used(p.imports, "got") + (Cardinality(P) + pushes)
      <4> DEFINE u == Used(imports, "got")
                 v == Used(p.imports, "got")
                 w == Cardinality(P)
                 c == p.count
      <4>1. /\ planned = u + w /\ v + pushes = u + c
            /\ u \in Nat /\ v \in Nat /\ w \in Nat /\ c \in Nat /\ pushes \in Nat
        BY <2>5, <2>11, <3>1, <3>3, <3>4
      <4> HIDE DEF u, v, w, c
      <4>2. planned + c = v + (w + pushes)
        BY <4>1
      <4>3. QED
        BY <4>2 DEF c, v, w
    <3>6. QED
      BY <2>3, <2>12, <3>2, <3>5
  <2>14. (\A k \in DOMAIN plans : plans[k].kind \in PushingKinds =>
             job.relocs[k].type = "abs64" /\ job.relocs[k].sym # 0)'
    <3>1. \A k \in DOMAIN plans : plans[k].kind \in PushingKinds =>
             job.relocs[k].type = "abs64" /\ job.relocs[k].sym # 0
      BY <2>2 DEF PlanInv
    <3>2. p.kind \in PushingKinds => job.relocs[r].type = "abs64" /\ job.relocs[r].sym # 0
      BY <2>4 DEF x
    <3>3. r = Len(plans) + 1
      BY <1>0, <2>8
    <3>4. QED
      BY <2>2, <2>6, <2>7, <3>1, <3>2, <3>3
  <2>15. plans' # <<>>
    BY <2>7
  <2>16. QED
    BY <1>1, <2>2, <2>7, <2>8, <2>9, <2>13, <2>14, <2>15 DEF PlanInv, Early, Laying, Filling
<1>4. CASE ~Configure /\ ~PlanRelocation
  <2>1. PlanKept /\ PhaseMoves
    BY <1>4, Quiet
  <2>2. /\ job' = job /\ conf' = conf /\ imports' = imports /\ plans' = plans
        /\ planned' = planned
    BY <2>1 DEF PlanKept
  <2>3. PlanTypes'
    BY <1>0, <2>2 DEF PlanTypes, Import, Symbols
  <2>4. /\ Used(imports, "got")' = Used(imports, "got")
        /\ Pushing(Len(plans))' = Pushing(Len(plans))
        /\ Dynamic' <=> Dynamic
    BY <2>2 DEF Used, Pushing, Dynamic, Pe
  <2>5. (planned = Used(imports, "got") + Cardinality(Pushing(Len(plans))))'
    BY <2>2, <2>4 DEF PlanInv
  <2>6. /\ pc' \in Early => pc \in Early
        /\ pc' \in {"exports", "thunks"} => ~Dynamic
        /\ pc' = "plan" => \/ pc = "place" /\ r' = 1
                           \/ pc = "plan" /\ r' = r
        /\ pc' \in Laying \cup Filling => \/ pc \in Laying \cup Filling
                                          \/ pc = "plan" /\ (Dynamic => r \notin Relocs)
        /\ pc = "failed" => pc' = "failed"
    BY <2>1, SMTT(30) DEF PhaseMoves, PlanInv, Early, Laying, Filling
  <2>7. /\ (pc \in Early => plans = <<>>)'
        /\ (pc \in {"exports", "thunks"} => ~Dynamic)'
        /\ (~Dynamic => plans = <<>>)'
        /\ (plans = <<>> => imports = <<>>)'
    BY <2>2, <2>4, <2>6 DEF PlanInv
  <2>8. /\ (pc = "plan" => r <= Len(job.relocs) + 1)'
        /\ (pc = "plan" /\ Dynamic => Len(plans) = r - 1)'
    BY <1>1, <2>2, <2>4, <2>6 DEF PlanInv, Early
  <2>9. (pc \in Laying \cup Filling /\ Dynamic => Len(plans) = Len(job.relocs))'
    BY <1>0, <1>1, <2>2, <2>4, <2>6 DEF PlanInv
  <2>10. (pc # "failed" =>
            \A k \in DOMAIN plans : plans[k].kind \in PushingKinds =>
               job.relocs[k].type = "abs64" /\ job.relocs[k].sym # 0)'
    BY <2>2, <2>6 DEF PlanInv
  <2>11. QED
    BY <2>3, <2>5, <2>7, <2>8, <2>9, <2>10 DEF PlanInv
<1>5. QED
  BY <1>2, <1>3, <1>4

-----------------------------------------------------------------------------
(* .rela.dyn.                                                               *)

Before_tables == Early \cup {"plan"} \cup Laying

LEMMA LayoutMoves ==
  ASSUME Shape, LayoutNext
  PROVE  /\ job' = job /\ Shape' /\ r' \in {r, r + 1, 1}
         /\ pc \in Before_tables /\ pc' \in Before_tables \cup {"tables", "failed"}
         /\ pc' = "tables" => r' = 1
<1> USE DEF Moves, Before_tables, Early, Laying
<1>1. CASE Configure \/ PlaceSection \/ SectionsPlaced \/ PlanRelocation \/ Planned
  BY <1>1, Steps, SMTT(30)
<1>2. CASE BuildExports \/ PlaceThunk \/ BuildImports
  BY <1>2, Steps, SMTT(30)
<1>3. CASE ExportSymbol \/ SymbolsExported \/ ImportSymbol
  BY <1>3, Steps, SMTT(30)
<1>4. CASE SymbolsImported \/ HashName \/ NamesHashed
  BY <1>4, Steps, SMTT(30)
<1>5. CASE PlacePiece \/ PiecesPlaced \/ SymbolAddresses \/ FindEntry
  BY <1>5, Steps, SMTT(30)
<1>6. QED
  BY <1>1, <1>2, <1>3, <1>4, <1>5 DEF LayoutNext

(* A relocation that succeeds pushes exactly when its plan says so.         *)
LEMMA ApplyPushes ==
  ASSUME TypeInv, PlanInv, pc = "relocate", r \in Relocs
  PROVE  LET result == Apply(job.relocs[r], PlanOf(r)) IN
         /\ result.ok \in BOOLEAN
         /\ result.rela = <<>> \/ \E e : result.rela = <<e>>
         /\ result.ok => (result.rela = <<>> <=> r \notin Pushing(r))
<1> DEFINE x == job.relocs[r]
           plan == PlanOf(r)
           Pushes(q) == q.ok = TRUE /\ \E e : q.rela = <<e>>
           Silent(q) == q.ok \in BOOLEAN /\ q.rela = <<>>
<1>0. /\ job \in Jobs /\ r \in Nat \ {0} /\ plans \in Seq(RelocPlan)
  BY DEF TypeInv
<1>1. Relocs = 1..Len(job.relocs) /\ Len(job.relocs) \in Nat
  BY <1>0, JobTypes, Zenon
<1>2. plans # <<>> => Dynamic /\ r \in DOMAIN plans
  <2>1. plans # <<>> => Dynamic /\ Len(plans) = Len(job.relocs)
    BY DEF PlanInv, Filling
  <2>2. QED
    BY <1>0, <1>1, <2>1
<1>3. plan.kind \in PushingKinds <=> r \in Pushing(r)
  BY <1>0, <1>2 DEF PlanOf, Pushing, PushingKinds
<1>4. plan.kind \in PushingKinds =>
        x.type = "abs64" /\ x.sym # 0 /\ x.sym \notin Redirected
  <2>1. plan.kind \in PushingKinds => x.type = "abs64" /\ x.sym # 0 /\ plans # <<>>
    BY <1>2 DEF PlanOf, PlanInv, PushingKinds
  <2>2. plan.kind \in PushingKinds => ~Pe
    BY <1>2, <2>1 DEF Dynamic
  <2>3. ~Pe => Redirected = {}
    BY DEF Redirected
  <2>4. QED
    BY <2>1, <2>2, <2>3
<1>5. Silent(Failed) /\ Failed.ok = FALSE /\ Silent(Skipped) /\ \A v : Silent(Wrote(v))
  BY DEF Failed, Skipped, Wrote
<1>6. Absolute(x, plan) = Failed
        \/ /\ plan.kind \in PushingKinds /\ ~(~A64 /\ x.sym \in Redirected)
           /\ Pushes(Absolute(x, plan))
        \/ /\ plan.kind \notin PushingKinds \/ (~A64 /\ x.sym \in Redirected)
           /\ Silent(Absolute(x, plan))
  BY <1>5 DEF Absolute, Wrote, PushingKinds
<1>7. x.type \notin {"none", "abs64"} => Silent(Patch(x, plan))
  <2>1. x.type \in RelocTypes
    BY <1>0, RelocTyped
  <2> HIDE DEF x, plan
  <2>2. x.type \notin {"none", "abs64"} =>
          Patch(x, plan) = Failed \/ \E v : Patch(x, plan) = Wrote(v)
    BY <2>1 DEF Patch, RelocTypes
  <2>3. QED
    BY <1>5, <2>2
<1>8. \/ Apply(x, plan) = Failed
      \/ /\ x.type = "none" \/ (x.sym # 0 /\ x.type # "abs64")
         /\ Silent(Apply(x, plan))
      \/ x.type = "abs64" /\ Apply(x, plan) = Absolute(x, plan)
  <2> HIDE DEF x, plan
  <2>1. QED
    BY <1>5, <1>7 DEF Apply
<1>9. QED
  <2> HIDE DEF x, plan
  <2>1. Failed.ok = FALSE /\ Failed.rela = <<>>
    BY <1>5
  <2>2. \A e : <<e>> # <<>>
    OBVIOUS
  <2>3. CASE Apply(x, plan) = Failed
    BY <2>1, <2>3 DEF x, plan
  <2>4. CASE plan.kind \in PushingKinds /\ Apply(x, plan) # Failed
    <3>1. Pushes(Apply(x, plan))
      BY <1>4, <1>6, <1>8, <2>4
    <3>2. PICK e : Apply(x, plan).rela = <<e>>
      BY <3>1
    <3>3. Apply(x, plan).rela # <<>>
      BY <2>2, <3>2
    <3>4. Apply(x, plan).ok \in BOOLEAN /\ r \in Pushing(r)
      BY <1>3, <2>4, <3>1
    <3>5. QED
      BY <3>2, <3>3, <3>4, Zenon DEF x, plan
  <2>5. CASE plan.kind \notin PushingKinds /\ Apply(x, plan) # Failed
    <3>1. Silent(Apply(x, plan))
      BY <1>6, <1>8, <2>5
    <3>2. r \notin Pushing(r)
      BY <1>3, <2>5
    <3>3. QED
      BY <3>1, <3>2, Zenon DEF x, plan
  <2>6. QED
    BY <2>3, <2>4, <2>5

RelaTypes == IsSeq(rela) /\ ok \in BOOLEAN

LEMMA EmptyCounts ==
  Cardinality(Pushing(0)) = 0 /\ Cardinality(GotUpTo(0)) = 0
<1>1. Pushing(0) = {} /\ GotUpTo(0) = {}
  BY DEF Pushing, GotUpTo
<1>2. QED
  BY <1>1, FS_EmptySet

LEMMA RelaStep ==
  ASSUME TypeInv, PlanInv, RelaInv, [Next]_vars
  PROVE  RelaTypes' /\ RelaInv'
<1>0. /\ job \in Jobs /\ r \in Nat \ {0} /\ Shape /\ IsSeq(rela) /\ ok \in BOOLEAN
      /\ imports \in Seq(Import) /\ plans \in Seq(RelocPlan) /\ pc \in Phases
  BY DEF TypeInv
<1>1. /\ Relocs = 1..Len(job.relocs) /\ Len(job.relocs) \in Nat
      /\ DOMAIN imports = 1..Len(imports) /\ Len(imports) \in Nat
      /\ Len(plans) \in Nat /\ Len(rela) \in Nat
  <2>1. Relocs = 1..Len(job.relocs) /\ Len(job.relocs) \in Nat
    BY <1>0, JobTypes, Zenon
  <2>2. QED
    BY <1>0, <2>1 DEF IsSeq
<1>2. Used(imports, "got") \in Nat /\ Used(imports, "got") = Cardinality(GotUpTo(Len(imports)))
  <2>1. {i \in DOMAIN imports : imports[i]["got"] # None} = GotUpTo(Len(imports))
    BY <1>1 DEF GotUpTo
  <2>2. QED
    BY <1>0, <2>1, UsedIsNat DEF Used
<1>3. \A n \in {r - 1, Len(imports), Len(plans)} :
         /\ IsFiniteSet(Pushing(n)) /\ Cardinality(Pushing(n)) \in Nat
         /\ IsFiniteSet(GotUpTo(n)) /\ Cardinality(GotUpTo(n)) \in Nat
  <2>1. {r - 1, Len(imports), Len(plans)} \subseteq Nat
    BY <1>0, <1>1
  <2>2. QED
    BY <2>1, PushingIsFinite
<1>4. planned = Used(imports, "got") + Cardinality(Pushing(Len(plans)))
  BY DEF PlanInv
<1>5. CASE LayoutNext /\ UNCHANGED imageVars
  <2>1. /\ pc \in Before_tables /\ pc' \in Before_tables \cup {"tables", "failed"}
        /\ pc' = "tables" => r' = 1
    BY <1>0, <1>5, LayoutMoves
  <2>2. rela' = rela /\ ok' = ok /\ rela = <<>> /\ ok
    BY <1>5, <2>1 DEF imageVars, RelaInv, Before_tables
  <2>3. RelaTypes'
    BY <1>0, <2>2 DEF RelaTypes, IsSeq, Range
  <2>4. ASSUME pc' = "tables"
        PROVE  (r <= Len(imports) + 1 /\ Len(rela) = Cardinality(GotUpTo(r - 1)) /\ ok)'
    <3>1. r' = 1 /\ Len(rela') = 0 /\ Cardinality(GotUpTo(0)') = 0
      <4>1. GotUpTo(0)' = {}
        BY DEF GotUpTo
      <4>2. QED
        BY <2>1, <2>2, <2>4, <4>1, FS_EmptySet
    <3>2. Len(imports') \in Nat
      BY PlanStep DEF PlanTypes
    <3>3. GotUpTo(r - 1)' = GotUpTo(0)'
      BY <3>1 DEF GotUpTo
    <3>4. QED
      BY <2>2, <3>1, <3>2, <3>3
  <2>5. QED
    BY <2>1, <2>2, <2>3, <2>4 DEF RelaInv, Before_tables, Early, Laying
<1>6. CASE FillTables
  <2>1. /\ pc = "tables" /\ r \in 1..Len(imports) /\ r' = r + 1
        /\ job' = job /\ ctx' = ctx /\ ok' = ok
        /\ pc' \in {"tables", "failed"}
    BY <1>1, <1>6 DEF FillTables
  <2>2. imports' = imports /\ GotUpTo(r - 1)' = GotUpTo(r)
    <3>1. imports' = imports /\ r' - 1 = r
      BY <1>0, <2>1 DEF imports
    <3>2. QED
      BY <3>1 DEF GotUpTo
  <2>3. ok /\ Len(rela) = Cardinality(GotUpTo(r - 1))
    BY <2>1 DEF RelaInv
  <2>4. CASE imports[r].got = None
    <3>1. GotUpTo(r) = GotUpTo(r - 1)
      BY <1>0, <1>1, <2>1, <2>4 DEF GotUpTo
    <3>2. rela' = rela
      BY <1>6, <2>4 DEF FillTables
    <3>3. QED
      BY <1>0, <1>1, <2>1, <2>2, <2>3, <3>1, <3>2 DEF RelaInv, RelaTypes, IsSeq,
         Early, Laying, Filling
  <2>5. CASE imports[r].got # None
    <3>1. GotUpTo(r) = GotUpTo(r - 1) \cup {r} /\ r \notin GotUpTo(r - 1)
      BY <1>0, <1>1, <2>1, <2>5 DEF GotUpTo
    <3>2. Cardinality(GotUpTo(r)) = Cardinality(GotUpTo(r - 1)) + 1
      BY <1>0, <1>3, <3>1, FS_AddElement
    <3>3. planned > 0
      <4>1. GotUpTo(Len(imports)) # {}
        BY <1>1, <2>1, <2>5 DEF GotUpTo
      <4>2. Cardinality(GotUpTo(Len(imports))) # 0
        BY <1>1, <1>3, <4>1, FS_EmptySet
      <4>3. Cardinality(Pushing(Len(plans))) \in Nat
        BY <1>1, <1>3
      <4>4. QED
        BY <1>2, <1>4, <4>2, <4>3
    <3>4. \/ pc' = "failed" /\ rela' = rela
          \/ pc' = "tables" /\ rela' = Append(rela, GlobDat(r))
      BY <1>6, <2>5, <3>3 DEF FillTables
    <3>5. IsSeq(rela') /\ (pc' = "tables" => Len(rela') = Len(rela) + 1)
      BY <1>0, <3>4, AppendIsSeq
    <3>6. QED
      BY <1>0, <1>1, <2>1, <2>2, <2>3, <3>2, <3>5 DEF RelaInv, RelaTypes,
         Early, Laying, Filling
  <2>6. QED
    BY <2>4, <2>5
<1>7. CASE TablesFilled
  <2>1. /\ pc = "tables" /\ r \notin 1..Len(imports) /\ r' = 1 /\ pc' = "relocate"
        /\ ctx' = ctx /\ job' = job /\ rela' = rela /\ ok' = ok
    BY <1>1, <1>7 DEF TablesFilled, imageVars
  <2>2. r - 1 = Len(imports) /\ Len(rela) = Cardinality(GotUpTo(r - 1)) /\ ok
    BY <1>0, <1>1, <2>1 DEF RelaInv
  <2>3. /\ Used(imports, "got")' = Used(imports, "got")
        /\ Pushing(r - 1)' = Pushing(0)
    <3>1. imports' = imports /\ plans' = plans /\ r' - 1 = 0
      BY <2>1 DEF imports, plans
    <3>2. QED
      BY <3>1 DEF Used, Pushing
  <2>4. Len(rela') = (Used(imports, "got") + Cardinality(Pushing(r - 1)))'
    BY <1>2, <2>1, <2>2, <2>3, EmptyCounts
  <2>5. QED
    BY <1>0, <1>1, <2>1, <2>2, <2>4 DEF RelaInv, RelaTypes, IsSeq, Early, Laying, Filling
<1>8. CASE Relocate
  <2> DEFINE result == Apply(job.relocs[r], PlanOf(r))
  <2>1. /\ pc = "relocate" /\ pc' = pc /\ r \in Relocs /\ r' = r + 1
        /\ job' = job /\ ctx' = ctx
        /\ ok' = (ok /\ result.ok) /\ rela' = rela \o result.rela
    BY <1>8 DEF Relocate
  <2>2. /\ result.ok \in BOOLEAN
        /\ result.rela = <<>> \/ \E e : result.rela = <<e>>
        /\ result.ok => (result.rela = <<>> <=> r \notin Pushing(r))
    BY <2>1, ApplyPushes
  <2> HIDE DEF result
  <2>3. /\ IsSeq(rela') /\ ok' \in BOOLEAN
        /\ Len(rela') = IF result.rela = <<>> THEN Len(rela) ELSE Len(rela) + 1
    <3>1. CASE result.rela = <<>>
      <4>1. rela \o <<>> = rela
        BY <1>0 DEF IsSeq
      <4>2. QED
        BY <1>0, <2>1, <2>2, <3>1, <4>1
    <3>2. CASE result.rela # <<>>
      <4>1. PICK e : result.rela = <<e>>
        BY <2>2, <3>2
      <4>2. rela \o <<e>> = Append(rela, e)
        BY <1>0 DEF IsSeq
      <4>3. QED
        BY <1>0, <2>1, <2>2, <3>2, <4>1, <4>2, AppendIsSeq
    <3>3. QED
      BY <3>1, <3>2
  <2>4. Pushing(r) = IF r \in Pushing(r) THEN Pushing(r - 1) \cup {r} ELSE Pushing(r - 1)
    BY <1>0 DEF Pushing
  <2>5. r \notin Pushing(r - 1)
    BY <1>0 DEF Pushing
  <2>6. Cardinality(Pushing(r))
          = Cardinality(Pushing(r - 1)) + (IF r \in Pushing(r) THEN 1 ELSE 0)
    <3>1. Cardinality(Pushing(r - 1) \cup {r}) = Cardinality(Pushing(r - 1)) + 1
      BY <1>0, <1>3, <2>5, FS_AddElement
    <3>2. Cardinality(Pushing(r - 1)) \in Nat
      BY <1>0, <1>3
    <3>3. CASE r \in Pushing(r)
      BY <2>4, <3>1, <3>3
    <3>4. CASE r \notin Pushing(r)
      BY <2>4, <3>2, <3>4
    <3>5. QED
      BY <3>3, <3>4
  <2>7. ASSUME ok'
        PROVE  Len(rela') = Used(imports, "got") + Cardinality(Pushing(r))
    <3>1. /\ Len(rela) = Used(imports, "got") + Cardinality(Pushing(r - 1))
          /\ result.rela = <<>> <=> r \notin Pushing(r)
      BY <2>1, <2>2, <2>7 DEF RelaInv
    <3>2. Cardinality(Pushing(r - 1)) \in Nat
      BY <1>0, <1>3
    <3>3. QED
      BY <1>2, <2>3, <2>6, <3>1, <3>2
  <2>8. /\ Used(imports, "got")' = Used(imports, "got")
        /\ Pushing(r - 1)' = Pushing(r)
    BY <1>0, <2>1 DEF imports, Used, Pushing, plans
  <2>9. QED
    BY <1>0, <1>1, <2>1, <2>3, <2>7, <2>8 DEF RelaInv, RelaTypes, Early, Laying, Filling
<1>9. CASE Relocated
  <2>1. /\ pc = "relocate" /\ r \notin Relocs /\ pc' \in {"emit", "failed"}
        /\ pc' = "emit" => ok
        /\ ctx' = ctx /\ rela' = rela /\ ok' = ok /\ planned' = planned
    BY <1>9 DEF Relocated, imageVars, planned
  <2>2. r - 1 = Len(job.relocs)
    BY <1>0, <1>1, <2>1 DEF RelaInv
  <2>3. Pushing(Len(job.relocs)) = Pushing(Len(plans))
    <3>1. plans = <<>> \/ Len(plans) = Len(job.relocs)
      BY <2>1 DEF PlanInv, Filling
    <3>2. plans = <<>> => Pushing(Len(job.relocs)) = {} /\ Pushing(Len(plans)) = {}
      BY DEF Pushing
    <3>3. QED
      BY <3>1, <3>2
  <2>4. ok => Len(rela) = planned
    BY <1>4, <2>1, <2>2, <2>3 DEF RelaInv
  <2>5. QED
    BY <1>0, <2>1, <2>4 DEF RelaInv, RelaTypes, IsSeq, Early, Laying, Filling
<1>10. CASE EmitElf \/ EmitPe
  <2>1. /\ pc = "emit" /\ pc' = "done" /\ rela' = rela /\ ok' = ok /\ planned' = planned
    BY <1>10 DEF EmitElf, EmitPe, planned
  <2>2. QED
    BY <1>0, <2>1 DEF RelaInv, RelaTypes, IsSeq, Early, Laying, Filling
<1>11. CASE UNCHANGED vars
  <2>1. /\ pc' = pc /\ r' = r /\ rela' = rela /\ ok' = ok /\ planned' = planned
        /\ imports' = imports /\ plans' = plans /\ job' = job
    BY <1>11 DEF vars, layoutVars, imageVars, planned, imports, plans
  <2>2. /\ Used(imports, "got")' = Used(imports, "got")
        /\ Pushing(r - 1)' = Pushing(r - 1) /\ GotUpTo(r - 1)' = GotUpTo(r - 1)
    BY <2>1 DEF Used, Pushing, GotUpTo
  <2>3. QED
    BY <1>0, <2>1, <2>2 DEF RelaInv, RelaTypes, IsSeq
<1>12. QED
  BY <1>5, <1>6, <1>7, <1>8, <1>9, <1>10, <1>11 DEF Next, Stopped

-----------------------------------------------------------------------------
CoreInv == TypeInv /\ PlanInv /\ RelaInv

LEMMA CoreInit ==
  ASSUME Init
  PROVE  CoreInv
<1>1. /\ job \in Jobs /\ pc = "configure" /\ r = 1 /\ Shape
      /\ imports = <<>> /\ plans = <<>> /\ planned = 0 /\ conf.uses_dynamic = FALSE
      /\ rela = <<>> /\ ok = TRUE
  BY DEF Init, LayoutInit, Shape, Fields, imports, plans, planned, conf
<1>2. Used(imports, "got") = 0 /\ Pushing(Len(plans)) = {}
  <2>1. {i \in DOMAIN imports : imports[i]["got"] # None} = {}
    BY <1>1
  <2>2. QED
    BY <1>1, <2>1, FS_EmptySet DEF Used, Pushing
<1>3. planned = Used(imports, "got") + Cardinality(Pushing(Len(plans)))
  BY <1>1, <1>2, FS_EmptySet
<1>4. TypeInv
  BY <1>1 DEF TypeInv, Phases, Early, IsSeq, Range
<1>5. PlanInv
  BY <1>1, <1>3 DEF PlanInv, Early, Laying, Filling, Dynamic
<1>6. RelaInv
  BY <1>1 DEF RelaInv, Early, Laying, Filling
<1>7. QED
  BY <1>4, <1>5, <1>6 DEF CoreInv

LEMMA CoreStep ==
  ASSUME CoreInv, [Next]_vars
  PROVE  CoreInv'
<1>0. TypeInv /\ PlanInv /\ RelaInv
  BY DEF CoreInv
<1>1. PlanTypes' /\ PlanInv' /\ RelaTypes' /\ RelaInv'
  BY <1>0, PlanStep, RelaStep
<1>2. Shape /\ job \in Jobs /\ r \in Nat \ {0} /\ pc \in Phases
  BY <1>0 DEF TypeInv
<1>3. job' = job /\ Shape' /\ r' \in Nat \ {0} /\ pc' \in Phases
  <2>1. CASE Configure \/ PlanRelocation
    BY <1>2, <2>1, Steps DEF Moves, Phases, Early
  <2>2. CASE ~Configure /\ ~PlanRelocation
    <3>1. PlanKept /\ PhaseMoves
      BY <1>0, <2>2, Quiet
    <3>2. QED
      BY <1>2, <3>1, SMTT(30) DEF PlanKept, PhaseMoves, Phases, Early, Laying, Filling
  <2>3. QED
    BY <2>1, <2>2
<1>4. TypeInv'
  BY <1>1, <1>2, <1>3 DEF TypeInv, PlanTypes, RelaTypes
<1>5. QED
  BY <1>1, <1>4 DEF CoreInv

LEMMA CoreCorrect == Spec => []CoreInv
  BY CoreInit, CoreStep, PTL DEF Spec

(* .rela.dyn of a finished image has exactly the relocations that           *)
(* nylink_layout_internal counted in rela_dyn_count, although               *)
(* nylink_apply_relocations_internal decides anew what to push.             *)
THEOREM PlannedExactlyCorrect == Spec => []PlannedExactly
<1>1. CoreInv => PlannedExactly
  BY DEF CoreInv, RelaInv, PlannedExactly
<1>2. QED
  BY <1>1, CoreCorrect, PTL

-----------------------------------------------------------------------------
(* Sizes are natural numbers.                                               *)

(* align_up_checked does not go back, whatever the alignment.               *)
LEMMA AlignUpGrows ==
  ASSUME NEW v \in Nat, NEW a \in Nat
  PROVE  AlignUp(v, a) \in Nat /\ v <= AlignUp(v, a)
<1>1. CASE a <= 1
  BY <1>1 DEF AlignUp
<1>2. CASE a > 1
  <2> DEFINE n == v + a - 1
             q == n \div a
  <2>1. n \in Nat /\ a \in Nat \ {0}
    BY <1>2
  <2> HIDE DEF n
  <2>2. q \in Nat /\ n = a * q + (n % a) /\ n % a \in 0..(a - 1)
    BY <2>1
  <2> HIDE DEF q
  <2>3. a * q = q * a /\ q * a \in Nat
    BY <2>1, <2>2
  <2>4. v <= q * a
    BY <2>1, <2>2, <2>3 DEF n
  <2>5. QED
    BY <1>2, <2>3, <2>4 DEF AlignUp, n, q
<1>3. QED
  BY <1>1, <1>2

LEMMA ImageFinite ==
  ASSUME NEW S, IsFiniteSet(S), NEW f
  PROVE  IsFiniteSet({f[x] : x \in S})
<1> DEFINE T == {f[x] : x \in S}
           g == [x \in S |-> f[x]]
<1>1. g \in Surjection(S, T)
  BY DEF Surjection
<1>2. QED
  BY <1>1, FS_Surjection

(* What SumOf counts is finite when every summand is a natural number.      *)
LEMMA UnitsFinite ==
  ASSUME NEW S, IsFiniteSet(S), NEW g, \A x \in S : g[x] \in Nat
  PROVE  Cardinality(UNION {{<<x, unit>> : unit \in 1..g[x]} : x \in S}) \in Nat
<1> DEFINE units == [x \in S |-> {<<x, unit>> : unit \in 1..g[x]}]
<1>1. \A x \in S : IsFiniteSet(units[x])
  <2> TAKE x \in S
  <2> DEFINE pair == [unit \in 1..g[x] |-> <<x, unit>>]
  <2>1. IsFiniteSet(1..g[x])
    BY FS_Interval
  <2>2. IsFiniteSet({pair[unit] : unit \in 1..g[x]})
    BY <2>1, ImageFinite
  <2>3. {pair[unit] : unit \in 1..g[x]} = units[x]
    OBVIOUS
  <2>4. QED
    BY <2>2, <2>3
<1>2. IsFiniteSet({units[x] : x \in S})
  BY ImageFinite
<1>3. IsFiniteSet(UNION {units[x] : x \in S})
  BY <1>1, <1>2, FS_UNION
<1>4. UNION {units[x] : x \in S} = UNION {{<<x, unit>> : unit \in 1..g[x]} : x \in S}
  OBVIOUS
<1>5. QED
  BY <1>3, <1>4, FS_CardinalityType

(* The names of a link have lengths.                                        *)
LEMMA LengthIsNat ==
  ASSUME job \in Jobs, NEW n \in NamesOf(job)
  PROVE  Length[n] \in Nat /\ Hash[n] \in Nat
<1>1. NamesOf(job) \subseteq DOMAIN Length \cap DOMAIN Hash
  BY JobsAssumption
<1>2. Length \in [DOMAIN Length -> Nat] /\ Hash \in [DOMAIN Hash -> Nat]
  BY NamesAssumption
<1>3. QED
  BY <1>1, <1>2

LEMMA NameLengths ==
  ASSUME NEW S, IsFiniteSet(S), \A n \in S : Length[n] \in Nat
  PROVE  SumOf(S, LAMBDA n : Length[n] + 1) \in Nat
<1> DEFINE g == [n \in S |-> Length[n] + 1]
<1>1. \A n \in S : g[n] \in Nat
  OBVIOUS
<1>2. UNION {{<<x, unit>> : unit \in 1..g[x]} : x \in S}
        = UNION {{<<x, unit>> : unit \in 1..(Length[x] + 1)} : x \in S}
  OBVIOUS
<1> HIDE DEF g
<1>3. Cardinality(UNION {{<<x, unit>> : unit \in 1..g[x]} : x \in S}) \in Nat
  BY <1>1, UnitsFinite
<1>4. QED
  BY <1>2, <1>3 DEF SumOf

LEMMA ExportTableIsNat ==
  ASSUME job \in Jobs, ConfInv
  PROVE  ExportTableSize \in Nat
<1>1. IsFiniteSet(job.exports) /\ job.exports \subseteq NamesOf(job)
      /\ {DefaultDll, job.soname} \subseteq NamesOf(job)
  BY JobsAssumption DEF NamesOf
<1>2. SumOf(job.exports, LAMBDA n : Length[n] + 1) \in Nat
  BY <1>1, LengthIsNat, NameLengths
<1>3. Cardinality(job.exports) \in Nat
  BY <1>1, FS_CardinalityType
<1>4. DllName \in NamesOf(job)
  BY <1>1 DEF DllName, ConfInv
<1>5. Length[DllName] \in Nat
  BY <1>4, LengthIsNat
<1> DEFINE u == SumOf(job.exports, LAMBDA n : Length[n] + 1)
           c == Cardinality(job.exports)
           l == Length[DllName]
<1>6. u \in Nat /\ c \in Nat /\ l \in Nat
  BY <1>2, <1>3, <1>5
<1>7. ExportTableSize = AlignUp(40 + 10 * c + l + 1 + u, 4)
  BY DEF ExportTableSize
<1> HIDE DEF u, c, l
<1>8. 40 + 10 * c + l + 1 + u \in Nat
  BY <1>6
<1>9. QED
  BY <1>7, <1>8, AlignUpGrows

(* Imports and DLLs are numbered, and an import names its DLL.              *)
LEMMA ImportTyped ==
  ASSUME job \in Jobs
  PROVE  /\ Imports = 1..Len(job.imports) /\ Len(job.imports) \in Nat
         /\ Dlls = 1..Len(job.dlls) /\ Len(job.dlls) \in Nat
         /\ \A i \in Imports : job.imports[i].dll \in Dlls
<1> DEFINE Entry == [name : STRING \X STRING, dll : DOMAIN job.dlls]
<1>1. job.imports \in Seq(Entry) /\ job.dlls \in Seq(STRING \X STRING)
  BY JobsAssumption, Zenon
<1>2. \A e \in Entry : e.dll \in DOMAIN job.dlls
  OBVIOUS
<1> HIDE DEF Entry
<1>3. QED
  BY <1>1, <1>2 DEF Imports, Dlls

LEMMA ImportTableIsNat ==
  ASSUME job \in Jobs
  PROVE  ImportTableSize \in Nat
<1>3. /\ Imports = 1..Len(job.imports) /\ Len(job.imports) \in Nat
      /\ Dlls = 1..Len(job.dlls) /\ Len(job.dlls) \in Nat
  BY ImportTyped
<1>4. IsFiniteSet(Imports)
  BY <1>3, FS_Interval
<1>6. IsFiniteSet(Dlls)
  BY <1>3, FS_Interval
<1>7. /\ \A i \in Imports : Length[job.imports[i].name] \in Nat
      /\ \A d \in Dlls : Length[job.dlls[d]] \in Nat
  <2>1. /\ \A i \in Imports : job.imports[i].name \in NamesOf(job)
        /\ \A d \in Dlls : job.dlls[d] \in NamesOf(job)
    BY DEF Imports, Dlls, NamesOf, Range
  <2>2. QED
    BY <2>1, LengthIsNat
<1>8. SumOf(Imports, LAMBDA i : AlignUp(Length[job.imports[i].name] + 3, 2)) \in Nat
  <2> DEFINE g == [i \in Imports |-> AlignUp(Length[job.imports[i].name] + 3, 2)]
  <2>1. \A i \in Imports : g[i] \in Nat
    BY <1>7, AlignUpGrows
  <2>2. UNION {{<<x, unit>> : unit \in 1..g[x]} : x \in Imports}
          = UNION {{<<x, unit>> : unit \in 1..AlignUp(Length[job.imports[x].name] + 3, 2)}
                      : x \in Imports}
    OBVIOUS
  <2> HIDE DEF g
  <2>3. Cardinality(UNION {{<<x, unit>> : unit \in 1..g[x]} : x \in Imports}) \in Nat
    BY <1>4, <2>1, UnitsFinite
  <2>4. QED
    BY <2>2, <2>3 DEF SumOf
<1>9. SumOf(Dlls, LAMBDA d : Length[job.dlls[d]] + 1) \in Nat
  <2> DEFINE g == [d \in Dlls |-> Length[job.dlls[d]] + 1]
  <2>1. \A d \in Dlls : g[d] \in Nat
    BY <1>7
  <2>2. UNION {{<<x, unit>> : unit \in 1..g[x]} : x \in Dlls}
          = UNION {{<<x, unit>> : unit \in 1..(Length[job.dlls[x]] + 1)} : x \in Dlls}
    OBVIOUS
  <2> HIDE DEF g
  <2>3. Cardinality(UNION {{<<x, unit>> : unit \in 1..g[x]} : x \in Dlls}) \in Nat
    BY <1>6, <2>1, UnitsFinite
  <2>4. QED
    BY <2>2, <2>3 DEF SumOf
<1> DEFINE u == SumOf(Imports, LAMBDA i : AlignUp(Length[job.imports[i].name] + 3, 2))
           v == SumOf(Dlls, LAMBDA d : Length[job.dlls[d]] + 1)
           c == Len(job.dlls)
           l == Len(job.imports)
<1>10. u \in Nat /\ v \in Nat /\ c \in Nat /\ l \in Nat
  BY <1>3, <1>6, <1>8, <1>9
<1>11. ImportTableSize = AlignUp(2 * 8 * (l + c) + 20 * (c + 1) + u + v, 8)
  BY DEF ImportTableSize
<1> HIDE DEF u, v, c, l
<1>12. 2 * 8 * (l + c) + 20 * (c + 1) + u + v \in Nat
  BY <1>10
<1>13. QED
  BY <1>11, <1>12, AlignUpGrows

-----------------------------------------------------------------------------
(* The output sections.                                                     *)

LEMMA KindsAre == Range(Kinds) = KindSet
<1>1. DOMAIN Kinds = 1..4
  BY DEF Kinds
<1>2. Kinds[1] = "text" /\ Kinds[2] = "rodata" /\ Kinds[3] = "data" /\ Kinds[4] = "bss"
  BY DEF Kinds
<1>3. QED
  BY <1>1, <1>2 DEF Range, KindSet

LEMMA SectionTyped ==
  ASSUME job \in Jobs, NEW i \in Sections
  PROVE  /\ Kind(i) \in KindSet
         /\ job.sections[i].size \in Nat /\ job.sections[i].align \in Alignments
         /\ job.sections[i].align \in Nat
<1> DEFINE S == [kind : Range(Kinds), size : Nat, align : Alignments]
<1>1. job.sections \in Seq(S) /\ i \in 1..Len(job.sections)
  BY JobTypes, Zenon
<1>2. \A y \in S : y.kind \in Range(Kinds) /\ y.size \in Nat /\ y.align \in Alignments
  OBVIOUS
<1>3. Alignments \subseteq Nat
  BY DEF Alignments
<1> HIDE DEF S
<1>4. job.sections[i] \in S
  BY <1>1
<1>5. QED
  BY <1>2, <1>3, <1>4, KindsAre DEF Kind

LEMMA Appended ==
  ASSUME NEW k \in KindSet \ {"bss"}, NEW sec, SectionOK(k, sec),
         NEW align \in Nat, NEW size \in Nat
  PROVE  LET new == pe_append(sec, align, size)
         IN SectionOK(k, new) /\ new.mem >= sec.mem
<1> DEFINE end == AlignUp(sec.file, align) + size
           new == pe_append(sec, align, size)
<1>1. AlignUp(sec.mem, align) \in Nat /\ sec.mem <= AlignUp(sec.mem, align)
  BY AlignUpGrows DEF SectionOK
<1>2. sec.file = sec.mem
  BY DEF SectionOK
<1>3. end \in Nat /\ end >= sec.mem
  BY <1>1, <1>2 DEF SectionOK
<1>4. new = [sec EXCEPT !.file = end, !.mem = end]
  BY DEF pe_append
<1> HIDE DEF end, new
<1>5. DOMAIN new = {"file", "mem", "align"} /\ new.file = end /\ new.mem = end
  BY <1>4 DEF SectionOK
<1>6. SectionOK(k, new) /\ new.mem >= sec.mem
  BY <1>3, <1>5 DEF SectionOK
<1>7. QED
  BY <1>6 DEF new

(* The output sections grow and nothing that was placed moves.              *)
OutGrows ==
    /\ job' = job /\ conf' = conf /\ at' = at
    /\ SectionsOK'
    /\ \A k \in KindSet : out'[k].mem >= out[k].mem

LEMMA Grown ==
  ASSUME job \in Jobs, SectionsOK, at \in Seq(Nat), Len(at) <= Len(job.sections), OutGrows
  PROVE  /\ RoomLeft => RoomLeft'
         /\ SectionsApart => SectionsApart'
<1>1. \A k \in KindSet : out[k].mem \in Nat /\ out'[k].mem \in Nat /\ out'[k].mem >= out[k].mem
  BY DEF OutGrows, SectionsOK, SectionOK
<1>2. \A k : FirstOffset(k, conf.trampoline) \in Nat /\
             FirstOffset(k, conf.trampoline)' = FirstOffset(k, conf.trampoline)
  BY DEF FirstOffset, OutGrows
<1>3. RoomLeft => RoomLeft'
  BY <1>1, <1>2 DEF RoomLeft, OutGrows, FirstOffset
<1>4. ASSUME SectionsApart
      PROVE  SectionsApart'
  <2>1. Sections = 1..Len(job.sections) /\ Len(job.sections) \in Nat
    BY JobTypes, Zenon
  <2>2. DOMAIN at \subseteq Sections
    BY <2>1
  <2>3. \A i \in DOMAIN at : Kind(i) \in KindSet /\ job.sections[i].size \in Nat /\ at[i] \in Nat
    BY <2>2, SectionTyped
  <2>4. \A i : Kind(i)' = Kind(i)
    BY DEF Kind, OutGrows
  <2>5. at' = at /\ job' = job /\ conf' = conf
    BY DEF OutGrows
  <2>6. ASSUME NEW i \in DOMAIN at
        PROVE  at[i] + job.sections[i].size <= out'[Kind(i)].mem
    <3> DEFINE k == Kind(i)
    <3>1. at[i] + job.sections[i].size <= out[k].mem
      BY <1>4, <2>6 DEF SectionsApart
    <3>2. /\ out[k].mem \in Nat /\ out'[k].mem \in Nat /\ out'[k].mem >= out[k].mem
          /\ at[i] \in Nat /\ job.sections[i].size \in Nat
      BY <1>1, <2>3, <2>6
    <3> HIDE DEF k
    <3>3. at[i] + job.sections[i].size <= out'[k].mem
      BY <3>1, <3>2
    <3>4. QED
      BY <3>3 DEF k
  <2>7. QED
    BY <1>4, <2>4, <2>5, <2>6 DEF SectionsApart, FirstOffset
<1>5. QED
  BY <1>3, <1>4

LEMMA OutInit ==
  ASSUME Init
  PROVE  ConfInv /\ OutInv
<1>1. /\ job \in Jobs /\ pc = "configure" /\ r = 1 /\ at = <<>>
      /\ out = [k \in Range(Kinds) |-> [file |-> 0, mem |-> 0, align |-> 16]]
      /\ conf.soname = Unnamed /\ conf.interp = Unnamed
  BY DEF Init, LayoutInit, at, out, conf
<1>2. Len(job.sections) \in Nat
  BY <1>1, JobTypes, Zenon
<1>3. SectionsOK
  BY <1>1, KindsAre DEF SectionsOK, SectionOK
<1>4. at \in Seq(Nat) /\ SectionsApart /\ Len(at) <= Len(job.sections)
  BY <1>1, <1>2 DEF SectionsApart
<1>5. QED
  BY <1>1, <1>3, <1>4 DEF ConfInv, OutInv, Laying, Filling

LEMMA OutStep ==
  ASSUME TypeInv, ConfInv, OutInv, [Next]_vars
  PROVE  ConfInv' /\ OutInv'
<1>0. job \in Jobs /\ r \in Nat \ {0} /\ Shape /\ pc \in Phases
  BY DEF TypeInv
<1>1. /\ Sections = 1..Len(job.sections) /\ Len(job.sections) \in Nat
  BY <1>0, JobTypes, Zenon
<1>2. /\ SectionsOK /\ at \in Seq(Nat) /\ Len(at) <= Len(job.sections)
      /\ Len(at) \in Nat /\ DOMAIN at = 1..Len(at)
  BY DEF OutInv
<1>3. CASE Configure
  <2>1. Moves("configure", {"place", "failed"}, {"conf", "out"}) /\ r' = r
    BY <1>0, <1>3, Steps
  <2>2. /\ pc = "configure" /\ pc' \in {"place", "failed"} /\ job' = job /\ at' = at
        /\ at = <<>> /\ r' = 1
    BY <2>1 DEF Moves, Keeps, Fields, at, OutInv
  <2>3. \/ ctx' = ctx /\ pc' = "failed"
        \/ /\ conf'.soname \in {Unnamed, job.soname}
           /\ conf'.interp \in {DefaultInterp, job.interp}
           /\ conf'.trampoline = NeedsTrampoline
           /\ out' = [k \in Range(Kinds) |->
                        LET first == FirstOffset(k, NeedsTrampoline)
                        IN [file |-> first, mem |-> first, align |-> 16]]
    <3> DEFINE shared == job.mode \in {"shared", "dll"}
               default == /\ ~Pe /\ UsesDynamic(shared) /\ job.mode # "shared"
                          /\ job.interp = Unnamed
               c == [is_shared |-> shared, uses_dynamic |-> UsesDynamic(shared),
                     soname |-> IF shared THEN job.soname ELSE Unnamed,
                     interp |-> IF default THEN DefaultInterp ELSE job.interp,
                     trampoline |-> NeedsTrampoline]
               o == [k \in Range(Kinds) |->
                        LET first == FirstOffset(k, NeedsTrampoline)
                        IN [file |-> first, mem |-> first, align |-> 16]]
    <3>1. \/ ctx' = ctx /\ pc' = "failed"
          \/ ctx' = [ctx EXCEPT !.conf = c, !.out = o]
      BY <1>3, Zenon DEF Configure
    <3>2. /\ c.soname \in {Unnamed, job.soname}
          /\ c.interp \in {DefaultInterp, job.interp}
          /\ c.trampoline = NeedsTrampoline
      OBVIOUS
    <3> HIDE DEF c, o
    <3>3. (ctx' = ctx /\ pc' = "failed") \/ (conf' = c /\ out' = o)
      <4>1. CASE ctx' = [ctx EXCEPT !.conf = c, !.out = o]
        <5>1. "conf" \in DOMAIN ctx /\ "out" \in DOMAIN ctx
          BY <1>0 DEF Shape, Fields
        <5>2. ctx'["conf"] = c /\ ctx'["out"] = o
          BY <4>1, <5>1
        <5>3. QED
          BY <5>2 DEF conf, out
      <4>2. QED
        BY <3>1, <4>1
    <3>4. QED
      BY <3>2, <3>3 DEF o
  <2>4. CASE ctx' = ctx /\ pc' = "failed"
    BY <1>2, <2>2, <2>4 DEF ConfInv, OutInv, SectionsOK, out, at, conf, Laying, Filling
  <2>5. CASE ~(ctx' = ctx /\ pc' = "failed")
    <3>1. ConfInv'
      BY <2>2, <2>3, <2>5 DEF ConfInv
    <3>2. SectionsOK'
      BY <2>3, <2>5, KindsAre DEF SectionsOK, SectionOK, FirstOffset, KindSet
    <3>3. RoomLeft'
      BY <2>3, <2>5, KindsAre DEF RoomLeft, FirstOffset, KindSet
    <3>4. SectionsApart'
      BY <2>2 DEF SectionsApart
    <3>5. at' \in Seq(Nat) /\ Len(at') = 0
      BY <2>2
    <3>6. QED
      BY <1>1, <2>2, <3>1, <3>2, <3>3, <3>4, <3>5 DEF OutInv, Laying, Filling
  <2>6. QED
    BY <2>4, <2>5
<1>4. CASE PlaceSection
  <2> DEFINE s == job.sections[r]
             k == s.kind
             offset == AlignUp(out[k].mem, s.align)
             end == offset + s.size
             new == [file |-> IF k = "bss" THEN 0 ELSE end, mem |-> end,
                     align |-> Max({out[k].align, s.align})]
  <2>1. Moves("place", {"place"}, {"at", "out"}) /\ r \in Sections /\ r' = r + 1
    BY <1>0, <1>4, Steps
  <2>2. /\ pc = "place" /\ pc' = "place" /\ job' = job /\ conf' = conf /\ r \in Sections
        /\ RoomLeft /\ SectionsApart /\ Len(at) = r - 1
    BY <2>1 DEF Moves, Keeps, Fields, conf, OutInv
  <2>3. at' = Append(at, offset) /\ out' = [out EXCEPT ![k] = new]
    BY <1>0, <1>4 DEF PlaceSection, Shape, Fields, at, out
  <2>4. k \in KindSet /\ s.size \in Nat /\ s.align \in Nat
    BY <1>0, <2>2, SectionTyped DEF Kind
  <2>5. out[k].mem \in Nat /\ out[k].mem >= FirstOffset(k, conf.trampoline)
    BY <1>2, <2>2, <2>4 DEF SectionsOK, SectionOK, RoomLeft
  <2>6. offset \in Nat /\ offset >= out[k].mem
    BY <2>4, <2>5, AlignUpGrows
  <2> HIDE DEF offset
  <2>7. end \in Nat /\ end >= out[k].mem /\ end >= offset /\ offset + s.size <= end
    BY <2>4, <2>5, <2>6
  <2> HIDE DEF end
  <2>8. SectionOK(k, new) /\ new.mem = end
    BY <2>7 DEF SectionOK
  <2> HIDE DEF new
  <2>9. /\ DOMAIN out' = KindSet
        /\ out'[k] = new
        /\ \A j \in KindSet : j # k => out'[j] = out[j]
    BY <1>2, <2>3, <2>4 DEF SectionsOK
  <2>10. SectionsOK'
    BY <1>2, <2>8, <2>9 DEF SectionsOK
  <2>11. /\ at' \in Seq(Nat) /\ Len(at') = Len(at) + 1
         /\ DOMAIN at' = 1..(Len(at) + 1)
         /\ \A i \in 1..Len(at) : at'[i] = at[i]
         /\ at'[Len(at) + 1] = offset
    BY <1>2, <2>3, <2>6
  <2>12. \A j \in KindSet : out[j].mem \in Nat /\ out'[j].mem \in Nat
                             /\ out'[j].mem >= out[j].mem
    BY <1>2, <2>5, <2>7, <2>8, <2>9 DEF SectionsOK, SectionOK
  <2>13. /\ \A j : FirstOffset(j, conf.trampoline)' = FirstOffset(j, conf.trampoline)
         /\ \A j : FirstOffset(j, conf.trampoline) \in Nat
    BY <2>2 DEF FirstOffset
  <2>14. RoomLeft'
    BY <2>2, <2>12, <2>13 DEF RoomLeft, FirstOffset
  <2>15. SectionsApart'
    <3>1. r = Len(at) + 1
      BY <1>0, <2>2
    <3>2. \A i : Kind(i)' = Kind(i)
      BY <2>2 DEF Kind
    <3>3. Kind(r) = k
      BY DEF Kind
    <3>4. \A i \in 1..Len(at) : Kind(i) \in KindSet /\ job.sections[i].size \in Nat
                                  /\ at[i] \in Nat
      <4>1. 1..Len(at) \subseteq Sections
        BY <1>1, <1>2
      <4>2. QED
        BY <1>0, <1>2, <4>1, SectionTyped
    <3>5. ASSUME NEW i \in 1..Len(at)
          PROVE  /\ at[i] >= FirstOffset(Kind(i), conf.trampoline)
                 /\ at[i] + job.sections[i].size <= out'[Kind(i)].mem
                 /\ \A j \in 1..(i-1) : Kind(j) = Kind(i) =>
                       at[j] + job.sections[j].size <= at[i]
      <4>1. at[i] + job.sections[i].size <= out[Kind(i)].mem
        BY <1>2, <2>2, <3>5 DEF SectionsApart
      <4>2. at[i] + job.sections[i].size \in Nat /\ Kind(i) \in KindSet
        BY <3>4, <3>5
      <4>3. at[i] + job.sections[i].size <= out'[Kind(i)].mem
        BY <2>12, <4>1, <4>2
      <4>4. QED
        BY <1>2, <2>2, <3>5, <4>3 DEF SectionsApart
    <3>6. \A j \in 1..Len(at) : Kind(j) = k => at[j] + job.sections[j].size <= offset
      <4> TAKE j \in 1..Len(at)
      <4> HAVE Kind(j) = k
      <4>1. at[j] + job.sections[j].size <= out[k].mem
        BY <1>2, <2>2 DEF SectionsApart
      <4>2. at[j] + job.sections[j].size \in Nat
        BY <3>4
      <4>3. QED
        BY <2>5, <2>6, <4>1, <4>2
    <3>7. offset >= FirstOffset(k, conf.trampoline)
      BY <2>5, <2>6, <2>13
    <3>8. offset + job.sections[r].size <= out'[k].mem
      BY <2>7, <2>8, <2>9
    <3> HIDE DEF k, s
    <3>9. ASSUME NEW i \in DOMAIN at'
          PROVE  /\ at'[i] >= FirstOffset(Kind(i), conf.trampoline)
                 /\ at'[i] + job.sections[i].size <= out'[Kind(i)].mem
                 /\ \A j \in 1..(i-1) : Kind(j) = Kind(i) =>
                       at'[j] + job.sections[j].size <= at'[i]
      <4>1. CASE i \in 1..Len(at)
        <5>1. at'[i] = at[i] /\ \A j \in 1..(i-1) : at'[j] = at[j]
          BY <1>2, <2>11, <4>1
        <5>2. QED
          BY <3>5, <4>1, <5>1
      <4>2. CASE i = r
        BY <1>2, <2>11, <3>1, <3>3, <3>6, <3>7, <3>8, <4>2
      <4>3. QED
        BY <1>2, <2>11, <3>1, <3>9, <4>1, <4>2
    <3>10. QED
      BY <2>2, <2>13, <3>2, <3>9 DEF SectionsApart
  <2>16. Len(at') <= Len(job'.sections) /\ Len(at') = r' - 1
    BY <1>0, <1>1, <1>2, <2>1, <2>2, <2>11
  <2>17. ConfInv'
    BY <2>2 DEF ConfInv
  <2>18. QED
    BY <2>2, <2>10, <2>11, <2>14, <2>15, <2>16, <2>17 DEF OutInv, Laying, Filling
<1>5. CASE BuildExports \/ PlaceThunk \/ BuildImports
  <2>1. /\ pc \in {"exports", "thunks"} /\ pc' \in {"thunks", "address"}
        /\ job' = job /\ conf' = conf /\ at' = at
    BY <1>0, <1>5, Steps DEF Moves, Keeps, Fields, conf, at
  <2>2. /\ SectionOK("text", out["text"]) /\ SectionOK("rodata", out["rodata"])
        /\ out["text"].mem \in Nat /\ out["rodata"].mem \in Nat
    BY <1>2 DEF SectionsOK, KindSet, SectionOK
  <2>3. \/ out' = out
        \/ \E k \in KindSet \ {"bss"} : \E new :
              /\ out' = [out EXCEPT ![k] = new]
              /\ SectionOK(k, new) /\ new.mem >= out[k].mem
    <3>1. CASE BuildExports
      <4> DEFINE new == pe_append(out["rodata"], 4, ExportTableSize)
      <4>1. out' = out \/ out' = [out EXCEPT !["rodata"] = new]
        BY <1>0, <3>1 DEF BuildExports, Shape, Fields, out
      <4>2. SectionOK("rodata", new) /\ new.mem >= out["rodata"].mem
        <5>1. ExportTableSize \in Nat
          BY <1>0, ExportTableIsNat
        <5>2. QED
          BY <2>2, <5>1, Appended DEF KindSet
      <4> HIDE DEF new
      <4>3. QED
        BY <4>1, <4>2 DEF KindSet
    <3>2. CASE PlaceThunk
      <4> DEFINE text == IF r = 1 THEN pe_append(out["text"], 16, 0) ELSE out["text"]
                 new == pe_append(text, 4, 6)
      <4>1. out' = [out EXCEPT !["text"] = new] \/ out' = [out EXCEPT !["text"] = text]
        BY <1>0, <3>2 DEF PlaceThunk, Shape, Fields, out
      <4>2. SectionOK("text", text) /\ text.mem >= out["text"].mem
        <5>1. /\ SectionOK("text", pe_append(out["text"], 16, 0))
              /\ pe_append(out["text"], 16, 0).mem >= out["text"].mem
          BY <2>2, Appended DEF KindSet
        <5>2. QED
          BY <2>2, <5>1
      <4> HIDE DEF text
      <4>3. SectionOK("text", new) /\ new.mem >= text.mem
        BY <4>2, Appended DEF KindSet
      <4> HIDE DEF new
      <4>4. new.mem >= out["text"].mem
        BY <2>2, <4>2, <4>3 DEF SectionOK
      <4>5. QED
        BY <4>1, <4>2, <4>3, <4>4 DEF KindSet
    <3>3. CASE BuildImports
      <4> DEFINE new == pe_append(out["rodata"], 8, ImportTableSize)
      <4>1. out' = out \/ out' = [out EXCEPT !["rodata"] = new]
        BY <1>0, <3>3 DEF BuildImports, Shape, Fields, out
      <4>2. SectionOK("rodata", new) /\ new.mem >= out["rodata"].mem
        <5>1. ImportTableSize \in Nat
          BY <1>0, ImportTableIsNat
        <5>2. QED
          BY <2>2, <5>1, Appended DEF KindSet
      <4> HIDE DEF new
      <4>3. QED
        BY <4>1, <4>2 DEF KindSet
    <3>4. QED
      BY <1>5, <3>1, <3>2, <3>3
  <2>4. OutGrows
    <3>1. CASE out' = out
      BY <1>2, <2>1, <3>1 DEF OutGrows, SectionsOK, SectionOK
    <3>2. CASE out' # out
      <4>1. PICK k \in KindSet \ {"bss"} : \E new :
               /\ out' = [out EXCEPT ![k] = new]
               /\ SectionOK(k, new) /\ new.mem >= out[k].mem
        BY <2>3, <3>2
      <4> PICK new : /\ out' = [out EXCEPT ![k] = new]
                     /\ SectionOK(k, new) /\ new.mem >= out[k].mem
        BY <4>1
      <4>2. DOMAIN out = KindSet /\ \A j \in KindSet : SectionOK(j, out[j]) /\ out[j].mem \in Nat
        BY <1>2 DEF SectionsOK, SectionOK
      <4>3. DOMAIN out' = KindSet /\ out'[k] = new /\ \A j \in KindSet : j # k => out'[j] = out[j]
        BY <4>1, <4>2
      <4>4. SectionsOK'
        BY <4>1, <4>2, <4>3 DEF SectionsOK
      <4>5. \A j \in KindSet : out'[j].mem >= out[j].mem
        BY <4>1, <4>2, <4>3
      <4>6. QED
        BY <2>1, <4>4, <4>5 DEF OutGrows
    <3>3. QED
      BY <3>1, <3>2
  <2>5. RoomLeft /\ SectionsApart /\ Len(at) = Len(job.sections)
    BY <2>1 DEF OutInv, Laying
  <2>6. RoomLeft' /\ SectionsApart' /\ SectionsOK'
    BY <1>0, <1>2, <2>4, <2>5, Grown DEF OutGrows
  <2>7. ConfInv'
    BY <2>1 DEF ConfInv
  <2>8. QED
    BY <1>1, <1>2, <2>1, <2>5, <2>6, <2>7 DEF OutInv
<1>6. CASE ~Configure /\ ~PlaceSection /\ ~(BuildExports \/ PlaceThunk \/ BuildImports)
  <2>1. /\ job' = job /\ conf' = conf /\ out' = out /\ at' = at
        /\ \/ pc' = pc /\ pc # "place" /\ pc # "configure"
           \/ pc' = pc /\ r' = r
           \/ pc = "place" /\ pc' = "plan" /\ r \notin Sections
           \/ /\ pc \in {"plan"} \cup Laying \cup Filling
              /\ pc' \in {"plan", "failed"} \cup Laying \cup Filling
    <3> USE DEF Moves, Keeps, Fields, conf, out, at, Laying, Filling
    <3>1. CASE SectionsPlaced \/ PlanRelocation \/ Planned
      BY <1>0, <3>1, Steps, SMTT(30)
    <3>2. CASE ExportSymbol \/ SymbolsExported \/ ImportSymbol
      BY <1>0, <3>2, Steps, SMTT(30)
    <3>3. CASE SymbolsImported \/ HashName \/ NamesHashed
      BY <1>0, <3>3, Steps, SMTT(30)
    <3>4. CASE PlacePiece \/ PiecesPlaced \/ SymbolAddresses \/ FindEntry
      BY <1>0, <3>4, Steps, SMTT(30)
    <3>5. CASE FillTables \/ TablesFilled \/ Relocate \/ Relocated
      BY <3>5 DEF FillTables, TablesFilled, Relocate, Relocated
    <3>6. CASE EmitElf \/ EmitPe
      BY <3>6 DEF EmitElf, EmitPe
    <3>7. CASE UNCHANGED vars
      BY <3>7 DEF vars, layoutVars
    <3>8. QED
      BY <1>6, <3>1, <3>2, <3>3, <3>4, <3>5, <3>6, <3>7 DEF Next, LayoutNext, Stopped
  <2>2. OutGrows
    BY <1>2, <2>1 DEF OutGrows, SectionsOK, SectionOK
  <2>3. /\ SectionsOK' /\ (RoomLeft => RoomLeft') /\ (SectionsApart => SectionsApart')
    BY <1>0, <1>2, <2>2, Grown DEF OutGrows
  <2>4. ConfInv'
    BY <2>1 DEF ConfInv
  <2>5. /\ (pc \notin {"configure", "failed"} => RoomLeft)'
        /\ (pc # "failed" => SectionsApart)'
        /\ (pc = "configure" => at = <<>> /\ r = 1)'
        /\ (pc = "place" => Len(at) = r - 1)'
        /\ (pc \in {"plan"} \cup Laying \cup Filling => Len(at) = Len(job.sections))'
    <3>1. /\ pc' = "configure" => pc = "configure" /\ r' = r
          /\ pc' = "place" => pc = "place" /\ r' = r
          /\ pc' # "failed" => pc # "failed"
          /\ pc' \notin {"configure", "failed"} => pc \notin {"configure", "failed"}
          /\ pc' \in {"plan"} \cup Laying \cup Filling =>
                \/ pc \in {"plan"} \cup Laying \cup Filling
                \/ pc = "place" /\ r \notin Sections
      BY <2>1 DEF Laying, Filling
    <3>2. pc = "place" /\ r \notin Sections => Len(at) = Len(job.sections)
      BY <1>0, <1>1, <1>2 DEF OutInv
    <3>3. QED
      BY <2>1, <2>3, <3>1, <3>2 DEF OutInv
  <2>6. QED
    BY <1>2, <2>1, <2>3, <2>4, <2>5 DEF OutInv
<1>7. QED
  BY <1>3, <1>4, <1>5, <1>6

-----------------------------------------------------------------------------
(* .hash                                                                    *)

LEMMA BucketTyped ==
  ASSUME job \in Jobs, dynsym \in Seq(Symbols), NEW d \in 1..Len(dynsym)
  PROVE  BucketOf(d) \in 0..Len(dynsym)
<1>1. dynsym[d] \in Symbols
  OBVIOUS
<1>2. Sym(dynsym[d]).name \in NamesOf(job)
  BY <1>1 DEF NamesOf, Sym, Symbols
<1>3. Hash[Sym(dynsym[d]).name] \in Nat
  BY <1>2, LengthIsNat
<1> DEFINE h == Hash[Sym(dynsym[d]).name]
           l == Len(dynsym)
<1>4. h \in Nat /\ l \in Nat
  BY <1>3
<1>5. BucketOf(d) = h % (l + 1)
  BY DEF BucketOf
<1> HIDE DEF h, l
<1>6. h % (l + 1) \in 0..l
  BY <1>4
<1>7. QED
  BY <1>5, <1>6 DEF l

LEMMA HashKept ==
  ASSUME job' = job, dynsym' = dynsym, hash' = hash, Hashed' = Hashed, HashOK
  PROVE  HashOK'
<1>1. \A d : BucketOf(d)' = BucketOf(d)
  BY DEF BucketOf, Sym
<1>2. \A d : Leads(d) => Leads(d)'
  BY <1>1 DEF Leads
<1>3. QED
  BY <1>1, <1>2 DEF HashOK

(* A new name heads its bucket, and the chain goes on from it with the      *)
(* earlier head: whatever was found is still found, behind it.              *)
LEMMA HashGrows ==
  ASSUME TypeInv, HashInv, HashOK, HashName
  PROVE  HashOK'
<1>0. job \in Jobs /\ r \in Nat \ {0} /\ Shape
  BY DEF TypeInv
<1>1. /\ pc = "hash" /\ pc' = "hash" /\ job' = job /\ dynsym' = dynsym
      /\ r \in DOMAIN dynsym /\ r' = r + 1
  BY <1>0, Steps DEF Moves, Keeps, Fields, dynsym
<1> DEFINE L == Len(dynsym)
           b == hash.bucket
           c == hash.chain
           h == b[BucketOf(r)]
<1>2. dynsym \in Seq(Symbols) /\ L \in Nat /\ r \in 1..L
  BY <1>1 DEF HashInv
<1>3. Hashed = r - 1 /\ Hashed' = r
  BY <1>0, <1>1 DEF Hashed
<1>4. hash'.bucket = [b EXCEPT ![BucketOf(r)] = r] /\ hash'.chain = Append(c, h)
  BY <1>0 DEF HashName, ChainAfter, Shape, Fields, hash
<1>5. \A d \in 1..L : BucketOf(d) \in 0..L /\ BucketOf(d)' = BucketOf(d)
  <2>1. \A d \in 1..L : BucketOf(d) \in 0..L
    BY <1>0, <1>2, BucketTyped
  <2>2. QED
    BY <1>1, <2>1 DEF BucketOf, Sym
<1>6. /\ b \in [0..L -> 0..(r - 1)] /\ c \in Seq(Nat) /\ Len(c) = r - 1
      /\ \A d \in 1..(r - 1) : b[BucketOf(d)] # 0 /\ c[d] < d /\ Leads(d)
  BY <1>3 DEF HashOK
<1>7. h \in 0..(r - 1)
  BY <1>2, <1>5, <1>6
<1> DEFINE b2 == hash'.bucket
           c2 == hash'.chain
<1> HIDE DEF h
<1>8. /\ c2 \in Seq(Nat) /\ Len(c2) = r
      /\ \A d \in 1..(r - 1) : c2[d] = c[d]
      /\ c2[r] = h
  BY <1>0, <1>4, <1>6, <1>7
<1>9. /\ b2 \in [0..L -> 0..r]
      /\ b2[BucketOf(r)] = r
      /\ \A k \in 0..L : k # BucketOf(r) => b2[k] = b[k]
  BY <1>0, <1>2, <1>4, <1>5, <1>6
<1> HIDE DEF b2, c2
<1>10. ASSUME NEW d \in 1..r
       PROVE  b2[BucketOf(d)] # 0 /\ c2[d] < d
  <2>1. CASE d = r
    BY <1>0, <1>7, <1>8, <1>9, <2>1
  <2>2. CASE d \in 1..(r - 1)
    <3>1. BucketOf(d) \in 0..L /\ b[BucketOf(d)] # 0 /\ c[d] < d
      BY <1>2, <1>5, <1>6, <2>2
    <3>2. QED
      BY <1>0, <1>8, <1>9, <2>2, <3>1
  <2>3. QED
    BY <1>0, <1>10, <2>1, <2>2
<1>11. ASSUME NEW d \in 1..r,
              NEW visited \in SUBSET (1..r),
              b2[BucketOf(d)] \in visited,
              \A x \in visited : c2[x] \in visited \cup {0}
       PROVE  d \in visited
  <2>1. CASE d = r
    BY <1>9, <1>11, <2>1
  <2>2. CASE d \in 1..(r - 1)
    <3> DEFINE old == visited \ {r}
    <3>1. old \in SUBSET (1..(r - 1))
      BY <1>0
    <3>2. \A x \in old : c[x] \in old \cup {0}
      <4> TAKE x \in old
      <4>1. x \in 1..(r - 1) /\ c2[x] = c[x] /\ c[x] < x /\ c[x] \in Nat
        BY <1>6, <1>8, <3>1
      <4>2. c[x] \in visited \cup {0} /\ c[x] # r
        BY <1>0, <1>11, <4>1
      <4>3. QED
        BY <4>2
    <3>3. b[BucketOf(d)] \in old
      <4>1. BucketOf(d) \in 0..L /\ b[BucketOf(d)] # 0 /\ b[BucketOf(d)] \in 0..(r - 1)
        BY <1>2, <1>5, <1>6, <2>2
      <4>2. CASE BucketOf(d) = BucketOf(r)
        <5>1. r \in visited /\ c2[r] \in visited \cup {0}
          BY <1>9, <1>11, <4>2
        <5>2. b[BucketOf(d)] = h
          BY <4>2 DEF h
        <5>3. QED
          BY <1>0, <1>8, <4>1, <5>1, <5>2
      <4>3. CASE BucketOf(d) # BucketOf(r)
        <5>1. b[BucketOf(d)] \in visited
          BY <1>9, <1>11, <4>1, <4>3
        <5>2. QED
          BY <1>0, <4>1, <5>1
      <4>4. QED
        BY <4>2, <4>3
    <3> HIDE DEF old
    <3>4. Leads(d)
      BY <1>6, <2>2
    <3>5. d \in old
      BY <1>3, <3>1, <3>2, <3>3, <3>4 DEF Leads
    <3>6. QED
      BY <3>5 DEF old
  <2>3. QED
    BY <1>0, <1>11, <2>1, <2>2
<1>12. \A d \in 1..r : BucketOf(d)' = BucketOf(d)
  BY <1>2, <1>5
<1>13. \A d \in 1..r : Leads(d)'
  BY <1>3, <1>11, <1>12 DEF Leads, b2, c2
<1>14. QED
  BY <1>1, <1>3, <1>8, <1>9, <1>10, <1>12, <1>13 DEF HashOK, b2, c2

LEMMA HashInit ==
  ASSUME Init
  PROVE  HashInv
  BY DEF Init, LayoutInit, HashInv, HashBuilt, Filling, dynsym

LEMMA HashStep ==
  ASSUME TypeInv, PlanInv, HashInv, [Next]_vars
  PROVE  HashInv'
<1>0. job \in Jobs /\ r \in Nat \ {0} /\ Shape /\ imports \in Seq(Import)
  BY DEF TypeInv
<1>1. dynsym \in Seq(Symbols) /\ Len(dynsym) \in Nat /\ DOMAIN dynsym = 1..Len(dynsym)
  BY DEF HashInv
<1> USE DEF HashBuilt
<1>2. CASE Configure
  <2>1. pc' \in {"place", "failed"} /\ job' = job /\ dynsym' = dynsym
    BY <1>0, <1>2, Steps DEF Moves, Keeps, Fields, dynsym
  <2>2. QED
    BY <1>1, <2>1 DEF HashInv, Filling, Symbols
<1>3. CASE ExportSymbol \/ ImportSymbol
  <2>1. /\ pc' = pc /\ pc \in {"dynsym", "dynimp"} /\ job' = job
    BY <1>0, <1>3, Steps DEF Moves
  <2>2. \/ dynsym' = dynsym
        \/ \E s \in Symbols : dynsym' = Append(dynsym, s)
    <3>1. CASE ExportSymbol
      BY <1>0, <3>1 DEF ExportSymbol, Shape, Fields, dynsym
    <3>2. CASE ImportSymbol
      <4>1. r \in DOMAIN imports
        BY <3>2 DEF ImportSymbol
      <4>2. imports[r].sym \in Symbols
        <5>1. imports[r] \in Import
          BY <1>0, <4>1
        <5>2. QED
          BY <5>1 DEF Import
      <4>3. dynsym' = dynsym \/ dynsym' = Append(dynsym, imports[r].sym)
        BY <1>0, <3>2 DEF ImportSymbol, Shape, Fields, dynsym
      <4>4. QED
        BY <4>2, <4>3
    <3>3. QED
      BY <1>3, <3>1, <3>2
  <2>3. dynsym' \in Seq(Symbols) /\ Symbols' = Symbols
    BY <1>1, <2>1, <2>2 DEF Symbols
  <2>4. QED
    BY <2>1, <2>3 DEF HashInv, Filling
<1>4. CASE SymbolsImported
  <2>1. /\ pc' = "hash" /\ r' = 1 /\ job' = job /\ dynsym' = dynsym
    BY <1>0, <1>4, Steps DEF Moves, Keeps, Fields, dynsym
  <2>2. hash'.bucket = [b \in 0..Len(dynsym) |-> 0] /\ hash'.chain = <<>>
    BY <1>0, <1>4 DEF SymbolsImported, Shape, Fields, hash
  <2>3. Hashed' = 0
    BY <2>1 DEF Hashed
  <2>4. HashOK'
    BY <1>1, <2>1, <2>2, <2>3 DEF HashOK
  <2>5. QED
    BY <1>1, <2>1, <2>4 DEF HashInv, Symbols
<1>5. CASE HashName
  <2>1. /\ pc = "hash" /\ pc' = "hash" /\ r' = r + 1 /\ r \in DOMAIN dynsym
        /\ job' = job /\ dynsym' = dynsym /\ conf' = conf
    BY <1>0, <1>5, Steps DEF Moves, Keeps, Fields, dynsym, conf
  <2>2. Dynamic' = Dynamic /\ Symbols' = Symbols
    BY <2>1 DEF Dynamic, Pe, Symbols
  <2>3. Dynamic => HashOK'
    BY <1>5, <2>1, HashGrows DEF HashInv
  <2>4. QED
    BY <1>0, <1>1, <2>1, <2>2, <2>3 DEF HashInv
<1>6. CASE ~Configure /\ ~ExportSymbol /\ ~ImportSymbol /\ ~SymbolsImported /\ ~HashName
  <2>1. /\ job' = job /\ conf' = conf /\ dynsym' = dynsym /\ hash' = hash
        /\ \/ pc' = pc /\ (pc = "hash" => r' = r)
           \/ pc' \notin HashBuilt
           \/ pc = "hash" /\ pc' = "address" /\ r \notin DOMAIN dynsym
           \/ pc \in HashBuilt \ {"hash"} /\ pc' \in HashBuilt \ {"hash"}
           \/ ~Dynamic /\ pc' # "hash"
    <3> USE DEF Moves, Keeps, Fields, conf, dynsym, hash, Filling
    <3>1. CASE PlaceSection \/ SectionsPlaced \/ PlanRelocation
      BY <1>0, <3>1, Steps, SMTT(30)
    <3>2. CASE Planned \/ BuildExports
      BY <1>0, <3>2, Steps, SMTT(30)
    <3>3. CASE PlaceThunk \/ BuildImports
      BY <1>0, <3>3, Steps, SMTT(30) DEF PlanInv
    <3>4. CASE SymbolsExported \/ NamesHashed
      BY <1>0, <3>4, Steps, SMTT(30)
    <3>5. CASE PlacePiece \/ PiecesPlaced \/ SymbolAddresses \/ FindEntry
      BY <1>0, <3>5, Steps, SMTT(30)
    <3>6. CASE FillTables \/ TablesFilled \/ Relocate \/ Relocated
      BY <3>6 DEF FillTables, TablesFilled, Relocate, Relocated
    <3>7. CASE EmitElf \/ EmitPe
      BY <3>7 DEF EmitElf, EmitPe
    <3>8. CASE UNCHANGED vars
      BY <3>8 DEF vars, layoutVars
    <3>9. QED
      BY <1>6, <3>1, <3>2, <3>3, <3>4, <3>5, <3>6, <3>7, <3>8 DEF Next, LayoutNext, Stopped
  <2>2. Dynamic' = Dynamic /\ Symbols' = Symbols
    BY <2>1 DEF Dynamic, Pe, Symbols
  <2>3. ASSUME Dynamic', pc' \in HashBuilt
        PROVE  HashOK'
    <3>1. pc \in HashBuilt /\ Hashed' = Hashed
      BY <1>0, <1>1, <2>1, <2>2, <2>3 DEF Hashed, HashInv, Filling
    <3>2. HashOK
      BY <2>2, <2>3, <3>1 DEF HashInv
    <3>3. QED
      BY <2>1, <3>1, <3>2, HashKept
  <2>4. (pc = "hash" => r <= Len(dynsym) + 1)'
    BY <2>1 DEF HashInv, Filling
  <2>5. QED
    BY <1>1, <2>1, <2>2, <2>3, <2>4 DEF HashInv
<1>7. QED
  BY <1>2, <1>3, <1>4, <1>5, <1>6


-----------------------------------------------------------------------------
(* The pieces of the image.                                                 *)

LEMMA PlannedIsNat ==
  ASSUME TypeInv, PlanInv
  PROVE  planned \in Nat /\ PltCount \in Nat /\ GotCount \in Nat
<1>1. Used(imports, "got") \in Nat /\ Used(imports, "plt") \in Nat
  BY UsedIsNat DEF TypeInv
<1>2. Pushing(Len(plans)) \in SUBSET (1..Len(plans)) /\ Len(plans) \in Nat
  BY DEF Pushing, TypeInv
<1>3. Cardinality(Pushing(Len(plans))) \in Nat
  BY <1>2, IndicesFinite
<1>4. QED
  BY <1>1, <1>3 DEF PlanInv, PltCount, GotCount

LEMMA StringsSum ==
  ASSUME TypeInv, ConfInv, HashInv
  PROVE  SumOf(Strings, LAMBDA n : Length[n] + 1) \in Nat
<1> DEFINE symname == [d \in DOMAIN dynsym |-> Sym(dynsym[d]).name]
           names == {Sym(dynsym[d]).name : d \in DOMAIN dynsym}
           others == {conf.soname, job.rpath}
<1>1. job \in Jobs /\ dynsym \in Seq(Symbols) /\ Len(dynsym) \in Nat
      /\ DOMAIN dynsym = 1..Len(dynsym)
  BY DEF TypeInv, HashInv
<1>2. IsFiniteSet(names)
  <2>1. IsFiniteSet(DOMAIN dynsym)
    BY <1>1, FS_Interval
  <2>2. IsFiniteSet({symname[d] : d \in DOMAIN dynsym})
    BY <2>1, ImageFinite
  <2>3. {symname[d] : d \in DOMAIN dynsym} = names
    OBVIOUS
  <2>4. QED
    BY <2>2, <2>3
<1>3. IsFiniteSet(others) /\ IsFiniteSet(job.needed)
  <2>1. others = {conf.soname} \cup {job.rpath}
    OBVIOUS
  <2>2. IsFiniteSet(others)
    <3>1. IsFiniteSet({conf.soname}) /\ IsFiniteSet({job.rpath})
      BY FS_Singleton
    <3> DEFINE A == {conf.soname}
               B == {job.rpath}
    <3> HIDE DEF A, B
    <3>2. IsFiniteSet(A \cup B)
      BY <3>1, FS_Union DEF A, B
    <3>3. QED
      BY <2>1, <3>2 DEF A, B
  <2>3. QED
    BY <1>1, <2>2, JobsAssumption
<1>4. IsFiniteSet(Strings)
  <2>1. IsFiniteSet(others \cup job.needed \cup names)
    BY <1>2, <1>3, FS_Union
  <2>2. Strings \subseteq others \cup job.needed \cup names
    BY DEF Strings
  <2>3. QED
    BY <2>1, <2>2, FS_Subset
<1>5. Strings \subseteq NamesOf(job)
  <2>1. names \subseteq NamesOf(job)
    <3>1. \A d \in DOMAIN dynsym : dynsym[d] \in DOMAIN job.symbols
      BY <1>1 DEF Symbols
    <3>2. QED
      BY <3>1 DEF NamesOf, Sym
  <2>2. job.needed \subseteq NamesOf(job) /\ others \ {Unnamed} \subseteq NamesOf(job)
    BY DEF NamesOf, ConfInv
  <2>3. QED
    BY <2>1, <2>2 DEF Strings
<1>6. QED
  BY <1>1, <1>4, <1>5, LengthIsNat, NameLengths

TableNames == {"interp", "hash", "dynsym", "dynstr", "rela_dyn", "rela_plt", "plt", "got",
               "dynamic", "got_plt"}

LEMMA RoomIsNat ==
  ASSUME TypeInv, PlanInv
  PROVE  DynamicRoom \in Nat
<1>1. IsFiniteSet(job.needed)
  BY JobsAssumption DEF TypeInv
<1> DEFINE c == Cardinality(job.needed)
<1>2. c \in Nat
  BY <1>1, FS_CardinalityType
<1> HIDE DEF c
<1>3. \A b : One(b) \in Nat
  BY DEF One
<1>4. DynamicRoom = 8 + One(conf.soname # Unnamed) + One(job.rpath # Unnamed)
         + c + One(conf.interp # Unnamed) + 1
         + 3 * One(planned > 0) + 4 * One(PltCount > 0)
  BY DEF DynamicRoom, c
<1> HIDE DEF One
<1>5. QED
  BY <1>2, <1>3, <1>4

LEMMA TableTyped ==
  ASSUME TypeInv, PlanInv, ConfInv, HashInv, NEW n \in TableNames
  PROVE  TableSize[n] \in Nat
<1> DEFINE p == PltCount
           g == GotCount
           room == DynamicRoom
           l == Len(dynsym)
           u == SumOf(Strings, LAMBDA m : Length[m] + 1)
           i == IF HasInterp THEN Length[conf.interp] + 1 ELSE 0
           h == PltHead
<1>1. planned \in Nat /\ p \in Nat /\ g \in Nat /\ room \in Nat /\ l \in Nat /\ u \in Nat
  <2>1. u \in Nat
    BY StringsSum, Zenon
  <2>2. l \in Nat
    BY DEF HashInv
  <2>3. QED
    BY <2>1, <2>2, PlannedIsNat, RoomIsNat, Zenon
<1>2. h \in Nat
  BY DEF PltHead
<1>3. i \in Nat
  <2>1. HasInterp => conf.interp \in NamesOf(job)
    BY DEF HasInterp, ConfInv, NamesOf
  <2>2. HasInterp => Length[conf.interp] \in Nat
    BY <2>1, LengthIsNat DEF TypeInv
  <2>3. QED
    BY <2>2
<1>4. TableSize = [interp |-> i, hash |-> 4 * (2 + 2 * (l + 1)), dynsym |-> 24 * (l + 1),
                   dynstr |-> 1 + u, rela_dyn |-> 24 * planned, rela_plt |-> 24 * p,
                   plt |-> IF p > 0 THEN h + 16 * p ELSE 0,
                   got |-> IF g > 0 THEN 8 * g ELSE 8,
                   dynamic |-> 16 * room,
                   got_plt |-> IF p > 0 THEN 8 * (3 + p) ELSE 0]
  BY Zenon DEF TableSize
<1> HIDE DEF p, g, room, l, u, i, h
<1>5. QED
  BY <1>1, <1>2, <1>3, <1>4 DEF TableNames

LEMMA OrderIs ==
  /\ DOMAIN PieceOrder = 1..14
  /\ \A k \in 1..14 : PieceOrder[k] \in PieceNames
  /\ \A n \in PieceNames : \E k \in 1..14 : PieceOrder[k] = n
  /\ \A n \in PieceNames : n \in KindSet \cup TableNames
  /\ \A j, k \in 1..14 : PieceOrder[j] = PieceOrder[k] => j = k
<1>1. DOMAIN PieceOrder = 1..14
  BY DEF PieceOrder
<1>2. /\ \A k \in 1..14 : PieceOrder[k] \in PieceNames
      /\ \A n \in PieceNames : \E k \in 1..14 : PieceOrder[k] = n
  BY <1>1 DEF PieceNames, Range
<1>3. \A k \in 1..14 : PieceOrder[k] \in KindSet \cup TableNames
  BY DEF PieceOrder, KindSet, TableNames
<1>4. \A j, k \in 1..14 : PieceOrder[j] = PieceOrder[k] => j = k
  BY SMTT(60) DEF PieceOrder
<1>5. QED
  BY <1>1, <1>2, <1>3, <1>4

(* Every piece has a size, in the file and in memory, and .bss has nothing  *)
(* in the file.                                                             *)
LEMMA PieceTyped ==
  ASSUME TypeInv, PlanInv, ConfInv, OutInv, HashInv, NEW n \in PieceNames
  PROVE  /\ PieceOf(n) \in [file : Nat, mem : Nat, align : Nat, falign : Nat,
                            round : Nat, fround : Nat]
         /\ n = "bss" => PieceOf(n).file = 0
<1>1. CASE n \in KindSet
  <2>1. out[n].mem \in Nat /\ out[n].file = IF n = "bss" THEN 0 ELSE out[n].mem
    BY <1>1 DEF OutInv, SectionsOK, SectionOK
  <2>2. PieceOf(n) = OutputSection(n)
    BY <1>1, KindsAre DEF PieceOf
  <2>3. QED
    BY <2>1, <2>2 DEF OutputSection, FileAlign, Page
<1>2. CASE n \notin KindSet
  <2>1. n \in TableNames /\ PieceOf(n) = Table(n)
    BY <1>2, KindsAre, OrderIs DEF PieceOf
  <2> DEFINE size == IF Dynamic THEN TableSize[n] ELSE 0
             round == IF n = "plt" THEN 16 ELSE 8
             align == TableAlign(n)
  <2>2. size \in Nat
    BY <2>1, TableTyped
  <2>3. align \in Nat
    BY DEF TableAlign, Page
  <2>4. Table(n) = [file |-> size, mem |-> size, align |-> align, falign |-> align,
                    round |-> round, fround |-> round]
    BY DEF Table
  <2> HIDE DEF size, align
  <2>5. QED
    BY <1>2, <2>1, <2>2, <2>3, <2>4 DEF KindSet
<1>3. QED
  BY <1>1, <1>2

LEMMA BaseIsNat ==
  ASSUME job \in Jobs
  PROVE  image_base \in Nat
<1>1. job.base \in Nat
  BY JobTypes, Zenon
<1>2. \A m \in {"executable", "dll"} : PeBase[m] \in Nat
  BY BaseAssumption
<1>3. QED
  BY <1>1, <1>2 DEF image_base

LEMMA PieceInit ==
  ASSUME Init
  PROVE  PieceInv
<1>1. /\ pc = "configure" /\ cursor \in [rva : Nat, off : Nat]
      /\ pieces = [n \in PieceNames |-> Nowhere]
  BY DEF Init, LayoutInit, cursor, pieces, Page
<1>2. Nowhere \in Piece
  BY DEF Nowhere, Piece
<1>3. \A k \in 1..14 : Rank(k) = Nowhere
  BY <1>1, OrderIs DEF Rank
<1>4. QED
  BY <1>1, <1>2, <1>3 DEF PieceInv, InOrder, Before

LEMMA OrderKept ==
  ASSUME InOrder, pieces' = pieces, cursor' = cursor, Placed' = Placed,
         image_base' = image_base \/ Placed = 0
  PROVE  InOrder'
<1>1. \A k : Rank(k)' = Rank(k)
  BY DEF Rank
<1>2. CASE image_base' = image_base
  BY <1>1, <1>2 DEF InOrder, Ended, Before, Nowhere
<1>3. CASE Placed = 0
  <2>1. \A k \in 1..14 : Rank(k) = Nowhere
    BY <1>3 DEF InOrder
  <2>2. QED
    BY <1>1, <2>1 DEF InOrder, Before, Nowhere
<1>4. QED
  BY <1>2, <1>3

(* A piece starts at or after the cursor, and the cursor ends up at or      *)
(* after its end.                                                           *)
LEMMA PiecePlaced ==
  ASSUME TypeInv, PlanInv, ConfInv, OutInv, HashInv, PieceInv, PlacePiece
  PROVE  PieceInv'
<1>0. job \in Jobs /\ r \in Nat \ {0} /\ Shape
  BY DEF TypeInv
<1>1. /\ pc = "address" /\ pc' = "address" /\ job' = job /\ conf' = conf
      /\ r \in DOMAIN PieceOrder /\ r' = r + 1
  BY <1>0, Steps DEF Moves, Keeps, Fields, conf
<1> DEFINE n == PieceOrder[r]
           p == PieceOf(n)
           rva == AlignUp(cursor.rva, p.align)
           off == AlignUp(cursor.off, p.falign)
           mem == AlignUp(p.mem, p.round)
           file == AlignUp(p.file, p.fround)
           new == [va |-> image_base + rva, off |-> IF n = "bss" THEN 0 ELSE off,
                   file |-> p.file, mem |-> p.mem]
           past == [rva |-> rva + mem, off |-> off + file]
<1>2. r \in 1..14 /\ n \in PieceNames
  BY <1>1, OrderIs
<1>3. Placed = r - 1 /\ Placed' = r
  BY <1>0, <1>1 DEF Placed
<1>4. \/ pieces' = pieces /\ cursor' = cursor
      \/ pieces' = [pieces EXCEPT ![n] = new] /\ cursor' = past
  <2>1. \/ ctx' = ctx
        \/ ctx' = [ctx EXCEPT !.pieces[n] = new, !.cursor = past]
    BY Zenon DEF PlacePiece
  <2> HIDE DEF n, new, past
  <2>2. QED
    BY <1>0, <2>1 DEF Shape, Fields, pieces, cursor
<1>5. /\ cursor \in [rva : Nat, off : Nat] /\ pieces \in [PieceNames -> Piece] /\ InOrder
  BY <1>1 DEF PieceInv
<1>6. image_base' = image_base /\ image_base \in Nat
  <2>1. image_base \in Nat
    BY <1>0, BaseIsNat
  <2>2. QED
    BY <1>1, <2>1 DEF image_base, Pe
<1>7. CASE pieces' = pieces /\ cursor' = cursor
  <2>1. \A k : Rank(k)' = Rank(k)
    BY <1>7 DEF Rank
  <2>2. InOrder'
    BY <1>0, <1>3, <1>5, <1>6, <1>7, <2>1 DEF InOrder, Ended, Before, Nowhere
  <2>3. QED
    BY <1>0, <1>1, <1>2, <1>5, <1>7, <2>2 DEF PieceInv
<1>8. CASE pieces' = [pieces EXCEPT ![n] = new] /\ cursor' = past
  <2>1. /\ p \in [file : Nat, mem : Nat, align : Nat, falign : Nat, round : Nat, fround : Nat]
        /\ n = "bss" => p.file = 0
    BY <1>2, PieceTyped
  <2> HIDE DEF p
  <2>2. /\ p.file \in Nat /\ p.mem \in Nat /\ p.align \in Nat /\ p.falign \in Nat
        /\ p.round \in Nat /\ p.fround \in Nat
        /\ cursor.rva \in Nat /\ cursor.off \in Nat
    BY <1>5, <2>1
  <2>3. /\ rva \in Nat /\ cursor.rva <= rva
        /\ off \in Nat /\ cursor.off <= off
        /\ mem \in Nat /\ p.mem <= mem
        /\ file \in Nat /\ p.file <= file
    BY <2>2, AlignUpGrows
  <2> HIDE DEF n, rva, off, mem, file
  <2>4. /\ new \in Piece
        /\ cursor' \in [rva : Nat, off : Nat]
        /\ cursor'.rva >= cursor.rva /\ cursor'.off >= cursor.off
    BY <1>6, <1>8, <2>2, <2>3 DEF Piece
  <2>5. /\ new.va + new.mem <= image_base + cursor'.rva
        /\ new.off + new.file <= cursor'.off
    <3>1. /\ new.va = image_base + rva /\ new.mem = p.mem /\ new.file = p.file
          /\ new.off = IF n = "bss" THEN 0 ELSE off
          /\ cursor'.rva = rva + mem /\ cursor'.off = off + file
      BY <1>8
    <3> HIDE DEF new, past
    <3>2. new.va + new.mem <= image_base + cursor'.rva
      BY <1>6, <2>2, <2>3, <3>1
    <3>3. new.off + new.file <= cursor'.off
      BY <2>1, <2>2, <2>3, <3>1
    <3>4. QED
      BY <3>2, <3>3
  <2>6. ASSUME NEW q \in Piece, q = Nowhere \/ Ended(q)
        PROVE  Before(q, new)
    <3>1. /\ new.va = image_base + rva /\ new.mem = p.mem /\ new.file = p.file
          /\ new.off = off \/ (new.off = 0 /\ new.file = 0)
      BY <2>1
    <3> HIDE DEF new
    <3>2. q.va \in Nat /\ q.mem \in Nat /\ q.off \in Nat /\ q.file \in Nat
      BY DEF Piece
    <3>3. q.va + q.mem <= new.va
      BY <1>6, <2>2, <2>3, <2>6, <3>1, <3>2 DEF Ended, Nowhere
    <3>4. q.off + q.file <= off
      BY <2>2, <2>3, <2>6, <3>2 DEF Ended, Nowhere
    <3>5. QED
      BY <3>1, <3>3, <3>4 DEF Before
  <2>7. /\ \A k \in 1..14 : k # r => Rank(k)' = Rank(k)
        /\ \A k \in 1..14 : k = r => Rank(k)' = new
        /\ \A k \in 1..14 : Rank(k) \in Piece
        /\ pieces' \in [PieceNames -> Piece]
    <3>1. /\ \A k \in 1..14 : PieceOrder[k] \in PieceNames /\ (k # r => PieceOrder[k] # n)
          /\ PieceOrder[r] = n /\ n \in PieceNames
      BY <1>2, OrderIs DEF n
    <3> HIDE DEF new
    <3>2. QED
      BY <1>2, <1>5, <1>8, <2>4, <3>1 DEF Rank
  <2> HIDE DEF new, past
  <2>8. ASSUME NEW q \in Piece, Ended(q)
        PROVE  Ended(q)'
    <3>1. q.va \in Nat /\ q.mem \in Nat /\ q.off \in Nat /\ q.file \in Nat
      BY DEF Piece
    <3>2. /\ cursor.rva \in Nat /\ cursor.off \in Nat /\ cursor'.rva \in Nat /\ cursor'.off \in Nat
      BY <2>2, <2>4
    <3>3. QED
      BY <1>6, <2>4, <2>8, <3>1, <3>2 DEF Ended
  <2>9. \A a, b : Before(a, b)' <=> Before(a, b)
    BY DEF Before, Nowhere
  <2>10. ASSUME NEW k \in 1..14
         PROVE  (/\ k > Placed => Rank(k) = Nowhere
                 /\ Rank(k) = Nowhere \/ Ended(Rank(k))
                 /\ \A j \in 1..(k-1) : Before(Rank(j), Rank(k)))'
    <3>1. CASE k = r
      <4>1. \A j \in 1..(k-1) : Before(Rank(j), new)
        BY <1>2, <1>5, <2>6, <2>7, <3>1 DEF InOrder
      <4>2. \A j \in 1..(k-1) : Rank(j)' = Rank(j)
        BY <1>2, <2>7, <3>1
      <4>3. \A j \in 1..(k-1) : Before(Rank(j), Rank(k))'
        BY <2>7, <3>1, <4>1, <4>2 DEF Before, Nowhere
      <4>4. Ended(Rank(k))'
        BY <1>6, <2>5, <2>7, <3>1 DEF Ended
      <4>5. ~(k > Placed')
        BY <1>0, <1>3, <3>1
      <4>6. QED
        BY <4>3, <4>4, <4>5
    <3>2. CASE k # r
      <4>1. Rank(k)' = Rank(k) /\ Rank(k) \in Piece
        BY <2>7, <3>2
      <4>2. k > Placed' => Rank(k) = Nowhere
        BY <1>0, <1>3, <1>5 DEF InOrder
      <4>3. Rank(k) = Nowhere \/ Ended(Rank(k))'
        BY <1>5, <2>8, <4>1 DEF InOrder, Ended
      <4>4. ASSUME NEW j \in 1..(k-1)
            PROVE  Before(Rank(j), Rank(k))'
        <5>1. CASE j = r
          BY <1>0, <1>3, <4>1, <4>2, <4>4, <5>1 DEF Before, Nowhere
        <5>2. CASE j # r
          <6>1. j \in 1..14 /\ Before(Rank(j), Rank(k))
            BY <1>5, <4>4 DEF InOrder
          <6>2. Rank(j)' = Rank(j)
            BY <2>7, <5>2, <6>1
          <6>3. QED
            BY <4>1, <6>1, <6>2 DEF Before, Nowhere
        <5>3. QED
          BY <5>1, <5>2
      <4>5. QED
        BY <4>1, <4>2, <4>3, <4>4 DEF Nowhere
    <3>3. QED
      BY <3>1, <3>2
  <2>11. InOrder'
    BY <2>10 DEF InOrder
  <2>12. QED
    BY <1>0, <1>1, <1>2, <2>4, <2>7, <2>11 DEF PieceInv
<1>9. QED
  BY <1>4, <1>7, <1>8

(* Every other action leaves the pieces and the cursor as they are, and     *)
(* once there are pieces also what their sizes were computed from.          *)
LEMMA PiecesQuiet ==
  ASSUME TypeInv, PieceInv, [Next]_vars, ~PlacePiece
  PROVE  /\ job' = job /\ pieces' = pieces /\ cursor' = cursor
         /\ pc' = "failed" \/ (pc # "failed" /\ Placed' = Placed)
         /\ \/ Placed = 0
            \/ conf' = conf /\ imports' = imports /\ planned' = planned
         /\ pc' = "address" => r' - 1 <= 14
<1>0. r \in Nat \ {0} /\ Shape
  BY DEF TypeInv
<1>1. /\ job' = job /\ pieces' = pieces /\ cursor' = cursor
      /\ \/ pc' = pc /\ pc # "address"
         \/ pc' = pc /\ r' = r
         \/ pc' = "failed"
         \/ pc = "address" /\ pc' = "symbols" /\ r \notin DOMAIN PieceOrder
         \/ pc \in {"symbols", "entry"} \cup Filling /\ pc' \in {"symbols", "entry"} \cup Filling
         \/ /\ pc \in Early \cup {"plan", "exports", "thunks", "dynsym", "dynimp", "hash"}
            /\ pc' \in Early \cup {"plan", "exports", "thunks", "dynsym", "dynimp", "hash",
                                   "address"}
            /\ pc' = "address" => r' = 1
      /\ \/ conf' = conf /\ imports' = imports /\ planned' = planned
         \/ pc \in Early \cup {"plan"}
  <2> USE DEF Moves, Keeps, Fields, conf, pieces, cursor, imports, planned, Filling, Early
  <2>1. CASE Configure \/ PlaceSection \/ SectionsPlaced
    BY <1>0, <2>1, Steps, SMTT(30)
  <2>2. CASE PlanRelocation \/ Planned \/ BuildExports
    BY <1>0, <2>2, Steps, SMTT(30)
  <2>3. CASE PlaceThunk \/ BuildImports \/ ExportSymbol
    BY <1>0, <2>3, Steps, SMTT(30)
  <2>4. CASE SymbolsExported \/ ImportSymbol \/ SymbolsImported
    BY <1>0, <2>4, Steps, SMTT(30)
  <2>5. CASE HashName \/ NamesHashed
    BY <1>0, <2>5, Steps, SMTT(30)
  <2>6. CASE PiecesPlaced \/ SymbolAddresses \/ FindEntry
    BY <1>0, <2>6, Steps, SMTT(30)
  <2>7. CASE FillTables \/ TablesFilled \/ Relocate \/ Relocated
    BY <2>7 DEF FillTables, TablesFilled, Relocate, Relocated
  <2>8. CASE EmitElf \/ EmitPe
    BY <2>8 DEF EmitElf, EmitPe
  <2>9. CASE UNCHANGED vars
    BY <2>9 DEF vars, layoutVars
  <2>10. QED
    BY <2>1, <2>2, <2>3, <2>4, <2>5, <2>6, <2>7, <2>8, <2>9 DEF Next, LayoutNext, Stopped
<1>2. pc = "address" /\ r \notin DOMAIN PieceOrder => r - 1 = 14
  BY <1>0, OrderIs DEF PieceInv
<1>3. pc' = "address" => r' - 1 <= 14
  BY <1>1 DEF PieceInv, Filling
<1>4. Placed = 0 \/ pc \notin Early \cup {"plan"}
  BY DEF Placed, Early, Filling
<1>5. pc' = "failed" \/ (pc # "failed" /\ Placed' = Placed)
  BY <1>0, <1>1, <1>2 DEF Placed, Early, Filling
<1>6. QED
  BY <1>1, <1>3, <1>4, <1>5

LEMMA PieceStep ==
  ASSUME TypeInv, PlanInv, ConfInv, OutInv, HashInv, PieceInv, [Next]_vars
  PROVE  PieceInv'
<1>1. CASE PlacePiece
  BY <1>1, PiecePlaced
<1>2. CASE ~PlacePiece
  <2>1. /\ job' = job /\ pieces' = pieces /\ cursor' = cursor
        /\ pc' = "failed" \/ (pc # "failed" /\ Placed' = Placed)
        /\ Placed = 0 \/ conf' = conf
        /\ pc' = "address" => r' - 1 <= 14
    BY <1>2, PiecesQuiet
  <2>2. image_base' = image_base \/ Placed = 0
    BY <2>1 DEF image_base, Pe
  <2>3. ASSUME pc' # "failed"
        PROVE  InOrder'
    <3>1. InOrder /\ Placed' = Placed
      BY <2>1, <2>3 DEF PieceInv
    <3>2. QED
      BY <2>1, <2>2, <3>1, OrderKept
  <2>4. QED
    BY <2>1, <2>3 DEF PieceInv
<1>3. QED
  BY <1>1, <1>2

LEMMA TableFile ==
  ASSUME NEW n \in Sized
  PROVE  PieceOf(n).file = DynSize(n) /\ PieceOf(n).mem = DynSize(n)
<1>1. PieceOf(n) = Table(n)
  BY KindsAre DEF PieceOf, Sized, KindSet
<1> DEFINE room == DynamicRoom
           plts == PltCount
<1>2. /\ TableSize["rela_dyn"] = 24 * planned
      /\ TableSize["rela_plt"] = 24 * plts
      /\ TableSize["dynamic"] = 16 * room
  BY DEF TableSize
<1>3. Table(n).file = (IF Dynamic THEN TableSize[n] ELSE 0) /\ Table(n).mem = Table(n).file
  BY DEF Table
<1>4. QED
  BY <1>1, <1>2, <1>3 DEF Sized, DynSize

LEMMA SizeInit ==
  ASSUME Init
  PROVE  SizeInv
<1>1. pc = "configure" /\ head = [loads |-> {}, movable |-> FALSE, dynamic |-> 0]
  BY DEF Init, LayoutInit
<1>2. Placed = 0
  BY <1>1 DEF Placed, Filling
<1>3. QED
  BY <1>1, <1>2 DEF SizeInv, SizesAsPlanned

LEMMA SizeStep ==
  ASSUME TypeInv, PlanInv, PieceInv, SizeInv, [Next]_vars
  PROVE  SizeInv'
<1>0. job \in Jobs /\ r \in Nat \ {0} /\ Shape
  BY DEF TypeInv
<1>1. CASE PlacePiece
  <2>1. /\ pc = "address" /\ pc' = "address" /\ job' = job /\ r \in 1..14 /\ r' = r + 1
        /\ conf' = conf /\ imports' = imports /\ planned' = planned /\ head' = head
    <3>1. /\ Moves("address", {"address"}, {"pieces", "cursor"})
          /\ r \in DOMAIN PieceOrder /\ r' = r + 1
      BY <1>0, <1>1, Steps
    <3>2. head' = head
      BY <1>1 DEF Next, LayoutNext, imageVars, vars, PlacePiece, FillTables, TablesFilled,
         Relocate, Relocated, EmitElf, EmitPe, Stopped
    <3>3. QED
      BY <3>1, <3>2, OrderIs DEF Moves, Keeps, Fields, conf, imports, planned
  <2>2. Placed = r - 1 /\ Placed' = r
    BY <1>0, <2>1 DEF Placed
  <2>3. \A n : DynSize(n)' = DynSize(n)
    <3>1. Dynamic' = Dynamic /\ PltCount' = PltCount /\ DynamicRoom' = DynamicRoom
      BY <2>1 DEF Dynamic, Pe, PltCount, Used, DynamicRoom, One
    <3>2. QED
      BY <2>1, <3>1 DEF DynSize
  <2> DEFINE n == PieceOrder[r]
             p == PieceOf(n)
  <2>4. \/ pieces' = pieces /\ p.mem = 0
        \/ \E new : new.file = p.file /\ pieces' = [pieces EXCEPT ![n] = new]
    <3> DEFINE rva == AlignUp(cursor.rva, p.align)
               off == AlignUp(cursor.off, p.falign)
               new == [va |-> image_base + rva, off |-> IF n = "bss" THEN 0 ELSE off,
                       file |-> p.file, mem |-> p.mem]
               past == [rva |-> rva + AlignUp(p.mem, p.round),
                        off |-> off + AlignUp(p.file, p.fround)]
    <3>1. \/ ctx' = ctx /\ p.mem = 0
          \/ ctx' = [ctx EXCEPT !.pieces[n] = new, !.cursor = past]
      BY <1>1, Zenon DEF PlacePiece
    <3>2. new.file = p.file
      OBVIOUS
    <3> HIDE DEF n, p, new, past
    <3>3. (pieces' = pieces /\ p.mem = 0) \/ pieces' = [pieces EXCEPT ![n] = new]
      BY <1>0, <3>1 DEF Shape, Fields, pieces
    <3>4. QED
      BY <3>2, <3>3
  <2>5. /\ \A k \in 1..14 : PieceOrder[k] \in PieceNames /\ (k # r => PieceOrder[k] # n)
        /\ n \in PieceNames /\ DOMAIN pieces = PieceNames
    BY <2>1, OrderIs DEF PieceInv
  <2> HIDE DEF n, p
  <2>6. \A k \in 1..14 : k # r => Rank(k)' = Rank(k)
    BY <2>4, <2>5 DEF Rank
  <2>7. n \in Sized => pieces'[n].file = DynSize(n)
    <3>1. n \in Sized => p.file = DynSize(n) /\ p.mem = DynSize(n)
      BY TableFile DEF p
    <3>2. pieces[n] = Nowhere
      <4>1. InOrder /\ r > Placed
        BY <1>0, <2>1, <2>2 DEF PieceInv
      <4>2. Rank(r) = Nowhere
        BY <2>1, <4>1 DEF InOrder
      <4>3. QED
        BY <4>2 DEF Rank, n
    <3>3. QED
      BY <2>4, <2>5, <3>1, <3>2 DEF Nowhere
  <2>8. ASSUME NEW k \in 1..14, k <= r, PieceOrder[k] \in Sized
        PROVE  Rank(k)'.file = DynSize(PieceOrder[k])
    <3>1. CASE k = r
      BY <2>7, <2>8, <3>1 DEF Rank, n
    <3>2. CASE k # r
      <4>1. Rank(k).file = DynSize(PieceOrder[k])
        BY <1>0, <2>1, <2>2, <2>8, <3>2 DEF SizeInv, SizesAsPlanned
      <4>2. QED
        BY <2>6, <3>2, <4>1
    <3>3. QED
      BY <3>1, <3>2
  <2>9. SizesAsPlanned'
    BY <2>2, <2>3, <2>8 DEF SizesAsPlanned
  <2>10. QED
    BY <2>1, <2>9 DEF SizeInv
<1>2. CASE ~PlacePiece
  <2>1. /\ job' = job /\ pieces' = pieces
        /\ pc' = "failed" \/ (pc # "failed" /\ Placed' = Placed)
        /\ Placed = 0 \/ (conf' = conf /\ imports' = imports /\ planned' = planned)
    BY <1>2, PiecesQuiet
  <2>2. Placed # 0 => \A n : DynSize(n)' = DynSize(n)
    <3>1. Placed # 0 =>
            Dynamic' = Dynamic /\ PltCount' = PltCount /\ DynamicRoom' = DynamicRoom
      BY <2>1 DEF Dynamic, Pe, PltCount, Used, DynamicRoom, One
    <3>2. QED
      BY <2>1, <3>1 DEF DynSize
  <2>3. ASSUME pc' # "failed"
        PROVE  SizesAsPlanned'
    <3>1. SizesAsPlanned /\ Placed' = Placed
      BY <2>1, <2>3 DEF SizeInv
    <3>2. \A k : Rank(k)' = Rank(k)
      BY <2>1 DEF Rank
    <3>3. CASE Placed = 0
      BY <3>1, <3>3 DEF SizesAsPlanned
    <3>4. CASE Placed # 0
      BY <2>2, <3>1, <3>2, <3>4 DEF SizesAsPlanned
    <3>5. QED
      BY <3>3, <3>4
  <2>4. /\ (DOMAIN head = {"loads", "movable", "dynamic"})'
        /\ (head.dynamic = IF pc = "done" /\ Dynamic THEN DynamicWritten ELSE 0)'
    <3>1. CASE EmitElf
      <4>1. ctx' = ctx /\ job' = job /\ pc' = "done"
        BY <3>1 DEF EmitElf
      <4>2. Dynamic' = Dynamic /\ DynamicWritten' = DynamicWritten
        BY <4>1 DEF Dynamic, Pe, conf, DynamicWritten, One, pieces, HasInterp
      <4>3. /\ DOMAIN head' = DOMAIN head
            /\ head'.dynamic = IF Dynamic THEN DynamicWritten ELSE 0
        BY <3>1 DEF EmitElf, SizeInv
      <4>4. QED
        BY <4>1, <4>2, <4>3 DEF SizeInv
    <3>2. CASE EmitPe
      <4>1. pc = "emit" /\ Pe /\ job' = job
        BY <3>2 DEF EmitPe
      <4>2. ~Dynamic'
        BY <4>1 DEF Dynamic, Pe
      <4>3. DOMAIN head' = DOMAIN head /\ head'.dynamic = head.dynamic
        BY <3>2 DEF EmitPe, SizeInv
      <4>4. QED
        BY <4>1, <4>2, <4>3 DEF SizeInv
    <3>3. CASE ~EmitElf /\ ~EmitPe
      <4>1. /\ head' = head
            /\ pc' = "done" => pc = "done" /\ ctx' = ctx
            /\ pc = "done" => pc' = "done"
        <5>1. CASE LayoutNext /\ UNCHANGED imageVars
          <6>1. pc' # "done" /\ pc # "done"
            BY <1>0, <5>1, Steps, SMTT(60) DEF LayoutNext, Moves
          <6>2. QED
            BY <5>1, <6>1 DEF imageVars
        <5>2. CASE FillTables \/ TablesFilled \/ Relocate \/ Relocated
          BY <5>2 DEF FillTables, TablesFilled, Relocate, Relocated, imageVars
        <5>3. CASE UNCHANGED vars
          BY <5>3 DEF vars, layoutVars, imageVars
        <5>4. QED
          BY <3>3, <5>1, <5>2, <5>3 DEF Next, Stopped
      <4>2. CASE pc' = "done"
        <5>1. Dynamic' = Dynamic /\ DynamicWritten' = DynamicWritten
          BY <2>1, <4>1, <4>2 DEF Dynamic, Pe, conf, DynamicWritten, One, pieces, HasInterp
        <5>2. QED
          BY <4>1, <4>2, <5>1 DEF SizeInv
      <4>3. CASE pc' # "done"
        BY <4>1, <4>3 DEF SizeInv
      <4>4. QED
        BY <4>2, <4>3
    <3>4. QED
      BY <3>1, <3>2, <3>3
  <2>5. QED
    BY <2>3, <2>4 DEF SizeInv
<1>3. QED
  BY <1>1, <1>2

-----------------------------------------------------------------------------
LEMMA ImageInit ==
  ASSUME Init
  PROVE  ImageInv
<1>1. CoreInv /\ ConfInv /\ OutInv
  BY CoreInit, OutInit
<1>2. HashInv /\ PieceInv /\ SizeInv
  BY HashInit, PieceInit, SizeInit
<1>3. QED
  BY <1>1, <1>2 DEF ImageInv, CoreInv

LEMMA ImageStep ==
  ASSUME ImageInv, [Next]_vars
  PROVE  ImageInv'
<1>1. /\ TypeInv /\ PlanInv /\ RelaInv /\ ConfInv /\ OutInv /\ HashInv /\ PieceInv /\ SizeInv
  BY DEF ImageInv
<1>2. CoreInv'
  BY <1>1, CoreStep DEF CoreInv
<1>3. ConfInv' /\ OutInv'
  BY <1>1, OutStep
<1>4. HashInv'
  BY <1>1, HashStep
<1>5. PieceInv'
  BY <1>1, PieceStep
<1>6. SizeInv'
  BY <1>1, SizeStep
<1>7. QED
  BY <1>2, <1>3, <1>4, <1>5, <1>6 DEF ImageInv, CoreInv

LEMMA ImageCorrect == Spec => []ImageInv
  BY ImageInit, ImageStep, PTL DEF Spec

(* The names that .hash of a finished dynamic image leads to are all those  *)
(* of .dynsym, and every chain ends, for any names and any hash function.   *)
THEOREM LookupFindsCorrect == Spec => []LookupFinds
<1>1. ASSUME ImageInv
      PROVE  LookupFinds
  <2>1. SUFFICES ASSUME pc = "done", Dynamic, NEW d \in DOMAIN dynsym
                 PROVE  /\ \A visited \in SUBSET DOMAIN dynsym :
                              /\ hash.bucket[BucketOf(d)] \in visited
                              /\ \A c \in visited : hash.chain[c] \in visited \cup {0}
                              => d \in visited
                        /\ hash.chain[d] < d
    BY DEF LookupFinds
  <2>2. DOMAIN dynsym = 1..Len(dynsym) /\ Hashed = Len(dynsym) /\ HashOK
    BY <1>1, <2>1 DEF ImageInv, HashInv, HashBuilt, Filling, Hashed
  <2>3. Leads(d) /\ hash.chain[d] < d
    BY <2>1, <2>2 DEF HashOK
  <2>4. QED
    BY <2>2, <2>3 DEF Leads
<1>2. QED
  BY <1>1, ImageCorrect, PTL

(* The pieces nylink_layout_internal places are disjoint, in memory and in  *)
(* the file, and so are the input sections inside an output section.        *)
THEOREM NothingOverlapsCorrect == Spec => []NothingOverlaps
<1>1. ASSUME ImageInv, pc = "done"
      PROVE  \A n, m \in PieceNames : n # m =>
                LET p == pieces[n]
                    q == pieces[m]
                IN /\ ~Overlap(p.va, p.mem, q.va, q.mem)
                   /\ ~Overlap(p.off, p.file, q.off, q.file)
  <2>1. pieces \in [PieceNames -> Piece] /\ InOrder
    BY <1>1 DEF ImageInv, PieceInv
  <2> DEFINE Apart(p, q) == /\ ~Overlap(p.va, p.mem, q.va, q.mem)
                            /\ ~Overlap(p.off, p.file, q.off, q.file)
  <2>2. ASSUME NEW p \in Piece, NEW q \in Piece, Before(p, q)
        PROVE  Apart(p, q) /\ Apart(q, p)
    <3>1. /\ p.va \in Nat /\ p.mem \in Nat /\ p.off \in Nat /\ p.file \in Nat
          /\ q.va \in Nat /\ q.mem \in Nat /\ q.off \in Nat /\ q.file \in Nat
      BY DEF Piece
    <3>2. CASE q = Nowhere
      BY <3>1, <3>2 DEF Nowhere, Overlap
    <3>3. CASE q # Nowhere
      <4>1. p.va + p.mem <= q.va /\ (p.off + p.file <= q.off \/ (q.off = 0 /\ q.file = 0))
        BY <2>2, <3>3 DEF Before
      <4>2. QED
        BY <3>1, <4>1 DEF Overlap
    <3>4. QED
      BY <3>2, <3>3
  <2> HIDE DEF Apart
  <2>3. ASSUME NEW n \in PieceNames, NEW m \in PieceNames, n # m
        PROVE  Apart(pieces[n], pieces[m])
    <3>1. PICK j \in 1..14, k \in 1..14 : PieceOrder[j] = n /\ PieceOrder[k] = m
      BY OrderIs
    <3>2. Rank(j) = pieces[n] /\ Rank(k) = pieces[m] /\ j # k
      BY <2>3, <3>1 DEF Rank
    <3>3. pieces[n] \in Piece /\ pieces[m] \in Piece
      BY <2>1
    <3>4. CASE j < k
      <4>1. Before(pieces[n], pieces[m])
        BY <2>1, <3>2, <3>4 DEF InOrder
      <4>2. QED
        BY <2>2, <3>3, <4>1
    <3>5. CASE k < j
      <4>1. Before(pieces[m], pieces[n])
        BY <2>1, <3>2, <3>5 DEF InOrder
      <4>2. QED
        BY <2>2, <3>3, <4>1
    <3>6. QED
      BY <3>2, <3>4, <3>5
  <2>4. QED
    BY <2>3 DEF Apart
<1>2. ASSUME ImageInv, pc = "done"
      PROVE  \A i \in Sections :
                LET s == job.sections[i] IN
                /\ at[i] >= FirstOffset(s.kind, conf.trampoline)
                /\ at[i] + s.size <= out[s.kind].mem
                /\ \A k \in 1..(i-1) : job.sections[k].kind = s.kind =>
                      at[k] + job.sections[k].size <= at[i]
  <2>1. SectionsApart /\ Len(at) = Len(job.sections) /\ at \in Seq(Nat) /\ job \in Jobs
    BY <1>2 DEF ImageInv, OutInv, TypeInv, Filling
  <2>2. Sections = 1..Len(job.sections)
    BY <2>1, JobTypes, Zenon
  <2>3. Sections = DOMAIN at
    BY <2>1, <2>2
  <2>4. QED
    BY <2>1, <2>3 DEF SectionsApart, Kind
<1>3. ImageInv => NothingOverlaps
  BY <1>1, <1>2 DEF NothingOverlaps
<1>4. QED
  BY <1>3, ImageCorrect, PTL

(* The dynamic section nylink_layout_internal sizes has room for every      *)
(* entry that the ELF emitter writes.                                       *)
THEOREM DynamicFitsCorrect == Spec => []DynamicFits
<1>1. ASSUME ImageInv, pc = "done"
      PROVE  16 * head.dynamic <= pieces["dynamic"].file
  <2>1. TypeInv /\ PlanInv /\ PieceInv /\ SizeInv
    BY <1>1 DEF ImageInv
  <2>2. /\ PieceOrder[5] = "rela_dyn" /\ PieceOrder[6] = "rela_plt"
        /\ PieceOrder[12] = "dynamic"
    BY DEF PieceOrder
  <2>3. SizesAsPlanned /\ Placed = 14
    BY <1>1, <2>1 DEF SizeInv, Placed, Filling
  <2>4. /\ pieces["rela_dyn"].file = DynSize("rela_dyn")
        /\ pieces["rela_plt"].file = DynSize("rela_plt")
        /\ pieces["dynamic"].file = DynSize("dynamic")
    BY <2>2, <2>3 DEF SizesAsPlanned, Sized, Rank
  <2>5. CASE ~Dynamic
    BY <1>1, <2>1, <2>4, <2>5 DEF DynSize, SizeInv
  <2>6. CASE Dynamic
    <3> DEFINE c == Cardinality(job.needed)
               p == PltCount
               so == One(conf.soname # Unnamed)
               rp == One(job.rpath # Unnamed)
               ip == One(conf.interp # Unnamed)
               hi == One(HasInterp)
               rd == One(planned > 0)
               pd == One(p > 0)
    <3>1. c \in Nat /\ planned \in Nat /\ p \in Nat
      <4>1. IsFiniteSet(job.needed)
        BY <2>1, JobsAssumption DEF TypeInv
      <4>2. QED
        BY <2>1, <4>1, FS_CardinalityType, PlannedIsNat
    <3>2. /\ so \in Nat /\ rp \in Nat /\ ip \in Nat /\ hi \in Nat /\ rd \in Nat /\ pd \in Nat
          /\ hi <= ip
      BY DEF One, HasInterp
    <3>3. pieces["dynamic"].file = 16 * (8 + so + rp + c + ip + 1 + 3 * rd + 4 * pd)
      BY <2>4, <2>6 DEF DynSize, DynamicRoom
    <3> HIDE DEF p
    <3>4. /\ One(pieces["rela_dyn"].file > 0) = rd
          /\ One(pieces["rela_plt"].file > 0) = pd
      <4>1. pieces["rela_dyn"].file = 24 * planned /\ pieces["rela_plt"].file = 24 * p
        BY <2>4, <2>6 DEF DynSize, p
      <4>2. QED
        BY <3>1, <4>1 DEF One
    <3>5. head.dynamic = so + c + 5 + 3 * rd + 4 * pd + rp + hi + 4
      BY <1>1, <2>1, <2>6, <3>4 DEF SizeInv, DynamicWritten
    <3> HIDE DEF c, so, rp, ip, hi, rd, pd
    <3>6. QED
      BY <3>1, <3>2, <3>3, <3>5
  <2>7. QED
    BY <2>5, <2>6
<1>2. ImageInv => DynamicFits
  BY <1>1 DEF DynamicFits
<1>3. QED
  BY <1>2, ImageCorrect, PTL

-----------------------------------------------------------------------------
(* Entry point and exports.                                                 *)

(* A definition found by name has the name.                                 *)
LEMMA Found ==
  ASSUME job \in Jobs, NEW n, nylink_find_symbol(n) # 0
  PROVE  nylink_find_symbol(n) \in Symbols /\ Sym(nylink_find_symbol(n)).name = n
<1> DEFINE named == {s \in Symbols : Sym(s).name = n}
           global == {s \in named : Static(s) /\ Sym(s).bind = "global"}
           weak == {s \in named : Static(s) /\ Sym(s).bind = "weak"}
           shared == {s \in named : Sym(s).def /\ Sym(s).dyn}
<1>1. Symbols \in SUBSET Nat
  BY JobTypes
<1>2. /\ named \in SUBSET Nat
      /\ global \in SUBSET named /\ weak \in SUBSET named /\ shared \in SUBSET named
  BY <1>1
<1>3. nylink_find_symbol(n) =
        IF global # {} THEN Min(global)
        ELSE IF named = {} \/ Static(FirstOf(named)) THEN FirstOf(named)
        ELSE IF weak # {} THEN Min(weak)
        ELSE IF shared # {} THEN Min(shared) ELSE FirstOf(named)
  BY DEF nylink_find_symbol
<1> HIDE DEF named, global, weak, shared
<1>4. /\ global # {} => Min(global) \in named
      /\ weak # {} => Min(weak) \in named
      /\ shared # {} => Min(shared) \in named
      /\ FirstOf(named) \in named \cup {0}
  BY <1>2, MinIsIn DEF FirstOf
<1>5. nylink_find_symbol(n) \in named
  BY <1>3, <1>4
<1>6. QED
  BY <1>5 DEF named

LEMMA FoundKept ==
  ASSUME job' = job
  PROVE  /\ \A n : nylink_find_symbol(n)' = nylink_find_symbol(n)
         /\ \A s : InSection(s)' = InSection(s) /\ Sym(s)' = Sym(s)
         /\ Sections' = Sections /\ Imports' = Imports /\ Pe' = Pe /\ Symbols' = Symbols
  BY DEF nylink_find_symbol, InSection, Static, Sym, Sections, Symbols, Imports, Pe

(* Which actions assign which field, and how a link gets from one phase to  *)
(* the next.                                                                *)
AfterImports == {"address", "symbols", "entry"} \cup Filling
AfterExports == {"thunks"} \cup AfterImports

LEMMA ContextMoves ==
  ASSUME TypeInv, [Next]_vars
  PROVE  /\ job' = job
         /\ conf' = conf \/ Configure
         /\ out' = out \/ Configure \/ PlaceSection \/ BuildExports \/ PlaceThunk \/ BuildImports
         /\ at' = at \/ PlaceSection
         /\ pe' = pe \/ BuildExports \/ PlaceThunk \/ BuildImports
         /\ resolved' = resolved \/ BuildImports \/ SymbolAddresses
         /\ (pieces' = pieces /\ cursor' = cursor) \/ PlacePiece
         /\ start' = start \/ FindEntry
         /\ pc' = "place" => pc = "place" \/ Configure
         /\ pc' = "plan" => pc \in {"place", "plan"}
         /\ pc' = "exports" => pc = "exports" \/ (pc = "plan" /\ Pe)
         /\ pc' = "thunks" => pc = "thunks" \/ BuildExports
         /\ pc' \in {"dynsym", "dynimp", "hash"} => pc \in {"dynsym", "dynimp", "hash"} \/ ~Pe
         /\ pc' = "address" =>
               pc = "address" \/ BuildImports \/ pc = "hash" \/ (pc = "plan" /\ ~Pe)
         /\ pc' = "symbols" => pc \in {"address", "symbols"}
         /\ pc' = "entry" => pc = "entry" \/ SymbolAddresses
         /\ pc' \in Filling => pc \in Filling \/ FindEntry
<1>0. Shape
  BY DEF TypeInv
<1> USE DEF Moves, Keeps, Fields, conf, out, at, pe, resolved, pieces, cursor, start, Filling
<1>1. CASE Configure \/ PlaceSection \/ SectionsPlaced
  BY <1>0, <1>1, Steps, SMTT(30)
<1>2. CASE PlanRelocation
  BY <1>0, <1>2, Steps, SMTT(30)
<1>3. CASE Planned
  <2>1. pc' = IF Pe THEN "exports" ELSE IF Dynamic THEN "dynsym" ELSE "address"
    BY <1>3 DEF Planned
  <2>2. QED
    BY <1>0, <1>3, <2>1, Steps, SMTT(30)
<1>4. CASE BuildExports \/ PlaceThunk \/ BuildImports
  BY <1>0, <1>4, Steps, SMTT(30)
<1>5. CASE ExportSymbol \/ SymbolsExported \/ ImportSymbol
  BY <1>0, <1>5, Steps, SMTT(30)
<1>6. CASE SymbolsImported \/ HashName \/ NamesHashed
  BY <1>0, <1>6, Steps, SMTT(30)
<1>7. CASE PlacePiece \/ PiecesPlaced
  BY <1>0, <1>7, Steps, SMTT(30)
<1>8. CASE SymbolAddresses \/ FindEntry
  BY <1>0, <1>8, Steps, SMTT(30)
<1>9. CASE FillTables \/ TablesFilled \/ Relocate \/ Relocated
  BY <1>9 DEF FillTables, TablesFilled, Relocate, Relocated
<1>10. CASE EmitElf \/ EmitPe
  BY <1>10 DEF EmitElf, EmitPe
<1>11. CASE UNCHANGED vars
  BY <1>11 DEF vars, layoutVars
<1>12. QED
  BY <1>1, <1>2, <1>3, <1>4, <1>5, <1>6, <1>7, <1>8, <1>9, <1>10, <1>11
  DEF Next, LayoutNext, Stopped


(* Until the tables are appended an output section ends where its last      *)
(* input section does; a PE image has no start code before the first.       *)
Tight(k) ==
    \/ out[k].mem = FirstOffset(k, conf.trampoline)
    \/ \E i \in DOMAIN at : Kind(i) = k /\ out[k].mem = at[i] + job.sections[i].size
EndsInv ==
    /\ conf.trampoline => ~Pe
    /\ pc \in {"dynsym", "dynimp", "hash"} => ~Pe
    /\ pc \in {"exports", "thunks"} => Pe
    /\ pc \in {"place", "plan", "exports"} => \A k \in KindSet : Tight(k)

LEMMA EndsStep ==
  ASSUME TypeInv, OutInv, EndsInv, [Next]_vars
  PROVE  EndsInv'
<1>0. Shape /\ job \in Jobs /\ r \in Nat \ {0} /\ pc \in Phases
  BY DEF TypeInv
<1>1. /\ job' = job
      /\ conf' = conf \/ Configure
      /\ out' = out \/ Configure \/ PlaceSection \/ BuildExports \/ PlaceThunk \/ BuildImports
      /\ at' = at \/ PlaceSection
      /\ pc' = "place" => pc = "place" \/ Configure
      /\ pc' = "plan" => pc \in {"place", "plan"}
      /\ pc' = "exports" => pc = "exports" \/ (pc = "plan" /\ Pe)
      /\ pc' = "thunks" => pc \in {"exports", "thunks"}
      /\ pc' \in {"dynsym", "dynimp", "hash"} => pc \in {"dynsym", "dynimp", "hash"} \/ ~Pe
      /\ Pe' = Pe
  <2>1. BuildExports => pc = "exports"
    BY <1>0, Steps DEF Moves
  <2>2. QED
    BY <2>1, ContextMoves, FoundKept
<1>2. CASE Configure
  <2>1. pc = "configure" /\ pc' \in {"place", "failed"}
    BY <1>0, <1>2, Steps DEF Moves
  <2>2. CASE pc' = "failed"
    <3>1. ctx' = ctx
      BY <1>2, <2>2, Zenon DEF Configure
    <3>2. QED
      BY <1>1, <2>2, <3>1 DEF EndsInv, conf
  <2>3. CASE pc' = "place"
    <3> DEFINE shared == job.mode \in {"shared", "dll"}
               default == /\ ~Pe /\ UsesDynamic(shared) /\ job.mode # "shared"
                          /\ job.interp = Unnamed
               c == [is_shared |-> shared, uses_dynamic |-> UsesDynamic(shared),
                     soname |-> IF shared THEN job.soname ELSE Unnamed,
                     interp |-> IF default THEN DefaultInterp ELSE job.interp,
                     trampoline |-> NeedsTrampoline]
               o == [k \in Range(Kinds) |->
                        LET first == FirstOffset(k, NeedsTrampoline)
                        IN [file |-> first, mem |-> first, align |-> 16]]
    <3>1. ctx' = [ctx EXCEPT !.conf = c, !.out = o]
      BY <1>2, <2>3, Zenon DEF Configure
    <3>2. c.trampoline = NeedsTrampoline /\ \A k \in KindSet : o[k].mem = FirstOffset(k, NeedsTrampoline)
      BY KindsAre
    <3> HIDE DEF c, o
    <3>3. conf' = c /\ out' = o
      BY <1>0, <3>1 DEF Shape, Fields, conf, out
    <3>4. Pe => ~NeedsTrampoline
      BY DEF NeedsTrampoline
    <3>5. \A k \in KindSet : Tight(k)'
      BY <3>2, <3>3 DEF Tight, FirstOffset
    <3>6. QED
      BY <1>1, <2>3, <3>2, <3>3, <3>4, <3>5 DEF EndsInv
  <2>4. QED
    BY <2>1, <2>2, <2>3
<1>3. CASE PlaceSection
  <2> DEFINE s == job.sections[r]
             k == s.kind
             offset == AlignUp(out[k].mem, s.align)
             end == offset + s.size
             new == [file |-> IF k = "bss" THEN 0 ELSE end, mem |-> end,
                     align |-> Max({out[k].align, s.align})]
  <2>1. Moves("place", {"place"}, {"at", "out"}) /\ r \in Sections
    BY <1>0, <1>3, Steps
  <2>2. pc = "place" /\ pc' = "place" /\ conf' = conf /\ Len(at) = r - 1 /\ at \in Seq(Nat)
        /\ DOMAIN out = KindSet
    BY <2>1 DEF Moves, Keeps, Fields, conf, OutInv, SectionsOK
  <2>3. at' = Append(at, offset) /\ out' = [out EXCEPT ![k] = new]
    BY <1>0, <1>3 DEF PlaceSection, Shape, Fields, at, out
  <2>4. k \in KindSet /\ s.size \in Nat /\ s.align \in Nat /\ Kind(r) = k
    BY <1>0, <2>1, SectionTyped DEF Kind
  <2>5. new.mem = offset + s.size
    OBVIOUS
  <2>6. offset \in Nat
    BY <2>4, AlignUpGrows DEF OutInv, SectionsOK, SectionOK
  <2> HIDE DEF offset, new
  <2>7. /\ DOMAIN at' = 1..r /\ at'[r] = offset /\ \A i \in DOMAIN at : i \in DOMAIN at' /\ at'[i] = at[i]
    BY <1>0, <2>2, <2>3, <2>6
  <2>8. out'[k].mem = at'[r] + s.size /\ \A j \in KindSet : j # k => out'[j] = out[j]
    BY <2>2, <2>3, <2>4, <2>5, <2>7
  <2>9. ASSUME NEW j \in KindSet
        PROVE  Tight(j)'
    <3>1. CASE j = k
      <4>1. /\ r \in DOMAIN at' /\ job'.sections[r].kind = k
            /\ job'.sections[r].size = s.size
        BY <1>0, <1>1, <2>7
      <4>2. QED
        BY <2>8, <3>1, <4>1 DEF Tight, Kind
    <3>2. CASE j # k
      <4>1. Tight(j) /\ out'[j] = out[j] /\ FirstOffset(j, conf.trampoline)' = FirstOffset(j, conf.trampoline)
        BY <2>2, <2>8, <3>2 DEF EndsInv, FirstOffset
      <4>2. CASE out[j].mem = FirstOffset(j, conf.trampoline)
        BY <4>1, <4>2 DEF Tight
      <4>3. CASE \E i \in DOMAIN at : Kind(i) = j /\ out[j].mem = at[i] + job.sections[i].size
        <5>1. PICK i \in DOMAIN at : Kind(i) = j /\ out[j].mem = at[i] + job.sections[i].size
          BY <4>3
        <5>2. i \in DOMAIN at' /\ at'[i] = at[i] /\ Kind(i)' = j /\ job'.sections[i].size = job.sections[i].size
          BY <1>1, <2>7, <5>1 DEF Kind
        <5>3. QED
          BY <4>1, <5>1, <5>2 DEF Tight
      <4>4. QED
        BY <4>1, <4>2, <4>3 DEF Tight
    <3>3. QED
      BY <3>1, <3>2
  <2>10. QED
    BY <1>1, <2>2, <2>9 DEF EndsInv
<1>4. CASE ~Configure /\ ~PlaceSection
  <2>1. conf' = conf /\ at' = at
    BY <1>1, <1>4
  <2>2. pc' \in {"place", "plan", "exports"} => pc \in {"place", "plan", "exports"}
    BY <1>1, <1>4
  <2>3. pc' \in {"place", "plan", "exports"} => out' = out
    <3>1. BuildExports \/ PlaceThunk \/ BuildImports => pc' \in {"thunks", "address"}
      BY <1>0, Steps DEF Moves
    <3>2. QED
      BY <1>1, <1>4, <3>1
  <2>4. ASSUME pc' \in {"place", "plan", "exports"}, NEW k \in KindSet
        PROVE  Tight(k)'
    <3>1. Tight(k) /\ out' = out
      BY <2>2, <2>3, <2>4 DEF EndsInv
    <3>2. QED
      BY <1>1, <2>1, <3>1 DEF Tight, Kind, FirstOffset
  <2>6. QED
    BY <1>1, <2>1, <2>4 DEF EndsInv
<1>5. QED
  BY <1>2, <1>3, <1>4

LEMMA EndsInit ==
  ASSUME Init
  PROVE  EndsInv
<1>1. pc = "configure" /\ conf.trampoline = FALSE
  BY DEF Init, LayoutInit, conf
<1>2. QED
  BY <1>1 DEF EndsInv

LEMMA MaxIs ==
  ASSUME NEW S \in SUBSET Nat, NEW m \in S, \A y \in S : y <= m
  PROVE  Max(S) = m
<1>1. \A x \in S : (\A y \in S : x >= y) => x = m
  OBVIOUS
<1>2. \A y \in S : m >= y
  OBVIOUS
<1>3. QED
  BY <1>1, <1>2 DEF Max

(* What SectionsEnd computes from the input sections is the size the output *)
(* sections of a PE image have when its export table is built.              *)
LEMMA EndsAre ==
  ASSUME TypeInv, OutInv, EndsInv, pc = "exports", Pe, NEW k \in KindSet
  PROVE  SectionsEnd(k) = out[k].mem
<1> DEFINE own == {i \in Sections : job.sections[i].kind = k}
           S == {0} \cup {at[i] + job.sections[i].size : i \in own}
<1>1. /\ job \in Jobs /\ at \in Seq(Nat) /\ Len(at) = Len(job.sections)
      /\ SectionsApart /\ Tight(k) /\ ~conf.trampoline /\ out[k].mem \in Nat
  BY DEF TypeInv, OutInv, EndsInv, Laying, SectionsOK, SectionOK
<1>2. Sections = DOMAIN at
  BY <1>1, JobTypes
<1>3. \A i \in own : /\ at[i] \in Nat /\ job.sections[i].size \in Nat
                     /\ at[i] + job.sections[i].size <= out[k].mem
  BY <1>1, <1>2, SectionTyped DEF SectionsApart, Kind
<1>4. S \in SUBSET Nat /\ \A y \in S : y <= out[k].mem
  BY <1>1, <1>3
<1>5. out[k].mem \in S
  BY <1>1, <1>2 DEF Tight, FirstOffset, Kind
<1>6. SectionsEnd(k) = Max(S)
  BY DEF SectionsEnd
<1> HIDE DEF S
<1>7. QED
  BY <1>4, <1>5, <1>6, MaxIs

(* The tables of a PE image, each assigned by the action that builds it.    *)
PeFields == {"export", "eat", "table", "slots", "first", "iat", "thunk", "disp"}

LEMMA PeMoves ==
  ASSUME Shape, DOMAIN pe = PeFields
  PROVE  /\ BuildExports => /\ DOMAIN pe' = PeFields
                            /\ pe'.iat = pe.iat /\ pe'.thunk = pe.thunk
         /\ PlaceThunk => /\ DOMAIN pe' = PeFields
                          /\ pe'.eat = pe.eat /\ pe'.iat = pe.iat
         /\ BuildImports => /\ DOMAIN pe' = PeFields
                            /\ pe'.eat = pe.eat /\ pe'.thunk = pe.thunk
<1> USE DEF Shape, Fields, PeFields, pe
<1>1. ASSUME BuildExports
      PROVE  /\ DOMAIN pe' = PeFields
             /\ pe'.iat = pe.iat /\ pe'.thunk = pe.thunk
  <2> DEFINE padded == AlignUp(out["rodata"].file, 4)
             e == RdataRva + padded
             t == [n \in job.exports |-> ExportRva(n, padded)]
             o == pe_append(out["rodata"], 4, ExportTableSize)
  <2>1. \/ ctx' = ctx
        \/ ctx' = [ctx EXCEPT !.pe.export = e, !.pe.eat = t, !.out["rodata"] = o]
    BY <1>1, Zenon DEF BuildExports, out
  <2> HIDE DEF e, t, o
  <2>2. pe' = pe \/ pe' = [pe EXCEPT !.export = e, !.eat = t]
    BY <2>1
  <2>3. QED
    BY <2>2
<1>2. ASSUME PlaceThunk
      PROVE  DOMAIN pe' = PeFields /\ pe'.eat = pe.eat /\ pe'.iat = pe.iat
  <2>1. \E o, t : ctx' = [ctx EXCEPT !.out["text"] = o, !.pe.thunk = t]
    BY <1>2 DEF PlaceThunk
  <2>2. QED
    BY <2>1
<1>3. ASSUME BuildImports
      PROVE  DOMAIN pe' = PeFields /\ pe'.eat = pe.eat /\ pe'.thunk = pe.thunk
  <2> DEFINE base == RdataRva + AlignUp(out["rodata"].file, 8)
             iat == [i \in Imports |-> base + 8 * (SlotOf(i) - 1)]
             slots == ImportTable.slots
             first == ImportTable.first
             disp == [i \in Imports |-> iat[i] - (pe.thunk[i] + 6)]
             tables == [pe EXCEPT !.table = base, !.slots = slots, !.first = first,
                                  !.iat = iat, !.disp = disp]
  <2>1. ctx' = ctx \/ \E o, v : ctx' = [ctx EXCEPT !.pe = tables, !.out["rodata"] = o,
                                                   !.resolved = v]
    BY <1>3 DEF BuildImports
  <2>2. DOMAIN tables = PeFields /\ tables.eat = pe.eat /\ tables.thunk = pe.thunk
    <3> HIDE DEF base, iat, slots, first, disp
    <3>1. QED
      OBVIOUS
  <2> HIDE DEF tables
  <2>3. pe' = pe \/ pe' = tables
    BY <2>1
  <2>4. QED
    BY <2>2, <2>3
<1>4. QED
  BY <1>1, <1>2, <1>3


(* A PE image comes to a phase after its exports through BuildExports, and  *)
(* to one after its imports through BuildImports.                           *)
LEMMA PeOrder ==
  ASSUME TypeInv, EndsInv, [Next]_vars, Pe
  PROVE  /\ pc' \in AfterExports => pc \in AfterExports \/ BuildExports
         /\ pc' \in AfterImports => pc \in AfterImports \/ BuildImports
<1>1. Shape
  BY DEF TypeInv
<1>2. /\ BuildImports => pc = "thunks"
      /\ SymbolAddresses => pc = "symbols"
      /\ FindEntry => pc = "entry"
  BY <1>1, Steps DEF Moves
<1>3. pc # "hash"
  BY DEF EndsInv
<1>4. QED
  BY <1>2, <1>3, ContextMoves DEF AfterExports, AfterImports

(* What the export address table holds, given by the input sections alone.  *)
TextEnd == AlignUp(SectionsEnd("text"), Page)
RdataEnd == AlignUp(AlignUp(SectionsEnd("rodata"), 4), Page)
RvaBefore(kind) == CASE kind = "rodata" -> TextEnd
                   [] kind = "data" -> TextEnd + RdataEnd
                   [] OTHER -> 0
ExportAt(n) ==
    LET s == nylink_find_symbol(n)
    IN Page + RvaBefore(job.sections[Sym(s).sec].kind) + at[Sym(s).sec] + Sym(s).value

ExportInv ==
    /\ DOMAIN pe = PeFields
    /\ Pe /\ pc \in AfterExports => \A n \in Exported : pe.eat[n] = ExportAt(n)

LEMMA ExportInit ==
  ASSUME Init
  PROVE  ExportInv
<1>1. /\ pc = "configure"
      /\ pe = [export |-> 0, eat |-> <<>>, table |-> 0, slots |-> <<>>, first |-> <<>>,
               iat |-> <<>>, thunk |-> <<>>, disp |-> <<>>]
  BY DEF Init, LayoutInit, pe
<1>2. QED
  BY <1>1 DEF ExportInv, PeFields, AfterExports, AfterImports, Filling

LEMMA ExportStep ==
  ASSUME TypeInv, OutInv, EndsInv, ExportInv, [Next]_vars
  PROVE  ExportInv'
<1>0. Shape /\ job \in Jobs /\ DOMAIN pe = PeFields
  BY DEF TypeInv, ExportInv
<1>1. /\ job' = job /\ Pe' = Pe
      /\ at' = at \/ PlaceSection
      /\ pe' = pe \/ BuildExports \/ PlaceThunk \/ BuildImports
      /\ PlaceSection => pc' = "place"
      /\ BuildExports => at' = at /\ pc = "exports"
  <2>1. /\ PlaceSection => pc' = "place"
        /\ BuildExports => at' = at /\ pc = "exports"
    BY <1>0, Steps DEF Moves, Keeps, Fields, at
  <2>2. QED
    BY <2>1, ContextMoves, FoundKept
<1>2. DOMAIN pe' = PeFields
  BY <1>0, <1>1, PeMoves
<1>3. SUFFICES ASSUME Pe, pc' \in AfterExports, NEW n \in Exported'
               PROVE  pe'.eat[n] = ExportAt(n)'
  BY <1>1, <1>2 DEF ExportInv
<1>4. n \in Exported
  BY <1>1, FoundKept DEF Exported
<1>5. at' = at
  BY <1>1, <1>3 DEF AfterExports, AfterImports, Filling
<1>6. ExportAt(n)' = ExportAt(n)
  <2>1. \A k : SectionsEnd(k)' = SectionsEnd(k)
    BY <1>1, <1>5 DEF SectionsEnd, Sections
  <2>2. \A k : RvaBefore(k)' = RvaBefore(k)
    BY <2>1 DEF RvaBefore, TextEnd, RdataEnd
  <2>3. nylink_find_symbol(n)' = nylink_find_symbol(n)
    BY <1>1, FoundKept
  <2>4. QED
    BY <1>1, <1>5, <2>2, <2>3 DEF ExportAt, Sym
<1>7. CASE BuildExports
  <2> DEFINE padded == AlignUp(out["rodata"].file, 4)
             e == RdataRva + padded
             t == [m \in job.exports |-> ExportRva(m, padded)]
             o == pe_append(out["rodata"], 4, ExportTableSize)
  <2>1. ctx' = [ctx EXCEPT !.pe.export = e, !.pe.eat = t, !.out["rodata"] = o]
    BY <1>4, <1>7, Zenon DEF BuildExports, out, Exported
  <2>2. t[n] = ExportRva(n, padded)
    BY <1>4 DEF Exported
  <2>3. TextRva = TextEnd /\ AlignUp(padded, Page) = RdataEnd
    <3>1. SectionsEnd("text") = out["text"].mem /\ SectionsEnd("rodata") = out["rodata"].mem
      BY <1>1, <1>3, <1>7, EndsAre DEF KindSet
    <3>2. out["rodata"].file = out["rodata"].mem
      BY DEF OutInv, SectionsOK, SectionOK, KindSet
    <3>3. QED
      BY <3>1, <3>2 DEF TextRva, TextEnd, RdataEnd
  <2> HIDE DEF padded, e, t, o
  <2>4. pe' = [pe EXCEPT !.export = e, !.eat = t]
    BY <1>0, <2>1 DEF Shape, Fields, pe
  <2>5. pe'.eat = t
    BY <1>0, <2>4 DEF PeFields
  <2>6. ExportRva(n, padded) = ExportAt(n)
    <3>1. nylink_find_symbol(n) # 0 /\ InSection(nylink_find_symbol(n))
      BY <1>4 DEF Exported
    <3>2. QED
      BY <2>3, <3>1 DEF ExportRva, ExportAt, RvaBefore
  <2>7. QED
    BY <1>6, <2>2, <2>5, <2>6
<1>8. CASE ~BuildExports
  <2>1. pc \in AfterExports
    BY <1>3, <1>8, PeOrder
  <2>2. pe'.eat = pe.eat
    BY <1>0, <1>1, <1>8, PeMoves
  <2>3. pe.eat[n] = ExportAt(n)
    BY <1>3, <1>4, <2>1 DEF ExportInv
  <2>4. QED
    BY <1>6, <2>2, <2>3
<1>9. QED
  BY <1>7, <1>8


(* What is rounded up to a page is a multiple of it, and stays where it is  *)
(* when rounded again.                                                      *)
Whole(v) == v \in Nat /\ v % Page = 0

LEMMA WholePages ==
  /\ \A v \in Nat : Whole(AlignUp(v, Page)) /\ v <= AlignUp(v, Page)
  /\ \A v : Whole(v) => AlignUp(v, Page) = v
  /\ \A v, w : Whole(v) /\ Whole(w) => Whole(v + w)
  /\ Whole(Page) /\ AlignUp(0, Page) = 0
<1>1. \A v \in Nat : AlignUp(v, 4096) = ((v + 4095) \div 4096) * 4096
  BY DEF AlignUp
<1>2. ASSUME NEW v \in Nat
      PROVE  /\ AlignUp(v, 4096) \in Nat /\ AlignUp(v, 4096) % 4096 = 0 /\ v <= AlignUp(v, 4096)
             /\ v % 4096 = 0 => AlignUp(v, 4096) = v
  <2> DEFINE q == (v + 4095) \div 4096
  <2>1. q \in Nat /\ 4096 * q <= v + 4095 /\ v + 4095 < 4096 * q + 4096
    OBVIOUS
  <2>2. AlignUp(v, 4096) = q * 4096
    BY <1>1
  <2> HIDE DEF q
  <2>3. (q * 4096) % 4096 = 0 /\ q * 4096 \in Nat /\ v <= q * 4096
    BY <2>1
  <2>4. v % 4096 = 0 => q * 4096 = v
    BY <2>1
  <2>5. QED
    BY <2>2, <2>3, <2>4
<1>3. \A v, w \in Nat : v % 4096 = 0 /\ w % 4096 = 0 => (v + w) % 4096 = 0
  OBVIOUS
<1>4. AlignUp(0, 4096) = 0
  BY <1>2
<1>5. QED
  BY <1>2, <1>3, <1>4 DEF Whole, Page

(* Where the pieces of a PE image go: .text first, .rdata after it and      *)
(* .data after that; it has none of the tables of a dynamic image.          *)
PeRva(k) ==
    IF k <= 8 THEN Page
    ELSE IF k = 9 THEN Page + TextRva
    ELSE Page + TextRva + AlignUp(out["rodata"].mem, Page)

PeInv ==
    /\ cursor.rva >= Page
    /\ \A k \in 1..14 : Rank(k) = Nowhere \/ Rank(k).va >= Page
    /\ Pe /\ pc # "failed" =>
         /\ Placed <= 9 => cursor.rva = PeRva(Placed + 1)
         /\ \A k \in {8, 9, 10} :
               \/ Rank(k) = Nowhere
               \/ /\ Rank(k).va = image_base + PeRva(k)
                  /\ Rank(k).mem = out[PieceOrder[k]].mem

LEMMA PeInit ==
  ASSUME Init
  PROVE  PeInv
<1>1. /\ pc = "configure" /\ cursor.rva = Page
      /\ pieces = [n \in PieceNames |-> Nowhere]
  BY DEF Init, LayoutInit, cursor, pieces
<1>2. \A k \in 1..14 : Rank(k) = Nowhere
  BY <1>1, OrderIs DEF Rank
<1>3. Placed = 0
  BY <1>1 DEF Placed, Filling
<1>4. QED
  BY <1>1, <1>2, <1>3 DEF PeInv, PeRva, Page

(* One piece of a PE image moves the cursor on to the next.                 *)
LEMMA PeNext ==
  ASSUME OutInv, Pe, NEW k \in 1..10
  PROVE  LET n == PieceOrder[k]
             p == PieceOf(n)
         IN /\ Whole(PeRva(k))
            /\ k < 8 => p.mem = 0
            /\ k >= 8 => p.mem = out[n].mem /\ p.mem \in Nat /\ p.align = Page /\ p.round = Page
            /\ k < 10 => PeRva(k + 1) = PeRva(k) + AlignUp(p.mem, Page)
<1> DEFINE n == PieceOrder[k]
           p == PieceOf(n)
           ro == AlignUp(out["rodata"].mem, Page)
<1>1. /\ k < 8 => n \notin KindSet
      /\ k = 8 => n = "text"
      /\ k = 9 => n = "rodata"
      /\ k = 10 => n = "data"
  BY DEF PieceOrder, KindSet
<1>2. \A j \in KindSet : out[j].mem \in Nat
  BY DEF OutInv, SectionsOK, SectionOK
<1>3. Whole(TextRva) /\ Whole(ro) /\ Whole(Page)
  BY <1>2, WholePages DEF TextRva, KindSet
<1>4. Whole(Page + TextRva)
  BY <1>3, WholePages
<1>5. Whole((Page + TextRva) + ro)
  BY <1>3, <1>4, WholePages
<1>6. Whole(PeRva(k))
  BY <1>3, <1>4, <1>5 DEF PeRva
<1>7. k < 8 => p.mem = 0
  <2>1. k < 8 => p = Table(n)
    BY <1>1, KindsAre DEF PieceOf
  <2>2. Table(n).mem = 0
    BY DEF Table, Dynamic
  <2>3. QED
    BY <2>1, <2>2
<1>8. k >= 8 => p.mem = out[n].mem /\ p.mem \in Nat /\ p.align = Page /\ p.round = Page
  <2>1. k >= 8 => n \in KindSet
    BY <1>1 DEF KindSet
  <2>2. k >= 8 => p = OutputSection(n)
    BY <2>1, KindsAre DEF PieceOf
  <2>3. QED
    BY <1>2, <2>1, <2>2 DEF OutputSection
<1>9. ASSUME k < 10
      PROVE  PeRva(k + 1) = PeRva(k) + AlignUp(p.mem, Page)
  <2>1. CASE k < 8
    <3>1. PeRva(k) = Page /\ PeRva(k + 1) = Page
      BY <2>1 DEF PeRva
    <3>2. QED
      BY <1>7, <2>1, <3>1, WholePages DEF Page
  <2>2. CASE k = 8
    BY <1>1, <1>8, <2>2 DEF PeRva, TextRva
  <2>3. CASE k = 9
    BY <1>1, <1>8, <2>3 DEF PeRva
  <2>4. QED
    BY <1>9, <2>1, <2>2, <2>3
<1>10. QED
  BY <1>6, <1>7, <1>8, <1>9


LEMMA PeStep ==
  ASSUME TypeInv, PlanInv, ConfInv, OutInv, HashInv, PieceInv, PeInv, [Next]_vars
  PROVE  PeInv'
<1>0. job \in Jobs /\ r \in Nat \ {0} /\ Shape
  BY DEF TypeInv
<1>1. CASE PlacePiece
  <2>1. /\ pc = "address" /\ pc' = "address" /\ job' = job /\ r \in 1..14 /\ r' = r + 1
        /\ conf' = conf /\ out' = out
    <3>1. /\ Moves("address", {"address"}, {"pieces", "cursor"})
          /\ r \in DOMAIN PieceOrder /\ r' = r + 1
      BY <1>0, <1>1, Steps
    <3>2. QED
      BY <3>1, OrderIs DEF Moves, Keeps, Fields, conf, out
  <2>2. /\ Placed = r - 1 /\ Placed' = r /\ image_base' = image_base /\ image_base \in Nat
        /\ Pe' = Pe /\ \A k : PeRva(k)' = PeRva(k)
    BY <1>0, <2>1, BaseIsNat DEF Placed, image_base, Pe, PeRva, TextRva
  <2> DEFINE n == PieceOrder[r]
             p == PieceOf(n)
             rva == AlignUp(cursor.rva, p.align)
             off == AlignUp(cursor.off, p.falign)
             new == [va |-> image_base + rva, off |-> IF n = "bss" THEN 0 ELSE off,
                     file |-> p.file, mem |-> p.mem]
             past == [rva |-> rva + AlignUp(p.mem, p.round),
                      off |-> off + AlignUp(p.file, p.fround)]
  <2>3. \/ ctx' = ctx /\ p.mem = 0
        \/ ctx' = [ctx EXCEPT !.pieces[n] = new, !.cursor = past] /\ p.mem # 0
    BY <1>1, Zenon DEF PlacePiece
  <2>4. new.va = image_base + rva /\ new.mem = p.mem /\ past.rva = rva + AlignUp(p.mem, p.round)
    OBVIOUS
  <2>5. rva \in Nat /\ rva >= cursor.rva /\ AlignUp(p.mem, p.round) \in Nat
        /\ cursor.rva \in Nat /\ p.mem \in Nat
    <3>1. p \in [file : Nat, mem : Nat, align : Nat, falign : Nat, round : Nat, fround : Nat]
      BY <2>1, OrderIs, PieceTyped
    <3> HIDE DEF p
    <3>2. p.mem \in Nat /\ p.round \in Nat /\ p.align \in Nat /\ cursor.rva \in Nat
      BY <3>1 DEF PieceInv
    <3>3. QED
      BY <3>2, AlignUpGrows
  <2>6. /\ \A k \in 1..14 : PieceOrder[k] \in PieceNames /\ (k # r => PieceOrder[k] # n)
        /\ n \in PieceNames /\ DOMAIN pieces = PieceNames
    BY <2>1, OrderIs DEF PieceInv
  <2>7. /\ Pe /\ r <= 10 => Whole(PeRva(r))
        /\ Pe /\ r < 8 => p.mem = 0
        /\ Pe /\ r >= 8 /\ r <= 10 => p.mem = out[n].mem /\ p.align = Page /\ p.round = Page
        /\ Pe /\ r < 10 => PeRva(r + 1) = PeRva(r) + AlignUp(p.mem, Page)
    <3>1. Pe /\ r <= 10 => r \in 1..10
      BY <2>1
    <3>2. QED
      BY <2>1, <3>1, PeNext
  <2>8. Pe /\ r <= 10 => cursor.rva = PeRva(r)
    BY <1>0, <2>1, <2>2 DEF PeInv
  <2>9. Pe /\ r >= 8 /\ r <= 10 => rva = PeRva(r)
    BY <2>1, <2>7, <2>8, WholePages
  <2>10. p.mem = 0 => AlignUp(p.mem, Page) = 0
    BY WholePages
  <2>11. pieces[n] = Nowhere
    <3>1. InOrder /\ r > Placed
      BY <1>0, <2>1, <2>2 DEF PieceInv
    <3>2. Rank(r) = Nowhere
      BY <2>1, <3>1 DEF InOrder
    <3>3. QED
      BY <3>2 DEF Rank
  <2>12. n = PieceOrder[r] /\ Page \in Nat /\ Whole(Page)
    BY WholePages DEF Page
  <2> HIDE DEF n, p, rva, off, new, past
  <2>13. \/ pieces' = pieces /\ cursor' = cursor /\ p.mem = 0
         \/ pieces' = [pieces EXCEPT ![n] = new] /\ cursor' = past /\ p.mem # 0
    BY <1>0, <2>3 DEF Shape, Fields, pieces, cursor
  <2>14. \A k \in 1..14 : k # r => Rank(k)' = Rank(k)
    BY <2>6, <2>13 DEF Rank
  <2>15. \A k \in 1..14 : k = r => Rank(k)' = IF p.mem = 0 THEN Nowhere ELSE new
    <3>1. pieces'[n] = IF p.mem = 0 THEN Nowhere ELSE new
      BY <2>6, <2>11, <2>13
    <3>2. QED
      BY <2>12, <3>1 DEF Rank
  <2>16. cursor'.rva = IF p.mem = 0 THEN cursor.rva ELSE rva + AlignUp(p.mem, p.round)
    BY <2>4, <2>13
  <2>17. cursor'.rva >= Page
    BY <2>5, <2>12, <2>16 DEF PeInv
  <2>18. ASSUME NEW k \in 1..14
         PROVE  Rank(k)' = Nowhere \/ Rank(k)'.va >= Page
    <3>1. CASE k = r
      BY <2>2, <2>4, <2>5, <2>12, <2>15, <3>1 DEF PeInv
    <3>2. CASE k # r
      BY <2>14, <3>2 DEF PeInv
    <3>3. QED
      BY <3>1, <3>2
  <2>19. ASSUME Pe, r <= 9
         PROVE  cursor'.rva = PeRva(r + 1)
    <3>1. PeRva(r) \in Nat /\ PeRva(r + 1) = PeRva(r) + AlignUp(p.mem, Page)
          /\ cursor.rva = PeRva(r)
      BY <2>1, <2>7, <2>8, <2>19 DEF Whole
    <3>2. CASE p.mem = 0
      BY <2>10, <2>16, <3>1, <3>2
    <3>3. CASE p.mem # 0
      <4>1. r >= 8 /\ r <= 10
        BY <2>1, <2>7, <2>19, <3>3
      <4>2. QED
        BY <2>7, <2>9, <2>16, <2>19, <3>1, <3>3, <4>1
    <3>4. QED
      BY <3>2, <3>3
  <2>20. ASSUME Pe, NEW k \in {8, 9, 10}
         PROVE  \/ Rank(k)' = Nowhere
                \/ /\ Rank(k)'.va = image_base + PeRva(k)
                   /\ Rank(k)'.mem = out[PieceOrder[k]].mem
    <3>1. CASE k = r
      BY <2>4, <2>7, <2>9, <2>12, <2>15, <2>20, <3>1
    <3>2. CASE k # r
      BY <2>1, <2>14, <2>20, <3>2 DEF PeInv
    <3>3. QED
      BY <3>1, <3>2
  <2>21. Pe => /\ Placed' <= 9 => cursor'.rva = PeRva(Placed + 1)'
               /\ \A k \in {8, 9, 10} :
                     \/ Rank(k)' = Nowhere
                     \/ /\ Rank(k)'.va = image_base' + PeRva(k)'
                        /\ Rank(k)'.mem = out'[PieceOrder[k]].mem
    <3>1. PeRva(Placed + 1)' = PeRva(r + 1)
      BY <2>1, <2>2 DEF PeRva, TextRva
    <3>2. QED
      BY <2>1, <2>2, <2>19, <2>20, <3>1
  <2>22. QED
    BY <2>2, <2>17, <2>18, <2>21 DEF PeInv
<1>2. CASE ~PlacePiece
  <2>1. /\ job' = job /\ pieces' = pieces /\ cursor' = cursor
        /\ pc' = "failed" \/ (pc # "failed" /\ Placed' = Placed)
        /\ Placed = 0 \/ conf' = conf
    BY <1>2, PiecesQuiet
  <2>2. Pe' = Pe /\ \A k : Rank(k)' = Rank(k)
    BY <2>1 DEF Rank, Pe
  <2>3. ASSUME Pe, pc' # "failed"
        PROVE  /\ Placed' <= 9 => cursor'.rva = PeRva(Placed + 1)'
               /\ \A k \in {8, 9, 10} :
                     \/ Rank(k)' = Nowhere
                     \/ /\ Rank(k)'.va = image_base' + PeRva(k)'
                        /\ Rank(k)'.mem = out'[PieceOrder[k]].mem
    <3>1. pc # "failed" /\ Placed' = Placed
      BY <2>1, <2>3
    <3>2. CASE Placed = 0
      <4>1. \A k \in 1..14 : Rank(k) = Nowhere
        BY <3>1, <3>2 DEF PieceInv, InOrder
      <4>2. cursor.rva = Page
        BY <2>3, <3>1, <3>2 DEF PeInv, PeRva
      <4>3. PeRva(Placed + 1)' = Page
        BY <3>1, <3>2 DEF PeRva
      <4>4. QED
        BY <2>1, <2>2, <4>1, <4>2, <4>3
    <3>3. CASE Placed # 0
      <4>1. pc \in {"address", "symbols", "entry"} \cup Filling
        BY <3>3 DEF Placed
      <4>2. out' = out
        <5>1. /\ Configure => pc = "configure"
              /\ PlaceSection => pc = "place"
              /\ BuildExports => pc = "exports"
              /\ PlaceThunk \/ BuildImports => pc = "thunks"
          BY <1>0, Steps DEF Moves
        <5>2. QED
          BY <4>1, <5>1, ContextMoves DEF Filling
      <4>3. image_base' = image_base /\ \A k : PeRva(k)' = PeRva(k)
        BY <2>1, <3>3, <4>2 DEF image_base, Pe, PeRva, TextRva
      <4>4. PeRva(Placed + 1)' = PeRva(Placed + 1)
        BY <3>1, <4>2 DEF PeRva, TextRva
      <4>5. /\ Placed <= 9 => cursor.rva = PeRva(Placed + 1)
            /\ \A k \in {8, 9, 10} :
                  \/ Rank(k) = Nowhere
                  \/ /\ Rank(k).va = image_base + PeRva(k)
                     /\ Rank(k).mem = out[PieceOrder[k]].mem
        BY <2>3, <3>1 DEF PeInv
      <4>6. QED
        BY <2>1, <2>2, <3>1, <4>2, <4>3, <4>4, <4>5
    <3>4. QED
      BY <3>2, <3>3
  <2>4. QED
    BY <2>1, <2>2, <2>3 DEF PeInv
<1>3. QED
  BY <1>1, <1>2


LEMMA SymTyped ==
  ASSUME job \in Jobs, NEW s \in Symbols
  PROVE  Sym(s).value \in Nat /\ Sym(s).sec \in 0..Len(job.sections)
         /\ Sym(s).def \in BOOLEAN /\ Sym(s).dyn \in BOOLEAN
<1> DEFINE S == [name : STRING \X STRING, bind : {"local", "weak", "global"},
                 def : BOOLEAN, dyn : BOOLEAN, func : BOOLEAN,
                 sec : 0..Len(job.sections), value : Nat, default : BOOLEAN]
<1>1. job.symbols \in Seq(S)
  BY JobsAssumption, Zenon
<1>2. \A y \in S : y.value \in Nat /\ y.sec \in 0..Len(job.sections)
                   /\ y.def \in BOOLEAN /\ y.dyn \in BOOLEAN
  OBVIOUS
<1> HIDE DEF S
<1>3. job.symbols[s] \in S
  BY <1>1 DEF Symbols
<1>4. QED
  BY <1>2, <1>3 DEF Sym

(* Every export whose section the tables and thunks appended later did not  *)
(* move is, in the finished image, at the address BuildExports gave it.     *)
THEOREM ExportsReachedCorrect == Spec => []ExportsReached
<1>1. ASSUME Init
      PROVE  EndsInv /\ ExportInv /\ PeInv
  BY <1>1, EndsInit, ExportInit, PeInit
<1>2. ASSUME ImageInv, EndsInv, ExportInv, PeInv, [Next]_vars
      PROVE  EndsInv' /\ ExportInv' /\ PeInv'
  BY <1>2, EndsStep, ExportStep, PeStep DEF ImageInv
<1>3. ASSUME ImageInv, EndsInv, ExportInv, PeInv
      PROVE  ExportsReached
  <2>1. SUFFICES ASSUME pc = "done", Pe, NEW n \in Exported, ~Shifted(n)
                 PROVE  ExportIsExact(n)
    BY DEF ExportsReached
  <2> DEFINE s == nylink_find_symbol(n)
             i == Sym(s).sec
             kind == job.sections[i].kind
             value == Sym(s).value
  <2>2. TypeInv /\ OutInv /\ PieceInv /\ job \in Jobs /\ at \in Seq(Nat) /\ DOMAIN at = Sections
    <3>1. at \in Seq(Nat) /\ Len(at) = Len(job.sections) /\ job \in Jobs
      BY <1>3, <2>1 DEF ImageInv, OutInv, TypeInv, Filling
    <3>2. QED
      BY <1>3, <3>1, JobTypes DEF ImageInv
  <2>3. s # 0 /\ InSection(s) /\ s \in Symbols /\ i \in Sections
    BY <2>2, Found DEF Exported, InSection
  <2>4. value \in Nat /\ at[i] \in Nat /\ kind \in KindSet
    BY <2>2, <2>3, SymTyped, SectionTyped DEF Kind
  <2>5. pe.eat[n] = Page + RvaBefore(kind) + at[i] + value
    BY <1>3, <2>1 DEF ExportInv, AfterExports, AfterImports, Filling, ExportAt
  <2>6. /\ kind # "bss" /\ pieces[kind].mem # 0
        /\ kind \in {"rodata", "data"} => TextRva = TextEnd
        /\ kind = "data" => AlignUp(out["rodata"].mem, Page) = RdataEnd
    BY <2>1 DEF Shifted, TextEnd, RdataEnd
  <2> DEFINE k == IF kind = "text" THEN 8 ELSE IF kind = "rodata" THEN 9 ELSE 10
  <2>7. kind \in {"text", "rodata", "data"}
    BY <2>4, <2>6 DEF KindSet
  <2>8. k \in {8, 9, 10} /\ PieceOrder[k] = kind
    BY <2>7 DEF PieceOrder
  <2>9. Rank(k) = pieces[kind] /\ Rank(k) # Nowhere
    BY <2>6, <2>8 DEF Rank, Nowhere
  <2>10. pieces[kind].va = image_base + PeRva(k)
    BY <1>3, <2>1, <2>8, <2>9 DEF PeInv
  <2>11. /\ image_base \in Nat /\ TextRva \in Nat
         /\ AlignUp(out["rodata"].mem, Page) \in Nat /\ Page \in Nat
    <3>1. out["rodata"].mem \in Nat /\ out["text"].mem \in Nat
      BY <2>2 DEF OutInv, SectionsOK, SectionOK, KindSet
    <3>2. QED
      BY <2>2, <3>1, BaseIsNat, WholePages DEF TextRva, Whole
  <2>12. PeRva(k) = Page + RvaBefore(kind) /\ RvaBefore(kind) \in Nat
    <3>1. CASE kind = "text"
      BY <2>11, <3>1 DEF PeRva, RvaBefore
    <3>2. CASE kind = "rodata"
      BY <2>6, <2>11, <3>2 DEF PeRva, RvaBefore
    <3>3. CASE kind = "data"
      BY <2>6, <2>11, <3>3 DEF PeRva, RvaBefore
    <3>4. QED
      BY <2>7, <3>1, <3>2, <3>3
  <2> HIDE DEF k
  <2>13. SectionVa(i) = pieces[kind].va + at[i]
    BY DEF SectionVa
  <2>14. ExportIsExact(n) <=> image_base + pe.eat[n] = SectionVa(i) + value
    BY DEF ExportIsExact
  <2> DEFINE b == RvaBefore(kind)
             a == at[i]
  <2>15. b \in Nat /\ a \in Nat
    BY <2>4, <2>12
  <2>16. /\ image_base + pe.eat[n] = image_base + (Page + b + a + value)
         /\ SectionVa(i) + value = image_base + (Page + b) + a + value
    BY <2>5, <2>10, <2>12, <2>13
  <2> HIDE DEF b, a, value, i, kind, s
  <2>17. QED
    BY <2>4, <2>11, <2>14, <2>15, <2>16
<1>4. QED
  BY <1>1, <1>2, <1>3, ImageCorrect, PTL DEF Spec


(* The thunks are those of the imports gone through.  The slots of the      *)
(* import address table are in .rdata, after the end of .text.              *)
ThunkInv ==
    /\ pe.thunk \in Seq(Int)
    /\ pc = "exports" => r = 1
    /\ pc \in Early \cup {"plan", "exports"} => pe.thunk = <<>>
    /\ pc = "thunks" => Len(pe.thunk) = r - 1 /\ r - 1 <= Len(job.imports)
    /\ Pe /\ pc \in AfterImports =>
         /\ Len(pe.thunk) = Len(job.imports)
         /\ \A i \in Imports : pe.iat[i] \in Nat /\ pe.iat[i] >= Page + TextRva

LEMMA ThunkInit ==
  ASSUME Init
  PROVE  ThunkInv
<1>1. pc = "configure" /\ pe.thunk = <<>>
  BY DEF Init, LayoutInit, pe
<1>2. QED
  BY <1>1 DEF ThunkInv, AfterImports, Filling

(* Slots of the import address table are numbered from 1.                   *)
LEMMA SlotsFromOne ==
  ASSUME job \in Jobs, NEW i \in Imports
  PROVE  SlotOf(i) \in Nat /\ SlotOf(i) >= 1
<1> DEFINE d == job.imports[i].dll
           a == Cardinality(OfEarlier(d))
           b == Cardinality(UpTo(i))
<1>1. /\ Imports = 1..Len(job.imports) /\ Len(job.imports) \in Nat
      /\ d \in Dlls /\ Dlls = 1..Len(job.dlls) /\ Len(job.dlls) \in Nat
  BY ImportTyped
<1>2. a \in Nat /\ b \in Nat /\ IsFiniteSet(UpTo(i))
  <2>1. OfEarlier(d) \in SUBSET Imports /\ UpTo(i) \in SUBSET Imports
    BY DEF OfEarlier, UpTo
  <2>2. QED
    BY <1>1, <2>1, IndicesFinite
<1>3. i \in UpTo(i)
  BY <1>1 DEF UpTo
<1>4. b # 0
  BY <1>2, <1>3, FS_EmptySet
<1>5. SlotOf(i) = a + d + b - 1
  BY DEF SlotOf, FirstSlot
<1>6. d \in Nat /\ d >= 1
  BY <1>1
<1> HIDE DEF a, b, d
<1>7. QED
  BY <1>2, <1>4, <1>5, <1>6

LEMMA ThunkStep ==
  ASSUME TypeInv, OutInv, EndsInv, ExportInv, ThunkInv, [Next]_vars
  PROVE  ThunkInv'
<1>0. /\ Shape /\ job \in Jobs /\ DOMAIN pe = PeFields /\ r \in Nat \ {0}
      /\ Imports = 1..Len(job.imports) /\ Len(job.imports) \in Nat
  BY ImportTyped DEF TypeInv, ExportInv
<1>1. job' = job /\ Pe' = Pe /\ Imports' = Imports
  BY ContextMoves, FoundKept
<1>2. CASE BuildExports
  <2>1. pc = "exports" /\ pc' = "thunks" /\ r' = r
    BY <1>0, <1>2, Steps DEF Moves
  <2>2. pe'.thunk = pe.thunk
    BY <1>0, <1>2, PeMoves
  <2>3. pe.thunk = <<>> /\ r = 1
    BY <2>1 DEF ThunkInv
  <2>4. QED
    BY <1>0, <1>1, <2>1, <2>2, <2>3 DEF ThunkInv, AfterImports, Filling, Early
<1>3. CASE PlaceThunk
  <2>1. pc = "thunks" /\ pc' = "thunks" /\ r' = r + 1
    BY <1>0, <1>3, Steps DEF Moves
  <2>2. r \in Imports
    BY <1>3 DEF PlaceThunk
  <2>3. \E t \in Int : pe'.thunk = Append(pe.thunk, t)
    <3> DEFINE text == IF r = 1 THEN pe_append(out["text"], 16, 0) ELSE out["text"]
               v == Page + AlignUp(text.file, 4)
               o == pe_append(text, 4, 6)
    <3>1. \/ ctx' = [ctx EXCEPT !.out["text"] = o, !.pe.thunk = Append(pe.thunk, v)]
          \/ ctx' = [ctx EXCEPT !.out["text"] = text, !.pe.thunk = Append(pe.thunk, None)]
      BY <1>3 DEF PlaceThunk, pe
    <3>2. SectionOK("text", text)
      <4>1. SectionOK("text", out["text"])
        BY DEF OutInv, SectionsOK, KindSet
      <4>2. SectionOK("text", pe_append(out["text"], 16, 0))
        BY <4>1, Appended DEF KindSet
      <4>3. QED
        BY <4>1, <4>2
    <3>3. v \in Int /\ None \in Int
      <4>1. text.file \in Nat
        BY <3>2 DEF SectionOK
      <4>2. AlignUp(text.file, 4) \in Nat
        BY <4>1, AlignUpGrows
      <4> HIDE DEF text
      <4>3. QED
        BY <4>2 DEF Page, None
    <3> HIDE DEF text, v, o
    <3>4. pe' = [pe EXCEPT !.thunk = Append(pe.thunk, v)]
          \/ pe' = [pe EXCEPT !.thunk = Append(pe.thunk, None)]
      BY <1>0, <3>1 DEF Shape, Fields, pe
    <3>5. pe'.thunk = Append(pe.thunk, v) \/ pe'.thunk = Append(pe.thunk, None)
      BY <1>0, <3>4 DEF PeFields
    <3>6. QED
      BY <3>3, <3>5
  <2>4. PICK t \in Int : pe'.thunk = Append(pe.thunk, t)
    BY <2>3
  <2>5. pe.thunk \in Seq(Int) /\ Len(pe.thunk) = r - 1
    BY <2>1 DEF ThunkInv
  <2>6. pe'.thunk \in Seq(Int) /\ Len(pe'.thunk) = r
    BY <1>0, <2>4, <2>5
  <2>7. QED
    BY <1>0, <1>1, <2>1, <2>2, <2>6 DEF ThunkInv, AfterImports, Filling, Early
<1>4. CASE BuildImports
  <2>1. pc = "thunks" /\ pc' = "address" /\ r' = 1
    BY <1>0, <1>4, Steps DEF Moves
  <2>2. r \notin Imports
    BY <1>4 DEF BuildImports
  <2>3. pe'.thunk = pe.thunk
    BY <1>0, <1>4, PeMoves
  <2>4. Len(pe.thunk) = Len(job.imports) /\ pe.thunk \in Seq(Int)
    BY <1>0, <2>1, <2>2 DEF ThunkInv
  <2>5. ASSUME NEW i \in Imports
        PROVE  pe'.iat[i] \in Nat /\ pe'.iat[i] >= Page + TextRva'
    <3> DEFINE pad == AlignUp(out["rodata"].file, 8)
               base == RdataRva + pad
               iat == [j \in Imports |-> base + 8 * (SlotOf(j) - 1)]
               slots == ImportTable.slots
               first == ImportTable.first
               disp == [j \in Imports |-> iat[j] - (pe.thunk[j] + 6)]
               tables == [pe EXCEPT !.table = base, !.slots = slots, !.first = first,
                                    !.iat = iat, !.disp = disp]
               o == pe_append(out["rodata"], 8, ImportTableSize)
    <3>1. \E v : ctx' = [ctx EXCEPT !.pe = tables, !.out["rodata"] = o, !.resolved = v]
      BY <1>4, <2>5 DEF BuildImports, out
    <3>2. tables.iat = iat
      <4> HIDE DEF base, iat, slots, first, disp
      <4>1. QED
        BY <1>0 DEF PeFields
    <3>3. iat[i] = base + 8 * (SlotOf(i) - 1)
      BY <2>5
    <3> HIDE DEF tables, iat, o
    <3>4. pe' = tables /\ out' = [out EXCEPT !["rodata"] = o]
      BY <1>0, <3>1 DEF Shape, Fields, pe, out
    <3>5. out'["text"] = out["text"]
      BY <3>4 DEF OutInv, SectionsOK, KindSet
    <3>6. TextRva' = TextRva
      BY <3>5 DEF TextRva
    <3>7. TextRva \in Nat /\ pad \in Nat /\ Page \in Nat
      <4>1. out["text"].mem \in Nat /\ out["rodata"].file \in Nat
        BY DEF OutInv, SectionsOK, SectionOK, KindSet
      <4>2. pad \in Nat
        BY <4>1, AlignUpGrows
      <4>3. TextRva \in Nat
        BY <4>1, WholePages DEF TextRva, Whole
      <4>4. QED
        BY <4>2, <4>3 DEF Page
    <3>8. SlotOf(i) \in Nat /\ SlotOf(i) >= 1
      BY <1>0, SlotsFromOne
    <3>9. base = Page + TextRva + pad
      BY DEF RdataRva
    <3> HIDE DEF base, pad
    <3>10. iat[i] \in Nat /\ iat[i] >= Page + TextRva
      BY <3>3, <3>7, <3>8, <3>9
    <3>11. QED
      BY <3>2, <3>4, <3>6, <3>10
  <2>6. QED
    BY <1>1, <2>1, <2>3, <2>4, <2>5 DEF ThunkInv, Early
<1>5. CASE ~BuildExports /\ ~PlaceThunk /\ ~BuildImports
  <2>1. pe' = pe
    BY <1>5, ContextMoves
  <2>2. /\ pc' = "exports" => (pc = "exports" /\ r' = r) \/ r' = 1
        /\ pc' \in Early \cup {"plan", "exports"} => pc \in Early \cup {"plan", "exports"}
        /\ pc' = "thunks" => pc = "thunks" /\ r' = r
    <3> USE DEF Moves, Filling, Early
    <3>1. CASE Configure \/ PlaceSection \/ SectionsPlaced
      BY <1>0, <3>1, Steps, SMTT(30)
    <3>2. CASE PlanRelocation \/ Planned
      BY <1>0, <3>2, Steps, SMTT(30)
    <3>3. CASE ExportSymbol \/ SymbolsExported \/ ImportSymbol
      BY <1>0, <3>3, Steps, SMTT(30)
    <3>4. CASE SymbolsImported \/ HashName \/ NamesHashed
      BY <1>0, <3>4, Steps, SMTT(30)
    <3>5. CASE PlacePiece \/ PiecesPlaced \/ SymbolAddresses \/ FindEntry
      BY <1>0, <3>5, Steps, SMTT(30)
    <3>6. CASE FillTables \/ TablesFilled \/ Relocate \/ Relocated \/ EmitElf \/ EmitPe
      BY <3>6 DEF FillTables, TablesFilled, Relocate, Relocated, EmitElf, EmitPe
    <3>7. CASE UNCHANGED vars
      BY <3>7 DEF vars, layoutVars
    <3>8. QED
      BY <1>5, <3>1, <3>2, <3>3, <3>4, <3>5, <3>6, <3>7 DEF Next, LayoutNext, Stopped
  <2>3. Pe /\ pc' \in AfterImports => pc \in AfterImports /\ TextRva' = TextRva
    <3>1. Pe /\ pc' \in AfterImports => pc \in AfterImports
      BY <1>5, PeOrder
    <3>2. pc \in AfterImports => out' = out
      <4>1. Configure \/ PlaceSection => pc \in Early
        BY <1>0, Steps DEF Moves, Early
      <4>2. QED
        BY <1>5, <4>1, ContextMoves DEF AfterImports, Filling, Early
    <3>3. QED
      BY <3>1, <3>2 DEF TextRva
  <2>4. QED
    BY <1>1, <2>1, <2>2, <2>3 DEF ThunkInv
<1>6. QED
  BY <1>2, <1>3, <1>4, <1>5


(* The addresses of symbols: an import has that of a slot of the import     *)
(* address table or of its thunk; a definition has its place in the image.  *)
Slotted(va) == \E i \in Imports : va = image_base + pe.iat[i]
Thunked(s, va) ==
    \E i \in Imports : /\ nylink_find_symbol(job.imports[i].name) = s
                       /\ pe.thunk[i] # None /\ va = image_base + pe.thunk[i]
AddressOf(s, va) ==
    \/ va = 0
    \/ InSection(s) /\ va = SectionVa(Sym(s).sec) + Sym(s).value
    \/ Pe /\ Slotted(va)
    \/ Pe /\ Sym(s).dyn /\ Thunked(s, va)
Chosen(s) ==
    Sym(s).name # Unnamed /\ nylink_find_symbol(Sym(s).name) = s /\ Sym(s).def

BeforeImports == Phases \ (AfterImports \cup {"failed"})
ResolvedInv ==
    /\ pc \in BeforeImports => \A s \in Symbols : resolved[s].va = 0
    /\ pc \in {"address", "symbols"} => \A s \in Symbols :
          LET va == resolved[s].va IN va = 0 \/ (Pe /\ (Slotted(va) \/ Thunked(s, va)))
    /\ pc = "entry" => \A s \in Symbols : Chosen(s) => AddressOf(s, resolved[s].va)

LEMMA MaxIsIn ==
  ASSUME NEW n \in Nat, NEW S \in SUBSET (1..n), S # {}
  PROVE  Max(S) \in S
<1> DEFINE T == {n - x : x \in S}
<1>1. T \in SUBSET Nat /\ T # {}
  <2>1. \A x \in S : n - x \in Nat
    OBVIOUS
  <2>2. QED
    BY <2>1
<1>2. PICK t \in T : \A y \in T : t <= y
  BY <1>1, NatMin
<1>3. PICK m \in S : t = n - m
  BY <1>2
<1>4. \A y \in S : m >= y
  BY <1>2, <1>3
<1>5. QED
  BY <1>4 DEF Max

LEMMA ResolvedInit ==
  ASSUME Init
  PROVE  ResolvedInv
<1>1. pc = "configure" /\ resolved = InitiallyResolved(job)
  BY DEF Init, LayoutInit, resolved
<1>2. \A s \in Symbols : InitiallyResolved(job)[s].va = 0
  BY DEF InitiallyResolved, Symbols
<1>3. QED
  BY <1>1, <1>2 DEF ResolvedInv

(* What BuildImports gives the symbol of an import.                         *)
LEMMA ImportAddress ==
  ASSUME job \in Jobs, NEW tables, NEW s,
         \E i \in Imports : \/ nylink_find_symbol(job.imports[i].name) = s
                            \/ nylink_find_symbol(<<"__imp_", job.imports[i].name[2]>>) = s
  PROVE  \E i \in Imports :
            \/ ImportVa(s, tables) = image_base + tables.iat[i]
            \/ /\ nylink_find_symbol(job.imports[i].name) = s
               /\ tables.thunk[i] # None /\ ImportVa(s, tables) = image_base + tables.thunk[i]
<1> DEFINE by_name == {i \in Imports : nylink_find_symbol(job.imports[i].name) = s}
           by_imp == {i \in Imports :
                        nylink_find_symbol(<<"__imp_", job.imports[i].name[2]>>) = s}
           m == Max(by_name \cup by_imp)
<1>1. Imports = 1..Len(job.imports) /\ Len(job.imports) \in Nat
  BY ImportTyped
<1>2. by_name \cup by_imp \in SUBSET Imports /\ by_name \cup by_imp # {}
  OBVIOUS
<1>3. m \in by_name \cup by_imp
  <2> HIDE DEF by_name, by_imp
  <2>1. QED
    BY <1>1, <1>2, MaxIsIn
<1>4. ImportVa(s, tables) = image_base + (IF m \notin by_imp /\ tables.thunk[m] # None
                                          THEN tables.thunk[m] ELSE tables.iat[m])
  BY DEF ImportVa
<1> HIDE DEF m
<1>5. m \in Imports /\ (m \notin by_imp => nylink_find_symbol(job.imports[m].name) = s)
  BY <1>3
<1>6. CASE m \notin by_imp /\ tables.thunk[m] # None
  BY <1>4, <1>5, <1>6
<1>7. CASE ~(m \notin by_imp /\ tables.thunk[m] # None)
  BY <1>4, <1>5, <1>7
<1>8. QED
  BY <1>6, <1>7

LEMMA ImportsResolved ==
  ASSUME TypeInv, ExportInv, EndsInv, ResolvedInv, Pe, BuildImports
  PROVE  ResolvedInv'
<1>0. Shape /\ job \in Jobs /\ DOMAIN pe = PeFields
  BY DEF TypeInv, ExportInv
<1>1. pc = "thunks" /\ pc' = "address" /\ job' = job /\ conf' = conf
  BY <1>0, Steps DEF Moves, Keeps, Fields, conf
<1>2. /\ Symbols' = Symbols /\ Imports' = Imports /\ Pe' = Pe /\ image_base' = image_base
      /\ \A n : nylink_find_symbol(n)' = nylink_find_symbol(n)
  BY <1>1, FoundKept DEF image_base
<1>3. \A s \in Symbols : resolved[s].va = 0
  BY <1>1 DEF ResolvedInv, BeforeImports, Phases, AfterImports, Laying, Filling
<1>4. ASSUME NEW s \in Symbols
      PROVE  \/ resolved'[s].va = 0
             \/ Slotted(resolved[s].va)' \/ Thunked(s, resolved[s].va)'
  <2>1. CASE Imports = {}
    <3>1. ctx' = ctx
      BY <2>1 DEF BuildImports
    <3>2. QED
      BY <1>3, <3>1 DEF resolved
  <2>2. CASE Imports # {}
    <3> DEFINE base == RdataRva + AlignUp(out["rodata"].file, 8)
               iat == [i \in Imports |-> base + 8 * (SlotOf(i) - 1)]
               tables == [pe EXCEPT !.table = base, !.slots = ImportTable.slots,
                                    !.first = ImportTable.first, !.iat = iat,
                                    !.disp = [i \in Imports |-> iat[i] - (pe.thunk[i] + 6)]]
               named == {nylink_find_symbol(n) : n \in {job.imports[i].name : i \in Imports}
                           \cup {<<"__imp_", job.imports[i].name[2]>> : i \in Imports}}
               new == [t \in Symbols |->
                         IF t \in named
                         THEN [def |-> TRUE, dyn |-> TRUE, va |-> ImportVa(t, tables)]
                         ELSE resolved[t]]
               o == pe_append(out["rodata"], 8, ImportTableSize)
    <3>1. ctx' = [ctx EXCEPT !.pe = tables, !.out["rodata"] = o, !.resolved = new]
      BY <2>2, Zenon DEF BuildImports, out
    <3>2. /\ s \notin named => new[s].va = 0
          /\ s \in named => new[s].va = ImportVa(s, tables)
      BY <1>3
    <3>3. s \in named =>
            \E i \in Imports : \/ nylink_find_symbol(job.imports[i].name) = s
                               \/ nylink_find_symbol(<<"__imp_", job.imports[i].name[2]>>) = s
      OBVIOUS
    <3> HIDE DEF tables, named, new, o
    <3>4. pe' = tables /\ resolved' = new
      BY <1>0, <3>1 DEF Shape, Fields, pe, resolved
    <3>5. CASE s \notin named
      BY <3>2, <3>4, <3>5
    <3>6. CASE s \in named
      <4>1. PICK i \in Imports :
              \/ ImportVa(s, tables) = image_base + tables.iat[i]
              \/ /\ nylink_find_symbol(job.imports[i].name) = s
                 /\ tables.thunk[i] # None /\ ImportVa(s, tables) = image_base + tables.thunk[i]
        BY <1>0, <3>3, <3>6, ImportAddress
      <4>2. resolved'[s].va = ImportVa(s, tables)
        BY <3>2, <3>4, <3>6
      <4>3. QED
        BY <1>1, <1>2, <3>4, <4>1, <4>2 DEF Slotted, Thunked
    <3>7. QED
      BY <3>5, <3>6
  <2>3. QED
    BY <2>1, <2>2
<1>5. QED
  BY <1>1, <1>2, <1>4 DEF ResolvedInv, BeforeImports, AfterImports


(* SymbolAddresses gives a chosen definition the address it has in its      *)
(* section, or leaves what BuildImports gave it.                            *)
LEMMA SymbolsResolved ==
  ASSUME TypeInv, ResolvedInv, SymbolAddresses
  PROVE  ResolvedInv'
<1>0. Shape /\ job \in Jobs
  BY DEF TypeInv
<1>1. /\ pc = "symbols" /\ pc' = "entry" /\ job' = job /\ conf' = conf /\ pe' = pe
      /\ pieces' = pieces /\ at' = at
  BY <1>0, Steps DEF Moves, Keeps, Fields, conf, pe, pieces, at
<1>2. /\ Symbols' = Symbols /\ Imports' = Imports /\ Pe' = Pe /\ image_base' = image_base
      /\ \A n : nylink_find_symbol(n)' = nylink_find_symbol(n)
      /\ \A s : InSection(s)' = InSection(s) /\ Sym(s)' = Sym(s)
  BY <1>1, FoundKept DEF image_base
<1> DEFINE Moved(s) == CHOOSE k \in Imports : pe.thunk[k] = None /\ Refptr(k) = s
           new == [s \in Symbols |->
                     IF s \in Redirected
                     THEN [def |-> TRUE, dyn |-> TRUE, va |-> image_base + pe.iat[Moved(s)]]
                     ELSE FinalSymbol(s)]
<1>3. ctx' = [ctx EXCEPT !.resolved = new]
  BY Zenon DEF SymbolAddresses
<1>4. ASSUME NEW s \in Symbols, Chosen(s)
      PROVE  AddressOf(s, new[s].va)
  <2>1. CASE s \in Redirected
    <3>1. new[s].va = image_base + pe.iat[Moved(s)]
      BY <1>4, <2>1
    <3>2. Pe /\ \E k \in Imports : pe.thunk[k] = None /\ Refptr(k) = s
      BY <2>1 DEF Redirected
    <3>3. Moved(s) \in Imports
      BY <3>2
    <3> HIDE DEF Moved
    <3>4. QED
      BY <3>1, <3>2, <3>3 DEF AddressOf, Slotted
  <2>2. CASE s \notin Redirected
    <3>1. new[s] = FinalSymbol(s)
      BY <1>4, <2>2
    <3>2. FinalSymbol(s).va = OwnVa(s)
      BY <1>4 DEF FinalSymbol, Chosen
    <3>3. CASE InSection(s)
      BY <3>1, <3>2, <3>3 DEF OwnVa, AddressOf
    <3>4. CASE ~InSection(s) /\ ~Sym(s).dyn
      BY <3>1, <3>2, <3>4 DEF OwnVa, AddressOf
    <3>5. CASE ~InSection(s) /\ Sym(s).dyn
      <4>1. new[s].va = resolved[s].va
        BY <3>1, <3>2, <3>5 DEF OwnVa
      <4>2. \/ resolved[s].va = 0
            \/ Pe /\ (Slotted(resolved[s].va) \/ Thunked(s, resolved[s].va))
        BY <1>1, <1>4 DEF ResolvedInv
      <4>3. QED
        BY <3>5, <4>1, <4>2 DEF AddressOf
    <3>6. QED
      BY <3>3, <3>4, <3>5
  <2>3. QED
    BY <2>1, <2>2
<1> HIDE DEF new
<1>5. resolved' = new
  BY <1>0, <1>3 DEF Shape, Fields, resolved
<1>6. \A s, va : /\ Chosen(s)' <=> Chosen(s)
                 /\ AddressOf(s, va) => AddressOf(s, va)'
  BY <1>1, <1>2 DEF Chosen, AddressOf, Slotted, Thunked, SectionVa, InSection, Static, Sym, Sections
<1>7. ASSUME NEW s \in Symbols, Chosen(s)
      PROVE  AddressOf(s, resolved[s].va)'
  <2> DEFINE va == new[s].va
  <2>1. AddressOf(s, va)
    BY <1>4, <1>7
  <2>2. resolved'[s].va = va
    BY <1>5
  <2>3. QED
    BY <1>1, <1>2, <2>1, <2>2 DEF AddressOf, Slotted, Thunked, SectionVa
<1>8. QED
  BY <1>1, <1>2, <1>6, <1>7 DEF ResolvedInv, BeforeImports, AfterImports

LEMMA ResolvedStep ==
  ASSUME TypeInv, ExportInv, EndsInv, ResolvedInv, [Next]_vars
  PROVE  ResolvedInv'
<1>0. Shape /\ job \in Jobs
  BY DEF TypeInv
<1>1. CASE BuildImports
  <2>1. pc = "thunks"
    BY <1>0, <1>1, Steps DEF Moves
  <2>2. QED
    BY <1>1, <2>1, ImportsResolved DEF EndsInv
<1>2. CASE SymbolAddresses
  BY <1>2, SymbolsResolved
<1>3. CASE ~BuildImports /\ ~SymbolAddresses
  <2>1. /\ job' = job /\ resolved' = resolved
        /\ Symbols' = Symbols /\ Imports' = Imports /\ Pe' = Pe
        /\ \A n : nylink_find_symbol(n)' = nylink_find_symbol(n)
        /\ \A s : InSection(s)' = InSection(s) /\ Sym(s)' = Sym(s)
    BY <1>3, ContextMoves, FoundKept
  <2>2. /\ pc' \in BeforeImports => pc \in BeforeImports
        /\ pc' \in {"address", "symbols"} => pc \in BeforeImports \cup {"address", "symbols"}
        /\ pc' = "entry" => pc = "entry"
        /\ pc \in AfterImports /\ pc' # "failed" => pc' \in AfterImports
    <3> USE DEF Moves, BeforeImports, AfterImports, Phases, Laying, Filling, Early
    <3>1. CASE Configure \/ PlaceSection \/ SectionsPlaced
      BY <1>0, <3>1, Steps, SMTT(30)
    <3>2. CASE PlanRelocation \/ Planned \/ BuildExports \/ PlaceThunk
      BY <1>0, <3>2, Steps, SMTT(30)
    <3>3. CASE ExportSymbol \/ SymbolsExported \/ ImportSymbol
      BY <1>0, <3>3, Steps, SMTT(30)
    <3>4. CASE SymbolsImported \/ HashName \/ NamesHashed
      BY <1>0, <3>4, Steps, SMTT(30)
    <3>5. CASE PlacePiece \/ PiecesPlaced \/ FindEntry
      BY <1>0, <3>5, Steps, SMTT(30)
    <3>6. CASE FillTables \/ TablesFilled \/ Relocate \/ Relocated \/ EmitElf \/ EmitPe
      BY <3>6 DEF FillTables, TablesFilled, Relocate, Relocated, EmitElf, EmitPe
    <3>7. CASE UNCHANGED vars
      BY <3>7 DEF vars, layoutVars
    <3>8. QED
      BY <1>3, <3>1, <3>2, <3>3, <3>4, <3>5, <3>6, <3>7 DEF Next, LayoutNext, Stopped
  <2>3. pc \in AfterImports => /\ conf' = conf /\ pe' = pe /\ at' = at
                               /\ pc = "entry" => pieces' = pieces
    <3>1. /\ Configure => pc = "configure"
          /\ PlaceSection => pc = "place"
          /\ BuildExports => pc = "exports"
          /\ PlaceThunk => pc = "thunks"
          /\ PlacePiece => pc = "address"
      BY <1>0, Steps DEF Moves
    <3>2. QED
      BY <1>3, <3>1, ContextMoves DEF AfterImports, Filling
  <2>4. ASSUME pc' \in {"address", "symbols"}, NEW s \in Symbols
        PROVE  \/ resolved[s].va = 0
               \/ Pe /\ (Slotted(resolved[s].va)' \/ Thunked(s, resolved[s].va)')
    <3>1. CASE pc \in BeforeImports
      BY <2>4, <3>1 DEF ResolvedInv
    <3>2. CASE pc \in {"address", "symbols"}
      <4>1. \/ resolved[s].va = 0
            \/ Pe /\ (Slotted(resolved[s].va) \/ Thunked(s, resolved[s].va))
        BY <2>4, <3>2 DEF ResolvedInv
      <4>2. conf' = conf /\ pe' = pe
        BY <2>3, <3>2 DEF AfterImports
      <4>3. image_base' = image_base
        BY <2>1, <4>2 DEF image_base
      <4>4. QED
        BY <2>1, <4>1, <4>2, <4>3 DEF Slotted, Thunked
    <3>3. QED
      BY <2>2, <2>4, <3>1, <3>2
  <2>5. ASSUME pc' = "entry", NEW s \in Symbols, Chosen(s)'
        PROVE  AddressOf(s, resolved[s].va)'
    <3>1. pc = "entry" /\ conf' = conf /\ pe' = pe /\ at' = at /\ pieces' = pieces
      BY <2>2, <2>3, <2>5 DEF AfterImports
    <3>2. Chosen(s)
      BY <2>1, <2>5 DEF Chosen
    <3>3. AddressOf(s, resolved[s].va)
      BY <3>1, <3>2 DEF ResolvedInv
    <3>4. image_base' = image_base
      BY <2>1, <3>1 DEF image_base
    <3>5. QED
      BY <2>1, <3>1, <3>3, <3>4 DEF AddressOf, Slotted, Thunked, SectionVa
  <2>6. QED
    BY <2>1, <2>2, <2>4, <2>5 DEF ResolvedInv
<1>4. QED
  BY <1>1, <1>2, <1>3


(* FindEntry accepts only an address in .text, which neither an address     *)
(* that was never given nor a slot of the import address table is.          *)
EntryInv ==
    pc \in Filling /\ job.mode \in {"executable", "pie"} => StartsAtEntry

LEMMA EntryFound ==
  ASSUME ImageInv, EndsInv, PeInv, ThunkInv, ResolvedInv, FindEntry, pc' # "failed",
         job.mode \in {"executable", "pie"}
  PROVE  StartsAtEntry'
<1>0. /\ TypeInv /\ OutInv /\ PieceInv /\ Shape /\ job \in Jobs
      /\ image_base \in Nat
  BY BaseIsNat DEF ImageInv, TypeInv
<1>1. /\ pc = "entry" /\ job' = job /\ conf' = conf /\ pe' = pe /\ pieces' = pieces /\ at' = at
  BY <1>0, Steps DEF Moves, Keeps, Fields, conf, pe, pieces, at
<1> DEFINE named == IF job.entry = Unnamed THEN MainName ELSE job.entry
           s == IF nylink_find_symbol(named) # 0 THEN nylink_find_symbol(named)
                ELSE nylink_find_symbol(StartName)
           va == resolved[s].va
           text == pieces["text"]
           new == IF conf.trampoline
                  THEN [va |-> text.va, call |-> va - (text.va + IF A64 THEN 0 ELSE 5)]
                  ELSE [va |-> va, call |-> 0]
<1>2. /\ s # 0 /\ Sym(s).def /\ va >= text.va /\ va < text.va + text.mem
      /\ ctx' = [ctx EXCEPT !.start = new]
  BY DEF FindEntry
<1>3. s = EntrySymbol
  BY DEF EntrySymbol
<1>4. s \in Symbols /\ Chosen(s)
  <2>1. named # Unnamed /\ StartName # Unnamed
    BY Zenon DEF Unnamed, MainName, StartName
  <2> HIDE DEF named
  <2>2. \E n : n # Unnamed /\ s = nylink_find_symbol(n)
    BY <2>1
  <2>3. PICK n : n # Unnamed /\ s = nylink_find_symbol(n)
    BY <2>2
  <2> HIDE DEF s
  <2>4. s \in Symbols /\ Sym(s).name = n
    BY <1>0, <1>2, <2>3, Found
  <2>5. QED
    BY <1>2, <2>3, <2>4 DEF Chosen
<1> HIDE DEF s
<1>5. AddressOf(s, va)
  BY <1>1, <1>4 DEF ResolvedInv
<1>6. Sections = DOMAIN at /\ at \in Seq(Nat) /\ SectionsApart
  <2>1. at \in Seq(Nat) /\ Len(at) = Len(job.sections) /\ SectionsApart
    BY <1>0, <1>1 DEF OutInv, Laying
  <2>2. QED
    BY <1>0, <2>1, JobTypes
<1>7. text = Rank(8) /\ text.va \in Nat /\ text.mem \in Nat /\ PieceOrder[8] = "text"
  <2>1. PieceOrder[8] = "text"
    BY DEF PieceOrder
  <2>2. "text" \in PieceNames
    BY <2>1, OrderIs
  <2>3. text \in Piece
    BY <1>0, <2>2 DEF PieceInv
  <2>4. QED
    BY <2>1, <2>3 DEF Rank, Piece
<1>8. /\ va \in Int
      /\ Pe /\ Slotted(va) => \E i \in Imports : /\ va = image_base + pe.iat[i]
                                                 /\ pe.iat[i] \in Nat
                                                 /\ pe.iat[i] >= Page + TextRva
  <2>1. Pe => /\ \A i \in Imports : pe.iat[i] \in Nat /\ pe.iat[i] >= Page + TextRva
              /\ \A i \in Imports : pe.thunk[i] \in Int
    <3>1. Pe => /\ \A i \in Imports : pe.iat[i] \in Nat /\ pe.iat[i] >= Page + TextRva
                /\ pe.thunk \in Seq(Int) /\ Len(pe.thunk) = Len(job.imports)
      BY <1>1 DEF ThunkInv, AfterImports
    <3>2. Imports = 1..Len(job.imports)
      BY <1>0, ImportTyped
    <3>3. QED
      BY <3>1, <3>2
  <2>2. InSection(s) => SectionVa(Sym(s).sec) \in Nat /\ Sym(s).value \in Nat
    <3>1. ASSUME InSection(s)
          PROVE  SectionVa(Sym(s).sec) \in Nat
      <4> DEFINE i == Sym(s).sec
      <4>1. i \in Sections
        BY <3>1 DEF InSection
      <4>2. Kind(i) \in KindSet /\ at[i] \in Nat
        BY <1>0, <1>6, <4>1, SectionTyped
      <4>3. Kind(i) \in PieceNames
        <5>1. PieceOrder[8] = "text" /\ PieceOrder[9] = "rodata" /\ PieceOrder[10] = "data"
              /\ PieceOrder[14] = "bss"
          BY DEF PieceOrder
        <5>2. QED
          BY <4>2, <5>1, OrderIs DEF KindSet
      <4>4. pieces[Kind(i)].va \in Nat
        BY <1>0, <4>3 DEF PieceInv, Piece
      <4>5. QED
        BY <4>2, <4>4 DEF SectionVa, Kind
    <3>2. QED
      BY <1>0, <1>4, <3>1, SymTyped
  <2>3. Pe /\ Slotted(va) => \E i \in Imports : /\ va = image_base + pe.iat[i]
                                                /\ pe.iat[i] \in Nat
                                                /\ pe.iat[i] >= Page + TextRva
    BY <2>1 DEF Slotted
  <2>4. Pe /\ Thunked(s, va) => va \in Int
    BY <1>0, <2>1 DEF Thunked
  <2> HIDE DEF va
  <2>5. va \in Int
    BY <1>0, <1>5, <2>2, <2>3, <2>4 DEF AddressOf
  <2>6. QED
    BY <2>3, <2>5
<1> HIDE DEF va
<1>9. text # Nowhere /\ text.va >= Page
  <2>1. text # Nowhere
    BY <1>2, <1>7, <1>8 DEF Nowhere
  <2>2. QED
    BY <1>7, <2>1 DEF PeInv
<1>10. ~(Pe /\ Slotted(va)) /\ va # 0
  <2>1. va # 0
    BY <1>2, <1>7, <1>8, <1>9 DEF Page
  <2>2. ASSUME Pe, Slotted(va)
        PROVE  FALSE
    <3>1. text.va = image_base + PeRva(8) /\ text.mem = out["text"].mem
      BY <1>1, <1>7, <1>9, <2>2 DEF PeInv
    <3>2. PeRva(8) = Page
      BY DEF PeRva
    <3>3. TextRva \in Nat /\ out["text"].mem <= TextRva /\ out["text"].mem \in Nat
      <4>1. out["text"].mem \in Nat
        BY <1>0 DEF OutInv, SectionsOK, SectionOK, KindSet
      <4>2. QED
        BY <4>1, WholePages DEF TextRva, Whole
    <3>4. PICK i \in Imports : /\ va = image_base + pe.iat[i]
                               /\ pe.iat[i] \in Nat
                               /\ pe.iat[i] >= Page + TextRva
      BY <1>8, <2>2
    <3> DEFINE slot == pe.iat[i]
    <3>5. slot \in Nat /\ va = image_base + slot /\ slot >= Page + TextRva
      BY <3>4
    <3> HIDE DEF slot
    <3>6. QED
      BY <1>0, <1>2, <3>1, <3>2, <3>3, <3>5 DEF Page
  <2>3. QED
    BY <2>1, <2>2
<1>11. \/ InSection(s) /\ va = SectionVa(Sym(s).sec) + Sym(s).value
       \/ Pe /\ Sym(s).dyn /\ Thunked(s, va)
  BY <1>5, <1>10 DEF AddressOf
<1>12. start' = new
  <2> HIDE DEF new
  <2>1. QED
    BY <1>0, <1>2 DEF Shape, Fields, start
<1>13. EntryVa' = va /\ (conf.trampoline => start'.va = text.va)
  <2>1. A64' = A64
    BY <1>1 DEF A64
  <2> HIDE DEF text
  <2>2. CASE conf.trampoline
    <3>1. start'.va = text.va /\ start'.call = va - (text.va + IF A64 THEN 0 ELSE 5)
      BY <1>12, <2>2
    <3>2. QED
      BY <1>1, <1>7, <1>8, <2>1, <2>2, <3>1 DEF EntryVa
  <2>3. CASE ~conf.trampoline
    <3>1. start'.va = va /\ start'.call = 0
      BY <1>12, <2>3
    <3>2. QED
      BY <1>1, <1>8, <2>3, <3>1 DEF EntryVa
  <2>4. QED
    BY <2>2, <2>3
<1>14. PICK e : e = s
  OBVIOUS
<1>15. /\ EntrySymbol' = e /\ Pe' = Pe /\ Imports' = Imports /\ image_base' = image_base
       /\ Sections' = Sections /\ Sym(e)' = Sym(e) /\ InSection(e)' = InSection(e)
       /\ \A i : SectionVa(i)' = SectionVa(i)
       /\ (SectionVa(Sym(e).sec) + Sym(e).value)' = SectionVa(Sym(e).sec) + Sym(e).value
  <2>1. /\ \A n : nylink_find_symbol(n)' = nylink_find_symbol(n)
        /\ InSection(e)' = InSection(e) /\ Sym(e)' = Sym(e)
        /\ Pe' = Pe /\ Imports' = Imports /\ Sections' = Sections
    BY <1>1, FoundKept
  <2>2. EntrySymbol' = EntrySymbol
    BY <1>1, <2>1 DEF EntrySymbol
  <2>3. (SectionVa(Sym(e).sec) + Sym(e).value)' = SectionVa(Sym(e).sec) + Sym(e).value
    BY <1>1 DEF SectionVa, Sym
  <2>4. image_base' = image_base /\ \A i : SectionVa(i)' = SectionVa(i)
    BY <1>1, <2>1 DEF image_base, SectionVa
  <2>5. QED
    BY <1>3, <1>14, <2>1, <2>2, <2>3, <2>4
<1>16. \/ InSection(e)' /\ EntryVa' = (SectionVa(Sym(e).sec) + Sym(e).value)'
       \/ Pe' /\ Sym(e)'.dyn /\ \E i \in Imports' :
             /\ job'.imports[i].name = Sym(e)'.name
             /\ pe'.thunk[i] # None /\ EntryVa' = image_base' + pe'.thunk[i]
  <2>1. CASE InSection(s) /\ va = SectionVa(Sym(s).sec) + Sym(s).value
    BY <1>13, <1>14, <1>15, <2>1
  <2>2. CASE Pe /\ Sym(s).dyn /\ Thunked(s, va)
    <3>1. PICK i \in Imports : /\ nylink_find_symbol(job.imports[i].name) = s
                               /\ pe.thunk[i] # None /\ va = image_base + pe.thunk[i]
      BY <2>2 DEF Thunked
    <3>2. Sym(s).name = job.imports[i].name
      BY <1>0, <1>2, <3>1, Found
    <3>3. QED
      BY <1>1, <1>13, <1>14, <1>15, <2>2, <3>1, <3>2
  <2>3. QED
    BY <1>11, <2>1, <2>2
<1>17. ASSUME conf.trampoline, NEW i \in Sections, job.sections[i].kind = "text"
       PROVE  SectionVa(i) >= text.va + 16
  <2>1. at[i] \in Nat /\ at[i] >= FirstOffset(Kind(i), conf.trampoline)
    <3>1. i \in DOMAIN at
      BY <1>6, <1>17
    <3>2. at[i] \in Nat
      BY <1>6, <3>1
    <3>3. at[i] >= FirstOffset(Kind(i), conf.trampoline)
      BY <1>6, <3>1 DEF SectionsApart
    <3>4. QED
      BY <3>2, <3>3
  <2>2. FirstOffset(Kind(i), conf.trampoline) = 16
    BY <1>17 DEF FirstOffset, Kind
  <2>3. SectionVa(i) = text.va + at[i]
    BY <1>17 DEF SectionVa
  <2>4. QED
    BY <1>7, <2>1, <2>2, <2>3
<1>18. (conf.trampoline)' => \A i \in Sections' :
          job'.sections[i].kind = "text" => SectionVa(i)' >= start'.va + 16
  BY <1>1, <1>13, <1>15, <1>17
<1>19. QED
  BY <1>15, <1>16, <1>18 DEF StartsAtEntry

LEMMA EntryStep ==
  ASSUME ImageInv, EndsInv, PeInv, ThunkInv, ResolvedInv, EntryInv, [Next]_vars
  PROVE  EntryInv'
<1>0. Shape /\ TypeInv
  BY DEF ImageInv, TypeInv
<1>1. job' = job
  BY <1>0, ContextMoves
<1>2. SUFFICES ASSUME pc' \in Filling, job.mode \in {"executable", "pie"}
               PROVE  StartsAtEntry'
  BY <1>1 DEF EntryInv
<1>3. CASE FindEntry
  BY <1>2, <1>3, EntryFound DEF Filling
<1>4. CASE ~FindEntry
  <2>1. pc \in Filling
    BY <1>0, <1>2, <1>4, ContextMoves
  <2>2. conf' = conf /\ pe' = pe /\ at' = at /\ pieces' = pieces /\ start' = start
    <3>1. /\ Configure => pc = "configure"
          /\ PlaceSection => pc = "place"
          /\ BuildExports => pc = "exports"
          /\ PlaceThunk \/ BuildImports => pc = "thunks"
          /\ PlacePiece => pc = "address"
      BY <1>0, Steps DEF Moves
    <3>2. QED
      BY <1>0, <1>4, <2>1, <3>1, ContextMoves DEF Filling
  <2>3. /\ \A n : nylink_find_symbol(n)' = nylink_find_symbol(n)
        /\ \A s : InSection(s)' = InSection(s) /\ Sym(s)' = Sym(s)
        /\ Pe' = Pe /\ Imports' = Imports /\ Sections' = Sections
    BY <1>1, FoundKept
  <2>4. /\ EntrySymbol' = EntrySymbol /\ EntryVa' = EntryVa /\ image_base' = image_base
        /\ \A i : SectionVa(i)' = SectionVa(i)
    BY <1>1, <2>2, <2>3 DEF EntrySymbol, EntryVa, A64, image_base, SectionVa
  <2>5. StartsAtEntry
    BY <1>2, <2>1 DEF EntryInv
  <2>6. PICK e : e = EntrySymbol
    OBVIOUS
  <2>7. (SectionVa(Sym(e).sec) + Sym(e).value)' = SectionVa(Sym(e).sec) + Sym(e).value
    BY <1>1, <2>2 DEF SectionVa, Sym
  <2>8. InSection(e)' = InSection(e) /\ Sym(e)' = Sym(e) /\ EntrySymbol' = e
    BY <2>3, <2>4, <2>6
  <2>9. \/ InSection(e) /\ EntryVa = SectionVa(Sym(e).sec) + Sym(e).value
        \/ Pe /\ Sym(e).dyn /\ \E i \in Imports :
             /\ job.imports[i].name = Sym(e).name
             /\ pe.thunk[i] # None /\ EntryVa = image_base + pe.thunk[i]
    BY <2>5, <2>6 DEF StartsAtEntry
  <2>10. conf.trampoline => \A i \in Sections :
            job.sections[i].kind = "text" => SectionVa(i) >= start.va + 16
    BY <2>5 DEF StartsAtEntry
  <2>11. \/ InSection(e)' /\ EntryVa' = (SectionVa(Sym(e).sec) + Sym(e).value)'
         \/ Pe' /\ Sym(e)'.dyn /\ \E i \in Imports' :
             /\ job'.imports[i].name = Sym(e)'.name
             /\ pe'.thunk[i] # None /\ EntryVa' = image_base' + pe'.thunk[i]
    BY <1>1, <2>2, <2>3, <2>4, <2>7, <2>8, <2>9
  <2>12. (conf.trampoline)' => \A i \in Sections' :
            job'.sections[i].kind = "text" => SectionVa(i)' >= start'.va + 16
    BY <1>1, <2>2, <2>3, <2>4, <2>10
  <2>13. QED
    BY <2>8, <2>11, <2>12 DEF StartsAtEntry
<1>5. QED
  BY <1>3, <1>4

(* A finished program, of any format, starts at the symbol FindEntry looks  *)
(* up: at its place in the image or, when a DLL has it, at its thunk; start *)
(* code that was asked for calls it, and no section is under that code.     *)
THEOREM EntryReachedCorrect == Spec => []EntryReached
<1> DEFINE Inv == EndsInv /\ ExportInv /\ PeInv /\ ThunkInv /\ ResolvedInv /\ EntryInv
<1>1. Init => Inv
  <2>1. Init => EntryInv
    BY DEF Init, LayoutInit, EntryInv, Filling
  <2>2. QED
    BY <2>1, EndsInit, ExportInit, PeInit, ThunkInit, ResolvedInit
<1>2. ASSUME ImageInv, Inv, [Next]_vars
      PROVE  Inv'
  <2>1. /\ TypeInv /\ PlanInv /\ ConfInv /\ OutInv /\ HashInv /\ PieceInv
        /\ EndsInv /\ ExportInv /\ PeInv /\ ThunkInv /\ ResolvedInv /\ EntryInv
    BY <1>2 DEF ImageInv
  <2>2. EndsInv' /\ ExportInv' /\ PeInv'
    BY <1>2, <2>1, EndsStep, ExportStep, PeStep
  <2>3. ThunkInv' /\ ResolvedInv'
    BY <1>2, <2>1, ThunkStep, ResolvedStep
  <2>4. EntryInv'
    BY <1>2, <2>1, EntryStep
  <2>5. QED
    BY <2>2, <2>3, <2>4
<1>3. Inv => EntryReached
  BY DEF EntryInv, EntryReached, Filling
<1> HIDE DEF Inv
<1>4. QED
  BY <1>1, <1>2, <1>3, ImageCorrect, PTL DEF Spec
=============================================================================
