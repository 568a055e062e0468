------------------------- MODULE NylinkLoadProofs -------------------------
(***************************************************************************)
(* Proofs about what the headers make a loader map: every piece of the     *)
(* image, from the place of the file it is in, at an aligned address, and  *)
(* no two segments on one page.                                            *)
(***************************************************************************)
EXTENDS NylinkImageProofs

-----------------------------------------------------------------------------
(* The invariant.                                                           *)

(* The pieces a segment may start with begin on a page; .bss has no place   *)
(* in the file, and in an ELF file addresses and offsets go together.       *)
PageStart == {"text", "rodata", "data", "got", "got_plt", "bss"}
FileStart == IF Pe THEN 1024 ELSE Page

PieceMapped(n, p) ==
    p # Nowhere =>
        /\ p.mem > 0
        /\ p.va >= image_base + Page
        /\ n \in PageStart => (p.va - image_base) % Page = 0
        /\ n = "bss" => p.off = 0 /\ p.file = 0
        /\ n # "bss" => /\ p.file = p.mem /\ p.off >= FileStart
                        /\ ~Pe => p.va = image_base + p.off
        /\ Pe => n \in KindSet /\ p.off % 512 = 0
        /\ n \notin KindSet => Dynamic

CursorInv ==
    /\ cursor.rva >= Page /\ cursor.off >= FileStart
    /\ ~Pe /\ Placed < 14 => cursor.rva = cursor.off
    /\ Pe => cursor.off % 512 = 0
    /\ Dynamic /\ Placed >= 11 => Rank(11) # Nowhere
    /\ pc \in {"symbols", "entry"} \cup Filling => file_end = cursor.off

AtAligned ==
    \A i \in DOMAIN at : job.sections[i].align \in 1..Page => at[i] % job.sections[i].align = 0

MapInv ==
    /\ pc # "failed" => /\ \A k \in 1..14 : PieceMapped(PieceOrder[k], Rank(k))
                        /\ CursorInv
    /\ AtAligned
    /\ pc = "done" => head.loads = IF Pe THEN PeLoads ELSE ElfLoads

-----------------------------------------------------------------------------
(* Facts about numbers.                                                     *)

(* Rounding up to the sector of a PE file.                                  *)
LEMMA WholeSectors ==
  /\ \A v \in Nat : /\ AlignUp(v, 512) \in Nat /\ v <= AlignUp(v, 512)
                    /\ AlignUp(v, 512) % 512 = 0
  /\ \A v, w \in Nat : v <= w /\ w % 512 = 0 => AlignUp(v, 512) <= w
  /\ \A v, w \in Nat : v % 512 = 0 /\ w % 512 = 0 => (v + w) % 512 = 0
  /\ AlignUp(0, 512) = 0
<1>1. ASSUME NEW v \in Nat
      PROVE  /\ AlignUp(v, 512) \in Nat /\ v <= AlignUp(v, 512) /\ AlignUp(v, 512) % 512 = 0
             /\ \A w \in Nat : v <= w /\ w % 512 = 0 => AlignUp(v, 512) <= w
  <2> DEFINE q == (v + 511) \div 512
  <2>1. q \in Nat /\ 512 * q <= v + 511 /\ v + 511 < 512 * q + 512
    OBVIOUS
  <2>2. AlignUp(v, 512) = q * 512
    BY DEF AlignUp
  <2> HIDE DEF q
  <2>3. (q * 512) % 512 = 0 /\ q * 512 \in Nat /\ v <= q * 512
    BY <2>1
  <2>4. ASSUME NEW w \in Nat, v <= w, w % 512 = 0
        PROVE  q * 512 <= w
    BY <2>1, <2>4
  <2>5. QED
    BY <2>2, <2>3, <2>4
<1>2. \A v, w \in Nat : v % 512 = 0 /\ w % 512 = 0 => (v + w) % 512 = 0
  OBVIOUS
<1>3. AlignUp(0, 512) = 0
  BY DEF AlignUp
<1>4. QED
  BY <1>1, <1>2, <1>3

(* The first page boundary after v is the first one at all.                 *)
LEMMA NextPage ==
  ASSUME NEW v \in Nat, NEW w \in Nat, v <= w, w % Page = 0
  PROVE  AlignUp(v, Page) <= w
<1> DEFINE q == (v + 4095) \div 4096
<1>1. q \in Nat /\ 4096 * q <= v + 4095 /\ v + 4095 < 4096 * q + 4096
  OBVIOUS
<1>2. AlignUp(v, Page) = q * 4096
  BY DEF AlignUp, Page
<1> HIDE DEF q
<1>3. q * 4096 <= w
  BY <1>1 DEF Page
<1>4. QED
  BY <1>2, <1>3

(* AlignUp reaches the alignments up to a page, and adding pages keeps them.*)
SmallAlignments == {1, 2, 4, 8, 16, 32, 64, 128, 256, 512, 1024, 2048, 4096}

LEMMA SmallAre ==
  ASSUME NEW a \in Alignments, a \in 1..Page
  PROVE  a \in SmallAlignments
<1>1. a \in Int /\ 0 < a /\ a < 4097
  BY DEF Page
<1>2. CASE a \in {0, 1, 2, 4, 8, 16, 32, 64, 128, 256, 512, 1024, 2048, 4096}
  BY <1>1, <1>2 DEF SmallAlignments
<1>3. CASE a \notin {0, 1, 2, 4, 8, 16, 32, 64, 128, 256, 512, 1024, 2048, 4096}
  BY <1>1, <1>3 DEF Alignments
<1>4. QED
  BY <1>2, <1>3

LEMMA Aligns ==
  ASSUME NEW v \in Nat, NEW a \in SmallAlignments
  PROVE  AlignUp(v, a) % a = 0
<1> USE DEF AlignUp
<1>1. CASE a \in {1, 2, 4, 8, 16}
  BY <1>1
<1>2. CASE a \in {32, 64, 128, 256}
  BY <1>2
<1>3. CASE a \in {512, 1024, 2048, 4096}
  BY <1>3
<1>4. QED
  BY <1>1, <1>2, <1>3 DEF SmallAlignments

LEMMA PagesAlign ==
  ASSUME NEW v \in Nat, NEW w \in Nat, NEW a \in SmallAlignments, v % Page = 0, w % a = 0
  PROVE  (v + w) % a = 0
<1>0. v % 4096 = 0
  BY DEF Page
<1>1. CASE a \in {1, 2, 4, 8, 16}
  BY <1>0, <1>1
<1>2. CASE a \in {32, 64, 128, 256}
  BY <1>0, <1>2
<1>3. CASE a \in {512, 1024, 2048, 4096}
  BY <1>0, <1>3
<1>4. QED
  BY <1>1, <1>2, <1>3 DEF SmallAlignments

-----------------------------------------------------------------------------
(* Placing a piece.                                                         *)

LEMMA MapInit ==
  ASSUME Init
  PROVE  MapInv
<1>1. /\ pc = "configure" /\ cursor = [rva |-> Page, off |-> IF Pe THEN 1024 ELSE Page]
      /\ pieces = [n \in PieceNames |-> Nowhere] /\ at = <<>>
  BY DEF Init, LayoutInit, cursor, pieces, at
<1>2. \A k \in 1..14 : Rank(k) = Nowhere
  BY <1>1, OrderIs DEF Rank
<1>3. Placed = 0
  BY <1>1 DEF Placed, Filling
<1>4. CursorInv
  BY <1>1, <1>3 DEF CursorInv, FileStart, Page, Filling
<1>5. QED
  BY <1>1, <1>2, <1>4 DEF MapInv, PieceMapped, AtAligned

(* How a piece is aligned: as in the file in an ELF image, to sectors in a  *)
(* PE image.                                                                *)
LEMMA PieceShape ==
  ASSUME TypeInv, PlanInv, ConfInv, OutInv, HashInv, NEW n \in PieceNames
  PROVE  LET p == PieceOf(n) IN
         /\ n \in PageStart => p.align = Page
         /\ n # "bss" => p.file = p.mem
         /\ ~Pe /\ n # "bss" => p.falign = p.align /\ p.fround = p.round
         /\ Pe => p.fround = 512 \/ p.mem = 0
         /\ Pe /\ p.mem # 0 => p.falign = IF n = "bss" THEN 1 ELSE 512
         /\ n \notin KindSet => Dynamic \/ p.mem = 0
         /\ n = "got" /\ Dynamic => p.mem # 0
<1> DEFINE p == PieceOf(n)
<1>1. CASE n \in KindSet
  <2>1. p = OutputSection(n)
    BY <1>1, KindsAre DEF PieceOf
  <2>2. out[n].file = IF n = "bss" THEN 0 ELSE out[n].mem
    BY <1>1 DEF OutInv, SectionsOK, SectionOK
  <2>3. n # "got"
    BY <1>1 DEF KindSet
  <2>4. /\ p.align = Page /\ p.falign = (IF n = "bss" THEN 1 ELSE FileAlign)
        /\ p.round = Page /\ p.fround = FileAlign
        /\ p.file = out[n].file /\ p.mem = out[n].mem
    BY <2>1 DEF OutputSection
  <2> HIDE DEF p
  <2>5. QED
    BY <1>1, <2>2, <2>3, <2>4 DEF FileAlign, p
<1>2. CASE n \notin KindSet
  <2>1. n \in TableNames /\ p = Table(n)
    BY <1>2, KindsAre, OrderIs DEF PieceOf
  <2> DEFINE size == IF Dynamic THEN TableSize[n] ELSE 0
             round == IF n = "plt" THEN 16 ELSE 8
             align == TableAlign(n)
  <2>2. p = [file |-> size, mem |-> size, align |-> align, falign |-> align,
             round |-> round, fround |-> round]
    BY <2>1 DEF Table
  <2>3. n \in PageStart => n \in {"got", "got_plt"}
    BY <1>2 DEF KindSet, PageStart
  <2>4. n \in {"got", "got_plt"} => align = Page
    BY DEF TableAlign
  <2>5. Dynamic => ~Pe
    BY DEF Dynamic
  <2>6. n # "bss"
    BY <1>2 DEF KindSet
  <2>7. n = "got" /\ Dynamic => size # 0
    <3>1. GotCount \in Nat
      BY PlannedIsNat
    <3>2. TableSize["got"] = IF GotCount > 0 THEN 8 * GotCount ELSE 8
      BY DEF TableSize
    <3> HIDE DEF GotCount
    <3>3. QED
      BY <3>1, <3>2
  <2>8. ~Dynamic => size = 0
    OBVIOUS
  <2> HIDE DEF size, align, round, p
  <2>9. /\ p.file = size /\ p.mem = size /\ p.align = align /\ p.falign = align
        /\ p.round = round /\ p.fround = round
    BY <2>2
  <2>10. QED
    BY <1>2, <2>3, <2>4, <2>5, <2>6, <2>7, <2>8, <2>9 DEF p
<1>3. QED
  BY <1>1, <1>2

(* The place a piece gets from the cursor.                                  *)
LEMMA NewMapped ==
  ASSUME TypeInv, PlanInv, ConfInv, OutInv, HashInv, NEW n \in PieceNames,
         CursorInv, cursor \in [rva : Nat, off : Nat], Placed < 14,
         PieceOf(n).mem # 0
  PROVE  LET p == PieceOf(n)
             rva == AlignUp(cursor.rva, p.align)
             off == AlignUp(cursor.off, p.falign)
         IN /\ PieceMapped(n, [va |-> image_base + rva, off |-> IF n = "bss" THEN 0 ELSE off,
                               file |-> p.file, mem |-> p.mem])
            /\ rva + AlignUp(p.mem, p.round) >= Page
            /\ off + AlignUp(p.file, p.fround) >= FileStart
            /\ ~Pe /\ n # "bss" => rva + AlignUp(p.mem, p.round)
                                     = off + AlignUp(p.file, p.fround)
            /\ Pe => (off + AlignUp(p.file, p.fround)) % 512 = 0
<1> DEFINE p == PieceOf(n)
           rva == AlignUp(cursor.rva, p.align)
           off == AlignUp(cursor.off, p.falign)
           mem == AlignUp(p.mem, p.round)
           file == AlignUp(p.file, p.fround)
<1>1. /\ p \in [file : Nat, mem : Nat, align : Nat, falign : Nat, round : Nat, fround : Nat]
      /\ n = "bss" => p.file = 0
  BY PieceTyped
<1>2. /\ n \in PageStart => p.align = Page
      /\ n # "bss" => p.file = p.mem
      /\ ~Pe /\ n # "bss" => p.falign = p.align /\ p.fround = p.round
      /\ Pe => p.fround = 512
      /\ Pe => p.falign = IF n = "bss" THEN 1 ELSE 512
      /\ n \notin KindSet => Dynamic
      /\ p.mem # 0
  BY PieceShape
<1>3. /\ p.file \in Nat /\ p.mem \in Nat /\ p.align \in Nat /\ p.falign \in Nat
      /\ p.round \in Nat /\ p.fround \in Nat
      /\ cursor.rva \in Nat /\ cursor.off \in Nat
  BY <1>1
<1> HIDE DEF p
<1>4. /\ rva \in Nat /\ cursor.rva <= rva
      /\ off \in Nat /\ cursor.off <= off
      /\ mem \in Nat /\ p.mem <= mem
      /\ file \in Nat /\ p.file <= file
  BY <1>3, AlignUpGrows
<1>5. image_base \in Nat /\ Page \in Nat /\ FileStart \in Nat
  BY BaseIsNat DEF TypeInv, Page, FileStart
<1>6. n \in PageStart => rva % Page = 0
  BY <1>2, <1>3, WholePages DEF Whole
<1>7. ~Pe /\ n # "bss" => rva = off /\ mem = file
  BY <1>2 DEF CursorInv
<1>8. Pe => off % 512 = 0 /\ file % 512 = 0
  <2>1. Pe /\ n # "bss" => off % 512 = 0
    BY <1>2, <1>3, WholeSectors
  <2>2. Pe /\ n = "bss" => off = cursor.off
    BY <1>2 DEF AlignUp
  <2>3. Pe => file % 512 = 0
    BY <1>2, <1>3, WholeSectors
  <2>4. QED
    BY <2>1, <2>2, <2>3 DEF CursorInv
<1>9. Pe => n \in KindSet
  BY <1>2 DEF Dynamic
<1>10. cursor.rva >= Page /\ cursor.off >= FileStart
  BY DEF CursorInv
<1> HIDE DEF rva, off, mem, file
<1> DEFINE new == [va |-> image_base + rva, off |-> IF n = "bss" THEN 0 ELSE off,
                   file |-> p.file, mem |-> p.mem]
<1>11. PieceMapped(n, new)
  <2>1. /\ new.va = image_base + rva /\ new.mem = p.mem /\ new.file = p.file
        /\ new.off = IF n = "bss" THEN 0 ELSE off
    OBVIOUS
  <2> HIDE DEF new
  <2>2. new.mem > 0 /\ new.va >= image_base + Page
    BY <1>2, <1>3, <1>4, <1>5, <1>10, <2>1
  <2>3. n \in PageStart => (new.va - image_base) % Page = 0
    <3>1. new.va - image_base = rva
      BY <1>4, <1>5, <2>1
    <3>2. QED
      BY <1>6, <3>1
  <2>4. n = "bss" => new.off = 0 /\ new.file = 0
    BY <1>1, <2>1
  <2>5. n # "bss" => /\ new.file = new.mem /\ new.off >= FileStart
                     /\ ~Pe => new.va = image_base + new.off
    BY <1>2, <1>3, <1>4, <1>5, <1>7, <1>10, <2>1
  <2>6. Pe => n \in KindSet /\ new.off % 512 = 0
    <3>1. 0 % 512 = 0
      OBVIOUS
    <3>2. QED
      BY <1>8, <1>9, <2>1, <3>1
  <2>7. QED
    BY <1>2, <2>2, <2>3, <2>4, <2>5, <2>6 DEF PieceMapped
<1>12. rva + mem >= Page /\ off + file >= FileStart
  BY <1>3, <1>4, <1>5, <1>10
<1>13. ~Pe /\ n # "bss" => rva + mem = off + file
  BY <1>7
<1>14. Pe => (off + file) % 512 = 0
  BY <1>4, <1>8, WholeSectors
<1>15. QED
  BY <1>11, <1>12, <1>13, <1>14 DEF new, rva, off, mem, file, p

LEMMA MapPlaced ==
  ASSUME TypeInv, PlanInv, ConfInv, OutInv, HashInv, PieceInv, MapInv, PlacePiece
  PROVE  MapInv'
<1>0. job \in Jobs /\ r \in Nat \ {0} /\ Shape
  BY DEF TypeInv
<1>1. /\ pc = "address" /\ pc' = "address" /\ job' = job /\ r \in 1..14 /\ r' = r + 1
      /\ conf' = conf /\ at' = at
  <2>1. /\ Moves("address", {"address"}, {"pieces", "cursor"})
        /\ r \in DOMAIN PieceOrder /\ r' = r + 1
    BY <1>0, Steps
  <2>2. QED
    BY <2>1, OrderIs DEF Moves, Keeps, Fields, conf, at
<1>2. /\ Placed = r - 1 /\ Placed' = r /\ image_base' = image_base
      /\ Pe' = Pe /\ Dynamic' = Dynamic /\ FileStart' = FileStart
  BY <1>0, <1>1 DEF Placed, image_base, Pe, Dynamic, FileStart
<1> DEFINE n == PieceOrder[r]
           p == PieceOf(n)
           rva == AlignUp(cursor.rva, p.align)
           off == AlignUp(cursor.off, p.falign)
           new == [va |-> image_base + rva, off |-> IF n = "bss" THEN 0 ELSE off,
                   file |-> p.file, mem |-> p.mem]
           past == [rva |-> rva + AlignUp(p.mem, p.round),
                    off |-> off + AlignUp(p.file, p.fround)]
<1>3. \/ ctx' = ctx /\ p.mem = 0
      \/ ctx' = [ctx EXCEPT !.pieces[n] = new, !.cursor = past] /\ p.mem # 0
  BY Zenon DEF PlacePiece
<1>4. /\ \A k \in 1..14 : PieceOrder[k] \in PieceNames /\ (k # r => PieceOrder[k] # n)
      /\ n \in PieceNames /\ DOMAIN pieces = PieceNames
      /\ cursor \in [rva : Nat, off : Nat] /\ InOrder
  BY <1>1, OrderIs DEF PieceInv
<1>5. CursorInv /\ \A k \in 1..14 : PieceMapped(PieceOrder[k], Rank(k))
  BY <1>1 DEF MapInv
<1>6. p.mem # 0 =>
         /\ PieceMapped(n, new)
         /\ past.rva >= Page /\ past.off >= FileStart
         /\ ~Pe /\ n # "bss" => past.rva = past.off
         /\ Pe => past.off % 512 = 0
  <2>1. past.rva = rva + AlignUp(p.mem, p.round) /\ past.off = off + AlignUp(p.file, p.fround)
    OBVIOUS
  <2>2. Placed < 14
    BY <1>1, <1>2
  <2>3. p.mem # 0 =>
         /\ PieceMapped(n, new)
         /\ rva + AlignUp(p.mem, p.round) >= Page
         /\ off + AlignUp(p.file, p.fround) >= FileStart
         /\ ~Pe /\ n # "bss" => rva + AlignUp(p.mem, p.round) = off + AlignUp(p.file, p.fround)
         /\ Pe => (off + AlignUp(p.file, p.fround)) % 512 = 0
    BY <1>4, <1>5, <2>2, NewMapped
  <2>4. QED
    BY <2>1, <2>3
<1>7. n = "got" /\ Dynamic => p.mem # 0
  BY <1>4, PieceShape
<1>8. pieces[n] = Nowhere
  <2>1. Rank(r) = Nowhere
    BY <1>0, <1>1, <1>2, <1>4 DEF InOrder
  <2>2. QED
    BY <2>1 DEF Rank
<1>9. n = PieceOrder[r] /\ (r = 11 => n = "got") /\ (r < 14 => n # "bss")
  BY <1>1 DEF PieceOrder
<1>10. p.mem # 0 => new # Nowhere
  <2>1. new.mem = p.mem
    OBVIOUS
  <2> HIDE DEF new
  <2>2. QED
    BY <2>1 DEF Nowhere
<1> HIDE DEF n, p, rva, off, new, past
<1>11. \/ pieces' = pieces /\ cursor' = cursor /\ p.mem = 0
       \/ pieces' = [pieces EXCEPT ![n] = new] /\ cursor' = past /\ p.mem # 0
  BY <1>0, <1>3 DEF Shape, Fields, pieces, cursor
<1>12. /\ \A k \in 1..14 : k # r => Rank(k)' = Rank(k)
       /\ \A k \in 1..14 : k = r => Rank(k)' = IF p.mem = 0 THEN Nowhere ELSE new
  <2>1. pieces'[n] = IF p.mem = 0 THEN Nowhere ELSE new
    BY <1>4, <1>8, <1>11
  <2>2. QED
    BY <1>4, <1>9, <1>11, <2>1 DEF Rank
<1>13. \A m, q : PieceMapped(m, q) => PieceMapped(m, q)'
  BY <1>2 DEF PieceMapped
<1>14. ASSUME NEW k \in 1..14
       PROVE  PieceMapped(PieceOrder[k], Rank(k))'
  <2>1. CASE k = r /\ p.mem # 0
    <3>1. Rank(k)' = new /\ PieceOrder[k] = n
      BY <1>9, <1>12, <2>1
    <3>2. QED
      BY <1>2, <1>6, <2>1, <3>1 DEF PieceMapped
  <2>2. CASE k = r /\ p.mem = 0
    BY <1>12, <2>2 DEF PieceMapped
  <2>3. CASE k # r
    BY <1>2, <1>5, <1>12, <2>3 DEF PieceMapped
  <2>4. QED
    BY <2>1, <2>2, <2>3
<1>15. CursorInv'
  <2>1. /\ cursor'.rva >= Page /\ cursor'.off >= FileStart
        /\ Pe => cursor'.off % 512 = 0
    BY <1>5, <1>6, <1>11 DEF CursorInv
  <2>2. ~Pe /\ r < 14 => cursor'.rva = cursor'.off
    BY <1>1, <1>2, <1>5, <1>6, <1>9, <1>11 DEF CursorInv
  <2>3. Dynamic /\ r >= 11 => Rank(11)' # Nowhere
    <3>1. CASE r = 11
      BY <1>7, <1>9, <1>10, <1>12, <3>1
    <3>2. CASE r # 11
      BY <1>1, <1>2, <1>5, <1>12, <3>2 DEF CursorInv
    <3>3. QED
      BY <3>1, <3>2
  <2>4. QED
    BY <1>1, <1>2, <2>1, <2>2, <2>3 DEF CursorInv, Filling
<1>16. AtAligned'
  BY <1>1 DEF MapInv, AtAligned
<1>17. QED
  BY <1>1, <1>14, <1>15, <1>16 DEF MapInv

LEMMA AtStep ==
  ASSUME TypeInv, OutInv, AtAligned, [Next]_vars
  PROVE  AtAligned'
<1>0. job \in Jobs /\ r \in Nat \ {0} /\ Shape /\ job' = job
  BY ContextMoves DEF TypeInv
<1>1. CASE PlaceSection
  <2> DEFINE s == job.sections[r]
             k == s.kind
             offset == AlignUp(out[k].mem, s.align)
             end == offset + s.size
             new == [file |-> IF k = "bss" THEN 0 ELSE end, mem |-> end,
                     align |-> Max({out[k].align, s.align})]
  <2>1. pc = "place" /\ r \in Sections
    BY <1>0, <1>1, Steps DEF Moves
  <2>2. at \in Seq(Nat) /\ Len(at) = r - 1
    BY <2>1 DEF OutInv
  <2>3. ctx' = [ctx EXCEPT !.at = Append(at, offset), !.out[k] = new]
    BY <1>1, Zenon DEF PlaceSection, at, out
  <2> HIDE DEF offset, new, k
  <2>4. at' = Append(at, offset)
    BY <1>0, <2>3 DEF Shape, Fields, at
  <2>5. offset \in Nat /\ (s.align \in 1..Page => offset % s.align = 0)
    <3>1. Kind(r) \in KindSet /\ s.align \in Alignments /\ s.align \in Nat
      BY <1>0, <2>1, SectionTyped
    <3>2. out[k].mem \in Nat
      BY <3>1 DEF OutInv, SectionsOK, SectionOK, Kind, k
    <3> DEFINE a == s.align
               v == out[k].mem
    <3>3. a \in 1..Page => a \in SmallAlignments
      BY <3>1, SmallAre
    <3> HIDE DEF a, v
    <3>4. AlignUp(v, a) \in Nat /\ (a \in 1..Page => AlignUp(v, a) % a = 0)
      BY <3>1, <3>2, <3>3, AlignUpGrows, Aligns DEF v, a
    <3>5. QED
      BY <3>4 DEF offset, v, a
  <2>6. ASSUME NEW i \in DOMAIN at', job.sections[i].align \in 1..Page
        PROVE  at'[i] % job.sections[i].align = 0
    <3>1. CASE i = r
      <4>1. at'[i] = offset
        BY <2>2, <2>4, <2>5, <3>1
      <4>2. QED
        BY <2>5, <2>6, <3>1, <4>1
    <3>2. CASE i # r
      <4>1. i \in DOMAIN at /\ at'[i] = at[i]
        BY <1>0, <2>2, <2>4, <2>5, <3>2
      <4>2. QED
        BY <2>6, <4>1 DEF AtAligned
    <3>3. QED
      BY <3>1, <3>2
  <2>7. QED
    BY <1>0, <2>6 DEF AtAligned
<1>2. CASE ~PlaceSection
  <2>1. at' = at
    BY <1>2, ContextMoves
  <2>2. QED
    BY <1>0, <2>1 DEF AtAligned
<1>3. QED
  BY <1>1, <1>2

(* What the emitters write in the headers.                                  *)
LEMMA LoadsKept ==
  ASSUME job' = job, ctx' = ctx, fixups' = fixups
  PROVE  ElfLoads' = ElfLoads /\ PeLoads' = PeLoads /\ Pe' = Pe
<1>1. /\ pieces' = pieces /\ conf' = conf /\ file_end' = file_end /\ Pe' = Pe
      /\ Dynamic' = Dynamic
  BY DEF pieces, conf, file_end, Pe, Dynamic
<1>2. image_base' = image_base
  BY <1>1 DEF image_base
<1>3. ElfLoads' = ElfLoads
  <2>1. \A n : FileEnd(n)' = FileEnd(n)
    BY <1>1 DEF FileEnd
  <2>2. RxLoad' = RxLoad
    <3> DEFINE S == {FileEnd(n) : n \in RxPieces}
    <3>1. S' = S
      BY <2>1
    <3> HIDE DEF S
    <3>2. RxLoad = LET end == Max(S \cup (IF pieces["text"].file > 0 THEN {} ELSE {Page}))
                   IN  Load({"r", "x"}, 0, image_base, end, end)
      BY DEF RxLoad, S
    <3>3. (RxLoad = LET end == Max(S \cup (IF pieces["text"].file > 0 THEN {} ELSE {Page}))
                    IN  Load({"r", "x"}, 0, image_base, end, end))'
      BY <2>1 DEF RxLoad, S
    <3>4. QED
      BY <1>1, <1>2, <3>1, <3>2, <3>3 DEF Load
  <2>3. RwLoad' = RwLoad
    BY <1>1, <1>2 DEF RwLoad, FileEnd, Load
  <2>4. QED
    BY <1>1, <2>2, <2>3 DEF ElfLoads, Load
<1>4. PeLoads' = PeLoads
  <2>1. BaseRelocSize' = BaseRelocSize
    <3> DEFINE on(x) == {f \in fixups : f \div Page = x}
               units(x) == {<<x, unit>> : unit \in 1..(8 + 2 * AlignUp(Cardinality(on(x)), 2))}
               pages == {f \div Page : f \in fixups}
               all == UNION {units(x) : x \in pages}
    <3>1. pages' = pages /\ \A x : on(x)' = on(x)
      OBVIOUS
    <3> HIDE DEF pages, on
    <3>2. \A x : units(x)' = units(x)
      BY <3>1
    <3> HIDE DEF units
    <3>3. all' = all
      BY <3>1, <3>2
    <3>4. BaseRelocSize = Cardinality(all)
      BY DEF BaseRelocSize, SumOf, all, units, on, pages
    <3>5. (BaseRelocSize = Cardinality(all))'
      BY DEF BaseRelocSize, SumOf, all, units, on, pages
    <3> HIDE DEF all
    <3>6. QED
      BY <3>3, <3>4, <3>5
  <2> DEFINE present == {k \in Range(Kinds) : pieces[k].mem > 0}
             ends == {pieces[k].va - image_base + AlignUp(pieces[k].mem, Page) : k \in present}
             loads == {Load(PeFlags[k], pieces[k].off, pieces[k].va,
                            AlignUp(pieces[k].file, 512), pieces[k].mem) : k \in present}
  <2>2. present' = present /\ ends' = ends /\ loads' = loads
    BY <1>1, <1>2
  <2>3. PeLoads = loads \cup (IF fixups = {} THEN {}
                              ELSE {Load({"r"}, file_end, image_base + Max({Page} \cup ends),
                                         AlignUp(BaseRelocSize, 512), BaseRelocSize)})
    BY Zenon DEF PeLoads
  <2>4. (PeLoads = loads \cup (IF fixups = {} THEN {}
                              ELSE {Load({"r"}, file_end, image_base + Max({Page} \cup ends),
                                         AlignUp(BaseRelocSize, 512), BaseRelocSize)}))'
    BY Zenon DEF PeLoads
  <2> HIDE DEF present, ends, loads
  <2>5. QED
    BY <1>1, <1>2, <2>1, <2>2, <2>3, <2>4
<1>5. QED
  BY <1>1, <1>3, <1>4

LEMMA HeadStep ==
  ASSUME TypeInv, SizeInv, MapInv, [Next]_vars, pc' = "done"
  PROVE  head'.loads = IF Pe' THEN PeLoads' ELSE ElfLoads'
<1>0. Shape /\ DOMAIN head = {"loads", "movable", "dynamic"}
  BY DEF TypeInv, SizeInv
<1>1. pc = "done" \/ EmitElf \/ EmitPe
  <2>1. ASSUME LayoutNext
        PROVE  FALSE
    BY <1>0, <2>1, Steps, SMTT(30) DEF LayoutNext, Moves
  <2>2. QED
    BY <2>1 DEF Next, FillTables, TablesFilled, Relocate, Relocated, Stopped, vars, layoutVars
<1>2. CASE EmitElf
  <2>1. job' = job /\ ctx' = ctx /\ fixups' = fixups /\ ~Pe
    BY <1>2 DEF EmitElf
  <2>2. head'.loads = ElfLoads
    BY <1>0, <1>2, Zenon DEF EmitElf
  <2>3. ElfLoads' = ElfLoads /\ Pe' = Pe
    BY <2>1, LoadsKept
  <2>4. QED
    BY <2>1, <2>2, <2>3
<1>3. CASE EmitPe
  <2>1. job' = job /\ ctx' = ctx /\ fixups' = fixups /\ Pe
    BY <1>3 DEF EmitPe
  <2>2. head'.loads = PeLoads
    BY <1>0, <1>3, Zenon DEF EmitPe
  <2>3. PeLoads' = PeLoads /\ Pe' = Pe
    BY <2>1, LoadsKept
  <2>4. QED
    BY <2>1, <2>2, <2>3
<1>4. CASE pc = "done" /\ ~EmitElf /\ ~EmitPe
  <2>1. UNCHANGED vars
    <3>1. ~LayoutNext
      BY <1>0, <1>4, Steps, SMTT(30) DEF LayoutNext, Moves
    <3>2. QED
      BY <1>4, <3>1 DEF Next, FillTables, TablesFilled, Relocate, Relocated, Stopped
  <2>2. job' = job /\ ctx' = ctx /\ fixups' = fixups /\ head' = head
    BY <2>1 DEF vars, layoutVars, imageVars
  <2>3. ElfLoads' = ElfLoads /\ PeLoads' = PeLoads /\ Pe' = Pe
    BY <2>2, LoadsKept
  <2>4. QED
    BY <1>4, <2>2, <2>3 DEF MapInv
<1>5. QED
  BY <1>1, <1>2, <1>3, <1>4

LEMMA MapStep ==
  ASSUME ImageInv, MapInv, [Next]_vars
  PROVE  MapInv'
<1>0. /\ TypeInv /\ PlanInv /\ ConfInv /\ OutInv /\ HashInv /\ PieceInv /\ SizeInv
      /\ job \in Jobs /\ r \in Nat \ {0} /\ Shape
  BY DEF ImageInv, TypeInv
<1>1. CASE PlacePiece
  BY <1>0, <1>1, MapPlaced
<1>2. CASE ~PlacePiece
  <2>1. /\ job' = job /\ pieces' = pieces /\ cursor' = cursor
        /\ pc' = "failed" \/ (pc # "failed" /\ Placed' = Placed)
        /\ Placed = 0 \/ conf' = conf
    BY <1>0, <1>2, PiecesQuiet
  <2>2. /\ Pe' = Pe /\ FileStart' = FileStart /\ \A k : Rank(k)' = Rank(k)
        /\ Placed = 0 \/ (image_base' = image_base /\ Dynamic' = Dynamic)
    BY <2>1 DEF Rank, Pe, FileStart, image_base, Dynamic
  <2>3. AtAligned'
    BY <1>0, AtStep DEF MapInv
  <2>4. pc' = "done" => head'.loads = IF Pe' THEN PeLoads' ELSE ElfLoads'
    BY <1>0, HeadStep
  <2>5. ASSUME pc' # "failed", NEW k \in 1..14
        PROVE  PieceMapped(PieceOrder[k], Rank(k))'
    <3>1. pc # "failed" /\ PieceMapped(PieceOrder[k], Rank(k))
      BY <2>1, <2>5 DEF MapInv
    <3>2. CASE Placed = 0
      <4>1. Rank(k) = Nowhere
        BY <1>0, <3>1, <3>2 DEF PieceInv, InOrder
      <4>2. QED
        BY <2>2, <4>1 DEF PieceMapped
    <3>3. CASE Placed # 0
      BY <2>2, <3>1, <3>3 DEF PieceMapped
    <3>4. QED
      BY <3>2, <3>3
  <2>6. ASSUME pc' # "failed"
        PROVE  CursorInv'
    <3>1. pc # "failed" /\ CursorInv /\ Placed' = Placed
      BY <2>1, <2>6 DEF MapInv
    <3>2. pc' \in {"symbols", "entry"} \cup Filling => file_end' = cursor.off
      <4>1. CASE PiecesPlaced
        <5>1. ctx' = [ctx EXCEPT !.file_end = cursor.off]
          BY <4>1 DEF PiecesPlaced
        <5>2. QED
          BY <1>0, <5>1 DEF Shape, Fields, file_end
      <4>2. CASE LayoutNext /\ ~PiecesPlaced /\ pc' \in {"symbols", "entry"} \cup Filling
        <5>1. SymbolAddresses \/ FindEntry
          BY <1>0, <1>2, <4>2, Steps, SMTT(30) DEF LayoutNext, Moves, Filling
        <5>2. pc \in {"symbols", "entry"} /\ file_end' = file_end
          BY <1>0, <5>1, Steps DEF Moves, Keeps, Fields, file_end
        <5>3. QED
          BY <3>1, <5>2 DEF CursorInv
      <4>3. CASE ~LayoutNext
        <5>1. ctx' = ctx /\ (pc' = pc \/ pc \in Filling)
          BY <4>3 DEF Next, FillTables, TablesFilled, Relocate, Relocated, EmitElf, EmitPe,
                      Stopped, vars, layoutVars, Filling
        <5>2. QED
          BY <3>1, <5>1 DEF CursorInv, file_end
      <4>4. QED
        BY <4>1, <4>2, <4>3
    <3>3. QED
      BY <2>1, <2>2, <3>1, <3>2 DEF CursorInv
  <2>7. QED
    BY <2>3, <2>4, <2>5, <2>6 DEF MapInv
<1>3. QED
  BY <1>1, <1>2

LEMMA MapCorrect == Spec => [](ImageInv /\ MapInv)
<1>1. Init => ImageInv /\ MapInv
  BY ImageInit, MapInit
<1>2. ImageInv /\ MapInv /\ [Next]_vars => (ImageInv /\ MapInv)'
  BY ImageStep, MapStep
<1>3. QED
  BY <1>1, <1>2, PTL DEF Spec

-----------------------------------------------------------------------------
(* The segments.                                                            *)

LEMMA MaxOf ==
  ASSUME NEW S \in SUBSET Nat, S # {}, NEW b \in Nat, \A y \in S : y <= b
  PROVE  Max(S) \in S /\ \A y \in S : y <= Max(S)
<1> DEFINE T == {b - x : x \in S}
<1>1. T \in SUBSET Nat /\ T # {}
  <2>1. \A x \in S : b - x \in Nat
    OBVIOUS
  <2>2. QED
    BY <2>1
<1>2. PICK t \in T : \A y \in T : t <= y
  BY <1>1, NatMin
<1>3. PICK m \in S : t = b - m
  BY <1>2
<1>4. ASSUME NEW y \in S
      PROVE  y <= m
  <2>1. b - y \in T /\ y \in Nat /\ m \in Nat
    OBVIOUS
  <2> HIDE DEF T
  <2>2. QED
    BY <1>2, <1>3, <2>1
<1>5. Max(S) = m
  BY <1>4, MaxIs
<1>6. QED
  BY <1>4, <1>5

(* Two segments that start on pages, the second after the end of the first, *)
(* share no page.                                                           *)
OnPage(l) == l.va \in Nat /\ l.va % Page = 0
Ahead(l, m) == l.mem \in Nat /\ l.va + l.mem <= m.va
PagesOf(l) == [at |-> (l.va \div Page) * Page, len |-> AlignUp((l.va % Page) + l.mem, Page)]
Sharing(l, m) == Overlap(PagesOf(l).at, PagesOf(l).len, PagesOf(m).at, PagesOf(m).len)

LEMMA PagesApart ==
  ASSUME NEW l, NEW m, OnPage(l), OnPage(m), Ahead(l, m)
  PROVE  ~Sharing(l, m) /\ ~Sharing(m, l)
<1>1. \A v \in Nat : v % 4096 = 0 => (v \div 4096) * 4096 = v
  OBVIOUS
<1>2. PagesOf(l).at = l.va /\ PagesOf(m).at = m.va
  BY <1>1 DEF OnPage, PagesOf, Page
<1>3. PagesOf(l).len = AlignUp(l.mem, Page)
  BY DEF PagesOf, OnPage, Ahead
<1>4. AlignUp(l.mem, Page) <= m.va - l.va /\ AlignUp(l.mem, Page) \in Nat
  <2>1. \A v, w \in Nat : v % 4096 = 0 /\ w % 4096 = 0 /\ w <= v => (v - w) % 4096 = 0
    OBVIOUS
  <2>2. m.va - l.va \in Nat /\ l.mem <= m.va - l.va /\ l.mem \in Nat
    BY DEF OnPage, Ahead
  <2>3. (m.va - l.va) % Page = 0
    BY <2>1 DEF OnPage, Ahead, Page
  <2>4. QED
    BY <2>2, <2>3, NextPage, WholePages DEF Whole
<1>5. ~(m.va < l.va + AlignUp(l.mem, Page))
  BY <1>4 DEF OnPage
<1>6. QED
  BY <1>2, <1>3, <1>5 DEF Sharing, Overlap

(* The pieces of a finished image.                                          *)
Piece1(n) ==
    LET p == pieces[n] IN
    /\ p.va \in Nat /\ p.off \in Nat /\ p.file \in Nat /\ p.mem \in Nat
    /\ p.mem = 0 => p = Nowhere
    /\ p.mem > 0 => PieceMapped(n, p) /\ p # Nowhere
After(n, m) ==
    pieces[m].mem > 0 =>
        /\ pieces[n].va + pieces[n].mem <= pieces[m].va
        /\ m # "bss" => pieces[n].off + pieces[n].file <= pieces[m].off

LEMMA PiecesAre ==
  ASSUME ImageInv, MapInv, pc = "done"
  PROVE  /\ \A n \in PieceNames : Piece1(n)
         /\ \A j, k \in 1..14 : j < k => After(PieceOrder[j], PieceOrder[k])
         /\ \A n \in PieceNames : n # "bss" => pieces[n].off + pieces[n].file <= cursor.off
         /\ image_base \in Nat
<1>1. /\ pieces \in [PieceNames -> Piece] /\ InOrder /\ job \in Jobs
      /\ \A k \in 1..14 : PieceMapped(PieceOrder[k], Rank(k))
      /\ cursor \in [rva : Nat, off : Nat]
  BY DEF ImageInv, PieceInv, TypeInv, MapInv
<1>2. ASSUME NEW n \in PieceNames
      PROVE  Piece1(n)
  <2>1. pieces[n] \in Piece
    BY <1>1
  <2>2. PieceMapped(n, pieces[n])
    BY <1>1, OrderIs DEF Rank
  <2>3. pieces[n].mem = 0 => pieces[n] = Nowhere
    BY <2>1, <2>2 DEF PieceMapped, Piece
  <2>4. pieces[n].mem > 0 => pieces[n] # Nowhere
    BY DEF Nowhere
  <2>5. QED
    BY <2>1, <2>2, <2>3, <2>4 DEF Piece1, Piece
<1>3. ASSUME NEW j \in 1..14, NEW k \in 1..14, j < k
      PROVE  After(PieceOrder[j], PieceOrder[k])
  <2>1. Before(Rank(j), Rank(k))
    BY <1>1, <1>3 DEF InOrder
  <2>2. PieceOrder[k] \in PieceNames
    BY OrderIs
  <2>3. SUFFICES ASSUME Rank(k).mem > 0
                 PROVE  /\ Rank(j).va + Rank(j).mem <= Rank(k).va
                        /\ PieceOrder[k] # "bss" => Rank(j).off + Rank(j).file <= Rank(k).off
    BY DEF After, Rank
  <2>4. Rank(k) # Nowhere /\ PieceMapped(PieceOrder[k], Rank(k)) /\ Rank(k).mem \in Nat
    BY <1>2, <2>2, <2>3 DEF Piece1, Rank
  <2>5. PieceOrder[k] # "bss" => Rank(k).file # 0
    BY <2>3, <2>4 DEF PieceMapped
  <2>6. QED
    BY <2>1, <2>4, <2>5 DEF Before
<1>4. ASSUME NEW n \in PieceNames, n # "bss"
      PROVE  pieces[n].off + pieces[n].file <= cursor.off
  <2>1. PICK k \in 1..14 : PieceOrder[k] = n
    BY OrderIs
  <2>2. Rank(k) = Nowhere \/ Ended(Rank(k))
    BY <1>1 DEF InOrder
  <2>3. QED
    BY <1>1, <2>1, <2>2 DEF Ended, Rank, Nowhere
<1>5. QED
  BY <1>1, <1>2, <1>3, <1>4, BaseIsNat

(* What the headers have to do for a piece, and for two segments.           *)
Maps(n, l) ==
    LET p == pieces[n] IN
    /\ Needs(n) \in l.flags
    /\ l.va <= p.va /\ p.va + p.mem <= l.va + l.mem
    /\ p.file = 0 \/ (p.off - l.off = p.va - l.va /\ p.off + p.file <= l.off + l.file)

LEMMA LoadIs ==
  ASSUME NEW f, NEW o, NEW v, NEW z, NEW m
  PROVE  LET l == Load(f, o, v, z, m) IN
         l.flags = f /\ l.off = o /\ l.va = v /\ l.file = z /\ l.mem = m
  BY DEF Load

(* A piece of an ELF image that is in the file is as far from the base as   *)
(* from the beginning of the file.                                          *)
LEMMA ElfPiece ==
  ASSUME ImageInv, MapInv, pc = "done", ~Pe, NEW n \in PieceNames, n # "bss"
  PROVE  /\ pieces[n].file = pieces[n].mem
         /\ pieces[n].mem > 0 => /\ pieces[n].va = image_base + pieces[n].off
                                 /\ pieces[n].off >= Page
         /\ FileEnd(n) \in Nat /\ FileEnd(n) <= cursor.off
         /\ FileEnd(n) = IF pieces[n].mem > 0 THEN pieces[n].off + pieces[n].mem ELSE 0
<1>1. Piece1(n) /\ pieces[n].off + pieces[n].file <= cursor.off /\ cursor.off \in Nat
  BY PiecesAre DEF ImageInv, PieceInv
<1>2. CASE pieces[n].mem = 0
  BY <1>1, <1>2 DEF Piece1, Nowhere, FileEnd
<1>3. CASE pieces[n].mem # 0
  <2>1. PieceMapped(n, pieces[n]) /\ pieces[n] # Nowhere /\ pieces[n].mem > 0
    BY <1>1, <1>3 DEF Piece1
  <2>2. QED
    BY <1>1, <2>1 DEF PieceMapped, FileStart, FileEnd, Piece1
<1>4. QED
  BY <1>2, <1>3

(* The first segment has everything before .rodata, and the others start    *)
(* behind it.                                                               *)
LEMMA RxMaps ==
  ASSUME ImageInv, MapInv, pc = "done", ~Pe
  PROVE  /\ RxLoad.flags = {"r", "x"} /\ RxLoad.va = image_base /\ RxLoad.off = 0
         /\ RxLoad.mem \in Nat
         /\ \A n \in RxPieces : pieces[n].mem > 0 => Maps(n, RxLoad)
         /\ \A n \in {"rodata", "data", "got", "bss"} :
               pieces[n].mem > 0 => image_base + RxLoad.mem <= pieces[n].va
<1> DEFINE F == {FileEnd(n) : n \in RxPieces}
           S == F \cup (IF pieces["text"].file > 0 THEN {} ELSE {Page})
           end == Max(S)
<1>1. RxLoad.flags = {"r", "x"} /\ RxLoad.va = image_base /\ RxLoad.off = 0
      /\ RxLoad.file = end /\ RxLoad.mem = end
  BY DEF RxLoad, Load
<1>2. \A n \in RxPieces : n \in PieceNames /\ n # "bss"
  BY DEF RxPieces, PieceNames, PieceOrder, Range
<1>3. cursor.off \in Nat /\ image_base \in Nat /\ Page \in Nat
  BY PiecesAre DEF ImageInv, PieceInv, Page
<1>4. \A n \in RxPieces : FileEnd(n) \in Nat /\ FileEnd(n) <= cursor.off
  BY <1>2, ElfPiece
<1>5. S \in SUBSET Nat /\ \A y \in S : y <= cursor.off + Page
  BY <1>3, <1>4
<1>6. S # {}
  BY DEF RxPieces
<1>7. cursor.off + Page \in Nat
  BY <1>3
<1> HIDE DEF S, end
<1>8. Max(S) \in S /\ \A y \in S : y <= Max(S)
  BY <1>5, <1>6, <1>7, MaxOf
<1>9. end \in Nat /\ end \in S /\ \A n \in RxPieces : FileEnd(n) <= end
  BY <1>5, <1>8 DEF end, S
<1>10. ASSUME NEW n \in RxPieces, pieces[n].mem > 0
       PROVE  Maps(n, RxLoad)
  <2>1. Piece1(n)
    BY <1>2, PiecesAre
  <2>2. /\ pieces[n].file = pieces[n].mem /\ pieces[n].va = image_base + pieces[n].off
        /\ FileEnd(n) = pieces[n].off + pieces[n].mem
    BY <1>2, <1>10, ElfPiece
  <2>3. Needs(n) \in {"r", "x"}
    BY DEF Needs, RxPieces
  <2>4. QED
    BY <1>1, <1>3, <1>9, <2>1, <2>2, <2>3 DEF Maps, Piece1
<1>11. ASSUME NEW n \in {"rodata", "data", "got", "bss"}, pieces[n].mem > 0
       PROVE  image_base + end <= pieces[n].va
  <2>1. n \in PieceNames /\ \A m \in RxPieces :
           \E j, k \in 1..14 : j < k /\ PieceOrder[j] = m /\ PieceOrder[k] = n
    <3>1. \A m \in RxPieces : \E j \in 1..8 : PieceOrder[j] = m
      BY DEF RxPieces, PieceOrder
    <3>2. \E k \in 9..14 : PieceOrder[k] = n
      BY DEF PieceOrder
    <3>3. QED
      BY <3>1, <3>2, OrderIs
  <2>2. Piece1(n) /\ \A m \in RxPieces : After(m, n) /\ Piece1(m)
    <3>1. Piece1(n) /\ \A m \in RxPieces : Piece1(m)
      BY <1>2, <2>1, PiecesAre
    <3>2. ASSUME NEW m \in RxPieces
          PROVE  After(m, n)
      <4>1. PICK j \in 1..14, k \in 1..14 : j < k /\ PieceOrder[j] = m /\ PieceOrder[k] = n
        BY <2>1
      <4>2. After(PieceOrder[j], PieceOrder[k])
        BY <4>1, PiecesAre
      <4>3. QED
        BY <4>1, <4>2
    <3>3. QED
      BY <3>1, <3>2
  <2>3. pieces[n].va \in Nat /\ pieces[n].va >= image_base + Page
    BY <1>11, <2>2 DEF Piece1, PieceMapped
  <2>4. ASSUME NEW m \in RxPieces
        PROVE  image_base + FileEnd(m) <= pieces[n].va
    <3>1. CASE pieces[m].mem > 0
      <4>1. pieces[m].va = image_base + pieces[m].off
            /\ FileEnd(m) = pieces[m].off + pieces[m].mem
        BY <1>2, <3>1, ElfPiece
      <4>2. pieces[m].va + pieces[m].mem <= pieces[n].va
        BY <1>11, <2>2 DEF After
      <4>3. pieces[m].off \in Nat /\ pieces[m].mem \in Nat
        BY <2>2 DEF Piece1
      <4>4. QED
        BY <1>3, <2>3, <4>1, <4>2, <4>3
    <3>2. CASE ~(pieces[m].mem > 0)
      BY <1>2, <1>3, <2>3, <3>2, ElfPiece
    <3>3. QED
      BY <3>1, <3>2
  <2>5. \A y \in S : image_base + y <= pieces[n].va
    BY <2>3, <2>4 DEF S
  <2>6. QED
    BY <1>9, <2>5
<1>12. QED
  BY <1>1, <1>9, <1>10, <1>11

(* The last segment has .data, the tables that are written and .bss.        *)
RwPieces == {"data", "got", "dynamic", "got_plt", "bss"}
RwFirst == IF pieces["data"].mem > 0 THEN "data" ELSE IF Dynamic THEN "got" ELSE "bss"
HasRw == pieces["data"].mem > 0 \/ Dynamic \/ pieces["bss"].mem > 0

LEMMA RwOrder ==
  ASSUME ImageInv, MapInv, pc = "done", ~Pe, HasRw
  PROVE  /\ pieces[RwFirst].mem > 0
         /\ \A n \in RwPieces : /\ n \in PieceNames /\ Piece1(n)
                                /\ pieces[n].mem > 0 => pieces[RwFirst].va <= pieces[n].va
         /\ pieces["rodata"].mem > 0 => After("rodata", RwFirst)
<1>1. /\ PieceOrder[9] = "rodata" /\ PieceOrder[10] = "data" /\ PieceOrder[11] = "got"
      /\ PieceOrder[12] = "dynamic" /\ PieceOrder[13] = "got_plt" /\ PieceOrder[14] = "bss"
  BY DEF PieceOrder
<1>2. \A n \in RwPieces : n \in PieceNames
  BY <1>1, OrderIs DEF RwPieces
<1>3. \A n \in RwPieces : Piece1(n)
  BY <1>2, PiecesAre
<1>4. \A j, k \in 1..14 : j < k => After(PieceOrder[j], PieceOrder[k])
  BY PiecesAre
<1>5. /\ \A n \in RwPieces \ {"data"} : After("data", n)
      /\ \A n \in RwPieces \ {"data", "got"} : After("got", n)
      /\ \A n \in RwPieces : After("rodata", n)
  <2> DEFINE name == PieceOrder
  <2>1. After(name[10], name[11]) /\ After(name[10], name[12]) /\ After(name[10], name[13])
        /\ After(name[10], name[14])
    BY <1>4
  <2>2. After(name[11], name[12]) /\ After(name[11], name[13]) /\ After(name[11], name[14])
    BY <1>4
  <2>3. After(name[9], name[10]) /\ After(name[9], name[11]) /\ After(name[9], name[12])
        /\ After(name[9], name[13]) /\ After(name[9], name[14])
    BY <1>4
  <2>4. QED
    BY <1>1, <2>1, <2>2, <2>3 DEF RwPieces
<1>6. \A n \in RwPieces \ {"data", "bss"} : pieces[n].mem > 0 => Dynamic
  BY <1>3 DEF Piece1, PieceMapped, RwPieces, KindSet
<1>7. Dynamic => pieces["got"].mem > 0
  <2>1. Dynamic => Rank(11) # Nowhere
    BY DEF MapInv, CursorInv, Placed, Filling
  <2>2. Piece1("got")
    BY <1>3 DEF RwPieces
  <2>3. QED
    BY <1>1, <2>1, <2>2 DEF Rank, Piece1
<1>8. pieces[RwFirst].mem > 0
  BY <1>7 DEF HasRw, RwFirst
<1>9. ASSUME NEW n \in RwPieces, pieces[n].mem > 0
      PROVE  pieces[RwFirst].va <= pieces[n].va
  <2>1. RwFirst \in RwPieces
    BY DEF RwFirst, RwPieces
  <2>2. Piece1(n) /\ Piece1(RwFirst)
    BY <1>3, <2>1
  <2>3. n = RwFirst \/ After(RwFirst, n)
    BY <1>5, <1>6, <1>9 DEF RwFirst, RwPieces
  <2>4. QED
    BY <1>9, <2>2, <2>3 DEF After, Piece1
<1>10. After("rodata", RwFirst)
  BY <1>5 DEF RwFirst, RwPieces
<1>11. QED
  BY <1>2, <1>3, <1>8, <1>9, <1>10

LEMMA RwMaps ==
  ASSUME ImageInv, MapInv, pc = "done", ~Pe, HasRw
  PROVE  /\ RwLoad.flags = {"r", "w"} /\ RwLoad.va = pieces[RwFirst].va
         /\ RwLoad.off = pieces[RwFirst].off
         /\ \A n \in RwPieces : pieces[n].mem > 0 => Maps(n, RwLoad)
<1> DEFINE first == pieces[RwFirst]
           bss == pieces["bss"]
           S == {FileEnd("data"), FileEnd("got"), FileEnd("dynamic"), FileEnd("got_plt")}
           end == Max(S)
           bss_end == IF bss.mem > 0 THEN bss.va + bss.mem ELSE 0
           T == {image_base + end, bss_end}
           only == pieces["data"].mem = 0 /\ ~Dynamic
           mem_end == IF only THEN bss_end ELSE Max(T)
<1>1. /\ pieces[RwFirst].mem > 0
      /\ \A n \in RwPieces : /\ n \in PieceNames /\ Piece1(n)
                             /\ pieces[n].mem > 0 => pieces[RwFirst].va <= pieces[n].va
  BY RwOrder
<1>2. RwLoad = Load({"r", "w"}, first.off, first.va, end - first.off, mem_end - first.va)
  <2>1. first = (IF pieces["data"].mem > 0 THEN pieces["data"]
                 ELSE IF Dynamic THEN pieces["got"] ELSE bss)
    BY DEF RwFirst
  <2> HIDE DEF first
  <2>2. QED
    BY <2>1, Zenon DEF RwLoad
<1>3. /\ RwLoad.flags = {"r", "w"} /\ RwLoad.va = first.va /\ RwLoad.off = first.off
      /\ RwLoad.file = end - first.off /\ RwLoad.mem = mem_end - first.va
  <2> HIDE DEF first, end, mem_end
  <2>1. QED
    BY <1>2, LoadIs
<1>4. cursor.off \in Nat /\ image_base \in Nat
  BY PiecesAre DEF ImageInv, PieceInv
<1>5. \A n \in RwPieces \ {"bss"} : /\ FileEnd(n) \in Nat /\ FileEnd(n) <= cursor.off
                                    /\ FileEnd(n) \in S
  <2>1. \A n \in RwPieces \ {"bss"} : n \in PieceNames /\ n # "bss"
    BY <1>1
  <2>2. \A n \in RwPieces \ {"bss"} : FileEnd(n) \in S
    BY DEF RwPieces
  <2>3. QED
    BY <2>1, <2>2, ElfPiece
<1>6. S \in SUBSET Nat /\ S # {} /\ \A y \in S : y <= cursor.off
  BY <1>5 DEF RwPieces
<1> HIDE DEF S
<1>7. end \in Nat /\ \A y \in S : y <= end
  BY <1>4, <1>6, MaxOf
<1> HIDE DEF end
<1>8. bss_end \in Nat /\ (bss.mem > 0 => bss_end = bss.va + bss.mem)
      /\ bss.va \in Nat /\ bss.mem \in Nat
  BY <1>1 DEF RwPieces, Piece1
<1> HIDE DEF bss_end
<1>9. Max(T) \in Nat /\ image_base + end <= Max(T) /\ bss_end <= Max(T)
  <2>1. T \in SUBSET Nat /\ T # {} /\ \A y \in T : y <= image_base + end + bss_end
    BY <1>4, <1>7, <1>8
  <2>2. image_base + end + bss_end \in Nat
    BY <1>4, <1>7, <1>8
  <2>3. image_base + end \in T /\ bss_end \in T
    OBVIOUS
  <2> HIDE DEF T
  <2>4. QED
    BY <2>1, <2>2, <2>3, MaxOf
<1> HIDE DEF T
<1>10. RwFirst = "bss" => only
  <2>1. Piece1("data")
    BY <1>1 DEF RwPieces
  <2>2. QED
    BY <2>1 DEF RwFirst, Piece1
<1>11. RwFirst \in RwPieces /\ Piece1(RwFirst)
  BY <1>1 DEF RwFirst, RwPieces
<1>12. ASSUME NEW n \in RwPieces, pieces[n].mem > 0
       PROVE  Maps(n, RwLoad)
  <2>1. Needs(n) \in {"r", "w"}
    BY DEF Needs, RwPieces
  <2>2. /\ Piece1(n) /\ first.va <= pieces[n].va /\ first.va \in Nat /\ first.off \in Nat
        /\ n \in PieceNames
    BY <1>1, <1>11, <1>12 DEF Piece1
  <2>3. /\ pieces[n].va \in Nat /\ pieces[n].mem \in Nat /\ pieces[n].off \in Nat
        /\ pieces[n].file \in Nat /\ PieceMapped(n, pieces[n]) /\ pieces[n] # Nowhere
    BY <1>12, <2>2 DEF Piece1
  <2>4. CASE n = "bss"
    <3>1. pieces[n].file = 0
      BY <2>3, <2>4 DEF PieceMapped
    <3>2. pieces[n].va + pieces[n].mem <= mem_end /\ mem_end \in Nat
      BY <1>8, <1>9, <1>12, <2>3, <2>4
    <3> HIDE DEF mem_end, first
    <3>3. QED
      BY <1>3, <2>1, <2>2, <2>3, <3>1, <3>2 DEF Maps
  <2>5. CASE n # "bss"
    <3>1. /\ pieces[n].file = pieces[n].mem /\ pieces[n].va = image_base + pieces[n].off
          /\ FileEnd(n) = pieces[n].off + pieces[n].mem /\ FileEnd(n) <= end
      BY <1>5, <1>7, <1>12, <2>2, <2>5, ElfPiece
    <3>2. ~only
      <4>1. n \notin KindSet => Dynamic
        BY <2>3 DEF PieceMapped
      <4>2. n = "data" \/ n \notin KindSet
        BY <2>5 DEF RwPieces, KindSet
      <4>3. n = "data" => ~(pieces["data"].mem = 0)
        BY <1>12
      <4>4. QED
        BY <4>1, <4>2, <4>3
    <3>3. first.va = image_base + first.off
      <4>1. RwFirst # "bss" /\ RwFirst \in PieceNames
        BY <1>1, <1>10, <1>11, <3>2
      <4>2. QED
        BY <1>1, <4>1, ElfPiece
    <3>4. mem_end = Max(T)
      BY <3>2
    <3> HIDE DEF mem_end, first, only
    <3>5. pieces[n].va + pieces[n].mem <= mem_end
      BY <1>4, <1>7, <1>9, <2>3, <3>1, <3>4
    <3>6. first.va <= pieces[n].va /\ pieces[n].va + pieces[n].mem <= first.va + (mem_end - first.va)
      BY <1>9, <2>2, <2>3, <3>4, <3>5
    <3>7. pieces[n].off - first.off = pieces[n].va - first.va
      BY <1>4, <2>2, <2>3, <3>1, <3>3
    <3>8. pieces[n].off + pieces[n].file <= first.off + (end - first.off)
      BY <1>7, <2>2, <2>3, <3>1
    <3>9. QED
      BY <1>3, <2>1, <3>6, <3>7, <3>8 DEF Maps
  <2>6. QED
    BY <2>4, <2>5
<1>13. QED
  BY <1>3, <1>12

(* Where a piece starts on a page, the base being one.                      *)
LEMMA StartsOnPage ==
  ASSUME ImageInv, MapInv, pc = "done", image_base % Page = 0, NEW n \in PieceNames,
         n \in PageStart
  PROVE  pieces[n].va % Page = 0
<1>1. Piece1(n) /\ image_base \in Nat
  BY PiecesAre
<1>2. CASE pieces[n].mem = 0
  BY <1>1, <1>2 DEF Piece1, Nowhere, Page
<1>3. CASE pieces[n].mem # 0
  <2>1. pieces[n].va \in Nat /\ PieceMapped(n, pieces[n]) /\ pieces[n] # Nowhere
    BY <1>1, <1>3 DEF Piece1
  <2>2. (pieces[n].va - image_base) % Page = 0 /\ pieces[n].va >= image_base + Page
    BY <2>1 DEF PieceMapped
  <2>3. \A v, b \in Nat : v >= b + 4096 /\ b % 4096 = 0 /\ (v - b) % 4096 = 0 => v % 4096 = 0
    OBVIOUS
  <2>4. QED
    BY <1>1, <2>1, <2>2, <2>3 DEF Page
<1>4. QED
  BY <1>2, <1>3

(* The segments of an ELF image.                                            *)
RoLoad ==
    LET ro == pieces["rodata"] IN Load({"r"}, ro.off, ro.va, ro.file, ro.mem)

LEMMA ElfMapped ==
  ASSUME ImageInv, MapInv, pc = "done", image_base % Page = 0, ~Pe
  PROVE  /\ \A n \in PieceNames : pieces[n].mem > 0 => \E l \in ElfLoads : Maps(n, l)
         /\ \A l, m \in ElfLoads : l # m => ~Sharing(l, m)
         /\ \A l \in ElfLoads : ~({"w", "x"} \subseteq l.flags) /\ (l.va - l.off) % Page = 0
<1> DEFINE ro == pieces["rodata"]
           Rx == RxLoad
           Ro == RoLoad
           Rw == RwLoad
<1>1. /\ RxLoad \in ElfLoads
      /\ ro.mem > 0 => RoLoad \in ElfLoads
      /\ HasRw => RwLoad \in ElfLoads
      /\ \A l \in ElfLoads : \/ l = RxLoad
                             \/ l = RoLoad /\ ro.mem > 0
                             \/ l = RwLoad /\ HasRw
  BY DEF ElfLoads, RoLoad, HasRw
<1>2. /\ Rx.flags = {"r", "x"} /\ Rx.va = image_base /\ Rx.off = 0 /\ Rx.mem \in Nat
      /\ \A n \in RxPieces : pieces[n].mem > 0 => Maps(n, Rx)
      /\ \A n \in {"rodata", "data", "got", "bss"} :
               pieces[n].mem > 0 => image_base + Rx.mem <= pieces[n].va
  BY RxMaps
<1>3. /\ Ro.flags = {"r"} /\ Ro.va = ro.va /\ Ro.off = ro.off /\ Ro.file = ro.file
      /\ Ro.mem = ro.mem
  BY DEF RoLoad, Load
<1>4. HasRw => /\ Rw.flags = {"r", "w"} /\ Rw.va = pieces[RwFirst].va
               /\ Rw.off = pieces[RwFirst].off
               /\ \A n \in RwPieces : pieces[n].mem > 0 => Maps(n, Rw)
               /\ pieces[RwFirst].mem > 0
               /\ ro.mem > 0 => After("rodata", RwFirst)
  BY RwMaps, RwOrder
<1>5. /\ "rodata" \in PieceNames /\ RwFirst \in PieceNames /\ RwFirst \in {"data", "got", "bss"}
      /\ RwFirst \in PageStart /\ "rodata" \in PageStart
  BY DEF RwFirst, PieceNames, PieceOrder, Range, PageStart
<1>6. Piece1("rodata") /\ Piece1(RwFirst) /\ image_base \in Nat
  BY <1>5, PiecesAre
<1>7. ro.va % Page = 0 /\ pieces[RwFirst].va % Page = 0
  BY <1>5, StartsOnPage
<1>8. /\ OnPage(Rx) /\ OnPage(Ro) /\ (HasRw => OnPage(Rw))
  BY <1>2, <1>3, <1>4, <1>6, <1>7 DEF OnPage, Piece1
<1>9. /\ ro.mem > 0 => Ahead(Rx, Ro)
      /\ HasRw => Ahead(Rx, Rw)
      /\ ro.mem > 0 /\ HasRw => Ahead(Ro, Rw)
  BY <1>2, <1>3, <1>4, <1>5, <1>6 DEF Ahead, After, Piece1
<1>10. Maps("rodata", Ro)
  <2>1. Needs("rodata") = "r"
    BY DEF Needs
  <2>2. QED
    BY <1>3, <1>6, <2>1 DEF Maps, Piece1
<1> HIDE DEF Rx, Ro, Rw
<1>11. ASSUME NEW n \in PieceNames, pieces[n].mem > 0
       PROVE  \E l \in ElfLoads : Maps(n, l)
  <2>1. n \in RxPieces \/ n = "rodata" \/ n \in RwPieces
    BY DEF PieceNames, PieceOrder, Range, RxPieces, RwPieces
  <2>2. CASE n \in RxPieces
    BY <1>1, <1>2, <1>11, <2>2 DEF Rx
  <2>3. CASE n = "rodata"
    BY <1>1, <1>10, <1>11, <2>3 DEF Ro
  <2>4. CASE n \in RwPieces
    <3>1. HasRw
      <4>1. n \in {"data", "bss"} \/ n \notin KindSet
        BY <2>4 DEF RwPieces, KindSet
      <4>2. Piece1(n)
        BY PiecesAre
      <4>3. n \notin KindSet => Dynamic
        BY <1>11, <4>2 DEF Piece1, PieceMapped
      <4>4. QED
        BY <1>11, <4>1, <4>3 DEF HasRw
    <3>2. QED
      BY <1>1, <1>4, <1>11, <2>4, <3>1 DEF Rw
  <2>5. QED
    BY <2>1, <2>2, <2>3, <2>4
<1>12. ASSUME NEW l \in ElfLoads, NEW m \in ElfLoads, l # m
       PROVE  ~Sharing(l, m)
  <2>1. \A a, b : OnPage(a) /\ OnPage(b) /\ Ahead(a, b) => ~Sharing(a, b) /\ ~Sharing(b, a)
    BY PagesApart
  <2>2. /\ ro.mem > 0 => ~Sharing(Rx, Ro) /\ ~Sharing(Ro, Rx)
        /\ HasRw => ~Sharing(Rx, Rw) /\ ~Sharing(Rw, Rx)
        /\ ro.mem > 0 /\ HasRw => ~Sharing(Ro, Rw) /\ ~Sharing(Rw, Ro)
    BY <1>8, <1>9, <2>1
  <2>3. /\ l = Rx \/ (l = Ro /\ ro.mem > 0) \/ (l = Rw /\ HasRw)
        /\ m = Rx \/ (m = Ro /\ ro.mem > 0) \/ (m = Rw /\ HasRw)
    BY <1>1 DEF Rx, Ro, Rw
  <2>4. QED
    BY <1>12, <2>2, <2>3
<1>13. ASSUME NEW l \in ElfLoads
       PROVE  ~({"w", "x"} \subseteq l.flags) /\ (l.va - l.off) % Page = 0
  <2>1. l = Rx \/ (l = Ro /\ ro.mem > 0) \/ (l = Rw /\ HasRw)
    BY <1>1 DEF Rx, Ro, Rw
  <2>2. ~({"w", "x"} \subseteq l.flags)
    BY <1>2, <1>3, <1>4, <2>1
  <2>3. ASSUME NEW n \in PieceNames, pieces[n].mem > 0, n # "bss"
        PROVE  pieces[n].va - pieces[n].off = image_base
    <3>1. pieces[n].va = image_base + pieces[n].off /\ Piece1(n)
      BY <2>3, ElfPiece, PiecesAre
    <3>2. QED
      BY <1>6, <3>1 DEF Piece1
  <2>4. ASSUME pieces["bss"].mem > 0
        PROVE  pieces["bss"].off = 0
    <3>1. Piece1("bss")
      BY PiecesAre DEF PieceNames, PieceOrder, Range
    <3>2. QED
      BY <2>4, <3>1 DEF Piece1, PieceMapped
  <2>5. CASE l = Rx
    BY <1>2, <1>6, <2>5
  <2>6. CASE l = Ro /\ ro.mem > 0
    BY <1>3, <1>5, <2>3, <2>6
  <2>7. CASE l = Rw /\ HasRw
    <3>1. CASE RwFirst = "bss"
      BY <1>4, <1>6, <1>7, <2>4, <2>7, <3>1 DEF Piece1
    <3>2. CASE RwFirst # "bss"
      BY <1>4, <1>5, <2>3, <2>7, <3>2
    <3>3. QED
      BY <3>1, <3>2
  <2>8. QED
    BY <2>1, <2>2, <2>5, <2>6, <2>7
<1>14. QED
  BY <1>11, <1>12, <1>13

(* The sections of a PE image: one for each output section that has any     *)
(* memory, and behind them .reloc.                                          *)
PeSection(k) == Load(PeFlags[k], pieces[k].off, pieces[k].va,
                     AlignUp(pieces[k].file, 512), pieces[k].mem)
PeSections == {k \in KindSet : pieces[k].mem > 0}
PeEnds == {pieces[k].va - image_base + AlignUp(pieces[k].mem, Page) : k \in PeSections}
RelocLoad == Load({"r"}, file_end, image_base + Max({Page} \cup PeEnds),
                  AlignUp(BaseRelocSize, 512), BaseRelocSize)

LEMMA PeLoadsAre ==
  /\ \A k \in PeSections : PeSection(k) \in PeLoads
  /\ \A l \in PeLoads : l = RelocLoad \/ \E k \in PeSections : l = PeSection(k)
<1>1. PeLoads = {PeSection(k) : k \in PeSections}
                   \cup (IF fixups = {} THEN {} ELSE {RelocLoad})
  BY KindsAre, Zenon DEF PeLoads, PeSection, PeSections, PeEnds, RelocLoad
<1>2. QED
  BY <1>1

LEMMA PeSectionIs ==
  ASSUME ImageInv, MapInv, pc = "done", image_base % Page = 0, Pe, NEW k \in PeSections
  PROVE  LET l == PeSection(k)
             p == pieces[k]
         IN /\ l.flags = PeFlags[k] /\ l.off = p.off /\ l.va = p.va /\ l.mem = p.mem
            /\ l.file = AlignUp(p.file, 512) /\ l.file \in Nat /\ p.file <= l.file
            /\ p.mem > 0 /\ p.mem \in Nat /\ p.va \in Nat /\ p.off \in Nat /\ p.file \in Nat
            /\ OnPage(l)
            /\ k = "bss" => l.off = 0 /\ l.file = 0
            /\ k # "bss" => l.off % 512 = 0 /\ p.off >= 1024
            /\ p.va - image_base \in Nat /\ (p.va - image_base) % Page = 0
<1> DEFINE l == PeSection(k)
           p == pieces[k]
<1>1. /\ l.flags = PeFlags[k] /\ l.off = p.off /\ l.va = p.va /\ l.mem = p.mem
      /\ l.file = AlignUp(p.file, 512)
  BY DEF PeSection, Load
<1>2. k \in KindSet /\ k \in PieceNames /\ k \in PageStart /\ p.mem > 0
  BY DEF PeSections, KindSet, PieceNames, PieceOrder, Range, PageStart
<1>3. Piece1(k) /\ image_base \in Nat /\ p.va % Page = 0
  BY <1>2, PiecesAre, StartsOnPage
<1>4. /\ p.mem \in Nat /\ p.va \in Nat /\ p.off \in Nat /\ p.file \in Nat
      /\ PieceMapped(k, p) /\ p # Nowhere
  BY <1>2, <1>3 DEF Piece1
<1> HIDE DEF l, p
<1>5. l.file \in Nat /\ p.file <= l.file
  BY <1>1, <1>4, WholeSectors
<1>6. OnPage(l)
  BY <1>1, <1>3, <1>4 DEF OnPage
<1>7. k = "bss" => l.off = 0 /\ l.file = 0
  BY <1>1, <1>4, WholeSectors DEF PieceMapped
<1>8. k # "bss" => l.off % 512 = 0 /\ p.off >= 1024
  BY <1>1, <1>4 DEF PieceMapped, FileStart
<1>9. p.va - image_base \in Nat /\ (p.va - image_base) % Page = 0
  BY <1>2, <1>3, <1>4 DEF PieceMapped, Page
<1>10. QED
  BY <1>1, <1>2, <1>4, <1>5, <1>6, <1>7, <1>8, <1>9 DEF l, p

(* Of two sections the one placed later is behind the other, in memory and  *)
(* in the file.                                                             *)
Disjoint(l, m) == ~Overlap(l.off, l.file, m.off, m.file)

LEMMA PeApart ==
  ASSUME ImageInv, MapInv, pc = "done", image_base % Page = 0, Pe,
         NEW i \in PeSections, NEW k \in PeSections, After(i, k)
  PROVE  /\ ~Sharing(PeSection(i), PeSection(k)) /\ ~Sharing(PeSection(k), PeSection(i))
         /\ Disjoint(PeSection(i), PeSection(k)) /\ Disjoint(PeSection(k), PeSection(i))
<1> DEFINE l == PeSection(i)
           m == PeSection(k)
<1>1. /\ l.off = pieces[i].off /\ l.va = pieces[i].va /\ l.mem = pieces[i].mem
      /\ l.file = AlignUp(pieces[i].file, 512) /\ l.file \in Nat /\ OnPage(l)
      /\ pieces[i].mem \in Nat /\ pieces[i].file \in Nat /\ pieces[i].off \in Nat
      /\ i = "bss" => l.off = 0 /\ l.file = 0
      /\ i # "bss" => l.off % 512 = 0
  BY PeSectionIs
<1>2. /\ m.off = pieces[k].off /\ m.va = pieces[k].va /\ m.mem = pieces[k].mem
      /\ m.file \in Nat /\ OnPage(m) /\ pieces[k].mem > 0 /\ pieces[k].off \in Nat
      /\ k = "bss" => m.off = 0 /\ m.file = 0
      /\ k # "bss" => m.off % 512 = 0
  BY PeSectionIs
<1> HIDE DEF l, m
<1>3. Ahead(l, m)
  BY <1>1, <1>2 DEF Ahead, After
<1>4. ~Sharing(l, m) /\ ~Sharing(m, l)
  BY <1>1, <1>2, <1>3, PagesApart
<1>5. Disjoint(l, m) /\ Disjoint(m, l)
  <2>1. CASE i = "bss" \/ k = "bss"
    BY <1>1, <1>2, <2>1 DEF Disjoint, Overlap
  <2>2. CASE i # "bss" /\ k # "bss"
    <3>1. l.off + pieces[i].file <= m.off
      BY <1>1, <1>2, <2>2 DEF After
    <3>2. pieces[i].file <= m.off - l.off /\ m.off - l.off \in Nat
      BY <1>1, <1>2, <3>1
    <3>3. (m.off - l.off) % 512 = 0
      <4>1. \A v, w \in Nat : v % 512 = 0 /\ w % 512 = 0 /\ w <= v => (v - w) % 512 = 0
        OBVIOUS
      <4>2. QED
        BY <1>1, <1>2, <2>2, <3>2, <4>1
    <3>4. l.file <= m.off - l.off
      BY <1>1, <3>2, <3>3, WholeSectors
    <3>5. ~(m.off < l.off + l.file)
      BY <1>1, <1>2, <3>4
    <3>6. QED
      BY <3>5 DEF Disjoint, Overlap
  <2>3. QED
    BY <2>1, <2>2
<1>6. QED
  BY <1>4, <1>5 DEF l, m

(* .reloc starts on the page behind the last section, at the end of the     *)
(* file.                                                                    *)
LEMMA RelocApart ==
  ASSUME ImageInv, MapInv, pc = "done", image_base % Page = 0, Pe, NEW k \in PeSections
  PROVE  /\ ~Sharing(PeSection(k), RelocLoad) /\ ~Sharing(RelocLoad, PeSection(k))
         /\ Disjoint(PeSection(k), RelocLoad) /\ Disjoint(RelocLoad, PeSection(k))
<1> DEFINE l == PeSection(k)
           m == RelocLoad
           E(j) == pieces[j].va - image_base + AlignUp(pieces[j].mem, Page)
           S == {Page} \cup PeEnds
<1>1. m.off = file_end /\ m.va = image_base + Max(S)
  BY DEF RelocLoad, Load
<1>2. /\ l.off = pieces[k].off /\ l.va = pieces[k].va /\ l.mem = pieces[k].mem
      /\ l.file = AlignUp(pieces[k].file, 512) /\ l.file \in Nat /\ OnPage(l)
      /\ pieces[k].mem \in Nat /\ pieces[k].va \in Nat
      /\ pieces[k].file \in Nat /\ pieces[k].off \in Nat
      /\ k = "bss" => l.off = 0 /\ l.file = 0
      /\ k # "bss" => l.off % 512 = 0
  BY PeSectionIs
<1>3. image_base \in Nat /\ cursor.off \in Nat /\ file_end = cursor.off
      /\ cursor.off % 512 = 0
  BY PiecesAre DEF ImageInv, PieceInv, MapInv, CursorInv, Filling
<1>4. \A j \in PeSections :
         /\ E(j) \in Nat /\ E(j) % Page = 0
         /\ pieces[j].va + pieces[j].mem <= image_base + E(j)
  <2>1. ASSUME NEW j \in PeSections
        PROVE  /\ E(j) \in Nat /\ E(j) % Page = 0
               /\ pieces[j].va + pieces[j].mem <= image_base + E(j)
    <3>1. /\ pieces[j].mem \in Nat /\ pieces[j].va \in Nat
          /\ Whole(pieces[j].va - image_base)
      BY PeSectionIs DEF Whole
    <3>2. /\ Whole(AlignUp(pieces[j].mem, Page))
          /\ pieces[j].mem <= AlignUp(pieces[j].mem, Page)
      BY <3>1, WholePages
    <3>3. Whole(E(j))
      BY <3>1, <3>2, WholePages
    <3>4. QED
      BY <1>3, <3>1, <3>2, <3>3 DEF Whole
  <2>2. QED
    BY <2>1
<1>5. PeEnds = {E(j) : j \in PeSections}
  BY DEF PeEnds
<1> HIDE DEF E
<1>6. Max(S) \in S /\ \A y \in S : y <= Max(S)
  <2> DEFINE e(j) == IF j \in PeSections THEN E(j) ELSE 0
             b == Page + e("text") + e("rodata") + e("data") + e("bss")
  <2>1. \A j : e(j) \in Nat
    BY <1>4
  <2>2. \A j \in PeSections : E(j) = e(j)
    OBVIOUS
  <2> HIDE DEF e
  <2>3. b \in Nat /\ Page \in Nat
    BY <2>1 DEF Page
  <2>4. \A j \in PeSections : E(j) <= b
    <3>1. \A j \in PeSections : j \in {"text", "rodata", "data", "bss"}
      BY DEF PeSections, KindSet
    <3>2. \A j \in {"text", "rodata", "data", "bss"} : e(j) <= b
      BY <2>1, <2>3
    <3>3. QED
      BY <2>2, <3>1, <3>2
  <2>5. S \in SUBSET Nat /\ S # {} /\ \A y \in S : y <= b
    <3>1. Page <= b
      BY <2>1, <2>3
    <3>2. QED
      BY <1>4, <1>5, <2>3, <2>4, <3>1
  <2> HIDE DEF S, b
  <2>6. QED
    BY <2>3, <2>5, MaxOf
<1>7. Max(S) \in Nat /\ Max(S) % Page = 0
  BY <1>4, <1>5, <1>6 DEF Page
<1>8. pieces[k].va + pieces[k].mem <= image_base + Max(S)
  <2>1. E(k) \in S
    BY <1>5
  <2>2. E(k) <= Max(S) /\ E(k) \in Nat /\ pieces[k].va + pieces[k].mem <= image_base + E(k)
    BY <1>4, <1>6, <2>1
  <2> HIDE DEF S
  <2>3. QED
    BY <1>2, <1>3, <1>7, <2>2
<1> HIDE DEF l, m, S
<1>9. OnPage(m) /\ Ahead(l, m)
  <2>1. \A v, w \in Nat : v % 4096 = 0 /\ w % 4096 = 0 => (v + w) % 4096 = 0
    OBVIOUS
  <2>2. OnPage(m)
    BY <1>1, <1>3, <1>7, <2>1 DEF OnPage, Page
  <2>3. Ahead(l, m)
    BY <1>1, <1>2, <1>8 DEF Ahead
  <2>4. QED
    BY <2>2, <2>3
<1>10. ~Sharing(l, m) /\ ~Sharing(m, l)
  BY <1>2, <1>9, PagesApart
<1>11. ~(m.off < l.off + l.file)
  <2>1. CASE k = "bss"
    BY <1>1, <1>2, <1>3, <2>1
  <2>2. CASE k # "bss"
    <3>1. pieces[k].off + pieces[k].file <= cursor.off
      <4>1. k \in PieceNames
        BY DEF PeSections, KindSet, PieceNames, PieceOrder, Range
      <4>2. QED
        BY <2>2, <4>1, PiecesAre
    <3>2. pieces[k].file <= cursor.off - l.off /\ cursor.off - l.off \in Nat
      BY <1>2, <1>3, <3>1
    <3>3. (cursor.off - l.off) % 512 = 0
      <4>1. \A v, w \in Nat : v % 512 = 0 /\ w % 512 = 0 /\ w <= v => (v - w) % 512 = 0
        OBVIOUS
      <4>2. QED
        BY <1>2, <1>3, <2>2, <3>2, <4>1
    <3>4. l.file <= cursor.off - l.off
      BY <1>2, <3>2, <3>3, WholeSectors
    <3>5. QED
      BY <1>1, <1>2, <1>3, <3>4
  <2>3. QED
    BY <2>1, <2>2
<1>12. QED
  BY <1>10, <1>11 DEF l, m, Disjoint, Overlap

LEMMA PeMapped ==
  ASSUME ImageInv, MapInv, pc = "done", image_base % Page = 0, Pe
  PROVE  /\ \A n \in PieceNames : pieces[n].mem > 0 => \E l \in PeLoads : Maps(n, l)
         /\ \A l, m \in PeLoads : l # m => ~Sharing(l, m) /\ Disjoint(l, m)
         /\ \A l \in PeLoads : ~({"w", "x"} \subseteq l.flags)
<1>1. /\ PeFlags["text"] = {"r", "x"} /\ PeFlags["rodata"] = {"r"}
      /\ PeFlags["data"] = {"r", "w"} /\ PeFlags["bss"] = {"r", "w"}
  BY KindsAre DEF PeFlags, KindSet
<1>2. ASSUME NEW n \in PieceNames, pieces[n].mem > 0
      PROVE  \E l \in PeLoads : Maps(n, l)
  <2>1. n \in PeSections
    <3>1. Piece1(n)
      BY PiecesAre
    <3>2. QED
      BY <1>2, <3>1 DEF Piece1, PieceMapped, PeSections
  <2> DEFINE l == PeSection(n)
  <2>2. /\ l.flags = PeFlags[n] /\ l.off = pieces[n].off /\ l.va = pieces[n].va
        /\ l.mem = pieces[n].mem /\ l.file \in Nat /\ pieces[n].file <= l.file
        /\ pieces[n].mem \in Nat /\ pieces[n].va \in Nat
        /\ pieces[n].file \in Nat /\ pieces[n].off \in Nat
    BY <2>1, PeSectionIs
  <2>3. Needs(n) \in PeFlags[n]
    BY <1>1, <2>1 DEF Needs, PeSections, KindSet
  <2>4. l \in PeLoads
    BY <2>1, PeLoadsAre
  <2> HIDE DEF l
  <2>5. Maps(n, l)
    BY <2>2, <2>3 DEF Maps
  <2>6. QED
    BY <2>4, <2>5
<1>3. ASSUME NEW i \in PeSections, NEW k \in PeSections, i # k
      PROVE  After(i, k) \/ After(k, i)
  <2>1. i \in PieceNames /\ k \in PieceNames
    BY DEF PeSections, KindSet, PieceNames, PieceOrder, Range
  <2>2. PICK a \in 1..14, b \in 1..14 : PieceOrder[a] = i /\ PieceOrder[b] = k
    BY <2>1, OrderIs
  <2>3. a < b \/ b < a
    BY <1>3, <2>2
  <2>4. After(PieceOrder[a], PieceOrder[b]) \/ After(PieceOrder[b], PieceOrder[a])
    BY <2>3, PiecesAre
  <2>5. QED
    BY <2>2, <2>4
<1>4. ASSUME NEW l \in PeLoads, NEW m \in PeLoads, l # m
      PROVE  ~Sharing(l, m) /\ Disjoint(l, m)
  <2>1. /\ l = RelocLoad \/ \E k \in PeSections : l = PeSection(k)
        /\ m = RelocLoad \/ \E k \in PeSections : m = PeSection(k)
    BY PeLoadsAre
  <2>2. CASE l = RelocLoad
    BY <1>4, <2>1, <2>2, RelocApart
  <2>3. CASE m = RelocLoad
    BY <1>4, <2>1, <2>3, RelocApart
  <2>4. CASE l # RelocLoad /\ m # RelocLoad
    <3>1. PICK i \in PeSections, k \in PeSections : l = PeSection(i) /\ m = PeSection(k)
      BY <2>1, <2>4
    <3>2. i # k
      BY <1>4, <3>1
    <3>3. After(i, k) \/ After(k, i)
      BY <1>3, <3>2
    <3>4. QED
      BY <3>1, <3>3, PeApart
  <2>5. QED
    BY <2>2, <2>3, <2>4
<1>5. ASSUME NEW l \in PeLoads
      PROVE  ~({"w", "x"} \subseteq l.flags)
  <2>1. CASE l = RelocLoad
    BY <2>1 DEF RelocLoad, Load
  <2>2. ASSUME NEW k \in PeSections, l = PeSection(k)
        PROVE  ~({"w", "x"} \subseteq l.flags)
    <3>1. l.flags = PeFlags[k] /\ k \in KindSet
      BY <2>2 DEF PeSection, Load, PeSections
    <3>2. QED
      BY <1>1, <3>1 DEF KindSet
  <2>3. QED
    BY <2>1, <2>2, PeLoadsAre
<1>6. QED
  BY <1>2, <1>4, <1>5

(* The addresses of the input sections.                                     *)
LEMMA SectionsAligned ==
  ASSUME ImageInv, MapInv, pc = "done", image_base % Page = 0, NEW i \in Sections,
         job.sections[i].align \in 1..Page
  PROVE  SectionVa(i) % job.sections[i].align = 0
<1> DEFINE a == job.sections[i].align
           k == job.sections[i].kind
<1>1. job \in Jobs /\ at \in Seq(Nat) /\ Len(at) = Len(job.sections) /\ AtAligned
  BY DEF ImageInv, TypeInv, OutInv, MapInv, Filling
<1>2. i \in DOMAIN at /\ at[i] \in Nat
  BY <1>1, JobTypes
<1>3. a \in SmallAlignments /\ k \in KindSet
  BY <1>1, SectionTyped, SmallAre DEF Kind
<1>4. at[i] % a = 0
  BY <1>1, <1>2 DEF AtAligned
<1>5. k \in PieceNames /\ k \in PageStart
  BY <1>3 DEF KindSet, PieceNames, PieceOrder, Range, PageStart
<1>6. pieces[k].va \in Nat /\ pieces[k].va % Page = 0
  BY <1>5, PiecesAre, StartsOnPage DEF Piece1
<1> HIDE DEF a, k
<1>7. (pieces[k].va + at[i]) % a = 0
  BY <1>2, <1>3, <1>4, <1>6, PagesAlign
<1>8. QED
  BY <1>7 DEF SectionVa, a, k

(* Every piece of a finished image is mapped, from its place in the file,   *)
(* by a segment of the permission it needs; segments share no page, nor     *)
(* sections of a PE image a sector; input sections are aligned.             *)
THEOREM PiecesMappedCorrect == Spec => []PiecesMapped
<1>1. ASSUME ImageInv, MapInv, pc = "done", image_base % Page = 0
      PROVE  /\ \A n \in PieceNames : pieces[n].mem > 0 =>
                    /\ pieces[n].file > 0 => pieces[n].off >= FileStart
                    /\ \E l \in head.loads : Maps(n, l)
             /\ \A l, m \in head.loads : l # m => ~Sharing(l, m) /\ (Pe => Disjoint(l, m))
             /\ \A l \in head.loads : /\ ~({"w", "x"} \subseteq l.flags)
                                      /\ ~Pe => (l.va - l.off) % Page = 0
  <2>1. head.loads = IF Pe THEN PeLoads ELSE ElfLoads
    BY <1>1 DEF MapInv
  <2>2. \A n \in PieceNames : pieces[n].mem > 0 /\ pieces[n].file > 0 =>
           pieces[n].off >= FileStart
    <3>1. \A n \in PieceNames : Piece1(n)
      BY <1>1, PiecesAre
    <3>2. QED
      BY <3>1 DEF Piece1, PieceMapped
  <2>3. CASE Pe
    BY <1>1, <2>1, <2>2, <2>3, PeMapped
  <2>4. CASE ~Pe
    BY <1>1, <2>1, <2>2, <2>4, ElfMapped
  <2>5. QED
    BY <2>3, <2>4
<1>2. ASSUME ImageInv, MapInv, pc = "done", image_base % Page = 0
      PROVE  \A i \in Sections : job.sections[i].align \in 1..Page =>
                SectionVa(i) % job.sections[i].align = 0
  BY <1>2, SectionsAligned
<1>3. ImageInv /\ MapInv => PiecesMapped
  BY <1>1, <1>2 DEF PiecesMapped, Maps, Sharing, PagesOf, Disjoint, FileStart
<1>4. QED
  BY <1>3, MapCorrect, PTL

=============================================================================
