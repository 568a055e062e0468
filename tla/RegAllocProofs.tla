--------------------------- MODULE RegAllocProofs ---------------------------
(***************************************************************************)
(* Proofs about the linear scan, for every function, every target and any  *)
(* number of registers: what the scan leaves in one register is never      *)
(* needed at the same time, and what a call may destroy is not needed      *)
(* after it.  And about the frame that instruction selection lays out for  *)
(* what was spilled: its parts do not overlap.                             *)
(***************************************************************************)
EXTENDS Backend, TLAPS, FiniteSetTheorems, WellFoundedInduction, NaturalsInduction, SequenceTheorems

LVregs == DOMAIN Lowered.class
LBlocks == DOMAIN Lowered.blocks

(* The compilation works on what lowering made until it is rewritten.      *)
MachineInv ==
    /\ phase \in {"lower", "failed", "live", "intervals", "scan", "select", "done"}
    /\ \E in \in Inputs : fn = in.fn /\ target = in.target
    /\ phase \notin {"lower", "failed"} => Supported(fn)
    /\ phase \in {"live", "intervals", "scan"} => mfn = Lowered

(* The equations of liveness hold for a block.                             *)
Solved(b) ==
    /\ \A s \in Lowered.succ[b] : live_in[s] \subseteq live_out[b]
    /\ live_in[b] = use_gen(Lowered, b) \cup (live_out[b] \ def_kill(Lowered, b))

(* A round that has changed nothing so far has solved the blocks it has    *)
(* passed; the last round solves all of them.                              *)
LiveInv ==
    /\ phase \notin {"lower", "failed"} =>
          live_in \in [LBlocks -> SUBSET LVregs] /\ live_out \in [LBlocks -> SUBSET LVregs]
    /\ phase = "live" =>
          /\ block \in 0 .. Len(Lowered.blocks)
          /\ changed \/ \A b \in LBlocks : b > block => Solved(b)
    /\ phase \in {"intervals", "scan", "select", "done"} => \A b \in LBlocks : Solved(b)

(* What the interval of a value reaches to.                                *)
Reaches(iv, v) ==
    /\ iv.start \in Nat /\ iv.end \in Nat /\ 1 <= iv.end
    /\ \A p \in Positions(Lowered) :
          v \in Uses(InstAt(Lowered, p)) \cup Defs(InstAt(Lowered, p)) =>
              iv.start <= Index(Lowered, p) /\ Index(Lowered, p) <= iv.end
    /\ \A b \in LBlocks : v \in live_in[b] => iv.start <= blk_start(Lowered, b)
    /\ \A b \in LBlocks :
          v \in live_out[b] /\ v \in live_in[b] \cup def_kill(Lowered, b) =>
              blk_end(Lowered, b) <= iv.end
    /\ v \in ToSet(Lowered.params) => iv.start = 1
    /\ \A c \in call_sites(Lowered) : iv.start < c /\ c < iv.end => iv.crosses_call

Spans(v) == Reaches(interval[v], v)

IntervalInv == phase \in {"scan", "select", "done"} => \A v \in LVregs : Spans(v)

(* Intervals that have no index in common.                                 *)
Apart(v, w) == interval[v].end < interval[w].start \/ interval[w].end < interval[v].start

(* The scan: registers are free or held by one active interval, intervals  *)
(* that gave theirs back end before all that are still to come, those that *)
(* had the same register are apart, and what lives across a call is in a   *)
(* callee-saved one.                                                       *)
Scanned == LVregs \ waiting
ScanOK ==
    /\ waiting \subseteq LVregs /\ active \subseteq Scanned
    /\ DOMAIN assigned = LVregs
    /\ \A v \in active : assigned[v] \notin free
    /\ \A v, w \in active : v # w => assigned[v] # assigned[w]
    /\ \A v \in Scanned \ active : InRegister(v) =>
          \A w \in waiting : interval[v].end < interval[w].start
    /\ \A v, w \in Scanned :
          v # w /\ InRegister(v) /\ assigned[v] = assigned[w] => Apart(v, w)
    /\ \A v \in Scanned : InRegister(v) /\ interval[v].crosses_call =>
          assigned[v] \in CalleeSaved(target)

ScanInv ==
    /\ phase \notin {"scan", "select", "done"} => active = {}
    /\ phase \in {"select", "done"} => waiting = {}
    /\ phase \in {"scan", "select", "done"} => ScanOK

AllocInv == MachineInv /\ LiveInv /\ IntervalInv /\ ScanInv
-----------------------------------------------------------------------------
(* Facts about numbers and finite sets.                                    *)

(* Every nonempty set of naturals has a least element.                     *)
LEMMA NatMin ==
  ASSUME NEW S \in SUBSET Nat, S # {}
  PROVE  \E x \in S : \A y \in S : x =< y
<1> DEFINE R == OpToRel(<, Nat)
<1>1. PICK x \in S : \A y \in S : ~(<<y, x>> \in R)
  BY NatLessThanWellFounded, WFMin
<1>2. \A y \in S : ~(y < x)
  BY <1>1 DEF OpToRel
<1>3. QED
  BY <1>2

(* A finite set of naturals has an upper bound.                            *)
LEMMA FiniteBounded ==
  ASSUME NEW S \in SUBSET Nat, IsFiniteSet(S)
  PROVE  \E n \in Nat : \A x \in S : x <= n
<1>1. PICK n \in Nat : ExistsSurjection(1..n, S)
  BY FS_NatSurjection
<1>2. PICK f \in Surjection(1..n, S) : TRUE
  BY <1>1 DEF ExistsSurjection
<1>3. f \in [1..n -> S] /\ \A x \in S : \E k \in 1..n : f[k] = x
  BY <1>2 DEF Surjection
<1> \A j \in 1..n : f[j] \in Nat
  BY <1>3
<1> DEFINE B(k) == \E m \in Nat : \A j \in 1..n : j <= k => f[j] <= m
           Bad == {k \in 0..n : ~B(k)}
<1>4. B(n)
  <2>1. SUFFICES ASSUME ~B(n)
                 PROVE  FALSE
    OBVIOUS
  <2>2. n \in Bad /\ Bad \in SUBSET Nat
    <3> HIDE DEF B
    <3> QED
      BY <2>1
  <2>3. PICK k \in Bad : \A y \in Bad : k <= y
    <3> HIDE DEF Bad
    <3> QED
      BY <2>2, NatMin
  <2>4. k \in 0..n /\ ~B(k)
    BY <2>3
  <2>5. k # 0
    <3>1. \A j \in 1..n : j <= 0 => f[j] <= 0
      OBVIOUS
    <3>2. B(0)
      BY <3>1
    <3> QED
      BY <2>4, <3>2
  <2>6. B(k - 1)
    <3> HIDE DEF B
    <3>1. k - 1 \in 0..n /\ ~(k <= k - 1)
      BY <2>4, <2>5
    <3>2. k - 1 \notin Bad
      BY <2>3, <3>1
    <3> QED
      BY <3>1, <3>2
  <2>7. PICK m \in Nat : \A j \in 1..n : j <= k - 1 => f[j] <= m
    BY <2>6
  <2>8. k \in 1..n /\ f[k] \in Nat
    BY <2>4, <2>5
  <2>9. \E u \in Nat : m <= u /\ f[k] <= u
    <3> DEFINE x == f[k]
    <3> x \in Nat
      BY <2>8
    <3> HIDE DEF x
    <3>1. \E u \in Nat : m <= u /\ x <= u
      BY m + x \in Nat, m <= m + x, x <= m + x
    <3> QED
      BY <3>1 DEF x
  <2>10. PICK u \in Nat : m <= u /\ f[k] <= u
    BY <2>9
  <2>11. ASSUME NEW j \in 1..n, j <= k
         PROVE  f[j] <= u
    <3> DEFINE x == f[j]
    <3> x \in Nat
      OBVIOUS
    <3>1. CASE j = k
      BY <3>1, <2>10
    <3>2. CASE j # k
      <4>1. j <= k - 1
        BY <3>2, <2>4, <2>11
      <4>2. x <= m
        BY <4>1, <2>7
      <4> HIDE DEF x
      <4>3. x <= u
        BY <4>2, <2>10
      <4> QED
        BY <4>3 DEF x
    <3> QED
      BY <3>1, <3>2
  <2> QED
    BY <2>4, <2>11
<1>5. PICK m \in Nat : \A j \in 1..n : j <= n => f[j] <= m
  BY <1>4
<1>6. ASSUME NEW x \in S
      PROVE  x <= m
  <2>1. PICK k \in 1..n : f[k] = x
    BY <1>3
  <2>2. k <= n
    BY <2>1
  <2> QED
    BY <1>5, <2>1, <2>2
<1> QED
  BY <1>6

(* Max and Min of a finite, nonempty set of naturals.                      *)
LEMMA MaxFacts ==
  ASSUME NEW S \in SUBSET Nat, IsFiniteSet(S), S # {}
  PROVE  Max(S) \in S /\ \A x \in S : x <= Max(S)
<1> DEFINE U == {n \in Nat : \A x \in S : x <= n}
<1>1. U # {} /\ U \in SUBSET Nat
  BY FiniteBounded
<1>2. PICK u \in U : \A n \in U : u <= n
  BY <1>1, NatMin
<1>3. u \in S
  <2>1. SUFFICES ASSUME u \notin S
                 PROVE  FALSE
    OBVIOUS
  <2>2. \A x \in S : x < u
    BY <1>2, <2>1
  <2>3. u # 0
    <3>1. PICK x \in S : TRUE
      OBVIOUS
    <3>2. x \in Nat /\ x < u
      BY <2>2, <3>1
    <3> QED
      BY <3>2
  <2>4. u - 1 \in U
    BY <1>2, <2>2, <2>3
  <2> QED
    BY <1>2, <2>4
<1>4. \A x \in S : u >= x
  BY <1>2
<1> QED
  BY <1>3, <1>4 DEF Max

LEMMA MinFacts ==
  ASSUME NEW S \in SUBSET Nat, S # {}
  PROVE  Min(S) \in S /\ \A x \in S : Min(S) <= x
  BY NatMin DEF Min

(* The values of a function on a finite set.                               *)
LEMMA ImageFinite ==
  ASSUME NEW S, IsFiniteSet(S), NEW f, DOMAIN f = S
  PROVE  IsFiniteSet({f[x] : x \in S})
<1> DEFINE T == {f[x] : x \in S}
           g == [x \in S |-> f[x]]
<1>1. g \in [S -> T] /\ \A y \in T : \E x \in S : g[x] = y
  OBVIOUS
<1>2. g \in Surjection(S, T)
  BY <1>1 DEF Surjection
<1> QED
  BY <1>2, FS_Surjection

-----------------------------------------------------------------------------
(* Positions and indices of a machine function.                            *)

(* Blocks, instructions and operands are sequences.                        *)
InSequence(m) ==
    /\ Len(m.blocks) \in Nat /\ DOMAIN m.blocks = 1 .. Len(m.blocks)
    /\ \A b \in DOMAIN m.blocks :
          /\ Len(m.blocks[b]) \in Nat /\ DOMAIN m.blocks[b] = 1 .. Len(m.blocks[b])
          /\ \A j \in DOMAIN m.blocks[b] :
                /\ Len(m.blocks[b][j].use) \in Nat
                /\ DOMAIN m.blocks[b][j].use = 1 .. Len(m.blocks[b][j].use)

LEMMA PositionFacts ==
  ASSUME NEW m
  PROVE  /\ \A b \in DOMAIN m.blocks : \A j \in DOMAIN m.blocks[b] :
               <<b, j>> \in Positions(m) /\ InstAt(m, <<b, j>>) = m.blocks[b][j]
         /\ \A p \in Positions(m) :
               \E b \in DOMAIN m.blocks : \E j \in DOMAIN m.blocks[b] : p = <<b, j>>
<1>1. ASSUME NEW b \in DOMAIN m.blocks, NEW j \in DOMAIN m.blocks[b]
      PROVE  <<b, j>> \in Positions(m) /\ InstAt(m, <<b, j>>) = m.blocks[b][j]
  <2>1. <<b, j>> \in {b} \X DOMAIN m.blocks[b]
    OBVIOUS
  <2> QED
    BY <2>1 DEF Positions, InstAt
<1>2. ASSUME NEW p \in Positions(m)
      PROVE  \E b \in DOMAIN m.blocks : \E j \in DOMAIN m.blocks[b] : p = <<b, j>>
  <2>1. PICK b \in DOMAIN m.blocks : p \in {b} \X DOMAIN m.blocks[b]
    BY DEF Positions
  <2>2. PICK c \in {b}, j \in DOMAIN m.blocks[b] : p = <<c, j>>
    BY <2>1
  <2> QED
    BY <2>2
<1> QED
  BY <1>1, <1>2

LEMMA InSequenceFinite ==
  ASSUME NEW m, InSequence(m)
  PROVE  IsFiniteSet(Positions(m))
<1> DEFINE D == DOMAIN m.blocks
           g == [b \in D |-> {b} \X DOMAIN m.blocks[b]]
           G == {g[b] : b \in D}
<1>1. IsFiniteSet(D)
  <2> DEFINE l == Len(m.blocks)
  <2>1. l \in Nat /\ D = 1..l
    BY DEF InSequence
  <2> HIDE DEF l, D
  <2> QED
    BY <2>1, FS_Interval
<1>2. IsFiniteSet(G)
  <2>1. DOMAIN g = D
    OBVIOUS
  <2> HIDE DEF D, g
  <2> QED
    BY <1>1, <2>1, ImageFinite
<1>3. ASSUME NEW T \in G
      PROVE  IsFiniteSet(T)
  <2>1. PICK b \in D : T = {b} \X DOMAIN m.blocks[b]
    OBVIOUS
  <2>2. IsFiniteSet(DOMAIN m.blocks[b])
    <3> DEFINE l == Len(m.blocks[b])
    <3>1. l \in Nat /\ DOMAIN m.blocks[b] = 1..l
      BY DEF InSequence
    <3> HIDE DEF l
    <3> QED
      BY <3>1, FS_Interval
  <2>3. IsFiniteSet({b})
    BY FS_Singleton
  <2> QED
    BY <2>1, <2>2, <2>3, FS_Product
<1>4. Positions(m) = UNION G
  BY DEF Positions
<1> HIDE DEF G
<1> QED
  BY <1>2, <1>3, <1>4, FS_UNION

LEMMA WellFormedInSequence ==
  ASSUME NEW m, WellFormed(m)
  PROVE  InSequence(m)
  BY DEF WellFormed, InSequence

LEMMA PositionsFinite ==
  ASSUME NEW m, WellFormed(m)
  PROVE  IsFiniteSet(Positions(m))
  BY WellFormedInSequence, InSequenceFinite

(* A block has the indices from blk_start to blk_end.                      *)
LEMMA IndexFacts ==
  ASSUME NEW m, WellFormed(m), NEW b \in DOMAIN m.blocks
  PROVE  /\ blk_start(m, b) \in Nat /\ blk_start(m, b) >= 1
         /\ blk_end(m, b) = blk_start(m, b) + Len(m.blocks[b]) - 1
         /\ \A j \in DOMAIN m.blocks[b] : Index(m, <<b, j>>) = blk_start(m, b) + j - 1
<1> DEFINE E == {p \in Positions(m) : p[1] < b}
           n == Cardinality(E)
           l == Len(m.blocks[b])
<1>1. n \in Nat
  <2>1. IsFiniteSet(E)
    BY PositionsFinite, FS_Subset
  <2> HIDE DEF E
  <2> QED
    BY <2>1, FS_CardinalityType
<1>2. l \in Nat \ {0}
  BY DEF WellFormed
<1>3. blk_start(m, b) = 1 + n
  BY DEF blk_start
<1>4. blk_end(m, b) = Max({1, (1 + n) + l - 1})
  BY <1>3 DEF blk_end
<1> HIDE DEF n, l
<1>5. Max({1, (1 + n) + l - 1}) = (1 + n) + l - 1
  <2> DEFINE x == (1 + n) + l - 1
  <2>1. x \in Nat /\ x >= 1
    BY <1>1, <1>2
  <2> HIDE DEF x
  <2>2. IsFiniteSet({1, x})
    <3>1. IsFiniteSet({1}) /\ IsFiniteSet({x})
      BY FS_Singleton
    <3>2. {1, x} = {1} \cup {x}
      OBVIOUS
    <3> QED
      BY <3>1, <3>2, FS_Union
  <2>3. Max({1, x}) \in {1, x} /\ x <= Max({1, x})
    BY <2>1, <2>2, MaxFacts
  <2>4. Max({1, x}) = x
    BY <2>1, <2>3
  <2> QED
    BY <2>4 DEF x
<1>6. blk_end(m, b) = blk_start(m, b) + l - 1
  BY <1>3, <1>4, <1>5
<1>7. \A j \in DOMAIN m.blocks[b] : Index(m, <<b, j>>) = blk_start(m, b) + j - 1
  BY DEF Index
<1> QED
  BY <1>1, <1>3, <1>6, <1>7 DEF l

-----------------------------------------------------------------------------
(* Liveness by definition is a number of steps back.                       *)

LEMMA LiveStages ==
  ASSUME NEW m, WellFormed(m)
  PROVE  \E n \in Nat : \E W :
            /\ LiveAfter(m) = W[n]
            /\ W[0] = [p \in Positions(m) |-> {}]
            /\ \A k \in 1..n : W[k] = StepBack(m, W[k-1])
<1> DEFINE n == Cardinality(Positions(m))
           z == [p \in Positions(m) |-> {}]
           S(g) == StepBack(m, g)
           Is(k, g) == g = [i \in 0..k |-> IF i = 0 THEN z ELSE S(g[i-1])]
           Bad == {k \in Nat : ~\E g : Is(k, g)}
<1>1. n \in Nat
  BY PositionsFinite, FS_CardinalityType
<1>2. LiveAfter(m) = (CHOOSE g : Is(n, g))[n]
  BY DEF LiveAfter
<1> HIDE DEF n, z, S
<1>3. \E g : Is(n, g)
  <2>1. SUFFICES ASSUME n \in Bad
                 PROVE  FALSE
    BY <1>1
  <2>2. Bad \in SUBSET Nat /\ Bad # {}
    BY <2>1
  <2>3. PICK k \in Bad : \A y \in Bad : k <= y
    <3> HIDE DEF Bad
    <3> QED
      BY <2>2, NatMin
  <2>4. k # 0
    <3>1. Is(0, [i \in 0..0 |-> z])
      OBVIOUS
    <3> QED
      BY <2>3, <3>1
  <2>5. k - 1 \in Nat /\ k - 1 \notin Bad
    <3> HIDE DEF Is
    <3> k \in Nat
      BY <2>3
    <3> QED
      BY <2>3, <2>4
  <2>6. PICK f : Is(k - 1, f)
    BY <2>5
  <2> DEFINE g == [i \in 0..k |-> IF i = k THEN S(f[k-1]) ELSE f[i]]
  <2>7. Is(k, g)
    <3> k \in Nat
      BY <2>3
    <3>1. \A i \in 0..k-1 : f[i] = IF i = 0 THEN z ELSE S(f[i-1])
      BY <2>6
    <3>2. ASSUME NEW i \in 0..k
          PROVE  g[i] = IF i = 0 THEN z ELSE S(g[i-1])
      <4>1. CASE i = k
        <5>1. i - 1 \in 0..k /\ i - 1 # k
          BY <4>1, <2>4
        <5>2. g[i-1] = f[i-1]
          BY <5>1
        <5> QED
          BY <4>1, <5>2, <2>4
      <4>2. CASE i = 0
        BY <4>2, <2>4, <3>1
      <4>3. CASE i # k /\ i # 0
        <5>1. i - 1 \in 0..k /\ i - 1 # k /\ i \in 0..k-1
          BY <4>3
        <5>2. g[i-1] = f[i-1] /\ g[i] = f[i]
          BY <5>1, <4>3
        <5> QED
          BY <4>3, <5>1, <5>2, <3>1
      <4> QED
        BY <4>1, <4>2, <4>3
    <3>3. g = [i \in 0..k |-> g[i]]
      OBVIOUS
    <3> HIDE DEF g
    <3> QED
      BY <3>2, <3>3
  <2> QED
    BY <2>3, <2>7
<1> DEFINE W == CHOOSE g : Is(n, g)
<1>4. Is(n, W)
  BY <1>3
<1> HIDE DEF W
<1>5. W[0] = z /\ \A k \in 1..n : W[k] = S(W[k-1])
  BY <1>1, <1>4
<1> QED
  BY <1>1, <1>2, <1>5 DEF S, z, W

-----------------------------------------------------------------------------
(* The sets of the allocator cover liveness by definition.                 *)

InstsOf(b) == Lowered.blocks[b]
Places(b) == DOMAIN InstsOf(b)

(* v is read in the rest of the block before it is written, or it is not   *)
(* written there and the allocator has it live out of the block.           *)
Needed(b, j, v) ==
    \/ \E k \in Places(b) :
          /\ j < k /\ v \in Uses(InstsOf(b)[k])
          /\ \A l \in Places(b) : j < l /\ l < k => v \notin Defs(InstsOf(b)[l])
    \/ /\ v \in live_out[b]
       /\ \A l \in Places(b) : j < l => v \notin Defs(InstsOf(b)[l])

AllNeeded(live) ==
    \A b \in LBlocks : \A j \in Places(b) : \A v \in live[<<b, j>>] : Needed(b, j, v)

LiveOK ==
    /\ WellFormed(Lowered)
    /\ live_in \in [LBlocks -> SUBSET LVregs] /\ live_out \in [LBlocks -> SUBSET LVregs]
    /\ \A b \in LBlocks : Solved(b)

LEMMA BlockFacts ==
  ASSUME WellFormed(Lowered), NEW b \in LBlocks
  PROVE  /\ Len(InstsOf(b)) \in Nat \ {0} /\ Places(b) = 1 .. Len(InstsOf(b))
         /\ InstsOf(b)[Len(InstsOf(b))].op \in {"JMP", "RET", "TRAP"}
         /\ Lowered.succ[b] \subseteq LBlocks
         /\ \A j \in Places(b) : /\ Uses(InstsOf(b)[j]) \subseteq LVregs
                                /\ Defs(InstsOf(b)[j]) \subseteq LVregs
         /\ use_gen(Lowered, b) =
               {v \in LVregs : \E j \in Places(b) :
                   v \in Uses(InstsOf(b)[j]) /\ \A k \in 1 .. j-1 : v \notin Defs(InstsOf(b)[k])}
         /\ def_kill(Lowered, b) = UNION {Defs(InstsOf(b)[j]) : j \in Places(b)}
  BY DEF WellFormed, LBlocks, LVregs, InstsOf, Places, use_gen, def_kill

(* What is needed before the first instruction of a block is live into it. *)
LEMMA LiveIntoBlock ==
  ASSUME LiveOK, NEW c \in LBlocks, NEW v,
         v \in Uses(InstsOf(c)[1]) \/ (Needed(c, 1, v) /\ v \notin Defs(InstsOf(c)[1]))
  PROVE  v \in live_in[c]
<1> WellFormed(Lowered) /\ Solved(c)
  BY DEF LiveOK
<1>0. /\ Len(InstsOf(c)) \in Nat \ {0} /\ Places(c) = 1 .. Len(InstsOf(c)) /\ 1 \in Places(c)
      /\ \A j \in Places(c) : Uses(InstsOf(c)[j]) \subseteq LVregs
  BY BlockFacts
<1>1. live_in[c] = use_gen(Lowered, c) \cup (live_out[c] \ def_kill(Lowered, c))
  BY DEF Solved
<1>2. CASE v \in Uses(InstsOf(c)[1])
  <2>1. v \in LVregs /\ \A k \in 1 .. 1-1 : v \notin Defs(InstsOf(c)[k])
    BY <1>0, <1>2
  <2>2. v \in use_gen(Lowered, c)
    BY <1>0, <1>2, <2>1, BlockFacts
  <2> QED
    BY <1>1, <2>2
<1>3. ASSUME v \notin Defs(InstsOf(c)[1]),
             NEW k \in Places(c), 1 < k, v \in Uses(InstsOf(c)[k]),
             \A l \in Places(c) : 1 < l /\ l < k => v \notin Defs(InstsOf(c)[l])
      PROVE  v \in live_in[c]
  <2>1. \A l \in 1 .. k-1 : v \notin Defs(InstsOf(c)[l])
    BY <1>0, <1>3
  <2>2. v \in LVregs
    BY <1>0, <1>3
  <2>3. v \in use_gen(Lowered, c)
    BY <1>3, <2>1, <2>2, BlockFacts
  <2> QED
    BY <1>1, <2>3
<1>4. ASSUME v \notin Defs(InstsOf(c)[1]), v \in live_out[c],
             \A l \in Places(c) : 1 < l => v \notin Defs(InstsOf(c)[l])
      PROVE  v \in live_in[c]
  <2>1. \A l \in Places(c) : v \notin Defs(InstsOf(c)[l])
    BY <1>0, <1>4
  <2>2. v \notin def_kill(Lowered, c)
    BY <2>1, BlockFacts
  <2> QED
    BY <1>1, <1>4, <2>2
<1> QED
  BY <1>2, <1>3, <1>4 DEF Needed

LEMMA NeededStep ==
  ASSUME LiveOK, NEW live, AllNeeded(live)
  PROVE  AllNeeded(StepBack(Lowered, live))
<1> SUFFICES ASSUME NEW b \in LBlocks, NEW j \in Places(b),
                    NEW v \in StepBack(Lowered, live)[<<b, j>>]
             PROVE  Needed(b, j, v)
  BY DEF AllNeeded
<1> WellFormed(Lowered) /\ Solved(b)
  BY DEF LiveOK
<1>0. /\ Len(InstsOf(b)) \in Nat \ {0} /\ Places(b) = 1 .. Len(InstsOf(b))
      /\ Lowered.succ[b] \subseteq LBlocks
  BY BlockFacts
<1>1. <<b, j>> \in Positions(Lowered)
  BY PositionFacts DEF LBlocks, Places, InstsOf
<1>2. PICK q \in InstSucc(Lowered, <<b, j>>) :
         v \in Uses(InstAt(Lowered, q)) \cup (live[q] \ Defs(InstAt(Lowered, q)))
  BY <1>1 DEF StepBack
<1>3. CASE j < Len(InstsOf(b))
  <2>1. q = <<b, j + 1>>
    BY <1>2, <1>3 DEF InstSucc, InstsOf
  <2>2. j + 1 \in Places(b) /\ InstAt(Lowered, q) = InstsOf(b)[j + 1]
    BY <1>0, <1>3, <2>1 DEF InstAt, InstsOf
  <2>3. CASE v \in Uses(InstsOf(b)[j + 1])
    <3>1. j < j + 1 /\ \A l \in Places(b) : j < l /\ l < j + 1 => v \notin Defs(InstsOf(b)[l])
      BY <1>0
    <3> QED
      BY <2>2, <2>3, <3>1 DEF Needed
  <2>4. CASE v \notin Uses(InstsOf(b)[j + 1])
    <3>1. v \in live[<<b, j + 1>>] /\ v \notin Defs(InstsOf(b)[j + 1])
      BY <1>2, <2>1, <2>2, <2>4
    <3>2. Needed(b, j + 1, v)
      BY <2>2, <3>1 DEF AllNeeded
    <3>3. ASSUME NEW k \in Places(b), j + 1 < k, v \in Uses(InstsOf(b)[k]),
                 \A l \in Places(b) : j + 1 < l /\ l < k => v \notin Defs(InstsOf(b)[l])
          PROVE  Needed(b, j, v)
      <4>1. j < k /\ \A l \in Places(b) : j < l /\ l < k => v \notin Defs(InstsOf(b)[l])
        BY <1>0, <3>1, <3>3
      <4> QED
        BY <3>3, <4>1 DEF Needed
    <3>4. ASSUME v \in live_out[b], \A l \in Places(b) : j + 1 < l => v \notin Defs(InstsOf(b)[l])
          PROVE  Needed(b, j, v)
      <4>1. \A l \in Places(b) : j < l => v \notin Defs(InstsOf(b)[l])
        BY <1>0, <3>1, <3>4
      <4> QED
        BY <3>4, <4>1 DEF Needed
    <3> QED
      BY <3>2, <3>3, <3>4 DEF Needed
  <2> QED
    BY <2>3, <2>4
<1>4. CASE ~(j < Len(InstsOf(b)))
  <2>1. PICK c \in Lowered.succ[b] : q = <<c, 1>>
    BY <1>2, <1>4 DEF InstSucc, InstsOf
  <2>2. c \in LBlocks /\ 1 \in Places(c) /\ InstAt(Lowered, q) = InstsOf(c)[1]
    BY <1>0, <2>1, BlockFacts DEF InstAt, InstsOf
  <2>3. v \in Uses(InstsOf(c)[1]) \/ (Needed(c, 1, v) /\ v \notin Defs(InstsOf(c)[1]))
    BY <1>2, <2>1, <2>2 DEF AllNeeded
  <2>4. v \in live_in[c]
    BY <2>2, <2>3, LiveIntoBlock
  <2>5. v \in live_out[b]
    BY <2>1, <2>4 DEF Solved
  <2>6. \A l \in Places(b) : ~(j < l)
    BY <1>0, <1>4
  <2> QED
    BY <2>5, <2>6 DEF Needed
<1> QED
  BY <1>3, <1>4

(* The allocator's sets have all that is live by definition.               *)
LEMMA LiveAfterNeeded ==
  ASSUME LiveOK
  PROVE  AllNeeded(LiveAfter(Lowered))
<1> WellFormed(Lowered)
  BY DEF LiveOK
<1>1. PICK n \in Nat : \E W :
            /\ LiveAfter(Lowered) = W[n]
            /\ W[0] = [p \in Positions(Lowered) |-> {}]
            /\ \A k \in 1..n : W[k] = StepBack(Lowered, W[k-1])
  BY LiveStages
<1>2. PICK W :
            /\ LiveAfter(Lowered) = W[n]
            /\ W[0] = [p \in Positions(Lowered) |-> {}]
            /\ \A k \in 1..n : W[k] = StepBack(Lowered, W[k-1])
  BY <1>1
<1> DEFINE Bad == {k \in 0..n : ~AllNeeded(W[k])}
<1>3. SUFFICES ASSUME n \in Bad
               PROVE  FALSE
  BY <1>2
<1>4. PICK k \in Bad : \A y \in Bad : k <= y
  <2>1. Bad \in SUBSET Nat /\ Bad # {}
    BY <1>3
  <2> HIDE DEF Bad
  <2> QED
    BY <2>1, NatMin
<1>5. k \in 0..n /\ ~AllNeeded(W[k])
  BY <1>4
<1>6. k # 0
  <2>1. \A b \in LBlocks : \A j \in Places(b) : W[0][<<b, j>>] = {}
    BY <1>2, PositionFacts DEF LBlocks, Places, InstsOf
  <2>2. AllNeeded(W[0])
    BY <2>1 DEF AllNeeded
  <2> QED
    BY <1>5, <2>2
<1>7. k - 1 \in 0..n /\ k \in 1..n /\ ~(k <= k - 1)
  BY <1>5, <1>6
<1>8. AllNeeded(W[k-1])
  BY <1>4, <1>7
<1> QED
  BY <1>2, <1>5, <1>7, <1>8, NeededStep

-----------------------------------------------------------------------------
(* Intervals contain every place at which their value is needed.           *)

LEMMA NeededSpans ==
  ASSUME LiveOK, NEW b \in LBlocks, NEW j \in Places(b), NEW v, Needed(b, j, v),
         \A w \in LVregs : Spans(w)
  PROVE  /\ v \in LVregs
         /\ interval[v].start <= Index(Lowered, <<b, j>>)
         /\ Index(Lowered, <<b, j>>) <= interval[v].end
         /\ InstsOf(b)[j].op = "CALL" => Index(Lowered, <<b, j>>) < interval[v].end
<1> WellFormed(Lowered) /\ Solved(b)
  BY DEF LiveOK
<1> DEFINE s == blk_start(Lowered, b)
           n == Len(InstsOf(b))
           lo == interval[v].start
           hi == interval[v].end
           at(k) == Index(Lowered, <<b, k>>)
<1>1. /\ n \in Nat \ {0} /\ Places(b) = 1..n
      /\ s \in Nat /\ blk_end(Lowered, b) = s + n - 1
      /\ \A k \in 1..n : at(k) = s + k - 1
  BY BlockFacts, IndexFacts DEF LBlocks, Places, InstsOf
<1>2. \A k \in 1..n : /\ <<b, k>> \in Positions(Lowered)
                      /\ InstAt(Lowered, <<b, k>>) = InstsOf(b)[k]
  BY <1>1, PositionFacts DEF LBlocks, Places, InstsOf
<1>3. live_in[b] = use_gen(Lowered, b) \cup (live_out[b] \ def_kill(Lowered, b))
  BY DEF Solved
<1>4. v \in LVregs
  <2>1. live_out[b] \subseteq LVregs
    BY DEF LiveOK
  <2> QED
    BY <2>1, BlockFacts DEF Needed
<1>5. Reaches(interval[v], v)
  BY <1>4 DEF Spans
<1>6. lo \in Nat /\ hi \in Nat
  BY <1>5 DEF Reaches
<1>7. \A k \in 1..n : v \in Uses(InstsOf(b)[k]) \cup Defs(InstsOf(b)[k]) => lo <= at(k) /\ at(k) <= hi
  BY <1>2, <1>5 DEF Reaches
<1>8. v \in live_in[b] => lo <= s
  BY <1>5 DEF Reaches
<1>9. v \in live_in[b] \/ \E k \in 1..n : k <= j /\ v \in Defs(InstsOf(b)[k])
  <2> SUFFICES ASSUME \A k \in 1..n : k <= j => v \notin Defs(InstsOf(b)[k])
               PROVE  v \in live_in[b]
    OBVIOUS
  <2>1. ASSUME NEW k \in Places(b), j < k, v \in Uses(InstsOf(b)[k]),
               \A l \in Places(b) : j < l /\ l < k => v \notin Defs(InstsOf(b)[l])
        PROVE  v \in live_in[b]
    <3>1. \A l \in 1 .. k-1 : v \notin Defs(InstsOf(b)[l])
      BY <1>1, <2>1
    <3>2. v \in use_gen(Lowered, b)
      BY <1>4, <2>1, <3>1, BlockFacts
    <3> QED
      BY <1>3, <3>2
  <2>2. ASSUME v \in live_out[b], \A l \in Places(b) : j < l => v \notin Defs(InstsOf(b)[l])
        PROVE  v \in live_in[b]
    <3>1. \A l \in Places(b) : v \notin Defs(InstsOf(b)[l])
      BY <1>1, <2>2
    <3>2. v \notin def_kill(Lowered, b)
      BY <3>1, BlockFacts
    <3> QED
      BY <1>3, <2>2, <3>2
  <2> QED
    BY <2>1, <2>2 DEF Needed
<1>10. v \in live_out[b] => s + n - 1 <= hi
  <2>1. v \in live_in[b] \cup def_kill(Lowered, b)
    BY <1>1, <1>9, BlockFacts
  <2> QED
    BY <1>1, <1>5, <2>1 DEF Reaches
<1>11. (\E k \in 1..n : j < k /\ v \in Uses(InstsOf(b)[k])) \/ v \in live_out[b]
  BY <1>1 DEF Needed
<1>12. InstsOf(b)[j].op = "CALL" => j # n
  BY BlockFacts
<1> HIDE DEF lo, hi, s, n, at
<1>13. lo <= at(j)
  <2>1. CASE v \in live_in[b]
    BY <1>1, <1>6, <1>8, <2>1
  <2>2. ASSUME NEW k \in 1..n, k <= j, v \in Defs(InstsOf(b)[k])
        PROVE  lo <= at(j)
    BY <1>1, <1>6, <1>7, <2>2
  <2> QED
    BY <1>9, <2>1, <2>2
<1>14. at(j) <= hi /\ (j # n => at(j) < hi)
  <2>1. CASE v \in live_out[b]
    BY <1>1, <1>6, <1>10, <2>1
  <2>2. ASSUME NEW k \in 1..n, j < k, v \in Uses(InstsOf(b)[k])
        PROVE  at(j) < hi
    BY <1>1, <1>6, <1>7, <2>2
  <2>3. at(j) \in Nat
    BY <1>1
  <2> QED
    BY <1>6, <1>11, <2>1, <2>2, <2>3
<1> QED
  BY <1>4, <1>12, <1>13, <1>14 DEF lo, hi, at

(* BuildIntervals makes such intervals.                                    *)
LEMMA IntervalReaches ==
  ASSUME WellFormed(Lowered), mfn = Lowered, NEW v \in LVregs
  PROVE  Reaches(IntervalOf(v), v)
<1> DEFINE m == Lowered
           occ == Occurrences(m, v)
           ins == {blk_start(m, b) : b \in {c \in LBlocks : v \in live_in[c]}}
           outs == {blk_end(m, b) : b \in {c \in LBlocks : v \in live_out[c]}}
           par == IF v \in ToSet(m.params) THEN {1} ELSE {}
           from == occ \cup ins \cup par
           to == occ \cup ins \cup outs \cup {1}
           Full == [start |-> Min(from), end |-> Max(to),
                    crosses_call |-> \E c \in call_sites(m) : Min(from) < c /\ c < Max(to)]
<1>1. IntervalOf(v) = IF from = {} THEN NoInterval ELSE Full
  BY DEF IntervalOf, Blocks, LBlocks
<1>2. \A p \in Positions(m) : Index(m, p) \in Nat /\ Index(m, p) >= 1
  <2> TAKE p \in Positions(m)
  <2>1. PICK b \in LBlocks : \E j \in Places(b) : p = <<b, j>>
    BY PositionFacts DEF LBlocks, Places, InstsOf
  <2>2. PICK j \in Places(b) : p = <<b, j>>
    BY <2>1
  <2> DEFINE s == blk_start(m, b)
  <2>3. s \in Nat /\ s >= 1 /\ Index(m, p) = s + j - 1 /\ j \in Nat /\ j >= 1
    BY <2>2, BlockFacts, IndexFacts DEF LBlocks, Places, InstsOf
  <2> HIDE DEF s
  <2> QED
    BY <2>3
<1>3. ASSUME NEW b \in LBlocks
      PROVE  /\ blk_start(m, b) \in Nat /\ blk_start(m, b) >= 1
             /\ blk_end(m, b) \in Nat
  <2> DEFINE s == blk_start(m, b)
             n == Len(InstsOf(b))
  <2>1. s \in Nat /\ s >= 1 /\ blk_end(m, b) = s + n - 1 /\ n \in Nat \ {0}
    BY BlockFacts, IndexFacts DEF LBlocks, Places, InstsOf
  <2> HIDE DEF s, n
  <2>2. s + n - 1 \in Nat
    BY <2>1
  <2> QED
    BY <2>1, <2>2 DEF s
<1>4. IsFiniteSet(to)
  <2> DEFINE f == [p \in Positions(m) |-> Index(m, p)]
             g == [b \in LBlocks |-> blk_start(m, b)]
             h == [b \in LBlocks |-> blk_end(m, b)]
             F == {f[p] : p \in Positions(m)}
             G == {g[b] : b \in LBlocks}
             H == {h[b] : b \in LBlocks}
  <2>1. IsFiniteSet(LBlocks)
    <3> DEFINE l == Len(Lowered.blocks)
    <3>1. l \in Nat /\ LBlocks = 1..l
      BY DEF LBlocks, WellFormed
    <3> HIDE DEF l
    <3> QED
      BY <3>1, FS_Interval
  <2>2. IsFiniteSet(Positions(m))
    BY PositionsFinite
  <2>3. IsFiniteSet(F)
    <3>1. DOMAIN f = Positions(m)
      OBVIOUS
    <3> HIDE DEF f
    <3> QED
      BY <2>2, <3>1, ImageFinite
  <2>4. IsFiniteSet(G)
    <3>1. DOMAIN g = LBlocks
      OBVIOUS
    <3> HIDE DEF g
    <3> QED
      BY <2>1, <3>1, ImageFinite
  <2>5. IsFiniteSet(H)
    <3>1. DOMAIN h = LBlocks
      OBVIOUS
    <3> HIDE DEF h
    <3> QED
      BY <2>1, <3>1, ImageFinite
  <2>6. to \subseteq (F \cup G) \cup (H \cup {1})
    BY DEF Occurrences
  <2>7. IsFiniteSet({1})
    BY FS_Singleton
  <2> HIDE DEF F, G, H, to
  <2> DEFINE A == F \cup G
             B == H \cup {1}
  <2>8. IsFiniteSet(A) /\ IsFiniteSet(B)
    BY <2>3, <2>4, <2>5, <2>7, FS_Union
  <2>9. to \subseteq A \cup B
    BY <2>6
  <2> HIDE DEF A, B
  <2>10. IsFiniteSet(A \cup B)
    BY <2>8, FS_Union
  <2> QED
    BY <2>9, <2>10, FS_Subset
<1>5. to \subseteq Nat /\ from \subseteq Nat /\ \A x \in from : x >= 1
  BY <1>2, <1>3 DEF Occurrences
<1>6. 1 \in to /\ Max(to) \in Nat /\ \A x \in to : x <= Max(to)
  <2>1. 1 \in to
    OBVIOUS
  <2> HIDE DEF to
  <2> QED
    BY <1>4, <1>5, <2>1, MaxFacts
<1>7. from # {} => Min(from) \in from /\ \A x \in from : Min(from) <= x
  <2> HIDE DEF from
  <2> QED
    BY <1>5, MinFacts
<1>8. \A p \in Positions(m) : v \in Uses(InstAt(m, p)) \cup Defs(InstAt(m, p)) =>
         Index(m, p) \in occ
  BY DEF Occurrences
<1>9. \A b \in LBlocks : v \in def_kill(m, b) => occ # {}
  <2> TAKE b \in LBlocks
  <2> HAVE v \in def_kill(m, b)
  <2>1. PICK j \in Places(b) : v \in Defs(InstsOf(b)[j])
    BY BlockFacts
  <2>2. <<b, j>> \in Positions(m) /\ InstAt(m, <<b, j>>) = InstsOf(b)[j]
    BY PositionFacts DEF LBlocks, Places, InstsOf
  <2> QED
    BY <1>8, <2>1, <2>2
<1>10. CASE from = {}
  <2>1. IntervalOf(v) = NoInterval
    BY <1>1, <1>10
  <2>2. /\ NoInterval.start = 1 /\ NoInterval.end = 1
    BY DEF NoInterval
  <2>3. /\ occ = {} /\ v \notin ToSet(m.params)
        /\ \A b \in LBlocks : v \notin live_in[b]
    BY <1>10
  <2>4. \A c : ~(1 < c /\ c < 1) \/ c \notin Nat
    OBVIOUS
  <2>5. call_sites(m) \subseteq Nat
    BY <1>2 DEF call_sites
  <2> HIDE DEF occ
  <2> QED
    BY <1>8, <1>9, <2>1, <2>2, <2>3, <2>4, <2>5 DEF Reaches
<1>11. CASE from # {}
  <2> DEFINE lo == Min(from)
             hi == Max(to)
             iv == IntervalOf(v)
  <2>1. /\ iv.start = lo /\ iv.end = hi
        /\ iv.crosses_call = (\E c \in call_sites(m) : lo < c /\ c < hi)
    <3> HIDE DEF from, to
    <3>1. iv = Full
      BY <1>1, <1>11
    <3> DEFINE x == \E c \in call_sites(m) : Min(from) < c /\ c < Max(to)
    <3>2. Full = [start |-> lo, end |-> hi, crosses_call |-> x]
      OBVIOUS
    <3> HIDE DEF x, lo, hi, iv, Full
    <3>3. iv.start = lo /\ iv.end = hi /\ iv.crosses_call = x
      BY <3>1, <3>2
    <3> QED
      BY <3>3 DEF x, lo, hi
  <2>2. lo \in from /\ (\A x \in from : lo <= x) /\ hi \in Nat /\ (\A x \in to : x <= hi)
    BY <1>6, <1>7, <1>11
  <2>3. lo \in Nat /\ lo >= 1 /\ 1 <= hi
    BY <1>5, <1>6, <2>2
  <2> HIDE DEF lo, hi, iv
  <2>4. \A p \in Positions(m) : v \in Uses(InstAt(m, p)) \cup Defs(InstAt(m, p)) =>
           lo <= Index(m, p) /\ Index(m, p) <= hi
    <3> HIDE DEF occ
    <3> QED
      BY <1>8, <2>2
  <2>5. \A b \in LBlocks : v \in live_in[b] => lo <= blk_start(m, b)
    <3> HIDE DEF occ
    <3> QED
      BY <2>2
  <2>6. \A b \in LBlocks : v \in live_out[b] => blk_end(m, b) <= hi
    <3> HIDE DEF occ
    <3> QED
      BY <2>2
  <2>7. v \in ToSet(m.params) => lo = 1
    <3>1. v \in ToSet(m.params) => 1 \in from
      OBVIOUS
    <3> HIDE DEF from
    <3> QED
      BY <2>2, <2>3, <3>1
  <2> HIDE DEF from, to
  <2>8. \A c \in call_sites(m) : lo < c /\ c < hi => iv.crosses_call
    BY <2>1
  <2> QED
    BY <2>1, <2>2, <2>3, <2>4, <2>5, <2>6, <2>7, <2>8 DEF Reaches, iv
<1> QED
  BY <1>10, <1>11

-----------------------------------------------------------------------------
(* The steps of a compilation.                                             *)

LEMMA LoweredIsWellFormed ==
  ASSUME \E in \in Inputs : fn = in.fn, Supported(fn)
  PROVE  WellFormed(Lowered)
  BY LoweringAssumption DEF Lowered

(* The function and what lowering makes of it stay the same.               *)
LEMMA SameFunction ==
  ASSUME [BackendNext]_beVars
  PROVE  /\ fn' = fn /\ target' = target
         /\ Lowered' = Lowered /\ LVregs' = LVregs /\ LBlocks' = LBlocks
<1>1. fn' = fn /\ target' = target
  BY DEF BackendNext, AllocNext, LowerToMir, LiveTurn, LiveRound, BuildIntervals, ScanInterval,
     Rewrite, Select, Finished, beVars, vars
<1> QED
  BY <1>1 DEF Lowered, LVregs, LBlocks

LEMMA MachineStep == MachineInv /\ [BackendNext]_beVars => MachineInv'
<1> SUFFICES ASSUME MachineInv, [BackendNext]_beVars
             PROVE  MachineInv'
  OBVIOUS
<1>1. /\ fn' = fn /\ target' = target /\ Lowered' = Lowered
      /\ \E in \in Inputs : fn = in.fn /\ target = in.target
  BY SameFunction DEF MachineInv
<1>2. CASE LowerToMir
  BY <1>1, <1>2 DEF LowerToMir, MachineInv, Lowered
<1>3. CASE LiveTurn \/ LiveRound \/ BuildIntervals \/ ScanInterval
  BY <1>1, <1>3 DEF LiveTurn, LiveRound, BuildIntervals, ScanInterval, MachineInv
<1>4. CASE Rewrite \/ Select
  BY <1>1, <1>4 DEF Rewrite, Select, MachineInv
<1>5. CASE Finished \/ UNCHANGED beVars
  BY <1>1, <1>5 DEF Finished, beVars, vars, MachineInv
<1> QED
  BY <1>2, <1>3, <1>4, <1>5 DEF BackendNext, AllocNext

(* A step that leaves liveness alone.                                      *)
LEMMA SolvedKept ==
  ASSUME Lowered' = Lowered, live_in' = live_in, live_out' = live_out, NEW b, Solved(b)
  PROVE  Solved(b)'
  BY DEF Solved, use_gen, def_kill

LEMMA LiveTurnStep ==
  ASSUME MachineInv, LiveInv, LiveTurn, Lowered' = Lowered, WellFormed(Lowered)
  PROVE  /\ live_in' \in [LBlocks -> SUBSET LVregs] /\ live_out' \in [LBlocks -> SUBSET LVregs]
         /\ block' \in 0 .. Len(Lowered.blocks)
         /\ changed' \/ \A b \in LBlocks : b > block' => Solved(b)'
<1>1. /\ mfn = Lowered /\ block > 0 /\ block \in 0 .. Len(Lowered.blocks)
      /\ live_in \in [LBlocks -> SUBSET LVregs] /\ live_out \in [LBlocks -> SUBSET LVregs]
      /\ changed \/ \A b \in LBlocks : b > block => Solved(b)
  BY DEF LiveTurn, MachineInv, LiveInv
<1>2. LBlocks = 1 .. Len(Lowered.blocks) /\ Len(Lowered.blocks) \in Nat
  BY DEF WellFormed, LBlocks
<1>3. block \in LBlocks /\ block' = block - 1 /\ block' \in 0 .. Len(Lowered.blocks)
  BY <1>1, <1>2 DEF LiveTurn
<1> DEFINE into == UNION {live_in[s] : s \in Lowered.succ[block]}
           out == live_out[block] \cup into
           in == use_gen(Lowered, block) \cup (out \ def_kill(Lowered, block))
<1>4. Lowered.succ[block] \subseteq LBlocks /\ use_gen(Lowered, block) \subseteq LVregs
  BY <1>3, BlockFacts
<1>5. out \subseteq LVregs /\ in \subseteq LVregs
  BY <1>1, <1>3, <1>4
<1>6. /\ live_out' = [live_out EXCEPT ![block] = out]
      /\ live_in' = [live_in EXCEPT ![block] = in]
      /\ changed' = (changed \/ live_in' # live_in)
  BY <1>1, <1>3 DEF LiveTurn
<1>7. live_in' \in [LBlocks -> SUBSET LVregs] /\ live_out' \in [LBlocks -> SUBSET LVregs]
  <2> HIDE DEF out, in
  <2> QED
    BY <1>1, <1>3, <1>5, <1>6
<1>8. ASSUME ~changed', NEW b \in LBlocks, b > block'
      PROVE  Solved(b)'
  <2>1. live_in' = live_in /\ \A c \in LBlocks : c > block => Solved(c)
    BY <1>1, <1>6, <1>8
  <2>2. CASE b = block
    <3>1. /\ live_out'[b] = out /\ live_in'[b] = in
      BY <1>1, <1>3, <1>6, <2>2
    <3>2. \A s \in Lowered'.succ[b] : live_in'[s] \subseteq live_out'[b]
      BY <2>1, <2>2, <3>1
    <3>3. live_in'[b] = use_gen(Lowered, b) \cup (live_out'[b] \ def_kill(Lowered, b))
      BY <2>2, <3>1
    <3> QED
      BY <3>2, <3>3 DEF Solved, use_gen, def_kill
  <2>3. CASE b # block
    <3>1. b > block
      BY <1>2, <1>3, <1>8, <2>3
    <3>2. live_out'[b] = live_out[b]
      <4> HIDE DEF out
      <4> QED
        BY <1>1, <1>3, <1>6, <2>3
    <3>3. Solved(b)
      BY <2>1, <3>1
    <3> QED
      BY <2>1, <3>2, <3>3 DEF Solved, use_gen, def_kill
  <2> QED
    BY <2>2, <2>3
<1> QED
  BY <1>3, <1>7, <1>8

LEMMA LiveStep == MachineInv /\ LiveInv /\ [BackendNext]_beVars => LiveInv'
<1> SUFFICES ASSUME MachineInv, LiveInv, [BackendNext]_beVars
             PROVE  LiveInv'
  OBVIOUS
<1>1. /\ Lowered' = Lowered /\ LVregs' = LVregs /\ LBlocks' = LBlocks
  BY SameFunction
<1>2. Supported(fn) => WellFormed(Lowered)
  BY LoweredIsWellFormed DEF MachineInv
<1>3. CASE LowerToMir
  <2>1. CASE ~Supported(fn)
    BY <1>3, <2>1 DEF LowerToMir, LiveInv
  <2>2. CASE Supported(fn)
    <3>1. /\ phase' = "live" /\ block' = Len(Lowered.blocks)
          /\ live_in' = [b \in LBlocks |-> {}] /\ live_out' = [b \in LBlocks |-> {}]
      BY <1>3, <2>2 DEF LowerToMir, Lowered, LBlocks
    <3>2. LBlocks = 1 .. Len(Lowered.blocks) /\ Len(Lowered.blocks) \in Nat
      BY <1>2, <2>2 DEF WellFormed, LBlocks
    <3> QED
      BY <1>1, <3>1, <3>2 DEF LiveInv
  <2> QED
    BY <2>1, <2>2
<1>4. CASE LiveTurn
  <2>1. phase' = "live" /\ WellFormed(Lowered)
    BY <1>2, <1>4 DEF LiveTurn, MachineInv
  <2> QED
    BY <1>1, <1>4, <2>1, LiveTurnStep DEF LiveInv
<1>5. CASE LiveRound
  <2>1. /\ phase = "live" /\ block = 0 /\ WellFormed(Lowered) /\ mfn = Lowered
        /\ live_in' = live_in /\ live_out' = live_out
    BY <1>2, <1>5 DEF LiveRound, MachineInv
  <2>2. LBlocks = 1 .. Len(Lowered.blocks) /\ Len(Lowered.blocks) \in Nat
    BY <2>1 DEF WellFormed, LBlocks
  <2>3. CASE changed
    BY <1>1, <1>5, <2>1, <2>2, <2>3 DEF LiveRound, LiveInv
  <2>4. CASE ~changed
    <3>1. \A b \in LBlocks : Solved(b)
      BY <2>1, <2>2, <2>4 DEF LiveInv
    <3>2. \A b \in LBlocks : Solved(b)'
      BY <1>1, <2>1, <3>1, SolvedKept
    <3> QED
      BY <1>1, <1>5, <2>1, <2>4, <3>2 DEF LiveRound, LiveInv
  <2> QED
    BY <2>3, <2>4
<1>6. CASE BuildIntervals \/ ScanInterval \/ Rewrite \/ Select
  <2>1. /\ live_in' = live_in /\ live_out' = live_out
        /\ phase \in {"intervals", "scan", "select", "done"} /\ phase' \in {"scan", "select", "done"}
    BY <1>6 DEF BuildIntervals, ScanInterval, Rewrite, Select
  <2>2. \A b \in LBlocks : Solved(b)'
    BY <1>1, <2>1, SolvedKept DEF LiveInv
  <2> QED
    BY <1>1, <2>1, <2>2 DEF LiveInv
<1>7. CASE Finished \/ UNCHANGED beVars
  <2>1. /\ live_in' = live_in /\ live_out' = live_out /\ phase' = phase
        /\ block' = block /\ changed' = changed
    BY <1>7 DEF Finished, beVars, vars
  <2>2. \A b \in LBlocks : Solved(b) => Solved(b)'
    BY <1>1, <2>1, SolvedKept
  <2> QED
    BY <1>1, <2>1, <2>2 DEF LiveInv
<1> QED
  BY <1>3, <1>4, <1>5, <1>6, <1>7 DEF BackendNext, AllocNext


LEMMA ReachesKept ==
  ASSUME Lowered' = Lowered, live_in' = live_in, live_out' = live_out,
         NEW v, NEW iv, Reaches(iv, v), interval'[v] = iv
  PROVE  Spans(v)'
<1>1. /\ Positions(Lowered)' = Positions(Lowered) /\ LBlocks' = LBlocks
      /\ \A p : InstAt(Lowered, p)' = InstAt(Lowered, p)
      /\ \A b : def_kill(Lowered, b)' = def_kill(Lowered, b)
  BY DEF Positions, LBlocks, InstAt, def_kill
<1>2. \A b : blk_start(Lowered, b)' = blk_start(Lowered, b)
  BY <1>1 DEF blk_start
<1>3. /\ \A p : Index(Lowered, p)' = Index(Lowered, p)
      /\ \A b : blk_end(Lowered, b)' = blk_end(Lowered, b)
  BY <1>2 DEF Index, blk_end
<1>4. call_sites(Lowered)' = call_sites(Lowered)
  BY <1>1, <1>3 DEF call_sites
<1> QED
  BY <1>1, <1>2, <1>3, <1>4 DEF Spans, Reaches

LEMMA IntervalStep == MachineInv /\ IntervalInv /\ [BackendNext]_beVars => IntervalInv'
<1> SUFFICES ASSUME MachineInv, IntervalInv, [BackendNext]_beVars,
                    phase' \in {"scan", "select", "done"}
             PROVE  \A v \in LVregs : Spans(v)'
  BY SameFunction DEF IntervalInv
<1>1. Lowered' = Lowered
  BY SameFunction
<1>2. CASE BuildIntervals
  <2>1. /\ phase = "intervals" /\ mfn = Lowered /\ WellFormed(Lowered)
        /\ live_in' = live_in /\ live_out' = live_out
        /\ interval' = [v \in LVregs |-> IntervalOf(v)]
    BY <1>2, LoweredIsWellFormed DEF BuildIntervals, MachineInv, Vregs, LVregs
  <2>2. \A v \in LVregs : Reaches(IntervalOf(v), v) /\ interval'[v] = IntervalOf(v)
    BY <2>1, IntervalReaches
  <2> QED
    BY <1>1, <2>1, <2>2, ReachesKept
<1>3. CASE ~BuildIntervals
  <2>1. /\ live_in' = live_in /\ live_out' = live_out /\ interval' = interval
        /\ phase \in {"scan", "select", "done"}
    BY <1>3 DEF BackendNext, AllocNext, LowerToMir, LiveTurn, LiveRound, ScanInterval,
       Rewrite, Select, Finished, beVars, vars
  <2>2. \A v \in LVregs : Reaches(interval[v], v)
    BY <2>1 DEF IntervalInv, Spans
  <2> QED
    BY <1>1, <2>1, <2>2, ReachesKept
<1> QED
  BY <1>2, <1>3

-----------------------------------------------------------------------------
(* The scan.                                                               *)

(* The candidates for a value across a call are callee-saved.              *)
LEMMA CandidateFacts ==
  ASSUME NEW cur, interval[cur].crosses_call, NEW k \in DOMAIN Candidates(cur)
  PROVE  Candidates(cur)[k] \in CalleeSaved(target)
  BY DEF Candidates, CalleeSaved, ToSet

(* The intervals that hold no register any more end before the one the     *)
(* scan has come to, and those that do have none of the free ones.         *)
LEMMA ScanFacts ==
  ASSUME ScanOK, \A v \in LVregs : Spans(v),
         NEW cur \in waiting, \A v \in waiting \ {cur} : StartsBefore(cur, v)
  PROVE  /\ cur \in LVregs /\ cur \notin Scanned /\ Kept(cur) \subseteq active
         /\ \A v \in Scanned \ Kept(cur) : InRegister(v) =>
               /\ interval[v].end < interval[cur].start
               /\ \A w \in waiting : interval[v].end < interval[w].start
         /\ \A v \in Kept(cur) : assigned[v] \notin Avail(cur)
<1>1. /\ waiting \subseteq LVregs /\ active \subseteq Scanned /\ cur \in LVregs /\ cur \notin Scanned
      /\ Kept(cur) \subseteq active
  BY DEF ScanOK, Scanned, Kept
<1>2. \A v \in LVregs : interval[v].start \in Nat /\ interval[v].end \in Nat
  BY DEF Spans, Reaches
<1>3. \A w \in waiting : interval[cur].start <= interval[w].start
  BY <1>1, <1>2 DEF StartsBefore
<1>4. ASSUME NEW v \in Scanned \ Kept(cur), InRegister(v)
      PROVE  /\ interval[v].end < interval[cur].start
             /\ \A w \in waiting : interval[v].end < interval[w].start
  <2>1. CASE v \in active
    <3>1. interval[v].end < interval[cur].start
      BY <1>4, <2>1 DEF Kept, Expired
    <3>2. v \in LVregs
      BY <1>4 DEF Scanned
    <3> QED
      BY <1>1, <1>2, <1>3, <3>1, <3>2
  <2>2. CASE v \notin active
    BY <1>4, <2>2 DEF ScanOK
  <2> QED
    BY <2>1, <2>2
<1>5. ASSUME NEW v \in Kept(cur)
      PROVE  assigned[v] \notin Avail(cur)
  BY <1>1 DEF ScanOK, Avail
<1> QED
  BY <1>1, <1>4, <1>5

LEMMA TakeStep ==
  ASSUME ScanOK, \A v \in LVregs : Spans(v),
         NEW cur \in waiting, \A v \in waiting \ {cur} : StartsBefore(cur, v),
         waiting' = waiting \ {cur}, interval' = interval, target' = target, LVregs' = LVregs,
         TakeFree(cur)
  PROVE  ScanOK'
<1>1. /\ cur \in LVregs /\ cur \notin Scanned /\ Kept(cur) \subseteq active
      /\ \A v \in Scanned \ Kept(cur) : InRegister(v) =>
            /\ interval[v].end < interval[cur].start
            /\ \A w \in waiting : interval[v].end < interval[w].start
      /\ \A v \in Kept(cur) : assigned[v] \notin Avail(cur)
  BY ScanFacts
<1>2. PICK k \in DOMAIN Candidates(cur) :
         /\ Candidates(cur)[k] \in Avail(cur)
         /\ assigned' = [assigned EXCEPT ![cur] = Candidates(cur)[k]]
         /\ free' = Avail(cur) \ {Candidates(cur)[k]}
         /\ active' = Kept(cur) \cup {cur}
  BY DEF TakeFree, FirstFree
<1> DEFINE r == Candidates(cur)[k]
<1>3. interval[cur].crosses_call => r \in CalleeSaved(target)
  BY CandidateFacts
<1> HIDE DEF r
<1>4. /\ waiting \subseteq LVregs /\ active \subseteq Scanned /\ DOMAIN assigned = LVregs
      /\ \A v, w \in active : v # w => assigned[v] # assigned[w]
      /\ \A v, w \in Scanned :
            v # w /\ InRegister(v) /\ assigned[v] = assigned[w] => Apart(v, w)
      /\ \A v \in Scanned : InRegister(v) /\ interval[v].crosses_call =>
            assigned[v] \in CalleeSaved(target)
  BY DEF ScanOK
<1>5. /\ r \in Avail(cur) /\ free' = Avail(cur) \ {r} /\ active' = Kept(cur) \cup {cur}
      /\ DOMAIN assigned' = LVregs /\ assigned'[cur] = r
      /\ \A v \in LVregs \ {cur} : assigned'[v] = assigned[v]
      /\ Scanned' = Scanned \cup {cur} /\ Scanned \subseteq LVregs \ {cur}
  BY <1>1, <1>2, <1>4 DEF r, Scanned
<1>6. \A v \in Scanned : InRegister(v)' <=> InRegister(v)
  BY <1>5 DEF InRegister
<1>7. \A v, w : Apart(v, w)' <=> Apart(v, w)
  BY DEF Apart
<1>8. \A v \in active' : assigned'[v] \notin free'
  BY <1>1, <1>4, <1>5
<1>9. \A v, w \in active' : v # w => assigned'[v] # assigned'[w]
  BY <1>1, <1>4, <1>5
<1>10. \A v \in Scanned' \ active' : InRegister(v)' =>
          \A w \in waiting' : interval[v].end < interval[w].start
  BY <1>1, <1>5, <1>6
<1>11. ASSUME NEW w \in Scanned, InRegister(w), assigned[w] = r
       PROVE  Apart(cur, w) /\ Apart(w, cur)
  BY <1>1, <1>5, <1>11 DEF Apart
<1>12. ASSUME NEW v \in Scanned', NEW w \in Scanned', v # w, InRegister(v)',
              assigned'[v] = assigned'[w]
       PROVE  Apart(v, w)
  <2>1. InRegister(w)'
    BY <1>12 DEF InRegister
  <2>2. CASE v = cur
    BY <1>5, <1>6, <1>11, <1>12, <2>1, <2>2
  <2>3. CASE w = cur
    BY <1>5, <1>6, <1>11, <1>12, <2>3
  <2>4. CASE v # cur /\ w # cur
    BY <1>4, <1>5, <1>6, <1>12, <2>4
  <2> QED
    BY <2>2, <2>3, <2>4
<1>13. \A v \in Scanned' : InRegister(v)' /\ interval[v].crosses_call =>
          assigned'[v] \in CalleeSaved(target)
  BY <1>3, <1>4, <1>5, <1>6
<1> QED
  BY <1>1, <1>4, <1>5, <1>7, <1>8, <1>9, <1>10, <1>12, <1>13 DEF ScanOK, CalleeSaved

LEMMA EvictStep ==
  ASSUME ScanOK, \A v \in LVregs : Spans(v),
         NEW cur \in waiting, \A v \in waiting \ {cur} : StartsBefore(cur, v),
         waiting' = waiting \ {cur}, interval' = interval, target' = target, LVregs' = LVregs,
         Evict(cur)
  PROVE  ScanOK'
<1>1. /\ cur \in LVregs /\ cur \notin Scanned /\ Kept(cur) \subseteq active
      /\ \A v \in Scanned \ Kept(cur) : InRegister(v) =>
            /\ interval[v].end < interval[cur].start
            /\ \A w \in waiting : interval[v].end < interval[w].start
      /\ \A v \in Kept(cur) : assigned[v] \notin Avail(cur)
  BY ScanFacts
<1>2. PICK x \in Victims(cur) :
         /\ assigned' = [assigned EXCEPT ![cur] = assigned[x], ![x] = "spilled"]
         /\ active' = (Kept(cur) \ {x}) \cup {cur}
  BY DEF Evict
<1>3. /\ x \in Kept(cur)
      /\ interval[cur].crosses_call => assigned[x] \in CalleeSaved(target)
  BY DEF Victims, MayEvict
<1>4. /\ waiting \subseteq LVregs /\ active \subseteq Scanned /\ DOMAIN assigned = LVregs
      /\ \A v, w \in active : v # w => assigned[v] # assigned[w]
      /\ \A v, w \in Scanned :
            v # w /\ InRegister(v) /\ assigned[v] = assigned[w] => Apart(v, w)
      /\ \A v \in Scanned : InRegister(v) /\ interval[v].crosses_call =>
            assigned[v] \in CalleeSaved(target)
  BY DEF ScanOK
<1>5. /\ free' = Avail(cur) /\ active' = (Kept(cur) \ {x}) \cup {cur} /\ x # cur /\ x \in Scanned
      /\ DOMAIN assigned' = LVregs /\ assigned'[cur] = assigned[x] /\ assigned'[x] = "spilled"
      /\ \A v \in LVregs \ {cur, x} : assigned'[v] = assigned[v]
      /\ Scanned' = Scanned \cup {cur} /\ Scanned \subseteq LVregs \ {cur}
  BY <1>1, <1>2, <1>3, <1>4 DEF Scanned, Evict
<1>6. \A v \in Scanned \ {x} : InRegister(v)' <=> InRegister(v)
  BY <1>5 DEF InRegister
<1>7. ~InRegister(x)'
  BY <1>5 DEF InRegister
<1>8. \A v, w : Apart(v, w)' <=> Apart(v, w)
  BY DEF Apart
<1>9. \A v \in active' : assigned'[v] \notin free'
  BY <1>1, <1>3, <1>4, <1>5
<1>10. \A v, w \in active' : v # w => assigned'[v] # assigned'[w]
  BY <1>1, <1>3, <1>4, <1>5
<1>11. \A v \in Scanned' \ active' : InRegister(v)' =>
          \A w \in waiting' : interval[v].end < interval[w].start
  BY <1>1, <1>5, <1>6, <1>7
<1>12. ASSUME NEW w \in Scanned \ {x}, InRegister(w), assigned[w] = assigned[x]
       PROVE  Apart(cur, w) /\ Apart(w, cur)
  <2>1. w \notin Kept(cur)
    BY <1>1, <1>3, <1>4, <1>12
  <2> QED
    BY <1>1, <1>12, <2>1 DEF Apart
<1>13. ASSUME NEW v \in Scanned', NEW w \in Scanned', v # w, InRegister(v)',
              assigned'[v] = assigned'[w]
       PROVE  Apart(v, w)
  <2>1. InRegister(w)' /\ v # x /\ w # x
    BY <1>7, <1>13 DEF InRegister
  <2>2. CASE v = cur
    BY <1>5, <1>6, <1>12, <1>13, <2>1, <2>2
  <2>3. CASE w = cur
    BY <1>5, <1>6, <1>12, <1>13, <2>1, <2>3
  <2>4. CASE v # cur /\ w # cur
    BY <1>4, <1>5, <1>6, <1>13, <2>1, <2>4
  <2> QED
    BY <2>2, <2>3, <2>4
<1>14. \A v \in Scanned' : InRegister(v)' /\ interval[v].crosses_call =>
          assigned'[v] \in CalleeSaved(target)
  BY <1>3, <1>4, <1>5, <1>6, <1>7
<1> QED
  BY <1>1, <1>4, <1>5, <1>8, <1>9, <1>10, <1>11, <1>13, <1>14 DEF ScanOK, CalleeSaved

LEMMA SpillStep ==
  ASSUME ScanOK, \A v \in LVregs : Spans(v),
         NEW cur \in waiting, \A v \in waiting \ {cur} : StartsBefore(cur, v),
         waiting' = waiting \ {cur}, interval' = interval, target' = target, LVregs' = LVregs,
         SpillCurrent(cur)
  PROVE  ScanOK'
<1>1. /\ cur \in LVregs /\ cur \notin Scanned /\ Kept(cur) \subseteq active
      /\ \A v \in Scanned \ Kept(cur) : InRegister(v) =>
            /\ interval[v].end < interval[cur].start
            /\ \A w \in waiting : interval[v].end < interval[w].start
      /\ \A v \in Kept(cur) : assigned[v] \notin Avail(cur)
  BY ScanFacts
<1>2. /\ waiting \subseteq LVregs /\ active \subseteq Scanned /\ DOMAIN assigned = LVregs
      /\ \A v, w \in active : v # w => assigned[v] # assigned[w]
      /\ \A v, w \in Scanned :
            v # w /\ InRegister(v) /\ assigned[v] = assigned[w] => Apart(v, w)
      /\ \A v \in Scanned : InRegister(v) /\ interval[v].crosses_call =>
            assigned[v] \in CalleeSaved(target)
  BY DEF ScanOK
<1>3. /\ free' = Avail(cur) /\ active' = Kept(cur)
      /\ DOMAIN assigned' = LVregs /\ assigned'[cur] = "spilled"
      /\ \A v \in LVregs \ {cur} : assigned'[v] = assigned[v]
      /\ Scanned' = Scanned \cup {cur} /\ Scanned \subseteq LVregs \ {cur}
  BY <1>1, <1>2 DEF Scanned, SpillCurrent
<1>4. \A v \in Scanned : InRegister(v)' <=> InRegister(v)
  BY <1>3 DEF InRegister
<1>5. ~InRegister(cur)'
  BY <1>3 DEF InRegister
<1>6. \A v, w : Apart(v, w)' <=> Apart(v, w)
  BY DEF Apart
<1>7. \A v \in Scanned' \ active' : InRegister(v)' =>
          \A w \in waiting' : interval[v].end < interval[w].start
  BY <1>1, <1>3, <1>4, <1>5
<1>8. ASSUME NEW v \in Scanned', NEW w \in Scanned', v # w, InRegister(v)',
             assigned'[v] = assigned'[w]
      PROVE  Apart(v, w)
  <2>1. InRegister(w)' /\ v # cur /\ w # cur
    BY <1>5, <1>8 DEF InRegister
  <2> QED
    BY <1>2, <1>3, <1>4, <1>8, <2>1
<1>9. \A v \in Scanned' : InRegister(v)' /\ interval[v].crosses_call =>
          assigned'[v] \in CalleeSaved(target)
  BY <1>2, <1>3, <1>4, <1>5
<1>10. /\ \A v \in active' : assigned'[v] \notin free'
       /\ \A v, w \in active' : v # w => assigned'[v] # assigned'[w]
  BY <1>1, <1>2, <1>3
<1> QED
  BY <1>1, <1>2, <1>3, <1>6, <1>7, <1>8, <1>9, <1>10 DEF ScanOK, CalleeSaved

LEMMA ScanStep == MachineInv /\ IntervalInv /\ ScanInv /\ [BackendNext]_beVars => ScanInv'
<1> SUFFICES ASSUME MachineInv, IntervalInv, ScanInv, [BackendNext]_beVars
             PROVE  ScanInv'
  OBVIOUS
<1>1. /\ target' = target /\ LVregs' = LVregs
  BY SameFunction
<1>2. CASE LowerToMir \/ LiveTurn \/ LiveRound
  BY <1>2 DEF LowerToMir, LiveTurn, LiveRound, ScanInv, MachineInv
<1>3. CASE BuildIntervals
  <2>1. /\ phase = "intervals" /\ phase' = "scan" /\ mfn = Lowered /\ active' = {}
        /\ waiting' = LVregs /\ assigned' = [v \in LVregs |-> "none"]
    BY <1>3 DEF BuildIntervals, MachineInv, ScanInv, Vregs, LVregs
  <2>2. Scanned' = {} /\ DOMAIN assigned' = LVregs
    BY <1>1, <2>1 DEF Scanned
  <2>3. ScanOK'
    BY <1>1, <2>1, <2>2 DEF ScanOK
  <2> QED
    BY <2>1, <2>3 DEF ScanInv
<1>4. CASE ScanInterval
  <2>1. /\ phase = "scan" /\ phase' = "scan" /\ interval' = interval
        /\ ScanOK /\ \A v \in LVregs : Spans(v)
    BY <1>4 DEF ScanInterval, ScanInv, IntervalInv
  <2>2. PICK cur \in waiting :
           /\ \A v \in waiting \ {cur} : StartsBefore(cur, v)
           /\ waiting' = waiting \ {cur}
           /\ TakeFree(cur) \/ Evict(cur) \/ SpillCurrent(cur)
    BY <1>4 DEF ScanInterval
  <2>3. ScanOK'
    BY <1>1, <2>1, <2>2, TakeStep, EvictStep, SpillStep
  <2> QED
    BY <2>1, <2>3 DEF ScanInv
<1>5. CASE Rewrite \/ Select \/ Finished \/ UNCHANGED beVars
  <2>1. /\ UNCHANGED <<interval, waiting, active, free, assigned>>
        /\ phase \in {"scan", "select", "done"} <=> phase' \in {"scan", "select", "done"}
        /\ phase' \in {"select", "done"} => waiting = {}
    BY <1>5 DEF Rewrite, Select, Finished, beVars, vars, ScanInv
  <2>2. ScanOK <=> ScanOK'
    BY <1>1, <2>1 DEF ScanOK, Scanned, InRegister, Apart, CalleeSaved
  <2> QED
    BY <2>1, <2>2 DEF ScanInv
<1> QED
  BY <1>2, <1>3, <1>4, <1>5 DEF BackendNext, AllocNext

-----------------------------------------------------------------------------
LEMMA AllocInit == BackendInit => AllocInv
  BY DEF BackendInit, Init, AllocInv, MachineInv, LiveInv, IntervalInv, ScanInv

LEMMA AllocCorrect == BackendSpec => []AllocInv
<1>1. AllocInv /\ [BackendNext]_beVars => AllocInv'
  BY MachineStep, LiveStep, IntervalStep, ScanStep DEF AllocInv
<1> QED
  BY <1>1, AllocInit, PTL DEF BackendSpec

(* After the scan the invariant says all that the two properties need.     *)
LEMMA AllocatedFacts ==
  ASSUME AllocInv, Allocated
  PROVE  /\ LiveOK /\ (\A v \in LVregs : Spans(v)) /\ ScanOK /\ Scanned = LVregs
         /\ AllNeeded(LiveAfter(Lowered))
<1>1. phase \in {"select", "done"}
  BY DEF Allocated
<1>2. LiveOK
  BY <1>1, LoweredIsWellFormed DEF AllocInv, MachineInv, LiveInv, LiveOK
<1>3. (\A v \in LVregs : Spans(v)) /\ ScanOK /\ waiting = {}
  BY <1>1 DEF AllocInv, IntervalInv, ScanInv
<1> QED
  BY <1>2, <1>3, LiveAfterNeeded DEF Scanned


(* The linear scan of x86_regalloc_run_impl and aarch64_regalloc_run_impl  *)
(* never gives one register to two values of which one is written while    *)
(* the other is needed, nor to two parameters: for every function, control *)
(* flow and register file.                                                 *)
THEOREM SeparateCorrect == BackendSpec => []Separate
<1>1. ASSUME AllocInv, Allocated
      PROVE  Separate
  <2>0. /\ LiveOK /\ (\A v \in LVregs : Spans(v)) /\ ScanOK /\ Scanned = LVregs
        /\ AllNeeded(LiveAfter(Lowered)) /\ WellFormed(Lowered)
    BY <1>1, AllocatedFacts DEF LiveOK
  <2>1. \A v, w \in LVregs : v # w /\ InRegister(v) /\ assigned[v] = assigned[w] => Apart(v, w)
    BY <2>0 DEF ScanOK
  <2>2. \A v \in LVregs : interval[v].start \in Nat /\ interval[v].end \in Nat
    BY <2>0 DEF Spans, Reaches
  <2>3. ASSUME NEW p \in Positions(Lowered), NEW d \in Defs(InstAt(Lowered, p)),
               NEW v \in LiveAfter(Lowered)[p] \ {d}, InRegister(d), assigned[v] = assigned[d]
        PROVE  FALSE
    <3>0. PICK b \in LBlocks : \E j \in Places(b) : p = <<b, j>>
      BY PositionFacts DEF LBlocks, Places, InstsOf
    <3>1. PICK j \in Places(b) : p = <<b, j>> /\ InstAt(Lowered, p) = InstsOf(b)[j]
      BY <3>0 DEF InstAt, InstsOf
    <3> DEFINE x == Index(Lowered, p)
    <3>2. v \in LVregs /\ interval[v].start <= x /\ x <= interval[v].end
      <4>1. Needed(b, j, v)
        BY <2>0, <2>3, <3>1 DEF AllNeeded
      <4> QED
        BY <2>0, <3>1, <4>1, NeededSpans
    <3>3. d \in LVregs /\ interval[d].start <= x /\ x <= interval[d].end
      <4>1. d \in LVregs
        BY <2>0, <2>3, <3>1, BlockFacts
      <4> QED
        BY <2>0, <2>3, <4>1 DEF Spans, Reaches
    <3>4. x \in Nat
      <4> DEFINE s == blk_start(Lowered, b)
      <4>1. s \in Nat /\ x = s + j - 1 /\ j \in Nat \ {0}
        BY <2>0, <3>1, BlockFacts, IndexFacts DEF LBlocks, Places, InstsOf
      <4> HIDE DEF s, x
      <4> QED
        BY <4>1
    <3>5. Apart(d, v)
      BY <2>1, <2>3, <3>2, <3>3
    <3> HIDE DEF x
    <3> QED
      BY <2>2, <3>2, <3>3, <3>4, <3>5 DEF Apart
  <2>4. ASSUME NEW p \in 1 .. fn.params, NEW q \in 1 .. fn.params,
               p # q, InRegister(p), assigned[p] = assigned[q]
        PROVE  FALSE
    <3>1. Lowered.params = [k \in 1 .. fn.params |-> k]
      BY DEF Lowered, lower_function
    <3>2. p \in ToSet(Lowered.params) /\ q \in ToSet(Lowered.params)
      BY <3>1 DEF ToSet
    <3>3. p \in LVregs /\ q \in LVregs
      BY <2>0, <3>2 DEF WellFormed, LVregs
    <3>4. /\ interval[p].start = 1 /\ interval[q].start = 1
          /\ 1 <= interval[p].end /\ 1 <= interval[q].end
      BY <2>0, <3>2, <3>3 DEF Spans, Reaches
    <3>5. Apart(p, q)
      BY <2>1, <2>4, <3>3
    <3> QED
      BY <2>2, <3>3, <3>4, <3>5 DEF Apart
  <2> QED
    BY <2>3, <2>4 DEF Separate
<1>2. AllocInv => Separate
  BY <1>1 DEF Separate
<1> QED
  BY <1>2, AllocCorrect, PTL

(* A value that a call has to leave alone is in a callee-saved register or *)
(* in memory, unless its interval begins at that call.                     *)
THEOREM CallsSafeCorrect == BackendSpec => []CallsSafe
<1>1. ASSUME AllocInv, Allocated
      PROVE  CallsSafe
  <2>0. /\ LiveOK /\ (\A v \in LVregs : Spans(v)) /\ ScanOK /\ Scanned = LVregs
        /\ AllNeeded(LiveAfter(Lowered)) /\ WellFormed(Lowered)
    BY <1>1, AllocatedFacts DEF LiveOK
  <2>1. ASSUME NEW p \in Calls(Lowered), NEW v \in LiveAcross(Lowered, LiveAfter(Lowered), p),
               interval[v].start # Index(Lowered, p), InRegister(v)
        PROVE  assigned[v] \in CalleeSaved(target)
    <3>1. p \in Positions(Lowered) /\ InstAt(Lowered, p).op = "CALL"
          /\ v \in LiveAfter(Lowered)[p]
      BY <2>1 DEF Calls, LiveAcross
    <3>0. PICK b \in LBlocks : \E j \in Places(b) : p = <<b, j>>
      BY <3>1, PositionFacts DEF LBlocks, Places, InstsOf
    <3>2. PICK j \in Places(b) : p = <<b, j>> /\ InstAt(Lowered, p) = InstsOf(b)[j]
      BY <3>0 DEF InstAt, InstsOf
    <3> DEFINE x == Index(Lowered, p)
    <3>3. Needed(b, j, v)
      BY <2>0, <3>1, <3>2 DEF AllNeeded
    <3>4. v \in LVregs /\ interval[v].start <= x /\ x < interval[v].end
      BY <2>0, <3>1, <3>2, <3>3, NeededSpans
    <3>5. x \in Nat
      <4> DEFINE s == blk_start(Lowered, b)
      <4>1. s \in Nat /\ x = s + j - 1 /\ j \in Nat \ {0}
        BY <2>0, <3>2, BlockFacts, IndexFacts DEF LBlocks, Places, InstsOf
      <4> HIDE DEF s, x
      <4> QED
        BY <4>1
    <3>6. x \in call_sites(Lowered)
      BY <3>1 DEF call_sites
    <3>7. /\ interval[v].start \in Nat
          /\ interval[v].start < x /\ x < interval[v].end => interval[v].crosses_call
      BY <2>0, <3>4, <3>6 DEF Spans, Reaches
    <3>8. interval[v].crosses_call
      <4> x # interval[v].start
        BY <2>1
      <4> HIDE DEF x
      <4> QED
        BY <3>4, <3>5, <3>7
    <3> QED
      BY <2>0, <2>1, <3>4, <3>8 DEF ScanOK
  <2> QED
    BY <2>1 DEF CallsSafe
<1>2. AllocInv => CallsSafe
  BY <1>1 DEF CallsSafe
<1> QED
  BY <1>2, AllocCorrect, PTL


-----------------------------------------------------------------------------
(* The frame.                                                              *)

(* A loop over indices meets each of them once.                            *)
LEMMA AscendingFacts ==
  ASSUME NEW S \in SUBSET Nat, IsFiniteSet(S)
  PROVE  /\ Cardinality(S) \in Nat
         /\ DOMAIN Ascending(S) = 1 .. Cardinality(S)
         /\ \A n \in 1 .. Cardinality(S) : Ascending(S)[n] \in S
         /\ \A n, k \in 1 .. Cardinality(S) : n # k => Ascending(S)[n] # Ascending(S)[k]
<1> DEFINE Upto(x) == {y \in S : y <= x}
           Size(x) == Cardinality(Upto(x))
           c == Cardinality(S)
<1>1. c \in Nat
  BY FS_CardinalityType
<1>2. \A x \in S : Size(x) \in Nat
  <2> TAKE x \in S
  <2>1. IsFiniteSet(Upto(x))
    BY FS_Subset
  <2> HIDE DEF Upto
  <2> QED
    BY <2>1, FS_CardinalityType
<1>3. ASSUME NEW n \in 1 .. c
      PROVE  \E x \in S : Size(x) = n
  <2> DEFINE A == {x \in S : Size(x) >= n}
  <2>1. A # {}
    <3>1. S # {}
      BY <1>1, FS_EmptySet
    <3>2. Max(S) \in S /\ \A y \in S : y <= Max(S)
      BY <3>1, MaxFacts
    <3>3. Upto(Max(S)) = S
      BY <3>2
    <3>4. Size(Max(S)) = c
      BY <3>3
    <3> HIDE DEF Upto, Size, c
    <3> QED
      BY <1>1, <3>2, <3>4
  <2>2. A \in SUBSET Nat
    OBVIOUS
  <2>3. PICK x \in A : \A y \in A : x <= y
    <3> HIDE DEF A
    <3> QED
      BY <2>1, <2>2, NatMin
  <2> DEFINE B == {y \in S : y < x}
  <2>4. x \in S /\ x \in Nat /\ Size(x) >= n /\ Size(x) \in Nat
    BY <2>3, <1>2
  <2>5. IsFiniteSet(B) /\ x \notin B /\ Upto(x) = B \cup {x}
    <3>1. \A y \in S : y \in Nat /\ (y <= x <=> y < x \/ y = x)
      BY <2>4
    <3>2. ~(x < x)
      BY <2>4
    <3>3. IsFiniteSet(B)
      BY FS_Subset
    <3> QED
      BY <2>4, <3>1, <3>2, <3>3
  <2>6. Size(x) = Cardinality(B) + 1 /\ Cardinality(B) \in Nat
    <3> HIDE DEF B, Upto
    <3> QED
      BY <2>5, FS_AddElement, FS_CardinalityType
  <2>7. Cardinality(B) < n
    <3>1. CASE B = {}
      <4> HIDE DEF B
      <4> QED
        BY <3>1, FS_EmptySet, <1>1
    <3>2. CASE B # {}
      <4>1. Max(B) \in B /\ \A y \in B : y <= Max(B)
        <5>1. B \in SUBSET Nat
          OBVIOUS
        <5> HIDE DEF B
        <5> QED
          BY <5>1, <3>2, <2>5, MaxFacts
      <4> DEFINE z == Max(B)
      <4>2. z \in S /\ z < x /\ z \in Nat
        BY <4>1
      <4>3. Upto(z) = B
        <5>1. ASSUME NEW y \in S
              PROVE  y <= z <=> y < x
          <6>1. y \in Nat
            OBVIOUS
          <6>2. y < x => y <= z
            BY <4>1
          <6> HIDE DEF z
          <6> QED
            BY <6>1, <6>2, <4>2, <2>4
        <5> HIDE DEF z
        <5> QED
          BY <5>1
      <4>4. Size(z) = Cardinality(B)
        BY <4>3
      <4>5. z \notin A
        <5> HIDE DEF A, z
        <5> QED
          BY <2>3, <4>2, <2>4
      <4> HIDE DEF z, B, Upto, Size
      <4> QED
        BY <4>2, <4>4, <4>5, <2>6, <1>1
    <3> QED
      BY <3>1, <3>2
  <2> HIDE DEF Size, B, A, c
  <2> QED
    BY <2>4, <2>6, <2>7, <1>1
<1>4. DOMAIN Ascending(S) = 1 .. c
  BY DEF Ascending
<1>5. ASSUME NEW n \in 1 .. c
      PROVE  Ascending(S)[n] \in S /\ Size(Ascending(S)[n]) = n
  <2>1. Ascending(S)[n] = CHOOSE x \in S : Size(x) = n
    BY DEF Ascending
  <2> HIDE DEF Size, c
  <2> QED
    BY <2>1, <1>3
<1> HIDE DEF Size
<1> QED
  BY <1>1, <1>4, <1>5

LEMMA AlignUpFacts ==
  ASSUME NEW n \in Int, NEW a \in Nat \ {0}
  PROVE  AlignUp(n, a) \in Int /\ n <= AlignUp(n, a)
<1> DEFINE k == n + a - 1
           q == k \div a
<1>1. k \in Int
  OBVIOUS
<1> HIDE DEF k
<1>2. q \in Int /\ k = a * q + (k % a) /\ k % a \in 0 .. a - 1
  BY <1>1
<1> HIDE DEF q
<1>3. a * q = q * a /\ q * a \in Int
  BY <1>1, <1>2
<1>4. n <= q * a
  BY <1>1, <1>2, <1>3 DEF k
<1> QED
  BY <1>3, <1>4 DEF AlignUp, k, q

(* Slots laid one behind the other.                                        *)
LEMMA EndsFacts ==
  ASSUME NEW slots, NEW unit, Len(slots) \in Nat,
         \A n \in 1 .. Len(slots) : unit[n] \in Nat \ {0} /\ slots[n].size \in Nat
  PROVE  /\ \A n \in 0 .. Len(slots) : Ends(slots, unit)[n] \in Nat
         /\ \A n \in 1 .. Len(slots) : Ends(slots, unit)[n] =
               AlignUp(Ends(slots, unit)[n-1], unit[n]) + slots[n].size
         /\ \A n, k \in 0 .. Len(slots) : n <= k => Ends(slots, unit)[n] <= Ends(slots, unit)[k]
<1> DEFINE N == Len(slots)
           S(n, x) == AlignUp(x, unit[n]) + slots[n].size
           Is(k, g) == g = [i \in 0..k |-> IF i = 0 THEN 0 ELSE S(i, g[i-1])]
           Bad == {k \in 0..N : ~\E g : Is(k, g)}
<1>1. N \in Nat
  OBVIOUS
<1>2. Ends(slots, unit) = CHOOSE g : Is(N, g)
  BY DEF Ends
<1>3. ASSUME NEW n \in 1..N, NEW x \in Nat
      PROVE  S(n, x) \in Nat /\ x <= S(n, x) /\ S(n, x) = AlignUp(x, unit[n]) + slots[n].size
  <2>1. unit[n] \in Nat \ {0} /\ slots[n].size \in Nat
    OBVIOUS
  <2>2. AlignUp(x, unit[n]) \in Int /\ x <= AlignUp(x, unit[n])
    <3>1. x \in Int
      OBVIOUS
    <3> QED
      BY <2>1, <3>1, AlignUpFacts
  <2> QED
    BY <2>1, <2>2
<1>s. \A n, x : S(n, x) = AlignUp(x, unit[n]) + slots[n].size
  OBVIOUS
<1> HIDE DEF N, S
<1>4. \E g : Is(N, g)
  <2>1. SUFFICES ASSUME N \in Bad
                 PROVE  FALSE
    BY <1>1
  <2>2. Bad \in SUBSET Nat /\ Bad # {}
    <3>1. 0..N \subseteq Nat /\ Bad \subseteq 0..N
      BY <1>1
    <3> HIDE DEF Bad
    <3> QED
      BY <2>1, <3>1
  <2>3. PICK k \in Bad : \A y \in Bad : k <= y
    <3> HIDE DEF Bad
    <3> QED
      BY <2>2, NatMin
  <2>4. k # 0
    <3>1. Is(0, [i \in 0..0 |-> 0])
      OBVIOUS
    <3> QED
      BY <2>3, <3>1
  <2>5. k \in Nat /\ k - 1 \in 0..N /\ k - 1 \notin Bad
    <3> HIDE DEF Is
    <3>1. k \in 0..N
      BY <2>3
    <3> QED
      BY <2>3, <2>4, <3>1, <1>1
  <2>6. PICK f : Is(k - 1, f)
    BY <2>5
  <2> DEFINE g == [i \in 0..k |-> IF i = k THEN S(k, f[k-1]) ELSE f[i]]
  <2>7. Is(k, g)
    <3>1. \A i \in 0..k-1 : f[i] = IF i = 0 THEN 0 ELSE S(i, f[i-1])
      BY <2>6
    <3>2. ASSUME NEW i \in 0..k
          PROVE  g[i] = IF i = 0 THEN 0 ELSE S(i, g[i-1])
      <4>1. CASE i = k
        <5>1. i - 1 \in 0..k /\ i - 1 # k
          BY <4>1, <2>4, <2>5
        <5>2. g[i-1] = f[i-1]
          BY <5>1
        <5> QED
          BY <4>1, <5>2, <2>4
      <4>2. CASE i = 0
        BY <4>2, <2>4, <2>5, <3>1
      <4>3. CASE i # k /\ i # 0
        <5>1. i - 1 \in 0..k /\ i - 1 # k /\ i \in 0..k-1
          BY <4>3, <2>5
        <5>2. g[i-1] = f[i-1] /\ g[i] = f[i]
          BY <5>1, <4>3
        <5> QED
          BY <4>3, <5>1, <5>2, <3>1
      <4> QED
        BY <4>1, <4>2, <4>3
    <3>3. g = [i \in 0..k |-> g[i]]
      OBVIOUS
    <3> HIDE DEF g
    <3> QED
      BY <3>2, <3>3
  <2> QED
    BY <2>3, <2>7
<1> DEFINE W == Ends(slots, unit)
<1>5. Is(N, W)
  BY <1>2, <1>4
<1> HIDE DEF W
<1>6. W[0] = 0 /\ \A k \in 1..N : W[k] = S(k, W[k-1])
  BY <1>1, <1>5
<1>7. \A n \in 0..N : W[n] \in Nat
  <2> DEFINE Odd == {n \in 0..N : W[n] \notin Nat}
  <2>1. SUFFICES ASSUME Odd # {}
                 PROVE  FALSE
    OBVIOUS
  <2>2. Odd \in SUBSET Nat
    BY <1>1
  <2>3. PICK n \in Odd : \A y \in Odd : n <= y
    <3> HIDE DEF Odd
    <3> QED
      BY <2>1, <2>2, NatMin
  <2>4. n \in 1..N /\ n - 1 \in 0..N /\ n - 1 \notin Odd
    BY <2>3, <1>1, <1>6
  <2>5. W[n-1] \in Nat /\ W[n] = S(n, W[n-1])
    BY <2>4, <1>6
  <2> QED
    BY <2>3, <2>4, <2>5, <1>3
<1>8. \A n \in 1..N : W[n-1] <= W[n]
  <2> TAKE n \in 1..N
  <2>1. n - 1 \in 0..N /\ W[n-1] \in Nat
    BY <1>1, <1>7
  <2>2. W[n-1] <= S(n, W[n-1])
    BY <2>1, <1>3
  <2>3. W[n] = S(n, W[n-1])
    BY <1>6
  <2> QED
    BY <2>2, <2>3
<1>9. \A n, k \in 0..N : n <= k => W[n] <= W[k]
  <2>1. SUFFICES ASSUME NEW n \in 0..N
                 PROVE  \A k \in 0..N : n <= k => W[n] <= W[k]
    OBVIOUS
  <2> DEFINE Odd == {k \in 0..N : n <= k /\ ~(W[n] <= W[k])}
  <2>2. SUFFICES ASSUME Odd # {}
                 PROVE  FALSE
    OBVIOUS
  <2>3. Odd \in SUBSET Nat
    BY <1>1
  <2>4. PICK k \in Odd : \A y \in Odd : k <= y
    <3> HIDE DEF Odd
    <3> QED
      BY <2>2, <2>3, NatMin
  <2>5. k \in 0..N /\ n <= k /\ W[n] \in Nat /\ W[k] \in Nat /\ k # n
    BY <2>4, <1>7
  <2>6. k \in 1..N /\ k - 1 \in 0..N /\ n <= k - 1 /\ k - 1 \notin Odd
    BY <2>4, <2>5, <1>1
  <2>7. W[n] <= W[k-1] /\ W[k-1] \in Nat /\ W[k-1] <= W[k]
    BY <2>6, <1>7, <1>8
  <2> QED
    BY <2>4, <2>5, <2>7
<1> QED
  BY <1>6, <1>7, <1>9, <1>s DEF W, N

(* Sequences one behind the other are a sequence.                          *)
LEMMA FlattenFacts ==
  ASSUME NEW T, NEW ss \in Seq(Seq(T))
  PROVE  FlattenSeq(ss) \in Seq(T)
<1> DEFINE N == Len(ss)
           S(n, x) == x \o ss[n]
           Is(k, g) == g = [i \in 1..k |-> IF i = 1 THEN ss[i] ELSE S(i, g[i-1])]
           Bad == {k \in 1..N : ~\E g : Is(k, g)}
<1>1. N \in Nat /\ \A n \in 1..N : ss[n] \in Seq(T)
  OBVIOUS
<1>2. CASE N = 0
  <2>1. FlattenSeq(ss) = ss
    BY <1>2 DEF FlattenSeq
  <2>2. ss = << >>
    BY <1>2, EmptySeq
  <2> QED
    BY <2>1, <2>2
<1>3. CASE N # 0
  <2>1. FlattenSeq(ss) = (CHOOSE g : Is(N, g))[N]
    BY <1>3 DEF FlattenSeq
  <2>2. ASSUME NEW n \in 1..N, NEW x \in Seq(T)
        PROVE  S(n, x) \in Seq(T)
    BY <1>1
  <2> DEFINE first == ss[1]
  <2>f. first \in Seq(T) /\ \A i : i = 1 => ss[i] = first
    BY <1>1, <1>3
  <2> HIDE DEF N, S, first
  <2>3. \E g : Is(N, g)
    <3>1. SUFFICES ASSUME N \in Bad
                   PROVE  FALSE
      BY <1>1, <1>3
    <3>2. Bad \in SUBSET Nat /\ Bad # {}
      <4>1. N \in Nat
        BY <1>1
      <4>2. 1..N \subseteq Nat /\ Bad \subseteq 1..N
        BY <4>1
      <4> HIDE DEF Bad
      <4> QED
        BY <3>1, <4>2
    <3>3. PICK k \in Bad : \A y \in Bad : k <= y
      <4> HIDE DEF Bad
      <4> QED
        BY <3>2, NatMin
    <3>4. k # 1
      <4>1. Is(1, [i \in 1..1 |-> ss[i]])
        OBVIOUS
      <4> QED
        BY <3>3, <4>1
    <3>5. k \in Nat /\ k - 1 \in 1..N /\ k - 1 \notin Bad
      <4> HIDE DEF Is
      <4>1. k \in 1..N
        BY <3>3
      <4> QED
        BY <3>3, <3>4, <4>1, <1>1
    <3>6. PICK f : Is(k - 1, f)
      BY <3>5
    <3> DEFINE g == [i \in 1..k |-> IF i = k THEN S(k, f[k-1]) ELSE f[i]]
    <3>7. Is(k, g)
      <4>1. \A i \in 1..k-1 : f[i] = IF i = 1 THEN ss[i] ELSE S(i, f[i-1])
        BY <3>6
      <4>2. ASSUME NEW i \in 1..k
            PROVE  g[i] = IF i = 1 THEN ss[i] ELSE S(i, g[i-1])
        <5>1. CASE i = k
          <6>1. i - 1 \in 1..k /\ i - 1 # k
            BY <5>1, <3>4, <3>5
          <6>2. g[i-1] = f[i-1]
            BY <6>1
          <6> QED
            BY <5>1, <6>2, <3>4
        <5>2. CASE i = 1
          BY <5>2, <3>4, <3>5, <4>1
        <5>3. CASE i # k /\ i # 1
          <6>1. i - 1 \in 1..k /\ i - 1 # k /\ i \in 1..k-1
            BY <5>3, <3>5
          <6>2. g[i-1] = f[i-1] /\ g[i] = f[i]
            BY <6>1, <5>3
          <6> QED
            BY <5>3, <6>1, <6>2, <4>1
        <5> QED
          BY <5>1, <5>2, <5>3
      <4>3. g = [i \in 1..k |-> g[i]]
        OBVIOUS
      <4> HIDE DEF g
      <4> QED
        BY <4>2, <4>3
    <3> QED
      BY <3>3, <3>7
  <2> DEFINE W == CHOOSE g : Is(N, g)
  <2>4. Is(N, W)
    BY <2>3
  <2> HIDE DEF W
  <2>5. W[1] \in Seq(T) /\ \A k \in 2..N : W[k] = S(k, W[k-1])
    <3>1. W[1] = ss[1]
      BY <1>1, <1>3, <2>4
    <3> QED
      BY <1>1, <1>3, <2>4, <3>1
  <2> HIDE DEF Is
  <2>6. \A n \in 1..N : W[n] \in Seq(T)
    <3> DEFINE Odd == {n \in 1..N : W[n] \notin Seq(T)}
    <3>1. SUFFICES ASSUME Odd # {}
                   PROVE  FALSE
      OBVIOUS
    <3>2. Odd \in SUBSET Nat
      BY <1>1
    <3>3. PICK n \in Odd : \A y \in Odd : n <= y
      <4> HIDE DEF Odd
      <4> QED
        BY <3>1, <3>2, NatMin
    <3>4. n \in 2..N /\ n - 1 \in 1..N /\ n - 1 \notin Odd
      BY <3>3, <1>1, <2>5
    <3>5. W[n-1] \in Seq(T) /\ W[n] = S(n, W[n-1])
      BY <3>4, <2>5
    <3>6. n \in 1..N
      BY <3>3
    <3> QED
      BY <3>3, <3>5, <3>6, <2>2
  <2> QED
    BY <1>1, <1>3, <2>1, <2>6 DEF W
<1> QED
  BY <1>2, <1>3

UsesOK(i) == Len(i.use) \in Nat /\ DOMAIN i.use = 1 .. Len(i.use)

(* An instruction is rewritten to a sequence of instructions.              *)
LEMMA RewriteInstFacts ==
  ASSUME NEW i, UsesOK(i)
  PROVE  \E U : RewriteInst(i) \in Seq(U) /\ \A x \in U : UsesOK(x)
<1> DEFINE D == {j \in DOMAIN i.use : IsRegOperand(i.use[j]) /\ IsSpilled(i.use[j].v)}
           spilt == Ascending(D)
           c == Cardinality(D)
           load(n) == MInst("LOAD", OperandReg(i, spilt[n]), <<Operand("slot", SpillSlot(i.use[spilt[n]].v))>>)
           loads == [n \in DOMAIN spilt |-> load(n)]
           inst == MInst(i.op, IF i.def = NoReg THEN "none" ELSE ResultReg(i.def),
                       [j \in DOMAIN i.use |->
                           IF IsRegOperand(i.use[j])
                           THEN Operand(i.use[j].k, OperandReg(i, j)) ELSE i.use[j]])
           store == MInst("STORE", "none", <<Operand("slot", SpillSlot(i.def)), Reg(ResultReg(i.def))>>)
           U == {loads[n] : n \in DOMAIN spilt} \cup {inst, store}
<1>1. c \in Nat /\ DOMAIN spilt = 1..c
  <2>1. D \in SUBSET Nat /\ IsFiniteSet(D)
    <3> DEFINE l == Len(i.use)
    <3>1. l \in Nat /\ DOMAIN i.use = 1..l
      BY DEF UsesOK
    <3> HIDE DEF l
    <3>2. D \subseteq 1..l
      BY <3>1
    <3>3. IsFiniteSet(1..l) /\ 1..l \in SUBSET Nat
      BY <3>1, FS_Interval
    <3> HIDE DEF D
    <3> QED
      BY <3>2, <3>3, FS_Subset
  <2> HIDE DEF D
  <2> QED
    BY <2>1, AscendingFacts
<1>2. RewriteInst(i) = IF i.def # NoReg /\ IsSpilled(i.def) THEN Append(Append(loads, inst), store)
                       ELSE Append(loads, inst)
  BY DEF RewriteInst, ny_mfunc_insert_before, ny_mfunc_insert_after
<1>3. UsesOK(inst)
  <2> DEFINE g == [j \in DOMAIN i.use |->
                           IF IsRegOperand(i.use[j])
                           THEN Operand(i.use[j].k, OperandReg(i, j)) ELSE i.use[j]]
             l == Len(i.use)
  <2>1. inst.use = g /\ DOMAIN g = DOMAIN i.use
    BY DEF MInst
  <2>2. l \in Nat /\ DOMAIN i.use = 1..l
    BY DEF UsesOK
  <2> HIDE DEF g, l, inst
  <2>3. Len(g) = l
    BY <2>1, <2>2
  <2> QED
    BY <2>1, <2>2, <2>3 DEF UsesOK
<1>4. UsesOK(store)
  <2> DEFINE a == Operand("slot", SpillSlot(i.def))
             e == Reg(ResultReg(i.def))
  <2>1. store.use = <<a, e>>
    BY DEF MInst
  <2> HIDE DEF a, e, store
  <2> QED
    BY <2>1 DEF UsesOK
<1>5. ASSUME NEW n \in DOMAIN spilt
      PROVE  UsesOK(loads[n])
  <2> DEFINE a == Operand("slot", SpillSlot(i.use[spilt[n]].v))
  <2>1. loads[n].use = <<a>>
    BY DEF MInst
  <2> HIDE DEF a, loads
  <2> QED
    BY <2>1 DEF UsesOK
<1>6. \A x \in U : UsesOK(x)
  <2> HIDE DEF inst, store, loads, spilt
  <2> QED
    BY <1>3, <1>4, <1>5
<1>7. loads \in Seq(U) /\ inst \in U /\ store \in U
  <2>1. DOMAIN loads = DOMAIN spilt /\ loads = [n \in DOMAIN spilt |-> loads[n]]
    OBVIOUS
  <2> HIDE DEF inst, store, loads, spilt, c
  <2> QED
    BY <1>1, <2>1
<1>8. RewriteInst(i) \in Seq(U)
  <2> HIDE DEF inst, store, loads, spilt, U
  <2> QED
    BY <1>2, <1>7
<1> HIDE DEF U
<1> QED
  BY <1>6, <1>8

LEMMA LoweredShape ==
  /\ Lowered = [class |-> Lowered.class, slots |-> Lowered.slots, params |-> Lowered.params,
                blocks |-> Lowered.blocks, succ |-> Lowered.succ]
  /\ Lowered.slots = [n \in DOMAIN Lowered.slots |-> Lowered.slots[n]]
  BY DEF Lowered, lower_function

LEMMA RewriteFields ==
  ASSUME mfn = Lowered, Rewrite
  PROVE  /\ mfn'.blocks = [b \in Blocks |-> FlattenSeq([j \in DOMAIN mfn.blocks[b] |->
                                                           RewriteInst(mfn.blocks[b][j])])]
         /\ mfn'.slots = mfn.slots \o SpillSlots
<1> DEFINE B == [b \in Blocks |-> FlattenSeq([j \in DOMAIN mfn.blocks[b] |->
                                                 RewriteInst(mfn.blocks[b][j])])]
           S == mfn.slots \o SpillSlots
           P == [p \in DOMAIN mfn.params |-> ResultReg(mfn.params[p])]
<1>1. mfn' = [mfn EXCEPT !.blocks = B, !.slots = S, !.params = P]
  BY Zenon DEF Rewrite
<1>2. mfn = [class |-> mfn.class, slots |-> mfn.slots, params |-> mfn.params,
             blocks |-> mfn.blocks, succ |-> mfn.succ]
  BY LoweredShape
<1> HIDE DEF B, S, P
<1>3. mfn'.blocks = B /\ mfn'.slots = S
  BY <1>1, <1>2
<1> QED
  BY <1>3 DEF B, S

LEMMA RewriteInSequence ==
  ASSUME mfn = Lowered, WellFormed(mfn), Rewrite
  PROVE  InSequence(mfn')
<1> DEFINE ss(b) == [j \in DOMAIN mfn.blocks[b] |-> RewriteInst(mfn.blocks[b][j])]
           N == Len(mfn.blocks)
<1>1. N \in Nat /\ Blocks = 1..N
  BY DEF WellFormed, Blocks
<1>2. mfn'.blocks = [b \in Blocks |-> FlattenSeq(ss(b))]
  BY RewriteFields
<1>3. ASSUME NEW b \in Blocks
      PROVE  \E T : FlattenSeq(ss(b)) \in Seq(T) /\ \A x \in T : UsesOK(x)
  <2> DEFINE l == Len(mfn.blocks[b])
             r(j) == RewriteInst(mfn.blocks[b][j])
             U(j) == CHOOSE V : r(j) \in Seq(V) /\ \A x \in V : UsesOK(x)
             T == UNION {U(j) : j \in 1..l}
  <2>1. l \in Nat /\ DOMAIN mfn.blocks[b] = 1..l
    BY DEF WellFormed, Blocks
  <2>2. ASSUME NEW j \in 1..l
        PROVE  r(j) \in Seq(U(j)) /\ \A x \in U(j) : UsesOK(x)
    <3>1. UsesOK(mfn.blocks[b][j])
      BY <2>1 DEF WellFormed, Blocks, UsesOK
    <3>2. \E V : r(j) \in Seq(V) /\ \A x \in V : UsesOK(x)
      BY <3>1, RewriteInstFacts
    <3> HIDE DEF r
    <3> QED
      BY <3>2
  <2>3. ss(b) = [j \in 1..l |-> r(j)]
    BY <2>1
  <2> HIDE DEF r, U, l, ss
  <2>4. \A x \in T : UsesOK(x)
    BY <2>2
  <2>5. ASSUME NEW j \in 1..l
        PROVE  r(j) \in Seq(T)
    <3>1. U(j) \subseteq T
      OBVIOUS
    <3> HIDE DEF T
    <3>2. r(j) \in Seq(U(j))
      BY <2>2
    <3> QED
      BY <3>1, <3>2
  <2> HIDE DEF T
  <2>6. ss(b) \in Seq(Seq(T))
    BY <2>1, <2>3, <2>5
  <2>7. FlattenSeq(ss(b)) \in Seq(T)
    BY <2>6, FlattenFacts
  <2> QED
    BY <2>4, <2>7
<1> HIDE DEF ss, N
<1>4. Len(mfn'.blocks) = N /\ DOMAIN mfn'.blocks = 1..N
  BY <1>1, <1>2
<1>5. ASSUME NEW b \in 1..N
      PROVE  LET s == mfn'.blocks[b]
             IN  /\ Len(s) \in Nat /\ DOMAIN s = 1..Len(s)
                 /\ \A j \in DOMAIN s : UsesOK(s[j])
  <2> DEFINE s == mfn'.blocks[b]
  <2>1. s = FlattenSeq(ss(b)) /\ b \in Blocks
    BY <1>1, <1>2
  <2>2. PICK T : s \in Seq(T) /\ \A x \in T : UsesOK(x)
    BY <2>1, <1>3
  <2> HIDE DEF s
  <2>3. Len(s) \in Nat /\ DOMAIN s = 1..Len(s) /\ \A j \in DOMAIN s : s[j] \in T
    BY <2>2
  <2>4. \A j \in DOMAIN s : UsesOK(s[j])
    BY <2>2, <2>3
  <2> QED
    BY <2>3, <2>4 DEF s
<1> QED
  BY <1>1, <1>4, <1>5 DEF InSequence, UsesOK

(* Every slot has a name and a size of its own.                            *)
SlotsOK(slots) ==
    /\ Len(slots) \in Nat /\ DOMAIN slots = 1 .. Len(slots)
    /\ \A n \in DOMAIN slots :
          /\ slots[n].size \in Nat /\ slots[n].align \in Nat
          /\ \A k \in DOMAIN slots : k # n => slots[k].v # slots[n].v

LEMMA SpillSlotFacts ==
  ASSUME WellFormed(mfn)
  PROVE  /\ Len(SpillSlots) \in Nat /\ DOMAIN SpillSlots = 1 .. Len(SpillSlots)
         /\ SpillSlots = [n \in DOMAIN SpillSlots |-> SpillSlots[n]]
         /\ \A n \in DOMAIN SpillSlots :
               /\ SpillSlots[n].size \in Nat /\ SpillSlots[n].align \in Nat
               /\ SpillSlots[n].v \in Int /\ SpillSlots[n].v < 0
               /\ \A k \in DOMAIN SpillSlots : k # n => SpillSlots[k].v # SpillSlots[n].v
<1> DEFINE D == {v \in Vregs : IsSpilled(v)}
           a == Ascending(D)
           c == Cardinality(D)
           size(v) == IF mfn.class[v] \in {"gpr32", "fp32"} THEN 4 ELSE 8
           l == Len(mfn.class)
<1>1. l \in Nat /\ Vregs = 1..l
  BY DEF WellFormed, Vregs
<1> HIDE DEF l
<1>2. D \in SUBSET Nat /\ IsFiniteSet(D) /\ 0 \notin D
  <2>1. D \subseteq 1..l
    BY <1>1
  <2>2. IsFiniteSet(1..l) /\ 1..l \in SUBSET Nat /\ 0 \notin 1..l
    BY <1>1, FS_Interval
  <2> HIDE DEF D
  <2> QED
    BY <2>1, <2>2, FS_Subset
<1>3. SpillSlots = [n \in DOMAIN a |-> [v |-> -a[n], size |-> size(a[n]), align |-> size(a[n])]]
  BY DEF SpillSlots, ny_mfunc_create_stack_slot, SpillSlot
<1> HIDE DEF D
<1>4. c \in Nat /\ DOMAIN a = 1..c /\ (\A n \in 1..c : a[n] \in D)
      /\ \A n, k \in 1..c : n # k => a[n] # a[k]
  BY <1>2, AscendingFacts
<1>5. \A v : size(v) \in Nat
  OBVIOUS
<1> HIDE DEF a, c, size
<1>6. DOMAIN SpillSlots = 1..c /\ Len(SpillSlots) = c
  BY <1>3, <1>4
<1>7. ASSUME NEW n \in 1..c
      PROVE  /\ SpillSlots[n].size \in Nat /\ SpillSlots[n].align \in Nat
             /\ SpillSlots[n].v = -a[n] /\ a[n] \in Nat /\ a[n] # 0
  BY <1>2, <1>3, <1>4, <1>5
<1>8. SpillSlots = [n \in DOMAIN SpillSlots |-> SpillSlots[n]]
  BY <1>3
<1>9. ASSUME NEW n \in 1..c
      PROVE  /\ SpillSlots[n].v \in Int /\ SpillSlots[n].v < 0
             /\ \A k \in 1..c : k # n => SpillSlots[k].v # SpillSlots[n].v
  BY <1>4, <1>7
<1> QED
  BY <1>4, <1>6, <1>7, <1>8, <1>9

LEMMA RewriteSlots ==
  ASSUME mfn = Lowered, WellFormed(mfn), Rewrite
  PROVE  SlotsOK(mfn'.slots)
<1> DEFINE s == mfn.slots
           t == SpillSlots
           r == mfn'.slots
           X == {s[n] : n \in DOMAIN s} \cup {t[n] : n \in DOMAIN t}
           l == Len(mfn.class)
           a == Len(s)
           b == Len(t)
<1>1. r = s \o t
  BY RewriteFields
<1>2. s = [n \in DOMAIN s |-> s[n]]
  BY LoweredShape
<1>3. /\ l \in Nat
      /\ a \in Nat /\ DOMAIN s = 1..a
      /\ \A n \in DOMAIN s : s[n].v \in 1..l
  BY DEF WellFormed
<1>4. \A n \in DOMAIN s :
         /\ s[n].size \in Nat /\ s[n].align \in Nat
         /\ \A k \in DOMAIN s : k # n => s[k].v # s[n].v
  BY DEF WellFormed
<1>5. /\ b \in Nat /\ DOMAIN t = 1..b
      /\ t = [n \in DOMAIN t |-> t[n]]
      /\ \A n \in DOMAIN t :
               /\ t[n].size \in Nat /\ t[n].align \in Nat
               /\ t[n].v \in Int /\ t[n].v < 0
               /\ \A k \in DOMAIN t : k # n => t[k].v # t[n].v
  BY SpillSlotFacts
<1> HIDE DEF r, s, t, l
<1>6. s \in Seq(X) /\ t \in Seq(X)
  BY <1>2, <1>3, <1>5
<1> HIDE DEF X
<1>7. /\ Len(r) = a + b /\ DOMAIN r = 1..(a + b)
      /\ \A n \in 1..a : r[n] = s[n]
      /\ \A n \in (a+1)..(a+b) : r[n] = t[n-a]
  BY <1>1, <1>6
<1>8. ASSUME NEW n \in 1..(a+b)
      PROVE  r[n].size \in Nat /\ r[n].align \in Nat
  <2>1. CASE n <= a
    BY <2>1, <1>3, <1>4, <1>5, <1>7
  <2>2. CASE n > a
    <3>1. n \in (a+1)..(a+b) /\ n - a \in 1..b
      BY <2>2, <1>3, <1>5
    <3> QED
      BY <3>1, <1>5, <1>7
  <2> QED
    BY <1>3, <1>5, <2>1, <2>2
<1> HIDE DEF a, b
<1>9. ASSUME NEW n \in 1..(a+b), NEW k \in 1..(a+b), k # n
      PROVE  r[k].v # r[n].v
  <2> DEFINE In(j) == j <= a /\ j \in 1..a /\ r[j] = s[j] /\ r[j].v \in Nat
             Out(j) == j > a /\ j - a \in 1..b /\ r[j] = t[j-a] /\ r[j].v \in Int /\ r[j].v < 0
  <2>1. \A j \in 1..(a+b) : In(j) \/ Out(j)
    <3> TAKE j \in 1..(a+b)
    <3>1. CASE j <= a
      <4>1. j \in 1..a /\ r[j] = s[j]
        BY <3>1, <1>3, <1>5, <1>7
      <4>2. s[j].v \in Nat
        BY <4>1, <1>3
      <4> QED
        BY <3>1, <4>1, <4>2
    <3>2. CASE j > a
      <4>1. j \in (a+1)..(a+b) /\ j - a \in 1..b
        BY <3>2, <1>3, <1>5
      <4> QED
        BY <3>2, <4>1, <1>5, <1>7
    <3> QED
      BY <1>3, <1>5, <3>1, <3>2
  <2>2. CASE In(n) /\ In(k)
    <3>1. n \in DOMAIN s /\ k \in DOMAIN s
      BY <2>2, <1>3
    <3>2. s[k].v # s[n].v
      BY <3>1, <1>4, <1>9
    <3> QED
      BY <2>2, <3>2
  <2>3. CASE Out(n) /\ Out(k)
    <3>1. n \in Int /\ k \in Int /\ a \in Int
      BY <1>3, <1>5
    <3>2. n - a # k - a
      BY <3>1, <1>9
    <3>3. t[k-a].v # t[n-a].v
      BY <2>3, <3>2, <1>5
    <3> QED
      BY <2>3, <3>3
  <2>4. CASE (In(n) /\ Out(k)) \/ (Out(n) /\ In(k))
    BY <2>4
  <2> HIDE DEF In, Out
  <2> QED
    BY <2>1, <2>2, <2>3, <2>4
<1> QED
  BY <1>3, <1>5, <1>7, <1>8, <1>9 DEF SlotsOK, r

LEMMA MaxOfTwo ==
  ASSUME NEW a \in Int, NEW b \in Int
  PROVE  Max({a, b}) \in {a, b} /\ a <= Max({a, b}) /\ b <= Max({a, b})
<1>1. \E x \in {a, b} : \A y \in {a, b} : x >= y
  <2>1. CASE a >= b
    BY <2>1
  <2>2. CASE b >= a
    BY <2>2
  <2> QED
    BY <2>1, <2>2
<1>2. Max({a, b}) \in {a, b} /\ \A y \in {a, b} : Max({a, b}) >= y
  BY <1>1 DEF Max
<1> HIDE DEF Max
<1> QED
  BY <1>2

LEMMA MinOfTwo ==
  ASSUME NEW a \in Nat, NEW b \in Nat
  PROVE  Min({a, b}) \in {a, b} /\ Min({a, b}) <= a /\ Min({a, b}) <= b
  BY MinFacts

(* A largest value over the calls of a function.                           *)
LEMMA MostFacts ==
  ASSUME NEW m, InSequence(m), NEW f, DOMAIN f = Calls(m), \A p \in Calls(m) : f[p] \in Nat
  PROVE  /\ Max({0} \cup {f[p] : p \in Calls(m)}) \in Nat
<1> DEFINE S == {f[p] : p \in Calls(m)}
<1>1. IsFiniteSet(Calls(m))
  BY InSequenceFinite, FS_Subset DEF Calls
<1>2. IsFiniteSet(S)
  BY <1>1, ImageFinite
<1>3. S \in SUBSET Nat
  OBVIOUS
<1> HIDE DEF S
<1>4. IsFiniteSet({0} \cup S)
  BY <1>2, FS_Singleton, FS_Union
<1>5. {0} \cup S \in SUBSET Nat /\ {0} \cup S # {}
  BY <1>3
<1>6. Max({0} \cup S) \in {0} \cup S
  BY <1>4, <1>5, MaxFacts
<1>7. Max({0} \cup S) \in Nat
  BY <1>5, <1>6
<1> QED
  BY <1>7 DEF S

LEMMA CallUse ==
  ASSUME NEW m, InSequence(m), NEW p \in Calls(m)
  PROVE  Len(InstAt(m, p).use) \in Nat
<1>0. PICK b \in DOMAIN m.blocks : \E j \in DOMAIN m.blocks[b] : p = <<b, j>>
  BY PositionFacts DEF Calls
<1>1. PICK j \in DOMAIN m.blocks[b] : p = <<b, j>>
  BY <1>0
<1>2. InstAt(m, p) = m.blocks[b][j]
  BY <1>1, PositionFacts
<1> QED
  BY <1>1, <1>2 DEF InSequence

LEMMA PartOfInterval ==
  ASSUME NEW k \in Nat, NEW S \in SUBSET (2..k)
  PROVE  Cardinality(S) \in Nat
<1>1. IsFiniteSet(2..k)
  BY FS_Interval
<1> QED
  BY <1>1, FS_Subset, FS_CardinalityType

LEMMA InOrderLen ==
  ASSUME NEW X, NEW table \in Seq(X), NEW R
  PROVE  Len(InOrder(table, R)) \in Nat
<1> DEFINE l == Len(table)
           D == {n \in DOMAIN table : table[n] \in R}
           a == Ascending(D)
           c == Cardinality(D)
           r == [n \in DOMAIN a |-> table[a[n]]]
<1>1. l \in Nat /\ D \subseteq 1..l
  OBVIOUS
<1>2. InOrder(table, R) = r
  BY DEF InOrder
<1> HIDE DEF l, D
<1>3. IsFiniteSet(1..l) /\ 1..l \in SUBSET Nat
  BY <1>1, FS_Interval
<1>4. D \in SUBSET Nat /\ IsFiniteSet(D)
  BY <1>1, <1>3, FS_Subset
<1>5. c \in Nat /\ DOMAIN a = 1..c
  BY <1>4, AscendingFacts
<1> HIDE DEF a, c
<1>6. Len(r) = c
  BY <1>5
<1> QED
  BY <1>2, <1>5, <1>6

(* The place of a slot is found by its name.                               *)
LEMMA SlotByName ==
  ASSUME NEW slots, SlotsOK(slots), NEW n \in DOMAIN slots
  PROVE  SelectInSeq(slots, LAMBDA s : s.v = slots[n].v) = n
<1> DEFINE I == {i \in 1..Len(slots) : slots[i].v = slots[n].v}
<1>1. I = {n} /\ n \in Nat
  BY DEF SlotsOK
<1>2. SelectInSeq(slots, LAMBDA s : s.v = slots[n].v) = IF I # {} THEN Min(I) ELSE 0
  BY DEF SelectInSeq
<1>3. Min({n}) = n
  BY <1>1, MinFacts
<1> QED
  BY <1>1, <1>2, <1>3

(* What is assumed of the tables of a target.                              *)
Tables(t) ==
    /\ t.shadow \in Nat
    /\ Len(t.args) \in Nat /\ Len(t.fpArgs) \in Nat
    /\ t.callee \in Seq(ToSet(t.callee)) /\ t.fpCallee \in Seq(ToSet(t.fpCallee))

LEMMA TablesHold ==
  ASSUME MachineInv
  PROVE  Tables(target)
<1>1. PICK in \in Inputs : target = in.target
  BY DEF MachineInv
<1>2. /\ target.shadow \in Nat
      /\ target.args \in Seq(ToSet(target.args)) /\ target.fpArgs \in Seq(ToSet(target.fpArgs))
      /\ target.callee \in Seq(ToSet(target.callee)) /\ target.fpCallee \in Seq(ToSet(target.fpCallee))
  BY <1>1, TablesAssumption
<1> QED
  BY <1>2 DEF Tables

(* The ends of the slots below the frame pointer.                          *)
Stacked(slots, unit, E) ==
    /\ \A n \in 0 .. Len(slots) : E[n] \in Nat
    /\ \A n \in 1 .. Len(slots) : E[n] = AlignUp(E[n-1], unit[n]) + slots[n].size
    /\ \A n, k \in 0 .. Len(slots) : n <= k => E[n] <= E[k]

X86Unit(slots) == [n \in DOMAIN slots |-> Max({4, slots[n].align})]
A64Unit(slots) == [n \in DOMAIN slots |-> Min({16, Max({4, slots[n].align})})]

LEMMA UnitFacts ==
  ASSUME NEW slots, SlotsOK(slots), NEW n \in DOMAIN slots
  PROVE  /\ X86Unit(slots)[n] \in Nat \ {0} /\ A64Unit(slots)[n] \in Nat \ {0}
         /\ slots[n].align \in {1, 2, 4} => X86Unit(slots)[n] = 4 /\ A64Unit(slots)[n] = 4
         /\ slots[n].align = 8 => X86Unit(slots)[n] = 8 /\ A64Unit(slots)[n] = 8
<1> DEFINE a == slots[n].align
           x == Max({4, a})
           y == Min({16, x})
<1>1. X86Unit(slots)[n] = x /\ A64Unit(slots)[n] = y
  BY DEF X86Unit, A64Unit
<1>2. a \in Nat
  BY DEF SlotsOK
<1> HIDE DEF a
<1>3. x \in {4, a} /\ 4 <= x /\ a <= x
  <2>1. 4 \in Int /\ a \in Int
    BY <1>2
  <2> QED
    BY <2>1, MaxOfTwo
<1> HIDE DEF x
<1>4. x \in Nat
  BY <1>2, <1>3
<1>5. y \in {16, x} /\ y <= 16 /\ y <= x
  BY <1>4, MinOfTwo
<1> HIDE DEF y
<1> QED
  BY <1>1, <1>2, <1>3, <1>4, <1>5 DEF a

LEMMA SlotEnds ==
  ASSUME NEW m, SlotsOK(m.slots)
  PROVE  /\ Stacked(m.slots, X86Unit(m.slots), SlotEnd(m))
         /\ Stacked(m.slots, A64Unit(m.slots), a64_slot_end(m))
<1> DEFINE s == m.slots
<1>1. SlotEnd(m) = Ends(s, X86Unit(s)) /\ a64_slot_end(m) = Ends(s, A64Unit(s))
  BY DEF SlotEnd, a64_slot_end, X86Unit, A64Unit
<1>2. Len(s) \in Nat /\ DOMAIN s = 1..Len(s) /\ \A n \in 1..Len(s) : s[n].size \in Nat
  BY DEF SlotsOK
<1>3. \A n \in 1..Len(s) : X86Unit(s)[n] \in Nat \ {0} /\ A64Unit(s)[n] \in Nat \ {0}
  BY <1>2, UnitFacts
<1> HIDE DEF s
<1>4. Stacked(s, X86Unit(s), Ends(s, X86Unit(s)))
  BY <1>2, <1>3, EndsFacts DEF Stacked
<1>5. Stacked(s, A64Unit(s), Ends(s, A64Unit(s)))
  BY <1>2, <1>3, EndsFacts DEF Stacked
<1> QED
  BY <1>1, <1>4, <1>5 DEF s

LEMMA X86Frame ==
  ASSUME NEW m, InSequence(m), SlotsOK(m.slots), NEW t, Tables(t)
  PROVE  LET f == x86_frame_layout(m, t)
         IN  /\ f.outgoing \in Nat /\ f.stack_size \in Int
             /\ SlotEnd(m)[Len(m.slots)] + f.outgoing <= f.stack_size
             /\ \A n \in DOMAIN m.slots : f.slot_offsets[m.slots[n].v] = -SlotEnd(m)[n]
<1> DEFINE most == Max({0} \cup {StackArgs(InstAt(m, p), t) : p \in Calls(m)})
           saved == InOrder(t.callee, callee_saved_mask(m, t))
           outgoing == IF t.positional /\ Calls(m) # {} THEN t.shadow + 8 * most ELSE 8 * most
           end == SlotEnd(m)[Len(m.slots)]
           locals == end + outgoing
           pushes == 8 * (Len(saved) + 1)
           offs == [v \in {m.slots[n].v : n \in DOMAIN m.slots} |->
                             -SlotEnd(m)[SelectInSeq(m.slots, LAMBDA s : s.v = v)]]
           f == x86_frame_layout(m, t)
<1>1. /\ f.outgoing = outgoing /\ f.slot_offsets = offs
      /\ f.stack_size = IF Calls(m) # {} \/ locals > 0 THEN AlignUp(pushes + locals, 16) - pushes ELSE 0
  BY DEF x86_frame_layout
<1>2. ASSUME NEW p \in Calls(m)
      PROVE  StackArgs(InstAt(m, p), t) \in Nat
  <2> DEFINE use == InstAt(m, p).use
             part(fp) == {a \in 2..Len(use) : IsXmm(t, use[a].v) = fp}
             n(fp) == Cardinality(part(fp))
             c == Cardinality(2..Len(use))
             over(fp, regs) == Max({0, n(fp) - Len(regs)})
  <2>1. StackArgs(InstAt(m, p), t) = IF t.positional THEN Max({0, c - Len(t.args)})
                                     ELSE over(TRUE, t.fpArgs) + over(FALSE, t.args)
    BY DEF StackArgs
  <2>2. Len(use) \in Nat
    BY CallUse
  <2> HIDE DEF use
  <2>3. n(TRUE) \in Nat /\ n(FALSE) \in Nat /\ c \in Nat
    <3>1. part(TRUE) \in SUBSET (2..Len(use)) /\ part(FALSE) \in SUBSET (2..Len(use))
      OBVIOUS
    <3> HIDE DEF part
    <3> QED
      BY <2>2, <3>1, PartOfInterval
  <2> HIDE DEF n, c
  <2>4. over(TRUE, t.fpArgs) \in Nat /\ over(FALSE, t.args) \in Nat /\ Max({0, c - Len(t.args)}) \in Nat
    <3>1. /\ n(TRUE) - Len(t.fpArgs) \in Int /\ n(FALSE) - Len(t.args) \in Int
          /\ c - Len(t.args) \in Int
      <4> DEFINE x == Len(t.args)
                 y == Len(t.fpArgs)
      <4>1. x \in Nat /\ y \in Nat
        BY DEF Tables
      <4> DEFINE nt == n(TRUE)
                 nf == n(FALSE)
      <4>2. nt \in Nat /\ nf \in Nat
        BY <2>3
      <4> HIDE DEF x, y, nt, nf
      <4>3. nt - y \in Int /\ nf - x \in Int /\ c - x \in Int
        BY <2>3, <4>1, <4>2
      <4> QED
        BY <4>3 DEF x, y, nt, nf
    <3>2. \A x \in Int : Max({0, x}) \in Nat
      BY MaxOfTwo
    <3> QED
      BY <3>1, <3>2
  <2> DEFINE u == over(TRUE, t.fpArgs)
             v == over(FALSE, t.args)
             w == Max({0, c - Len(t.args)})
  <2>5. u \in Nat /\ v \in Nat /\ w \in Nat
    BY <2>4
  <2>6. StackArgs(InstAt(m, p), t) = IF t.positional THEN w ELSE u + v
    BY <2>1
  <2> HIDE DEF u, v, w
  <2> QED
    BY <2>5, <2>6
<1>3. most \in Nat
  <2> DEFINE g == [p \in Calls(m) |-> StackArgs(InstAt(m, p), t)]
  <2>1. \A p \in Calls(m) : g[p] \in Nat
    BY <1>2
  <2>2. Max({0} \cup {g[p] : p \in Calls(m)}) \in Nat
    <3>1. DOMAIN g = Calls(m)
      OBVIOUS
    <3> HIDE DEF g
    <3> QED
      BY <2>1, <3>1, MostFacts
  <2>3. {g[p] : p \in Calls(m)} = {StackArgs(InstAt(m, p), t) : p \in Calls(m)}
    OBVIOUS
  <2> QED
    BY <2>2, <2>3
<1>4. pushes \in Int
  <2>1. Len(saved) \in Nat
    BY InOrderLen DEF Tables
  <2> HIDE DEF saved
  <2> QED
    BY <2>1
<1>5. t.shadow \in Nat
  BY DEF Tables
<1> HIDE DEF most, saved, pushes
<1>6. outgoing \in Nat
  BY <1>3, <1>5
<1> HIDE DEF outgoing
<1>7. \A n \in DOMAIN m.slots : offs[m.slots[n].v] = -SlotEnd(m)[n]
  <2> TAKE n \in DOMAIN m.slots
  <2>1. offs[m.slots[n].v] = -SlotEnd(m)[SelectInSeq(m.slots, LAMBDA s : s.v = m.slots[n].v)]
    OBVIOUS
  <2> HIDE DEF offs
  <2> QED
    BY <2>1, SlotByName
<1>e. end \in Nat
  <2> DEFINE l == Len(m.slots)
  <2>1. l \in Nat
    BY DEF SlotsOK
  <2>2. \A n \in 0..l : SlotEnd(m)[n] \in Nat
    BY SlotEnds DEF Stacked
  <2> HIDE DEF l
  <2>3. SlotEnd(m)[l] \in Nat
    BY <2>1, <2>2
  <2> QED
    BY <2>3 DEF l
<1>8. f.stack_size \in Int /\ end + outgoing <= f.stack_size
  <2>1. locals \in Nat
    BY <1>6, <1>e
  <2>2. AlignUp(pushes + locals, 16) \in Int /\ pushes + locals <= AlignUp(pushes + locals, 16)
    <3>1. pushes + locals \in Int /\ 16 \in Nat \ {0}
      BY <2>1, <1>4
    <3> HIDE DEF locals
    <3> QED
      BY <3>1, AlignUpFacts
  <2> DEFINE al == AlignUp(pushes + locals, 16)
             e == locals
  <2>3. f.stack_size = (IF Calls(m) # {} \/ e > 0 THEN al - pushes ELSE 0) /\ e = end + outgoing
    BY <1>1
  <2>4. e \in Nat /\ al \in Int /\ pushes + e <= al
    BY <2>1, <2>2
  <2> HIDE DEF al, e, f, end
  <2> QED
    BY <2>3, <2>4, <1>4, <1>6
<1> HIDE DEF end, f, offs
<1> QED
  BY <1>1, <1>6, <1>7, <1>8 DEF f, end

LEMMA AlignedTo ==
  ASSUME NEW n \in Int, NEW a \in {1, 2, 4, 8, 16}
  PROVE  AlignUp(n, a) % a = 0
  BY DEF AlignUp

LEMMA MaxWithZero ==
  ASSUME NEW z \in Int
  PROVE  Max({0, z}) \in Nat
<1>1. Max({0, z}) \in {0, z} /\ 0 <= Max({0, z})
  BY MaxOfTwo
<1> QED
  BY <1>1

LEMMA A64Outgoing ==
  ASSUME NEW m, InSequence(m), NEW t, Tables(t)
  PROVE  a64_outgoing(m, t) \in Nat /\ a64_outgoing(m, t) % 16 = 0
<1> DEFINE part(use, fp) == {a \in 2..Len(use) : IsV(t, use[a].v) = fp}
           over(use, fp, regs) == Max({0, Cardinality(part(use, fp)) - Len(regs)})
           both(use) == over(use, TRUE, t.fpArgs) + over(use, FALSE, t.args)
           most == Max({0} \cup {both(InstAt(m, p).use) : p \in Calls(m)})
<1>1. a64_outgoing(m, t) = AlignUp(8 * most, 16)
  BY DEF a64_outgoing
<1>2. ASSUME NEW p \in Calls(m)
      PROVE  both(InstAt(m, p).use) \in Nat
  <2> DEFINE use == InstAt(m, p).use
             nt == Cardinality(part(use, TRUE))
             nf == Cardinality(part(use, FALSE))
             x == Len(t.args)
             y == Len(t.fpArgs)
             u == Max({0, nt - y})
             v == Max({0, nf - x})
  <2>1. both(use) = u + v
    OBVIOUS
  <2>2. Len(use) \in Nat
    BY CallUse
  <2> HIDE DEF use
  <2>3. nt \in Nat /\ nf \in Nat
    <3>1. part(use, TRUE) \in SUBSET (2..Len(use)) /\ part(use, FALSE) \in SUBSET (2..Len(use))
      OBVIOUS
    <3> HIDE DEF part
    <3> QED
      BY <2>2, <3>1, PartOfInterval
  <2>4. x \in Nat /\ y \in Nat
    BY DEF Tables
  <2> HIDE DEF nt, nf, x, y
  <2>5. u \in Nat /\ v \in Nat
    <3>1. nt - y \in Int /\ nf - x \in Int
      BY <2>3, <2>4
    <3> QED
      BY <3>1, MaxWithZero
  <2> HIDE DEF u, v, both
  <2>6. both(use) \in Nat
    BY <2>1, <2>5
  <2> QED
    BY <2>6 DEF use
<1> HIDE DEF both
<1>3. most \in Nat
  <2> DEFINE g == [p \in Calls(m) |-> both(InstAt(m, p).use)]
  <2>1. \A p \in Calls(m) : g[p] \in Nat
    BY <1>2
  <2>2. Max({0} \cup {g[p] : p \in Calls(m)}) \in Nat
    <3>1. DOMAIN g = Calls(m)
      OBVIOUS
    <3> HIDE DEF g
    <3> QED
      BY <2>1, <3>1, MostFacts
  <2>3. {g[p] : p \in Calls(m)} = {both(InstAt(m, p).use) : p \in Calls(m)}
    OBVIOUS
  <2> QED
    BY <2>2, <2>3
<1> HIDE DEF most
<1> DEFINE k == 8 * most
<1>4. k \in Int /\ 0 <= k /\ 16 \in Nat \ {0}
  BY <1>3
<1> HIDE DEF k
<1>5. AlignUp(k, 16) \in Int /\ k <= AlignUp(k, 16) /\ AlignUp(k, 16) % 16 = 0
  BY <1>4, AlignUpFacts, AlignedTo
<1> DEFINE o == AlignUp(k, 16)
<1>6. a64_outgoing(m, t) = o
  BY <1>1 DEF k
<1> HIDE DEF o
<1>7. o \in Nat /\ o % 16 = 0
  BY <1>4, <1>5 DEF o
<1> QED
  BY <1>6, <1>7

LEMMA A64Frame ==
  ASSUME NEW m, InSequence(m), SlotsOK(m.slots), NEW t, Tables(t)
  PROVE  LET f == aarch64_frame_layout(m, t)
         IN  /\ f.outgoing \in Nat /\ f.outgoing % 16 = 0
             /\ f.stack_size \in Int /\ Len(f.saved) \in Nat
             /\ a64_slot_end(m)[Len(m.slots)] + f.outgoing + 16 + 8 * Len(f.saved) <= f.stack_size
             /\ \A n \in DOMAIN m.slots : f.slot_offsets[m.slots[n].v] =
                   f.outgoing + a64_slot_end(m)[n] - m.slots[n].size
<1> DEFINE out == a64_outgoing(m, t)
           saved == a64_callee_saved(m, t)
           at(v) == SelectInSeq(m.slots, LAMBDA s : s.v = v)
           k == Len(saved)
           end == a64_slot_end(m)[Len(m.slots)]
           offs == [v \in {m.slots[n].v : n \in DOMAIN m.slots} |->
                             out + a64_slot_end(m)[at(v)] - m.slots[at(v)].size]
           f == aarch64_frame_layout(m, t)
<1>1. /\ f.outgoing = out /\ f.slot_offsets = offs /\ f.saved = saved
      /\ f.stack_size = AlignUp(AlignUp(16 + 8 * k, 16) + AlignUp(end, 16) + out, 16)
  BY DEF aarch64_frame_layout
<1>2. out \in Nat /\ out % 16 = 0
  BY A64Outgoing
<1>3. k \in Nat
  <2> DEFINE table == t.callee \o t.fpCallee
             X == ToSet(t.callee) \cup ToSet(t.fpCallee)
             touched(r) == \E p \in Positions(m) :
                         \/ InstAt(m, p).def = r
                         \/ \E o \in DOMAIN InstAt(m, p).use :
                               InstAt(m, p).use[o].k = "reg" /\ InstAt(m, p).use[o].v = r
             R == {r \in ToSet(table) : touched(r)}
  <2>1. saved = InOrder(table, R)
    BY DEF a64_callee_saved
  <2>2. table \in Seq(X)
    <3>1. t.callee \in Seq(ToSet(t.callee)) /\ t.fpCallee \in Seq(ToSet(t.fpCallee))
      BY DEF Tables
    <3>2. t.callee \in Seq(X) /\ t.fpCallee \in Seq(X)
      BY <3>1
    <3> HIDE DEF X
    <3> QED
      BY <3>2
  <2> HIDE DEF table, R, saved, X
  <2> QED
    BY <2>1, <2>2, InOrderLen
<1>4. end \in Nat
  <2> DEFINE l == Len(m.slots)
  <2>1. l \in Nat
    BY DEF SlotsOK
  <2>2. \A n \in 0..l : a64_slot_end(m)[n] \in Nat
    BY SlotEnds DEF Stacked
  <2> HIDE DEF l
  <2>3. a64_slot_end(m)[l] \in Nat
    BY <2>1, <2>2
  <2> QED
    BY <2>3 DEF l
<1>5. \A n \in DOMAIN m.slots : offs[m.slots[n].v] = out + a64_slot_end(m)[n] - m.slots[n].size
  <2> TAKE n \in DOMAIN m.slots
  <2>1. offs[m.slots[n].v] = out + a64_slot_end(m)[at(m.slots[n].v)] - m.slots[at(m.slots[n].v)].size
    OBVIOUS
  <2>2. at(m.slots[n].v) = n
    BY SlotByName
  <2> HIDE DEF offs, at, out
  <2> QED
    BY <2>1, <2>2
<1> HIDE DEF out, saved, k, end, offs, f
<1> DEFINE a == AlignUp(16 + 8 * k, 16)
           b == AlignUp(end, 16)
           c == AlignUp(a + b + out, 16)
<1>6. a \in Int /\ 16 + 8 * k <= a
  <2>1. 16 + 8 * k \in Int /\ 16 \in Nat \ {0}
    BY <1>3
  <2> QED
    BY <2>1, AlignUpFacts
<1>7. b \in Int /\ end <= b
  <2>1. end \in Int /\ 16 \in Nat \ {0}
    BY <1>4
  <2> QED
    BY <2>1, AlignUpFacts
<1> HIDE DEF a, b
<1>8. c \in Int /\ a + b + out <= c
  <2>1. a + b + out \in Int /\ 16 \in Nat \ {0}
    BY <1>2, <1>6, <1>7
  <2> QED
    BY <2>1, AlignUpFacts
<1>9. f.stack_size = c
  BY <1>1 DEF a, b
<1> HIDE DEF c
<1>10. end + out + 16 + 8 * k <= c
  BY <1>2, <1>3, <1>4, <1>6, <1>7, <1>8
<1> QED
  BY <1>1, <1>2, <1>3, <1>5, <1>8, <1>9, <1>10 DEF f, end, k

-----------------------------------------------------------------------------
(* What instruction selection finds and the frame it makes.                *)
FrameInv ==
    /\ phase \in {"select", "done"} => InSequence(mfn) /\ SlotsOK(mfn.slots)
    /\ phase = "done" =>
          code.frame = IF target.arch = "x86" THEN x86_frame_layout(mfn, target)
                       ELSE aarch64_frame_layout(mfn, target)

LEMMA FrameStep == MachineInv /\ FrameInv /\ [BackendNext]_beVars => FrameInv'
<1> SUFFICES ASSUME MachineInv, FrameInv, [BackendNext]_beVars
             PROVE  FrameInv'
  OBVIOUS
<1>1. CASE LowerToMir \/ LiveTurn \/ LiveRound \/ BuildIntervals \/ ScanInterval
  <2>1. phase' \notin {"select", "done"}
    BY <1>1 DEF LowerToMir, LiveTurn, LiveRound, BuildIntervals, ScanInterval
  <2> QED
    BY <2>1 DEF FrameInv
<1>2. CASE Rewrite
  <2>1. phase = "scan" /\ phase' = "select"
    BY <1>2 DEF Rewrite
  <2>2. mfn = Lowered /\ WellFormed(mfn)
    BY <2>1, LoweredIsWellFormed DEF MachineInv
  <2>3. InSequence(mfn') /\ SlotsOK(mfn'.slots)
    BY <1>2, <2>2, RewriteInSequence, RewriteSlots
  <2> QED
    BY <2>1, <2>3 DEF FrameInv
<1>3. CASE Select
  <2>1. phase = "select" /\ phase' = "done" /\ mfn' = mfn /\ target' = target
    BY <1>3 DEF Select
  <2>2. code' = IF target.arch = "x86" THEN x86_lower_func(mfn, FpParams, target)
                ELSE aarch64_lower_func(mfn, FpParams, target)
    BY <1>3, Zenon DEF Select
  <2>3. x86_lower_func(mfn, FpParams, target).frame = x86_frame_layout(mfn, target)
    BY DEF x86_lower_func
  <2>4. aarch64_lower_func(mfn, FpParams, target).frame = aarch64_frame_layout(mfn, target)
    BY DEF aarch64_lower_func
  <2>5. code'.frame = IF target.arch = "x86" THEN x86_frame_layout(mfn, target)
                      ELSE aarch64_frame_layout(mfn, target)
    BY <2>2, <2>3, <2>4
  <2> QED
    BY <2>1, <2>5 DEF FrameInv
<1>4. CASE Finished \/ UNCHANGED beVars
  <2>1. phase' = phase /\ mfn' = mfn /\ target' = target /\ code' = code
    BY <1>4 DEF Finished, beVars, vars
  <2> QED
    BY <2>1 DEF FrameInv
<1> QED
  BY <1>1, <1>2, <1>3, <1>4 DEF BackendNext, AllocNext

(* The ends of a slot and of any other one, as numbers.                    *)
LEMMA StackedPair ==
  ASSUME NEW slots, SlotsOK(slots), NEW unit, NEW E, Stacked(slots, unit, E),
         NEW n \in DOMAIN slots
  PROVE  /\ n \in Nat /\ E[n-1] \in Nat /\ E[n] \in Nat /\ slots[n].size \in Nat
         /\ E[n] = AlignUp(E[n-1], unit[n]) + slots[n].size
         /\ unit[n] \in Nat \ {0} => E[n-1] + slots[n].size <= E[n]
         /\ E[n] <= E[Len(slots)] /\ E[Len(slots)] \in Nat
         /\ \A k \in DOMAIN slots : k < n => E[k] <= E[n-1]
<1> DEFINE l == Len(slots)
<1>1. l \in Nat /\ DOMAIN slots = 1..l /\ slots[n].size \in Nat
  BY DEF SlotsOK
<1>2. /\ \A j \in 0..l : E[j] \in Nat
      /\ \A j \in 1..l : E[j] = AlignUp(E[j-1], unit[j]) + slots[j].size
      /\ \A j, k \in 0..l : j <= k => E[j] <= E[k]
  BY DEF Stacked
<1> HIDE DEF l
<1>3. n \in 1..l /\ n \in 0..l /\ n-1 \in 0..l /\ l \in 0..l /\ n <= l
  BY <1>1
<1>4. E[n-1] \in Nat /\ E[n] \in Nat /\ E[l] \in Nat /\ E[n] <= E[l]
      /\ E[n] = AlignUp(E[n-1], unit[n]) + slots[n].size
  BY <1>2, <1>3
<1>5. ASSUME NEW k \in DOMAIN slots, k < n
      PROVE  E[k] <= E[n-1]
  <2>1. k \in 0..l /\ k <= n-1
    BY <1>1, <1>3, <1>5
  <2> QED
    BY <2>1, <1>2, <1>3
<1>6. ASSUME unit[n] \in Nat \ {0}
      PROVE  E[n-1] + slots[n].size <= E[n]
  <2>1. E[n-1] \in Int
    BY <1>4
  <2>2. AlignUp(E[n-1], unit[n]) \in Int /\ E[n-1] <= AlignUp(E[n-1], unit[n])
    BY <1>6, <2>1, AlignUpFacts
  <2> QED
    BY <1>1, <1>4, <2>2
<1> QED
  BY <1>1, <1>3, <1>4, <1>5, <1>6 DEF l

(* The start of a slot is aligned when its size keeps the alignment.       *)
LEMMA StartAligned ==
  ASSUME NEW e \in Nat, NEW s \in Nat, NEW a \in {1, 2, 4, 8}, NEW u \in {4, 8},
         a \in {1, 2, 4} => u = 4, a = 8 => u = 8, s % a = 0
  PROVE  /\ (-(AlignUp(e, u) + s)) % a = 0
         /\ \A o \in Nat : o % 16 = 0 => (o + AlignUp(e, u)) % a = 0
<1> DEFINE w == AlignUp(e, u)
<1>1. w \in Int /\ w % u = 0
  <2>1. e \in Int /\ u \in Nat \ {0} /\ u \in {1, 2, 4, 8, 16}
    OBVIOUS
  <2> QED
    BY <2>1, AlignUpFacts, AlignedTo
<1> HIDE DEF w
<1>2. w % a = 0
  BY <1>1
<1>3. (-(w + s)) % a = 0
  <2>1. CASE a = 1
    BY <2>1, <1>1
  <2>2. CASE a = 2
    BY <2>2, <1>1, <1>2
  <2>3. CASE a = 4
    BY <2>3, <1>1, <1>2
  <2>4. CASE a = 8
    BY <2>4, <1>1, <1>2
  <2> QED
    BY <2>1, <2>2, <2>3, <2>4
<1>4. ASSUME NEW o \in Nat, o % 16 = 0
      PROVE  (o + w) % a = 0
  BY <1>1, <1>2, <1>4
<1> QED
  BY <1>3, <1>4 DEF w

(* The lower end of a slot.                                                *)
Lo(n) == code.frame.slot_offsets[mfn.slots[n].v]
Size(n) == mfn.slots[n].size

LEMMA X86Disjoint ==
  ASSUME MachineInv, FrameInv, phase = "done", target.arch = "x86", NEW n \in DOMAIN mfn.slots
  PROVE  /\ Lo(n) >= FrameBottom + code.frame.outgoing /\ Lo(n) + Size(n) <= FrameTop
         /\ mfn.slots[n].align \in {1, 2, 4, 8} /\ Size(n) % mfn.slots[n].align = 0 =>
               Lo(n) % mfn.slots[n].align = 0
         /\ \A k \in DOMAIN mfn.slots : k < n => Lo(n) + Size(n) <= Lo(k)
<1> DEFINE E == SlotEnd(mfn)
           out == code.frame.outgoing
           size == code.frame.stack_size
           u == X86Unit(mfn.slots)
           l == Len(mfn.slots)
<1>1. InSequence(mfn) /\ SlotsOK(mfn.slots) /\ Tables(target)
      /\ code.frame = x86_frame_layout(mfn, target)
  BY TablesHold DEF FrameInv
<1>2. /\ out \in Nat /\ size \in Int /\ E[l] + out <= size
      /\ \A k \in DOMAIN mfn.slots : Lo(k) = -E[k]
  BY <1>1, X86Frame DEF Lo
<1>3. Stacked(mfn.slots, u, E)
  BY <1>1, SlotEnds
<1>4. \A k \in DOMAIN mfn.slots : u[k] \in Nat \ {0}
  BY <1>1, UnitFacts
<1>5. FrameBottom = -size /\ FrameTop = 0
  BY DEF FrameBottom, FrameTop
<1> HIDE DEF E, out, size, u, l
<1>6. /\ n \in Nat /\ E[n-1] \in Nat /\ E[n] \in Nat /\ Size(n) \in Nat
      /\ E[n] = AlignUp(E[n-1], u[n]) + Size(n)
      /\ E[n-1] + Size(n) <= E[n]
      /\ E[n] <= E[l] /\ E[l] \in Nat
      /\ \A k \in DOMAIN mfn.slots : k < n => E[k] <= E[n-1]
  BY <1>1, <1>3, <1>4, StackedPair DEF Size, l
<1>7. Lo(n) = -E[n]
  BY <1>2
<1>8. Lo(n) >= FrameBottom + out
  BY <1>2, <1>5, <1>6, <1>7
<1>9. Lo(n) + Size(n) <= FrameTop
  BY <1>5, <1>6, <1>7
<1>10. ASSUME NEW k \in DOMAIN mfn.slots, k < n
       PROVE  Lo(n) + Size(n) <= Lo(k)
  <2>1. E[k] \in Nat /\ E[k] <= E[n-1] /\ Lo(k) = -E[k]
    BY <1>1, <1>2, <1>3, <1>6, <1>10, StackedPair
  <2> QED
    BY <2>1, <1>6, <1>7
<1>11. ASSUME mfn.slots[n].align \in {1, 2, 4, 8}, Size(n) % mfn.slots[n].align = 0
       PROVE  Lo(n) % mfn.slots[n].align = 0
  <2> DEFINE a == mfn.slots[n].align
  <2>1. (a \in {1, 2, 4} => u[n] = 4) /\ (a = 8 => u[n] = 8)
    BY <1>1, UnitFacts DEF u
  <2>2. a \in {1, 2, 4, 8} /\ Size(n) % a = 0
    BY <1>11
  <2> HIDE DEF a
  <2>3. u[n] \in {4, 8}
    BY <2>1, <2>2
  <2>4. (-(AlignUp(E[n-1], u[n]) + Size(n))) % a = 0
    BY <1>6, <2>1, <2>2, <2>3, StartAligned
  <2> QED
    BY <2>4, <1>6, <1>7 DEF a
<1> QED
  BY <1>8, <1>9, <1>10, <1>11 DEF out

LEMMA A64Disjoint ==
  ASSUME MachineInv, FrameInv, phase = "done", target.arch # "x86", NEW n \in DOMAIN mfn.slots
  PROVE  /\ Lo(n) >= FrameBottom + code.frame.outgoing /\ Lo(n) + Size(n) <= FrameTop
         /\ mfn.slots[n].align \in {1, 2, 4, 8} /\ Size(n) % mfn.slots[n].align = 0 =>
               Lo(n) % mfn.slots[n].align = 0
         /\ \A k \in DOMAIN mfn.slots : k < n => Lo(k) + Size(k) <= Lo(n)
<1> DEFINE E == a64_slot_end(mfn)
           out == code.frame.outgoing
           size == code.frame.stack_size
           c == Len(code.frame.saved)
           u == A64Unit(mfn.slots)
           l == Len(mfn.slots)
<1>1. InSequence(mfn) /\ SlotsOK(mfn.slots) /\ Tables(target)
      /\ code.frame = aarch64_frame_layout(mfn, target)
  BY TablesHold DEF FrameInv
<1>2. /\ out \in Nat /\ out % 16 = 0 /\ size \in Int /\ c \in Nat
      /\ E[l] + out + 16 + 8 * c <= size
      /\ \A k \in DOMAIN mfn.slots : Lo(k) = out + E[k] - Size(k)
  BY <1>1, A64Frame DEF Lo, Size
<1>3. Stacked(mfn.slots, u, E)
  BY <1>1, SlotEnds
<1>4. \A k \in DOMAIN mfn.slots : u[k] \in Nat \ {0}
  BY <1>1, UnitFacts
<1>5. FrameBottom = 0 /\ FrameTop = size - 16 - 8 * c
  BY DEF FrameBottom, FrameTop
<1> HIDE DEF E, out, size, u, l, c
<1>6. /\ n \in Nat /\ E[n-1] \in Nat /\ E[n] \in Nat /\ Size(n) \in Nat
      /\ E[n] = AlignUp(E[n-1], u[n]) + Size(n)
      /\ E[n-1] + Size(n) <= E[n]
      /\ E[n] <= E[l] /\ E[l] \in Nat
      /\ \A k \in DOMAIN mfn.slots : k < n => E[k] <= E[n-1]
  BY <1>1, <1>3, <1>4, StackedPair DEF Size, l
<1>7. Lo(n) = out + E[n] - Size(n)
  BY <1>2
<1>8. Lo(n) >= FrameBottom + out
  BY <1>2, <1>5, <1>6, <1>7
<1>9. Lo(n) + Size(n) <= FrameTop
  BY <1>2, <1>5, <1>6, <1>7
<1>10. ASSUME NEW k \in DOMAIN mfn.slots, k < n
       PROVE  Lo(k) + Size(k) <= Lo(n)
  <2>1. E[k] \in Nat /\ E[k] <= E[n-1] /\ Size(k) \in Nat /\ Lo(k) = out + E[k] - Size(k)
    BY <1>1, <1>2, <1>3, <1>6, <1>10, StackedPair DEF Size
  <2> QED
    BY <2>1, <1>2, <1>6, <1>7
<1>11. ASSUME mfn.slots[n].align \in {1, 2, 4, 8}, Size(n) % mfn.slots[n].align = 0
       PROVE  Lo(n) % mfn.slots[n].align = 0
  <2> DEFINE a == mfn.slots[n].align
             w == AlignUp(E[n-1], u[n])
  <2>1. (a \in {1, 2, 4} => u[n] = 4) /\ (a = 8 => u[n] = 8)
    BY <1>1, UnitFacts DEF u
  <2>2. a \in {1, 2, 4, 8} /\ Size(n) % a = 0
    BY <1>11
  <2> HIDE DEF a
  <2>3. u[n] \in {4, 8}
    BY <2>1, <2>2
  <2>4. (out + w) % a = 0
    BY <1>2, <1>6, <2>1, <2>2, <2>3, StartAligned
  <2>5. w \in Int
    <3>1. E[n-1] \in Int /\ u[n] \in Nat \ {0}
      BY <1>6, <2>3
    <3> QED
      BY <3>1, AlignUpFacts
  <2>6. Lo(n) = out + w
    <3>1. E[n] = w + Size(n)
      BY <1>6
    <3> HIDE DEF w
    <3> QED
      BY <3>1, <2>5, <1>2, <1>6, <1>7
  <2> QED
    BY <2>4, <2>6 DEF a
<1> QED
  BY <1>8, <1>9, <1>10, <1>11 DEF out

(***************************************************************************)
(* FrameDisjoint, for any function, any sizes and alignments of slots and  *)
(* any number of spilled registers, of call arguments and of saved         *)
(* registers: slots, outgoing arguments and saved registers do not         *)
(* overlap.                                                                *)
(***************************************************************************)
THEOREM FrameDisjointCorrect == BackendSpec => []FrameDisjoint
<1>1. BackendInit => MachineInv /\ FrameInv
  BY DEF BackendInit, Init, MachineInv, FrameInv
<1>2. MachineInv /\ FrameInv /\ [BackendNext]_beVars => (MachineInv /\ FrameInv)'
  BY MachineStep, FrameStep
<1>3. MachineInv /\ FrameInv => FrameDisjoint
  <2> SUFFICES ASSUME MachineInv, FrameInv, phase = "done", NEW n \in DOMAIN mfn.slots
               PROVE  /\ SlotRange(n).lo >= FrameBottom + code.frame.outgoing
                      /\ SlotRange(n).hi <= FrameTop
                      /\ mfn.slots[n].align \in {1, 2, 4, 8} /\ mfn.slots[n].size % mfn.slots[n].align = 0 =>
                            SlotRange(n).lo % mfn.slots[n].align = 0
                      /\ \A k \in DOMAIN mfn.slots : k # n =>
                            SlotRange(n).hi <= SlotRange(k).lo \/ SlotRange(k).hi <= SlotRange(n).lo
    BY DEF FrameDisjoint
  <2>1. \A k \in DOMAIN mfn.slots : SlotRange(k).lo = Lo(k) /\ SlotRange(k).hi = Lo(k) + Size(k)
    BY DEF SlotRange, Lo, Size
  <2>2. mfn.slots[n].size = Size(n)
    BY DEF Size
  <2>3. DOMAIN mfn.slots \in SUBSET Nat
    BY DEF FrameInv, SlotsOK
  <2>4. ASSUME NEW k \in DOMAIN mfn.slots, k # n
        PROVE  Lo(n) + Size(n) <= Lo(k) \/ Lo(k) + Size(k) <= Lo(n)
    <3>1. k < n \/ n < k
      <4>1. k \in Nat /\ n \in Nat
        BY <2>3
      <4> QED
        BY <2>4, <4>1
    <3>2. CASE target.arch = "x86"
      BY <3>1, <3>2, X86Disjoint
    <3>3. CASE target.arch # "x86"
      BY <3>1, <3>3, A64Disjoint
    <3> QED
      BY <3>2, <3>3
  <2>5. /\ Lo(n) >= FrameBottom + code.frame.outgoing /\ Lo(n) + Size(n) <= FrameTop
        /\ mfn.slots[n].align \in {1, 2, 4, 8} /\ Size(n) % mfn.slots[n].align = 0 =>
              Lo(n) % mfn.slots[n].align = 0
    <3>1. CASE target.arch = "x86"
      BY <3>1, X86Disjoint
    <3>2. CASE target.arch # "x86"
      BY <3>2, A64Disjoint
    <3> QED
      BY <3>1, <3>2
  <2> HIDE DEF FrameBottom, FrameTop
  <2> QED
    BY <2>1, <2>2, <2>4, <2>5
<1> QED
  BY <1>1, <1>2, <1>3, PTL DEF BackendSpec

=============================================================================
