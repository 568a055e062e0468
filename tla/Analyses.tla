------------------------------ MODULE Analyses ------------------------------
(***************************************************************************)
(* The analyses of src/analysis and the dominator tree of the validator,   *)
(* as operators on a function of NyFunction.  Every instruction carries    *)
(* its number in the array of instructions as res[2]; a value is           *)
(* <<"val", n>>, an immediate Const(c).                                    *)
(***************************************************************************)
EXTENDS CfgRewrites

IsVal(v) == v[1] = "val"

(* The value operands of an instruction, in operand order.                  *)
ValueOperands(i) ==
    SelectSeq(IF i.op = "phi" THEN [k \in DOMAIN i.in |-> i.in[k][1]] ELSE i.use, IsVal)

Linked(f) == UNION {{<<b, k>> : k \in DOMAIN f[b].insts} : b \in DOMAIN f}
At(f, p) == f[p[1]].insts[p[2]]
Number(i) == i.res[2]

(* Positions of the linked instructions in the order of the array.          *)
InArrayOrder(f) ==
    LET here == Linked(f)
        numbers == {Number(At(f, p)) : p \in here}
        order == SelectSeq([n \in 1 .. Max(numbers \cup {0}) |-> n], LAMBDA n : n \in numbers)
    IN  [k \in DOMAIN order |-> CHOOSE p \in here : Number(At(f, p)) = order[k]]

(* Where value v is defined; empty when nothing linked defines it.          *)
DefOf(f, v) == {p \in Linked(f) : At(f, p).res = v}

-----------------------------------------------------------------------------
(* use_def.c                                                                *)

(* uses[v]: the instructions that read v, once per operand, array order.    *)
ny_use_def_init(f, values) ==
    LET order == InArrayOrder(f)
        reads(i, v) == SelectSeq(ValueOperands(i), LAMBDA w : w = v)
    IN  [v \in values |->
            FoldLeft(LAMBDA s, p : s \o [k \in DOMAIN reads(At(f, p), v) |-> At(f, p).res],
                     <<>>, order)]

-----------------------------------------------------------------------------
(* cfg.c, and the first half of both dominator.c                            *)

(* The depth-first search: [seen, stack, po, back].  A frame of the stack   *)
(* is <<block, successors taken>>; back collects the edges to a block that  *)
(* is on the stack.                                                         *)
DfsTurn(f, s) ==
    LET top == Last(s.stack)
        b == top[1]
        n == top[2] + 1
    IN  IF n <= Len(f[b].succs)
        THEN LET t == f[b].succs[n]
                 moved == Append(Front(s.stack), <<b, n>>)
                 open == {s.stack[k][1] : k \in DOMAIN s.stack}
             IN  CASE t \in open -> [s EXCEPT !.stack = moved, !.back = Append(@, <<b, t>>)]
                   [] t \notin s.seen -> [s EXCEPT !.stack = Append(moved, <<t, 0>>),
                                                   !.seen = @ \cup {t}]
                   [] OTHER -> [s EXCEPT !.stack = moved]
        ELSE [s EXCEPT !.stack = Front(@), !.po = Append(@, b)]

Dfs(f) ==
    LET bound == FoldLeft(LAMBDA n, blk : n + 1 + Len(blk.succs), 0, f)
        run[n \in 0 .. bound] ==
            IF n = 0 THEN [seen |-> {Entry}, stack |-> <<<<Entry, 0>>>>, po |-> <<>>, back |-> <<>>]
            ELSE LET s == run[n-1] IN IF s.stack = <<>> THEN s ELSE DfsTurn(f, s)
    IN  run[bound]

(* Mutant: the post-order is taken for the reverse post-order.              *)
CfgInfoPostOrder(f) ==
    LET d == Dfs(f)
    IN  [rpo |-> d.po, back |-> ToSet(d.back), headers |-> {e[2] : e \in ToSet(d.back)}]

ny_cfg_info_init(f) ==
    LET d == Dfs(f)
    IN  [rpo |-> Reverse(d.po), back |-> ToSet(d.back), headers |-> {e[2] : e \in ToSet(d.back)}]

-----------------------------------------------------------------------------
(* dominator.c                                                              *)

NoBlock == 0

(* The nearest common ancestor in the tree built so far: the one that is    *)
(* later in the order climbs.                                               *)
dom_intersect(idom, rpo, b1, b2) ==
    LET climb[n \in 0 .. 2 * Len(rpo)] ==
            IF n = 0 THEN <<b1, b2>>
            ELSE LET pair == climb[n-1]
                     x == pair[1]
                     y == pair[2]
                 IN  CASE rpo[x] > rpo[y] -> <<idom[x], y>>
                       [] rpo[y] > rpo[x] -> <<x, idom[y]>>
                       [] OTHER -> <<x, y>>
    IN  climb[2 * Len(rpo)][1]

(* One block of a round: its first placed predecessor, intersected with     *)
(* the other placed ones.                                                   *)
NewIdom(f, idom, rpo, b) ==
    LET placed == SelectSeq(f[b].preds, LAMBDA p : idom[p] # NoBlock)
    IN  IF placed = <<>> THEN idom[b]
        ELSE FoldLeft(LAMBDA d, p : IF p = d THEN d ELSE dom_intersect(idom, rpo, p, d),
                      placed[1], placed)

DomBlock(f, idom, rpo, b) == [idom EXCEPT ![b] = NewIdom(f, idom, rpo, b)]

(* Rounds over the reverse post-order until nothing changes; idom[b] is     *)
(* NoBlock for a block the search did not reach.                            *)
ny_dominator_tree_init(f) ==
    LET order == Reverse(Dfs(f).po)
        rpo == [b \in DOMAIN f |-> SelectInSeq(order, LAMBDA c : c = b)]
        start == [b \in DOMAIN f |-> IF b = Entry THEN Entry ELSE NoBlock]
        round[n \in 0 .. Len(f)] ==
            IF n = 0 THEN start
            ELSE FoldLeft(LAMBDA d, b : DomBlock(f, d, rpo, b), round[n-1], Tail(order))
    IN  [idom |-> round[Len(f)], rpo |-> rpo]

ny_dominator_tree_dominates(dt, a, b) ==
    LET up[n \in 0 .. Len(dt.idom)] ==
            IF n = 0 THEN b
            ELSE LET c == up[n-1]
                 IN  IF c \in {a, Entry} \/ dt.idom[c] = NoBlock THEN c ELSE dt.idom[c]
    IN  a = b \/ (dt.rpo[a] > 0 /\ dt.rpo[b] > 0 /\ up[Len(dt.idom)] = a)

(* Mutant: only the predecessors of a join have it in their frontier.       *)
FrontierOfPreds(f, dt) ==
    [a \in DOMAIN f |->
        {b \in DOMAIN f : /\ Len(f[b].preds) >= 2
                          /\ \E p \in ToSet(f[b].preds) : p # dt.idom[b] /\ a = p}]

(* frontier[a]: the joins whose predecessor a dominates, climbing from each *)
(* predecessor of a join up to the join's dominator.                        *)
Frontier(f, dt) ==
    LET climb(b, p) ==
            LET up[n \in 0 .. Len(f)] ==
                    IF n = 0 THEN IF p = dt.idom[b] THEN <<>> ELSE <<p>>
                    ELSE LET s == up[n-1]
                         IN  IF s = <<>> \/ Last(s) = Entry \/ dt.idom[Last(s)] \in {Last(s), dt.idom[b], NoBlock}
                             THEN s ELSE Append(s, dt.idom[Last(s)])
            IN  ToSet(up[Len(f)])
    IN  [a \in DOMAIN f |->
            {b \in DOMAIN f : /\ Len(f[b].preds) >= 2
                              /\ \E p \in ToSet(f[b].preds) : a \in climb(b, p)}]

-----------------------------------------------------------------------------
(* liveness.c                                                               *)

PhiDefs(f, b) == {f[b].insts[k].res : k \in {j \in DOMAIN f[b].insts : f[b].insts[j].op = "phi"}}

(* Values read before the block defines them; phis read on the edge.        *)
UseGen(f, b) ==
    {v \in UNION {ToSet(ValueOperands(f[b].insts[k])) :
                    k \in {j \in DOMAIN f[b].insts : f[b].insts[j].op # "phi"}} :
        LET first == SelectInSeq(f[b].insts, LAMBDA i : i.op # "phi" /\ Contains(ValueOperands(i), v))
        IN  \A j \in 1 .. first - 1 : f[b].insts[j].res # v}

DefKill(f, b) == {f[b].insts[k].res : k \in DOMAIN f[b].insts}

EdgeUses(f, b, s) ==
    {v \in UNION {{f[s].insts[k].in[j][1] : j \in {h \in DOMAIN f[s].insts[k].in : f[s].insts[k].in[h][2] = b}}
                    : k \in LeadingPhis(f, s)} : IsVal(v)}

(* Mutant: the values phis read are live at the start of the phi's block    *)
(* only.                                                                    *)
LiveOutWithoutEdges(f, in, b) ==
    UNION {in[s] \ PhiDefs(f, s) : s \in ToSet(f[b].succs)}

LiveOut(f, in, b) ==
    UNION {(in[s] \ PhiDefs(f, s)) \cup EdgeUses(f, b, s) : s \in ToSet(f[b].succs)}

LiveInOf(f, in, b) == UseGen(f, b) \cup (LiveOut(f, in, b) \ DefKill(f, b))

(* Rounds from the last block to the first until nothing changes.           *)
ny_liveness_init(f) ==
    LET round[n \in 0 .. Len(f) + 1] ==
            IF n = 0 THEN [b \in DOMAIN f |-> {}]
            ELSE FoldLeft(LAMBDA in, b : [in EXCEPT ![b] = LiveInOf(f, in, b)],
                          round[n-1], Reverse([b \in DOMAIN f |-> b]))
        in == round[Len(f) + 1]
    IN  [in |-> in, out |-> [b \in DOMAIN f |-> LiveOut(f, in, b)]]

=============================================================================
