---------------------------- MODULE CfgRewrites -----------------------------
(***************************************************************************)
(* The bodies of the loops of ny_canonicalize_cfg and                      *)
(* ny_opt_pass_cfg_simplify: what a turn of each does to the function at   *)
(* one block.                                                              *)
(***************************************************************************)
EXTENDS NyFunction

(* Instructions after the first terminator go; edges they added stay.       *)
Trim(f, b) ==
    LET k == SelectInSeq(f[b].insts, IsTerminator)
    IN IF k = 0 THEN f ELSE [f EXCEPT ![b].insts = SubSeq(@, 1, k)]

EndsInBranchIf(f, b) == HasLast(f, b) /\ LastInst(f, b).op = "branch_if"

SameTargets(f, b) ==
    EndsInBranchIf(f, b) /\ LastInst(f, b).to[1] = LastInst(f, b).to[2]

(* branch_if with one target becomes branch.  The loop over the target's    *)
(* predecessors drops repeated entries of b; ny_block_add_edge makes none.  *)
FoldSame(f, b) ==
    IF SameTargets(f, b)
    THEN LET t == LastInst(f, b).to[1]
         IN [SetLast(f, b, Rebranch(LastInst(f, b), t)) EXCEPT
               ![b].succs = IF Len(@) > 1 THEN <<t>> ELSE @]
    ELSE f

(* Mutant: the branch goes to the other target.                             *)
FoldConstSwapped(f, b) ==
    IF EndsInBranchIf(f, b) /\ ConstInt(f, LastInst(f, b).use[1]) # <<>>
    THEN LET i == LastInst(f, b)
             zero == ConstInt(f, i.use[1]) = <<0>>
             taken == IF zero THEN i.to[1] ELSE i.to[2]
             dead == IF zero THEN i.to[2] ELSE i.to[1]
             g == ny_block_remove_edge(SetLast(f, b, Rebranch(i, taken)), b, dead)
         IN ny_function_remove_phi_incoming(g, dead, b)
    ELSE f

(* branch_if on a constant becomes branch, and the edge not taken goes.     *)
FoldConst(f, b) ==
    IF EndsInBranchIf(f, b) /\ ConstInt(f, LastInst(f, b).use[1]) # <<>>
    THEN LET i == LastInst(f, b)
             zero == ConstInt(f, i.use[1]) = <<0>>
             taken == IF zero THEN i.to[2] ELSE i.to[1]
             dead == IF zero THEN i.to[1] ELSE i.to[2]
             g == ny_block_remove_edge(SetLast(f, b, Rebranch(i, taken)), b, dead)
         IN ny_function_remove_phi_incoming(g, dead, b)
    ELSE f

FoldBranch(f, b) == IF SameTargets(f, b) THEN FoldSame(f, b) ELSE FoldConst(f, b)

InstOf(f, b, r) == f[b].insts[SelectInSeq(f[b].insts, LAMBDA i : i.res = r)]

(* Only values are compared with the first operand: an immediate after it   *)
(* passes for the same.                                                     *)
AllSame(in) ==
    in # <<>> /\ \A k \in 2..Len(in) : IsImm(in[k][1]) \/ in[k][1] = in[1][1]

(* The id read from the operand of a pair; that of an immediate is no value *)
(* of the function (as a number it may be the id of some other value).      *)
ValOf(o) == IF IsImm(o) THEN NoVal ELSE o

(* The phi with result r gives way to the value of its first pair.          *)
ReplacePhi(f, b, r) ==
    ny_function_remove_instruction(
        ny_function_replace_all_uses(f, r, ValOf(InstOf(f, b, r).in[1][1])), b, r)

Results(f, b, ks) == [k \in DOMAIN ks |-> f[b].insts[ks[k]].res]
PhiPositions(f, b) ==
    SelectSeq([k \in DOMAIN f[b].insts |-> k], LAMBDA k : f[b].insts[k].op = "phi")

(* A phi whose values are all the same, anywhere in the block.              *)
DropEqualPhis(f, b) ==
    FoldLeft(LAMBDA g, r : IF AllSame(InstOf(g, b, r).in)
                           THEN ReplacePhi(g, b, r) ELSE g,
             f, Results(f, b, PhiPositions(f, b)))

(* A phi at the start of a block with one predecessor.                      *)
DropSinglePhis(f, b) ==
    IF Len(f[b].preds) = 1
    THEN FoldLeft(LAMBDA g, r : IF /\ InstOf(g, b, r).in # <<>>
                                   /\ ~IsImm(InstOf(g, b, r).in[1][1])
                                THEN ReplacePhi(g, b, r) ELSE g,
                  f, Results(f, b, SelectSeq(PhiPositions(f, b),
                                             LAMBDA k : k \in LeadingPhis(f, b))))
    ELSE f

(* Block b is only a branch to t: its predecessors go to t themselves, one  *)
(* after the other, and each takes over the pairs of the phis of t that     *)
(* came from b, so only the first finds any.                                *)
OnlyBranches(f, b) ==
    /\ b # Entry
    /\ Len(f[b].insts) = 1
    /\ LastInst(f, b).op = "branch"
    /\ LastInst(f, b).to[1] # b

Retarget(f, p, b, t) ==
    IF HasLast(f, p)
    THEN SetLast(f, p, [LastInst(f, p) EXCEPT !.to = ReplaceAll(@, b, t)])
    ELSE f

Relabel(f, t, b, p) ==
    LET phis == LeadingPhis(f, t)
    IN [f EXCEPT ![t].insts =
          [k \in DOMAIN @ |->
             IF k \in phis
             THEN [@[k] EXCEPT !.in =
                     [j \in DOMAIN @ |-> IF @[j][2] = b THEN <<@[j][1], p>> ELSE @[j]]]
             ELSE @[k]]]

RedirectFirst(f, b, t) ==
    LET p == f[b].preds[1]
        g == ny_block_remove_edge(Retarget(f, p, b, t), p, b)
    IN Relabel(ny_block_add_edge(g, p, t), t, b, p)

Forward(f, b) ==
    IF OnlyBranches(f, b)
    THEN LET t == LastInst(f, b).to[1]
         IN FoldLeft(LAMBDA g, p : RedirectFirst(g, b, t), f, f[b].preds)
    ELSE f

(* Both passes join a block with the only block it leads to, if that has no *)
(* other predecessor.                                                       *)
MergeNext(f, b) ==
    IF HasLast(f, b) /\ Len(f[b].succs) = 1 /\ MayMerge(f, b, f[b].succs[1])
    THEN ny_function_merge_blocks(f, b, f[b].succs[1]) ELSE f

MergeNextSimplify(f, b) ==
    IF Len(f[b].succs) = 1 /\ f[b].succs[1] # Entry THEN MergeNext(f, b) ELSE f

(* The breadth-first search of both passes, along succs.                    *)
Reachable(f) ==
    LET R[k \in 0..Len(f)] ==
          IF k = 0 THEN {Entry}
          ELSE LET S == R[k-1] IN S \cup UNION {ToSet(f[b].succs) : b \in S}
    IN R[Len(f)]

(* A block to drop that is blank already does not count as a change.        *)
DropUnreached(f, b, R) ==
    IF b # Entry /\ b \notin R /\ f[b] # BlankBlock
    THEN ny_function_remove_block(f, b) ELSE f

(* cfg_simplify first takes the block out of its successors' phis.  The     *)
(* loop index moves on while ny_block_remove_edge shrinks the array under   *)
(* it: every second successor is passed over.                               *)
Unlink(f, b) ==
    LET turn[k \in 0..Len(f[b].succs)] ==
          IF k = 0 THEN f
          ELSE LET g == turn[k-1] IN
               IF k <= Len(g[b].succs)
               THEN LET s == g[b].succs[k]
                    IN ny_function_remove_phi_incoming(ny_block_remove_edge(g, b, s), s, b)
               ELSE g
    IN turn[Len(f[b].succs)]

(* Mutant: the search result is not consulted for a block that some block   *)
(* still names as its successor.                                            *)
DropUnnamedSimplify(f, b, R) ==
    IF b # Entry /\ b \notin R /\ f[b] # BlankBlock /\ f[b].preds = <<>>
    THEN ny_function_remove_block(Unlink(f, b), b) ELSE f

DropUnreachedSimplify(f, b, R) ==
    IF b # Entry /\ b \notin R /\ f[b] # BlankBlock
    THEN ny_function_remove_block(Unlink(f, b), b) ELSE f

=============================================================================
