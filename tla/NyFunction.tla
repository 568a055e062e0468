----------------------------- MODULE NyFunction -----------------------------
(***************************************************************************)
(* A NyIR function (Ny_Function): its blocks, the linked instructions of   *)
(* each block as a sequence, the predecessor and successor arrays in their *)
(* array order, and the operations of function.c and block.c that edit     *)
(* them.  An operation is an operator from a function to a function.       *)
(***************************************************************************)
EXTENDS Integers, Sequences, SequencesExt

(* Values: an argument, the constants 0 and 1, the result of a phi (named   *)
(* after the block it was built in), and none.  A phi may also hold an      *)
(* immediate, which is an operand and not a value.                          *)
Arg == <<"arg">>
NoVal == <<"none">>
Const(c) == <<"const", c>>
PhiOf(b) == <<"phi", b>>
Imm(c) == <<"imm", c>>
IsImm(v) == v[1] = "imm"

(* An instruction: opcode, result, value operands, block operands, and the  *)
(* (value, block) pairs of a phi.  "effect" stands for a call or a store.   *)
Opcode == {"phi", "effect", "branch", "branch_if", "return"}

Phi(res, in) == [op |-> "phi", res |-> res, use |-> <<>>, to |-> <<>>, in |-> in]
Effect(l, v) == [op |-> "effect", res |-> l, use |-> <<v>>, to |-> <<>>, in |-> <<>>]
Branch(t) == [op |-> "branch", res |-> NoVal, use |-> <<>>, to |-> <<t>>, in |-> <<>>]
BranchIf(c, t, f) ==
    [op |-> "branch_if", res |-> NoVal, use |-> <<c>>, to |-> <<t, f>>, in |-> <<>>]
(* A branch_if rewritten in place.                                          *)
Rebranch(i, t) == [Branch(t) EXCEPT !.res = i.res]
Return(v) == [op |-> "return", res |-> NoVal, use |-> <<v>>, to |-> <<>>, in |-> <<>>]

IsTerminator(i) == i.op \in {"branch", "branch_if", "return"}

(* A block that was just created, and one that was removed.                 *)
BlankBlock == [insts |-> <<>>, preds |-> <<>>, succs |-> <<>>]

Entry == 1

HasLast(f, b) == f[b].insts # <<>>
LastInst(f, b) == Last(f[b].insts)
SetLast(f, b, i) == [f EXCEPT ![b].insts = Append(Front(@), i)]

-----------------------------------------------------------------------------
(* Arrays of block ids                                                      *)

(* Append unless it is there.                                               *)
Adjoin(s, x) == IF Contains(s, x) THEN s ELSE Append(s, x)

(* The first x is overwritten by the last element, and the array shrinks.   *)
SwapRemove(s, x) ==
    LET i == SelectInSeq(s, LAMBDA y : y = x)
    IN IF i = 0 THEN s ELSE Front([s EXCEPT ![i] = Last(s)])

ny_block_add_edge(f, p, s) ==
    [f EXCEPT ![p].succs = Adjoin(@, s), ![s].preds = Adjoin(@, p)]

ny_block_remove_edge(f, p, s) ==
    [f EXCEPT ![p].succs = SwapRemove(@, s), ![s].preds = SwapRemove(@, p)]

-----------------------------------------------------------------------------
(* Instructions                                                             *)

(* Every operand that is old becomes new, in every linked instruction.      *)
ny_function_replace_all_uses(f, old, new) ==
    LET Rename(i) == [i EXCEPT
            !.use = ReplaceAll(@, old, new),
            !.in = [k \in DOMAIN @ |-> IF @[k][1] = old THEN <<new, @[k][2]>> ELSE @[k]]]
    IN [b \in DOMAIN f |->
          [f[b] EXCEPT !.insts = [k \in DOMAIN @ |-> Rename(@[k])]]]

(* The instruction of block b with result r is unlinked.                    *)
ny_function_remove_instruction(f, b, r) ==
    [f EXCEPT ![b].insts = SelectSeq(@, LAMBDA i : i.res # r)]

(* The phis at the start of a block: loops over phis stop at the first      *)
(* other instruction.                                                       *)
LeadingPhis(f, b) ==
    LET is == f[b].insts
    IN {k \in DOMAIN is : \A j \in 1..k : is[j].op = "phi"}

(* The phis of b lose the pairs that come from p.                           *)
ny_function_remove_phi_incoming(f, b, p) ==
    LET phis == LeadingPhis(f, b)
    IN [f EXCEPT ![b].insts =
          [k \in DOMAIN @ |->
             IF k \in phis
             THEN [@[k] EXCEPT !.in = SelectSeq(@, LAMBDA e : e[2] # p)]
             ELSE @[k]]]

(* ny_opt_get_operand_const_int: an immediate, or a value whose linked      *)
(* definition is a constant; empty for any other operand.                   *)
ConstInt(f, v) ==
    IF v[1] = "const" THEN <<v[2]>>
    ELSE LET b == SelectInSeq(f, LAMBDA blk : \E k \in DOMAIN blk.insts :
                                    blk.insts[k].res = v /\ blk.insts[k].op = "const")
         IN IF b = 0 THEN <<>>
            ELSE LET i == f[b].insts[SelectInSeq(f[b].insts, LAMBDA j : j.res = v)]
                 IN <<i.use[1][2]>>

-----------------------------------------------------------------------------
(* Blocks                                                                   *)

ny_function_remove_block(f, b) ==
    [c \in DOMAIN f |->
        IF c = b THEN BlankBlock
        ELSE [f[c] EXCEPT
                !.preds = IF Contains(f[b].succs, c) THEN SwapRemove(@, b) ELSE @,
                !.succs = IF Contains(f[b].preds, c) THEN SwapRemove(@, b) ELSE @]]

(* ny_function_merge_blocks returns false unless each is the other's only   *)
(* neighbour on that side.                                                  *)
MayMerge(f, a, b) ==
    /\ a # b
    /\ f[a].succs = <<b>>
    /\ f[b].preds = <<a>>

(* The instructions of a without the branch that ends it.                   *)
WithoutBranch(f, a) ==
    IF HasLast(f, a) /\ LastInst(f, a).op = "branch"
    THEN Front(f[a].insts) ELSE f[a].insts

(* Mutant: the blocks after b keep naming b as their predecessor.           *)
MergeKeepsPreds(f, a, b) ==
    [c \in DOMAIN f |->
        CASE c = a -> [insts |-> WithoutBranch(f, a) \o f[b].insts,
                       preds |-> f[a].preds, succs |-> f[b].succs]
          [] c = b -> BlankBlock
          [] OTHER -> f[c]]

(* Block b is appended to a.  Phis that name b in the blocks after it are   *)
(* not renamed.                                                             *)
ny_function_merge_blocks(f, a, b) ==
    LET preds(c) == IF Contains(f[b].succs, c)
                    THEN ReplaceAll(f[c].preds, b, a) ELSE f[c].preds
    IN [c \in DOMAIN f |->
          CASE c = a -> [insts |-> WithoutBranch(f, a) \o f[b].insts,
                         preds |-> preds(a), succs |-> f[b].succs]
            [] c = b -> BlankBlock
            [] OTHER -> [f[c] EXCEPT !.preds = preds(c)]]

-----------------------------------------------------------------------------
(* Building and validating                                                  *)

(* What the parser or the builder appends to a block, one after the other:  *)
(* a branch also adds its edges, at the time it is appended.                *)
AppendInst(f, b, i) ==
    LET g == [f EXCEPT ![b].insts = Append(@, i)]
    IN FoldLeft(LAMBDA h, t : ny_block_add_edge(h, b, t), g, i.to)

(* bodies: the instructions of each block, in source order.                 *)
Build(bodies) ==
    LET fill[b \in 0..Len(bodies)] ==
          IF b = 0 THEN [c \in 1..Len(bodies) |-> BlankBlock]
          ELSE FoldLeft(LAMBDA f, i : AppendInst(f, b, i), fill[b-1], bodies[b])
    IN fill[Len(bodies)]

(* ny_validate_function on the shapes Build makes: the entry has no         *)
(* predecessors, an active block is not empty and ends in a terminator, a   *)
(* phi stands at the start of its block.                                    *)
Validates(f) ==
    /\ f[Entry].preds = <<>>
    /\ \A b \in DOMAIN f :
         /\ f[b].insts = <<>> => b # Entry /\ f[b].preds = <<>> /\ f[b].succs = <<>>
         /\ HasLast(f, b) => IsTerminator(LastInst(f, b))
         /\ \A k \in DOMAIN f[b].insts :
              f[b].insts[k].op = "phi" => k \in LeadingPhis(f, b)

=============================================================================
