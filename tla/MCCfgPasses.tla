----------------------------- MODULE MCCfgPasses -----------------------------
(* CfgPasses on every function of three blocks made of the terminators      *)
(* below, the entry first.                                                  *)
EXTENDS CfgPasses

Targets == 2..3

TermsOn(conds) ==
    {Return(Arg)} \cup {Branch(t) : t \in Targets}
    \cup {BranchIf(c, t, e) : c \in conds, t \in Targets, e \in Targets}

(* A block body: an effect or nothing, then a terminator, then possibly     *)
(* code after the terminator.                                               *)
Body(b, effect, term, tail) == (IF effect THEN <<Effect(<<"at", b>>, Arg)>> ELSE <<>>) \o <<term>> \o tail

Tails == {<<>>, <<Effect(<<"late", 2>>, Arg), Branch(3)>>}

PlainBodies ==
    LET T == TermsOn({Arg, Const(1)}) IN
    {<<Body(1, TRUE, t1, <<>>), Body(2, e, t2, tail), Body(3, TRUE, t3, <<>>)>> :
        t1 \in T, t2 \in T, t3 \in TermsOn({Arg}), e \in BOOLEAN, tail \in Tails}

(* Block 3 starts with a phi that has one pair per predecessor and is what  *)
(* the effect of the block sees.                                            *)
PhiBody(terms, e) ==
    LET from == SelectSeq(<<1, 2, 3>>, LAMBDA p : Contains(terms[p].to, 3))
        in == [k \in DOMAIN from |-> <<Const(k % 2), from[k]>>]
    IN <<Body(1, e, terms[1], <<>>), Body(2, e, terms[2], <<>>),
         <<Phi(PhiOf(3), in), Effect(<<"at", 3>>, PhiOf(3)), terms[3]>>>>

PhiBodies(conds, e) ==
    {b \in {PhiBody(<<t1, t2, Return(Arg)>>, e) : t1 \in TermsOn(conds), t2 \in TermsOn(conds)} :
        b[3][1].in # <<>>}

EmptyArmPhis == PhiBodies({Arg}, FALSE)

(* Ifs nested four deep around an empty block: a round of cfg_simplify only *)
(* removes the innermost, and the limit stops it before the outermost.      *)
NestedIfs ==
    <<<<Effect(<<"at", 1>>, Arg), BranchIf(Arg, 2, 6)>>,
      <<BranchIf(Arg, 3, 6)>>, <<BranchIf(Arg, 4, 6)>>, <<BranchIf(Arg, 5, 6)>>,
      <<Branch(6)>>, <<Effect(<<"at", 6>>, Arg), Return(Arg)>>>>

(* Functions with phis of which the passes keep the meaning: every block    *)
(* that leads to the phi is reachable and does more than branch.            *)
CheckedBodies ==
    PlainBodies \cup {NestedIfs}
    \cup {b \in PhiBodies({Arg, Const(1)}, TRUE) : Contains(Last(b[1]).to, 2)}

(* The entry only leads to block 2, which leads to 4 directly and through 3.*)
EntryThenIf ==
    <<<<Effect(<<"at", 1>>, Arg), Branch(2)>>,
      <<Effect(<<"at", 2>>, Arg), BranchIf(Arg, 3, 4)>>,
      <<Effect(<<"at", 3>>, Arg), Branch(4)>>,
      <<Phi(PhiOf(4), <<<<Const(0), 2>>, <<Const(1), 3>>>>), Return(PhiOf(4))>>>>

(* An if whose empty arm 2 only chooses the value of the phi.               *)
EmptyArm ==
    <<<<BranchIf(Arg, 2, 3)>>, <<Branch(3)>>,
      <<Phi(PhiOf(3), <<<<Const(1), 2>>, <<Const(0), 1>>>>), Return(PhiOf(3))>>>>

PhiShapes == EmptyArmPhis \cup {EntryThenIf}
EmptyArms == {EmptyArm}

OnlyO0 == {"O0"}
OnlyO1 == {"O1"}

=============================================================================
