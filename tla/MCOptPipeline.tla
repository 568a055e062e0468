---------------------------- MODULE MCOptPipeline ---------------------------
(* OptPipeline on straight-line arithmetic and on functions with branches.  *)
EXTENDS OptPipeline

V(n) == <<"val", n>>
Op(n, op, use) == [op |-> op, res |-> V(n), use |-> use, to |-> <<>>, in |-> <<>>]
K(n, c) == Op(n, "const", <<Const(c)>>)
P(n, pairs) == Phi(V(n), pairs)
E(n, v) == Effect(<<"at", n>>, v)
B(n, t) == [Branch(t) EXCEPT !.res = <<"br", n>>]
BI(n, c, t, e) == [BranchIf(c, t, e) EXCEPT !.res = <<"br", n>>]
R(n, v) == [Return(v) EXCEPT !.res = <<"br", n>>]

F(level, params, ty, bodies) == [bodies |-> bodies, ty |-> ty, params |-> params, level |-> level]

Compares == {"cmp_eq", "cmp_ne", "cmp_lt_s", "cmp_lt_u", "cmp_le_s", "cmp_le_u",
             "cmp_gt_s", "cmp_gt_u", "cmp_ge_s", "cmp_ge_u"}
Binary == Compares \cup {"add", "sub", "mul", "div_s", "div_u", "rem_s", "rem_u", "and", "or", "xor",
                         "shl", "shr", "sar", "rotl", "rotr"}
ResultType(op, t) == IF op \in Compares THEN "bool" ELSE t

Consts == [narrow |-> -2 .. 1, wide |-> {-128, -3, -1, 0, 1, 5, 127}]

(* Two constants, as values or the second as an immediate.  The least word  *)
(* modulo -1 is left out: folding it is undefined in C.                     *)
Arithmetic ==
    UNION {{F("O1", 0, <<t, t, ResultType(op, t)>>,
              <<<<K(1, a), K(2, b), Op(3, op, <<V(1), IF imm THEN Const(b) ELSE V(2)>>), R(4, V(3))>>>>)
              : op \in Binary \ (IF b = -1 /\ a = -128 THEN {"rem_s"} ELSE {}), imm \in BOOLEAN}
            : <<t, a, b>> \in UNION {{u} \X Consts[u] \X Consts[u] : u \in {"narrow", "wide"}}}

(* One argument with a constant on either side, or with itself.             *)
Identities ==
    {F("O1", 1, <<t, ResultType(op, t)>>, <<<<Op(2, op, use), E(3, V(2)), R(4, V(1))>>>>)
        : op \in Binary, t \in {"narrow", "wide"},
          use \in {<<V(1), Const(c)>> : c \in {0, 1}} \cup {<<Const(c), V(1)>> : c \in {0, 1}} \cup {<<V(1), V(1)>>}}

Casts ==
    {F("O1", 1, <<s, s, t, t, t>>,
       <<<<K(2, c), Op(3, op, <<V(2)>>), Op(4, op, <<V(1)>>), Op(5, "add", <<V(3), V(4)>>), R(6, V(5))>>>>)
        : <<s, op, t>> \in {<<"narrow", "zext", "wide">>, <<"narrow", "sext", "wide">>, <<"wide", "truncate", "narrow">>,
                            <<"wide", "zext", "wide">>, <<"wide", "truncate", "wide">>},
          c \in {-2, -1, 0, 1}}

Selects ==
    {F("O1", 2, <<"wide", "wide", "wide", "bool", "wide", "wide">>,
       <<<<K(3, 0), Op(4, "cmp_eq", <<a, V(3)>>), Op(5, "select", <<V(4), b, c>>),
          Op(6, op, <<V(5)>>), E(7, V(6)), R(8, V(5))>>>>)
        : a, b, c \in {V(1), V(2), V(3)}, op \in {"neg", "not", "call"}}

W(n) == [k \in 1 .. n |-> "wide"]

(* A branch on a condition SCCP may know, with a phi of the two arms, a     *)
(* repeated expression in an arm or after it, and a dead instruction.       *)
Diamonds ==
    {F(level, 2, [W(16) EXCEPT ![4] = "bool"],
       <<<<K(3, 1), Op(4, "cmp_lt_s", <<a, V(3)>>), Op(5, "add", <<V(1), V(2)>>), BI(6, V(4), 2, 3)>>,
         <<Op(7, op, <<V(2), V(1)>>), E(8, V(7)), B(9, 4)>>,
         <<Op(10, "mul", <<V(5), V(3)>>), E(11, V(10)), B(12, 4)>>,
         <<P(13, <<<<l, 2>>, <<r, 3>>>>), Op(14, op, <<V(1), V(2)>>), Op(15, "sub", <<V(13), V(14)>>),
           R(16, V(15))>>>>)
        : level \in {"O1", "O2"}, a \in {V(1), V(3)}, op \in {"add", "sub"}, l \in {V(7), V(5), V(2)}, r \in {V(10), V(2), V(3)}}

(* A branch that only constant folding decides, after SCCP, since SCCP does *)
(* not evaluate casts; the same product in one arm, which is a loop, and    *)
(* behind both.                                                             *)
Late ==
    {F(level, 1, [W(12) EXCEPT ![2] = "narrow"],
       <<<<K(2, 1), Op(3, op, <<V(2)>>), BI(4, c, 2, 3)>>,
         <<Op(5, "mul", <<V(1), V(1)>>), E(6, V(5)), BI(7, V(1), 2, 4)>>,
         <<E(8, V(3)), B(9, 4)>>,
         <<Op(10, "mul", <<V(1), V(1)>>), E(11, V(10)), R(12, V(1))>>>>)
        : level \in {"O1", "O2"}, op \in {"sext", "zext"}, c \in {V(1), V(3)}}

(* A loop: the induction variable, a value that does not change in it, and  *)
(* an inner branch whose condition SCCP knows.                              *)
Loops ==
    {F(level, 2, [[k \in 1 .. 24 |-> "wide"] EXCEPT ![7] = "bool", ![9] = "bool"],
       <<<<K(3, 0), K(4, 1), B(5, 2)>>,
         <<P(6, <<<<V(3), 1>>, <<V(15), 6>>>>), Op(7, "cmp_lt_s", <<V(6), V(1)>>), BI(8, V(7), 3, 7)>>,
         <<Op(9, "cmp_lt_s", <<c, V(4)>>), BI(10, V(9), 4, 5)>>,
         <<E(21, V(2)), B(11, 6)>>,
         <<E(12, V(6)), B(13, 6)>>,
         <<P(14, <<<<V(6), 4>>, <<V(2), 5>>>>), Op(15, "add", <<V(6), step>>), Op(16, "mul", <<V(14), V(14)>>),
           E(17, V(16)), B(18, 2)>>,
         <<E(19, V(6)), R(20, V(2))>>>>)
        : level \in {"O1", "O2"}, c \in {V(3), V(2)}, step \in {V(4), V(3)}}

(* A loop of one block behind a branch SCCP may know; what follows the loop *)
(* reads a value of its last turn through a phi.  At O2 the second SCCP     *)
(* meets use lists from before that phi was replaced and its block merged.  *)
Guarded ==
    {F(level, 2, [W(18) EXCEPT ![5] = "bool", ![11] = "bool"],
       <<<<K(3, 0), K(4, 1), Op(5, "cmp_lt_s", <<c, V(4)>>), BI(6, V(5), 2, 3)>>,
         <<P(9, <<<<V(3), 1>>, <<V(10), 2>>>>), Op(10, "add", <<V(9), step>>), Op(11, "cmp_lt_s", <<V(10), V(1)>>),
           E(12, V(9)), BI(13, V(11), 2, 5)>>,
         <<E(7, V(1)), B(8, 4)>>,
         <<P(14, <<<<V(2), 3>>, <<V(10), 5>>>>), Op(15, "add", <<V(14), V(4)>>), E(16, V(15)), E(17, kept), R(18, V(14))>>,
         <<E(19, V(2)), B(20, 4)>>>>)
        : level \in {"O1", "O2"}, c \in {V(3), V(2)}, step \in {V(4), V(3)}, kept \in {V(5), V(1)}}

StaleInputs == Guarded

RunInputs == Arithmetic \cup Identities \cup Casts \cup Selects \cup Diamonds \cup Late \cup Loops \cup Guarded
=============================================================================
