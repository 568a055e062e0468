------------------------------ MODULE OptPasses -----------------------------
(***************************************************************************)
(* The passes on values: canonicalization of instructions, constant        *)
(* folding, copy propagation, dead code elimination, value numbering and   *)
(* sparse conditional constant propagation, as operators on a function f   *)
(* whose value number n has type ty[n].  Floating point, switch, volatile  *)
(* and atomic instructions are not modelled.                               *)
(***************************************************************************)
EXTENDS Analyses, ConstFold

SetInst(f, p, i) == [f EXCEPT ![p[1]].insts[p[2]] = i]
ToConst(i, c) == [i EXCEPT !.op = "const", !.use = <<Const(c)>>, !.in = <<>>]

(* The instruction at p gives way to value v.                               *)
ReplaceBy(f, p, v) ==
    LET r == At(f, p).res
    IN  ny_function_remove_instruction(ny_function_replace_all_uses(f, r, v), p[1], r)

TypeOf(ty, v) == ty[v[2]]
HasResult(i) == IsVal(i.res)
ResultWidth(ty, i) == Width(TypeOf(ty, i.res))

ny_opt_is_commutative(op) == op \in {"add", "mul", "and", "or", "xor", "cmp_eq", "cmp_ne"}

-----------------------------------------------------------------------------
(* ny_canonicalize_instructions                                             *)

Mirrored == [cmp_gt_s |-> "cmp_lt_s", cmp_gt_u |-> "cmp_lt_u",
             cmp_ge_s |-> "cmp_le_s", cmp_ge_u |-> "cmp_le_u"]

Mirror(i) ==
    IF i.op \in DOMAIN Mirrored
    THEN [i EXCEPT !.op = Mirrored[@], !.use = <<@[2], @[1]>>] ELSE i

(* Constants go right, values in the order of their numbers.                *)
ShouldSwap(f, i) ==
    LET a == i.use[1]
        b == i.use[2]
        known(v) == ConstInt(f, v) # <<>>
    IN  /\ ny_opt_is_commutative(i.op) /\ IsVal(b)
        /\ \/ ~IsVal(a)
           \/ IsVal(a) /\ known(a) /\ ~known(b)
           \/ IsVal(a) /\ ~known(a) /\ ~known(b) /\ a[2] > b[2]

SwapOperands(f, i) == IF ShouldSwap(f, i) THEN [i EXCEPT !.use = <<@[2], @[1]>>] ELSE i

IsCast(op) == op \in {"sext", "zext", "truncate"}

(* x + 0, x - 0, x * 1, x | 0 and a cast to the same type are x.            *)
IsIdentity(f, ty, i) ==
    \/ /\ i.op \in {"add", "sub", "mul", "or"} /\ IsVal(i.use[1])
       /\ ConstInt(f, i.use[2]) = <<IF i.op = "mul" THEN 1 ELSE 0>>
    \/ IsCast(i.op) /\ IsVal(i.use[1]) /\ TypeOf(ty, i.use[1]) = TypeOf(ty, i.res)

IsZero(i) == i.op \in {"sub", "xor"} /\ IsVal(i.use[1]) /\ i.use[1] = i.use[2]

CanonInst(f, ty, p) ==
    LET i == SwapOperands(f, Mirror(At(f, p)))
        g == SetInst(f, p, i)
    IN  CASE IsIdentity(g, ty, i) -> ReplaceBy(g, p, i.use[1])
          [] IsZero(i) -> SetInst(g, p, ToConst(i, 0))
          [] OTHER -> g

(* A loop over the array of instructions: body for each that is linked when *)
(* its turn comes.                                                          *)
Position(f, r) == CHOOSE p \in Linked(f) : At(f, p).res = r
ArrayOf(f) == LET o == InArrayOrder(f) IN [k \in DOMAIN o |-> At(f, o[k]).res]
IsLinked(f, r) == \E p \in Linked(f) : At(f, p).res = r

ny_canonicalize_instructions(f, ty) ==
    FoldLeft(LAMBDA g, r : IF IsLinked(g, r) THEN CanonInst(g, ty, Position(g, r)) ELSE g,
             f, ArrayOf(f))

-----------------------------------------------------------------------------
(* ny_opt_pass_const_fold                                                   *)

(* The width of a comparison is that of its first operand if that is a      *)
(* value, and otherwise that of the result.                                 *)
CmpWidth(ty, i) ==
    IF IsVal(i.use[1]) THEN Width(TypeOf(ty, i.use[1])) ELSE ResultWidth(ty, i)

(* The constant of an instruction whose operands are the constants cs.      *)
FoldArith(ty, i, cs) ==
    IF Len(cs) = 1 THEN ny_fold_int_unary(i.op, cs[1], ResultWidth(ty, i))
    ELSE LET r == ny_fold_int_binary(i.op, cs[1], cs[2], ResultWidth(ty, i))
         IN  IF r # <<>> THEN r ELSE ny_fold_int_cmp(i.op, cs[1], cs[2], CmpWidth(ty, i))

SourceWidth(ty, v) == IF IsVal(v) THEN Width(TypeOf(ty, v)) ELSE 4

FoldInst(f, ty, p) ==
    LET i == At(f, p)
        cs == [k \in DOMAIN i.use |-> ConstInt(f, i.use[k])]
        known == \A k \in DOMAIN cs : cs[k] # <<>>
        chosen == IF cs[1] = <<0>> THEN i.use[3] ELSE i.use[2]
        folded == CASE IsCast(i.op) /\ known ->
                         FoldCast(i.op, cs[1][1], SourceWidth(ty, i.use[1]), ResultWidth(ty, i))
                    [] ~IsCast(i.op) /\ Len(cs) \in {1, 2} /\ known ->
                         FoldArith(ty, i, [k \in DOMAIN cs |-> cs[k][1]])
                    [] OTHER -> <<>>
    IN  CASE ~HasResult(i) \/ i.op \in {"const", "phi", "call"} -> f
          [] folded # <<>> -> SetInst(f, p, ToConst(i, folded[1]))
          [] i.op = "select" /\ cs[1] # <<>> ->
                IF IsVal(chosen) THEN ReplaceBy(f, p, chosen)
                ELSE SetInst(f, p, ToConst(i, chosen[2]))
          [] OTHER -> f

ny_opt_pass_const_fold(f, ty) ==
    FoldLeft(LAMBDA g, r : IF IsLinked(g, r) THEN FoldInst(g, ty, Position(g, r)) ELSE g,
             f, ArrayOf(f))

-----------------------------------------------------------------------------
(* ny_opt_pass_copy_prop                                                    *)

(* The value an instruction is a copy of: empty if it is not a copy.        *)
get_copy_source(ty, i) ==
    LET others == SelectSeq([k \in DOMAIN i.in |-> i.in[k][1]], LAMBDA v : v # i.res)
    IN  CASE i.op = "phi" -> IF /\ others # <<>> /\ \A k \in DOMAIN others : others[k] = others[1]
                                /\ IsVal(others[1])
                             THEN <<others[1]>> ELSE <<>>
          [] i.op = "select" -> IF IsVal(i.use[2]) /\ i.use[2] = i.use[3] THEN <<i.use[2]>> ELSE <<>>
          [] IsCast(i.op) -> IF IsVal(i.use[1]) /\ SourceWidth(ty, i.use[1]) = ResultWidth(ty, i)
                             THEN <<i.use[1]>> ELSE <<>>
          [] OTHER -> <<>>

(* Chains are followed to their end, at most 64 links.                      *)
resolve_copy(copies, v) ==
    LET follow[n \in 0 .. 64] ==
            IF n = 0 THEN v
            ELSE LET w == follow[n-1] IN IF w \in DOMAIN copies THEN copies[w] ELSE w
    IN  follow[Min({64, Cardinality(DOMAIN copies)})]

(* The copy goes, or the copies among its operands give way.                *)
CopyInst(f, copies, r) ==
    LET p == Position(f, r)
        sub(v) == IF v \in DOMAIN copies THEN copies[v] ELSE v
    IN  IF r \in DOMAIN copies THEN ReplaceBy(f, p, copies[r])
        ELSE SetInst(f, p, [At(f, p) EXCEPT !.use = [k \in DOMAIN @ |-> sub(@[k])],
                                            !.in = [k \in DOMAIN @ |-> <<sub(@[k][1]), @[k][2]>>]])

ny_opt_pass_copy_prop(f, ty) ==
    LET isCopy(p) == HasResult(At(f, p)) /\ get_copy_source(ty, At(f, p)) # <<>>
        map == [v \in {At(f, p).res : p \in {q \in Linked(f) : isCopy(q)}} |->
                    get_copy_source(ty, At(f, Position(f, v)))[1]]
        copies == [v \in DOMAIN map |-> resolve_copy(map, map[v])]
    IN  FoldLeft(LAMBDA g, r : CopyInst(g, copies, r), f, ArrayOf(f))

-----------------------------------------------------------------------------
(* ny_opt_pass_dce                                                          *)

inst_has_side_effects(i) == IsTerminator(i) \/ i.op \in {"effect", "call"}

(* A turn of the work list: s is [f, count, list]; the list is a stack.     *)
DceTurn(s) ==
    LET r == Last(s.list)
        p == Position(s.f, r)
        release(t, v) ==
            IF t.count[v] = 0 THEN t
            ELSE [t EXCEPT !.count[v] = @ - 1,
                           !.list = IF /\ t.count[v] = 1
                                       /\ \E q \in DefOf(s.f, v) : ~inst_has_side_effects(At(s.f, q))
                                    THEN Append(@, v) ELSE @]
        t == FoldLeft(release, [s EXCEPT !.list = Front(@)], ValueOperands(At(s.f, p)))
    IN  IF IsLinked(s.f, r) THEN [t EXCEPT !.f = ny_function_remove_instruction(@, p[1], r)]
        ELSE [s EXCEPT !.list = Front(@)]

(* uses: the use lists of the analysis, possibly of an earlier function.    *)
ny_opt_pass_dce(f, uses) ==
    LET count == [v \in DOMAIN uses |-> Len(uses[v])]
        dead(r) == LET i == At(f, Position(f, r))
                   IN  HasResult(i) /\ ~inst_has_side_effects(i) /\ count[r] = 0
        bound == 2 * Cardinality(Linked(f))
        run[n \in 0 .. bound] ==
            IF n = 0 THEN [f |-> f, count |-> count, list |-> SelectSeq(ArrayOf(f), dead)]
            ELSE LET s == run[n-1] IN IF s.list = <<>> THEN s ELSE DceTurn(s)
    IN  run[bound].f

-----------------------------------------------------------------------------
(* ny_opt_pass_gvn                                                          *)

is_gvn_candidate(i) == HasResult(i) /\ i.op \notin {"const", "phi", "call"}

make_gvn_key(ty, i) ==
    LET swap == /\ ny_opt_is_commutative(i.op) /\ IsVal(i.use[2])
                /\ (IsVal(i.use[1]) => i.use[1][2] > i.use[2][2])
    IN  [op |-> i.op, type |-> TypeOf(ty, i.res),
         use |-> IF swap THEN <<i.use[2], i.use[1]>> ELSE i.use]

(* Mutant: any earlier instruction with the key will do.                    *)
GvnAnywhere(s, ty, dom, r) ==
    LET p == Position(s.f, r)
        key == make_gvn_key(ty, At(s.f, p))
        k == SelectInSeq(s.table, LAMBDA e : e[1] = key)
    IN  IF ~is_gvn_candidate(At(s.f, p)) THEN s
        ELSE IF k # 0 THEN [s EXCEPT !.f = ReplaceBy(@, p, s.table[k][2])]
        ELSE [s EXCEPT !.table = Append(@, <<key, r, p[1]>>)]

(* s is [f, table]; an entry of the table is <<key, value, block>>.         *)
GvnInst(s, ty, dom, r) ==
    LET p == Position(s.f, r)
        key == make_gvn_key(ty, At(s.f, p))
        k == SelectInSeq(s.table, LAMBDA e : e[1] = key /\ ny_dominator_tree_dominates(dom, e[3], p[1]))
    IN  IF ~is_gvn_candidate(At(s.f, p)) THEN s
        ELSE IF k # 0 THEN [s EXCEPT !.f = ReplaceBy(@, p, s.table[k][2])]
        ELSE [s EXCEPT !.table = Append(@, <<key, r, p[1]>>)]

(* Blocks in the order of their numbers, each from its first instruction.   *)
ny_opt_pass_gvn(f, ty, dom) ==
    LET order == FlattenSeq([b \in DOMAIN f |-> [k \in DOMAIN f[b].insts |-> f[b].insts[k].res]])
    IN  FoldLeft(LAMBDA s, r : GvnInst(s, ty, dom, r), [f |-> f, table |-> <<>>], order).f

-----------------------------------------------------------------------------
(* ny_opt_pass_sccp                                                         *)

Top == <<"top">>
Bottom == <<"bottom">>

(* Mutant: two different constants meet in the second.                      *)
MeetKeepsLast(a, b) == IF b = Top \/ a = Bottom THEN a ELSE b

lat_meet(a, b) ==
    CASE a = Top -> b
      [] b = Top -> a
      [] OTHER -> IF a = b THEN a ELSE Bottom

get_operand_lat(lat, v) == IF IsVal(v) THEN lat[v] ELSE v

(* The lattice value of instruction i of block b.                           *)
EvalPhi(lat, edges, b, i) ==
    FoldLeft(LAMBDA m, e : IF <<e[2], b>> \in edges THEN lat_meet(m, get_operand_lat(lat, e[1])) ELSE m,
             Top, i.in)

EvalSelect(lat, i) ==
    LET l == [k \in 1 .. 3 |-> get_operand_lat(lat, i.use[k])]
    IN  CASE l[1] = Top -> Top
          [] l[1] = Bottom -> lat_meet(l[2], l[3])
          [] OTHER -> IF l[1][2] # 0 THEN l[2] ELSE l[3]

EvalArith(lat, ty, i) ==
    LET l == [k \in DOMAIN i.use |-> get_operand_lat(lat, i.use[k])]
        r == FoldArith(ty, i, [k \in DOMAIN l |-> l[k][2]])
    IN  CASE \E k \in DOMAIN l : l[k] = Bottom -> Bottom
          [] \E k \in DOMAIN l : l[k] = Top -> Top
          [] OTHER -> IF r = <<>> THEN Bottom ELSE Const(r[1])

eval_instruction(lat, edges, ty, b, i) ==
    CASE i.op = "const" -> i.use[1]
      [] i.op = "phi" -> EvalPhi(lat, edges, b, i)
      [] i.op = "select" -> EvalSelect(lat, i)
      [] i.op = "call" -> Bottom
      [] OTHER -> EvalArith(lat, ty, i)

(* s is [lat, exec, edges, blocks, values]: the lattice, the blocks and     *)
(* edges marked executable, and the two work lists, which are stacks.       *)
MarkEdge(s, b, t) ==
    IF <<b, t>> \in s.edges THEN s
    ELSE [s EXCEPT !.edges = @ \cup {<<b, t>>}, !.exec = @ \cup {t}, !.blocks = Append(@, t)]

eval_terminator(f, s, b) ==
    IF ~HasLast(f, b) THEN s
    ELSE LET i == LastInst(f, b)
             c == get_operand_lat(s.lat, i.use[1])
         IN  CASE i.op = "branch" -> MarkEdge(s, b, i.to[1])
               [] i.op = "branch_if" /\ c = Bottom -> MarkEdge(MarkEdge(s, b, i.to[1]), b, i.to[2])
               [] i.op = "branch_if" /\ c \notin {Top, Bottom} ->
                     MarkEdge(s, b, IF c[2] # 0 THEN i.to[1] ELSE i.to[2])
               [] OTHER -> s

(* A changed value goes on the list of values.                              *)
Lower(s, r, l) ==
    IF s.lat[r] = l THEN s ELSE [s EXCEPT !.lat[r] = l, !.values = Append(@, r)]

(* Arguments are unknown, constants known, all else is still open.          *)
SccpInit(f, values, params) ==
    LET start(v) ==
            IF v[2] <= params THEN Bottom
            ELSE IF IsLinked(f, v) /\ At(f, Position(f, v)).op = "const"
            THEN At(f, Position(f, v)).use[1] ELSE Top
    IN  [lat |-> [v \in values |-> start(v)],
         exec |-> {Entry}, edges |-> {}, blocks |-> <<Entry>>, values |-> <<>>]

(* The block on top of the list: its instructions, then its terminator.     *)
SccpBlock(f, ty, s) ==
    LET b == Last(s.blocks)
        eval(t, i) == IF HasResult(i) THEN Lower(t, i.res, eval_instruction(t.lat, t.edges, ty, b, i)) ELSE t
    IN  eval_terminator(f, FoldLeft(eval, [s EXCEPT !.blocks = Front(@)], f[b].insts), b)

(* The value on top of the list: every use of it in an executable block.    *)
(* An instruction that was removed still is in where, the block it was in,  *)
(* and has no operands: it evaluates to Bottom.                             *)
SccpValue(f, ty, s, uses, where) ==
    LET v == Last(s.values)
        visit(t, r) ==
            IF where[r] \notin t.exec THEN t
            ELSE IF ~IsLinked(f, r) THEN IF IsVal(r) THEN Lower(t, r, Bottom) ELSE t
            ELSE LET i == At(f, Position(f, r))
                 IN  IF HasResult(i) THEN Lower(t, r, eval_instruction(t.lat, t.edges, ty, where[r], i))
                     ELSE IF IsTerminator(i) THEN eval_terminator(f, t, where[r]) ELSE t
    IN  FoldLeft(visit, [s EXCEPT !.values = Front(@)], uses[v])

IsConstLat(l) == l \notin {Top, Bottom}

(* A branch_if whose condition is constant becomes branch.                  *)
SccpBranch(f, lat, b) ==
    IF EndsInBranchIf(f, b) /\ IsConstLat(get_operand_lat(lat, LastInst(f, b).use[1]))
    THEN LET i == LastInst(f, b)
             zero == get_operand_lat(lat, i.use[1])[2] = 0
             taken == IF zero THEN i.to[2] ELSE i.to[1]
             dead == IF zero THEN i.to[1] ELSE i.to[2]
             g == ny_block_remove_edge(SetLast(f, b, Rebranch(i, taken)), b, dead)
         IN  ny_function_remove_phi_incoming(g, dead, b)
    ELSE f

SccpConstants(f, s) ==
    [b \in DOMAIN f |->
        IF b \notin s.exec THEN f[b]
        ELSE [f[b] EXCEPT !.insts = [k \in DOMAIN @ |->
                LET i == @[k]
                IN  IF HasResult(i) /\ i.op # "const" /\ IsConstLat(s.lat[i.res])
                    THEN ToConst(i, s.lat[i.res][2]) ELSE i]]]

SccpBranches(f, s) ==
    FoldLeft(LAMBDA g, b : IF b \in s.exec THEN SccpBranch(g, s.lat, b) ELSE g,
             f, [b \in DOMAIN f |-> b])

=============================================================================
