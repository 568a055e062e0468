----------------------------- MODULE OptPipeline ----------------------------
(***************************************************************************)
(* ny_opt_run_pipeline above -O0: the order of the passes, the analyses    *)
(* they share through the analysis manager and what each invalidates.  One *)
(* action is one loop of a control-flow pass, one turn of the work list of *)
(* SCCP, or one other pass.                                                *)
(***************************************************************************)
EXTENDS OptPasses

CONSTANT Inputs     \* records [bodies, ty, params, level]

VARIABLES
    in,         \* the input: instruction lists, types, parameters, level
    fn,         \* the function
    where,      \* block of every instruction, also of those removed
    pc,         \* pass and loop that comes next
    round,      \* round of a control-flow pass
    iter,       \* iteration of the pipeline
    changed,    \* this round changed the function
    changedIter,\* this iteration did
    am,         \* the analysis manager: use lists and dominators, <<>> if invalid
    sccp,       \* the state of SCCP, empty outside it
    intact,     \* history: no known defect of a rewrite has struck yet
    current     \* history: SCCP never met use lists of an earlier function

vars == <<in, fn, where, pc, round, iter, changed, changedIter, am, sccp, intact, current>>

Values == {<<"val", n>> : n \in DOMAIN in.ty}
Original == Build(in.bodies)

(* Mutant: a change of the control flow leaves the dominators valid.        *)
InvalidateNothing(a) == a

(* ny_analysis_invalidate_cfg and ny_analysis_invalidate_use_def.           *)
InvalidateCfg(a) == [a EXCEPT !.dom = <<>>]
InvalidateUseDef(a) == [a EXCEPT !.uses = <<>>]

(* ny_analysis_get_use_def and ny_analysis_get_dom.                         *)
GetUseDef(a) == IF a.uses = <<>> THEN [a EXCEPT !.uses = <<ny_use_def_init(fn, Values)>>] ELSE a
GetDom(a) == IF a.dom = <<>> THEN [a EXCEPT !.dom = <<ny_dominator_tree_init(fn)>>] ELSE a

MaxRounds == 4
MaxIters == IF in.level = "O2" THEN 4 ELSE 1

Init ==
    /\ in \in Inputs
    /\ fn = Build(in.bodies)
    /\ where = [r \in {At(fn, p).res : p \in Linked(fn)} |-> (CHOOSE p \in Linked(fn) : At(fn, p).res = r)[1]]
    /\ pc = "canon_insts"
    /\ round = 1 /\ iter = 1 /\ changed = FALSE /\ changedIter = FALSE
    /\ am = [uses |-> <<>>, dom |-> <<>>] /\ sccp = <<>> /\ intact = TRUE /\ current = TRUE

-----------------------------------------------------------------------------
(* Functions the passes are known not to handle                             *)

(* A phi of a reachable block does not have one pair for each predecessor.  *)
PhisBroken(f) ==
    \E b \in Reachable(f) : \E k \in DOMAIN f[b].insts :
        LET i == f[b].insts[k]
        IN  i.op = "phi" /\ \/ {i.in[j][2] : j \in DOMAIN i.in} # ToSet(f[b].preds)
                            \/ Len(i.in) # Len(f[b].preds)

(* A comparison of an immediate with a value is folded at 32 bits.          *)
WideCompare(f) ==
    \E p \in Linked(f) :
        LET i == At(f, p)
        IN  /\ i.op \in {"cmp_lt_s", "cmp_lt_u", "cmp_le_s", "cmp_le_u"}
            /\ ~IsVal(i.use[1]) /\ IsVal(i.use[2]) /\ TypeOf(in.ty, i.use[2]) = "wide"

(* The use lists marked valid are those of an earlier function.             *)
StaleUses == am.uses # <<>> /\ am.uses[1] # ny_use_def_init(fn, Values)

-----------------------------------------------------------------------------
(* Actions                                                                  *)

NextLoop ==
    [canon_insts |-> "trim", trim |-> "same", same |-> "equal_phis", equal_phis |-> "canon_dead",
     canon_dead |-> "canon_merge", canon_merge |-> "canon_end",
     branch |-> "single_phis", single_phis |-> "forward", forward |-> "merge", merge |-> "dead",
     dead |-> "simplify_end",
     branch2 |-> "single_phis2", single_phis2 |-> "forward2", forward2 |-> "merge2", merge2 |-> "dead2",
     dead2 |-> "simplify_end2"]

(* The function becomes new.                                                *)
Rewrite(new) ==
    /\ fn' = new
    /\ where' = [r \in DOMAIN where |->
                    IF IsLinked(new, r) THEN Position(new, r)[1] ELSE where[r]]
    /\ intact' = (intact /\ ~PhisBroken(new) /\ ~WideCompare(new))

Blocks == [b \in DOMAIN fn |-> b]

Loop(names, new) ==
    /\ pc \in names
    /\ Rewrite(new)
    /\ changed' = (changed \/ fn' # fn)
    /\ pc' = NextLoop[pc]
    /\ UNCHANGED <<in, round, iter, changedIter, am, sccp, current>>

Turns(Turn(_, _)) == FoldLeft(Turn, fn, Blocks)

CanonInsts == Loop({"canon_insts"}, ny_canonicalize_instructions(fn, in.ty))
CanonTrim == Loop({"trim"}, Turns(Trim))
CanonSame == Loop({"same"}, Turns(FoldSame))
CanonPhi == Loop({"equal_phis"}, Turns(DropEqualPhis))
CanonDead == Loop({"canon_dead"}, LET R == Reachable(fn) IN Turns(LAMBDA f, b : DropUnreached(f, b, R)))
CanonMerge == Loop({"canon_merge"}, Turns(MergeNext))
SimplifyBranch == Loop({"branch", "branch2"}, Turns(FoldBranch))
SimplifyPhi == Loop({"single_phis", "single_phis2"}, Turns(DropSinglePhis))
SimplifyForward == Loop({"forward", "forward2"}, Turns(Forward))
SimplifyMerge == Loop({"merge", "merge2"}, Turns(MergeNextSimplify))
SimplifyDead ==
    Loop({"dead", "dead2"}, LET R == Reachable(fn) IN Turns(LAMBDA f, b : DropUnreachedSimplify(f, b, R)))

First == [canon_end |-> "canon_insts", simplify_end |-> "branch", simplify_end2 |-> "branch2"]
After == [canon_end |-> "branch", simplify_end |-> "sccp", simplify_end2 |-> "iterate"]

(* Another round of a control-flow pass.                                    *)
NextRound ==
    /\ pc \in DOMAIN First /\ changed /\ round < MaxRounds
    /\ round' = round + 1 /\ changed' = FALSE /\ pc' = First[pc]
    /\ changedIter' = TRUE
    /\ UNCHANGED <<in, fn, where, iter, am, sccp, intact, current>>

(* The pass is over: if any round changed something, what depends on the    *)
(* control flow is invalid.  The use lists are not.                         *)
EndRounds ==
    /\ pc \in DOMAIN First /\ (~changed \/ round = MaxRounds)
    /\ LET any == changed \/ round > 1
       IN  /\ am' = IF any THEN InvalidateCfg(am) ELSE am
           /\ changedIter' = (changedIter \/ any)
    /\ round' = 1 /\ changed' = FALSE /\ pc' = After[pc]
    /\ UNCHANGED <<in, fn, where, iter, sccp, intact, current>>

SccpStart ==
    /\ pc = "sccp"
    /\ am' = GetUseDef(am)
    /\ sccp' = SccpInit(fn, Values, in.params)
    /\ current' = (current /\ ~StaleUses)
    /\ pc' = "propagate"
    /\ UNCHANGED <<in, fn, where, round, iter, changed, changedIter, intact>>

PropagateBlock ==
    /\ pc = "propagate" /\ sccp.blocks # <<>>
    /\ sccp' = SccpBlock(fn, in.ty, sccp)
    /\ UNCHANGED <<in, fn, where, pc, round, iter, changed, changedIter, am, intact, current>>

PropagateValue ==
    /\ pc = "propagate" /\ sccp.blocks = <<>> /\ sccp.values # <<>>
    /\ sccp' = SccpValue(fn, in.ty, sccp, am.uses[1], where)
    /\ UNCHANGED <<in, fn, where, pc, round, iter, changed, changedIter, am, intact, current>>

(* When a branch was folded only what depends on the control flow is        *)
(* invalidated, although instructions lost their operands.                  *)
SccpEnd ==
    /\ pc = "propagate" /\ sccp.blocks = <<>> /\ sccp.values = <<>>
    /\ LET g == SccpConstants(fn, sccp)
           new == SccpBranches(g, sccp)
       IN  /\ Rewrite(new)
           /\ am' = CASE new # g -> InvalidateCfg(am)
                      [] g # fn -> InvalidateUseDef(am)
                      [] OTHER -> am
           /\ changedIter' = (changedIter \/ new # fn)
    /\ sccp' = <<>> /\ pc' = "dce"
    /\ UNCHANGED <<in, round, iter, changed, current>>

(* A pass of one action that invalidates the use lists if it changes the    *)
(* function; a is the manager with the analysis the pass asked for.         *)
Pass(name, next, a, new) ==
    /\ pc = name
    /\ Rewrite(new)
    /\ am' = IF fn' # fn THEN InvalidateUseDef(a) ELSE a
    /\ changedIter' = (changedIter \/ fn' # fn)
    /\ pc' = next
    /\ UNCHANGED <<in, round, iter, changed, sccp, current>>

Dce == Pass("dce", "copy", GetUseDef(am), ny_opt_pass_dce(fn, GetUseDef(am).uses[1]))
CopyProp == Pass("copy", "fold", am, ny_opt_pass_copy_prop(fn, in.ty))
Fold == Pass("fold", "gvn", am, ny_opt_pass_const_fold(fn, in.ty))
Gvn == Pass("gvn", "branch2", GetDom(am), ny_opt_pass_gvn(fn, in.ty, GetDom(am).dom[1]))

Iterate ==
    /\ pc = "iterate"
    /\ pc' = IF changedIter /\ iter < MaxIters THEN "canon_insts" ELSE "done"
    /\ iter' = IF pc' = "done" THEN iter ELSE iter + 1
    /\ changedIter' = FALSE
    /\ UNCHANGED <<in, fn, where, round, changed, am, sccp, intact, current>>

Done == pc = "done" /\ UNCHANGED vars

Next ==
    \/ CanonInsts \/ CanonTrim \/ CanonSame \/ CanonPhi \/ CanonDead \/ CanonMerge
    \/ SimplifyBranch \/ SimplifyPhi \/ SimplifyForward \/ SimplifyMerge \/ SimplifyDead
    \/ NextRound \/ EndRounds
    \/ SccpStart \/ PropagateBlock \/ PropagateValue \/ SccpEnd
    \/ Dce \/ CopyProp \/ Fold \/ Gvn \/ Iterate \/ Done

Spec == Init /\ [][Next]_vars

-----------------------------------------------------------------------------
(* What a function does for given arguments                                 *)

(* The meaning of an operation on unsigned words of width w, or <<>> for a  *)
(* trap; from is the width of the operands.                                 *)
Meaning(op, x, from, w) ==
    LET sx == [k \in DOMAIN x |-> Signed(x[k], from)]
        bit(p) == <<IF p THEN 1 ELSE 0>>
        sh == x[2] % w
    IN  CASE op = "add" -> <<x[1] + x[2]>>
          [] op = "sub" -> <<x[1] - x[2]>>
          [] op = "mul" -> <<x[1] * x[2]>>
          [] op = "neg" -> <<-x[1]>>
          [] op = "not" -> <<2^w - 1 - x[1]>>
          [] op = "div_u" -> IF x[2] = 0 THEN <<>> ELSE <<x[1] \div x[2]>>
          [] op = "rem_u" -> IF x[2] = 0 THEN <<>> ELSE <<x[1] % x[2]>>
          [] op = "div_s" -> IF x[2] = 0 THEN <<>> ELSE <<Quotient(sx[1], sx[2])>>
          [] op = "rem_s" -> IF x[2] = 0 THEN <<>> ELSE <<Remainder(sx[1], sx[2])>>
          [] op = "and" -> <<x[1] & x[2]>>
          [] op = "or" -> <<x[1] | x[2]>>
          [] op = "xor" -> <<x[1] ^^ x[2]>>
          [] op = "shl" -> <<x[1] * 2^sh>>
          [] op = "shr" -> <<x[1] \div 2^sh>>
          [] op = "sar" -> <<sx[1] \div 2^sh>>
          [] op = "rotl" -> <<x[1] * 2^sh + x[1] \div 2^(w - sh)>>
          [] op = "rotr" -> <<x[1] \div 2^sh + x[1] * 2^(w - sh)>>
          [] op = "cmp_eq" -> bit(x[1] = x[2])
          [] op = "cmp_ne" -> bit(x[1] # x[2])
          [] op = "cmp_lt_s" -> bit(sx[1] < sx[2])
          [] op = "cmp_le_s" -> bit(sx[1] <= sx[2])
          [] op = "cmp_gt_s" -> bit(sx[1] > sx[2])
          [] op = "cmp_ge_s" -> bit(sx[1] >= sx[2])
          [] op = "cmp_lt_u" -> bit(x[1] < x[2])
          [] op = "cmp_le_u" -> bit(x[1] <= x[2])
          [] op = "cmp_gt_u" -> bit(x[1] > x[2])
          [] op = "cmp_ge_u" -> bit(x[1] >= x[2])
          [] op \in {"zext", "truncate"} -> <<x[1]>>
          [] op = "sext" -> <<sx[1]>>
          [] op = "call" -> <<x[1] + 1>>

Unset == -1

(* An operand as an unsigned word of width w.                               *)
Read(env, v, w) == IF IsVal(v) THEN env[v] ELSE Unsigned(v[2], w)

(* The width an instruction's operands have: that of a value among them.    *)
OperandWidth(i) ==
    LET k == SelectInSeq(i.use, IsVal)
    IN  IF k = 0 THEN ResultWidth(in.ty, i) ELSE Width(TypeOf(in.ty, i.use[k]))

(* One instruction of a run r = [at, from, env, log]: entry is the          *)
(* environment at the start of the block, which phis read.                  *)
RunInst(r, entry, i) ==
    LET w == ResultWidth(in.ty, i)
        from == OperandWidth(i)
        put(u) == [r EXCEPT !.env[i.res] = u]
        set(v) == put(Unsigned(v, w))
        x == [k \in DOMAIN i.use |-> Read(r.env, i.use[k], from)]
        k == SelectInSeq(i.in, LAMBDA e : e[2] = r.from)
        y == Meaning(i.op, x, from, w)
    IN  CASE r.at = 0 \/ i.op \in {"branch", "branch_if"} -> r
          [] i.op \in {"effect", "return"} ->
                [r EXCEPT !.log = Append(@, <<i.op, i.res, IF IsVal(i.use[1]) THEN r.env[i.use[1]] ELSE i.use[1][2]>>)]
          [] i.op = "const" -> set(i.use[1][2])
          [] i.op = "phi" -> put(IF k = 0 THEN Unset ELSE Read(entry, i.in[k][1], w))
          [] i.op = "select" -> put(IF Read(r.env, i.use[1], 4) # 0 THEN Read(r.env, i.use[2], w)
                                    ELSE Read(r.env, i.use[3], w))
          [] \E j \in DOMAIN x : x[j] = Unset -> put(Unset)
          [] y = <<>> -> [r EXCEPT !.at = 0, !.log = Append(@, <<"trap">>)]
          [] i.op = "call" -> [set(y[1]) EXCEPT !.log = Append(@, <<"call", i.res, x[1]>>)]
          [] OTHER -> set(y[1])

RunBlock(f, r) ==
    LET s == FoldLeft(LAMBDA t, i : RunInst(t, r.env, i), r, f[r.at].insts)
        t == LastInst(f, r.at)
    IN  [s EXCEPT !.from = r.at,
                  !.at = CASE s.at = 0 \/ ~HasLast(f, r.at) -> 0
                           [] t.op = "branch" -> t.to[1]
                           [] t.op = "branch_if" -> IF Read(s.env, t.use[1], 4) # 0 THEN t.to[1] ELSE t.to[2]
                           [] OTHER -> 0]

RunSteps == 3 * Len(fn)

Run(f, args) ==
    LET R[n \in 0 .. RunSteps] ==
            IF n = 0 THEN [at |-> Entry, from |-> 0, log |-> <<>>,
                           env |-> [v \in Values |-> IF v[2] <= in.params
                                                     THEN Unsigned(args[v[2]], Width(in.ty[v[2]])) ELSE Unset]]
            ELSE LET r == R[n-1] IN IF r.at = 0 THEN r ELSE RunBlock(f, r)
    IN  R[RunSteps]

Arguments == [1 .. in.params -> {-128, -1, 0, 1, 5}]

-----------------------------------------------------------------------------
(* Properties                                                               *)

Before == pc \notin {"propagate"}

SameMeaning ==
    \A args \in Arguments :
        LET new == Run(fn, args)
            old == Run(Original, args)
        IN  \/ Contains(old.log, <<"trap">>)
            \/ /\ IsPrefix(old.log, new.log) \/ IsPrefix(new.log, old.log)
               /\ old.at = 0 => new.at = 0 /\ new.log = old.log

(* After every pass, for every argument, the function calls and stores what *)
(* it did before the pipeline, in the same order, and returns the same      *)
(* value.  Nothing is claimed once a known defect has struck, nor for a run *)
(* that traps: dead divisions are removed.                                  *)
MeaningKept == intact /\ current /\ Before => SameMeaning

(* The same whatever use lists SCCP was given: with -O2 its second run gets *)
(* those of the first if only the control flow was invalidated in between.  *)
MeaningKeptByStaleUses == intact /\ Before => SameMeaning

(* Every path from the entry to b passes through a.                         *)
DominatesByPaths(f, a, b) ==
    LET R[n \in 0 .. Len(f)] ==
            IF n = 0 THEN {Entry} \ {a}
            ELSE LET seen == R[n-1] IN seen \cup (UNION {ToSet(f[c].succs) : c \in seen} \ {a})
    IN  b \notin R[Len(f)]

(* Between passes, while the dominator tree of the manager is valid it is   *)
(* the tree of the function as it is now: value numbering relies on it.     *)
DominatorsCurrent ==
    am.dom # <<>> /\ pc \in {"sccp", "dce", "copy", "fold", "gvn", "iterate", "done"} =>
        \A a, b \in Reachable(fn) :
            ny_dominator_tree_dominates(am.dom[1], a, b) <=> DominatesByPaths(fn, a, b)

(* The dominance frontier of a block is where its dominance ends: the joins *)
(* with a predecessor it dominates that it does not strictly dominate.      *)
FrontiersExact ==
    LET dt == ny_dominator_tree_init(fn)
        frontier == Frontier(fn, dt)
        R == Reachable(fn)
    IN  \A a, b \in R :
            b \in frontier[a] <=>
                /\ \E p \in ToSet(fn[b].preds) \cap R : DominatesByPaths(fn, a, p)
                /\ a = b \/ ~DominatesByPaths(fn, a, b)

DefinedBefore(f, v, b, k) ==
    \/ v[2] <= in.params
    \/ \E p \in DefOf(f, v) : IF p[1] = b THEN p[2] < k ELSE DominatesByPaths(f, p[1], b)

(* SSA form: between passes every value a reachable block reads is defined  *)
(* by an instruction that is still linked and dominates the use (for a phi, *)
(* the end of the predecessor).                                             *)
SsaKept ==
    intact /\ current /\ Before =>
        \A b \in Reachable(fn) : \A k \in DOMAIN fn[b].insts :
            LET i == fn[b].insts[k]
            IN  IF i.op = "phi"
                THEN \A j \in DOMAIN i.in : i.in[j][2] \in Reachable(fn) /\ IsVal(i.in[j][1]) =>
                        DefinedBefore(fn, i.in[j][1], i.in[j][2], Len(fn[i.in[j][2]].insts) + 1)
                ELSE \A v \in ToSet(ValueOperands(i)) : DefinedBefore(fn, v, b, k)

Rank(l) == CASE l = Top -> 0 [] l = Bottom -> 2 [] OTHER -> 1

(* In SCCP a value only descends, from unknown to a constant to varying:    *)
(* otherwise the work lists need not run dry.                               *)
SccpDescends ==
    [][sccp # <<>> /\ sccp' # <<>> =>
        \A v \in DOMAIN sccp.lat : sccp'.lat[v] = sccp.lat[v] \/ Rank(sccp.lat[v]) < Rank(sccp'.lat[v])]_vars

(* The order of blocks that lowering and printing use: every reachable      *)
(* block once, and only the recorded back edges lead backwards.             *)
OrderCoversEdges ==
    LET info == ny_cfg_info_init(fn)
        index(b) == SelectInSeq(info.rpo, LAMBDA c : c = b)
    IN  /\ ToSet(info.rpo) = Reachable(fn) /\ IsInjective(info.rpo)
        /\ \A b \in Reachable(fn) : \A s \in ToSet(fn[b].succs) :
              (index(s) <= index(b)) <=> <<b, s>> \in info.back

LiveByPaths(f, v, b) ==
    LET defined(c, k) == \E j \in 1 .. k : f[c].insts[j].res = v
        reads(c) == \/ \E k \in DOMAIN f[c].insts : /\ f[c].insts[k].op # "phi"
                                                   /\ Contains(ValueOperands(f[c].insts[k]), v)
                                                   /\ ~defined(c, k - 1)
                    \/ /\ ~defined(c, Len(f[c].insts))
                       /\ \E s \in ToSet(f[c].succs) : v \in EdgeUses(f, c, s)
        reach[n \in 0 .. Len(f)] ==
            IF n = 0 THEN {b}
            ELSE LET seen == reach[n-1]
                 IN  seen \cup UNION {ToSet(f[c].succs) : c \in {d \in seen : ~defined(d, Len(f[d].insts))}}
    IN  \E c \in reach[Len(f)] : reads(c)

(* ny_liveness_init: a value is live into a block exactly when some path    *)
(* from its start reads it before defining it.                              *)
LivenessExact ==
    LET live == ny_liveness_init(fn)
    IN  \A b \in DOMAIN fn : live.in[b] = {v \in Values : LiveByPaths(fn, v, b)}

=============================================================================
