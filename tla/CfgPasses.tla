------------------------------ MODULE CfgPasses ------------------------------
(***************************************************************************)
(* The passes that edit control flow, as ny_opt_run_pipeline runs them     *)
(* first: ny_canonicalize_function and, above -O0,                         *)
(* ny_opt_pass_cfg_simplify.  Each is a few loops over all blocks,         *)
(* repeated until a round changes nothing or MaxIters rounds are over.  An *)
(* action is one turn of one loop: what it does to the block at the        *)
(* cursor.                                                                 *)
(*                                                                         *)
(* ny_canonicalize_instructions has nothing to do on the instructions used *)
(* here (no arithmetic, no casts).                                         *)
(***************************************************************************)
EXTENDS CfgRewrites

CONSTANTS
    Bodies,     \* functions to start from, as instruction lists per block
    Levels      \* optimisation levels: a subset of {"O0", "O1"}

MaxIters == 4

ASSUME PassAssumption == Levels \subseteq {"O0", "O1"}

VARIABLES
    fn,         \* the function
    orig,       \* history: the function the pipeline was given
    level,
    pass,       \* "canonicalize", "simplify" or "done"
    step,       \* loop of the pass, "end" after the last one
    at,         \* block the loop is at
    iter,       \* round of the pass
    changed,    \* this round has changed the function; in the end, the last one
    reach       \* blocks marked reachable by the loop that drops the others

vars == <<fn, orig, level, pass, step, at, iter, changed, reach>>

Init ==
    /\ orig \in {f \in {Build(x) : x \in Bodies} : Validates(f)}
    /\ fn = orig
    /\ level \in Levels
    /\ pass = "canonicalize" /\ step = "trim" /\ at = 1
    /\ iter = 1 /\ changed = FALSE /\ reach = {}

-----------------------------------------------------------------------------
(* Control of the loops                                                     *)

StepAfter ==
    [canonicalize |-> [trim |-> "same", same |-> "phi", phi |-> "dead",
                       dead |-> "merge", merge |-> "end"],
     simplify |-> [branch |-> "phi", phi |-> "forward", forward |-> "merge",
                   merge |-> "dead", dead |-> "end"]]

Advance ==
    /\ at' = (at % Len(fn)) + 1
    /\ step' = IF at = Len(fn) THEN StepAfter[pass][step] ELSE step
    /\ reach' = IF step' # "dead" THEN {} ELSE IF step = "dead" THEN reach ELSE Reachable(fn')

(* Every loop body sets changed exactly when it edits the function.         *)
Turn(p, s, new) ==
    /\ pass = p /\ step = s
    /\ fn' = new
    /\ changed' = (changed \/ fn' # fn)
    /\ Advance
    /\ UNCHANGED <<orig, level, pass, iter>>

CanonTrim == Turn("canonicalize", "trim", Trim(fn, at))
CanonSame == Turn("canonicalize", "same", FoldSame(fn, at))
CanonPhi == Turn("canonicalize", "phi", DropEqualPhis(fn, at))
CanonDead == Turn("canonicalize", "dead", DropUnreached(fn, at, reach))
CanonMerge == Turn("canonicalize", "merge", MergeNext(fn, at))
SimplifyBranch == Turn("simplify", "branch", FoldBranch(fn, at))
SimplifyPhi == Turn("simplify", "phi", DropSinglePhis(fn, at))
SimplifyForward == Turn("simplify", "forward", Forward(fn, at))
SimplifyMerge == Turn("simplify", "merge", MergeNextSimplify(fn, at))
SimplifyDead == Turn("simplify", "dead", DropUnreachedSimplify(fn, at, reach))

FirstStep(p) == IF p = "canonicalize" THEN "trim" ELSE "branch"

NextRound ==
    /\ step = "end" /\ changed /\ iter < MaxIters
    /\ iter' = iter + 1
    /\ step' = FirstStep(pass)
    /\ changed' = FALSE
    /\ UNCHANGED <<fn, orig, level, pass, at, reach>>

EndPass ==
    /\ step = "end" /\ (~changed \/ iter = MaxIters)
    /\ pass' = IF pass = "canonicalize" /\ level # "O0" THEN "simplify" ELSE "done"
    /\ step' = IF pass' = "done" THEN "none" ELSE FirstStep(pass')
    /\ iter' = 1
    /\ changed' = (changed /\ pass' = "done")
    /\ UNCHANGED <<fn, orig, level, at, reach>>

Done == pass = "done" /\ UNCHANGED vars

Next ==
    \/ CanonTrim \/ CanonSame \/ CanonPhi \/ CanonDead \/ CanonMerge
    \/ SimplifyBranch \/ SimplifyPhi \/ SimplifyForward \/ SimplifyMerge
    \/ SimplifyDead
    \/ NextRound \/ EndPass \/ Done

Spec == Init /\ [][Next]_vars

-----------------------------------------------------------------------------
(* What a function does: the run for an argument                            *)

ValueOf(v, env, a) ==
    CASE v[1] = "arg" -> a
      [] v[1] \in {"const", "imm"} -> v[2]
      [] v[1] = "phi" -> env[v[2]]
      [] OTHER -> -1

(* The value a phi takes when the block is entered from p; -1: none.        *)
Incoming(i, p, env, a) ==
    LET k == SelectInSeq(i.in, LAMBDA e : e[2] = p)
    IN IF k = 0 THEN -1 ELSE ValueOf(i.in[k][1], env, a)

EnterBlock(f, b, p, env, a) ==
    [c \in DOMAIN env |->
       LET k == SelectInSeq(f[b].insts, LAMBDA i : i.res = PhiOf(c))
       IN IF k = 0 THEN env[c] ELSE Incoming(f[b].insts[k], p, env, a)]

(* One block of a run: [at, from, env, log]; at = 0 after a return or in a  *)
(* block without terminator.                                                *)
RunBlock(f, r, a) ==
    LET b == r.at
        env == EnterBlock(f, b, r.from, r.env, a)
        k == SelectInSeq(f[b].insts, IsTerminator)
        body == SelectSeq(SubSeq(f[b].insts, 1, IF k = 0 THEN Len(f[b].insts) ELSE k),
                          LAMBDA i : i.op \in {"effect", "return"})
        log == r.log \o [j \in DOMAIN body |-> <<body[j].res, ValueOf(body[j].use[1], env, a)>>]
        t == f[b].insts[k]
    IN [at |-> CASE k = 0 -> 0
                 [] t.op = "branch" -> t.to[1]
                 [] t.op = "branch_if" ->
                      IF ValueOf(t.use[1], env, a) # 0 THEN t.to[1] ELSE t.to[2]
                 [] OTHER -> 0,
        from |-> b, env |-> env, log |-> log]

RunSteps == 2 * Len(fn)

Run(f, a) ==
    LET R[k \in 0..RunSteps] ==
          IF k = 0 THEN [at |-> Entry, from |-> 0,
                         env |-> [c \in DOMAIN f |-> -1], log |-> <<>>]
          ELSE LET r == R[k-1] IN IF r.at = 0 THEN r ELSE RunBlock(f, r, a)
    IN R[RunSteps]

-----------------------------------------------------------------------------
(* Properties                                                               *)

(* At every point between two loop turns, the arrays the passes navigate by *)
(* cover the real control flow: each target of a reachable block's          *)
(* terminator is among its successors, and each successor lists the block   *)
(* among its predecessors, once.                                            *)
EdgesCoverBranches ==
    \A b \in Reachable(fn) :
        /\ LET k == SelectInSeq(fn[b].insts, IsTerminator)
           IN k # 0 => ToSet(fn[b].insts[k].to) \subseteq ToSet(fn[b].succs)
        /\ \A s \in ToSet(fn[b].succs) :
             \E k \in DOMAIN fn[s].preds :
                 /\ fn[s].preds[k] = b
                 /\ \A j \in DOMAIN fn[s].preds \ {k} : fn[s].preds[j] # b

(* Between any two loop turns, for every argument, the function performs    *)
(* the effects of the function the pipeline was given, in the same order,   *)
(* and returns when that does (one run may be further on than the other     *)
(* after the same number of blocks).                                        *)
BehaviourKept ==
    \A a \in {0, 1} :
        LET new == Run(fn, a)
            old == Run(orig, a)
        IN /\ IsPrefix(old.log, new.log) \/ IsPrefix(new.log, old.log)
           /\ old.at = 0 => new.at = 0 /\ new.log = old.log

(* When the passes of -O1 are done, a block that cannot be reached is       *)
(* blank, also when they stop at the limit of MaxIters rounds.  Unless they *)
(* do, no reachable block ends in a branch that FoldBranch would fold or    *)
(* could still be joined with its successor; for functions of three blocks  *)
(* the limit is never what stops them.                                      *)
NothingDeadLeft ==
    pass = "done" /\ level = "O1" =>
        /\ \A b \in DOMAIN fn \ Reachable(fn) : fn[b] = BlankBlock
        /\ Len(fn) <= 3 => ~changed
        /\ ~changed =>
             \A b \in Reachable(fn) :
                 FoldBranch(fn, b) = fn /\ MergeNextSimplify(fn, b) = fn

(* docs/nyir.md: "Phi node invariants: phi inputs match predecessor block   *)
(* count".  After the passes, every phi at the start of a block has as many *)
(* pairs as the block has predecessors.                                     *)
PhiMatchesPreds ==
    pass = "done" =>
        \A b \in DOMAIN fn : \A k \in LeadingPhis(fn, b) :
            Len(fn[b].insts[k].in) = Len(fn[b].preds)

(* src/ir/validate.c: "Phi operands are edge-live from incoming             *)
(* predecessors".  After the passes, every pair of a phi at the start of a  *)
(* block names a predecessor of the block.                                  *)
PhiNamesPreds ==
    pass = "done" =>
        \A b \in DOMAIN fn : \A k \in LeadingPhis(fn, b) :
            \A j \in DOMAIN fn[b].insts[k].in :
                Contains(fn[b].preds, fn[b].insts[k].in[j][2])

=============================================================================
