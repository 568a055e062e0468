------------------------------ MODULE RegAlloc ------------------------------
(***************************************************************************)
(* The linear scan register allocators (target/x86_64/x86_regalloc.c and   *)
(* target/aarch64/aarch64_regalloc.c).  The two are one algorithm with     *)
(* different register lists: a target says which registers a class may     *)
(* use and which registers carry spilled values.                           *)
(*                                                                         *)
(* Instruction indices count from 1 here and from 0 in the code, so the    *)
(* code's index 0, where parameters start, is 1.                           *)
(***************************************************************************)
EXTENDS MachineLower, FiniteSetsExt

CONSTANTS
    Inputs      \* the pairs [fn, target] a compilation may be about

(***************************************************************************)
(* A target is [args, caller, callee, fpCaller, fpCallee, gprScratch,      *)
(* fpScratch]: sequences of register names in the order of the tables.     *)
(***************************************************************************)
VARIABLES
    fn,         \* the IR function
    target,     \* the register tables
    phase,      \* the part of the compilation that runs next
    mfn,        \* the machine function
    live_in, live_out,  \* sets of virtual registers per block
    block,      \* the block the liveness loop looks at
    changed,    \* whether the round of the liveness loop changed a set
    interval,   \* [start, end, crosses_call] per virtual register
    waiting,    \* the intervals that have not been scanned yet
    active,     \* the intervals scanned and not expired that hold a register
    free,       \* free_mask
    assigned    \* assigned_phys per virtual register; "spilled", "none"

vars == <<fn, target, phase, mfn, live_in, live_out, block, changed, interval,
          waiting, active, free, assigned>>

Vregs == DOMAIN mfn.class
Blocks == DOMAIN mfn.blocks
IsFp(v) == mfn.class[v] \in {"fp32", "fp64"}

CalleeSaved(t) == ToSet(t.callee) \cup ToSet(t.fpCallee)
AllRegs(t) == ToSet(t.caller) \cup ToSet(t.callee) \cup ToSet(t.fpCaller) \cup ToSet(t.fpCallee)

----------------------------------------------------------------------------
(* What an instruction reads and writes.                                   *)

IsRegOperand(o) == o.k \in {"reg", "base", "index"}
Uses(i) == {i.use[j].v : j \in {k \in DOMAIN i.use : IsRegOperand(i.use[k])}}
Defs(i) == {i.def} \ {NoReg}

(* The frame layouts align by a mask, which nothing checks to be one: it   *)
(* is AlignUp for powers of two only (and what is below 4 counts as 4).    *)
MaskAligns(a) == a = 0 \/ \E k \in 0 .. 30 : a = 2^k

(* What the validator has checked of the IR and lowering keeps: branches   *)
(* lead to blocks, a block ends in a terminator, and operands, results and *)
(* parameters are values of the function; a value has one definition, so   *)
(* one slot at most.                                                       *)
WellFormed(m) ==
    /\ Len(m.blocks) \in Nat /\ DOMAIN m.blocks = 1 .. Len(m.blocks)
    /\ \A b \in DOMAIN m.blocks :
          /\ Len(m.blocks[b]) \in Nat \ {0} /\ DOMAIN m.blocks[b] = 1 .. Len(m.blocks[b])
          /\ m.blocks[b][Len(m.blocks[b])].op \in {"JMP", "RET", "TRAP"}
          /\ m.succ[b] \subseteq DOMAIN m.blocks
          /\ \A j \in DOMAIN m.blocks[b] :
                /\ Len(m.blocks[b][j].use) \in Nat
                /\ DOMAIN m.blocks[b][j].use = 1 .. Len(m.blocks[b][j].use)
                /\ Uses(m.blocks[b][j]) \cup Defs(m.blocks[b][j]) \subseteq DOMAIN m.class
    /\ ToSet(m.params) \subseteq DOMAIN m.class
    /\ Len(m.class) \in Nat /\ DOMAIN m.class = 1 .. Len(m.class)
    /\ Len(m.slots) \in Nat /\ DOMAIN m.slots = 1 .. Len(m.slots)
    /\ \A n \in DOMAIN m.slots :
          /\ m.slots[n].v \in DOMAIN m.class /\ m.slots[n].size \in Nat
          /\ m.slots[n].align \in Nat /\ MaskAligns(m.slots[n].align)
          /\ \A k \in DOMAIN m.slots : k # n => m.slots[k].v # m.slots[n].v

ASSUME LoweringAssumption ==
    \A in \in Inputs : Supported(in.fn) => WellFormed(lower_function(in.fn))

(* The tables of a target are arrays.                                      *)
ASSUME TablesAssumption ==
    \A in \in Inputs :
        LET t == in.target
        IN  /\ t.shadow \in Nat
            /\ \A table \in {t.args, t.fpArgs, t.callee, t.fpCallee} : table \in Seq(ToSet(table))

(* use_gen and def_kill of a block: operands are looked at before the      *)
(* result of the same instruction.                                         *)
def_kill(m, b) == UNION {Defs(m.blocks[b][j]) : j \in DOMAIN m.blocks[b]}
use_gen(m, b) ==
    {v \in DOMAIN m.class : \E j \in DOMAIN m.blocks[b] :
        /\ v \in Uses(m.blocks[b][j])
        /\ \A k \in 1 .. j-1 : v \notin Defs(m.blocks[b][k])}

(* Instruction indices: a block starts after all of the earlier blocks.    *)
blk_start(m, b) == 1 + Cardinality({p \in Positions(m) : p[1] < b})
blk_end(m, b) == Max({1, blk_start(m, b) + Len(m.blocks[b]) - 1})
Index(m, p) == blk_start(m, p[1]) + p[2] - 1

(* The indices at which a virtual register is read or written.             *)
Occurrences(m, v) ==
    {Index(m, p) : p \in {q \in Positions(m) : v \in Uses(InstAt(m, q)) \cup Defs(InstAt(m, q))}}

call_sites(m) == {Index(m, p) : p \in {q \in Positions(m) : InstAt(m, q).op = "CALL"}}

----------------------------------------------------------------------------
NoInterval == [start |-> 1, end |-> 1, crosses_call |-> FALSE]

Init ==
    /\ \E in \in Inputs : fn = in.fn /\ target = in.target
    /\ phase = "lower"
    /\ mfn = [class |-> <<>>, slots |-> <<>>, params |-> <<>>, blocks |-> <<>>, succ |-> <<>>]
    /\ live_in = <<>> /\ live_out = <<>>
    /\ block = 0 /\ changed = FALSE
    /\ interval = <<>> /\ waiting = {} /\ active = {}
    /\ free = {} /\ assigned = <<>>

(* ny_ir_lower_to_mir: an unsupported type ends the compilation.           *)
LowerToMir ==
    /\ phase = "lower"
    /\ IF Supported(fn)
       THEN /\ phase' = "live"
            /\ mfn' = lower_function(fn)
            /\ live_in' = [b \in DOMAIN mfn'.blocks |-> {}]
            /\ live_out' = live_in'
            /\ block' = Len(mfn'.blocks)
       ELSE /\ phase' = "failed"
            /\ UNCHANGED <<mfn, live_in, live_out, block>>
    /\ changed' = FALSE
    /\ UNCHANGED <<fn, target, interval, waiting, active, free, assigned>>

(* One turn of the backward loop over blocks.                              *)
LiveTurn ==
    /\ phase = "live" /\ block > 0
    /\ live_out' = [live_out EXCEPT ![block] =
                       @ \cup UNION {live_in[s] : s \in mfn.succ[block]}]
    /\ live_in' = [live_in EXCEPT ![block] =
                      use_gen(mfn, block) \cup (live_out'[block] \ def_kill(mfn, block))]
    /\ changed' = (changed \/ live_in' # live_in)
    /\ block' = block - 1
    /\ UNCHANGED <<fn, target, phase, mfn, interval, waiting, active, free, assigned>>

(* while (changed)                                                         *)
LiveRound ==
    /\ phase = "live" /\ block = 0
    /\ IF changed
       THEN block' = Len(mfn.blocks) /\ UNCHANGED phase
       ELSE phase' = "intervals" /\ UNCHANGED block
    /\ changed' = FALSE
    /\ UNCHANGED <<fn, target, mfn, live_in, live_out, interval, waiting, active, free, assigned>>

(* The interval of a register: its occurrences, the start of the function  *)
(* for a parameter, and the borders of the blocks it lives through.        *)
IntervalOf(v) ==
    LET ins  == {blk_start(mfn, b) : b \in {c \in Blocks : v \in live_in[c]}}
        outs == {blk_end(mfn, b) : b \in {c \in Blocks : v \in live_out[c]}}
        from == Occurrences(mfn, v) \cup ins \cup (IF v \in ToSet(mfn.params) THEN {1} ELSE {})
        to   == Occurrences(mfn, v) \cup ins \cup outs \cup {1}
    IN  IF from = {} THEN NoInterval
        ELSE [start |-> Min(from), end |-> Max(to),
              crosses_call |-> \E c \in call_sites(mfn) : Min(from) < c /\ c < Max(to)]

BuildIntervals ==
    /\ phase = "intervals"
    /\ interval' = [v \in Vregs |-> IntervalOf(v)]
    /\ waiting' = Vregs
    /\ free' = AllRegs(target)
    /\ assigned' = [v \in Vregs |-> "none"]
    /\ phase' = "scan"
    /\ UNCHANGED <<fn, target, mfn, live_in, live_out, block, changed, active>>

----------------------------------------------------------------------------
(* The scan.                                                               *)

(* compare_interval_start                                                  *)
StartsBefore(a, b) ==
    interval[a].start < interval[b].start \/ (interval[a].start = interval[b].start /\ a < b)

(* The order of the active list: by end, an interval behind those that end *)
(* at the same place and were scanned before it.                           *)
EndsBefore(a, b) ==
    interval[a].end < interval[b].end \/ (interval[a].end = interval[b].end /\ StartsBefore(a, b))

(* Mutant: a register is free again at the last use of its value.          *)
ExpiredAtUse(v, cur) == interval[v].end <= interval[cur].start + 1

Expired(v, cur) == interval[v].end < interval[cur].start

(* Mutant: a value across a call may fall back on a caller-saved one.      *)
CandidatesWithFallback(cur) ==
    LET caller == IF IsFp(cur) THEN target.fpCaller ELSE target.caller
        callee == IF IsFp(cur) THEN target.fpCallee ELSE target.callee
    IN  IF interval[cur].crosses_call THEN callee \o caller ELSE caller \o callee

(* The register lists in the order they are searched.                      *)
Candidates(cur) ==
    LET caller == IF IsFp(cur) THEN target.fpCaller ELSE target.caller
        callee == IF IsFp(cur) THEN target.fpCallee ELSE target.callee
    IN  IF interval[cur].crosses_call THEN callee ELSE caller \o callee

(* The active intervals that go on, and the registers free without others. *)
Kept(cur) == {v \in active : ~Expired(v, cur)}
Avail(cur) == free \cup {assigned[v] : v \in active \ Kept(cur)}

(* The first register of the lists that is free.                           *)
FirstFree(cur, k) ==
    /\ k \in DOMAIN Candidates(cur) /\ Candidates(cur)[k] \in Avail(cur)
    /\ \A j \in 1 .. k-1 : Candidates(cur)[j] \notin Avail(cur)

NoneFree(cur) == \A k \in DOMAIN Candidates(cur) : Candidates(cur)[k] \notin Avail(cur)

(* The active intervals of the family that end later and, for a value that *)
(* lives across a call, hold a callee-saved register.                      *)
MayEvict(v, cur) ==
    /\ IsFp(v) = IsFp(cur)
    /\ interval[v].end > interval[cur].end
    /\ interval[cur].crosses_call => assigned[v] \in CalleeSaved(target)

Victims(cur) == {v \in Kept(cur) : MayEvict(v, cur)}

TakeFree(cur) ==
    \E k \in DOMAIN Candidates(cur) :
        /\ FirstFree(cur, k)
        /\ assigned' = [assigned EXCEPT ![cur] = Candidates(cur)[k]]
        /\ free' = Avail(cur) \ {Candidates(cur)[k]}
        /\ active' = Kept(cur) \cup {cur}

(* The victim is the last of the active list.                              *)
Evict(cur) ==
    /\ NoneFree(cur)
    /\ \E v \in Victims(cur) :
          /\ \A w \in Victims(cur) \ {v} : EndsBefore(w, v)
          /\ assigned' = [assigned EXCEPT ![cur] = assigned[v], ![v] = "spilled"]
          /\ active' = (Kept(cur) \ {v}) \cup {cur}
    /\ free' = Avail(cur)

SpillCurrent(cur) ==
    /\ NoneFree(cur) /\ Victims(cur) = {}
    /\ assigned' = [assigned EXCEPT ![cur] = "spilled"]
    /\ free' = Avail(cur)
    /\ active' = Kept(cur)

ScanInterval ==
    /\ phase = "scan"
    /\ \E cur \in waiting :
          /\ \A v \in waiting \ {cur} : StartsBefore(cur, v)
          /\ waiting' = waiting \ {cur}
          /\ TakeFree(cur) \/ Evict(cur) \/ SpillCurrent(cur)
    /\ UNCHANGED <<fn, target, phase, mfn, live_in, live_out, block, changed, interval>>

----------------------------------------------------------------------------
(* Rewriting of the instructions.                                          *)

IsSpilled(v) == assigned[v] = "spilled"

(* The scratch register of the n-th spilled operand of a class: all after  *)
(* the last one of the list share it.                                      *)
Scratch(list, n) == list[IF n < Len(list) THEN n ELSE Len(list)]

(* The register an operand is read from.  The base and the index of a      *)
(* memory operand use the first and the second scratch register whatever   *)
(* the other operands use.                                                 *)
OperandReg(i, j) ==
    LET o == i.use[j]
        earlier == Cardinality({k \in 1 .. j : /\ i.use[k].k = "reg" /\ IsSpilled(i.use[k].v)
                                               /\ IsFp(i.use[k].v) = IsFp(o.v)})
    IN  CASE ~IsSpilled(o.v) -> assigned[o.v]
          [] o.k = "base"    -> target.gprScratch[1]
          [] o.k = "index"   -> target.gprScratch[2]
          [] OTHER -> Scratch(IF IsFp(o.v) THEN target.fpScratch ELSE target.gprScratch, earlier)

ResultReg(v) ==
    IF ~IsSpilled(v) THEN assigned[v]
    ELSE IF IsFp(v) THEN target.fpScratch[1] ELSE target.gprScratch[1]

(* The slot a spilled register is kept in, apart from the slot that an     *)
(* instruction of the code may have made for the same value.               *)
SpillSlot(v) == -v

(* The loads before an instruction, the instruction on physical registers  *)
(* and the store of a spilled result after it.                             *)
RewriteInst(i) ==
    LET spilt == Ascending({j \in DOMAIN i.use : IsRegOperand(i.use[j]) /\ IsSpilled(i.use[j].v)})
        loads == [n \in DOMAIN spilt |->
                     MInst("LOAD", OperandReg(i, spilt[n]), <<Operand("slot", SpillSlot(i.use[spilt[n]].v))>>)]
        inst  == MInst(i.op, IF i.def = NoReg THEN "none" ELSE ResultReg(i.def),
                       [j \in DOMAIN i.use |->
                           IF IsRegOperand(i.use[j])
                           THEN Operand(i.use[j].k, OperandReg(i, j)) ELSE i.use[j]])
        body  == ny_mfunc_insert_before(loads, inst)
    IN  IF i.def # NoReg /\ IsSpilled(i.def)
        THEN ny_mfunc_insert_after(body,
                 MInst("STORE", "none", <<Operand("slot", SpillSlot(i.def)), Reg(ResultReg(i.def))>>))
        ELSE body

(* The slots of the spilled registers come after the slots of the code.    *)
SpillSlots ==
    LET spilt == Ascending({v \in Vregs : IsSpilled(v)})
        size(v) == IF mfn.class[v] \in {"gpr32", "fp32"} THEN 4 ELSE 8
    IN  [n \in DOMAIN spilt |->
            ny_mfunc_create_stack_slot(SpillSlot(spilt[n]), size(spilt[n]), size(spilt[n]))]

(* A spilled parameter is put into the scratch register, without a store.  *)
Rewrite ==
    /\ phase = "scan" /\ waiting = {}
    /\ phase' = "select"
    /\ mfn' = [mfn EXCEPT !.blocks = [b \in Blocks |->
                              FlattenSeq([j \in DOMAIN mfn.blocks[b] |-> RewriteInst(mfn.blocks[b][j])])],
                          !.slots = mfn.slots \o SpillSlots,
                          !.params = [p \in DOMAIN mfn.params |-> ResultReg(mfn.params[p])]]
    /\ UNCHANGED <<fn, target, live_in, live_out, block, changed, interval,
                   waiting, active, free, assigned>>

AllocNext == LowerToMir \/ LiveTurn \/ LiveRound \/ BuildIntervals \/ ScanInterval \/ Rewrite
=============================================================================
