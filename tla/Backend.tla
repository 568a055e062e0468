------------------------------ MODULE Backend -------------------------------
(***************************************************************************)
(* Compilation of one function, from IR to selected instructions: lowering *)
(* to machine IR, register allocation, instruction selection (the loop     *)
(* over functions of nygen.c), for the three calling conventions.          *)
(***************************************************************************)
EXTENDS RegAlloc, X86Isel, A64Isel

VARIABLE code   \* the frame and the blocks that instruction selection emits

beVars == <<vars, code>>

NoCode == [frame |-> [saved |-> <<>>, outgoing |-> 0, slot_offsets |-> <<>>, stack_size |-> 0],
           blocks |-> <<>>]

(* The machine function as lowering made it.                               *)
Lowered == lower_function(fn)
FpParams == [p \in DOMAIN Lowered.params |-> Lowered.class[p] \in {"fp32", "fp64"}]

BackendInit == Init /\ code = NoCode

(* x86_lower_machine_mod or aarch64_lower_machine_mod, by the target.      *)
Select ==
    /\ phase = "select"
    /\ phase' = "done"
    /\ code' = IF target.arch = "x86" THEN x86_lower_func(mfn, FpParams, target)
               ELSE aarch64_lower_func(mfn, FpParams, target)
    /\ UNCHANGED <<fn, target, mfn, live_in, live_out, block, changed, interval,
                   waiting, active, free, assigned>>

(* A compilation that is over stays over.                                  *)
Finished == phase \in {"done", "failed"} /\ UNCHANGED beVars

BackendNext == (AllocNext /\ UNCHANGED code) \/ Select \/ Finished

BackendSpec == BackendInit /\ [][BackendNext]_beVars

----------------------------------------------------------------------------
(* Liveness by definition, instruction by instruction, as the reference.   *)

VCode == Instructions(Lowered)

InstSucc(m, p) ==
    IF p[2] < Len(m.blocks[p[1]]) THEN {<<p[1], p[2] + 1>>}
    ELSE {<<c, 1>> : c \in m.succ[p[1]]}

(* What is live after each instruction, from what is live after the next.  *)
StepBack(m, live) ==
    [p \in Positions(m) |->
        UNION {Uses(InstAt(m, q)) \cup (live[q] \ Defs(InstAt(m, q))) : q \in InstSucc(m, p)}]

(* LiveAfter(m)[p]: the registers some path from p on reads before writing *)
(* them; a path that is as long as the function meets every instruction.   *)
LiveAfter(m) ==
    LET Within[n \in 0 .. Cardinality(Positions(m))] ==
            IF n = 0 THEN [p \in Positions(m) |-> {}] ELSE StepBack(m, Within[n-1])
    IN  Within[Cardinality(Positions(m))]

Allocated == phase \in {"select", "done"}
InRegister(v) == assigned[v] \notin {"spilled", "none"}

(***************************************************************************)
(* Two values that are needed at the same time never share a register:     *)
(* the interval scan frees a register only after the last use of its       *)
(* value, along every path of the control flow.  Parameters arrive         *)
(* together, so no two of them share one.                                  *)
(***************************************************************************)
Separate ==
    Allocated =>
        LET m == Lowered
            live == LiveAfter(m)
        IN  /\ \A p \in Positions(m) : \A d \in Defs(InstAt(m, p)) : \A v \in live[p] \ {d} :
                  InRegister(d) => assigned[v] # assigned[d]
            /\ \A p, q \in 1 .. fn.params :
                  p # q /\ InRegister(p) => assigned[p] # assigned[q]

(* The values a call at p has to leave alone.                              *)
LiveAcross(m, live, p) == live[p] \ Defs(InstAt(m, p))

(* A value whose interval begins at a call it has to survive.              *)
CallAtStart(m, live) ==
    \E p \in Calls(m) : \E v \in LiveAcross(m, live, p) : interval[v].start = Index(m, p)

(***************************************************************************)
(* A value needed after a call is kept in a register the callee preserves, *)
(* or in memory.  Excepted is a value whose interval begins at the call:   *)
(* the code takes it for one the call defines or reads (CallAtStart).      *)
(***************************************************************************)
CallsSafe ==
    Allocated =>
        LET m == Lowered
            live == LiveAfter(m)
        IN  \A p \in Calls(m) : \A v \in LiveAcross(m, live, p) :
                interval[v].start # Index(m, p) /\ InRegister(v) => assigned[v] \in CalleeSaved(target)

SlotRange(n) ==
    LET lo == code.frame.slot_offsets[mfn.slots[n].v]
    IN  [lo |-> lo, hi |-> lo + mfn.slots[n].size]

FrameTop == IF target.arch = "x86" THEN 0
            ELSE code.frame.stack_size - 16 - 8 * Len(code.frame.saved)
FrameBottom == IF target.arch = "x86" THEN -code.frame.stack_size ELSE 0

(***************************************************************************)
(* The parts of a frame do not overlap: slots, the outgoing arguments      *)
(* below them and the saved registers above them.  A slot whose size is a  *)
(* multiple of an alignment of at most 8 is aligned to it.                 *)
(***************************************************************************)
FrameDisjoint ==
    phase = "done" =>
        \A n \in DOMAIN mfn.slots :
            /\ SlotRange(n).lo >= FrameBottom + code.frame.outgoing
            /\ SlotRange(n).hi <= FrameTop
            /\ mfn.slots[n].align \in {1, 2, 4, 8} /\ mfn.slots[n].size % mfn.slots[n].align = 0 =>
                  SlotRange(n).lo % mfn.slots[n].align = 0
            /\ \A k \in DOMAIN mfn.slots : k # n =>
                  SlotRange(n).hi <= SlotRange(k).lo \/ SlotRange(k).hi <= SlotRange(n).lo

----------------------------------------------------------------------------
(***************************************************************************)
(* What the code is known not to handle.  Each is a defect of its own; the *)
(* properties below are about all other functions.                         *)
(***************************************************************************)

(* A parameter without a register goes to a scratch register and is lost.  *)
SpilledParam == \E p \in 1 .. fn.params : assigned[p] = "spilled"

(* The scratch registers of an instruction are not enough: a spilled       *)
(* result shares one with a spilled operand that is read after it was      *)
(* written, a memory base with a stored value, or a scratch register may   *)
(* hold another value.                                                     *)
ScratchShort ==
    \E i \in DOMAIN VCode :
        LET use == VCode[i].use
            spilt == {o \in DOMAIN use : IsRegOperand(use[o]) /\ IsSpilled(use[o].v)}
        IN  \/ Cardinality(spilt) > 2
            \/ \E o \in spilt : use[o].k = "base" /\ Cardinality(spilt) > 1
            \/ \E v \in Defs(VCode[i]) : IsSpilled(v) /\ \E o \in spilt : o > 1 /\ VCode[i].op # "CALL"
            \/ \E v \in Vregs : /\ assigned[v] \in ToSet(target.gprScratch) \cup ToSet(target.fpScratch)
                                /\ \E w \in Vregs : IsSpilled(w)
            \/ VCode[i].op = "CALL" /\ spilt # {} /\ Len(use) > 2

(* x86 division writes ax and dx whatever they hold.                       *)
DivisionClobbers(m, live) ==
    target.arch = "x86" /\ \E p \in Positions(m) :
        LET i == InstAt(m, p)
        IN  /\ i.op \in {"IDIV", "IREM"}
            /\ \E v \in live[p] \cup {i.use[2].v} :
                  v \notin Defs(i) /\ assigned[v] \in {"ax", "dx"}

(* A parameter of the stack is loaded over one that is still in its        *)
(* register, or read from the wrong place; AArch64 moves the parameters    *)
(* one after the other.                                                    *)
ParamsInTheWay ==
    LET locs == AbiLocations(FpParams, target, "sp", 0)
    IN  \E p, q \in DOMAIN locs :
            /\ p # q
            /\ locs[q].k = "reg" /\ assigned[p] = locs[q].v
            /\ \/ locs[p].k = "sp"
               \/ target.arch = "a64" /\ p < q
StackParams == target.arch = "a64" /\ \E p \in DOMAIN FpParams :
                  AbiLocations(FpParams, target, "sp", 0)[p].k = "sp"

(* Opcodes one of the back ends has no case for.                           *)
NoCase == \E i \in DOMAIN VCode :
    \/ VCode[i].op \in {"SELECT", "PHI", "FNEG"}
    \/ VCode[i].op \in {"UDIV", "UREM"} /\ target.arch = "x86"
    \/ VCode[i].op \in {"FADD", "FSUB", "FMUL", "FDIV"} /\ target.arch = "a64"

(* The constants of floating point types are dropped.                      *)
FloatConst == \E i \in DOMAIN VCode :
    VCode[i].op = "COPY" /\ VCode[i].use[1].k = "fimm"

(* An x86 shift by a register other than CL.                               *)
ShiftCount ==
    target.arch = "x86" /\ \E i \in DOMAIN VCode :
        VCode[i].op \in {"SHL", "SHR", "SAR"} /\ assigned[VCode[i].use[2].v] # "cx"

(* Floating point values are compared as integers, and AArch64 compares    *)
(* 64 bits of narrower values.                                             *)
ComparesWrong == \E i \in DOMAIN VCode :
    /\ VCode[i].op = "CMP"
    /\ VCode[i].use[4].v \in FloatTypes \cup (IF target.arch = "a64" THEN {"i32"} ELSE {})

(* Conversions are copies: nothing is extended, cut or rounded, and a bit  *)
(* cast between the register files is no move either.                      *)
Converts ==
    LET family(v) == fn.types[v] \in FloatTypes
        ir == FlattenSeq(fn.blocks)
    IN  \E n \in DOMAIN ir :
            \/ ir[n].op = "cast"
            \/ ir[n].op = "bitcast" /\ family(ir[n].args[1]) # family(ir[n].res)

(* x86 branches on the flags of the AND that follows a comparison, which   *)
(* only "not equal" and "greater" survive; both back ends branch on        *)
(* whatever flags the last instruction left.                               *)
FlagsLost ==
    \E i \in DOMAIN VCode :
        /\ VCode[i].op = "JCC"
        /\ \/ VCode[i-1].op # "CMP"
           \/ target.arch = "x86" /\ VCode[i].use[1].v \notin {"ne", "gt"}

Handled ==
    LET m == Lowered
        live == LiveAfter(m)
    IN  /\ ~SpilledParam /\ ~ScratchShort /\ ~DivisionClobbers(m, live) /\ ~ParamsInTheWay
        /\ ~StackParams /\ ~NoCase /\ ~CallAtStart(m, live)
        /\ ~FloatConst /\ ~ShiftCount /\ ~ComparesWrong /\ ~Converts

Outcome(order) == Exec(code.blocks, FpParams, code.frame, target, order)

(***************************************************************************)
(* The compiled function does what the IR function does: the same calls    *)
(* with the same arguments and the same stores in the same order, and the  *)
(* same result, whatever registers, spill slots and copies were chosen.    *)
(***************************************************************************)
SameResult ==
    phase = "done" /\ Handled /\ ~FlagsLost =>
        \A order \in Orders :
            LET ir == IrRun(fn, order)
                out == Outcome(order)
            IN  /\ ir.at = out.at
                /\ ir.effects = out.effects
                /\ ir.ret # <<>> => out.ret = ir.ret[1]

(* A saved register is used as an address or for a parameter only.         *)
SaveMissed ==
    \E v \in Vregs : InRegister(v) /\ assigned[v] \in CalleeSaved(target) \ ToSet(code.frame.saved)

(* The registers a caller finds unchanged by the calling convention, and   *)
(* the return address register.                                            *)
CallerRelies == target.preserved \cup ({"lr"} \cap target.regs)

(* Win64 preserves XMM6 and XMM7, which are handed out as any other, are   *)
(* the scratch registers of spilled values too and are in no table of      *)
(* callee-saved registers.                                                 *)
XmmUnsaved ==
    \E b \in DOMAIN code.blocks : \E n \in DOMAIN code.blocks[b] :
        /\ code.blocks[b][n].d.k = "reg"
        /\ code.blocks[b][n].d.v \in (target.preserved \ CalleeSaved(target)) \ {"bp", "fp"}

(***************************************************************************)
(* A function that returns leaves the stack pointer and the registers its  *)
(* caller relies on as they were, the frame pointer and the return address *)
(* among them.  SaveMissed and XmmUnsaved are excepted.                    *)
(***************************************************************************)
CallerStateKept ==
    phase = "done" /\ Handled /\ ~FlagsLost /\ ~SaveMissed /\ ~XmmUnsaved =>
        \A order \in Orders :
            LET out == Outcome(order)
            IN  out.at = 0 => /\ out.sp = 0
                              /\ \A r \in CallerRelies : out.reg[r] = Term(r, <<>>, 0)

(***************************************************************************)
(* README.md: "calling conventions with complete stack alignment".  The    *)
(* stack pointer is a multiple of 16 at every call the emitted code makes. *)
(***************************************************************************)
StackAligned ==
    phase = "done" => \A order \in Orders : Outcome(order).aligned

(***************************************************************************)
(* docs/nyir.md: a conditional branch goes to its first block exactly when *)
(* the condition holds.  Stated for a comparison followed by its branch.   *)
(***************************************************************************)
BranchesOnCondition ==
    phase = "done" /\ Handled /\ (\A i \in DOMAIN VCode : VCode[i].op = "JCC" => VCode[i-1].op = "CMP") =>
        \A order \in Orders : IrRun(fn, order).effects = Outcome(order).effects
=============================================================================
