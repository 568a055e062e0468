------------------------------ MODULE X86Isel -------------------------------
(***************************************************************************)
(* The x86-64 back end after register allocation: stack frame              *)
(* (x86_frame.c), instruction selection (x86_isel.c) and the calling       *)
(* conventions (x86_registers.c).  m is an allocated machine function, t   *)
(* a target description.                                                   *)
(***************************************************************************)
EXTENDS MachineExec

x86_abi_is_callee_saved(t, r) == r \in ToSet(t.callee)
x86_abi_ret_reg(t, fp) == IF fp THEN t.fpRet ELSE t.ret

(* Registers of the SSE file are told apart by their number.               *)
IsXmm(t, r) == r \in t.fpRegs

----------------------------------------------------------------------------
(* The frame.                                                              *)

(* The arguments of a call that find no register: all beyond the fourth    *)
(* on Win64, otherwise counted by family.                                  *)
StackArgs(call, t) ==
    LET args == 2 .. Len(call.use)
        over(fp, regs) ==
            Max({0, Cardinality({a \in args : IsXmm(t, call.use[a].v) = fp}) - Len(regs)})
    IN  IF t.positional THEN Max({0, Cardinality(args) - Len(t.args)})
        ELSE over(TRUE, t.fpArgs) + over(FALSE, t.args)

(* callee_saved_mask: registers an instruction defines or reads directly.  *)
callee_saved_mask(m, t) ==
    {r \in ToSet(t.callee) :
        \E p \in Positions(m) :
            \/ InstAt(m, p).def = r
            \/ \E o \in DOMAIN InstAt(m, p).use :
                  InstAt(m, p).use[o].k = "reg" /\ InstAt(m, p).use[o].v = r}

(* The end of slot n below the frame pointer: slots follow each other,     *)
(* each aligned to at least 4.                                             *)
SlotEnd(m) == Ends(m.slots, [n \in DOMAIN m.slots |-> Max({4, m.slots[n].align})])

(* Mutant: no room for outgoing arguments.                                 *)
FrameWithoutOutgoing(m, t) ==
    LET saved == InOrder(t.callee, callee_saved_mask(m, t))
        locals == SlotEnd(m)[Len(m.slots)]
        pushes == 8 * (Len(saved) + 1)
    IN  [saved |-> saved, outgoing |-> t.shadow,
         slot_offsets |-> [v \in {m.slots[n].v : n \in DOMAIN m.slots} |->
                             -SlotEnd(m)[SelectInSeq(m.slots, LAMBDA s : s.v = v)]],
         stack_size |-> AlignUp(pushes + locals, 16) - pushes]

x86_frame_layout(m, t) ==
    LET most  == Max({0} \cup {StackArgs(InstAt(m, p), t) : p \in Calls(m)})
        saved == InOrder(t.callee, callee_saved_mask(m, t))
        outgoing == IF t.positional /\ Calls(m) # {} THEN t.shadow + 8 * most ELSE 8 * most
        locals == SlotEnd(m)[Len(m.slots)] + outgoing
        pushes == 8 * (Len(saved) + 1)
    IN  [saved |-> saved, outgoing |-> outgoing,
         slot_offsets |-> [v \in {m.slots[n].v : n \in DOMAIN m.slots} |->
                             -SlotEnd(m)[SelectInSeq(m.slots, LAMBDA s : s.v = v)]],
         stack_size |-> IF Calls(m) # {} \/ locals > 0 THEN AlignUp(pushes + locals, 16) - pushes
                        ELSE 0]

x86_emit_prologue(frame) ==
    LET push(r) == Code("push", "none", None, Reg(r))
    IN  <<push("bp")>> \o [n \in DOMAIN frame.saved |-> push(frame.saved[n])]
        \o <<Code("fp=sp", "none", None, None)>>
        \o (IF frame.stack_size > 0
            THEN <<Code("addsp", "none", None, Operand("imm", -frame.stack_size))>> ELSE <<>>)

(* Mutant: registers are popped in the order they were pushed.             *)
EpilogueInPushOrder(frame) ==
    LET pop(r) == Code("pop", "none", Reg(r), None)
    IN  (IF frame.stack_size > 0 THEN <<Code("sp=fp", "none", None, None)>> ELSE <<>>)
        \o [n \in DOMAIN frame.saved |-> pop(frame.saved[n])]
        \o <<pop("bp")>>

x86_emit_epilogue(frame) ==
    LET pop(r) == Code("pop", "none", Reg(r), None)
    IN  (IF frame.stack_size > 0 THEN <<Code("sp=fp", "none", None, None)>> ELSE <<>>)
        \o Reverse([n \in DOMAIN frame.saved |-> pop(frame.saved[n])])
        \o <<pop("bp")>>

----------------------------------------------------------------------------
(* Operands.                                                               *)

(* A floating point immediate becomes an empty operand.                    *)
lower_operand(o) ==
    CASE o.k \in {"base", "index"} -> Operand("heap", o.v)
      [] o.k \in {"cond", "fimm"}  -> None
      [] OTHER -> o

(* A move that is left out when both operands are one register.            *)
MovUnlessSame(d, src) ==
    IF src.k = "reg" /\ src.v = d.v THEN <<>> ELSE <<Mov(d, src)>>

(***************************************************************************)
(* Calls.  Every argument gets a register or a place in the outgoing area; *)
(* the stack arguments are stored first, then the register arguments are   *)
(* copied in parallel, AL is set on System V, and the result is fetched.   *)
(***************************************************************************)
Call_Arg(n, fps, t) ==
    LET same == Cardinality({m \in 1 .. n : fps[m] = fps[n]})
        regs == IF fps[n] THEN t.fpArgs ELSE t.args
        before == {m \in 1 .. n-1 : Cardinality({l \in 1 .. m : fps[l] = fps[m]})
                                        > Len(IF fps[m] THEN t.fpArgs ELSE t.args)}
    IN  IF t.positional
        THEN IF n <= Len(t.args) THEN Reg(regs[n])
             ELSE Operand("sp", t.shadow + 8 * (n - Len(t.args) - 1))
        ELSE IF same <= Len(regs) THEN Reg(regs[same])
             ELSE Operand("sp", 8 * Cardinality(before))

SetAl(t) == IF t.setsAl THEN <<Mov(Reg("ax"), Operand("imm", 0))>> ELSE <<>>

LowerCall(i, t) ==
    LET args == SubSeq(i.use, 2, Len(i.use))
        fps  == [n \in DOMAIN args |-> IsXmm(t, args[n].v)]
        moves == [n \in DOMAIN args |-> [dst |-> Call_Arg(n, fps, t), src |-> args[n], fp |-> fps[n]]]
        stack == SelectSeq(moves, LAMBDA mv : mv.dst.k = "sp")
        regs  == SelectSeq(moves, LAMBDA mv : mv.dst.k = "reg")
        call  == [Code("call", "none", None, None)
                  EXCEPT !.l = AbiLocations(fps, t, "sp", t.shadow)]
    IN  [n \in DOMAIN stack |-> Mov(stack[n].dst, stack[n].src)]
        \o ParallelCopy(regs, t) \o SetAl(t) \o <<call>>
        \o (IF i.def = "none" THEN <<>>
            ELSE <<Mov(Reg(i.def), Reg(x86_abi_ret_reg(t, IsXmm(t, i.def))))>>)

(***************************************************************************)
(* The cases of lower_instruction.                                         *)
(***************************************************************************)
x86_moves(i) ==
    LET d == Reg(i.def)
        u(n) == lower_operand(i.use[n])
    IN  CASE i.op = "COPY"  -> MovUnlessSame(d, u(1))
          [] i.op = "LOAD"  -> <<Mov(d, u(1))>>
          [] i.op = "STORE" -> <<Mov(u(1), u(2))>>
          [] i.op = "LEA"   -> <<Code("lea", "none", d, i.use[1])>>

(* Two-address arithmetic: the first operand is moved to the result.       *)
x86_fp_binary(i) ==
    Append(MovUnlessSame(Reg(i.def), lower_operand(i.use[1])),
           Code("op", i.op, Reg(i.def), lower_operand(i.use[2])))

x86_binary(i) ==
    Append(MovUnlessSame(Reg(i.def), lower_operand(i.use[1])),
           Code("alu", i.op, Reg(i.def), lower_operand(i.use[2])))

(* A shift by a register shifts by CL, whatever register it names, and     *)
(* nothing moves the count there.                                          *)
x86_shift(i) ==
    Append(MovUnlessSame(Reg(i.def), lower_operand(i.use[1])),
           Code("shift", i.op, Reg(i.def), lower_operand(i.use[2])))

x86_unary(i) ==
    Append(MovUnlessSame(Reg(i.def), lower_operand(i.use[1])), Code("alu1", i.op, Reg(i.def), None))

(* Division works on AX and DX.                                            *)
x86_divide(i) ==
    <<Mov(Reg("ax"), lower_operand(i.use[1])), Code("cdq", "none", None, None),
      Code("idiv", "none", None, lower_operand(i.use[2])),
      Mov(Reg(i.def), Reg(IF i.op = "IDIV" THEN "ax" ELSE "dx"))>>

(* A comparison whose result is a register also materialises it.  There is *)
(* one opcode, an integer comparison at the size of the operands.          *)
x86_compare(i) ==
    <<Code("cmp", i.use[4].v, lower_operand(i.use[1]), lower_operand(i.use[2]))>>
    \o (IF i.def = "none" THEN <<>>
        ELSE <<Code("setcc", i.use[3].v, Reg(i.def), None), Code("and1", "none", Reg(i.def), None)>>)

x86_jump(i) ==
    IF i.op = "JMP" THEN <<Code("jmp", "none", i.use[1], None)>>
    ELSE <<Code("jcc", i.use[1].v, i.use[2], None)>>

x86_return(i, frame, t) ==
    LET r == x86_abi_ret_reg(t, i.use # <<>> /\ IsXmm(t, i.use[1].v))
    IN  (IF i.use = <<>> THEN <<>> ELSE <<Mov(Reg(r), lower_operand(i.use[1]))>>)
        \o x86_emit_epilogue(frame) \o <<Code("ret", "none", Reg(r), None)>>

(* Opcodes without a case (unsigned division, select, phi) emit nothing.   *)
x86_lower_instruction(i, frame, t) ==
    CASE i.op \in {"COPY", "LOAD", "STORE", "LEA"} -> x86_moves(i)
      [] i.op \in {"FADD", "FSUB", "FMUL", "FDIV"} -> x86_fp_binary(i)
      [] i.op \in {"ADD", "SUB", "IMUL", "AND", "OR", "XOR"} -> x86_binary(i)
      [] i.op \in {"SHL", "SHR", "SAR"} -> x86_shift(i)
      [] i.op \in {"IDIV", "IREM"} -> x86_divide(i)
      [] i.op \in {"NEG", "NOT"} -> x86_unary(i)
      [] i.op = "CMP" -> x86_compare(i)
      [] i.op \in {"JMP", "JCC"} -> x86_jump(i)
      [] i.op = "CALL" -> LowerCall(i, t)
      [] i.op = "RET" -> x86_return(i, frame, t)
      [] i.op = "TRAP" -> <<Code("trap", "none", None, None)>>
      [] OTHER -> <<>>

(***************************************************************************)
(* The parameters: those on the stack are loaded first, then the others    *)
(* are copied in parallel.  fps says which parameters are floating point.  *)
(***************************************************************************)
Param_Copy(n, fps, frame, t) ==
    LET same == Cardinality({m \in 1 .. n : fps[m] = fps[n]})
        regs == IF fps[n] THEN t.fpArgs ELSE t.args
        above == 16 + 8 * Len(frame.saved)
        before == {m \in 1 .. n-1 : Cardinality({l \in 1 .. m : fps[l] = fps[m]})
                                        > Len(IF fps[m] THEN t.fpArgs ELSE t.args)}
    IN  IF t.positional
        THEN IF n <= Len(t.args) THEN Reg(regs[n])
             ELSE Operand("fp", above + t.shadow + 8 * (n - Len(t.args) - 1))
        ELSE IF same <= Len(regs) THEN Reg(regs[same])
             ELSE Operand("fp", above + 8 * Cardinality(before))

ParamCopies(m, fps, frame, t) ==
    LET copies == [p \in DOMAIN m.params |-> [dst |-> Reg(m.params[p]), fp |-> fps[p],
                                              src |-> Param_Copy(p, fps, frame, t)]]
        loads == SelectSeq(copies, LAMBDA c : c.src.k = "fp")
    IN  [n \in DOMAIN loads |-> Mov(loads[n].dst, loads[n].src)]
        \o ParallelCopy(SelectSeq(copies, LAMBDA c : c.src.k = "reg"), t)

(* x86_lower_func_impl                                                     *)
x86_lower_func(m, fps, t) ==
    LET frame == x86_frame_layout(m, t)
        body(b) == FlattenSeq([n \in DOMAIN m.blocks[b] |->
                                  x86_lower_instruction(m.blocks[b][n], frame, t)])
    IN  [frame |-> frame,
         blocks |-> [b \in DOMAIN m.blocks |->
                        IF b = 1 THEN x86_emit_prologue(frame) \o ParamCopies(m, fps, frame, t) \o body(b)
                        ELSE body(b)]]
=============================================================================
