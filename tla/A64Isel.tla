------------------------------ MODULE A64Isel -------------------------------
(***************************************************************************)
(* The AArch64 back end after register allocation: stack frame             *)
(* (aarch64_frame.c) and instruction selection (aarch64_isel.c) for        *)
(* functions whose values are scalars.                                     *)
(***************************************************************************)
EXTENDS MachineExec

IsV(t, r) == r \in t.fpRegs

----------------------------------------------------------------------------
(* The frame, from the stack pointer up: outgoing arguments, slots, saved  *)
(* registers, frame pointer and link register.                             *)

a64_outgoing(m, t) ==
    LET over(use, fp, regs) ==
            Max({0, Cardinality({a \in 2 .. Len(use) : IsV(t, use[a].v) = fp}) - Len(regs)})
        both(use) == over(use, TRUE, t.fpArgs) + over(use, FALSE, t.args)
        most == Max({0} \cup {both(InstAt(m, p).use) : p \in Calls(m)})
    IN  AlignUp(8 * most, 16)

a64_callee_saved(m, t) ==
    LET table == t.callee \o t.fpCallee
        touched(r) == \E p \in Positions(m) :
                         \/ InstAt(m, p).def = r
                         \/ \E o \in DOMAIN InstAt(m, p).use :
                               InstAt(m, p).use[o].k = "reg" /\ InstAt(m, p).use[o].v = r
    IN  InOrder(table, {r \in ToSet(table) : touched(r)})

(* Slots are aligned to at least 4 and at most 16.                         *)
a64_slot_end(m) == Ends(m.slots, [n \in DOMAIN m.slots |-> Min({16, Max({4, m.slots[n].align})})])

aarch64_frame_layout(m, t) ==
    LET out == a64_outgoing(m, t)
        saved == a64_callee_saved(m, t)
        at(v) == SelectInSeq(m.slots, LAMBDA s : s.v = v)
        save_area == AlignUp(16 + 8 * Len(saved), 16)
    IN  [saved |-> saved, outgoing |-> out,
         slot_offsets |-> [v \in {m.slots[n].v : n \in DOMAIN m.slots} |->
                             out + a64_slot_end(m)[at(v)] - m.slots[at(v)].size],
         stack_size |-> AlignUp(save_area + AlignUp(a64_slot_end(m)[Len(m.slots)], 16) + out, 16)]

fp_lr_offset(frame) == frame.stack_size - 16

(* The n-th saved register, from 1: a pair takes the two places below the  *)
(* previous one, its first register the lower; the one left over takes a   *)
(* single place.                                                           *)
callee_saved_offset(frame, n) ==
    LET first == IF n % 2 = 1 THEN n - 1 ELSE n - 2
    IN  IF n % 2 = 1 /\ n = Len(frame.saved) THEN frame.stack_size - 16 - (first + 1) * 8
        ELSE frame.stack_size - 16 - (first + 2) * 8 + (IF n % 2 = 1 THEN 0 ELSE 8)

aarch64_emit_prologue(frame) ==
    <<Code("addsp", "none", None, Operand("imm", -frame.stack_size)),
      Mov(Operand("sp", fp_lr_offset(frame)), Reg("fp")),
      Mov(Operand("sp", fp_lr_offset(frame) + 8), Reg("lr")),
      Code("fp=sp", "none", None, None)>>
    \o [n \in DOMAIN frame.saved |-> Mov(Operand("sp", callee_saved_offset(frame, n)), Reg(frame.saved[n]))]

(* The epilogue returns: its last instruction is the ret.                  *)
aarch64_emit_epilogue(frame, r) ==
    <<Mov(Reg("fp"), Operand("sp", fp_lr_offset(frame))),
      Mov(Reg("lr"), Operand("sp", fp_lr_offset(frame) + 8))>>
    \o [n \in DOMAIN frame.saved |-> Mov(Reg(frame.saved[n]), Operand("sp", callee_saved_offset(frame, n)))]
    \o <<Code("addsp", "none", None, Operand("imm", frame.stack_size)),
         Code("ret", "none", Reg(r), None)>>

----------------------------------------------------------------------------
emit_mov(d, src) == IF src.k = "reg" /\ src.v = d.v THEN <<>> ELSE <<Mov(d, src)>>

(* Destinations of the arguments of a call, by family.                     *)
a64_copy(n, fps, t) ==
    LET same == Cardinality({m \in 1 .. n : fps[m] = fps[n]})
        regs == IF fps[n] THEN t.fpArgs ELSE t.args
        before == {m \in 1 .. n-1 : Cardinality({l \in 1 .. m : fps[l] = fps[m]})
                                        > Len(IF fps[m] THEN t.fpArgs ELSE t.args)}
    IN  IF same <= Len(regs) THEN Reg(regs[same]) ELSE Operand("sp", 8 * Cardinality(before))

a64_lower_call(i, t) ==
    LET args == SubSeq(i.use, 2, Len(i.use))
        fps  == [n \in DOMAIN args |-> IsV(t, args[n].v)]
        moves == [n \in DOMAIN args |-> [dst |-> a64_copy(n, fps, t), src |-> args[n], fp |-> fps[n]]]
        stack == SelectSeq(moves, LAMBDA mv : mv.dst.k = "sp")
        call  == [Code("call", "none", None, None) EXCEPT !.l = AbiLocations(fps, t, "sp", 0)]
    IN  [n \in DOMAIN stack |-> Mov(stack[n].dst, stack[n].src)]
        \o ParallelCopy(SelectSeq(moves, LAMBDA mv : mv.dst.k = "reg"), t) \o <<call>>
        \o (IF i.def = "none" THEN <<>>
            ELSE emit_mov(Reg(i.def), Reg(IF IsV(t, i.def) THEN t.fpRet ELSE t.ret)))

(***************************************************************************)
(* The cases of lower_instruction.                                         *)
(***************************************************************************)
a64_operand(o) ==
    CASE o.k \in {"base", "index"} -> Operand("heap", o.v)
      [] o.k \in {"cond", "fimm"}  -> None
      [] OTHER -> o

a64_load(i) == <<Mov(Reg(i.def), a64_operand(i.use[1]))>>
a64_store(i) == <<Mov(a64_operand(i.use[1]), a64_operand(i.use[2]))>>
a64_lea(i) == <<Code("lea", "none", Reg(i.def), i.use[1])>>

a64_binary(i) ==
    Append(emit_mov(Reg(i.def), a64_operand(i.use[1])), Code("op", i.op, Reg(i.def), a64_operand(i.use[2])))

(* The dividend goes to X17, the remainder is what the product leaves.     *)
a64_remainder(i) ==
    emit_mov(Reg("x17"), a64_operand(i.use[1])) \o <<Code("rem", i.op, Reg(i.def), a64_operand(i.use[2]))>>

a64_negate(i) == <<Code("op1", i.op, Reg(i.def), a64_operand(i.use[1]))>>

(* The comparison has the size of its result, 64 bits, and so looks at     *)
(* bits above a narrower operand.                                          *)
a64_compare(i) ==
    <<Code("cmp", IF i.use[4].v = "i32" THEN "above" ELSE i.use[4].v,
           a64_operand(i.use[1]), a64_operand(i.use[2]))>>
    \o (IF i.def = "none" THEN <<>> ELSE <<Code("setcc", i.use[3].v, Reg(i.def), None)>>)

a64_jump(i) ==
    IF i.op = "JMP" THEN <<Code("jmp", "none", i.use[1], None)>>
    ELSE <<Code("jcc", i.use[1].v, i.use[2], None)>>

a64_return(i, frame, t) ==
    LET r == IF i.use # <<>> /\ IsV(t, i.use[1].v) THEN t.fpRet ELSE t.ret
    IN  (IF i.use = <<>> THEN <<>> ELSE emit_mov(Reg(r), a64_operand(i.use[1])))
        \o aarch64_emit_epilogue(frame, r)

(* Select, phi and the floating point operations have no case.             *)
a64_lower_instruction(i, frame, t) ==
    CASE i.op = "COPY"  -> emit_mov(Reg(i.def), a64_operand(i.use[1]))
      [] i.op = "LOAD"  -> a64_load(i)
      [] i.op = "STORE" -> a64_store(i)
      [] i.op = "LEA"   -> a64_lea(i)
      [] i.op \in {"ADD", "SUB", "IMUL", "IDIV", "UDIV", "AND", "OR", "XOR", "SHL", "SHR", "SAR"} ->
            a64_binary(i)
      [] i.op \in {"IREM", "UREM"} -> a64_remainder(i)
      [] i.op \in {"NEG", "NOT"} -> a64_negate(i)
      [] i.op = "CMP"   -> a64_compare(i)
      [] i.op \in {"JMP", "JCC"} -> a64_jump(i)
      [] i.op = "CALL"  -> a64_lower_call(i, t)
      [] i.op = "RET"   -> a64_return(i, frame, t)
      [] i.op = "TRAP"  -> <<Code("trap", "none", None, None)>>
      [] OTHER -> <<>>

(***************************************************************************)
(* The parameters are moved one after the other.  One without a register   *)
(* is read above the stack pointer at the number of registers of its       *)
(* family, which says neither how large the frame is nor how many          *)
(* parameters came before it on the stack.                                 *)
(***************************************************************************)
a64_params(m, fps, t) ==
    LET same(n) == Cardinality({l \in 1 .. n : fps[l] = fps[n]})
        regs(n) == IF fps[n] THEN t.fpArgs ELSE t.args
        one(n) == IF same(n) <= Len(regs(n)) THEN emit_mov(Reg(m.params[n]), Reg(regs(n)[same(n)]))
                  ELSE <<Mov(Reg("x16"), Operand("sp", 16 + 8 * Len(regs(n))))>>
                       \o emit_mov(Reg(m.params[n]), Reg("x16"))
    IN  FlattenSeq([n \in DOMAIN m.params |-> one(n)])

(* aarch64_lower_func_impl                                                 *)
aarch64_lower_func(m, fps, t) ==
    LET frame == aarch64_frame_layout(m, t)
        body(b) == FlattenSeq([n \in DOMAIN m.blocks[b] |->
                                  a64_lower_instruction(m.blocks[b][n], frame, t)])
    IN  [frame |-> frame,
         blocks |-> [b \in DOMAIN m.blocks |->
                        IF b = 1 THEN aarch64_emit_prologue(frame) \o a64_params(m, fps, t) \o body(b)
                        ELSE body(b)]]
=============================================================================
