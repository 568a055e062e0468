---------------------------- MODULE MachineExec -----------------------------
(***************************************************************************)
(* What a compilation promises: an interpreter for IR functions and one    *)
(* for the code that instruction selection emits, both on symbolic values. *)
(* The first is the meaning docs/nyir.md gives to the instructions, the    *)
(* second what the processor does; neither is code of the repository.      *)
(*                                                                         *)
(* A value is a term <<name, arguments, number>>.  The effects of a run    *)
(* are its stores and calls, in order.  All comparisons of a run find the  *)
(* same order ("lt", "eq" or "gt") between their operands.                 *)
(***************************************************************************)
EXTENDS MachineLower

Term(name, args, n) == <<name, args, n>>
Clobbered == Term("clobbered", <<>>, 0)

Orders == {"lt", "eq", "gt"}
Holds(cc, order) ==
    order \in (CASE cc = "eq" -> {"eq"} [] cc = "ne" -> {"lt", "gt"} [] cc = "lt" -> {"lt"}
                 [] cc = "le" -> {"lt", "eq"} [] cc = "gt" -> {"gt"} [] cc = "ge" -> {"gt", "eq"})

(* A run stops after this many blocks.                                     *)
MaxBlocks == 4
Turns == [n \in 1 .. MaxBlocks |-> n]

----------------------------------------------------------------------------
(* The IR.  at is the block that runs next, 0 after a return.              *)

IrStep(s, i, order) ==
    LET v(n) == s.val[i.args[n]]
        set(t) == [s EXCEPT !.val[i.res] = t]
        vals == [n \in DOMAIN i.args |-> v(n)]
    IN  CASE i.op = "const" -> set(Term("const", <<>>, i.res))
          [] i.op = "bitcast" -> set(v(1))
          [] i.op = "cast"  -> set(Term("cast", vals, 0))
          [] i.op = "cmp"   -> set(Term(opcode_to_cond(i), vals, 0))
          [] i.op = "load"  -> set(Term("load", vals, Len(s.effects)))
          [] i.op = "store" -> [s EXCEPT !.effects = Append(@, Term("store", vals, 0))]
          [] i.op = "addr"  -> set(Term("addr", vals, 0))
          [] i.op = "global" -> set(Term("global", <<>>, 0))
          [] i.op = "slot"  -> set(Term("slot", <<>>, i.res))
          [] i.op = "call"  -> [s EXCEPT !.effects = Append(@, Term("call", vals, 0)),
                                         !.val = IF i.res = NoReg THEN @ ELSE
                                            [@ EXCEPT ![i.res] = Term("result", <<>>, Len(s.effects))]]
          [] i.op = "br"    -> [s EXCEPT !.at = i.to[1]]
          [] i.op = "brif"  -> [s EXCEPT !.at = IF Holds(v(1)[1], order) THEN i.to[1] ELSE i.to[2]]
          [] i.op = "ret"   -> [s EXCEPT !.at = 0, !.ret = vals]
          [] OTHER -> set(Term(opcode_to_mopc[i.op], vals, 0))

IrRun(f, order) ==
    LET start == [val |-> [v \in DOMAIN f.types |-> Term("param", <<>>, v)],
                  effects |-> <<>>, at |-> 1, ret |-> <<>>]
        turn(s, n) == IF s.at = 0 THEN s
                      ELSE FoldLeft(LAMBDA t, i : IrStep(t, i, order), s, f.blocks[s.at])
        end == FoldLeft(turn, start, Turns)
    IN  [effects |-> end.effects, ret |-> end.ret, at |-> end.at]

----------------------------------------------------------------------------
(***************************************************************************)
(* The machine.  Instructions are [op, f, d, s, l]: an operation, the      *)
(* function it applies, destination and source operands, and for a call    *)
(* where the callee looks for its arguments.  Operands are [k, v] with k   *)
(* "reg", "imm", "heap" (memory at a register), "slot" (a slot of the      *)
(* frame), "sp", "fp" (stack memory at a displacement), "sym", "none".     *)
(***************************************************************************)
None == Operand("none", 0)
Code(op, f, d, s) == [op |-> op, f |-> f, d |-> d, s |-> s, l |-> <<>>]
Mov(d, s) == Code("mov", "none", d, s)

(* The address of a stack operand, from the stack pointer at entry.        *)
Address(s, frame, o) ==
    CASE o.k = "slot" -> s.fp + frame.slot_offsets[o.v]
      [] o.k = "sp"   -> s.sp + o.v
      [] o.k = "fp"   -> s.fp + o.v

Stored(s, a) == IF a \in DOMAIN s.mem THEN s.mem[a] ELSE Clobbered

Value(s, frame, o) ==
    CASE o.k = "reg"  -> s.reg[o.v]
      [] o.k = "imm"  -> Term("const", <<>>, o.v)
      [] o.k = "heap" -> Term("load", <<s.reg[o.v]>>, Len(s.effects))
      [] o.k = "none" -> Clobbered
      [] o.k \in {"slot", "sp", "fp"} -> Stored(s, Address(s, frame, o))

SetReg(s, r, t) == [s EXCEPT !.reg[r] = t]
SetMem(s, a, t) == [s EXCEPT !.mem = (a :> t) @@ @]

Write(s, frame, o, t) ==
    CASE o.k = "reg"  -> SetReg(s, o.v, t)
      [] o.k = "heap" -> [s EXCEPT !.effects = Append(@, Term("store", <<s.reg[o.v], t>>, 0))]
      [] OTHER        -> SetMem(s, Address(s, frame, o), t)

(* One instruction.  A jump that is taken sets at; what follows it in the  *)
(* block is not executed.                                                  *)
ExecStep(s, i, frame, t, order) ==
    LET src == Value(s, frame, i.s)
    IN  CASE s.jumped -> s
          [] i.op = "mov"   -> Write(s, frame, i.d, src)
          [] i.op = "alu"   -> [SetReg(s, i.d.v, Term(i.f, <<s.reg[i.d.v], src>>, 0))
                                EXCEPT !.flags = "unknown"]
          [] i.op = "shift" -> [SetReg(s, i.d.v, Term(i.f, <<s.reg[i.d.v], s.reg["cx"]>>, 0))
                                EXCEPT !.flags = "unknown"]
          [] i.op = "op"    -> SetReg(s, i.d.v, Term(i.f, <<s.reg[i.d.v], src>>, 0))
          [] i.op = "alu1"  -> [SetReg(s, i.d.v, Term(i.f, <<s.reg[i.d.v]>>, 0))
                                EXCEPT !.flags = "unknown"]
          [] i.op = "op1"   -> SetReg(s, i.d.v, Term(i.f, <<src>>, 0))
          [] i.op = "cdq"   -> SetReg(s, "dx", Term("sign", <<s.reg["ax"]>>, 0))
          [] i.op = "idiv"  ->
                LET ok == s.reg["dx"] = Term("sign", <<s.reg["ax"]>>, 0)
                    part(f) == IF ok THEN Term(f, <<s.reg["ax"], src>>, 0) ELSE Clobbered
                IN  [s EXCEPT !.reg = [@ EXCEPT !["ax"] = part("IDIV"), !["dx"] = part("IREM")],
                              !.flags = "unknown"]
          \* a division into x16 and a multiply-subtract from x17
          [] i.op = "rem"   -> SetReg(SetReg(s, "x16", Term("quotient", <<s.reg["x17"], src>>, 0)),
                                      i.d.v, IF i.s.v = "x16" THEN Clobbered
                                             ELSE Term(i.f, <<s.reg["x17"], src>>, 0))
          [] i.op = "lea"   ->
                SetReg(s, i.d.v, CASE i.s.k = "slot" -> Term("slot", <<>>, i.s.v)
                                   [] i.s.k = "sym"  -> Term("global", <<>>, 0)
                                   [] OTHER -> Term("addr", <<s.reg[i.s.v]>>, 0))
          \* says nothing of floating point values, or with the bits above a value
          [] i.op = "cmp"   -> [s EXCEPT !.flags = IF i.f \in FloatTypes \cup {"above"}
                                                   THEN "unknown" ELSE order,
                                         !.compared = <<Value(s, frame, i.d), src>>]
          [] i.op = "setcc" -> [SetReg(s, i.d.v, IF s.flags = "unknown" THEN Clobbered
                                                 ELSE Term(i.f, s.compared, 0))
                                EXCEPT !.bool = s.flags # "unknown" /\ Holds(i.f, s.flags)]
          \* the result of a comparison is 0 or 1: the flags say whether it is 0
          [] i.op = "and1"  -> [s EXCEPT !.flags = IF s.bool THEN "gt" ELSE "eq"]
          [] i.op = "jmp"   -> [s EXCEPT !.at = i.d.v, !.jumped = TRUE]
          [] i.op = "jcc"   -> IF s.flags # "unknown" /\ Holds(i.f, s.flags)
                               THEN [s EXCEPT !.at = i.d.v, !.jumped = TRUE] ELSE s
          [] i.op = "push"  -> [SetMem(s, s.sp - 8, src) EXCEPT !.sp = @ - 8]
          [] i.op = "pop"   -> [SetReg(s, i.d.v, Stored(s, s.sp)) EXCEPT !.sp = @ + 8]
          [] i.op = "addsp" -> [s EXCEPT !.sp = @ + i.s.v]
          [] i.op = "fp=sp" -> [s EXCEPT !.fp = s.sp]
          [] i.op = "sp=fp" -> [s EXCEPT !.sp = s.fp]
          [] i.op = "call"  ->
                LET args == [n \in DOMAIN i.l |-> Value(s, frame, i.l[n])]
                IN  [s EXCEPT !.effects = Append(@, Term("call", args, 0)),
                              !.aligned = @ /\ s.sp % 16 = t.callAlign,
                              !.flags = "unknown",
                              !.reg = [r \in DOMAIN @ |->
                                  IF r \in {t.ret, t.fpRet} THEN Term("result", <<>>, Len(s.effects))
                                  ELSE IF r \in t.preserved THEN @[r] ELSE Clobbered]]
          [] i.op = "ret"   -> [s EXCEPT !.at = 0, !.jumped = TRUE, !.ret = s.reg[i.d.v]]
          [] OTHER -> [s EXCEPT !.at = 0, !.jumped = TRUE]

(***************************************************************************)
(* Where the calling convention puts a list of arguments of the given      *)
(* register families: in registers while there are some, then in stack     *)
(* memory from first on.  With positional numbering (Win64) the n-th       *)
(* argument uses the n-th register of its family.                          *)
(***************************************************************************)
AbiLocations(fps, t, stack, first) ==
    LET rank(n) == IF t.positional THEN n ELSE Cardinality({m \in 1 .. n : fps[m] = fps[n]})
        regs(n) == IF fps[n] THEN t.fpArgs ELSE t.args
        onStack == {n \in DOMAIN fps : rank(n) > Len(regs(n))}
    IN  [n \in DOMAIN fps |->
            IF n \notin onStack THEN Operand("reg", regs(n)[rank(n)])
            ELSE Operand(stack, first + 8 * (Cardinality({m \in onStack : m <= n}) - 1))]

(* The state at entry of a function with the given parameters.             *)
EntryState(fps, t) ==
    LET locs == AbiLocations(fps, t, "sp", t.entryArgs)
        param(k, v) == {n \in DOMAIN locs : locs[n].k = k /\ locs[n].v = v}
        at(k, v, other) == IF param(k, v) = {} THEN other
                           ELSE Term("param", <<>>, CHOOSE n \in param(k, v) : TRUE)
    IN  [reg |-> [r \in t.regs |-> at("reg", r, Term(r, <<>>, 0))],
         mem |-> [a \in {locs[n].v : n \in {m \in DOMAIN locs : locs[m].k = "sp"}} |->
                     at("sp", a, Clobbered)],
         sp |-> 0, fp |-> 0, flags |-> "unknown", compared |-> <<>>, bool |-> FALSE,
         effects |-> <<>>, at |-> 1, jumped |-> FALSE, ret |-> Clobbered, aligned |-> TRUE]

Exec(blocks, fps, frame, t, order) ==
    LET turn(s, n) ==
            IF s.at = 0 THEN s
            ELSE FoldLeft(LAMBDA u, i : ExecStep(u, i, frame, t, order),
                          [s EXCEPT !.jumped = FALSE], blocks[s.at])
    IN  FoldLeft(turn, EntryState(fps, t), Turns)

----------------------------------------------------------------------------
(* Mutant: the moves are made one after the other.                         *)
CopyInOrder(st, t) ==
    LET try(u, n) == IF n \in u.done THEN u
                     ELSE [u EXCEPT !.done = @ \cup {n},
                                    !.out = Append(@, Mov(u.moves[n].dst, u.moves[n].src))]
    IN  FoldLeft(try, st, [n \in DOMAIN st.moves |-> n])

(***************************************************************************)
(* The parallel copy both back ends use for register arguments: rounds     *)
(* over the pending moves [dst, src, fp]; a move waits while its           *)
(* destination is the source of a pending one, itself included, and a      *)
(* round without a move frees one source with the scratch register.        *)
(***************************************************************************)
CopyRound(st, t) ==
    LET idx == [n \in DOMAIN st.moves |-> n]
        waits(u, n) == \E m \in DOMAIN u.moves \ u.done : u.moves[m].src = u.moves[n].dst
        try(u, n) == IF n \in u.done \/ waits(u, n) THEN u
                     ELSE [u EXCEPT !.done = @ \cup {n},
                                    !.out = Append(@, Mov(u.moves[n].dst, u.moves[n].src))]
        after == FoldLeft(try, st, idx)
        left == SelectInSeq(idx, LAMBDA n : n \notin after.done)
        scratch(n) == Operand("reg", IF st.moves[n].fp THEN t.fpCopy ELSE t.copy)
    IN  IF after.done # st.done \/ left = 0 THEN after
        ELSE [after EXCEPT !.out = Append(@, Mov(scratch(left), st.moves[left].src)),
                           !.moves[left].src = scratch(left)]

ParallelCopy(moves, t) ==
    LET start == [moves |-> moves, out |-> <<>>,
                  done |-> {n \in DOMAIN moves : moves[n].src = moves[n].dst}]
        rounds == [n \in 1 .. 2 * Len(moves) + 1 |-> n]
    IN  FoldLeft(LAMBDA st, n : CopyRound(st, t), start, rounds).out
=============================================================================
