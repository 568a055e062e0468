---------------------------- MODULE MachineLower ----------------------------
(***************************************************************************)
(* Lowering of an IR function to machine IR (machine/lower.c) and the      *)
(* editing of machine functions (machine/machine.c).                       *)
(*                                                                         *)
(* An IR function is [types, params, blocks, succ, pred]: types[v] is the  *)
(* type of value v, values 1 .. params are the arguments, blocks[b] is a   *)
(* sequence of instructions [op, res, args, to] (res = 0: no result; to    *)
(* holds the blocks of a branch, the condition of a comparison, the size   *)
(* and alignment of a stack slot), succ[b] and pred[b] are the successor   *)
(* and the predecessor array.  Block 1 is the entry.  "bitcast" keeps the  *)
(* bits of its operand, "cast" stands for the conversions that do not.     *)
(*                                                                         *)
(* A machine function is [class, slots, params, blocks, succ]; a machine   *)
(* instruction is [op, def, use], its operands are [k, v].  Operand kinds  *)
(* are "reg" (virtual until allocation), "base" and "index" (the two       *)
(* registers of a memory operand), "slot" (a memory operand naming a stack *)
(* slot by the value it is for), "imm" and "fimm" (an integer and a        *)
(* floating point immediate), "sym", "cond", "blk" and "type" (the type    *)
(* the register operands of a comparison carry).  Every value gets the     *)
(* virtual register of its own number.                                     *)
(***************************************************************************)
EXTENDS Integers, Sequences, FiniteSets, SequencesExt

NoReg == 0

(* mops[16]: a call or a phi keeps at most this many operands.             *)
MaxCallOperands == 16

Operand(kind, v) == [k |-> kind, v |-> v]
Reg(v) == Operand("reg", v)
MInst(opcode, def, use) == [op |-> opcode, def |-> def, use |-> use]

(***************************************************************************)
(* opcode_to_mopc: IR opcodes that are lowered operand by operand.         *)
(***************************************************************************)
opcode_to_mopc ==
    [const |-> "COPY", bitcast |-> "COPY", cast |-> "COPY", add |-> "ADD", sub |-> "SUB", mul |-> "IMUL",
     div |-> "IDIV", rem |-> "IREM", divu |-> "UDIV", remu |-> "UREM", neg |-> "NEG",
     and |-> "AND", or |-> "OR", xor |-> "XOR", not |-> "NOT",
     shl |-> "SHL", shr |-> "SHR", sar |-> "SAR", select |-> "SELECT",
     fadd |-> "FADD", fsub |-> "FSUB", fmul |-> "FMUL", fdiv |-> "FDIV", fneg |-> "FNEG"]

(* type_to_reg_class, for the types lowering accepts.                      *)
type_to_reg_class(ty) ==
    CASE ty = "i32" -> "gpr32" [] ty = "f32" -> "fp32" [] ty = "f64" -> "fp64" [] OTHER -> "gpr64"

(* opcode_to_cond: the condition code of a comparison.                     *)
opcode_to_cond(i) == i.to[1]

(* i128, f16 and vectors end lowering with a diagnostic.                   *)
Supported(f) == \A v \in DOMAIN f.types : f.types[v] # "wide"

(* cfg.is_reachable of the entry block, along the successor arrays.        *)
ReachableBlocks(f) ==
    LET Grow[n \in 0 .. Len(f.blocks)] ==
            IF n = 0 THEN {1}
            ELSE LET g == Grow[n-1] IN g \cup UNION {ToSet(f.succ[b]) : b \in g}
    IN  Grow[Len(f.blocks)]

(* blk_map: reachable blocks keep their order and are numbered afresh.     *)
blk_map(f, b) == Cardinality({c \in ReachableBlocks(f) : c <= b})

lower_values(args) == [j \in DOMAIN args |-> Reg(args[j])]

(***************************************************************************)
(* The condition code of a conditional branch: the one of the comparison   *)
(* that defined the value, otherwise "not equal".                          *)
(***************************************************************************)
BranchCond(f, v) ==
    LET code == FlattenSeq(f.blocks)
        at == SelectInSeq(code, LAMBDA i : i.op = "cmp" /\ i.res = v)
    IN  IF at = 0 THEN "ne" ELSE opcode_to_cond(code[at])

(* An operand array on the C stack: what does not fit is not looked at.    *)
Truncated(ops) == SubSeq(ops, 1, IF Len(ops) < MaxCallOperands THEN Len(ops) ELSE MaxCallOperands)

FloatTypes == {"f32", "f64"}

(* A constant of a floating point type holds a floating point immediate.   *)
lower_const(f, i) ==
    LET kind == IF f.types[i.res] \in FloatTypes THEN "fimm" ELSE "imm"
    IN  <<MInst("COPY", i.res, <<Operand(kind, i.res)>>)>>

(* Integer and floating point comparisons become one opcode.               *)
lower_compare(f, i) ==
    <<MInst("CMP", i.res, lower_values(i.args) \o
              <<Operand("cond", opcode_to_cond(i)), Operand("type", f.types[i.args[1]])>>)>>

lower_phi(f, i) ==
    <<MInst("PHI", i.res, Truncated(FlattenSeq([j \in DOMAIN i.args |->
                              <<Reg(i.args[j]), Operand("blk", blk_map(f, i.to[j]))>>])))>>

lower_call(i) ==
    <<MInst("CALL", i.res, Truncated(<<Operand("sym", 0)>> \o lower_values(i.args)))>>

(* Loads, stores and the three ways to take an address.                    *)
lower_memory(i) ==
    CASE i.op = "load"   -> <<MInst("LOAD", i.res, <<Operand("base", i.args[1])>>)>>
      [] i.op = "store"  -> <<MInst("STORE", NoReg, <<Operand("base", i.args[1]), Reg(i.args[2])>>)>>
      [] i.op = "addr"   -> <<MInst("LEA", i.res, <<Operand("base", i.args[1])>>)>>
      [] i.op = "global" -> <<MInst("LEA", i.res, <<Operand("sym", 0)>>)>>
      [] i.op = "slot"   -> <<MInst("LEA", i.res, <<Operand("slot", i.res)>>)>>

(* A conditional branch does not name the value: it jumps on the flags.    *)
lower_control(f, i) ==
    LET to(n) == Operand("blk", blk_map(f, i.to[n]))
    IN  CASE i.op = "br"   -> <<MInst("JMP", NoReg, <<to(1)>>)>>
          [] i.op = "brif" -> <<MInst("JCC", NoReg, <<Operand("cond", BranchCond(f, i.args[1])), to(1)>>),
                                MInst("JMP", NoReg, <<to(2)>>)>>
          [] i.op = "ret"  -> <<MInst("RET", NoReg, lower_values(i.args))>>
          [] i.op = "trap" -> <<MInst("TRAP", NoReg, <<>>)>>

(* The switch over opcodes.  Indirect calls have no case.                  *)
lower_instruction(f, i) ==
    CASE i.op = "const" -> lower_const(f, i)
      [] i.op = "cmp"   -> lower_compare(f, i)
      [] i.op = "phi"   -> lower_phi(f, i)
      [] i.op = "call"  -> lower_call(i)
      [] i.op \in {"load", "store", "addr", "global", "slot"} -> lower_memory(i)
      [] i.op \in {"br", "brif", "ret", "trap"} -> lower_control(f, i)
      [] i.op \in DOMAIN opcode_to_mopc \ {"const"} ->
            <<MInst(opcode_to_mopc[i.op], i.res, lower_values(i.args))>>
      [] OTHER -> <<>>

(* A stack slot is named after the value it was made for.                  *)
ny_mfunc_create_stack_slot(v, size, align) == [v |-> v, size |-> size, align |-> align]

(* lower_function on a function all of whose types are supported.  The     *)
(* edges of the machine blocks are taken from the predecessor arrays.      *)
lower_function(f) ==
    LET live == SetToSortSeq(ReachableBlocks(f), <)
        slots == SelectSeq(FlattenSeq([n \in DOMAIN live |-> f.blocks[live[n]]]),
                           LAMBDA i : i.op = "slot")
    IN  [class  |-> [v \in DOMAIN f.types |-> type_to_reg_class(f.types[v])],
         slots  |-> [n \in DOMAIN slots |-> ny_mfunc_create_stack_slot(
                        slots[n].res, slots[n].to[1], slots[n].to[2])],
         params |-> [p \in 1 .. f.params |-> p],
         blocks |-> [n \in DOMAIN live |->
                        FlattenSeq([j \in DOMAIN f.blocks[live[n]] |->
                                       lower_instruction(f, f.blocks[live[n]][j])])],
         succ   |-> [n \in DOMAIN live |->
                        {m \in DOMAIN live : live[n] \in ToSet(f.pred[live[m]])}]]

(***************************************************************************)
(* ny_mfunc_insert_before and ny_mfunc_insert_after as used by the         *)
(* allocator: instructions before and after one of a block.                *)
(***************************************************************************)
ny_mfunc_insert_before(new, inst) == Append(new, inst)
ny_mfunc_insert_after(code, new) == Append(code, new)

(* The instructions of a machine function in block order: the position is  *)
(* the allocator's instruction index.                                      *)
Instructions(m) == FlattenSeq(m.blocks)

(* The same by block and place in it.                                      *)
Positions(m) == UNION {{b} \X DOMAIN m.blocks[b] : b \in DOMAIN m.blocks}
InstAt(m, p) == m.blocks[p[1]][p[2]]
Calls(m) == {p \in Positions(m) : InstAt(m, p).op = "CALL"}

(* A loop over indices that looks at some of them only: the n-th it looks  *)
(* at.  (The proofs cannot look into SelectSeq.)                           *)
Ascending(S) ==
    [n \in 1 .. Cardinality(S) |-> CHOOSE x \in S : Cardinality({y \in S : y <= x}) = n]

(* The members of a table that are in R, in the order of the table.        *)
InOrder(table, R) ==
    LET at == Ascending({n \in DOMAIN table : table[n] \in R})
    IN  [n \in DOMAIN at |-> table[at[n]]]

AlignUp(n, a) == ((n + a - 1) \div a) * a

(* Slots laid one behind the other, the n-th aligned to unit[n]: Ends[n]   *)
(* is where it ends.                                                       *)
Ends(slots, unit) ==
    LET End[n \in 0 .. Len(slots)] ==
            IF n = 0 THEN 0 ELSE AlignUp(End[n-1], unit[n]) + slots[n].size
    IN  End
=============================================================================
