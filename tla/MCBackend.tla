------------------------------ MODULE MCBackend -----------------------------
EXTENDS Backend

(***************************************************************************)
(* Register files: System V with two argument registers, three caller-     *)
(* saved ones and one callee-saved, Win64 and AArch64 likewise.  The order *)
(* of the lists is the order of the code's tables.  The stack pointer is   *)
(* counted from its value at entry, which on x86-64 the pushed return      *)
(* address has left 8 below a multiple of 16: at a call it has to be 8     *)
(* modulo 16 (callAlign).                                                  *)
(***************************************************************************)
SysV == [arch |-> "x86", positional |-> FALSE, shadow |-> 0, setsAl |-> TRUE,
         args |-> <<"di", "dx">>, caller |-> <<"dx", "di", "ax">>, callee |-> <<"bx">>,
         fpArgs |-> <<"x0">>, fpCaller |-> <<"x0", "x6", "x7">>, fpCallee |-> <<>>,
         gprScratch |-> <<"r11", "r10">>, fpScratch |-> <<"x7", "x6", "x5">>,
         copy |-> "r10", fpCopy |-> "x7", ret |-> "ax", fpRet |-> "x0",
         fpRegs |-> {"x0", "x5", "x6", "x7"},
         regs |-> {"di", "cx", "dx", "ax", "bx", "r10", "r11", "bp", "x0", "x5", "x6", "x7"},
         preserved |-> {"bx", "bp"}, entryArgs |-> 8, callAlign |-> 8]

Win64 == [SysV EXCEPT !.positional = TRUE, !.shadow = 32, !.setsAl = FALSE,
                      !.args = <<"cx", "dx">>, !.caller = <<"dx", "cx", "ax">>,
                      !.callee = <<"bx", "si">>, !.fpArgs = <<"x0", "x1">>,
                      !.fpCaller = <<"x0", "x1", "x6">>,
                      !.fpRegs = {"x0", "x1", "x5", "x6", "x7"},
                      !.regs = {"cx", "dx", "ax", "bx", "si", "r10", "r11", "bp",
                                "x0", "x1", "x5", "x6", "x7"},
                      !.preserved = {"bx", "si", "bp", "x6", "x7"}, !.entryArgs = 40]

A64 == [SysV EXCEPT !.arch = "a64", !.setsAl = FALSE,
                    !.args = <<"r0", "r1">>, !.caller = <<"x9", "x10", "r0", "r1">>,
                    !.callee = <<"x19", "x20", "x21">>, !.fpArgs = <<"v0">>,
                    !.fpCaller = <<"v0", "v1">>, !.fpCallee = <<"v8">>,
                    !.gprScratch = <<"x9", "x10">>, !.fpScratch = <<"v0", "v1">>,
                    !.copy = "x16", !.fpCopy = "x16", !.ret = "r0", !.fpRet = "v0",
                    !.fpRegs = {"v0", "v1", "v8"},
                    !.regs = {"r0", "r1", "x9", "x10", "x16", "x17", "x19", "x20", "x21",
                              "fp", "lr", "v0", "v1", "v8"},
                    !.preserved = {"x19", "x20", "x21", "fp", "v8"}, !.entryArgs = 0, !.callAlign = 0]

I(op, res, args, to) == [op |-> op, res |-> res, args |-> args, to |-> to]

(* One instruction of a kind with every choice of operands among values    *)
(* 1 .. n; value n + 1 is its result.                                      *)
InstChoices(kind, n) ==
    LET V == 1 .. n
    IN  CASE kind = "bin"   -> {I("add", n+1, <<a, b>>, <<>>) : a, b \in V}
          [] kind = "div"   -> {I("div", n+1, <<a, b>>, <<>>) : a, b \in V}
          [] kind = "call1" -> {I("call", n+1, <<a>>, <<>>) : a \in V}
          [] kind = "call2" -> {I("call", n+1, <<a, b>>, <<>>) : a, b \in V}
          [] kind = "call3" -> {I("call", n+1, <<a, n, b>>, <<>>) : a, b \in V}
          [] kind = "load"  -> {I("load", n+1, <<a>>, <<>>) : a \in V}
          [] kind = "store" -> {I("store", 0, <<a, b>>, <<>>) : a, b \in V}
          [] kind = "const" -> {I("const", n+1, <<>>, <<>>)}
          [] kind = "slot"  -> {I("slot", n+1, <<>>, <<4, 4>>), I("slot", n+1, <<>>, <<12, 8>>), I("slot", n+1, <<>>, <<16, 8>>)}
          [] kind = "shift" -> {I("shl", n+1, <<a, b>>, <<>>) : a, b \in V}
          [] kind = "cast"  -> {I(op, n+1, <<a>>, <<>>) : op \in {"bitcast", "cast"}, a \in V}
          [] kind = "cmp"   -> {I("cmp", n+1, <<a, b>>, <<cc>>) : a, b \in V, cc \in {"eq", "lt"}}
          [] kind = "fbin"  -> {I("fadd", n+1, <<a, b>>, <<>>) : a, b \in V}

Defines(kind) == kind # "store"

Straight(params, kinds) ==
    LET size[n \in 0 .. Len(kinds)] ==
            IF n = 0 THEN params ELSE size[n-1] + (IF Defines(kinds[n]) THEN 1 ELSE 0)
        bodies[n \in 0 .. Len(kinds)] ==
            IF n = 0 THEN {<<>>}
            ELSE {Append(b, i) : b \in bodies[n-1], i \in InstChoices(kinds[n], size[n-1])}
        total == size[Len(kinds)]
    IN  {[types |-> [v \in 1 .. total |-> IF v % 2 = 0 THEN "i32" ELSE "i64"], params |-> params,
          blocks |-> <<Append(b, I("ret", 0, <<r>>, <<>>))>>, succ |-> <<<<>>>>, pred |-> <<<<>>>>]
            : b \in bodies[Len(kinds)], r \in {1, total}}

(* Floating point functions: every value is an f64.                        *)
Float(params, kinds) ==
    {[f EXCEPT !.types = [v \in DOMAIN f.types |-> "f64"]] : f \in Straight(params, kinds)}

(* Functions with control flow: a branch on a comparison around a call, a  *)
(* loop that keeps values live around it, and blocks out of order.         *)
F(params, n, blocks, succ) ==
    [types |-> [v \in 1 .. n |-> "i64"], params |-> params, blocks |-> blocks, succ |-> succ,
     pred |-> [b \in DOMAIN succ |-> SetToSeq({c \in DOMAIN succ : b \in ToSet(succ[c])})]]

Branchy ==
    {F(2, 5, <<<<I("cmp", 3, <<1, 2>>, <<cc>>), I("brif", 0, <<3>>, <<2, 3>>)>>,
               <<I("call", 4, <<a>>, <<>>), I("br", 0, <<>>, <<3>>)>>,
               <<I("const", 5, <<>>, <<>>), I("ret", 0, <<r>>, <<>>)>>>>,
       <<<<2, 3>>, <<3>>, <<>>>>) : cc \in {"eq", "ne", "lt", "gt"}, a \in 1 .. 3, r \in {1, 2, 5}}
    \cup
    {F(2, 5, <<<<I("const", 3, <<>>, <<>>), I("br", 0, <<>>, <<2>>)>>,
               <<I("add", 4, <<a, 3>>, <<>>), I("cmp", 5, <<4, b>>, <<cc>>), I("brif", 0, <<5>>, <<2, 3>>)>>,
               <<I("store", 0, <<a, 3>>, <<>>), I("ret", 0, <<b>>, <<>>)>>>>,
       <<<<2>>, <<2, 3>>, <<>>>>) : cc \in {"ne", "gt"}, a, b \in 1 .. 2}
    \cup
    {F(2, 5, <<<<I("br", 0, <<>>, <<3>>)>>,
               <<I("add", 5, <<3, 4>>, <<>>), I("ret", 0, <<5>>, <<>>)>>,
               <<I("add", 3, <<a, b>>, <<>>), I("call", 4, <<b>>, <<>>), I("br", 0, <<>>, <<2>>)>>>>,
       <<<<3>>, <<>>, <<2>>>>) : a, b \in 1 .. 2}
    \cup
    {F(2, 5, <<<<I("br", 0, <<>>, <<3>>)>>,
               <<I("call", 4, <<b>>, <<>>), I("add", 5, <<3, 4>>, <<>>), I("ret", 0, <<5>>, <<>>)>>,
               <<I("add", 3, <<a, b>>, <<>>), I("br", 0, <<>>, <<2>>)>>>>,
       <<<<3>>, <<>>, <<2>>>>) : a, b \in 1 .. 2}

(* More parameters and arguments than registers.                           *)
Many ==
    {F(4, 5, <<<<I("add", 5, <<a, b>>, <<>>), I("ret", 0, <<c>>, <<>>)>>>>, <<<<>>>>)
        : a, b \in 1 .. 4, c \in {1, 5}}
    \cup
    {F(1, 4, <<<<I("const", 2, <<>>, <<>>), I("const", 3, <<>>, <<>>),
                I("call", 4, <<a, b, c, 1>>, <<>>), I("ret", 0, <<d>>, <<>>)>>>>, <<<<>>>>)
        : a, b, c \in 1 .. 3, d \in {3, 4}}

Functions ==
    UNION {Straight(2, k) : k \in {<<"bin", "call2", "bin">>, <<"const", "call2", "store">>,
                                   <<"bin", "div">>, <<"load", "call1", "store">>,
                                   <<"slot", "bin", "call1">>}}
    \cup Straight(1, <<"const", "const", "call1", "bin">>) \cup Straight(1, <<"call1", "bin">>)
    \cup Float(1, <<"const", "call2", "fbin">>) \cup Float(1, <<"fbin", "call2", "fbin">>)
    \cup Float(2, <<"fbin", "call1">>) \cup Float(2, <<"cmp">>)
    \cup Straight(2, <<"shift", "call1">>) \cup Straight(2, <<"cast", "bin">>)
    \cup Straight(2, <<"cmp", "bin">>)
    \cup Branchy \cup Many
    \cup {[f EXCEPT !.types[1] = "wide"] : f \in Many}

RunInputs == [fn : Functions, target : {SysV, Win64, A64}]
=============================================================================
