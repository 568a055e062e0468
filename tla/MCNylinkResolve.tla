-------------------------- MODULE MCNylinkResolve --------------------------
(* Small instances of NylinkResolve for TLC.                                *)
EXTENDS NylinkResolve

MCName == {"x", "y", "imp_x"}
MCImpOf == [n \in MCName |-> "imp_x"]

Sym(n, b, a) == [name |-> n, bind |-> b, at |-> a]
Elf(ss) == [fmt |-> "elf", syms |-> ss, ok |-> TRUE]
Broken(o) == [o EXCEPT !.ok = FALSE]
ObjMember(o) == [kind |-> "object", obj |-> o]
Linker(es) == [kind |-> "linker", entries |-> es]
Entry(n, m) == [name |-> n, member |-> m]

UseX == Elf(<<Sym("x", "global", "undef")>>)
UseXY == Elf(<<Sym("x", "global", "undef"), Sym("y", "global", "undef")>>)
WeakUseX == Elf(<<Sym("x", "weak", "undef")>>)
DefX == Elf(<<Sym("x", "global", "section")>>)
WeakX == Elf(<<Sym("x", "weak", "section")>>)
LocalX == Elf(<<Sym("x", "local", "section")>>)
SharedX == Elf(<<Sym("x", "global", "shared")>>)
CommonX == Elf(<<Sym("x", "global", "special")>>)
DefXUseY == Elf(<<Sym("x", "global", "section"), Sym("y", "global", "undef")>>)
DefYUseX == Elf(<<Sym("y", "global", "section"), Sym("x", "weak", "undef")>>)
UseImpX == Elf(<<Sym("imp_x", "global", "undef")>>)

Coff(o) == [o EXCEPT !.fmt = "coff"]

(* Objects that resolve against each other in every order.                  *)
MCObject == {UseX, UseXY, WeakUseX, DefX, WeakX, SharedX, CommonX, Coff(UseX)}

(* The same with local symbols of the name and with faulty inputs.          *)
MCObjectLocal == {UseX, WeakUseX, DefX, WeakX, LocalX, SharedX}

MCObjectFaulty == {UseX, UseImpX, DefX, Broken(DefX),
                   Coff(DefX), [DefX EXCEPT !.fmt = "unknown"],
                   [DefX EXCEPT !.fmt = "truncated"]}

(* A chain of two members, a cycle behind a linker member, an entry that    *)
(* names no member, two members that offer the same name (of which the      *)
(* COFF indexer takes the second only), one whose second member header is   *)
(* corrupt.                                                                 *)
MCArFile == {
    <<ObjMember(DefYUseX), ObjMember(DefXUseY)>>,
    <<Linker(<<Entry("y", 3), Entry("x", 2), Entry("x", 9), Entry("x", 2)>>),
      ObjMember(DefXUseY), ObjMember(DefYUseX)>>,
    <<ObjMember(CommonX), ObjMember(DefX)>>,
    <<ObjMember(Coff(CommonX)), ObjMember(Coff(DefX))>>,
    <<ObjMember(DefX), [kind |-> "corrupt"]>> }

MCArFileFaulty == {
    <<[kind |-> "import", sym |-> "x"], [kind |-> "import", sym |-> "x"]>>,
    <<ObjMember(Broken(DefX))>>,
    <<ObjMember(DefX), [kind |-> "corrupt"]>>,
    <<Linker(<<Entry("x", 2)>>), ObjMember(Coff(DefX))>> }

=============================================================================
