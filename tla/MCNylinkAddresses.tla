------------------------- MODULE MCNylinkAddresses -------------------------
(* Small instances of NylinkAddresses for TLC.                              *)
EXTENDS NylinkAddresses, MCNylinkResolve

(* Every kind of definition of x, local ones and a local symbol without a   *)
(* place among them, the import symbol, objects that cannot be read, and    *)
(* archives that provide each of them.                                      *)
FileX == Elf(<<Sym("x", "local", "special")>>)

MCObjectAddr ==
    {UseX, WeakUseX, DefX, WeakX, LocalX, FileX, SharedX, CommonX, UseImpX} \cup MCObjectFaulty

MCArFileAddr == {<<ObjMember(DefYUseX), ObjMember(DefXUseY)>>} \cup MCArFileFaulty

=============================================================================
