------------------------------ MODULE MCNyJit ------------------------------
(* NyJit with modules that call and address two functions and a global of   *)
(* their own, a host function, and nothing that exists.                     *)
EXTENDS NyJit

CONSTANTS f, g, puts, missing

Names == {f, g, puts, missing}

Sym(n, k) == [name |-> n, kind |-> k]
R(k, n) == [kind |-> k, name |-> n, inside |-> TRUE]

Syms == {<<Sym(f, "text")>>, <<Sym(f, "text"), Sym(g, "data")>>}

X86Relocs == {R("CALL_REL32", f), R("CALL_REL32", puts), R("CALL_REL32", missing),
              R("GLOBAL_REL32", g)}
A64Relocs == {R("CALL26", f), R("CALL26", puts), R("ADRP", g), R("ADD_LO12", g),
              R("LDST_LO12", g)}
Faulty == {[R("CALL26", f) EXCEPT !.inside = FALSE], R("other", f)}

(* The encoders take the address of globals of the module only.             *)
OwnGlobals(e) ==
    \A r \in 1..Len(e.relocs) :
        e.relocs[r].name = g => IsInternal(e, g)

Seqs(S) == {<<>>} \cup {<<a>> : a \in S} \cup {<<a, b>> : a \in S, b \in S}

Modules ==
    {e \in [syms : Syms, wide : BOOLEAN, huge : {FALSE},
            relocs : Seqs(X86Relocs) \cup Seqs(A64Relocs) \cup {<<x>> : x \in Faulty}
                     \cup {<<R("CALL_REL32", puts), R("CALL_REL32", puts), R("CALL_REL32", puts)>>}] :
        OwnGlobals(e)}
    \cup [syms : {<<Sym(f, "text"), Sym(g, "data")>>}, wide : {TRUE}, huge : {TRUE},
          relocs : {<<R("LDST_LO12", g)>>, <<R("GLOBAL_REL32", g)>>}]

Answers ==
    [n \in Names |-> CASE n = puts -> {"near", "far"} [] OTHER -> {"none"}]

=============================================================================
