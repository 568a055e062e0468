----------------------------- MODULE JitLibrary -----------------------------
(***************************************************************************)
(* What the JIT promises to its host: a library that modules are added to  *)
(* in one indivisible step each.  A module is added with every symbol it   *)
(* defines and with every relocation bound for good; an attempt that fails *)
(* adds nothing; closing the library takes all of it away.                 *)
(***************************************************************************)
EXTENDS Naturals, Sequences

CONSTANTS Encoded, HostAnswer, MaxLinks

VARIABLES
    open,       \* the library has not been destroyed
    loaded,     \* its modules in order: [id, module, targets]
    exports     \* what lookups search: [name, addr]

libVars == <<open, loaded, exports>>

Defines(e, n) == \E i \in 1..Len(e.syms) : e.syms[i].name = n

(* The place of relocation r of e in the mapping id, or a name of the host. *)
Target(e, id, r) ==
    LET n == e.relocs[r].name
        first == CHOOSE i \in 1..Len(e.syms) :
                    /\ e.syms[i].name = n
                    /\ \A j \in 1..(i-1) : e.syms[j].name # n
    IN IF Defines(e, n) THEN [in |-> id, at |-> e.syms[first].kind] ELSE [in |-> 0, at |-> n]

(* Every name is defined by the module or can be given by the host.         *)
Linkable(e) ==
    \A r \in 1..Len(e.relocs) :
        \/ Defines(e, e.relocs[r].name)
        \/ \E a \in HostAnswer[e.relocs[r].name] : a # "none"

LibInit == open = TRUE /\ loaded = <<>> /\ exports = <<>>

Add(e, id) ==
    /\ open
    /\ Linkable(e)
    /\ \A i \in 1..Len(loaded) : loaded[i].id # id
    /\ loaded' = Append(loaded, [id |-> id, module |-> e,
                                 targets |-> [r \in 1..Len(e.relocs) |-> Target(e, id, r)]])
    /\ exports' = exports \o [i \in 1..Len(e.syms) |->
                                [name |-> e.syms[i].name, addr |-> [in |-> id, at |-> e.syms[i].kind]]]
    /\ UNCHANGED open

Close ==
    /\ open
    /\ open' = FALSE /\ loaded' = <<>> /\ exports' = <<>>

(* The library grows by one module or is closed; nothing else happens to it. *)
Grow ==
    /\ Len(loaded') = Len(loaded) + 1
    /\ \E e \in Encoded, id \in 1..MaxLinks : Add(e, id)

LibNext == Grow \/ Close

LibSpec == LibInit /\ [][LibNext]_libVars

=============================================================================
