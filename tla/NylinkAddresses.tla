-------------------------- MODULE NylinkAddresses --------------------------
(***************************************************************************)
(* The part of nylink_layout_internal that gives every symbol the address  *)
(* of its definition, after NylinkResolve.  It does not use the table of   *)
(* the binding loop: it looks each name up again with nylink_find_symbol.  *)
(***************************************************************************)
EXTENDS NylinkResolve

VARIABLES
    lookup, \* nylink_find_symbol: the loop's next symbol
    found,  \* nylink_find_symbol: the candidate for each name, 0 for none
    va      \* final_va of each symbol, <<>> before layout.  An address is
            \* named by the symbol whose place it is; 0 is address 0

search == <<lookup, found>>
addrVars == <<vars, search, va>>

(* Mutant: a weak definition does not take over from a shared library's.    *)
TakesUndefined(s, c) ==
    \/ c = 0
    \/ IsStatic(s) /\ s.bind = "weak" /\ ~IsDefined(symbols[c])
    \/ IsDynamic(s) /\ ~IsDefined(symbols[c])

(* nylink_find_symbol: does symbol s take over from the candidate c?  Local *)
(* symbols take part.                                                       *)
TakesCandidate(s, c) ==   \* c = 0: no candidate yet
    \/ c = 0
    \/ /\ IsStatic(s) /\ s.bind = "weak"
       /\ ~IsDefined(symbols[c]) \/ IsDynamic(symbols[c])
    \/ /\ IsDynamic(s)
       /\ ~IsDefined(symbols[c])

(* The candidate for n after symbol i: the first static global ends the     *)
(* search.                                                                  *)
NextCandidate(n, i) ==
    LET c == found[n]
        returned == c # 0 /\ IsStrongDef(symbols[c])
        takes == IsStrongDef(symbols[i]) \/ TakesCandidate(symbols[i], c)
    IN IF IsNamed(i, n) /\ ~returned /\ takes THEN i ELSE c

(* One symbol of the loop.  Layout calls nylink_find_symbol once for every  *)
(* symbol; the symbol table no longer changes, so what a call returns       *)
(* depends on the name alone, and the searches for all names advance        *)
(* together.                                                                *)
nylink_find_symbol ==
    /\ phase = "resolved"
    /\ lookup <= Len(symbols)
    /\ lookup' = lookup + 1
    /\ found' = [n \in Name |-> NextCandidate(n, lookup)]
    /\ UNCHANGED <<vars, va>>

(* First loop: a static definition gets its own place, an import keeps the  *)
(* thunk or IAT slot it was given through nylink_find_symbol.               *)
OwnVa(s) ==
    CASE IsStatic(symbols[s]) -> s
      [] symbols[s].at = "import" ->
           IF found[symbols[s].name] = s THEN s ELSE 0
      [] OTHER -> 0

(* Second loop: every named symbol gets the address of what                 *)
(* nylink_find_symbol returns for its name, if that is defined.             *)
FinalVa(s) ==
    LET d == found[symbols[s].name] IN
    IF IsStatic(symbols[d]) \/ (IsDynamic(symbols[d]) /\ OwnVa(d) # 0)
    THEN OwnVa(d) ELSE OwnVa(s)

FinalState(s) ==
    LET d == found[symbols[s].name] IN
    IF IsDefined(symbols[d])
    THEN [is_defined |-> TRUE, is_dynamic |-> IsDynamic(symbols[d])]
    ELSE resolved[s]

AssignAddresses ==
    /\ phase = "resolved"
    /\ symbols # <<>>
    /\ lookup > Len(symbols)
    /\ va = <<>>
    /\ va' = [s \in 1..Len(symbols) |-> FinalVa(s)]
    /\ resolved' = [s \in 1..Len(symbols) |-> FinalState(s)]
    /\ UNCHANGED <<phase, ctx, reading, extraction, binding, search>>

AddrInit == Init /\ lookup = 1 /\ found = [n \in Name |-> 0] /\ va = <<>>

AddrNext ==
    \/ Next /\ UNCHANGED <<search, va>>
    \/ nylink_find_symbol
    \/ AssignAddresses

AddrSpec == AddrInit /\ [][AddrNext]_addrVars

-----------------------------------------------------------------------------
(* Properties                                                               *)

(* A local definition that is the first symbol of its name keeps the search *)
(* from everything but a global definition in a section.                    *)
LocalFirst(i, n) ==
    /\ IsNamed(i, n) /\ symbols[i].bind = "local" /\ IsStatic(symbols[i])
    /\ \A j \in 1..(i-1) : ~IsNamed(j, n)

Shadows(i, n) ==
    LocalFirst(i, n) /\ (refs[n] = 0 \/ ~IsStrongDef(symbols[refs[n]]))

(* Symbol s has the address and the state of definition d.  What a shared   *)
(* library defines has no address, and where nothing is defined a symbol    *)
(* keeps what it has of its own: its place when it is a local definition,   *)
(* otherwise address 0.                                                     *)
HasAddressOf(s, d) ==
    LET own == IF IsStatic(symbols[s]) THEN s ELSE 0 IN
    IF d # 0 /\ IsDefined(symbols[d])
    THEN /\ resolved[s] = [is_defined |-> TRUE, is_dynamic |-> IsDynamic(symbols[d])]
         /\ va[s] = IF symbols[d].at \in {"section", "import"} THEN d ELSE own
    ELSE /\ resolved[s] = [is_defined |-> IsStatic(symbols[s]), is_dynamic |-> FALSE]
         /\ va[s] = own

(* nylink_find_symbol, written separately, picks the definition that the    *)
(* binding loop picked, and every symbol of the name, local or not, has its *)
(* address after layout.  The two differ in one case only, which local      *)
(* symbols cause that the binding loop does not look at: a local definition *)
(* that is the first symbol of the name takes the place of a winner that is *)
(* weak, from a shared library or undefined.                                *)
AddressOfWinner ==
    va # <<>> =>
        \A s \in 1..Len(symbols) :
            LET n == symbols[s].name IN
            /\ \A i \in 1..Len(symbols) : Shadows(i, n) => HasAddressOf(s, i)
            /\ (\A i \in 1..Len(symbols) : ~Shadows(i, n)) => HasAddressOf(s, refs[n])

(* nylink_context.c:426-427 again: a weak reference without a non-local     *)
(* definition has address 0.                                                *)
WeakUndefinedIsZero ==
    va # <<>> =>
        \A s \in 1..Len(symbols) :
            /\ symbols[s].bind = "weak"
            /\ \A d \in 1..Len(symbols) :
                   NonLocal(d, symbols[s].name) => ~IsDefined(symbols[d])
            => va[s] = 0

=============================================================================
