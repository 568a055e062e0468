----------------------- MODULE NylinkAddressesProofs -----------------------
(***************************************************************************)
(* Proofs about NylinkAddresses, for every set of names, objects and       *)
(* archives and every number of inputs: the symbol search of layout, which *)
(* knows nothing of the table that resolution built, agrees with it.       *)
(***************************************************************************)
EXTENDS NylinkAddresses, NylinkResolveProofs

(* What holds of the linker before layout (NylinkResolveProofs).           *)
LinkInv ==
    /\ TypeOK /\ ReadInv
    /\ BindInv /\ WinnerIsBest /\ DuplicatesExact

(* A symbol of the name that the search may pick: a local definition only  *)
(* when it is the first symbol of the name.                                *)
Counts(j, n) ==
    IsNamed(j, n) /\ (symbols[j].bind = "local" /\ IsStatic(symbols[j]) => LocalFirst(j, n))

(* nylink_find_symbol's loop holds, for each name, the first symbol of the *)
(* highest rank among those it has passed that count.                      *)
FoundBest ==
    \A n \in Name :
        /\ found[n] # 0 => /\ found[n] \in 1..Len(symbols) /\ found[n] < lookup
                           /\ Counts(found[n], n)
        /\ \A j \in 1..Len(symbols) : j < lookup /\ IsNamed(j, n) => found[n] # 0
        /\ \A j \in 1..Len(symbols) : j < lookup /\ Counts(j, n) =>
              /\ Rank(symbols[j]) <= Rank(symbols[found[n]])
              /\ Rank(symbols[j]) = Rank(symbols[found[n]]) => found[n] <= j

(* Layout starts after resolution, and finds what resolution left.         *)
SearchInv ==
    /\ lookup \in Nat \ {0}
    /\ found \in [Name -> Nat]
    /\ phase # "resolved" => lookup = 1 /\ found = [n \in Name |-> 0] /\ va = <<>>
    /\ phase = "resolved" /\ va = <<>> =>
          resolved = [s \in 1..Len(symbols) |-> ResolvedState(s)]

AddrInv == LinkInv /\ SearchInv /\ FoundBest /\ AddressOfWinner

LEMMA RankType ==
    ASSUME TypeOK, NEW i \in 1..Len(symbols)
    PROVE  Rank(symbols[i]) \in 0..3
BY DEF Rank

(* The loop's tests order symbols as the binding loop's do: one that is no *)
(* local definition takes over exactly when it ranks higher.               *)
LEMMA TakesHigher ==
    ASSUME TypeOK, NEW i \in 1..Len(symbols), NEW c \in 1..Len(symbols),
           ~(symbols[i].bind = "local" /\ IsStatic(symbols[i]))
    PROVE  /\ ~IsStrongDef(symbols[c])
           /\ IsStrongDef(symbols[i]) \/ TakesCandidate(symbols[i], c)
           <=> Rank(symbols[c]) < Rank(symbols[i])
<1>1. symbols[i] \in Symbol /\ symbols[c] \in Symbol /\ c # 0
  BY SymbolType
<1>2. /\ symbols[i].at \in Place /\ symbols[c].at \in Place
      /\ symbols[i].bind \in Binding /\ symbols[c].bind \in Binding
  BY <1>1 DEF Symbol
<1> QED
  BY <1>1, <1>2 DEF Rank, TakesCandidate, IsStrongDef, IsStatic, IsDefined, IsDynamic, Place, Binding

(* A local definition that is not the first of its name is passed over.    *)
LEMMA LocalPassed ==
    ASSUME NEW i \in 1..Len(symbols), NEW c \in 1..Len(symbols),
           symbols[i].bind = "local", IsStatic(symbols[i])
    PROVE  ~IsStrongDef(symbols[i]) /\ ~TakesCandidate(symbols[i], c)
BY DEF TakesCandidate, IsStrongDef, IsStatic, IsDynamic

(* One symbol of the loop keeps the candidates the best so far.            *)
LEMMA SearchStep ==
    ASSUME TypeOK, SearchInv, FoundBest, nylink_find_symbol
    PROVE  FoundBest'
<1>1. /\ lookup \in Nat \ {0} /\ Len(symbols) \in Nat /\ lookup \in 1..Len(symbols)
      /\ lookup' = lookup + 1 /\ symbols' = symbols
      /\ found' = [n \in Name |-> NextCandidate(n, lookup)]
  BY SymbolType DEF SearchInv, nylink_find_symbol, vars, ctx
<1> SUFFICES ASSUME NEW n \in Name
    PROVE /\ found'[n] # 0 => /\ found'[n] \in 1..Len(symbols) /\ found'[n] < lookup + 1
                              /\ Counts(found'[n], n)
          /\ \A j \in 1..Len(symbols) : j < lookup + 1 /\ IsNamed(j, n) => found'[n] # 0
          /\ \A j \in 1..Len(symbols) : j < lookup + 1 /\ Counts(j, n) =>
                /\ Rank(symbols[j]) <= Rank(symbols[found'[n]])
                /\ Rank(symbols[j]) = Rank(symbols[found'[n]]) => found'[n] <= j
  BY <1>1 DEF FoundBest, Counts, LocalFirst, IsNamed
<1> DEFINE c == found[n]
<1>2. /\ c # 0 => c \in 1..Len(symbols) /\ c < lookup /\ Counts(c, n)
      /\ \A j \in 1..Len(symbols) : j < lookup /\ IsNamed(j, n) => c # 0
      /\ \A j \in 1..Len(symbols) : j < lookup /\ Counts(j, n) =>
            /\ Rank(symbols[j]) <= Rank(symbols[c])
            /\ Rank(symbols[j]) = Rank(symbols[c]) => c <= j
  BY DEF FoundBest
<1>3. \A j \in 1..Len(symbols) : Counts(j, n) => IsNamed(j, n)
  BY DEF Counts
<1>4. \A j \in 1..Len(symbols) : Rank(symbols[j]) \in 0..3
  BY RankType
<1>5. \A j \in 1..Len(symbols) : j < lookup + 1 <=> j < lookup \/ j = lookup
  BY <1>1
<1>6. found'[n] = NextCandidate(n, lookup)
  BY <1>1
<1> HIDE DEF c
<1>7. CASE ~IsNamed(lookup, n)
  <2>1. found'[n] = c
    BY <1>6, <1>7 DEF NextCandidate, c
  <2> QED
    BY <1>1, <1>2, <1>3, <1>5, <1>7, <2>1
<1>8. CASE IsNamed(lookup, n) /\ c = 0
  <2>1. found'[n] = lookup
    BY <1>6, <1>8 DEF NextCandidate, TakesCandidate, c
  <2>2. \A j \in 1..Len(symbols) : j < lookup + 1 /\ IsNamed(j, n) => j = lookup
    BY <1>2, <1>5, <1>8
  <2>3. Counts(lookup, n)
    <3>1. \A j \in 1..(lookup-1) : j \in 1..Len(symbols) /\ j < lookup
      BY <1>1
    <3> QED
      BY <1>2, <1>8, <3>1 DEF Counts, LocalFirst
  <2> QED
    BY <1>1, <1>3, <1>4, <1>8, <2>1, <2>2, <2>3
<1>9. CASE IsNamed(lookup, n) /\ c # 0
  <2>1. /\ Rank(symbols[lookup]) \in 0..3 /\ Rank(symbols[c]) \in 0..3
        /\ c \in 1..Len(symbols) /\ c < lookup /\ Counts(c, n)
    BY <1>1, <1>2, <1>4, <1>9
  <2>2. CASE symbols[lookup].bind = "local" /\ IsStatic(symbols[lookup])
    <3>1. found'[n] = c
      BY <1>1, <1>6, <2>1, <2>2, LocalPassed DEF NextCandidate, c
    <3>2. ~Counts(lookup, n)
      <4>1. c \in 1..(lookup-1) /\ IsNamed(c, n)
        BY <1>1, <1>3, <2>1
      <4> QED
        BY <2>2, <4>1 DEF Counts, LocalFirst
    <3> QED
      BY <1>1, <1>2, <1>5, <1>9, <2>1, <3>1, <3>2
  <2>3. CASE ~(symbols[lookup].bind = "local" /\ IsStatic(symbols[lookup]))
    <3>1. found'[n] = IF Rank(symbols[c]) < Rank(symbols[lookup]) THEN lookup ELSE c
      <4>1. /\ ~IsStrongDef(symbols[c])
            /\ IsStrongDef(symbols[lookup]) \/ TakesCandidate(symbols[lookup], c)
            <=> Rank(symbols[c]) < Rank(symbols[lookup])
        BY <1>1, <2>1, <2>3, TakesHigher
      <4> QED
        BY <1>6, <1>9, <4>1 DEF NextCandidate, c
    <3>2. Counts(lookup, n)
      BY <1>9, <2>3 DEF Counts
    <3>3. CASE Rank(symbols[c]) < Rank(symbols[lookup])
      <4>1. \A j \in 1..Len(symbols) : j < lookup /\ Counts(j, n) =>
               Rank(symbols[j]) < Rank(symbols[lookup])
        BY <1>2, <1>4, <2>1, <3>3
      <4> QED
        BY <1>1, <1>4, <1>5, <1>9, <2>1, <3>1, <3>2, <3>3, <4>1
    <3>4. CASE ~(Rank(symbols[c]) < Rank(symbols[lookup]))
      BY <1>1, <1>2, <1>4, <1>5, <1>9, <2>1, <3>1, <3>4
    <3> QED
      BY <3>3, <3>4
  <2> QED
    BY <2>2, <2>3
<1> QED
  BY <1>7, <1>8, <1>9

(* What a completed search has found for a name that occurs: the local     *)
(* definition that shadows the winner; otherwise the winner, or nothing    *)
(* defined when the winner is not defined either.                          *)
LEMMA SameWinner ==
    ASSUME LinkInv, SearchInv, FoundBest, phase = "resolved", lookup > Len(symbols),
           NEW n \in Name, NEW s \in 1..Len(symbols), IsNamed(s, n)
    PROVE  /\ found[n] \in 1..Len(symbols) /\ Counts(found[n], n)
           /\ \A i \in 1..Len(symbols) : Shadows(i, n) => found[n] = i
           /\ (\A i \in 1..Len(symbols) : ~Shadows(i, n)) =>
                 \/ found[n] = refs[n]
                 \/ ~IsDefined(symbols[found[n]]) /\ (refs[n] = 0 \/ ~IsDefined(symbols[refs[n]]))
<1> DEFINE f == found[n]
           w == refs[n]
<1>1. /\ Len(symbols) \in Nat /\ cursor \in Nat /\ lookup \in Nat
      /\ refs \in [Name -> Nat] /\ cursor > Len(symbols) /\ TypeOK
  BY SymbolType DEF LinkInv, TypeOK, SearchInv, BindInv
<1>2. \A j \in 1..Len(symbols) : j < cursor /\ j < lookup
  BY <1>1
<1>3. /\ w # 0 => w \in 1..Len(symbols) /\ NonLocal(w, n)
      /\ \A j \in 1..Len(symbols) : NonLocal(j, n) =>
            /\ w # 0
            /\ Rank(symbols[j]) <= Rank(symbols[w])
            /\ Rank(symbols[j]) = Rank(symbols[w]) => w <= j
  BY <1>1, <1>2 DEF LinkInv, WinnerIsBest
<1>4. /\ f \in 1..Len(symbols) /\ Counts(f, n) /\ IsNamed(f, n)
      /\ \A j \in 1..Len(symbols) : Counts(j, n) =>
            /\ Rank(symbols[j]) <= Rank(symbols[f])
            /\ Rank(symbols[j]) = Rank(symbols[f]) => f <= j
  BY <1>2 DEF FoundBest, Counts
<1> HIDE DEF f, w
<1>5. \A j \in 1..Len(symbols) :
         /\ Rank(symbols[j]) \in 0..3
         /\ symbols[j].bind = "local" => symbols[j].at \notin {"shared", "import"}
         /\ IsDefined(symbols[j]) <=> Rank(symbols[j]) > 0
         /\ IsStrongDef(symbols[j]) <=> Rank(symbols[j]) = 3
         /\ NonLocal(j, n) => Counts(j, n)
  <2> TAKE j \in 1..Len(symbols)
  <2>1. symbols[j] \in Symbol
    BY <1>1, SymbolType
  <2>2. /\ symbols[j].at \in Place /\ symbols[j].bind \in Binding
        /\ symbols[j].bind = "local" => symbols[j].at \notin {"shared", "import"}
    BY <2>1 DEF Symbol
  <2>3. NonLocal(j, n) => Counts(j, n)
    BY DEF NonLocal, Counts
  <2> QED
    BY <2>2, <2>3 DEF Rank, IsStrongDef, IsDefined, IsStatic, IsDynamic, Place, Binding
<1>6. \A i \in 1..Len(symbols) : LocalFirst(i, n) =>
         /\ Counts(i, n) /\ Rank(symbols[i]) = 2
         /\ \A j \in 1..Len(symbols) : IsNamed(j, n) => i <= j
  <2> TAKE i \in 1..Len(symbols)
  <2> HAVE LocalFirst(i, n)
  <2>1. Counts(i, n) /\ Rank(symbols[i]) = 2
    BY DEF LocalFirst, Counts, Rank, IsStatic, IsDynamic
  <2>2. \A j \in 1..Len(symbols) : IsNamed(j, n) => i <= j
    <3>1. \A j \in 1..Len(symbols) : ~(i <= j) => j \in 1..(i-1)
      BY <1>1
    <3> QED
      BY <3>1 DEF LocalFirst
  <2> QED
    BY <2>1, <2>2
<1>7. ASSUME NEW i \in 1..Len(symbols), Shadows(i, n) PROVE f = i
  <2>1. LocalFirst(i, n) /\ (w = 0 \/ ~IsStrongDef(symbols[w]))
    BY <1>7 DEF Shadows, w
  <2>2. Rank(symbols[f]) \in {2, 3}
    BY <1>4, <1>5, <1>6, <2>1
  <2>3. Rank(symbols[f]) # 3
    <3> SUFFICES ASSUME Rank(symbols[f]) = 3 PROVE FALSE
      OBVIOUS
    <3>1. IsStrongDef(symbols[f])
      BY <1>4, <1>5
    <3>2. NonLocal(f, n)
      BY <1>4, <3>1 DEF NonLocal, IsStrongDef
    <3>3. w # 0 /\ w \in 1..Len(symbols) /\ Rank(symbols[w]) >= 3
      BY <1>3, <1>4, <1>5, <3>2
    <3>4. Rank(symbols[w]) = 3
      BY <1>5, <3>3
    <3> QED
      BY <1>5, <2>1, <3>3, <3>4
  <2>4. f <= i /\ i <= f
    BY <1>4, <1>6, <2>1, <2>2, <2>3
  <2> QED
    BY <1>4, <2>4
<1>8. ASSUME \A i \in 1..Len(symbols) : ~Shadows(i, n)
      PROVE  \/ f = w
             \/ ~IsDefined(symbols[f]) /\ (w = 0 \/ ~IsDefined(symbols[w]))
  <2>1. CASE NonLocal(f, n)
    <3>1. w # 0 /\ w \in 1..Len(symbols) /\ Counts(w, n) /\ NonLocal(w, n)
      BY <1>3, <1>4, <1>5, <2>1
    <3>2. Rank(symbols[f]) = Rank(symbols[w])
      BY <1>3, <1>4, <1>5, <2>1, <3>1
    <3>3. f <= w /\ w <= f
      BY <1>3, <1>4, <2>1, <3>1, <3>2
    <3> QED
      BY <1>4, <3>1, <3>3
  <2>2. CASE ~NonLocal(f, n)
    <3>1. symbols[f].bind = "local"
      BY <1>4, <2>2 DEF NonLocal
    <3>2. CASE IsStatic(symbols[f])
      <4>1. LocalFirst(f, n)
        BY <1>4, <3>1, <3>2 DEF Counts
      <4>2. w # 0 /\ IsStrongDef(symbols[w])
        BY <1>4, <1>8, <4>1 DEF Shadows, w
      <4>3. Rank(symbols[w]) = 3 /\ Counts(w, n)
        BY <1>3, <1>5, <4>2
      <4>4. 3 <= Rank(symbols[f])
        BY <1>3, <1>4, <4>2, <4>3
      <4> QED
        BY <1>4, <1>6, <4>1, <4>4
    <3>3. CASE ~IsStatic(symbols[f])
      <4>1. ~IsDefined(symbols[f])
        BY <1>4, <1>5, <3>1, <3>3 DEF IsDefined, IsStatic
      <4>2. Rank(symbols[f]) = 0
        BY <1>4, <1>5, <4>1
      <4>3. w = 0 \/ Rank(symbols[w]) = 0
        BY <1>3, <1>4, <1>5, <4>2
      <4> QED
        BY <1>3, <1>5, <4>1, <4>3
    <3> QED
      BY <3>2, <3>3
  <2> QED
    BY <2>1, <2>2
<1> QED
  BY <1>4, <1>7, <1>8 DEF f, w

(* After resolution the linker's own steps change nothing.                 *)
LEMMA ResolvedRests ==
    ASSUME phase = "resolved", [Next]_vars
    PROVE  UNCHANGED vars
BY DEF Next, Linking, Finished, AddObject, nylink_add_archive, CallResolve,
   nylink_read_archive, ReadArchiveFails, add_archive_symbol, ReadArchiveReturns,
   ExtractFor, SkipSymbol, EndPass, BindSymbol, BindDone, CheckRefs

(* The two loops of layout give each symbol what its winner has.           *)
LEMMA AssignStep ==
    ASSUME AddrInv, AssignAddresses
    PROVE  AddressOfWinner' /\ resolved' \in Seq(ResolvedSym) /\ va' # <<>>
<1>1. /\ phase = "resolved" /\ lookup > Len(symbols) /\ va = <<>>
      /\ UNCHANGED <<symbols, refs, found>>
      /\ va' = [s \in 1..Len(symbols) |-> FinalVa(s)]
      /\ resolved' = [s \in 1..Len(symbols) |-> FinalState(s)]
  BY DEF AssignAddresses, ctx, binding, search
<1>2. /\ Len(symbols) \in Nat
      /\ \A i \in 1..Len(symbols) : symbols[i] \in Symbol /\ symbols[i].name \in Name
  BY SymbolType DEF AddrInv, LinkInv
<1>3. \A s \in 1..Len(symbols) : resolved[s] = ResolvedState(s)
  BY <1>1 DEF AddrInv, SearchInv
<1>4. resolved' \in Seq(ResolvedSym)
  <2>1. \A s \in 1..Len(symbols) : FinalState(s) \in ResolvedSym
    <3>1. \A s \in 1..Len(symbols) : ResolvedState(s) \in ResolvedSym
      BY DEF ResolvedState, ResolvedSym, IsDefined, IsDynamic
    <3>2. \A d : [is_defined |-> TRUE, is_dynamic |-> IsDynamic(d)] \in ResolvedSym
      BY DEF ResolvedSym, IsDynamic
    <3> QED
      BY <1>3, <3>1, <3>2 DEF FinalState
  <2> QED
    BY <1>1, <1>2, <2>1, IsASeq
<1>5. va' # <<>>
  <2>1. Len(symbols) # 0
    BY EmptySeq DEF AssignAddresses, AddrInv, LinkInv, TypeOK
  <2>2. 1 \in DOMAIN va'
    BY <1>1, <1>2, <2>1
  <2> QED
    BY <2>2
<1>6. AddressOfWinner'
  <2>a. /\ \A i, n : Shadows(i, n)' <=> Shadows(i, n)
        /\ symbols' = symbols /\ refs' = refs
    BY <1>1 DEF Shadows, LocalFirst, IsNamed
  <2>b. SUFFICES \A s \in 1..Len(symbols) : \A n \in Name : n = symbols[s].name =>
           /\ \A i \in 1..Len(symbols) : Shadows(i, n) => HasAddressOf(s, i)'
           /\ (\A i \in 1..Len(symbols) : ~Shadows(i, n)) => \A d : d = refs[n] => HasAddressOf(s, d)'
    BY <1>2, <2>a DEF AddressOfWinner
  <2> SUFFICES ASSUME NEW s \in 1..Len(symbols), NEW n \in Name, n = symbols[s].name
               PROVE  /\ \A i \in 1..Len(symbols) : Shadows(i, n) => HasAddressOf(s, i)'
                      /\ (\A i \in 1..Len(symbols) : ~Shadows(i, n)) =>
                            \A d : d = refs[n] => HasAddressOf(s, d)'
    OBVIOUS
  <2> DEFINE f == found[n]
             own == IF IsStatic(symbols[s]) THEN s ELSE 0
  <2>1. IsNamed(s, n)
    BY DEF IsNamed
  <2>2. /\ f \in 1..Len(symbols) /\ Counts(f, n)
        /\ \A i \in 1..Len(symbols) : Shadows(i, n) => f = i
        /\ (\A i \in 1..Len(symbols) : ~Shadows(i, n)) =>
              \/ f = refs[n]
              \/ ~IsDefined(symbols[f]) /\ (refs[n] = 0 \/ ~IsDefined(symbols[refs[n]]))
    BY <1>1, <2>1, SameWinner DEF AddrInv
  <2>3. symbols[f].at \in Place /\ symbols[s].at \in Place /\ symbols[f].name = n /\ f # 0
    BY <1>2, <2>2 DEF Symbol, Counts, IsNamed
  <2>4. resolved'[s] = FinalState(s) /\ va'[s] = FinalVa(s)
    BY <1>1
  <2>5. OwnVa(f) = IF symbols[f].at \in {"section", "import"} THEN f ELSE 0
    BY <2>2, <2>3 DEF OwnVa, IsStatic, Place
  <2>6. f # s => OwnVa(s) = own
    BY DEF OwnVa, IsStatic
  <2> HIDE DEF f, own
  <2>7. FinalVa(s) = IF symbols[f].at \in {"section", "import"} THEN f ELSE own
    <3>1. CASE symbols[f].at \in {"section", "import"}
      BY <2>3, <2>5, <3>1 DEF FinalVa, IsStatic, IsDynamic, f
    <3>2. CASE symbols[f].at \notin {"section", "import"}
      <4>1. FinalVa(s) = OwnVa(s)
        BY <2>5, <3>2 DEF FinalVa, IsStatic, f
      <4>2. OwnVa(s) = own
        BY <2>6, <3>2 DEF OwnVa, IsStatic, own
      <4> QED
        BY <3>2, <4>1, <4>2
    <3> QED
      BY <3>1, <3>2
  <2>8. IsDefined(symbols[f]) =>
          FinalState(s) = [is_defined |-> TRUE, is_dynamic |-> IsDynamic(symbols[f])]
    BY DEF FinalState, f
  <2>9. ASSUME ~IsDefined(symbols[f]), refs[n] = 0 \/ ~IsDefined(symbols[refs[n]])
        PROVE  FinalState(s) = [is_defined |-> IsStatic(symbols[s]), is_dynamic |-> FALSE]
    <3>1. FinalState(s) = ResolvedState(s)
      BY <1>3, <2>9 DEF FinalState, f
    <3>2. symbols[s] \in Symbol
      BY <1>2
    <3>3. CASE symbols[s].bind = "local"
      <4>1. ResolvedState(s) = [is_defined |-> IsDefined(symbols[s]), is_dynamic |-> IsDynamic(symbols[s])]
        BY <3>3 DEF ResolvedState
      <4>2. symbols[s].at \notin {"shared", "import"}
        BY <3>2, <3>3 DEF Symbol
      <4>3. IsDefined(symbols[s]) = IsStatic(symbols[s]) /\ IsDynamic(symbols[s]) = FALSE
        BY <2>3, <4>2 DEF IsDefined, IsDynamic, IsStatic, Place
      <4> QED
        BY <3>1, <4>1, <4>3
    <3>4. CASE symbols[s].bind # "local"
      <4>1. refs[n] # 0
        <5>1. NonLocal(s, n) /\ s < cursor
          BY <1>1, <1>2, <2>1, <3>4 DEF NonLocal, AddrInv, LinkInv, BindInv, TypeOK
        <5> QED
          BY <5>1 DEF AddrInv, LinkInv, WinnerIsBest
      <4>2. ~IsDefined(symbols[refs[n]]) /\ ~IsDynamic(symbols[refs[n]])
        BY <2>9, <4>1 DEF IsDefined, IsDynamic
      <4>3. ResolvedState(s) = [is_defined |-> FALSE, is_dynamic |-> FALSE]
        <5>1. ResolvedState(s) = [is_defined |-> IsDefined(symbols[refs[n]]),
                                  is_dynamic |-> IsDynamic(symbols[refs[n]])]
          BY <3>4, <4>1 DEF ResolvedState
        <5>2. IsDefined(symbols[refs[n]]) = FALSE /\ IsDynamic(symbols[refs[n]]) = FALSE
          BY <4>2 DEF IsDefined, IsDynamic
        <5> QED
          BY <5>1, <5>2
      <4>4. ~IsStatic(symbols[s])
        <5>1. Counts(s, n) /\ s < lookup
          BY <1>1, <1>2, <2>1, <3>4 DEF Counts, AddrInv, SearchInv
        <5>2. Rank(symbols[s]) <= Rank(symbols[f])
          BY <5>1 DEF AddrInv, FoundBest, f
        <5>3. Rank(symbols[f]) = 0
          BY <2>9 DEF Rank, IsStatic, IsDynamic, IsDefined
        <5> QED
          BY <5>2, <5>3 DEF Rank
      <4> QED
        BY <3>1, <4>3, <4>4 DEF IsStatic
    <3> QED
      BY <3>3, <3>4
  <2>10. ASSUME NEW d \in 1..Len(symbols), d = f, IsDefined(symbols[f])
         PROVE  HasAddressOf(s, d)'
    <3>1. /\ resolved'[s] = [is_defined |-> TRUE, is_dynamic |-> IsDynamic(symbols[d])]
          /\ va'[s] = IF symbols[d].at \in {"section", "import"} THEN d ELSE own
          /\ d # 0 /\ IsDefined(symbols[d])
      BY <2>3, <2>4, <2>7, <2>8, <2>10
    <3> QED
      BY <1>1, <3>1 DEF HasAddressOf, own
  <2>11. ASSUME NEW i \in 1..Len(symbols), Shadows(i, n) PROVE HasAddressOf(s, i)'
    <3>1. f = i /\ IsDefined(symbols[f])
      BY <2>2, <2>11 DEF Shadows, LocalFirst, IsStatic, IsDefined
    <3> QED
      BY <2>10, <3>1
  <2>12. ASSUME \A i \in 1..Len(symbols) : ~Shadows(i, n), NEW d, d = refs[n]
         PROVE  HasAddressOf(s, d)'
    <3>1. CASE f = refs[n] /\ IsDefined(symbols[f])
      <4>1. d \in 1..Len(symbols) /\ d = f
        BY <2>2, <2>12, <3>1
      <4> QED
        BY <2>10, <3>1, <4>1
    <3>2. CASE ~IsDefined(symbols[f]) /\ (refs[n] = 0 \/ ~IsDefined(symbols[refs[n]]))
      <4>1. symbols[f].at \notin {"section", "import"}
        BY <3>2 DEF IsDefined
      <4>2. /\ resolved'[s] = [is_defined |-> IsStatic(symbols[s]), is_dynamic |-> FALSE]
            /\ va'[s] = own
        BY <2>4, <2>7, <2>9, <3>2, <4>1
      <4> QED
        BY <1>1, <2>12, <3>2, <4>2 DEF HasAddressOf, own
    <3> QED
      BY <2>2, <2>12, <3>1, <3>2
  <2> QED
    BY <2>11, <2>12
<1> QED
  BY <1>4, <1>5, <1>6

(* What AddressOfWinner says depends on these four variables only.         *)
LEMMA WinnerKept ==
    ASSUME AddressOfWinner, UNCHANGED <<symbols, refs, resolved, va>>
    PROVE  AddressOfWinner'
<1>1. \A s, d : HasAddressOf(s, d)' <=> HasAddressOf(s, d)
  BY Zenon DEF HasAddressOf
<1>2. \A i, n : Shadows(i, n)' <=> Shadows(i, n)
  BY Zenon DEF Shadows, LocalFirst, IsNamed
<1> QED
  BY <1>1, <1>2, Zenon DEF AddressOfWinner

LEMMA AddrStep == AddrInv /\ [AddrNext]_addrVars => AddrInv'
<1> SUFFICES ASSUME AddrInv, [AddrNext]_addrVars PROVE AddrInv'
  OBVIOUS
<1>1. ASSUME [Next]_vars, UNCHANGED <<search, va>> PROVE AddrInv'
  <2>1. LinkInv'
    <3>1. (TypeOK /\ ReadInv)'
      BY <1>1, TypeReadStep DEF AddrInv, LinkInv
    <3>2. (BindInv /\ WinnerIsBest /\ DuplicatesExact)'
      BY <1>1, <3>1, BindingStep DEF AddrInv, LinkInv
    <3> QED
      BY <3>1, <3>2 DEF LinkInv
  <2>2. UNCHANGED <<lookup, found, va>>
    BY <1>1 DEF search
  <2>3. CASE phase = "resolved"
    <3>1. UNCHANGED <<phase, symbols, refs, resolved>>
      BY <1>1, <2>3, ResolvedRests DEF vars, ctx, binding
    <3>2. AddressOfWinner'
      BY <2>2, <3>1, WinnerKept DEF AddrInv
    <3>3. SearchInv' /\ FoundBest'
      BY <2>2, <3>1 DEF AddrInv, SearchInv, FoundBest, Counts, LocalFirst, ResolvedState, IsNamed
    <3> QED
      BY <2>1, <3>2, <3>3 DEF AddrInv
  <2>4. CASE phase # "resolved"
    <3>1. lookup' = 1 /\ found' = [n \in Name |-> 0] /\ va' = <<>>
      BY <2>2, <2>4 DEF AddrInv, SearchInv
    <3>2. FoundBest' /\ AddressOfWinner'
      <4>1. Len(symbols') \in Nat
        BY <2>1, LenProperties DEF LinkInv, TypeOK
      <4> QED
        BY <3>1, <4>1 DEF FoundBest, AddressOfWinner
    <3>3. phase' = "resolved" =>
             resolved' = [s \in 1..Len(symbols') |-> ResolvedState(s)']
      <4>1. CASE CheckRefs
        BY <4>1 DEF CheckRefs, ResolvedState, binding
      <4>2. CASE ExtractFor
        BY <4>2 DEF ExtractFor, ExtractMember
      <4> QED
        BY <1>1, <2>4, <4>1, <4>2 DEF Next, Linking, Finished, AddObject, nylink_add_archive,
           CallResolve, nylink_read_archive, ReadArchiveFails, add_archive_symbol,
           ReadArchiveReturns, SkipSymbol, EndPass, BindSymbol, BindDone, vars
    <3> QED
      BY <2>1, <3>1, <3>2, <3>3 DEF AddrInv, SearchInv
  <2> QED
    BY <2>3, <2>4
<1>2. CASE nylink_find_symbol
  <2>1. UNCHANGED vars /\ UNCHANGED va /\ phase = "resolved"
    BY <1>2 DEF nylink_find_symbol
  <2>2. LinkInv'
    <3>1. (TypeOK /\ ReadInv)'
      BY <2>1, TypeReadStep DEF AddrInv, LinkInv
    <3>2. (BindInv /\ WinnerIsBest /\ DuplicatesExact)'
      BY <2>1, <3>1, BindingStep DEF AddrInv, LinkInv
    <3> QED
      BY <3>1, <3>2 DEF LinkInv
  <2>3. FoundBest'
    BY <1>2, SearchStep DEF AddrInv, LinkInv
  <2>4. UNCHANGED <<phase, symbols, refs, resolved>>
    BY <2>1 DEF vars, ctx, binding
  <2>5. lookup' \in Nat \ {0} /\ found' \in [Name -> Nat]
    <3>1. lookup \in Nat \ {0} /\ lookup' = lookup + 1
      BY <1>2 DEF nylink_find_symbol, AddrInv, SearchInv
    <3>2. \A n \in Name : NextCandidate(n, lookup) \in Nat
      BY <3>1 DEF NextCandidate, AddrInv, SearchInv
    <3> QED
      BY <1>2, <3>1, <3>2 DEF nylink_find_symbol
  <2>6. AddressOfWinner'
    <3>1. AddressOfWinner /\ UNCHANGED <<symbols, refs, resolved, va>>
      BY <2>1, <2>4 DEF AddrInv
    <3> QED
      BY <3>1, WinnerKept
  <2>7. SearchInv'
    BY <2>1, <2>4, <2>5 DEF AddrInv, SearchInv, ResolvedState
  <2> QED
    BY <2>2, <2>3, <2>6, <2>7 DEF AddrInv
<1>3. CASE AssignAddresses
  <2>1. /\ phase = "resolved"
        /\ UNCHANGED <<phase, ctx, reading, extraction, binding, search>>
    BY <1>3 DEF AssignAddresses
  <2>2. AddressOfWinner' /\ resolved' \in Seq(ResolvedSym) /\ va' # <<>>
    BY <1>3, AssignStep
  <2>3. LinkInv'
    BY <2>1, <2>2 DEF AddrInv, LinkInv, TypeOK, ReadInv, BindInv, Unbound, WinnerIsBest,
       DuplicatesExact, StrongDefs, NonLocal, IsNamed, ctx, reading, extraction, binding
  <2>4. SearchInv' /\ FoundBest'
    BY <2>1, <2>2 DEF AddrInv, SearchInv, FoundBest, Counts, LocalFirst, IsNamed, search, ctx
  <2> QED
    BY <2>2, <2>3, <2>4 DEF AddrInv
<1> QED
  BY <1>1, <1>2, <1>3 DEF AddrNext, addrVars

LEMMA AddrHolds == AddrSpec => []AddrInv
<1>1. AddrInit => AddrInv
  <2> SUFFICES ASSUME AddrInit PROVE AddrInv
    OBVIOUS
  <2>1. LinkInv
    BY TypeReadInit, BindingInit DEF AddrInit, LinkInv
  <2>2. phase = "input" /\ lookup = 1 /\ found = [n \in Name |-> 0] /\ va = <<>>
    BY DEF AddrInit, Init
  <2>3. Len(symbols) = 0
    BY DEF AddrInit, Init
  <2> QED
    BY <2>1, <2>2, <2>3 DEF AddrInv, SearchInv, FoundBest, AddressOfWinner
<1> QED
  BY <1>1, AddrStep, PTL DEF AddrSpec

(* Layout's own symbol search gives every symbol, local or not, the        *)
(* address and the state of the definition that resolution chose for its   *)
(* name, except where a local definition that is the first symbol of the   *)
(* name shadows a choice that is weak, from a shared library or undefined; *)
(* then all symbols of the name get the address of that one.               *)
THEOREM AddressOfWinnerCorrect == AddrSpec => []AddressOfWinner
BY AddrHolds, PTL DEF AddrInv

=============================================================================
