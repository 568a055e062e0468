------------------------ MODULE NylinkResolveProofs ------------------------
(* Proofs about NylinkResolve, for every set of names, objects, archives    *)
(* and every number of inputs.                                              *)
EXTENDS NylinkResolve, TLAPS, SequenceTheorems

(* Positions count from one.                                                *)
LEMMA Positions ==
    /\ 0 \in Nat /\ 1 \in Nat /\ 1 \in Nat \ {0}
    /\ \A k \in Nat : k + 1 \in Nat
    /\ \A k \in Nat \ {0} : k + 1 \in Nat \ {0} /\ k \in Nat
OBVIOUS

(* The entries the archive reader queues are well-formed, for each kind of  *)
(* member (nylink_read_archive).                                            *)
LEMMA EntriesType ==
    ASSUME NEW m \in Nat
    PROVE  /\ \A o \in ObjectRec : ObjectEntries(m, o) \in Seq(PendingEntry)
           /\ \A es \in Seq(IndexEntry) : LinkerEntries(es) \in Seq(PendingEntry)
           /\ \A n \in Name : ImportEntries(m, n) \in Seq(PendingEntry)
<1>1. ASSUME NEW o \in ObjectRec
      PROVE  ObjectEntries(m, o) \in Seq(PendingEntry)
  <2>1. o.syms \in Seq(Symbol) /\ Len(o.syms) \in Nat
    BY <1>1, LenProperties DEF ObjectRec
  <2>a. \A i \in 1..Len(o.syms) : o.syms[i] \in Symbol
    BY <2>1, ElementOfSeq
  <2>2. \A i \in 1..Len(o.syms) : o.syms[i].name \in Name
    BY <2>a DEF Symbol
  <2>3. ObjectEntries(m, o) \in [1..Len(o.syms) -> PendingEntry]
    BY <2>1, <2>2 DEF ObjectEntries, PendingEntry
  <2> QED BY <2>1, <2>3, IsASeq
<1>2. ASSUME NEW es \in Seq(IndexEntry)
      PROVE  LinkerEntries(es) \in Seq(PendingEntry)
  <2>1. Len(es) \in Nat
    BY <1>2, LenProperties
  <2>a. \A i \in 1..Len(es) : es[i] \in IndexEntry
    BY <1>2, ElementOfSeq
  <2>2. \A i \in 1..Len(es) : es[i].name \in Name /\ es[i].member \in Nat
    BY <2>a DEF IndexEntry
  <2>3. LinkerEntries(es) \in [1..Len(es) -> PendingEntry]
    BY <2>1, <2>2 DEF LinkerEntries, PendingEntry
  <2> QED BY <2>1, <2>3, IsASeq
<1>3. ASSUME NEW n \in Name
      PROVE  ImportEntries(m, n) \in Seq(PendingEntry)
  BY <1>3, ResolveAssumption DEF ImportEntries, PendingEntry
<1> QED BY <1>1, <1>2, <1>3

(* nylink_add_object keeps the context well-formed.                         *)
LEMMA AddObjectType ==
    ASSUME TypeOK, NEW o \in ObjectRec, NEW from \in Nat \X Nat,
           nylink_add_object(o, from)
    PROVE  /\ objects' \in Seq([fmt : {"elf", "coff", "unknown"}, from : Nat \X Nat])
           /\ symbols' \in Seq(Symbol)
           /\ diags' \subseteq Diag
<1> DEFINE r == [fmt |-> IF FormatRefused(o) THEN "unknown" ELSE o.fmt, from |-> from]
<1>1. o.syms \in Seq(Symbol) /\ o.fmt \in {"elf", "coff", "unknown", "truncated"}
  BY DEF ObjectRec
<1>2. o.fmt # "truncated" => r \in [fmt : {"elf", "coff", "unknown"}, from : Nat \X Nat]
  BY <1>1
<1>3. objects' \in Seq([fmt : {"elf", "coff", "unknown"}, from : Nat \X Nat])
  BY <1>2, AppendProperties DEF nylink_add_object, TypeOK
<1>4. symbols' \in Seq(Symbol)
  BY <1>1, ConcatProperties DEF nylink_add_object, TypeOK
<1>5. diags' \subseteq Diag
  <2>1. [what |-> "input", name |-> ""] \in Diag
    BY DEF Diag
  <2> QED BY <2>1 DEF nylink_add_object, TypeOK
<1> QED BY <1>3, <1>4, <1>5

(* While an archive is read there is an archive to read.                    *)
ReadInv == phase = "archive" => archives # <<>>

(* An archive member of the last archive, as nylink_read_archive sees it.   *)
LEMMA LastFileType ==
    ASSUME TypeOK, ReadInv, phase = "archive"
    PROVE  /\ Len(archives) \in Nat \ {0}
           /\ archives[Len(archives)].index \in Seq(IndexEntry)
           /\ LastFile \in Seq(MemberRec)
           /\ \A m \in 1..Len(LastFile) : LastFile[m] \in MemberRec
<1>1. archives \in Seq([file : ArFile, index : Seq(IndexEntry)])
  BY DEF TypeOK
<1>2. Len(archives) \in Nat \ {0}
  <2>1. Len(archives) \in Nat
    BY <1>1, LenProperties
  <2>2. archives # <<>>
    BY DEF ReadInv
  <2>3. Len(archives) # 0
    BY <1>1, <2>2, EmptySeq
  <2> QED BY <2>1, <2>3
<1>3. archives[Len(archives)] \in [file : ArFile, index : Seq(IndexEntry)]
  <2>1. Len(archives) \in 1..Len(archives)
    BY <1>2
  <2> QED BY <1>1, <2>1, ElementOfSeq
<1>4. LastFile \in Seq(MemberRec) /\ archives[Len(archives)].index \in Seq(IndexEntry)
  BY <1>3, ResolveAssumption DEF LastFile
<1>5. \A m \in 1..Len(LastFile) : LastFile[m] \in MemberRec
  BY <1>4, ElementOfSeq
<1> QED BY <1>2, <1>4, <1>5

(* A member that an index entry offers is an object or an import of its     *)
(* archive (nylink_extract_needed_archive_members).                         *)
LEMMA OfferedType ==
    ASSUME TypeOK, NEW p \in IndexPos, NEW n \in Name, Offers(p, n)
    PROVE  LET a == p[1]
               m == archives[p[1]].index[p[2]].member
           IN /\ a \in Nat \ {0} /\ m \in Nat /\ a \in 1..Len(archives)
              /\ <<a, m>> \in Nat \X Nat
              /\ <<a, m>> \notin extracted
              /\ archives[a].file[m].kind = "object" =>
                     archives[a].file[m].obj \in ObjectRec
              /\ archives[a].file[m].kind = "import" =>
                     archives[a].file[m].sym \in Name
<1> DEFINE a == p[1]
           m == archives[p[1]].index[p[2]].member
<1>1. /\ archives \in Seq([file : ArFile, index : Seq(IndexEntry)])
      /\ Len(archives) \in Nat
  BY LenProperties DEF TypeOK
<1>2. a \in 1..Len(archives) /\ p[2] \in 1..Len(archives[a].index)
  BY DEF IndexPos
<1>3. archives[a] \in [file : ArFile, index : Seq(IndexEntry)]
  BY <1>1, <1>2, ElementOfSeq
<1>4. archives[a].file \in Seq(MemberRec) /\ archives[a].index \in Seq(IndexEntry)
  BY <1>3, ResolveAssumption
<1>5. archives[a].index[p[2]] \in IndexEntry
  BY <1>2, <1>4, ElementOfSeq
<1>6. m \in Nat
  BY <1>5 DEF IndexEntry
<1>7. m \in 1..Len(archives[a].file) /\ <<a, m>> \notin extracted
  BY DEF Offers, IsMember
<1>8. archives[a].file[m] \in MemberRec
  BY <1>4, <1>7, ElementOfSeq
<1>9. /\ archives[a].file[m].kind = "object" => archives[a].file[m].obj \in ObjectRec
      /\ archives[a].file[m].kind = "import" => archives[a].file[m].sym \in Name
  BY <1>8 DEF MemberRec
<1> HIDE DEF a, m
<1>10. \A k \in 1..Len(archives) : k \in Nat \ {0}
  BY <1>1
<1>11. a \in Nat \ {0} /\ <<a, m>> \in Nat \X Nat
  BY <1>2, <1>6, <1>10
<1> QED BY <1>2, <1>6, <1>7, <1>9, <1>11 DEF a, m

(* What is read of the symbol table is a symbol.                            *)
LEMMA SymbolType ==
    ASSUME TypeOK
    PROVE  /\ Len(symbols) \in Nat
           /\ \A i \in 1..Len(symbols) :
                 /\ symbols[i] \in Symbol
                 /\ symbols[i].name \in Name
<1>1. symbols \in Seq(Symbol)
  BY DEF TypeOK
<1>2. \A i \in 1..Len(symbols) : symbols[i] \in Symbol
  BY <1>1, ElementOfSeq
<1> QED BY <1>1, <1>2, LenProperties DEF Symbol

(* TypeOK and ReadInv together are inductive.                               *)
LEMMA TypeReadInit == Init => TypeOK /\ ReadInv
<1> SUFFICES ASSUME Init PROVE TypeOK /\ ReadInv
  OBVIOUS
<1>1. <<>> \in Seq([fmt : {"elf", "coff", "unknown"}, from : Nat \X Nat])
      /\ <<>> \in Seq(Symbol)
      /\ <<>> \in Seq([file : ArFile, index : Seq(IndexEntry)])
      /\ <<>> \in Seq(PendingEntry)
      /\ <<>> \in Seq(ResolvedSym)
  BY EmptySeq
<1>2. TypeOK
  BY <1>1, Positions, Zenon DEF Init, TypeOK, Phase
<1> QED BY <1>2 DEF Init, ReadInv

(* ... and every step of the linker keeps them.                             *)
LEMMA TypeReadStep == TypeOK /\ ReadInv /\ [Next]_vars => (TypeOK /\ ReadInv)'
<1> SUFFICES ASSUME TypeOK, ReadInv, [Next]_vars
             PROVE  TypeOK' /\ ReadInv'
  OBVIOUS
<1> USE SymbolType
<1>1. ASSUME NEW o \in Object, AddObject(o) PROVE TypeOK' /\ ReadInv'
  <2>1. o \in ObjectRec /\ <<0, 0>> \in Nat \X Nat
    BY ResolveAssumption
  <2>2. /\ objects' \in Seq([fmt : {"elf", "coff", "unknown"}, from : Nat \X Nat])
        /\ symbols' \in Seq(Symbol)
        /\ diags' \subseteq Diag
    BY <1>1, <2>1, AddObjectType DEF AddObject
  <2> QED BY <1>1, <2>2 DEF AddObject, TypeOK, ReadInv, Phase, reading, extraction, binding
<1>2. ASSUME NEW f \in ArFile, nylink_add_archive(f) PROVE TypeOK' /\ ReadInv'
  <2> DEFINE A == [file : ArFile, index : Seq(IndexEntry)]
             r == [file |-> f, index |-> <<>>]
  <2>1. <<>> \in Seq(IndexEntry) /\ <<>> \in Seq(PendingEntry)
    BY EmptySeq
  <2>2. r \in A
    BY <2>1
  <2>3. archives \in Seq(A) /\ archives' = Append(archives, r)
    BY <1>2 DEF nylink_add_archive, TypeOK
  <2> HIDE DEF A, r
  <2>4. archives' \in Seq(A) /\ Len(archives') = Len(archives) + 1
    BY <2>2, <2>3, AppendProperties
  <2>5. Len(archives) \in Nat
    BY <2>3, LenProperties
  <2>6. archives' # <<>>
    BY <2>4, <2>5, EmptySeq
  <2>7. archives' \in Seq([file : ArFile, index : Seq(IndexEntry)])
    BY <2>4 DEF A
  <2>8. TypeOK'
    BY <1>2, <2>1, <2>7, Positions, Zenon
       DEF nylink_add_archive, TypeOK, Phase, extraction, binding
  <2> QED BY <2>6, <2>8 DEF ReadInv
<1>3. ASSUME CallResolve PROVE TypeOK' /\ ReadInv'
  <2>1. phase' \in Phase /\ phase' # "archive"
    BY <1>3 DEF CallResolve, Phase
  <2> QED BY <1>3, <2>1, Positions, Zenon DEF CallResolve, TypeOK, ReadInv, reading, binding
<1>4. ASSUME nylink_read_archive PROVE TypeOK' /\ ReadInv'
  <2> DEFINE m == LastFile[member]
  <2>1. LastFile \in Seq(MemberRec) /\ \A i \in 1..Len(LastFile) : LastFile[i] \in MemberRec
    BY <1>4, LastFileType DEF nylink_read_archive
  <2>2. member \in 1..Len(LastFile) /\ member \in Nat
    BY <1>4, <2>1, LenProperties DEF nylink_read_archive, TypeOK
  <2>3. m \in MemberRec
    BY <2>1, <2>2
  <2>4. /\ m.kind \in {"linker", "object", "import", "corrupt"}
        /\ m.kind = "linker" => m.entries \in Seq(IndexEntry)
        /\ m.kind = "object" => m.obj \in ObjectRec
        /\ m.kind = "import" => m.sym \in Name
    BY <2>3 DEF MemberRec
  <2>5. m.kind # "corrupt"
    BY <1>4 DEF nylink_read_archive
  <2>6. <<>> \in Seq(PendingEntry)
    BY EmptySeq
  <2> HIDE DEF m
  <2>7. pending' \in Seq(PendingEntry)
    BY <1>4, <2>2, <2>4, <2>5, <2>6, EntriesType DEF nylink_read_archive, m
  <2>8. peImp' \subseteq Name /\ linker' \in BOOLEAN /\ member' \in Nat \ {0}
    BY <1>4, <2>2, <2>4 DEF nylink_read_archive, TypeOK, m
  <2> QED BY <1>4, <2>7, <2>8
          DEF nylink_read_archive, TypeOK, ReadInv, Phase, extraction, binding
<1>5. ASSUME ReadArchiveFails PROVE TypeOK' /\ ReadInv'
  <2>1. [what |-> "archive", name |-> ""] \in Diag
    BY DEF Diag
  <2> QED BY <1>5, <2>1 DEF ReadArchiveFails, TypeOK, ReadInv, Phase, reading, extraction, binding
<1>6. ASSUME add_archive_symbol PROVE TypeOK' /\ ReadInv'
  <2> DEFINE a == Len(archives)
             A == [file : ArFile, index : Seq(IndexEntry)]
             e == [name |-> Head(pending).name, member |-> Head(pending).member]
  <2>1. pending \in Seq(PendingEntry) /\ pending # <<>>
    BY <1>6 DEF add_archive_symbol, TypeOK
  <2>2. Head(pending) \in PendingEntry /\ Tail(pending) \in Seq(PendingEntry)
    BY <2>1, HeadTailProperties
  <2>3. e \in IndexEntry
    BY <2>2 DEF PendingEntry, IndexEntry
  <2>4. /\ a \in 1..Len(archives) /\ Len(archives) \in Nat
        /\ archives[a].index \in Seq(IndexEntry)
    BY <1>6, LastFileType DEF add_archive_symbol
  <2>5. Append(archives[a].index, e) \in Seq(IndexEntry)
    BY <2>3, <2>4, AppendProperties
  <2>6. archives \in Seq(A)
    BY DEF TypeOK
  <2>7. archives[a] \in A
    BY <2>4, <2>6, ElementOfSeq
  <2> HIDE DEF e, a
  <2>8. [archives[a] EXCEPT !.index = Append(@, e)] \in A
    BY <2>5, <2>7
  <2>9. archives' \in {archives, [archives EXCEPT ![a].index = Append(@, e)]}
    BY <1>6 DEF add_archive_symbol, a, e
  <2>10. [archives EXCEPT ![a].index = Append(@, e)]
           = [archives EXCEPT ![a] = [archives[a] EXCEPT !.index = Append(@, e)]]
    OBVIOUS
  <2> HIDE DEF A
  <2>11. [archives EXCEPT ![a].index = Append(@, e)] \in Seq(A)
    BY <2>4, <2>6, <2>8, <2>10, ExceptSeq
  <2>12. archives' \in Seq(A)
    BY <2>6, <2>9, <2>11
  <2>13. TypeOK'
    BY <1>6, <2>2, <2>12 DEF add_archive_symbol, TypeOK, extraction, binding, A
  <2>14. archives' # <<>>
    BY <2>4, <2>9, <2>6, <2>11, <2>12, EmptySeq, ExceptSeq
  <2> QED BY <2>13, <2>14 DEF ReadInv
<1>7. ASSUME ReadArchiveReturns PROVE TypeOK' /\ ReadInv'
  BY <1>7 DEF ReadArchiveReturns, TypeOK, ReadInv, Phase, ctx, reading, extraction, binding
<1>8. ASSUME ExtractFor PROVE TypeOK' /\ ReadInv'
  <2>1. scan \in 1..Len(symbols) /\ symbols[scan].name \in Name
    <3>1. scan \in Nat \ {0} /\ scan <= Len(symbols)
      BY <1>8, Zenon DEF ExtractFor, TypeOK
    <3> QED BY <3>1, SymbolType
  <2>2. PICK p \in Searched : /\ Found(p, symbols[scan].name)
                             /\ ExtractMember(p[1], archives[p[1]].index[p[2]].member)
    BY <1>8 DEF ExtractFor
  <2>3. p \in IndexPos /\ Offers(p, symbols[scan].name)
    BY <2>2 DEF Found, Searched
  <2> DEFINE a == p[1]
             m == archives[p[1]].index[p[2]].member
             mem == archives[a].file[m]
  <2>4. /\ <<a, m>> \in Nat \X Nat
        /\ mem.kind = "object" => mem.obj \in ObjectRec
        /\ mem.kind = "import" => mem.sym \in Name
    BY <2>1, <2>3, OfferedType
  <2>5. ExtractMember(a, m)
    BY <2>2
  <2> HIDE DEF a, m
  <2>6. /\ extracted' \subseteq Nat \X Nat
        /\ progress' \in BOOLEAN
        /\ scan' \in Nat \ {0}
        /\ phase' \in Phase /\ phase' # "archive"
    <3>1. extracted' \subseteq Nat \X Nat
      BY <2>4, <2>5 DEF ExtractMember, TypeOK
    <3>2. phase' \in Phase /\ phase' # "archive"
      BY <1>8, <2>5 DEF ExtractMember, ExtractFor, Phase
    <3>3. progress' \in BOOLEAN /\ scan' \in Nat \ {0}
      BY <2>5, Positions, Zenon DEF ExtractMember, TypeOK, extraction
    <3> QED BY <3>1, <3>2, <3>3
  <2>7. /\ objects' \in Seq([fmt : {"elf", "coff", "unknown"}, from : Nat \X Nat])
        /\ symbols' \in Seq(Symbol)
        /\ diags' \subseteq Diag
    <3>1. CASE mem.kind = "object"
      <4>1. nylink_add_object(mem.obj, <<a, m>>)
        BY <2>5, <3>1 DEF ExtractMember
      <4> QED BY <2>4, <3>1, <4>1, AddObjectType
    <3>2. CASE mem.kind # "object"
      <4>1. mem.kind = "import" /\ symbols' = symbols \o ImportSymbols(mem.sym)
            /\ UNCHANGED <<objects, diags>>
        BY <2>5, <3>2 DEF ExtractMember
      <4>2. ImportSymbols(mem.sym) \in Seq(Symbol)
        BY <2>4, <4>1, ResolveAssumption DEF ImportSymbols, Symbol, Binding, Place
      <4>3. symbols' \in Seq(Symbol)
        BY <4>1, <4>2, ConcatProperties DEF TypeOK
      <4> QED BY <4>1, <4>3 DEF TypeOK
    <3> QED BY <3>1, <3>2
  <2> QED BY <1>8, <2>6, <2>7 DEF ExtractFor, TypeOK, ReadInv, reading, binding
<1>9. ASSUME SkipSymbol PROVE TypeOK' /\ ReadInv'
  BY <1>9 DEF SkipSymbol, TypeOK, ReadInv, Phase, ctx, reading, binding
<1>10. ASSUME EndPass PROVE TypeOK' /\ ReadInv'
  <2>1. phase' \in Phase /\ phase' # "archive"
    BY <1>10 DEF EndPass, Phase
  <2> QED BY <1>10, <2>1, Positions, Zenon DEF EndPass, TypeOK, ReadInv, ctx, reading, binding
<1>11. ASSUME BindSymbol PROVE TypeOK' /\ ReadInv'
  <2>1. cursor \in 1..Len(symbols) /\ symbols[cursor].name \in Name
    BY <1>11 DEF BindSymbol, TypeOK
  <2>2. refs' \in [Name -> Nat]
    BY <1>11, <2>1 DEF BindSymbol, TypeOK
  <2>3. [what |-> "duplicate", name |-> symbols[cursor].name] \in Diag
    BY <2>1 DEF Diag
  <2>4. diags' \subseteq Diag
    BY <1>11, <2>3 DEF BindSymbol, TypeOK
  <2> QED BY <1>11, <2>2, <2>4, Positions, Zenon
          DEF BindSymbol, TypeOK, ReadInv, reading, extraction
<1>12. ASSUME BindDone PROVE TypeOK' /\ ReadInv'
  BY <1>12 DEF BindDone, TypeOK, ReadInv, Phase, ctx, reading, extraction, binding
<1>13. ASSUME CheckRefs PROVE TypeOK' /\ ReadInv'
  <2>1. \A n \in Name : [what |-> "undefined", name |-> n] \in Diag
    BY DEF Diag
  <2>2. diags' \subseteq Diag
    BY <1>13, <2>1 DEF CheckRefs, TypeOK
  <2>3. \A s : ResolvedState(s) \in ResolvedSym
    BY DEF ResolvedState, ResolvedSym, IsDefined, IsDynamic
  <2>4. [s \in 1..Len(symbols) |-> ResolvedState(s)] \in Seq(ResolvedSym)
    BY <2>3, IsASeq
  <2>5. resolved' \in Seq(ResolvedSym)
    BY <1>13, <2>4 DEF CheckRefs, TypeOK
  <2>6. phase' \in Phase /\ phase' # "archive"
    BY <1>13 DEF CheckRefs, Phase
  <2> QED BY <1>13, <2>2, <2>5, <2>6
          DEF CheckRefs, TypeOK, ReadInv, reading, extraction, binding
<1>14. ASSUME UNCHANGED vars PROVE TypeOK' /\ ReadInv'
  BY <1>14 DEF vars, TypeOK, ReadInv, ctx, reading, extraction, binding
<1> QED
  BY <1>1, <1>2, <1>3, <1>4, <1>5, <1>6, <1>7, <1>8, <1>9, <1>10, <1>11, <1>12,
     <1>13, <1>14 DEF Next, Linking, Finished

LEMMA TypeReadInv == Spec => [](TypeOK /\ ReadInv)
BY TypeReadInit, TypeReadStep, PTL DEF Spec

(* Every variable of the linker context keeps its type, whatever inputs and *)
(* archives are given.                                                      *)
THEOREM TypeCorrect == Spec => []TypeOK
BY TypeReadInv, PTL

-----------------------------------------------------------------------------
(* What a single extraction does.                                           *)
LEMMA ExtractStep ==
    ASSUME TypeOK, ExtractFor
    PROVE  \E a \in Nat \ {0}, m \in Nat :
             /\ <<a, m>> \notin extracted
             /\ extracted' = extracted \cup {<<a, m>>}
             /\ \/ objects' = objects
                \/ \E f : objects' = Append(objects, [fmt |-> f, from |-> <<a, m>>])
             /\ \/ phase' = "failed"
                \/ phase' = "scan" /\ progress' = TRUE
<1>1. scan \in 1..Len(symbols) /\ symbols[scan].name \in Name
  <2>1. scan \in Nat \ {0} /\ scan <= Len(symbols)
    BY Zenon DEF ExtractFor, TypeOK
  <2> QED BY <2>1, SymbolType
<1>2. PICK p \in Searched : /\ Found(p, symbols[scan].name)
                            /\ ExtractMember(p[1], archives[p[1]].index[p[2]].member)
  BY DEF ExtractFor
<1>3. p \in IndexPos /\ Offers(p, symbols[scan].name)
  BY <1>2 DEF Found, Searched
<1> DEFINE a == p[1]
           m == archives[p[1]].index[p[2]].member
<1>4. a \in Nat \ {0} /\ m \in Nat /\ <<a, m>> \notin extracted
  BY <1>1, <1>3, OfferedType
<1>5. ExtractMember(a, m)
  BY <1>2
<1> HIDE DEF a, m
<1>6. \/ objects' = objects
      \/ \E f : objects' = Append(objects, [fmt |-> f, from |-> <<a, m>>])
  BY <1>5 DEF ExtractMember, nylink_add_object
<1>7. \/ phase' = "failed"
      \/ phase' = "scan" /\ progress' = TRUE
  BY <1>5, Zenon DEF ExtractMember, ExtractFor
<1>8. extracted' = extracted \cup {<<a, m>>}
  BY <1>5 DEF ExtractMember
<1> QED BY <1>4, <1>6, <1>7, <1>8

(* An object that did not come from the command line has its member marked. *)
OnceInv ==
    \A i \in 1..Len(objects) :
        objects[i].from = <<0, 0>> \/ objects[i].from \in extracted

(* Appending an object keeps the origins distinct if the new origin is the  *)
(* command line or a member not marked before.                              *)
LEMMA AppendOnce ==
    ASSUME TypeOK, OnceInv, ExtractedOnce, NEW f, NEW from,
           objects' = Append(objects, [fmt |-> f, from |-> from]),
           extracted \subseteq extracted',
           from = <<0, 0>> \/ (from \notin extracted /\ from \in extracted')
    PROVE  (OnceInv /\ ExtractedOnce)'
<1> DEFINE r == [fmt |-> f, from |-> from]
           O == [fmt : {"elf", "coff", "unknown"}, from : Nat \X Nat]
<1>1. objects \in Seq(O) /\ Len(objects) \in Nat
  BY LenProperties DEF TypeOK
<1>2. Len(objects') = Len(objects) + 1 /\ objects'[Len(objects) + 1] = r
      /\ \A i \in 1..Len(objects) : objects'[i] = objects[i]
  BY <1>1
<1>3. \A i \in 1..Len(objects') : i \in 1..Len(objects) \/ i = Len(objects) + 1
  BY <1>1, <1>2
<1>4. OnceInv'
  BY <1>2, <1>3 DEF OnceInv
<1>5. ExtractedOnce'
  BY <1>2, <1>3 DEF ExtractedOnce, OnceInv
<1> QED BY <1>4, <1>5

(* No archive member is loaded twice: is_extracted is set before the object *)
(* is added, and never reset.                                               *)
THEOREM ExtractedOnceCorrect == Spec => []ExtractedOnce
<1>1. Init => OnceInv /\ ExtractedOnce
  BY DEF Init, OnceInv, ExtractedOnce
<1>2. TypeOK /\ OnceInv /\ ExtractedOnce /\ [Next]_vars => (OnceInv /\ ExtractedOnce)'
  <2> SUFFICES ASSUME TypeOK, OnceInv, ExtractedOnce, [Next]_vars
               PROVE  (OnceInv /\ ExtractedOnce)'
    OBVIOUS
  <2>1. ASSUME UNCHANGED <<objects, extracted>> PROVE (OnceInv /\ ExtractedOnce)'
    BY <2>1 DEF OnceInv, ExtractedOnce
  <2>2. ASSUME NEW o \in Object, AddObject(o) PROVE (OnceInv /\ ExtractedOnce)'
    <3>1. extracted' = extracted
      BY <2>2 DEF AddObject
    <3>2. CASE o.fmt = "truncated"
      BY <2>1, <2>2, <3>1, <3>2 DEF AddObject, nylink_add_object
    <3>3. CASE o.fmt # "truncated"
      <4>1. \E f : objects' = Append(objects, [fmt |-> f, from |-> <<0, 0>>])
        BY <2>2, <3>3 DEF AddObject, nylink_add_object
      <4> QED BY <3>1, <4>1, AppendOnce
    <3> QED BY <3>2, <3>3
  <2>3. ASSUME ExtractFor PROVE (OnceInv /\ ExtractedOnce)'
    <3>1. PICK a \in Nat \ {0}, m \in Nat :
             /\ <<a, m>> \notin extracted
             /\ extracted' = extracted \cup {<<a, m>>}
             /\ \/ objects' = objects
                \/ \E f : objects' = Append(objects, [fmt |-> f, from |-> <<a, m>>])
      BY <2>3, ExtractStep
    <3>2. CASE objects' = objects
      BY <3>1, <3>2 DEF OnceInv, ExtractedOnce
    <3>3. CASE objects' # objects
      BY <3>1, <3>3, AppendOnce
    <3> QED BY <3>2, <3>3
  <2> QED
    BY <2>1, <2>2, <2>3 DEF Next, Linking, Finished, vars, ctx, nylink_add_archive,
       CallResolve, nylink_read_archive, ReadArchiveFails, add_archive_symbol,
       ReadArchiveReturns, SkipSymbol, EndPass, BindSymbol, BindDone, CheckRefs
<1> QED BY <1>1, <1>2, TypeCorrect, PTL DEF Spec

-----------------------------------------------------------------------------
(* Symbol s needs nothing that an archive can still give.                   *)
Quiet(s) == Wanted(s) => \A p \in IndexPos : ~Offers(p, symbols[s].name)

(* A pass that has made no progress so far has found nothing for the        *)
(* symbols it has passed; after the loop this holds for all symbols.        *)
ScanInv ==
    /\ phase = "scan" /\ progress = FALSE =>
          \A s \in 1..Len(symbols) : s < scan => Quiet(s)
    /\ phase \in {"bind", "check", "resolved"} =>
          \A s \in 1..Len(symbols) : Quiet(s)

(* The extraction loop stops only at a fixpoint: no unextracted member is   *)
(* left for a symbol that still wants a definition.                         *)
THEOREM ExtractionCompleteCorrect == Spec => []ExtractionComplete
<1>1. Init => ScanInv
  BY DEF Init, ScanInv
<1>2. TypeOK /\ ScanInv /\ [Next]_vars => ScanInv'
  <2> SUFFICES ASSUME TypeOK, ScanInv, [Next]_vars PROVE ScanInv'
    OBVIOUS
  <2> DEFINE quiet == \A s \in 1..Len(symbols) : Quiet(s)
  <2>1. ASSUME phase' \in {"input", "archive", "failed"} PROVE ScanInv'
    BY <2>1 DEF ScanInv
  <2>2. ASSUME UNCHANGED <<symbols, archives, extracted>>, NEW s
        PROVE  Quiet(s)' <=> Quiet(s)
    BY <2>2 DEF Quiet, Wanted, IndexPos, Offers, IsMember
  <2>3. ASSUME UNCHANGED <<symbols, archives, extracted>>, quiet,
               phase' \in {"bind", "check", "resolved"}
        PROVE  ScanInv'
    BY <2>2, <2>3 DEF ScanInv
  <2>4. ASSUME CallResolve PROVE ScanInv'
    <3>1. CASE archives = <<>>
      <4>1. IndexPos = {}
        BY <3>1 DEF IndexPos
      <4>2. quiet
        BY <4>1 DEF Quiet
      <4> QED BY <2>3, <2>4, <3>1, <4>2 DEF CallResolve
    <3>2. CASE archives # <<>>
      <4>1. phase' = "scan" /\ scan' = 1 /\ symbols' = symbols
        BY <2>4, <3>2 DEF CallResolve
      <4> QED BY <4>1, SymbolType DEF ScanInv
    <3> QED BY <3>1, <3>2
  <2>5. ASSUME ExtractFor PROVE ScanInv'
    <3>1. \/ phase' = "failed"
          \/ phase' = "scan" /\ progress' = TRUE
      BY <2>5, ExtractStep
    <3> QED BY <3>1 DEF ScanInv
  <2>6. ASSUME SkipSymbol PROVE ScanInv'
    <3>1. /\ phase = "scan" /\ phase' = "scan" /\ progress' = progress
          /\ scan' = scan + 1 /\ UNCHANGED <<symbols, archives, extracted>>
          /\ Wanted(scan) => \A p \in Searched : ~Offers(p, symbols[scan].name)
      BY <2>6 DEF SkipSymbol, ctx
    <3>2. SUFFICES ASSUME progress = FALSE, NEW s \in 1..Len(symbols), s < scan + 1
                   PROVE  Quiet(s)
      BY <2>2, <3>1 DEF ScanInv
    <3>3. scan \in Nat
      BY DEF TypeOK
    <3>4. CASE s < scan
      BY <3>1, <3>2, <3>4 DEF ScanInv
    <3>5. CASE s = scan
      BY <3>1, <3>2, <3>5 DEF Quiet, Searched
    <3> QED BY <3>2, <3>3, <3>4, <3>5
  <2>7. ASSUME EndPass PROVE ScanInv'
    <3>1. /\ phase = "scan" /\ scan > Len(symbols) /\ scan' = 1
          /\ UNCHANGED <<symbols, archives, extracted>>
      BY <2>7 DEF EndPass, ctx
    <3>2. CASE progress = TRUE
      <4>1. phase' = "scan"
        BY <2>7, <3>2 DEF EndPass
      <4> QED BY <3>1, <4>1, SymbolType DEF ScanInv
    <3>3. CASE progress = FALSE
      <4>1. scan \in Nat
        BY DEF TypeOK
      <4>2. quiet
        BY <3>1, <3>3, <4>1, SymbolType DEF ScanInv
      <4>3. phase' = "bind"
        BY <2>7, <3>3 DEF EndPass
      <4> QED BY <2>3, <3>1, <4>2, <4>3
    <3> QED BY <3>2, <3>3 DEF TypeOK
  <2>8. ASSUME BindSymbol \/ BindDone \/ CheckRefs PROVE ScanInv'
    <3>1. /\ phase \in {"bind", "check"} /\ UNCHANGED <<symbols, archives, extracted>>
          /\ phase' \in {"bind", "check", "resolved", "failed"}
      BY <2>8 DEF BindSymbol, BindDone, CheckRefs, ctx
    <3>2. quiet
      BY <3>1 DEF ScanInv
    <3> QED BY <2>1, <2>3, <3>1, <3>2
  <2>9. ASSUME UNCHANGED vars PROVE ScanInv'
    <3>1. UNCHANGED <<phase, scan, progress, symbols, archives, extracted>>
      BY <2>9 DEF vars, ctx, extraction
    <3> QED BY <2>2, <3>1 DEF ScanInv
  <2>10. ASSUME \/ \E o \in Object : AddObject(o)
                \/ \E f \in ArFile : nylink_add_archive(f)
                \/ nylink_read_archive \/ ReadArchiveFails \/ add_archive_symbol
                \/ ReadArchiveReturns
         PROVE  ScanInv'
    BY <2>1, <2>10 DEF AddObject, nylink_add_archive, nylink_read_archive,
       ReadArchiveFails, add_archive_symbol, ReadArchiveReturns
  <2> QED
    BY <2>4, <2>5, <2>6, <2>7, <2>8, <2>9, <2>10 DEF Next, Linking, Finished
<1>3. ScanInv => ExtractionComplete
  BY DEF ScanInv, ExtractionComplete, Quiet
<1> QED BY <1>1, <1>2, <1>3, TypeCorrect, PTL DEF Spec

-----------------------------------------------------------------------------
(* The binding loop has not started, and has reported nothing.              *)
Unbound ==
    /\ cursor = 1
    /\ refs = [n \in Name |-> 0]
    /\ \A n \in Name : [what |-> "duplicate", name |-> n] \notin diags

(* The table and the reports of the binding loop are about a symbol table   *)
(* that no longer grows.                                                    *)
BindInv ==
    /\ phase \in {"input", "archive", "scan"} => Unbound
    /\ phase \in {"check", "resolved"} => cursor > Len(symbols)

(* With nothing bound the two loop invariants hold for any symbol table.    *)
LEMMA UnboundHolds ==
    ASSUME TypeOK, Unbound
    PROVE  WinnerIsBest /\ DuplicatesExact
<1>1. \A j \in 1..Len(symbols) : ~(j < cursor)
  BY SymbolType DEF Unbound
<1>2. WinnerIsBest
  BY <1>1 DEF Unbound, WinnerIsBest
<1>3. DuplicatesExact
  BY <1>1 DEF Unbound, DuplicatesExact, StrongDefs
<1> QED BY <1>2, <1>3

(* Rank says which of two symbols replaces the other, and Duplicates that   *)
(* both have the highest rank.                                              *)
LEMMA RankFacts ==
    ASSUME NEW s \in Symbol, NEW c \in Symbol,
           s.bind # "local", c.bind # "local"
    PROVE  /\ Rank(s) \in 0..3 /\ Rank(c) \in 0..3
           /\ Replaces(s, c) <=> Rank(c) < Rank(s)
           /\ Duplicates(s, c) <=> Rank(s) = 3 /\ Rank(c) = 3
           /\ IsStrongDef(s) <=> Rank(s) = 3
           /\ IsDefined(s) <=> Rank(s) > 0
<1>1. /\ s.at \in Place /\ c.at \in Place
      /\ s.bind \in {"global", "weak"} /\ c.bind \in {"global", "weak"}
  BY DEF Symbol, Binding
<1> QED BY <1>1 DEF Rank, Replaces, Duplicates, IsStrongDef, IsStatic, IsDefined,
               IsDynamic, Place

(* One turn of the binding loop keeps the table the best so far.            *)
LEMMA BindStep ==
    ASSUME TypeOK, WinnerIsBest, DuplicatesExact, BindSymbol
    PROVE  WinnerIsBest' /\ DuplicatesExact'
<1> DEFINE s == symbols[cursor]
           r == refs[s.name]
<1>1. /\ cursor \in Nat /\ Len(symbols) \in Nat /\ cursor \in 1..Len(symbols)
      /\ s \in Symbol /\ s.name \in Name
      /\ cursor' = cursor + 1 /\ symbols' = symbols
      /\ refs \in [Name -> Nat]
  <2>1. cursor \in Nat \ {0} /\ cursor <= Len(symbols)
    BY Zenon DEF BindSymbol, TypeOK
  <2>2. cursor' = cursor + 1 /\ symbols' = symbols /\ refs \in [Name -> Nat]
    BY Zenon DEF BindSymbol, TypeOK
  <2>3. /\ Len(symbols) \in Nat
        /\ \A i \in 1..Len(symbols) : symbols[i] \in Symbol /\ symbols[i].name \in Name
    BY SymbolType
  <2>4. cursor \in Nat /\ cursor \in 1..Len(symbols)
    BY <2>1, <2>3
  <2> QED BY <2>2, <2>3, <2>4
<1>2. \A j \in 1..Len(symbols) : j < cursor' <=> j < cursor \/ j = cursor
  BY <1>1
<1>3. \A n \in Name : refs[n] # 0 =>
         refs[n] \in 1..Len(symbols) /\ refs[n] < cursor /\ NonLocal(refs[n], n)
  BY <1>1 DEF WinnerIsBest
<1>4. \A i, j \in 1..Len(symbols), n \in Name : NonLocal(i, n) /\ NonLocal(j, n) =>
         /\ Rank(symbols[i]) \in 0..3
         /\ Replaces(symbols[i], symbols[j]) <=> Rank(symbols[j]) < Rank(symbols[i])
         /\ Duplicates(symbols[i], symbols[j]) <=>
               Rank(symbols[i]) = 3 /\ Rank(symbols[j]) = 3
         /\ IsStrongDef(symbols[i]) <=> Rank(symbols[i]) = 3
  BY RankFacts, SymbolType DEF NonLocal
<1>5. \A i \in 1..Len(symbols) : IsStrongDef(symbols[i]) => symbols[i].bind # "local"
  BY DEF IsStrongDef
<1>6. CASE s.bind = "local"
  <2>1. refs' = refs /\ diags' = diags
    BY <1>6 DEF BindSymbol
  <2>2. \A n \in Name : ~NonLocal(cursor, n) /\ ~IsStrongDef(s)
    BY <1>1, <1>5, <1>6 DEF NonLocal
  <2>3. WinnerIsBest'
    BY <1>1, <1>2, <1>3, <2>1, <2>2 DEF WinnerIsBest, NonLocal, IsNamed
  <2>4. \A n \in Name : StrongDefs(n, cursor)' = StrongDefs(n, cursor)
    BY <1>1, <1>2, <2>2 DEF StrongDefs, IsNamed
  <2> QED BY <2>1, <2>3, <2>4 DEF DuplicatesExact
<1>7. CASE s.bind # "local"
  <2>1. NonLocal(cursor, s.name) /\ \A n \in Name : NonLocal(cursor, n) => n = s.name
    BY <1>1, <1>7 DEF NonLocal, IsNamed
  <2>2. \A n \in Name : n # s.name => refs'[n] = refs[n]
    BY <1>1, <1>7 DEF BindSymbol
  <2>3. refs'[s.name] = IF r = 0 \/ Replaces(s, symbols[r]) THEN cursor ELSE r
    BY <1>1, <1>7 DEF BindSymbol
  <2>4. refs' \in [Name -> Nat]
    BY <1>1, <1>7 DEF BindSymbol
  <2>5. WinnerIsBest'
    <3> SUFFICES ASSUME NEW n \in Name
        PROVE /\ refs'[n] # 0 => /\ refs'[n] \in 1..cursor
                                 /\ refs'[n] <= Len(symbols)
                                 /\ NonLocal(refs'[n], n)
              /\ \A j \in 1..Len(symbols) : j < cursor + 1 /\ NonLocal(j, n) =>
                    /\ refs'[n] # 0
                    /\ Rank(symbols[j]) <= Rank(symbols[refs'[n]])
                    /\ Rank(symbols[j]) = Rank(symbols[refs'[n]]) => refs'[n] <= j
      BY <1>1 DEF WinnerIsBest, NonLocal, IsNamed
    <3>1. CASE n # s.name
      BY <1>1, <1>2, <1>3, <2>1, <2>2, <3>1 DEF WinnerIsBest
    <3>2. CASE n = s.name
      <4>1. CASE r = 0
        <5>1. \A j \in 1..Len(symbols) : j < cursor => ~NonLocal(j, n)
          BY <3>2, <4>1 DEF WinnerIsBest
        <5> QED BY <1>1, <1>2, <1>4, <2>1, <2>3, <3>2, <4>1, <5>1
      <4>2. CASE r # 0
        <5>1. /\ r \in 1..Len(symbols) /\ r < cursor /\ NonLocal(r, n)
              /\ \A j \in 1..Len(symbols) : j < cursor /\ NonLocal(j, n) =>
                    /\ Rank(symbols[j]) <= Rank(symbols[r])
                    /\ Rank(symbols[j]) = Rank(symbols[r]) => r <= j
          BY <1>3, <3>2, <4>2 DEF WinnerIsBest
        <5>2. \A j \in 1..Len(symbols) : NonLocal(j, n) => Rank(symbols[j]) \in 0..3
          BY <1>4
        <5>3. Replaces(s, symbols[r]) <=> Rank(symbols[r]) < Rank(s)
          BY <1>1, <1>4, <2>1, <3>2, <5>1
        <5>4. CASE Replaces(s, symbols[r])
          <6>1. refs'[n] = cursor /\ NonLocal(cursor, n) /\ Rank(s) \in 0..3
            BY <1>1, <2>1, <2>3, <3>2, <5>2, <5>4
          <6>2. ASSUME NEW j \in 1..Len(symbols), j < cursor, NonLocal(j, n)
                PROVE  Rank(symbols[j]) < Rank(s)
            <7>1. Rank(symbols[j]) <= Rank(symbols[r])
              BY <5>1, <6>2
            <7>2. Rank(symbols[j]) \in 0..3 /\ Rank(symbols[r]) \in 0..3
              BY <5>1, <5>2, <6>2
            <7> QED BY <5>3, <5>4, <6>1, <7>1, <7>2
          <6>3. \A j \in 1..Len(symbols) : j < cursor + 1 => j < cursor \/ j = cursor
            BY <1>1
          <6> HIDE DEF s, r
          <6>4. s = symbols[cursor]
            BY DEF s
          <6>5. ASSUME NEW j \in 1..Len(symbols), j < cursor + 1, NonLocal(j, n)
                PROVE  /\ Rank(symbols[j]) <= Rank(symbols[cursor])
                       /\ Rank(symbols[j]) = Rank(symbols[cursor]) => cursor <= j
            <7>1. CASE j = cursor
              BY <1>1, <6>1, <6>4, <7>1
            <7>2. CASE j < cursor
              BY <5>2, <6>1, <6>2, <6>4, <6>5, <7>2
            <7> QED BY <6>3, <6>5, <7>1, <7>2
          <6> QED BY <1>1, <6>1, <6>5
        <5>5. CASE ~Replaces(s, symbols[r])
          BY <1>1, <1>2, <2>1, <2>3, <3>2, <4>2, <5>1, <5>2, <5>3, <5>5
        <5> QED BY <5>4, <5>5
      <4> QED BY <4>1, <4>2
    <3> QED BY <3>1, <3>2
  <2>6. DuplicatesExact'
    <3>1. \A n \in Name : n # s.name =>
             StrongDefs(n, cursor)' = StrongDefs(n, cursor)
      BY <1>1, <1>2 DEF StrongDefs, IsNamed
    <3>2. \A n \in Name : n = s.name =>
             StrongDefs(n, cursor)' =
               StrongDefs(n, cursor) \cup (IF IsStrongDef(s) THEN {cursor} ELSE {})
      <4> SUFFICES ASSUME NEW n \in Name, n = s.name
                   PROVE  StrongDefs(n, cursor)' =
                            StrongDefs(n, cursor) \cup (IF IsStrongDef(s) THEN {cursor} ELSE {})
        OBVIOUS
      <4>1. StrongDefs(n, cursor)' =
              {i \in 1..Len(symbols) : /\ i < cursor \/ i = cursor
                                       /\ IsNamed(i, n) /\ IsStrongDef(symbols[i])}
        BY <1>1, <1>2 DEF StrongDefs, IsNamed
      <4>2. IsNamed(cursor, n) /\ symbols[cursor] = s
        BY DEF IsNamed
      <4> HIDE DEF s
      <4>3. CASE IsStrongDef(s)
        BY <1>1, <4>1, <4>2, <4>3 DEF StrongDefs
      <4>4. CASE ~IsStrongDef(s)
        BY <1>1, <4>1, <4>2, <4>4 DEF StrongDefs
      <4> QED BY <4>3, <4>4
    <3>3. cursor \notin StrongDefs(s.name, cursor)
      BY <1>1 DEF StrongDefs
    <3>4. IsStrongDef(s) =>
             (StrongDefs(s.name, cursor) # {} <=> r # 0 /\ Duplicates(s, symbols[r]))
      <4>1. ASSUME IsStrongDef(s), NEW i \in StrongDefs(s.name, cursor)
            PROVE  r # 0 /\ Duplicates(s, symbols[r])
        <5>1. /\ i \in 1..Len(symbols) /\ i < cursor /\ NonLocal(i, s.name)
              /\ IsStrongDef(symbols[i])
          BY <1>5, <4>1 DEF StrongDefs, NonLocal
        <5>2. r # 0 /\ Rank(symbols[i]) <= Rank(symbols[r])
          BY <1>1, <5>1 DEF WinnerIsBest
        <5>3. r \in 1..Len(symbols) /\ NonLocal(r, s.name)
          BY <1>1, <1>3, <5>2
        <5>4. Rank(symbols[i]) = 3 /\ Rank(symbols[r]) \in 0..3 /\ Rank(s) = 3
          BY <1>1, <1>4, <2>1, <4>1, <5>1, <5>3
        <5> QED BY <1>1, <1>4, <2>1, <5>2, <5>3, <5>4
      <4>2. ASSUME r # 0, Duplicates(s, symbols[r])
            PROVE  r \in StrongDefs(s.name, cursor)
        BY <1>1, <1>3, <4>2 DEF StrongDefs, Duplicates, IsStrongDef, NonLocal
      <4> QED BY <4>1, <4>2
    <3>5. Duplicates(s, symbols[r]) => IsStrongDef(s)
      BY DEF Duplicates, IsStrongDef
    <3>6. \A n \in Name : [what |-> "duplicate", name |-> n] \in diags' <=>
             \/ [what |-> "duplicate", name |-> n] \in diags
             \/ n = s.name /\ r # 0 /\ Duplicates(s, symbols[r])
      BY <1>1, <1>7 DEF BindSymbol
    <3> HIDE DEF s, r
    <3> SUFFICES ASSUME NEW n \in Name
                 PROVE  [what |-> "duplicate", name |-> n] \in diags' <=>
                           \E i, j \in StrongDefs(n, cursor)' : i # j
      BY DEF DuplicatesExact
    <3>7. [what |-> "duplicate", name |-> n] \in diags <=>
             \E i, j \in StrongDefs(n, cursor) : i # j
      BY DEF DuplicatesExact
    <3>8. CASE n # s.name
      BY <3>1, <3>6, <3>7, <3>8
    <3>9. CASE n = s.name
      <4> DEFINE Z == StrongDefs(n, cursor)
                 Zp == StrongDefs(n, cursor)'
                 D == [what |-> "duplicate", name |-> n]
      <4>1. Zp = Z \cup (IF IsStrongDef(s) THEN {cursor} ELSE {}) /\ cursor \notin Z
        BY <3>2, <3>3, <3>9
      <4>2. D \in diags' <=> D \in diags \/ (IsStrongDef(s) /\ Z # {})
        <5>1. D \in diags' <=> D \in diags \/ (r # 0 /\ Duplicates(s, symbols[r]))
          BY <3>6, <3>9
        <5>2. IsStrongDef(s) => (Z # {} <=> r # 0 /\ Duplicates(s, symbols[r]))
          BY <3>4, <3>9
        <5> HIDE DEF D, Z
        <5> QED BY <3>5, <5>1, <5>2
      <4>3. D \in diags <=> \E i, j \in Z : i # j
        BY <3>7
      <4> HIDE DEF Z, Zp, D
      <4>4. D \in diags' <=> \E i, j \in Zp : i # j
        <5>1. CASE IsStrongDef(s)
          BY <4>1, <4>2, <4>3, <5>1
        <5>2. CASE ~IsStrongDef(s)
          BY <4>1, <4>2, <4>3, <5>2
        <5> QED BY <5>1, <5>2
      <4> QED BY <4>4 DEF Zp, D
    <3> QED BY <3>8, <3>9
  <2> QED BY <2>5, <2>6
<1> QED BY <1>6, <1>7

(* WinnerIsBest and DuplicatesExact hold throughout, with BindInv.          *)
LEMMA BindingInit == Init => BindInv /\ WinnerIsBest /\ DuplicatesExact
<1> DEFINE Inv == BindInv /\ WinnerIsBest /\ DuplicatesExact
<1> SUFFICES ASSUME Init PROVE Inv
  OBVIOUS
<1>1. Unbound
  BY Zenon DEF Init, Unbound
<1>2. Len(symbols) = 0 /\ phase = "input"
  BY DEF Init
<1>3. BindInv
  BY <1>1, <1>2 DEF BindInv
<1>4. WinnerIsBest
  BY <1>1, <1>2 DEF WinnerIsBest, Unbound
<1>5. DuplicatesExact
  <2>1. \A n \in Name : StrongDefs(n, cursor) = {}
    BY <1>2 DEF StrongDefs
  <2> QED BY <1>1, <2>1 DEF DuplicatesExact, Unbound
<1> QED BY <1>3, <1>4, <1>5

(* ... and every step of the linker keeps the three.                        *)
LEMMA BindingStep ==
    TypeOK /\ TypeOK' /\ BindInv /\ WinnerIsBest /\ DuplicatesExact /\ [Next]_vars =>
        (BindInv /\ WinnerIsBest /\ DuplicatesExact)'
<1> DEFINE Inv == BindInv /\ WinnerIsBest /\ DuplicatesExact
<1> SUFFICES ASSUME TypeOK, TypeOK', Inv, [Next]_vars PROVE Inv'
  OBVIOUS
<1>1. ASSUME Unbound', phase' \notin {"check", "resolved"} PROVE Inv'
  <2>1. (WinnerIsBest /\ DuplicatesExact)'
    BY <1>1, UnboundHolds, PTL
  <2> QED BY <1>1, <2>1 DEF BindInv
<1>2. ASSUME Unbound, UNCHANGED <<cursor, refs>>,
             \A n \in Name : [what |-> "duplicate", name |-> n] \notin diags'
      PROVE  Unbound'
  BY <1>2 DEF Unbound
<1>3. ASSUME \E o \in Object : AddObject(o) PROVE Inv'
  <2>1. PICK o \in Object : AddObject(o)
    BY <1>3
  <2>2. phase = "input" /\ phase' \in {"input", "failed"} /\ UNCHANGED <<cursor, refs>>
    BY <2>1 DEF AddObject, binding
  <2>3. Unbound
    BY <2>2 DEF BindInv
  <2>4. \A n \in Name : [what |-> "duplicate", name |-> n] \notin diags'
    BY <2>1, <2>3 DEF AddObject, nylink_add_object, Unbound
  <2> QED BY <1>1, <1>2, <2>2, <2>3, <2>4
<1>4. ASSUME \/ \E f \in ArFile : nylink_add_archive(f)
             \/ nylink_read_archive \/ add_archive_symbol \/ ReadArchiveReturns
             \/ SkipSymbol
      PROVE  Inv'
  <2>1. /\ phase \in {"input", "archive", "scan"} /\ phase' \in {"input", "archive", "scan"}
        /\ UNCHANGED <<cursor, refs, diags>>
    BY <1>4 DEF nylink_add_archive, nylink_read_archive, add_archive_symbol,
       ReadArchiveReturns, SkipSymbol, binding, ctx
  <2>2. Unbound
    BY <2>1 DEF BindInv
  <2>3. Unbound'
    BY <2>1, <2>2 DEF Unbound
  <2> QED BY <1>1, <2>1, <2>3
<1>5. ASSUME ReadArchiveFails PROVE Inv'
  <2>1. phase = "archive" /\ phase' = "failed" /\ UNCHANGED <<cursor, refs>>
        /\ diags' = diags \cup {[what |-> "archive", name |-> ""]}
    BY <1>5 DEF ReadArchiveFails, binding
  <2>2. Unbound
    BY <2>1 DEF BindInv
  <2>3. \A n \in Name : [what |-> "duplicate", name |-> n] \notin diags'
    BY <2>1, <2>2 DEF Unbound
  <2> QED BY <1>1, <1>2, <2>1, <2>2, <2>3
<1>6. ASSUME CallResolve \/ EndPass PROVE Inv'
  <2>1. /\ phase \in {"input", "scan"} /\ phase' \in {"bind", "scan"}
        /\ UNCHANGED <<cursor, refs, diags>>
    BY <1>6 DEF CallResolve, EndPass, binding, ctx
  <2>2. Unbound
    BY <2>1 DEF BindInv
  <2>3. Unbound'
    BY <2>1, <2>2 DEF Unbound
  <2> QED BY <1>1, <2>1, <2>3
<1>7. ASSUME ExtractFor PROVE Inv'
  <2>1. phase = "scan" /\ phase' \in {"scan", "failed"} /\ UNCHANGED <<cursor, refs>>
    <3>1. phase' \in {"scan", "failed"}
      BY <1>7, ExtractStep
    <3> QED BY <1>7, <3>1 DEF ExtractFor, binding
  <2>2. Unbound
    BY <2>1 DEF BindInv
  <2>3. \A n \in Name : [what |-> "duplicate", name |-> n] \notin diags'
    <3>1. diags' \in {diags, diags \cup {[what |-> "input", name |-> ""]}}
      BY <1>7 DEF ExtractFor, ExtractMember, nylink_add_object
    <3>2. \A n \in Name : [what |-> "duplicate", name |-> n] # [what |-> "input", name |-> ""]
      OBVIOUS
    <3> QED BY <2>2, <3>1, <3>2 DEF Unbound
  <2> QED BY <1>1, <1>2, <2>1, <2>2, <2>3
<1>8. ASSUME BindSymbol PROVE Inv'
  <2>1. phase' = "bind"
    BY <1>8 DEF BindSymbol
  <2> QED BY <1>8, <2>1, BindStep DEF BindInv
<1>9. ASSUME BindDone \/ CheckRefs PROVE Inv'
  <2>1. /\ UNCHANGED <<symbols, refs, cursor>>
        /\ phase' \in {"check", "resolved", "failed"}
    BY <1>9 DEF BindDone, CheckRefs, ctx, binding
  <2>2. cursor > Len(symbols)
    BY <1>9 DEF BindDone, CheckRefs, BindInv
  <2>3. BindInv'
    BY <2>1, <2>2 DEF BindInv
  <2>4. WinnerIsBest'
    BY <2>1 DEF WinnerIsBest, NonLocal, IsNamed
  <2>5. \A n \in Name : [what |-> "duplicate", name |-> n] \in diags' <=>
                        [what |-> "duplicate", name |-> n] \in diags
    BY <1>9 DEF BindDone, CheckRefs, ctx
  <2>6. DuplicatesExact'
    <3>1. \A n \in Name : StrongDefs(n, cursor)' = StrongDefs(n, cursor)
      BY <2>1 DEF StrongDefs, IsNamed
    <3> SUFFICES ASSUME NEW n \in Name
                 PROVE  [what |-> "duplicate", name |-> n] \in diags' <=>
                           \E i, j \in StrongDefs(n, cursor)' : i # j
      BY DEF DuplicatesExact
    <3>2. [what |-> "duplicate", name |-> n] \in diags <=>
             \E i, j \in StrongDefs(n, cursor) : i # j
      BY DEF DuplicatesExact
    <3>3. StrongDefs(n, cursor)' = StrongDefs(n, cursor)
      BY <3>1
    <3> QED BY <2>5, <3>2, <3>3
  <2> QED BY <2>3, <2>4, <2>6
<1>10. ASSUME UNCHANGED vars PROVE Inv'
  BY <1>10 DEF vars, ctx, binding, BindInv, Unbound, WinnerIsBest, NonLocal, IsNamed,
     DuplicatesExact, StrongDefs
<1> QED
  BY <1>3, <1>4, <1>5, <1>6, <1>7, <1>8, <1>9, <1>10 DEF Next, Linking, Finished

LEMMA BindingCorrect == Spec => [](BindInv /\ WinnerIsBest /\ DuplicatesExact)
BY BindingInit, BindingStep, TypeCorrect, PTL DEF Spec

(* Each name is bound to the first of the best definitions read.            *)
THEOREM WinnerIsBestCorrect == Spec => []WinnerIsBest
BY BindingCorrect, PTL

(* Duplicate definitions are reported, and only those.                      *)
THEOREM DuplicatesExactCorrect == Spec => []DuplicatesExact
BY BindingCorrect, PTL

-----------------------------------------------------------------------------
(* What the check of the undefined entries leaves behind.                   *)
CheckedInv == phase = "resolved" => \A n \in Name : ~Unresolved(n)

(* A name whose first reference is strong is defined in every executable    *)
(* that resolves.                                                           *)
THEOREM ResolvedIsDefinedCorrect == Spec => []ResolvedIsDefined
<1>1. Init => CheckedInv
  BY DEF Init, CheckedInv
<1>2. CheckedInv /\ [Next]_vars => CheckedInv'
  <2> SUFFICES ASSUME CheckedInv, [Next]_vars PROVE CheckedInv'
    OBVIOUS
  <2>1. ASSUME phase' # "resolved" PROVE CheckedInv'
    BY <2>1 DEF CheckedInv
  <2>2. ASSUME CheckRefs PROVE CheckedInv'
    <3>1. UNCHANGED <<symbols, refs, shared>>
      BY <2>2 DEF CheckRefs, binding
    <3>2. phase' = "resolved" => {n \in Name : Unresolved(n)} = {}
      BY <2>2 DEF CheckRefs
    <3> QED BY <3>1, <3>2 DEF CheckedInv, Unresolved
  <2>3. ASSUME UNCHANGED vars PROVE CheckedInv'
    BY <2>3 DEF vars, ctx, binding, CheckedInv, Unresolved
  <2>4. ASSUME Next, ~CheckRefs, ~UNCHANGED vars PROVE phase' # "resolved"
    <3>1. CASE ExtractFor
      BY <3>1 DEF ExtractFor, ExtractMember
    <3> QED
      BY <2>4, <3>1 DEF Next, Linking, Finished, AddObject, nylink_add_archive, CallResolve,
         nylink_read_archive, ReadArchiveFails, add_archive_symbol, ReadArchiveReturns,
         SkipSymbol, EndPass, BindSymbol, BindDone
  <2> QED BY <2>1, <2>2, <2>3, <2>4
<1>3. TypeOK /\ BindInv /\ WinnerIsBest /\ CheckedInv => ResolvedIsDefined
  <2> SUFFICES ASSUME TypeOK, BindInv, WinnerIsBest, CheckedInv, phase = "resolved", ~shared,
                      NEW s \in 1..Len(symbols), symbols[s].bind = "global",
                      \A j \in 1..(s-1) : ~NonLocal(j, symbols[s].name)
               PROVE  \E d \in 1..Len(symbols) :
                         NonLocal(d, symbols[s].name) /\ IsDefined(symbols[d])
    BY DEF ResolvedIsDefined
  <2> DEFINE n == symbols[s].name
             w == refs[n]
  <2>1. n \in Name /\ Len(symbols) \in Nat /\ cursor \in Nat /\ refs \in [Name -> Nat]
    BY SymbolType DEF TypeOK
  <2>2. s < cursor /\ NonLocal(s, n)
    BY <2>1 DEF BindInv, NonLocal, IsNamed
  <2>3. /\ w # 0 /\ w \in 1..Len(symbols) /\ NonLocal(w, n)
        /\ Rank(symbols[s]) = Rank(symbols[w]) => w <= s
        /\ Rank(symbols[s]) <= Rank(symbols[w])
    BY <2>1, <2>2 DEF WinnerIsBest
  <2>4. CASE IsDefined(symbols[w])
    BY <2>3, <2>4
  <2>5. CASE ~IsDefined(symbols[w])
    <3>1. symbols[w].bind = "weak"
      BY <2>1, <2>3, <2>5 DEF CheckedInv, Unresolved
    <3>2. symbols[w] \in Symbol /\ symbols[s] \in Symbol
      BY <2>3, SymbolType
    <3>3. Rank(symbols[w]) = 0 /\ Rank(symbols[s]) \in 0..3
      BY <2>2, <2>3, <2>5, <3>2, RankFacts DEF NonLocal
    <3>4. w <= s
      BY <2>3, <3>3
    <3>5. w # s
      BY <3>1
    <3>6. w \in 1..(s-1)
      BY <2>1, <2>3, <3>4, <3>5
    <3> QED BY <2>3, <3>6
  <2> QED BY <2>4, <2>5
<1> QED BY <1>1, <1>2, <1>3, TypeCorrect, BindingCorrect, PTL DEF Spec

-----------------------------------------------------------------------------
(* Nothing is reported before the binding loop, which reports duplicates    *)
(* only, and a failure always leaves its report.                            *)
DiagInv ==
    /\ phase \in {"input", "archive", "scan"} => diags = {}
    /\ phase \in {"bind", "check"} =>
          \A d \in diags : \E n \in Name : d = [what |-> "duplicate", name |-> n]
    /\ DiagnosedFailure

LEMMA DiagStep == TypeOK /\ DiagInv /\ [Next]_vars => DiagInv'
<1> SUFFICES ASSUME TypeOK, DiagInv, [Next]_vars PROVE DiagInv'
  OBVIOUS
<1> USE DEF DiagInv, DiagnosedFailure
<1>1. ASSUME NEW o, NEW from, nylink_add_object(o, from)
      PROVE  Accepted(o) => diags' = diags
  BY <1>1 DEF nylink_add_object
<1>2. ASSUME NEW o, NEW from, nylink_add_object(o, from), ~Accepted(o)
      PROVE  diags' # {}
  BY <1>2 DEF nylink_add_object
<1>3. ASSUME NEW o \in Object, AddObject(o) PROVE DiagInv'
  <2>1. nylink_add_object(o, <<0, 0>>) /\ phase = "input"
        /\ phase' = IF Accepted(o) THEN "input" ELSE "failed"
    BY <1>3 DEF AddObject
  <2> QED
    BY <1>1, <1>2, <2>1
<1>4. ASSUME ExtractFor PROVE DiagInv'
  <2>1. phase = "scan"
    BY <1>4 DEF ExtractFor
  <2>2. PICK a, m : ExtractMember(a, m)
    BY <1>4 DEF ExtractFor
  <2>3. CASE phase' = phase /\ diags' = diags
    BY <2>1, <2>3
  <2>4. CASE \E o : nylink_add_object(o, <<a, m>>)
                    /\ phase' = IF Accepted(o) THEN phase ELSE "failed"
    BY <1>1, <1>2, <2>1, <2>4
  <2> QED
    BY <2>2, <2>3, <2>4 DEF ExtractMember
<1>5. ASSUME ReadArchiveFails PROVE DiagInv'
  BY <1>5 DEF ReadArchiveFails
<1>6. ASSUME BindSymbol PROVE DiagInv'
  <2>1. phase = "bind" /\ phase' = "bind"
    BY <1>6 DEF BindSymbol
  <2>2. diags' = diags \/ diags' = diags \cup {[what |-> "duplicate",
                                                name |-> symbols[cursor].name]}
    BY <1>6 DEF BindSymbol
  <2>3. symbols[cursor].name \in Name
    <3>1. cursor \in Nat \ {0} /\ cursor <= Len(symbols)
      BY <1>6, Zenon DEF BindSymbol, TypeOK
    <3> QED
      BY <3>1, SymbolType
  <2> QED
    BY <2>1, <2>2, <2>3
<1>7. ASSUME CheckRefs PROVE DiagInv'
  <2> DEFINE missing == {n \in Name : Unresolved(n)}
             success == missing = {} /\ \A n \in Name :
                            [what |-> "duplicate", name |-> n] \notin diags
  <2>1. /\ diags' = diags \cup {[what |-> "undefined", name |-> n] : n \in missing}
        /\ phase' = IF success THEN "resolved" ELSE "failed"
        /\ phase = "check"
    BY <1>7 DEF CheckRefs
  <2>2. CASE success
    BY <2>1, <2>2
  <2>3. CASE ~success
    <3>1. diags' # {}
      BY <2>1, <2>3
    <3> QED
      BY <2>1, <2>3, <3>1
  <2> QED
    BY <2>2, <2>3
<1>8. ASSUME \/ \E f \in ArFile : nylink_add_archive(f)
             \/ CallResolve \/ nylink_read_archive \/ add_archive_symbol
             \/ ReadArchiveReturns \/ SkipSymbol \/ EndPass \/ BindDone
      PROVE  DiagInv'
  BY <1>8 DEF nylink_add_archive, CallResolve, nylink_read_archive, add_archive_symbol,
     ReadArchiveReturns, SkipSymbol, EndPass, BindDone, ctx
<1>9. ASSUME UNCHANGED vars PROVE DiagInv'
  BY <1>9 DEF vars, ctx
<1> QED
  BY <1>3, <1>4, <1>5, <1>6, <1>7, <1>8, <1>9 DEF Next, Linking, Finished

(* A link that fails has said why and one that resolves has said nothing,   *)
(* whichever input, archive member or symbol is at fault.                   *)
THEOREM DiagnosedFailureCorrect == Spec => []DiagnosedFailure
<1>1. Init => DiagInv
  BY DEF Init, DiagInv, DiagnosedFailure
<1> QED
  BY <1>1, TypeCorrect, DiagStep, PTL DEF Spec, DiagInv

=============================================================================
