--------------------------- MODULE LinkRaceProofs ---------------------------
(***************************************************************************)
(* Proofs about `nybit link` processes that share an output and, since     *)
(* rand() is not seeded, a temporary name: for any number of processes and *)
(* of writes, exits with 0 alone leave a whole image.                      *)
(***************************************************************************)
EXTENDS LinkRace, TLAPS, SequenceTheorems

(* The first k writes of process p, and what a file can hold.              *)
Part(p, k) == [i \in 1 .. k |-> p]
Files == UNION {[1 .. k -> Nat] : k \in 0 .. Chunks}

Active(p) == pc[p] \in {"write", "remove", "rename"}

RaceType ==
    /\ pc \in [Process -> {"open", "write", "remove", "rename", "exit"}]
    /\ exit_code \in [Process -> {0, 1}]
    /\ stream \in [Process -> 0 .. Len(data)]
    /\ written \in [Process -> 0 .. Chunks]
    /\ name \in [out : 0 .. Len(data), tmp : 0 .. Len(data)]
    /\ data \in Seq(Files)
    /\ \A p \in Process : Active(p) => stream[p] # NoFile
    /\ \A p \in Process : pc[p] = "open" => written[p] = 0

(* Some process has told its user that it failed.                          *)
Told == \E p \in Process : exit_code[p] = 1

(* Two processes are at work on the temporary file, or one whose temporary *)
(* file another has moved away or removed: one of them will fail, or a     *)
(* later one will, since each rename takes the name away.                  *)
Contended ==
    \/ \E p, q \in Process : p # q /\ Active(p) /\ Active(q)
    \/ \E p \in Process : Active(p) /\ name.tmp = NoFile

(* One process is at work, on a file that only it has written to since the *)
(* last open cut it to nothing.                                            *)
Alone ==
    \E p \in Process :
        /\ Active(p) /\ \A q \in Process : Active(q) => q = p
        /\ name.tmp # NoFile /\ stream[p] = name.tmp
        /\ data[name.tmp] = Part(p, written[p])
        /\ pc[p] # "write" => written[p] = Chunks

(* Nobody is at work: either nobody has started, or the last to finish put *)
(* a whole image in place.                                                 *)
Idle ==
    /\ \A p \in Process : ~Active(p)
    /\ name.tmp = NoFile
    /\ (\A p \in Process : pc[p] = "open") \/ HoldsImage(name.out)

RaceInv == RaceType /\ (Told \/ Contended \/ Alone \/ Idle)

-----------------------------------------------------------------------------
(* The files of the model: what fopen, fwrite and an empty one contribute. *)
LEMMA PartFacts ==
    /\ Empty \in Files
    /\ \A p : Empty = Part(p, 0)
    /\ \A p \in Process : Whole(p) = Part(p, Chunks)
    /\ Whole(Hole) \in Files
<1>1. Empty \in [1 .. 0 -> Nat] /\ Whole(Hole) \in [1 .. Chunks -> Nat]
  BY RaceAssumption DEF Empty, Whole, Hole
<1>2. 0 \in 0 .. Chunks /\ Chunks \in 0 .. Chunks
  BY RaceAssumption
<1>3. Empty \in Files /\ Whole(Hole) \in Files
  BY <1>1, <1>2 DEF Files
<1>4. 1 .. 0 = {}
  OBVIOUS
<1> QED
  BY <1>3, <1>4 DEF Empty, Part, Whole

(* One fwrite at position at of a file no longer than an image.            *)
Put(old, at, p) ==
    [k \in DOMAIN old \cup 1 .. at |->
       IF k = at THEN p ELSE IF k \in DOMAIN old THEN old[k] ELSE Hole]

LEMMA PutFacts ==
    ASSUME NEW old \in Files, NEW at \in 1 .. Chunks, NEW p \in Nat
    PROVE  /\ Put(old, at, p) \in Files
           /\ old = Part(p, at - 1) => Put(old, at, p) = Part(p, at)
<1>1. PICK n \in 0 .. Chunks : old \in [1 .. n -> Nat]
  BY DEF Files
<1> DEFINE m == IF n < at THEN at ELSE n
<1>2. m \in 0 .. Chunks
  BY RaceAssumption
<1>3. DOMAIN old \cup 1 .. at = 1 .. m
  BY <1>1, RaceAssumption
<1>4. Put(old, at, p) \in [1 .. m -> Nat]
  BY <1>1, <1>3 DEF Put, Hole
<1>5. Put(old, at, p) \in Files
  BY <1>2, <1>4 DEF Files
<1>6. ASSUME old = Part(p, at - 1) PROVE Put(old, at, p) = Part(p, at)
  <2>1. DOMAIN old = 1 .. (at - 1)
    BY <1>6 DEF Part
  <2>2. DOMAIN old \cup 1 .. at = 1 .. at
    BY <2>1, RaceAssumption
  <2>3. \A k \in 1 .. at : k # at => k \in DOMAIN old /\ old[k] = p
    BY <1>6, <2>1, RaceAssumption DEF Part
  <2> QED
    BY <2>2, <2>3 DEF Put, Part
<1> QED
  BY <1>5, <1>6

(* Every step keeps the types, for any number of processes and writes.     *)
LEMMA RaceTypeStep == RaceType /\ [Next]_vars => RaceType'
<1> SUFFICES ASSUME RaceType, [Next]_vars PROVE RaceType'
  OBVIOUS
<1>0. Chunks \in Nat \ {0} /\ Process \subseteq Nat \ {0} /\ Len(data) \in Nat
  BY RaceAssumption DEF RaceType
<1>1. ASSUME NEW p \in Process, OpenTmp(p) PROVE RaceType'
  <2>1. CASE name.tmp = NoFile
    <3>1. data' \in Seq(Files) /\ Len(data') = Len(data) + 1
      <4>1. data' = Append(data, Empty) /\ data \in Seq(Files) /\ Empty \in Files
        BY <1>1, <2>1, PartFacts DEF OpenTmp, RaceType
      <4> QED
        BY <4>1, AppendProperties
    <3>2. name'.tmp = Len(data') /\ name'.out = name.out
          /\ name' = [out |-> name'.out, tmp |-> name'.tmp]
      BY <1>1, <2>1 DEF OpenTmp, RaceType
    <3>3. name' \in [out : 0 .. Len(data'), tmp : 0 .. Len(data')] /\ name'.tmp # NoFile
      BY <1>0, <3>1, <3>2 DEF RaceType, NoFile
    <3>4. stream' \in [Process -> 0 .. Len(data')] /\ stream' = [stream EXCEPT ![p] = name'.tmp]
      BY <1>0, <1>1, <3>1, <3>2 DEF OpenTmp, RaceType
    <3> QED
      BY <1>0, <1>1, <3>1, <3>3, <3>4 DEF OpenTmp, RaceType, Go, Active
  <2>2. CASE name.tmp # NoFile
    <3>1. data' \in Seq(Files) /\ Len(data') = Len(data)
      <4>1. data' = [data EXCEPT ![name.tmp] = Empty] /\ data \in Seq(Files)
        BY <1>1, <2>2 DEF OpenTmp, RaceType
      <4>2. name.tmp \in 1 .. Len(data) /\ Empty \in Files
        BY <1>0, <2>2, PartFacts DEF RaceType, NoFile
      <4> QED
        BY <4>1, <4>2, ExceptSeq
    <3>2. name' = name /\ name.tmp \in 0 .. Len(data')
      BY <1>1, <2>2, <3>1 DEF OpenTmp, RaceType
    <3>3. stream' \in [Process -> 0 .. Len(data')] /\ stream' = [stream EXCEPT ![p] = name.tmp]
      BY <1>0, <1>1, <3>1, <3>2 DEF OpenTmp, RaceType
    <3> QED
      BY <1>0, <1>1, <2>2, <3>1, <3>2, <3>3 DEF OpenTmp, RaceType, Go, Active
  <2> QED
    BY <2>1, <2>2
<1>2. ASSUME NEW p \in Process, OpenFails(p) PROVE RaceType'
  <2>1. name' \in [out : 0 .. Len(data), tmp : 0 .. Len(data)]
    <3>1. name' = [out |-> name.out, tmp |-> NoFile] /\ name.out \in 0 .. Len(data)
      BY <1>2 DEF OpenFails, RaceType
    <3> QED
      BY <1>0, <3>1 DEF NoFile
  <2> QED
    BY <1>2, <2>1 DEF OpenFails, RaceType, Fail, Go, Active
<1>3. ASSUME NEW p \in Process, WriteTmp(p) PROVE RaceType'
  <2>1. written[p] + 1 \in 1 .. Chunks /\ stream[p] \in 1 .. Len(data)
    BY <1>0, <1>3 DEF WriteTmp, RaceType, Active, NoFile
  <2>2. data[stream[p]] \in Files
    BY <2>1 DEF RaceType
  <2>3. Put(data[stream[p]], written[p] + 1, p) \in Files
    BY <1>0, <2>1, <2>2, PutFacts
  <2>4. data' = [data EXCEPT ![stream[p]] = Put(data[stream[p]], written[p] + 1, p)]
    BY <1>3 DEF WriteTmp, Put
  <2>5. data' \in Seq(Files) /\ Len(data') = Len(data)
    BY <2>1, <2>3, <2>4, ExceptSeq DEF RaceType
  <2> QED
    BY <1>0, <1>3, <2>1, <2>5 DEF WriteTmp, RaceType, Active
<1>4. ASSUME NEW p \in Process, CloseTmp(p) PROVE RaceType'
  BY <1>0, <1>4 DEF CloseTmp, RaceType, Go, Active
<1>5. ASSUME NEW p \in Process, RemoveOld(p) PROVE RaceType'
  <2>1. name' \in [out : 0 .. Len(data), tmp : 0 .. Len(data)]
    <3>1. /\ \/ name' = [out |-> NoFile, tmp |-> name.tmp]
             \/ name' = name
          /\ name.tmp \in 0 .. Len(data)
          /\ name \in [out : 0 .. Len(data), tmp : 0 .. Len(data)]
      BY <1>5 DEF RemoveOld, RaceType
    <3> QED
      BY <1>0, <3>1 DEF NoFile
  <2> QED
    BY <1>5, <2>1 DEF RemoveOld, RaceType, Go, Active
<1>6. ASSUME NEW p \in Process, Rename(p) PROVE RaceType'
  <2>1. name' \in [out : 0 .. Len(data), tmp : 0 .. Len(data)]
    BY <1>0, <1>6 DEF Rename, RaceType, NoFile
  <2> QED
    BY <1>6, <2>1 DEF Rename, RaceType, Fail, Go, Active
<1>7. CASE Gone \/ UNCHANGED vars
  BY <1>7 DEF Gone, vars, RaceType, Active
<1> QED
  BY <1>1, <1>2, <1>3, <1>4, <1>5, <1>6, <1>7 DEF Next

(* Who is at work after a step that moves one process, and the exit codes. *)
LEMMA TurnFacts ==
    ASSUME RaceType, NEW p \in Process, NEW next, Go(p, next)
    PROVE  /\ \A q \in Process : q # p => (Active(q)' <=> Active(q)) /\ pc'[q] = pc[q]
           /\ pc'[p] = next
BY DEF RaceType, Go, Active

LEMMA RaceStep == RaceInv /\ [Next]_vars => RaceInv'
<1> SUFFICES ASSUME RaceInv, [Next]_vars PROVE RaceInv'
  OBVIOUS
<1>0. RaceType /\ RaceType'
  BY RaceTypeStep DEF RaceInv
<1>a. Chunks \in Nat \ {0} /\ Process \subseteq Nat \ {0}
  BY RaceAssumption
<1> SUFFICES (Told \/ Contended \/ Alone \/ Idle)'
  BY <1>0 DEF RaceInv
<1>1. ASSUME NEW p \in Process, Fail(p) PROVE Told'
  BY <1>0, <1>1 DEF Fail, RaceType, Told
<1>2. ASSUME Told, exit_code' = exit_code PROVE Told'
  BY <1>2 DEF Told
<1>3. ASSUME NEW p \in Process, OpenTmp(p) PROVE (Told \/ Contended \/ Alone)'
  <2>1. CASE Told
    BY <1>2, <1>3, <2>1 DEF OpenTmp
  <2>2. pc[p] = "open" /\ Active(p)' /\ (\A q \in Process : q # p => (Active(q)' <=> Active(q)))
    BY <1>0, <1>3, TurnFacts DEF OpenTmp, Active
  <2>3. CASE \E q \in Process : Active(q)
    BY <2>2, <2>3 DEF Contended, Active
  <2>4. CASE Idle
    <3>1. data' = Append(data, Empty) /\ name'.tmp = Len(data')
      BY <1>0, <1>3, <2>4 DEF Idle, OpenTmp, RaceType
    <3>2. data \in Seq(Files) /\ Empty \in Files /\ Len(data) \in Nat
      BY <1>0, PartFacts DEF RaceType
    <3>3. Len(data') = Len(data) + 1 /\ data'[Len(data) + 1] = Empty
      BY <3>1, <3>2, AppendProperties
    <3>4. name'.tmp # NoFile /\ data'[name'.tmp] = Empty
      BY <3>1, <3>2, <3>3 DEF NoFile
    <3>5. stream'[p] = name'.tmp /\ written'[p] = 0 /\ pc'[p] = "write"
      BY <1>0, <1>3 DEF OpenTmp, RaceType, Go
    <3>6. \A q \in Process : Active(q)' => q = p
      BY <2>2, <2>4 DEF Idle
    <3> QED
      BY <2>2, <3>4, <3>5, <3>6, PartFacts DEF Alone
  <2> QED
    BY <2>1, <2>3, <2>4 DEF RaceInv, Contended, Alone
<1>4. ASSUME NEW p \in Process, WriteTmp(p) PROVE (Told \/ Contended \/ Alone)'
  <2>1. CASE Told
    BY <1>2, <1>4, <2>1 DEF WriteTmp
  <2>2. Active(p) /\ name' = name /\ pc' = pc /\ stream' = stream
    BY <1>4 DEF WriteTmp, Active
  <2>3. CASE Contended
    BY <2>2, <2>3 DEF Contended, Active
  <2>4. CASE Alone
    <3>1. /\ \A q \in Process : Active(q) => q = p
          /\ name.tmp # NoFile /\ stream[p] = name.tmp
          /\ data[name.tmp] = Part(p, written[p])
      BY <2>2, <2>4 DEF Alone
    <3>2. written[p] + 1 \in 1 .. Chunks /\ stream[p] \in 1 .. Len(data) /\ p \in Nat
      BY <1>0, <1>a, <1>4, <3>1 DEF WriteTmp, RaceType, NoFile
    <3>3. data' = [data EXCEPT ![stream[p]] = Put(data[stream[p]], written[p] + 1, p)]
      BY <1>4 DEF WriteTmp, Put
    <3>4. data[stream[p]] \in Files /\ data \in Seq(Files) /\ (written[p] + 1) - 1 = written[p]
      BY <1>0, <1>a, <3>2 DEF RaceType
    <3>5. Put(data[stream[p]], written[p] + 1, p) = Part(p, written[p] + 1)
      BY <3>1, <3>2, <3>4, PutFacts
    <3>6. data'[stream[p]] = Part(p, written[p] + 1)
      BY <3>2, <3>3, <3>4, <3>5 DEF RaceType
    <3>7. written'[p] = written[p] + 1 /\ pc[p] = "write"
      BY <1>0, <1>4 DEF WriteTmp, RaceType
    <3>8. data'[name'.tmp] = Part(p, written'[p])
      BY <2>2, <3>1, <3>6, <3>7
    <3> QED
      BY <2>2, <3>1, <3>7, <3>8 DEF Alone, Active
  <2> QED
    BY <2>1, <2>2, <2>3, <2>4 DEF RaceInv, Idle
<1>5. ASSUME NEW p \in Process, CloseTmp(p) \/ RemoveOld(p) PROVE (Told \/ Contended \/ Alone)'
  <2>1. CASE Told
    BY <1>2, <1>5, <2>1 DEF CloseTmp, RemoveOld
  <2>2. /\ Active(p) /\ Active(p)'
        /\ \A q \in Process : q # p => (Active(q)' <=> Active(q)) /\ pc'[q] = pc[q]
    BY <1>0, <1>5, TurnFacts DEF CloseTmp, RemoveOld, Active
  <2>3. name'.tmp = name.tmp /\ UNCHANGED <<stream, written, data>>
    BY <1>0, <1>5 DEF CloseTmp, RemoveOld, RaceType
  <2>4. CASE Contended
    BY <2>2, <2>3, <2>4 DEF Contended
  <2>5. CASE Alone
    <3>1. /\ \A q \in Process : Active(q) => q = p
          /\ name.tmp # NoFile /\ stream[p] = name.tmp
          /\ data[name.tmp] = Part(p, written[p])
          /\ pc[p] # "write" => written[p] = Chunks
      BY <2>2, <2>5 DEF Alone
    <3>2. written[p] = Chunks
      BY <1>5, <3>1 DEF CloseTmp, RemoveOld
    <3> QED
      BY <2>2, <2>3, <3>1, <3>2 DEF Alone
  <2> QED
    BY <2>1, <2>2, <2>4, <2>5 DEF RaceInv, Idle
<1>6. ASSUME NEW p \in Process, Rename(p) PROVE (Told \/ Contended \/ Idle)'
  <2>1. CASE Fail(p)
    BY <1>1, <2>1
  <2>2. CASE name.tmp # NoFile /\ Go(p, "exit") /\ UNCHANGED exit_code
             /\ name' = [out |-> name.tmp, tmp |-> NoFile]
    <3>1. CASE Told
      BY <1>2, <2>2, <3>1
    <3>2. /\ Active(p) /\ ~Active(p)'
          /\ \A q \in Process : q # p => (Active(q)' <=> Active(q))
      BY <1>0, <1>6, <2>2, TurnFacts DEF Rename, Active
    <3>3. name'.tmp = NoFile /\ name'.out = name.tmp
      BY <2>2
    <3>4. CASE Contended
      BY <2>2, <3>2, <3>3, <3>4 DEF Contended
    <3>5. CASE Alone
      <4>1. /\ \A q \in Process : Active(q) => q = p
            /\ data[name.tmp] = Part(p, written[p]) /\ written[p] = Chunks
        BY <1>6, <3>2, <3>5 DEF Alone, Rename
      <4>2. data'[name'.out] = Whole(p)
        BY <1>6, <3>3, <4>1, PartFacts DEF Rename
      <4>3. HoldsImage(name.out)'
        BY <2>2, <3>3, <4>2 DEF HoldsImage, Whole
      <4> QED
        BY <3>2, <3>3, <4>1, <4>3 DEF Idle
    <3> QED
      BY <3>1, <3>2, <3>4, <3>5 DEF RaceInv, Idle
  <2> QED
    BY <1>6, <2>1, <2>2 DEF Rename
<1>7. CASE Gone \/ UNCHANGED vars
  <2>1. UNCHANGED vars
    BY <1>7 DEF Gone
  <2> QED
    BY <2>1 DEF RaceInv, vars, Told, Contended, Alone, Idle, Active, HoldsImage
<1> QED
  BY <1>1, <1>3, <1>4, <1>5, <1>6, <1>7 DEF Next, OpenFails

(* When all do_cli_link processes have exited with 0, output_file is the   *)
(* whole image of one of them, for any number of them and of writes.       *)
THEOREM BothHonestCorrect == Spec => []BothHonest
<1>1. Init => RaceInv
  <2> SUFFICES ASSUME Init PROVE RaceInv
    OBVIOUS
  <2>1. data \in Seq(Files) /\ Len(data) = 1
    BY PartFacts DEF Init
  <2>2. RaceType
    BY <2>1, RaceAssumption DEF Init, RaceType, Active, NoFile
  <2>3. Idle
    BY DEF Init, Idle, Active
  <2> QED
    BY <2>2, <2>3 DEF RaceInv
<1>2. RaceInv => BothHonest
  <2> SUFFICES ASSUME RaceInv, AllGone, \A p \in Process : exit_code[p] = 0
               PROVE  HoldsImage(name.out)
    BY DEF BothHonest
  <2>1. ~Told /\ ~Contended /\ ~Alone
    BY DEF Told, Contended, Alone, AllGone, Active
  <2>2. Idle
    BY <2>1 DEF RaceInv
  <2> QED
    BY <2>2, RaceAssumption DEF Idle, AllGone
<1> QED
  BY <1>1, <1>2, RaceStep, PTL DEF Spec

=============================================================================
