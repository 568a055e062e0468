-------------------------- MODULE LinkOutputProofs --------------------------
(***************************************************************************)
(* Proofs about the end of do_cli_link: the type invariant, what an exit   *)
(* code of 0 promises, and what the file at output_file can be at any      *)
(* moment, for images of any number of writes and every set of faults.     *)
(***************************************************************************)
EXTENDS LinkOutput, TLAPS

(* The contents that the steps of do_cli_link give to a file.              *)
LEMMA ContentFacts ==
    /\ Absent \in Content /\ Old \in Content
    /\ \A k \in 0 .. Chunks : Image(k) \in Content
BY DEF Content

(* Types: the driver's state and the three files it touches (do_cli_link). *)
THEOREM TypeCorrect == Spec => []TypeOK
<1>1. Init => TypeOK
  <2> SUFFICES ASSUME Init PROVE TypeOK
    OBVIOUS
  <2>1. written \in 0 .. Chunks
    BY OutputAssumption DEF Init
  <2>2. out \in Content /\ tmp \in Content /\ implib \in Content
    BY ContentFacts DEF Init
  <2> QED
    BY <2>1, <2>2, Zenon DEF Init, TypeOK, PC
<1>2. TypeOK /\ [Next]_vars => TypeOK'
  <2> SUFFICES ASSUME TypeOK, [Next]_vars PROVE TypeOK'
    OBVIOUS
  <2> USE OutputAssumption
  <2>1. ASSUME NEW here \in PC, NEW next \in PC, LinkPhase(here, next) PROVE TypeOK'
    BY <2>1 DEF TypeOK, PC, LinkPhase, Fail
  <2>2. CASE OpenTmp
    BY <2>2, ContentFacts DEF TypeOK, PC, OpenTmp, Fail
  <2>3. ASSUME NEW file \in Content, written < Chunks PROVE
           (WriteLoses \/ WriteWorks) => lost' \in BOOLEAN /\ Appended(file) \in Content
    <3>1. written + 1 \in 0 .. Chunks
      BY <2>3 DEF TypeOK
    <3>2. Image(written + 1) \in Content
      BY <3>1, ContentFacts
    <3> QED
      BY <3>2, Zenon DEF TypeOK, WriteLoses, WriteWorks, Appended
  <2>4. written < Chunks => written + 1 \in 0 .. Chunks
    BY DEF TypeOK
  <2>5. CASE WriteTmp
    BY <2>3, <2>4, <2>5 DEF TypeOK, WriteTmp
  <2>6. CASE CloseTmp
    BY <2>6 DEF TypeOK, PC, CloseTmp
  <2>7. CASE RemoveOld
    BY <2>7, ContentFacts DEF TypeOK, PC, RemoveOld
  <2>8. CASE Rename
    BY <2>8, ContentFacts DEF TypeOK, PC, Rename, Fail
  <2>9. CASE OpenImplib
    BY <2>9, ContentFacts DEF TypeOK, PC, OpenImplib, Fail
  <2>10. CASE WriteImplib
    BY <2>3, <2>4, <2>10 DEF TypeOK, WriteImplib
  <2>11. CASE CloseImplib
    BY <2>11 DEF TypeOK, PC, CloseImplib
  <2>12. CASE Kill
    BY <2>12 DEF TypeOK, PC, Kill
  <2>13. CASE Gone \/ UNCHANGED vars
    BY <2>13 DEF TypeOK, Gone, vars
  <2> QED
    BY <2>1, <2>2, <2>5, <2>6, <2>7, <2>8, <2>9, <2>10, <2>11, <2>12, <2>13
    DEF Next, PC
<1> QED
  BY <1>1, <1>2, PTL DEF Spec

-----------------------------------------------------------------------------
(* The inductive invariant: what each step of do_cli_link may rely on.  A  *)
(* lost write voids every claim about contents, since no caller looks at   *)
(* the result of fwrite.                                                   *)
Prepared ==
    pc \in {"resolve", "layout", "relocate", "open"} => tmp = Absent /\ out = before

Streamed ==
    /\ pc = "write" => out = before /\ (lost \/ tmp = Image(written))
    /\ pc = "write_implib" => lost \/ implib = Image(written)

Swapped ==
    /\ pc \in {"remove", "rename"} => lost \/ tmp = Complete
    /\ pc \in {"implib", "write_implib"} =>
          tmp = Absent /\ mode = "dll" /\ (lost \/ out = Complete)

StageInv == Prepared /\ Streamed /\ Swapped /\ ExitIsHonest /\ NeverTorn

LEMMA StageStep == TypeOK /\ StageInv /\ [Next]_vars => StageInv'
<1> SUFFICES ASSUME TypeOK, StageInv, [Next]_vars PROVE StageInv'
  OBVIOUS
<1> USE DEF StageInv, Prepared, Streamed, Swapped, ExitIsHonest, NeverTorn
<1>1. CASE \/ LinkPhase("resolve", "layout") \/ LinkPhase("layout", "relocate")
           \/ LinkPhase("relocate", "open")
  BY <1>1 DEF LinkPhase, Fail
<1>2. CASE OpenTmp
  BY <1>2 DEF OpenTmp, Fail
<1>3. CASE WriteTmp
  BY <1>3 DEF WriteTmp, WriteLoses, WriteWorks, Appended
<1>4. CASE CloseTmp
  BY <1>4 DEF CloseTmp, Complete
<1>5. CASE RemoveOld
  BY <1>5 DEF RemoveOld
<1>6. CASE Rename
  BY <1>6 DEF Rename, Fail
<1>7. CASE OpenImplib
  BY <1>7 DEF OpenImplib, Fail
<1>8. CASE WriteImplib
  BY <1>8 DEF WriteImplib, WriteLoses, WriteWorks, Appended
<1>9. CASE CloseImplib
  BY <1>9 DEF CloseImplib, Complete
<1>10. CASE Kill
  BY <1>10 DEF Kill
<1>11. CASE Gone \/ UNCHANGED vars
  BY <1>11 DEF Gone, vars
<1> QED
  BY <1>1, <1>2, <1>3, <1>4, <1>5, <1>6, <1>7, <1>8, <1>9, <1>10, <1>11 DEF Next

LEMMA StageHolds == Spec => []StageInv
<1>1. Init => StageInv
  BY DEF Init, StageInv, Prepared, Streamed, Swapped, ExitIsHonest, NeverTorn
<1> QED
  BY <1>1, TypeCorrect, StageStep, PTL DEF Spec

(* Exit code 0 of do_cli_link means that the output, and the import        *)
(* library of a DLL, are there and whole, unless a write was lost, and no  *)
(* exit leaves the temporary file behind: for every number of writes.      *)
THEOREM ExitIsHonestCorrect == Spec => []ExitIsHonest
BY StageHolds, PTL DEF StageInv

(* Killed at any moment, do_cli_link leaves at output_file what was there, *)
(* nothing, or the whole image, unless a write was lost.                   *)
THEOREM NeverTornCorrect == Spec => []NeverTorn
BY StageHolds, PTL DEF StageInv

(* No step of do_cli_link touches output_file before the image stands      *)
(* whole under the temporary name, unless a write was lost.                *)
THEOREM UntouchedUntilWrittenCorrect == Spec => UntouchedUntilWritten
<1>1. StageInv /\ [Next]_vars => [out' # out => tmp = Complete \/ lost]_vars
  BY DEF StageInv, Swapped, Next, vars, LinkPhase, OpenTmp, WriteTmp, CloseTmp, RemoveOld,
         Rename, OpenImplib, WriteImplib, CloseImplib, Kill, Gone
<1> QED
  BY <1>1, StageHolds, PTL DEF Spec, UntouchedUntilWritten

=============================================================================
