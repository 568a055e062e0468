------------------------------ MODULE LinkRace ------------------------------
(***************************************************************************)
(* Two `nybit link` processes with the same output file, over one file     *)
(* system.  The temporary name is made with rand() and nobody calls        *)
(* srand(), so both processes use the same one (main.c, do_cli_link).      *)
(*                                                                         *)
(* A name leads to a file or to nothing, a stream stays on the file it was *)
(* opened on.  A file is a function from positions to the process that     *)
(* wrote there last; a position nobody wrote holds Hole.                   *)
(***************************************************************************)
EXTENDS Naturals, Sequences

CONSTANTS
    Chunks,     \* fwrite calls that make up an image
    Process,    \* the processes, numbers from 1 on
    Faults      \* calls that may fail: "open", "remove"

ASSUME RaceAssumption ==
    /\ Chunks \in Nat \ {0}
    /\ Process \subseteq Nat \ {0} /\ Process # {}
    /\ Faults \subseteq {"open", "remove"}

VARIABLES
    pc,         \* pc[p]: next step of process p
    exit_code,  \* exit_code[p]
    stream,     \* stream[p]: the file p has open
    written,    \* written[p]: fwrite calls p has made
    name,       \* the files at output_file and at tmp_out
    data        \* contents of the files ever made, by number

vars == <<pc, exit_code, stream, written, name, data>>

NoFile == 0
Hole == 0
Empty == [k \in {} |-> Hole]
Whole(p) == [k \in 1 .. Chunks |-> p]

(* An earlier link, by nobody of Process, left the file 1.                  *)
Init ==
    /\ pc = [p \in Process |-> "open"]
    /\ exit_code = [p \in Process |-> 0]
    /\ stream = [p \in Process |-> NoFile]
    /\ written = [p \in Process |-> 0]
    /\ name = [out |-> 1, tmp |-> NoFile]
    /\ data = <<Whole(Hole)>>

Go(p, next) == pc' = [pc EXCEPT ![p] = next]

Fail(p) == Go(p, "exit") /\ exit_code' = [exit_code EXCEPT ![p] = 1]

(* fopen(tmp_out, "wb"): a file that is there is cut to nothing.            *)
OpenTmp(p) ==
    /\ pc[p] = "open"
    /\ IF name.tmp = NoFile
       THEN /\ data' = Append(data, Empty)
            /\ name' = [name EXCEPT !.tmp = Len(data')]
       ELSE /\ data' = [data EXCEPT ![name.tmp] = Empty]
            /\ UNCHANGED name
    /\ stream' = [stream EXCEPT ![p] = name'.tmp]
    /\ Go(p, "write")
    /\ UNCHANGED <<exit_code, written>>

(* The emitter cannot open the file, and the driver removes the name.       *)
OpenFails(p) ==
    /\ pc[p] = "open" /\ "open" \in Faults
    /\ name' = [name EXCEPT !.tmp = NoFile]
    /\ Fail(p)
    /\ UNCHANGED <<stream, written, data>>

(* One fwrite, at the position this stream has reached.                     *)
WriteTmp(p) ==
    /\ pc[p] = "write" /\ written[p] < Chunks
    /\ LET at == written[p] + 1
           old == data[stream[p]]
       IN  /\ written' = [written EXCEPT ![p] = at]
           /\ data' = [data EXCEPT ![stream[p]] =
                 [k \in DOMAIN old \cup 1 .. at |->
                    IF k = at THEN p ELSE IF k \in DOMAIN old THEN old[k] ELSE Hole]]
    /\ UNCHANGED <<pc, exit_code, stream, name>>

CloseTmp(p) ==
    /\ pc[p] = "write" /\ written[p] = Chunks
    /\ Go(p, "remove")
    /\ UNCHANGED <<exit_code, stream, written, name, data>>

(* remove(output_file); its result is not used.                             *)
RemoveOld(p) ==
    /\ pc[p] = "remove"
    /\ \/ name' = [name EXCEPT !.out = NoFile]
       \/ "remove" \in Faults /\ UNCHANGED name
    /\ Go(p, "rename")
    /\ UNCHANGED <<exit_code, stream, written, data>>

(* Mutant: the result of rename is not looked at.                           *)
RenameUnchecked(p) ==
    /\ pc[p] = "rename"
    /\ name' = IF name.tmp = NoFile THEN name ELSE [out |-> name.tmp, tmp |-> NoFile]
    /\ Go(p, "exit")
    /\ UNCHANGED <<exit_code, stream, written, data>>

(* rename(tmp_out, output_file) fails when the other process has moved or   *)
(* removed the file; the driver then removes the name and exits with 1.     *)
Rename(p) ==
    /\ pc[p] = "rename"
    /\ \/ /\ name.tmp # NoFile
          /\ name' = [out |-> name.tmp, tmp |-> NoFile]
          /\ Go(p, "exit") /\ UNCHANGED exit_code
       \/ /\ name.tmp = NoFile
          /\ Fail(p) /\ UNCHANGED name
    /\ UNCHANGED <<stream, written, data>>

AllGone == \A p \in Process : pc[p] = "exit"

Gone == AllGone /\ UNCHANGED vars

Next ==
    \/ \E p \in Process : \/ OpenTmp(p) \/ OpenFails(p) \/ WriteTmp(p) \/ CloseTmp(p)
                          \/ RemoveOld(p) \/ Rename(p)
    \/ Gone

Spec == Init /\ [][Next]_vars

-----------------------------------------------------------------------------
(* Properties                                                               *)

HoldsImage(f) == f # NoFile /\ \E p \in Process : data[f] = Whole(p)

(* When every do_cli_link has exited with 0, output_file is the whole image *)
(* of one of them: the unseeded temporary name makes the other outcomes     *)
(* failures of rename, which the exit code shows.                           *)
BothHonest ==
    AllGone /\ (\A p \in Process : exit_code[p] = 0) => HoldsImage(name.out)

(* docs/linker.md: "Atomic Output Replacement: Outputs are written and      *)
(* swapped safely."  When all have exited, output_file is the earlier       *)
(* output or the whole image of one of the processes.                       *)
RaceIsSafe ==
    AllGone => name.out = 1 \/ HoldsImage(name.out)

=============================================================================
