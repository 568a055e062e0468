----------------------------- MODULE LinkOutput -----------------------------
(***************************************************************************)
(* The end of do_cli_link (main.c): the phases of the linker in the order  *)
(* the driver runs them, the image written under a temporary name, and the *)
(* swap that puts it in place of an earlier output, with a file system     *)
(* that can fail and a process that can be killed between any two calls.   *)
(***************************************************************************)
EXTENDS Naturals

CONSTANTS
    Chunks,     \* fwrite calls that make up an image
    Faults      \* what may go wrong: "write", "remove", "rename", "kill"

ASSUME OutputAssumption ==
    /\ Chunks \in Nat \ {0}
    /\ Faults \subseteq {"write", "remove", "rename", "kill"}

(* Contents of a file: absent, left by an earlier link, or the first k      *)
(* chunks of this link's image.                                             *)
Absent == <<"absent">>
Old == <<"old">>
Image(k) == <<"new", k>>
Complete == Image(Chunks)
Content == {Absent, Old} \cup {Image(k) : k \in 0..Chunks}

VARIABLES
    pc,         \* next step of do_cli_link
    mode,       \* output mode
    exit_code,  \* the driver's exit code so far
    before,     \* history: what output_file held when the link started
    out,        \* the file at output_file
    tmp,        \* the file at tmp_out
    implib,     \* the import library of a DLL
    written,    \* fwrite calls made on the open stream
    lost        \* a write failed; the emitters do not look at the result

vars == <<pc, mode, exit_code, before, out, tmp, implib, written, lost>>

PC == {"resolve", "layout", "relocate", "open", "write", "remove", "rename",
       "implib", "write_implib", "exit", "killed"}

TypeOK ==
    /\ pc \in PC
    /\ mode \in {"executable", "pie", "shared", "dll"}
    /\ exit_code \in {0, 1}
    /\ before \in {Absent, Old}
    /\ out \in Content /\ tmp \in Content /\ implib \in Content
    /\ written \in 0..Chunks
    /\ lost \in BOOLEAN

Init ==
    /\ pc = "resolve"
    /\ mode \in {"executable", "pie", "shared", "dll"}
    /\ exit_code = 0
    /\ before \in {Absent, Old}
    /\ out = before
    /\ tmp = Absent
    /\ implib \in {Absent, Old}
    /\ written = 0
    /\ lost = FALSE

Fail == pc' = "exit" /\ exit_code' = 1

(* nylink_resolve_symbols, nylink_layout, nylink_apply_relocations: each    *)
(* may fail, and then nothing is written.                                   *)
LinkPhase(here, next) ==
    /\ pc = here
    /\ Fail \/ (pc' = next /\ UNCHANGED exit_code)
    /\ UNCHANGED <<mode, before, out, tmp, implib, written, lost>>

(* The emitters: fopen(tmp_out, "wb") creates an empty file or fails.       *)
OpenTmp ==
    /\ pc = "open"
    /\ \/ tmp' = Image(0) /\ written' = 0 /\ pc' = "write" /\ UNCHANGED exit_code
       \/ Fail /\ tmp' = Absent /\ UNCHANGED written
    /\ UNCHANGED <<mode, before, out, implib, lost>>

(* Appends a chunk, or loses it when the device does: once one is lost the  *)
(* file does not become whole again.                                        *)
Appended(file) == IF lost' THEN file ELSE Image(written + 1)

WriteLoses == lost' = TRUE /\ (lost \/ "write" \in Faults)
WriteWorks == lost' = lost /\ ~lost

(* One fwrite of the emitter; its result is not looked at.                  *)
WriteTmp ==
    /\ pc = "write"
    /\ written < Chunks
    /\ WriteLoses \/ WriteWorks
    /\ written' = written + 1
    /\ tmp' = Appended(tmp)
    /\ UNCHANGED <<pc, mode, before, exit_code, out, implib>>

(* Mutant: the emitter returns one fwrite early.                            *)
CloseTmpEarly ==
    /\ pc = "write"
    /\ written + 1 >= Chunks
    /\ pc' = "remove"
    /\ UNCHANGED <<mode, before, exit_code, out, tmp, implib, written, lost>>

(* fclose, chmod and return true: the results of the writes are not used.   *)
CloseTmp ==
    /\ pc = "write"
    /\ written = Chunks
    /\ pc' = "remove"
    /\ UNCHANGED <<mode, before, exit_code, out, tmp, implib, written, lost>>

(* Mutant: the earlier output is removed before the image is written.       *)
RemoveEarly ==
    /\ pc \in {"open", "remove"}
    /\ out' = Absent
    /\ pc' = IF pc = "open" THEN "open" ELSE "rename"
    /\ UNCHANGED <<mode, before, exit_code, tmp, implib, written, lost>>

(* remove(output_file); its result is not used: a file that cannot be       *)
(* removed is still there when rename is called.                            *)
RemoveOld ==
    /\ pc = "remove"
    /\ \/ out' = Absent
       \/ "remove" \in Faults /\ UNCHANGED out
    /\ pc' = "rename"
    /\ UNCHANGED <<mode, before, exit_code, tmp, implib, written, lost>>

(* Mutant: the temporary file is kept when rename fails.                    *)
RenameKeepsTmp ==
    /\ pc = "rename"
    /\ \/ /\ out' = tmp /\ tmp' = Absent
          /\ pc' = IF mode = "dll" THEN "implib" ELSE "exit"
          /\ UNCHANGED exit_code
       \/ "rename" \in Faults /\ Fail /\ UNCHANGED <<out, tmp>>
    /\ UNCHANGED <<mode, before, implib, written, lost>>

(* rename(tmp_out, output_file), and remove(tmp_out) when it fails.         *)
Rename ==
    /\ pc = "rename"
    /\ \/ /\ out' = tmp /\ tmp' = Absent
          /\ pc' = IF mode = "dll" THEN "implib" ELSE "exit"
          /\ UNCHANGED exit_code
       \/ "rename" \in Faults /\ Fail /\ tmp' = Absent /\ UNCHANGED out
    /\ UNCHANGED <<mode, before, implib, written, lost>>

(* nylink_write_pe_implib writes the import library in place.               *)
OpenImplib ==
    /\ pc = "implib"
    /\ \/ /\ implib' = Image(0) /\ written' = 0 /\ pc' = "write_implib"
          /\ UNCHANGED exit_code
       \/ Fail /\ UNCHANGED <<implib, written>>
    /\ UNCHANGED <<mode, before, out, tmp, lost>>

(* One fwrite into the import library; its result is not looked at.         *)
WriteImplib ==
    /\ pc = "write_implib"
    /\ written < Chunks
    /\ WriteLoses \/ WriteWorks
    /\ written' = written + 1
    /\ implib' = Appended(implib)
    /\ UNCHANGED <<pc, mode, before, exit_code, out, tmp>>

(* fclose and return true.                                                  *)
CloseImplib ==
    /\ pc = "write_implib"
    /\ written = Chunks
    /\ pc' = "exit"
    /\ UNCHANGED <<mode, before, exit_code, out, tmp, implib, written, lost>>

(* The process is killed.  What it wrote stays with the system; the machine *)
(* losing power is left out, since nothing the code writes is synced.       *)
Kill ==
    /\ "kill" \in Faults
    /\ pc \notin {"exit", "killed"}
    /\ pc' = "killed"
    /\ UNCHANGED <<mode, before, exit_code, out, tmp, implib, written, lost>>

Gone == pc \in {"exit", "killed"} /\ UNCHANGED vars

Next ==
    \/ LinkPhase("resolve", "layout") \/ LinkPhase("layout", "relocate")
    \/ LinkPhase("relocate", "open")
    \/ OpenTmp \/ WriteTmp \/ CloseTmp \/ RemoveOld \/ Rename
    \/ OpenImplib \/ WriteImplib \/ CloseImplib
    \/ Kill \/ Gone

Spec == Init /\ [][Next]_vars

-----------------------------------------------------------------------------
(* Properties                                                               *)

(* No step of do_cli_link touches the file at output_file before this       *)
(* link's image stands whole under the temporary name, unless a write was   *)
(* lost, which the emitters do not notice.                                  *)
UntouchedUntilWritten == [][out' # out => tmp = Complete \/ lost]_vars

(* Exit code 0 of do_cli_link means that every file of the link is there    *)
(* and whole, unless a write was lost, and no exit leaves the temporary     *)
(* file behind.                                                             *)
ExitIsHonest ==
    pc = "exit" =>
        /\ exit_code = 0 /\ ~lost => /\ out = Complete
                                     /\ mode = "dll" => implib = Complete
        /\ tmp = Absent

(* Whenever do_cli_link stops, killed between any two calls included,       *)
(* output_file holds what it held before the link, nothing, or the whole    *)
(* new image, never a part of one, unless a write was lost.                 *)
NeverTorn == lost \/ out \in {before, Absent, Complete}

(* docs/linker.md: "Atomic Output Replacement: Outputs are written and      *)
(* swapped safely."  Once the process is gone, output_file holds what it    *)
(* held before the link or the whole new image.                             *)
SwapIsSafe ==
    pc \in {"exit", "killed"} => out \in {before, Complete}

=============================================================================
