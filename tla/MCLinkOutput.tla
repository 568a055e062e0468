---------------------------- MODULE MCLinkOutput ----------------------------
(* LinkOutput with three writes per image.                                  *)
EXTENDS LinkOutput

AllFaults == {"write", "remove", "rename", "kill"}
Killable == {"kill"}

=============================================================================
