----------------------------- MODULE MCLinkRace -----------------------------
(* Two processes, three writes per image.                                   *)
EXTENDS LinkRace

Two == {1, 2}
CallsMayFail == {"open", "remove"}
NoFaults == {}

=============================================================================
