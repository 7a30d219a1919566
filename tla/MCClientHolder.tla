--------------------------- MODULE MCClientHolder ---------------------------
(* Instances of ClientHolder for TLC.  The values are in the .cfg file. *)
EXTENDS ClientHolder

CONSTANTS a1, a2, d1, d2

TwoApps == {a1, a2}
TwoDevices == {d1, d2}
=============================================================================
