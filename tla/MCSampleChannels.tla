-------------------------- MODULE MCSampleChannels --------------------------
(* Instances of SampleChannels for TLC.  The values are in the .cfg file. *)
EXTENDS SampleChannels

CONSTANTS c1, c2, x, y

TwoCallers == {c1, c2}
TwoChannels == {x, y}
=============================================================================
