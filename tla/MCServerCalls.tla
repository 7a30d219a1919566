--------------------------- MODULE MCServerCalls ---------------------------
(* Instances of ServerCalls for TLC.  The values are in the .cfg files.    *)
EXTENDS ServerCalls

CONSTANTS c1, s1, r1, r2

OneCall    == {c1}
OneStatus  == {s1}
TwoResults == {r1, r2}

OfTheFirst == [q \in Statuses \cup Results |-> c1]
=============================================================================
