-------------------------- MODULE MCClientRequests --------------------------
(* Instances of ClientRequests for TLC.  The values are in the .cfg files. *)
EXTENDS ClientRequests

CONSTANTS q1, q2, p1, p2, g

TwoProbesTwoQueries == {q1, q2, p1, p2}

KindByName == [r \in Requests |-> IF r \in {p1, p2} THEN "probe" ELSE "query"]

TheHandler == {p1}

TheQuery   == {q1}

\* For the ping that nobody can answer.
OnePing  == {q1, g}
WithPing == [r \in Requests |-> IF r = g THEN "ping" ELSE "query"]
Nobody   == {}
ThePing  == {g}
=============================================================================
