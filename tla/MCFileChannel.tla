--------------------------- MODULE MCFileChannel ---------------------------
(* Instances of FileChannel for TLC.  The values are in the .cfg files.    *)
EXTENDS FileChannel

CONSTANTS p1, p2, a, b, c

TwoPeers    == {p1, p2}
ThreeLeases == {a, b, c}
OwnerByName == [l \in Leases |-> IF l = c THEN p2 ELSE p1]
TheSecond   == {p2}
=============================================================================
