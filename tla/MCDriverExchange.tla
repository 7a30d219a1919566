-------------------------- MODULE MCDriverExchange --------------------------
(* Instances of DriverExchange for TLC.  The values are in the .cfg files. *)
EXTENDS DriverExchange

CONSTANTS t1, t2

TwoThreads == {t1, t2}
=============================================================================
