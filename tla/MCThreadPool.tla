---------------------------- MODULE MCThreadPool ----------------------------
(* Instances of ThreadPool for TLC.  The values are in the .cfg files.     *)
EXTENDS ThreadPool

CONSTANTS t1, t2, t3, w1, w2, w3

ThreeTasks   == {t1, t2, t3}
ThreeThreads == {w1, w2, w3}

BothModes == BOOLEAN
=============================================================================
