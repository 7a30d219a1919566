--------------------------- MODULE MCFtpTransfer ---------------------------
(* Instances of FtpTransfer for TLC.  The values are in the .cfg file. *)
EXTENDS FtpTransfer
=============================================================================
