--------------------------- MODULE MCMqttSession ---------------------------
(* Instances of MqttSession for TLC.  The values are in the .cfg files.    *)
EXTENDS MqttSession

Both        == {"connect", "disconnect"}
=============================================================================
