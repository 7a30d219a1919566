---------------------------- MODULE MCMqttPublish ----------------------------
(* Instances of MqttPublish for TLC.  The values are in the .cfg files.    *)
EXTENDS MqttPublish

CONSTANTS c1, c2

TwoCalls == {c1, c2}

\* A QoS 1 and a QoS 2 publish.
MixedQos == [c \in Calls |-> IF c = c1 THEN 1 ELSE 2]
=============================================================================
