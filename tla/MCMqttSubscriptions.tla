------------------------ MODULE MCMqttSubscriptions ------------------------
(* Instances of MqttSubscriptions for TLC.  The values are in the .cfg files. *)
EXTENDS MqttSubscriptions

CONSTANTS c1, c2, c3, f1, f2, f3

ThreeCalls   == {c1, c2, c3}
OneCall      == {c1}
ThreeFilters == {f1, f2, f3}

LastUnsubscribes == [c \in FilterCalls |-> IF c = c3 THEN "unsubscribe" ELSE "subscribe"]
AllUnsubscribe   == [c \in FilterCalls |-> "unsubscribe"]

OwnFilter    == [c \in FilterCalls |-> IF c = c1 THEN f1 ELSE IF c = c2 THEN f2 ELSE f3]

OneRemembered == <<f3>>
TwoRemembered == <<f1, f2>>
SecondDenied  == {f2}
=============================================================================
