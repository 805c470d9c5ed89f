---------------------------- MODULE MCSwitchWatch ----------------------------
(* Instance of SwitchWatch for TLC.                                         *)
EXTENDS SwitchWatch

CONSTANTS a, b

TwoTopics == {a, b}
JustA == {a}

\* The cancel of the other switch.
OtherTransfers == {[topic |-> b, success |-> TRUE, debited |-> TRUE]}
=============================================================================
