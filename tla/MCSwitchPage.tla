---------------------------- MODULE MCSwitchPage ----------------------------
(* Instance of SwitchPage for TLC.                                          *)
EXTENDS SwitchPage

AllCalls == Checkins \cup Cancels
=============================================================================
