---------------------------- MODULE AtomicRecord ----------------------------
(***************************************************************************)
(* What withLock of lib/store.ts promises its callers: a call is one step   *)
(* of the record, made on what the record is at that moment, or no step.    *)
(***************************************************************************)
CONSTANTS Calls, Records, NoRecord, Steps

VARIABLES
    record,     \* the record of the topic
    outcome     \* what each call has come to

Init ==
    /\ record \in Records \cup {NoRecord}
    /\ outcome = [c \in Calls |-> "pending"]

Commit(c) ==
    /\ outcome[c] = "pending"
    /\ \E r \in Records \cup {NoRecord} :
          <<record, r>> \in Steps[c] /\ record' = r
    /\ outcome' = [outcome EXCEPT ![c] = "saved"]

\* An exception ends one call, a crash all those under way.
Abandon(S) ==
    /\ \A c \in S : outcome[c] = "pending"
    /\ outcome' = [c \in Calls |-> IF c \in S THEN "failed" ELSE outcome[c]]
    /\ UNCHANGED record

Next ==
    \/ \E c \in Calls : Commit(c)
    \/ \E S \in SUBSET Calls : Abandon(S)

Spec == Init /\ [][Next]_<<record, outcome>>
=============================================================================
