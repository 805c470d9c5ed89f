--------------------------- MODULE TimelockPromise ---------------------------
(***************************************************************************)
(* What one switch promises to everyone who reads its audit topic, without *)
(* the processes, the calls and the failures that bring it about: rungs go *)
(* live one after the other and at most one per period, a rung fires less  *)
(* than a second before its deadline at the earliest, and only what fired  *)
(* is ever opened or announced.                                            *)
(***************************************************************************)
EXTENDS Integers

CONSTANTS
    N,         \* the number of rungs
    Deadline,  \* the deadline of each rung
    Second     \* a second, in the same unit

VARIABLES
    now,       \* consensus time
    live,      \* the rung the last public check-in made live
    fired,     \* rungs whose release was authorized
    opened,    \* rungs whose capsule was published
    announced  \* rungs a bulletin was posted for

vars == <<now, live, fired, opened, announced>>

Init ==
    /\ now = 0
    /\ live = 1
    /\ fired = {}
    /\ opened = {}
    /\ announced = {}

Elapse ==
    /\ now' = now + 1
    /\ UNCHANGED <<live, fired, opened, announced>>

\* The owner is alive: the next rung is live.  The second postponement and the
\* later ones wait for the end of the period before.
Postpone ==
    /\ live < N
    /\ live > 1 => now >= Deadline[live - 1]
    /\ live' = live + 1
    /\ UNCHANGED <<now, fired, opened, announced>>

\* The network expires schedules on whole seconds, never a full one early.
Expire(i) ==
    /\ Deadline[i] - now < Second
    /\ fired' = fired \cup {i}
    /\ UNCHANGED <<now, live, opened, announced>>

Open(i) ==
    /\ i \in fired
    /\ opened' = opened \cup {i}
    /\ UNCHANGED <<now, live, fired, announced>>

Announce(i) ==
    /\ i \in fired
    /\ announced' = announced \cup {i}
    /\ UNCHANGED <<now, live, fired, opened>>

Next ==
    \/ Elapse \/ Postpone
    \/ \E i \in 1..N : Expire(i) \/ Open(i) \/ Announce(i)

Spec == Init /\ [][Next]_vars
=============================================================================
