------------------------------- MODULE Ladder -------------------------------
(***************************************************************************)
(* mintLadder of lib/crypto.ts and the drand clock it seals to: the fixed   *)
(* grid of deadlines of a switch, and the round each rung's capsule waits   *)
(* for.  Also the same deadlines as the check-in client computes them from  *)
(* a view (checkin-client.ts).                                              *)
(***************************************************************************)
EXTENDS Integers

CONSTANTS
    N,          \* rungs of the ladder: terms.n
    ArmTime,    \* armTime
    Interval,   \* terms.intervalSec * 1000
    Genesis,    \* genesis_time of the drand chain
    DrandPeriod \* and its period; in the unit of Interval

Rungs == 1..N

ASSUME LadderAssumption ==
    /\ N \in Nat \ {0}
    /\ ArmTime \in Nat /\ Genesis \in Nat /\ ArmTime >= Genesis
    /\ Interval \in Nat \ {0} /\ DrandPeriod \in Nat \ {0}

\* The cadence chips go down to a minute, and a round comes every 3 seconds.
ASSUME CadenceAssumption == Interval >= DrandPeriod

\* The time at which a round's signature is published, and the last round that
\* is published by a given time: tlock-js.
RoundTime(r) == Genesis + (r - 1) * DrandPeriod

\* The first round at or after the time.
RoundAt_RoundedUp(t) == (t - Genesis + DrandPeriod - 1) \div DrandPeriod + 1

RoundAt(t) == (t - Genesis) \div DrandPeriod + 1

\* mintLadder: the rungs of one key.
DeadlineOf(i) == ArmTime + i * Interval

Mint(key) ==
    [i \in Rungs |->
        [idx |-> i, deadline |-> DeadlineOf(i), round |-> RoundAt(DeadlineOf(i)),
         capsule |-> key]]

\* buildCheckinRequest, on a view whose live rung is liveIdx < N.
ClientDeadline(liveIdx) == ArmTime + (liveIdx + 1) * Interval
=============================================================================
