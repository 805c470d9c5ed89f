-------------------------- MODULE MCDeadMansSwitch --------------------------
(* Instances of DeadMansSwitch for TLC: two clock ticks are a second, and a  *)
(* period; the switch is armed on an odd tick, so no deadline is on a whole  *)
(* second.                                                                  *)
EXTENDS DeadMansSwitch, TLC

\* Half a second after a whole one, with a check-in interval of a second.
Minted == INSTANCE Ladder
    WITH ArmTime <- 1, Interval <- 2, Genesis <- 0, DrandPeriod <- 1

MintedDeadlines == [i \in Rungs |-> Minted!Mint("K")[i].deadline]

\* Requests are interchangeable in the safety runs.
Symmetry == Permutations(Requests)
=============================================================================
