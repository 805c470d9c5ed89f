---------------------------- MODULE MCArmingChat ----------------------------
(* Instances of ArmingChat for TLC.                                         *)
EXTENDS ArmingChat, TLC

\* Attempts of one kind are interchangeable, and so are the terms.
Symmetry == Permutations(Seals) \cup Permutations(Terms)
            \cup Permutations(Proofs) \cup Permutations(Signings)
            \cup Permutations(Arms)
=============================================================================
