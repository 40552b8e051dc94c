---------------------------- MODULE MCTakeover ----------------------------
(* Instances of Takeover for TLC.                                         *)
EXTENDS Takeover, TLC

\* Process ids are interchangeable.
Symmetry == Permutations(Procs)

===========================================================================
