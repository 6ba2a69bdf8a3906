------------------------------- MODULE MCGate -------------------------------
(* Small instances of GateProtocol, with its inductive invariant, for TLC. *)
EXTENDS GateRefinement, TLC

\* Partitions are interchangeable (used by the safety runs only).
Symmetry == Permutations(Partitions)
=============================================================================
