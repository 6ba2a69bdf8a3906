---------------------------- MODULE MCPollErrors -----------------------------
(* Small instances of PollErrors for TLC. *)
EXTENDS PollErrors, TLC

\* Partitions and error identities are interchangeable.
Symmetry == Permutations(Partitions) \cup Permutations(Errors)
=============================================================================
