------------------------------ MODULE MCRelease ------------------------------
(* Small instances of Release for TLC. *)
EXTENDS ReleaseInvariant
=============================================================================
