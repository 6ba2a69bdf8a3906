-------------------------- MODULE ReleaseInvariant ---------------------------
(***************************************************************************)
(* The inductive invariant behind Release's safety properties: the gate's  *)
(* own invariant until CloseAllowingRebalance forces the gate, and the     *)
(* order of releaseBroker's steps with what each leaves behind.  TLC       *)
(* checks it on the small instances, ReleaseProofs proves it for every     *)
(* instance.                                                               *)
(***************************************************************************)
EXTENDS Release, GateInvariant

\* Shutdown never weakens the gate protocol before it forces the gate; the
\* alternation of the fetch loop and Poll survives even that.
GateUntilForced == Handshake /\ (~Forced => IInv)

\* unsubscribeOnce: nobody returns before the one release is done, which is
\* when the client is closed.
OneRelease ==
    /\ \A c \in Callers : caller[c] = "returned" => release = "done"
    /\ closed <=> release = "done"

\* The emit goroutine is gone before the fetch loop is touched.
BandwidthFirst ==
    release \notin {"no", "stopBandwidth"} => emitter \in {"none", "gone"}

\* The group is left once, after the fetch loop was cancelled and awaited, and
\* the client is not closed before the leave is answered.
LeaveInOrder ==
    /\ leave # "no" <=> release \in {"leaving", "close", "closing", "done"}
    /\ release = "done" => leave \in {"left", "failed"}

\* The leave's last revoke takes everything owned, and nothing is handed over
\* after it.
LeaveTakesEverything ==
    /\ leave = "revoking" => \/ stage = "none" /\ owned = {}
                             \/ stage # "none" /\ kind = "revoke" /\ parts = owned
    /\ leave \in {"left", "failed"} => stage = "none" /\ owned = {}

RInv ==
    /\ ReleaseTypeOK /\ GateUntilForced
    /\ OneRelease /\ BandwidthFirst /\ LeaveInOrder /\ LeaveTakesEverything
=============================================================================
