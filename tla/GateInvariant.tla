--------------------------- MODULE GateInvariant ----------------------------
(***************************************************************************)
(* The inductive invariant behind GateProtocol's safety properties, in     *)
(* named parts.  TLC checks it on the small instances, GateProofs proves   *)
(* it for every instance.                                                  *)
(***************************************************************************)
EXTENDS GateProtocol

\* Strict alternation: the record is in exactly one place, and while the loop
\* awaits the dispatch signal the polling side owes it, and only then.
Handshake ==
    /\ fetched # NoRecord <=> loop = "deliver"
    /\ record # NoRecord => poll \in {"pending", "lookup", "trigger", "dispatch"}
    /\ poll = "dispatch" => record # NoRecord /\ recordAwaitingDispatch
    /\ recordAwaitingDispatch => poll \in {"dispatch", "engine"}
    /\ pendingRecord # NoRecord => poll \in {"engine", "recv"} /\ ~recordAwaitingDispatch
    /\ Serving =>
          (loop = "await" <=>
              \/ record # NoRecord \/ pendingRecord # NoRecord
              \/ recordAwaitingDispatch \/ poll = "signal")

\* The gate: held from fetch to dispatch signal, and never during a callback.
Gate ==
    /\ loop \in {"deliver", "await", "release"} => held
    /\ stage \in {"callback", "returned"} => ~held
    /\ loop \in ExitStates \ {"exitAllow"} => ~held

\* A callback revokes what is owned and assigns what is not.
CallbackPartitions ==
    /\ stage = "none" => parts = {}
    /\ kind = "assign" => parts \cap owned = {}
    /\ kind # "assign" => parts \subseteq owned

\* Every owned partition is known to the engine or on its way to it, and the
\* assigns that matter to a record in Poll's hands are all in the batch.
AssignsOnTheWay ==
    LET known == engine \cup Queued(pendingAssigned) \cup Queued(batch)
        leaving == IF stage = "returned" THEN parts ELSE {}
    IN  /\ owned \ leaving \subseteq known
        /\ stage = "returned" /\ kind = "assign" => parts \subseteq known
        /\ poll \notin {"lookup", "trigger"} => batch = <<>>
        /\ Serving /\ record # NoRecord /\ poll \in {"lookup", "trigger"} => pendingAssigned = <<>>

\* Nothing this member owns is committed beyond what it dispatched.
CommittedWasDispatched ==
    Serving => \A p \in owned :
        (kind = "lost" /\ p \in parts) \/ StartOffset(committed[p]) <= dispatched[p]

\* Only a returned revoke or lost callback has failed.
DrainVerdict == drainOk \/ (stage = "returned" /\ kind # "assign")

IInv ==
    /\ TypeOK /\ Handshake /\ Gate /\ CallbackPartitions /\ AssignsOnTheWay
    /\ AssignBeforeRecord /\ NoRecordLost /\ CommittedWasDispatched /\ CommitBeforeRelease
=============================================================================
