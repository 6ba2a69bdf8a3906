--------------------------- MODULE GateRefinement ---------------------------
(***************************************************************************)
(* GateProtocol implements Handoff: the gate, the channels, the stash and  *)
(* the assign queue add up to one record in flight and changes of hands    *)
(* between records.                                                        *)
(***************************************************************************)
EXTENDS GateInvariant

\* The record in flight is the fetch loop's, Poll's or the stash.
InFlight ==
    IF fetched # NoRecord THEN fetched
    ELSE IF record # NoRecord THEN record
    ELSE pendingRecord

H == INSTANCE Handoff WITH
        serving <- Serving,
        mine    <- owned,
        flight  <- InFlight,
        given   <- dispatched,
        saved   <- committed,
        phase   <- stage,
        change  <- kind,
        moving  <- parts,
        clean   <- drainOk

\* The adapter keeps Handoff's promise: whatever the interleaving of fetch
\* loop, Poll and callbacks (runFetchLoop, Poll, OnAssigned, OnRevoked), the
\* engine and the group see records one at a time and in order, rebalances
\* only between two of them, and revoked partitions saved exactly.
RefinesHandoff == H!Spec
=============================================================================
