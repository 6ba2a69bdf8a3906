------------------------ MODULE GateRefinementProofs ------------------------
(***************************************************************************)
(* GateProtocol implements Handoff for every instance.  A fetch is Take,   *)
(* the engine's dispatch is Give, the callback's entry is Begin; every     *)
(* other step of Poll and of the loop is a stutter until the loop exits.   *)
(***************************************************************************)
EXTENDS GateRefinement, GateProofs

\* Nothing is in flight exactly when no goroutine has a record in hand.
LEMMA NothingInFlight ==
    InFlight = NoRecord <=> fetched = NoRecord /\ record = NoRecord /\ pendingRecord = NoRecord
  BY DEF InFlight

\* The record in flight is one of the undispatched ones.
LEMMA FlightIsUndispatched == InFlight # NoRecord => InFlight \in Undispatched
  BY DEF InFlight, Undispatched

\* While the loop serves, no callback sees a record in flight.
LEMMA CallbackSeesNothing ==
    IInv /\ Serving /\ stage \in {"callback", "returned"} => InFlight = NoRecord
  BY Exclusion, NothingInFlight DEF IInv, GateExclusion, Undispatched

\* The drain's verdict is given by the callback's return and not before.
LEMMA VerdictInvariance == Spec => []DrainVerdict
<1>1. Init => DrainVerdict
  BY DEF Init, DrainVerdict
<1>2. DrainVerdict /\ [Next]_vars => DrainVerdict'
  <2> SUFFICES ASSUME DrainVerdict, [Next]_vars PROVE DrainVerdict'
    OBVIOUS
  <2>1. CASE UNCHANGED rebVars
    BY <2>1 DEF DrainVerdict, rebVars
  <2>2. CASE RebalanceEnter \/ OnAssigned \/ OnRevoked \/ OnLostNothing
    BY <2>2 DEF RebalanceEnter, OnAssigned, OnRevoked, OnLostNothing, DrainVerdict
  <2>3. CASE OnRevokedFails \/ RebalanceDone
    BY <2>3 DEF OnRevokedFails, RebalanceDone, DrainVerdict
  <2>4. ASSUME NEW k \in Kinds, NEW ps \in SUBSET Partitions, RebalanceBegin(k, ps)
        PROVE  DrainVerdict'
    BY <2>4 DEF RebalanceBegin, DrainVerdict
  <2>5. \/ UNCHANGED rebVars
        \/ RebalanceEnter \/ OnAssigned \/ OnRevoked \/ OnLostNothing
        \/ OnRevokedFails \/ RebalanceDone
        \/ \E k \in Kinds, ps \in SUBSET Partitions : RebalanceBegin(k, ps)
    BY DEF Next, LoopStep, PollStep, CallbackStep, GroupStep, vars, clientVars,
       Subscribe, CancelContext, StartFetchLoop, FetchErrors, FetchCancelled, DeliverCancelled,
       AwaitCancelled, AllowRebalance, ExitAllow, ExitClose, FetchRecord, PollCall,
       DispatchSignal, SignalLoopGone, PollTakeStash, PollReceive, PollWait, PollTimeout,
       PollClosed, NothingPending, TakePending, LookupAssignmentOffsets, TriggerAssign,
       TriggerAssignFails, Dispatch, CommitOffsets, OtherMemberCommits
  <2> QED
    BY <2>1, <2>2, <2>3, <2>4, <2>5
<1> QED
  BY <1>1, <1>2, PTL DEF Spec

\* The steps the abstract specification does not see: the group's state, the
\* ownership, the offsets, the record in flight and the loop's service stay.
LEMMA StutterStep ==
    ASSUME IInv,
           \/ Subscribe \/ CancelContext \/ StartFetchLoop \/ FetchErrors \/ AllowRebalance
           \/ PollCall \/ DispatchSignal \/ SignalLoopGone \/ PollTakeStash \/ PollReceive
           \/ PollWait \/ PollTimeout \/ PollClosed \/ NothingPending \/ TakePending
           \/ LookupAssignmentOffsets \/ TriggerAssign \/ TriggerAssignFails
           \/ UNCHANGED vars
    PROVE  UNCHANGED H!vars
<1> USE DEF IInv, Handshake, InFlight, Serving, ExitStates, H!vars, H!group, rebVars, clientVars
<1>1. CASE Subscribe \/ CancelContext \/ StartFetchLoop \/ AllowRebalance
  BY <1>1 DEF Subscribe, CancelContext, StartFetchLoop, AllowRebalance, pollVars, engineVars
<1>2. CASE FetchErrors \/ UNCHANGED vars
  BY <1>2 DEF FetchErrors, vars, loopVars, pollVars, engineVars
<1>3. CASE PollCall \/ DispatchSignal \/ SignalLoopGone
  BY <1>3 DEF PollCall, DispatchSignal, SignalLoopGone, loopVars, engineVars
<1>4. CASE PollTakeStash \/ PollReceive
  BY <1>4 DEF PollTakeStash, PollReceive, loopVars, engineVars
<1>5. CASE PollWait \/ PollTimeout \/ PollClosed \/ NothingPending
  BY <1>5 DEF PollWait, PollTimeout, PollClosed, NothingPending, loopVars, engineVars
<1>6. CASE TakePending \/ LookupAssignmentOffsets \/ TriggerAssign
  BY <1>6 DEF TakePending, LookupAssignmentOffsets, TriggerAssign, loopVars, engineVars
<1>7. CASE TriggerAssignFails
  BY <1>7 DEF TriggerAssignFails, Stashed, loopVars, engineVars
<1> QED
  BY <1>1, <1>2, <1>3, <1>4, <1>5, <1>6, <1>7

-----------------------------------------------------------------------------

\* The loop's exits: whatever it drops, it drops while it stops.
LEMMA ExitStep ==
    ASSUME IInv,
           FetchCancelled \/ DeliverCancelled \/ AwaitCancelled \/ ExitAllow \/ ExitClose
    PROVE  [H!Next]_(H!vars)
<1> USE DEF IInv, Handshake, InFlight, Serving, ExitStates, H!vars, H!group, rebVars, clientVars,
            H!Next, H!Serve
<1>1. CASE FetchCancelled \/ DeliverCancelled \/ AwaitCancelled
  <2>1. H!Stop
    BY <1>1 DEF FetchCancelled, DeliverCancelled, AwaitCancelled, pollVars, engineVars, H!Stop
  <2>2. Serving
    BY <1>1 DEF FetchCancelled, DeliverCancelled, AwaitCancelled
  <2> QED
    BY <2>1, <2>2
<1>2. CASE ExitAllow \/ ExitClose
  BY <1>2 DEF ExitAllow, ExitClose, pollVars, engineVars
<1> QED
  BY <1>1, <1>2

\* After the loop has begun to exit no record enters the flight and no committed
\* offset moves back, whatever Poll, the callbacks and the engine still do.
LEMMA StoppedStep ==
    ASSUME IInv, ~Serving, [Next]_vars
    PROVE  [H!Next]_(H!vars)
<1> USE DEF IInv
<1>1. ~Serving'
  BY DEF Serving, ExitStates, Next, LoopStep, PollStep, CallbackStep, GroupStep, vars,
     Subscribe, CancelContext, StartFetchLoop, FetchErrors, FetchCancelled, DeliverCancelled,
     AwaitCancelled, AllowRebalance, ExitAllow, ExitClose, FetchRecord, PollCall, DispatchSignal,
     SignalLoopGone, PollTakeStash, PollReceive, PollWait, PollTimeout, PollClosed,
     NothingPending, TakePending, LookupAssignmentOffsets, TriggerAssign, TriggerAssignFails,
     Dispatch, RebalanceEnter, OnAssigned, OnRevoked, OnRevokedFails, OnLostNothing,
     RebalanceDone, RebalanceBegin, CommitOffsets, OtherMemberCommits, loopVars
<1>2. InFlight' \in {InFlight, NoRecord}
  BY DEF InFlight, Handshake, Serving, ExitStates, Next, LoopStep, PollStep, CallbackStep,
     GroupStep, vars,
     Subscribe, CancelContext, StartFetchLoop, FetchErrors, FetchCancelled, DeliverCancelled,
     AwaitCancelled, AllowRebalance, ExitAllow, ExitClose, FetchRecord, PollCall, DispatchSignal,
     SignalLoopGone, PollTakeStash, PollReceive, PollWait, PollTimeout, PollClosed,
     NothingPending, TakePending, LookupAssignmentOffsets, TriggerAssign, TriggerAssignFails,
     Dispatch, RebalanceEnter, OnAssigned, OnRevoked, OnRevokedFails, OnLostNothing,
     RebalanceDone, RebalanceBegin, CommitOffsets, OtherMemberCommits, loopVars, pollVars, Stashed
<1>3. \A p \in Partitions : H!From(committed[p]) <= H!From(committed'[p])
  <2> USE BoundsAssumption DEF TypeOK, Offsets, H!From, StartOffset, Unknown
  <2>1. CASE UNCHANGED committed
    BY <2>1
  <2>2. CASE OnRevoked
    BY <2>2 DEF OnRevoked, Drained
  <2>3. ASSUME NEW p \in Partitions, CommitOffsets(p)
        PROVE  \A q \in Partitions : H!From(committed[q]) <= H!From(committed'[q])
    BY <2>3 DEF CommitOffsets
  <2>4. ASSUME NEW p \in Partitions, OtherMemberCommits(p)
        PROVE  \A q \in Partitions : H!From(committed[q]) <= H!From(committed'[q])
    BY <2>4 DEF OtherMemberCommits
  <2>5. UNCHANGED committed \/ OnRevoked
            \/ \E p \in Partitions : CommitOffsets(p) \/ OtherMemberCommits(p)
    BY DEF Next, LoopStep, PollStep, CallbackStep, GroupStep, vars, clientVars,
       Subscribe, CancelContext, StartFetchLoop, FetchErrors, FetchCancelled, DeliverCancelled,
       AwaitCancelled, AllowRebalance, ExitAllow, ExitClose, FetchRecord, PollCall,
       DispatchSignal, SignalLoopGone, PollTakeStash, PollReceive, PollWait, PollTimeout,
       PollClosed, NothingPending, TakePending, LookupAssignmentOffsets, TriggerAssign,
       TriggerAssignFails, Dispatch, RebalanceEnter, OnAssigned, OnRevokedFails, OnLostNothing,
       RebalanceDone, RebalanceBegin
  <2> QED
    BY <2>1, <2>2, <2>3, <2>4, <2>5
<1> QED
  BY <1>1, <1>2, <1>3 DEF H!Next, H!Stopped

\* A fetch takes exactly the next record; the engine's dispatch gives it.
LEMMA RecordStep ==
    ASSUME IInv, Serving,
           Dispatch \/ \E p \in Partitions : FetchRecord(p)
    PROVE  H!Give \/ \E p \in Partitions : H!Take(p)
<1> USE DEF IInv, H!group, rebVars, clientVars
<1>1. ASSUME NEW p \in Partitions, FetchRecord(p) PROVE H!Take(p)
  <2>1. fetched = NoRecord /\ record = NoRecord /\ pendingRecord = NoRecord
    BY <1>1 DEF FetchRecord, Handshake
  <2>2. position[p] = dispatched[p] /\ p \in owned
    BY <1>1, <2>1 DEF FetchRecord, Fetchable, NoRecordLost, Undispatched
  <2>3. fetched' \in Records
    BY <1>1, BoundsAssumption DEF FetchRecord, Fetchable, Records, TypeOK, Offsets
  <2>4. InFlight' = [p |-> p, o |-> dispatched[p]]
    BY <1>1, <2>2, <2>3, NoRecordAssumption DEF FetchRecord, InFlight
  <2>5. Serving' = Serving
    BY <1>1 DEF FetchRecord, Serving, ExitStates
  <2> QED
    BY <1>1, <2>1, <2>2, <2>4, <2>5, NothingInFlight
    DEF FetchRecord, GateFree, H!Take, engineVars
<1>2. CASE Dispatch
  <2>1. /\ record # NoRecord /\ record.p \in engine
        /\ fetched = NoRecord /\ pendingRecord = NoRecord
    BY <1>2 DEF Dispatch, Handshake, AssignBeforeRecord
  <2>2. InFlight = record /\ InFlight' = NoRecord
    BY <1>2, <2>1 DEF Dispatch, InFlight, loopVars
  <2>3. record.p \in owned /\ record.o = dispatched[record.p]
    BY <2>1 DEF NoRecordLost, Undispatched
  <2>4. stage \in {"none", "waiting"}
    BY <2>1, <2>2, CallbackSeesNothing DEF TypeOK, Stages
  <2>5. Serving' = Serving
    BY <1>2 DEF Dispatch, Serving, loopVars
  <2> QED
    BY <1>2, <2>1, <2>2, <2>3, <2>4, <2>5 DEF Dispatch, NextOffset, H!Give
<1> QED
  BY <1>1, <1>2

\* The callbacks: they begin between records, a clean revoke saves exactly what
\* was given, and what is assigned continues where it was saved.
LEMMA CallbackRefines ==
    ASSUME IInv, DrainVerdict, Serving, CallbackStep
    PROVE  H!Begin \/ H!Settle \/ H!Complete
<1> USE DEF IInv, H!group
<1>1. Serving' = Serving /\ InFlight' = InFlight
  BY DEF CallbackStep, RebalanceEnter, OnAssigned, OnRevoked, OnRevokedFails, OnLostNothing,
     RebalanceDone, Serving, InFlight, loopVars, pollVars
<1>2. CASE RebalanceEnter
  <2>1. InFlight = NoRecord
    BY <1>2, NothingInFlight DEF RebalanceEnter, Gate, Handshake
  <2> QED
    BY <1>1, <1>2, <2>1 DEF RebalanceEnter, H!Begin, engineVars
<1>3. CASE OnAssigned
  <2>1. drainOk'
    BY <1>3 DEF OnAssigned, DrainVerdict
  <2> QED
    BY <1>1, <1>3, <2>1, CallbackSeesNothing DEF OnAssigned, H!Settle, engineVars
<1>4. CASE OnRevoked
  <2>1. \A p \in parts : p \in owned /\ StartOffset(committed[p]) <= dispatched[p]
    BY <1>4 DEF OnRevoked, CallbackPartitions, CommittedWasDispatched
  <2>2. \A p \in parts : H!From(committed'[p]) = dispatched[p]
    BY <1>4, <2>1, BoundsAssumption
    DEF OnRevoked, Drained, H!From, StartOffset, Unknown, TypeOK, Offsets
  <2>3. \A p \in Partitions \ parts : committed'[p] = committed[p]
    BY <1>4 DEF OnRevoked
  <2>4. drainOk'
    BY <1>4 DEF OnRevoked, DrainVerdict
  <2> QED
    BY <1>1, <1>4, <2>2, <2>3, <2>4, CallbackSeesNothing DEF OnRevoked, H!Settle
<1>5. CASE OnRevokedFails
  BY <1>1, <1>5, CallbackSeesNothing DEF OnRevokedFails, H!Settle
<1>6. CASE OnLostNothing
  BY <1>1, <1>6, CallbackSeesNothing DEF OnLostNothing, H!Settle, engineVars
<1>7. CASE RebalanceDone
  BY <1>1, <1>7, CallbackSeesNothing
  DEF RebalanceDone, Restarted, StartOffset, H!From, H!Complete
<1> QED
  BY <1>2, <1>3, <1>4, <1>5, <1>6, <1>7 DEF CallbackStep

\* The group's own steps are the abstract ones.
LEMMA GroupRefines ==
    ASSUME IInv, GroupStep
    PROVE  \/ \E p \in Partitions : H!Save(p) \/ H!OtherSaves(p)
           \/ \E k \in {"assign", "revoke", "lost"}, ps \in SUBSET Partitions : H!Ask(k, ps)
<1> USE DEF IInv, H!group
<1>1. Serving' = Serving /\ InFlight' = InFlight
  BY DEF GroupStep, RebalanceBegin, CommitOffsets, OtherMemberCommits, Serving, InFlight,
     loopVars, pollVars
<1>2. ASSUME NEW k \in Kinds, NEW ps \in SUBSET Partitions, RebalanceBegin(k, ps)
      PROVE  H!Ask(k, ps)
  BY <1>1, <1>2 DEF RebalanceBegin, GateFree, H!Ask, engineVars
<1>3. ASSUME NEW p \in Partitions, CommitOffsets(p) PROVE H!Save(p)
  <2>1. H!From(committed[p]) < dispatched[p]
    BY <1>3, BoundsAssumption DEF CommitOffsets, TypeOK, Offsets, StartOffset, Unknown, H!From
  <2> QED
    BY <1>1, <1>3, <2>1 DEF CommitOffsets, H!Save, rebVars, engineVars
<1>4. ASSUME NEW p \in Partitions, OtherMemberCommits(p) PROVE H!OtherSaves(p)
  BY <1>1, <1>4
  DEF OtherMemberCommits, H!OtherSaves, rebVars, engineVars, StartOffset, H!From, TypeOK
<1> QED
  BY <1>2, <1>3, <1>4 DEF GroupStep, Kinds

-----------------------------------------------------------------------------

\* The adapter's gate protocol (runFetchLoop, Poll, OnAssigned, OnRevoked)
\* implements Handoff, for every set of partitions and every bound.
THEOREM GateImplementsHandoff == Spec => RefinesHandoff
<1>1. Init => H!Init
  BY DEF Init, H!Init, InFlight, Serving, ExitStates
<1>2. IInv /\ DrainVerdict /\ [Next]_vars => [H!Next]_(H!vars)
  <2> SUFFICES ASSUME IInv, DrainVerdict, [Next]_vars PROVE [H!Next]_(H!vars)
    OBVIOUS
  <2>1. CASE ~Serving
    BY <2>1, StoppedStep
  <2>2. CASE Serving
    BY <2>2, StutterStep, ExitStep, RecordStep, CallbackRefines, GroupRefines
    DEF Next, LoopStep, PollStep, H!Next, H!Serve
  <2> QED
    BY <2>1, <2>2
<1> QED
  BY Invariance, VerdictInvariance, <1>1, <1>2, PTL DEF Spec, RefinesHandoff, H!Spec
=============================================================================
