---------------------------- MODULE ReleaseProofs ----------------------------
(***************************************************************************)
(* Shutdown is correct for every set of callers and partitions and every   *)
(* bound: RInv is inductive, and Release's safety properties follow.  Most *)
(* of shutdown's steps are steps of the gate protocol or leave its state   *)
(* alone, so GateProofs' lemmas carry over; the five that are not are      *)
(* taken one by one.                                                       *)
(***************************************************************************)
EXTENDS ReleaseInvariant, GateProofs

\* What a step of the composed system may do to the gate protocol's state.
LEMMA GateView ==
    ASSUME ReleaseTypeOK, [ReleaseNext]_allVars
    PROVE  \/ [Next]_vars
           \/ FetchClosed \/ FetchForeignRecord \/ LeaveRevokes
           \/ CloseAllowingRebalance \/ ForcedEnter
<1>1. CASE GateStep
  BY <1>1 DEF GateStep
<1>2. CASE EngineStops
  BY <1>2 DEF EngineStops
<1>3. CASE FetchErrorsBail
  BY <1>3 DEF FetchErrorsBail, Next, LoopStep
<1>4. ASSUME NEW c \in Callers, Unsubscribe(c) \/ UnsubscribeReturn(c)
      PROVE  [Next]_vars
  BY <1>4 DEF Unsubscribe, UnsubscribeReturn
<1>5. CASE StopBandwidth \/ FetchLoopStopped \/ FetchLoopStopTimeout \/ LeaveGroup
           \/ LeaveGroupReturns \/ LeaveGroupTimeout \/ CloseReturns \/ LeaveAnswered
  BY <1>5 DEF StopBandwidth, FetchLoopStopped, FetchLoopStopTimeout, LeaveGroup,
     LeaveGroupReturns, LeaveGroupTimeout, CloseReturns, LeaveAnswered, ReleaseTo
<1>6. CASE CancelFetchLoop
  <2>1. CASE cancelled' = cancelled
    BY <1>6, <2>1 DEF CancelFetchLoop, vars, loopVars
  <2>2. CASE cancelled' # cancelled
    <3>1. cancelled' = TRUE /\ ~cancelled
      BY <1>6, <2>2, Zenon DEF CancelFetchLoop, ReleaseTypeOK, TypeOK
    <3>2. CancelContext
      BY <1>6, <3>1 DEF CancelFetchLoop, CancelContext
    <3> QED
      BY <3>2 DEF Next
  <2> QED
    BY <2>1, <2>2
<1>7. CASE EmitTick \/ EmitReturn \/ EmitQuit
  BY <1>7 DEF EmitTick, EmitReturn, EmitQuit, EmitTo
<1>8. CASE UNCHANGED allVars
  BY <1>8 DEF allVars
<1> QED
  BY <1>1, <1>2, <1>3, <1>4, <1>5, <1>6, <1>7, <1>8
  DEF ReleaseNext, ReleaseBrokerStep, LeaveStep

-----------------------------------------------------------------------------
(* The gate protocol's state *)

\* Typing and strict alternation survive shutdown, the forced gate included.
LEMMA HandshakeAlways ==
    ASSUME ReleaseTypeOK, Handshake, [ReleaseNext]_allVars
    PROVE  TypeOK' /\ Handshake'
<1> USE DEF clientVars, rebVars, loopVars, pollVars, engineVars
<1>1. TypeOK
  BY DEF ReleaseTypeOK
<1>2. CASE [Next]_vars
  BY <1>1, <1>2, TypeStep, HandshakeStep
<1>3. CASE FetchClosed \/ FetchForeignRecord
  <2>1. held' \in BOOLEAN /\ drainOk' \in BOOLEAN /\ cancelled' \in BOOLEAN
        /\ recordAwaitingDispatch' \in BOOLEAN
    BY <1>1, <1>3, Zenon DEF TypeOK, FetchClosed, FetchForeignRecord
  <2>2. TypeOK'
    BY <1>1, <1>3, <2>1 DEF TypeOK, LoopStates, ExitStates, FetchClosed, FetchForeignRecord
  <2>3. Handshake'
    BY <1>3 DEF Handshake, Serving, ExitStates, FetchClosed, FetchForeignRecord
  <2> QED
    BY <2>2, <2>3
<1>4. CASE LeaveRevokes \/ ForcedEnter
  <2>1. held' \in BOOLEAN /\ drainOk' \in BOOLEAN /\ cancelled' \in BOOLEAN
        /\ recordAwaitingDispatch' \in BOOLEAN
    BY <1>1, <1>4, Zenon DEF TypeOK, LeaveRevokes, ForcedEnter
  <2>2. TypeOK'
    BY <1>1, <1>4, <2>1 DEF TypeOK, Stages, Kinds, LeaveRevokes, ForcedEnter
  <2>3. Handshake'
    BY <1>4 DEF Handshake, Serving, LeaveRevokes, ForcedEnter
  <2> QED
    BY <2>2, <2>3
<1>5. CASE CloseAllowingRebalance
  <2>1. held' \in BOOLEAN /\ drainOk' \in BOOLEAN /\ cancelled' \in BOOLEAN
        /\ recordAwaitingDispatch' \in BOOLEAN
    BY <1>1, <1>5, Zenon DEF TypeOK, CloseAllowingRebalance
  <2>2. TypeOK'
    BY <1>1, <1>5, <2>1 DEF TypeOK, CloseAllowingRebalance
  <2>3. Handshake'
    BY <1>5 DEF Handshake, Serving, CloseAllowingRebalance
  <2> QED
    BY <2>2, <2>3
<1> QED
  BY <1>2, <1>3, <1>4, <1>5, GateView

\* A foreign record leaves the gate's invariant as a cancelled poll does.
LEMMA ForeignRecordKeepsGate ==
    ASSUME IInv, TypeOK', Handshake', FetchForeignRecord
    PROVE  IInv'
<1> USE DEF FetchForeignRecord, IInv, rebVars, pollVars, engineVars
<1>1. Gate' /\ CallbackPartitions'
  BY DEF Gate, CallbackPartitions, GateFree, ExitStates
<1>2. AssignsOnTheWay'
  BY DEF AssignsOnTheWay, Serving, ExitStates
<1>3. ~Serving'
  BY DEF Serving, ExitStates
<1> QED
  BY <1>1, <1>2, <1>3
  DEF AssignBeforeRecord, NoRecordLost, CommittedWasDispatched, CommitBeforeRelease

\* The leave's revoke keeps it as any rebalance that begins does.
LEMMA LeaveRevokesKeepsGate ==
    ASSUME IInv, TypeOK', Handshake', LeaveRevokes
    PROVE  IInv'
<1> USE DEF LeaveRevokes, IInv, GateFree, loopVars, pollVars, engineVars
<1>1. Gate' /\ CallbackPartitions'
  BY DEF Gate, CallbackPartitions
<1>2. AssignsOnTheWay' /\ AssignBeforeRecord'
  BY DEF AssignsOnTheWay, AssignBeforeRecord, Serving
<1>3. NoRecordLost'
  BY DEF NoRecordLost, Undispatched, Serving
<1>4. CommittedWasDispatched' /\ CommitBeforeRelease'
  BY DEF CommittedWasDispatched, CommitBeforeRelease, CallbackPartitions, Serving
<1> QED
  BY <1>1, <1>2, <1>3, <1>4

\* Once the gate is forced it stays so.
LEMMA ForcedForGood ==
    ASSUME [ReleaseNext]_allVars, Forced
    PROVE  Forced'
<1> USE DEF Forced, ReleaseNext, ReleaseBrokerStep, LeaveStep, allVars, shutdownVars
<1> QED
  BY DEF GateStep, EngineStops, FetchClosed, FetchForeignRecord, FetchErrorsBail, Unsubscribe,
     UnsubscribeReturn, StopBandwidth, CancelFetchLoop, FetchLoopStopped, FetchLoopStopTimeout,
     LeaveGroup, LeaveGroupReturns, LeaveGroupTimeout, CloseAllowingRebalance, CloseReturns,
     LeaveRevokes, LeaveAnswered, ForcedEnter, EmitTick, EmitReturn, EmitQuit, ReleaseTo, EmitTo

\* Until it is forced, the gate's invariant is kept.
LEMMA GateUntilForcedStep ==
    ASSUME ReleaseTypeOK, GateUntilForced, OneRelease, [ReleaseNext]_allVars
    PROVE  GateUntilForced'
<1>1. TypeOK' /\ Handshake'
  BY HandshakeAlways DEF GateUntilForced
<1> SUFFICES ASSUME ~Forced' PROVE IInv'
  BY <1>1 DEF GateUntilForced
<1>2. ~Forced /\ IInv
  BY ForcedForGood DEF GateUntilForced
<1>3. ~FetchClosed
  BY <1>2 DEF FetchClosed, OneRelease, Forced
<1>4. ~CloseAllowingRebalance /\ ~ForcedEnter
  BY <1>2 DEF CloseAllowingRebalance, ForcedEnter, Forced
<1> QED
  BY <1>1, <1>2, <1>3, <1>4, GateView, NextIInv, ForeignRecordKeepsGate, LeaveRevokesKeepsGate

-----------------------------------------------------------------------------
(* Shutdown's own state *)

\* Typing of what shutdown keeps beside the gate protocol.
LEMMA ReleaseTypeStep ==
    ASSUME ReleaseTypeOK, Handshake, [ReleaseNext]_allVars
    PROVE  ReleaseTypeOK'
<1> USE DEF ReleaseTypeOK, shutdownVars
<1>1. TypeOK'
  BY HandshakeAlways
<1>2. closed' \in BOOLEAN /\ bailed' \in BOOLEAN /\ stopped' \in BOOLEAN
  <2>1. /\ closed' = closed \/ closed' = TRUE
        /\ bailed' = bailed \/ bailed' = TRUE
        /\ stopped' = stopped \/ stopped' = TRUE
    BY DEF ReleaseNext, ReleaseBrokerStep, LeaveStep, allVars,
       GateStep, EngineStops, FetchClosed, FetchForeignRecord, FetchErrorsBail, Unsubscribe,
       UnsubscribeReturn, StopBandwidth, CancelFetchLoop, FetchLoopStopped, FetchLoopStopTimeout,
       LeaveGroup, LeaveGroupReturns, LeaveGroupTimeout, CloseAllowingRebalance, CloseReturns,
       LeaveRevokes, LeaveAnswered, ForcedEnter, EmitTick, EmitReturn, EmitQuit, ReleaseTo, EmitTo
  <2> QED
    BY <2>1, Zenon
<1>3. caller' \in [Callers -> {"idle", "inside", "returned"}]
  <2>1. ASSUME NEW c \in Callers, Unsubscribe(c) \/ UnsubscribeReturn(c)
        PROVE  caller' \in [Callers -> {"idle", "inside", "returned"}]
    BY <2>1 DEF Unsubscribe, UnsubscribeReturn
  <2>2. CASE UNCHANGED caller
    BY <2>2
  <2> QED
    BY <2>1, <2>2 DEF ReleaseNext, ReleaseBrokerStep, LeaveStep, allVars,
       GateStep, EngineStops, FetchClosed, FetchForeignRecord, FetchErrorsBail,
       StopBandwidth, CancelFetchLoop, FetchLoopStopped, FetchLoopStopTimeout,
       LeaveGroup, LeaveGroupReturns, LeaveGroupTimeout, CloseAllowingRebalance, CloseReturns,
       LeaveRevokes, LeaveAnswered, ForcedEnter, EmitTick, EmitReturn, EmitQuit, ReleaseTo, EmitTo
<1>4. /\ release' \in ReleaseStates
      /\ leave' \in {"no", "requested", "revoking", "left", "failed"}
      /\ emitter' \in {"none", "ticking", "emitting", "gone"}
  <2>1. /\ release \in ReleaseStates
        /\ leave \in {"no", "requested", "revoking", "left", "failed"}
        /\ emitter \in {"none", "ticking", "emitting", "gone"}
    OBVIOUS
  <2> HIDE DEF ReleaseTypeOK
  <2> QED
    BY <2>1 DEF ReleaseStates, ReleaseNext, ReleaseBrokerStep, LeaveStep, allVars,
       GateStep, EngineStops, FetchClosed, FetchForeignRecord, FetchErrorsBail, Unsubscribe,
       UnsubscribeReturn, StopBandwidth, CancelFetchLoop, FetchLoopStopped, FetchLoopStopTimeout,
       LeaveGroup, LeaveGroupReturns, LeaveGroupTimeout, CloseAllowingRebalance, CloseReturns,
       LeaveRevokes, LeaveAnswered, ForcedEnter, EmitTick, EmitReturn, EmitQuit, ReleaseTo, EmitTo
<1> QED
  BY <1>1, <1>2, <1>3, <1>4

\* The one release: its order, its callers and what it leaves behind.
LEMMA ReleaseOrderStep ==
    ASSUME ReleaseTypeOK, OneRelease, BandwidthFirst, LeaveInOrder, [ReleaseNext]_allVars
    PROVE  OneRelease' /\ BandwidthFirst' /\ LeaveInOrder'
<1> USE DEF ReleaseTypeOK, ReleaseStates, OneRelease, BandwidthFirst, LeaveInOrder, shutdownVars
<1>1. CASE GateStep \/ EngineStops \/ FetchClosed \/ FetchForeignRecord \/ FetchErrorsBail
  BY <1>1 DEF GateStep, EngineStops, FetchClosed, FetchForeignRecord, FetchErrorsBail
<1>2. ASSUME NEW c \in Callers, Unsubscribe(c)
      PROVE  OneRelease' /\ BandwidthFirst' /\ LeaveInOrder'
  BY <1>2 DEF Unsubscribe
<1>3. ASSUME NEW c \in Callers, UnsubscribeReturn(c)
      PROVE  OneRelease' /\ BandwidthFirst' /\ LeaveInOrder'
  BY <1>3 DEF UnsubscribeReturn
<1>4. CASE StopBandwidth \/ CancelFetchLoop \/ FetchLoopStopped \/ FetchLoopStopTimeout
  BY <1>4 DEF StopBandwidth, CancelFetchLoop, FetchLoopStopped, FetchLoopStopTimeout, ReleaseTo
<1>5. CASE LeaveGroup \/ LeaveGroupReturns \/ LeaveGroupTimeout
  BY <1>5 DEF LeaveGroup, LeaveGroupReturns, LeaveGroupTimeout, ReleaseTo
<1>6. CASE CloseAllowingRebalance
  BY <1>6 DEF CloseAllowingRebalance
<1>7. CASE CloseReturns
  BY <1>7 DEF CloseReturns
<1>8. CASE LeaveRevokes \/ LeaveAnswered \/ ForcedEnter
  BY <1>8 DEF LeaveRevokes, LeaveAnswered, ForcedEnter
<1>9. CASE EmitTick \/ EmitReturn \/ EmitQuit
  BY <1>9 DEF EmitTick, EmitReturn, EmitQuit, EmitTo
<1>10. CASE UNCHANGED allVars
  BY <1>10 DEF allVars
<1> QED
  BY <1>1, <1>2, <1>3, <1>4, <1>5, <1>6, <1>7, <1>8, <1>9, <1>10
  DEF ReleaseNext, ReleaseBrokerStep, LeaveStep

\* No rebalance begins while the member leaves; the callback in progress runs
\* its course.
LEMMA GateStepWhileLeaving ==
    ASSUME ReleaseTypeOK, GateStep, leave # "no"
    PROVE  \/ UNCHANGED <<stage, kind, parts, owned>>
           \/ stage # "none" /\ stage' # "none" /\ UNCHANGED <<kind, parts, owned>>
           \/ stage = "returned" /\ RebalanceDone
<1> USE DEF clientVars, rebVars
<1>1. ASSUME NEW k \in Kinds, NEW ps \in SUBSET Partitions, RebalanceBegin(k, ps) PROVE FALSE
  BY <1>1, BoundsAssumption DEF GateStep, RebalanceBegin, ReleaseTypeOK, TypeOK
<1>2. CASE Subscribe \/ CancelContext
  BY <1>2 DEF Subscribe, CancelContext
<1>3. CASE LoopStep
  BY <1>3 DEF LoopStep, StartFetchLoop, FetchErrors, FetchCancelled, DeliverCancelled,
     AwaitCancelled, AllowRebalance, ExitAllow, ExitClose, FetchRecord
<1>4. CASE PollStep
  BY <1>4 DEF PollStep, PollCall, DispatchSignal, SignalLoopGone, PollTakeStash, PollReceive,
     PollWait, PollTimeout, PollClosed, NothingPending, TakePending, LookupAssignmentOffsets,
     TriggerAssign, TriggerAssignFails, Dispatch
<1>5. CASE RebalanceEnter \/ OnAssigned \/ OnRevoked \/ OnRevokedFails \/ OnLostNothing
  BY <1>5 DEF RebalanceEnter, OnAssigned, OnRevoked, OnRevokedFails, OnLostNothing
<1>6. CASE RebalanceDone
  BY <1>6 DEF RebalanceDone
<1>7. ASSUME NEW p \in Partitions, CommitOffsets(p) \/ OtherMemberCommits(p)
      PROVE  UNCHANGED <<stage, kind, parts, owned>>
  BY <1>7 DEF CommitOffsets, OtherMemberCommits
<1> QED
  BY <1>1, <1>2, <1>3, <1>4, <1>5, <1>6, <1>7 DEF GateStep, Next, CallbackStep, GroupStep

\* The leave's revoke takes all that is owned, and the member owns nothing after.
LEMMA LeaveTakesStep ==
    ASSUME ReleaseTypeOK, LeaveInOrder, LeaveTakesEverything, [ReleaseNext]_allVars
    PROVE  LeaveTakesEverything'
<1> USE DEF LeaveTakesEverything, rebVars, shutdownVars
<1>1. CASE GateStep
  <2>1. leave' = leave
    BY <1>1 DEF GateStep
  <2>2. CASE leave = "no"
    BY <2>1, <2>2
  <2>3. CASE leave # "no"
    BY <1>1, <2>1, <2>3, GateStepWhileLeaving DEF RebalanceDone
  <2> QED
    BY <2>2, <2>3
<1>2. CASE FetchClosed \/ FetchForeignRecord
  BY <1>2 DEF FetchClosed, FetchForeignRecord
<1>3. CASE FetchErrorsBail
  BY <1>3 DEF FetchErrorsBail, FetchErrors
<1>4. CASE LeaveRevokes
  BY <1>4 DEF LeaveRevokes
<1>5. CASE LeaveAnswered
  BY <1>5 DEF LeaveAnswered, GateFree, vars, clientVars
<1>6. CASE ForcedEnter
  BY <1>6 DEF ForcedEnter
<1>7. CASE CloseAllowingRebalance
  BY <1>7 DEF CloseAllowingRebalance
<1>8. CASE LeaveGroup
  BY <1>8 DEF LeaveGroup
<1>9. CASE UNCHANGED <<vars, leave>>
  BY <1>9 DEF vars, clientVars
<1>10. CASE CancelFetchLoop
  BY <1>10 DEF CancelFetchLoop, clientVars
<1> QED
  BY <1>1, <1>2, <1>3, <1>4, <1>5, <1>6, <1>7, <1>8, <1>9, <1>10
  DEF ReleaseNext, ReleaseBrokerStep, LeaveStep, EngineStops, Unsubscribe, UnsubscribeReturn,
      StopBandwidth, FetchLoopStopped, FetchLoopStopTimeout, LeaveGroupReturns,
      LeaveGroupTimeout, CloseReturns, EmitTick, EmitReturn, EmitQuit, ReleaseTo, EmitTo, allVars

-----------------------------------------------------------------------------

\* Before any Unsubscribe the invariant holds ...
LEMMA InitRInv == ReleaseInit => RInv
<1> SUFFICES ASSUME ReleaseInit PROVE RInv
  OBVIOUS
<1>1. IInv
  BY InitIInv DEF ReleaseInit
<1>2. closed \in BOOLEAN /\ bailed \in BOOLEAN /\ stopped \in BOOLEAN
  BY Zenon DEF ReleaseInit
<1>3. ReleaseTypeOK
  BY <1>1, <1>2, ReleaseAssumption DEF ReleaseInit, ReleaseTypeOK, ReleaseStates, IInv
<1>4. GateUntilForced
  BY <1>1 DEF GateUntilForced, IInv
<1>5. OneRelease /\ BandwidthFirst /\ LeaveInOrder /\ LeaveTakesEverything
  BY DEF ReleaseInit, OneRelease, BandwidthFirst, LeaveInOrder, LeaveTakesEverything
<1> QED
  BY <1>3, <1>4, <1>5 DEF RInv

\* ... and every step of the gate protocol, of the shutdown, of the leave and of
\* the emit goroutine keeps it.
LEMMA NextRInv == RInv /\ [ReleaseNext]_allVars => RInv'
<1> SUFFICES ASSUME RInv, [ReleaseNext]_allVars PROVE RInv'
  OBVIOUS
<1>1. ReleaseTypeOK'
  BY ReleaseTypeStep DEF RInv, GateUntilForced
<1>2. GateUntilForced'
  BY GateUntilForcedStep DEF RInv
<1>3. OneRelease' /\ BandwidthFirst' /\ LeaveInOrder'
  BY ReleaseOrderStep DEF RInv
<1>4. LeaveTakesEverything'
  BY LeaveTakesStep DEF RInv
<1> QED
  BY <1>1, <1>2, <1>3, <1>4 DEF RInv

\* The inductive invariant of the shutdown holds in every reachable state.
THEOREM ReleaseInvariance == ReleaseSpec => []RInv
<1> QED
  BY InitRInv, NextRInv, PTL DEF ReleaseSpec

\* Type correctness of the shutdown and of the gate protocol under it.
THEOREM ReleaseTypes == ReleaseSpec => []ReleaseTypeOK
<1>1. RInv => ReleaseTypeOK
  BY DEF RInv
<1> QED
  BY <1>1, ReleaseInvariance, PTL

\* Unsubscribe's contract, whoever calls it and however the fetch loop, the
\* leave and the callbacks interleave: a caller that returns finds everything
\* released.
THEOREM UnsubscribeReleasesEverything == ReleaseSpec => []ReturnedMeansReleased
<1>1. RInv => ReturnedMeansReleased
  BY DEF RInv, OneRelease, BandwidthFirst, LeaveInOrder, LeaveTakesEverything,
     ReturnedMeansReleased, GateFree
<1> QED
  BY <1>1, ReleaseInvariance, PTL

\* Shutdown lets no callback run beside a record before it forces the gate.
THEOREM ShutdownKeepsExclusion == ReleaseSpec => []ExclusionUntilForced
<1>1. RInv => ExclusionUntilForced
  BY Exclusion DEF RInv, GateUntilForced, IInv, ExclusionUntilForced, GateExclusion
<1> QED
  BY <1>1, ReleaseInvariance, PTL

\* Shutdown weakens none of the delivery promises before it forces the gate.
THEOREM ShutdownKeepsDelivery == ReleaseSpec => []DeliveryUntilForced
<1>1. RInv => DeliveryUntilForced
  BY DEF RInv, GateUntilForced, IInv, DeliveryUntilForced
<1> QED
  BY <1>1, ReleaseInvariance, PTL
=============================================================================
