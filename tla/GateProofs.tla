----------------------------- MODULE GateProofs ------------------------------
(***************************************************************************)
(* The gate protocol is correct for every set of partitions, every log     *)
(* length and every bound: IInv is inductive, and the safety properties of *)
(* GateProtocol follow from it.  One lemma per part of IInv says that      *)
(* every step preserves it; the actions that do not touch the part come    *)
(* first, together.                                                        *)
(***************************************************************************)
EXTENDS GateInvariant, TLAPS

(* What a queue of assign events names. *)

\* Requeuing a failed batch in front of the queue loses no partition.
LEMMA QueuedConcat ==
    ASSUME NEW q \in Seq(SUBSET Partitions), NEW r \in Seq(SUBSET Partitions)
    PROVE  Queued(q \o r) = Queued(q) \cup Queued(r)
<1>1. ASSUME NEW p \in Queued(q \o r) PROVE p \in Queued(q) \cup Queued(r)
  BY <1>1 DEF Queued
<1>2. ASSUME NEW p \in Queued(q) PROVE p \in Queued(q \o r)
  BY <1>2 DEF Queued
<1>3. ASSUME NEW p \in Queued(r) PROVE p \in Queued(q \o r)
  <2>1. PICK i \in 1 .. Len(r) : p \in r[i]
    BY <1>3 DEF Queued
  <2>2. /\ Len(q) + i \in 1 .. Len(q \o r)
        /\ (q \o r)[Len(q) + i] = r[i]
    BY <2>1
  <2> QED
    BY <1>3, <2>1, <2>2 DEF Queued
<1> QED
  BY <1>1, <1>2, <1>3

\* OnAssigned's append adds exactly the assigned partitions.
LEMMA QueuedAppend ==
    ASSUME NEW q \in Seq(SUBSET Partitions), NEW S \in SUBSET Partitions
    PROVE  Queued(Append(q, S)) = Queued(q) \cup S
<1>1. ASSUME NEW p \in Queued(Append(q, S)) PROVE p \in Queued(q) \cup S
  BY <1>1 DEF Queued
<1>2. ASSUME NEW p \in Queued(q) PROVE p \in Queued(Append(q, S))
  BY <1>2 DEF Queued
<1>3. ASSUME NEW p \in S PROVE p \in Queued(Append(q, S))
  <2>1. /\ Len(q) + 1 \in 1 .. Len(Append(q, S))
        /\ Append(q, S)[Len(q) + 1] = S
    OBVIOUS
  <2> QED
    BY <1>3, <2>1 DEF Queued
<1> QED
  BY <1>1, <1>2, <1>3

\* An empty queue names no partition.
LEMMA QueuedEmpty == Queued(<<>>) = {}
  BY DEF Queued

-----------------------------------------------------------------------------

\* The Boolean variables stay Boolean (a part of TypeOK that needs no arithmetic).
LEMMA FlagsStep ==
    TypeOK /\ [Next]_vars =>
        /\ held' \in BOOLEAN /\ drainOk' \in BOOLEAN
        /\ cancelled' \in BOOLEAN /\ recordAwaitingDispatch' \in BOOLEAN
<1> DEFINE Flags == /\ held \in BOOLEAN /\ drainOk \in BOOLEAN
                    /\ cancelled \in BOOLEAN /\ recordAwaitingDispatch \in BOOLEAN
<1> SUFFICES ASSUME TypeOK, [Next]_vars PROVE Flags'
  OBVIOUS
<1>0. Flags
  BY DEF TypeOK
<1> USE DEF clientVars, rebVars, loopVars, pollVars, HeldByFetch, HeldAfterAllow, PollReturn
<1>1. CASE Subscribe \/ StartFetchLoop \/ DeliverCancelled \/ AwaitCancelled \/ ExitClose
           \/ DispatchSignal \/ SignalLoopGone \/ PollTakeStash \/ PollReceive \/ PollWait
           \/ PollTimeout \/ PollClosed \/ TakePending \/ LookupAssignmentOffsets
           \/ TriggerAssignFails \/ Dispatch \/ RebalanceEnter \/ OnAssigned \/ OnRevoked
           \/ OnLostNothing
  BY <1>1, <1>0, Zenon DEF Subscribe, StartFetchLoop, DeliverCancelled, AwaitCancelled,
     ExitClose, DispatchSignal, SignalLoopGone, PollTakeStash, PollReceive, PollWait,
     PollTimeout, PollClosed, TakePending, LookupAssignmentOffsets, TriggerAssignFails,
     Dispatch, RebalanceEnter, OnAssigned, OnRevoked, OnLostNothing
<1>2. CASE CancelContext
  BY <1>2, <1>0, Zenon DEF CancelContext
<1>3. CASE FetchErrors
  BY <1>3, <1>0, Zenon DEF FetchErrors
<1>4. CASE FetchCancelled
  BY <1>4, <1>0, Zenon DEF FetchCancelled
<1>5. CASE AllowRebalance
  BY <1>5, <1>0, Zenon DEF AllowRebalance
<1>6. CASE ExitAllow
  BY <1>6, <1>0, Zenon DEF ExitAllow
<1>7. CASE PollCall
  BY <1>7, <1>0, Zenon DEF PollCall
<1>8. CASE NothingPending
  BY <1>8, <1>0, Zenon DEF NothingPending
<1>9. CASE TriggerAssign
  BY <1>9, <1>0, Zenon DEF TriggerAssign
<1>10. CASE OnRevokedFails
  BY <1>10, <1>0, Zenon DEF OnRevokedFails
<1>11. CASE RebalanceDone
  BY <1>11, <1>0, Zenon DEF RebalanceDone
<1>12. ASSUME NEW p \in Partitions, FetchRecord(p)
      PROVE  Flags'
  BY <1>12, <1>0, Zenon DEF FetchRecord
<1>13. ASSUME NEW p \in Partitions, CommitOffsets(p)
      PROVE  Flags'
  BY <1>13, <1>0, Zenon DEF CommitOffsets
<1>14. ASSUME NEW p \in Partitions, OtherMemberCommits(p)
      PROVE  Flags'
  BY <1>14, <1>0, Zenon DEF OtherMemberCommits
<1>15. ASSUME NEW k \in Kinds, NEW ps \in SUBSET Partitions, RebalanceBegin(k, ps)
      PROVE  Flags'
  BY <1>15, <1>0, Zenon DEF RebalanceBegin
<1>16. CASE UNCHANGED vars
  BY <1>16, <1>0, Zenon DEF vars
<1> QED
  BY <1>1, <1>2, <1>3, <1>4, <1>5, <1>6, <1>7, <1>8, <1>9, <1>10, <1>11, <1>12, <1>13,
     <1>14, <1>15, <1>16
  DEF Next, LoopStep, PollStep, CallbackStep, GroupStep

\* Typing is preserved; dispatching a record needs that there is one (Handshake).
LEMMA TypeStep ==
    TypeOK /\ Handshake /\ [Next]_vars => TypeOK'
<1> SUFFICES ASSUME TypeOK, Handshake, [Next]_vars,
                    held' \in BOOLEAN, drainOk' \in BOOLEAN,
                    cancelled' \in BOOLEAN, recordAwaitingDispatch' \in BOOLEAN
             PROVE  TypeOK'
  BY FlagsStep
<1> USE BoundsAssumption DEF TypeOK, Offsets, Records, Unknown, LoopStates, ExitStates, PollStates,
       Stages, Kinds, StartOffset, PollReturn, clientVars, rebVars, loopVars, pollVars, engineVars
<1>1. CASE Subscribe \/ CancelContext \/ StartFetchLoop \/ FetchErrors \/ DeliverCancelled
  BY <1>1 DEF Subscribe, CancelContext, StartFetchLoop, FetchErrors, DeliverCancelled
<1>2. CASE AwaitCancelled \/ AllowRebalance \/ ExitAllow \/ ExitClose \/ PollCall
  BY <1>2 DEF AwaitCancelled, AllowRebalance, ExitAllow, ExitClose, PollCall
<1>3. CASE DispatchSignal \/ SignalLoopGone \/ PollWait \/ PollTimeout \/ PollClosed
  BY <1>3 DEF DispatchSignal, SignalLoopGone, PollWait, PollTimeout, PollClosed
<1>4. CASE NothingPending \/ RebalanceEnter \/ OnRevokedFails \/ OnLostNothing
  BY <1>4 DEF NothingPending, RebalanceEnter, OnRevokedFails, OnLostNothing
<1>5. CASE FetchCancelled
  <2>1. CASE position' = position
    BY <1>5, <2>1 DEF FetchCancelled
  <2>2. ASSUME NEW p \in Fetchable, position' = [position EXCEPT ![p] = @ + 1]
        PROVE  TypeOK'
    <3>1. position' \in [Partitions -> 0 .. LogEnd]
      BY <2>2 DEF Fetchable
    <3> QED
      BY <1>5, <3>1 DEF FetchCancelled
  <2> QED
    BY <1>5, <2>1, <2>2 DEF FetchCancelled
<1>6. CASE PollTakeStash
  BY <1>6 DEF PollTakeStash
<1>7. CASE PollReceive
  BY <1>7 DEF PollReceive
<1>8. CASE TakePending
  BY <1>8 DEF TakePending
<1>9. CASE LookupAssignmentOffsets
  BY <1>9 DEF LookupAssignmentOffsets, CommittedOffsets
<1>10. CASE TriggerAssign
  BY <1>10 DEF TriggerAssign, Queued
<1>11. CASE TriggerAssignFails
  BY <1>11 DEF TriggerAssignFails, Requeued, Stashed
<1>12. CASE Dispatch
  BY <1>12 DEF Dispatch, NextOffset, Handshake
<1>13. CASE OnAssigned
  BY <1>13 DEF OnAssigned
<1>14. CASE OnRevoked
  BY <1>14 DEF OnRevoked, Drained
<1>15. CASE RebalanceDone
  <2>1. /\ Restarted(position) \in [Partitions -> 0 .. LogEnd]
        /\ Restarted(dispatched) \in [Partitions -> 0 .. LogEnd]
    BY DEF Restarted
  <2>2. CASE kind = "assign"
    BY <1>15, <2>1, <2>2 DEF RebalanceDone
  <2>3. CASE kind # "assign"
    BY <1>15, <2>3 DEF RebalanceDone
  <2> QED
    BY <2>2, <2>3
<1>16. ASSUME NEW p \in Partitions, FetchRecord(p)
      PROVE  TypeOK'
  BY <1>16 DEF FetchRecord, Fetchable
<1>17. ASSUME NEW p \in Partitions, CommitOffsets(p)
      PROVE  TypeOK'
  BY <1>17 DEF CommitOffsets
<1>18. ASSUME NEW p \in Partitions, OtherMemberCommits(p)
      PROVE  TypeOK'
  BY <1>18 DEF OtherMemberCommits
<1>19. ASSUME NEW k \in Kinds, NEW ps \in SUBSET Partitions, RebalanceBegin(k, ps)
      PROVE  TypeOK'
  BY <1>19 DEF RebalanceBegin
<1>20. CASE UNCHANGED vars
  BY <1>20 DEF vars
<1> QED
  BY <1>1, <1>2, <1>3, <1>4, <1>5, <1>6, <1>7, <1>8, <1>9, <1>10, <1>11, <1>12, <1>13,
     <1>14, <1>15, <1>16, <1>17, <1>18, <1>19, <1>20
  DEF Next, LoopStep, PollStep, CallbackStep, GroupStep

\* Strict alternation of the fetch loop and Poll is preserved, gate or no gate.
LEMMA HandshakeStep ==
    TypeOK /\ Handshake /\ [Next]_vars => Handshake'
<1> SUFFICES ASSUME TypeOK, Handshake, [Next]_vars PROVE Handshake'
  OBVIOUS
<1> USE NoRecordAssumption DEF TypeOK, LoopStates, ExitStates, Serving, PollStates, Handshake,
       PollReturn, SignalDue, Stashed, clientVars, rebVars, loopVars, pollVars, engineVars
<1>1. CASE Subscribe \/ CancelContext \/ StartFetchLoop \/ FetchErrors
           \/ LookupAssignmentOffsets \/ RebalanceEnter \/ OnAssigned \/ OnRevoked
           \/ OnRevokedFails \/ OnLostNothing \/ RebalanceDone
  BY <1>1 DEF Subscribe, CancelContext, StartFetchLoop, FetchErrors,
     LookupAssignmentOffsets, RebalanceEnter, OnAssigned, OnRevoked, OnRevokedFails,
     OnLostNothing, RebalanceDone
<1>2. CASE FetchCancelled
  BY <1>2 DEF FetchCancelled
<1>3. CASE DeliverCancelled
  BY <1>3 DEF DeliverCancelled
<1>4. CASE AwaitCancelled
  BY <1>4 DEF AwaitCancelled
<1>5. CASE AllowRebalance
  BY <1>5 DEF AllowRebalance
<1>6. CASE ExitAllow
  BY <1>6 DEF ExitAllow
<1>7. CASE ExitClose
  BY <1>7 DEF ExitClose
<1>8. CASE PollCall
  BY <1>8 DEF PollCall
<1>9. CASE DispatchSignal
  BY <1>9 DEF DispatchSignal
<1>10. CASE SignalLoopGone
  BY <1>10 DEF SignalLoopGone
<1>11. CASE PollTakeStash
  BY <1>11 DEF PollTakeStash
<1>12. CASE PollReceive
  BY <1>12 DEF PollReceive
<1>13. CASE PollWait
  BY <1>13 DEF PollWait
<1>14. CASE PollTimeout
  BY <1>14 DEF PollTimeout
<1>15. CASE PollClosed
  BY <1>15 DEF PollClosed
<1>16. CASE NothingPending
  BY <1>16 DEF NothingPending
<1>17. CASE TakePending
  BY <1>17 DEF TakePending
<1>18. CASE TriggerAssign
  BY <1>18 DEF TriggerAssign
<1>19. CASE TriggerAssignFails
  BY <1>19 DEF TriggerAssignFails
<1>20. CASE Dispatch
  BY <1>20 DEF Dispatch
<1>21. ASSUME NEW p \in Partitions, FetchRecord(p)
      PROVE  Handshake'
  <2>1. fetched' \in Records
    BY <1>21, BoundsAssumption DEF FetchRecord, Fetchable, Records, Offsets
  <2> QED
    BY <1>21, <2>1 DEF FetchRecord
<1>22. ASSUME NEW p \in Partitions, CommitOffsets(p)
      PROVE  Handshake'
  BY <1>22 DEF CommitOffsets
<1>23. ASSUME NEW p \in Partitions, OtherMemberCommits(p)
      PROVE  Handshake'
  BY <1>23 DEF OtherMemberCommits
<1>24. ASSUME NEW k \in Kinds, NEW ps \in SUBSET Partitions, RebalanceBegin(k, ps)
      PROVE  Handshake'
  BY <1>24 DEF RebalanceBegin
<1>25. CASE UNCHANGED vars
  BY <1>25 DEF vars
<1> QED
  BY <1>1, <1>2, <1>3, <1>4, <1>5, <1>6, <1>7, <1>8, <1>9, <1>10, <1>11, <1>12, <1>13,
     <1>14, <1>15, <1>16, <1>17, <1>18, <1>19, <1>20, <1>21, <1>22, <1>23, <1>24, <1>25
  DEF Next, LoopStep, PollStep, CallbackStep, GroupStep

\* The gate is preserved: held from fetch to dispatch signal, and never during a callback.
LEMMA GateHeldStep ==
    TypeOK /\ Gate /\ [Next]_vars => Gate'
<1> SUFFICES ASSUME TypeOK, Gate, [Next]_vars PROVE Gate'
  OBVIOUS
<1> USE DEF TypeOK, LoopStates, ExitStates, Stages, Gate, GateFree, HeldByFetch, HeldAfterAllow,
       clientVars, rebVars, loopVars, pollVars, engineVars
<1>1. CASE Subscribe \/ CancelContext \/ StartFetchLoop \/ FetchErrors \/ DeliverCancelled
           \/ AwaitCancelled
  BY <1>1 DEF Subscribe, CancelContext, StartFetchLoop, FetchErrors, DeliverCancelled,
     AwaitCancelled
<1>2. CASE AllowRebalance \/ ExitAllow \/ ExitClose
  BY <1>2 DEF AllowRebalance, ExitAllow, ExitClose
<1>3. CASE FetchCancelled
  BY <1>3 DEF FetchCancelled
<1>4. CASE PollCall \/ DispatchSignal \/ SignalLoopGone \/ PollTakeStash \/ PollReceive
           \/ PollWait \/ PollTimeout
  BY <1>4 DEF PollCall, DispatchSignal, SignalLoopGone, PollTakeStash, PollReceive, PollWait,
     PollTimeout
<1>5. CASE PollClosed \/ NothingPending \/ TakePending \/ LookupAssignmentOffsets
           \/ TriggerAssign \/ TriggerAssignFails \/ Dispatch
  BY <1>5 DEF PollClosed, NothingPending, TakePending, LookupAssignmentOffsets,
     TriggerAssign, TriggerAssignFails, Dispatch
<1>6. CASE RebalanceEnter \/ OnAssigned \/ OnRevoked \/ OnRevokedFails \/ OnLostNothing
           \/ RebalanceDone
  BY <1>6 DEF RebalanceEnter, OnAssigned, OnRevoked, OnRevokedFails, OnLostNothing,
     RebalanceDone
<1>7. ASSUME NEW p \in Partitions, FetchRecord(p)
      PROVE  Gate'
  BY <1>7 DEF FetchRecord
<1>8. ASSUME NEW p \in Partitions, CommitOffsets(p) \/ OtherMemberCommits(p)
      PROVE  Gate'
  BY <1>8 DEF CommitOffsets, OtherMemberCommits
<1>9. ASSUME NEW k \in Kinds, NEW ps \in SUBSET Partitions, RebalanceBegin(k, ps)
      PROVE  Gate'
  BY <1>9 DEF RebalanceBegin
<1>10. CASE UNCHANGED vars
  BY <1>10 DEF vars
<1> QED
  BY <1>1, <1>2, <1>3, <1>4, <1>5, <1>6, <1>7, <1>8, <1>9, <1>10
  DEF Next, LoopStep, PollStep, CallbackStep, GroupStep

\* Callbacks keep to the partitions they concern.
LEMMA CallbackPartitionsStep ==
    TypeOK /\ CallbackPartitions /\ [Next]_vars => CallbackPartitions'
<1> SUFFICES ASSUME TypeOK, CallbackPartitions, [Next]_vars PROVE CallbackPartitions'
  OBVIOUS
<1> USE DEF TypeOK, CallbackPartitions, GateFree, Stages, Kinds, clientVars, rebVars, loopVars,
            pollVars, engineVars
<1>1. CASE Subscribe \/ CancelContext \/ StartFetchLoop \/ FetchErrors \/ FetchCancelled
           \/ DeliverCancelled \/ AwaitCancelled \/ AllowRebalance \/ ExitAllow \/ ExitClose
           \/ PollCall \/ DispatchSignal \/ SignalLoopGone \/ PollTakeStash \/ PollReceive
           \/ PollWait \/ PollTimeout \/ PollClosed \/ NothingPending \/ TakePending
           \/ LookupAssignmentOffsets \/ TriggerAssign \/ TriggerAssignFails \/ Dispatch
           \/ RebalanceEnter \/ OnAssigned \/ OnRevoked \/ OnRevokedFails \/ OnLostNothing
  BY <1>1 DEF Subscribe, CancelContext, StartFetchLoop, FetchErrors, FetchCancelled,
     DeliverCancelled, AwaitCancelled, AllowRebalance, ExitAllow, ExitClose, PollCall,
     DispatchSignal, SignalLoopGone, PollTakeStash, PollReceive, PollWait, PollTimeout,
     PollClosed, NothingPending, TakePending, LookupAssignmentOffsets, TriggerAssign,
     TriggerAssignFails, Dispatch, RebalanceEnter, OnAssigned, OnRevoked, OnRevokedFails,
     OnLostNothing
<1>2. CASE RebalanceDone
  BY <1>2 DEF RebalanceDone
<1>3. ASSUME NEW p \in Partitions, FetchRecord(p)
      PROVE  CallbackPartitions'
  BY <1>3 DEF FetchRecord
<1>4. ASSUME NEW p \in Partitions, CommitOffsets(p)
      PROVE  CallbackPartitions'
  BY <1>4 DEF CommitOffsets
<1>5. ASSUME NEW p \in Partitions, OtherMemberCommits(p)
      PROVE  CallbackPartitions'
  BY <1>5 DEF OtherMemberCommits
<1>6. ASSUME NEW k \in Kinds, NEW ps \in SUBSET Partitions, RebalanceBegin(k, ps)
      PROVE  CallbackPartitions'
  BY <1>6 DEF RebalanceBegin
<1>7. CASE UNCHANGED vars
  BY <1>7 DEF vars
<1> QED
  BY <1>1, <1>2, <1>3, <1>4, <1>5, <1>6, <1>7
  DEF Next, LoopStep, PollStep, CallbackStep, GroupStep

-----------------------------------------------------------------------------

\* While a callback runs no record is undispatched: the loop holds the gate from
\* the fetch to the dispatch signal.
LEMMA Exclusion == TypeOK /\ Handshake /\ Gate => GateExclusion
  BY DEF TypeOK, LoopStates, Handshake, Gate, GateExclusion, Undispatched, Serving, ExitStates

\* An owned partition stays known to the engine or on its way, and no record
\* overtakes its Assign.
LEMMA AssignStep ==
    /\ TypeOK /\ Handshake /\ Gate /\ CallbackPartitions /\ AssignsOnTheWay
    /\ AssignBeforeRecord /\ NoRecordLost /\ [Next]_vars
    => AssignsOnTheWay' /\ AssignBeforeRecord'
<1> SUFFICES ASSUME TypeOK, Handshake, Gate, CallbackPartitions, AssignsOnTheWay,
                    AssignBeforeRecord, NoRecordLost, [Next]_vars
             PROVE  AssignsOnTheWay' /\ AssignBeforeRecord'
  OBVIOUS
<1> USE QueuedEmpty, NoRecordAssumption
       DEF AssignsOnTheWay, AssignBeforeRecord, Serving, ExitStates, clientVars, rebVars,
           loopVars, pollVars, engineVars
<1>1. CASE Subscribe \/ CancelContext \/ StartFetchLoop \/ FetchErrors \/ FetchCancelled
           \/ DeliverCancelled \/ AwaitCancelled \/ AllowRebalance \/ ExitAllow \/ ExitClose
           \/ PollCall \/ DispatchSignal \/ SignalLoopGone \/ PollWait \/ PollTimeout
           \/ PollClosed \/ LookupAssignmentOffsets
  BY <1>1 DEF Subscribe, CancelContext, StartFetchLoop, FetchErrors, FetchCancelled,
     DeliverCancelled, AwaitCancelled, AllowRebalance, ExitAllow, ExitClose, PollCall,
     DispatchSignal, SignalLoopGone, PollWait, PollTimeout, PollClosed,
     LookupAssignmentOffsets
<1>2. CASE PollTakeStash
  BY <1>2 DEF PollTakeStash
<1>3. CASE PollReceive
  BY <1>3 DEF PollReceive
<1>4. CASE NothingPending
  BY <1>4 DEF NothingPending, AssignsPending, PollReturn, NoRecordLost, Undispatched, Gate,
     Handshake, TypeOK
<1>5. CASE TakePending
  BY <1>5 DEF TakePending, AssignsPending, Handshake, Gate
<1>6. CASE TriggerAssign
  BY <1>6 DEF TriggerAssign, PollReturn, NoRecordLost, Undispatched, Gate, Handshake, TypeOK
<1>7. CASE TriggerAssignFails
  <2>1. Queued(pendingAssigned') = Queued(batch) \cup Queued(pendingAssigned)
    BY <1>7, QueuedConcat DEF TypeOK, TriggerAssignFails, Requeued
  <2>2. record' = NoRecord /\ batch' = <<>> /\ poll' = "engine"
    BY <1>7 DEF TriggerAssignFails
  <2> QED
    BY <1>7, <2>1, <2>2 DEF TriggerAssignFails
<1>8. CASE Dispatch
  BY <1>8 DEF Dispatch
<1>9. CASE RebalanceEnter
  BY <1>9 DEF RebalanceEnter, Handshake, Gate
<1>10. CASE OnAssigned
  <2>1. Queued(pendingAssigned') = Queued(pendingAssigned) \cup parts
    BY <1>10, QueuedAppend DEF TypeOK, OnAssigned
  <2>2. ~(Serving /\ record # NoRecord)
    BY <1>10 DEF OnAssigned, Handshake, Gate
  <2> QED
    BY <1>10, <2>1, <2>2 DEF OnAssigned, CallbackPartitions
<1>11. CASE OnRevoked
  BY <1>11 DEF OnRevoked, Handshake, Gate
<1>12. CASE OnRevokedFails
  BY <1>12 DEF OnRevokedFails, Handshake, Gate
<1>13. CASE OnLostNothing
  BY <1>13 DEF OnLostNothing, Handshake, Gate
<1>14. CASE RebalanceDone
  BY <1>14 DEF RebalanceDone, CallbackPartitions, Handshake, Gate
<1>15. ASSUME NEW p \in Partitions, FetchRecord(p)
      PROVE  AssignsOnTheWay' /\ AssignBeforeRecord'
  BY <1>15 DEF FetchRecord
<1>16. ASSUME NEW p \in Partitions, CommitOffsets(p)
      PROVE  AssignsOnTheWay' /\ AssignBeforeRecord'
  BY <1>16 DEF CommitOffsets
<1>17. ASSUME NEW p \in Partitions, OtherMemberCommits(p)
      PROVE  AssignsOnTheWay' /\ AssignBeforeRecord'
  BY <1>17 DEF OtherMemberCommits
<1>18. ASSUME NEW k \in Kinds, NEW ps \in SUBSET Partitions, RebalanceBegin(k, ps)
      PROVE  AssignsOnTheWay' /\ AssignBeforeRecord'
  BY <1>18 DEF RebalanceBegin, GateFree
<1>19. CASE UNCHANGED vars
  BY <1>19 DEF vars
<1> QED
  BY <1>1, <1>2, <1>3, <1>4, <1>5, <1>6, <1>7, <1>8, <1>9, <1>10, <1>11, <1>12, <1>13,
     <1>14, <1>15, <1>16, <1>17, <1>18, <1>19
  DEF Next, LoopStep, PollStep, CallbackStep, GroupStep

\* Every record the client consumes reaches the engine once and in order.
LEMMA NoRecordLostStep ==
    /\ TypeOK /\ Handshake /\ Gate /\ CallbackPartitions
    /\ AssignBeforeRecord /\ NoRecordLost /\ [Next]_vars
    => NoRecordLost'
<1> SUFFICES ASSUME TypeOK, Handshake, Gate, CallbackPartitions, AssignBeforeRecord,
                    NoRecordLost, [Next]_vars
             PROVE  NoRecordLost'
  OBVIOUS
<1> USE DEF NoRecordLost, Undispatched, Serving, ExitStates, clientVars, rebVars, loopVars,
            pollVars, engineVars
<1>1. CASE Subscribe \/ CancelContext \/ StartFetchLoop \/ FetchErrors \/ AllowRebalance
           \/ ExitAllow \/ ExitClose \/ PollCall \/ DispatchSignal \/ SignalLoopGone \/ PollWait
           \/ PollTimeout \/ PollClosed \/ NothingPending \/ TakePending
           \/ LookupAssignmentOffsets \/ TriggerAssign \/ RebalanceEnter \/ OnAssigned
           \/ OnRevoked \/ OnRevokedFails \/ OnLostNothing
  BY <1>1 DEF Subscribe, CancelContext, StartFetchLoop, FetchErrors, AllowRebalance,
     ExitAllow, ExitClose, PollCall, DispatchSignal, SignalLoopGone, PollWait, PollTimeout,
     PollClosed, NothingPending, TakePending, LookupAssignmentOffsets, TriggerAssign,
     RebalanceEnter, OnAssigned, OnRevoked, OnRevokedFails, OnLostNothing
<1>2. CASE FetchCancelled
  BY <1>2 DEF FetchCancelled
<1>3. CASE DeliverCancelled
  BY <1>3 DEF DeliverCancelled
<1>4. CASE AwaitCancelled
  BY <1>4 DEF AwaitCancelled
<1>5. CASE PollTakeStash
  BY <1>5 DEF PollTakeStash, Handshake
<1>6. CASE PollReceive
  BY <1>6 DEF PollReceive, Handshake
<1>7. CASE TriggerAssignFails
  BY <1>7 DEF TriggerAssignFails, Stashed, Handshake
<1>8. CASE Dispatch
  <2> SUFFICES ASSUME Serving PROVE NoRecordLost'
    BY <1>8 DEF Dispatch
  <2>1. Undispatched = {record} /\ Undispatched' = {} /\ record \in Records
    BY <1>8 DEF Dispatch, Handshake, TypeOK
  <2> HIDE DEF Undispatched, Serving
  <2>2. dispatched' = [dispatched EXCEPT ![record.p] = record.o + 1]
    BY <1>8 DEF Dispatch, AssignBeforeRecord, NextOffset
  <2>3. /\ record.p \in owned /\ record.o = dispatched[record.p]
        /\ position[record.p] = dispatched[record.p] + 1
        /\ \A q \in owned \ {record.p} : position[q] = dispatched[q]
    BY <2>1, BoundsAssumption DEF TypeOK, Offsets
  <2>4. \A q \in owned : position[q] = dispatched'[q] /\ position[q] \in Nat
    BY <2>2, <2>3, BoundsAssumption DEF TypeOK, Offsets
  <2>5. owned' = owned /\ position' = position
    BY <1>8 DEF Dispatch
  <2> QED
    BY <2>1, <2>4, <2>5
<1>9. CASE RebalanceDone
  <2> SUFFICES ASSUME Serving PROVE NoRecordLost'
    BY <1>9 DEF RebalanceDone
  <2>1. Undispatched = {} /\ Undispatched' = {}
    BY <1>9, Exclusion DEF RebalanceDone, GateExclusion
  <2> HIDE DEF Undispatched, Serving
  <2>2. \A q \in owned : position[q] = dispatched[q]
    BY <2>1
  <2>3. CASE kind = "assign"
    <3>1. /\ owned' = owned \cup parts /\ owned' \subseteq Partitions
          /\ position' = Restarted(position) /\ dispatched' = Restarted(dispatched)
      BY <1>9, <2>3 DEF RebalanceDone, TypeOK
    <3>2. \A q \in owned' : position'[q] = dispatched'[q]
      BY <2>2, <3>1 DEF Restarted
    <3> QED
      BY <2>1, <3>2
  <2>4. CASE kind # "assign"
    BY <1>9, <2>1, <2>2, <2>4 DEF RebalanceDone
  <2> QED
    BY <2>3, <2>4
<1>10. ASSUME NEW p \in Partitions, FetchRecord(p)
      PROVE  NoRecordLost'
  <2>1. Serving /\ Undispatched = {}
    BY <1>10 DEF FetchRecord, Handshake
  <2> HIDE DEF Undispatched, Serving
  <2>2. fetched' \in Records
    BY <1>10, BoundsAssumption DEF FetchRecord, Fetchable, TypeOK, Records, Offsets
  <2>3. Undispatched' = {[p |-> p, o |-> position[p]]}
    BY <1>10, <2>1, <2>2, NoRecordAssumption DEF FetchRecord, Undispatched
  <2>4. \A q \in owned : position[q] = dispatched[q] /\ position[q] \in Nat
    BY <2>1, BoundsAssumption DEF TypeOK, Offsets
  <2>5. p \in owned /\ owned' = owned /\ dispatched' = dispatched
    BY <1>10 DEF FetchRecord, Fetchable
  <2>6. position'[p] = position[p] + 1 /\ \A q \in owned \ {p} : position'[q] = position[q]
    BY <1>10, <2>5 DEF FetchRecord, TypeOK
  <2>7. \A r \in Undispatched' :
           r.p \in owned' /\ r.o = dispatched'[r.p] /\ position'[r.p] = dispatched'[r.p] + 1
    BY <2>3, <2>4, <2>5, <2>6
  <2>8. \A q \in owned' : position'[q] = dispatched'[q] \/ \E r \in Undispatched' : r.p = q
    BY <2>3, <2>4, <2>5, <2>6
  <2> QED
    BY <2>7, <2>8
<1>11. ASSUME NEW p \in Partitions, CommitOffsets(p)
      PROVE  NoRecordLost'
  BY <1>11 DEF CommitOffsets
<1>12. ASSUME NEW p \in Partitions, OtherMemberCommits(p)
      PROVE  NoRecordLost'
  BY <1>12 DEF OtherMemberCommits
<1>13. ASSUME NEW k \in Kinds, NEW ps \in SUBSET Partitions, RebalanceBegin(k, ps)
      PROVE  NoRecordLost'
  BY <1>13 DEF RebalanceBegin
<1>14. CASE UNCHANGED vars
  BY <1>14 DEF vars
<1> QED
  BY <1>1, <1>2, <1>3, <1>4, <1>5, <1>6, <1>7, <1>8, <1>9, <1>10, <1>11, <1>12, <1>13, <1>14
  DEF Next, LoopStep, PollStep, CallbackStep, GroupStep

\* Nothing undispatched is committed, and a revoke returns with all of it committed.
LEMMA CommitStep ==
    /\ TypeOK /\ Handshake /\ Gate /\ CallbackPartitions /\ NoRecordLost
    /\ CommittedWasDispatched /\ CommitBeforeRelease /\ [Next]_vars
    => CommittedWasDispatched' /\ CommitBeforeRelease'
<1> SUFFICES ASSUME TypeOK, Handshake, Gate, CallbackPartitions, NoRecordLost,
                    CommittedWasDispatched, CommitBeforeRelease, [Next]_vars
             PROVE  CommittedWasDispatched' /\ CommitBeforeRelease'
  OBVIOUS
<1> USE DEF CommittedWasDispatched, CommitBeforeRelease, Serving, ExitStates, clientVars,
            rebVars, loopVars, pollVars, engineVars
<1>1. CASE Subscribe \/ CancelContext \/ StartFetchLoop \/ FetchErrors \/ DeliverCancelled
           \/ AwaitCancelled \/ AllowRebalance \/ ExitAllow
  BY <1>1 DEF Subscribe, CancelContext, StartFetchLoop, FetchErrors, DeliverCancelled,
     AwaitCancelled, AllowRebalance, ExitAllow
<1>2. CASE ExitClose \/ PollCall \/ DispatchSignal \/ SignalLoopGone \/ PollTakeStash
           \/ PollReceive \/ PollWait \/ PollTimeout
  BY <1>2 DEF ExitClose, PollCall, DispatchSignal, SignalLoopGone, PollTakeStash,
     PollReceive, PollWait, PollTimeout
<1>3. CASE PollClosed \/ NothingPending \/ TakePending \/ LookupAssignmentOffsets
           \/ TriggerAssign \/ TriggerAssignFails
  BY <1>3 DEF PollClosed, NothingPending, TakePending, LookupAssignmentOffsets,
     TriggerAssign, TriggerAssignFails
<1>4. CASE FetchCancelled
  BY <1>4 DEF FetchCancelled
<1>5. CASE Dispatch
  <2> SUFFICES ASSUME Serving PROVE CommittedWasDispatched'
    BY <1>5 DEF Dispatch
  <2>1. record \in Records /\ record.o = dispatched[record.p]
    BY <1>5 DEF Dispatch, Handshake, TypeOK, NoRecordLost, Undispatched
  <2> QED
    BY <1>5, <2>1, BoundsAssumption
    DEF Dispatch, NextOffset, TypeOK, Offsets, Records, StartOffset, Unknown
<1>6. CASE RebalanceEnter
  BY <1>6 DEF RebalanceEnter
<1>7. CASE OnAssigned
  BY <1>7 DEF OnAssigned
<1>8. CASE OnRevoked
  <2> SUFFICES ASSUME Serving PROVE CommittedWasDispatched' /\ CommitBeforeRelease'
    BY <1>8 DEF OnRevoked
  <2>1. \A q \in owned : position[q] = dispatched[q]
    BY <1>8, Exclusion DEF OnRevoked, GateExclusion, NoRecordLost
  <2>2. \A q \in owned : StartOffset(committed[q]) <= dispatched[q]
    BY <1>8 DEF OnRevoked
  <2>3. parts \subseteq owned
    BY <1>8 DEF OnRevoked, CallbackPartitions
  <2>4. \A q \in parts : StartOffset(committed'[q]) = dispatched[q]
    BY <1>8, <2>2, <2>3, BoundsAssumption
    DEF OnRevoked, Drained, TypeOK, Offsets, StartOffset, Unknown
  <2>5. \A q \in owned \ parts : committed'[q] = committed[q]
    BY <1>8 DEF OnRevoked, TypeOK
  <2>6. /\ owned' = owned /\ parts' = parts /\ position' = position
        /\ dispatched' = dispatched /\ Serving'
    BY <1>8 DEF OnRevoked
  <2>7. \A q \in parts : dispatched[q] \in Int
    BY BoundsAssumption DEF TypeOK, Offsets
  <2>8. CommittedWasDispatched'
    BY <2>2, <2>4, <2>5, <2>6, <2>7
  <2>9. CommitBeforeRelease'
    BY <2>1, <2>3, <2>4, <2>6
  <2> QED
    BY <2>8, <2>9
<1>9. CASE OnRevokedFails
  BY <1>9 DEF OnRevokedFails
<1>10. CASE OnLostNothing
  BY <1>10 DEF OnLostNothing
<1>11. CASE RebalanceDone
  <2> SUFFICES ASSUME Serving PROVE CommittedWasDispatched' /\ CommitBeforeRelease'
    BY <1>11 DEF RebalanceDone
  <2>1. stage' = "none" /\ parts' = {} /\ committed' = committed
    BY <1>11 DEF RebalanceDone
  <2>2. \A q \in owned' : StartOffset(committed[q]) <= dispatched'[q]
    <3>1. CASE kind = "assign"
      <4>1. owned' = owned \cup parts /\ dispatched' = Restarted(dispatched)
        BY <1>11, <3>1 DEF RebalanceDone
      <4>2. \A q \in owned : StartOffset(committed[q]) <= dispatched[q]
        BY <3>1
      <4>3. \A q \in Partitions : StartOffset(committed[q]) \in Int
        BY BoundsAssumption DEF TypeOK, Offsets, StartOffset, Unknown
      <4> QED
        BY <4>1, <4>2, <4>3 DEF Restarted, TypeOK
    <3>2. CASE kind # "assign"
      BY <1>11, <3>2 DEF RebalanceDone
    <3> QED
      BY <3>1, <3>2
  <2> QED
    BY <2>1, <2>2
<1>12. ASSUME NEW p \in Partitions, FetchRecord(p)
      PROVE  CommittedWasDispatched' /\ CommitBeforeRelease'
  BY <1>12 DEF FetchRecord, GateFree
<1>13. ASSUME NEW p \in Partitions, CommitOffsets(p)
      PROVE  CommittedWasDispatched' /\ CommitBeforeRelease'
  <2> SUFFICES ASSUME Serving PROVE CommittedWasDispatched' /\ CommitBeforeRelease'
    BY <1>13 DEF CommitOffsets
  <2>1. StartOffset(committed'[p]) = dispatched[p]
    BY <1>13, BoundsAssumption DEF CommitOffsets, TypeOK, Offsets, StartOffset, Unknown
  <2>2. \A q \in Partitions \ {p} : committed'[q] = committed[q]
    BY <1>13 DEF CommitOffsets, TypeOK
  <2>3. stage = "returned" => position[p] = dispatched[p]
    BY <1>13, Exclusion, BoundsAssumption
    DEF CommitOffsets, GateExclusion, NoRecordLost, TypeOK, Offsets
  <2> QED
    BY <1>13, <2>1, <2>2, <2>3, BoundsAssumption DEF CommitOffsets, TypeOK, Offsets
<1>14. ASSUME NEW p \in Partitions, OtherMemberCommits(p)
      PROVE  CommittedWasDispatched' /\ CommitBeforeRelease'
  BY <1>14 DEF OtherMemberCommits
<1>15. ASSUME NEW k \in Kinds, NEW ps \in SUBSET Partitions, RebalanceBegin(k, ps)
      PROVE  CommittedWasDispatched' /\ CommitBeforeRelease'
  BY <1>15 DEF RebalanceBegin, GateFree, CallbackPartitions
<1>16. CASE UNCHANGED vars
  BY <1>16 DEF vars
<1> QED
  BY <1>1, <1>2, <1>3, <1>4, <1>5, <1>6, <1>7, <1>8, <1>9, <1>10, <1>11, <1>12, <1>13,
     <1>14, <1>15, <1>16
  DEF Next, LoopStep, PollStep, CallbackStep, GroupStep

-----------------------------------------------------------------------------

\* The initial state satisfies the inductive invariant: nothing fetched, owned or
\* assigned, gate open.
LEMMA InitIInv == Init => IInv
<1> SUFFICES ASSUME Init PROVE IInv
  OBVIOUS
<1> USE BoundsAssumption DEF Init
<1>1. TypeOK
  <2>1. /\ held \in BOOLEAN /\ drainOk \in BOOLEAN
        /\ cancelled \in BOOLEAN /\ recordAwaitingDispatch \in BOOLEAN
    BY Zenon
  <2> QED
    BY <2>1 DEF TypeOK, Offsets, Unknown, LoopStates, ExitStates, PollStates, Stages, Kinds
<1>2. Handshake /\ Gate /\ CallbackPartitions
  BY DEF Handshake, Gate, CallbackPartitions, Serving, ExitStates
<1>3. AssignsOnTheWay /\ AssignBeforeRecord /\ NoRecordLost
  BY DEF AssignsOnTheWay, AssignBeforeRecord, NoRecordLost, Undispatched
<1>4. CommittedWasDispatched /\ CommitBeforeRelease
  BY DEF CommittedWasDispatched, CommitBeforeRelease
<1> QED
  BY <1>1, <1>2, <1>3, <1>4 DEF IInv

\* Every step preserves it.
LEMMA NextIInv == IInv /\ [Next]_vars => IInv'
  BY TypeStep, HandshakeStep, GateHeldStep, CallbackPartitionsStep, AssignStep,
     NoRecordLostStep, CommitStep
  DEF IInv

\* The inductive invariant of the gate protocol holds in every reachable state.
THEOREM Invariance == Spec => []IInv
<1> QED
  BY InitIInv, NextIInv, PTL DEF Spec

\* Type correctness of the adapter's, the client's and the engine's state.
THEOREM TypeCorrect == Spec => []TypeOK
<1>1. IInv => TypeOK
  BY DEF IInv
<1> QED
  BY Invariance, <1>1, PTL

\* The gate protocol of runFetchLoop and Poll: while the loop serves, a rebalance
\* callback only ever runs between records.
THEOREM CallbacksBetweenRecords == Spec => []GateExclusion
<1>1. IInv => GateExclusion
  BY Exclusion DEF IInv
<1> QED
  BY Invariance, <1>1, PTL

\* OnRevoked commits before it releases: after an error-free revoke the group's
\* offset is exactly the client's position.
THEOREM RevokeCommitsEverything == Spec => []CommitBeforeRelease
<1>1. IInv => CommitBeforeRelease
  BY DEF IInv
<1> QED
  BY Invariance, <1>1, PTL

\* Poll, its stash and the failed assign trigger lose no record and repeat none.
THEOREM DeliveryWithoutGaps == Spec => []NoRecordLost
<1>1. IInv => NoRecordLost
  BY DEF IInv
<1> QED
  BY Invariance, <1>1, PTL

\* processPendingRebalances runs early enough: no record reaches the engine before
\* the Assign of its partition.
THEOREM RecordsFollowAssigns == Spec => []AssignBeforeRecord
<1>1. IInv => AssignBeforeRecord
  BY DEF IInv
<1> QED
  BY Invariance, <1>1, PTL

\* Poll's dispatch signal always meets a fetch loop that is receiving or leaving.
THEOREM PollStaysResponsive == Spec => []PollNeverParks
<1>1. IInv => PollNeverParks
  BY DEF IInv, Handshake, PollNeverParks
<1> QED
  BY Invariance, <1>1, PTL

\* runFetchLoop's deferred AllowRebalance: no exit leaves the gate closed.
THEOREM ExitLeavesGateOpen == Spec => []GateOpenAfterExit
<1>1. IInv => GateOpenAfterExit
  BY DEF IInv, Gate, GateOpenAfterExit
<1> QED
  BY Invariance, <1>1, PTL
=============================================================================
