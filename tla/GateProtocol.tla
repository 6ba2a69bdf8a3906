---------------------------- MODULE GateProtocol ----------------------------
(***************************************************************************)
(* The rebalance gate of the franz-go adapter.                             *)
(*                                                                         *)
(* Three goroutines meet here: the fetch loop (runFetchLoop), the only     *)
(* caller of PollRecords and AllowRebalance; the engine's polling loop,    *)
(* which calls Poll and dispatches what it returns; and the group          *)
(* goroutine of the client, which runs OnAssigned, OnRevoked and OnLost.   *)
(* A fetched record keeps a poller registered inside the client, and no    *)
(* callback starts while one is registered (held).  The adapter releases   *)
(* it only when the next Poll call proves the record dispatched.           *)
(*                                                                         *)
(* External, modelled from how the adapter uses it: the client's gate and  *)
(* partition ownership, the group's committed offsets, the other members   *)
(* of the group, and the engine behind TriggerRebalance.                   *)
(***************************************************************************)
EXTENDS Integers, Sequences

CONSTANTS
    Partitions,          \* partitions of the one topic consumed
    LogEnd,              \* records in each partition's log (bound)
    MaxRebalances,       \* rebalance callbacks explored (bound)
    MaxTriggerFailures,  \* assign triggers the engine refuses (bound)
    ErrorFetchHolds,     \* may an error-only fetch keep its poller registered?
    NoRecord             \* "no record": nil

ASSUME BoundsAssumption ==
    /\ LogEnd \in Nat
    /\ MaxRebalances \in Nat
    /\ MaxTriggerFailures \in Nat
    /\ ErrorFetchHolds \subseteq BOOLEAN

Offsets == 0 .. LogEnd
Records == [p : Partitions, o : 0 .. LogEnd - 1]

ASSUME NoRecordAssumption == NoRecord \notin Records

\* The sentinel for "no committed offset known" (rebalance.go: -1, never 0).
Unknown == -1

VARIABLES
    \* the client and the group (external)
    held,                    \* a finished fetch left a poller registered
    stage,                   \* the rebalance callback in progress, if any:
    kind, parts,             \* what it does to which partitions,
    drainOk,                 \* and whether its drain and commit succeeded
    owned,                   \* partitions this member may fetch
    position,                \* next offset the client fetches, per partition
    committed,               \* group's committed offset, per partition
    rebalances,              \* callbacks begun so far
    \* the fetch goroutine
    loop,                    \* where runFetchLoop stands
    fetched,                 \* the record it has in hand
    cancelled,               \* fetchCtx is done
    \* the polling goroutine, inside Poll and the engine's dispatch
    poll,                    \* where Poll stands
    record,                  \* Poll's local record, then its result
    batch,                   \* assigns swapped out of pendingAssigned
    looked,                  \* the offset looked up for each partition
    recordAwaitingDispatch,
    pendingRecord,
    \* shared under a.mu
    pendingAssigned,         \* queued assign events, oldest first
    \* the engine (external)
    engine,                  \* partitions whose Assign it has accepted
    dispatched,              \* next offset its pipeline expects
    failures                 \* assign triggers refused so far

rebVars == <<stage, kind, parts, drainOk>>
clientVars == <<held, rebVars, owned, position, committed, rebalances>>
loopVars   == <<loop, fetched, cancelled>>
pollVars   == <<poll, record, batch, looked, recordAwaitingDispatch, pendingRecord>>
engineVars == <<engine, dispatched, failures>>
vars == <<clientVars, loopVars, pollVars, pendingAssigned, engineVars>>

\* Where runFetchLoop stands: not started; fetchCancel set but the channels
\* not yet made; inside PollRecords; offering a record on fetchedRecords;
\* awaiting recordDispatched; about to allow rebalances; and the three
\* deferred calls on the way out, in the order they run.
ExitStates == {"exitAllow", "exitRecords", "exitDone", "done"}
LoopStates == {"off", "starting", "poll", "deliver", "await", "release"} \cup ExitStates

\* fetchedRecords is closed from "exitDone" on, fetchLoopDone from "done" on.
RecordsClosed == loop \in {"exitDone", "done"}

PollStates == {"engine", "signal", "recv", "wait", "pending", "lookup", "trigger", "dispatch"}

Stages == {"none", "waiting", "callback", "returned"}
Kinds  == {"assign", "revoke", "lost"}

\* Where consumption of a partition starts, given its committed offset.
StartOffset(c) == IF c = Unknown THEN 0 ELSE c

\* The partitions named by a queue of assign events.
Queued(q) == {p \in Partitions : \E i \in 1 .. Len(q) : p \in q[i]}

\* A rebalance neither waiting nor running: PollRecords may register a poller.
GateFree == stage = "none"

TypeOK ==
    /\ held \in BOOLEAN
    /\ stage \in Stages
    /\ kind \in Kinds
    /\ parts \in SUBSET Partitions
    /\ drainOk \in BOOLEAN
    /\ owned \in SUBSET Partitions
    /\ position \in [Partitions -> Offsets]
    /\ committed \in [Partitions -> Offsets \cup {Unknown}]
    /\ rebalances \in 0 .. MaxRebalances
    /\ loop \in LoopStates
    /\ fetched \in Records \cup {NoRecord}
    /\ cancelled \in BOOLEAN
    /\ poll \in PollStates
    /\ record \in Records \cup {NoRecord}
    /\ batch \in Seq(SUBSET Partitions)
    /\ looked \in [Partitions -> Offsets \cup {Unknown}]
    /\ recordAwaitingDispatch \in BOOLEAN
    /\ pendingRecord \in Records \cup {NoRecord}
    /\ pendingAssigned \in Seq(SUBSET Partitions)
    /\ engine \in SUBSET Partitions
    /\ dispatched \in [Partitions -> Offsets]
    /\ failures \in 0 .. MaxTriggerFailures

Init ==
    /\ held = FALSE
    /\ stage = "none" /\ kind = "assign" /\ parts = {} /\ drainOk = TRUE
    /\ owned = {}
    /\ position = [p \in Partitions |-> 0]
    /\ committed = [p \in Partitions |-> Unknown]
    /\ rebalances = 0
    /\ loop = "off"
    /\ fetched = NoRecord
    /\ cancelled = FALSE
    /\ poll = "engine"
    /\ record = NoRecord
    /\ batch = <<>>
    /\ looked = [p \in Partitions |-> Unknown]
    /\ recordAwaitingDispatch = FALSE
    /\ pendingRecord = NoRecord
    /\ pendingAssigned = <<>>
    /\ engine = {}
    /\ dispatched = [p \in Partitions |-> 0]
    /\ failures = 0

-----------------------------------------------------------------------------
(* The fetch goroutine *)

\* Subscribe, through fetchStart.Do(startFetchLoop): fetchCtx and fetchCancel
\* are assigned first ...
Subscribe ==
    /\ loop = "off"
    /\ loop' = "starting"
    /\ UNCHANGED <<clientVars, fetched, cancelled, pollVars, pendingAssigned, engineVars>>

\* ... then the channels, and the goroutine is launched.
StartFetchLoop ==
    /\ loop = "starting"
    /\ loop' = "poll"
    /\ UNCHANGED <<clientVars, fetched, cancelled, pollVars, pendingAssigned, engineVars>>

\* The host cancels the consumer's context, from which fetchCtx derives.
CancelContext ==
    /\ ~cancelled
    /\ cancelled' = TRUE
    /\ UNCHANGED <<clientVars, loop, fetched, pollVars, pendingAssigned, engineVars>>

\* Faulty variants: a client built without BlockRebalanceOnPoll, and an
\* AllowRebalance that is not called.
NoBlockOnPoll == FALSE
AllowForgotten == held

\* The gate after a fetch that returned records, and after AllowRebalance.
HeldByFetch == TRUE
HeldAfterAllow == FALSE

\* Partitions with a record left for the client to return.
Fetchable == {p \in owned : position[p] < LogEnd}

\* fetchNext returns the first record of a fetch; its poller stays registered.
FetchRecord(p) ==
    /\ loop = "poll" /\ ~cancelled /\ GateFree
    /\ p \in Fetchable
    /\ fetched' = [p |-> p, o |-> position[p]]
    /\ position' = [position EXCEPT ![p] = @ + 1]
    /\ held' = HeldByFetch
    /\ loop' = "deliver"
    /\ UNCHANGED <<rebVars, owned, committed, rebalances, cancelled, pollVars,
                   pendingAssigned, engineVars>>

\* fetchNext returns no record from a fetch that carried only partition
\* errors: handlePollErrors absorbs them and the loop polls again without
\* calling AllowRebalance.
FetchErrors ==
    /\ loop = "poll" /\ ~cancelled /\ GateFree
    /\ \E h \in ErrorFetchHolds : held' = (held \/ h)
    /\ UNCHANGED <<rebVars, owned, position, committed, rebalances, loopVars,
                   pollVars, pendingAssigned, engineVars>>

\* Faulty variant: fetchNext does not look at fetchCtx.
FetchIgnoresCancel == FALSE

\* A poll that returns after cancellation: fetchNext reports exit whatever the
\* fetch holds, so a record in it is consumed and never delivered.  Even the
\* fake fetch of a cancelled poll may keep its poller registered.
FetchCancelled ==
    /\ loop = "poll" /\ cancelled /\ GateFree
    /\ loop' = "exitAllow"
    /\ \/ position' = position /\ held' \in {held, TRUE}
       \/ \E p \in Fetchable : position' = [position EXCEPT ![p] = @ + 1] /\ held' = TRUE
    /\ UNCHANGED <<rebVars, owned, committed, rebalances, fetched, cancelled,
                   pollVars, pendingAssigned, engineVars>>

\* Select in runFetchLoop, with a record in hand: the context ends first and
\* the record is dropped.
DeliverCancelled ==
    /\ loop = "deliver" /\ cancelled
    /\ fetched' = NoRecord
    /\ loop' = "exitAllow"
    /\ UNCHANGED <<clientVars, cancelled, pollVars, pendingAssigned, engineVars>>

\* Faulty variant: a bare receive of recordDispatched.
AwaitIgnoresCancel == FALSE

\* Select in runFetchLoop, awaiting the dispatch signal: the context ends first.
AwaitCancelled ==
    /\ loop = "await" /\ cancelled
    /\ loop' = "exitAllow"
    /\ UNCHANGED <<clientVars, fetched, cancelled, pollVars, pendingAssigned, engineVars>>

\* The loop opens the gate and polls again.
AllowRebalance ==
    /\ loop = "release"
    /\ held' = HeldAfterAllow
    /\ loop' = "poll"
    /\ UNCHANGED <<rebVars, owned, position, committed, rebalances, fetched, cancelled,
                   pollVars, pendingAssigned, engineVars>>

\* The deferred calls: open the gate, close fetchedRecords, close fetchLoopDone.
ExitAllow ==
    /\ loop = "exitAllow"
    /\ held' = HeldAfterAllow
    /\ loop' = "exitRecords"
    /\ UNCHANGED <<rebVars, owned, position, committed, rebalances, fetched, cancelled,
                   pollVars, pendingAssigned, engineVars>>

ExitClose ==
    /\ \/ loop = "exitRecords" /\ loop' = "exitDone"
       \/ loop = "exitDone" /\ loop' = "done"
    /\ UNCHANGED <<clientVars, fetched, cancelled, pollVars, pendingAssigned, engineVars>>

-----------------------------------------------------------------------------
(* The polling goroutine *)

\* Faulty variant: Poll signals whether or not a record awaits dispatch.
SignalAlways == TRUE

\* Poll owes the fetch loop a dispatch signal.
SignalDue == recordAwaitingDispatch

\* The engine calls Poll, having dispatched the previous record.
PollCall ==
    /\ poll = "engine"
    /\ poll' = IF SignalDue THEN "signal" ELSE "recv"
    /\ recordAwaitingDispatch' = FALSE
    /\ UNCHANGED <<clientVars, loopVars, record, batch, looked, pendingRecord,
                   pendingAssigned, engineVars>>

\* recordDispatched, unbuffered: Poll's send meets the fetch loop's receive.
DispatchSignal ==
    /\ poll = "signal" /\ loop = "await"
    /\ poll' = "recv"
    /\ loop' = "release"
    /\ UNCHANGED <<clientVars, fetched, cancelled, record, batch, looked,
                   recordAwaitingDispatch, pendingRecord, pendingAssigned, engineVars>>

\* Faulty variant: a bare send on recordDispatched, with no way out.
SignalHasNoWayOut == FALSE

\* The signal's other arm: the fetch loop is gone.
SignalLoopGone ==
    /\ poll = "signal" /\ loop = "done"
    /\ poll' = "recv"
    /\ UNCHANGED <<clientVars, loopVars, record, batch, looked,
                   recordAwaitingDispatch, pendingRecord, pendingAssigned, engineVars>>

\* A stashed record takes precedence over the channel.
PollTakeStash ==
    /\ poll = "recv" /\ pendingRecord # NoRecord
    /\ record' = pendingRecord
    /\ pendingRecord' = NoRecord
    /\ poll' = "pending"
    /\ UNCHANGED <<clientVars, loopVars, batch, looked, recordAwaitingDispatch,
                   pendingAssigned, engineVars>>

\* fetchedRecords, unbuffered: the loop's send meets Poll's receive, on the
\* fast path ("recv") or in the select with the timer ("wait").
PollReceive ==
    /\ poll \in {"recv", "wait"} /\ pendingRecord = NoRecord
    /\ loop = "deliver"
    /\ record' = fetched
    /\ fetched' = NoRecord
    /\ loop' = "await"
    /\ poll' = "pending"
    /\ UNCHANGED <<clientVars, cancelled, batch, looked, recordAwaitingDispatch,
                   pendingRecord, pendingAssigned, engineVars>>

\* The fast path finds nothing: wait with a timer.
PollWait ==
    /\ poll = "recv" /\ pendingRecord = NoRecord
    /\ loop # "deliver" /\ ~RecordsClosed
    /\ poll' = "wait"
    /\ UNCHANGED <<clientVars, loopVars, record, batch, looked,
                   recordAwaitingDispatch, pendingRecord, pendingAssigned, engineVars>>

\* The timer fires, possibly just as a record or the close arrives.
PollTimeout ==
    /\ poll = "wait"
    /\ poll' = "pending"
    /\ UNCHANGED <<clientVars, loopVars, record, batch, looked,
                   recordAwaitingDispatch, pendingRecord, pendingAssigned, engineVars>>

\* The closed channel: Poll returns "client closed".
PollClosed ==
    /\ poll \in {"recv", "wait"} /\ pendingRecord = NoRecord
    /\ RecordsClosed
    /\ poll' = "engine"
    /\ UNCHANGED <<clientVars, loopVars, record, batch, looked,
                   recordAwaitingDispatch, pendingRecord, pendingAssigned, engineVars>>

\* Poll's ending: a record is returned and awaits its dispatch signal.
PollReturn ==
    /\ recordAwaitingDispatch' = (record # NoRecord)
    /\ poll' = IF record # NoRecord THEN "dispatch" ELSE "engine"

\* Faulty variant: Poll does not look at the queued assigns.
AssignsIgnored == FALSE

\* processPendingRebalances finds assigns to handle.
AssignsPending == pendingAssigned # <<>>

\* processPendingRebalances with an empty queue.
NothingPending ==
    /\ poll = "pending" /\ ~AssignsPending
    /\ PollReturn
    /\ UNCHANGED <<clientVars, loopVars, record, batch, looked, pendingRecord,
                   pendingAssigned, engineVars>>

\* processPendingRebalances swaps the queue out under a.mu.
TakePending ==
    /\ poll = "pending" /\ AssignsPending
    /\ batch' = pendingAssigned
    /\ pendingAssigned' = <<>>
    /\ poll' = "lookup"
    /\ UNCHANGED <<clientVars, loopVars, record, looked, recordAwaitingDispatch,
                   pendingRecord, engineVars>>

\* mapCommittedOffsets: partitions that failed in the response are left out, and
\* one without a committed offset is unknown as well.
CommittedOffsets(answered) ==
    [p \in Partitions |-> IF p \in answered THEN committed[p] ELSE Unknown]

\* lookupAssignmentOffsets: with the lookup disabled, failed or timed out, no
\* partition is answered.
LookupAssignmentOffsets ==
    /\ poll = "lookup"
    /\ \E answered \in SUBSET Queued(batch) : looked' = CommittedOffsets(answered)
    /\ poll' = "trigger"
    /\ UNCHANGED <<clientVars, loopVars, record, batch, recordAwaitingDispatch,
                   pendingRecord, pendingAssigned, engineVars>>

\* triggerAssign succeeds: the engine accepts the batch, and Poll returns.
TriggerAssign ==
    /\ poll = "trigger"
    /\ engine' = engine \cup Queued(batch)
    /\ batch' = <<>>
    /\ looked' = [p \in Partitions |-> Unknown]
    /\ PollReturn
    /\ UNCHANGED <<clientVars, loopVars, record, pendingRecord, pendingAssigned,
                   dispatched, failures>>

\* Faulty variants: the failed batch, or the record, is not kept.
RequeuedNothing == pendingAssigned
StashedNothing == NoRecord

\* The failed batch goes in front of what OnAssigned queued meanwhile; the
\* record, already consumed from the client, is stashed.
Requeued == batch \o pendingAssigned
Stashed == record

\* triggerAssign fails: batch and record are kept and Poll returns the error.
TriggerAssignFails ==
    /\ poll = "trigger" /\ failures < MaxTriggerFailures
    /\ failures' = failures + 1
    /\ pendingAssigned' = Requeued
    /\ batch' = <<>>
    /\ looked' = [p \in Partitions |-> Unknown]
    /\ pendingRecord' = Stashed
    /\ record' = NoRecord
    /\ poll' = "engine"
    /\ UNCHANGED <<clientVars, loopVars, recordAwaitingDispatch, engine, dispatched>>

\* Faulty variant: one record too far.
SkipsOne(r) == r.o + 2

\* The offset that follows a record, the one CommitOffsets commits for it.
NextOffset(r) == r.o + 1

\* The engine dispatches the record Poll returned, synchronously and before
\* its next Poll; a record of a partition it does not own is an orphan it drops.
Dispatch ==
    /\ poll = "dispatch"
    /\ dispatched' = IF record.p \in engine
                     THEN [dispatched EXCEPT ![record.p] = NextOffset(record)]
                     ELSE dispatched
    /\ record' = NoRecord
    /\ poll' = "engine"
    /\ UNCHANGED <<clientVars, loopVars, batch, looked, recordAwaitingDispatch,
                   pendingRecord, pendingAssigned, engine, failures>>

-----------------------------------------------------------------------------
(* The group goroutine and its callbacks *)

\* The coordinator hands partitions over or takes them back; the client waits
\* at the gate before the callback.
RebalanceBegin(k, ps) ==
    /\ GateFree /\ rebalances < MaxRebalances
    /\ ps \subseteq IF k = "assign" THEN Partitions \ owned ELSE owned
    /\ stage' = "waiting" /\ kind' = k /\ parts' = ps /\ drainOk' = TRUE
    /\ rebalances' = rebalances + 1
    /\ UNCHANGED <<held, owned, position, committed, loopVars, pollVars,
                   pendingAssigned, engineVars>>

\* The callback starts once no poller is registered.
RebalanceEnter ==
    /\ stage = "waiting" /\ ~held
    /\ stage' = "callback"
    /\ UNCHANGED <<held, kind, parts, drainOk, owned, position, committed, rebalances, loopVars,
                   pollVars, pendingAssigned, engineVars>>

\* OnAssigned queues the partitions under a.mu.
OnAssigned ==
    /\ stage = "callback" /\ kind = "assign"
    /\ pendingAssigned' = IF parts = {} THEN pendingAssigned
                          ELSE Append(pendingAssigned, parts)
    /\ stage' = "returned"
    /\ UNCHANGED <<held, kind, parts, drainOk, owned, position, committed, rebalances, loopVars,
                   pollVars, engineVars>>

\* Faulty variant: drain and commit are left to the poll loop (the deferred
\* design OnRevoked's comment describes).
DrainDeferred(p) == committed[p]

\* The group's offset for p once the engine has committed all it dispatched.
Drained(p) == IF dispatched[p] > StartOffset(committed[p]) THEN dispatched[p] ELSE committed[p]

\* OnRevoked, and OnLost which calls it: TriggerRebalance(Revoke) drains the
\* partitions' in-flight work and commits it, before the callback returns.
\* A lost partition is no longer this member's: its commit is refused.
OnRevoked ==
    /\ stage = "callback" /\ kind = "revoke"
    /\ committed' = [p \in Partitions |-> IF p \in parts THEN Drained(p) ELSE committed[p]]
    /\ engine' = engine \ parts
    /\ stage' = "returned"
    /\ UNCHANGED <<held, kind, parts, drainOk, owned, position, rebalances, loopVars, pollVars,
                   pendingAssigned, dispatched, failures>>

\* The drain or its commit fails: the error is logged and the callback returns.
OnRevokedFails ==
    /\ stage = "callback" /\ kind \in {"revoke", "lost"} /\ parts # {}
    /\ engine' \in {engine, engine \ parts}
    /\ stage' = "returned" /\ drainOk' = FALSE
    /\ UNCHANGED <<held, kind, parts, owned, position, committed, rebalances, loopVars,
                   pollVars, pendingAssigned, dispatched, failures>>

\* OnLost with nothing to do (OnRevoked's early return).
OnLostNothing ==
    /\ stage = "callback" /\ kind = "lost" /\ parts = {}
    /\ stage' = "returned"
    /\ UNCHANGED <<held, kind, parts, drainOk, owned, position, committed, rebalances, loopVars,
                   pollVars, pendingAssigned, engineVars>>

\* Offsets f with the assigned partitions moved to where consumption starts.
Restarted(f) ==
    [p \in Partitions |-> IF p \in parts THEN StartOffset(committed[p]) ELSE f[p]]

\* The client acts on the callback's return: assigned partitions are fetched
\* from the committed offset, others are given up.
RebalanceDone ==
    /\ stage = "returned"
    /\ stage' = "none" /\ kind' = "assign" /\ parts' = {} /\ drainOk' = TRUE
    /\ IF kind = "assign"
       THEN /\ owned' = owned \cup parts
            /\ position' = Restarted(position)
            /\ dispatched' = Restarted(dispatched)
       ELSE /\ owned' = owned \ parts
            /\ UNCHANGED <<position, dispatched>>
    /\ UNCHANGED <<held, committed, rebalances, loopVars, pollVars,
                   pendingAssigned, engine, failures>>

\* CommitOffsets from the engine in steady state; a failed commit changes nothing.
CommitOffsets(p) ==
    /\ p \in owned \cap engine
    /\ dispatched[p] > StartOffset(committed[p])
    /\ ~(kind = "lost" /\ p \in parts)
    /\ committed' = [committed EXCEPT ![p] = dispatched[p]]
    /\ UNCHANGED <<held, rebVars, owned, position, rebalances, loopVars, pollVars,
                   pendingAssigned, engineVars>>

\* Another member consumes and commits a record of a partition it holds.
OtherMemberCommits(p) ==
    /\ \/ p \notin owned /\ p \notin parts
       \/ p \in parts /\ kind = "lost"
    /\ StartOffset(committed[p]) < LogEnd
    /\ committed' = [committed EXCEPT ![p] = StartOffset(@) + 1]
    /\ UNCHANGED <<held, rebVars, owned, position, rebalances, loopVars, pollVars,
                   pendingAssigned, engineVars>>

-----------------------------------------------------------------------------

LoopStep ==
    \/ StartFetchLoop \/ FetchErrors \/ FetchCancelled \/ DeliverCancelled
    \/ AwaitCancelled \/ AllowRebalance \/ ExitAllow \/ ExitClose
    \/ \E p \in Partitions : FetchRecord(p)

PollStep ==
    \/ PollCall \/ DispatchSignal \/ SignalLoopGone \/ PollTakeStash \/ PollReceive
    \/ PollWait \/ PollTimeout \/ PollClosed \/ NothingPending \/ TakePending
    \/ LookupAssignmentOffsets \/ TriggerAssign \/ TriggerAssignFails \/ Dispatch

CallbackStep ==
    \/ RebalanceEnter \/ OnAssigned \/ OnRevoked \/ OnRevokedFails
    \/ OnLostNothing \/ RebalanceDone

GroupStep ==
    \/ \E k \in Kinds, ps \in SUBSET Partitions : RebalanceBegin(k, ps)
    \/ \E p \in Partitions : CommitOffsets(p) \/ OtherMemberCommits(p)

Next == Subscribe \/ CancelContext \/ LoopStep \/ PollStep \/ CallbackStep \/ GroupStep

Spec == Init /\ [][Next]_vars

\* Runnable goroutines keep running: the polling loop polls until stopped, the
\* fetch loop and a callback that may proceed do.  Nothing is assumed of the
\* broker, the host or the coordinator.
Fairness ==
    /\ WF_vars(PollStep)
    /\ WF_vars(CallbackStep)
    /\ WF_vars(StartFetchLoop \/ AllowRebalance \/ ExitAllow \/ ExitClose)
    /\ WF_vars(FetchCancelled \/ DeliverCancelled \/ AwaitCancelled)

LiveSpec == Spec /\ Fairness

-----------------------------------------------------------------------------
(* Properties *)

\* The fetch loop has not begun to exit.
Serving == loop \notin ExitStates

\* Records that left the client and whose dispatch is not complete.
Undispatched == {fetched, record, pendingRecord} \ {NoRecord}

\* While a rebalance callback runs, no record is between the client and the
\* engine's pipeline: the gate protocol of broker_port.go ("A rebalance can
\* only begin between records"), as long as the loop serves.
GateExclusion ==
    Serving /\ stage \in {"callback", "returned"} => Undispatched = {}

\* Commit before release: when OnRevoked returns without error, the group's
\* offset of each revoked partition is exactly what the client fetched, so
\* the next owner neither repeats nor skips a record.
CommitBeforeRelease ==
    Serving /\ stage = "returned" /\ kind = "revoke" /\ drainOk =>
        \A p \in parts : StartOffset(committed[p]) = position[p]

\* No gap, no repeat: within one ownership the engine has been given every
\* record the client consumed except at most the one in flight, which is the
\* next one it expects.  The stash of a failed assign trigger counts.
NoRecordLost ==
    Serving =>
        /\ \A r \in Undispatched :
              /\ r.p \in owned
              /\ r.o = dispatched[r.p]
              /\ position[r.p] = dispatched[r.p] + 1
        /\ \A p \in owned :
              position[p] = dispatched[p] \/ \E r \in Undispatched : r.p = p

\* The engine accepted the Assign of a partition before it is given a record
\* of it, although OnAssigned only queues the event.
AssignBeforeRecord ==
    Serving /\ poll = "dispatch" => record.p \in engine

\* Poll never blocks on a busy fetch loop: at its dispatch signal the loop is
\* already receiving, or on its way out.
PollNeverParks ==
    poll = "signal" => loop = "await" \/ ~Serving

\* Once the loop is gone no poller registration remains to block the client's
\* final rebalance.
GateOpenAfterExit == loop \in ExitStates \ {"exitAllow"} => ~held

\* runFetchLoop's comments: a poll that yielded no record left "no gate held",
\* and parking in the client behind a rebalance is "harmless".  So the loop
\* never parks behind a rebalance that itself waits for the loop's poller.
ParkedLoopHoldsNoGate == loop = "poll" /\ stage = "waiting" => ~held

\* WithAssignmentOffsetLookup's comment: the adapter reports each partition's
\* real committed offset, or -1.
ReportedOffsetIsCommitted ==
    poll = "trigger" => \A p \in Queued(batch) : looked[p] \in {Unknown, committed[p]}

\* A rebalance that waits at the gate eventually runs its callback.
RebalanceRuns == (stage = "waiting") ~> (stage = "callback")

\* Every Poll call returns.
PollReturns == (poll # "engine") ~> (poll = "engine")

\* An assigned partition eventually becomes known to the engine, refused
\* triggers and requeues included, unless it is taken back or the loop exits.
AssignReachesEngine ==
    \A p \in Partitions :
        (p \in owned \ engine) ~> (p \notin owned \/ p \in engine \/ ~Serving)

\* After cancellation a started fetch loop exits.
LoopStops == (cancelled /\ loop # "off") ~> (loop = "done")
=============================================================================
