------------------------------ MODULE Release -------------------------------
(***************************************************************************)
(* Shutdown: Unsubscribe and releaseBroker, run once whoever calls first   *)
(* (the engine's drain, bail's own goroutine, the host), composed with the *)
(* gate protocol it has to get through.  The fetch loop is cancelled and   *)
(* awaited for a bounded time; the group is left, which runs a last revoke *)
(* callback behind the gate; the client is closed, which forces the gate   *)
(* open and waits for the leave.                                           *)
(***************************************************************************)
EXTENDS GateProtocol

CONSTANTS
    Callers,    \* who may call Unsubscribe
    Telemetry   \* with a bandwidth collector, without, or both

ASSUME ReleaseAssumption ==
    /\ Callers \subseteq {"drain", "bail", "host"}
    /\ Telemetry \subseteq {"none", "ticking"}

VARIABLES
    caller,    \* each caller of Unsubscribe: idle, inside, returned
    release,   \* where releaseBroker stands; "no" before unsubscribeOnce fires
    leave,     \* the client's LeaveGroup (external)
    closed,    \* the client is closed (external)
    bailed,    \* bailOnce has fired
    stopped,   \* the engine calls Poll no more (external)
    emitter    \* the bandwidth emit goroutine, "none" without telemetry

shutdownVars == <<caller, release, leave, closed, bailed, stopped, emitter>>
allVars == <<vars, shutdownVars>>

ReleaseStates == {"no", "stopBandwidth", "cancel", "waitLoop", "waitTimer",
                  "leave", "leaving", "close", "closing", "done"}

\* CloseAllowingRebalance has forced the gate open.
Forced == release \in {"closing", "done"}

ReleaseTypeOK ==
    /\ TypeOK
    /\ caller \in [Callers -> {"idle", "inside", "returned"}]
    /\ release \in ReleaseStates
    /\ leave \in {"no", "requested", "revoking", "left", "failed"}
    /\ closed \in BOOLEAN
    /\ bailed \in BOOLEAN
    /\ stopped \in BOOLEAN
    /\ emitter \in {"none", "ticking", "emitting", "gone"}

ReleaseInit ==
    /\ Init
    /\ caller = [c \in Callers |-> "idle"]
    /\ release = "no"
    /\ leave = "no"
    /\ closed = FALSE
    /\ bailed = FALSE
    /\ stopped = FALSE
    /\ emitter \in Telemetry

-----------------------------------------------------------------------------
(* The gate protocol's own steps.  A stopped engine calls Poll no more, and   *)
(* the group starts no rebalance of its own once the member leaves.           *)

GateStep ==
    /\ Next
    /\ ~(stopped /\ PollCall)
    /\ leave # "no" => rebalances' = rebalances
    /\ UNCHANGED shutdownVars

EngineStops ==
    /\ ~stopped /\ poll = "engine"
    /\ stopped' = TRUE
    /\ UNCHANGED <<vars, caller, release, leave, closed, bailed, emitter>>

\* A closed client's poll returns at once, whatever the group is doing.
FetchClosed ==
    /\ loop = "poll" /\ closed
    /\ loop' = "exitAllow"
    /\ held' = TRUE
    /\ UNCHANGED <<rebVars, owned, position, committed, rebalances, fetched, cancelled,
                   pollVars, pendingAssigned, engineVars, shutdownVars>>

-----------------------------------------------------------------------------
(* bail: EmergencyShutdown, then Unsubscribe on a goroutine of its own *)

\* A record of another topic: never delivered, the consumer is stopped and the
\* loop exits.
FetchForeignRecord ==
    /\ loop = "poll" /\ ~cancelled /\ GateFree /\ ~closed
    /\ loop' = "exitAllow"
    /\ held' = TRUE
    /\ bailed' = TRUE
    /\ UNCHANGED <<rebVars, owned, position, committed, rebalances, fetched, cancelled,
                   pollVars, pendingAssigned, engineVars,
                   caller, release, leave, closed, stopped, emitter>>

\* A partition has failed too long: handlePollErrors bails and the loop keeps
\* polling until its context ends.
FetchErrorsBail ==
    /\ ~bailed
    /\ FetchErrors
    /\ bailed' = TRUE
    /\ UNCHANGED <<caller, release, leave, closed, stopped, emitter>>

-----------------------------------------------------------------------------
(* Unsubscribe *)

\* unsubscribeOnce.Do: the first caller starts releaseBroker, later ones wait.
Unsubscribe(c) ==
    /\ caller[c] = "idle"
    /\ c = "drain" => stopped
    /\ c = "bail" => bailed
    /\ caller' = [caller EXCEPT ![c] = "inside"]
    /\ release' = IF release = "no" THEN "stopBandwidth" ELSE release
    /\ UNCHANGED <<vars, leave, closed, bailed, stopped, emitter>>

\* Faulty variant: a flag instead of sync.Once, so later callers do not wait.
LateCallersReturn(c) ==
    /\ caller[c] = "inside" /\ (release = "done" \/ \E d \in Callers \ {c} : caller[d] = "inside")
    /\ caller' = [caller EXCEPT ![c] = "returned"]
    /\ UNCHANGED <<vars, release, leave, closed, bailed, stopped, emitter>>

\* Every caller returns only once the release has completed.
UnsubscribeReturn(c) ==
    /\ caller[c] = "inside" /\ release = "done"
    /\ caller' = [caller EXCEPT ![c] = "returned"]
    /\ UNCHANGED <<vars, release, leave, closed, bailed, stopped, emitter>>

\* Steps that move only releaseBroker itself.
ReleaseTo(next) ==
    /\ release' = next
    /\ UNCHANGED <<vars, caller, leave, closed, bailed, stopped, emitter>>

\* bwCollector.stop: close quit and wait for the emit goroutine.
StopBandwidth ==
    /\ release = "stopBandwidth" /\ emitter \in {"none", "gone"}
    /\ ReleaseTo("cancel")

\* fetchCancel, where Subscribe has set it.  A loop still being started has no
\* fetchLoopDone yet: that select arm is a nil channel and only the timer fires.
CancelFetchLoop ==
    /\ release = "cancel"
    /\ IF loop = "off"
       THEN cancelled' = cancelled /\ release' = "leave"
       ELSE /\ cancelled' = TRUE
            /\ release' = IF loop = "starting" THEN "waitTimer" ELSE "waitLoop"
    /\ UNCHANGED <<clientVars, loop, fetched, pollVars, pendingAssigned, engineVars,
                   caller, leave, closed, bailed, stopped, emitter>>

FetchLoopStopped == release = "waitLoop" /\ loop = "done" /\ ReleaseTo("leave")

\* Faulty variant: an untimed wait for the fetch loop.
NoStopTimeout == FALSE

\* fetchLoopStopTimeout expires.
FetchLoopStopTimeout == release \in {"waitLoop", "waitTimer"} /\ ReleaseTo("leave")

\* leaveGroupFn is called; the leave proceeds inside the client.
LeaveGroup ==
    /\ release = "leave"
    /\ release' = "leaving"
    /\ leave' = "requested"
    /\ UNCHANGED <<vars, caller, closed, bailed, stopped, emitter>>

\* leaveGroupFn returns: left, failed, or still in flight at leaveGroupTimeout.
LeaveGroupReturns == release = "leaving" /\ leave \in {"left", "failed"} /\ ReleaseTo("close")
LeaveGroupTimeout == release = "leaving" /\ ReleaseTo("close")

\* closeFn, CloseAllowingRebalance: the gate is forced open ...
CloseAllowingRebalance ==
    /\ release = "close"
    /\ release' = "closing"
    /\ held' = FALSE
    /\ UNCHANGED <<rebVars, owned, position, committed, rebalances, loopVars, pollVars,
                   pendingAssigned, engineVars, caller, leave, closed, bailed, stopped, emitter>>

\* Faulty variant: the close abandons a leave still in flight.
CloseAbandonsLeave ==
    /\ release = "closing"
    /\ closed' = TRUE
    /\ release' = "done"
    /\ UNCHANGED <<vars, caller, leave, bailed, stopped, emitter>>

\* ... and the close waits for a leave still in flight.
CloseReturns ==
    /\ release = "closing" /\ leave \in {"left", "failed"}
    /\ closed' = TRUE
    /\ release' = "done"
    /\ UNCHANGED <<vars, caller, leave, bailed, stopped, emitter>>

-----------------------------------------------------------------------------
(* The client's leave (external): a last revoke of everything owned, behind  *)
(* the gate like any other, then the LeaveGroup request.                     *)

LeaveRevokes ==
    /\ leave = "requested" /\ GateFree
    /\ leave' = "revoking"
    /\ stage' = "waiting" /\ kind' = "revoke" /\ parts' = owned /\ drainOk' = TRUE
    /\ UNCHANGED <<held, owned, position, committed, rebalances, loopVars, pollVars,
                   pendingAssigned, engineVars, caller, release, closed, bailed, stopped, emitter>>

LeaveAnswered ==
    /\ leave = "revoking" /\ GateFree
    /\ leave' \in {"left", "failed"}
    /\ UNCHANGED <<vars, caller, release, closed, bailed, stopped, emitter>>

\* With the gate forced open a waiting callback starts regardless of pollers.
ForcedEnter ==
    /\ Forced /\ stage = "waiting"
    /\ stage' = "callback"
    /\ UNCHANGED <<held, kind, parts, drainOk, owned, position, committed, rebalances,
                   loopVars, pollVars, pendingAssigned, engineVars, shutdownVars>>

-----------------------------------------------------------------------------
(* emitLoop: the bandwidth collector's goroutine *)

EmitTo(next) ==
    /\ emitter' = next
    /\ UNCHANGED <<vars, caller, release, leave, closed, bailed, stopped>>

EmitTick   == emitter = "ticking" /\ EmitTo("emitting")
EmitReturn == emitter = "emitting" /\ EmitTo("ticking")
EmitQuit   == emitter = "ticking" /\ release # "no" /\ EmitTo("gone")

-----------------------------------------------------------------------------

ReleaseBrokerStep ==
    \/ StopBandwidth \/ CancelFetchLoop \/ FetchLoopStopped \/ FetchLoopStopTimeout
    \/ LeaveGroup \/ LeaveGroupReturns \/ LeaveGroupTimeout
    \/ CloseAllowingRebalance \/ CloseReturns

LeaveStep == LeaveRevokes \/ LeaveAnswered \/ ForcedEnter

ReleaseNext ==
    \/ GateStep \/ EngineStops \/ FetchClosed \/ FetchForeignRecord \/ FetchErrorsBail
    \/ \E c \in Callers : Unsubscribe(c) \/ UnsubscribeReturn(c)
    \/ ReleaseBrokerStep \/ LeaveStep
    \/ EmitTick \/ EmitReturn \/ EmitQuit

ReleaseSpec == ReleaseInit /\ [][ReleaseNext]_allVars

\* Goroutines that can run do; the bandwidth callback returns, and the emit
\* goroutine's select does not prefer the ticker to quit for ever.
ReleaseFairness ==
    /\ WF_allVars(ReleaseBrokerStep)
    /\ WF_allVars(LeaveStep)
    /\ WF_allVars(EmitReturn) /\ SF_allVars(EmitQuit)
    /\ \A c \in Callers : WF_allVars(UnsubscribeReturn(c))
    /\ WF_allVars(CallbackStep /\ UNCHANGED shutdownVars)
    /\ WF_allVars((StartFetchLoop \/ AllowRebalance \/ ExitAllow \/ ExitClose)
                    /\ UNCHANGED shutdownVars)
    /\ WF_allVars(((FetchCancelled \/ DeliverCancelled \/ AwaitCancelled)
                    /\ UNCHANGED shutdownVars) \/ FetchClosed)

ReleaseLiveSpec == ReleaseSpec /\ ReleaseFairness

-----------------------------------------------------------------------------
(* Properties *)

\* Unsubscribe's contract: when any caller returns, the group is left, the
\* client closed, nothing is owned, no callback is or will be running, and the
\* emit goroutine is gone, whoever ran the release.
ReturnedMeansReleased ==
    (\E c \in Callers : caller[c] = "returned") =>
        /\ closed
        /\ leave \in {"left", "failed"}
        /\ owned = {} /\ GateFree
        /\ emitter \in {"none", "gone"}

\* Until shutdown reaches the fetch loop or forces the gate, a callback runs
\* only between records: bail, cancellation and release never weaken it.
ExclusionUntilForced ==
    stage \in {"callback", "returned"} /\ Undispatched # {} => Forced \/ ~Serving

\* What the gate protocol promises of delivery outlives bail, cancellation and
\* the leave's own revoke, up to the forced gate: no record is lost or repeated
\* while the loop serves, and a revoke commits before it releases.
DeliveryUntilForced ==
    ~Forced => NoRecordLost /\ CommitBeforeRelease /\ AssignBeforeRecord

\* Every caller of Unsubscribe returns, even with the fetch loop and a
\* rebalance waiting for each other, or an engine that stopped polling with a
\* record undispatched.
UnsubscribeTerminates ==
    \A c \in Callers : (caller[c] = "inside") ~> (caller[c] = "returned")

\* After the release a cancelled fetch loop ends, even with its last record
\* delivered to an engine that polls no more.
FetchLoopEnds ==
    (release = "done" /\ cancelled /\ loop # "off") ~> (loop = "done")
=============================================================================
