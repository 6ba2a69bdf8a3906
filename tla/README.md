# Verification of llingr-adapter-franz

TLA+ models of the franz-go adapter in `src/franzadapter`, the TLC runs that
check them on small instances, and TLAPS proofs of their safety properties for
every instance. `PROJECT.json` lists components, runs, mutants, the map from
definitions to source lines, findings, hazards and theorems.

## The system

The adapter connects a `kgo.Client` (franz-go, external) to the llingr engine
(external) as a `nexus.BrokerPort`: the engine subscribes, polls records one at
a time, dispatches each into its pipeline before it polls again, commits
offsets, and unsubscribes. Rebalances arrive as callbacks on the client's group
goroutine.

| Component | State | Operations | Interacts with |
|---|---|---|---|
| Fetch loop (`broker_port.go`) | `fetchCtx`, `fetchedRecords`, `recordDispatched`, `fetchLoopDone`, the poller registration in the client | `Subscribe`, `startFetchLoop`, `runFetchLoop`, `fetchNext` | client (PollRecords, AllowRebalance), Poll over two unbuffered channels |
| Poll (`broker_port.go`) | `recordAwaitingDispatch`, `pendingRecord` | `Poll`, `CommitOffsets`, `ExtractEnvelope` | fetch loop, `processPendingRebalances`, engine |
| Rebalance (`rebalance.go`) | `pendingAssigned` under `mu` | `OnAssigned`, `OnRevoked`, `OnLost`, `processPendingRebalances`, `triggerAssign`, `triggerRevoke`, `lookupAssignmentOffsets` | client's group goroutine, engine's `TriggerRebalance` |
| Poll errors (`broker_port.go`) | `pollErrSince`, `pollErrLogged`, `pollErrLastID`, `bailOnce` | `handlePollErrors`, `errIdentity`, `bail` | fetch loop, engine's `EmergencyShutdown`, Unsubscribe |
| Shutdown (`broker_port.go`) | `unsubscribeOnce` | `Unsubscribe`, `releaseBroker` | fetch loop, client (LeaveGroup, CloseAllowingRebalance), bandwidth |
| Bandwidth (`bandwidth.go`) | accumulators and broker table under `bc.mu`, `quit`, `wg` | hooks, `emitLoop`, `emit`, `start`, `stop` | client's broker goroutines, framework callback |
| Construction (`adapter.go`, `validate/`, `client_logger.go`) | `client`, function fields, `clientLog` | `New*`, `SetClient`, `initClient`, `CreateConsumer`, `closeOnPanic` | builder, client |
| Options (`adapter_options.go`) | `opts` | `With*`, `processAdapterOptions`, clamps | all of the above |
| Balancers (`compatibility.go`) | `logged` | `CompatibilityBalancers`, `ParseSyncAssignment` | client |

What is hard in it: three goroutines (fetch loop, polling loop, group goroutine)
share no lock and depend on one protocol, the rebalance gate; assigns are queued
and applied later, on another goroutine, with a network round trip in between,
and can fail; shutdown is called by several parties while any of that is in
progress and has to get through the same gate within timeouts; errors of
partitions come and go independently over time. What makes each part correct:

* gate: a callback runs only between records; a revoke commits all that was
  fetched; no record is lost or repeated within an ownership; the engine knows a
  partition before its first record; nobody waits for ever;
* shutdown: every caller of `Unsubscribe` returns, and only when the group is
  left and the client closed; exclusion is not weakened on the way;
* poll errors: streaks, throttle and bail follow what was really observed;
* bandwidth: every count is reported once, in packets that agree with themselves;
* construction: whatever fails, and however often it is tried again, nobody's client
  leaks or is closed by another, Unsubscribe ends whatever failed attempts have left
  running, and no option of the host's defeats what the gate protocol needs of the
  client;
* options: what is asked for is what is in force, within the documented bounds.

The full list of what is hard to test, line by line, is `hazards` in
`PROJECT.json`.

## Modules

`GateProtocol` (fetch loop, Poll, callbacks, commits, the gate)

* The client and the group are external: `held` (a poller is registered),
  `stage`/`kind`/`parts`/`drainOk` (the callback in progress), `owned`,
  `position`, `committed`. `GateFree` is the client's rule that a poll waits while
  a rebalance waits or runs; `RebalanceEnter` the rule that a callback waits for
  pollers. Other members commit partitions this member does not hold.
* `loop` and `poll` are the program counters of `runFetchLoop` and `Poll`; every
  channel operation, every lock section and every call out (lookup, trigger) is a
  step of its own, so callbacks interleave between them. The two unbuffered
  channels are joint steps (`PollReceive`, `DispatchSignal`).
* `pendingAssigned` is the sequence of queued assign events; the per-topic map of
  the code flattens it, which only the order of a batch could tell.
* `dispatched` is the engine's view: the next offset its pipeline expects. A
  record of a partition the engine does not hold is dropped by its orphan
  protection, as the comment on `OnRevoked` says.
* `ErrorFetchHolds` says whether a fetch with only errors keeps its poller. Both
  values are explored for safety; see the first finding for what TRUE costs.

`GateInvariant` the inductive invariant in named parts. `GateProofs` its proof.

`Handoff` is the abstract specification of the same thing, as the engine and the
group see it: a record is taken, then given; partitions change hands between two
records; a clean revoke leaves saved exactly what was given, and another member
starts there. It has no goroutines, channels, queue or gate. `GateRefinement`
maps the state of `GateProtocol` onto it (`InFlight`: the record in flight is the
fetch loop's, Poll's or the stash) and states `RefinesHandoff`;
`GateRefinementProofs` proves it. Handoff's promise is about a serving adapter:
after the cancellation it only says that no record is taken and no saved offset
moves back, because the exiting loop opens the gate with a record possibly in
flight (see the hazard at `broker_port.go:208`).

`Release` (Unsubscribe, releaseBroker, bail, emit goroutine's lifetime) EXTENDS
`GateProtocol` and composes with all of its actions: a step is a gate step that
leaves the shutdown state alone, or a shutdown step. `release` is
`releaseBroker`'s program counter, `caller` the parties inside `Unsubscribe`.
`FetchClosed`, `FetchForeignRecord` and `FetchErrorsBail` are the outcomes of
`fetchNext` that only exist with a client that closes or a loop that bails.
`ReleaseInvariant` is the inductive invariant of the composition, in named parts
that extend the gate's; `ReleaseProofs` its proof.

`PollErrors` (handlePollErrors) One step is one `fetchNext`. Time is a bounded
clock; partitions break and heal (external). A fetch has at most one record, as
`PollRecords(ctx, 1)` returns, of any partition, one that also reports errors
included; of a broken partition it may have several errors, which count as the set of
their identities and the last of them. `history` and `brokenSince` are for properties:
`history` is what was observed, computed from the fetch alone and not from what the
code makes of it.
`PollErrorsProofs` has its proofs.

`Bandwidth` (bandwidthCollector) Hooks, emission and stop; `received` and
`reported` are history. `BandwidthProofs` proves its invariants.

`Options` (adapter_options.go) The defaults, the `With*` helpers as the one field
each overwrites, the loop over them (`Prefixes`: the options in force after each
prefix of the list), `validate` and the clamps, in milliseconds. `Honours` is
the reference definition: what a list asks of a field is its last mention or the
default; a value in range is taken as it is, one out of range becomes exactly the
bound it is nearest to (for the log interval, which has no upper bound, the default).
`OptionsProofs` proves the two agree on every list.

`Wiring` (adapter.go, validate/, client_logger.go) EXTENDS `Options`. The life of an
adapter up to its first Subscribe: `New`/`NewCustom`, `SetClient`, `WithOptions`,
`WithBandwidthInterval`, then `CreateConsumer` as a sequence of steps (`create` is
its program counter) each of which can fail or panic where the code's callee can,
any number of such calls one after the other, and `Unsubscribe` by several
goroutines. `clients` is every client ever made, `open` those not closed, `client`
is `a.client`. Client options are key and value; `Effective` is how kgo folds them
(external). What the model takes from the comments on the API: `WithOptions` and
`WithBandwidthInterval` come before the first `CreateConsumer`, and `SetClient` is
called once. `CreateConsumer` after a finished `Unsubscribe` is modelled: nothing in
the code refuses it. Two things are assumed without a comment that says so: no
`CreateConsumer` overlaps another or a running `releaseBroker` (they share plain
fields without a lock), and the consumer of the engine has a logger (`attach` ignores
a nil one). A subscribed consumer's shutdown is `Release`'s. `WiringProofs` has its
proofs.

`MCGate`, `MCRelease`, `MCPollErrors`, `MCBandwidth`, `MCWiring` are the small
instances.

Operators called "Faulty variant" in the modules are not used by any
specification: each is the mutated form of the definition that follows it, with
which the named property must fail (`mutants` in `PROJECT.json`).

## Runs

| Run | Shows | Bounds |
|---|---|---|
| `gate_safety` | type, exclusion, commit before release, no loss, assign before record, Poll never parks, gate open after exit, inductive invariant, refinement of `Handoff` | 2 partitions (symmetric), 2 records each, 3 rebalances, 1 refused assign |
| `gate_live` | rebalances run, Poll returns, assigns arrive, a cancelled loop stops | 1 partition, 2 records, 3 rebalances, 1 refused assign |
| `gate_park` | finding: the loop parks holding the gate | 1 partition |
| `gate_offset` | finding: a stale offset is reported | 1 partition |
| `release_safety` | return means released; exclusion and delivery until forced; inductive invariant | 3 callers, 1 partition, 1 rebalance besides the leave's, with and without telemetry |
| `release_live` | Unsubscribe terminates; the fetch loop ends | drain and bail as callers |
| `poll_errors` | streaks, throttle, bail, and that nothing else bails | 2 partitions, 2 errors, clock 5, bail 3, log 2, backoff 1 |
| `poll_bail` | finding: bail without continuous failure | 1 partition, clock 4 |
| `wiring` | no leaked client, only the opener closes, required configuration, options honoured, Unsubscribe ends | 1 topic, 3 host and 3 custom option lists, 19 adapter option lists around every bound, 3 attempts, 2 callers of Unsubscribe |
| `wiring_retry` | finding: a consumer over a closed client | 1 topic, 2 attempts |
| `wiring_release` | finding: Unsubscribe returns, client open | 1 topic, 2 attempts, 2 callers |
| `bandwidth` | counted once, consistent packets, eventually reported | 2 partitions, 2 brokers (one seed), 3 batches |

Why these bounds reach the interesting cases: three rebalances are an assign, a
revoke and a re-assign of the same partition, with a second partition moving
meanwhile; two records let one be in flight after another was committed; one refused
assign exercises stash and requeue, and the proofs cover any number. The clock of
`poll_errors` spans a streak that ends and another long enough to bail, and two log
intervals. Symmetry is used in the safety runs only; `RefinesHandoff`, checked there
too, has no fairness and treats all partitions alike. Three attempts are a failure, a
retry that fails on the client the first one closed, and another. Deadlock is checked
everywhere except in `Release` and `Wiring`, where the system is meant to stop.

## Fairness

Weak fairness of the polling loop, of a callback that may proceed, and of the fetch
loop's own steps: goroutines that can run are scheduled. Of the client it is assumed
that a poll returns after its context is cancelled, unless it is parked behind a
rebalance. In `Release`, also that both timers fire, that LeaveGroup is answered, and
that the bandwidth callback returns; `EmitQuit` has strong fairness because Go's
select chooses at random between the ticker and `quit`, so it is not starved. The
client's LeaveGroup is assumed to honour its context even with the gate held:
`UnsubscribeTerminates` from the wedge of the first finding rests on it, and so does
the code (comment at `broker_port.go:88-91`). In `Wiring`, the steps of
`releaseBroker` are fair, the leave and the close of the client end, and an emit
goroutine sees the closed `quit`; the calls of the host are not fair. Nothing is
assumed of the broker (records may never come), the coordinator, or the host.
`gate_live` takes `ErrorFetchHolds = {FALSE}`: with TRUE a rebalance can wait for
ever, which is the first finding; `release_live` takes both values and shows that
shutdown gets out of that wedge.

## Proofs

`GateProofs` proves `Spec => []IInv`, and from it each safety property of
`gate_safety`, for any set of partitions, any log length, any number of rebalances
and refused assigns, and any `ErrorFetchHolds`. The assumptions are
`BoundsAssumption` and `NoRecordAssumption`.

`GateExclusion` is not inductive: whether a callback may overlap a record depends
on the gate being held in all of the states between fetch and signal, which
depends on where the record is. `IInv` adds

* `Handshake`: the record is in exactly one place, and while the loop serves it
  awaits the dispatch signal exactly when the polling side owes it one (record in
  hand, stashed, dispatched and unsignalled, or at the signal);
* `Gate`: held from fetch to signal, never during a callback, open after exit;
* `CallbackPartitions`: a callback revokes what is owned and assigns what is not;
* `AssignsOnTheWay`: each owned partition is known to the engine, in the batch or
  queued, and while a record is in Poll's hands nothing more can be queued;
* `CommittedWasDispatched`: nothing owned is committed beyond what was dispatched.

Exclusion follows from `Handshake` and `Gate`; `NoRecordLost` from the single
record in flight; `CommitBeforeRelease` from exclusion (nothing undispatched in the
callback), `NoRecordLost` (so position = dispatched) and `CommittedWasDispatched`.
The proof has one lemma per group of conjuncts and one case per action that can
disturb them.

`GateRefinementProofs` proves `Spec => RefinesHandoff` from `IInv`. The initial
states agree; then each action is shown to be one step of Handoff or a stutter: a
fetch is `Take` because position and dispatched agree when nothing is in flight,
receiving, stashing and un-stashing a record are stutters because `Handshake` puts
it in one place only, the dispatch is `Give` because `Gate` keeps callbacks out,
the callback is `Begin`, `Settle`, `Complete`, and after the cancellation every
action satisfies `Stopped`.

`ReleaseProofs` proves `ReleaseSpec => []RInv` for the composition of gate and
shutdown, from the gate's assumptions and `ReleaseAssumption`, and from it
`ReleaseTypeOK`, `ReturnedMeansReleased`, `ExclusionUntilForced` and
`DeliveryUntilForced`. Lemma `GateView` says what a step of the composition is to the
gate: a gate step or a stutter, for which `GateProofs` has the lemmas, or one of five
steps that are taken one by one. `RInv` has

* `GateUntilForced`: `IInv` until the close forces the gate. `IInv` is not kept after
  that (a callback is let in with a poller registered), but its part `Handshake` is
  not about the gate and is kept for ever; this is why `GateProofs` proves the
  preservation of `Handshake` without `Gate`. Of the five steps, a foreign record and
  the leave's revoke keep `IInv`; a fetch that meets a closed client, the forcing
  close and the callback it lets in happen only with the gate forced;
* `OneRelease`, `BandwidthFirst`, `LeaveInOrder`: what has been done at each point of
  `releaseBroker`. `ReturnedMeansReleased` speaks of the end only and is not
  inductive without what every earlier point has left behind;
* `LeaveTakesEverything`: the leave's last revoke takes all that is owned and no
  assign can follow it, so a released adapter owns nothing and its gate is free.

`PollErrorsProofs` proves `Spec => []PInv`, from `PollErrorsAssumption`, for any
partitions, errors, intervals and length of time. `PInv` is the properties of
`poll_errors` together with `SeenInThePast`: `NoFailureHidden` and
`StuckPartitionBails` compare the last observation with the time of the last log
line and of the streak's start, and without knowing that observations are not in
the future a new one could not be ordered after them. `BailNeedsObservedStreak`, an
action property, is the converse of `StuckPartitionBails`: it follows from
`StreaksMatchHistory`, because the start time that `BailDue` reads is the observed
one. (That observed failures need not have been continuous is the second finding.)

`OptionsProofs` proves `Honours(processAdapterOptions(options), options)` for every
list of options, of any length and with any values. The induction over the list is
an argument about a least counterexample: `LeastElement` (every non-empty set of
naturals has a least member, from the library's well-foundedness of `<`) is stated
about a set, not an operator, so the provers can use it. `RunExists` shows that the
recursive definition of the loop has a solution, `PrefixValues` that each field has
its last mention after each prefix, and the clamps are arithmetic.
`OptionsFitPollErrors` connects two modules: the intervals that result satisfy what
`PollErrorsAssumption` asks of them.

`WiringProofs` proves for any topics, option lists, callers and number of attempts,
from `WiringAssumption`:

* `NoClientLeaked` and `OnlyOpenerCloses` from `Ownership`: an open client of the
  adapter's own is `a.client`, and either a consumer uses it or the CreateConsumer in
  progress is the one that opened it (`createdHere`, and the same attempt number);
* `RequiredConfigEnforced` from `Configured` (a managed adapter's client keeps the
  configuration initClient gave it, and only a validated client reaches Build) and
  lemma `RequiredWins`: in a list that ends with the required options the last
  mention of each is the adapter's, whatever precedes it;
* `WiringTypeOK`, whose bound on the emit goroutines needs `EmitterPerAttempt`: each
  CreateConsumer starts at most one, and not before it reaches Build;
* `OptionsHonoured` from `OptionsProofs`: WithOptions is the only step that changes
  the options in force.

`BandwidthProofs` proves `BandwidthTypeOK`, `CountedOnce` and `PacketConsistent`,
inductive together, for any partitions, brokers and batches.

Only model-checked: the liveness properties of `gate_live` and `release_live`,
`CountsReported` and `UnsubscribeEnds` (fairness is outside the prover's reach), and
the findings. Every invariant, every action property and the refinement that a
passing run checks is also a theorem.

## Findings

1. `gate_park`: an error-only fetch takes the branch meant for empty polls and
   leaves its poller registered; the loop and a rebalance then wait for each other.
   It rests on franz-go giving a registration back only for a fetch of length zero.
2. `poll_bail`: `pollErrorBailAfter` is documented as continuous failure, but a
   streak ends only with a delivered record, so an idle, healthy (or revoked)
   partition keeps it.
3. `gate_offset`: the offset reported with an Assign may be stale, because lookup
   and trigger run outside the gate and a revoke does not prune queued assigns.
4. `wiring_retry`: a failed CreateConsumer closes the client it opened but keeps it
   in `a.client`; a second call skips initClient and returns a consumer over the
   closed client.
5. `wiring_release`: on an adapter without a consumer, a leave that fails is logged
   through a nil logger; the panic spends the Once, and later callers of Unsubscribe
   return with the client open.

A comment at `broker_port.go:293-301` reports a residual duplicate at hand-over that
stopped reproducing when a diagnostic took `a.mu` for each record. The model has no
such lock, and `CommitBeforeRelease` and `RefinesHandoff` say that a clean revoke of a
serving adapter leaves saved exactly what was given, under every interleaving: the
lock is not what the hand-over depends on. A record is repeated in the model where the
drain or its commit fails, where a partition is lost, and where the revoke comes after
the cancellation, with the gate opened by the exiting loop. What lies behind the
observation is not settled here: the engine and the client are external.

## Not modelled

* Balancer compatibility: a fixed list of wrapped balancers; the coordinator chooses,
  and the wrapper only logs, once.
* Envelope extraction: a pure conversion of a key's bytes; two keys that it maps to
  one are only serialised together.
* The warnings of `validate.Client`, the formatting of bridged log lines, UUIDs and
  the membership hint of a failed commit: they change no state.
* The race of a second `SetBandwidthCallback` with a running emit goroutine: the write
  of `callback` is not under the mutex. `Bandwidth` registers the callback once.
* Examples and integration tests. The engine and the client are modelled as far as
  the adapter uses them.

## Plan

1. (done) `GateProtocol` with its runs and proofs; `Release`; `PollErrors`;
   `Bandwidth` with proofs.
2. (done) `Options` and `Wiring` with runs and proofs; `Handoff` and the refinement,
   checked and proved.
3. (done) Proofs for `PollErrors`, for `Release` with the invariant of gate and
   shutdown together, for the loop of `Options` and what is left of `Wiring`.
4. What `Handoff` promises, proved of the abstract specification, so that each fact
   about records changing hands is carried to the code by `RefinesHandoff`; the steps
   that liveness rests on and that are safety (what the parties wait for is held by
   one that can run).
