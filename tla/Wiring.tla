------------------------------- MODULE Wiring -------------------------------
(***************************************************************************)
(* Construction: New and NewCustom, the configuration calls, CreateConsumer*)
(* with everything that can fail in it, repeated attempts, and Unsubscribe *)
(* of an adapter that may have no consumer yet.  Once a consumer           *)
(* subscribes, Release takes over.                                         *)
(*                                                                         *)
(* External, modelled from how the adapter uses it: the kgo client (how it *)
(* folds its options, whether it connects, leaves and closes) and the      *)
(* builder, whose Build may panic before or after it has registered the    *)
(* bandwidth callback and may return a consumer without EmergencyShutdown. *)
(***************************************************************************)
EXTENDS Options

CONSTANTS
    Topics,       \* topic names a builder may carry
    UserOpts,     \* option lists a host may give NewWithOptions
    CustomOpts,   \* option lists a host may build its own client with
    OptionLists,  \* adapter option lists a host may give WithOptions
    Callers,      \* host goroutines that may call Unsubscribe
    MaxAttempts   \* calls of CreateConsumer (bound)

ASSUME WiringAssumption ==
    /\ MaxAttempts \in Nat
    /\ UserOpts \cup CustomOpts \subseteq Seq([key : STRING, value : STRING])
    /\ OptionLists \subseteq Seq(AdapterOptions)

VARIABLES
    adapter,      \* "none", "managed" (New, NewWithOptions) or "custom" (NewCustom)
    userOpts,
    opts,         \* a.opts
    asked,        \* history: the options of the last WithOptions
    telemetry,    \* bwCollector is set
    clients,      \* every client made for this adapter, oldest first
    open,         \* those still open
    client,       \* a.client: an index of clients, 0 for nil
    topicName,
    create,       \* where CreateConsumer stands
    attempt,      \* CreateConsumer calls begun
    createdHere,
    result,       \* how the last CreateConsumer ended
    wired,        \* adaptedConsumer, ctx and logger are set
    clientLog,    \* the log bridge: "none", "detached" or "attached"
    emitters,     \* emit goroutines running, of all attempts
    quit,         \* the collector's quit channel is closed
    caller,       \* each caller of Unsubscribe
    release       \* where releaseBroker stands

config  == <<adapter, userOpts, opts, asked, telemetry>>
client_ == <<clients, open, client, clientLog>>
progress == <<attempt, createdHere, result, topicName, wired>>
attempt_ == <<create, progress>>
emission == <<emitters, quit>>
shutdown == <<caller, release>>
vars == <<config, client_, attempt_, emission, shutdown>>

-----------------------------------------------------------------------------
(* The client's options *)

Opt(k, v) == [key |-> k, value |-> v]

kgoDefaults ==
    [autoCommit |-> "enabled", blockRebalanceOnPoll |-> "off", callbacks |-> "none",
     logger |-> "none", hooks |-> "none"]

\* kgo applies options in order: the last one of a kind counts.  (Hooks add up;
\* only the adapter's are of interest.)
Effective(options) ==
    [k \in DOMAIN kgoDefaults |->
        LET mentions == {i \in 1 .. Len(options) : options[i].key = k}
        IN  IF mentions = {} THEN kgoDefaults[k] ELSE options[Max(mentions)].value]

RequiredOpts ==
    <<Opt("autoCommit", "disabled"), Opt("blockRebalanceOnPoll", "on"),
      Opt("callbacks", "adapter")>>

HookOpts(on) == IF on THEN <<Opt("hooks", "adapter")>> ELSE <<>>

\* Faulty variant: the host's options last.
UserOptsLast(us, hooks) == <<Opt("logger", "bridge")>> \o RequiredOpts \o hooks \o us

\* initClient: the base options, the host's, the required ones.
ClientOpts(us, hooks) == <<Opt("logger", "bridge")>> \o us \o RequiredOpts \o hooks

NewClient(who, options, topic) ==
    [owner |-> who, cfg |-> Effective(options), topic |-> topic, attempt |-> attempt]

\* The client initClient makes.
OwnClient == NewClient("adapter", ClientOpts(userOpts, HookOpts(telemetry)), topicName)

-----------------------------------------------------------------------------

HostOpts == UserOpts \cup {<<>>}

Configs ==
    {Effective(os) : os \in CustomOpts}
    \cup {Effective(ClientOpts(us, hooks)) :
              us \in HostOpts, hooks \in {<<>>, <<Opt("hooks", "adapter")>>}}

Clients ==
    [owner : {"adapter", "host"}, cfg : Configs, topic : Topics, attempt : 0 .. MaxAttempts]

WiringTypeOK ==
    /\ adapter \in {"none", "managed", "custom"}
    /\ userOpts \in HostOpts
    /\ asked \in OptionLists \cup {<<>>}
    /\ telemetry \in BOOLEAN
    /\ clients \in Seq(Clients)
    /\ open \in SUBSET (1 .. Len(clients))
    /\ client \in 0 .. Len(clients)
    /\ topicName \in Topics \cup {""}
    /\ create \in {"idle", "init", "check", "validate", "build", "contract"}
    /\ attempt \in 0 .. MaxAttempts
    /\ createdHere \in BOOLEAN
    /\ result \in {"none", "error", "panic", "consumer"}
    /\ wired \in BOOLEAN
    /\ clientLog \in {"none", "detached", "attached"}
    /\ emitters \in 0 .. MaxAttempts
    /\ quit \in BOOLEAN
    /\ caller \in [Callers -> {"idle", "running", "waiting", "returned", "panicked"}]
    /\ release \in {"no", "stop", "drain", "leave", "close", "done", "panicked"}

Init ==
    /\ adapter = "none" /\ userOpts = <<>>
    /\ opts = defaultAdapterOptions /\ asked = <<>>
    /\ telemetry = FALSE
    /\ clients = <<>> /\ open = {} /\ client = 0 /\ clientLog = "none"
    /\ topicName = ""
    /\ create = "idle" /\ attempt = 0 /\ createdHere = FALSE /\ result = "none"
    /\ wired = FALSE
    /\ emitters = 0 /\ quit = FALSE
    /\ caller = [c \in Callers |-> "idle"]
    /\ release = "no"

-----------------------------------------------------------------------------
(* Configuration *)

\* New and NewWithOptions; without a group they panic and there is no adapter.
NewWithOptions(us) ==
    /\ adapter = "none"
    /\ adapter' = "managed" /\ userOpts' = us
    /\ UNCHANGED <<opts, asked, telemetry, client_, attempt_, emission, shutdown>>

NewCustom ==
    /\ adapter = "none"
    /\ adapter' = "custom"
    /\ UNCHANGED <<userOpts, opts, asked, telemetry, client_, attempt_, emission, shutdown>>

\* SetClient, once, with a client the host has built.
SetClient(os, topic) ==
    /\ adapter = "custom" /\ client = 0 /\ create = "idle" /\ release = "no"
    /\ clients' = Append(clients, NewClient("host", os, topic))
    /\ client' = Len(clients) + 1
    /\ open' = open \cup {client'}
    /\ UNCHANGED <<config, clientLog, attempt_, emission, shutdown>>

\* WithOptions and WithBandwidthInterval come before CreateConsumer; the latter
\* panics on an interval out of range.
WithOptions(os) ==
    /\ adapter # "none" /\ attempt = 0 /\ release = "no"
    /\ opts' = processAdapterOptions(os)
    /\ asked' = os
    /\ UNCHANGED <<adapter, userOpts, telemetry, client_, attempt_, emission, shutdown>>

WithBandwidthInterval ==
    /\ adapter # "none" /\ attempt = 0 /\ release = "no"
    /\ telemetry' = TRUE
    /\ UNCHANGED <<adapter, userOpts, opts, asked, client_, attempt_, emission, shutdown>>

-----------------------------------------------------------------------------
(* CreateConsumer *)

\* The topic is taken from the builder, then a missing client is created; an
\* adapter of NewCustom has to have one.  Nothing refuses the call once the
\* adapter has been released; a call while releaseBroker runs is left out.
CreateConsumer(topic) ==
    /\ adapter # "none" /\ create = "idle" /\ attempt < MaxAttempts
    /\ release \in {"no", "done", "panicked"}
    /\ attempt' = attempt + 1
    /\ topicName' = topic
    /\ createdHere' = FALSE
    /\ create' = IF client # 0 THEN "validate"
                 ELSE IF adapter = "managed" THEN "init" ELSE "check"
    /\ UNCHANGED <<config, client_, result, wired, emission, shutdown>>

\* CreateConsumer returns or unwinds without a consumer.
Fails(how) ==
    /\ create' = "idle"
    /\ result' = how
    /\ UNCHANGED <<attempt, createdHere, topicName, wired>>

\* initClient: kgo refuses the options; or the broker does not answer the Ping
\* and the new client is closed; either way a.client stays nil.
InitClientFails ==
    /\ create = "init"
    /\ clientLog' = "detached"
    /\ clients' \in {clients, Append(clients, OwnClient)}
    /\ Fails("error")
    /\ UNCHANGED <<config, open, client, emission, shutdown>>

InitClient ==
    /\ create = "init"
    /\ clientLog' = "detached"
    /\ clients' = Append(clients, OwnClient)
    /\ client' = Len(clients) + 1
    /\ open' = open \cup {client'}
    /\ createdHere' = TRUE
    /\ create' = "validate"
    /\ UNCHANGED <<config, attempt, result, topicName, wired, emission, shutdown>>

\* NewCustom without SetClient.
NoClientConfigured ==
    /\ create = "check"
    /\ Fails("error")
    /\ UNCHANGED <<config, client_, emission, shutdown>>

\* Faulty variants: closeOnPanic for any client, and for none.
OpenUnlessClosed == open \ {client}
OpenAnyway == open

\* closeOnPanic, on the way out of a CreateConsumer that opened the client.
OpenAfterFailure == IF createdHere THEN open \ {client} ELSE open

\* validate.Client panics: ensureAutoCommitDisabled, ensureBlockRebalanceOnPoll.
Misconfigured ==
    \/ clients[client].cfg.autoCommit # "disabled"
    \/ clients[client].cfg.blockRebalanceOnPoll # "on"

ValidateClient ==
    /\ create = "validate" /\ ~Misconfigured
    /\ create' = "build"
    /\ UNCHANGED <<config, client_, progress, emission, shutdown>>

ValidateClientPanics ==
    /\ create = "validate" /\ Misconfigured
    /\ open' = OpenAfterFailure
    /\ Fails("panic")
    /\ UNCHANGED <<config, clients, client, clientLog, emission, shutdown>>

\* Faulty variant: started by the registration and once more by the wiring.
StartedTwice == IF telemetry THEN emitters + 2 ELSE emitters

\* SetBandwidthCallback, called by Build: with a collector, an emit goroutine.
EmittersStarted == IF telemetry THEN emitters + 1 ELSE emitters

Build ==
    /\ create = "build"
    /\ emitters' = EmittersStarted
    /\ create' = "contract"
    /\ UNCHANGED <<config, client_, progress, quit, shutdown>>

BuildPanics ==
    /\ create = "build"
    /\ emitters' \in {emitters, EmittersStarted}
    /\ open' = OpenAfterFailure
    /\ Fails("panic")
    /\ UNCHANGED <<config, clients, client, clientLog, quit, shutdown>>

\* The consumer has no EmergencyShutdown.
ContractRefused ==
    /\ create = "contract"
    /\ open' = OpenAfterFailure
    /\ Fails("error")
    /\ UNCHANGED <<config, clients, client, clientLog, emission, shutdown>>

\* clientLog.attach, where there is a bridge.  attach ignores a nil logger; the
\* engine's consumers have one.
BridgeAttached == IF clientLog = "none" THEN "none" ELSE "attached"

\* The consumer has it: adaptedConsumer, ctx and logger are assigned, the
\* bridge attached.
Wire ==
    /\ create = "contract"
    /\ wired' = TRUE
    /\ clientLog' = BridgeAttached
    /\ result' = "consumer"
    /\ create' = "idle"
    /\ UNCHANGED <<config, clients, open, client, attempt, createdHere, topicName, emission,
                   shutdown>>

-----------------------------------------------------------------------------
(* Unsubscribe, not yet subscribed *)

\* unsubscribeOnce.Do: the first caller runs releaseBroker, the others wait.
Unsubscribe(c) ==
    /\ adapter # "none" /\ create = "idle" /\ caller[c] = "idle"
    /\ caller' = [caller EXCEPT ![c] = IF release = "no" THEN "running" ELSE "waiting"]
    /\ release' = IF release = "no" THEN "stop" ELSE release
    /\ UNCHANGED <<config, client_, attempt_, emission>>

\* bwCollector.stop closes quit ...
StopBandwidth ==
    /\ release = "stop"
    /\ quit' = telemetry
    /\ release' = "drain"
    /\ UNCHANGED <<config, client_, attempt_, emitters, caller>>

\* Faulty variant: quit is a value sent, which one goroutine takes.
EmitLoopTakesQuit ==
    /\ emitters > 0 /\ quit
    /\ emitters' = emitters - 1
    /\ quit' = FALSE
    /\ UNCHANGED <<config, client_, attempt_, shutdown>>

EmitLoopQuits ==
    /\ emitters > 0 /\ quit
    /\ emitters' = emitters - 1
    /\ UNCHANGED <<config, client_, attempt_, quit, shutdown>>

\* ... and waits for the emit goroutines of every attempt.
AwaitEmitters ==
    /\ release = "drain" /\ emitters = 0
    /\ release' = "leave"
    /\ UNCHANGED <<config, client_, attempt_, emission, caller>>

\* leaveGroupFn, where there is a client; a leave that succeeds, or one that
\* fails or times out while there is a logger to say so.
LeaveGroup ==
    /\ release = "leave"
    /\ release' = "close"
    /\ UNCHANGED <<config, client_, attempt_, emission, caller>>

\* A failed leave is logged without the nil check the other lines have: with no
\* logger yet releaseBroker panics, its caller with it, and the Once is spent.
LeaveFailsUnlogged ==
    /\ release = "leave" /\ client # 0 /\ ~wired
    /\ release' = "panicked"
    /\ caller' = [c \in Callers |-> IF caller[c] = "running" THEN "panicked" ELSE caller[c]]
    /\ UNCHANGED <<config, client_, attempt_, emission>>

CloseClient ==
    /\ release = "close"
    /\ open' = open \ {client}
    /\ release' = "done"
    /\ UNCHANGED <<config, clients, client, clientLog, attempt_, emission, caller>>

UnsubscribeReturns(c) ==
    /\ caller[c] \in {"running", "waiting"} /\ release \in {"done", "panicked"}
    /\ caller' = [caller EXCEPT ![c] = "returned"]
    /\ UNCHANGED <<config, client_, attempt_, emission, release>>

-----------------------------------------------------------------------------

Configure ==
    \/ \E us \in UserOpts : NewWithOptions(us)
    \/ NewCustom
    \/ \E os \in CustomOpts, t \in Topics : SetClient(os, t)
    \/ \E os \in OptionLists : WithOptions(os)
    \/ WithBandwidthInterval

CreateStep ==
    \/ \E t \in Topics : CreateConsumer(t)
    \/ InitClientFails \/ InitClient \/ NoClientConfigured
    \/ ValidateClient \/ ValidateClientPanics \/ Build \/ BuildPanics
    \/ ContractRefused \/ Wire

ReleaseStep ==
    \/ \E c \in Callers : Unsubscribe(c) \/ UnsubscribeReturns(c)
    \/ StopBandwidth \/ AwaitEmitters \/ LeaveGroup \/ LeaveFailsUnlogged \/ CloseClient

Next == Configure \/ CreateStep \/ ReleaseStep \/ EmitLoopQuits

Spec == Init /\ [][Next]_vars

\* The goroutine in releaseBroker runs until it blocks, the leave and the close
\* end, and a closed quit wakes every emit goroutine.
LiveSpec ==
    /\ Spec
    /\ WF_vars(StopBandwidth) /\ WF_vars(AwaitEmitters)
    /\ WF_vars(LeaveGroup \/ LeaveFailsUnlogged) /\ WF_vars(CloseClient)
    /\ WF_vars(EmitLoopQuits)
    /\ \A c \in Callers : WF_vars(UnsubscribeReturns(c))

-----------------------------------------------------------------------------
(* Properties *)

\* A CreateConsumer that fails or panics leaves no client of its own open, at
\* whatever point it failed and however many attempts were made.
NoClientLeaked ==
    create = "idle" /\ ~wired =>
        \A i \in open : clients[i].owner # "adapter"

\* A client is closed only by Unsubscribe, or by the very CreateConsumer call
\* that opened it: never a client the host injected with SetClient, never the
\* one a consumer already returned still uses.
OnlyOpenerCloses ==
    [][\A i \in open \ open' :
          \/ release = "close"
          \/ clients[i].owner = "adapter" /\ clients[i].attempt = attempt /\ create # "idle"]_vars

\* A consumer is only ever returned over a client with auto-commit disabled and
\* rebalances blocked on poll, and a client the adapter built has the adapter's
\* callbacks, and its hooks where telemetry is on, whatever the host's options.
RequiredConfigEnforced ==
    wired =>
        LET cfg == clients[client].cfg IN
        /\ cfg.autoCommit = "disabled" /\ cfg.blockRebalanceOnPoll = "on"
        /\ adapter = "managed" =>
              /\ cfg.callbacks = "adapter"
              /\ telemetry => cfg.hooks = "adapter"
              /\ cfg.logger = "bridge" => clientLog = "attached"

\* The options in force are what the last WithOptions asked for, within bounds.
OptionsHonoured == Honours(opts, asked)

\* Every Unsubscribe ends, although each failed CreateConsumer may have left an
\* emit goroutine behind on the one collector that bwCollector.stop waits for.
UnsubscribeEnds ==
    \A c \in Callers :
        caller[c] \in {"running", "waiting"} ~> caller[c] \in {"returned", "panicked"}

\* CreateConsumer's comment: for New and NewWithOptions it "creates and connects
\* the kgo.Client (topic from the builder), returning an error if that fails".
\* So a consumer it returns has a client that is open and consumes that topic.
ConsumerHasLiveClient ==
    result = "consumer" /\ create = "idle" /\ adapter = "managed" /\ release = "no" =>
        client \in open /\ clients[client].topic = topicName

\* Unsubscribe's comment: later callers "return once it has completed, so none
\* can report done while the leave/close is still in flight".  (A consumer made
\* after that has a client of its own.)
ReturnedMeansClosed ==
    create = "idle" /\ ~wired /\ (\E c \in Callers : caller[c] = "returned") =>
        client \notin open
=============================================================================
