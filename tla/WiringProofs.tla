----------------------------- MODULE WiringProofs ----------------------------
(***************************************************************************)
(* Construction is safe for any number of attempts, any options a host may *)
(* give and any number of callers of Unsubscribe.                          *)
(***************************************************************************)
EXTENDS Wiring, OptionsProofs

\* CreateConsumer is past the point where it has a client.
HasClient == {"validate", "build", "contract"}

\* The adapter's one open client is a.client, and either a consumer uses it or
\* the CreateConsumer that opened it is still running.
Ownership ==
    /\ create \in HasClient \/ wired => client # 0
    /\ create = "init" => client = 0
    /\ create \in HasClient /\ createdHere =>
          clients[client].owner = "adapter" /\ clients[client].attempt = attempt
    /\ \A i \in open : clients[i].owner = "adapter" =>
          i = client /\ (wired \/ (create \in HasClient /\ createdHere))

\* A managed adapter's client has exactly the configuration initClient gave it,
\* and only a validated client gets as far as Build.
Configured ==
    /\ adapter = "none" => client = 0 /\ attempt = 0
    /\ adapter = "managed" /\ attempt = 0 => client = 0
    /\ adapter # "managed" => create # "init"
    /\ create # "idle" => attempt # 0
    /\ adapter = "managed" /\ client # 0 =>
          /\ clients[client].cfg = Effective(ClientOpts(userOpts, HookOpts(telemetry)))
          /\ clientLog # "none"
    /\ create \in {"build", "contract"} \/ wired => ~Misconfigured
    /\ adapter = "managed" /\ wired => clientLog = "attached"

\* The types the proofs need.
Typed ==
    /\ userOpts \in HostOpts
    /\ clients \in Seq(Clients)
    /\ \A i \in open : i \in 1 .. Len(clients)
    /\ client \in 0 .. Len(clients)
    /\ attempt \in 0 .. MaxAttempts
    /\ create = "init" => topicName \in Topics
    /\ emitters \in Nat

WInv == Typed /\ Ownership

-----------------------------------------------------------------------------

\* The client initClient makes is one of Clients.
LEMMA OwnClientType == Typed /\ create = "init" => OwnClient \in Clients
<1> SUFFICES ASSUME Typed, create = "init" PROVE OwnClient \in Clients
  OBVIOUS
<1>1. HookOpts(telemetry) \in {<<>>, <<Opt("hooks", "adapter")>>}
  BY DEF HookOpts
<1>2. Effective(ClientOpts(userOpts, HookOpts(telemetry))) \in Configs
  <2>1. userOpts \in HostOpts
    BY DEF Typed
  <2> DEFINE S == {Effective(ClientOpts(us, hooks)) :
                     us \in HostOpts, hooks \in {<<>>, <<Opt("hooks", "adapter")>>}}
  <2>2. Effective(ClientOpts(userOpts, HookOpts(telemetry))) \in S
    BY <1>1, <2>1
  <2> QED
    BY <2>2 DEF Configs
<1>3. topicName \in Topics /\ attempt \in 0 .. MaxAttempts
  BY DEF Typed
<1> QED
  BY <1>2, <1>3 DEF OwnClient, NewClient, Clients

\* The types are preserved.
LEMMA TypedStep == Typed /\ [Next]_vars => Typed'
<1> SUFFICES ASSUME Typed, [Next]_vars PROVE Typed'
  OBVIOUS
<1> USE DEF Typed
<1>1. ASSUME NEW us \in UserOpts, NewWithOptions(us) PROVE Typed'
  BY <1>1 DEF NewWithOptions, HostOpts, client_, attempt_, progress, emission
<1>2. CASE NewCustom
  BY <1>2 DEF NewCustom, client_, attempt_, progress, emission
<1>3. ASSUME NEW os \in CustomOpts, NEW t \in Topics, SetClient(os, t) PROVE Typed'
  <2>1. NewClient("host", os, t) \in Clients
    BY DEF NewClient, Clients, Configs
  <2> QED
    BY <1>3, <2>1 DEF SetClient, config, attempt_, progress, emission
<1>4. ASSUME NEW os \in OptionLists, WithOptions(os) PROVE Typed'
  BY <1>4 DEF WithOptions, client_, attempt_, progress, emission
<1>5. CASE WithBandwidthInterval
  BY <1>5 DEF WithBandwidthInterval, client_, attempt_, progress, emission
<1>6. ASSUME NEW t \in Topics, CreateConsumer(t) PROVE Typed'
  BY <1>6, WiringAssumption DEF CreateConsumer, config, client_, emission
<1>7. CASE InitClientFails
  BY <1>7, OwnClientType DEF InitClientFails, Fails, config, emission
<1>8. CASE InitClient
  BY <1>8, OwnClientType DEF InitClient, config, emission
<1>9. CASE NoClientConfigured \/ ValidateClient \/ Wire
  BY <1>9
  DEF NoClientConfigured, ValidateClient, progress, Wire, Fails, config,
      client_, emission
<1>10. CASE ValidateClientPanics \/ ContractRefused
  BY <1>10 DEF ValidateClientPanics, ContractRefused, OpenAfterFailure, Fails, config, emission
<1>11. CASE Build \/ BuildPanics
  BY <1>11 DEF Build, progress, BuildPanics, EmittersStarted, OpenAfterFailure, Fails, config,
      client_
<1>12. ASSUME NEW c \in Callers, Unsubscribe(c) \/ UnsubscribeReturns(c) PROVE Typed'
  BY <1>12 DEF Unsubscribe, UnsubscribeReturns, config, client_, attempt_, progress, emission
<1>13. CASE StopBandwidth \/ AwaitEmitters \/ LeaveGroup \/ LeaveFailsUnlogged
  BY <1>13
  DEF StopBandwidth, AwaitEmitters, LeaveGroup, LeaveFailsUnlogged, config, client_, attempt_,
      progress,
      emission
<1>14. CASE CloseClient \/ EmitLoopQuits
  BY <1>14 DEF CloseClient, EmitLoopQuits, config, client_, attempt_, progress, emission
<1>15. CASE UNCHANGED vars
  BY <1>15 DEF vars, config, client_, attempt_, progress, emission
<1> QED
  BY <1>1, <1>2, <1>3, <1>4, <1>5, <1>6, <1>7, <1>8, <1>9, <1>10, <1>11, <1>12, <1>13, <1>14,
     <1>15
  DEF Next, Configure, CreateStep, ReleaseStep

\* Who owns which client is preserved.
LEMMA OwnershipStep == WInv /\ [Next]_vars => Ownership'
<1> SUFFICES ASSUME WInv, [Next]_vars PROVE Ownership'
  OBVIOUS
<1> USE DEF WInv, Typed, Ownership, HasClient
<1>1. ASSUME NEW us \in UserOpts, NewWithOptions(us) PROVE Ownership'
  BY <1>1 DEF NewWithOptions, client_, attempt_, progress, emission, shutdown
<1>2. CASE NewCustom \/ WithBandwidthInterval
  BY <1>2 DEF NewCustom, WithBandwidthInterval, client_, attempt_, progress, emission, shutdown
<1>3. ASSUME NEW os \in CustomOpts, NEW t \in Topics, SetClient(os, t)
      PROVE  Ownership'
  <2>1. NewClient("host", os, t) \in Clients /\ NewClient("host", os, t).owner = "host"
    BY DEF NewClient, Clients, Configs
  <2> QED
    BY <1>3, <2>1 DEF SetClient, attempt_, progress, emission, shutdown
<1>4. ASSUME NEW os \in OptionLists, WithOptions(os) PROVE Ownership'
  BY <1>4 DEF WithOptions, client_, attempt_, progress, emission, shutdown
<1>5. ASSUME NEW t \in Topics, CreateConsumer(t) PROVE Ownership'
  BY <1>5 DEF CreateConsumer, client_, emission, shutdown
<1>6. CASE InitClientFails
  BY <1>6, OwnClientType DEF InitClientFails, Fails, emission, shutdown
<1>7. CASE InitClient
  <2>1. OwnClient.owner = "adapter" /\ OwnClient.attempt = attempt
    BY DEF OwnClient, NewClient
  <2>2. clients' = Append(clients, OwnClient) /\ OwnClient \in Clients
    BY <1>7, OwnClientType DEF InitClient
  <2> HIDE DEF Typed
  <2>3. clients'[client'] = OwnClient /\ \A i \in open : clients'[i] = clients[i]
    BY <1>7, <2>2 DEF InitClient, Typed
  <2> QED
    BY <1>7, <2>1, <2>3 DEF InitClient, emission, shutdown, Typed
<1>8. CASE NoClientConfigured
  BY <1>8 DEF NoClientConfigured, Fails, client_, emission, shutdown
<1>9. CASE ValidateClient \/ Wire
  BY <1>9 DEF ValidateClient, progress, Wire, client_, emission, shutdown
<1>10. CASE ValidateClientPanics \/ ContractRefused \/ BuildPanics
  BY <1>10
  DEF ValidateClientPanics, ContractRefused, BuildPanics, OpenAfterFailure, Fails, emission,
      shutdown
<1>11. CASE Build
  BY <1>11 DEF Build, progress, client_, shutdown
<1>12. ASSUME NEW c \in Callers, Unsubscribe(c) \/ UnsubscribeReturns(c)
      PROVE  Ownership'
  BY <1>12 DEF Unsubscribe, UnsubscribeReturns, client_, attempt_, progress, emission
<1>13. CASE StopBandwidth \/ AwaitEmitters \/ LeaveGroup \/ LeaveFailsUnlogged
  BY <1>13
  DEF StopBandwidth, AwaitEmitters, LeaveGroup, LeaveFailsUnlogged, client_,
      attempt_, progress, emission
<1>14. CASE CloseClient \/ EmitLoopQuits
  BY <1>14 DEF CloseClient, EmitLoopQuits, client_, attempt_, progress, emission, shutdown
<1>15. CASE UNCHANGED vars
  BY <1>15 DEF vars, client_, attempt_, progress, emission, shutdown
<1> QED
  BY <1>1, <1>2, <1>3, <1>4, <1>5, <1>6, <1>7, <1>8, <1>9, <1>10, <1>11, <1>12, <1>13, <1>14,
     <1>15
  DEF Next, Configure, CreateStep, ReleaseStep

-----------------------------------------------------------------------------

OptRecords == [key : STRING, value : STRING]

\* The required options come last, so no option of the host's can replace them.
LEMMA RequiredWins ==
    ASSUME NEW us \in Seq(OptRecords), NEW on
    PROVE  LET cfg == Effective(ClientOpts(us, HookOpts(on)))
           IN  cfg["callbacks"] = "adapter" /\ (on => cfg["hooks"] = "adapter")
<1> DEFINE n == Len(us)
           o == ClientOpts(us, HookOpts(on))
           Of(k) == {i \in 1 .. Len(o) : o[i].key = k}
<1>1. HookOpts(on) = IF on THEN <<Opt("hooks", "adapter")>> ELSE <<>>
  BY DEF HookOpts
<1>2. /\ Len(o) = IF on THEN n + 5 ELSE n + 4
      /\ o[n + 4] = Opt("callbacks", "adapter")
      /\ on => o[n + 5] = Opt("hooks", "adapter")
  <2>1. CASE on
    BY <1>1, <2>1 DEF ClientOpts, RequiredOpts, Opt, OptRecords
  <2>2. CASE ~on
    BY <1>1, <2>2 DEF ClientOpts, RequiredOpts, Opt, OptRecords
  <2> QED
    BY <2>1, <2>2
<1>3. n \in Nat
  OBVIOUS
<1> HIDE DEF o, n
<1>4. n + 4 \in Of("callbacks") /\ \A i \in Of("callbacks") : i <= n + 4
  BY <1>2, <1>3 DEF Opt
<1>5. Max(Of("callbacks")) = n + 4
  BY <1>3, <1>4 DEF Max
<1>6. on => n + 5 \in Of("hooks") /\ \A i \in Of("hooks") : i <= n + 5
  BY <1>2, <1>3 DEF Opt
<1>7. on => Max(Of("hooks")) = n + 5
  BY <1>3, <1>6 DEF Max
<1>8. Effective(o) = [k \in DOMAIN kgoDefaults |->
                        IF Of(k) = {} THEN kgoDefaults[k] ELSE o[Max(Of(k))].value]
  BY DEF Effective
<1>9. {"callbacks", "hooks"} \subseteq DOMAIN kgoDefaults
  BY DEF kgoDefaults
<1> HIDE DEF Of
<1>10. Effective(o)["callbacks"] = o[n + 4].value
  BY <1>4, <1>5, <1>8, <1>9
<1>11. on => Effective(o)["hooks"] = o[n + 5].value
  BY <1>6, <1>7, <1>8, <1>9
<1> QED
  BY <1>2, <1>10, <1>11 DEF Opt, o

\* The invariant of construction holds in every reachable state.
THEOREM WiringInvariance == Spec => []WInv
<1>1. Init => WInv
  <2> SUFFICES ASSUME Init PROVE WInv
    OBVIOUS
  <2>1. Typed
    <3>1. userOpts \in HostOpts
      BY DEF Init, HostOpts
    <3>2. clients = <<>> /\ client = 0 /\ open = {} /\ attempt = 0
          /\ create = "idle" /\ emitters = 0
      BY DEF Init
    <3> QED
      BY <3>1, <3>2, WiringAssumption DEF Typed
  <2>2. Ownership
    BY DEF Init, Ownership, HasClient
  <2> QED
    BY <2>1, <2>2 DEF WInv
<1>2. WInv /\ [Next]_vars => WInv'
  BY TypedStep, OwnershipStep DEF WInv
<1> QED
  BY <1>1, <1>2, PTL DEF Spec

\* What a client is configured with never changes under a consumer.
LEMMA ConfiguredStep == WInv /\ Configured /\ [Next]_vars => Configured'
<1> SUFFICES ASSUME WInv, Configured, [Next]_vars PROVE Configured'
  OBVIOUS
<1> USE DEF WInv, Typed, Ownership, Configured, HasClient, Misconfigured
<1>1. ASSUME NEW us \in UserOpts, NewWithOptions(us) PROVE Configured'
  BY <1>1 DEF NewWithOptions, client_, attempt_, progress
<1>2. CASE NewCustom
  BY <1>2 DEF NewCustom, client_, attempt_, progress
<1>3. ASSUME NEW os \in CustomOpts, NEW t \in Topics, SetClient(os, t) PROVE Configured'
  BY <1>3 DEF SetClient, config, attempt_, progress
<1>4. ASSUME NEW os \in OptionLists, WithOptions(os) PROVE Configured'
  BY <1>4 DEF WithOptions, client_, attempt_, progress
<1>5. CASE WithBandwidthInterval
  BY <1>5 DEF WithBandwidthInterval, client_, attempt_, progress
<1>6. ASSUME NEW t \in Topics, CreateConsumer(t) PROVE Configured'
  BY <1>6, WiringAssumption DEF CreateConsumer, config, client_
<1>7. CASE InitClientFails
  BY <1>7 DEF InitClientFails, Fails, config
<1>8. CASE InitClient
  <2>1. OwnClient.cfg = Effective(ClientOpts(userOpts, HookOpts(telemetry)))
    BY DEF OwnClient, NewClient
  <2>2. clients' = Append(clients, OwnClient) /\ OwnClient \in Clients
    BY <1>8, OwnClientType DEF InitClient
  <2>3. clients'[client'] = OwnClient
    BY <1>8, <2>2 DEF InitClient
  <2>4. /\ client' # 0 /\ clientLog' = "detached" /\ create' = "validate"
        /\ ~wired /\ wired' = wired /\ adapter = "managed" /\ adapter' = adapter
        /\ attempt' = attempt /\ userOpts' = userOpts /\ telemetry' = telemetry
    BY <1>8, WiringAssumption DEF InitClient, config
  <2>5. clients'[client'].cfg = Effective(ClientOpts(userOpts', HookOpts(telemetry')))
    BY <2>1, <2>3, <2>4
  <2>6. attempt # 0
    BY <1>8 DEF InitClient
  <2> QED
    BY <2>4, <2>5, <2>6 DEF Configured
<1>9. CASE NoClientConfigured \/ ValidateClient
  BY <1>9
  DEF NoClientConfigured, ValidateClient, progress, Fails, config, client_
<1>10. CASE ValidateClientPanics \/ ContractRefused \/ BuildPanics
  BY <1>10 DEF ValidateClientPanics, ContractRefused, BuildPanics, Fails, config
<1>11. CASE Build
  BY <1>11 DEF Build, progress, config, client_
<1>12. CASE Wire
  BY <1>12 DEF Wire, BridgeAttached, config
<1>13. ASSUME NEW c \in Callers, Unsubscribe(c) \/ UnsubscribeReturns(c) PROVE Configured'
  BY <1>13 DEF Unsubscribe, UnsubscribeReturns, config, client_, attempt_, progress
<1>14. CASE StopBandwidth \/ AwaitEmitters \/ LeaveGroup \/ LeaveFailsUnlogged
  BY <1>14
  DEF StopBandwidth, AwaitEmitters, LeaveGroup, LeaveFailsUnlogged, config, client_, attempt_,
      progress
<1>15. CASE CloseClient \/ EmitLoopQuits \/ UNCHANGED vars
  BY <1>15 DEF CloseClient, EmitLoopQuits, vars, config, client_, attempt_, progress
<1> QED
  BY <1>1, <1>2, <1>3, <1>4, <1>5, <1>6, <1>7, <1>8, <1>9, <1>10, <1>11, <1>12, <1>13, <1>14,
     <1>15
  DEF Next, Configure, CreateStep, ReleaseStep

\* initClient's option order and validate.Client: no consumer is returned over a
\* client that commits by itself, lets rebalances into a poll or, if the adapter
\* built it, calls anyone else's callbacks.
THEOREM ConsumersAreConfigured == Spec => []RequiredConfigEnforced
<1>1. Init => Configured
  BY DEF Init, Configured
<1>2. WInv /\ Configured => RequiredConfigEnforced
  <2> SUFFICES ASSUME WInv, Configured, wired PROVE RequiredConfigEnforced
    BY DEF RequiredConfigEnforced
  <2>1. ~Misconfigured
    BY DEF Configured
  <2>2. CASE adapter # "managed"
    BY <2>1, <2>2 DEF RequiredConfigEnforced, Misconfigured
  <2>3. CASE adapter = "managed"
    <3>1. /\ clients[client].cfg = Effective(ClientOpts(userOpts, HookOpts(telemetry)))
          /\ clientLog = "attached"
      BY <2>3 DEF Configured, WInv, Ownership
    <3>2. userOpts \in Seq(OptRecords)
      <4>1. userOpts \in UserOpts \/ userOpts = <<>>
        BY DEF WInv, Typed, HostOpts
      <4>2. UserOpts \subseteq Seq(OptRecords)
        BY WiringAssumption, Zenon DEF OptRecords
      <4>3. <<>> \in Seq(OptRecords)
        OBVIOUS
      <4> QED
        BY <4>1, <4>2, <4>3, Zenon
    <3>3. /\ clients[client].cfg["callbacks"] = "adapter"
          /\ telemetry => clients[client].cfg["hooks"] = "adapter"
      BY <3>1, <3>2, RequiredWins
    <3> QED
      BY <2>1, <3>1, <3>3 DEF RequiredConfigEnforced, Misconfigured
  <2> QED
    BY <2>2, <2>3
<1> QED
  BY WiringInvariance, ConfiguredStep, <1>1, <1>2, PTL DEF Spec

\* CreateConsumer's error paths and closeOnPanic: no failed attempt, of however
\* many, leaves a client of the adapter's open.
THEOREM FailureClosesOwnClient == Spec => []NoClientLeaked
<1>1. WInv => NoClientLeaked
  BY DEF WInv, Ownership, NoClientLeaked, HasClient
<1> QED
  BY WiringInvariance, <1>1, PTL

\* createdHere: a client is closed by Unsubscribe or by the call that opened it.
THEOREM OpenerCloses == Spec => OnlyOpenerCloses
<1> DEFINE Closing ==
      \A i \in open \ open' :
          \/ release = "close"
          \/ clients[i].owner = "adapter" /\ clients[i].attempt = attempt /\ create # "idle"
<1>1. WInv /\ [Next]_vars => [Closing]_vars
  <2> SUFFICES ASSUME WInv, Next PROVE Closing
    OBVIOUS
  <2>1. CASE open \subseteq open'
    BY <2>1
  <2>2. CASE ValidateClientPanics \/ ContractRefused \/ BuildPanics
    BY <2>2
    DEF ValidateClientPanics, ContractRefused, BuildPanics, OpenAfterFailure, WInv, Typed,
        Ownership, HasClient
  <2>3. CASE CloseClient
    BY <2>3 DEF CloseClient
  <2>4. \/ open \subseteq open'
        \/ ValidateClientPanics \/ ContractRefused \/ BuildPanics \/ CloseClient
    BY DEF Next, Configure, CreateStep, ReleaseStep, NewWithOptions, NewCustom, SetClient,
       WithOptions, WithBandwidthInterval, CreateConsumer, InitClientFails, InitClient,
       NoClientConfigured, ValidateClient, progress, Build, Wire, Unsubscribe,
       UnsubscribeReturns, StopBandwidth, AwaitEmitters, LeaveGroup, LeaveFailsUnlogged,
       EmitLoopQuits, client_
  <2> QED
    BY <2>1, <2>2, <2>3, <2>4
<1> QED
  BY WiringInvariance, <1>1, PTL DEF Spec, OnlyOpenerCloses

-----------------------------------------------------------------------------
(* The rest of the type invariant *)

\* An attempt starts at most one emit goroutine, and not before Build.
EmitterPerAttempt ==
    /\ emitters <= attempt
    /\ create \in {"init", "check", "validate", "build"} => emitters < attempt

\* The variables that take one of a few names.
Named ==
    /\ adapter \in {"none", "managed", "custom"}
    /\ create \in {"idle", "init", "check", "validate", "build", "contract"}
    /\ result \in {"none", "error", "panic", "consumer"}
    /\ clientLog \in {"none", "detached", "attached"}
    /\ release \in {"no", "stop", "drain", "leave", "close", "done", "panicked"}

\* The Boolean variables, and what the host and the builder supply.
Supplied ==
    /\ telemetry \in BOOLEAN /\ createdHere \in BOOLEAN /\ wired \in BOOLEAN /\ quit \in BOOLEAN
    /\ asked \in OptionLists \cup {<<>>}
    /\ topicName \in Topics \cup {""}

CallersTyped ==
    caller \in [Callers -> {"idle", "running", "waiting", "returned", "panicked"}]

\* Emit goroutines never outnumber the attempts.
LEMMA EmitterStep == Typed /\ EmitterPerAttempt /\ [Next]_vars => EmitterPerAttempt'
<1> SUFFICES ASSUME Typed, EmitterPerAttempt, [Next]_vars PROVE EmitterPerAttempt'
  OBVIOUS
<1>0. emitters \in Int /\ attempt \in Int
  BY WiringAssumption DEF Typed
<1> USE DEF EmitterPerAttempt
<1>1. ASSUME NEW t \in Topics, CreateConsumer(t) PROVE EmitterPerAttempt'
  BY <1>0, <1>1 DEF CreateConsumer, emission
<1>2. CASE Build \/ BuildPanics
  BY <1>0, <1>2 DEF Build, BuildPanics, Fails, EmittersStarted, progress
<1>3. CASE EmitLoopQuits
  BY <1>0, <1>3 DEF EmitLoopQuits, attempt_, progress
<1>4. CASE /\ UNCHANGED <<emitters, attempt>>
           /\ create' = create \/ create' \in {"idle", "build"} \/ create = "init"
           /\ create' = "build" => create = "validate"
  BY <1>0, <1>4
<1>5. \/ \E t \in Topics : CreateConsumer(t)
      \/ Build \/ BuildPanics \/ EmitLoopQuits
      \/ /\ UNCHANGED <<emitters, attempt>>
         /\ create' = create \/ create' \in {"idle", "build"} \/ create = "init"
         /\ create' = "build" => create = "validate" \/ create' = create
  BY DEF Next, Configure, CreateStep, ReleaseStep, NewWithOptions, NewCustom, SetClient,
       WithOptions, WithBandwidthInterval, CreateConsumer, InitClientFails, InitClient,
       NoClientConfigured, ValidateClient, ValidateClientPanics, Build, BuildPanics,
       ContractRefused, Wire, Fails, Unsubscribe, UnsubscribeReturns, StopBandwidth,
       EmitLoopQuits, AwaitEmitters, LeaveGroup, LeaveFailsUnlogged, CloseClient, vars, config,
       client_, attempt_, progress, emission, shutdown
<1> QED
  BY <1>1, <1>2, <1>3, <1>4, <1>5

\* The named states and the host's choices keep their types.
LEMMA NamesStep ==
    Named /\ Supplied /\ CallersTyped /\ [Next]_vars => Named' /\ Supplied' /\ CallersTyped'
<1> SUFFICES ASSUME Named, Supplied, CallersTyped, [Next]_vars
             PROVE  Named' /\ Supplied' /\ CallersTyped'
  OBVIOUS
<1>1. /\ Named'
      /\ telemetry' = telemetry \/ telemetry' = TRUE
      /\ createdHere' = createdHere \/ createdHere' = TRUE \/ createdHere' = FALSE
      /\ wired' = wired \/ wired' = TRUE
      /\ quit' = quit \/ quit' = telemetry
      /\ asked' = asked \/ asked' \in OptionLists
      /\ topicName' = topicName \/ topicName' \in Topics
      /\ CallersTyped'
  <2> USE DEF Next, Configure, CreateStep, ReleaseStep, NewWithOptions, NewCustom, SetClient,
         WithOptions, WithBandwidthInterval, CreateConsumer, InitClientFails, InitClient,
         NoClientConfigured, ValidateClient, ValidateClientPanics, Build, BuildPanics,
         ContractRefused, Wire, Fails, Unsubscribe, UnsubscribeReturns, StopBandwidth,
         EmitLoopQuits, AwaitEmitters, LeaveGroup, LeaveFailsUnlogged, CloseClient, vars, config,
         client_, attempt_, progress, emission, shutdown
  <2>1. adapter' \in {"none", "managed", "custom"}
    BY DEF Named
  <2>2. create' \in {"idle", "init", "check", "validate", "build", "contract"}
    BY DEF Named
  <2>3. result' \in {"none", "error", "panic", "consumer"}
    BY DEF Named
  <2>4. clientLog' \in {"none", "detached", "attached"}
    BY DEF Named, BridgeAttached
  <2>5. release' \in {"no", "stop", "drain", "leave", "close", "done", "panicked"}
    BY DEF Named
  <2>6. /\ telemetry' = telemetry \/ telemetry' = TRUE
        /\ createdHere' = createdHere \/ createdHere' = TRUE \/ createdHere' = FALSE
        /\ wired' = wired \/ wired' = TRUE
        /\ quit' = quit \/ quit' = telemetry
    OBVIOUS
  <2>7. asked' = asked \/ asked' \in OptionLists
    OBVIOUS
  <2>8. topicName' = topicName \/ topicName' \in Topics
    OBVIOUS
  <2>9. CallersTyped'
    BY DEF CallersTyped
  <2> QED
    BY <2>1, <2>2, <2>3, <2>4, <2>5, <2>6, <2>7, <2>8, <2>9 DEF Named
<1>2. Supplied'
  BY <1>1, Zenon DEF Supplied
<1> QED
  BY <1>1, <1>2

\* Type correctness of construction, configuration and release.
THEOREM WiringTypes == Spec => []WiringTypeOK
<1>1. Init => EmitterPerAttempt /\ Named /\ Supplied /\ CallersTyped
  <2> SUFFICES ASSUME Init PROVE EmitterPerAttempt /\ Named /\ Supplied /\ CallersTyped
    OBVIOUS
  <2>1. EmitterPerAttempt /\ Named
    <3>1. /\ emitters = 0 /\ attempt = 0 /\ create = "idle" /\ adapter = "none"
          /\ result = "none" /\ clientLog = "none" /\ release = "no"
      BY DEF Init
    <3> QED
      BY <3>1 DEF EmitterPerAttempt, Named
  <2>2. Supplied
    BY Zenon DEF Init, Supplied
  <2>3. CallersTyped
    BY DEF Init, CallersTyped
  <2> QED
    BY <2>1, <2>2, <2>3
<1>2. Typed /\ EmitterPerAttempt /\ Named /\ Supplied /\ CallersTyped => WiringTypeOK
  <2> SUFFICES ASSUME Typed, EmitterPerAttempt, Named, Supplied, CallersTyped PROVE WiringTypeOK
    OBVIOUS
  <2>1. emitters \in 0 .. MaxAttempts
    BY WiringAssumption DEF Typed, EmitterPerAttempt
  <2>2. open \in SUBSET (1 .. Len(clients))
    BY DEF Typed
  <2> QED
    BY <2>1, <2>2, Zenon DEF WiringTypeOK, Typed, Named, Supplied, CallersTyped
<1>3. WInv => Typed
  BY DEF WInv
<1> QED
  BY WiringInvariance, EmitterStep, NamesStep, <1>1, <1>2, <1>3, PTL DEF Spec

\* WithOptions is the one step that changes the options in force, and what it was
\* given is a list of options.
LEMMA HonouredStep == OptionsHonoured /\ [Next]_vars => OptionsHonoured'
<1> SUFFICES ASSUME OptionsHonoured, [Next]_vars PROVE OptionsHonoured'
  OBVIOUS
<1>1. ASSUME NEW os \in OptionLists, WithOptions(os) PROVE OptionsHonoured'
  <2>1. os \in Seq(AdapterOptions)
    BY WiringAssumption
  <2>2. opts' = processAdapterOptions(os) /\ asked' = os
    BY <1>1 DEF WithOptions
  <2> QED
    BY <2>1, <2>2, OptionsKeepTheirWord DEF OptionsHonoured
<1>2. CASE UNCHANGED <<opts, asked>>
  BY <1>2 DEF OptionsHonoured
<1>3. (\E os \in OptionLists : WithOptions(os)) \/ UNCHANGED <<opts, asked>>
  BY DEF Next, Configure, NewWithOptions, NewCustom, SetClient, WithBandwidthInterval,
      CreateStep, CreateConsumer, InitClientFails, InitClient, NoClientConfigured, ValidateClient,
      ValidateClientPanics, Build, BuildPanics, ContractRefused, Wire, ReleaseStep, Unsubscribe,
      UnsubscribeReturns, StopBandwidth, AwaitEmitters, LeaveGroup, LeaveFailsUnlogged,
      CloseClient, EmitLoopQuits, vars, config
<1> QED
  BY <1>1, <1>2, <1>3

\* processAdapterOptions: whatever lists WithOptions is given, and before it is
\* called at all, the options in force are the ones asked for, within bounds.
THEOREM OptionsTakeEffect == Spec => []OptionsHonoured
<1>1. Init => OptionsHonoured
  BY DefaultsInRange DEF Init, OptionsHonoured
<1> QED
  BY <1>1, HonouredStep, PTL DEF Spec
=============================================================================
