# A TLA+ model of wormhole-cli

`wh` (llnl/wormhole-cli) opens a "wormhole" from a compute node to a local web
application: it registers a route with the Route Registry, runs the Airlock
proxy in front of the application, and keeps a Piko tunnel connected to the
proxy. This directory models that program in TLA+: TLC checks the modules on
small instances, and TLAPS proves the main results about the tunnel for every
value of the constants.

## The system

| Part | State | Operations | Hard because |
| --- | --- | --- | --- |
| Self-healing tunnel, `internal/selfheal` | registration, a copy of its credentials, `rotated`, `reRegistered`, the backoff of the request being retried | `RegisterRoute`, `Run`, retry, refresh, re-registration, `waitForForwarder` | every call blocks and can be canceled; the registry and Piko answer anything in any order |
| Piko client, `internal/piko` over the vendored `piko/client` | session, sessions left behind, listener context, error group, streams | dial and redial, accept, forward, `Wait`, `Close` | reconnects in a goroutine of its own, under another context than Run's |
| `wh open`, `internal/cmd/wh/wh.go` | error group, port, first error | `openWormhole`, `launchAirlock` | two goroutines and a signal end each other; a port is given back before it is used |
| Namespaced execution, `internal/ns` | two stages of the process, SYNC pipe, slirp4netns, application | `LaunchNS`, `launchNetwork`, `Exec`, `execChild`, `terminateChild` | three processes, their goroutines and their signals |
| Configuration, `internal/cmd/bootstrap`, `internal/cmd/wh/args` | files loaded, chain of sources | `bootstrap.Run`, `flagSources` | the command line is parsed twice, with different sets of known flags |
| Registry client and commands, `internal/routeregistry`, `community.go`, `route.go` | the IDs it resolved; the registry's state is the server's | list, resolve, add, remove | resolve and modify are separate requests, between which other clients change the registry; a response can be lost |
| Formatting, logging, version | none | printing | not hard |

`main` gives every command a context that SIGINT and SIGTERM cancel. `wh open`
derives the error group's context from it and runs `selfheal.Run` and Airlock in
the group. `selfheal.Run` calls the Route Registry client for credentials and
the Piko client for the connection. With a command to run, `wh open` first
starts itself again in new namespaces (`LaunchNS`), and the second stage
(`Exec`) runs `openWormhole` beside the application.

What makes each part correct: the tunnel recovers from rejected credentials
without looping, with the newest JWT, one forwarder at a time, and lets go when
canceled; the Piko client closes what it opened, except as said below; `wh open`
ends as a whole and tells the truth about why; the application only ever runs
with a network and a tunnel; an option's value comes from the source that the
documentation names; a registry command changes only what the user named, and
says whether it did.
The hazards behind these sentences are listed, with their lines, in
`PROJECT.json`.

## Modules

    Backoff              nextRetryDelay and Config.Validate
      SelfHeal           RegisterRoute and Run            -- implements CredentialRecovery
        PikoTunnel       SelfHeal with the real forwarder
        RegistryServer   SelfHeal with servers that keep track of JWTs
        OpenWormhole     SelfHeal beside Airlock in openWormhole's error group
    CredentialRecovery   what Run promises about credentials
    LaunchNetwork        what LaunchNS relies on about launchNetwork
      Namespace          LaunchNS and Exec                -- built on LaunchNetwork
    SlirpNetwork         launchNetwork and terminateChild -- implements LaunchNetwork
    RegistryCommands     the community and route commands
    ConfigSources        bootstrap.Run and the sources of one option
    SelfHealProofs                     theorems on Backoff and SelfHeal
      PikoTunnelProofs, RegistryServerProofs, OpenWormholeProofs
    NamespaceProofs, SlirpNetworkProofs, RegistryCommandsProofs,
    ConfigSourcesProofs                theorems on the module of that name
    MCSelfHeal, MCPikoTunnel, MCRegistryServer, MCOpenWormhole,
    MCRegistryCommands                 instances for TLC

**Backoff.** `NextBackoff` and `NextDelay` are the two results of
`nextRetryDelay`. Durations are integers of a given width (`MaxDuration`), and
`Double` wraps as the code's multiplication would. The jitter is a number of
tenths; float64 rounding is left out.

**SelfHeal.** `pc` is the blocking call the goroutine is in (`request`, `sleep`,
`launch`, `listen`, `wait`), and an action performs everything up to the next
one: `RequestFails`, for instance, is the rest of `retryRouteRegistry` after a
failed request, with the callers' decisions (`GiveUp`) if it is not retried.
`Cancel` may come between any two steps. Answers are chosen freely: any JWT,
also an old one; any status; Piko may accept or reject. `newest`, `tries` and
`lateOps` are history variables. A request begun on a context that is already
done fails, as `net/http` and the websocket dialer make it.

**CredentialRecovery.** The abstract promise: credentials are replaced only
forward (given, registered, refreshed), and only a connection restores the
allowance. `Phase` and `Origin` in SelfHeal are the refinement mapping.

**PikoTunnel.** SelfHeal lets `listen` and `Wait` return anything; here they
return what `Upstream.connect`, the accept goroutine, the listener and the error
group make of the Piko server's answers. It is written with SelfHeal's own actions,
so that it is a SelfHeal holds by construction and is not claimed as a result.
`accept` is where the accept goroutine is, `sess` the session that `l.sess` refers
to. `AcceptLost` and `AcceptFails` are the two ways into `connect`: the session is
lost, or it is up and yamux could not write the reply to a new stream within its
write timeout (`AcceptStreamWithContext` returns that error, and the listener
treats it alike). In the second case `Reconnects` overwrites `l.sess` and leaves a
live session behind: `orphans` counts those, `orphanStreams` the forwarded
connections of the error group on earlier sessions, which `Wait` waits for.

**RegistryServer.** SelfHeal lets the servers answer anything; here the answers
follow from what the servers hold: `accepted`, the JWTs that Piko takes, and
`refreshable`, those that the registry exchanges. A new JWT may replace the
earlier ones or stand beside them. A request that fails for the client may have
been carried out (`ResponseLost`) or be carried out later, after its retry
(`RequestDelayed`, `StrayGranted`). JWTs expire and are revoked. The servers are
not in the repository, so they are modelled by what the client relies on.
`ForwarderStops("401")` is what `Run` expects of a forwarder whose JWT is
rejected; the vendored client hides it, which is finding 1.

**OpenWormhole.** SelfHeal's `ctxErr` is the group's context. `GroupReturn` is
the error group, `TunnelErr` the code's rule that a cancellation is no error
when the user asked for it; Airlock serves, fails, or shuts down within 10 s.

**LaunchNetwork.** `ready` yields true once the network is up, or is closed by a
`launchNetwork` that returned without one. Namespace takes its network steps from
this module (`Net`), and SlirpNetwork is shown to make no others, so what is
checked of the two stages holds with the real slirp4netns handling. The reader of
the ready pipe that is slower than `launchNetwork` and sends on the closed channel
(`ReaderPanics`) is part of it.

**SlirpNetwork.** `terminateChild` calls `Cmd.Wait` again while a first call is
under way, so `exec.Cmd` is modelled as os/exec builds it: a call of `Wait` ends
the process wait and then receives one result from the goroutine that watches
the context, which sends after `Cancel` has returned. `call` and `cancel` hold
where each caller is. The `ProcessState` field is written by racing calls; what
a later writer leaves there is a nondeterministic choice.

**Namespace.** The two stages, the pipe between them, and `launchNetwork` as
`LaunchNS` sees it. `P2` is the init process of its PID namespace, so its exit
kills the application. The sidecar is `openWormhole`; what it is assumed to do
is what OpenWormhole checks. `SidecarFatal` is one of its `log.Fatal` calls, which
ends the second stage without any of its deferred steps.

**ConfigSources.** One option followed from the inputs (command line,
environment, which files have its key) to the source of its value.
`ParseUnknown` is the first pass meeting a flag that it does not know;
`OptionRefused` the second one refusing a value, or missing a required option.

**RegistryCommands.** One user runs commands, one after the other; `pc` is the
request the command waits for, and `Others` the other clients, who may act
between any two requests. Identifiers, names and IDs are sequences, because what
`Matches` does with prefixes and `truncateID` with lengths is the point. The
answers of a registry that sends no IDs are `bare`: such entries match by name
only, and cannot be modified. The registry's own rules (an absent entity is
refused, removal by identifier wants a unique match) are external. `applied`,
`soleC` and `soleR` are history: how often the registry carried the command out,
and which entities were the only match of the command's identifiers at some
moment of the command.

## Runs

| Run | Shows |
| --- | --- |
| `selfheal` | `RecoveryBudget`: at most 2 listens (3 before the first connection), 2 refreshes and 1 registration between connections. `CredentialsCurrent`, `OneForwarder`, `BackoffRespected`, `BackoffMonotone`, `CancelQuiesces` (at most one more remote call after a cancellation), `CancelReported`, `PromiseKept`; under fairness `CancelTerminates`, `ForwarderReleased`, `RecoveryEnds` |
| `piko_tunnel` | `SessionOwned`: the listener's session has somebody to close it. `TransientLossSurvived`. `CancelDrains`: a cancellation ends `Run` and the accept goroutine and closes the listener's session. `DeadForwarderSeen`: `Run` ends when the accept goroutine has. Sessions left behind are named as the exception wherever they are one |
| `piko_tunnel_rejected` | violation: `RejectedIsRefreshed` (finding 1) |
| `registry_server` | `SurrenderNeedsTwo`: lost requests and responses, however many, never make the tunnel give up its credentials; that takes two JWTs lost between connections. `Recovers`: short of that it is connected again |
| `open` | `SuccessMeansInterrupted`, `CauseReported`, `InterruptEnds`, `OneEndsAll`, `TakenPortEnds` |
| `config_sources` | `Precedence` |
| `config_honoured` | violation: `ConfigHonoured` (finding 2) |
| `namespace` | `NetworkBeforeApp`, `FailureReported`, `EndsTogether`, `NoneLeftAlone`, `SyncOrEnd` |
| `slirp_network` | `NoSlirpLeft`, `SlirpEndSeen`, `ImplementsLaunchNetwork` |
| `slirp_network_cancel` | violation: `CancelEnds` (finding 3) |
| `registry_commands` | `OnlyTheOneNamed`: although the lists are stale when the change is made, nothing is changed that was not the only match of what the user typed. `SuccessMeansDone` (at most once, and exactly once on success), `ShowsOwnRoutes`, `ShownIDMatches` (an ID as displayed can be typed back) |
| `registry_empty` | violation: `ZeroCaseCovered` (finding 4) |

SelfHeal, OpenWormhole and Namespace also have a type invariant. Run one with
`tlc -config MCSelfHeal.cfg MCSelfHeal`.

### Bounds

- `JWTs = {j1, j2}`: the properties compare two JWTs at most (the one in use and
  the newest). They are not declared symmetric, since the runs check liveness.
- `MCSelfHeal`: durations in milliseconds in a 12-bit integer, backoff from 150
  to 2000 ms, so that the doubling 150, 300, 600, 1200 reaches the maximum just
  where an unguarded doubling overflows; jitter 0, 0.5 and 1; one status code
  for each side of every comparison of `registrationRetryable`.
- `MCPikoTunnel`, `MCOpenWormhole`: two backoffs and two statuses, since
  SelfHeal's own runs cover them; `MaxStreams = 2` forwarded connections, so that
  one can end while another is open. `MaxOrphans = 2` sessions left behind at a
  time, so that one can be lost while another stays.
- `MCRegistryServer`: three JWTs (the client's, one issued to a lost or late
  request, one more); at most one stray request at a time, and `MaxMishaps = 2`
  JWTs lost between two connections, which is where `SurrenderNeedsTwo` turns:
  with one the tunnel must not give up, with two it may.
- `MCRegistryCommands`: two communities and two routes. Two IDs have a common
  prefix, one ID is exactly `MinIDLength = 2` long, and a community may be named
  like the beginning of the other's ID, so that every kind of ambiguity occurs.
- `ConfigSources`: command lines of up to 3 arguments, two user files. Three
  arguments let two files be layered around a flag that ends the first pass.
- Nothing else is bounded. `tries` and `lateOps` are counters that the invariants
  themselves bound.

### Fairness

Only what the code's scheduling gives: an HTTP request returns (the client has a
timeout of 5 s), a timer fires, a goroutine whose select has a ready case goes
on, Airlock's shutdown is cut off after 10 s, a process ends after SIGKILL. The
Piko server and the Route Registry owe nothing: Piko may keep the client
dialling for ever, or a session that was left behind up, and `RecoveryEnds` is
stated for registries that stop failing transiently. A forwarder, the
application and the user owe nothing either.
In RegistryServer, where `Recovers` needs answers, a registry that is asked again
and again answers now and then (strong fairness of `Delivered`; the client
retries a transient failure without a limit), and Piko answers a listen. These
are assumptions about the servers, not about this code. RegistryCommands claims
no liveness. Namespace assumes that the sidecar returns once canceled, which is
`InterruptEnds` of OpenWormhole.

## Findings

1. **A JWT rejected at a reconnection is not refreshed.** `Forwarder.Wait`
   returns nil whenever the group's context is done, and `group.Wait()` has just
   canceled it. A 401 at a reconnection becomes "piko forwarder stopped
   unexpectedly" and ends `Run`, whose comment says that it maintains the tunnel
   by refreshing rejected credentials. The fake forwarder of the tests returns
   the error. A rejection at `listen` is refreshed as intended.
2. **The first pass stops at an unknown flag.** `bootstrap.Run` does not ignore
   other arguments: at the first flag it does not know, parsing ends. A
   `--config` behind it is not seen, and `WORMHOLE_CONFIG` and
   `WORMHOLE_NODEFAULTS` are ignored with it.
3. **A cancellation before the network is ready can hang `LaunchNS`.** The
   deferred `Cancel` of `launchNetwork` and os/exec's own both wait in
   `Cmd.Wait` for a result that is sent only after `Cancel` returns; `ready` is
   never closed. (A behaviour of os/exec, which is not in the repository, is part
   of this argument; its definitions are marked external in the map.)
4. **An empty identifier panics on an empty registry.** `ResolveCommunity` and
   `ResolveRoute` take the first element of the list, the empty list being, says
   the comment, "covered by error check". That check is only made when an
   identifier filters the list. `wh community add-route "" r`, on a registry
   without communities, gets past it. (With one community, "" stands for it.)

**Sessions left behind.** One more disagreement has no run of its own, because the
properties of PikoTunnel name it as their exception. The listener connects again
after every failed accept, also one that leaves its session up, and overwrites its
only reference to it. That session and the connections on it outlive
`Forwarder.Close`, whose comment (forwarder.go:59) says that it closes all of them,
and `Wait` does not return while such a connection lasts: if the accept goroutine
ends in the meantime, because Piko refused its JWT, `Run` does not learn of it,
which is why `DeadForwarderSeen` speaks of tunnels without sessions left behind. A
cancellation still ends `Run`, which does not wait for the forwarder then. TLC
shows it when `MCPikoTunnel` is run with the invariant
`accept = "ended" => orphans = 0`.

## Proofs

Every invariant and every action property that a passing run checks, and every
refinement, is proved for all values of the constants. Each module of theorems
has one inductive invariant, one lemma per part of it or per action, and one
theorem per property.

**Backoff** (in `SelfHealProofs`). Four lemmas about `nextRetryDelay` from
`DurationAssumption` (a positive minimum below the width of the integer) and
`Validate`: the backoff stays within the bounds, the next one is its double or
the maximum, whichever is less (no overflow), and the jitter takes off at most a
tenth.

**SelfHeal.** For all sets of JWTs and statuses, all jitters and all valid
configurations, SelfHeal satisfies every safety property of the run `selfheal`,
and implements CredentialRecovery. The inductive invariant

    Inv == TypeOK /\ BudgetInv /\ CurrentInv /\ ForwarderInv /\ BackoffRespected /\ LateInv

strengthens the properties where they are not inductive:

- `BudgetInv` ties the counters to `rotated`, `reRegistered`, `pc` and `op`: the
  budget holds because a second refresh is only possible from re-registered
  credentials and a listen after it is the last one. The bounds alone say
  nothing about what may still be begun.
- `CurrentInv` adds that the registration is the newest one while `openWormhole`
  is about to launch `Run`, since the tunnel's copy is taken from it.
- `ForwarderInv` relates the forwarder to the channel of `waitForForwarder`: what
  was received came from a forwarder that has stopped. It needs a channel for
  every connection.
- `LateInv` counts a late call only in the call under way; it fails, so no second
  one follows.

`ImplementsRecovery` maps every action to a step of the promise or a stutter.

**PikoTunnel, OpenWormhole, RegistryServer** extend SelfHeal, and each is proved
to be one first (the lemma `TunnelIsSelfHeal`, the theorems
`OpenImplementsSelfHeal` and `WorldImplementsSelfHeal`): every step is a step of
SelfHeal or changes none of its variables. SelfHeal's theorems, `Inv` and the promise to CredentialRecovery
included, so hold of the three compositions, and their proofs use them. Only in
OpenWormhole does a step need an invariant (`TypeOK`) to be a step of SelfHeal:
the error group cancels a context that may be done already.

- `SessionOwned` needs `OwnedInv`: that nothing opens a session behind a
  forwarder that has stopped depends on where the accept goroutine is. It holds for
  any number of sessions left behind: their streams keep `Wait` from returning.
- `TransientLossSurvived` needs `LossInv`: an accept goroutine at work has left
  its group without an error, and its listener is closed only by a canceled `Run`.
- `SuccessMeansInterrupted` and `CauseReported` need `CauseInv` and `SuccessInv`:
  a context that is done has a reason, a signal or the group's error, so a
  cancellation that reaches the group as an error finds the cause already there.
- `SurrenderNeedsTwo` needs `MishapInv`, which counts the mishaps by what the
  client is doing: one that asks for new credentials has seen one, one that holds
  replaced credentials which are out of force has seen two. It says nothing of a
  JWT while a request is under way: a request carried out unseen replaces it
  without a mishap. From `ServerAssumption` it takes that the registry's refusal
  (401) and its transient failure (503) are among `StatusCodes`: the one is what
  `Run` tests for (recovery.go:251), the other is retried by
  `registrationRetryable`.

**Namespace.** `HandshakeInv` carries the network's state to P2: nothing of P2
starts without the SYNC, and the SYNC is written only when `ready` was true.
`StatusInv` follows a success backwards through the exit statuses: at each station
(`execChild`, `Exec`, P2, P1) there is the reason for it.

**SlirpNetwork.** `WaitInv` says what the callers of `Cmd.Wait` know: one that got
past the process, or finds it reaped, has seen slirp4netns end. `ReadyInv` says who
uses the channel. `ImplementsNetwork` maps every step to a step of LaunchNetwork,
the panic of the late reader included, or to a stutter; what is proved of
Namespace is so proved for the network as it is built.

**ConfigSources.** `LoadInv` and `ChainInv` follow the list of files from its
loading through its reversal: the k-th `--config` is the k-th from the end of the
user files, the system file is last. `ChainLookupFirst` says what the chain finds,
by the least index (a non-empty set of natural numbers has a least element, which
the library proves), and `InvPrecedence` that this is the greatest index of the
command line. `MaxArgs` and the number of files are arbitrary.

**RegistryCommands.** `OnceInv` says that a command that waits for a request has
not been carried out. `NamedInv` says that the history follows the registry while
a command resolves, whatever other clients do, and that an ID in hand is in it;
`ResolvedIsSole` is the reason: a list with an identifier, not refused as empty or
ambiguous, is the only match. `ShownInv` needs `FindRouteFindsOwn`, that a full ID
finds its own route or none, and lemmas about prefixes for `truncateID`.
`IDAssumption` says of the registry's IDs that they are finitely many strings of
characters, at least `MinIDLength` long (a shorter one could not be typed), none
the beginning of another (as with IDs of one length), and none the fully qualified
name of a route, which has a "/" in it.

Only model-checked: `CancelTerminates`, `ForwarderReleased`, `RecoveryEnds`,
`CancelDrains`, `DeadForwarderSeen`, `InterruptEnds`, `OneEndsAll`, `TakenPortEnds`, `EndsTogether`,
`NoneLeftAlone`, `SyncOrEnd`, `SlirpEndSeen` and `Recovers`. All of them are
liveness under fairness, which needs `ENABLED` and is out of the prover's reach.
The four findings are counterexamples that TLC finds.

## Not modelled

Table layout and wording, logging, the version, the declarations of flags (names,
defaults, help texts), mocks, the TOML syntax, JSON and headers of requests,
Airlock's handling of requests, the contents of the mounts and ID maps, non-Linux
builds (which return "Not implemented"). The access rules of `wh open` are one
choice in OpenWormhole, accepted or refused: `parseAccessRules` is a pure check
of four lists, and a property of it would repeat its conditions.

## Plan

Done: every module above, its runs, and the proofs of every safety property that
a run checks and of every refinement.

Left:

1. That a name with a single match is resolved (the converse of
   `ResolvedIsSole`), and that `findRoute` finds a route that is still there.
2. Termination arguments for SelfHeal as an action property: a measure of the
   recovery that no step but a connection raises, from which `RecoveryEnds`
   follows under its fairness.
