----------------------------- MODULE Namespace -----------------------------
(***************************************************************************)
(* "wh open -- command" (internal/ns/ns_linux.go): the processes and what  *)
(* they tell each other.                                                   *)
(*                                                                         *)
(*   P1     LaunchNS: starts P2 in new namespaces and slirp4netns to give  *)
(*          them a network, sends P2 "SYNC" when the network is ready, and *)
(*          ends with the first of them.                                   *)
(*   P2     Exec: waits for the SYNC, mounts, and runs the application and *)
(*          the wormhole (the sidecar).  P2 is the init process of its PID *)
(*          namespace: the kernel kills the application when P2 exits.     *)
(*                                                                         *)
(* launchNetwork is what LaunchNS sees of it, LaunchNetwork.               *)
(***************************************************************************)
EXTENDS Naturals

VARIABLES
    p1, p1ctx, p1exit,   \* LaunchNS; its context is done; what it returned
    net, netErr,         \* launchNetwork, and what it returned
    ready,               \* the channel ready of launchNetwork
    sync,                \* the pipe between P1 and P2
    p2, p2ctx, p2exit,   \* Exec; its context is done; what it returned
    termSent,            \* P1 has sent P2 a SIGTERM
    app, childErr,       \* the application; what execChild returned
    sidecar              \* openWormhole in P2

p1Vars    == <<p1, p1ctx, p1exit>>
netVars   == <<net, netErr, ready>>
p2Vars    == <<p2, p2ctx, p2exit, termSent, app, childErr, sidecar>>
vars == <<p1Vars, netVars, sync, p2Vars>>

Init ==
    /\ p1 = "start" /\ p1ctx = FALSE /\ p1exit = "none"
    /\ net = "off" /\ netErr = "none" /\ ready = "empty"
    /\ sync = "empty"
    /\ p2 = "off" /\ p2ctx = FALSE /\ p2exit = "none" /\ termSent = FALSE
    /\ app = "none" /\ childErr = "none" /\ sidecar = "off"

P1Runs == p1 # "exited"
P2Runs == p2 \in {"sync", "run", "drain"}

(* P1's cCtx: done with the context, and when LaunchNS returns. *)
P1Done == p1ctx \/ p1 = "returning"

-----------------------------------------------------------------------------
(* P1: LaunchNS. *)

(* LaunchNS returns; the deferred calls cancel cCtx and close the pipe. *)
Return(err) == p1' = "returning" /\ p1exit' = err /\ UNCHANGED p1ctx

(* P2 is started, and launchNetwork in a goroutine. *)
StartP2 ==
    /\ p1 = "start"
    /\ p1' = "await" /\ p2' = "sync" /\ net' = "start"
    /\ UNCHANGED <<p1ctx, p1exit, netErr, ready, sync,
                   p2ctx, p2exit, termSent, app, childErr, sidecar>>

(* The pipe or P2 cannot be created. *)
StartP2Fails ==
    /\ p1 = "start"
    /\ Return("error")
    /\ UNCHANGED <<netVars, sync, p2Vars>>

(* Mutant: whatever comes out of the channel is taken for "ready". *)
NetworkReadyMutant == ready \in {"true", "closed"}

(* A receive from slirpReady yields true. *)
NetworkReady == ready = "true"

(* The network is up: P2 may go on. *)
SendSync ==
    /\ p1 = "await" /\ NetworkReady
    /\ p1' = "select" /\ sync' = "SYNC"
    /\ UNCHANGED <<p1ctx, p1exit, netVars, p2Vars>>

SendSyncFails ==
    /\ p1 = "await" /\ NetworkReady
    /\ Return("error")
    /\ UNCHANGED <<netVars, sync, p2Vars>>

(* Mutant: what was received is returned in place of the error. *)
NetworkFailsMutant ==
    /\ p1 = "await" /\ ready = "closed"
    /\ Return(ready)
    /\ UNCHANGED <<netVars, sync, p2Vars>>

(* launchNetwork returned without a network. *)
NetworkFails ==
    /\ p1 = "await" /\ ready = "closed"
    /\ Return(netErr)
    /\ UNCHANGED <<netVars, sync, p2Vars>>

(* Mutant: the end of slirp4netns is not waited for. *)
SelectNetworkMutant == FALSE

SelectNetwork == net = "returned" /\ Return(netErr)

(* Mutant: P2's exit status is dropped. *)
SelectP2Mutant == p2 = "exited" /\ Return("ok")

SelectP2 == p2 = "exited" /\ Return(p2exit)

(* The final select: the context, P2, or launchNetwork. *)
Select ==
    /\ p1 = "select"
    /\ \/ p1ctx /\ Return("ok")
       \/ SelectP2
       \/ SelectNetwork
    /\ UNCHANGED <<netVars, sync, p2Vars>>

(* main returns: P1's goroutines end wherever they are. *)
ExitP1 ==
    /\ p1 = "returning"
    /\ p1' = "exited"
    /\ UNCHANGED <<p1ctx, p1exit, netVars, sync, p2Vars>>

(* watchCtx of P2's Cmd: SIGTERM, and SIGKILL 5 s later. *)
SignalP2 ==
    /\ P1Runs /\ P1Done /\ P2Runs /\ ~termSent
    /\ termSent' = TRUE /\ p2ctx' = TRUE
    /\ UNCHANGED <<p1Vars, netVars, sync, p2, p2exit, app, childErr, sidecar>>

-----------------------------------------------------------------------------
(* P1: launchNetwork, as LaunchNS sees it (SlirpNetwork implements it). *)

Net == INSTANCE LaunchNetwork WITH alive <- p1 # "exited"

NetworkUp ==
    /\ UNCHANGED <<p1Vars, sync, p2Vars>>
    /\ Net!NetworkUp

NetworkReturns(err) ==
    /\ UNCHANGED <<p1Vars, sync, p2Vars>>
    /\ Net!NetworkReturns(err)

(* P1 panics. *)
ReaderPanics ==
    /\ p1' = "exited" /\ p1exit' = "error"
    /\ UNCHANGED <<p1ctx, sync, p2Vars>>
    /\ Net!ReaderPanics

-----------------------------------------------------------------------------
(* P2: Exec. *)

(* P2 exits; the kernel kills the rest of its PID namespace. *)
ExitP2(err) ==
    /\ p2' = "exited" /\ p2exit' = err
    /\ app' = IF app \in {"launch", "running"} THEN "killed" ELSE app

(* The SYNC is received and the mounts succeed: the application and the    *)
(* sidecar are launched.                                                   *)
RecvSync ==
    /\ p2 = "sync" /\ sync = "SYNC"
    /\ p2' = "run" /\ app' = "launch" /\ sidecar' = "running"
    /\ UNCHANGED <<p1Vars, netVars, sync, p2ctx, p2exit, termSent, childErr>>

(* Mutant: P2 holds the pipe's write end too and never sees its end. *)
SyncClosedMutant == FALSE

(* The write end is closed and nothing was written. *)
SyncClosed == p1 \in {"returning", "exited"} /\ sync = "empty"

(* The end of the pipe, or a mount that fails after the SYNC. *)
RecvSyncFails ==
    /\ p2 = "sync"
    /\ SyncClosed \/ sync = "SYNC"
    /\ ExitP2("error")
    /\ UNCHANGED <<p1Vars, netVars, sync, p2ctx, termSent, childErr, sidecar>>

(* P2 ends before Exec: its own command line or ns.Initialize fails. *)
P2Fails ==
    /\ p2 = "sync"
    /\ ExitP2("error")
    /\ UNCHANGED <<p1Vars, netVars, sync, p2ctx, termSent, childErr, sidecar>>

(* P2's cCtx. *)
P2Done == p2ctx \/ p2 = "drain"

AppStarts ==
    /\ app = "launch" /\ ~P2Done
    /\ app' = "running"
    /\ UNCHANGED <<p1Vars, netVars, sync, p2, p2ctx, p2exit, termSent, childErr, sidecar>>

(* Start fails, or the context is done before it. *)
AppStartFails ==
    /\ app = "launch"
    /\ app' = "error" /\ childErr' = "error"
    /\ UNCHANGED <<p1Vars, netVars, sync, p2, p2ctx, p2exit, termSent, sidecar>>

AppExits(status) ==
    /\ app = "running"
    /\ app' = status
    /\ UNCHANGED <<p1Vars, netVars, sync, p2, p2ctx, p2exit, termSent, childErr, sidecar>>

(* terminateChild of the application: SIGKILL, 5 s after cCtx was done. *)
KillApp ==
    /\ app = "running" /\ P2Done
    /\ app' = "killed"
    /\ UNCHANGED <<p1Vars, netVars, sync, p2, p2ctx, p2exit, termSent, childErr, sidecar>>

(* execChild: the application has ended, or cCtx is done. *)
ExecChildReturns ==
    /\ p2 \in {"run", "drain"} /\ childErr = "none" /\ app # "launch"
    /\ \/ app # "running" /\ childErr' = (IF app = "ok" THEN "ok" ELSE "error")
       \/ P2Done /\ childErr' = "ok"
    /\ UNCHANGED <<p1Vars, netVars, sync, p2, p2ctx, p2exit, termSent, app, sidecar>>

(* openWormhole returns; without an error only when it is canceled         *)
(* (OpenWormhole!SuccessMeansInterrupted).                                 *)
SidecarReturns(err) ==
    /\ P2Runs /\ sidecar = "running"
    /\ err = "ok" => P2Done
    /\ sidecar' = err
    /\ UNCHANGED <<p1Vars, netVars, sync, p2, p2ctx, p2exit, termSent, app, childErr>>

(* Mutant: the end of the application is not selected on. *)
ChildEndedMutant == FALSE

ChildEnded == childErr # "none"

(* openWormhole ends in log.Fatal: bad arguments, or no port for Airlock. *)
SidecarFatal ==
    /\ P2Runs /\ sidecar = "running"
    /\ ExitP2("error")
    /\ UNCHANGED <<p1Vars, netVars, sync, p2ctx, termSent, childErr, sidecar>>

(* Exec's select: cancel and wait for the sidecar. *)
ExecCancels ==
    /\ p2 = "run"
    /\ \/ p2ctx /\ p2exit' = "error"
       \/ ChildEnded /\ p2exit' = childErr
    /\ p2' = "drain"
    /\ UNCHANGED <<p1Vars, netVars, sync, p2ctx, termSent, app, childErr, sidecar>>

(* Mutant: the end of the sidecar is not selected on. *)
SidecarEndedMutant == FALSE

SidecarEnded == sidecar \in {"ok", "error"}

(* Exec returns: with the sidecar's error, or once the sidecar has drained. *)
ExecReturns ==
    /\ \/ p2 = "run" /\ SidecarEnded /\ ExitP2(sidecar)
       \/ p2 = "drain" /\ sidecar \in {"ok", "error"} /\ ExitP2(p2exit)
    /\ UNCHANGED <<p1Vars, netVars, sync, p2ctx, termSent, childErr, sidecar>>

(* P1 outlives its SIGTERM by 5 s: SIGKILL. *)
KillP2 ==
    /\ P1Runs /\ termSent /\ P2Runs
    /\ ExitP2("error")
    /\ UNCHANGED <<p1Vars, netVars, sync, p2ctx, termSent, childErr, sidecar>>

-----------------------------------------------------------------------------
(* SIGINT or SIGTERM, to P1, P2 or both; a second one changes nothing. *)
SignalArrives ==
    /\ \/ P1Runs /\ p1ctx' = TRUE /\ UNCHANGED p2ctx
       \/ P2Runs /\ p2ctx' = TRUE /\ UNCHANGED p1ctx
    /\ UNCHANGED <<p1, p1exit, netVars, sync, p2, p2exit, termSent, app, childErr, sidecar>>

Ended == p1 = "exited" /\ ~P2Runs /\ UNCHANGED vars

LaunchStep == StartP2 \/ StartP2Fails \/ SendSync \/ SendSyncFails \/ NetworkFails \/ Select \/ ExitP1

NetworkEnds == \E err \in {"ok", "error"} : NetworkReturns(err)

SidecarEnds == \E err \in {"ok", "error"} : SidecarReturns(err)

ExecStep == RecvSync \/ RecvSyncFails \/ ExecCancels \/ ExecReturns

ChildStep == AppStarts \/ AppStartFails \/ ExecChildReturns

AppEnds == \E status \in {"ok", "error"} : AppExits(status)

Next ==
    \/ LaunchStep \/ NetworkUp \/ NetworkEnds \/ ReaderPanics \/ ExecStep \/ ChildStep
    \/ SignalP2 \/ KillP2 \/ KillApp \/ P2Fails \/ AppEnds \/ SidecarEnds \/ SidecarFatal
    \/ SignalArrives \/ Ended

(***************************************************************************)
(* Fairness.  P1 and P2 take the steps they can; the sidecar returns once  *)
(* it is canceled (OpenWormhole!InterruptEnds).  The application and the   *)
(* network may go on, or fail to come up, for ever (SlirpNetwork), and     *)
(* nobody has to send a signal.                                            *)
(***************************************************************************)
Fairness ==
    /\ WF_vars(LaunchStep) /\ WF_vars(ExecStep) /\ WF_vars(ChildStep)
    /\ WF_vars(P2Done /\ SidecarEnds)

Spec == Init /\ [][Next]_vars

FairSpec == Spec /\ Fairness

-----------------------------------------------------------------------------
(* Every variable has its type. *)
TypeOK ==
    /\ p1 \in {"start", "await", "select", "returning", "exited"}
    /\ net \in {"off", "start", "returned"}
    /\ ready \in {"empty", "true", "closed"}
    /\ sync \in {"empty", "SYNC"}
    /\ p2 \in {"off", "sync", "run", "drain", "exited"}
    /\ app \in {"none", "launch", "running", "ok", "error", "killed"}
    /\ sidecar \in {"off", "running", "ok", "error"}
    /\ {p1exit, p2exit, netErr, childErr} \subseteq {"none", "ok", "error"}
    /\ {p1ctx, p2ctx, termSent} \subseteq BOOLEAN

(* The application never runs before its network namespace has a network,  *)
(* although P1, which knows, and P2, which starts it, are two processes.   *)
NetworkBeforeApp == app # "none" => ready = "true"

(* Unless it was interrupted, the command reports success only if the      *)
(* application (or slirp4netns) ended with success: a failure of P2, of    *)
(* the application or of the tunnel is not lost on its way through two     *)
(* processes.                                                              *)
FailureReported == p1exit = "ok" => p1ctx \/ p2ctx \/ app = "ok" \/ netErr = "ok"

(* Once P2 was sent its SYNC, the end of the application, the tunnel, P2   *)
(* or the network ends the command.                                        *)
EndsTogether ==
    (/\ p1 = "select"
     /\ \/ app \in {"ok", "error", "killed"} \/ sidecar \in {"ok", "error"}
        \/ p2 = "exited" \/ net = "returned") ~> p1 = "exited"

(* The application and the tunnel end together, and P2 with them: also in  *)
(* a P2 that P1, which exits without waiting for the goroutine that sends  *)
(* the SIGTERM, has left behind.                                           *)
NoneLeftAlone ==
    (app \in {"ok", "error", "killed"} \/ sidecar \in {"ok", "error"}) ~> p2 = "exited"

(* P2 does not wait for ever for a SYNC that will not come. *)
SyncOrEnd == p1 = "exited" ~> p2 # "sync"
=============================================================================
