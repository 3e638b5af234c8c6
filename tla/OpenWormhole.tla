---------------------------- MODULE OpenWormhole ----------------------------
(***************************************************************************)
(* "wh open" without a command: openWormhole (internal/cmd/wh/wh.go) runs  *)
(* the self-healing tunnel and the Airlock proxy in one error group and    *)
(* ends when both have.  SelfHeal is the tunnel's goroutine, and its       *)
(* ctxErr the context it runs under: the command's context up to Launch,   *)
(* the group's from then on, which the command's context, the first error  *)
(* of the group and nothing else can cancel.                               *)
(***************************************************************************)
EXTENDS SelfHeal

VARIABLES
    main,         \* the goroutine of openWormhole
    interrupted,  \* the command's context is done: SIGINT or SIGTERM
    airlock,      \* the goroutine of StartProxy
    port,         \* who holds the port picked for Airlock
    gErr,         \* the error group's first error
    exit          \* how the command ends

openVars == <<main, interrupted, airlock, port, gErr, exit>>
allVars  == <<vars, openVars>>

OpenInit ==
    /\ Init
    /\ main = "parse" /\ interrupted = FALSE /\ exit = "none"
    /\ airlock = "off" /\ port = "unset" /\ gErr = "nil"

-----------------------------------------------------------------------------
(* openWormhole's own steps. *)

Exit(status) == main' = "exited" /\ exit' = status

(* The port, the access rules and the backoff bounds are acceptable. *)
Parsed ==
    /\ main = "parse"
    /\ main' = "register"
    /\ UNCHANGED <<vars, interrupted, airlock, port, gErr, exit>>

(* One of them is not: log.Fatal, or Validate's error. *)
ParseFails ==
    /\ main = "parse"
    /\ Exit("error")
    /\ UNCHANGED <<vars, interrupted, airlock, port, gErr>>

(* The port is picked and given back, and the group's goroutines start. *)
LaunchGroup ==
    /\ main = "register"
    /\ Launch
    /\ main' = "group"
    /\ airlock' = "starting" /\ port' = "free"
    /\ UNCHANGED <<interrupted, gErr, exit>>

(* No issuer URL, no port to be had, or launchAirlock fails. *)
LaunchGroupFails ==
    /\ main = "register"
    /\ LaunchFails
    /\ Exit("error")
    /\ UNCHANGED <<interrupted, airlock, port, gErr>>

(* The first registration failed for good, or was canceled. *)
RegisterFailed ==
    /\ main = "register" /\ pc = "done"
    /\ Exit("error")
    /\ UNCHANGED <<vars, interrupted, airlock, port, gErr>>

(* Mutant: the group's context is not derived from the command's. *)
InterruptContextMutant == UNCHANGED ctxErr

(* The contexts a signal cancels: the command's and those derived from it. *)
InterruptContext == ctxErr' = TRUE

Interrupt ==
    /\ ~interrupted /\ main # "exited"
    /\ interrupted' = TRUE
    /\ InterruptContext
    /\ UNCHANGED <<pc, op, result, loopVars, retryVars, failure, forwardVars, history,
                   main, airlock, port, gErr, exit>>

-----------------------------------------------------------------------------
(* The error group. *)

(* Mutant: the context is canceled but the error is dropped. *)
GroupDropsMutant(err) ==
    /\ gErr' = gErr
    /\ ctxErr' = (ctxErr \/ err # "nil")

(* Mutant: the last error wins. *)
GroupLastMutant(err) ==
    /\ gErr' = IF err # "nil" THEN err ELSE gErr
    /\ ctxErr' = (ctxErr \/ err # "nil")

(* A function of the group returns: its first error cancels the context. *)
GroupReturn(err) ==
    /\ gErr' = IF gErr = "nil" THEN err ELSE gErr
    /\ ctxErr' = (ctxErr \/ err # "nil")

(* Mutant: an error of the tunnel is not passed on. *)
TunnelErrMutant == "nil"

(* A cancellation is no error when the command itself was interrupted. *)
TunnelErr == IF result = "canceled" /\ interrupted THEN "nil" ELSE result

(* Run returns in its goroutine. *)
TunnelReturns ==
    /\ main = "group" /\ pc = "done"
    /\ main' = "tunnelDone"
    /\ GroupReturn(TunnelErr)
    /\ UNCHANGED <<pc, op, result, loopVars, retryVars, failure, forwardVars, history,
                   interrupted, airlock, port, exit>>

(* Mutant: the group's error itself is the exit status. *)
ExitStatusMutant == gErr

(* main ends with log.Fatalln if app.Run returns an error. *)
ExitStatus == IF gErr = "nil" THEN "ok" ELSE "error"

(* g.Wait(): both goroutines have returned. *)
GroupWait ==
    /\ main = "tunnelDone" /\ airlock = "done"
    /\ Exit(ExitStatus)
    /\ UNCHANGED <<vars, interrupted, airlock, port, gErr>>

-----------------------------------------------------------------------------
(* Airlock: StartProxy. *)

AirlockServes ==
    /\ airlock = "starting" /\ port = "free"
    /\ airlock' = "serving" /\ port' = "airlock"
    /\ UNCHANGED <<vars, main, interrupted, gErr, exit>>

(* Mutant: StartProxy swallows the error. *)
AirlockErrMutant == "nil"

AirlockErr == "airlock"

(* Airlock cannot start (among others: its port is taken) or stops serving. *)
AirlockFails ==
    /\ airlock \in {"starting", "serving"}
    /\ airlock' = "done"
    /\ GroupReturn(AirlockErr)
    /\ UNCHANGED <<pc, op, result, loopVars, retryVars, failure, forwardVars, history,
                   main, interrupted, port, exit>>

(* Serve sees the group's context done and begins to shut down. *)
AirlockStops ==
    /\ airlock \in {"starting", "serving"} /\ ctxErr
    /\ airlock' = "stopping"
    /\ UNCHANGED <<vars, main, interrupted, port, gErr, exit>>

(* Shutdown ends in time, or fails because requests outlast 10 s. *)
AirlockShutdown(err) ==
    /\ airlock = "stopping"
    /\ airlock' = "done"
    /\ GroupReturn(err)
    /\ UNCHANGED <<pc, op, result, loopVars, retryVars, failure, forwardVars, history,
                   main, interrupted, port, exit>>

(* Another process binds the port between listener.Close and Airlock. *)
PortTaken ==
    /\ port = "free"
    /\ port' = "taken"
    /\ UNCHANGED <<vars, main, interrupted, airlock, gErr, exit>>

-----------------------------------------------------------------------------
(* Steps of the tunnel that leave the rest of openWormhole alone. *)
RegisterStep ==
    /\ main = "register"
    /\ RequestReturns \/ SleepExpires \/ SleepCanceled
    /\ UNCHANGED openVars

RunStep ==
    /\ main = "group"
    /\ RequestReturns \/ SleepExpires \/ SleepCanceled \/ ListenReturns
       \/ WaitReturns \/ WaitCanceled
    /\ UNCHANGED openVars

ForwarderStep ==
    /\ main # "exited"
    /\ ForwarderReturns
    /\ UNCHANGED openVars

Exited ==
    /\ main = "exited"
    /\ UNCHANGED allVars

AirlockEnds == AirlockFails \/ \E err \in {"nil", "shutdown"} : AirlockShutdown(err)

OpenNext ==
    \/ Parsed \/ ParseFails \/ LaunchGroup \/ LaunchGroupFails \/ RegisterFailed
    \/ Interrupt \/ TunnelReturns \/ GroupWait
    \/ AirlockServes \/ AirlockEnds \/ AirlockStops \/ PortTaken
    \/ RegisterStep \/ RunStep \/ ForwarderStep \/ Exited

(***************************************************************************)
(* Fairness.  As in SelfHeal for the tunnel; Airlock starts or fails, sees *)
(* its context done, and its shutdown is bounded by 10 s.                  *)
(***************************************************************************)
OpenFairness ==
    /\ WF_allVars(Parsed \/ ParseFails)
    /\ WF_allVars(LaunchGroup \/ LaunchGroupFails)
    /\ WF_allVars(RegisterFailed) /\ WF_allVars(TunnelReturns) /\ WF_allVars(GroupWait)
    /\ WF_allVars(RegisterStep)
    /\ WF_allVars(pc \in {"request", "sleep"} /\ RunStep)
    /\ WF_allVars(ctxErr /\ pc = "listen" /\ RunStep)
    /\ WF_allVars(pc = "wait" /\ RunStep)
    /\ WF_allVars(forwarder = "closing" /\ ForwarderStep)
    /\ WF_allVars(AirlockServes \/ (airlock = "starting" /\ AirlockFails))
    /\ WF_allVars(AirlockStops) /\ WF_allVars(airlock = "stopping" /\ AirlockEnds)

OpenSpec == OpenInit /\ [][OpenNext]_allVars

FairOpenSpec == OpenSpec /\ OpenFairness

-----------------------------------------------------------------------------
(* Every variable of openWormhole has its type. *)
OpenTypeOK ==
    /\ main \in {"parse", "register", "group", "tunnelDone", "exited"}
    /\ interrupted \in BOOLEAN
    /\ airlock \in {"off", "starting", "serving", "stopping", "done"}
    /\ port \in {"unset", "free", "taken", "airlock"}
    /\ gErr \in {"nil", "airlock", "shutdown"} \cup Results
    /\ exit \in {"none", "ok", "error"}

(* A wormhole that ends by itself reports an error: success is only ever   *)
(* the answer to an interrupt, whichever of the tunnel and Airlock ended   *)
(* first and however the other one took its cancellation.                  *)
SuccessMeansInterrupted == exit = "ok" => interrupted

(* The error that openWormhole reports is the cause: the cancellation that *)
(* the failure of one goroutine, or an interrupt, brings on the other is   *)
(* never what the user gets to see.                                        *)
CauseReported == gErr # "canceled"

(* An interrupt ends the command, whatever it is in the middle of. *)
InterruptEnds == interrupted ~> main = "exited"

(* The end of the tunnel or of Airlock ends the command: neither is left   *)
(* serving without the other.                                              *)
OneEndsAll == (pc = "done" \/ airlock = "done") ~> main = "exited"

(* Airlock losing its port to another process ends the command: the tunnel *)
(* does not go on forwarding to a stranger.                                *)
TakenPortEnds == port = "taken" ~> main = "exited"
=============================================================================
