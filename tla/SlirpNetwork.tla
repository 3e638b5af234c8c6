---------------------------- MODULE SlirpNetwork ----------------------------
(***************************************************************************)
(* launchNetwork (internal/ns/ns_linux.go): the goroutine of LaunchNS that *)
(* starts slirp4netns, tells LaunchNS when the network is ready and stops  *)
(* slirp4netns when it returns.  LaunchNS itself is here only as the one   *)
(* who waits for it; Namespace has the rest of LaunchNS.                   *)
(*                                                                         *)
(* slirp4netns' exec.Cmd is modelled as os/exec builds it, since           *)
(* terminateChild calls Cmd.Wait a second and a third time: every call     *)
(* first waits for the process and then receives from ctxResult, a channel *)
(* on which the goroutine that watches the context (watchCtx) sends once,  *)
(* after Cancel has returned.                                              *)
(***************************************************************************)
EXTENDS Naturals

VARIABLES
    p1, p1ctx,       \* LaunchNS; its context is done
    net, netErr,     \* launchNetwork, and what it returned
    reader,          \* the goroutine that reads the ready pipe
    ready,           \* the channel ready
    slirp, slirpUp,  \* slirp4netns; it has written to the ready pipe
    reaped,          \* Cmd.ProcessState is set
    watcher,         \* watchCtx
    cancel,          \* Cmd.Cancel, by caller
    call             \* Cmd.Wait, by caller

p1Vars    == <<p1, p1ctx>>
netVars   == <<net, netErr, reader, ready>>
slirpVars == <<slirp, slirpUp>>
cmdVars   == <<reaped, watcher, cancel, call>>
vars == <<p1Vars, netVars, slirpVars, cmdVars>>

Cancelers == {"watch", "defer"}   \* watchCtx, and the defer of launchNetwork
Waiters == {<<"main", "async">>} \cup (Cancelers \X {"async", "sync"})

Init ==
    /\ p1 = "await" /\ p1ctx = FALSE
    /\ net = "start" /\ netErr = "none" /\ reader = "off" /\ ready = "empty"
    /\ slirp = "off" /\ slirpUp = FALSE
    /\ reaped = FALSE /\ watcher = "off"
    /\ cancel = [k \in Cancelers |-> "none"]
    /\ call = [w \in Waiters |-> "none"]

Runs == p1 # "exited"

(* cCtx: done with the context, and when LaunchNS returns. *)
CtxDone == p1ctx \/ p1 = "returning"

-----------------------------------------------------------------------------
(* LaunchNS. *)

(* The network is ready: on to the final select. *)
NetworkReady ==
    /\ p1 = "await" /\ ready = "true"
    /\ p1' = "select"
    /\ UNCHANGED <<p1ctx, netVars, slirpVars, cmdVars>>

(* LaunchNS returns: launchNetwork has ended, or, in the final select, the *)
(* context is done or P2 has ended.                                        *)
LaunchReturns ==
    /\ \/ p1 = "await" /\ ready = "closed"
       \/ p1 = "select"
    /\ p1' = "returning"
    /\ UNCHANGED <<p1ctx, netVars, slirpVars, cmdVars>>

(* main returns: the goroutines of P1 end wherever they are. *)
ProcessExits ==
    /\ p1 = "returning"
    /\ p1' = "exited"
    /\ UNCHANGED <<p1ctx, netVars, slirpVars, cmdVars>>

(* SIGINT or SIGTERM; the ones after the first change nothing. *)
SignalArrives ==
    /\ Runs
    /\ p1ctx' = TRUE
    /\ UNCHANGED <<p1, netVars, slirpVars, cmdVars>>

-----------------------------------------------------------------------------
(* exec.Cmd, and terminateChild. *)

(* Cmd.Wait is called. *)
Called == IF reaped THEN "returned" ELSE "process"

(* Cmd.Wait: Process.Wait returns.  The first one gets the status; what    *)
(* the others, racing, leave in ProcessState depends on the build.         *)
ProcessWaits(w) ==
    /\ Runs /\ call[w] = "process" /\ slirp \in {"ok", "error"}
    /\ call' = [call EXCEPT ![w] = "result"]
    /\ reaped' \in IF \E v \in Waiters : call[v] \in {"result", "returned"}
                   THEN BOOLEAN ELSE {TRUE}
    /\ UNCHANGED <<p1Vars, netVars, slirpVars, watcher, cancel>>

(* watchCtx sends on ctxResult: one call of Wait receives and returns. *)
WaitReturns(w) ==
    /\ Runs /\ call[w] = "result" /\ watcher \in {"watch", "send"}
    /\ call' = [call EXCEPT ![w] = "returned"]
    /\ watcher' = "ended"
    /\ UNCHANGED <<p1Vars, netVars, slirpVars, reaped, cancel>>

(* terminateChild is called by k: SIGTERM, and a second Cmd.Wait. *)
CancelStarts(k) ==
    /\ cancel' = [cancel EXCEPT ![k] = "select"]
    /\ call' = [call EXCEPT ![<<k, "async">>] = Called]

(* watchCtx sees cCtx done. *)
WatcherCancels ==
    /\ Runs /\ CtxDone /\ watcher = "watch"
    /\ watcher' = "cancel"
    /\ CancelStarts("watch")
    /\ UNCHANGED <<p1Vars, netVars, slirpVars, reaped>>

(* Mutant: nobody waits for the process after the SIGKILL. *)
TimeExpiresMutant(k) ==
    /\ Runs /\ cancel[k] = "select"
    /\ cancel' = [cancel EXCEPT ![k] = "killed"]
    /\ call' = [call EXCEPT ![<<k, "sync">>] = "returned"]
    /\ UNCHANGED <<p1Vars, netVars, slirpVars, reaped, watcher>>

(* time.After(0): SIGKILL, and a third Cmd.Wait. *)
TimeExpires(k) ==
    /\ Runs /\ cancel[k] = "select"
    /\ cancel' = [cancel EXCEPT ![k] = "killed"]
    /\ call' = [call EXCEPT ![<<k, "sync">>] = Called]
    /\ UNCHANGED <<p1Vars, netVars, slirpVars, reaped, watcher>>

(* terminateChild can return. *)
CancelDone(k) ==
    \/ cancel[k] = "select" /\ call[<<k, "async">>] = "returned"
    \/ cancel[k] = "killed" /\ call[<<k, "sync">>] = "returned"

(* Cancel has returned to watchCtx, which offers its result. *)
WatcherSends ==
    /\ Runs /\ watcher = "cancel" /\ CancelDone("watch")
    /\ watcher' = "send" /\ cancel' = [cancel EXCEPT !["watch"] = "ended"]
    /\ UNCHANGED <<p1Vars, netVars, slirpVars, reaped, call>>

-----------------------------------------------------------------------------
(* launchNetwork and its reader. *)

StartSlirp ==
    /\ Runs /\ net = "start" /\ ~CtxDone
    /\ net' = "select" /\ slirp' = "running"
    /\ watcher' = "watch" /\ call' = [call EXCEPT ![<<"main", "async">>] = Called]
    /\ reader' = "reading"
    /\ UNCHANGED <<p1Vars, netErr, ready, slirpUp, reaped, cancel>>

(* No pipe, no slirp4netns, or a context that is done before Start. *)
StartSlirpFails ==
    /\ Runs /\ net = "start"
    /\ net' = "returned" /\ netErr' = "error" /\ ready' = "closed"
    /\ UNCHANGED <<p1Vars, reader, slirpVars, cmdVars>>

ReaderReads ==
    /\ Runs /\ reader = "reading" /\ slirpUp
    /\ reader' = "read"
    /\ UNCHANGED <<p1Vars, net, netErr, ready, slirpVars, cmdVars>>

(* ready <- true; on a closed channel it panics, which ends P1. *)
ReaderSends ==
    /\ Runs /\ reader = "read"
    /\ reader' = "sent"
    /\ IF ready = "closed"
       THEN p1' = "exited" /\ UNCHANGED ready
       ELSE ready' = "true" /\ UNCHANGED p1
    /\ UNCHANGED <<p1ctx, net, netErr, slirpVars, cmdVars>>

ReaderFails ==
    /\ Runs /\ reader = "reading" /\ net = "select"
    /\ reader' = "failed"
    /\ UNCHANGED <<p1Vars, net, netErr, ready, slirpVars, cmdVars>>

(* Mutant: launchNetwork does not select on the end of slirp4netns. *)
SlirpDoneMutant == FALSE

(* childDone can be received from. *)
SlirpDone == call[<<"main", "async">>] = "returned"

(* What childDone yields; as LaunchNS sees it, once cCtx is done it does   *)
(* not matter that Cmd.Wait may report the context's error instead.        *)
SlirpErr == slirp

(* launchNetwork leaves its loop: the reader failed, the context is done,  *)
(* or slirp4netns has ended.  The deferred Cancel is called first.         *)
NetworkEnds ==
    /\ Runs /\ net = "select"
    /\ \/ reader = "failed" /\ netErr' = "error"
       \/ CtxDone /\ netErr' = "ok"
       \/ SlirpDone /\ netErr' = SlirpErr
    /\ net' = "deferred"
    /\ CancelStarts("defer")
    /\ UNCHANGED <<p1Vars, reader, ready, slirpVars, reaped, watcher>>

(* Mutant: ready has no buffer; a value nobody has received is lost. *)
CloseReadyMutant == ready' = "closed"

(* close(ready): a value still in its buffer can be received. *)
CloseReady == ready' = IF ready = "true" THEN ready ELSE "closed"

(* Cancel has returned: the pipe and then ready are closed.                *)
NetworkReturns ==
    /\ Runs /\ net = "deferred" /\ CancelDone("defer")
    /\ net' = "returned" /\ cancel' = [cancel EXCEPT !["defer"] = "ended"]
    /\ CloseReady
    /\ reader' = IF reader = "reading" THEN "failed" ELSE reader
    /\ UNCHANGED <<p1Vars, netErr, slirpVars, reaped, watcher, call>>

-----------------------------------------------------------------------------
(* slirp4netns. *)

SlirpReady ==
    /\ slirp = "running" /\ ~slirpUp
    /\ slirpUp' = TRUE
    /\ UNCHANGED <<p1Vars, netVars, slirp, cmdVars>>

SlirpExits(status) ==
    /\ slirp = "running"
    /\ slirp' = status
    /\ UNCHANGED <<p1Vars, netVars, slirpUp, cmdVars>>

-----------------------------------------------------------------------------
Ended == p1 = "exited" /\ UNCHANGED vars

LaunchStep == NetworkReady \/ (p1 = "await" /\ LaunchReturns) \/ ProcessExits

NetStep == StartSlirp \/ StartSlirpFails \/ ReaderReads \/ ReaderSends \/ NetworkEnds \/ NetworkReturns

WaitStep == \E w \in Waiters : WaitReturns(w)

SlirpEnds == \E status \in {"ok", "error"} : SlirpExits(status)

Next ==
    \/ NetworkReady \/ LaunchReturns \/ ProcessExits \/ NetStep \/ ReaderFails
    \/ \E w \in Waiters : ProcessWaits(w)
    \/ WaitStep \/ WatcherCancels \/ WatcherSends
    \/ \E k \in Cancelers : TimeExpires(k)
    \/ SlirpReady \/ SlirpEnds \/ SignalArrives \/ Ended

(***************************************************************************)
(* Fairness.  Goroutines that can go on do, and slirp4netns exits after a  *)
(* SIGKILL.  slirp4netns owes nothing else, P2 may run for ever, and       *)
(* nobody has to send a signal.                                            *)
(***************************************************************************)
Fairness ==
    /\ WF_vars(LaunchStep) /\ WF_vars(NetStep)
    /\ WF_vars(p1 = "select" /\ (p1ctx \/ net = "returned") /\ LaunchReturns)
    /\ \A w \in Waiters : WF_vars(ProcessWaits(w))
    /\ WF_vars(WaitStep) /\ WF_vars(WatcherCancels) /\ WF_vars(WatcherSends)
    /\ \A k \in Cancelers : WF_vars(TimeExpires(k))
    /\ WF_vars((\E k \in Cancelers : cancel[k] = "killed") /\ SlirpEnds)

Spec == Init /\ [][Next]_vars

FairSpec == Spec /\ Fairness

-----------------------------------------------------------------------------
(* launchNetwork never returns while slirp4netns still runs, whichever of  *)
(* the two callers of Cancel and the five calls of Wait came first: a      *)
(* LaunchNS that waits for launchNetwork leaves no slirp4netns behind.     *)
NoSlirpLeft == net = "returned" => slirp # "running"

(* The end of slirp4netns, for whatever reason and at whatever time, ends  *)
(* LaunchNS: the command does not go on without a network.  (An error on   *)
(* the ready pipe and a cancellation are the exceptions: see CancelEnds.)  *)
SlirpEndSeen ==
    slirp \in {"ok", "error"} ~> p1 = "exited" \/ p1ctx \/ reader = "failed"

Promise == INSTANCE LaunchNetwork WITH
    alive <- p1 # "exited",
    net <- IF net = "returned" THEN net ELSE "start",
    netErr <- IF net = "returned" THEN netErr ELSE "none"

(* launchNetwork does what LaunchNS takes it to do: ready says true or is  *)
(* closed, never both, whichever of the reader, slirp4netns, the context   *)
(* and the deferred calls comes first; and the reader's send on a closed   *)
(* channel panics only where the network was never announced, so P2 has    *)
(* not been told to go on.                                                 *)
ImplementsLaunchNetwork == Promise!Spec

(* LaunchNS terminates when its context is canceled (the comment on its    *)
(* select), also while it is waiting for the network.  Runs in which the   *)
(* ready pipe itself fails are left aside.                                 *)
CancelEnds == p1ctx ~> p1 = "exited" \/ reader = "failed"
=============================================================================
