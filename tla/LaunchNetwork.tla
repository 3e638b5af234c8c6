--------------------------- MODULE LaunchNetwork ---------------------------
(***************************************************************************)
(* What LaunchNS relies on about launchNetwork (internal/ns/ns_linux.go),  *)
(* which it runs in a goroutine: ready yields true once the network is up, *)
(* or is closed by a launchNetwork that has returned without one.          *)
(* Namespace is built on these actions, and SlirpNetwork, which has the    *)
(* inside of launchNetwork, implements them.                               *)
(***************************************************************************)
VARIABLES
    alive,         \* the process of LaunchNS runs
    net, netErr,   \* launchNetwork, and what it returned
    ready          \* the channel ready

Init == alive = TRUE /\ net = "start" /\ netErr = "none" /\ ready = "empty"

(* slirp4netns is ready: ready <- true. *)
NetworkUp ==
    /\ alive /\ net = "start" /\ ready = "empty"
    /\ ready' = "true"
    /\ UNCHANGED <<alive, net, netErr>>

(* launchNetwork returns: slirp4netns has ended or never started, or the   *)
(* context is done.  A value still in ready can be received.               *)
NetworkReturns(err) ==
    /\ alive /\ net = "start"
    /\ net' = "returned" /\ netErr' = err
    /\ ready' = IF ready = "true" THEN ready ELSE "closed"
    /\ UNCHANGED alive

(* The reader of the ready pipe, slower than launchNetwork, sends on the   *)
(* closed channel and the process panics.  It does so only where the       *)
(* network was never announced.                                            *)
ReaderPanics ==
    /\ alive /\ ready = "closed"
    /\ alive' = FALSE
    /\ UNCHANGED <<net, netErr, ready>>

(* The process ends, and launchNetwork with it wherever it is. *)
ProcessExits ==
    /\ alive /\ alive' = FALSE
    /\ UNCHANGED <<net, netErr, ready>>

Next ==
    \/ NetworkUp
    \/ \E err \in {"ok", "error"} : NetworkReturns(err)
    \/ ReaderPanics \/ ProcessExits

Spec == Init /\ [][Next]_<<alive, net, netErr, ready>>
=============================================================================
