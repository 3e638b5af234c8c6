----------------------------- MODULE PikoTunnel -----------------------------
(***************************************************************************)
(* SelfHeal with the forwarder it really gets: the Piko client (vendored   *)
(* as github.com/andydunstall/piko/client).  SelfHeal alone lets listen    *)
(* and Forwarder.Wait return anything their interface allows; here they    *)
(* return what Upstream.connect, the accept goroutine and the error group  *)
(* of the forwarder make of the answers of the Piko server.                *)
(*                                                                         *)
(* Upstream.connect dials until it gets a session or an error that is not  *)
(* retryable.  listen runs it under Run's context; the accept goroutine    *)
(* runs it again, under the listener's own closeCtx and with the JWT the   *)
(* listener was opened with, whenever accepting a stream fails: when the   *)
(* session is lost, but also when the reply to the new stream cannot be    *)
(* written in time.  Then the session is still up, and connecting again    *)
(* leaves it behind, because listener.sess is the only reference to it.    *)
(***************************************************************************)
EXTENDS SelfHeal

CONSTANTS
    MaxStreams,   \* bound: forwarded connections open at a time
    MaxOrphans    \* bound: sessions left behind at a time

ASSUME StreamsAssumption == MaxStreams \in Nat /\ MaxOrphans \in Nat

VARIABLES
    dial,      \* Upstream.connect: dialling, or in its backoff
    accept,    \* the accept goroutine of the forwarder
    sess,      \* listener.sess
    closeErr,  \* listener.closeCtx is done
    group,     \* the error group's first error
    streams,   \* forward goroutines in the error group, on listener.sess
    orphans,   \* live sessions that listener.sess does not refer to any more
    orphanStreams,  \* forward goroutines in the error group, on earlier sessions
    lastDial   \* history: the Piko server's latest answer

orphanVars == <<orphans, orphanStreams>>
pikoVars == <<dial, accept, sess, closeErr, group, streams, orphanVars, lastDial>>
tunnelVars == <<vars, pikoVars>>

TunnelInit ==
    /\ Init
    /\ dial = "dial" /\ lastDial = "none"
    /\ accept = "none" /\ sess = "none" /\ closeErr = FALSE
    /\ group = "nil" /\ streams = 0 /\ orphans = 0 /\ orphanStreams = 0

-----------------------------------------------------------------------------
(* Upstream.connect, called by listen. *)

(* A session: newListener and newForwarder, with the accept goroutine. *)
ListenConnects ==
    /\ dial = "dial"
    /\ ListenOk
    /\ dial' = "dial" /\ lastDial' = "ok"
    /\ accept' = "accept" /\ sess' = "up" /\ closeErr' = FALSE
    /\ group' = "nil" /\ streams' = 0
    /\ UNCHANGED orphanVars

ListenRetries ==
    /\ pc = "listen" /\ dial = "dial" /\ ~ctxErr
    /\ dial' = "backoff" /\ lastDial' = "retryable"
    /\ UNCHANGED <<vars, accept, sess, closeErr, group, streams, orphanVars>>

ListenRefused(err) ==
    /\ dial = "dial"
    /\ ListenFails(err)
    /\ lastDial' = err
    /\ UNCHANGED <<dial, accept, sess, closeErr, group, streams, orphanVars>>

ListenRedials ==
    /\ pc = "listen" /\ dial = "backoff"
    /\ dial' = "dial"
    /\ UNCHANGED <<vars, accept, sess, closeErr, group, streams, orphanVars, lastDial>>

(* The context is done: connect returns its error, dialling or waiting. *)
ListenCanceled ==
    /\ ctxErr
    /\ ListenFails("other")
    /\ dial' = "dial"
    /\ UNCHANGED <<accept, sess, closeErr, group, streams, orphanVars, lastDial>>

-----------------------------------------------------------------------------
(* The accept goroutine. *)

(* The forwarder's context: derived from Run's by the error group, which   *)
(* cancels it as soon as one of its functions returns an error.            *)
ForwarderCtxErr == ctxErr \/ group # "nil"

(* Mutant: the listener is left open. *)
CloseListenerMutant == UNCHANGED <<closeErr, sess>>

(* listener.Close: no more reconnecting, and the session is closed. *)
CloseListener == closeErr' = TRUE /\ sess' = "closed"

(* Mutant: the deferred Close is missing. *)
AcceptEndsMutant(err) ==
    /\ accept' = "ended" /\ group' = err
    /\ dial' = "dial"
    /\ UNCHANGED <<vars, sess, closeErr, streams, orphanVars>>

(* accept returns err: the deferred Close, then the error group sees it. *)
AcceptEnds(err) ==
    /\ accept' = "ended" /\ group' = err
    /\ CloseListener
    /\ dial' = "dial"
    /\ UNCHANGED <<vars, streams, orphanVars>>

AcceptStream ==
    /\ accept = "accept" /\ sess = "up" /\ streams + orphanStreams < MaxStreams
    /\ streams' = streams + 1
    /\ UNCHANGED <<vars, dial, accept, sess, closeErr, group, orphanVars, lastDial>>

(* AcceptWithContext finds the forwarder's context done.  That is looked at *)
(* before the session's error, so ErrClosed, which a session closed under  *)
(* an open context gives, never comes up here: Run closes the forwarder    *)
(* only when its context is done.                                          *)
AcceptCanceled ==
    /\ accept = "accept" /\ ForwarderCtxErr
    /\ AcceptEnds("canceled")
    /\ UNCHANGED lastDial

(* Mutant: a lost session is taken for a closed one. *)
AcceptLostMutant ==
    /\ accept = "accept" /\ sess = "lost" /\ ~ForwarderCtxErr
    /\ AcceptEnds("closed")
    /\ UNCHANGED lastDial

(* The session was lost: connect again. *)
AcceptLost ==
    /\ accept = "accept" /\ sess = "lost" /\ ~ForwarderCtxErr
    /\ accept' = "reconnect"
    /\ UNCHANGED <<vars, dial, sess, closeErr, group, streams, orphanVars, lastDial>>

(* AcceptStreamWithContext could not write the window update of the new    *)
(* stream within the connection's write timeout.  The session is up; the   *)
(* listener connects again all the same.                                   *)
AcceptFails ==
    /\ accept = "accept" /\ sess = "up" /\ ~ForwarderCtxErr
    /\ orphans < MaxOrphans
    /\ accept' = "reconnect"
    /\ UNCHANGED <<vars, dial, sess, closeErr, group, streams, orphanVars, lastDial>>

(* Upstream.connect, called by the accept goroutine; a dial under way when *)
(* the listener is closed may still succeed.  connect overwrites           *)
(* listener.sess without closing the session there, so one that is up      *)
(* stays up, and its streams with it.                                      *)
Reconnects ==
    /\ accept = "reconnect" /\ dial = "dial"
    /\ accept' = "accept" /\ sess' = "up" /\ lastDial' = "ok"
    /\ orphans' = IF sess = "up" THEN orphans + 1 ELSE orphans
    /\ streams' = 0 /\ orphanStreams' = orphanStreams + streams
    /\ UNCHANGED <<vars, dial, closeErr, group>>

ReconnectRetries ==
    /\ accept = "reconnect" /\ dial = "dial" /\ ~closeErr
    /\ dial' = "backoff" /\ lastDial' = "retryable"
    /\ UNCHANGED <<vars, accept, sess, closeErr, group, streams, orphanVars>>

ReconnectRefused(err) ==
    /\ accept = "reconnect" /\ dial = "dial" /\ ~closeErr
    /\ AcceptEnds(err)
    /\ lastDial' = err

ReconnectRedials ==
    /\ accept = "reconnect" /\ dial = "backoff"
    /\ dial' = "dial"
    /\ UNCHANGED <<vars, accept, sess, closeErr, group, streams, orphanVars, lastDial>>

ReconnectCanceled ==
    /\ accept = "reconnect" /\ closeErr
    /\ AcceptEnds("canceled")
    /\ UNCHANGED lastDial

-----------------------------------------------------------------------------
(* Forwarder.Wait, waitForForwarder, and the world. *)

(* Forwarder.Wait, once group.Wait() has returned: errors are ignored when *)
(* the forwarder's context is done, and when the listener was closed.      *)
WaitErr == IF ForwarderCtxErr \/ group = "closed" THEN "nil" ELSE group

ForwarderWaits ==
    /\ accept = "ended" /\ streams = 0 /\ orphanStreams = 0
    /\ ForwarderStops(WaitErr)
    /\ UNCHANGED pikoVars

(* forward returns: one of its ends is closed. *)
StreamEnds ==
    /\ streams > 0
    /\ streams' = streams - 1
    /\ UNCHANGED <<vars, dial, accept, sess, closeErr, group, orphanVars, lastDial>>

OrphanStreamEnds ==
    /\ orphanStreams > 0
    /\ orphanStreams' = orphanStreams - 1
    /\ UNCHANGED <<vars, dial, accept, sess, closeErr, group, streams, orphans, lastDial>>

(* Forwarder.Close.  Closing a session that is lost changes nothing. *)
WaitCloses ==
    /\ WaitCanceled
    /\ IF sess = "lost" THEN closeErr' = TRUE /\ UNCHANGED sess ELSE CloseListener
    /\ UNCHANGED <<dial, accept, group, streams, orphanVars, lastDial>>

(* The connection to the Piko server breaks, or the server closes it. *)
SessionLost ==
    /\ sess = "up"
    /\ sess' = "lost"
    /\ UNCHANGED <<vars, dial, accept, closeErr, group, streams, orphanVars, lastDial>>

(* A session left behind ends in the same way, and in no other. *)
OrphanLost ==
    /\ orphans > 0
    /\ orphans' = orphans - 1
    /\ UNCHANGED <<vars, dial, accept, sess, closeErr, group, streams, orphanStreams, lastDial>>

(* Steps of SelfHeal that Piko has no part in. *)
Elsewhere ==
    /\ \/ RequestReturns \/ SleepExpires \/ SleepCanceled
       \/ Launch \/ LaunchFails \/ WaitReturns \/ Cancel
    /\ UNCHANGED pikoVars

TunnelFinished ==
    /\ pc = "done" /\ accept \in {"none", "ended"} /\ forwarder \in {"none", "stopped"}
    /\ UNCHANGED tunnelVars

ListenStep ==
    \/ ListenConnects \/ ListenRetries \/ ListenRedials \/ ListenCanceled
    \/ \E err \in ListenErrs : ListenRefused(err)

AcceptStep ==
    \/ AcceptStream \/ AcceptCanceled \/ AcceptLost \/ AcceptFails
    \/ Reconnects \/ ReconnectRetries \/ ReconnectRedials \/ ReconnectCanceled
    \/ \E err \in ListenErrs : ReconnectRefused(err)

TunnelNext ==
    \/ ListenStep \/ AcceptStep \/ ForwarderWaits \/ StreamEnds \/ OrphanStreamEnds \/ WaitCloses
    \/ SessionLost \/ OrphanLost \/ Elsewhere \/ TunnelFinished

(***************************************************************************)
(* Fairness.  Goroutines that can go on do: a dial has a timeout, a select *)
(* with a ready case proceeds, and a forwarded connection ends when its    *)
(* session is gone (on an earlier session: when none of them is left).     *)
(* The Piko server owes nothing: dials may fail for ever, and a session    *)
(* that was left behind may stay up for ever.                              *)
(***************************************************************************)
TunnelFairness ==
    /\ WF_tunnelVars(RequestReturns /\ UNCHANGED pikoVars)
    /\ WF_tunnelVars((SleepExpires \/ SleepCanceled) /\ UNCHANGED pikoVars)
    /\ WF_tunnelVars((Launch \/ LaunchFails) /\ UNCHANGED pikoVars)
    /\ WF_tunnelVars((WaitReturns /\ UNCHANGED pikoVars) \/ WaitCloses)
    /\ WF_tunnelVars(ctxErr /\ ListenStep)
    /\ WF_tunnelVars(AcceptCanceled \/ AcceptLost)
    /\ WF_tunnelVars(ReconnectRedials) /\ WF_tunnelVars(ReconnectCanceled)
    /\ WF_tunnelVars(sess # "up" /\ StreamEnds)
    /\ WF_tunnelVars(orphans = 0 /\ OrphanStreamEnds)
    /\ WF_tunnelVars(ForwarderWaits)

TunnelSpec == TunnelInit /\ [][TunnelNext]_tunnelVars

FairTunnelSpec == TunnelSpec /\ TunnelFairness

-----------------------------------------------------------------------------
(* The session that the listener refers to always has an accept goroutine  *)
(* that will close it, and a forwarder that has stopped has left neither   *)
(* it nor a stream on any session.  Nobody owns the sessions that          *)
(* reconnecting left behind.                                               *)
SessionOwned ==
    /\ sess = "up" => accept \in {"accept", "reconnect"}
    /\ forwarder \in {"none", "stopped"} =>
         sess \in {"none", "closed"} /\ streams = 0 /\ orphanStreams = 0

(* A lost connection that the Piko server only answers with retryable      *)
(* errors never ends Run: it keeps reconnecting behind waitForForwarder.   *)
TransientLossSurvived ==
    [][pc = "wait" /\ pc' # "wait" /\ ~ctxErr => lastDial \in {"401", "other"}]_tunnelVars

(* After a cancellation Run has returned, the accept goroutine has ended   *)
(* and the listener's session is closed with its streams, also when the    *)
(* cancellation met the client reconnecting.  The forwarder's goroutines   *)
(* have all ended too, unless a session was left behind that stays up.     *)
CancelDrains ==
    ctxErr ~> /\ pc = "done" /\ accept \in {"none", "ended"}
              /\ sess \in {"none", "closed"} /\ streams = 0
              /\ orphans > 0 \/ forwarder \in {"none", "stopped"}

(* Run does not sit on a tunnel that has no accept goroutine any more, also*)
(* when Piko refused to connect again while the old session was up: the    *)
(* streams end, Wait returns and Run with it.  Sessions left behind are    *)
(* the exception again.                                                    *)
DeadForwarderSeen == accept = "ended" /\ orphans = 0 ~> pc = "done"

(* Run maintains the tunnel by refreshing or replacing rejected            *)
(* credentials: it does not end, uncanceled, with a JWT that the Piko      *)
(* server has just rejected and nobody has tried to refresh.               *)
RejectedIsRefreshed ==
    pc = "done" /\ result = "connect" => lastDial # "401"
=============================================================================
