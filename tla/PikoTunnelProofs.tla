-------------------------- MODULE PikoTunnelProofs --------------------------
(***************************************************************************)
(* The self-healing tunnel with the Piko client it really gets: the        *)
(* session of its listener has an owner, a forwarder that has stopped has  *)
(* left no stream behind, and the tunnel outlives transient losses.        *)
(***************************************************************************)
EXTENDS PikoTunnel, SelfHealProofs

-----------------------------------------------------------------------------
(***************************************************************************)
(* Every step of PikoTunnel is a step of SelfHeal or hidden from it.  This *)
(* says nothing of the Piko client, because PikoTunnel is written with     *)
(* SelfHeal's actions; it makes what was proved of SelfHeal usable below.  *)
(***************************************************************************)

(* Forwarder.Wait returns one of the errors its interface allows. *)
LEMMA WaitErrType == WaitErr \in WaitErrs
  BY DEF WaitErr, WaitErrs, ForwarderCtxErr

(* The accept goroutine and the Piko server do nothing that Run sees. *)
LEMMA AcceptIsHidden ==
    AcceptStep \/ StreamEnds \/ OrphanStreamEnds \/ SessionLost \/ OrphanLost => UNCHANGED vars
  BY DEF AcceptStep, AcceptStream, AcceptCanceled, AcceptLost, AcceptFails, Reconnects,
     ReconnectRetries, ReconnectRedials, ReconnectCanceled, ReconnectRefused, AcceptEnds,
     StreamEnds, OrphanStreamEnds, SessionLost, OrphanLost

(* Every step of the composition is a step of SelfHeal or hidden from it. *)
LEMMA TunnelStepIsStep == [TunnelNext]_tunnelVars => [Next]_vars
<1> SUFFICES ASSUME [TunnelNext]_tunnelVars PROVE [Next]_vars
  OBVIOUS
<1>1. CASE ListenStep
  BY <1>1 DEF ListenStep, ListenConnects, ListenRetries, ListenRedials, ListenCanceled,
     ListenRefused, ListenErrs, ListenReturns, Step, Next
<1>2. CASE ForwarderWaits
  BY <1>2, WaitErrType DEF ForwarderWaits, ForwarderReturns, Next
<1>3. CASE WaitCloses
  BY <1>3 DEF WaitCloses, Step, Next
<1>4. CASE Elsewhere
  BY <1>4 DEF Elsewhere, Step, Next
<1>5. CASE TunnelFinished \/ UNCHANGED tunnelVars
  BY <1>5 DEF TunnelFinished, tunnelVars
<1> QED
  BY <1>1, <1>2, <1>3, <1>4, <1>5, AcceptIsHidden DEF TunnelNext

(* So the behaviours of PikoTunnel are behaviours of SelfHeal. *)
LEMMA TunnelIsSelfHeal == TunnelSpec => Spec
<1>1. TunnelInit => Init
  BY DEF TunnelInit
<1> QED
  BY <1>1, TunnelStepIsStep, PTL DEF TunnelSpec, Spec

(* What was proved of SelfHeal holds of the tunnel as it is built. *)
THEOREM TunnelKeepsInv == TunnelSpec => []Inv
  BY TunnelIsSelfHeal, Invariance, PTL

-----------------------------------------------------------------------------
(***************************************************************************)
(* The session.  SessionOwned is not inductive: that nobody opens a        *)
(* session or a stream behind a forwarder that has stopped depends on      *)
(* where the accept goroutine is.                                          *)
(***************************************************************************)
OwnedInv ==
    /\ sess \in {"none", "up", "lost", "closed"}
    /\ accept \in {"none", "accept", "reconnect", "ended"}
    /\ streams \in Nat /\ orphans \in Nat /\ orphanStreams \in Nat
    /\ accept = "none" =>
         sess = "none" /\ streams = 0 /\ orphanStreams = 0 /\ forwarder = "none"
    /\ accept = "ended" => sess = "closed"
    /\ forwarder \in {"none", "stopped"} => accept \in {"none", "ended"}
    /\ SessionOwned

(* A step that touches neither the session nor the forwarder. *)
LEMMA OwnedUnchanged ==
    ASSUME OwnedInv, UNCHANGED <<sess, accept, streams, orphanVars, forwarder>>
    PROVE  OwnedInv'
  BY DEF OwnedInv, SessionOwned, orphanVars

(* SelfHeal's steps elsewhere leave the forwarder alone. *)
LEMMA ElsewhereForwarder == Elsewhere => UNCHANGED <<forwarder, wait>>
  BY DEF Elsewhere, RequestReturns, Registered, Reregistered, Refreshed, RequestFails,
     SleepExpires, SleepCanceled, Launch, LaunchFails, WaitReturns, Cancel, forwardVars

(* Every step leaves the session with its owner. *)
LEMMA NextOwned == Inv /\ OwnedInv /\ [TunnelNext]_tunnelVars => OwnedInv'
<1> SUFFICES ASSUME Inv, OwnedInv, [TunnelNext]_tunnelVars PROVE OwnedInv'
  OBVIOUS
<1> USE DEF OwnedInv, SessionOwned, orphanVars
<1>1. CASE ListenConnects
  BY <1>1 DEF ListenConnects, ListenOk
<1>2. CASE ListenStep /\ ~ListenConnects
  <2>1. UNCHANGED <<sess, accept, streams, orphanVars, forwarder>>
    BY <1>2 DEF ListenStep, ListenRetries, ListenRedials, ListenCanceled, ListenRefused,
       ListenFails, vars, forwardVars
  <2> QED
    BY <2>1, OwnedUnchanged
<1>3. ASSUME NEW err, accept \in {"accept", "reconnect"}, AcceptEnds(err) PROVE OwnedInv'
  BY <1>3 DEF AcceptEnds, CloseListener, vars, forwardVars
<1>4. CASE AcceptStep
  <2>1. CASE AcceptCanceled \/ ReconnectCanceled \/ \E err \in ListenErrs : ReconnectRefused(err)
    BY <1>3, <2>1 DEF AcceptCanceled, ReconnectCanceled, ReconnectRefused
  <2>2. CASE AcceptStream
    BY <2>2 DEF AcceptStream, vars, forwardVars
  <2>3. CASE AcceptLost \/ AcceptFails \/ Reconnects
    BY <2>3 DEF AcceptLost, AcceptFails, Reconnects, vars, forwardVars
  <2>4. CASE ReconnectRetries \/ ReconnectRedials
    BY <2>4, OwnedUnchanged DEF ReconnectRetries, ReconnectRedials, vars, forwardVars
  <2> QED
    BY <1>4, <2>1, <2>2, <2>3, <2>4 DEF AcceptStep
<1>5. CASE ForwarderWaits
  BY <1>5 DEF ForwarderWaits, ForwarderStops, pikoVars
<1>6. CASE StreamEnds \/ OrphanStreamEnds \/ SessionLost \/ OrphanLost
  BY <1>6 DEF StreamEnds, OrphanStreamEnds, SessionLost, OrphanLost, vars, forwardVars
<1>7. CASE WaitCloses
  <2>1. forwarder \in {"running", "stopped"} /\ forwarder' \in {"closing", "stopped"}
        /\ (forwarder' = "stopped" => forwarder = "stopped")
    BY <1>7 DEF WaitCloses, WaitCanceled, CloseForwarder, Inv, ForwarderInv
  <2> QED
    BY <1>7, <2>1 DEF WaitCloses, CloseListener
<1>8. CASE Elsewhere
  BY <1>8, ElsewhereForwarder, OwnedUnchanged DEF Elsewhere, pikoVars
<1>9. CASE TunnelFinished \/ UNCHANGED tunnelVars
  BY <1>9, OwnedUnchanged DEF TunnelFinished, tunnelVars, vars, pikoVars, forwardVars
<1> QED
  BY <1>1, <1>2, <1>4, <1>5, <1>6, <1>7, <1>8, <1>9 DEF TunnelNext

(* OwnedInv is an invariant of the tunnel. *)
THEOREM OwnedInvariance == TunnelSpec => []OwnedInv
<1>1. TunnelInit => OwnedInv
  BY DEF TunnelInit, Init, OwnedInv, SessionOwned
<1> QED
  BY <1>1, NextOwned, TunnelKeepsInv, PTL DEF TunnelSpec

(* The listener's session has an accept goroutine that will close it, and  *)
(* a forwarder that has stopped has left neither it nor a stream, however  *)
(* many sessions reconnecting left behind.                                 *)
THEOREM SessionIsOwned == TunnelSpec => []SessionOwned
<1>1. OwnedInv => SessionOwned
  BY DEF OwnedInv
<1> QED
  BY OwnedInvariance, <1>1, PTL

-----------------------------------------------------------------------------
(***************************************************************************)
(* Transient losses.  While the accept goroutine works its error group has *)
(* no error, and its listener is closed only by a Run that was canceled;   *)
(* when it has ended under a Run that was not, Piko had refused it.        *)
(***************************************************************************)
LossInv ==
    /\ accept \in {"accept", "reconnect"} => group = "nil" /\ (closeErr => ctxErr)
    /\ pc = "wait" /\ accept = "ended" /\ ~ctxErr => lastDial \in {"401", "other"}

(* A context that is done stays done, and only a connection begins a wait. *)
LEMMA ElsewhereLoss ==
    ASSUME TypeOK, Elsewhere
    PROVE  (ctxErr => ctxErr') /\ (pc' = "wait" => pc = "wait")
  BY DEF TypeOK, Elsewhere, RequestReturns, Registered, Reregistered, Refreshed, RequestFails,
     RetryLater, GiveUp, LoopTop, StartRequest, Return, SleepExpires, SleepCanceled, Launch,
     LaunchFails, WaitReturns, AfterAttempt, Cancel

(* Every step keeps LossInv. *)
LEMMA NextLoss == Inv /\ LossInv /\ [TunnelNext]_tunnelVars => LossInv'
<1> SUFFICES ASSUME Inv, LossInv, [TunnelNext]_tunnelVars PROVE LossInv'
  OBVIOUS
<1> USE DEF LossInv
<1>1. CASE ListenConnects
  BY <1>1 DEF ListenConnects, ListenOk
<1>2. ASSUME NEW err, ListenFails(err), UNCHANGED <<accept, group, closeErr>> PROVE LossInv'
  BY <1>2 DEF ListenFails, AfterAttempt, StartRequest, Return
<1>3. CASE ListenStep /\ ~ListenConnects
  <2>1. CASE ListenRetries \/ ListenRedials
    BY <2>1 DEF ListenRetries, ListenRedials, vars, control
  <2> QED
    BY <1>2, <1>3, <2>1 DEF ListenStep, ListenCanceled, ListenRefused
<1>4. CASE AcceptStep
  <2>1. CASE AcceptCanceled \/ ReconnectCanceled
    BY <2>1 DEF AcceptCanceled, ReconnectCanceled, ForwarderCtxErr, AcceptEnds, vars, control
  <2>2. ASSUME NEW err \in ListenErrs, ReconnectRefused(err) PROVE LossInv'
    BY <2>2 DEF ReconnectRefused, AcceptEnds, ListenErrs
  <2>3. CASE \/ AcceptStream \/ AcceptLost \/ AcceptFails
             \/ Reconnects \/ ReconnectRetries \/ ReconnectRedials
    BY <2>3 DEF AcceptStream, AcceptLost, AcceptFails, Reconnects, ReconnectRetries,
       ReconnectRedials, vars, control
  <2> QED
    BY <1>4, <2>1, <2>2, <2>3 DEF AcceptStep
<1>5. CASE ForwarderWaits
  BY <1>5 DEF ForwarderWaits, ForwarderStops, pikoVars, control
<1>6. CASE StreamEnds \/ OrphanStreamEnds \/ SessionLost \/ OrphanLost
  BY <1>6 DEF StreamEnds, OrphanStreamEnds, SessionLost, OrphanLost, vars, control
<1>7. CASE WaitCloses
  BY <1>7 DEF WaitCloses, WaitCanceled, Return
<1>8. CASE Elsewhere
  BY <1>8, ElsewhereLoss DEF Elsewhere, Inv, pikoVars
<1>9. CASE TunnelFinished \/ UNCHANGED tunnelVars
  BY <1>9 DEF TunnelFinished, tunnelVars, vars, control, pikoVars
<1> QED
  BY <1>1, <1>3, <1>4, <1>5, <1>6, <1>7, <1>8, <1>9 DEF TunnelNext

(* Without a cancellation Run stops waiting for a forwarder only after     *)
(* Piko has refused it: it outlives every loss that Piko answers with      *)
(* retryable errors.                                                       *)
THEOREM TransientLossIsSurvived == TunnelSpec => TransientLossSurvived
<1> DEFINE Survived == pc = "wait" /\ pc' # "wait" /\ ~ctxErr => lastDial \in {"401", "other"}
<1>1. TunnelInit => LossInv
  BY DEF TunnelInit, Init, LossInv
<1>2. TunnelSpec => []LossInv
  BY <1>1, NextLoss, TunnelKeepsInv, PTL DEF TunnelSpec
<1>3. Inv /\ OwnedInv /\ LossInv /\ [TunnelNext]_tunnelVars => [Survived]_tunnelVars
  <2> SUFFICES ASSUME Inv, OwnedInv, LossInv, TunnelNext, pc = "wait", pc' # "wait", ~ctxErr
               PROVE  lastDial \in {"401", "other"}
    OBVIOUS
  <2>1. WaitReturns
    BY AcceptIsHidden DEF TunnelNext, ListenStep, ListenConnects, ListenRetries,
       ListenRedials, ListenCanceled, ListenRefused, ListenOk, ListenFails, ForwarderWaits,
       ForwarderStops, WaitCloses, WaitCanceled, Elsewhere, RequestReturns, Registered,
       Reregistered, Refreshed, RequestFails, SleepExpires, SleepCanceled, Launch,
       LaunchFails, Cancel, TunnelFinished, tunnelVars, vars, control
  <2>2. accept = "ended"
    BY <2>1 DEF WaitReturns, Inv, ForwarderInv, OwnedInv
  <2> QED
    BY <2>2 DEF LossInv
<1> QED
  BY <1>2, <1>3, TunnelKeepsInv, OwnedInvariance, PTL DEF TunnelSpec, TransientLossSurvived
=============================================================================
