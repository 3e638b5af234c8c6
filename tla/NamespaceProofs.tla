--------------------------- MODULE NamespaceProofs ---------------------------
(***************************************************************************)
(* The safety of the two stages of "wh open -- command": the types, the    *)
(* handshake that keeps the application from running without a network,    *)
(* and the way of a failure through two processes to the exit status.      *)
(***************************************************************************)
EXTENDS Namespace, TLAPS

(* Before P1 has started anything, there is nothing. *)
StartInv ==
    /\ p1 = "start" => p2 = "off" /\ net = "off" /\ p1exit = "none"
    /\ p2 \in {"off", "sync"} => app = "none" /\ childErr = "none" /\ sidecar = "off"
    /\ net # "returned" => netErr = "none"

(* What P1 knows of the network reaches P2 through the pipe: the SYNC is   *)
(* only ever written once the network is up, and nothing of P2 starts      *)
(* without the SYNC.                                                       *)
HandshakeInv ==
    /\ app # "none" => sync = "SYNC"
    /\ sync = "SYNC" => ready = "true"

(* Success on its way from the application, through execChild and Exec, to *)
(* the exit status of P1: at every station there is a reason for it.       *)
Excused == p2ctx \/ app = "ok"

StatusInv ==
    /\ p2 = "drain" => p2exit # "none"
    /\ p2 = "run" /\ childErr = "ok" => Excused
    /\ p2 = "run" /\ sidecar = "ok" => p2ctx
    /\ p2exit = "ok" => Excused
    /\ FailureReported

Inv == TypeOK /\ StartInv /\ HandshakeInv /\ StatusInv

-----------------------------------------------------------------------------
(* Inv holds when LaunchNS is called. *)
LEMMA InitInv == Init => Inv
  BY DEF Init, Inv, TypeOK, StartInv, HandshakeInv, StatusInv, Excused, FailureReported

(* Every step of P1 keeps Inv. *)
LEMMA LaunchStepInv == Inv /\ LaunchStep => Inv'
<1> SUFFICES ASSUME Inv, LaunchStep PROVE Inv'
  OBVIOUS
<1> USE DEF Inv, TypeOK, StartInv, HandshakeInv, StatusInv, Excused, FailureReported,
            Return, netVars, p2Vars
<1>1. CASE StartP2
  BY <1>1 DEF StartP2
<1>2. CASE StartP2Fails
  BY <1>2 DEF StartP2Fails
<1>3. CASE SendSync \/ SendSyncFails
  BY <1>3 DEF SendSync, SendSyncFails, NetworkReady
<1>4. CASE NetworkFails
  BY <1>4 DEF NetworkFails
<1>5. CASE Select
  BY <1>5 DEF Select, SelectP2, SelectNetwork
<1>6. CASE ExitP1
  BY <1>6 DEF ExitP1
<1> QED
  BY <1>1, <1>2, <1>3, <1>4, <1>5, <1>6 DEF LaunchStep

(* Every step of launchNetwork, as LaunchNS sees it, keeps Inv. *)
LEMMA NetworkStepInv == Inv /\ (NetworkUp \/ NetworkEnds \/ ReaderPanics) => Inv'
<1> SUFFICES ASSUME Inv, NetworkUp \/ NetworkEnds \/ ReaderPanics PROVE Inv'
  OBVIOUS
<1> USE DEF Inv, TypeOK, StartInv, HandshakeInv, StatusInv, Excused, FailureReported,
            p1Vars, p2Vars
<1>1. CASE NetworkUp
  BY <1>1 DEF NetworkUp, Net!NetworkUp
<1>2. ASSUME NEW err \in {"ok", "error"}, NetworkReturns(err) PROVE Inv'
  BY <1>2 DEF NetworkReturns, Net!NetworkReturns
<1>3. CASE ReaderPanics
  BY <1>3 DEF ReaderPanics, Net!ReaderPanics
<1> QED
  BY <1>1, <1>2, <1>3 DEF NetworkEnds

(* P2 exits, with success only for a reason. *)
LEMMA ExitP2Inv ==
    ASSUME Inv, NEW err \in {"ok", "error"}, P2Runs, ExitP2(err), err = "ok" => Excused,
           UNCHANGED <<p1Vars, netVars, sync, p2ctx, termSent, childErr, sidecar>>
    PROVE  Inv'
  BY DEF Inv, TypeOK, StartInv, HandshakeInv, StatusInv, Excused, FailureReported,
         P2Runs, ExitP2, p1Vars, netVars

(* Every step of Exec and of execChild keeps Inv. *)
LEMMA ExecStepInv ==
    Inv /\ (ExecStep \/ ChildStep \/ P2Fails \/ KillP2 \/ SidecarFatal) => Inv'
<1> SUFFICES ASSUME Inv, ExecStep \/ ChildStep \/ P2Fails \/ KillP2 \/ SidecarFatal
             PROVE  Inv'
  OBVIOUS
<1>1. CASE RecvSync
  BY <1>1 DEF RecvSync, Inv, TypeOK, StartInv, HandshakeInv, StatusInv, Excused,
              FailureReported, p1Vars, netVars
<1>2. CASE RecvSyncFails \/ P2Fails \/ KillP2 \/ SidecarFatal
  BY <1>2, ExitP2Inv DEF RecvSyncFails, P2Fails, KillP2, SidecarFatal, P2Runs
<1>3. CASE ExecCancels
  BY <1>3 DEF ExecCancels, ChildEnded, Inv, TypeOK, StartInv, HandshakeInv, StatusInv,
              Excused, FailureReported, p1Vars, netVars
<1>4. CASE ExecReturns
  <2>1. CASE p2 = "run"
    BY <1>4, <2>1, ExitP2Inv DEF ExecReturns, SidecarEnded, P2Runs, Inv, StatusInv, Excused
  <2>2. CASE p2 = "drain"
    BY <1>4, <2>2, ExitP2Inv DEF ExecReturns, P2Runs, Inv, TypeOK, StatusInv
  <2> QED
    BY <1>4, <2>1, <2>2 DEF ExecReturns
<1>5. CASE AppStarts \/ AppStartFails
  BY <1>5 DEF AppStarts, AppStartFails, Inv, TypeOK, StartInv, HandshakeInv, StatusInv,
              Excused, FailureReported, p1Vars, netVars
<1>6. CASE ExecChildReturns
  BY <1>6 DEF ExecChildReturns, P2Done, Inv, TypeOK, StartInv, HandshakeInv, StatusInv,
              Excused, FailureReported, p1Vars, netVars
<1> QED
  BY <1>1, <1>2, <1>3, <1>4, <1>5, <1>6 DEF ExecStep, ChildStep

(* Inv is inductive. *)
LEMMA NextInv == Inv /\ [Next]_vars => Inv'
<1> SUFFICES ASSUME Inv, [Next]_vars PROVE Inv'
  OBVIOUS
<1> USE DEF Inv, TypeOK, StartInv, HandshakeInv, StatusInv, Excused, FailureReported,
            p1Vars, netVars
<1>1. ASSUME NEW status \in {"ok", "error"}, AppExits(status) PROVE Inv'
  BY <1>1 DEF AppExits
<1>2. CASE KillApp
  BY <1>2 DEF KillApp
<1>3. ASSUME NEW err \in {"ok", "error"}, SidecarReturns(err) PROVE Inv'
  BY <1>3 DEF SidecarReturns, P2Runs, P2Done
<1>4. CASE SignalP2
  BY <1>4 DEF SignalP2
<1>5. CASE SignalArrives
  <2>1. CASE p1ctx' = TRUE /\ p2ctx' = p2ctx
    BY <1>5, <2>1 DEF SignalArrives
  <2>2. CASE p2ctx' = TRUE /\ p1ctx' = p1ctx
    BY <1>5, <2>2 DEF SignalArrives
  <2> QED
    BY <1>5, <2>1, <2>2 DEF SignalArrives
<1>6. CASE UNCHANGED vars
  BY <1>6 DEF vars, p2Vars
<1> QED
  BY <1>1, <1>2, <1>3, <1>4, <1>5, <1>6, LaunchStepInv, NetworkStepInv, ExecStepInv
  DEF Next, AppEnds, SidecarEnds, Ended

(* Inv is an invariant of the two stages. *)
THEOREM Invariance == Spec => []Inv
  BY InitInv, NextInv, PTL DEF Spec

(* Namespace is type correct. *)
THEOREM TypeCorrect == Spec => []TypeOK
<1>1. Inv => TypeOK
  BY DEF Inv
<1> QED
  BY Invariance, <1>1, PTL

(* The application never runs before its network namespace has a network. *)
THEOREM NetworkComesFirst == Spec => []NetworkBeforeApp
<1>1. Inv => NetworkBeforeApp
  BY DEF Inv, HandshakeInv, NetworkBeforeApp
<1> QED
  BY Invariance, <1>1, PTL

(* No failure is lost on its way through P2 and P1 to the exit status. *)
THEOREM FailureIsReported == Spec => []FailureReported
<1>1. Inv => FailureReported
  BY DEF Inv, StatusInv
<1> QED
  BY Invariance, <1>1, PTL
=============================================================================
