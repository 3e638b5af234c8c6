------------------------- MODULE SlirpNetworkProofs -------------------------
(***************************************************************************)
(* launchNetwork leaves no slirp4netns behind, and it does what LaunchNS   *)
(* takes it to do (LaunchNetwork), in every order of its reader, the calls *)
(* of Cmd.Wait and Cmd.Cancel, slirp4netns itself and the context.         *)
(***************************************************************************)
EXTENDS SlirpNetwork, TLAPS

TypeInv ==
    /\ p1 \in {"await", "select", "returning", "exited"}
    /\ net \in {"start", "select", "deferred", "returned"}
    /\ reader \in {"off", "reading", "read", "sent", "failed"}
    /\ ready \in {"empty", "true", "closed"}
    /\ slirp \in {"off", "running", "ok", "error"}
    /\ reaped \in BOOLEAN
    /\ cancel \in [Cancelers -> {"none", "select", "killed", "ended"}]
    /\ call \in [Waiters -> {"none", "process", "result", "returned"}]

(* A call of Cmd.Wait gets past the process, or finds it reaped, only once *)
(* slirp4netns has ended: whoever saw one of them return knows as much.    *)
WaitInv ==
    /\ reaped => slirp \in {"ok", "error"}
    /\ \A w \in Waiters : call[w] \in {"result", "returned"} => slirp \in {"ok", "error"}

(* The channel and the goroutines that use it: only the reader sends, only *)
(* a launchNetwork that returns closes.                                    *)
ReadyInv ==
    /\ net = "start" => slirp = "off" /\ ready = "empty" /\ reader = "off"
    /\ ready = "true" => reader = "sent"
    /\ net = "returned" => ready # "empty"
    /\ net = "deferred" => netErr \in {"ok", "error"}

Inv == TypeInv /\ WaitInv /\ ReadyInv /\ NoSlirpLeft

-----------------------------------------------------------------------------
(* The callers of Cmd.Wait. *)
LEMMA WaitersAre ==
    /\ <<"main", "async">> \in Waiters
    /\ \A k \in Cancelers : <<k, "async">> \in Waiters /\ <<k, "sync">> \in Waiters
    /\ "watch" \in Cancelers /\ "defer" \in Cancelers
  BY DEF Waiters, Cancelers

(* A new call of Cmd.Wait keeps what the calls know of slirp4netns. *)
LEMMA CalledInv ==
    ASSUME TypeInv, WaitInv, NEW w \in Waiters, call' = [call EXCEPT ![w] = Called],
           slirp' = slirp \/ (slirp = "off" /\ slirp' = "running"), reaped' = reaped
    PROVE  /\ call' \in [Waiters -> {"none", "process", "result", "returned"}]
           /\ WaitInv'
  BY DEF TypeInv, WaitInv, Called

(* terminateChild returns only when slirp4netns has ended. *)
LEMMA CancelDoneEnds ==
    ASSUME Inv, NEW k \in Cancelers, CancelDone(k)
    PROVE  slirp \in {"ok", "error"}
  BY WaitersAre DEF Inv, WaitInv, CancelDone

(* Inv holds when LaunchNS starts launchNetwork. *)
LEMMA InitInv == Init => Inv
  BY DEF Init, Inv, TypeInv, WaitInv, ReadyInv, NoSlirpLeft

(* Every step keeps Inv. *)
LEMMA NextInv == Inv /\ [Next]_vars => Inv'
<1> SUFFICES ASSUME Inv, [Next]_vars PROVE Inv'
  OBVIOUS
<1> USE DEF Inv, TypeInv, ReadyInv, NoSlirpLeft
<1>1. CASE NetworkReady \/ LaunchReturns \/ ProcessExits
  BY <1>1 DEF NetworkReady, LaunchReturns, ProcessExits, WaitInv, netVars, slirpVars, cmdVars
<1>2. CASE StartSlirp
  BY <1>2, CalledInv, WaitersAre DEF StartSlirp, p1Vars
<1>3. CASE StartSlirpFails
  BY <1>3 DEF StartSlirpFails, WaitInv, p1Vars, slirpVars, cmdVars
<1>4. CASE ReaderReads \/ ReaderSends \/ ReaderFails
  BY <1>4 DEF ReaderReads, ReaderSends, ReaderFails, WaitInv, p1Vars, slirpVars, cmdVars
<1>5. CASE NetworkEnds
  <2>1. netErr' \in {"ok", "error"}
    BY <1>5, WaitersAre DEF NetworkEnds, SlirpDone, SlirpErr, WaitInv
  <2>2. /\ call' \in [Waiters -> {"none", "process", "result", "returned"}]
        /\ WaitInv'
    BY <1>5, CalledInv, WaitersAre DEF NetworkEnds, CancelStarts, slirpVars
  <2> QED
    BY <1>5, <2>1, <2>2 DEF NetworkEnds, CancelStarts, p1Vars, slirpVars
<1>6. CASE NetworkReturns
  <2>1. slirp \in {"ok", "error"}
    BY <1>6, CancelDoneEnds, WaitersAre DEF NetworkReturns
  <2> QED
    BY <1>6, <2>1 DEF NetworkReturns, CloseReady, WaitInv, p1Vars, slirpVars
<1>7. ASSUME NEW w \in Waiters, ProcessWaits(w) PROVE Inv'
  <2>1. reaped' \in BOOLEAN /\ slirp \in {"ok", "error"}
    BY <1>7 DEF ProcessWaits
  <2> QED
    BY <1>7, <2>1 DEF ProcessWaits, WaitInv, p1Vars, netVars, slirpVars
<1>8. ASSUME NEW w \in Waiters, WaitReturns(w) PROVE Inv'
  BY <1>8 DEF WaitReturns, WaitInv, p1Vars, netVars, slirpVars
<1>9. CASE WatcherCancels
  <2>1. /\ call' \in [Waiters -> {"none", "process", "result", "returned"}]
        /\ WaitInv'
    BY <1>9, CalledInv, WaitersAre DEF WatcherCancels, CancelStarts, slirpVars
  <2> QED
    BY <1>9, <2>1 DEF WatcherCancels, CancelStarts, p1Vars, netVars, slirpVars
<1>10. CASE WatcherSends
  BY <1>10 DEF WatcherSends, WaitInv, p1Vars, netVars, slirpVars
<1>11. ASSUME NEW k \in Cancelers, TimeExpires(k) PROVE Inv'
  <2>1. /\ call' \in [Waiters -> {"none", "process", "result", "returned"}]
        /\ WaitInv'
    BY <1>11, CalledInv, WaitersAre DEF TimeExpires, slirpVars
  <2> QED
    BY <1>11, <2>1 DEF TimeExpires, p1Vars, netVars, slirpVars
<1>12. CASE SlirpReady \/ SignalArrives
  BY <1>12 DEF SlirpReady, SignalArrives, WaitInv, p1Vars, netVars, slirpVars, cmdVars
<1>13. ASSUME NEW status \in {"ok", "error"}, SlirpExits(status) PROVE Inv'
  BY <1>13 DEF SlirpExits, WaitInv, p1Vars, netVars, cmdVars
<1>14. CASE UNCHANGED vars
  BY <1>14 DEF vars, WaitInv, p1Vars, netVars, slirpVars, cmdVars
<1> QED
  BY <1>1, <1>2, <1>3, <1>4, <1>5, <1>6, <1>7, <1>8, <1>9, <1>10, <1>11, <1>12,
     <1>13, <1>14
  DEF Next, NetStep, WaitStep, SlirpEnds, Ended

(* Inv is an invariant of launchNetwork. *)
THEOREM Invariance == Spec => []Inv
  BY InitInv, NextInv, PTL DEF Spec

(* launchNetwork never returns while slirp4netns still runs. *)
THEOREM SlirpIsNotLeft == Spec => []NoSlirpLeft
<1>1. Inv => NoSlirpLeft
  BY DEF Inv
<1> QED
  BY Invariance, <1>1, PTL

-----------------------------------------------------------------------------
(* SlirpNetwork implements LaunchNetwork. *)

promised == <<p1 # "exited", IF net = "returned" THEN net ELSE "start",
              IF net = "returned" THEN netErr ELSE "none", ready>>

(* Every step of launchNetwork is one that LaunchNS takes it to make, or   *)
(* one that LaunchNS does not see.                                         *)
LEMMA StepKeepsPromise ==
    ASSUME Inv, [Next]_vars
    PROVE  [Promise!Next]_promised
<1> USE DEF promised
<1>1. CASE NetworkReady \/ LaunchReturns
  BY <1>1 DEF NetworkReady, LaunchReturns, netVars
<1>2. CASE ProcessExits
  <2>1. Promise!ProcessExits
    BY <1>2 DEF ProcessExits, Promise!ProcessExits, netVars
  <2> QED
    BY <2>1 DEF Promise!Next
<1>3. CASE StartSlirp
  BY <1>3 DEF StartSlirp, p1Vars
<1>4. CASE StartSlirpFails
  <2>1. Promise!NetworkReturns("error")
    BY <1>4 DEF StartSlirpFails, Runs, Promise!NetworkReturns, Inv, ReadyInv, p1Vars
  <2> QED
    BY <2>1 DEF Promise!Next
<1>5. CASE ReaderReads \/ ReaderFails
  BY <1>5 DEF ReaderReads, ReaderFails, p1Vars
<1>6. CASE ReaderSends /\ ready = "closed"
  <2>1. Promise!ReaderPanics
    BY <1>6 DEF ReaderSends, Runs, Promise!ReaderPanics
  <2> QED
    BY <2>1 DEF Promise!Next
<1>7. CASE ReaderSends /\ ready # "closed"
  <2>1. ready = "empty" /\ net # "returned"
    BY <1>7 DEF ReaderSends, Inv, TypeInv, ReadyInv
  <2>2. Promise!NetworkUp
    BY <1>7, <2>1 DEF ReaderSends, Runs, Promise!NetworkUp
  <2> QED
    BY <2>2 DEF Promise!Next
<1>8. CASE NetworkEnds
  BY <1>8 DEF NetworkEnds, p1Vars
<1>9. CASE NetworkReturns
  <2>1. netErr \in {"ok", "error"}
    BY <1>9 DEF NetworkReturns, Inv, ReadyInv
  <2>2. Promise!NetworkReturns(netErr)
    BY <1>9 DEF NetworkReturns, CloseReady, Runs, Promise!NetworkReturns, p1Vars
  <2> QED
    BY <2>1, <2>2 DEF Promise!Next
<1>10. CASE /\ \/ WaitStep \/ WatcherCancels \/ WatcherSends \/ SlirpReady \/ SlirpEnds
               \/ \E w \in Waiters : ProcessWaits(w)
               \/ \E k \in Cancelers : TimeExpires(k)
  BY <1>10 DEF WaitStep, WaitReturns, WatcherCancels, WatcherSends, SlirpReady,
     SlirpEnds, SlirpExits, ProcessWaits, TimeExpires, p1Vars, netVars
<1>11. CASE SignalArrives \/ UNCHANGED vars
  BY <1>11 DEF SignalArrives, vars, p1Vars, netVars
<1> QED
  BY <1>1, <1>2, <1>3, <1>4, <1>5, <1>6, <1>7, <1>8, <1>9, <1>10, <1>11
  DEF Next, NetStep, Ended

(* launchNetwork does what LaunchNS takes it to do: ready says true or is  *)
(* closed, never both, in every order of the goroutines.                   *)
THEOREM ImplementsNetwork == Spec => ImplementsLaunchNetwork
<1>1. Init => Promise!Init
  BY DEF Init, Promise!Init
<1>2. Inv /\ [Next]_vars => [Promise!Next]_promised
  BY StepKeepsPromise
<1> QED
  BY Invariance, <1>1, <1>2, PTL DEF Spec, ImplementsLaunchNetwork, Promise!Spec, promised
=============================================================================
