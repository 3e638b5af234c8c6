------------------------- MODULE OpenWormholeProofs -------------------------
(***************************************************************************)
(* "wh open" tells the truth about its end: for every order in which the   *)
(* tunnel, Airlock and a signal end each other, success is the answer to   *)
(* an interrupt, and the error reported is the cause.                      *)
(***************************************************************************)
EXTENDS OpenWormhole, SelfHealProofs

-----------------------------------------------------------------------------
(* OpenWormhole implements SelfHeal. *)

(* A signal, and the end of a goroutine of the group, are to the tunnel a  *)
(* cancellation, or nothing if it is canceled already.                     *)
LEMMA CanceledOrHidden ==
    ASSUME TypeOK, ctxErr' \in BOOLEAN, ctxErr => ctxErr',
           UNCHANGED <<pc, op, result, loopVars, retryVars, failure, forwardVars, history>>
    PROVE  [Next]_vars
<1>1. CASE ctxErr' = ctxErr
  BY <1>1 DEF vars, control
<1>2. CASE ctxErr' # ctxErr
  <2>1. ~ctxErr /\ ctxErr' = TRUE
    BY <1>2 DEF TypeOK
  <2> QED
    BY <2>1 DEF Cancel, Next
<1> QED
  BY <1>1, <1>2

(* The error group cancels its context, or leaves it. *)
LEMMA GroupReturnContext ==
    ASSUME TypeOK, NEW err, GroupReturn(err)
    PROVE  ctxErr' \in BOOLEAN /\ (ctxErr => ctxErr')
  BY DEF TypeOK, GroupReturn

(* Every step of openWormhole is a step of the tunnel or hidden from it. *)
LEMMA OpenStepIsStep == TypeOK /\ [OpenNext]_allVars => [Next]_vars
<1> SUFFICES ASSUME TypeOK, [OpenNext]_allVars PROVE [Next]_vars
  OBVIOUS
<1>1. CASE Parsed \/ ParseFails \/ RegisterFailed \/ GroupWait \/ AirlockServes
           \/ AirlockStops \/ PortTaken \/ Exited \/ UNCHANGED allVars
  BY <1>1 DEF Parsed, ParseFails, RegisterFailed, GroupWait, AirlockServes, AirlockStops,
     PortTaken, Exited, allVars
<1>2. CASE LaunchGroup \/ LaunchGroupFails
  BY <1>2 DEF LaunchGroup, LaunchGroupFails, Step, Next
<1>3. CASE Interrupt
  BY <1>3, CanceledOrHidden DEF Interrupt, InterruptContext
<1>4. CASE TunnelReturns
  BY <1>4, GroupReturnContext, CanceledOrHidden DEF TunnelReturns
<1>5. CASE AirlockEnds
  BY <1>5, GroupReturnContext, CanceledOrHidden DEF AirlockEnds, AirlockFails, AirlockShutdown
<1>6. CASE RegisterStep \/ RunStep \/ ForwarderStep
  BY <1>6 DEF RegisterStep, RunStep, ForwarderStep, Step, Next
<1> QED
  BY <1>1, <1>2, <1>3, <1>4, <1>5, <1>6 DEF OpenNext

(* What was proved of SelfHeal holds of the tunnel inside openWormhole. *)
THEOREM OpenKeepsInv == OpenSpec => []Inv
<1>1. OpenInit => Inv
  BY InitInv DEF OpenInit
<1>2. Inv /\ [OpenNext]_allVars => Inv'
  BY OpenStepIsStep, NextInv DEF Inv
<1> QED
  BY <1>1, <1>2, PTL DEF OpenSpec

(* The tunnel inside openWormhole's error group is a SelfHeal: a signal    *)
(* and the failure of Airlock are cancellations to it and nothing else.    *)
THEOREM OpenImplementsSelfHeal == OpenSpec => Spec
<1>1. OpenInit => Init
  BY DEF OpenInit
<1>2. Inv /\ [OpenNext]_allVars => [Next]_vars
  BY OpenStepIsStep DEF Inv
<1> QED
  BY <1>1, <1>2, OpenKeepsInv, PTL DEF OpenSpec, Spec

-----------------------------------------------------------------------------
(***************************************************************************)
(* The inductive invariant.  A context that is done has a reason, a signal *)
(* or the group's error, and a tunnel that says it was canceled was: so    *)
(* when a cancellation reaches the group as an error, a cause is there.    *)
(***************************************************************************)
CauseInv ==
    /\ ctxErr => interrupted \/ gErr # "nil"
    /\ result = "canceled" => ctxErr
    /\ CauseReported

SuccessInv ==
    /\ main = "tunnelDone" /\ gErr = "nil" => interrupted
    /\ SuccessMeansInterrupted

OpenInv == OpenTypeOK /\ CauseInv /\ SuccessInv

(* SelfHeal returns "canceled" only on a context that is done. *)
LEMMA CanceledMeansDone ==
    ASSUME TypeOK, result = "canceled" => ctxErr, Next
    PROVE  result' = "canceled" => ctxErr'
<1>1. ASSUME NEW r, Return(r), r = "canceled" => ctxErr, ctxErr' = ctxErr
      PROVE  result' = "canceled" => ctxErr'
  BY <1>1 DEF Return
<1>2. ASSUME NEW err, AfterAttempt(err), ctxErr' = ctxErr
      PROVE  result' = "canceled" => ctxErr'
  BY <1>1, <1>2 DEF AfterAttempt, AttemptCanceled, StartRequest
<1>3. ASSUME NEW j, LoopTop(j), ctxErr' = ctxErr
      PROVE  result' = "canceled" => ctxErr'
  BY <1>1, <1>3 DEF LoopTop
<1>4. ASSUME NEW answer, RequestFails(answer) PROVE result' = "canceled" => ctxErr'
  BY <1>1, <1>4 DEF RequestFails, RequestCanceled, RetryLater, GiveUp, StartRequest
<1>5. CASE Launch \/ ListenReturns \/ WaitReturns
  BY <1>2, <1>3, <1>5 DEF Launch, ListenReturns, ListenOk, ListenFails, WaitReturns
<1>6. CASE RequestReturns
  BY <1>3, <1>4, <1>6 DEF RequestReturns, Registered, Reregistered, Refreshed
<1>7. CASE SleepExpires \/ SleepCanceled \/ LaunchFails \/ WaitCanceled
  BY <1>1, <1>7 DEF SleepExpires, SleepCanceled, LaunchFails, WaitCanceled
<1>8. CASE ForwarderReturns \/ Cancel \/ Finished
  BY <1>8 DEF ForwarderReturns, ForwarderStops, Cancel, Finished, vars, control
<1> QED
  BY <1>5, <1>6, <1>7, <1>8 DEF Next, Step

(* Steps of the tunnel alone cancel nothing. *)
LEMMA TunnelStepContext ==
    RegisterStep \/ RunStep \/ ForwarderStep \/ LaunchGroup \/ LaunchGroupFails
        => UNCHANGED ctxErr
  BY DEF RegisterStep, RunStep, ForwarderStep, LaunchGroup, LaunchGroupFails,
     RequestReturns, Registered, Reregistered, Refreshed, RequestFails, SleepExpires,
     SleepCanceled, ListenReturns, ListenOk, ListenFails, WaitReturns, WaitCanceled,
     ForwarderReturns, ForwarderStops, Launch, LaunchFails, control

(* A goroutine of the group returns err, and err is no cancellation that   *)
(* comes without a cause.                                                  *)
LEMMA GroupReturnCause ==
    ASSUME OpenInv, TypeOK, NEW err \in {"nil", "airlock", "shutdown"} \cup Results,
           GroupReturn(err), UNCHANGED <<result, interrupted>>,
           err = "canceled" => gErr # "nil"
    PROVE  /\ CauseInv'
           /\ gErr' \in {"nil", "airlock", "shutdown"} \cup Results
           /\ gErr' = "nil" => gErr = "nil" /\ err = "nil"
  BY DEF OpenInv, OpenTypeOK, TypeOK, CauseInv, CauseReported, GroupReturn

(* OpenInv holds when the command starts. *)
LEMMA InitOpenInv == OpenInit => OpenInv
  BY DEF OpenInit, Init, OpenInv, OpenTypeOK, CauseInv, CauseReported, SuccessInv,
     SuccessMeansInterrupted

(* Every step keeps OpenInv. *)
LEMMA NextOpenInv == Inv /\ OpenInv /\ [OpenNext]_allVars => OpenInv'
<1> SUFFICES ASSUME Inv, OpenInv, [OpenNext]_allVars PROVE OpenInv'
  OBVIOUS
<1> USE DEF OpenInv, OpenTypeOK, SuccessInv, SuccessMeansInterrupted
<1>0. TypeOK /\ result \in Results
  BY DEF Inv, TypeOK
<1>1. CASE Parsed \/ ParseFails \/ RegisterFailed
  BY <1>1 DEF Parsed, ParseFails, RegisterFailed, Exit, CauseInv, CauseReported, vars, control
<1>2. CASE GroupWait
  BY <1>2 DEF GroupWait, Exit, ExitStatus, CauseInv, CauseReported, vars, control
<1>3. CASE AirlockServes \/ AirlockStops \/ PortTaken
  BY <1>3 DEF AirlockServes, AirlockStops, PortTaken, CauseInv, CauseReported, vars, control
<1>4. CASE Interrupt
  BY <1>4 DEF Interrupt, InterruptContext, CauseInv, CauseReported
<1>5. CASE RegisterStep \/ RunStep \/ ForwarderStep \/ LaunchGroup \/ LaunchGroupFails
  <2>1. Next
    BY <1>5 DEF RegisterStep, RunStep, ForwarderStep, LaunchGroup, LaunchGroupFails, Step, Next
  <2>2. CauseInv'
    BY <1>0, <1>5, <2>1, CanceledMeansDone, TunnelStepContext
    DEF RegisterStep, RunStep, ForwarderStep, LaunchGroup, LaunchGroupFails,
        CauseInv, CauseReported, openVars
  <2> QED
    BY <1>5, <2>2 DEF RegisterStep, RunStep, ForwarderStep, LaunchGroup,
       LaunchGroupFails, Exit, openVars
<1>6. CASE TunnelReturns
  <2>1. /\ TunnelErr \in {"nil", "airlock", "shutdown"} \cup Results
        /\ TunnelErr = "canceled" => gErr # "nil"
        /\ TunnelErr = "nil" => interrupted
    BY <1>0 DEF TunnelErr, CauseInv, Results
  <2>2. /\ CauseInv'
        /\ gErr' \in {"nil", "airlock", "shutdown"} \cup Results
        /\ gErr' = "nil" => gErr = "nil" /\ TunnelErr = "nil"
    BY <1>0, <1>6, <2>1, GroupReturnCause DEF TunnelReturns
  <2> QED
    BY <1>6, <2>1, <2>2 DEF TunnelReturns
<1>7. ASSUME NEW err \in {"nil", "airlock", "shutdown"}, GroupReturn(err), airlock' = "done",
             UNCHANGED <<result, main, interrupted, port, exit>>
      PROVE  OpenInv'
  <2>1. /\ CauseInv'
        /\ gErr' \in {"nil", "airlock", "shutdown"} \cup Results
        /\ gErr' = "nil" => gErr = "nil"
    BY <1>0, <1>7, GroupReturnCause
  <2> QED
    BY <1>7, <2>1
<1>8. CASE AirlockEnds
  BY <1>7, <1>8 DEF AirlockEnds, AirlockFails, AirlockErr, AirlockShutdown
<1>9. CASE Exited \/ UNCHANGED allVars
  BY <1>9 DEF Exited, CauseInv, CauseReported, allVars, openVars, vars, control
<1> QED
  BY <1>1, <1>2, <1>3, <1>4, <1>5, <1>6, <1>8, <1>9 DEF OpenNext

(* OpenInv is an invariant of the command. *)
THEOREM OpenInvariance == OpenSpec => []OpenInv
  BY InitOpenInv, NextOpenInv, OpenKeepsInv, PTL DEF OpenSpec

(* OpenWormhole is type correct. *)
THEOREM OpenTypeCorrect == OpenSpec => []OpenTypeOK
<1>1. OpenInv => OpenTypeOK
  BY DEF OpenInv
<1> QED
  BY OpenInvariance, <1>1, PTL

(* A wormhole that ends by itself reports an error. *)
THEOREM SuccessIsAnInterrupt == OpenSpec => []SuccessMeansInterrupted
<1>1. OpenInv => SuccessMeansInterrupted
  BY DEF OpenInv, SuccessInv
<1> QED
  BY OpenInvariance, <1>1, PTL

(* The error that openWormhole reports is never the cancellation that the  *)
(* failure of one goroutine brings on the other.                           *)
THEOREM CauseIsReported == OpenSpec => []CauseReported
<1>1. OpenInv => CauseReported
  BY DEF OpenInv, CauseInv
<1> QED
  BY OpenInvariance, <1>1, PTL
=============================================================================
