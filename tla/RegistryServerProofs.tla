------------------------ MODULE RegistryServerProofs ------------------------
(***************************************************************************)
(* The tunnel against servers that keep track of JWTs: however many        *)
(* requests and responses are lost, and however many JWTs there are, it    *)
(* gives up on its credentials only after two of them were taken from it.  *)
(***************************************************************************)
EXTENDS RegistryServer, SelfHealProofs

-----------------------------------------------------------------------------
(* RegistryServer implements SelfHeal. *)

(* A transient failure of a request. *)
DisturbedAnswers == {[kind |-> "net", code |-> 0], [kind |-> "http", code |-> 503]}

Refusal == [kind |-> "http", code |-> 401]

(* The failures of this registry are ones that SelfHeal allows; all but    *)
(* the refusal are retried.                                                *)
LEMMA AnswerFacts ==
    /\ Refusal \in Answers
    /\ \A answer \in DisturbedAnswers : answer \in Answers /\ Retryable(answer)
  BY ServerAssumption DEF Refusal, DisturbedAnswers, Answers, Retryable

(* What a disturbed request is to the client. *)
LEMMA DisturbedFails == RequestDisturbed => \E answer \in DisturbedAnswers : RequestFails(answer)
  BY DEF RequestDisturbed, DisturbedAnswers

(* Every step of the composition is a step of SelfHeal or hidden from it. *)
LEMMA WorldStepIsStep == [WorldNext]_worldVars => [Next]_vars
<1> SUFFICES ASSUME [WorldNext]_worldVars PROVE [Next]_vars
  OBVIOUS
<1>1. ASSUME NEW answer \in Answers, RequestFails(answer) PROVE Next
  BY <1>1 DEF RequestReturns, Step, Next
<1>2. CASE Delivered
  BY <1>1, <1>2, AnswerFacts DEF Delivered, Answered, RefreshRefused, Refusal,
     RequestReturns, Step, Next
<1>3. CASE RequestDisturbed
  BY <1>1, <1>3, AnswerFacts, DisturbedFails
<1>4. CASE RequestDelayed
  <2>1. [kind |-> "net", code |-> 0] \in Answers
    BY DEF Answers
  <2> QED
    BY <1>1, <1>4, <2>1 DEF RequestDelayed
<1>5. CASE PikoAccepts \/ PikoRejects \/ ListenAborted
  BY <1>5 DEF PikoAccepts, PikoRejects, ListenAborted, ListenReturns, ListenErrs, Step, Next
<1>6. CASE ForwarderEnds
  BY <1>6 DEF ForwarderEnds, ForwarderReturns, WaitErrs, Next
<1>7. CASE Alone
  BY <1>7 DEF Alone, Step, Next
<1>8. CASE StrayRefused \/ Expires \/ Revoked \/ (\E j \in JWTs : StrayGranted(j))
           \/ UNCHANGED worldVars
  BY <1>8 DEF StrayRefused, Expires, Revoked, StrayGranted, worldVars
<1> QED
  BY <1>2, <1>3, <1>4, <1>5, <1>6, <1>7, <1>8 DEF WorldNext, RequestLost, ResponseLost

(* The tunnel against these servers is a SelfHeal. *)
THEOREM WorldImplementsSelfHeal == WorldSpec => Spec
<1>1. WorldInit => Init
  BY DEF WorldInit
<1> QED
  BY <1>1, WorldStepIsStep, PTL DEF WorldSpec, Spec

-----------------------------------------------------------------------------
(***************************************************************************)
(* The inductive invariant.  The client's JWT is in force when it arrives, *)
(* and only a mishap takes it out of force while the client does not ask   *)
(* for another one: a client that is asking for new credentials has seen   *)
(* one mishap, one that holds replaced credentials out of force has seen   *)
(* two.  Nothing is said of the JWT while a request is under way, since a  *)
(* request that is carried out unseen replaces it without a mishap.        *)
(***************************************************************************)
InForce == newest \in accepted

Replaced == rotated \/ reRegistered

MishapInv ==
    /\ mishaps \in Nat
    /\ result # "none" => pc = "done"
    /\ pc \in {"launch", "listen", "wait"} => InForce \/ mishaps >= 1
    /\ pc = "wait" /\ wait = "401" => mishaps >= 1
    /\ Requesting /\ op # "initial" => mishaps >= 1
    /\ Requesting /\ op = "refresh" /\ reRegistered => mishaps >= 2
    /\ pc = "listen" /\ Replaced => mishaps >= 1 /\ (InForce \/ mishaps >= 2)
    /\ SurrenderNeedsTwo

(* A step that leaves the servers alone and ends the tunnel, not for its   *)
(* credentials.                                                            *)
LEMMA ReturnMishap ==
    ASSUME MishapInv, pc # "done", NEW r, Return(r), mishaps' = mishaps,
           r \notin {"connectRefreshed", "refreshAfterRegister"} \/ mishaps >= 2
    PROVE  MishapInv'
  BY DEF MishapInv, Return, SurrenderNeedsTwo, Requesting

(* A mishap excuses the loss of the JWT in force. *)
LEMMA MishapCounts ==
    ASSUME MishapInv, Mishap, UNCHANGED vars
    PROVE  MishapInv'
  BY DEF MishapInv, Mishap, SurrenderNeedsTwo, Requesting, Replaced, InForce, vars,
     control, loopVars, forwardVars, history

(* A JWT that the registry issues is in force when it arrives. *)
LEMMA IssueInForce ==
    ASSUME NEW j, Issue(j)
    PROVE  j \in accepted'
  BY DEF Issue

(* A request that is disturbed is retried or canceled; what becomes of the *)
(* JWTs meanwhile does not matter.                                         *)
LEMMA DisturbedMishap ==
    ASSUME Inv, MishapInv, NEW answer, Retryable(answer), RequestFails(answer),
           mishaps' = mishaps
    PROVE  MishapInv'
<1>1. CASE Return("canceled")
  BY <1>1, ReturnMishap DEF RequestFails
<1>2. CASE RetryLater
  BY <1>2 DEF RequestFails, RetryLater, MishapInv, SurrenderNeedsTwo, Requesting, loopVars
<1> QED
  BY <1>1, <1>2 DEF RequestFails

(* An attempt fails, with 401 only after a mishap, or two if the           *)
(* credentials had been replaced.                                          *)
LEMMA AttemptMishap ==
    ASSUME Inv, MishapInv, NEW err, pc \in {"listen", "wait"}, AfterAttempt(err),
           UNCHANGED <<loopVars, mishaps>>,
           err = "401" => mishaps >= 1 /\ (Replaced => mishaps >= 2)
    PROVE  MishapInv'
<1>1. CASE err = "401" /\ StartRequest("refresh")
  BY <1>1 DEF StartRequest, MishapInv, SurrenderNeedsTwo, Requesting, Replaced, loopVars
<1>2. CASE Return("canceled") \/ Return("connect")
  BY <1>2, ReturnMishap
<1>3. CASE err = "401" /\ ~RefreshAllowed /\ Return("connectRefreshed")
  BY <1>3, ReturnMishap DEF RefreshAllowed, Replaced
<1> QED
  BY <1>1, <1>2, <1>3 DEF AfterAttempt

(* The client's copy is the JWT the invariant speaks of. *)
LEMMA CredentialsAreNewest ==
    ASSUME Inv, pc \in {"listen", "wait"}
    PROVE  credentials = newest
  BY DEF Inv, CurrentInv, CredentialsCurrent

(* MishapInv holds initially. *)
LEMMA InitMishap == WorldInit => MishapInv
  BY DEF WorldInit, Init, MishapInv, SurrenderNeedsTwo

(* An answer of the registry reaches the client. *)
LEMMA AnsweredMishap ==
    ASSUME Inv, MishapInv, NEW j \in JWTs, Answered(j)
    PROVE  MishapInv'
<1>1. j # NoJWT /\ j \in accepted' /\ mishaps' = mishaps
  BY CredentialAssumption, IssueInForce DEF Answered
<1>2. CASE Registered(j)
  BY <1>1, <1>2 DEF Registered, MishapInv, SurrenderNeedsTwo, Requesting, InForce
<1>3. CASE Refreshed(j)
  BY <1>1, <1>3 DEF Refreshed, StoreJWT, LoopTop, MishapInv, SurrenderNeedsTwo, Requesting,
     InForce, Replaced
<1>4. CASE Reregistered(j)
  BY <1>1, <1>4 DEF Reregistered, LoopTop, MishapInv, SurrenderNeedsTwo, Requesting,
     InForce, Replaced
<1> QED
  BY <1>2, <1>3, <1>4 DEF Answered

(* The registry refuses a refresh. *)
LEMMA RefusedMishap ==
    ASSUME Inv, MishapInv, RefreshRefused
    PROVE  MishapInv'
<1>1. pc = "request" /\ op = "refresh" /\ mishaps' = mishaps
  BY DEF RefreshRefused, RequestFails, Granted, Request, serverVars
<1>2. UNCHANGED loopVars /\ RequestFails(Refusal)
  BY DEF RefreshRefused, RequestFails, Refusal
<1>3. ~Retryable(Refusal) /\ Unauthorized(Refusal)
  BY DEF Retryable, Unauthorized, Refusal
<1>4. CASE Return("canceled")
  BY <1>1, <1>4, ReturnMishap
<1>5. CASE StartRequest("register")
  BY <1>1, <1>2, <1>5 DEF StartRequest, MishapInv, SurrenderNeedsTwo, Requesting, loopVars
<1>6. CASE ~RegisterAllowed /\ Return("refreshAfterRegister")
  BY <1>1, <1>6, ReturnMishap DEF RegisterAllowed, MishapInv, Requesting
<1> QED
  BY <1>1, <1>2, <1>3, <1>4, <1>5, <1>6 DEF RequestFails, GiveUp

(* The steps that meet neither server keep MishapInv. *)
LEMMA AloneMishap ==
    ASSUME Inv, MishapInv, Alone
    PROVE  MishapInv'
<1>0. mishaps' = mishaps /\ accepted' = accepted
  BY DEF Alone, serverVars
<1>1. CASE SleepExpires
  BY <1>0, <1>1 DEF SleepExpires, MishapInv, SurrenderNeedsTwo, Requesting, loopVars
<1>2. CASE SleepCanceled \/ WaitCanceled
  BY <1>0, <1>2, ReturnMishap DEF SleepCanceled, WaitCanceled
<1>3. CASE Launch
  <2>1. ~Replaced /\ Replaced' = Replaced
    BY <1>3 DEF Launch, Inv, BudgetInv, Replaced
  <2>2. CASE Return("credentials")
    BY <1>0, <1>3, <2>2, ReturnMishap DEF Launch
  <2>3. CASE pc' = "listen" /\ result' = result
    BY <1>0, <1>3, <2>1, <2>3 DEF Launch, MishapInv, SurrenderNeedsTwo, Requesting, InForce
  <2> QED
    BY <1>3, <2>2, <2>3 DEF Launch, LoopTop
<1>4. CASE WaitReturns
  <2>1. ~Replaced /\ (wait = "401" => mishaps >= 1)
    BY <1>4 DEF WaitReturns, Inv, BudgetInv, Replaced, MishapInv
  <2> QED
    BY <1>0, <1>4, <2>1, AttemptMishap DEF WaitReturns
<1>5. CASE Cancel \/ Finished
  BY <1>0, <1>5 DEF Cancel, Finished, MishapInv, SurrenderNeedsTwo, Requesting, Replaced,
     InForce, vars, control, loopVars, forwardVars, history
<1> QED
  BY <1>1, <1>2, <1>3, <1>4, <1>5 DEF Alone

(* Every step keeps MishapInv. *)
LEMMA NextMishap == Inv /\ MishapInv /\ [WorldNext]_worldVars => MishapInv'
<1> SUFFICES ASSUME Inv, MishapInv, [WorldNext]_worldVars PROVE MishapInv'
  OBVIOUS
<1>1. CASE RequestDisturbed /\ mishaps' = mishaps
  BY <1>1, AnswerFacts, DisturbedFails, DisturbedMishap
<1>2. CASE RequestDelayed
  <2>1. Retryable([kind |-> "net", code |-> 0])
    BY DEF Retryable
  <2> QED
    BY <1>2, <2>1, DisturbedMishap DEF RequestDelayed
<1>3. CASE Expires \/ Revoked \/ \E j \in JWTs : StrayGranted(j)
  BY <1>3, MishapCounts DEF Expires, Revoked, StrayGranted
<1>4. CASE StrayRefused \/ UNCHANGED worldVars
  BY <1>4 DEF StrayRefused, MishapInv, SurrenderNeedsTwo, Requesting, Replaced, InForce,
     worldVars, serverVars, vars, control, loopVars, forwardVars, history
<1>5. CASE PikoAccepts
  BY <1>5, CredentialsAreNewest DEF PikoAccepts, ListenOk, MakeWait, MishapInv,
     SurrenderNeedsTwo, Requesting, InForce
<1>6. CASE PikoRejects
  <2>1. pc = "listen" /\ mishaps >= 1 /\ (Replaced => mishaps >= 2)
    BY <1>6, CredentialsAreNewest DEF PikoRejects, ListenFails, MishapInv, InForce
  <2> QED
    BY <1>6, <2>1, AttemptMishap DEF PikoRejects, ListenFails, serverVars
<1>7. CASE ListenAborted
  BY <1>7, AttemptMishap DEF ListenAborted, ListenFails, serverVars
<1>8. CASE ForwarderEnds
  <2>1. pc = "wait" /\ wait' = "401" => mishaps >= 1
    BY <1>8, CredentialsAreNewest DEF ForwarderEnds, ForwarderStops, MishapInv, InForce
  <2> QED
    BY <1>8, <2>1 DEF ForwarderEnds, ForwarderStops, MishapInv, SurrenderNeedsTwo,
       Requesting, Replaced, InForce, serverVars, control, loopVars, history
<1> QED
  BY <1>1, <1>2, <1>3, <1>4, <1>5, <1>6, <1>7, <1>8, AnsweredMishap, RefusedMishap, AloneMishap
  DEF WorldNext, Delivered, RequestLost, ResponseLost, serverVars

(* The tunnel gives up on its credentials only when two JWTs were taken    *)
(* from it between two connections; lost requests and responses never make *)
(* it give up.                                                             *)
THEOREM SurrenderTakesTwo == WorldSpec => []SurrenderNeedsTwo
<1>1. WorldSpec => []Inv
  BY WorldImplementsSelfHeal, Invariance, PTL
<1>2. MishapInv => SurrenderNeedsTwo
  BY DEF MishapInv
<1> QED
  BY <1>1, <1>2, InitMishap, NextMishap, PTL DEF WorldSpec
=============================================================================
