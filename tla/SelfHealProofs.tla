--------------------------- MODULE SelfHealProofs ---------------------------
(***************************************************************************)
(* The safety properties of SelfHeal, for every set of JWTs, every valid   *)
(* retry configuration, every jitter and every set of HTTP statuses.       *)
(***************************************************************************)
EXTENDS SelfHeal, TLAPS

-----------------------------------------------------------------------------
(* What nextRetryDelay guarantees for every width of the integer, every    *)
(* valid configuration and every value the jitter function returns.        *)

(* The backoff stays within the configured bounds, whatever it was before. *)
LEMMA NextBackoffBounds ==
    ASSUME NEW minimum \in Duration, NEW maximum \in Duration,
           Validate(minimum, maximum), NEW earlier \in Duration
    PROVE  NextBackoff(earlier, minimum, maximum) \in minimum .. maximum
  BY DurationAssumption
  DEF Duration, Validate, NextBackoff, Doubling, Double, AtMost, AtLeast

(* nextRetryDelay doubles exactly: a backoff within the bounds is followed *)
(* by its double or by the maximum, whichever is less, and by nothing that *)
(* overflow produces.                                                      *)
LEMMA NextBackoffDoubles ==
    ASSUME NEW minimum \in Duration, NEW maximum \in Duration,
           Validate(minimum, maximum), NEW earlier \in minimum .. maximum
    PROVE  NextBackoff(earlier, minimum, maximum)
             = (IF 2 * earlier <= maximum THEN 2 * earlier ELSE maximum)
  BY DurationAssumption
  DEF Duration, Validate, NextBackoff, Doubling, Double, AtMost, AtLeast

(* The jitter of nextRetryDelay takes off nothing, or up to a tenth. *)
LEMMA JitterCutBounds ==
    ASSUME NEW backoff \in Nat, NEW jitter \in Int
    PROVE  /\ JitterCut(backoff, jitter) \in Nat
           /\ 10 * JitterCut(backoff, jitter) <= backoff
<1> DEFINE k == JitterScale - AtMost(AtLeast(jitter, 0), JitterScale)
<1>1. k \in 0 .. 10
  BY DEF AtMost, AtLeast, JitterScale
<1>2. backoff * k \in 0 .. (10 * backoff)
  <2>1. CASE k = 0
    BY <2>1
  <2>2. CASE k \in 1 .. 5
    BY <2>2
  <2>3. CASE k \in 6 .. 10
    BY <2>3
  <2> QED
    BY <1>1, <2>1, <2>2, <2>3
<1>3. JitterCut(backoff, jitter) = (backoff * k) \div 100
  BY DEF JitterCut, JitterScale
<1> HIDE DEF k
<1>4. \A n \in 0 .. (10 * backoff) : n \div 100 \in Nat /\ 10 * (n \div 100) <= backoff
  OBVIOUS
<1> QED
  BY <1>2, <1>3, <1>4

(* The delay nextRetryDelay returns is within the configured bounds, never *)
(* above the backoff and never more than a tenth below it.                 *)
LEMMA NextDelayBounds ==
    ASSUME NEW minimum \in Duration, NEW maximum \in Duration,
           Validate(minimum, maximum), NEW backoff \in minimum .. maximum,
           NEW jitter \in Int
    PROVE  LET waited == NextDelay(backoff, minimum, maximum, jitter)
           IN  /\ waited \in minimum .. maximum
               /\ waited <= backoff
               /\ 10 * waited >= 9 * backoff
<1>1. /\ minimum \in Int /\ maximum \in Int /\ minimum > 0
      /\ backoff \in Nat /\ minimum <= backoff /\ backoff <= maximum
  BY DurationAssumption DEF Duration, Validate
<1>2. /\ JitterCut(backoff, jitter) \in Nat
      /\ 10 * JitterCut(backoff, jitter) <= backoff
  BY <1>1, JitterCutBounds
<1> QED
  BY <1>1, <1>2 DEF NextDelay, AtMost, AtLeast

-----------------------------------------------------------------------------

(* The configuration facts the steps below need of the durations. *)
LEMMA ConfigFacts ==
    /\ MinRetryBackoff \in Int /\ MaxRetryBackoff \in Int
    /\ 0 < MinRetryBackoff /\ MinRetryBackoff <= MaxRetryBackoff
    /\ \A d \in {0} \cup (MinRetryBackoff .. MaxRetryBackoff) : d \in Duration
  BY DurationAssumption, ConfigAssumption DEF Duration, Validate

(* RetryLater: the backoff and the delay of a step that goes to sleep. *)
LEMMA RetryLaterBounds ==
    ASSUME TypeOK, RetryLater
    PROVE  /\ previous' \in MinRetryBackoff .. MaxRetryBackoff
           /\ previous' >= previous
           /\ delay' \in MinRetryBackoff .. MaxRetryBackoff
           /\ delay' <= previous'
           /\ 10 * delay' >= 9 * previous'
<1>1. PICK jitter \in Jitters :
         /\ previous' = NextBackoff(previous, MinRetryBackoff, MaxRetryBackoff)
         /\ delay' = NextDelay(previous', MinRetryBackoff, MaxRetryBackoff, jitter)
  BY DEF RetryLater
<1>2. /\ MinRetryBackoff \in Duration /\ MaxRetryBackoff \in Duration
      /\ Validate(MinRetryBackoff, MaxRetryBackoff)
      /\ jitter \in Int
  BY ConfigAssumption
<1>3. previous \in Duration
  BY ConfigFacts DEF TypeOK
<1>4. previous' \in MinRetryBackoff .. MaxRetryBackoff
  BY <1>1, <1>2, <1>3, NextBackoffBounds
<1>5. previous' >= previous
  <2>1. CASE previous = 0
    BY <1>4, <2>1, ConfigFacts
  <2>2. CASE previous \in MinRetryBackoff .. MaxRetryBackoff
    <3>1. previous' = IF 2 * previous <= MaxRetryBackoff
                      THEN 2 * previous ELSE MaxRetryBackoff
      BY <1>1, <1>2, <2>2, NextBackoffDoubles
    <3> QED
      BY <2>2, <3>1, ConfigFacts
  <2> QED
    BY <2>1, <2>2 DEF TypeOK
<1>6. /\ delay' \in MinRetryBackoff .. MaxRetryBackoff
      /\ delay' <= previous'
      /\ 10 * delay' >= 9 * previous'
  BY <1>1, <1>2, <1>4, NextDelayBounds
<1> QED
  BY <1>4, <1>5, <1>6

-----------------------------------------------------------------------------
(* Type correctness. *)

(* The counters that an established connection leaves behind are typed. *)
LEMMA NoTriesType == NoTries \in [{"listen", "refresh", "register"} -> Nat]
  BY DEF NoTries

(* A call that begins keeps the counters of the history typed. *)
LEMMA BeginType ==
    ASSUME TypeOK, NEW kind \in {"listen", "refresh", "register"}, Begin(kind)
    PROVE  /\ tries' \in [{"listen", "refresh", "register"} -> Nat]
           /\ lateOps' \in Nat
  BY DEF TypeOK, Begin

(* The head of the loop returns or begins to listen. *)
LEMMA LoopTopType ==
    ASSUME TypeOK, NEW j \in JWTs \cup {NoJWT}, LoopTop(j)
    PROVE  /\ pc' \in {"done", "listen"} /\ op' = op
           /\ result' \in Results
           /\ credentials' \in JWTs \cup {NoJWT}
           /\ previous' = previous /\ delay' = delay
           /\ tries' \in [{"listen", "refresh", "register"} -> Nat]
           /\ lateOps' \in Nat
<1>1. CASE j = NoJWT
  BY <1>1 DEF LoopTop, Return, Results, TypeOK, retryVars
<1>2. CASE j # NoJWT
  BY <1>2, BeginType DEF LoopTop, TypeOK, retryVars
<1> QED
  BY <1>1, <1>2

(* A request to the registry begins. *)
LEMMA StartRequestType ==
    ASSUME TypeOK, NEW o \in {"refresh", "register"}, StartRequest(o)
    PROVE  /\ pc' = "request" /\ op' = o /\ result' = result
           /\ previous' = 0 /\ delay' = 0
           /\ tries' \in [{"listen", "refresh", "register"} -> Nat]
           /\ lateOps' \in Nat
  BY BeginType DEF StartRequest

(* The first registration request starts from typed variables. *)
LEMMA InitTypeOK == Init => TypeOK
<1> SUFFICES ASSUME Init PROVE TypeOK
  OBVIOUS
<1>1. tries \in [{"listen", "refresh", "register"} -> Nat]
  BY NoTriesType DEF Init
<1>2. failure \in Answers \cup {NoFailure}
  BY DEF Init
<1> QED
  BY <1>1, <1>2 DEF Init, TypeOK, Results

(* Every step keeps the types; the backoff needs the bounds above. *)
LEMMA NextTypeOK == TypeOK /\ [Next]_vars => TypeOK'
<1> SUFFICES ASSUME TypeOK, [Next]_vars PROVE TypeOK'
  OBVIOUS
<1>1. ASSUME NEW j \in JWTs \cup {NoJWT}, Registered(j) PROVE TypeOK'
  BY <1>1 DEF TypeOK, Registered, retryVars, forwardVars
<1>2. ASSUME NEW j \in JWTs \cup {NoJWT}, Reregistered(j) PROVE TypeOK'
  <2>1. LoopTop(j)
    BY <1>2 DEF Reregistered
  <2> QED
    BY <1>2, <2>1, LoopTopType DEF TypeOK, Reregistered, forwardVars
<1>3. ASSUME NEW j \in JWTs, Refreshed(j) PROVE TypeOK'
  <2>1. LoopTop(j)
    BY <1>3 DEF Refreshed, StoreJWT
  <2> QED
    BY <1>3, <2>1, LoopTopType DEF TypeOK, Refreshed, StoreJWT, forwardVars
<1>4. ASSUME NEW answer \in Answers, RequestFails(answer) PROVE TypeOK'
  <2>1. CASE RetryLater
    BY <1>4, <2>1, RetryLaterBounds DEF TypeOK, RequestFails, RetryLater, loopVars, forwardVars
  <2>2. CASE StartRequest("register")
    BY <1>4, <2>2, StartRequestType DEF TypeOK, RequestFails, loopVars, forwardVars
  <2>3. ASSUME NEW r \in Results, Return(r) PROVE TypeOK'
    BY <1>4, <2>3 DEF TypeOK, RequestFails, Return, loopVars, retryVars, forwardVars
  <2> QED
    BY <1>4, <2>1, <2>2, <2>3 DEF RequestFails, GiveUp, Results
<1>5. CASE SleepExpires \/ SleepCanceled
  BY <1>5 DEF TypeOK, SleepExpires, SleepCanceled, Return, Results, loopVars, retryVars, forwardVars
<1>6. CASE Launch
  <2>1. registration \in JWTs \cup {NoJWT} /\ LoopTop(registration)
    BY <1>6 DEF Launch, TypeOK
  <2> QED
    BY <1>6, <2>1, LoopTopType DEF TypeOK, Launch, forwardVars
<1>7. CASE LaunchFails
  BY <1>7 DEF TypeOK, LaunchFails, Return, Results, loopVars, retryVars, forwardVars
<1>8. CASE ListenOk
  <2>1. tries' \in [{"listen", "refresh", "register"} -> Nat]
    BY <1>8, NoTriesType DEF ListenOk
  <2> QED
    BY <1>8, <2>1 DEF TypeOK, ListenOk, MakeWait, retryVars
<1>9. ASSUME NEW err, AfterAttempt(err),
             UNCHANGED <<ctxErr, loopVars, failure, forwardVars, newest>>
      PROVE  TypeOK'
  <2>1. CASE StartRequest("refresh")
    BY <1>9, <2>1, StartRequestType DEF TypeOK, loopVars, forwardVars
  <2>2. ASSUME NEW r \in Results, Return(r) PROVE TypeOK'
    BY <1>9, <2>2 DEF TypeOK, Return, loopVars, retryVars, forwardVars
  <2> QED
    BY <1>9, <2>1, <2>2 DEF AfterAttempt, Results
<1>10. ASSUME NEW err \in ListenErrs, ListenFails(err) PROVE TypeOK'
  BY <1>9, <1>10 DEF ListenFails
<1>11. CASE WaitReturns
  BY <1>9, <1>11 DEF WaitReturns
<1>12. CASE WaitCanceled
  BY <1>12 DEF TypeOK, WaitCanceled, CloseForwarder, Return, Results, loopVars, retryVars
<1>13. ASSUME NEW err \in WaitErrs, ForwarderStops(err) PROVE TypeOK'
  BY <1>13 DEF TypeOK, ForwarderStops, control, loopVars, retryVars, history
<1>14. CASE Cancel
  BY <1>14 DEF TypeOK, Cancel, loopVars, retryVars, forwardVars, history
<1>15. CASE UNCHANGED vars
  BY <1>15 DEF TypeOK, vars, control, loopVars, retryVars, forwardVars, history
<1> QED
  BY <1>1, <1>2, <1>3, <1>4, <1>5, <1>6, <1>7, <1>8, <1>10, <1>11, <1>12,
     <1>13, <1>14, <1>15
  DEF Next, Step, RequestReturns, ListenReturns, ForwarderReturns, Finished

(* SelfHeal is type correct. *)
THEOREM TypeCorrect == Spec => []TypeOK
  BY InitTypeOK, NextTypeOK, PTL DEF Spec

-----------------------------------------------------------------------------
(***************************************************************************)
(* The inductive invariant.  RecoveryBudget alone is not inductive: that   *)
(* the counters stay within the budget depends on how far the current      *)
(* recovery has got, which rotated, reRegistered and the control point     *)
(* tell.  The other parts say the same for the credentials, the forwarder, *)
(* the delay and the calls begun after a cancellation.                     *)
(***************************************************************************)
Used(listens, refreshes, registrations) ==
    /\ tries.listen = listens
    /\ tries.refresh = refreshes
    /\ tries.register = registrations

(* Before the first connection the first attempt counts as well. *)
First == IF firstConnection THEN 1 ELSE 0

Requesting == pc \in {"request", "sleep"}

BudgetInv ==
    /\ (Requesting /\ op = "initial") \/ pc = "launch"
         => ~rotated /\ ~reRegistered /\ firstConnection /\ Used(0, 0, 0)
    /\ pc = "listen" /\ ~rotated /\ ~reRegistered => firstConnection /\ Used(1, 0, 0)
    /\ pc = "listen" /\ ~rotated /\ reRegistered => Used(First + 1, 1, 1)
    /\ pc = "listen" /\ rotated => ~reRegistered /\ tries.listen <= First + 2
    /\ Requesting /\ op = "refresh"
         => /\ ~rotated
            /\ reRegistered => Used(First + 1, 2, 1)
            /\ ~reRegistered => Used(First, 1, 0)
    /\ Requesting /\ op = "register"
         => ~rotated /\ ~reRegistered /\ Used(First, 1, 1)
    /\ pc = "wait" => ~rotated /\ ~reRegistered /\ ~firstConnection /\ Used(0, 0, 0)
    /\ RecoveryBudget

CurrentInv ==
    /\ CredentialsCurrent
    /\ pc = "launch" => registration = newest

ForwarderInv ==
    /\ OneForwarder
    /\ pc = "wait" => forwarder = (IF wait = "empty" THEN "running" ELSE "stopped")

LateInv ==
    /\ lateOps > 0 => ctxErr
    /\ pc \in {"sleep", "launch", "wait"} => lateOps = 0
    /\ CancelQuiesces

Inv == TypeOK /\ BudgetInv /\ CurrentInv /\ ForwarderInv /\ BackoffRespected /\ LateInv

(* The counters after a call of one kind has begun. *)
LEMMA BeginCounts ==
    ASSUME TypeOK
    PROVE  /\ Begin("listen") => /\ tries'.listen = tries.listen + 1
                                 /\ tries'.refresh = tries.refresh
                                 /\ tries'.register = tries.register
           /\ Begin("refresh") => /\ tries'.listen = tries.listen
                                  /\ tries'.refresh = tries.refresh + 1
                                  /\ tries'.register = tries.register
           /\ Begin("register") => /\ tries'.listen = tries.listen
                                   /\ tries'.refresh = tries.refresh
                                   /\ tries'.register = tries.register + 1
           /\ tries.listen \in Nat /\ tries.refresh \in Nat /\ tries.register \in Nat
  BY DEF TypeOK, Begin

(* A return leaves the counters within the budget. *)
LEMMA ReturnBudget ==
    ASSUME TypeOK, BudgetInv, NEW r, Return(r), firstConnection' = firstConnection
    PROVE  BudgetInv'
  BY DEF BudgetInv, Return, Requesting, RecoveryBudget

(* Every step keeps the recovery within its budget. *)
LEMMA NextBudget == TypeOK /\ BudgetInv /\ [Next]_vars => BudgetInv'
<1> SUFFICES ASSUME TypeOK, BudgetInv, [Next]_vars PROVE BudgetInv'
  OBVIOUS
<1> USE DEF BudgetInv, Requesting, Used, First, RecoveryBudget
<1>1. ASSUME NEW j \in JWTs \cup {NoJWT}, Registered(j) PROVE BudgetInv'
  BY <1>1 DEF Registered
<1>2. ASSUME NEW j \in JWTs \cup {NoJWT}, Reregistered(j) PROVE BudgetInv'
  <2>1. CASE j = NoJWT
    BY <1>2, <2>1 DEF Reregistered, LoopTop, Return
  <2>2. CASE j # NoJWT
    BY <1>2, <2>2, BeginCounts DEF Reregistered, LoopTop
  <2> QED
    BY <2>1, <2>2
<1>3. ASSUME NEW j \in JWTs, Refreshed(j) PROVE BudgetInv'
  <2>1. j # NoJWT
    BY CredentialAssumption
  <2> QED
    BY <1>3, <2>1, BeginCounts DEF Refreshed, StoreJWT, LoopTop
<1>4. ASSUME NEW answer \in Answers, RequestFails(answer) PROVE BudgetInv'
  <2>1. CASE RetryLater
    BY <1>4, <2>1 DEF RequestFails, RetryLater, loopVars
  <2>2. CASE op = "refresh" /\ RegisterAllowed /\ StartRequest("register")
    BY <1>4, <2>2, BeginCounts DEF RequestFails, RegisterAllowed, StartRequest, loopVars
  <2>3. ASSUME NEW r, Return(r) PROVE BudgetInv'
    BY <1>4, <2>3, ReturnBudget DEF RequestFails, loopVars
  <2> QED
    BY <1>4, <2>1, <2>2, <2>3 DEF RequestFails, GiveUp
<1>5. CASE SleepExpires
  BY <1>5 DEF SleepExpires, loopVars
<1>6. CASE SleepCanceled
  BY <1>6, ReturnBudget DEF SleepCanceled, loopVars
<1>7. CASE Launch
  <2>1. CASE registration = NoJWT
    BY <1>7, <2>1 DEF Launch, LoopTop, Return
  <2>2. CASE registration # NoJWT
    BY <1>7, <2>2, BeginCounts DEF Launch, LoopTop
  <2> QED
    BY <2>1, <2>2
<1>8. CASE LaunchFails
  BY <1>8, ReturnBudget DEF LaunchFails, loopVars
<1>9. CASE ListenOk
  BY <1>9 DEF ListenOk, NoTries
<1>10. ASSUME NEW err, pc \in {"listen", "wait"}, AfterAttempt(err), UNCHANGED loopVars
       PROVE  BudgetInv'
  <2>1. CASE RefreshAllowed /\ StartRequest("refresh")
    BY <1>10, <2>1, BeginCounts DEF RefreshAllowed, StartRequest, loopVars
  <2>2. ASSUME NEW r, Return(r) PROVE BudgetInv'
    BY <1>10, <2>2, ReturnBudget DEF loopVars
  <2> QED
    BY <1>10, <2>1, <2>2 DEF AfterAttempt
<1>11. ASSUME NEW err \in ListenErrs, ListenFails(err) PROVE BudgetInv'
  BY <1>10, <1>11 DEF ListenFails
<1>12. CASE WaitReturns
  BY <1>10, <1>12 DEF WaitReturns
<1>13. CASE WaitCanceled
  BY <1>13, ReturnBudget DEF WaitCanceled, loopVars
<1>14. ASSUME NEW err \in WaitErrs, ForwarderStops(err) PROVE BudgetInv'
  BY <1>14 DEF ForwarderStops, control, loopVars, history
<1>15. CASE Cancel
  BY <1>15 DEF Cancel, loopVars, history
<1>16. CASE UNCHANGED vars
  BY <1>16 DEF vars, control, loopVars, history
<1> QED
  BY <1>1, <1>2, <1>3, <1>4, <1>5, <1>6, <1>7, <1>8, <1>9, <1>11, <1>12,
     <1>13, <1>14, <1>15, <1>16
  DEF Next, Step, RequestReturns, ListenReturns, ForwarderReturns, Finished

(* Every step keeps the copy of the credentials current. *)
LEMMA NextCurrent == TypeOK /\ CurrentInv /\ [Next]_vars => CurrentInv'
<1> SUFFICES ASSUME TypeOK, CurrentInv, [Next]_vars PROVE CurrentInv'
  OBVIOUS
<1> USE DEF CurrentInv, CredentialsCurrent
<1>1. ASSUME NEW j \in JWTs \cup {NoJWT}, Registered(j) PROVE CurrentInv'
  BY <1>1 DEF Registered
<1>2. ASSUME NEW j \in JWTs \cup {NoJWT}, Reregistered(j) PROVE CurrentInv'
  BY <1>2 DEF Reregistered, LoopTop, Return
<1>3. ASSUME NEW j \in JWTs, Refreshed(j) PROVE CurrentInv'
  BY <1>3 DEF Refreshed, StoreJWT, LoopTop, Return
<1>4. ASSUME NEW answer \in Answers, RequestFails(answer) PROVE CurrentInv'
  BY <1>4 DEF RequestFails, RetryLater, GiveUp, StartRequest, Return, loopVars
<1>5. CASE SleepExpires \/ SleepCanceled
  BY <1>5 DEF SleepExpires, SleepCanceled, Return, loopVars
<1>6. CASE Launch
  BY <1>6 DEF Launch, LoopTop, Return
<1>7. CASE LaunchFails
  BY <1>7 DEF LaunchFails, Return
<1>8. CASE ListenOk
  BY <1>8 DEF ListenOk
<1>9. ASSUME NEW err \in ListenErrs, ListenFails(err) PROVE CurrentInv'
  BY <1>9 DEF ListenFails, AfterAttempt, StartRequest, Return, loopVars
<1>10. CASE WaitReturns
  BY <1>10 DEF WaitReturns, AfterAttempt, StartRequest, Return, loopVars
<1>11. CASE WaitCanceled
  BY <1>11 DEF WaitCanceled, Return
<1>12. ASSUME NEW err \in WaitErrs, ForwarderStops(err) PROVE CurrentInv'
  BY <1>12 DEF ForwarderStops, control, loopVars, history
<1>13. CASE Cancel
  BY <1>13 DEF Cancel, loopVars, history
<1>14. CASE UNCHANGED vars
  BY <1>14 DEF vars, control, loopVars, history
<1> QED
  BY <1>1, <1>2, <1>3, <1>4, <1>5, <1>6, <1>7, <1>8, <1>9, <1>10, <1>11, <1>12,
     <1>13, <1>14
  DEF Next, Step, RequestReturns, ListenReturns, ForwarderReturns, Finished

(* Every step leaves at most one forwarder. *)
LEMMA NextForwarder == TypeOK /\ ForwarderInv /\ [Next]_vars => ForwarderInv'
<1> SUFFICES ASSUME TypeOK, ForwarderInv, [Next]_vars PROVE ForwarderInv'
  OBVIOUS
<1> USE DEF ForwarderInv, OneForwarder
<1>1. ASSUME NEW j \in JWTs \cup {NoJWT}, Registered(j) PROVE ForwarderInv'
  BY <1>1 DEF Registered, forwardVars
<1>2. ASSUME NEW j \in JWTs \cup {NoJWT}, Reregistered(j) PROVE ForwarderInv'
  BY <1>2 DEF Reregistered, LoopTop, Return, forwardVars
<1>3. ASSUME NEW j \in JWTs, Refreshed(j) PROVE ForwarderInv'
  BY <1>3 DEF Refreshed, LoopTop, Return, forwardVars
<1>4. ASSUME NEW answer \in Answers, RequestFails(answer) PROVE ForwarderInv'
  BY <1>4 DEF RequestFails, RetryLater, GiveUp, StartRequest, Return, forwardVars
<1>5. CASE SleepExpires \/ SleepCanceled
  BY <1>5 DEF SleepExpires, SleepCanceled, Return, forwardVars
<1>6. CASE Launch
  BY <1>6 DEF Launch, LoopTop, Return, forwardVars
<1>7. CASE LaunchFails
  BY <1>7 DEF LaunchFails, Return
<1>8. CASE ListenOk
  BY <1>8 DEF ListenOk, MakeWait
<1>9. ASSUME NEW err \in ListenErrs, ListenFails(err) PROVE ForwarderInv'
  BY <1>9 DEF ListenFails, AfterAttempt, StartRequest, Return, forwardVars
<1>10. CASE WaitReturns
  BY <1>10 DEF WaitReturns, AfterAttempt, StartRequest, Return, forwardVars
<1>11. CASE WaitCanceled
  BY <1>11 DEF WaitCanceled, Return
<1>12. ASSUME NEW err \in WaitErrs, ForwarderStops(err) PROVE ForwarderInv'
  BY <1>12 DEF ForwarderStops, WaitErrs, control
<1>13. CASE Cancel
  BY <1>13 DEF Cancel, forwardVars
<1>14. CASE UNCHANGED vars
  BY <1>14 DEF vars, control, forwardVars
<1> QED
  BY <1>1, <1>2, <1>3, <1>4, <1>5, <1>6, <1>7, <1>8, <1>9, <1>10, <1>11, <1>12,
     <1>13, <1>14
  DEF Next, Step, RequestReturns, ListenReturns, ForwarderReturns, Finished

(* Every step that goes to sleep has a delay within the bounds. *)
LEMMA NextDelayed == TypeOK /\ BackoffRespected /\ [Next]_vars => BackoffRespected'
<1> SUFFICES ASSUME TypeOK, BackoffRespected, [Next]_vars, pc' = "sleep"
             PROVE  BackoffRespected'
  BY DEF BackoffRespected
<1>1. ASSUME NEW answer \in Answers, RequestFails(answer) PROVE BackoffRespected'
  <2>1. RetryLater
    BY <1>1 DEF RequestFails, GiveUp, StartRequest, Return
  <2> QED
    BY <2>1, RetryLaterBounds DEF BackoffRespected
<1>2. CASE /\ ~\E answer \in Answers : RequestFails(answer)
           /\ Next
  <2>1. UNCHANGED <<pc, previous, delay>>
    BY <1>2 DEF Next, Step, RequestReturns, ListenReturns, ForwarderReturns, Finished,
         Registered, Reregistered, Refreshed, LoopTop, Launch, LaunchFails,
         SleepExpires, SleepCanceled, ListenOk, ListenFails, WaitReturns,
         WaitCanceled, AfterAttempt, StartRequest, Return, ForwarderStops, Cancel,
         control, retryVars, vars
  <2> QED
    BY <2>1 DEF BackoffRespected
<1>3. CASE UNCHANGED vars
  BY <1>3 DEF BackoffRespected, vars, control, retryVars
<1> QED
  BY <1>1, <1>2, <1>3

(* Every step begins at most one call on a context that is done. *)
LEMMA NextLate == TypeOK /\ LateInv /\ [Next]_vars => LateInv'
<1> SUFFICES ASSUME TypeOK, LateInv, [Next]_vars PROVE LateInv'
  OBVIOUS
<1> USE DEF LateInv, CancelQuiesces
<1>0. lateOps \in Nat /\ ctxErr \in BOOLEAN
  BY DEF TypeOK
<1>1. ASSUME NEW j \in JWTs \cup {NoJWT}, Registered(j) PROVE LateInv'
  BY <1>0, <1>1 DEF Registered
<1>2. ASSUME NEW j \in JWTs \cup {NoJWT}, Reregistered(j) PROVE LateInv'
  BY <1>0, <1>2 DEF Reregistered, LoopTop, Return, Begin
<1>3. ASSUME NEW j \in JWTs, Refreshed(j) PROVE LateInv'
  BY <1>0, <1>3 DEF Refreshed, LoopTop, Return, Begin
<1>4. ASSUME NEW answer \in Answers, RequestFails(answer) PROVE LateInv'
  BY <1>0, <1>4 DEF RequestFails, RequestCanceled, RetryLater, GiveUp, StartRequest, Return, Begin
<1>5. CASE SleepExpires \/ SleepCanceled
  BY <1>0, <1>5 DEF SleepExpires, SleepCanceled, Return
<1>6. CASE Launch
  BY <1>0, <1>6 DEF Launch, LoopTop, Return, Begin
<1>7. CASE LaunchFails
  BY <1>0, <1>7 DEF LaunchFails, Return
<1>8. CASE ListenOk
  BY <1>0, <1>8 DEF ListenOk
<1>9. ASSUME NEW err \in ListenErrs, ListenFails(err) PROVE LateInv'
  BY <1>0, <1>9 DEF ListenFails, AfterAttempt, AttemptCanceled, StartRequest, Return, Begin
<1>10. CASE WaitReturns
  BY <1>0, <1>10 DEF WaitReturns, AfterAttempt, AttemptCanceled, StartRequest, Return, Begin
<1>11. CASE WaitCanceled
  BY <1>0, <1>11 DEF WaitCanceled, Return
<1>12. ASSUME NEW err \in WaitErrs, ForwarderStops(err) PROVE LateInv'
  BY <1>0, <1>12 DEF ForwarderStops, control, history
<1>13. CASE Cancel
  BY <1>0, <1>13 DEF Cancel, history
<1>14. CASE UNCHANGED vars
  BY <1>0, <1>14 DEF vars, control, history
<1> QED
  BY <1>1, <1>2, <1>3, <1>4, <1>5, <1>6, <1>7, <1>8, <1>9, <1>10, <1>11, <1>12,
     <1>13, <1>14
  DEF Next, Step, RequestReturns, ListenReturns, ForwarderReturns, Finished

(* Inv holds initially. *)
LEMMA InitInv == Init => Inv
<1> SUFFICES ASSUME Init PROVE Inv
  OBVIOUS
<1>1. BudgetInv
  BY DEF Init, NoTries, BudgetInv, Requesting, Used, RecoveryBudget
<1>2. CurrentInv /\ ForwarderInv /\ BackoffRespected /\ LateInv
  BY DEF Init, CurrentInv, CredentialsCurrent, ForwarderInv, OneForwarder,
     BackoffRespected, LateInv, CancelQuiesces
<1> QED
  BY InitTypeOK, <1>1, <1>2 DEF Inv

(* Inv is inductive. *)
LEMMA NextInv == Inv /\ [Next]_vars => Inv'
  BY NextTypeOK, NextBudget, NextCurrent, NextForwarder, NextDelayed, NextLate DEF Inv

(* Inv is an invariant of SelfHeal. *)
THEOREM Invariance == Spec => []Inv
  BY InitInv, NextInv, PTL DEF Spec

(* Recovery cannot loop: between two connections Run listens, refreshes    *)
(* and registers only as often as the budget says, whatever Piko and the   *)
(* Route Registry answer.                                                  *)
THEOREM RecoveryIsBounded == Spec => []RecoveryBudget
<1>1. Inv => RecoveryBudget
  BY DEF Inv, BudgetInv
<1> QED
  BY Invariance, <1>1, PTL

(* Run never listens with nor refreshes a stale JWT. *)
THEOREM CredentialsAreCurrent == Spec => []CredentialsCurrent
<1>1. Inv => CredentialsCurrent
  BY DEF Inv, CurrentInv
<1> QED
  BY Invariance, <1>1, PTL

(* No forwarder runs while credentials are replaced or a new one is opened. *)
THEOREM ForwarderIsAlone == Spec => []OneForwarder
<1>1. Inv => OneForwarder
  BY DEF Inv, ForwarderInv
<1> QED
  BY Invariance, <1>1, PTL

(* Every retry waits for a delay within the configured bounds. *)
THEOREM BackoffIsRespected == Spec => []BackoffRespected
<1>1. Inv => BackoffRespected
  BY DEF Inv
<1> QED
  BY Invariance, <1>1, PTL

(* A canceled tunnel begins at most one more remote call. *)
THEOREM CancelIsQuiet == Spec => []CancelQuiesces
<1>1. Inv => CancelQuiesces
  BY DEF Inv, LateInv
<1> QED
  BY Invariance, <1>1, PTL

-----------------------------------------------------------------------------
(* Action properties. *)

(* The backoff never falls while one operation is retried. *)
THEOREM BackoffIsMonotone == Spec => BackoffMonotone
<1>1. TypeOK /\ [Next]_vars => [pc = "request" /\ pc' = "sleep" => previous' >= previous]_vars
  <2> SUFFICES ASSUME TypeOK, Next, pc = "request", pc' = "sleep"
               PROVE  previous' >= previous
    OBVIOUS
  <2>1. PICK answer \in Answers : RequestFails(answer)
    BY DEF Next, Step, RequestReturns, ListenReturns, ForwarderReturns, Finished,
       Registered, Reregistered, Refreshed, LoopTop, Return, Launch, LaunchFails,
       SleepExpires, SleepCanceled, ListenOk, ListenFails, WaitReturns,
       WaitCanceled, ForwarderStops, Cancel, control, vars
  <2>2. RetryLater
    BY <2>1 DEF RequestFails, GiveUp, StartRequest, Return
  <2> QED
    BY <2>2, RetryLaterBounds
<1> QED
  BY TypeCorrect, <1>1, PTL DEF Spec, BackoffMonotone

(* A tunnel that ends after the cancellation reports the cancellation. *)
THEOREM CancelIsReported == Spec => CancelReported
<1>1. [Next]_vars => [ctxErr /\ pc # "done" /\ pc' = "done"
                        => result' \in {"canceled", "credentials", "launch"}]_vars
  <2> SUFFICES ASSUME Next, ctxErr, pc # "done", pc' = "done"
               PROVE  result' \in {"canceled", "credentials", "launch"}
    OBVIOUS
  <2>1. ASSUME NEW answer \in Answers, RequestFails(answer)
        PROVE  result' = "canceled"
    BY <2>1 DEF RequestFails, RequestCanceled, Return
  <2>2. ASSUME NEW err, AfterAttempt(err) PROVE result' = "canceled"
    BY <2>2 DEF AfterAttempt, AttemptCanceled, Return
  <2>3. ASSUME NEW j, LoopTop(j) PROVE result' = "credentials"
    BY <2>3 DEF LoopTop, Return
  <2> QED
    BY <2>1, <2>2, <2>3
    DEF Next, Step, RequestReturns, ListenReturns, ForwarderReturns, Finished,
        Registered, Reregistered, Refreshed, Launch, LaunchFails, SleepExpires,
        SleepCanceled, ListenOk, ListenFails, WaitReturns, WaitCanceled, Return,
        ForwarderStops, Cancel, control, vars
<1> QED
  BY <1>1, PTL DEF Spec, CancelReported

-----------------------------------------------------------------------------
(***************************************************************************)
(* SelfHeal implements CredentialRecovery.                                 *)
(***************************************************************************)

(* A return of RegisterRoute or Run is the end of the promise. *)
LEMMA ReturnEnds ==
    ASSUME TypeOK, NEW r, Return(r), pc # "done", rotated' \in BOOLEAN, reRegistered' \in BOOLEAN
    PROVE  Promise!End
  BY DEF Return, Promise!End, Promise!Origins, Phase, Origin

(* Every step of the tunnel is a step of the promise, or leaves it alone. *)
LEMMA StepKeepsPromise ==
    ASSUME Inv, Inv', [Next]_vars
    PROVE  [Promise!Next]_<<Phase, Origin>>
<1> DEFINE Goal == [Promise!Next]_<<Phase, Origin>>
<1>0. /\ TypeOK /\ rotated \in BOOLEAN /\ reRegistered \in BOOLEAN
      /\ rotated' \in BOOLEAN /\ reRegistered' \in BOOLEAN
  BY DEF Inv, TypeOK
<1>1. ASSUME NEW r, Return(r), pc # "done" PROVE Goal
  BY <1>0, <1>1, ReturnEnds DEF Promise!Next
<1>2. ASSUME NEW j, Registered(j) PROVE Goal
  BY <1>2 DEF Registered, Phase, Origin
<1>3. ASSUME NEW j, Reregistered(j) PROVE Goal
  <2>1. CASE j = NoJWT
    BY <1>1, <1>3, <2>1 DEF Reregistered, LoopTop
  <2>2. CASE j # NoJWT
    <3>1. ~rotated /\ ~reRegistered
      BY <1>3 DEF Reregistered, Inv, BudgetInv, Requesting
    <3>2. Promise!Reregister
      BY <1>3, <2>2, <3>1 DEF Reregistered, LoopTop, Promise!Reregister, Phase, Origin
    <3> QED
      BY <3>2 DEF Promise!Next
  <2> QED
    BY <2>1, <2>2
<1>4. ASSUME NEW j \in JWTs, Refreshed(j) PROVE Goal
  <2>1. j # NoJWT
    BY CredentialAssumption
  <2>2. Promise!Refresh
    BY <1>4, <2>1 DEF Refreshed, StoreJWT, LoopTop, Promise!Refresh, Phase, Origin
  <2> QED
    BY <2>2 DEF Promise!Next
<1>5. ASSUME NEW answer, RequestFails(answer) PROVE Goal
  <2>1. CASE RetryLater
    BY <1>5, <2>1 DEF RequestFails, RetryLater, loopVars, Phase, Origin
  <2>2. CASE op = "refresh" /\ StartRequest("register")
    BY <1>5, <2>2 DEF RequestFails, StartRequest, loopVars, Phase, Origin
  <2> QED
    BY <1>1, <1>5, <2>1, <2>2 DEF RequestFails, GiveUp
<1>6. CASE SleepExpires
  BY <1>6 DEF SleepExpires, loopVars, Phase, Origin
<1>7. CASE SleepCanceled \/ LaunchFails \/ WaitCanceled
  BY <1>1, <1>7 DEF SleepCanceled, LaunchFails, WaitCanceled
<1>8. CASE Launch
  <2>1. CASE registration = NoJWT
    BY <1>1, <1>8, <2>1 DEF Launch, LoopTop
  <2>2. CASE registration # NoJWT
    <3>1. Promise!Start
      BY <1>8, <2>2 DEF Launch, LoopTop, Promise!Start, Phase, Origin
    <3> QED
      BY <3>1 DEF Promise!Next
  <2> QED
    BY <2>1, <2>2
<1>9. CASE ListenOk
  <2>1. Promise!Connect
    BY <1>9 DEF ListenOk, Promise!Connect, Phase, Origin
  <2> QED
    BY <2>1 DEF Promise!Next
<1>10. ASSUME NEW err, pc \in {"listen", "wait"}, AfterAttempt(err), UNCHANGED loopVars
       PROVE  Goal
  <2>1. CASE RefreshAllowed /\ StartRequest("refresh")
    <3>1. Promise!Reject
      BY <1>10, <2>1 DEF RefreshAllowed, StartRequest, Promise!Reject, loopVars, Phase, Origin
    <3> QED
      BY <3>1 DEF Promise!Next
  <2> QED
    BY <1>1, <1>10, <2>1 DEF AfterAttempt
<1>11. CASE WaitReturns \/ \E err \in ListenErrs : ListenFails(err)
  BY <1>10, <1>11 DEF WaitReturns, ListenFails
<1>12. CASE ForwarderReturns \/ Cancel \/ UNCHANGED vars
  BY <1>12 DEF ForwarderReturns, ForwarderStops, Cancel, vars, control, loopVars, Phase, Origin
<1> QED
  BY <1>2, <1>3, <1>4, <1>5, <1>6, <1>7, <1>8, <1>9, <1>11, <1>12
  DEF Next, Step, RequestReturns, ListenReturns, Finished

(* The self-healing tunnel keeps the promise about credentials: rejected   *)
(* credentials are replaced only forward, and only a connection restores   *)
(* the allowance.                                                          *)
THEOREM ImplementsRecovery == Spec => PromiseKept
<1>1. Init => Promise!Init
  BY DEF Init, Promise!Init, Phase, Origin
<1> QED
  BY Invariance, StepKeepsPromise, <1>1, PTL DEF Spec, PromiseKept, Promise!Spec
=============================================================================
