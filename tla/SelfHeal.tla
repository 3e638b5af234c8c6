------------------------------ MODULE SelfHeal ------------------------------
(***************************************************************************)
(* The self-healing tunnel of internal/selfheal/recovery.go, as the        *)
(* goroutine of "wh open" runs it: RegisterRoute, then Run, which keeps a  *)
(* Piko forwarder connected and, when Piko rejects the JWT, refreshes it   *)
(* or registers the route again through the Route Registry.                *)
(*                                                                         *)
(* One call of the code that blocks (an HTTP request, a sleep, listen, the *)
(* wait for the forwarder) is one control point; the action that leaves it *)
(* performs everything the code does up to the next blocking call.         *)
(* Cancellation of the context may come between any two steps, and the     *)
(* forwarder runs, and stops, in a goroutine of its own.  What the Route   *)
(* Registry and Piko answer is chosen freely: a registry may hand out any  *)
(* JWT, also one it handed out before.                                     *)
(***************************************************************************)
EXTENDS Integers, Backoff

CONSTANTS
    JWTs,              \* the JWTs a registration or a refresh can return
    NoJWT,             \* a registration without usable tunnel credentials
    MinRetryBackoff,   \* Config.MinRetryBackoff
    MaxRetryBackoff,   \* Config.MaxRetryBackoff
    Jitters,           \* the values the jitter function can return
    StatusCodes        \* the HTTP statuses a registry can fail with

ASSUME CredentialAssumption == NoJWT \notin JWTs

ASSUME ConfigAssumption ==
    /\ MinRetryBackoff \in Duration /\ MaxRetryBackoff \in Duration
    /\ Validate(MinRetryBackoff, MaxRetryBackoff)
    /\ Jitters \subseteq Int /\ StatusCodes \subseteq Nat

VARIABLES
    pc,             \* the blocking call the goroutine is in
    op,             \* the Route Registry operation being retried
    ctxErr,         \* ctx.Err() != nil
    registration,   \* registration.Tunnel.JWT, or NoJWT
    credentials,    \* credentials.JWT, the copy listen and refresh use
    rotated,        \* the credentials are a refreshed JWT
    reRegistered,   \* the credentials are those of a new registration
    firstConnection,
    previous,       \* retryRouteRegistry: the backoff before this one
    delay,          \* retryRouteRegistry: the delay slept for
    failure,        \* retryRouteRegistry: the error of the latest failed request
    forwarder,      \* the Piko forwarder of the latest connection
    wait,           \* waitForForwarder's channel: what Wait() returned
    result,         \* how RegisterRoute or Run returned
    newest,         \* history: the JWT received last from the registry
    tries,          \* history: calls begun since the last connection
    lateOps         \* history: remote calls begun with a done context

control    == <<pc, op, ctxErr, result>>
loopVars   == <<registration, credentials, rotated, reRegistered, firstConnection>>
retryVars  == <<previous, delay>>   \* failure is set by RequestFails alone
forwardVars == <<forwarder, wait>>
history    == <<newest, tries, lateOps>>
vars == <<control, loopVars, retryVars, failure, forwardVars, history>>

(* A failed Route Registry request: an HTTP status, a body cut short, an   *)
(* error of http.Client.Do (always a net.Error), or any other error.       *)
Answers    == [kind : {"http"}, code : StatusCodes]
              \cup [kind : {"eof", "net", "other"}, code : {0}]
ListenErrs == {"401", "other"}          \* a failed listen: does it say "401:"
WaitErrs   == {"nil", "401", "other"}   \* what Forwarder.Wait returns
Results == {"none", "canceled", "credentials", "connect", "connectRefreshed",
            "register", "refresh", "refreshAfterRegister", "launch"}

NoFailure == [kind |-> "none", code |-> 0]

NoTries == [listen |-> 0, refresh |-> 0, register |-> 0]

Init ==
    /\ pc = "request" /\ op = "initial" /\ result = "none"
    /\ ctxErr = FALSE
    /\ registration = NoJWT /\ credentials = NoJWT /\ newest = NoJWT
    /\ rotated = FALSE /\ reRegistered = FALSE /\ firstConnection = TRUE
    /\ previous = 0 /\ delay = 0 /\ failure = NoFailure
    /\ forwarder = "none" /\ wait = "empty"
    /\ tries = NoTries /\ lateOps = 0

-----------------------------------------------------------------------------
(* Steps shared by the actions. *)

Return(r) ==
    /\ pc' = "done" /\ result' = r
    /\ UNCHANGED <<op, retryVars, tries, lateOps>>

(* A remote call begins; count the ones begun on a context already done. *)
Begin(kind) ==
    /\ tries' = [tries EXCEPT ![kind] = @ + 1]
    /\ lateOps' = IF ctxErr THEN lateOps + 1 ELSE lateOps

(* retryRouteRegistry is entered: no backoff yet, the first request goes out. *)
StartRequest(o) ==
    /\ op' = o /\ pc' = "request"
    /\ previous' = 0 /\ delay' = 0
    /\ Begin(o)
    /\ UNCHANGED result

(* The head of run's loop: credentialsFromRegistration, then listen.  The  *)
(* credentials are a copy of the registration's.                           *)
LoopTop(j) ==
    \/ /\ j = NoJWT
       /\ Return("credentials")
       /\ UNCHANGED credentials
    \/ /\ j # NoJWT
       /\ credentials' = j
       /\ pc' = "listen"
       /\ Begin("listen")
       /\ UNCHANGED <<op, result, retryVars>>

(* Mutant: a failed attempt is judged without looking at the context. *)
AttemptCanceledMutant == FALSE

(* run: the context is done after an attempt. *)
AttemptCanceled == ctxErr

(* Mutant: refreshed credentials that are rejected are refreshed again. *)
RefreshAllowedMutant == TRUE

(* run: rejected credentials are refreshed unless they already were. *)
RefreshAllowed == ~rotated

(* run, after listen or the forwarder failed with err. *)
AfterAttempt(err) ==
    \/ /\ AttemptCanceled
       /\ Return("canceled")
    \/ /\ ~AttemptCanceled /\ err # "401"
       /\ Return("connect")
    \/ /\ ~AttemptCanceled /\ err = "401" /\ ~RefreshAllowed
       /\ Return("connectRefreshed")
    \/ /\ ~AttemptCanceled /\ err = "401" /\ RefreshAllowed
       /\ StartRequest("refresh")

-----------------------------------------------------------------------------
(* The Route Registry: retryRouteRegistry and its callers.  net/http does  *)
(* not perform a request begun on a context that is already done, so only  *)
(* one that was under way at the cancellation can still succeed.           *)

(* The first registration answers; openWormhole goes on to launch Run. *)
Registered(j) ==
    /\ pc = "request" /\ op = "initial" /\ lateOps = 0
    /\ pc' = "launch"
    /\ registration' = j /\ newest' = j
    /\ UNCHANGED <<op, ctxErr, result, credentials, rotated, reRegistered,
                   firstConnection, retryVars, failure, forwardVars, tries, lateOps>>

(* Run is called with the first registration. *)
Launch ==
    /\ pc = "launch"
    /\ LoopTop(registration)
    /\ UNCHANGED <<ctxErr, registration, rotated, reRegistered,
                   firstConnection, failure, forwardVars, newest>>

(* openWormhole fails between the registration and Run. *)
LaunchFails ==
    /\ pc = "launch"
    /\ Return("launch")
    /\ UNCHANGED <<ctxErr, loopVars, failure, forwardVars, newest>>

(* Mutant: the refreshed JWT is not stored in the registration. *)
StoreJWTMutant(j) == registration' = registration

(* recoverRejectedCredentials: registration.Tunnel.JWT = &jwt. *)
StoreJWT(j) == registration' = j

(* refreshJWTWithRetry succeeds in recoverRejectedCredentials. *)
Refreshed(j) ==
    /\ pc = "request" /\ op = "refresh" /\ lateOps = 0
    /\ StoreJWT(j) /\ newest' = j
    /\ rotated' = TRUE /\ reRegistered' = FALSE
    /\ LoopTop(registration')
    /\ UNCHANGED <<ctxErr, firstConnection, failure, forwardVars>>

(* The route is registered again after an unauthorized refresh. *)
Reregistered(j) ==
    /\ pc = "request" /\ op = "register" /\ lateOps = 0
    /\ registration' = j /\ newest' = j
    /\ rotated' = FALSE /\ reRegistered' = TRUE
    /\ LoopTop(registration')
    /\ UNCHANGED <<ctxErr, firstConnection, failure, forwardVars>>

(* Mutant: every failed request is worth another attempt. *)
RetryableMutant(answer) == TRUE

(* registrationRetryable. *)
Retryable(answer) ==
    IF answer.kind = "http"
    THEN answer.code \in {408, 429} \/ (answer.code >= 500 /\ answer.code <= 599)
    ELSE answer.kind \in {"eof", "net"}

Unauthorized(answer) == answer.kind = "http" /\ answer.code = 401

(* A transient failure: back off before the next attempt. *)
RetryLater ==
    \E jitter \in Jitters :
        /\ previous' = NextBackoff(previous, MinRetryBackoff, MaxRetryBackoff)
        /\ delay' = NextDelay(previous', MinRetryBackoff, MaxRetryBackoff, jitter)
        /\ pc' = "sleep"
        /\ UNCHANGED <<op, result, tries, lateOps>>

(* Mutant: the context is not looked at after a failed request. *)
RequestCanceledMutant == FALSE

(* retryRouteRegistry: the context is done after a failed request. *)
RequestCanceled == ctxErr

(* Mutant: the route is registered again as often as refreshes are refused. *)
RegisterAllowedMutant == TRUE

(* recoverRejectedCredentials: one new registration until a connection. *)
RegisterAllowed == ~reRegistered

(* A request fails for good.  Only a refresh answered 401 leads to a new   *)
(* registration.                                                           *)
GiveUp(answer) ==
    \/ /\ op = "refresh" /\ Unauthorized(answer) /\ RegisterAllowed
       /\ StartRequest("register")
    \/ /\ op = "refresh" /\ Unauthorized(answer) /\ ~RegisterAllowed
       /\ Return("refreshAfterRegister")
    \/ /\ op = "refresh" /\ ~Unauthorized(answer)
       /\ Return("refresh")
    \/ /\ op # "refresh"
       /\ Return("register")

(* A Route Registry request fails. *)
RequestFails(answer) ==
    /\ pc = "request"
    /\ \/ RequestCanceled /\ Return("canceled")
       \/ ~RequestCanceled /\ Retryable(answer) /\ RetryLater
       \/ ~RequestCanceled /\ ~Retryable(answer) /\ GiveUp(answer)
    /\ failure' = answer
    /\ UNCHANGED <<ctxErr, loopVars, forwardVars, newest>>

(* The timer of the sleep fires: the same operation is tried again. *)
SleepExpires ==
    /\ pc = "sleep"
    /\ pc' = "request"
    /\ lateOps' = IF ctxErr THEN lateOps + 1 ELSE lateOps
    /\ UNCHANGED <<op, ctxErr, result, loopVars, retryVars, failure, forwardVars, newest, tries>>

(* The sleep is cut short. *)
SleepCanceled ==
    /\ pc = "sleep" /\ ctxErr
    /\ Return("canceled")
    /\ UNCHANGED <<ctxErr, loopVars, failure, forwardVars, newest>>

-----------------------------------------------------------------------------
(* Piko: listen and waitForForwarder. *)

(* Mutant: one channel for all connections, still holding an old error. *)
MakeWaitMutant == wait' = wait

(* waitForForwarder: a channel of its own for every connection. *)
MakeWait == wait' = "empty"

(* The connection is up: onFirstConnect, then wait for the forwarder. *)
ListenOk ==
    /\ pc = "listen" /\ lateOps = 0
    /\ firstConnection' = FALSE
    /\ rotated' = FALSE /\ reRegistered' = FALSE
    /\ pc' = "wait"
    /\ forwarder' = "running" /\ MakeWait
    /\ tries' = NoTries
    /\ UNCHANGED <<op, ctxErr, result, registration, credentials, retryVars,
                   failure, newest, lateOps>>

ListenFails(err) ==
    /\ pc = "listen"
    /\ AfterAttempt(err)
    /\ UNCHANGED <<ctxErr, loopVars, failure, forwardVars, newest>>

(* The waiting goroutine: forwarder.Wait() returns err. *)
ForwarderStops(err) ==
    /\ forwarder \in {"running", "closing"}
    /\ forwarder' = "stopped" /\ wait' = err
    /\ UNCHANGED <<control, loopVars, retryVars, failure, history>>

(* waitForForwarder receives what Wait() returned; a nil error is turned   *)
(* into "piko forwarder stopped unexpectedly".                             *)
WaitReturns ==
    /\ pc = "wait" /\ wait # "empty"
    /\ AfterAttempt(wait)
    /\ UNCHANGED <<ctxErr, loopVars, failure, forwardVars, newest>>

(* Mutant: the forwarder is left open. *)
CloseForwarderMutant == UNCHANGED forwarder

(* waitForForwarder: forwarder.Close(). *)
CloseForwarder ==
    forwarder' = IF forwarder = "running" THEN "closing" ELSE forwarder

(* Mutant: waitForForwarder does not select on the context. *)
WaitCanceledMutant == FALSE

(* waitForForwarder sees the context done first, and closes the forwarder. *)
WaitCanceled ==
    /\ pc = "wait" /\ ctxErr
    /\ CloseForwarder
    /\ Return("canceled")
    /\ UNCHANGED <<ctxErr, loopVars, failure, wait, newest>>

(* The context is canceled: a signal, or Airlock failing in the same group. *)
Cancel ==
    /\ ~ctxErr
    /\ ctxErr' = TRUE
    /\ UNCHANGED <<pc, op, result, loopVars, retryVars, failure, forwardVars, history>>

(* Run has returned and nothing is left running. *)
Finished ==
    /\ pc = "done" /\ forwarder \in {"none", "stopped"}
    /\ UNCHANGED vars

-----------------------------------------------------------------------------
RequestReturns ==
    \/ \E j \in JWTs \cup {NoJWT} : Registered(j) \/ Reregistered(j)
    \/ \E j \in JWTs : Refreshed(j)
    \/ \E answer \in Answers : RequestFails(answer)

ListenReturns == ListenOk \/ \E err \in ListenErrs : ListenFails(err)

ForwarderReturns == \E err \in WaitErrs : ForwarderStops(err)

Step ==
    \/ RequestReturns \/ SleepExpires \/ SleepCanceled
    \/ Launch \/ LaunchFails
    \/ ListenReturns \/ WaitReturns \/ WaitCanceled

Next == Step \/ ForwarderReturns \/ Cancel \/ Finished

(***************************************************************************)
(* Fairness.  An HTTP request returns (the client has a timeout of 5 s), a *)
(* timer fires, and a select with a ready case proceeds.  listen may retry *)
(* inside Piko for ever, but not once its context is done; a forwarder may *)
(* run for ever, but not once it has been closed (the Piko client keeps    *)
(* that, unless it left a session behind: PikoTunnel).                     *)
(***************************************************************************)
Fairness ==
    /\ WF_vars(RequestReturns)
    /\ WF_vars(SleepExpires \/ SleepCanceled)
    /\ WF_vars(Launch \/ LaunchFails)
    /\ WF_vars(ctxErr /\ ListenReturns)
    /\ WF_vars(WaitReturns \/ WaitCanceled)
    /\ WF_vars(forwarder = "closing" /\ ForwarderReturns)

Spec == Init /\ [][Next]_vars

FairSpec == Spec /\ Fairness

-----------------------------------------------------------------------------
(* Every variable has its type. *)
TypeOK ==
    /\ pc \in {"request", "sleep", "launch", "listen", "wait", "done"}
    /\ op \in {"initial", "refresh", "register"}
    /\ ctxErr \in BOOLEAN
    /\ registration \in JWTs \cup {NoJWT}
    /\ credentials \in JWTs \cup {NoJWT}
    /\ newest \in JWTs \cup {NoJWT}
    /\ rotated \in BOOLEAN /\ reRegistered \in BOOLEAN
    /\ firstConnection \in BOOLEAN
    /\ previous \in {0} \cup (MinRetryBackoff .. MaxRetryBackoff)
    /\ delay \in {0} \cup (MinRetryBackoff .. MaxRetryBackoff)
    /\ failure \in Answers \cup {NoFailure}
    /\ forwarder \in {"none", "running", "closing", "stopped"}
    /\ wait \in WaitErrs \cup {"empty"}
    /\ result \in Results
    /\ tries \in [{"listen", "refresh", "register"} -> Nat]
    /\ lateOps \in Nat

(* Recovery cannot loop: between two established connections Run tries to  *)
(* listen at most twice (three times before the first connection), asks    *)
(* for at most two refreshes and registers the route again at most once.   *)
RecoveryBudget ==
    /\ tries.listen <= (IF firstConnection THEN 3 ELSE 2)
    /\ tries.refresh <= 2
    /\ tries.register <= 1

(* Run never listens with, nor refreshes, a JWT other than the newest one  *)
(* the registry handed out: the copy in credentials is never stale, however*)
(* refreshes, registrations and reconnections follow each other.           *)
CredentialsCurrent ==
    pc \in {"listen", "wait"} \/ (pc \in {"request", "sleep"} /\ op # "initial")
        => credentials = newest /\ registration = newest /\ newest # NoJWT

(* While credentials are being replaced, and when listening again, the     *)
(* forwarder of the last connection no longer runs: two forwarders never   *)
(* serve the endpoint, and rejected credentials are out of use.            *)
OneForwarder ==
    pc \in {"request", "sleep", "launch", "listen"}
        => forwarder \in {"none", "stopped"}

(* A transient failure is never retried hot: the delay is within the       *)
(* configured bounds and at most a tenth of the backoff is taken off, so   *)
(* jitter does not compound.                                               *)
BackoffRespected ==
    pc = "sleep" => /\ delay \in MinRetryBackoff .. MaxRetryBackoff
                    /\ 10 * delay >= 9 * previous
                    /\ delay <= previous

(* The backoff never falls while one operation is being retried, so a long *)
(* outage is met with the maximum and not with a burst: doubling must not  *)
(* overflow into the clamp at the minimum.                                 *)
BackoffMonotone == [][pc = "request" /\ pc' = "sleep" => previous' >= previous]_vars

(* After the context is done at most one more remote call is begun. *)
CancelQuiesces == lateOps <= 1

(* A tunnel that ends after its context was canceled says so, whatever was *)
(* failing at that moment.  The code has two exceptions: a registration    *)
(* that arrives without credentials, and openWormhole's own checks.        *)
CancelReported ==
    [][ctxErr /\ pc # "done" /\ pc' = "done"
         => result' \in {"canceled", "credentials", "launch"}]_vars

(* A canceled tunnel returns, from whatever call it was blocked in. *)
CancelTerminates == ctxErr ~> pc = "done"

(* No forwarder outlives Run: one that runs when Run returns is stopped. *)
ForwarderReleased == pc = "done" ~> forwarder \in {"none", "stopped"}

Transient(answer) ==
    answer.kind \in {"eof", "net"} \/ answer.code \in {408, 429} \/ answer.code \div 100 = 5

(* Once the registry stops failing transiently, every recovery ends: Run   *)
(* listens again or returns, whatever the registry answers.                *)
RecoveryEnds ==
    <>[]~(pc = "sleep" /\ Transient(failure))
        => (pc \in {"request", "sleep"} ~> pc \in {"launch", "listen", "done"})

(* The abstract promise about credentials, and the tunnel's state mapped   *)
(* to it.                                                                  *)
Phase ==
    CASE pc = "launch" \/ (pc \in {"request", "sleep"} /\ op = "initial") -> "starting"
      [] pc = "listen" -> "connecting"
      [] pc = "wait" -> "connected"
      [] pc = "done" -> "ended"
      [] OTHER -> "replacing"

Origin ==
    IF rotated THEN "refreshed" ELSE IF reRegistered THEN "registered" ELSE "given"

Promise == INSTANCE CredentialRecovery WITH phase <- Phase, origin <- Origin

(* The tunnel implements CredentialRecovery: replaced credentials only     *)
(* move forward, and only a connection restores the allowance.             *)
PromiseKept == Promise!Spec
=============================================================================
