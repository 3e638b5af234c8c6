--------------------------- MODULE RegistryServer ---------------------------
(***************************************************************************)
(* The self-healing tunnel against a Route Registry and a Piko server that *)
(* keep track of JWTs, over a network that loses and delays: SelfHeal lets *)
(* both answer anything, here what they answer follows from what they were *)
(* sent.  The servers are not part of the repository.  They are modelled   *)
(* by what the client relies on: a registration and a refresh issue a JWT, *)
(* which may take the place of the earlier ones, a refresh wants a JWT     *)
(* that has not been replaced, and Piko wants one that is in force.        *)
(*                                                                         *)
(* A request can fail for the client and still be carried out, at once     *)
(* (its response is lost) or after the client has given up waiting and     *)
(* has sent it again (a stray request).                                    *)
(***************************************************************************)
EXTENDS SelfHeal

CONSTANTS
    NoStray,      \* no request is under way behind the client's back
    MaxMishaps    \* bound: mishaps between two connections

(* The registry refuses with 401 and fails transiently with 503. *)
ASSUME ServerAssumption ==
    /\ NoStray \notin JWTs \cup {"register"}
    /\ MaxMishaps \in Nat
    /\ {401, 503} \subseteq StatusCodes

VARIABLES
    accepted,     \* the JWTs that Piko accepts
    refreshable,  \* the JWTs that the registry exchanges for a new one
    stray,        \* "register", or the JWT of a refresh, to be carried out late
    mishaps       \* history: JWTs lost to others since the last connection

serverVars == <<accepted, refreshable, stray, mishaps>>
worldVars  == <<vars, serverVars>>

WorldInit ==
    /\ Init
    /\ accepted = {} /\ refreshable = {}
    /\ stray = NoStray /\ mishaps = 0

-----------------------------------------------------------------------------
(* The Route Registry. *)

(* A JWT the client does not hold is issued, in place of the earlier ones  *)
(* or beside them.                                                         *)
Issue(j) ==
    /\ j # newest
    /\ \/ accepted' = {j} /\ refreshable' = {j}
       \/ accepted' = accepted \cup {j} /\ refreshable' = refreshable \cup {j}

(* What the client is asking for, and whether the registry grants it. *)
Request == IF op = "refresh" THEN credentials ELSE "register"

Granted(request) == request = "register" \/ request \in refreshable

Answered(j) ==
    /\ pc = "request" /\ Granted(Request)
    /\ Registered(j) \/ Refreshed(j) \/ Reregistered(j)
    /\ Issue(j)
    /\ UNCHANGED <<stray, mishaps>>

RefreshRefused ==
    /\ ~Granted(Request)
    /\ RequestFails([kind |-> "http", code |-> 401])
    /\ UNCHANGED serverVars

(* A request that fails for the client in a way worth another attempt. *)
RequestDisturbed ==
    \/ RequestFails([kind |-> "net", code |-> 0])
    \/ RequestFails([kind |-> "http", code |-> 503])

RequestLost == RequestDisturbed /\ UNCHANGED serverVars

ResponseLost(j) ==
    /\ Granted(Request) /\ lateOps = 0
    /\ RequestDisturbed
    /\ Issue(j)
    /\ UNCHANGED <<stray, mishaps>>

(* The client's timeout expires; the request is still on its way. *)
RequestDelayed ==
    /\ stray = NoStray /\ lateOps = 0
    /\ RequestFails([kind |-> "net", code |-> 0])
    /\ stray' = Request
    /\ UNCHANGED <<accepted, refreshable, mishaps>>

-----------------------------------------------------------------------------
(* What happens to JWTs behind the client's back. *)

Mishap == mishaps < MaxMishaps /\ mishaps' = mishaps + 1

StrayGranted(j) ==
    /\ stray # NoStray /\ Granted(stray)
    /\ Issue(j)
    /\ stray' = NoStray /\ Mishap
    /\ UNCHANGED vars

StrayRefused ==
    /\ stray # NoStray
    /\ ~Granted(stray)
    /\ stray' = NoStray
    /\ UNCHANGED <<vars, accepted, refreshable, mishaps>>

(* The client's JWT expires: it can still be refreshed. *)
Expires ==
    /\ newest \in accepted
    /\ accepted' = accepted \ {newest} /\ Mishap
    /\ UNCHANGED <<vars, refreshable, stray>>

(* The client's JWT is revoked. *)
Revoked ==
    /\ newest \in accepted \cup refreshable
    /\ accepted' = accepted \ {newest} /\ refreshable' = refreshable \ {newest}
    /\ Mishap
    /\ UNCHANGED <<vars, stray>>

-----------------------------------------------------------------------------
(* Piko. *)

PikoAccepts ==
    /\ credentials \in accepted
    /\ ListenOk
    /\ mishaps' = 0
    /\ UNCHANGED <<accepted, refreshable, stray>>

PikoRejects ==
    /\ credentials \notin accepted
    /\ ListenFails("401")
    /\ UNCHANGED serverVars

ListenAborted ==
    /\ ctxErr
    /\ ListenFails("other")
    /\ UNCHANGED serverVars

(* The forwarder loses its connection and its JWT is rejected, or it has   *)
(* been closed.                                                            *)
ForwarderEnds ==
    /\ \/ forwarder = "running" /\ credentials \notin accepted /\ ForwarderStops("401")
       \/ forwarder = "closing" /\ ForwarderStops("nil")
    /\ UNCHANGED serverVars

-----------------------------------------------------------------------------
(* The steps that meet neither server. *)
Alone ==
    /\ \/ SleepExpires \/ SleepCanceled \/ Launch
       \/ WaitReturns \/ WaitCanceled \/ Cancel \/ Finished
    /\ UNCHANGED serverVars

Delivered == (\E j \in JWTs : Answered(j)) \/ RefreshRefused

WorldNext ==
    \/ Delivered \/ RequestLost \/ RequestDelayed
    \/ \E j \in JWTs : ResponseLost(j) \/ StrayGranted(j)
    \/ StrayRefused \/ Expires \/ Revoked
    \/ PikoAccepts \/ PikoRejects \/ ListenAborted \/ ForwarderEnds
    \/ Alone

(***************************************************************************)
(* Fairness.  A registry that is asked again and again gets an answer      *)
(* through now and then: the client retries a transient failure without a  *)
(* limit.  Piko answers a listen.  Timers fire and a select with a ready   *)
(* case proceeds.                                                          *)
(***************************************************************************)
WorldFairness ==
    /\ SF_worldVars(Delivered)
    /\ WF_worldVars(PikoAccepts \/ PikoRejects)
    /\ WF_worldVars(UNCHANGED serverVars /\ (SleepExpires \/ SleepCanceled))
    /\ WF_worldVars(UNCHANGED serverVars /\ Launch)
    /\ WF_worldVars(UNCHANGED serverVars /\ (WaitReturns \/ WaitCanceled))

WorldSpec == WorldInit /\ [][WorldNext]_worldVars

FairWorldSpec == WorldSpec /\ WorldFairness

-----------------------------------------------------------------------------
(* The tunnel gives up on its credentials only when at least two JWTs were *)
(* taken from it between two connections, by expiry, by revocation or by   *)
(* a request that it had given up and that was carried out late.  Lost     *)
(* requests and responses, however many, never make it give up: a refresh  *)
(* that was carried out unseen leaves it with a JWT that cannot be         *)
(* refreshed, and the new registration saves it.                           *)
SurrenderNeedsTwo ==
    result \in {"connectRefreshed", "refreshAfterRegister"} => mishaps >= 2

(* A tunnel that is not connected is connected again, however many         *)
(* requests fail on the way, unless it is canceled or loses two JWTs.      *)
Recovers ==
    pc \in {"request", "sleep", "launch", "listen"}
        ~> (pc = "wait" \/ ctxErr \/ mishaps >= 2)
=============================================================================
