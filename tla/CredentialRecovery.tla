------------------------- MODULE CredentialRecovery -------------------------
(***************************************************************************)
(* What the self-healing tunnel promises about credentials, without saying *)
(* how requests, retries, timers and forwarders get there.                 *)
(*                                                                         *)
(* The tunnel connects with credentials of some origin.  Rejected          *)
(* credentials are replaced, but every replacement moves strictly forward  *)
(* in given -> registered -> refreshed: refreshed credentials that are     *)
(* rejected end the tunnel, and a route is registered again at most once   *)
(* before a connection is established.  Only an established connection     *)
(* restores the full allowance.                                            *)
(***************************************************************************)
VARIABLES
    phase,   \* what the tunnel is doing
    origin   \* where the credentials in use came from

Phases  == {"starting", "connecting", "connected", "replacing", "ended"}
Origins == {"given", "registered", "refreshed"}

Init == phase = "starting" /\ origin = "given"

(* The first registration has been answered and the tunnel is launched. *)
Start == phase = "starting" /\ phase' = "connecting" /\ UNCHANGED origin

(* A connection is up: what made it is as good as given credentials. *)
Connect == phase = "connecting" /\ phase' = "connected" /\ origin' = "given"

(* The Piko server rejected the credentials. *)
Reject ==
    /\ phase \in {"connecting", "connected"}
    /\ origin # "refreshed"
    /\ phase' = "replacing"
    /\ UNCHANGED origin

Refresh == phase = "replacing" /\ phase' = "connecting" /\ origin' = "refreshed"

Reregister ==
    /\ phase = "replacing"
    /\ origin = "given"
    /\ phase' = "connecting"
    /\ origin' = "registered"

(* Cancellation, or an error the tunnel does not recover from. *)
End == phase # "ended" /\ phase' = "ended" /\ origin' \in Origins

Next == Start \/ Connect \/ Reject \/ Refresh \/ Reregister \/ End

Spec == Init /\ [][Next]_<<phase, origin>>
=============================================================================
