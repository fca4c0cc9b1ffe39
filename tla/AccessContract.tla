--------------------------- MODULE AccessContract ---------------------------
(***************************************************************************)
(* What the approval service promises of AI access, without handlers,      *)
(* rows, clocks or provider calls: AccessLifecycle implements it.          *)
(*                                                                         *)
(* A request is asked for and decided on.  Only then may an approval give  *)
(* the access, and it makes a claim to it.  Access may be taken away at    *)
(* any time, but a claim is closed, for good, only when the access is gone *)
(* or another claim to it is open: nobody's access does not exist.         *)
(***************************************************************************)
CONSTANTS
    Requests,
    Approvers    \* who may give access

VARIABLES
    phase,    \* of each request
    access,   \* the requests whose access exists
    claim     \* of each approver to the access of each request

vars == <<phase, access, claim>>

Claims == Requests \X Approvers

Init ==
    /\ phase = [r \in Requests |-> "absent"]
    /\ access = {}
    /\ claim = [c \in Claims |-> "none"]

Ask(r) ==
    /\ phase[r] = "absent"
    /\ phase' = [phase EXCEPT ![r] = "pending"]
    /\ UNCHANGED <<access, claim>>

Decide(r) ==
    /\ phase[r] = "pending"
    /\ phase' = [phase EXCEPT ![r] = "decided"]
    /\ UNCHANGED <<access, claim>>

Give(c) ==
    /\ phase[c[1]] = "decided"
    /\ claim[c] = "none"
    /\ claim' = [claim EXCEPT ![c] = "open"]
    /\ access' = access \cup {c[1]}
    /\ UNCHANGED phase

Take(r) ==
    /\ access' = access \ {r}
    /\ UNCHANGED <<phase, claim>>

Close(c) ==
    /\ claim[c] = "open"
    /\ c[1] \in access => \E d \in Claims \ {c} : d[1] = c[1] /\ claim[d] = "open"
    /\ claim' = [claim EXCEPT ![c] = "closed"]
    /\ UNCHANGED <<phase, access>>

Next ==
    \/ \E r \in Requests : Ask(r) \/ Decide(r) \/ Take(r)
    \/ \E c \in Claims : Give(c) \/ Close(c)

Spec == Init /\ [][Next]_vars

-----------------------------------------------------------------------------
\* What follows from the promise: access is claimed by somebody.
Claimed ==
    /\ claim \in [Claims -> {"none", "open", "closed"}]
    /\ access \subseteq Requests
    /\ \A r \in access : \E c \in Claims : c[1] = r /\ claim[c] = "open"

=============================================================================
