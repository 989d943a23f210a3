---------------------------- MODULE RenderPromise ----------------------------
(***************************************************************************)
(* What the render resource promises its caller, without queue, leases,    *)
(* processes or blob store: an accepted request is pending until it gets   *)
(* one outcome, the outcome is final, and a success comes with bytes that  *)
(* can be downloaded from that moment on.                                  *)
(***************************************************************************)
CONSTANT Renders

VARIABLES
    outcome,    \* per render: none, pending or how it ended
    ready       \* renders whose output can be downloaded

pvars == <<outcome, ready>>

Outcomes == {"none", "pending", "succeeded", "failed", "cancelled"}

PTypeOK == outcome \in [Renders -> Outcomes] /\ ready \subseteq Renders

PInit ==
    /\ outcome = [r \in Renders |-> "none"]
    /\ ready = {}

Accept(r) ==
    /\ outcome[r] = "none"
    /\ outcome' = [outcome EXCEPT ![r] = "pending"]
    /\ UNCHANGED ready

Succeed(r) ==
    /\ outcome[r] = "pending"
    /\ outcome' = [outcome EXCEPT ![r] = "succeeded"]
    /\ ready' = ready \cup {r}

Cancel(r) ==
    /\ outcome[r] = "pending"
    /\ outcome' = [outcome EXCEPT ![r] = "cancelled"]
    /\ UNCHANGED ready

\* One statement may give up on several renders at once.
Fail(failing) ==
    /\ \A r \in failing : outcome[r] = "pending"
    /\ outcome' = [r \in Renders |-> IF r \in failing THEN "failed" ELSE outcome[r]]
    /\ UNCHANGED ready

PNext ==
    \/ \E r \in Renders : Accept(r) \/ Succeed(r) \/ Cancel(r)
    \/ \E failing \in SUBSET Renders : Fail(failing)

PSpec == PInit /\ [][PNext]_pvars
=============================================================================
