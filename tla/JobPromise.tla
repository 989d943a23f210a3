------------------------------ MODULE JobPromise ------------------------------
(***************************************************************************)
(* What a submitted automation job promises, without claims, leases,       *)
(* processes or retries: it is pending until it is done or has failed, and *)
(* that stays until the job is removed; a done job has its result from     *)
(* that moment on, and only a success that was never heard of may lose it. *)
(***************************************************************************)
CONSTANT Jobs

VARIABLES
    outcome,    \* per job: none, pending, done, failed or removed
    ready,      \* jobs whose result can be read
    silent      \* jobs whose success the attempt itself never heard of

jvars == <<outcome, ready, silent>>

JTypeOK ==
    /\ outcome \in [Jobs -> {"none", "pending", "done", "failed", "removed"}]
    /\ ready \subseteq Jobs /\ silent \subseteq Jobs

JInit ==
    /\ outcome = [j \in Jobs |-> "none"]
    /\ ready = {} /\ silent = {}

Accept(j) ==
    /\ outcome[j] = "none"
    /\ outcome' = [outcome EXCEPT ![j] = "pending"]
    /\ UNCHANGED <<ready, silent>>

Finish(j) ==
    /\ outcome[j] = "pending"
    /\ outcome' = [outcome EXCEPT ![j] = "done"]
    /\ ready' = ready \cup {j}
    /\ silent' \in {silent, silent \cup {j}}

GiveUp(j) ==
    /\ outcome[j] = "pending"
    /\ outcome' = [outcome EXCEPT ![j] = "failed"]
    /\ UNCHANGED <<ready, silent>>

LoseResult(j) ==
    /\ j \in ready \cap silent
    /\ ready' = ready \ {j}
    /\ UNCHANGED <<outcome, silent>>

Remove(j) ==
    /\ outcome[j] # "none"
    /\ outcome' = [outcome EXCEPT ![j] = "removed"]
    /\ ready' = ready \ {j}
    /\ UNCHANGED silent

JNext == \E j \in Jobs : Accept(j) \/ Finish(j) \/ GiveUp(j) \/ LoseResult(j) \/ Remove(j)

JSpec == JInit /\ [][JNext]_jvars
=============================================================================
