---------------------------- MODULE DispatchPromise ----------------------------
(***************************************************************************)
(* What the broker promises the pipeline, without a queue, polls, tokens   *)
(* or timers: a call is taken while the broker is open, then leased any    *)
(* number of times until it settles, once; an answer is that of the lease  *)
(* drawn last, only a call that was leased runs out of time or of leases,  *)
(* and nothing is open or leased once the broker is shut.                  *)
(***************************************************************************)
EXTENDS Naturals

CONSTANT Calls

VARIABLES
    shut,
    taken,      \* calls the broker took
    outcome,    \* per call: how it settled, or none
    leases,     \* per call: how often it was leased
    reply       \* per call: the lease whose reply it carries; 0: none

cvars == <<shut, taken, outcome, leases, reply>>

Late == {"timed_out", "expired"}

CInit ==
    /\ shut = FALSE /\ taken = {}
    /\ outcome = [c \in Calls |-> "none"]
    /\ leases = [c \in Calls |-> 0] /\ reply = [c \in Calls |-> 0]

Open == {c \in taken : outcome[c] = "none"}

\* A call may be leased in the step that takes it: a worker was waiting.
Take(c) ==
    /\ ~shut /\ outcome[c] = "none"
    /\ taken' = taken \cup {c}
    /\ leases' \in {leases, [leases EXCEPT ![c] = @ + 1]}
    /\ UNCHANGED <<shut, outcome, reply>>

\* A call is turned away once the broker is shut, or because it was cancelled before it came.
Refuse(c) ==
    /\ outcome[c] = "none"
    /\ \/ outcome' = [outcome EXCEPT ![c] = "cancelled"]
       \/ shut /\ outcome' = [outcome EXCEPT ![c] = "busy"]
    /\ UNCHANGED <<shut, taken, leases, reply>>

HandOut(c) ==
    /\ leases' = [leases EXCEPT ![c] = @ + 1]
    /\ UNCHANGED <<shut, taken, outcome, reply>>

Answer(c) ==
    /\ leases[c] > 0
    /\ outcome' = [outcome EXCEPT ![c] = "answered"]
    /\ reply' = [reply EXCEPT ![c] = leases[c]]
    /\ UNCHANGED <<shut, taken, leases>>

GiveUp(c) ==
    /\ LET why == outcome'[c] IN
        /\ why \in {"cancelled", "busy"} \cup Late
        /\ why \in Late => leases[c] > 0
        /\ outcome' = [outcome EXCEPT ![c] = why]
    /\ UNCHANGED <<shut, taken, leases, reply>>

ShutDown ==
    /\ ~shut /\ shut' = TRUE
    /\ outcome' = [c \in Calls |-> IF c \in Open THEN "busy" ELSE outcome[c]]
    /\ UNCHANGED <<taken, leases, reply>>

CNext ==
    \/ \E c \in Calls \ taken : Take(c) \/ Refuse(c)
    \/ \E c \in Open : HandOut(c) \/ Answer(c) \/ GiveUp(c)
    \/ ShutDown

CSpec == CInit /\ [][CNext]_cvars
=============================================================================
