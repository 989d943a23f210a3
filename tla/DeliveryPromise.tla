---------------------------- MODULE DeliveryPromise ----------------------------
(***************************************************************************)
(* What the callback outbox promises the subscriber, without claims,       *)
(* leases, processes or timers: a stored entry is pending until it is      *)
(* acknowledged or has failed, and that is final; the receiver gets at      *)
(* most Limit requests of it, none once it is settled unless a sender       *)
(* outlived its lease; and what counts as acknowledged was received.        *)
(***************************************************************************)
EXTENDS Integers

CONSTANTS Entries, Limit

VARIABLES
    status,     \* per entry: absent, pending or how it was settled
    arrived,    \* per entry: requests the receiver got
    overrun     \* entries with a sender that outlived its lease

dvars == <<status, arrived, overrun>>

DTypeOK ==
    /\ status \in [Entries -> {"absent", "pending", "acknowledged", "failed"}]
    /\ arrived \in [Entries -> 0..Limit]
    /\ overrun \subseteq Entries

DInit ==
    /\ status = [e \in Entries |-> "absent"]
    /\ arrived = [e \in Entries |-> 0]
    /\ overrun = {}

Store(e) ==
    /\ status[e] = "absent"
    /\ status' = [status EXCEPT ![e] = "pending"]
    /\ UNCHANGED <<arrived, overrun>>

\* A process that ends may leave requests of several entries on their way.
Arrive(some) ==
    /\ \A e \in some : status[e] = "pending" \/ e \in overrun
    /\ arrived' \in [Entries -> 0..Limit]
    /\ \A e \in Entries : IF e \in some THEN arrived'[e] > arrived[e] ELSE arrived'[e] = arrived[e]
    /\ UNCHANGED <<status, overrun>>

Acknowledge(e) ==
    /\ status[e] = "pending" /\ arrived[e] > 0
    /\ status' = [status EXCEPT ![e] = "acknowledged"]
    /\ UNCHANGED <<arrived, overrun>>

GiveUp(e) ==
    /\ status[e] = "pending"
    /\ status' = [status EXCEPT ![e] = "failed"]
    /\ UNCHANGED <<arrived, overrun>>

Overrun(e) ==
    /\ status[e] = "pending"
    /\ overrun' = overrun \cup {e}
    /\ UNCHANGED <<status, arrived>>

DNext ==
    \/ \E e \in Entries : Store(e) \/ Acknowledge(e) \/ GiveUp(e) \/ Overrun(e)
    \/ \E some \in SUBSET Entries : Arrive(some)

DSpec == DInit /\ [][DNext]_dvars
=============================================================================
