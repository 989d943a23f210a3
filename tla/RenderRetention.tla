---------------------------- MODULE RenderRetention ----------------------------
(***************************************************************************)
(* Retention of render outputs (renders/retention.ts and its statements in *)
(* renders/postgres.ts) against deliveries that send an output by          *)
(* reference (deliverRetainedOutput in api/app.ts).  A pass marks old      *)
(* outputs as expired; a later pass deletes the bytes of what was marked   *)
(* at least the grace period ago, unless a delivery names the render.      *)
(***************************************************************************)
EXTENDS FiniteSets, Naturals

CONSTANTS
    Renders,
    Deliveries,   \* delivery requests
    Sweepers,     \* processes that run passes
    MaxFaults     \* bound: passes that stop halfway, deliveries slower than the grace

ASSUME MaxFaultsAssumption == MaxFaults \in Nat

VARIABLES
    old,        \* renders that finished before the cutoff
    mark,       \* output.expiredAt: none, within the grace, or older
    purged,     \* renders with output.purgedAt
    blobs,      \* renders whose output bytes are stored
    delivery,   \* per request: how far it is, and its render
    sweep,      \* per process: where its pass is, and the outputs it works on
    faults,
    audited,    \* renders with a render.output.expire event
    slow        \* history: renders whose grace ended under a delivery

rows == <<old, mark, purged>>
past == <<faults, audited, slow>>
retentionVars == <<rows, blobs, delivery, sweep, past>>

InFlight == {"read", "holds"}
Stages == {"idle", "clear", "list", "purge", "record", "expire", "audit"}

RetentionTypeOK ==
    /\ old \subseteq Renders /\ purged \subseteq Renders /\ blobs \subseteq Renders
    /\ mark \in [Renders -> {"none", "young", "aged"}]
    /\ \A r \in Renders : mark[r] # "none" => r \in old
    /\ delivery \in [Deliveries -> [at: {"none", "stored", "refused"} \cup InFlight,
                                    render: SUBSET Renders]]
    /\ \A d \in Deliveries : Cardinality(delivery[d].render) = IF delivery[d].at = "none" THEN 0 ELSE 1
    /\ sweep \in [Sweepers -> [at: Stages, before: SUBSET Renders, due: SUBSET Renders,
                              on: SUBSET Renders]]
    /\ faults \in 0..MaxFaults
    /\ audited \subseteq Renders /\ slow \subseteq Renders

NoPass == [at |-> "idle", before |-> {}, due |-> {}, on |-> {}]

\* The renders have succeeded and their outputs are stored.
RetentionInit ==
    /\ old = {} /\ purged = {} /\ blobs = Renders
    /\ mark = [r \in Renders |-> "none"]
    /\ delivery = [d \in Deliveries |-> [at |-> "none", render |-> {}]]
    /\ sweep = [s \in Sweepers |-> NoPass]
    /\ faults = 0 /\ audited = {} /\ slow = {}

Fault == faults < MaxFaults /\ faults' = faults + 1

-----------------------------------------------------------------------------
(* A delivery: read the row, fetch the bytes, store the delivery.          *)

Of(r, at) == {d \in Deliveries : delivery[d].render = {r} /\ delivery[d].at \in at}

\* A delivery names the render.
Named(r) == Of(r, {"stored"}) # {}

\* loadRenderOutput refuses a marked output.
Load(d, r) ==
    /\ delivery[d].at = "none"
    /\ delivery' = [delivery EXCEPT ![d] = [at |-> IF mark[r] = "none" THEN "read" ELSE "refused", render |-> {r}]]
    /\ UNCHANGED <<rows, blobs, sweep, past>>

\* blobs.get and the integrity checks.
Fetch(d) ==
    /\ delivery[d].at = "read"
    /\ delivery' = [delivery EXCEPT ![d].at = IF delivery[d].render \subseteq blobs THEN "holds" ELSE "refused"]
    /\ UNCHANGED <<rows, blobs, sweep, past>>

\* putDelivery; the request may also be refused, or its process may end.
PutDelivery(d) ==
    /\ delivery[d].at = "holds"
    /\ \E at \in {"stored", "refused"} : delivery' = [delivery EXCEPT ![d].at = at]
    /\ UNCHANGED <<rows, blobs, sweep, past>>

-----------------------------------------------------------------------------
(* A pass.                                                                 *)

At(s, at) == sweep[s].at = at
Go(s, at) == sweep' = [sweep EXCEPT ![s].at = at]

\* sweepRenderOutputs begins: its clock decides what is older than the grace.
Begin(s) ==
    /\ At(s, "idle")
    /\ sweep' = [sweep EXCEPT ![s].at = "clear", ![s].before = {r \in Renders : mark[r] = "aged"}]
    /\ UNCHANGED <<rows, blobs, delivery, past>>

\* renderOutputsToPurge, first statement: a delivery clears the mark.
ClearMarks(s) ==
    /\ At(s, "clear")
    /\ mark' = [r \in Renders |-> IF r \notin purged /\ Named(r) THEN "none" ELSE mark[r]]
    /\ Go(s, "list")
    /\ UNCHANGED <<old, purged, blobs, delivery, past>>

\* Mutant: what has just been marked is purged, without the grace period.
PurgeableAtOnce(s) == {r \in Renders : mark[r] # "none" /\ r \notin purged /\ ~Named(r)}

Purgeable(s) == {r \in sweep[s].before : mark[r] # "none" /\ r \notin purged /\ ~Named(r)}

\* renderOutputsToPurge, second statement.
ListToPurge(s) ==
    /\ At(s, "list")
    /\ sweep' = [sweep EXCEPT ![s].at = "purge", ![s].due = Purgeable(s)]
    /\ UNCHANGED <<rows, blobs, delivery, past>>

\* Mutant: an output whose bytes are gone already is not recorded.
DeleteBytesPresent(s, r) ==
    /\ At(s, "purge") /\ r \in sweep[s].due
    /\ blobs' = blobs \ {r}
    /\ sweep' = IF r \in blobs THEN [sweep EXCEPT ![s].at = "record", ![s].on = {r}]
                ELSE [sweep EXCEPT ![s].due = @ \ {r}]
    /\ UNCHANGED <<rows, delivery, past>>

\* blobs.delete of one output.
DeleteBytes(s, r) ==
    /\ At(s, "purge") /\ r \in sweep[s].due
    /\ blobs' = blobs \ {r}
    /\ sweep' = [sweep EXCEPT ![s].at = "record", ![s].on = {r}]
    /\ UNCHANGED <<rows, delivery, past>>

\* markRenderOutputPurged
RecordPurged(s) ==
    /\ At(s, "record")
    /\ purged' = purged \cup sweep[s].on
    /\ sweep' = [sweep EXCEPT ![s].at = "purge", ![s].due = @ \ sweep[s].on, ![s].on = {}]
    /\ UNCHANGED <<old, mark, blobs, delivery, past>>

\* Mutant: the cutoff is not applied.
ExpireAny(s) ==
    /\ At(s, "purge") /\ sweep[s].due = {}
    /\ LET due == {r \in Renders : mark[r] = "none" /\ r \notin purged /\ ~Named(r)} IN
        /\ mark' = [r \in Renders |-> IF r \in due THEN "young" ELSE mark[r]]
        /\ sweep' = [sweep EXCEPT ![s] = [NoPass EXCEPT !.at = "audit", !.due = due]]
    /\ UNCHANGED <<old, purged, blobs, delivery, past>>

\* expireRenderOutputs, once what was due is purged.
Expire(s) ==
    /\ At(s, "purge") /\ sweep[s].due = {}
    /\ LET due == {r \in old : mark[r] = "none" /\ r \notin purged /\ ~Named(r)} IN
        /\ mark' = [r \in Renders |-> IF r \in due THEN "young" ELSE mark[r]]
        /\ sweep' = [sweep EXCEPT ![s] = [NoPass EXCEPT !.at = "audit", !.due = due]]
    /\ UNCHANGED <<old, purged, blobs, delivery, past>>

\* appendAudit for each marked output; the pass ends after the last one.
Audit(s) ==
    /\ At(s, "audit")
    /\ IF sweep[s].due = {} THEN sweep' = [sweep EXCEPT ![s] = NoPass] /\ UNCHANGED audited
       ELSE \E r \in sweep[s].due :
            /\ audited' = audited \cup {r}
            /\ sweep' = [sweep EXCEPT ![s].due = @ \ {r}]
    /\ UNCHANGED <<rows, blobs, delivery, faults, slow>>

\* A statement or a delete fails, or the process ends: the pass is over.
PassStops(s) ==
    /\ ~At(s, "idle") /\ Fault
    /\ sweep' = [sweep EXCEPT ![s] = NoPass]
    /\ UNCHANGED <<rows, blobs, delivery, audited, slow>>

-----------------------------------------------------------------------------
(* Time.                                                                   *)

GrowOld(r) ==
    /\ r \notin old
    /\ old' = old \cup {r}
    /\ UNCHANGED <<mark, purged, blobs, delivery, sweep, past>>

Age(r) ==
    /\ mark[r] = "young"
    /\ mark' = [mark EXCEPT ![r] = "aged"]
    /\ UNCHANGED <<old, purged, blobs, delivery, sweep, audited>>

\* The grace ends after every delivery that read the output before the mark.
GraceEnds(r) == Age(r) /\ Of(r, InFlight) = {} /\ UNCHANGED <<faults, slow>>

\* A delivery takes longer than the grace.
GraceEndsLate(r) == Age(r) /\ Of(r, InFlight) # {} /\ Fault /\ slow' = slow \cup {r}

Pass(s) ==
    \/ ClearMarks(s) \/ ListToPurge(s) \/ RecordPurged(s) \/ Expire(s) \/ Audit(s)
    \/ \E r \in Renders : DeleteBytes(s, r)

RetentionNext ==
    \/ \E d \in Deliveries : (\E r \in Renders : Load(d, r)) \/ Fetch(d) \/ PutDelivery(d)
    \/ \E s \in Sweepers : Begin(s) \/ Pass(s) \/ PassStops(s)
    \/ \E r \in Renders : GrowOld(r) \/ GraceEnds(r) \/ GraceEndsLate(r)

RetentionSpec == RetentionInit /\ [][RetentionNext]_retentionVars

\* The timer begins passes, passes and deliveries go on, and time passes.
RetentionFairness ==
    /\ \A s \in Sweepers : WF_retentionVars(Begin(s)) /\ WF_retentionVars(Pass(s))
    /\ \A d \in Deliveries : WF_retentionVars(Fetch(d)) /\ WF_retentionVars(PutDelivery(d))
    /\ \A r \in Renders : WF_retentionVars(GraceEnds(r))

RetentionLiveSpec == RetentionSpec /\ RetentionFairness

-----------------------------------------------------------------------------
(* Properties.                                                             *)

\* An output that a stored delivery names, or that is served, has its bytes: no
\* pass of any process deletes them, also not of an output whose mark a delivery
\* cleared during the pass, unless the delivery outlived the grace period.
DeliveryKeepsOutput ==
    \A r \in Renders \ slow : Named(r) \/ mark[r] = "none" => r \in blobs

\* A marked output loses its bytes and is recorded so, or a delivery clears the
\* mark; a pass that stopped between the two is made good by a later one.
MarkedOutputGoes == \A r \in Renders : mark[r] # "none" ~> r \in purged \/ Named(r)

\* docs/renders.md:412: "Each expiry is audited as `render.output.expire`."
EveryExpiryAudited ==
    \A r \in Renders : mark[r] # "none" =>
        r \in audited \/ \E s \in Sweepers : At(s, "audit") /\ r \in sweep[s].due
=============================================================================
