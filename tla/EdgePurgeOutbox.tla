---------------------------- MODULE EdgePurgeOutbox ----------------------------
(***************************************************************************)
(* The edge purge outbox (edge/outbox.ts, edge/rate.ts and the store's     *)
(* edge_purge_outbox statements) for one provider and one kind of purge,   *)
(* drained by several processes.  A pass claims due rows under a lease,    *)
(* merges their items, sends them within its token bucket, moves what the  *)
(* budget cannot cover to a new row, and settles the claimed rows one by   *)
(* one.  Processes end halfway and their leases run out.                   *)
(***************************************************************************)
EXTENDS Naturals, FiniteSets

CONSTANTS
    Processes,
    Items,          \* tags or URLs
    MaxAttempts,    \* EDGE_PURGE_RETRY_DELAYS_MS.length + 1
    Burst,          \* limits.burst
    OpsPerRequest,  \* items one request carries
    MaxEvents,      \* bound: requests for a purge
    MaxRows,        \* bound: rows, the remainders included
    MaxEnds         \* bound: passes that end halfway or outlive their lease

ASSUME EdgeAssumption ==
    /\ MaxAttempts \in Nat \ {0} /\ Burst \in Nat \ {0} /\ OpsPerRequest \in Nat \ {0}
    /\ MaxEvents \in Nat /\ MaxRows \in Nat /\ MaxEnds \in Nat

VARIABLES
    purge,      \* the rows: items, state, attempts (also the lease token) and whether a lease holds
    drain,      \* per process: where its pass is, the rows it claimed, the items
                \* left, the tokens its bucket is sure to hold, the result to record
    events,     \* requests so far
    ends,       \* passes ended halfway and leases run out so far
    owed        \* history: items requested and not purged since

edgeVars == <<purge, drain, events, ends, owed>>

RowIds == 1..MaxRows
Purges == DOMAIN purge
NewPurge(items) == [items |-> items, state |-> "pending", attempt |-> 0, leased |-> FALSE]
NoDrain == [at |-> "idle", rows |-> {}, left |-> {}, tokens |-> 0, result |-> "none"]
AddPurge(items) == purge' = [i \in Purges \cup {Cardinality(Purges) + 1} |-> IF i \in Purges THEN purge[i] ELSE NewPurge(items)]

EdgeTypeOK ==
    /\ Purges \subseteq RowIds
    /\ purge \in [Purges -> [items : SUBSET Items, state : {"pending", "done", "failed"},
                         attempt : 0..(MaxAttempts + MaxEnds), leased : BOOLEAN]]
    /\ drain \in [Processes -> [at : {"idle", "send", "settle"}, rows : SUBSET (RowIds \X Nat),
                                left : SUBSET Items, tokens : 0..Burst, result : {"none", "done", "retry", "failed"}]]
    /\ events \in 0..MaxEvents /\ ends \in 0..MaxEnds /\ owed \subseteq Items

EdgeInit ==
    /\ purge = [i \in {} |-> NewPurge({})]
    /\ drain = [p \in Processes |-> NoDrain]
    /\ events = 0 /\ ends = 0 /\ owed = {}

\* enqueue: one row for the items of the event.
EnqueuePurge(items) ==
    /\ events < MaxEvents /\ Cardinality(Purges) < MaxRows
    /\ AddPurge(items)
    /\ events' = events + 1 /\ owed' = owed \cup items
    /\ UNCHANGED <<drain, ends>>

-----------------------------------------------------------------------------
DuePurges == {i \in Purges : purge[i].state = "pending" /\ ~purge[i].leased}

\* drain: with some tokens in its bucket a pass claims as many due rows as they
\* afford; a row whose delay has not passed is not due, so any may be claimed.
ClaimPurges(p) ==
    /\ drain[p].at = "idle"
    /\ \E tokens \in 1..Burst, claimed \in SUBSET DuePurges :
         /\ claimed # {} /\ Cardinality(claimed) <= tokens * OpsPerRequest
         /\ purge' = [i \in Purges |-> IF i \in claimed THEN [purge[i] EXCEPT !.attempt = @ + 1, !.leased = TRUE] ELSE purge[i]]
         /\ drain' = [drain EXCEPT ![p] = [at |-> "send", rows |-> {<<i, purge[i].attempt + 1>> : i \in claimed},
                                           left |-> UNION {purge[i].items : i \in claimed}, tokens |-> tokens, result |-> "none"]]
    /\ UNCHANGED <<events, ends, owed>>

\* One request takes a token, an old one or one the bucket gained meanwhile, and
\* the provider purges the batch.
SendBatch(p) ==
    /\ drain[p].at = "send" /\ drain[p].left # {}
    /\ \E batch \in SUBSET drain[p].left :
         /\ batch # {} /\ Cardinality(batch) <= OpsPerRequest
         /\ Cardinality(batch) = OpsPerRequest \/ batch = drain[p].left
         /\ drain' = [drain EXCEPT ![p].left = @ \ batch, ![p].tokens = IF @ > 0 THEN @ - 1 ELSE 0]
         /\ owed' = owed \ batch
    /\ UNCHANGED <<purge, events, ends>>

\* A request fails, or no credential is there: all the claimed rows retry or, on
\* a permanent error, stop.
SendFails(p) ==
    /\ drain[p].at = "send" /\ drain[p].left # {}
    /\ \E result \in {"retry", "failed"} :
         drain' = [drain EXCEPT ![p] = [@ EXCEPT !.at = "settle", !.left = {}, !.tokens = 0, !.result = result]]
    /\ UNCHANGED <<purge, events, ends, owed>>

\* Mutant: what the budget cannot cover is left for the next event.
ForgetRest(p) ==
    /\ drain[p].at = "send" /\ drain[p].left # {} /\ drain[p].tokens = 0
    /\ drain' = [drain EXCEPT ![p] = [@ EXCEPT !.at = "settle", !.left = {}, !.tokens = 0, !.result = "done"]]
    /\ UNCHANGED <<purge, events, ends, owed>>

\* The budget ran out: the rest becomes a row of its own, before the claimed rows settle.
DeferRest(p) ==
    /\ drain[p].at = "send" /\ drain[p].left # {} /\ drain[p].tokens = 0
    /\ Cardinality(Purges) < MaxRows
    /\ AddPurge(drain[p].left)
    /\ drain' = [drain EXCEPT ![p] = [@ EXCEPT !.at = "settle", !.left = {}, !.tokens = 0, !.result = "done"]]
    /\ UNCHANGED <<events, ends, owed>>

AllSent(p) ==
    /\ drain[p].at = "send" /\ drain[p].left = {}
    /\ drain' = [drain EXCEPT ![p] = [@ EXCEPT !.at = "settle", !.left = {}, !.tokens = 0, !.result = "done"]]
    /\ UNCHANGED <<purge, events, ends, owed>>

\* retry: another delay, or none remains.
SettledRow(r, result) ==
    [r EXCEPT !.leased = FALSE,
              !.state = IF result # "retry" THEN result ELSE IF r.attempt < MaxAttempts THEN "pending" ELSE "failed"]

\* The pass goes on with the next row, and is over after the last one.
PassWithout(d, row) == IF d.rows = {row} THEN NoDrain ELSE [d EXCEPT !.rows = @ \ {row}]

\* settleEdgePurge: recorded only under the lease token it was claimed with, also
\* when the lease is over and nobody has claimed the row since.
SettleRow(p, i, token) ==
    /\ drain[p].at = "settle" /\ <<i, token>> \in drain[p].rows
    /\ purge' = IF purge[i].state = "pending" /\ purge[i].attempt = token
              THEN [purge EXCEPT ![i] = SettledRow(@, drain[p].result)] ELSE purge
    /\ drain' = [drain EXCEPT ![p] = PassWithout(@, <<i, token>>)]
    /\ UNCHANGED <<events, ends, owed>>

-----------------------------------------------------------------------------
\* The process ends under its pass, which is never resumed.
PassCut(p) ==
    /\ drain[p].at # "idle" /\ ends < MaxEnds
    /\ drain' = [drain EXCEPT ![p] = NoDrain]
    /\ ends' = ends + 1
    /\ UNCHANGED <<purge, events, owed>>

\* A lease runs out: of a pass that ended, or of one slower than its lease.
LeaseRunsOut(i) ==
    /\ purge[i].leased /\ purge[i].state = "pending"
    /\ purge' = [purge EXCEPT ![i].leased = FALSE]
    /\ \/ /\ \A p \in Processes : \A n \in 0..(MaxAttempts + MaxEnds) : <<i, n>> \in drain[p].rows => n # purge[i].attempt
          /\ UNCHANGED ends
       \/ ends < MaxEnds /\ ends' = ends + 1
    /\ UNCHANGED <<drain, events, owed>>

EdgeNext ==
    \/ \E items \in (SUBSET Items) \ {{}} : EnqueuePurge(items)
    \/ \E p \in Processes : \/ ClaimPurges(p) \/ SendBatch(p) \/ SendFails(p) \/ DeferRest(p) \/ AllSent(p) \/ PassCut(p)
                            \/ \E i \in Purges : \E n \in 1..(MaxAttempts + MaxEnds) : SettleRow(p, i, n)
    \/ \E i \in Purges : LeaseRunsOut(i)

EdgeSpec == EdgeInit /\ [][EdgeNext]_edgeVars

-----------------------------------------------------------------------------
\* Nothing asked for is lost: an item not purged since it was last asked for is
\* in a row that is pending or was reported failed, wherever a pass stops
\* between a request, the row for the rest and the rows it settles, whoever
\* claims over it, and although the rows of one pass succeed or fail together.
NoItemLost == \A x \in owed : \E i \in Purges : x \in purge[i].items /\ purge[i].state \in {"pending", "failed"}
=============================================================================
