------------------------------ MODULE LeaseBroker ------------------------------
(***************************************************************************)
(* Pull dispatch: the broker that holds worker jobs in the server's memory *)
(* (render/worker-leases.ts), the route a worker polls (lease-routes.ts)   *)
(* and the worker's slots (workers/render/src/pull.ts).  A grant is        *)
(* <<job, n>>, the n-th lease of the job: granting draws a fresh token.    *)
(* Both worker calls need the one pool tier-b, so there is one queue.      *)
(***************************************************************************)
EXTENDS Integers, FiniteSets, SequencesExt

CONSTANTS
    Jobs,         \* worker calls the pipeline makes
    Slots,        \* browser slots of the workers, one poll loop each
    MaxReclaims,  \* LeaseBrokerOptions.maxReclaims
    MaxHangUps,   \* bound: polls a worker gives up
    None

ASSUME MaxReclaimsAssumption == MaxReclaims \in Nat
ASSUME MaxHangUpsAssumption == MaxHangUps \in Nat
ASSUME NoneAssumption == None \notin Jobs \X Nat

VARIABLES
    closed,     \* close() was called
    lastSeq,    \* the broker's counter
    seq,        \* task.seq; 0: not dispatched
    queue,      \* the pool's queue
    leased,     \* keys of the leased Map
    grants,     \* leases drawn so far; the last one is the current token
    lapsed,     \* leased jobs whose `until` has passed
    overdue,    \* leased jobs whose `deadline` has passed
    reclaims,   \* task.reclaims
    outcome,    \* how the dispatch promise settled
    reply,      \* the lease whose reply it carries; 0: none
    waiters,    \* open long-polls, oldest first
    conn,       \* per slot: its poll's connection, as the server sees it
    granted,    \* per slot: a grant the route has not answered with yet
    phase,      \* per slot: what the worker does
    hold,       \* per slot: the lease it works under
    sent,       \* results on their way: each may arrive late or twice
    hangUps

jobVars == <<closed, lastSeq, seq, queue, leased, grants, lapsed, overdue, reclaims, outcome, reply>>
pollVars == <<waiters, conn, granted>>
workVars == <<phase, hold, sent>>
vars == <<jobVars, pollVars, workVars, hangUps>>

Leases == Jobs \X Nat
Outcomes == {"none", "answered", "busy", "timed_out", "expired", "cancelled"}

TypeOK ==
    /\ closed \in BOOLEAN /\ hangUps \in Nat /\ lastSeq \in Nat
    /\ seq \in [Jobs -> Nat] /\ grants \in [Jobs -> Nat]
    /\ queue \in Seq(Jobs)
    /\ leased \subseteq Jobs /\ lapsed \subseteq leased /\ overdue \subseteq leased
    /\ reclaims \in [Jobs -> 0..MaxReclaims]
    /\ outcome \in [Jobs -> Outcomes] /\ reply \in [Jobs -> Nat]
    /\ waiters \in Seq(Slots)
    /\ conn \in [Slots -> {"none", "open", "broken"}]
    /\ granted \in [Slots -> Leases \cup {None}]
    /\ phase \in [Slots -> {"idle", "polling", "working", "reporting"}]
    /\ hold \in [Slots -> Leases \cup {None}]
    /\ sent \subseteq Leases

Init ==
    /\ closed = FALSE /\ hangUps = 0 /\ lastSeq = 0
    /\ seq = [j \in Jobs |-> 0] /\ grants = [j \in Jobs |-> 0]
    /\ queue = <<>> /\ leased = {} /\ lapsed = {} /\ overdue = {}
    /\ reclaims = [j \in Jobs |-> 0]
    /\ outcome = [j \in Jobs |-> "none"] /\ reply = [j \in Jobs |-> 0]
    /\ waiters = <<>>
    /\ conn = [s \in Slots |-> "none"] /\ granted = [s \in Slots |-> None]
    /\ phase = [s \in Slots |-> "idle"] /\ hold = [s \in Slots |-> None]
    /\ sent = {}

-----------------------------------------------------------------------------
\* Mutant: any token of a leased job is good enough.
CurrentByJob(lease) == lease[1] \in leased

\* current(id, token)
Current(lease) == lease[1] \in leased /\ lease[2] = grants[lease[1]]

\* Mutant: a reclaimed job goes to the tail.
PlaceAtTail(q, order, j) == Append(q, j)

\* The place a job takes in the queue, which is in order: behind every earlier one.
Place(q, order, j) ==
    LET earlier == {i \in DOMAIN q : order[q[i]] < order[j]}
    IN InsertAt(q, Cardinality(earlier) + 1, j)

\* grantTo: a fresh lease for j, carried by the poll of slot s; `others` stay leased.
Grant(j, s, others) ==
    /\ leased' = others \cup {j}
    /\ grants' = [grants EXCEPT ![j] = @ + 1]
    /\ lapsed' = lapsed \ {j} /\ overdue' = overdue \ {j}
    /\ granted' = [granted EXCEPT ![s] = <<j, grants[j] + 1>>]

\* enqueue: the oldest open poll takes the job at once, or it waits its turn.
\* `others`: the jobs that stay leased.  `order`: seq, the new job's included.
Enqueue(j, order, others) ==
    \/ /\ waiters = <<>>
       /\ queue' = Place(queue, order, j)
       /\ leased' = others /\ lapsed' = lapsed \ {j} /\ overdue' = overdue \ {j}
       /\ UNCHANGED <<grants, granted, waiters>>
    \/ /\ waiters # <<>>
       /\ Grant(j, Head(waiters), others)
       /\ waiters' = Tail(waiters)
       /\ UNCHANGED queue

\* The job leaves the leased Map.
Unlease(j) == leased' = leased \ {j} /\ lapsed' = lapsed \ {j} /\ overdue' = overdue \ {j}

\* task.settle
Settle(j, how) == outcome' = [outcome EXCEPT ![j] = how] /\ UNCHANGED reply

-----------------------------------------------------------------------------
(* The pipeline's side.                                                    *)

\* A call whose signal has aborted is not taken, and none is once the broker is closed.
Dispatch(j) ==
    /\ seq[j] = 0 /\ outcome[j] = "none"
    /\ \/ /\ Settle(j, "cancelled") \/ (closed /\ Settle(j, "busy"))
          /\ UNCHANGED <<lastSeq, seq, queue, leased, grants, lapsed, overdue, granted, waiters>>
       \/ /\ ~closed
          /\ lastSeq' = lastSeq + 1
          /\ seq' = [seq EXCEPT ![j] = lastSeq']
          /\ Enqueue(j, seq', leased)
          /\ UNCHANGED <<outcome, reply>>
    /\ UNCHANGED <<closed, reclaims, conn, workVars, hangUps>>

\* The render's signal aborts: drop the queued job, or end its lease.
Abort(j) ==
    /\ seq[j] # 0 /\ outcome[j] = "none"
    /\ queue' = RemoveFirst(queue, j)
    /\ Unlease(j)
    /\ Settle(j, "cancelled")
    /\ UNCHANGED <<closed, lastSeq, seq, grants, reclaims, pollVars, workVars, hangUps>>

\* Mutant: only a job that was never leased has a queue timer.
QueueTimeoutOnce(j) ==
    /\ \E i \in DOMAIN queue : queue[i] = j
    /\ grants[j] = 0
    /\ queue' = RemoveFirst(queue, j)
    /\ Settle(j, "busy")
    /\ UNCHANGED <<closed, lastSeq, seq, leased, grants, lapsed, overdue, reclaims, pollVars, workVars, hangUps>>

\* The queue timer of a job no worker took.
QueueTimeout(j) ==
    /\ \E i \in DOMAIN queue : queue[i] = j
    /\ queue' = RemoveFirst(queue, j)
    /\ Settle(j, "busy")
    /\ UNCHANGED <<closed, lastSeq, seq, leased, grants, lapsed, overdue, reclaims, pollVars, workVars, hangUps>>

Lapse(j) ==
    /\ j \in leased \ lapsed
    /\ lapsed' = lapsed \cup {j}
    /\ UNCHANGED <<closed, lastSeq, seq, queue, leased, grants, overdue, reclaims, outcome, reply, pollVars, workVars, hangUps>>

PassDeadline(j) ==
    /\ j \in leased \ overdue
    /\ overdue' = overdue \cup {j}
    /\ UNCHANGED <<closed, lastSeq, seq, queue, leased, grants, lapsed, reclaims, outcome, reply, pollVars, workVars, hangUps>>

LastLease(j) == reclaims[j] >= MaxReclaims

\* onLeaseTimer past the deadline, or out of reclaims: the job fails.
FailLeased(j) ==
    /\ j \in leased
    /\ \/ j \in overdue /\ Settle(j, "timed_out")
       \/ j \in lapsed \ overdue /\ LastLease(j) /\ Settle(j, "expired")
    /\ Unlease(j)
    /\ UNCHANGED <<closed, lastSeq, seq, queue, grants, reclaims, pollVars, workVars, hangUps>>

\* onLeaseTimer of a lapsed lease: back to the queue, ahead of later jobs.
Reclaim(j) ==
    /\ j \in leased \cap lapsed /\ j \notin overdue /\ ~LastLease(j)
    /\ reclaims' = [reclaims EXCEPT ![j] = @ + 1]
    /\ Enqueue(j, seq, leased \ {j})
    /\ UNCHANGED <<closed, lastSeq, seq, outcome, reply, conn, workVars, hangUps>>

\* close: every waiting poll answers 204, every job fails.
Close ==
    /\ ~closed /\ closed' = TRUE
    /\ outcome' = [j \in Jobs |-> IF j \in leased \cup ToSet(queue) THEN "busy" ELSE outcome[j]]
    /\ queue' = <<>> /\ waiters' = <<>>
    /\ leased' = {} /\ lapsed' = {} /\ overdue' = {}
    /\ LET dropped == ToSet(waiters) IN
        /\ conn' = [s \in Slots |-> IF s \in dropped THEN "none" ELSE conn[s]]
        /\ phase' = [s \in Slots |-> IF s \in dropped /\ conn[s] = "open" THEN "idle" ELSE phase[s]]
    /\ UNCHANGED <<lastSeq, seq, grants, reclaims, reply, granted, hold, sent, hangUps>>

-----------------------------------------------------------------------------
(* The worker's side.                                                      *)

\* Mutant: the poll waits although a job is queued.
LeaseWaitsFirst(s) ==
    /\ phase[s] = "idle" /\ conn[s] = "none" /\ ~closed
    /\ phase' = [phase EXCEPT ![s] = "polling"]
    /\ conn' = [conn EXCEPT ![s] = "open"]
    /\ waiters' = Append(waiters, s)
    /\ UNCHANGED <<jobVars, granted, hold, sent, hangUps>>

\* A slot polls: the oldest queued job, or a place among the waiters.  (A poll
\* of a closed broker answers 204 at once.)
Lease(s) ==
    /\ phase[s] = "idle" /\ conn[s] = "none" /\ ~closed
    /\ phase' = [phase EXCEPT ![s] = "polling"]
    /\ conn' = [conn EXCEPT ![s] = "open"]
    /\ \/ /\ queue # <<>>
          /\ Grant(Head(queue), s, leased)
          /\ queue' = Tail(queue)
          /\ UNCHANGED waiters
       \/ /\ queue = <<>>
          /\ waiters' = Append(waiters, s)
          /\ UNCHANGED <<queue, leased, grants, lapsed, overdue, granted>>
    /\ UNCHANGED <<closed, lastSeq, seq, reclaims, outcome, reply, hold, sent, hangUps>>

\* The worker process dies or its request times out.
HangUp(s) ==
    /\ phase[s] = "polling" /\ hangUps < MaxHangUps
    /\ hangUps' = hangUps + 1
    /\ phase' = [phase EXCEPT ![s] = "idle"]
    /\ conn' = [conn EXCEPT ![s] = "broken"]
    /\ UNCHANGED <<jobVars, waiters, granted, hold, sent>>

\* waitMs passes, or the server notices that the worker hung up.
WaitEnds(s) ==
    /\ \E i \in DOMAIN waiters : waiters[i] = s
    /\ waiters' = RemoveFirst(waiters, s)
    /\ conn' = [conn EXCEPT ![s] = "none"]
    /\ phase' = [phase EXCEPT ![s] = "idle"]
    /\ UNCHANGED <<jobVars, granted, hold, sent, hangUps>>

\* The route has a grant and the connection is still there.  The answer may
\* get lost behind its back.
Answer(s) ==
    /\ granted[s] # None /\ conn[s] = "open"
    /\ \/ /\ phase' = [phase EXCEPT ![s] = "working"]
          /\ hold' = [hold EXCEPT ![s] = granted[s]]
       \/ /\ phase' = [phase EXCEPT ![s] = "idle"]
          /\ UNCHANGED hold
    /\ conn' = [conn EXCEPT ![s] = "none"]
    /\ granted' = [granted EXCEPT ![s] = None]
    /\ UNCHANGED <<jobVars, waiters, sent, hangUps>>

\* Mutant: an abandoned job is queued but its lease stays in the Map.
AbandonKeepsLease(s) ==
    /\ granted[s] # None /\ conn[s] = "broken"
    /\ conn' = [conn EXCEPT ![s] = "none"]
    /\ \/ /\ Current(granted[s]) /\ waiters = <<>>
          /\ queue' = Place(queue, seq, granted[s][1])
       \/ /\ ~Current(granted[s]) /\ UNCHANGED queue
    /\ granted' = [granted EXCEPT ![s] = None]
    /\ UNCHANGED <<closed, lastSeq, seq, leased, grants, lapsed, overdue, reclaims, outcome, reply, waiters, workVars, hangUps>>

\* abandon: the connection is gone, so a current lease goes back to the queue.
Abandon(s) ==
    /\ granted[s] # None /\ conn[s] = "broken"
    /\ conn' = [conn EXCEPT ![s] = "none"]
    /\ LET j == granted[s][1] IN
       \/ /\ ~Current(granted[s])
          /\ granted' = [granted EXCEPT ![s] = None]
          /\ UNCHANGED <<queue, leased, grants, lapsed, overdue, waiters>>
       \/ /\ Current(granted[s]) /\ waiters = <<>>
          /\ queue' = Place(queue, seq, j)
          /\ Unlease(j)
          /\ granted' = [granted EXCEPT ![s] = None]
          /\ UNCHANGED <<grants, waiters>>
       \/ /\ Current(granted[s]) /\ waiters # <<>>
          /\ leased' = leased
          /\ grants' = [grants EXCEPT ![j] = @ + 1]
          /\ lapsed' = lapsed \ {j} /\ overdue' = overdue \ {j}
          /\ granted' = [granted EXCEPT ![s] = None, ![Head(waiters)] = <<j, grants[j] + 1>>]
          /\ waiters' = Tail(waiters)
          /\ UNCHANGED queue
    /\ UNCHANGED <<closed, lastSeq, seq, reclaims, outcome, reply, workVars, hangUps>>

\* renew; a request under way when the work ends still counts.
Renew(s) ==
    /\ phase[s] \in {"working", "reporting"} /\ Current(hold[s])
    /\ lapsed' = lapsed \ {hold[s][1]}
    /\ UNCHANGED <<closed, lastSeq, seq, queue, leased, grants, overdue, reclaims, outcome, reply, pollVars, workVars, hangUps>>

Free(s) ==
    /\ phase' = [phase EXCEPT ![s] = "idle"]
    /\ hold' = [hold EXCEPT ![s] = None]

\* 410 on a renewal: the lease is gone, the worker drops the job.
RenewRefused(s) ==
    /\ phase[s] = "working" /\ ~Current(hold[s])
    /\ Free(s)
    /\ UNCHANGED <<jobVars, pollVars, sent, hangUps>>

\* The job has run; its reply is posted, up to three times.
Report(s) ==
    /\ phase[s] = "working"
    /\ phase' = [phase EXCEPT ![s] = "reporting"]
    /\ sent' = sent \cup {hold[s]}
    /\ UNCHANGED <<jobVars, pollVars, hold, hangUps>>

\* The report is answered or given up, or the worker dies or stops.
Leave(s) ==
    /\ phase[s] \in {"working", "reporting"}
    /\ Free(s)
    /\ UNCHANGED <<jobVars, pollVars, sent, hangUps>>

\* complete
Complete(lease) ==
    /\ lease \in sent /\ Current(lease)
    /\ Unlease(lease[1])
    /\ outcome' = [outcome EXCEPT ![lease[1]] = "answered"]
    /\ reply' = [reply EXCEPT ![lease[1]] = lease[2]]
    /\ UNCHANGED <<closed, lastSeq, seq, queue, grants, reclaims, pollVars, workVars, hangUps>>

JobNext(j) ==
    \/ Dispatch(j) \/ Abort(j) \/ QueueTimeout(j)
    \/ Lapse(j) \/ PassDeadline(j) \/ FailLeased(j) \/ Reclaim(j)

SlotNext(s) ==
    \/ Lease(s) \/ HangUp(s) \/ WaitEnds(s) \/ Answer(s) \/ Abandon(s)
    \/ Renew(s) \/ RenewRefused(s) \/ Report(s) \/ Leave(s)

Next ==
    \/ \E j \in Jobs : JobNext(j)
    \/ \E s \in Slots : SlotNext(s)
    \/ \E lease \in sent : Complete(lease)
    \/ Close

Spec == Init /\ [][Next]_vars

\* Timers fire and a resolved grant is answered.  Nothing is assumed of workers.
Fairness ==
    /\ \A j \in Jobs : /\ WF_vars(QueueTimeout(j)) /\ WF_vars(PassDeadline(j))
                       /\ WF_vars(FailLeased(j)) /\ WF_vars(Reclaim(j))
    /\ \A s \in Slots : WF_vars(Answer(s)) /\ WF_vars(Abandon(s))

LiveSpec == Spec /\ Fairness

-----------------------------------------------------------------------------
(* Properties.                                                             *)

Waiting(j) == \E i \in DOMAIN queue : queue[i] = j
Open(j) == seq[j] # 0 /\ outcome[j] = "none"

\* A job whose promise is open waits or is leased, never both and never
\* neither, and a settled job is in neither place: no path loses a job, hands
\* it out twice or works on for a promise nobody waits for.
JobsAccountedFor ==
    /\ \A j \in Jobs : Open(j) <=> (Waiting(j) \/ j \in leased)
    /\ \A j \in leased : ~Waiting(j)
    /\ \A i, k \in DOMAIN queue : queue[i] = queue[k] => i = k

\* No job waits while a worker waits for a job.
NoIdleWorkerBesideAJob == queue = <<>> \/ waiters = <<>>

\* The reply a dispatch resolves with is that of its last lease: a worker that
\* lost its lease never publishes over the next one, however late it reports.
ReplyFromLastLease == \A j \in Jobs : reply[j] # 0 => reply[j] = grants[j]

\* Why the properties above hold: what the proofs strengthen them with.
ReplyKept == \A j \in Jobs : reply[j] # 0 => reply[j] = grants[j] /\ outcome[j] = "answered"
WorkersHold == \A s \in Slots : phase[s] \in {"working", "reporting"} => hold[s] \in Leases
PollsAnsweredOnce ==
    /\ \A i, k \in DOMAIN waiters : waiters[i] = waiters[k] => i = k
    /\ \A i \in DOMAIN waiters : conn[waiters[i]] # "none" /\ granted[waiters[i]] = None
    /\ \A s \in Slots : granted[s] # None => conn[s] # "none"
IInv ==
    /\ TypeOK /\ JobsAccountedFor /\ NoIdleWorkerBesideAJob
    /\ ReplyKept /\ WorkersHold /\ PollsAnsweredOnce

\* A promise settles once.
SettledOnce ==
    [][\A j \in Jobs : outcome[j] # "none" => outcome'[j] = outcome[j] /\ reply'[j] = reply[j]]_vars

\* The calls the broker took: those it numbered.
Numbered == {j \in Jobs : seq[j] # 0}

Dispatches == INSTANCE DispatchPromise WITH
    Calls <- Jobs, shut <- closed, taken <- Numbered, leases <- grants

\* Seen from the pipeline a dispatch is as DispatchPromise says: settled once, by one of
\* the timers, calls and reports that race for it, answered by its last lease if at all,
\* and neither open nor leased once it is settled or the broker is shut.
KeepsDispatch == Dispatches!CSpec

\* Jobs are leased in order, reclaimed and abandoned ones included.
OldestFirst ==
    [][\A j \in Jobs : grants'[j] > grants[j] => \A i \in DOMAIN queue : seq[queue[i]] >= seq'[j]]_vars

\* Every dispatch settles, whatever workers do.
EveryDispatchSettles == \A j \in Jobs : Open(j) ~> ~Open(j)
=============================================================================
