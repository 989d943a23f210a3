----------------------------- MODULE RenderQueue -----------------------------
(***************************************************************************)
(* The durable render queue: rows of the `renders` table, the server       *)
(* processes that claim them (RenderRunner, renders/runner.ts), the blob   *)
(* store that holds the bytes, and what can go wrong between them: leases  *)
(* that lapse under a live worker, SQL answers that are lost, deletes that *)
(* fail, cancellations, orderly stops and crashes.                         *)
(*                                                                         *)
(* A claim increments the row's attempt and hands out a fresh lease token, *)
(* so <<render, attempt number>> names a claim, its token and its blob     *)
(* (`renders/<id>/attempt-<n>-<token>`) at once.  Time is two flags of the *)
(* row: `due` (available_at has passed) and `live` (lease_until has not).  *)
(* Claim order (priority, age) is left open: `for update skip locked` may  *)
(* pass over any row a concurrent transaction holds.                       *)
(***************************************************************************)
EXTENDS Integers, FiniteSets

CONSTANTS
    Renders,        \* render ids
    Procs,          \* server processes sharing the database and blob store
    NoProc,         \* "claimed, but never run by a process"
    MaxAttempts,    \* request.maxAttempts
    Concurrency,    \* RenderRunner.concurrency
    MaxOutages      \* bound: crashes and stops in one behaviour

ASSUME NoProcAssumption == NoProc \notin Procs
ASSUME MaxAttemptsAssumption == MaxAttempts \in Nat \ {0}
ASSUME ConcurrencyAssumption == Concurrency \in Nat \ {0}
ASSUME MaxOutagesAssumption == MaxOutages \in Nat

VARIABLES
    row,         \* the renders table
    blobs,       \* claims whose bytes are in the blob store
    work,        \* per claim: where its physical work is
    result,      \* per claim: how its work promise ended
    main,        \* per claim: where the run() that races the work is
    abort,       \* per claim: class of the first abort reason of its signal
    owner,       \* per claim: the process that runs it
    controllers, \* per process: the Map render id -> AbortController
    pass,        \* per process: where its claim pass is
    proc,        \* per process: up, stopping or down
    outages

vars == <<row, blobs, work, result, main, abort, owner, controllers, pass, proc, outages>>
runVars == <<work, result, main, abort, owner, controllers, pass, proc, outages>>

Claims == Renders \X (1..MaxAttempts)

States == {"absent", "queued", "running", "succeeded", "failed", "cancelled"}
Terminal == {"succeeded", "failed", "cancelled"}

\* token and output are claim numbers; 0 stands for null.
RowType == [state: States, attempt: 0..MaxAttempts, token: 0..MaxAttempts,
            live: BOOLEAN, due: BOOLEAN, output: 0..MaxAttempts]

\* "unsure": the work ended after a lost SQL answer or a failed delete, so its
\* blob may outlive it; "crashed": the process died under it.
Ended == {"ended", "unsure", "crashed"}
WorkStates == {"none", "execute", "put", "written", "settle", "cleanup"} \cup Ended
Classes == {"none", "transient", "permanent"}

TypeOK ==
    /\ row \in [Renders -> RowType]
    /\ blobs \subseteq Claims
    /\ work \in [Claims -> WorkStates]
    /\ result \in [Claims -> Classes]
    /\ main \in [Claims -> {"none", "claimed", "racing", "finalizing", "done"}]
    /\ abort \in [Claims -> Classes]
    /\ owner \in [Claims -> Procs \cup {NoProc}]
    /\ controllers \in [Procs -> [Renders -> 0..MaxAttempts]]
    /\ pass \in [Procs -> {"idle", "exhaust", "claim", "start"}]
    /\ proc \in [Procs -> {"up", "stopping", "down"}]
    /\ outages \in 0..MaxOutages

\* A row of the table.
Row(state, attempt, token, live, due, output) ==
    [state |-> state, attempt |-> attempt, token |-> token,
     live |-> live, due |-> due, output |-> output]

Init ==
    /\ row = [r \in Renders |-> Row("absent", 0, 0, FALSE, FALSE, 0)]
    /\ blobs = {}
    /\ work = [c \in Claims |-> "none"]
    /\ result = [c \in Claims |-> "none"]
    /\ main = [c \in Claims |-> "none"]
    /\ abort = [c \in Claims |-> "none"]
    /\ owner = [c \in Claims |-> NoProc]
    /\ controllers = [p \in Procs |-> [r \in Renders |-> 0]]
    /\ pass = [p \in Procs |-> "idle"]
    /\ proc = [p \in Procs |-> "up"]
    /\ outages = 0

-----------------------------------------------------------------------------
(* The store: one operator per statement, from a row to a row.             *)

\* The claim c still owns its row: running, current token, unexpired lease.
Held(c) ==
    /\ row[c[1]].state = "running"
    /\ row[c[1]].token = c[2]
    /\ row[c[1]].live

Lapsed(r) == row[r].state = "running" /\ ~row[r].live
\* Mutant: claims that never look at lapsed leases.
ReadyQueuedOnly(r) == row[r].state = "queued" /\ row[r].due

Ready(r) == (row[r].state = "queued" /\ row[r].due) \/ Lapsed(r)
Exhausted(r) == Ready(r) /\ row[r].attempt >= MaxAttempts
Claimable(r) == Ready(r) /\ row[r].attempt < MaxAttempts

Unleased(rec, state) == Row(state, rec.attempt, 0, FALSE, rec.due, rec.output)

ClaimedRow(rec) ==
    Row("running", rec.attempt + 1, rec.attempt + 1, TRUE, FALSE, rec.output)

PublishedRow(rec, n) == Row("succeeded", rec.attempt, 0, FALSE, rec.due, n)

FailedRow(rec, class) ==
    IF class = "transient" /\ rec.attempt < MaxAttempts
    THEN Row("queued", rec.attempt, 0, FALSE, FALSE, rec.output)
    ELSE Unleased(rec, "failed")

\* Mutant: a failure settled without looking at the lease.
SettleFailedUnfenced(c, class) == row' = [row EXCEPT ![c[1]] = FailedRow(@, class)]

\* settleRender with a failure: refused unless the claim holds its row.
SettleFailed(c, class) ==
    row' = IF Held(c) THEN [row EXCEPT ![c[1]] = FailedRow(@, class)] ELSE row

-----------------------------------------------------------------------------
(* Callers and the clock.                                                  *)

Submit(r) ==
    /\ row[r].state = "absent"
    /\ row' = [row EXCEPT ![r] = Row("queued", 0, 0, FALSE, TRUE, 0)]
    /\ UNCHANGED <<blobs, runVars>>

\* The caller's DELETE, committed; the process that served it aborts next.
CancelRender(r) ==
    /\ row[r].state \in {"queued", "running"}
    /\ row' = [row EXCEPT ![r] = Unleased(@, "cancelled")]
    /\ UNCHANGED <<blobs, runVars>>

BecomeDue(r) ==
    /\ row[r].state = "queued" /\ ~row[r].due
    /\ row' = [row EXCEPT ![r].due = TRUE]
    /\ UNCHANGED <<blobs, runVars>>

LeaseLapses(r) ==
    /\ row[r].state = "running" /\ row[r].live
    /\ row' = [row EXCEPT ![r].live = FALSE]
    /\ UNCHANGED <<blobs, runVars>>

-----------------------------------------------------------------------------
(* The claim pass of a process.                                            *)

WorkRuns(c) == work[c] \notin Ended \cup {"none"}
\* Mutant: a slot that is free as soon as the run has an answer.
ActiveWhileRacing(p) == {c \in Claims : owner[c] = p /\ main[c] = "racing"}

Active(p) == {c \in Claims : owner[c] = p /\ main[c] \in {"racing", "finalizing"}}

Tick(p) ==
    /\ proc[p] = "up" /\ pass[p] = "idle"
    /\ Cardinality(Active(p)) < Concurrency
    /\ pass' = [pass EXCEPT ![p] = "exhaust"]
    /\ UNCHANGED <<row, blobs, work, result, main, abort, owner, controllers, proc, outages>>

ExhaustDue(p) ==
    /\ pass[p] = "exhaust"
    /\ row' = [r \in Renders |-> IF Exhausted(r) THEN Unleased(row[r], "failed") ELSE row[r]]
    /\ pass' = [pass EXCEPT ![p] = "claim"]
    /\ UNCHANGED <<blobs, work, result, main, abort, owner, controllers, proc, outages>>

\* The answer may be lost after the commit: the pass throws and the row stays
\* running, under a token nobody knows, until its lease lapses.
ClaimRender(p) ==
    /\ pass[p] = "claim"
    /\ \/ /\ \A r \in Renders : ~Claimable(r)
          /\ pass' = [pass EXCEPT ![p] = "idle"]
          /\ UNCHANGED <<row, main, owner>>
       \/ \E r \in Renders :
            LET c == <<r, row[r].attempt + 1>> IN
            /\ Claimable(r)
            /\ row' = [row EXCEPT ![r] = ClaimedRow(@)]
            /\ \/ /\ pass' = [pass EXCEPT ![p] = "start"]
                  /\ main' = [main EXCEPT ![c] = "claimed"]
                  /\ owner' = [owner EXCEPT ![c] = p]
               \/ /\ pass' = [pass EXCEPT ![p] = "idle"]
                  /\ UNCHANGED <<main, owner>>
    /\ UNCHANGED <<blobs, work, result, abort, controllers, proc, outages>>

\* The claim's answer arrives: run it, or hand it back if the runner stopped
\* meanwhile.  The pass goes on while there is capacity.
StartClaim(c) ==
    LET p == owner[c] IN
    /\ main[c] = "claimed"
    /\ \/ /\ proc[p] = "up"
          /\ work' = [work EXCEPT ![c] = "execute"]
          /\ main' = [main EXCEPT ![c] = "racing"]
          /\ controllers' = [controllers EXCEPT ![p][c[1]] = c[2]]
          /\ pass' = [pass EXCEPT ![p] =
                        IF Cardinality(Active(p)) + 1 < Concurrency THEN "exhaust" ELSE "idle"]
          /\ UNCHANGED row
       \/ /\ proc[p] = "stopping"
          /\ SettleFailed(c, "transient")
          /\ main' = [main EXCEPT ![c] = "done"]
          /\ pass' = [pass EXCEPT ![p] = "idle"]
          /\ UNCHANGED <<work, controllers>>
    /\ UNCHANGED <<blobs, result, abort, owner, proc, outages>>

-----------------------------------------------------------------------------
(* The work of a claim: execute, put, settle, clean up.                    *)

EndWork(c, end, class) ==
    /\ work' = [work EXCEPT ![c] = end]
    /\ result' = [result EXCEPT ![c] = class]

\* execute() returns, or it or the output checks throw; an aborted signal
\* turns a return into the abort reason.
Execute(c) ==
    /\ work[c] = "execute"
    /\ \/ abort[c] = "none" /\ EndWork(c, "put", "none")
       \/ abort[c] # "none" /\ EndWork(c, "ended", abort[c])
       \/ \E class \in {"transient", "permanent"} : EndWork(c, "ended", class)
    /\ UNCHANGED <<row, blobs, main, abort, owner, controllers, pass, proc, outages>>

\* blobs.put resolves, or throws with the object stored or not.
PutBlob(c) ==
    /\ work[c] = "put"
    /\ \/ blobs' = blobs \cup {c} /\ EndWork(c, "written", "none")
       \/ blobs' \in {blobs, blobs \cup {c}} /\ EndWork(c, "cleanup", "transient")
    /\ UNCHANGED <<row, main, abort, owner, controllers, pass, proc, outages>>

\* Mutant: an abort after the put that skips the clean-up.
CheckAbortNoCleanup(c) ==
    /\ work[c] = "written"
    /\ IF abort[c] = "none" THEN EndWork(c, "settle", "none")
                            ELSE EndWork(c, "ended", abort[c])
    /\ UNCHANGED <<row, blobs, main, abort, owner, controllers, pass, proc, outages>>

\* signal.throwIfAborted() after the put, then the settlement is sent.
CheckAbort(c) ==
    /\ work[c] = "written"
    /\ IF abort[c] = "none" THEN EndWork(c, "settle", "none")
                            ELSE EndWork(c, "cleanup", abort[c])
    /\ UNCHANGED <<row, blobs, main, abort, owner, controllers, pass, proc, outages>>

\* Mutant: mayHavePublished set only by the settlement's answer.
PublishThenMaybeDelete(c) ==
    /\ work[c] = "settle"
    /\ \/ /\ Held(c)
          /\ row' = [row EXCEPT ![c[1]] = PublishedRow(@, c[2])]
          /\ EndWork(c, "ended", "none") \/ EndWork(c, "cleanup", "transient")
       \/ /\ EndWork(c, "cleanup", "none")
          /\ UNCHANGED row
    /\ UNCHANGED <<blobs, main, abort, owner, controllers, pass, proc, outages>>

\* settleRender(succeeded): refused when the lease is gone.  With a lost
\* answer the work throws and mayHavePublished stays true.
Publish(c) ==
    /\ work[c] = "settle"
    /\ \/ /\ Held(c)
          /\ row' = [row EXCEPT ![c[1]] = PublishedRow(@, c[2])]
          /\ EndWork(c, "ended", "none") \/ EndWork(c, "unsure", "transient")
       \/ /\ ~Held(c)
          /\ EndWork(c, "cleanup", "none")
          /\ UNCHANGED row
       \/ /\ EndWork(c, "unsure", "transient")
          /\ UNCHANGED row
    /\ UNCHANGED <<blobs, main, abort, owner, controllers, pass, proc, outages>>

\* if (!mayHavePublished) blobs.delete(ref), whose failure is only reported.
Cleanup(c) ==
    /\ work[c] = "cleanup"
    /\ \/ blobs' = blobs \ {c} /\ work' = [work EXCEPT ![c] = "ended"]
       \/ blobs' = blobs /\ work' = [work EXCEPT ![c] = "unsure"]
    /\ UNCHANGED <<row, result, main, abort, owner, controllers, pass, proc, outages>>

-----------------------------------------------------------------------------
(* The run() that races the work against its abort signal.                 *)

WorkFailed(c) == work[c] \in Ended /\ result[c] # "none"

Aborts(c, class) ==
    /\ main[c] = "racing" /\ abort[c] = "none" /\ WorkRuns(c)
    /\ abort' = [abort EXCEPT ![c] = class]
    /\ UNCHANGED <<row, blobs, work, result, main, owner, controllers, pass, proc, outages>>

\* RENDER_TIMEOUT, or a heartbeat that threw.
TimeOut(c) == Aborts(c, "transient")

\* A heartbeat the store refused: LEASE_LOST.
HeartbeatRefused(c) == ~Held(c) /\ Aborts(c, "permanent")

\* runner.cancel(id) on a process, after the cancellation committed: it can
\* abort only what its controllers Map still names.
CancelLocal(p, r) ==
    /\ row[r].state = "cancelled"
    /\ controllers[p][r] # 0
    /\ Aborts(<<r, controllers[p][r]>>, "permanent")

\* The race rejected: settle the failure.  The settlement's own answer may be
\* lost before the commit, which leaves the row to its lease.
SettleFailure(c) ==
    /\ main[c] = "racing"
    /\ abort[c] # "none" \/ WorkFailed(c)
    /\ \/ SettleFailed(c, IF abort[c] # "none" THEN abort[c] ELSE result[c])
       \/ UNCHANGED row
    /\ main' = [main EXCEPT ![c] = "finalizing"]
    /\ UNCHANGED <<blobs, work, result, abort, owner, controllers, pass, proc, outages>>

\* The slot is freed once the physical work is over.  controllers.delete(id)
\* removes whatever controller the Map holds for that render.
Finish(c) ==
    /\ work[c] \in Ended
    /\ \/ main[c] = "finalizing"
       \/ main[c] = "racing" /\ result[c] = "none" /\ abort[c] = "none"
    /\ main' = [main EXCEPT ![c] = "done"]
    /\ controllers' = [controllers EXCEPT ![owner[c]][c[1]] = 0]
    /\ UNCHANGED <<row, blobs, work, result, abort, owner, pass, proc, outages>>

-----------------------------------------------------------------------------
(* Stops, crashes, restarts.                                               *)

\* stop(): no further claims, and every controller of the Map is aborted.
Stop(p) ==
    /\ proc[p] = "up" /\ outages < MaxOutages
    /\ proc' = [proc EXCEPT ![p] = "stopping"]
    /\ abort' = [c \in Claims |->
                   IF controllers[p][c[1]] = c[2] /\ main[c] = "racing"
                      /\ WorkRuns(c) /\ abort[c] = "none"
                   THEN "transient" ELSE abort[c]]
    /\ outages' = outages + 1
    /\ UNCHANGED <<row, blobs, work, result, main, owner, controllers, pass>>

\* stop() resolves after the claim pass and every active run.
Stopped(p) ==
    /\ proc[p] = "stopping" /\ pass[p] = "idle" /\ Active(p) = {}
    /\ proc' = [proc EXCEPT ![p] = "down"]
    /\ UNCHANGED <<row, blobs, work, result, main, abort, owner, controllers, pass, outages>>

Restart(p) ==
    /\ proc[p] = "down"
    /\ proc' = [proc EXCEPT ![p] = "up"]
    /\ UNCHANGED <<row, blobs, work, result, main, abort, owner, controllers, pass, outages>>

\* The process dies and comes back empty.  A put in flight may still land.
Crash(p) ==
    /\ outages < MaxOutages
    /\ \E landed \in SUBSET {c \in Active(p) : work[c] = "put"} : blobs' = blobs \cup landed
    /\ work' = [c \in Claims |-> IF c \in Active(p) /\ WorkRuns(c) THEN "crashed" ELSE work[c]]
    /\ main' = [c \in Claims |-> IF owner[c] = p THEN "done" ELSE main[c]]
    /\ controllers' = [controllers EXCEPT ![p] = [r \in Renders |-> 0]]
    /\ pass' = [pass EXCEPT ![p] = "idle"]
    /\ proc' = [proc EXCEPT ![p] = "up"]
    /\ outages' = outages + 1
    /\ UNCHANGED <<row, result, abort, owner>>

-----------------------------------------------------------------------------
Clock(r) == BecomeDue(r) \/ LeaseLapses(r)
Caller(r) == Submit(r) \/ CancelRender(r)
Pass(p) == Tick(p) \/ ExhaustDue(p) \/ ClaimRender(p)
Work(c) == Execute(c) \/ PutBlob(c) \/ CheckAbort(c) \/ Publish(c) \/ Cleanup(c)
Run(c) == StartClaim(c) \/ TimeOut(c) \/ HeartbeatRefused(c) \/ SettleFailure(c) \/ Finish(c)

Next ==
    \/ \E r \in Renders : Caller(r) \/ Clock(r)
    \/ \E p \in Procs : Pass(p) \/ Stop(p) \/ Stopped(p) \/ Restart(p) \/ Crash(p)
    \/ \E c \in Claims : Work(c) \/ Run(c)
    \/ \E p \in Procs, r \in Renders : CancelLocal(p, r)

Spec == Init /\ [][Next]_vars

(***************************************************************************)
(* Fairness.  The poll interval keeps every process ticking and a promise  *)
(* that can resume does resume.  execute() is assumed to end and the run's *)
(* own timer to fire.  A lease is only sure to lapse once nobody renews    *)
(* it: the heartbeat interval lives as long as the run is racing.          *)
(***************************************************************************)
UnrenewedLapse(r) ==
    /\ \A n \in 1..MaxAttempts : row[r].token = n => main[<<r, n>>] # "racing"
    /\ LeaseLapses(r)

Fairness ==
    /\ \A r \in Renders : WF_vars(BecomeDue(r)) /\ WF_vars(UnrenewedLapse(r))
    /\ \A p \in Procs : WF_vars(Pass(p)) /\ WF_vars(Stopped(p)) /\ WF_vars(Restart(p))
    /\ \A c \in Claims : WF_vars(Work(c)) /\ WF_vars(Run(c))

LiveSpec == Spec /\ Fairness

-----------------------------------------------------------------------------
(* Properties.                                                             *)

\* A succeeded render can be downloaded: the claim it names as its output has
\* its bytes in the blob store, whatever answers were lost and whoever else
\* was cleaning up after itself when it was published.
SucceededHasBytes ==
    \A r \in Renders : row[r].state = "succeeded" => <<r, row[r].output>> \in blobs

\* A worker that lost its lease never wins over its replacement: the output
\* is the one of the last claim handed out.
WinnerIsLastClaim ==
    \A r \in Renders : row[r].state = "succeeded" => row[r].output = row[r].attempt

\* Bytes nobody will serve do not stay behind: a stored blob is the output of
\* its render, or belongs to work still under way, or to work whose last SQL
\* answer or delete was lost, or whose process died.
NoStrayBytes ==
    \A c \in blobs : \/ row[c[1]].output = c[2]
                     \/ WorkRuns(c)
                     \/ work[c] \in {"unsure", "crashed"}

\* Capacity follows physical work: a run whose caller already has an answer
\* still counts against the process until its execution is over.
PhysicalWorkBounded ==
    \A p \in Procs :
        Cardinality({c \in Claims : owner[c] = p /\ WorkRuns(c)}) <= Concurrency

\* Completed history is retained: no late settlement, claim, exhaustion or
\* cancellation changes a render that has reached a terminal state.
TerminalIsFinal ==
    [][\A r \in Renders : row[r].state \in Terminal => row'[r] = row[r]]_vars

\* The queue implements the promise of RenderPromise: queued and running are
\* pending, and an output can be downloaded when its blob is stored.
OutcomeOf(state) ==
    CASE state = "absent" -> "none"
      [] state \in {"queued", "running"} -> "pending"
      [] OTHER -> state

Downloads == {r \in Renders : row[r].state = "succeeded" /\ <<r, row[r].output>> \in blobs}

Promise == INSTANCE RenderPromise WITH
    outcome <- [r \in Renders |-> OutcomeOf(row[r].state)], ready <- Downloads

\* Seen from its caller, a render has one final outcome and a success whose
\* bytes are there at once and stay: no crash, retry or late worker shows.
ImplementsPromise == Promise!PSpec

\* stop() aborts execution: while a runner stops, every run it still waits for
\* has been told to.
StopAbortsEveryRun ==
    \A p \in Procs : proc[p] = "stopping" =>
        \A c \in Active(p) : WorkRuns(c) => abort[c] # "none"

\* Every render that was accepted reaches a terminal state, through lapsed
\* leases, lost answers, retries, stops and crashes.
EveryRenderSettles ==
    \A r \in Renders : row[r].state = "queued" ~> row[r].state \in Terminal

-----------------------------------------------------------------------------
(* The inductive invariant behind the safety properties.                   *)

\* A running row's token is its last claim, and only success has an output.
RowsLeased ==
    \A r \in Renders :
        /\ row[r].state = "running" => row[r].token = row[r].attempt
        /\ row[r].output # 0 => row[r].state = "succeeded"
        /\ row[r].state = "absent" => row[r].attempt = 0

\* A claim that was not handed out yet has no run, and one without a run has
\* done no work.
UnclaimedIdle ==
    \A c \in Claims :
        /\ c[2] > row[c[1]].attempt => main[c] = "none"
        /\ main[c] = "none" => owner[c] = NoProc
        /\ main[c] \in {"none", "claimed"} => work[c] = "none"

\* Work that has not reached its put has no bytes; work about to settle has.
BytesFollowWork ==
    \A c \in Claims :
        /\ work[c] \in {"none", "execute", "put"} => c \notin blobs
        /\ work[c] \in {"written", "settle"} => c \in blobs

\* The work that won is over, so nothing of it is left that could delete.
WinnerDone ==
    \A r \in Renders : row[r].state = "succeeded" =>
        /\ row[r].output = row[r].attempt /\ row[r].output \in 1..MaxAttempts
        /\ <<r, row[r].output>> \in blobs
        /\ work[<<r, row[r].output>>] \in Ended

\* What every step of the queue preserves: the publication fence (a running
\* row's token is its last claim) together with what each stage of a claim's
\* work says of its blob.
IInv ==
    /\ TypeOK
    /\ RowsLeased
    /\ UnclaimedIdle
    /\ BytesFollowWork
    /\ WinnerDone
    /\ NoStrayBytes
=============================================================================
