# A verification project for lolly-work

lolly-work is one Node server (`src/server/src/main.ts`, `api/app.ts`) in front of PostgreSQL and a blob
store, with an optional pool of Chromium workers (`src/workers/render`). Several copies of the server may
share one database, so almost everything that can go wrong is a race between two processes, or between a
process and its own timers and aborts, over rows in tables and bytes in the blob store.

These modules model that part: what the durable components promise, how leases, fencing tokens, outboxes,
budgets and retention keep the promise, and where they do not. TLC checks every module on small instances;
TLAPS proves the most important results for every value of the constants. `PROJECT.json` lists components,
runs, mutants, hazards, findings and theorems, and maps every definition to the source lines it stands for.

Conventions. A module has the source's operations as actions. Time is never a number: a lease is `live` or
not, a retry is `due` or not, and a clock action flips the flag. An `await` on the database or the blob store
is one action at the instant of its effect; when its answer can be lost (a broken connection after the
commit) the action has a disjunct for that. A definition introduced by a comment starting with *Mutant*
is never used by a specification: it is a plausible bug, kept beside the definition it breaks, and listed in
`PROJECT.json` with the property that must catch it.

A run named in `PROJECT.json` is `tlc -config <cfg> <module>`; the proofs are in the modules named `…Proofs` and are
checked with `tlapm <module>.tla`. With two TLC workers the longest run takes a few minutes.

## The system

Every box keeps its state in PostgreSQL tables (with an in-memory twin for tests and small installs) and
bytes in a blob store; processes share nothing else.

| Component | State | Operations | What is hard |
|---|---|---|---|
| Durable render queue (`renders/`) | `renders` rows, blobs by attempt, per process runs and abort controllers | create, claim, renew, settle, cancel, give up, stop | takeover of a lapsed claim while the old worker still works; lost SQL answers; cleanup of bytes that may have won |
| Render batches (`renders/batch*`) | `render_batches`, their callback entries | create, retry, cancel, announce completion | two last rows finishing in transactions that cannot see each other; lock order |
| Output retention (`renders/retention.ts`) | marks in the output JSON, blobs | mark, purge, record, audit, deliver | deliveries that read before the mark; passes that stop halfway; two processes |
| Pull dispatch (`render/worker-leases.ts`, `lease-routes.ts`, `workers/render`) | one process's queue, leases, open polls | dispatch, lease, renew, report, reclaim, abandon, abort, close | dead workers, late and repeated reports, broken polls |
| Automation jobs (`automation/durable-runner.ts`, `jobs.ts`) | `automation_jobs`, blobs by token, per process Map of runs | create, claim, heartbeat, save, retry, sweep, remove | fencing, cleanup by winners and losers, wake-up without a timer |
| Callback outbox (`automation/callback-outbox.ts`) | `automation_callbacks`, wake timers | claim, send, settle, wake | at-least-once sending with a bound; crashed senders; late answers |
| Edge purge outbox (`edge/`) | `edge_purge_outbox`, token buckets | enqueue, merge, send, defer, settle | remainders, merged attempts, leases |
| Uploads (`uploads/`) | `uploads`, parts in blobs | reserve, put part, finalize, expire, cancel, sweep | budgets across owners and scopes; an expiry under a statement; parts that arrive during removal |
| Audit log (`audit/`), SIEM forwarding (`observability/siem.ts`) | hash chain, anchor, cursor | append, scan, anchor, trim, forward | anchor before trim, trim behind the cursor, overlapping ticks |
| Approvals (`approvals/`) | one JSON document per approval, reviewed and signed parts | submit, decide, withdraw, settle the file, sweep | concurrent read-modify-write of one document; two replicas that settle one file |
| Collaboration (`collab/`), version history (`versions/`) | live rooms in memory; lease, checkpoint, journal and receipts of a session row; revisions, versions | open, commit, refuse, close, release; save, delete | takeover of a lease, lost answers and repeated batches, saves between two rooms, versions after a delete |
| Identity, access, policy, catalog, brand, programmes, comments | keyed records | single statements and pure evaluation | little that interleaves |

Interaction. A route creates a render or a job and wakes its runner (a call); runners execute through the render
pipeline, which dispatches to a worker through the broker (a promise) or a synchronous call. A settled job,
render or batch stores its callback in the same transaction and wakes the callback outbox (a callback). Deliveries
and retention share the render rows. Everything auditable appends to one hash chain under one advisory lock.

What makes each part correct, and where it is stated: one final outcome and bytes behind every success
(`RenderQueue`, `RenderPromise`); a batch announced once, exactly when complete (`RenderBatch`); no job lost
between queue, lease and settled (`LeaseBroker`), a dispatch settled once by whichever of its timers, aborts and reports comes first
(`DispatchPromise`); results kept, litter removed, every job settled
(`AutomationJobs`, `JobPromise`); bounded, recorded, recoverable sending (`CallbackOutbox`, `DeliveryPromise`); no delivered output purged
(`RenderRetention`); nothing asked for forgotten (`EdgePurgeOutbox`); a finished upload whole, a deleted one clean, nothing
live without room (`Uploads`); a chain that verifies (`AuditLog`), numbers given once and no event deleted unsent (`LedgerPromise`); a state its votes justify
(`Approvals`) and a released file that is stored (`ApprovalFile`); every acknowledged edit in the document,
once (`SharedDocument`), and copies of it that agree (`CollabSession`).

| Module | Extends / uses | Checked by | Proved in |
|---|---|---|---|
| `RenderPromise` | abstract: what a render promises its client | as a property of `render_queue` | |
| `RenderQueue` | refines `RenderPromise` | `render_queue`, `render_stop_abort` | `RenderQueueProofs` |
| `RenderBatch` | | `services`, `batch_cancel_deadlock` | `RenderBatchProofs` |
| `DispatchPromise` | abstract: what the broker promises the pipeline | as a property of `services` | |
| `LeaseBroker` | broker, routes and workers composed; refines `DispatchPromise` | `services`, `live` | `LeaseBrokerProofs` |
| `RenderRetention` | | `live`, `retention_audit` | `OutgoingProofs` |
| `JobPromise` | abstract: what a job promises who submitted it | as a property of `jobs` | |
| `AutomationJobs` | refines `JobPromise` | `jobs`, `jobs_unheard` | `AutomationJobsProofs` |
| `DeliveryPromise` | abstract: what an entry of the outbox promises the subscriber | as a property of `callbacks` | |
| `CallbackOutbox` | refines `DeliveryPromise` | `callbacks`, `callbacks_wake` | `CallbackOutboxProofs` |
| `LedgerPromise` | abstract: what the log promises who appends and who receives | as a property of `services` | |
| `AuditLog` | log, forwarder and retention composed; refines `LedgerPromise` | `services` | `OutgoingProofs` |
| `Uploads` | | `services` | `RecordsProofs` |
| `EdgePurgeOutbox` | | `services` | `OutgoingProofs` |
| `Approvals` | | `services`, `approvals_reject` | `RecordsProofs` |
| `ApprovalFile` | | `services` | `RecordsProofs` |
| `SharedDocument` | abstract: what one document promises its editors | as a property of `services` | |
| `CollabSession` | rooms, recorder and REST composed; refines `SharedDocument` | `services`, `collab_mismatch` | `CollabSessionProofs` |

Two runs check several components at once. The components of `MCServices` share no state, so a behaviour of `services`
is one of a single component, chosen by `which` in the initial state, and the others stay as they started: TLC explores
the sum of eight state spaces, not their product, and every property of a component that does not move holds as in its
initial state. In each component the two actors of a kind, and the two things of a kind they work on, are the model
values `a1, a2` and `b1, b2`, which the components treat alike; `Symmetry` exchanges them. No property of the run is
about liveness. `MCLive` does the same for the two components whose liveness fits one run, with each fairness
condition restricted to the behaviours of its component, and without symmetry.

## The durable render queue

`RenderQueue` models `renders/runner.ts` together with the statements of `renders/postgres.ts` (and, where
the two agree, `renders/memory.ts`).

| Variable | Code |
|---|---|
| `row` | the `renders` table: state, attempt, lease token, whether `lease_until` (`live`) and `available_at` (`due`) allow, output |
| `blobs` | the blob store, by claim: `renders/<id>/attempt-<n>-<token>` |
| `work`, `result` | the physical work promise of each claim: execute, put, check, settle, clean up |
| `main` | the `run()` that races this promise against its abort signal |
| `abort` | the class (retryable or not) of the first reason the signal was aborted with |
| `owner`, `controllers`, `pass`, `proc` | per process: its runs, the abort-controller Map, the claim pass, up/stopping/down |

A claim is `<<render, n>>`, its n-th attempt: claiming increments the attempt and draws a fresh token, so the
pair names the token and the blob as well. The two tracks of an attempt are separate on purpose: `run()` may
settle a failure and free its caller while `execute()` ignores the abort, puts its bytes and tries to publish.

What the runs check. `render_queue` has one render, two attempts, two processes with one slot each and one outage
(crash or stop), so a claim can lapse under a live worker, be taken over, and have both workers put, settle and
clean up in every order, with every SQL answer possibly lost and every delete possibly failing. It checks the
safety properties, the inductive invariant, the refinement and that every accepted render ends.
`render_stop_abort` shows the defect of the controllers Map: a process with two slots takes over from itself, and
`stop()` then misses a run.

Bounds. Two attempts give one takeover and an exhausted render; a third attempt only repeats the takeover, and
renders of one table do not influence each other but through the slots of a process. `MaxOutages` bounds crashes
and stops, since a process that crashes for ever makes no progress. Nothing else is bounded: answers are lost and
deletes fail at any time. The theorems hold for any number of each.

Fairness. The poll interval keeps every process ticking (`WF` of its claim pass), a promise that can resume
does (`WF` of each claim's work and run), the run's own timer fires, and a stopped process is started again.
A lease is only assumed to lapse when nobody renews it any more: the heartbeat interval lives exactly as long
as the race.

What is proved, in `RenderQueueProofs`, for any renders, processes, attempt limit and number of outages. The
safety properties are not inductive; `IInv` strengthens them with the publication fence (a running row's token
is its last claim), with "a claim not handed out has no run" and with what each stage of the work says about
its blob (nothing stored before the put, something stored when it settles, the winner's work over). The proof
classifies steps: `QuietStep` covers every step that neither publishes nor claims, `WorkStep` every stage of
the work but publication. `TableStep` describes any step seen from the table only; from it follow that
completed renders are final and that every step maps to a step or a stutter of `RenderPromise`. That a success has its
bytes (`SucceededHasBytes`) follows from the promise, so the run does not check it a second time; it is a theorem of its own.

`PhysicalWorkBounded` counts work, the code counts runs (`active`), and a run that has answered its caller goes on
working. `SlotInv` relates the two: claims under work hold a slot of their process (`WorkHoldsSlot`); no more than
`Concurrency` hold one, and fewer while a claim pass is under way (`SlotsKept`), since a pass looks for a free slot
before it claims and nothing but the pass takes one; a process has at most one claim handed out and not started, the
one its pass waits for (`OneToStart`), so starting it takes exactly the slot the pass saw. Counting uses the facts
about finite sets only. Liveness is checked by TLC only.

Left out: the verification checks between execute and put (one permanent or transient failure stands for all),
the claim order by priority and age (any claimable row may be taken, as `skip locked` allows), idempotency
keys, and the wake-up timers `wakeAfter` and `kickAgain` (the poll interval is always there). Two failures lead to states
that others reach and are not actions of their own: a claim that throws without committing, or meets only locked rows, leaves what
there was before its tick; a hand-back of a claim whose answer is lost leaves what the settled one leaves, and one that
was not committed a running row whose lease lapses.

## Render batches and their callback

`RenderBatch` models `renders/batch-postgres.ts` with the two statements of `renders/postgres.ts` that make
renders terminal (`settleRender`, the exhaustion in `claimRender`) and `cancelRenderBatch`. The question is
whether a batch's callback entry is stored exactly when its last render is terminal, although the renders of
one batch finish in different transactions on different connections.

The model is the part of PostgreSQL this depends on, at READ COMMITTED: a transaction is a small program of
statements (`tx[t].phase`), each statement sees what is committed when it starts plus the transaction's own
writes, `UPDATE` takes row locks one at a time, in any order, and re-checks its `WHERE` on a row it had to wait
for, and locks are held until commit or rollback. `LockBatch` is `select … for update … order by b.id`; the
insert that follows is a new statement with a fresh snapshot, which is the point of the code: `BatchesReadOnly`
(the mutant without the lock) lets two transactions each miss the other's last row.

`live`, `done` and `known` hold committed rows only, `callbacks` the committed outbox entries. How a render
ended is not kept. A batch may share renders with an older one, as a retry does (`Rows` is a constant, given by
the MC module); renders are never reused otherwise.

`services` has, for this component, two independent batches of two renders, whose rows one exhaustion statement may finish together, and a
third batch that retries the first and shares a render with it; two connections work at once, and a transaction
may roll back at any point. Two connections suffice for what the lock is about: of two transactions that finish
the last rows, each must see the other's, or wait for it. `BatchPhaseMoves` says that whoever waits for
batch locks gets through: no cycle of waits includes one. `batch_cancel_deadlock` shows
that two multi-row updates without an order can each hold a row the other wants; PostgreSQL then aborts one of
them, so the effect in production is an error answer, not a hang.

What is proved, in `RenderBatchProofs`, for any finite number of batches and any renders and connections: that a batch is
announced exactly when it is complete, and that batch locks always move. `BatchInv` says for each phase of a transaction
what it holds. What it has updated is live and locked by it, so no two commits overlap. While it locks batches, the
ones still wanted are exactly those it has touched, and every one it holds comes before every one it lacks. When it
inserts, it holds every batch it touched, so no other transaction can end a row of those, and what it decided about a
batch it has visited is still true when it commits. A batch inserted meanwhile brings only rows that were not live, which is
why the set it looked up needs no second look. `BatchLocksMove` then takes the last batch anyone waits for: whoever holds it
waits for a later one, or for none. The proof assumes that there is a last batch, and needs the batch ids only to be
ordered; two multi-row updates may still wait for each other before they reach their batches (`batch_cancel_deadlock`).

Left out: validation of requests, the batch archive, and the callback's body.

## Pull dispatch to the render workers

`LeaseBroker` models three pieces of code together, because what goes wrong goes wrong between them:
`render/worker-leases.ts` (the broker, in the memory of one server process), `render/lease-routes.ts` (the HTTP
route that turns a granted promise into an answer, or back into a queued job when the worker hung up) and
`workers/render/src/pull.ts` (one polling loop per browser slot).

| Variable | Code |
|---|---|
| `queue`, `seq`, `leased`, `lapsed`, `overdue`, `reclaims` | the broker's queue, its Map of leases, and the two deadlines of a lease |
| `grants` | leases drawn for a job; `<<job, grants[job]>>` is the current token |
| `outcome`, `reply` | how the pipeline's promise settled, and with whose reply |
| `waiters`, `conn`, `granted` | open long-polls; the connection as the server sees it; a grant between `resolve()` and the route's next line |
| `phase`, `hold`, `sent` | the worker's slot, its lease, and result reports that may still arrive, late or twice |

The broker's functions are synchronous, so each is one action. What is not atomic is kept apart: the grant of a
waiting poll resolves a promise and the route runs later (`granted`, then `Answer` or `Abandon`); a worker's
death is visible to the server only later (`HangUp`, then `Abandon` or `WaitEnds`); an answer may be lost after
it was sent. `sent` only grows: a report is delivered any number of times, at any moment.

One queue stands for the pool map, since both worker calls of the pipeline need the pool `tier-b`. The next
incarnation of a worker process is another slot. Metrics, signatures and nonces are left out.

`services` checks every race on two jobs and two slots with one hang-up and one reclaim; two of each is what a
lease taken over, reported late and answered at once needs, and two jobs are enough for one to overtake the other.
`live` assumes of workers nothing at all: only the
broker's timers fire and only the route's continuation runs. `MaxHangUps` is a real bound there: a grant that
never reaches its worker is free of the reclaim budget and re-arms the queue timer (`abandon`), so a client that
hangs up for ever keeps a job alive for ever. The broker may stop (everything settled and closed), so deadlock
is not checked.

What is proved, in `LeaseBrokerProofs`, for any jobs, slots, reclaim budget and number of hang-ups. `IInv` adds
to the two invariants of the queue that a kept reply belongs to the last lease (`ReplyKept`), that a working slot
holds a lease (`WorkersHold`) and that a poll is a waiter, or has a grant, never both (`PollsAnsweredOnce`). The
lemmas on sequences say what inserting, removing and taking the head do to a queue without duplicates; `Assemble`
and `SettleStep` reduce each action to the few facts it disturbs.
`OldestFirst` needs the order of the queue (`OrderInv`): seqs are drawn from a counter, no two jobs share one, and the
queue is in their order. Removing a job and taking the head only thin the queue (`Thins`), which keeps any order. The
insertion is the delicate part: `Place` puts a job behind as many jobs as have a smaller seq, and in an ordered queue those
jobs are a prefix (`EarlierFirst`), so the place is the right one (`PlaceOrdered`). A grant that bypasses the queue happens
only when it is empty, because no poll waits beside a queued job.

`DispatchPromise` is the broker as the pipeline sees it: a call is taken while the broker is open, unless it was cancelled
before it came, leased any number of times, settled once, and answered, if at all, by the lease drawn last; only a call that was leased runs out of time or
of leases. `KeepsDispatch` takes the calls the broker numbered
(`Numbered`) for those it took; of these the unsettled ones are open, and they are those queued or leased. `BrokerKeepsPromise` shows each
step of the queue, the polls, the tokens and the timers to be a step of at most one call: a grant in the step of
another operation (a dispatch, a reclaim, an abandoned poll that finds a waiter) raises the leases of one open call and
settles nobody, a `Close` settles exactly those open, and a report that counts carries the current token. `SettlesOnce`
and `StaleReplyNeverCounts` are its two consequences that the code's comments speak of. Liveness is checked by TLC only.

## Durable automation jobs

`AutomationJobs` models `automation/durable-runner.ts`, the parts of `automation/jobs.ts` that drive it (create,
the interval of `enableDurable`, remove) and the job statements of `store/postgres.ts`.

| Variable | Code |
|---|---|
| `job` | `automation_jobs`: state, `lease_token` and `attempt` (which move together, so one number), whether `lease_until` lies ahead, `result_ref` by its token |
| `blobs` | stored bytes, by claim: the path contains the job and the token |
| `stage`, `home`, `aborted` | how far `run()` of each claim is, its process, its abort signal |
| `running`, `pass`, `again` | the Map keyed by job id, where `poll()` is between its awaits, `pollAgain` |
| `removal` | a DELETE request and what it read before it deleted |

`poll()` is cut at each await: the claim statement takes effect (`ClaimStatement`), the loop resumes later
(`Resume`, `ResumeEmpty`), in a process that may have been stopped meanwhile. A run is one chain of stages; the
catch of the code is `Undo` then `Fail`.

Scenes. The interesting situations need different bounds, and their union in one instance would be far larger than
their sum. `scene` is chosen once in `Init` and says which jobs, processes, retries, timer and how many faults
(lost answers, leases that lapse under a live attempt) and outages (crashes, stops) there are; TLC explores all
scenes in one run. The scenes are in `MCAutomationJobs`: takeovers between two processes without and with an
outage, a removal racing a takeover, an outage under a retry, and two jobs of one process without a timer. Every
scene meets the assumption that bounds claims, so `MaxClaims` never cuts a behaviour off. A put or delete may fail
at any time and is not counted.

Fairness. Statements are answered, runs go on, the interval (if the scene has one) ticks, a lease nobody renews
lapses and a process that went down comes back; `Stop` is followed by `Exit`. Nothing makes an executor succeed.

`jobs` checks that a published result keeps its bytes (`KeepsJobPromise`, from which `ResultKept` follows; each is a
theorem), that a settled job stays, that no litter remains when a job
is over or its `remove()` is, unless a put, delete or process failed, and that every job settles. `jobs_unheard` shows that an attempt
whose save committed unheard deletes the bytes it has just published: `ResultKept` excuses exactly these claims,
through the history variable `unheard`. Two more irregularities are reached by the model: `remove()` misses the bytes
of an attempt claimed and published after it read the row, which `NothingLeftBehind` allows and nothing else of a
removed job (it says that they are the last result, of a token later than the one read); and the Map keyed by job id
lets more than `width` executions run after a process took over from itself, which no property forbids.

What is proved, in `AutomationJobsProofs`, for any jobs, processes, width and scenes: `TypeOK`, `ResultKept`,
`NothingLeftBehind`, `SettledIsFinal` and the refinement of `JobPromise`. Two invariants carry them.

- `JobsInv` keeps an account of claims. That a job is claimed at most `retries + 1 + faults + 2 * outages` times is not
  inductive: a claim whose attempt can no longer record an outcome (`Charged`: its lease passed, it was aborted, its
  process is stopping) has already cost the next one, and a stopping process that asked for a job before it was told to
  stop may still claim one (`LastAsk`). `Paid` adds both, and every action is shown to pay for what it adds. The rest says
  that a claim is handed out once, to one process, and only claims that were handed out are in a Map or aborted.
- `BytesInv` says where bytes are. An attempt about to save as the current claim has its bytes stored; the result of a
  done job is of its last claim, whose attempt is past every step that deletes its own bytes unless it never heard of its
  success; and every stored path has somebody who will see to it: an attempt that still saves or deletes, an error that
  was counted in `leaked`, or the row, which names or named it as the result of its last claim. Of a job whose `remove()`
  is over such a path is of a later claim than the request had read of (`RemovalOver`).

The argument about late savers is the fence of `saveClaimedAutomationJob` together with the fact that a done or failed
job is never claimed again, so its last token stays the last. `EveryJobSettles` is liveness and stays with TLC.

`JobPromise` is the job as its submitter sees it: pending until done or failed, finally so until it is removed, its
result readable from the step that makes it done. The mapping (`Promise`) forgets claims, leases and processes: a
retry, a takeover, a lapse, a refused or repeated save, a crash and every put or sweep are stutters. The one irregular
step is `LoseResult`, the flaw of `jobs_unheard`: the promise allows it for a success that was never heard of, and not
a second reading after it. `NextPromise` needs both invariants (a save that makes a job done finds its bytes stored,
`BytesInv`; what is deleted is not the result, or its owner never heard) and one more, `UnheardPast`: an attempt that
never heard of its success is past its put, so no result that was lost comes back.

Left out: ownership and quotas of jobs, the in-memory mode, trimming of old jobs, the body of the result.

## The callback outbox

`CallbackOutbox` models `automation/callback-outbox.ts` with its statements in `store/postgres.ts` and the two ways
it is woken: a timer elsewhere (`polledOnTimer`, the scene's `timer`) or its own wake timer.

| Variable | Code |
|---|---|
| `entry` | `automation_callbacks`: state, attempt (and `lease_token`), whether `next_attempt_at` has come, lease, `last_outcome` |
| `stage`, `home` | the attempt of each claim: prepare, send, answer, end |
| `pass`, `again`, `wake` | `poll()` between its awaits, `pollAgain`, whether the wake timer is set |
| `asks` | calls of `scheduleWake` that await `nextAutomationCallbackAt`, counted by the answer they will get; answers arrive in any order |
| `seen` | requests the receiver got |

A lease is `none`, `live` or `ended`: an entry claimed with an ended lease is one whose sender never recorded its
outcome, which the claim records as `uncertain`. The code sizes the lease so that it outlives an attempt, so
`LeaseEnds` needs the attempt to be gone; `LeaseEndsLate`, a sender slower than its lease, counts as a fault, and
`OneSenderAtATime` excuses its entry.

`callbacks` checks four scenes: two processes with a timer and one fault or one outage, and one process without a
timer with two entries and a fault, or one entry and an outage. `asks` is bounded to one open question per process in
all scenes but is unbounded in the code; one is enough for the late answer, since a pass may end in between.
`callbacks_wake` shows that late answer: `nothing pending`, read before an entry existed, clears the timer a later
pass has set, so the outbox sleeps beside a pending entry. `EveryCallbackSettles` excuses that (history variable
`cleared`) and an entry never claimed after a store error without a timer, which the code accepts: it then waits
for the next settlement or start.

Fairness is as for jobs; the receiver may refuse or stay silent for ever, the limit of attempts ends it.

What is proved, in `CallbackOutboxProofs`, for any entries, processes, width, limit and scenes: `TypeOK`,
`OneSenderAtATime`, `UnrecordedIsUncertain`, `SettledIsFinal` and the refinement of `DeliveryPromise`. Two invariants carry them.

- `OutboxInv` keeps an account of claims, as for jobs. An entry whose lease was given up by a recorded answer has
  fewer than `Limit` claims; an entry that still has a lease had its next claim paid for by the lost statement, late
  lease or outage that keeps its last attempt from recording anything (`Charged`), and a stopping process whose claim
  statement is under way may still claim one more (`LastAsk`). So claims never reach the bound of the model.
- `SenderInv` is about claims in hand, held by a pass or worked on. Such a claim is the last of its entry and has its
  live lease, unless the lease ended under it (`overtaken`). Two requests of one entry are therefore one. A request is
  sent only within the limit, and the numbers of an entry's claims are distinct, so the receiver sees at most `Limit`
  of them. A claim past the limit can only follow an attempt that left its lease behind, which the claim records as
  uncertain and no later answer overwrites.

`DeliveryPromise` is an entry as its subscriber sees it: requests arrive while it is pending, at most `Limit` of them, and
it ends acknowledged, after an arrival, or failed. A process that ends leaves the requests of several entries on their
way at once, so one step may deliver several. After the end nothing arrives, unless a sender outlived its lease. Of the
step that stores or ends an entry, `StatusSteps` says what it maps to; of the two that send, `ArriveSteps` uses that the
claims of an entry within the limit are at most `Limit` (`FewWithinLimit`), whoever holds them.

The proof found a fault of the model: the bound on open questions was once a guard on each kind of answer, which let
their sum, and with two questions a single kind, outgrow it. It is now a guard on their sum (`OpenAsks`).
`EveryCallbackSettles` is liveness and stays with TLC.

Left out: the body and its signature, the delays (only that a retry is not due at once), the URL policy (a way
for `Prepare` to end without sending) and the removal of an entry together with its job.

## Retention of render outputs

`RenderRetention` models `renders/retention.ts`, its statements in `renders/postgres.ts` and the delivery of a
stored output by reference (`deliverRetainedOutput` in `api/app.ts`). A pass purges what was marked at least a grace
period before the pass began, unless a delivery names the render, and then marks what is older than the cutoff. Its
statements are separate actions, so passes of two processes (or of the timer and the admin route) interleave with
each other and with deliveries.

| Variable | Code |
|---|---|
| `old` | finished before the cutoff |
| `mark`, `purged` | `output.expiredAt` (none, within the grace, older) and `output.purgedAt` |
| `blobs` | renders whose bytes are stored |
| `delivery` | a request that has read the row, holds the bytes, stored its delivery or was refused |
| `sweep` | where each process's pass is: `before` is what its clock calls aged, `due` what is left, `on` the output deleted and not yet recorded |

`live` has, for this component, two outputs, one delivery and two processes with at most two faults, a pass that
stops at any point or a delivery slower than the grace. It shows that an output that a delivery names, or that carries no
mark, has its bytes, and that a marked output goes even if the pass that began it stopped.
`retention_audit` shows that a pass that stops between the mark and its audit events leaves expiries no one audits.
A delivery slower than the grace really can lose its bytes; `DeliveryKeepsOutput` excuses those renders (`slow`).

What is proved, in `OutgoingProofs`, for any outputs, deliveries and passes: type correctness and `DeliveryKeepsOutput`.
What a pass listed when it began is stale when it deletes, so `RetentionInv` says what may have happened to it since.
Nobody is still at work on an output whose mark is past the grace, unless slow (`GraceOver`); such a mark goes only when a
delivery names the output, and a delivery that is stored stays (`BeforeStands`); so what a pass is about to delete is still
marked and unnamed (`DueIsFree`), although it was read statements ago. Between its mark and its purge the bytes of an
output a delivery has fetched are stored (`FetchedKept`).

Fairness: the daily timer begins passes, a begun pass and a delivery go on, the grace ends. Left out: the limit of
500 rows (one more pass) and the other sweeps of `audit/retention.ts`.

## Uploads

`Uploads` models `uploads/routes.ts`, `scoped.ts` and `parts.ts` with the statements of `uploads/postgres.ts`. The record
is in PostgreSQL, the parts in the blob store, and a handler reads the record once and then awaits: everything it knows
may be old when it acts.

| Variable | Code |
|---|---|
| `record`, `life` | the row: absent, open, ready or deleted, and whether `expires_at` lies ahead |
| `stored` | the parts of each upload in the blob store |
| `put`, `final`, `removal` | handlers between two awaits: storing, touching or taking back a part; verifying parts; the two deletions of parts around the deletion of the row |
| `begun`, `cut` | history: uploads whose removal began, uploads one of whose handlers ended halfway |
| `straddled` | history: uploads that expired while a statement was keeping them alive |

An expired upload gives its room in the budgets away before it is swept, while its owner may still be sending; a PUT that
finds it gone takes its part back. Sizes are constants: `Charge` of an upload against `OwnerBudget` and `InstanceBudget`,
and `Largest`, the largest file of a scope that widens the limits of its own reservations (`approval-artifact`,
`brand-page`; `Widened` is the `Math.max` of `routes.ts`). So what is live may exceed a budget, and `BudgetsHold` says by how
much: what is live of an owner, and what is live in all, fits the limit that one of these uploads was reserved under. When
the wide one is gone, the rest fits the budget again. A file of exactly the largest size is charged its overhead as well,
so where it exceeds the budget it is refused even by an empty instance.

`touchUpload` and `completeUpload` compare `expires_at` with the time their statement began, without the reservations'
lock, and take effect when it commits: two actions each (`Touch` and `MoveExpiry`, `CompleteUpload` and `MarkReady`). An
upload that expires between the two is revived. Its room may have been given away, and another PUT that found it dead may
take back a part a finalize has counted. Both really happen, in a window of one statement; `straddled` keeps these uploads
and the two properties leave them out, and them only.

In `services` the first owner has two uploads, of charge 3 and 4, the second one in a scope of files up to 6; another owner has one,
of charge 2. The owner's budget is 3, the instance's 4. So the second upload is admitted only by its scope's limit, the two of
the first owner never have room together, the other owner's takes the instance's room from the first and leaves it to the second. A
PUT, a finalize and a removal run at once, and any of them may end halfway. Two parts are enough for one to be taken back
after the other was counted. Handlers of different uploads share nothing but the budgets, so in a behaviour one upload of the first owner
is sent, finished and removed (`MaxWorkedOn`) while the others, whichever they are, are reserved and expire.

What is proved, in `RecordsProofs`, for any uploads, parts and handlers: type correctness, that a live finished upload is
whole (`FinishedIsWhole`) and that a deleted one is clean (`DeletedIsClean`). The invariant says what each handler still
owes: a part in the store belongs to a present record, or a PUT will take it back, or a removal will delete it.
`MovesTheLive` is what a statement under way knows: its upload is live, or gone, or expired meanwhile.
`BudgetsKept` is the budgets, for any owners, charges and scopes. `BudgetsHold` is not inductive: when the wide upload goes,
nothing is said of the rest. `BudgetInv` says it of every set of live uploads (`Room`), which survives any loss
(`FewerHaveRoom`); a reservation counts what is live under its lock, so every set it is in fits its own limit (`OneMoreHasRoom`), and only a
reservation makes an upload live that did not straddle its expiry (`OnlyReserved`). `Total` states the sum of charges as the number of bytes charged, so that the library's
facts about finite sets bound it (`FewerCostNoMore`, `OneMoreCosts`) and no induction over the uploads is needed. Left out: lists, the metadata of file references, the erasure of an account.

## Edge purges

`EdgePurgeOutbox` models `edge/outbox.ts` and `edge/rate.ts` with their statements for one provider and one kind of purge.
A pass claims due rows, merges their items into requests, sends as many as its bucket allows, stores what is left as a
new row and settles the claimed rows one by one, each under its lease token.

| Variable | Code |
|---|---|
| `purge` | `edge_purge_outbox`: items, state, attempts (which are also the lease token), whether a lease holds |
| `drain` | a process's pass: rows claimed, items left, tokens its bucket is sure to hold, the result to record |
| `owed` | history: items asked for and not purged since |

Purging twice is harmless, forgetting is not. In `services` two processes share at most two rows with two items,
remainders included, with two attempts, a burst of two tokens and one pass that ends halfway or outlives its lease;
`NoItemLost` holds wherever the pass stops. A refill is a token the bucket may or may not have gained, so only the tokens
it is sure to hold are counted. `OutgoingProofs` proves the property for any processes, items, budget and attempts, and any
number of rows and of passes that stop: `EdgeInv` adds that every pass holding the present token of a pending row with an
owed item either has the item among those left to send or defer, or will not settle the row as done; the new row for the rest
is what lets `DeferRest` keep it. `ClaimsPaidFor` bounds the attempts: `AttemptInv` says that
every claim of a row past the permitted number is paid for by a pass that ended halfway or outlived its lease, so a row is
claimed at most `MaxAttempts + MaxEnds` times, which is where `EdgeTypes` takes its range from. Left out: the wake-up timers (a pass may begin at any moment; the outbox of callbacks
shows what `scheduleNext` can do wrong), the validation of an event and the adapters.

## The audit log, its forwarding and its retention

`AuditLog` composes three things that share one table: appends (`store` `appendAudit`), the ticks of
`observability/siem.ts` and the passes of `audit/retention.ts`. An event is its seq: its hash is a function of it and of
the chain before it, so a link holds exactly when seqs are consecutive, and a chain verifies from its anchor when the
rows that remain begin right after it.

| Variable | Code |
|---|---|
| `log`, `aged` | seqs in `audit_log`; those older than `auditDays` |
| `anchor`, `pass` | `audit_anchor`; the await a pass is at, with the anchor, cutoff and boundary it has read |
| `cursor`, `tick` | `siem_cursor`; a tick's cursor, batch and await |
| `received` | seqs the receiver has accepted, also when its answer got lost |
| `overlapped` | history: two passes were under way at once |

Two forwarders and two passes with different cutoffs and cursors interleave with appends in `services`, with three
events, scans of two rows and batches of one, so that a scan and a batch end before the log does. At most three of the
four are under way at a time (`MaxUnderWay` of `MCServices`): two passes and a tick, or two ticks and a pass, which is all
the properties relate. An older tick that
finishes last moves the cursor back; events are then sent again but none is trimmed unsent
(`KeepsLedger`, and `NothingTrimmedUndelivered` for every event at once). A pass alone, ended at any await or not, leaves a chain that verifies from the anchor.
With two at once the later anchor may lie below rows the other has trimmed, and the model reaches that, so
`OnePassKeepsTheChain` speaks of behaviours without overlap. `SeqsGoOn` is the boundary case of a quiet instance: a trim
never empties the table, so seqs are not drawn again.

`LedgerPromise` is what remains of all this for who appends and who receives: events are numbered 1, 2, 3 as they come,
the receiver gets nothing else, and what the log drops is a prefix that was delivered and never holds the last event. No
anchor, cursor, batch or tick is left in it, and so it says nothing of the chain, for which `OnePassKeepsTheChain` stands.

What is proved, in `OutgoingProofs`, for any passes, ticks and batch sizes: the refinement (`AuditKeepsLedger`), the chain
under one pass, that no number is given twice and that nothing is trimmed unsent. A trim is the delicate step of
the refinement: its boundary was read long before, the cursor may have moved back since and another pass may have
trimmed past it; then it drops nothing, and otherwise its boundary is a row and all up to it was received. The invariant says
that the log is an interval, that anchor and cursors lie below its end, what a pass at each await may assume of its
boundary, and that everything up to any cursor, stored or remembered, was received. Left out: keys and MACs, conditional
appends, checkpoints of the head, the other sweeps of a retention run.

## Approvals and the file they release

`Approvals` is the engine of `approvals/engine.ts` as pure operators (`ApplyAction`, `StepClears`) inside the routes of
`api/app.ts`: a handler reads the approval, decides on what it read, and `putApproval` stores the whole document. The
chain is a constant: in the runs a step that takes two of three people and a step of one, with a nominee at the first.
`VotesJustifyState` relates the stored state to the stored votes whatever writes were lost; it is what is left of the
engine's correctness under concurrency. `approvals_reject` shows what is not: an approval read before a rejection and
written after it removes the rejection, which the documentation calls terminal. `MaxVotes` is enough for every step of the
chain to clear and one vote more.

What is proved, in `RecordsProofs`, for any chain, people and handlers: `VotesJustifyState`. A handler may write back a copy
read any number of writes ago, so nothing relates the copies to each other; what holds is that the stored request and the
copy in each handler's hands are `Justified` by the votes they carry themselves (every vote was allowed at its step, every
step passed is met, a rejection is last, an open state fits its step). The engine keeps that (`DecisionJustified`), because
what it counts as cleared is what the votes meet (`ClearsIsMet`) and a vote at one step changes no other (`OtherStepsKeep`);
overwriting the whole document then only replaces one justified request by another.

`ApprovalFile` is what follows an approval (`approvals/export-review.ts`): the reviewed bytes are signed and recorded
once, by the decision or by a download, in any replica; a sweep takes the file back after its retention. Two replicas
and two sweeps meet in `services`. `RecordedFileStored` is proved in `RecordsProofs` for any number of them: within its
retention the recorded file is stored, since a replica that lost drops only what it signed itself. Past it the model
reaches a record without bytes and parts that no sweep lists (an open hazard of `PROJECT.json`).

Left out: notifications, the file a withdrawal deletes, and what an approval changes elsewhere.

## Live rooms, saves and versions of a document

`CollabSession` is one row of `sessions` with everything that writes it: rooms with a store (`collab/rooms.ts` and its
statements), the recorder of versions (`versions/recorder.ts`), and PUT and DELETE (`api/app.ts`). The document is the set
of edits in it; how concurrent operations merge is not the question here, which is whether an edit someone was told
about is there.

| Variable | Code |
|---|---|
| `document`, `owned` | the row: `rev`, inputs, `deleted_at`; `collab_owner` and whether `collab_lease_until` lies ahead |
| `saved`, `journal`, `receipt` | `collab_checkpoints` (its revision and the head it reaches), `collab_journal`, `collab_receipts` |
| `revisions`, `versioned` | `session_revisions`; whether a `session_versions` row exists |
| `room` | per room: the await of `open`, `applyBatch` or `quiesce` it is at, `durableRevision`, its document, `closed`, `leaseLost`, the recorder |
| `saver`, `deleter` | PUT requests with the revision they read; a DELETE between the tombstone and the versions |
| `told`, `denied`, `contentAt` | history: edits reported stored or refused; the content at each revision |

A room is used once: a process that opens the document again is another room with another owner id. `LeaseEnds` is free
when the owner is gone and a mishap when it lives; a renewal sent before a room closed may land after its release. An
operation with several statements is cut at each await; `commitCollab`, `commitSessionRevision` and `commitCollabReceipts`
are one transaction each.

`services` has two rooms, two edits that any client may send again, one saver and one deleter, one mishap (a crash, a lost
answer, a lease that lapses under its room, a request that stops) and revisions up to four: a takeover, a save between two
rooms, a checkpoint followed by a journal row and a repeated batch all happen. `KeepsDocument`, `RecordsAgree` and
`VersionsGoWithDocument` hold. `collab_mismatch` shows that a commit whose answer is lost leaves the room behind its row
while it still holds the lease: the source says this cannot be, and while another member is seated every later batch of
the room fails. `MaxRevision` also means that nothing is written past the fourth revision; rooms still open, replay and
close there.

`SharedDocument` is the document as its editors see it, without rooms, leases, checkpoints or revisions: an edit is added
once and to all that is there, who is told that it is in finds it in, who is told that it is refused is right for good,
and a deleted document does not change.

What is proved, in `CollabSessionProofs`, for any rooms, edits, savers, revisions and mishaps: the refinement
(`CollabKeepsDocument`, and its consequence `NoEditLost` as an invariant) and the two other properties of `services`. The argument is about `contentAt`, the content at each revision, which only grows. `CollabInv` says that every
copy of the document still in use is the content at the revision it is held under: a room's at each await where it may yet
write or tell (not after it closed over an unheard commit, when its document is behind), the one the checkpoint and its
journal rebuild, the row read for a revision. A room that has read a checkpoint and waits for the journal needs a clause of
its own: a commit meanwhile either adds a journal row past the head it read or removes the rows it needs, so the journal it
then reads is refused as not contiguous. Receipts say exactly which edits are in the row, which is why a batch sent again
is answered rightly. The refinement adds only what makes one step one item (`Editing`): a room that writes or refuses has one
edit at hand, and a saver's edit is in only when its PUT was handled; that a commit adds to the document as it is, and not
as the room remembers it, is `CollabInv` at the `write` await under the fence. `CollabTypes` adds with `FitInv` that no copy is of a revision past the bound and what the remaining
variables may hold.

Left out: editing claims, presence, restore of a version through a room, limits and thinning of versions, the recovery
snapshots of `collab/persistence.ts` (written only by rooms without a store).

## Plan

Order, by how much of the system's state depends on the part and how little its tests can reach:

1. `RenderPromise`, `RenderQueue`, `LeaseBroker`, `RenderBatch` (the render path), with proofs: done.
2. `AutomationJobs`, `CallbackOutbox`, `RenderRetention` (what follows a settled render or job): done.
3. `EdgePurgeOutbox`, `AuditLog`, `Approvals`, `ApprovalFile`, `Uploads`, with proofs where the argument is about any
   number of actors: done.
4. `CollabSession` (rooms, saves, versions), with proofs: done.
5. Restore of a version through a room and by compare-and-set, editing claims (`collab/claims.ts`), the browser's
   lifecycle in a worker (`workers/render/src/browser-lifecycle.ts`), device codes (`iam/device-auth.ts`): open.

In the modelled parts these have no property of their own: a batch retry that decides from an output read earlier
(`renders/batch.ts:118`); a job's total wait when its grants keep being lost, since `abandon` re-arms the queue timer
(`render/worker-leases.ts:280`); a process running more than `width` jobs after it took over from itself, and a claim in
flight when the runner stops, whose run nobody aborts (`automation/durable-runner.ts:42`; the model reaches both); a
grace shortened by the length of the pass, since `expiredAt` is the clock at its start (`renders/retention.ts:45`); two
overlapping retention passes that move the audit anchor back (`audit/retention.ts:133`; the model reaches it).

Composition. `RenderQueue` and `RenderBatch` meet in the transaction that ends a render, and `RenderBatch`,
`AutomationJobs` and `CallbackOutbox` meet in the entry stored with it. The modules keep these sides apart: a queue
sees one row's transition, the batch the transactions around it, the outbox an entry that appears.

Abstract specifications stated: what a render, a job, a callback entry, a dispatch, the audit log and a shared document
promise (`RenderPromise`, `JobPromise`, `DeliveryPromise`, `DispatchPromise`, `LedgerPromise`, `SharedDocument`), each refined by its component, checked and proved.

Theorems worth proving next: that an item of the edge outbox is in one row's charge at a time; the prefix of the audit chain that a reader can verify at
any moment; and, once written, what restoring a version does to `RecordsAgree`.

Only model-checked. Liveness: each run's fairness and why the code gives it are named with its module, and the provers here
do not do `WF` or `ENABLED` (`EveryRenderSettles`, `EveryJobSettles`, `EveryCallbackSettles`, `EveryDispatchSettles`,
`MarkedOutputGoes`). `ServicesTypeOK` is the conjunction of the components' type
invariants over the composition in `MCServices`. Each of them is proved in its component's proof module, as a theorem
(`EdgeTypes`, `CollabTypes`) or as part of its inductive invariant; the conjunction itself exists for that run only, where
one component moves at a time. What a recursive function computes for every input would need induction over data, which the
provers cannot instantiate; no theorem rests on such a definition, and sums are cardinalities. Every other property of a
passing run is a listed theorem.

Not modelled, and why: parsing, mapping, rendering, signing and drivers of external services keep no state that
interleaves; authorization and policy are pure functions of documents, well covered by tests over inputs; console,
scripts and deployment are clients and files. `PROJECT.json` gives the reason for every component.
