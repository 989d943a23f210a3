----------------------------- MODULE RenderBatch -----------------------------
(***************************************************************************)
(* Batch callbacks (renders/batch-postgres.ts).  The transaction that makes *)
(* renders terminal also stores the outbox entry of every batch it         *)
(* completes.  Transactions run under READ COMMITTED: every statement sees *)
(* what is committed when it starts, plus the transaction's own writes; an *)
(* UPDATE takes row locks one by one and re-checks its WHERE on a row it    *)
(* had to wait for.                                                        *)
(***************************************************************************)
EXTENDS Integers, FiniteSets

CONSTANTS
    Renders,    \* render ids
    Batches,    \* batch ids, in the order of `order by b.id`
    Rows,       \* Rows[b]: the renders of batch b
    Txs,        \* database connections
    NoTx

\* Finitely many batches, numbered in the order of their ids: there is a last one.
ASSUME BatchesAssumption ==
    /\ Batches \subseteq Nat
    /\ Batches # {} => \E last \in Batches : \A b \in Batches : b <= last
ASSUME RowsAssumption == Rows \in [Batches -> (SUBSET Renders) \ {{}}]
ASSUME NoTxAssumption == NoTx \notin Txs

VARIABLES
    live,       \* renders committed and not terminal
    done,       \* renders committed as terminal
    known,      \* committed batches
    callbacks,  \* batches with a committed outbox entry
    rowLock,    \* row locks on renders
    batchLock,  \* row locks on render_batches
    tx          \* per connection: the transaction it runs

batchVars == <<live, done, known, callbacks, rowLock, batchLock, tx>>

BatchPhases == {"idle", "rows", "batches", "insert"}

\* kind: which writer; todo: rows its UPDATE still has to visit; got: rows it
\* updated; btodo: batches still to lock, then to insert for; owed: entries it
\* has inserted, not committed.
TxType == [phase: BatchPhases, kind: {"none", "settle", "exhaust", "cancel"},
           todo: SUBSET Renders, got: SUBSET Renders,
           btodo: SUBSET Batches, owed: SUBSET Batches]

IdleTx == [phase |-> "idle", kind |-> "none", todo |-> {}, got |-> {}, btodo |-> {}, owed |-> {}]

BatchTypeOK ==
    /\ live \subseteq Renders /\ done \subseteq Renders /\ live \cap done = {}
    /\ known \subseteq Batches /\ callbacks \subseteq Batches
    /\ rowLock \in [Renders -> Txs \cup {NoTx}]
    /\ batchLock \in [Batches -> Txs \cup {NoTx}]
    /\ tx \in [Txs -> TxType]

BatchInit ==
    /\ live = {} /\ done = {} /\ known = {} /\ callbacks = {}
    /\ rowLock = [r \in Renders |-> NoTx]
    /\ batchLock = [b \in Batches |-> NoTx]
    /\ tx = [t \in Txs |-> IdleTx]

-----------------------------------------------------------------------------
\* Mutant: a retry queues its finished children again.
InsertBatchAgain(b) ==
    /\ b \notin known
    /\ known' = known \cup {b}
    /\ live' = live \cup Rows[b]
    /\ UNCHANGED <<done, callbacks, rowLock, batchLock, tx>>

\* insertRenderBatch: parent, members and new children become visible together.
\* A retry reuses children that are terminal; at least one child is new.
InsertBatch(b) ==
    LET fresh == Rows[b] \ done IN
    /\ b \notin known
    /\ fresh # {} /\ fresh \cap live = {}
    /\ known' = known \cup {b}
    /\ live' = live \cup fresh
    /\ UNCHANGED <<done, callbacks, rowLock, batchLock, tx>>

Begin(t, kind, scan) ==
    /\ tx[t] = IdleTx /\ scan # {}
    /\ tx' = [tx EXCEPT ![t] = [IdleTx EXCEPT !.phase = "rows", !.kind = kind, !.todo = scan]]
    /\ UNCHANGED <<live, done, known, callbacks, rowLock, batchLock>>

\* settleRender or cancelRender of one row.
BeginSettle(t) == \E r \in live : Begin(t, "settle", {r})

\* claimRender's first statement: every row that is exhausted when it starts.
BeginExhaust(t) == \E scan \in SUBSET live : Begin(t, "exhaust", scan)

BeginCancel(t) == \E b \in known : Begin(t, "cancel", Rows[b] \cap live)

\* The UPDATE reaches a row, in whatever order its plan visits them.  A row
\* that became terminal meanwhile no longer matches and is skipped.
UpdateRow(t) ==
    \E r \in tx[t].todo :
        /\ rowLock[r] = NoTx
        /\ IF r \in live
           THEN /\ rowLock' = [rowLock EXCEPT ![r] = t]
                /\ tx' = [tx EXCEPT ![t].todo = @ \ {r}, ![t].got = @ \cup {r}]
           ELSE /\ tx' = [tx EXCEPT ![t].todo = @ \ {r}]
                /\ UNCHANGED rowLock
        /\ UNCHANGED <<live, done, known, callbacks, batchLock>>

\* appendFinishedCallbacks: nothing to do, or find the batches to lock.
FindBatches(t) ==
    /\ tx[t].phase = "rows" /\ tx[t].todo = {}
    /\ LET touched == {b \in known : Rows[b] \cap tx[t].got # {}} IN
        tx' = [tx EXCEPT ![t] =
                  IF tx[t].got = {} THEN IdleTx
                  ELSE [tx[t] EXCEPT !.phase = "batches", !.btodo = touched]]
    /\ UNCHANGED <<live, done, known, callbacks, rowLock, batchLock>>

Mine(t) == {b \in Batches : batchLock[b] = t}

First(bs) == CHOOSE b \in bs : \A c \in bs : b <= c

\* Mutant: batches locked in no particular order.
LockBatchUnordered(t) ==
    /\ tx[t].phase = "batches"
    /\ \E b \in tx[t].btodo \ Mine(t) :
        /\ batchLock[b] = NoTx
        /\ batchLock' = [batchLock EXCEPT ![b] = t]
    /\ UNCHANGED <<live, done, known, callbacks, rowLock, tx>>

\* select ... order by b.id for update of b
LockBatch(t) ==
    /\ tx[t].phase = "batches" /\ tx[t].btodo \ Mine(t) # {}
    /\ LET b == First(tx[t].btodo \ Mine(t)) IN
        /\ batchLock[b] = NoTx
        /\ batchLock' = [batchLock EXCEPT ![b] = t]
    /\ UNCHANGED <<live, done, known, callbacks, rowLock, tx>>

\* Mutant: the batches are read without `for update`.
BatchesReadOnly(t) ==
    /\ tx[t].phase = "batches"
    /\ tx' = [tx EXCEPT ![t].phase = "insert"]
    /\ UNCHANGED <<live, done, known, callbacks, rowLock, batchLock>>

BatchesLocked(t) ==
    /\ tx[t].phase = "batches" /\ tx[t].btodo \subseteq Mine(t)
    /\ tx' = [tx EXCEPT ![t].phase = "insert"]
    /\ UNCHANGED <<live, done, known, callbacks, rowLock, batchLock>>

\* insert ... where not exists (a queued or running row): a fresh snapshot.
InsertCallback(t) ==
    /\ tx[t].phase = "insert" /\ tx[t].btodo # {}
    /\ LET b == First(tx[t].btodo)
           complete == Rows[b] \cap live \subseteq tx[t].got
       IN tx' = [tx EXCEPT ![t].btodo = @ \ {b},
                           ![t].owed = IF complete THEN @ \cup {b} ELSE @]
    /\ UNCHANGED <<live, done, known, callbacks, rowLock, batchLock>>

ReleaseLocks(t) ==
    /\ rowLock' = [r \in Renders |-> IF rowLock[r] = t THEN NoTx ELSE rowLock[r]]
    /\ batchLock' = [b \in Batches |-> IF batchLock[b] = t THEN NoTx ELSE batchLock[b]]
    /\ tx' = [tx EXCEPT ![t] = IdleTx]

Commit(t) ==
    /\ tx[t].phase = "insert" /\ tx[t].btodo = {}
    /\ live' = live \ tx[t].got
    /\ done' = done \cup tx[t].got
    /\ callbacks' = callbacks \cup tx[t].owed
    /\ ReleaseLocks(t)
    /\ UNCHANGED known

\* A statement failed, the connection broke, or this is a deadlock's victim.
Rollback(t) ==
    /\ tx[t].phase # "idle"
    /\ ReleaseLocks(t)
    /\ UNCHANGED <<live, done, known, callbacks>>

Forward(t) ==
    \/ UpdateRow(t) \/ FindBatches(t)
    \/ LockBatch(t) \/ BatchesLocked(t) \/ InsertCallback(t) \/ Commit(t)

BatchNext ==
    \/ \E b \in Batches : InsertBatch(b)
    \/ \E t \in Txs : \/ BeginSettle(t) \/ BeginExhaust(t) \/ BeginCancel(t)
                      \/ Forward(t) \/ Rollback(t)

BatchSpec == BatchInit /\ [][BatchNext]_batchVars

-----------------------------------------------------------------------------
(* Properties.                                                             *)

BatchDone(b) == b \in known /\ Rows[b] \subseteq done

\* A batch is announced exactly when its last row has finished: not while a
\* row is live, and never forgotten because two last rows finished at once,
\* each in a transaction that could not see the other.
AnnouncedIffComplete == \A b \in Batches : b \in callbacks <=> BatchDone(b)

\* Whoever has reached its batches gets through: some transaction in that
\* phase can move, so no cycle of waits ever includes a batch lock.
BatchPhaseMoves ==
    LET waiting == {t \in Txs : tx[t].phase = "batches"} IN
    waiting # {} =>
        \/ \E t \in waiting : tx[t].btodo \subseteq Mine(t)
        \/ \E t \in waiting : batchLock[First(tx[t].btodo \ Mine(t))] = NoTx
        \/ \E t \in Txs : tx[t].phase = "insert"

Stuck(t, u) ==
    /\ tx[t].phase = "rows" /\ tx[t].todo # {}
    /\ \A r \in tx[t].todo : rowLock[r] = u

\* A batch cancel never deadlocks with another writer.
CancelNeverDeadlocks ==
    \A t, u \in Txs : t # u /\ tx[t].kind = "cancel" => ~(Stuck(t, u) /\ Stuck(u, t))
=============================================================================
