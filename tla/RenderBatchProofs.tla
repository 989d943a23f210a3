---------------------------- MODULE RenderBatchProofs ----------------------------
(***************************************************************************)
(* A batch is announced exactly when it is complete, and nobody who has    *)
(* reached its batches waits in a circle, for any batches, renders and     *)
(* connections.  Neither property is inductive: BatchInv adds what one     *)
(* transaction holds in each of its phases (TxInv).                        *)
(***************************************************************************)
EXTENDS RenderBatch, WellFoundedInduction, TLAPS

\* The batches that have a row which t has made terminal.
Touched(t) == {b \in known : Rows[b] \cap tx[t].got # {}}

\* What t has updated it holds, and no other transaction can end it.
HoldsRows(t) == \A r \in tx[t].got : r \in live /\ rowLock[r] = t

BeforeBatches(t) ==
    /\ Mine(t) = {} /\ tx[t].btodo = {} /\ tx[t].owed = {}
    /\ tx[t].phase = "idle" => tx[t] = IdleTx

\* It locks the batches it touched from the first one on.
LockingBatches(t) ==
    /\ tx[t].todo = {} /\ tx[t].owed = {} /\ tx[t].btodo = Touched(t)
    /\ Mine(t) \subseteq tx[t].btodo
    /\ \A b \in Mine(t), c \in tx[t].btodo \ Mine(t) : b < c

\* It holds every batch it touched, and has decided for those it has visited.
Inserting(t) ==
    /\ tx[t].todo = {} /\ Touched(t) \subseteq Mine(t) /\ tx[t].btodo \subseteq Touched(t)
    /\ tx[t].owed = {b \in Touched(t) \ tx[t].btodo : Rows[b] \cap live \subseteq tx[t].got}

TxInv(t) ==
    /\ HoldsRows(t)
    /\ tx[t].phase \in {"idle", "rows"} => BeforeBatches(t)
    /\ tx[t].phase = "batches" => LockingBatches(t)
    /\ tx[t].phase = "insert" => Inserting(t)

RowsKnown == \A b \in known : Rows[b] \subseteq live \cup done

BatchInv ==
    /\ BatchTypeOK /\ RowsKnown /\ AnnouncedIffComplete
    /\ \A t \in Txs : TxInv(t)

-----------------------------------------------------------------------------
(* Helpers.                                                                *)

LEMMA LeastNatural ==
    ASSUME NEW ns \in SUBSET Nat, ns # {}
    PROVE  \E n \in ns : \A m \in ns : n <= m
<1> DEFINE less == OpToRel(<, Nat)
<1>1. PICK n \in ns : \A m \in ns : ~(<<m, n>> \in less)
  <2>1. IsWellFoundedOn(less, Nat)
    BY NatLessThanWellFounded
  <2> HIDE DEF less
  <2> QED BY <2>1, WFMin
<1>2. less = {p \in Nat \X Nat : p[1] < p[2]}
  BY DEF OpToRel
<1> HIDE DEF less
<1>3. ASSUME NEW m \in ns PROVE n <= m
  <2>1. ~(<<m, n>> \in less) /\ m \in Nat /\ n \in Nat
    BY <1>1
  <2>2. m < n => <<m, n>> \in {p \in Nat \X Nat : p[1] < p[2]}
    BY <2>1, SMT
  <2>3. ~(m < n)
    BY <1>2, <2>1, <2>2, Zenon
  <2> QED BY <2>1, <2>3
<1> QED BY <1>3

LEMMA FirstIsLeast ==
    ASSUME NEW bs \in SUBSET Batches, bs # {}
    PROVE  First(bs) \in bs /\ \A c \in bs : First(bs) <= c
<1>1. \E b \in bs : \A c \in bs : b <= c
  BY BatchesAssumption, LeastNatural
<1> QED BY <1>1 DEF First

\* Any set of batches has a last one.
LEMMA LastExists ==
    ASSUME NEW bs \in SUBSET Batches, bs # {}
    PROVE  \E m \in bs : \A c \in bs : c <= m
<1>1. PICK last \in Batches : \A b \in Batches : b <= last
  BY BatchesAssumption
<1>2. \A b \in bs : b \in Nat /\ last - b \in Nat
  BY <1>1, BatchesAssumption
<1>3. PICK g \in {last - b : b \in bs} : \A h \in {last - b : b \in bs} : g <= h
  BY <1>2, LeastNatural
<1>4. PICK m \in bs : g = last - m
  BY <1>3
<1>5. ASSUME NEW c \in bs PROVE c <= m
  <2>1. c \in Nat /\ m \in Nat /\ last \in Nat
    BY <1>1, BatchesAssumption
  <2>2. g <= last - c
    BY <1>3
  <2> QED BY <1>4, <2>1, <2>2
<1> QED BY <1>5

\* What another step must leave alone for a transaction to keep its invariant.
LEMMA TxKept ==
    ASSUME NEW t \in Txs, TxInv(t), tx'[t] = tx[t], Mine(t)' = Mine(t),
           \A r \in tx[t].got : r \in live' /\ rowLock'[r] = rowLock[r],
           Touched(t)' = Touched(t),
           tx[t].phase = "insert" => \A b \in Touched(t) : Rows[b] \cap live' = Rows[b] \cap live
    PROVE  TxInv(t)'
<1>1. HoldsRows(t)'
  BY DEF TxInv, HoldsRows
<1>2. ASSUME tx[t].phase \in {"idle", "rows"} PROVE BeforeBatches(t)'
  BY <1>2 DEF TxInv, BeforeBatches, IdleTx
<1>3. ASSUME tx[t].phase = "batches" PROVE LockingBatches(t)'
  BY <1>3 DEF TxInv, LockingBatches
<1>4. ASSUME tx[t].phase = "insert" PROVE Inserting(t)'
  BY <1>4 DEF TxInv, Inserting
<1> QED BY <1>1, <1>2, <1>3, <1>4 DEF TxInv

\* The other transactions when t only changes its own record and takes free locks.
LEMMA OthersKept ==
    ASSUME BatchInv, NEW t \in Txs, NEW new, tx' = [tx EXCEPT ![t] = new],
           UNCHANGED <<live, known>>,
           \A u \in Txs \ {t} : Mine(u)' = Mine(u) /\ \A r \in Renders : rowLock[r] = u => rowLock'[r] = u
    PROVE  \A u \in Txs \ {t} : TxInv(u)'
<1> SUFFICES ASSUME NEW u \in Txs \ {t} PROVE TxInv(u)'
  OBVIOUS
<1>1. tx'[u] = tx[u] /\ TxInv(u) /\ tx[u].got \subseteq Renders
  BY DEF BatchInv, BatchTypeOK, TxType
<1>2. Touched(u)' = Touched(u)
  BY <1>1 DEF Touched
<1>3. \A r \in tx[u].got : r \in live' /\ rowLock'[r] = rowLock[r]
  BY <1>1 DEF TxInv, HoldsRows
<1> QED BY <1>1, <1>2, <1>3, TxKept

\* A transaction that changes nothing committed leaves the announcements right.
LEMMA NothingCommitted ==
    ASSUME BatchInv, UNCHANGED <<live, done, known, callbacks>>
    PROVE  RowsKnown' /\ AnnouncedIffComplete'
BY DEF BatchInv, RowsKnown, AnnouncedIffComplete, BatchDone

-----------------------------------------------------------------------------
(* One lemma per action.                                                   *)

LEMMA InsertBatchInv == ASSUME BatchInv, NEW b \in Batches, InsertBatch(b) PROVE BatchInv'
<1> DEFINE fresh == Rows[b] \ done
<1>1. /\ b \notin known /\ fresh # {} /\ fresh \cap live = {}
      /\ known' = known \cup {b} /\ live' = live \cup fresh
      /\ done' = done /\ callbacks' = callbacks /\ rowLock' = rowLock /\ batchLock' = batchLock /\ tx' = tx
  BY DEF InsertBatch
<1>2. \A c \in Batches : Rows[c] \subseteq Renders
  BY RowsAssumption
<1>3. BatchTypeOK'
  BY <1>1, <1>2 DEF BatchInv, BatchTypeOK
<1>4. RowsKnown'
  BY <1>1 DEF BatchInv, RowsKnown
<1>5. AnnouncedIffComplete'
  <2> SUFFICES ASSUME NEW c \in Batches PROVE (c \in callbacks <=> BatchDone(c))'
    BY DEF AnnouncedIffComplete
  <2>1. c \in callbacks <=> c \in known /\ Rows[c] \subseteq done
    BY DEF BatchInv, AnnouncedIffComplete, BatchDone
  <2>2. c = b => ~(Rows[c] \subseteq done)
    BY <1>1
  <2> QED BY <1>1, <2>1, <2>2 DEF BatchDone
<1>6. ASSUME NEW t \in Txs PROVE TxInv(t)'
  <2>1. TxInv(t) /\ \A r \in tx[t].got : r \in live
    BY DEF BatchInv, TxInv, HoldsRows
  <2>2. Rows[b] \cap tx[t].got = {}
    BY <1>1, <2>1 DEF BatchInv, BatchTypeOK
  <2>3. Touched(t)' = Touched(t)
    BY <1>1, <2>2 DEF Touched
  <2>4. \A c \in Touched(t) : Rows[c] \cap live' = Rows[c] \cap live
    BY <1>1 DEF Touched, BatchInv, RowsKnown
  <2>5. Mine(t)' = Mine(t)
    BY <1>1 DEF Mine
  <2> QED BY <1>1, <2>1, <2>3, <2>4, <2>5, TxKept
<1> QED BY <1>3, <1>4, <1>5, <1>6 DEF BatchInv

LEMMA BeginInv ==
    ASSUME BatchInv, NEW t \in Txs, NEW kind \in {"settle", "exhaust", "cancel"},
           NEW scan \in SUBSET Renders, Begin(t, kind, scan)
    PROVE  BatchInv'
<1> DEFINE new == [IdleTx EXCEPT !.phase = "rows", !.kind = kind, !.todo = scan]
<1>1. /\ tx[t] = IdleTx /\ tx' = [tx EXCEPT ![t] = new]
      /\ UNCHANGED <<live, done, known, callbacks, rowLock, batchLock>>
  BY DEF Begin
<1>2. IdleTx \in TxType
  BY DEF IdleTx, TxType, BatchPhases
<1>3. /\ new \in TxType /\ new.phase = "rows"
      /\ new.got = {} /\ new.btodo = {} /\ new.owed = {}
  <2>1. new \in TxType /\ new.phase = "rows" /\ new.got = IdleTx.got
        /\ new.btodo = IdleTx.btodo /\ new.owed = IdleTx.owed
    BY <1>2 DEF TxType, BatchPhases
  <2> QED BY <2>1 DEF IdleTx
<1> HIDE DEF new
<1>4. BatchTypeOK' /\ tx'[t] = new
  BY <1>1, <1>3 DEF BatchInv, BatchTypeOK
<1>5. \A u \in Txs \ {t} : TxInv(u)'
  BY <1>1, OthersKept DEF Mine
<1>6. Mine(t) = {}
  BY <1>1 DEF BatchInv, TxInv, BeforeBatches, IdleTx
<1>7. TxInv(t)'
  BY <1>1, <1>3, <1>4, <1>6 DEF TxInv, HoldsRows, BeforeBatches, Mine
<1> QED BY <1>1, <1>4, <1>5, <1>7, NothingCommitted DEF BatchInv

LEMMA UpdateRowInv == ASSUME BatchInv, NEW t \in Txs, UpdateRow(t) PROVE BatchInv'
<1>1. PICK r \in tx[t].todo :
        /\ rowLock[r] = NoTx
        /\ \/ /\ r \in live /\ rowLock' = [rowLock EXCEPT ![r] = t]
              /\ tx' = [tx EXCEPT ![t].todo = @ \ {r}, ![t].got = @ \cup {r}]
           \/ rowLock' = rowLock /\ tx' = [tx EXCEPT ![t].todo = @ \ {r}]
  BY DEF UpdateRow
<1>2. UNCHANGED <<live, done, known, callbacks, batchLock>>
  BY DEF UpdateRow
<1>3. tx[t] \in TxType /\ TxInv(t) /\ r \in Renders
  BY DEF BatchInv, BatchTypeOK, TxType
<1>4. tx[t].phase = "rows"
  <2>1. tx[t].phase \in {"idle", "rows", "batches", "insert"}
    BY <1>3 DEF TxType, BatchPhases
  <2>2. tx[t].phase # "idle"
    BY <1>1, <1>3 DEF TxInv, BeforeBatches, IdleTx
  <2> QED BY <1>1, <1>3, <2>1, <2>2 DEF TxInv, LockingBatches, Inserting
<1> DEFINE new == tx'[t]
<1>5. /\ new \in TxType /\ new.phase = "rows" /\ new.btodo = tx[t].btodo /\ new.owed = tx[t].owed
      /\ tx' = [tx EXCEPT ![t] = new]
      /\ new.got = tx[t].got \/ (new.got = tx[t].got \cup {r} /\ r \in live /\ rowLock' = [rowLock EXCEPT ![r] = t])
  <2>1. CASE r \in live /\ rowLock' = [rowLock EXCEPT ![r] = t]
             /\ tx' = [tx EXCEPT ![t].todo = @ \ {r}, ![t].got = @ \cup {r}]
    BY <1>3, <1>4, <2>1 DEF BatchInv, BatchTypeOK, TxType
  <2>2. CASE rowLock' = rowLock /\ tx' = [tx EXCEPT ![t].todo = @ \ {r}]
    BY <1>3, <1>4, <2>2 DEF BatchInv, BatchTypeOK, TxType
  <2> QED BY <1>1, <2>1, <2>2
<1>6. rowLock' \in [Renders -> Txs \cup {NoTx}]
  BY <1>1 DEF BatchInv, BatchTypeOK
<1> HIDE DEF new
<1>7. BatchTypeOK'
  BY <1>2, <1>5, <1>6 DEF BatchInv, BatchTypeOK
<1>8. \A u \in Txs : \A x \in Renders : rowLock[x] = u => rowLock'[x] = u
  BY <1>1, <1>3, NoTxAssumption DEF BatchInv, BatchTypeOK
<1>9. \A u \in Txs : Mine(u)' = Mine(u)
  BY <1>2 DEF Mine
<1>10. \A u \in Txs \ {t} : TxInv(u)'
  BY <1>2, <1>5, <1>8, <1>9, OthersKept
<1>11. HoldsRows(t)'
  <2>1. HoldsRows(t) /\ tx[t].got \subseteq Renders
    BY <1>3 DEF TxInv, TxType
  <2>2. \A x \in tx[t].got : x \in live' /\ rowLock'[x] = t
    BY <1>2, <1>8, <2>1 DEF HoldsRows
  <2>3. rowLock' = [rowLock EXCEPT ![r] = t] => rowLock'[r] = t
    BY <1>3 DEF BatchInv, BatchTypeOK
  <2> QED BY <1>2, <1>5, <2>2, <2>3 DEF HoldsRows, new
<1>12. TxInv(t)'
  BY <1>3, <1>4, <1>5, <1>9, <1>11 DEF TxInv, BeforeBatches, new
<1> QED BY <1>2, <1>7, <1>10, <1>12, NothingCommitted DEF BatchInv
LEMMA FindBatchesInv == ASSUME BatchInv, NEW t \in Txs, FindBatches(t) PROVE BatchInv'
<1> DEFINE new == IF tx[t].got = {} THEN IdleTx
                  ELSE [tx[t] EXCEPT !.phase = "batches", !.btodo = Touched(t)]
<1>1. /\ tx[t].phase = "rows" /\ tx[t].todo = {} /\ tx' = [tx EXCEPT ![t] = new]
      /\ UNCHANGED <<live, done, known, callbacks, rowLock, batchLock>>
  BY DEF FindBatches, Touched
<1>2. tx[t] \in TxType /\ TxInv(t) /\ BeforeBatches(t) /\ Touched(t) \subseteq Batches
  BY <1>1 DEF BatchInv, BatchTypeOK, TxInv, Touched
<1>3. new \in TxType
  <2>1. IdleTx \in TxType
    BY DEF IdleTx, TxType, BatchPhases
  <2> QED BY <1>2, <2>1 DEF TxType, BatchPhases
<1>4. /\ tx[t].got = {} => new = IdleTx /\ IdleTx.got = {} /\ IdleTx.phase = "idle" /\ IdleTx.btodo = {} /\ IdleTx.owed = {}
      /\ tx[t].got # {} => /\ new.phase = "batches" /\ new.btodo = Touched(t) /\ new.got = tx[t].got
                           /\ new.todo = {} /\ new.owed = {}
  BY <1>1, <1>2 DEF IdleTx, TxType, BeforeBatches
<1> HIDE DEF new
<1>5. BatchTypeOK' /\ tx'[t] = new
  BY <1>1, <1>3 DEF BatchInv, BatchTypeOK
<1>6. \A u \in Txs \ {t} : TxInv(u)'
  BY <1>1, OthersKept DEF Mine
<1>7. Mine(t)' = {} /\ HoldsRows(t)'
  BY <1>1, <1>2, <1>4, <1>5 DEF Mine, BeforeBatches, TxInv, HoldsRows
<1>8. TxInv(t)'
  <2>1. CASE tx[t].got = {}
    BY <1>4, <1>5, <1>7, <2>1 DEF TxInv, BeforeBatches
  <2>2. CASE tx[t].got # {}
    <3>1. Touched(t)' = Touched(t)
      BY <1>1, <1>4, <1>5, <2>2 DEF Touched
    <3>2. LockingBatches(t)'
      BY <1>4, <1>5, <1>7, <2>2, <3>1 DEF LockingBatches
    <3> QED BY <1>4, <1>5, <1>7, <2>2, <3>2 DEF TxInv
  <2> QED BY <2>1, <2>2
<1> QED BY <1>1, <1>5, <1>6, <1>8, NothingCommitted DEF BatchInv

LEMMA LockBatchInv == ASSUME BatchInv, NEW t \in Txs, LockBatch(t) PROVE BatchInv'
<1> DEFINE left == tx[t].btodo \ Mine(t)
           b == First(left)
<1>1. /\ tx[t].phase = "batches" /\ left # {} /\ batchLock[b] = NoTx /\ batchLock' = [batchLock EXCEPT ![b] = t]
      /\ UNCHANGED <<live, done, known, callbacks, rowLock, tx>>
  BY DEF LockBatch
<1>2. tx[t] \in TxType /\ TxInv(t) /\ LockingBatches(t)
  BY <1>1 DEF BatchInv, BatchTypeOK, TxInv
<1>3. left \subseteq Batches
  BY <1>2 DEF TxType
<1>4. b \in left /\ b \in Batches /\ \A c \in left : b <= c
  <2> HIDE DEF left
  <2> QED BY <1>1, <1>3, FirstIsLeast
<1> HIDE DEF b
<1>5. BatchTypeOK'
  BY <1>1, <1>4 DEF BatchInv, BatchTypeOK
<1>6. Mine(t)' = Mine(t) \cup {b}
  BY <1>1, <1>4 DEF Mine, BatchInv, BatchTypeOK
<1>7. \A u \in Txs \ {t} : Mine(u)' = Mine(u)
  BY <1>1, <1>4, NoTxAssumption DEF Mine, BatchInv, BatchTypeOK
<1>8. \A u \in Txs \ {t} : TxInv(u)'
  <2>1. tx' = [tx EXCEPT ![t] = tx[t]]
    BY <1>1 DEF BatchInv, BatchTypeOK
  <2> QED BY <1>1, <1>7, <2>1, OthersKept
<1>9. LockingBatches(t)'
  <2>1. Touched(t)' = Touched(t)
    BY <1>1 DEF Touched
  <2>2. ASSUME NEW x \in Mine(t)', NEW y \in tx[t].btodo \ Mine(t)' PROVE x < y
    <3>1. y \in left /\ y # b /\ y \in Nat /\ b \in Nat
      BY <1>3, <1>4, <1>6, <2>2, BatchesAssumption
    <3>2. CASE x \in Mine(t)
      BY <1>2, <3>1, <3>2 DEF LockingBatches
    <3>3. CASE x = b
      BY <1>4, <3>1, <3>3
    <3> QED BY <1>6, <3>2, <3>3
  <2> QED BY <1>1, <1>2, <1>4, <1>6, <2>1, <2>2 DEF LockingBatches
<1>10. TxInv(t)'
  BY <1>1, <1>2, <1>9 DEF TxInv, HoldsRows
<1> QED BY <1>1, <1>5, <1>8, <1>10, NothingCommitted DEF BatchInv

LEMMA BatchesLockedInv == ASSUME BatchInv, NEW t \in Txs, BatchesLocked(t) PROVE BatchInv'
<1> DEFINE new == [tx[t] EXCEPT !.phase = "insert"]
<1>1. /\ tx[t].phase = "batches" /\ tx[t].btodo \subseteq Mine(t) /\ tx' = [tx EXCEPT ![t] = new]
      /\ UNCHANGED <<live, done, known, callbacks, rowLock, batchLock>>
  BY DEF BatchesLocked, BatchInv, BatchTypeOK
<1>2. tx[t] \in TxType /\ TxInv(t) /\ LockingBatches(t)
  BY <1>1 DEF BatchInv, BatchTypeOK, TxInv
<1>3. /\ new \in TxType /\ new.phase = "insert" /\ new.got = tx[t].got /\ new.todo = tx[t].todo
      /\ new.btodo = tx[t].btodo /\ new.owed = tx[t].owed
  BY <1>2 DEF TxType, BatchPhases
<1> HIDE DEF new
<1>4. BatchTypeOK' /\ tx'[t] = new
  BY <1>1, <1>3 DEF BatchInv, BatchTypeOK
<1>5. \A u \in Txs \ {t} : TxInv(u)'
  BY <1>1, OthersKept DEF Mine
<1>6. Touched(t)' = Touched(t) /\ Mine(t)' = Mine(t) /\ HoldsRows(t)'
  BY <1>1, <1>2, <1>3, <1>4 DEF Touched, Mine, TxInv, HoldsRows
<1>7. Inserting(t)'
  BY <1>1, <1>2, <1>3, <1>4, <1>6 DEF LockingBatches, Inserting
<1>8. TxInv(t)'
  BY <1>3, <1>4, <1>6, <1>7 DEF TxInv
<1> QED BY <1>1, <1>4, <1>5, <1>8, NothingCommitted DEF BatchInv

LEMMA InsertCallbackInv == ASSUME BatchInv, NEW t \in Txs, InsertCallback(t) PROVE BatchInv'
<1> DEFINE b == First(tx[t].btodo)
           complete == Rows[b] \cap live \subseteq tx[t].got
           owes == IF complete THEN tx[t].owed \cup {b} ELSE tx[t].owed
           new == [tx[t] EXCEPT !.btodo = tx[t].btodo \ {b}, !.owed = owes]
<1>1. /\ tx[t].phase = "insert" /\ tx[t].btodo # {} /\ tx' = [tx EXCEPT ![t] = new]
      /\ UNCHANGED <<live, done, known, callbacks, rowLock, batchLock>>
  BY DEF InsertCallback, BatchInv, BatchTypeOK
<1>2. tx[t] \in TxType /\ TxInv(t) /\ Inserting(t)
  BY <1>1 DEF BatchInv, BatchTypeOK, TxInv
<1>3. b \in tx[t].btodo /\ b \in Batches
  BY <1>1, <1>2, FirstIsLeast DEF TxType
<1> HIDE DEF b
<1>4. owes \subseteq Batches
  BY <1>2, <1>3 DEF TxType
<1>5. /\ new \in TxType /\ new.phase = "insert" /\ new.got = tx[t].got /\ new.todo = tx[t].todo
      /\ new.btodo = tx[t].btodo \ {b} /\ new.owed = owes
  <2> HIDE DEF owes
  <2> QED BY <1>1, <1>2, <1>4 DEF TxType, BatchPhases
<1> HIDE DEF new
<1>6. BatchTypeOK' /\ tx'[t] = new
  BY <1>1, <1>5 DEF BatchInv, BatchTypeOK
<1>7. \A u \in Txs \ {t} : TxInv(u)'
  BY <1>1, OthersKept DEF Mine
<1>8. Touched(t)' = Touched(t) /\ Mine(t)' = Mine(t) /\ HoldsRows(t)'
  BY <1>1, <1>2, <1>5, <1>6 DEF Touched, Mine, TxInv, HoldsRows
<1>9. owes = {c \in Touched(t) \ (tx[t].btodo \ {b}) : Rows[c] \cap live \subseteq tx[t].got}
  BY <1>2, <1>3 DEF Inserting
<1>10. Inserting(t)'
  BY <1>1, <1>2, <1>5, <1>6, <1>8, <1>9 DEF Inserting
<1>11. TxInv(t)'
  BY <1>5, <1>6, <1>8, <1>10 DEF TxInv
<1> QED BY <1>1, <1>6, <1>7, <1>11, NothingCommitted DEF BatchInv

\* t ends: its locks are free, every other transaction keeps its own.
LEMMA LocksReleased ==
    ASSUME BatchInv, NEW t \in Txs, ReleaseLocks(t)
    PROVE  /\ rowLock' \in [Renders -> Txs \cup {NoTx}] /\ batchLock' \in [Batches -> Txs \cup {NoTx}]
           /\ tx' \in [Txs -> TxType] /\ tx'[t] = IdleTx /\ Mine(t)' = {}
           /\ \A u \in Txs \ {t} : /\ tx'[u] = tx[u] /\ Mine(u)' = Mine(u)
                                   /\ \A r \in Renders : rowLock[r] = u => rowLock'[r] = u
<1>1. /\ rowLock \in [Renders -> Txs \cup {NoTx}] /\ batchLock \in [Batches -> Txs \cup {NoTx}] /\ tx \in [Txs -> TxType]
      /\ rowLock' = [r \in Renders |-> IF rowLock[r] = t THEN NoTx ELSE rowLock[r]]
      /\ batchLock' = [b \in Batches |-> IF batchLock[b] = t THEN NoTx ELSE batchLock[b]]
      /\ tx' = [tx EXCEPT ![t] = IdleTx] /\ NoTx \notin Txs
  BY NoTxAssumption DEF BatchInv, BatchTypeOK, ReleaseLocks
<1>2. IdleTx \in TxType
  BY DEF IdleTx, TxType, BatchPhases
<1>3. tx' \in [Txs -> TxType] /\ tx'[t] = IdleTx /\ \A u \in Txs \ {t} : tx'[u] = tx[u]
  BY <1>1, <1>2
<1>4. Mine(t)' = {} /\ \A u \in Txs \ {t} : Mine(u)' = Mine(u)
  BY <1>1 DEF Mine
<1>5. \A u \in Txs \ {t} : \A r \in Renders : rowLock[r] = u => rowLock'[r] = u
  BY <1>1
<1> QED BY <1>1, <1>3, <1>4, <1>5

LEMMA EndedInv == ASSUME NEW t \in Txs, tx'[t] = IdleTx, Mine(t)' = {} PROVE TxInv(t)'
BY DEF TxInv, HoldsRows, BeforeBatches, IdleTx

LEMMA RollbackInv == ASSUME BatchInv, NEW t \in Txs, Rollback(t) PROVE BatchInv'
<1>1. ReleaseLocks(t) /\ UNCHANGED <<live, done, known, callbacks>>
  BY DEF Rollback
<1>2. ASSUME NEW u \in Txs \ {t} PROVE TxInv(u)'
  <2>1. TxInv(u) /\ tx[u].got \subseteq Renders
    BY DEF BatchInv, BatchTypeOK, TxType
  <2>2. tx'[u] = tx[u] /\ Mine(u)' = Mine(u) /\ Touched(u)' = Touched(u)
    BY <1>1, LocksReleased DEF Touched
  <2>3. \A r \in tx[u].got : r \in live' /\ rowLock'[r] = rowLock[r]
    BY <1>1, <2>1, LocksReleased DEF TxInv, HoldsRows
  <2> QED BY <1>1, <2>1, <2>2, <2>3, TxKept
<1>3. BatchTypeOK'
  BY <1>1, LocksReleased DEF BatchInv, BatchTypeOK
<1>4. TxInv(t)'
  BY <1>1, LocksReleased, EndedInv
<1> QED BY <1>1, <1>2, <1>3, <1>4, NothingCommitted DEF BatchInv

LEMMA CommitInv == ASSUME BatchInv, NEW t \in Txs, Commit(t) PROVE BatchInv'
<1> DEFINE got == tx[t].got
           owed == tx[t].owed
<1>1. /\ tx[t].phase = "insert" /\ tx[t].btodo = {} /\ ReleaseLocks(t) /\ known' = known
      /\ live' = live \ got /\ done' = done \cup got /\ callbacks' = callbacks \cup owed
  BY DEF Commit
<1>2. /\ got \subseteq live /\ got \subseteq Renders /\ owed \subseteq Batches /\ Touched(t) \subseteq Mine(t)
      /\ owed = {b \in Touched(t) : Rows[b] \cap live \subseteq got}
  BY <1>1 DEF BatchInv, BatchTypeOK, TxType, TxInv, HoldsRows, Inserting
<1>3. BatchTypeOK'
  BY <1>1, <1>2, LocksReleased DEF BatchInv, BatchTypeOK
<1>4. RowsKnown'
  BY <1>1 DEF BatchInv, RowsKnown
<1>5. AnnouncedIffComplete'
  <2> SUFFICES ASSUME NEW b \in Batches PROVE (b \in callbacks <=> BatchDone(b))'
    BY DEF AnnouncedIffComplete
  <2>1. b \in callbacks <=> b \in known /\ Rows[b] \subseteq done
    BY DEF BatchInv, AnnouncedIffComplete, BatchDone
  <2>2. b \in known => Rows[b] \subseteq live \cup done
    BY DEF BatchInv, RowsKnown
  <2>3. live \cap done = {}
    BY DEF BatchInv, BatchTypeOK
  <2>4. CASE b \in Touched(t)
    <3>1. b \in known /\ b \notin callbacks
      BY <1>2, <2>1, <2>3, <2>4 DEF Touched
    <3>2. b \in owed <=> Rows[b] \subseteq done \cup got
      BY <1>2, <2>2, <2>3, <2>4, <3>1
    <3> QED BY <1>1, <3>1, <3>2 DEF BatchDone
  <2>5. CASE b \notin Touched(t)
    BY <1>1, <1>2, <2>1, <2>5 DEF BatchDone, Touched
  <2> QED BY <2>4, <2>5
<1>6. ASSUME NEW u \in Txs \ {t} PROVE TxInv(u)'
  <2>1. TxInv(u) /\ tx[u].got \subseteq Renders /\ HoldsRows(u) /\ HoldsRows(t)
    BY DEF BatchInv, BatchTypeOK, TxType, TxInv
  <2>2. tx'[u] = tx[u] /\ Mine(u)' = Mine(u) /\ Touched(u)' = Touched(u)
    BY <1>1, LocksReleased DEF Touched
  <2>3. \A r \in tx[u].got : r \in live' /\ rowLock'[r] = rowLock[r]
    <3>1. \A r \in tx[u].got : r \notin got /\ rowLock[r] = u
      BY <2>1 DEF HoldsRows
    <3> QED BY <1>1, <2>1, <3>1, LocksReleased DEF HoldsRows
  <2>4. ASSUME tx[u].phase = "insert", NEW b \in Touched(u) PROVE Rows[b] \cap live' = Rows[b] \cap live
    <3>1. batchLock[b] = u
      BY <2>1, <2>4 DEF TxInv, Inserting, Mine
    <3>2. b \notin Touched(t)
      BY <1>2, <3>1 DEF Mine
    <3>3. Rows[b] \cap got = {}
      BY <2>4, <3>2 DEF Touched
    <3> QED BY <1>1, <3>3
  <2> QED BY <2>1, <2>2, <2>3, <2>4, TxKept
<1>7. TxInv(t)'
  BY <1>1, LocksReleased, EndedInv
<1> QED BY <1>3, <1>4, <1>5, <1>6, <1>7 DEF BatchInv
-----------------------------------------------------------------------------
(* The theorems.                                                           *)

LEMMA InitInv == BatchInit => BatchInv
<1> SUFFICES ASSUME BatchInit PROVE BatchInv
  OBVIOUS
<1>1. IdleTx \in TxType
  BY DEF IdleTx, TxType, BatchPhases
<1>2. BatchTypeOK
  BY <1>1 DEF BatchInit, BatchTypeOK
<1>3. RowsKnown /\ AnnouncedIffComplete
  BY DEF BatchInit, RowsKnown, AnnouncedIffComplete, BatchDone
<1>4. ASSUME NEW t \in Txs PROVE TxInv(t)
  <2>1. tx[t] = IdleTx /\ Mine(t) = {}
    BY NoTxAssumption DEF BatchInit, Mine
  <2> QED BY <2>1 DEF TxInv, HoldsRows, BeforeBatches, IdleTx
<1> QED BY <1>2, <1>3, <1>4 DEF BatchInv

LEMMA NextInv == BatchInv /\ [BatchNext]_batchVars => BatchInv'
<1> SUFFICES ASSUME BatchInv, [BatchNext]_batchVars PROVE BatchInv'
  OBVIOUS
<1>1. ASSUME NEW b \in Batches, InsertBatch(b) PROVE BatchInv'
  BY <1>1, InsertBatchInv
<1>2. ASSUME NEW t \in Txs, BeginSettle(t) \/ BeginExhaust(t) \/ BeginCancel(t) PROVE BatchInv'
  <2>1. PICK kind \in {"settle", "exhaust", "cancel"}, scan \in SUBSET live : Begin(t, kind, scan)
    <3>1. CASE BeginSettle(t)
      <4>1. PICK r \in live : Begin(t, "settle", {r})
        BY <3>1 DEF BeginSettle
      <4> QED BY <4>1
    <3>2. CASE BeginExhaust(t)
      BY <3>2 DEF BeginExhaust
    <3>3. CASE BeginCancel(t)
      <4>1. PICK b \in known : Begin(t, "cancel", Rows[b] \cap live)
        BY <3>3 DEF BeginCancel
      <4> QED BY <4>1
    <3> QED BY <1>2, <3>1, <3>2, <3>3
  <2>2. scan \in SUBSET Renders
    BY DEF BatchInv, BatchTypeOK
  <2> QED BY <2>1, <2>2, BeginInv
<1>3. ASSUME NEW t \in Txs, Forward(t) PROVE BatchInv'
  BY <1>3, UpdateRowInv, FindBatchesInv, LockBatchInv, BatchesLockedInv, InsertCallbackInv, CommitInv DEF Forward
<1>4. ASSUME NEW t \in Txs, Rollback(t) PROVE BatchInv'
  BY <1>4, RollbackInv
<1>5. CASE UNCHANGED batchVars
  <2>1. \A t \in Txs : TxInv(t)'
    BY <1>5 DEF BatchInv, batchVars, TxInv, HoldsRows, BeforeBatches, LockingBatches, Inserting, Mine, Touched
  <2>2. BatchTypeOK'
    BY <1>5 DEF BatchInv, batchVars, BatchTypeOK
  <2> QED BY <1>5, <2>1, <2>2, NothingCommitted DEF BatchInv, batchVars
<1> QED BY <1>1, <1>2, <1>3, <1>4, <1>5 DEF BatchNext

\* In every reachable state each transaction holds what its phase needs, and
\* what is committed agrees with the announcements (renders/batch-postgres.ts).
THEOREM BatchInvariant == BatchSpec => []BatchInv
<1> QED BY InitInv, NextInv, PTL DEF BatchSpec

\* The callback of a batch is stored exactly when its last render is terminal,
\* however its renders are spread over transactions (appendFinishedCallbacks).
THEOREM AnnouncedOnce == BatchSpec => []AnnouncedIffComplete
<1>1. BatchInv => AnnouncedIffComplete
  BY DEF BatchInv
<1> QED BY <1>1, BatchInvariant, PTL

\* Take the last batch anyone waits for: in a circle whoever holds it waits
\* for another, and in the order of its locks that one comes later still.
LEMMA NoCircle == BatchInv => BatchPhaseMoves
<1> DEFINE waiting == {t \in Txs : tx[t].phase = "batches"}
           left(t) == tx[t].btodo \ Mine(t)
           wants == {First(left(t)) : t \in waiting}
<1> SUFFICES ASSUME BatchInv, waiting # {}, \A t \in waiting : left(t) # {},
                    \A t \in waiting : batchLock[First(left(t))] # NoTx,
                    \A t \in Txs : tx[t].phase # "insert"
             PROVE  FALSE
  BY DEF BatchPhaseMoves
<1>1. \A t \in waiting : First(left(t)) \in left(t) /\ First(left(t)) \in Batches
  <2> SUFFICES ASSUME NEW t \in waiting PROVE First(left(t)) \in left(t) /\ First(left(t)) \in Batches
    OBVIOUS
  <2>1. left(t) \in SUBSET Batches /\ left(t) # {}
    BY DEF BatchInv, BatchTypeOK, TxType
  <2> HIDE DEF left
  <2> QED BY <2>1, FirstIsLeast
<1>2. wants \in SUBSET Batches /\ wants # {}
  BY <1>1
<1>3. PICK m \in wants : \A c \in wants : c <= m
  <2> HIDE DEF wants
  <2> QED BY <1>2, LastExists
<1>4. PICK t \in waiting : m = First(left(t))
  BY <1>3
<1>5. PICK u \in Txs : batchLock[m] = u
  BY <1>1, <1>4 DEF BatchInv, BatchTypeOK
<1>6. m \in Mine(u)
  BY <1>1, <1>4, <1>5 DEF Mine
<1>7. u \in waiting
  BY <1>6 DEF BatchInv, BatchTypeOK, TxType, BatchPhases, TxInv, BeforeBatches
<1>8. m < First(left(u))
  BY <1>1, <1>6, <1>7 DEF BatchInv, TxInv, LockingBatches
<1>9. First(left(u)) <= m
  BY <1>3, <1>7
<1>10. m \in Nat /\ First(left(u)) \in Nat
  BY <1>1, <1>2, <1>7, BatchesAssumption
<1> HIDE DEF left
<1> QED BY <1>8, <1>9, <1>10

\* No cycle of waits includes a batch lock (order by b.id for update of b).
THEOREM BatchLocksMove == BatchSpec => []BatchPhaseMoves
<1> QED BY NoCircle, BatchInvariant, PTL
=============================================================================
