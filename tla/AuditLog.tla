------------------------------- MODULE AuditLog -------------------------------
(***************************************************************************)
(* The audit log, its forwarding and its retention, with siem.url and      *)
(* retention.auditDays configured.  Events are appended to a hash chain    *)
(* (store appendAudit); ticks push them to a receiver past a stored cursor *)
(* (observability/siem.ts); passes trim old ones behind an anchor          *)
(* (audit/retention.ts).  Ticks overlap when the receiver is slower than   *)
(* the interval, and every process runs its own; passes overlap when the   *)
(* daily one of a process meets another's or POST /api/v1/retention/run.   *)
(* An event is its seq: its hash is a function of it and of the chain      *)
(* before it, so a link holds exactly when the seqs are consecutive.       *)
(***************************************************************************)
EXTENDS Naturals, FiniteSets

CONSTANTS
    Passes,       \* retention passes that may run at the same time
    Ticks,        \* forwarder ticks that may run at the same time
    ScanBatch,    \* SCAN_BATCH, events a scan reads at a time
    SiemBatch,    \* siem.batchSize
    MaxSeq        \* bound: events appended

ASSUME AuditAssumption == ScanBatch \in Nat \ {0} /\ SiemBatch \in Nat \ {0} /\ MaxSeq \in Nat

VARIABLES
    log,          \* seqs of the rows of audit_log
    aged,         \* events 1..aged are older than auditDays
    anchor,       \* audit_anchor: the seq below which rows were trimmed, 0 when absent
    pass,         \* per pass: the await it is at, and its locals
    cursor,       \* siem_cursor
    tick,         \* per tick: the await it is at, the cursor it read and its batch
    received,     \* seqs the receiver has accepted
    overlapped    \* history: two passes were under way at once

auditVars == <<log, aged, anchor, pass, cursor, tick, received, overlapped>>
shipping == <<cursor, tick, received>>
trimming == <<anchor, pass, overlapped>>

Seqs == 1..MaxSeq
NoAuditPass == [at |-> "idle", anchor |-> 0, cutoff |-> 0, boundary |-> 0]
NoTick == [at |-> "idle", from |-> 0, batch |-> {}]

AuditTypeOK ==
    /\ log \subseteq Seqs
    /\ aged \in 0..MaxSeq /\ anchor \in 0..MaxSeq /\ cursor \in 0..MaxSeq
    /\ pass \in [Passes -> [at: {"idle", "scan", "cap", "exact", "head", "prev", "mark", "trim"},
                            anchor: 0..MaxSeq, cutoff: 0..MaxSeq, boundary: 0..MaxSeq]]
    /\ tick \in [Ticks -> [at: {"idle", "list", "send", "confirm"}, from: 0..MaxSeq, batch: SUBSET Seqs]]
    /\ received \subseteq Seqs
    /\ overlapped \in BOOLEAN

AuditInit ==
    /\ log = {} /\ aged = 0 /\ anchor = 0 /\ cursor = 0
    /\ pass = [p \in Passes |-> NoAuditPass]
    /\ tick = [t \in Ticks |-> NoTick]
    /\ received = {} /\ overlapped = FALSE

\* The seq of the last row, 0 for an empty log.
LastSeq == IF log = {} THEN 0 ELSE CHOOSE s \in log : \A r \in log : r <= s

\* The first n rows past a seq.
AuditAfter(from, n) == {s \in log : s > from /\ Cardinality({r \in log : from < r /\ r < s}) < n}

-----------------------------------------------------------------------------
(* Appending: under one lock the next event continues the stored tail.     *)

AppendAudit ==
    /\ LastSeq < MaxSeq
    /\ log' = log \cup {LastSeq + 1}
    /\ UNCHANGED <<aged, trimming, shipping>>

\* Time: one more event becomes older than auditDays.
AuditAges ==
    /\ aged < LastSeq
    /\ aged' = aged + 1
    /\ UNCHANGED <<log, trimming, shipping>>

-----------------------------------------------------------------------------
(* A retention pass: read the anchor, scan to the cutoff, cap the boundary *)
(* at the cursor, spare the last row, record the anchor, delete.  Each     *)
(* action is one read or write of the store.                               *)

\* The next await, with a boundary; locals the rest of the pass does not read are dropped.
GoesWith(p, at, b) ==
    pass' = [pass EXCEPT ![p] = [at |-> at, boundary |-> b,
                                 anchor |-> IF at \in {"prev", "mark", "trim"} THEN 0 ELSE @.anchor,
                                 cutoff |-> IF at = "scan" THEN @.cutoff ELSE 0]]
Goes(p, at) == GoesWith(p, at, pass[p].boundary)
Ends(p) == pass' = [pass EXCEPT ![p] = NoAuditPass]
PassOnly == UNCHANGED <<log, aged, anchor, shipping, overlapped>>

\* The cutoff is taken with the anchor: an older one would only stop the scan earlier.
ReadAnchor(p) ==
    /\ pass[p].at = "idle"
    /\ pass' = [pass EXCEPT ![p] = [at |-> "scan", anchor |-> anchor, cutoff |-> aged, boundary |-> 0]]
    /\ overlapped' = (overlapped \/ \E q \in Passes : pass[q].at # "idle")
    /\ UNCHANGED <<log, aged, anchor, shipping>>

\* One batch of the scan: the boundary is the last old row in it; a young row or no row ends the scan.
Scan(p) ==
    /\ pass[p].at = "scan"
    /\ LET from == IF pass[p].boundary = 0 THEN pass[p].anchor ELSE pass[p].boundary
           batch == AuditAfter(from, ScanBatch)
           oldRows == {s \in batch : s <= pass[p].cutoff}
           last == IF oldRows = {} THEN pass[p].boundary ELSE CHOOSE s \in oldRows : \A r \in oldRows : r <= s
       IN  IF batch # {} /\ oldRows = batch THEN GoesWith(p, "scan", last)
           ELSE IF last = 0 THEN Ends(p) ELSE GoesWith(p, "cap", last)
    /\ PassOnly

\* Delivery before deletion.  Mutant: an unreachable receiver does not pause the trim.
CapNever(p) == pass[p].at = "cap" /\ Goes(p, "head") /\ PassOnly

CapAtCursor(p) ==
    /\ pass[p].at = "cap"
    /\ IF pass[p].boundary <= cursor THEN Goes(p, "head")
       ELSE IF cursor > pass[p].anchor THEN GoesWith(p, "exact", cursor) ELSE Ends(p)
    /\ PassOnly

\* The boundary must be a real row: read it again by its seq.
ResolveBoundary(p) ==
    /\ pass[p].at \in {"exact", "prev"}
    /\ IF pass[p].boundary \notin log THEN Ends(p)
       ELSE Goes(p, IF pass[p].at = "exact" THEN "head" ELSE "mark")
    /\ PassOnly

\* The head row is never trimmed: with no row past it the boundary steps back by one.
SpareHead(p) ==
    /\ pass[p].at = "head"
    /\ IF AuditAfter(pass[p].boundary, 1) # {} THEN Goes(p, "mark")
       ELSE IF pass[p].boundary - 1 > pass[p].anchor THEN GoesWith(p, "prev", pass[p].boundary - 1) ELSE Ends(p)
    /\ PassOnly

\* Mutant: the rows go without their anchor.
AnchorForgotten(p) ==
    /\ pass[p].at = "mark"
    /\ Goes(p, "trim")
    /\ PassOnly

SetAnchor(p) ==
    /\ pass[p].at = "mark"
    /\ anchor' = pass[p].boundary
    /\ Goes(p, "trim")
    /\ UNCHANGED <<log, aged, shipping, overlapped>>

TrimAudit(p) ==
    /\ pass[p].at = "trim"
    /\ log' = {s \in log : s > pass[p].boundary}
    /\ Ends(p)
    /\ UNCHANGED <<aged, anchor, shipping, overlapped>>

\* The process ends, or the store fails, under the pass.
PassEnds(p) == pass[p].at # "idle" /\ Ends(p) /\ PassOnly

RunRetention(p) ==
    \/ ReadAnchor(p) \/ Scan(p) \/ CapAtCursor(p) \/ ResolveBoundary(p) \/ SpareHead(p)
    \/ SetAnchor(p) \/ TrimAudit(p)

-----------------------------------------------------------------------------
(* A tick: read the cursor, list a batch past it, post it, confirm it.     *)

TickOnly == UNCHANGED <<log, aged, trimming>>

ReadCursor(t) ==
    /\ tick[t].at = "idle"
    /\ tick' = [tick EXCEPT ![t] = [at |-> "list", from |-> cursor, batch |-> {}]]
    /\ UNCHANGED <<cursor, received>> /\ TickOnly

ListBatch(t) ==
    /\ tick[t].at = "list"
    /\ LET batch == AuditAfter(tick[t].from, SiemBatch)
       IN  tick' = [tick EXCEPT ![t] = IF batch = {} THEN NoTick ELSE [at |-> "send", from |-> 0, batch |-> batch]]
    /\ UNCHANGED <<cursor, received>> /\ TickOnly

\* The receiver takes the batch and its 2xx arrives.
Accepted(t) ==
    /\ tick[t].at = "send"
    /\ received' = received \cup tick[t].batch
    /\ tick' = [tick EXCEPT ![t].at = "confirm"]
    /\ UNCHANGED cursor /\ TickOnly

\* An error, a timeout or a lost answer: the receiver has the batch or not, the cursor stays.
Unanswered(t) ==
    /\ tick[t].at = "send"
    /\ \E got \in {{}, tick[t].batch} : received' = received \cup got
    /\ tick' = [tick EXCEPT ![t] = NoTick]
    /\ UNCHANGED cursor /\ TickOnly

\* An older tick that answers late moves the cursor back.
Confirm(t) ==
    /\ tick[t].at = "confirm"
    /\ cursor' = CHOOSE s \in tick[t].batch : \A r \in tick[t].batch : r <= s
    /\ tick' = [tick EXCEPT ![t] = NoTick]
    /\ UNCHANGED received /\ TickOnly

Tick(t) == ReadCursor(t) \/ ListBatch(t) \/ Accepted(t) \/ Unanswered(t) \/ Confirm(t)

AuditNext ==
    \/ AppendAudit \/ AuditAges
    \/ \E p \in Passes : RunRetention(p) \/ PassEnds(p)
    \/ \E t \in Ticks : Tick(t)

AuditSpec == AuditInit /\ [][AuditNext]_auditVars

-----------------------------------------------------------------------------
(* Correctness.                                                            *)

\* Nothing is deleted before the receiver has it: every event ever appended is
\* in the log or was accepted, however ticks overlap, move the cursor back and
\* meet passes that read it earlier.
NothingTrimmedUndelivered == \A s \in 1..LastSeq : s \in log \/ s \in received

\* The rows that remain continue the anchor: verifyChain, which skips the rows
\* at or below it, finds the next one linked to it.
ChainVerifies == \A s \in log : s > anchor => s = anchor + 1 \/ s - 1 \in log

\* The chain verifies through any trim, finished or stopped between the anchor
\* and the delete, as long as no two passes were under way at once.
OnePassKeepsTheChain == ~overlapped => ChainVerifies

\* The last row survives every trim, so seqs go on and are never given twice.
SeqsGoOn == [][LastSeq' >= LastSeq]_auditVars

Ledger == INSTANCE LedgerPromise WITH last <- LastSeq, held <- log

\* Seen from who appends and who receives, the log is as LedgerPromise says, however
\* ticks overlap, answer late and move the cursor back, and whatever passes read before:
\* a number is never given twice, and only a prefix that was delivered is ever dropped.
KeepsLedger == Ledger!LSpec
=============================================================================
