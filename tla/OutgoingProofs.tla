--------------------------- MODULE OutgoingProofs ----------------------------
(***************************************************************************)
(* Theorems about what the service sends out and what it keeps: the audit  *)
(* log it forwards and trims (AuditLog), the purges it asks the edge for   *)
(* (EdgePurgeOutbox), and the render outputs it purges and delivers        *)
(* (RenderRetention).                                                      *)
(***************************************************************************)
EXTENDS AuditLog, EdgePurgeOutbox, RenderRetention, FiniteSetTheorems, TLAPS

-----------------------------------------------------------------------------
(***************************************************************************)
(* Theorems about AuditLog, for any number of passes and ticks and any     *)
(* batch sizes.  The log is always an interval of seqs; what a tick or a   *)
(* pass holds in its locals is explained by what the receiver has.         *)
(***************************************************************************)

Span(lo, hi) == lo <= hi /\ (hi > 0 => lo < hi) /\ log = (lo + 1)..hi
Sent(n) == \A s \in 1..n : s \in received

PassType == [at: {"idle", "scan", "cap", "exact", "head", "prev", "mark", "trim"},
             anchor: 0..MaxSeq, cutoff: 0..MaxSeq, boundary: 0..MaxSeq]
TickType == [at: {"idle", "list", "send", "confirm"}, from: 0..MaxSeq, batch: SUBSET Seqs]

\* What a tick read or listed is a stretch of seqs behind which all is received.
TickFits(k) ==
    /\ k.at = "list" => Sent(k.from)
    /\ k.at \in {"send", "confirm"} => \E a, b \in Seqs : a <= b /\ k.batch = a..b /\ Sent(a - 1)
    /\ k.at = "confirm" => k.batch \subseteq received

\* A pass past its cap holds a boundary that was received, before the last seq once
\* it has spared the head row; alone, it also still knows the anchor.
PassFits(e) ==
    /\ e.at \in {"scan", "cap", "head"} => e.boundary <= LastSeq
    /\ e.at \in {"prev", "mark", "trim"} => e.boundary < LastSeq
    /\ e.at \in {"exact", "head", "prev", "mark", "trim"} => Sent(e.boundary)
    /\ ~overlapped =>
         /\ e.at \in {"scan", "cap", "exact", "head"} => e.anchor = anchor
         /\ e.at = "scan" => e.boundary = 0 \/ e.boundary > anchor
         /\ e.at \in {"cap", "exact", "head", "prev", "mark"} => e.boundary > anchor
         /\ e.at = "trim" => e.boundary = anchor

Alone == \A p, q \in Passes : pass[p].at # "idle" /\ pass[q].at # "idle" => p = q

AuditInv ==
    /\ AuditTypeOK
    /\ \E lo, hi \in 0..MaxSeq : Span(lo, hi) /\ (~overlapped => lo <= anchor)
    /\ NothingTrimmedUndelivered
    /\ Sent(cursor)
    /\ \A t \in Ticks : TickFits(tick[t])
    /\ \A p \in Passes : PassFits(pass[p])
    /\ ~overlapped => Alone

-----------------------------------------------------------------------------
(* The log as an interval.                                                 *)

\* The greatest element of an interval.
LEMMA IntervalMax ==
    ASSUME NEW a \in Int, NEW b \in Int, a <= b
    PROVE  (CHOOSE s \in a..b : \A r \in a..b : r <= s) = b
<1>1. b \in a..b /\ \A r \in a..b : r <= b
  OBVIOUS
<1>2. \A s \in a..b : (\A r \in a..b : r <= s) => s = b
  BY <1>1
<1> QED BY <1>1, <1>2

\* The last seq is the upper end.
LEMMA SpanLast ==
    ASSUME NEW lo \in Nat, NEW hi \in Nat, Span(lo, hi)
    PROVE  LastSeq = hi
<1>1. CASE hi = 0
  <2>1. log = {}
    BY <1>1 DEF Span
  <2> QED BY <1>1, <2>1 DEF LastSeq
<1>2. CASE hi > 0
  <2>1. log = (lo + 1)..hi /\ lo + 1 <= hi /\ log # {}
    BY <1>2 DEF Span
  <2>2. (CHOOSE s \in (lo + 1)..hi : \A r \in (lo + 1)..hi : r <= s) = hi
    BY <2>1, IntervalMax
  <2> QED BY <2>1, <2>2 DEF LastSeq
<1> QED BY <1>1, <1>2

\* The rows past a seq are the n seqs that follow it, or those that are left of them.
LEMMA AfterSpan ==
    ASSUME NEW lo \in Nat, NEW hi \in Nat, Span(lo, hi), NEW from \in Nat, NEW n \in Nat \ {0},
           NEW m \in Nat, lo <= m, from <= m, m = lo \/ m = from,
           NEW top \in Nat, top <= m + n, top <= hi, top = m + n \/ top = hi
    PROVE  AuditAfter(from, n) = (m + 1)..top
<1>1. log = (lo + 1)..hi
  BY DEF Span
<1>2. ASSUME NEW s \in log, s > from
      PROVE  Cardinality({r \in log : from < r /\ r < s}) = s - 1 - m
  <2>1. s \in Nat /\ s > m /\ s <= hi
    BY <1>1, <1>2
  <2>2. {r \in log : from < r /\ r < s} = (m + 1)..(s - 1)
    BY <1>1, <2>1
  <2> DEFINE a == m + 1
             b == s - 1
  <2>3. a \in Int /\ b \in Int /\ b - a + 1 = s - 1 - m /\ (a > b => s - 1 - m = 0)
    BY <2>1
  <2>4. {r \in log : from < r /\ r < s} = a..b
    BY <2>2
  <2> HIDE DEF a, b
  <2>5. Cardinality(a..b) = IF a > b THEN 0 ELSE b - a + 1
    BY <2>3, FS_Interval
  <2>6. Cardinality(a..b) = s - 1 - m
    BY <2>3, <2>5
  <2> QED BY <2>4, <2>6
<1>3. AuditAfter(from, n) = {s \in log : s > from /\ s - 1 - m < n}
  BY <1>2 DEF AuditAfter
<1> QED BY <1>1, <1>3

-----------------------------------------------------------------------------
(* One lemma per kind of step.                                             *)

\* What a step that changes one pass, or one tick and the receiver, leaves alone.
LEMMA TypeParts ==
    AuditTypeOK => /\ pass \in [Passes -> PassType] /\ tick \in [Ticks -> TickType]
                   /\ anchor \in Nat /\ cursor \in Nat /\ aged \in Nat /\ MaxSeq \in Nat
  BY AuditAssumption DEF AuditTypeOK, PassType, TickType

LEMMA LogStill == log' = log => LastSeq' = LastSeq
  BY DEF LastSeq

LEMMA SentMore == ASSUME received \subseteq received', NEW n, Sent(n) PROVE Sent(n)'
  BY DEF Sent

\* A step of a pass that writes nothing keeps the invariant when its new locals fit.
LEMMA PassMoves ==
    ASSUME AuditInv, NEW p \in Passes, NEW e \in PassType, PassFits(e),
           pass' = [pass EXCEPT ![p] = e], pass[p].at # "idle", PassOnly
    PROVE  AuditInv'
<1> USE DEF AuditInv, PassOnly, shipping
<1>1. AuditTypeOK'
  BY DEF AuditTypeOK, PassType
<1>2. LastSeq' = LastSeq
  BY LogStill
<1>3. (\E lo, hi \in 0..MaxSeq : Span(lo, hi) /\ (~overlapped => lo <= anchor))'
  BY DEF Span
<1>4. NothingTrimmedUndelivered' /\ Sent(cursor)'
  BY <1>2 DEF NothingTrimmedUndelivered, Sent
<1>5. (\A t \in Ticks : TickFits(tick[t]))'
  BY DEF TickFits, Sent
<1>6. ASSUME NEW q \in Passes PROVE PassFits(pass[q])'
  <2>1. pass'[q] = IF q = p THEN e ELSE pass[q]
    BY DEF AuditTypeOK
  <2>2. PassFits(pass'[q])
    BY <2>1
  <2> QED BY <1>2, <2>2 DEF PassFits, Sent
<1>7. (~overlapped => Alone)'
  <2>1. \A q \in Passes : pass'[q].at # "idle" => pass[q].at # "idle"
    BY DEF AuditTypeOK
  <2> QED BY <2>1 DEF Alone
<1> QED BY <1>1, <1>3, <1>4, <1>5, <1>6, <1>7

\* A pass that ends.
LEMMA PassRests ==
    ASSUME AuditInv, NEW p \in Passes, pass[p].at # "idle", Ends(p), PassOnly
    PROVE  AuditInv'
<1>1. NoAuditPass \in PassType /\ PassFits(NoAuditPass)
  BY AuditAssumption DEF NoAuditPass, PassType, PassFits
<1> QED BY <1>1, PassMoves DEF Ends

\* A pass that goes on to another await.
LEMMA PassGoesOn ==
    ASSUME AuditInv, NEW p \in Passes, pass[p].at # "idle",
           NEW at \in {"scan", "cap", "exact", "head", "prev", "mark", "trim"}, NEW b \in 0..MaxSeq,
           GoesWith(p, at, b), PassOnly,
           \A c \in 0..MaxSeq : PassFits([at |-> at, boundary |-> b, cutoff |-> c,
               anchor |-> IF at \in {"prev", "mark", "trim"} THEN 0 ELSE pass[p].anchor])
    PROVE  AuditInv'
<1> DEFINE e == [at |-> at, boundary |-> b, anchor |-> IF at \in {"prev", "mark", "trim"} THEN 0 ELSE pass[p].anchor,
                 cutoff |-> IF at = "scan" THEN pass[p].cutoff ELSE 0]
<1>1. pass \in [Passes -> PassType] /\ 0 \in 0..MaxSeq
  BY TypeParts, AuditAssumption DEF AuditInv
<1>2. e \in PassType /\ PassFits(e)
  <2>1. pass[p].anchor \in 0..MaxSeq /\ pass[p].cutoff \in 0..MaxSeq
    BY <1>1 DEF PassType
  <2>2. (IF at = "scan" THEN pass[p].cutoff ELSE 0) \in 0..MaxSeq
    BY <1>1, <2>1
  <2>3. PassFits(e)
    BY <2>2
  <2>4. e \in PassType
    BY <1>1, <2>1, <2>2 DEF PassType
  <2> QED BY <2>3, <2>4
<1>3. pass' = [pass EXCEPT ![p] = e]
  BY DEF GoesWith
<1> QED BY <1>2, <1>3, PassMoves

LEMMA AppendInv == ASSUME AuditInv, AppendAudit PROVE AuditInv' /\ LastSeq' = LastSeq + 1
<1> USE DEF AuditInv, AppendAudit, trimming, shipping
<1>1. PICK lo \in 0..MaxSeq, hi \in 0..MaxSeq : Span(lo, hi) /\ (~overlapped => lo <= anchor)
  OBVIOUS
<1>2. lo \in Nat /\ hi \in Nat /\ LastSeq = hi /\ hi < MaxSeq /\ MaxSeq \in Nat
  BY <1>1, SpanLast, AuditAssumption
<1>3. log' = (lo + 1)..(hi + 1)
  BY <1>1, <1>2 DEF Span
<1>4. Span(lo, hi + 1)' /\ hi + 1 \in 0..MaxSeq
  BY <1>1, <1>2, <1>3 DEF Span
<1>5. LastSeq' = hi + 1
  <2>1. (lo + 1)..(hi + 1) # {} /\ lo + 1 \in Int /\ hi + 1 \in Int /\ lo + 1 <= hi + 1
    BY <1>1, <1>2 DEF Span
  <2>2. (CHOOSE s \in (lo + 1)..(hi + 1) : \A r \in (lo + 1)..(hi + 1) : r <= s) = hi + 1
    BY <2>1, IntervalMax
  <2>3. LastSeq' = IF log' = {} THEN 0 ELSE CHOOSE s \in log' : \A r \in log' : r <= s
    BY DEF LastSeq
  <2> DEFINE S == (lo + 1)..(hi + 1)
  <2>4. log' = S /\ S # {} /\ (CHOOSE s \in S : \A r \in S : r <= s) = hi + 1
    BY <1>3, <2>1, <2>2
  <2> HIDE DEF S
  <2>5. LastSeq' = CHOOSE s \in S : \A r \in S : r <= s
    BY <2>3, <2>4
  <2> QED BY <2>4, <2>5
<1>6. AuditTypeOK'
  BY <1>2, <1>3, <1>1 DEF AuditTypeOK, Seqs
<1>7. NothingTrimmedUndelivered'
  BY <1>1, <1>2, <1>3, <1>5 DEF NothingTrimmedUndelivered, Span
<1>8. (\A t \in Ticks : TickFits(tick[t]))' /\ Sent(cursor)'
  BY DEF TickFits, Sent
<1>9. ASSUME NEW q \in Passes PROVE PassFits(pass[q])'
  <2>1. pass[q].boundary \in Nat
    BY TypeParts, <1>2 DEF PassType
  <2>2. PassFits(pass[q])
    OBVIOUS
  <2> QED BY <1>2, <1>5, <2>1, <2>2 DEF PassFits, Sent
<1> QED BY <1>1, <1>2, <1>4, <1>5, <1>6, <1>7, <1>8, <1>9 DEF Alone

LEMMA AgesInv == ASSUME AuditInv, AuditAges PROVE AuditInv'
<1> USE DEF AuditInv, AuditAges, trimming, shipping
<1>1. PICK lo \in 0..MaxSeq, hi \in 0..MaxSeq : Span(lo, hi) /\ (~overlapped => lo <= anchor)
  OBVIOUS
<1>2. LastSeq = hi /\ hi \in 0..MaxSeq /\ aged \in Nat /\ MaxSeq \in Nat
  BY <1>1, SpanLast, TypeParts
<1>3. AuditTypeOK' /\ LastSeq' = LastSeq
  BY <1>2, LogStill DEF AuditTypeOK
<1> QED BY <1>1, <1>3 DEF Span, NothingTrimmedUndelivered, Sent, TickFits, PassFits, Alone

LEMMA ReadAnchorInv == ASSUME AuditInv, NEW p \in Passes, ReadAnchor(p) PROVE AuditInv'
<1> USE DEF AuditInv, ReadAnchor, shipping
<1>1. PICK lo \in 0..MaxSeq, hi \in 0..MaxSeq : Span(lo, hi) /\ (~overlapped => lo <= anchor)
  OBVIOUS
<1>2. LastSeq' = LastSeq /\ LastSeq \in Nat /\ (~overlapped' => ~overlapped)
  <2>1. ~overlapped' => ~overlapped
    OBVIOUS
  <2>2. lo \in Nat /\ hi \in Nat
    BY AuditAssumption
  <2> QED BY <1>1, <2>1, <2>2, SpanLast, LogStill
<1>3. AuditTypeOK'
  BY AuditAssumption DEF AuditTypeOK
<1>4. ASSUME NEW q \in Passes PROVE PassFits(pass[q])'
  <2>1. CASE q = p
    <3>1. pass'[q] = [at |-> "scan", anchor |-> anchor, cutoff |-> aged, boundary |-> 0]
      BY <2>1 DEF AuditTypeOK
    <3> QED BY <1>2, <3>1 DEF PassFits
  <2>2. CASE q # p
    <3>1. pass'[q] = pass[q] /\ PassFits(pass[q])
      BY <2>2 DEF AuditTypeOK
    <3> QED BY <1>2, <3>1 DEF PassFits, Sent
  <2> QED BY <2>1, <2>2
<1>5. (~overlapped => Alone)'
  <2>1. ASSUME ~overlapped' PROVE \A q \in Passes : pass[q].at = "idle"
    BY <2>1
  <2>2. \A q \in Passes : q # p => pass'[q] = pass[q]
    BY DEF AuditTypeOK
  <2> QED BY <2>1, <2>2 DEF Alone
<1>6. (\E l, h \in 0..MaxSeq : Span(l, h) /\ (~overlapped => l <= anchor))'
  BY <1>1, <1>2 DEF Span
<1> QED BY <1>2, <1>3, <1>4, <1>5, <1>6 DEF NothingTrimmedUndelivered, Sent, TickFits

\* The rows up to the boundary go; the last one stays.
LEMMA TrimInv == ASSUME AuditInv, NEW p \in Passes, TrimAudit(p) PROVE AuditInv' /\ LastSeq' = LastSeq
<1> USE DEF AuditInv, TrimAudit, Ends, shipping
<1> DEFINE b == pass[p].boundary
<1>1. PICK lo \in 0..MaxSeq, hi \in 0..MaxSeq : Span(lo, hi) /\ (~overlapped => lo <= anchor)
  OBVIOUS
<1>2. /\ lo \in Nat /\ hi \in Nat /\ MaxSeq \in Nat /\ LastSeq = hi /\ b \in 0..MaxSeq /\ anchor \in Nat
      /\ b < hi /\ Sent(b) /\ (~overlapped => b = anchor)
  <2>1. pass[p].at = "trim" /\ PassFits(pass[p]) /\ b \in 0..MaxSeq
    BY TypeParts DEF PassType
  <2> QED BY <1>1, <2>1, SpanLast, TypeParts DEF PassFits
<1> HIDE DEF b
<1>3. PICK l \in 0..MaxSeq : l = IF lo <= b THEN b ELSE lo
  BY <1>2
<1>4. log' = (l + 1)..hi /\ l < hi /\ l \in Nat
  BY <1>1, <1>2, <1>3 DEF Span, b
<1>5. Span(l, hi)' /\ (~overlapped' => l <= anchor')
  BY <1>1, <1>2, <1>3, <1>4 DEF Span
<1>6. LastSeq' = hi
  <2>1. l + 1 \in Int /\ hi \in Int /\ l + 1 <= hi /\ hi \in (l + 1)..hi
    BY <1>2, <1>4
  <2>2. LastSeq' = IF log' = {} THEN 0 ELSE CHOOSE s \in log' : \A r \in log' : r <= s
    BY DEF LastSeq
  <2> DEFINE S == (l + 1)..hi
  <2>3. log' = S /\ S # {} /\ (CHOOSE s \in S : \A r \in S : r <= s) = hi
    BY <1>4, <2>1, IntervalMax
  <2> HIDE DEF S
  <2>4. LastSeq' = CHOOSE s \in S : \A r \in S : r <= s
    BY <2>2, <2>3
  <2> QED BY <2>3, <2>4
<1>7. pass' = [pass EXCEPT ![p] = NoAuditPass] /\ NoAuditPass \in PassType
  BY AuditAssumption DEF NoAuditPass, PassType
<1>8. AuditTypeOK'
  BY <1>2, <1>4, <1>7 DEF AuditTypeOK, Seqs, PassType
<1>9. NothingTrimmedUndelivered'
  <2>1. \A s \in 1..hi : s \in log \/ s \in received
    BY <1>2 DEF NothingTrimmedUndelivered
  <2>2. \A s \in log : s \in log' \/ s \in 1..b
    BY <1>1, <1>2, <1>3, <1>4 DEF Span
  <2> QED BY <1>2, <1>6, <2>1, <2>2 DEF NothingTrimmedUndelivered, Sent
<1>10. ASSUME NEW q \in Passes PROVE PassFits(pass[q])'
  <2>1. CASE q = p
    <3>1. pass'[q] = NoAuditPass
      BY <1>7, <2>1 DEF AuditTypeOK
    <3> QED BY <3>1 DEF PassFits, NoAuditPass
  <2>2. CASE q # p
    <3>1. pass'[q] = pass[q] /\ PassFits(pass[q])
      BY <2>2 DEF AuditTypeOK
    <3> QED BY <1>2, <1>6, <3>1 DEF PassFits, Sent
  <2> QED BY <2>1, <2>2
<1>11. (~overlapped => Alone)'
  <2>1. \A q \in Passes : pass'[q].at # "idle" => pass[q].at # "idle"
    BY <1>7 DEF AuditTypeOK, NoAuditPass
  <2> QED BY <2>1 DEF Alone
<1> QED BY <1>2, <1>5, <1>6, <1>8, <1>9, <1>10, <1>11 DEF Sent, TickFits

\* The anchor moves to a boundary past it, on which the pass then trims.
LEMMA SetAnchorInv == ASSUME AuditInv, NEW p \in Passes, SetAnchor(p) PROVE AuditInv'
<1> USE DEF AuditInv, SetAnchor, shipping
<1> DEFINE b == pass[p].boundary
<1>1. PICK lo \in 0..MaxSeq, hi \in 0..MaxSeq : Span(lo, hi) /\ (~overlapped => lo <= anchor)
  OBVIOUS
<1>2. /\ lo \in Nat /\ hi \in Nat /\ anchor \in Nat /\ b \in 0..MaxSeq /\ MaxSeq \in Nat /\ LastSeq' = LastSeq
      /\ Sent(b) /\ b < LastSeq /\ (~overlapped => b > anchor)
  <2>1. pass[p].at = "mark" /\ PassFits(pass[p]) /\ b \in 0..MaxSeq
    BY TypeParts DEF PassType
  <2> QED BY <2>1, LogStill, TypeParts DEF PassFits
<1>3. pass' = [pass EXCEPT ![p] = [at |-> "trim", boundary |-> b, anchor |-> 0, cutoff |-> 0]]
  BY DEF Goes, GoesWith
<1>4. AuditTypeOK'
  BY <1>2, <1>3 DEF AuditTypeOK
<1>5. ASSUME NEW q \in Passes PROVE PassFits(pass[q])'
  <2>1. CASE q = p
    <3>1. pass'[q] = [at |-> "trim", boundary |-> b, anchor |-> 0, cutoff |-> 0]
      BY <1>3, <2>1 DEF AuditTypeOK
    <3> QED BY <1>2, <3>1 DEF PassFits, Sent
  <2>2. CASE q # p
    <3>1. pass'[q] = pass[q] /\ PassFits(pass[q]) /\ (~overlapped => pass[q].at = "idle")
      BY <1>3, <2>2 DEF AuditTypeOK, Alone
    <3> QED BY <1>2, <3>1 DEF PassFits, Sent
  <2> QED BY <2>1, <2>2
<1>6. (~overlapped => Alone)'
  <2>1. \A q \in Passes : pass'[q].at # "idle" => pass[q].at # "idle"
    BY <1>3 DEF AuditTypeOK
  <2> QED BY <2>1 DEF Alone
<1>7. (\E l, h \in 0..MaxSeq : Span(l, h) /\ (~overlapped => l <= anchor))'
  <2>1. Span(lo, hi)' /\ (~overlapped' => lo <= anchor')
    BY <1>1, <1>2 DEF Span
  <2> QED BY <2>1
<1> QED BY <1>2, <1>4, <1>5, <1>6, <1>7 DEF NothingTrimmedUndelivered, Sent, TickFits

LEMMA QuietPassInv ==
    ASSUME AuditInv, NEW p \in Passes,
           Scan(p) \/ CapAtCursor(p) \/ ResolveBoundary(p) \/ SpareHead(p) \/ PassEnds(p)
    PROVE  AuditInv'
<1> DEFINE e == pass[p]
           b == pass[p].boundary
<1>1. PICK lo \in 0..MaxSeq, hi \in 0..MaxSeq : Span(lo, hi)
  BY DEF AuditInv
<1>2. /\ lo \in Nat /\ hi \in Nat /\ MaxSeq \in Nat /\ LastSeq = hi /\ e \in PassType /\ PassFits(e)
      /\ cursor \in 0..MaxSeq /\ Sent(cursor) /\ anchor \in 0..MaxSeq
      /\ b \in 0..MaxSeq /\ e.anchor \in 0..MaxSeq /\ e.cutoff \in 0..MaxSeq
  <2>1. e \in PassType /\ PassFits(e) /\ MaxSeq \in Nat /\ Sent(cursor)
    BY TypeParts DEF AuditInv
  <2>2. b \in 0..MaxSeq /\ e.anchor \in 0..MaxSeq /\ e.cutoff \in 0..MaxSeq
    BY <2>1 DEF PassType
  <2>3. cursor \in 0..MaxSeq /\ anchor \in 0..MaxSeq
    BY DEF AuditInv, AuditTypeOK
  <2> QED BY <1>1, <2>1, <2>2, <2>3, SpanLast
<1>3. CASE PassEnds(p)
  BY <1>3, PassRests DEF PassEnds
<1>4. CASE CapAtCursor(p)
  <2>1. e.at = "cap" /\ PassOnly
    BY <1>4 DEF CapAtCursor
  <2>2. CASE b <= cursor
    <3>1. GoesWith(p, "head", b) /\ Sent(b)
      BY <1>2, <1>4, <2>2 DEF CapAtCursor, Goes, Sent
    <3> QED BY <1>2, <2>1, <3>1, PassGoesOn DEF PassFits
  <2>3. CASE ~(b <= cursor) /\ cursor > e.anchor
    <3>1. GoesWith(p, "exact", cursor)
      BY <1>4, <2>3 DEF CapAtCursor
    <3> QED BY <1>2, <2>1, <2>3, <3>1, PassGoesOn DEF PassFits
  <2>4. CASE ~(b <= cursor) /\ ~(cursor > e.anchor)
    BY <1>4, <2>1, <2>4, PassRests DEF CapAtCursor
  <2> QED BY <2>2, <2>3, <2>4
<1>5. CASE ResolveBoundary(p)
  <2>1. e.at \in {"exact", "prev"} /\ PassOnly /\ e.at # "idle"
    BY <1>5 DEF ResolveBoundary
  <2>2. CASE b \notin log
    BY <1>5, <2>1, <2>2, PassRests DEF ResolveBoundary
  <2>3. CASE b \in log /\ e.at = "exact"
    <3>1. GoesWith(p, "head", b) /\ b <= hi
      BY <1>1, <1>5, <2>3 DEF ResolveBoundary, Goes, Span
    <3> QED BY <1>2, <2>1, <2>3, <3>1, PassGoesOn DEF PassFits
  <2>4. CASE b \in log /\ e.at = "prev"
    <3>1. GoesWith(p, "mark", b)
      BY <1>5, <2>4 DEF ResolveBoundary, Goes
    <3> QED BY <1>2, <2>1, <2>4, <3>1, PassGoesOn DEF PassFits
  <2> QED BY <2>1, <2>2, <2>3, <2>4
<1>6. CASE SpareHead(p)
  <2>1. e.at = "head" /\ PassOnly
    BY <1>6 DEF SpareHead
  <2>2. CASE AuditAfter(b, 1) # {}
    <3>1. GoesWith(p, "mark", b)
      BY <1>6, <2>2 DEF SpareHead, Goes
    <3>2. b < hi
      <4>1. PICK s \in log : s > b
        BY <2>2 DEF AuditAfter
      <4>2. s \in (lo + 1)..hi
        BY <1>1, <4>1 DEF Span
      <4> QED BY <1>2, <4>1, <4>2
    <3> QED BY <1>2, <2>1, <3>1, <3>2, PassGoesOn DEF PassFits
  <2>3. CASE AuditAfter(b, 1) = {} /\ b - 1 > e.anchor
    <3>1. GoesWith(p, "prev", b - 1) /\ b - 1 \in 0..MaxSeq
      BY <1>2, <1>6, <2>3 DEF SpareHead
    <3>2. Sent(b - 1) /\ b - 1 < hi
      BY <1>2, <2>1 DEF Sent, PassFits
    <3> QED BY <1>2, <2>1, <2>3, <3>1, <3>2, PassGoesOn DEF PassFits
  <2>4. CASE AuditAfter(b, 1) = {} /\ ~(b - 1 > e.anchor)
    BY <1>6, <2>1, <2>4, PassRests DEF SpareHead
  <2> QED BY <2>2, <2>3, <2>4
<1>7. CASE Scan(p)
  <2> DEFINE from == IF b = 0 THEN e.anchor ELSE b
             batch == AuditAfter(from, ScanBatch)
             oldRows == {s \in batch : s <= e.cutoff}
             last == IF oldRows = {} THEN b ELSE CHOOSE s \in oldRows : \A r \in oldRows : r <= s
  <2>1. /\ e.at = "scan" /\ PassOnly
        /\ IF batch # {} /\ oldRows = batch THEN GoesWith(p, "scan", last)
           ELSE IF last = 0 THEN Ends(p) ELSE GoesWith(p, "cap", last)
    BY <1>7 DEF Scan
  <2>2. from \in Nat /\ ScanBatch \in Nat \ {0} /\ from = IF b = 0 THEN e.anchor ELSE b
    BY <1>2, AuditAssumption
  <2> HIDE DEF from
  <2>3. PICK m \in Nat : m = IF lo <= from THEN from ELSE lo
    BY <1>2, <2>2
  <2>4. PICK top \in Nat : top = IF m + ScanBatch <= hi THEN m + ScanBatch ELSE hi
    BY <1>2, <2>2, <2>3
  <2>5. batch = (m + 1)..top
    <3>1. lo <= m /\ from <= m /\ (m = lo \/ m = from)
      BY <1>2, <2>2, <2>3
    <3>2. top <= m + ScanBatch /\ top <= hi /\ (top = m + ScanBatch \/ top = hi)
      BY <1>2, <2>2, <2>4
    <3> QED BY <1>1, <1>2, <2>2, <3>1, <3>2, AfterSpan
  <2>6. PICK end \in Nat : end = IF top <= e.cutoff THEN top ELSE e.cutoff
    BY <1>2, <2>4
  <2>7. oldRows = (m + 1)..end /\ end <= hi
    <3>1. top <= hi /\ end <= top /\ e.cutoff \in Nat
      BY <1>2, <2>2, <2>3, <2>4, <2>6
    <3>2. {s \in (m + 1)..top : s <= e.cutoff} = (m + 1)..end
      BY <2>3, <2>4, <2>6, <3>1
    <3> QED BY <1>2, <2>5, <2>6, <3>1, <3>2
  <2>8. last = b \/ (last \in 0..MaxSeq /\ last > from /\ last <= hi)
    <3>1. CASE m + 1 <= end
      <4>1. (CHOOSE s \in (m + 1)..end : \A r \in (m + 1)..end : r <= s) = end
        BY <2>3, <2>6, <3>1, IntervalMax
      <4>2. end \in oldRows
        BY <2>3, <2>6, <2>7, <3>1
      <4>3. last = end
        BY <2>7, <4>1, <4>2
      <4>4. end \in 0..MaxSeq /\ end > from
        BY <1>2, <2>2, <2>3, <2>6, <2>7, <3>1
      <4> QED BY <2>7, <4>3, <4>4
    <3>2. CASE ~(m + 1 <= end)
      <4>1. oldRows = {}
        BY <2>3, <2>6, <2>7, <3>2
      <4> QED BY <4>1
    <3> QED BY <3>1, <3>2
  <2> HIDE DEF last, oldRows, batch
  <2>9. last \in 0..MaxSeq /\ last <= hi /\ (~overlapped => last = 0 \/ last > anchor)
    <3>1. b <= hi /\ (~overlapped => e.anchor = anchor /\ (b = 0 \/ b > anchor))
      BY <1>2, <2>1 DEF PassFits
    <3>2. last \in 0..MaxSeq /\ last <= hi
      BY <1>2, <2>8, <3>1
    <3>3. ASSUME ~overlapped PROVE last = 0 \/ last > anchor
      <4>1. e.anchor = anchor /\ (b = 0 \/ b > anchor)
        BY <3>1, <3>3
      <4> QED BY <1>2, <2>2, <2>8, <3>2, <4>1
    <3> QED BY <3>2, <3>3
  <2>10. CASE GoesWith(p, "scan", last)
    BY <1>2, <2>1, <2>9, <2>10, PassGoesOn DEF PassFits
  <2>11. CASE Ends(p)
    BY <2>1, <2>11, PassRests
  <2>12. CASE last # 0 /\ GoesWith(p, "cap", last)
    BY <1>2, <2>1, <2>9, <2>12, PassGoesOn DEF PassFits
  <2> QED BY <2>1, <2>10, <2>11, <2>12
<1> QED BY <1>3, <1>4, <1>5, <1>6, <1>7

-----------------------------------------------------------------------------
(* Ticks.                                                                  *)

\* A step of a tick that leaves the cursor alone, and may deliver, keeps the
\* invariant when what the tick then holds fits.
LEMMA TickMoves ==
    ASSUME AuditInv, NEW t \in Ticks, NEW k \in TickType, tick' = [tick EXCEPT ![t] = k],
           TickFits(k)', UNCHANGED cursor, received \subseteq received', received' \subseteq Seqs, TickOnly
    PROVE  AuditInv'
<1> USE DEF AuditInv, TickOnly, trimming
<1>1. AuditTypeOK'
  BY DEF AuditTypeOK, TickType
<1>2. LastSeq' = LastSeq
  BY LogStill
<1>3. (\E lo, hi \in 0..MaxSeq : Span(lo, hi) /\ (~overlapped => lo <= anchor))'
  BY DEF Span
<1>4. NothingTrimmedUndelivered' /\ Sent(cursor)'
  BY <1>2 DEF NothingTrimmedUndelivered, Sent
<1>5. ASSUME NEW u \in Ticks PROVE TickFits(tick[u])'
  <2>1. CASE u = t
    BY <2>1 DEF AuditTypeOK
  <2>2. CASE u # t
    <3>1. tick'[u] = tick[u] /\ TickFits(tick[u])
      BY <2>2 DEF AuditTypeOK
    <3> QED BY <3>1 DEF TickFits, Sent
  <2> QED BY <2>1, <2>2
<1>6. (\A p \in Passes : PassFits(pass[p]))'
  BY <1>2 DEF PassFits, Sent
<1> QED BY <1>1, <1>3, <1>4, <1>5, <1>6 DEF Alone

LEMMA ReadCursorInv == ASSUME AuditInv, NEW t \in Ticks, ReadCursor(t) PROVE AuditInv'
<1>1. [at |-> "list", from |-> cursor, batch |-> {}] \in TickType /\ Sent(cursor)
  BY DEF AuditInv, AuditTypeOK, TickType
<1>2. PICK k \in TickType : k = [at |-> "list", from |-> cursor, batch |-> {}]
  BY <1>1
<1>3. TickFits(k)'
  BY <1>1, <1>2 DEF TickFits, Sent, ReadCursor
<1>4. received' \subseteq Seqs /\ received \subseteq received' /\ tick' = [tick EXCEPT ![t] = k] /\ TickOnly /\ UNCHANGED cursor
  BY <1>2 DEF ReadCursor, AuditInv, AuditTypeOK
<1> QED BY <1>2, <1>3, <1>4, TickMoves

\* What follows what was received is listed without a gap.
LEMMA ListInv == ASSUME AuditInv, NEW t \in Ticks, ListBatch(t) PROVE AuditInv'
<1> DEFINE from == tick[t].from
           batch == AuditAfter(from, SiemBatch)
           read == IF batch = {} THEN NoTick ELSE [at |-> "send", from |-> 0, batch |-> batch]
<1>1. PICK lo \in 0..MaxSeq, hi \in 0..MaxSeq : Span(lo, hi)
  BY DEF AuditInv
<1>2. /\ lo \in Nat /\ hi \in Nat /\ hi <= MaxSeq /\ MaxSeq \in Nat /\ LastSeq = hi /\ log = (lo + 1)..hi
      /\ from \in Nat /\ Sent(from) /\ SiemBatch \in Nat \ {0} /\ NothingTrimmedUndelivered
  <2>1. tick[t] \in TickType /\ TickFits(tick[t]) /\ tick[t].at = "list" /\ NothingTrimmedUndelivered /\ MaxSeq \in Nat
    BY TypeParts DEF AuditInv, ListBatch
  <2>2. from \in Nat /\ Sent(from)
    BY <2>1 DEF TickFits, TickType
  <2>3. LastSeq = hi
    BY <1>1, <2>1, SpanLast
  <2> QED BY <1>1, <2>1, <2>2, <2>3, AuditAssumption DEF Span
<1> HIDE DEF from
<1>3. PICK m \in Nat : m = IF lo <= from THEN from ELSE lo
  BY <1>2
<1>4. PICK top \in Nat : top = IF m + SiemBatch <= hi THEN m + SiemBatch ELSE hi
  BY <1>2, <1>3
<1>5. batch = (m + 1)..top /\ top <= hi
  <2>1. lo <= m /\ from <= m /\ (m = lo \/ m = from)
    BY <1>2, <1>3
  <2>2. top <= m + SiemBatch /\ top <= hi /\ (top = m + SiemBatch \/ top = hi)
    BY <1>2, <1>4
  <2> QED BY <1>1, <1>2, <2>1, <2>2, AfterSpan
<1> HIDE DEF batch
<1>6. TickFits(read) /\ read \in TickType
  <2>1. CASE batch = {}
    BY <1>2, <2>1 DEF NoTick, TickFits, TickType
  <2>2. CASE batch # {}
    <3>1. m + 1 <= top /\ m + 1 \in Seqs /\ top \in Seqs /\ (m + 1) - 1 = m
      BY <1>2, <1>3, <1>4, <1>5, <2>2 DEF Seqs
    <3>2. Sent(m)
      <4>1. ASSUME NEW s \in 1..m, s > from PROVE s \in 1..hi /\ s \notin log
        BY <1>2, <1>3, <1>5, <3>1, <4>1
      <4> QED BY <1>2, <1>3, <4>1 DEF Sent, NothingTrimmedUndelivered
    <3>3. batch \in SUBSET Seqs /\ 0 \in 0..MaxSeq
      BY <1>2, <1>5, <3>1 DEF Seqs
    <3>4. Sent((m + 1) - 1)
      BY <3>1, <3>2
    <3> QED BY <1>5, <2>2, <3>1, <3>3, <3>4 DEF TickFits, TickType
  <2> QED BY <2>1, <2>2
<1>7. PICK k \in TickType : k = read
  BY <1>6
<1>8. received' = received /\ tick' = [tick EXCEPT ![t] = k] /\ TickOnly /\ UNCHANGED cursor
  BY <1>7 DEF ListBatch, from, batch
<1>9. TickFits(k)'
  BY <1>6, <1>7, <1>8 DEF TickFits, Sent
<1>10. received' \subseteq Seqs /\ received \subseteq received'
  BY <1>8 DEF AuditInv, AuditTypeOK
<1> QED BY <1>7, <1>8, <1>9, <1>10, TickMoves

LEMMA SendInv == ASSUME AuditInv, NEW t \in Ticks, Accepted(t) \/ Unanswered(t) PROVE AuditInv'
<1>1. /\ tick[t] \in TickType /\ TickFits(tick[t]) /\ tick[t].at = "send" /\ received \subseteq Seqs
      /\ tick \in [Ticks -> TickType] /\ MaxSeq \in Nat
  BY TypeParts DEF AuditInv, Accepted, Unanswered, AuditTypeOK
<1>2. received \subseteq received' /\ received' \subseteq Seqs /\ TickOnly /\ UNCHANGED cursor
  BY <1>1 DEF Accepted, Unanswered, TickType
<1>3. CASE Accepted(t)
  <2>1. PICK k \in TickType : k = [tick[t] EXCEPT !.at = "confirm"]
    BY <1>1 DEF TickType
  <2>2. k.at = "confirm" /\ k.batch = tick[t].batch
    BY <1>1, <2>1 DEF TickType
  <2>3. tick' = [tick EXCEPT ![t] = k]
    BY <1>1, <1>3, <2>1 DEF Accepted
  <2>4. PICK a \in Seqs, b \in Seqs : a <= b /\ tick[t].batch = a..b /\ Sent(a - 1)
    BY <1>1 DEF TickFits
  <2>5. Sent(a - 1)' /\ k.batch \subseteq received'
    BY <1>2, <1>3, <2>2, <2>4 DEF Sent, Accepted
  <2>6. TickFits(k)'
    BY <2>2, <2>4, <2>5 DEF TickFits
  <2> QED BY <1>2, <2>1, <2>3, <2>6, TickMoves
<1>4. CASE Unanswered(t)
  <2>1. NoTick \in TickType /\ TickFits(NoTick)'
    BY <1>1 DEF NoTick, TickType, TickFits
  <2>2. tick' = [tick EXCEPT ![t] = NoTick]
    BY <1>4 DEF Unanswered
  <2> QED BY <1>2, <2>1, <2>2, TickMoves
<1> QED BY <1>3, <1>4, <1>1

\* Behind the confirmed batch all is received: the cursor may move back, never past a hole.
LEMMA ConfirmInv == ASSUME AuditInv, NEW t \in Ticks, Confirm(t) PROVE AuditInv'
<1> USE DEF AuditInv, Confirm, TickOnly, trimming
<1>1. /\ tick[t] \in TickType /\ TickFits(tick[t]) /\ tick[t].at = "confirm" /\ MaxSeq \in Nat
      /\ tick \in [Ticks -> TickType]
  BY TypeParts
<1>2. PICK a \in Seqs, b \in Seqs : a <= b /\ tick[t].batch = a..b /\ Sent(a - 1)
  BY <1>1 DEF TickFits
<1>3. cursor' = b /\ b \in 0..MaxSeq
  <2>1. a \in Int /\ b \in Int /\ b \in 0..MaxSeq
    BY <1>1, <1>2 DEF Seqs
  <2>2. (CHOOSE s \in a..b : \A r \in a..b : r <= s) = b
    BY <1>2, <2>1, IntervalMax
  <2> QED BY <1>2, <2>1, <2>2
<1>4. Sent(b)
  <2>1. a..b \subseteq received /\ a \in Nat /\ b \in Nat
    BY <1>1, <1>2 DEF TickFits, Seqs
  <2> QED BY <1>2, <2>1 DEF Sent
<1>5. Sent(cursor)'
  BY <1>3, <1>4 DEF Sent
<1>6. LastSeq' = LastSeq
  BY LogStill
<1>7. AuditTypeOK'
  <2>1. NoTick \in TickType
    BY <1>1 DEF NoTick, TickType
  <2>2. tick' \in [Ticks -> TickType]
    BY <1>1, <2>1
  <2> QED BY <1>3, <2>2 DEF AuditTypeOK, TickType
<1>8. ASSUME NEW u \in Ticks PROVE TickFits(tick[u])'
  <2>1. tick'[u] = IF u = t THEN NoTick ELSE tick[u]
    BY <1>1
  <2>2. CASE u = t
    BY <2>1, <2>2 DEF TickFits, NoTick
  <2>3. CASE u # t
    <3>1. tick'[u] = tick[u] /\ TickFits(tick[u])
      BY <2>1, <2>3
    <3> QED BY <3>1 DEF TickFits, Sent
  <2> QED BY <2>2, <2>3
<1>9. (\E lo, hi \in 0..MaxSeq : Span(lo, hi) /\ (~overlapped => lo <= anchor))'
  BY DEF Span
<1>10. NothingTrimmedUndelivered' /\ (\A p \in Passes : PassFits(pass[p]))' /\ (~overlapped => Alone)'
  BY <1>6 DEF NothingTrimmedUndelivered, PassFits, Sent, Alone
<1> QED BY <1>5, <1>7, <1>8, <1>9, <1>10

-----------------------------------------------------------------------------
(* The theorems.                                                           *)

LEMMA AuditInductive == AuditInv /\ [AuditNext]_auditVars => AuditInv'
<1> SUFFICES ASSUME AuditInv, [AuditNext]_auditVars PROVE AuditInv'
  OBVIOUS
<1>1. CASE AppendAudit
  BY <1>1, AppendInv
<1>2. CASE AuditAges
  BY <1>2, AgesInv
<1>3. ASSUME NEW p \in Passes, RunRetention(p) \/ PassEnds(p) PROVE AuditInv'
  BY <1>3, ReadAnchorInv, QuietPassInv, SetAnchorInv, TrimInv DEF RunRetention
<1>4. ASSUME NEW t \in Ticks, Tick(t) PROVE AuditInv'
  BY <1>4, ReadCursorInv, ListInv, SendInv, ConfirmInv DEF Tick
<1>5. CASE UNCHANGED auditVars
  <2>1. LastSeq' = LastSeq
    BY <1>5, LogStill DEF auditVars
  <2> QED BY <1>5, <2>1 DEF AuditInv, auditVars, shipping, trimming, AuditTypeOK, Span, NothingTrimmedUndelivered,
                            Sent, TickFits, PassFits, Alone
<1> QED BY <1>1, <1>2, <1>3, <1>4, <1>5 DEF AuditNext

LEMMA AuditStarts == AuditInit => AuditInv
<1> SUFFICES ASSUME AuditInit PROVE AuditInv
  OBVIOUS
<1> USE DEF AuditInit
<1>1. MaxSeq \in Nat /\ LastSeq = 0
  BY AuditAssumption DEF LastSeq
<1>2. AuditTypeOK
  <2>1. NoTick \in TickType /\ NoAuditPass \in PassType
    BY <1>1 DEF NoTick, NoAuditPass, TickType, PassType
  <2>2. tick \in [Ticks -> TickType] /\ pass \in [Passes -> PassType]
    BY <2>1
  <2>3. /\ log \subseteq Seqs /\ received \subseteq Seqs /\ overlapped \in BOOLEAN
        /\ aged \in 0..MaxSeq /\ anchor \in 0..MaxSeq /\ cursor \in 0..MaxSeq
    <3>1. log = {} /\ received = {} /\ overlapped = FALSE /\ aged = 0 /\ anchor = 0 /\ cursor = 0
      OBVIOUS
    <3>2. 0 \in 0..MaxSeq
      BY <1>1
    <3> HIDE DEF AuditInit
    <3> QED BY <3>1, <3>2
  <2> HIDE DEF AuditInit
  <2> QED BY <2>2, <2>3 DEF AuditTypeOK, TickType, PassType
<1>3. Span(0, 0) /\ 0 <= anchor
  BY DEF Span
<1>4. NothingTrimmedUndelivered /\ Sent(cursor)
  BY <1>1 DEF NothingTrimmedUndelivered, Sent
<1>5. (\A t \in Ticks : TickFits(tick[t])) /\ (\A p \in Passes : PassFits(pass[p])) /\ Alone
  BY DEF TickFits, PassFits, NoTick, NoAuditPass, Alone
<1> QED BY <1>1, <1>2, <1>3, <1>4, <1>5 DEF AuditInv

\* The log is an interval, and what ticks and passes remember of it is explained by what was received.
THEOREM AuditInvariant == AuditSpec => []AuditInv
  BY AuditStarts, AuditInductive, PTL DEF AuditSpec

\* Delivery before deletion (audit/retention.ts with observability/siem.ts): no event
\* is trimmed that the receiver never accepted, for any overlap of ticks and passes.
THEOREM DeliveredBeforeTrimmed == AuditSpec => []NothingTrimmedUndelivered
<1>1. AuditInv => NothingTrimmedUndelivered
  BY DEF AuditInv
<1> QED BY <1>1, AuditInvariant, PTL

\* The chain verifies from its anchor through every trim (audit/retention.ts), as long
\* as no two passes were under way at once.
THEOREM ChainKept == AuditSpec => []OnePassKeepsTheChain
<1>1. ASSUME AuditInv PROVE OnePassKeepsTheChain
  <2>1. PICK lo \in 0..MaxSeq, hi \in 0..MaxSeq : Span(lo, hi) /\ (~overlapped => lo <= anchor)
    BY <1>1 DEF AuditInv
  <2>2. anchor \in Nat /\ lo \in Nat /\ hi \in Nat
    BY <1>1, TypeParts, <2>1, AuditAssumption DEF AuditInv
  <2>3. ASSUME ~overlapped, NEW s \in log, s > anchor PROVE s = anchor + 1 \/ s - 1 \in log
    BY <2>1, <2>2, <2>3 DEF Span
  <2> QED BY <2>3 DEF OnePassKeepsTheChain, ChainVerifies
<1> QED BY <1>1, AuditInvariant, PTL

\* The number of the last event, and what lies below it.
LEMMA LogBelow == ASSUME AuditInv PROVE LastSeq \in Nat /\ log \subseteq 1..LastSeq
<1>1. PICK lo \in 0..MaxSeq, hi \in 0..MaxSeq : Span(lo, hi)
  BY DEF AuditInv
<1>2. lo \in Nat /\ hi \in Nat /\ LastSeq = hi
  BY <1>1, SpanLast, AuditAssumption
<1> QED BY <1>1, <1>2 DEF Span

\* Only an append moves the last seq.
LEMMA SeqStep == ASSUME AuditInv, [AuditNext]_auditVars PROVE LastSeq' >= LastSeq /\ (LastSeq' = LastSeq \/ AppendAudit)
<1>1. LastSeq \in Nat
  BY LogBelow
<1>2. CASE AppendAudit
  BY <1>1, <1>2, AppendInv
<1>3. CASE AuditAges \/ UNCHANGED auditVars
  BY <1>1, <1>3, LogStill DEF AuditAges, auditVars
<1>4. ASSUME NEW p \in Passes, RunRetention(p) \/ PassEnds(p) PROVE LastSeq' = LastSeq
  <2>1. CASE TrimAudit(p)
    BY <2>1, TrimInv
  <2>2. CASE ~TrimAudit(p)
    <3>1. log' = log
      BY <1>4, <2>2 DEF RunRetention, PassEnds, ReadAnchor, Scan, CapAtCursor, ResolveBoundary, SpareHead, SetAnchor, PassOnly
    <3> QED BY <3>1, LogStill
  <2> QED BY <2>1, <2>2
<1>5. ASSUME NEW t \in Ticks, Tick(t) PROVE LastSeq' = LastSeq
  <2>1. log' = log
    BY <1>5 DEF Tick, ReadCursor, ListBatch, Accepted, Unanswered, Confirm, TickOnly
  <2> QED BY <2>1, LogStill
<1> QED BY <1>1, <1>2, <1>3, <1>4, <1>5 DEF AuditNext

\* Seqs are never given twice (store appendAudit continues the last row): no trim takes the last row.
THEOREM SeqsNeverReused == AuditSpec => SeqsGoOn
<1>1. AuditInv /\ [AuditNext]_auditVars => [LastSeq' >= LastSeq]_auditVars
  BY SeqStep
<1> QED BY <1>1, AuditInvariant, PTL DEF AuditSpec, SeqsGoOn

\* Nobody sends or receives an event that was not appended.
OnlyAppended ==
    /\ received \subseteq 1..LastSeq
    /\ \A t \in Ticks : tick[t].batch \subseteq 1..LastSeq

LEMMA AppendedStep == ASSUME AuditInv, OnlyAppended, [AuditNext]_auditVars PROVE OnlyAppended'
<1>1. LastSeq \in Nat /\ LastSeq' \in Nat /\ 1..LastSeq \subseteq 1..LastSeq'
  <2>1. LastSeq \in Nat /\ (LastSeq' = LastSeq \/ LastSeq' = LastSeq + 1)
    BY LogBelow, SeqStep, AppendInv
  <2> DEFINE now == LastSeq
             then == LastSeq'
  <2> HIDE DEF now, then
  <2>2. now \in Nat /\ (then = now \/ then = now + 1)
    BY <2>1 DEF now, then
  <2>3. now \in Nat /\ then \in Nat /\ 1..now \subseteq 1..then
    BY <2>2
  <2> QED BY <2>3 DEF now, then
<1>2. CASE UNCHANGED <<tick, received>>
  BY <1>1, <1>2 DEF OnlyAppended
<1>3. ASSUME NEW t \in Ticks, Tick(t) PROVE OnlyAppended'
  <2>1. tick \in [Ticks -> TickType] /\ log \subseteq 1..LastSeq
    BY TypeParts, LogBelow DEF AuditInv
  <2>2. CASE ReadCursor(t)
    BY <1>1, <2>1, <2>2 DEF ReadCursor, OnlyAppended
  <2>3. CASE ListBatch(t)
    <3>1. AuditAfter(tick[t].from, SiemBatch) \subseteq 1..LastSeq
      BY <2>1 DEF AuditAfter
    <3> QED BY <1>1, <2>1, <2>3, <3>1 DEF ListBatch, OnlyAppended, NoTick
  <2>4. CASE Accepted(t)
    <3>1. \A u \in Ticks : tick'[u].batch = tick[u].batch
      BY <2>1, <2>4 DEF Accepted, TickType
    <3> QED BY <1>1, <2>4, <3>1 DEF Accepted, OnlyAppended
  <2>5. CASE Unanswered(t) \/ Confirm(t)
    <3>1. \A u \in Ticks : tick'[u].batch \subseteq tick[u].batch
      BY <2>1, <2>5 DEF Unanswered, Confirm, NoTick
    <3>2. received' \subseteq received \cup tick[t].batch
      BY <2>5 DEF Unanswered, Confirm
    <3> QED BY <1>1, <3>1, <3>2 DEF OnlyAppended
  <2> QED BY <1>3, <2>2, <2>3, <2>4, <2>5 DEF Tick
<1>4. ASSUME NEW p \in Passes, RunRetention(p) \/ PassEnds(p) PROVE OnlyAppended'
  BY <1>2, <1>4 DEF RunRetention, PassEnds, ReadAnchor, Scan, CapAtCursor, ResolveBoundary, SpareHead, SetAnchor, TrimAudit, PassOnly, shipping
<1> QED BY <1>2, <1>3, <1>4 DEF AuditNext, AppendAudit, AuditAges, shipping, auditVars

\* A trim drops what lies up to its boundary, or nothing when another pass got there first.
LEMMA TrimDrops == ASSUME AuditInv, NEW p \in Passes, TrimAudit(p) PROVE Ledger!LNext \/ UNCHANGED <<LastSeq, log, received>>
<1> DEFINE b == pass[p].boundary
<1>1. LastSeq' = LastSeq /\ log' = {s \in log : s > b} /\ received' = received
  BY TrimInv DEF TrimAudit, shipping
<1>2. PICK lo \in 0..MaxSeq, hi \in 0..MaxSeq : Span(lo, hi)
  BY DEF AuditInv
<1>3. lo \in Nat /\ hi \in Nat /\ LastSeq = hi
  BY <1>2, SpanLast, AuditAssumption
<1>4. b \in Nat /\ b < LastSeq /\ Sent(b)
  BY TypeParts DEF AuditInv, TrimAudit, PassFits, PassType
<1> HIDE DEF b
<1>5. CASE b \in log
  <2>1. \A e \in log : e <= b => e \in received
    BY <1>4, LogBelow DEF Sent
  <2>2. Ledger!Drop(b)
    BY <1>1, <1>4, <2>1 DEF Ledger!Drop
  <2> QED BY <1>5, <2>2 DEF Ledger!LNext
<1>6. CASE b \notin log
  <2>1. log' = log
    BY <1>1, <1>2, <1>3, <1>4, <1>6 DEF Span
  <2> QED BY <1>1, <2>1
<1> QED BY <1>5, <1>6

LEMMA LedgerStep ==
    ASSUME AuditInv, OnlyAppended, [AuditNext]_auditVars
    PROVE  Ledger!LNext \/ UNCHANGED <<LastSeq, log, received>>
<1>1. LastSeq' = LastSeq \/ AppendAudit
  BY SeqStep
<1>2. CASE AppendAudit
  BY <1>2, AppendInv DEF AppendAudit, shipping, Ledger!LNext, Ledger!Record
<1>3. CASE UNCHANGED <<LastSeq, log>> /\ received \subseteq received'
  <2>1. received' \subseteq 1..LastSeq
    BY <1>3, AppendedStep DEF OnlyAppended
  <2> QED BY <1>3, <2>1 DEF Ledger!LNext, Ledger!Deliver
<1>4. ASSUME NEW p \in Passes, TrimAudit(p) PROVE Ledger!LNext \/ UNCHANGED <<LastSeq, log, received>>
  BY <1>4, TrimDrops
<1>5. ASSUME ~AppendAudit, \A p \in Passes : ~TrimAudit(p) PROVE log' = log /\ received \subseteq received'
  BY <1>5 DEF AuditNext, AuditAges, RunRetention, PassEnds, ReadAnchor, Scan, CapAtCursor, ResolveBoundary, SpareHead, SetAnchor,
     PassOnly, trimming, shipping, Tick, ReadCursor, ListBatch, Accepted, Unanswered, Confirm, TickOnly, auditVars
<1> QED BY <1>1, <1>2, <1>3, <1>4, <1>5

\* The log with its forwarding and retention keeps what LedgerPromise says, for any
\* overlap of ticks and passes and any batch sizes.
THEOREM AuditKeepsLedger == AuditSpec => KeepsLedger
<1>1. AuditInit => Ledger!LInit /\ OnlyAppended
  BY DEF AuditInit, Ledger!LInit, OnlyAppended, LastSeq, NoTick
<1>2. AuditInv /\ OnlyAppended /\ [AuditNext]_auditVars => OnlyAppended'
  BY AppendedStep
<1>3. AuditInv /\ OnlyAppended /\ [AuditNext]_auditVars => [Ledger!LNext]_(Ledger!lvars)
  BY LedgerStep DEF Ledger!lvars
<1> QED BY <1>1, <1>2, <1>3, AuditInvariant, PTL DEF AuditSpec, KeepsLedger, Ledger!LSpec

-----------------------------------------------------------------------------
(***************************************************************************)
(* Nothing asked for is lost, for any processes, items, budget, attempts   *)
(* and number of passes that end halfway.  NoItemLost is not inductive:    *)
(* EdgeInv adds that a row which a pass may still settle as done has the   *)
(* item among those the pass has yet to send or defer.                     *)
(***************************************************************************)

PurgeRow == [items : SUBSET Items, state : {"pending", "done", "failed"}, attempt : Nat, leased : BOOLEAN]
DrainStates == [at : {"idle", "send", "settle"}, rows : SUBSET (Nat \X Nat),
                left : SUBSET Items, tokens : Nat, result : {"none", "done", "retry", "failed"}]
DrainState == {d \in DrainStates : d.at = "settle" => d.result # "none"}

\* What pass p will do to a row it has claimed leaves item x in it, or sends x.
Minds(p, x) ==
    \/ drain[p].at = "send" /\ x \in drain[p].left
    \/ drain[p].at = "settle" /\ drain[p].result # "done"

\* Row i keeps item x: it was reported failed, or every pass that may settle it minds x.
Keeps(i, x) ==
    /\ x \in purge[i].items
    /\ \/ purge[i].state = "failed"
       \/ /\ purge[i].state = "pending"
          /\ \A p \in Processes : <<i, purge[i].attempt>> \in drain[p].rows => Minds(p, x)

EdgeTyped ==
    /\ purge \in [Purges -> PurgeRow]
    /\ drain \in [Processes -> DrainState]
    /\ owed \subseteq Items
RowsNumbered == \E n \in Nat : Purges = 1..n
TokensDrawn == \A p \in Processes : \A c \in drain[p].rows : c[1] \in Purges /\ c[2] <= purge[c[1]].attempt
ItemsKept == \A x \in owed : \E i \in Purges : Keeps(i, x)

EdgeInv == EdgeTyped /\ RowsNumbered /\ TokensDrawn /\ ItemsKept

-----------------------------------------------------------------------------
(* Helpers.                                                                *)

\* A new row takes an unused number and leaves the others alone.
LEMMA RowAdded ==
    ASSUME EdgeTyped, RowsNumbered, NEW items \in SUBSET Items, AddPurge(items)
    PROVE  /\ RowsNumbered' /\ purge' \in [Purges' -> PurgeRow]
           /\ Purges \subseteq Purges' /\ \A i \in Purges : purge'[i] = purge[i]
           /\ \E new \in Purges' \ Purges : purge'[new] = NewPurge(items)
<1>1. PICK n \in Nat : Purges = 1..n
  BY DEF RowsNumbered
<1>2. Cardinality(Purges) = n
  BY <1>1, FS_Interval
<1>3. purge' = [i \in 1..(n + 1) |-> IF i \in Purges THEN purge[i] ELSE NewPurge(items)]
  <2>1. Purges \cup {n + 1} = 1..(n + 1)
    BY <1>1
  <2> QED BY <1>2, <2>1 DEF AddPurge
<1>4. Purges' = 1..(n + 1)
  BY <1>3 DEF Purges
<1>5. NewPurge(items) \in PurgeRow
  BY DEF NewPurge, PurgeRow
<1>6. purge' \in [Purges' -> PurgeRow]
  BY <1>3, <1>4, <1>5 DEF EdgeTyped
<1>7. n + 1 \in Purges' \ Purges /\ purge'[n + 1] = NewPurge(items)
  BY <1>1, <1>3, <1>4
<1> QED BY <1>1, <1>3, <1>4, <1>6, <1>7 DEF RowsNumbered

\* The state of one pass changes.
LEMMA DrainMoves ==
    ASSUME EdgeTyped, NEW p \in Processes, NEW new, new \in DrainState, drain' = [drain EXCEPT ![p] = new]
    PROVE  /\ drain' \in [Processes -> DrainState] /\ drain'[p] = new
           /\ \A q \in Processes : q # p => drain'[q] = drain[q]
BY DEF EdgeTyped

-----------------------------------------------------------------------------
(* One lemma per action.                                                   *)

LEMMA EnqueueInv == ASSUME EdgeInv, NEW items \in SUBSET Items, EnqueuePurge(items) PROVE EdgeInv'
<1>1. /\ RowsNumbered' /\ purge' \in [Purges' -> PurgeRow]
      /\ Purges \subseteq Purges' /\ \A i \in Purges : purge'[i] = purge[i]
  BY RowAdded DEF EdgeInv, EnqueuePurge
<1>2. PICK new \in Purges' \ Purges : purge'[new] = NewPurge(items)
  BY RowAdded DEF EdgeInv, EnqueuePurge
<1>3. drain' = drain /\ owed' = owed \cup items
  BY DEF EnqueuePurge
<1>4. EdgeTyped'
  BY <1>1, <1>3 DEF EdgeInv, EdgeTyped
<1>5. TokensDrawn'
  BY <1>1, <1>3 DEF EdgeInv, TokensDrawn
<1>6. ASSUME NEW x \in owed' PROVE \E i \in Purges' : Keeps(i, x)'
  <2>1. CASE x \in owed
    <3>1. PICK i \in Purges : Keeps(i, x)
      BY <2>1 DEF EdgeInv, ItemsKept
    <3>2. Keeps(i, x)'
      BY <1>1, <1>3, <3>1 DEF Keeps, Minds
    <3> QED BY <1>1, <3>2
  <2>2. CASE x \in items
    <3>1. \A p \in Processes : \A c \in drain[p].rows : c[1] # new
      BY <1>2 DEF EdgeInv, TokensDrawn
    <3>2. Keeps(new, x)'
      BY <1>2, <1>3, <2>2, <3>1 DEF Keeps, NewPurge
    <3> QED BY <1>2, <3>2
  <2> QED BY <1>3, <2>1, <2>2
<1> QED BY <1>1, <1>4, <1>5, <1>6 DEF EdgeInv, ItemsKept

LEMMA ClaimInv == ASSUME EdgeInv, NEW p \in Processes, ClaimPurges(p) PROVE EdgeInv'
<1>1. PICK tokens \in 1..Burst, claimed \in SUBSET DuePurges :
         /\ purge' = [i \in Purges |-> IF i \in claimed THEN [purge[i] EXCEPT !.attempt = @ + 1, !.leased = TRUE] ELSE purge[i]]
         /\ drain' = [drain EXCEPT ![p] = [at |-> "send", rows |-> {<<i, purge[i].attempt + 1>> : i \in claimed},
                                           left |-> UNION {purge[i].items : i \in claimed}, tokens |-> tokens, result |-> "none"]]
  BY DEF ClaimPurges
<1> DEFINE new == [at |-> "send", rows |-> {<<i, purge[i].attempt + 1>> : i \in claimed},
                   left |-> UNION {purge[i].items : i \in claimed}, tokens |-> tokens, result |-> "none"]
<1>2. claimed \subseteq Purges /\ Purges \subseteq Nat /\ Purges' = Purges /\ owed' = owed
  <2>1. claimed \subseteq Purges /\ Purges' = Purges
    BY <1>1 DEF DuePurges, Purges
  <2>2. Purges \subseteq Nat
    BY DEF EdgeInv, RowsNumbered
  <2>3. owed' = owed
    BY DEF ClaimPurges
  <2> QED BY <2>1, <2>2, <2>3
<1>3. \A i \in Purges : purge[i] \in PurgeRow
  BY DEF EdgeInv, EdgeTyped
<1>4. \A i \in Purges : /\ purge'[i].items = purge[i].items /\ purge'[i].state = purge[i].state
                        /\ purge'[i].attempt = IF i \in claimed THEN purge[i].attempt + 1 ELSE purge[i].attempt
                        /\ purge'[i] \in PurgeRow
  <2> SUFFICES ASSUME NEW i \in Purges
               PROVE  /\ purge'[i].items = purge[i].items /\ purge'[i].state = purge[i].state
                      /\ purge'[i].attempt = IF i \in claimed THEN purge[i].attempt + 1 ELSE purge[i].attempt
                      /\ purge'[i] \in PurgeRow
    OBVIOUS
  <2>1. CASE i \in claimed
    <3> DEFINE n == purge[i].attempt + 1
    <3>1. purge'[i] = [purge[i] EXCEPT !.attempt = n, !.leased = TRUE]
      BY <1>1, <2>1
    <3>2. purge[i] \in PurgeRow /\ n \in Nat
      BY <1>3 DEF PurgeRow
    <3> HIDE DEF n
    <3>3. purge'[i].items = purge[i].items /\ purge'[i].state = purge[i].state /\ purge'[i].attempt = n /\ purge'[i] \in PurgeRow
      BY <3>1, <3>2 DEF PurgeRow
    <3> QED BY <2>1, <3>3 DEF n
  <2>2. CASE i \notin claimed
    <3>1. purge'[i] = purge[i]
      BY <1>1, <2>2
    <3> QED BY <1>3, <2>2, <3>1
  <2> QED BY <2>1, <2>2
<1>5. new \in DrainState
  <2>1. new.rows \subseteq Nat \X Nat
    BY <1>2, <1>3 DEF PurgeRow
  <2>2. new.left \subseteq Items
    BY <1>2, <1>3 DEF PurgeRow
  <2>3. tokens \in Nat
    BY EdgeAssumption
  <2> QED BY <2>1, <2>2, <2>3 DEF DrainState, DrainStates
<1>6. /\ drain' \in [Processes -> DrainState] /\ drain'[p] = new
      /\ \A q \in Processes : q # p => drain'[q] = drain[q]
  <2> HIDE DEF new
  <2> QED BY <1>1, <1>5, DrainMoves DEF EdgeInv, new
<1>7. EdgeTyped' /\ RowsNumbered'
  <2>1. purge' \in [Purges' -> PurgeRow]
    BY <1>1, <1>2, <1>4
  <2> QED BY <1>2, <1>6, <2>1 DEF EdgeInv, EdgeTyped, RowsNumbered
<1>8. TokensDrawn'
  <2> SUFFICES ASSUME NEW q \in Processes, NEW c \in drain'[q].rows
               PROVE  c[1] \in Purges /\ c[2] <= purge'[c[1]].attempt
    BY <1>2 DEF TokensDrawn
  <2>1. CASE q = p
    BY <1>2, <1>3, <1>4, <1>6, <2>1 DEF PurgeRow
  <2>2. CASE q # p
    <3>1. c[1] \in Purges /\ c[2] <= purge[c[1]].attempt
      BY <1>6, <2>2 DEF EdgeInv, TokensDrawn
    <3>2. drain[q].rows \subseteq Nat \X Nat
      BY DEF EdgeInv, EdgeTyped, DrainState, DrainStates
    <3>3. c[2] \in Nat /\ purge[c[1]].attempt \in Nat
      BY <1>3, <1>6, <2>2, <3>1, <3>2 DEF PurgeRow
    <3> QED BY <1>4, <3>1, <3>3
  <2> QED BY <2>1, <2>2
<1>9. ASSUME NEW x \in owed PROVE \E i \in Purges : Keeps(i, x)'
  <2>1. PICK i \in Purges : Keeps(i, x)
    BY DEF EdgeInv, ItemsKept
  <2>2. purge[i].attempt \in Nat
    BY <1>3 DEF PurgeRow
  <2>3. CASE i \in claimed
    <3>1. \A q \in Processes : q # p => <<i, purge[i].attempt + 1>> \notin drain[q].rows
      BY <2>2 DEF EdgeInv, TokensDrawn
    <3>2. purge[i].state = "pending" /\ x \in purge[i].items
      BY <1>1, <2>1, <2>3 DEF Keeps, DuePurges
    <3>3. Minds(p, x)'
      BY <1>6, <2>3, <3>2 DEF Minds
    <3> QED BY <1>4, <1>6, <2>3, <3>1, <3>2, <3>3 DEF Keeps
  <2>4. CASE i \notin claimed
    <3>1. <<i, purge[i].attempt>> \notin drain'[p].rows
      BY <1>6, <2>4
    <3>2. \A q \in Processes : q # p => (Minds(q, x)' <=> Minds(q, x)) /\ drain'[q].rows = drain[q].rows
      BY <1>6 DEF Minds
    <3> QED BY <1>4, <2>1, <2>4, <3>1, <3>2 DEF Keeps
  <2> QED BY <2>3, <2>4
<1> QED BY <1>2, <1>7, <1>8, <1>9 DEF EdgeInv, ItemsKept

\* A step of one pass that touches no row: what it kept, it keeps, or others do.
LEMMA PassKeeps ==
    ASSUME EdgeInv, NEW p \in Processes, NEW new \in DrainState, purge' = purge, owed' \subseteq owed,
           drain' = [drain EXCEPT ![p] = new], new.rows \subseteq drain[p].rows,
           \A x \in owed' : Minds(p, x) => Minds(p, x)' \/ new.rows = {}
    PROVE  EdgeInv'
<1>1. /\ drain' \in [Processes -> DrainState] /\ drain'[p] = new
      /\ \A q \in Processes : q # p => drain'[q] = drain[q]
  BY DrainMoves DEF EdgeInv
<1>2. EdgeTyped' /\ RowsNumbered'
  BY <1>1 DEF EdgeInv, EdgeTyped, RowsNumbered, Purges
<1>3. TokensDrawn'
  BY <1>1 DEF EdgeInv, TokensDrawn, Purges
<1>4. ASSUME NEW x \in owed' PROVE \E i \in Purges : Keeps(i, x)'
  <2>1. PICK i \in Purges : Keeps(i, x)
    BY DEF EdgeInv, ItemsKept
  <2>2. \A q \in Processes : q # p => (Minds(q, x)' <=> Minds(q, x))
    BY <1>1 DEF Minds
  <2>3. ASSUME NEW q \in Processes, <<i, purge[i].attempt>> \in drain'[q].rows, purge[i].state # "failed" PROVE Minds(q, x)'
    <3>1. <<i, purge[i].attempt>> \in drain[q].rows
      BY <1>1, <2>3
    <3>2. Minds(q, x)
      BY <2>1, <2>3, <3>1 DEF Keeps
    <3> QED BY <1>1, <2>2, <2>3, <3>2
  <2> QED BY <2>1, <2>3 DEF Keeps
<1> QED BY <1>2, <1>3, <1>4 DEF EdgeInv, ItemsKept, Purges

LEMMA PassOnInv ==
    ASSUME EdgeInv, NEW p \in Processes, SendBatch(p) \/ SendFails(p) \/ AllSent(p) \/ PassCut(p)
    PROVE  EdgeInv'
<1>1. drain[p] \in DrainState
  BY DEF EdgeInv, EdgeTyped
<1>2. CASE SendBatch(p)
  <2>1. PICK batch \in SUBSET drain[p].left :
           drain' = [drain EXCEPT ![p].left = @ \ batch, ![p].tokens = IF @ > 0 THEN @ - 1 ELSE 0] /\ owed' = owed \ batch
    BY <1>2 DEF SendBatch
  <2> DEFINE new == [drain[p] EXCEPT !.left = @ \ batch, !.tokens = IF @ > 0 THEN @ - 1 ELSE 0]
  <2>2. new \in DrainState /\ new.rows = drain[p].rows /\ new.at = drain[p].at /\ new.result = drain[p].result
        /\ new.left = drain[p].left \ batch
    <3>1. drain[p] \in DrainStates /\ (drain[p].at = "settle" => drain[p].result # "none")
      BY <1>1 DEF DrainState
    <3>2. drain[p].left \ batch \in SUBSET Items /\ (IF drain[p].tokens > 0 THEN drain[p].tokens - 1 ELSE 0) \in Nat
      BY <3>1 DEF DrainStates
    <3>3. new \in DrainStates
      BY <3>1, <3>2 DEF DrainStates
    <3>4. new.rows = drain[p].rows /\ new.at = drain[p].at /\ new.result = drain[p].result /\ new.left = drain[p].left \ batch
      BY <3>1 DEF DrainStates
    <3> QED BY <3>1, <3>3, <3>4 DEF DrainState
  <2>3. drain' = [drain EXCEPT ![p] = new]
    BY <2>1 DEF EdgeInv, EdgeTyped
  <2>4. \A x \in owed' : Minds(p, x) => Minds(p, x)'
    <3> HIDE DEF new
    <3>1. drain'[p] = new
      BY <2>2, <2>3, DrainMoves DEF EdgeInv
    <3> QED BY <2>1, <2>2, <3>1 DEF Minds
  <2>5. purge' = purge
    BY <1>2 DEF SendBatch
  <2> HIDE DEF new
  <2> QED BY <2>1, <2>2, <2>3, <2>4, <2>5, PassKeeps
<1>3. CASE SendFails(p)
  <2>1. PICK result \in {"retry", "failed"} :
           drain' = [drain EXCEPT ![p] = [@ EXCEPT !.at = "settle", !.left = {}, !.tokens = 0, !.result = result]]
    BY <1>3 DEF SendFails
  <2> DEFINE new == [drain[p] EXCEPT !.at = "settle", !.left = {}, !.tokens = 0, !.result = result]
  <2>2. new \in DrainState /\ new.rows = drain[p].rows /\ new.at = "settle" /\ new.result # "done"
    BY <1>1 DEF DrainState, DrainStates
  <2>3. drain' = [drain EXCEPT ![p] = new]
    BY <2>1 DEF EdgeInv, EdgeTyped
  <2>4. purge' = purge /\ owed' = owed
    BY <1>3 DEF SendFails
  <2> HIDE DEF new
  <2>5. drain'[p] = new
    BY <2>2, <2>3, DrainMoves DEF EdgeInv
  <2>6. \A x \in owed' : Minds(p, x)'
    BY <2>2, <2>5 DEF Minds
  <2> QED BY <2>2, <2>3, <2>4, <2>6, PassKeeps
<1>4. CASE AllSent(p)
  <2> DEFINE new == [drain[p] EXCEPT !.at = "settle", !.left = {}, !.tokens = 0, !.result = "done"]
  <2>1. new \in DrainState /\ new.rows = drain[p].rows
    BY <1>1 DEF DrainState, DrainStates
  <2>2. drain' = [drain EXCEPT ![p] = new] /\ purge' = purge /\ owed' = owed
    BY <1>4 DEF AllSent, EdgeInv, EdgeTyped
  <2>3. \A x \in owed' : ~Minds(p, x)
    BY <1>4 DEF AllSent, Minds
  <2> HIDE DEF new
  <2> QED BY <2>1, <2>2, <2>3, PassKeeps
<1>5. CASE PassCut(p)
  <2>1. NoDrain \in DrainState /\ NoDrain.rows = {}
    BY DEF NoDrain, DrainState, DrainStates
  <2>2. drain' = [drain EXCEPT ![p] = NoDrain] /\ purge' = purge /\ owed' = owed
    BY <1>5 DEF PassCut
  <2> QED BY <2>1, <2>2, PassKeeps
<1> QED BY <1>2, <1>3, <1>4, <1>5

\* The rest of a pass: in the new row before the claimed rows may be settled as done.
LEMMA DeferInv == ASSUME EdgeInv, NEW p \in Processes, DeferRest(p) PROVE EdgeInv'
<1> DEFINE new == [drain[p] EXCEPT !.at = "settle", !.left = {}, !.tokens = 0, !.result = "done"]
<1>1. drain[p] \in DrainState
  BY DEF EdgeInv, EdgeTyped
<1>2. new \in DrainState /\ new.rows = drain[p].rows
  BY <1>1 DEF DrainState, DrainStates
<1>3. drain' = [drain EXCEPT ![p] = new] /\ owed' = owed /\ AddPurge(drain[p].left) /\ drain[p].at = "send"
  BY DEF DeferRest, EdgeInv, EdgeTyped
<1>4. drain[p].left \in SUBSET Items
  BY <1>1 DEF DrainState, DrainStates
<1>5. /\ RowsNumbered' /\ purge' \in [Purges' -> PurgeRow]
      /\ Purges \subseteq Purges' /\ \A i \in Purges : purge'[i] = purge[i]
  BY <1>3, <1>4, RowAdded DEF EdgeInv
<1>6. PICK row \in Purges' \ Purges : purge'[row] = NewPurge(drain[p].left)
  BY <1>3, <1>4, RowAdded DEF EdgeInv
<1> HIDE DEF new
<1>7. /\ drain' \in [Processes -> DrainState] /\ drain'[p] = new
      /\ \A q \in Processes : q # p => drain'[q] = drain[q]
  BY <1>2, <1>3, DrainMoves DEF EdgeInv
<1>8. EdgeTyped'
  BY <1>3, <1>5, <1>7 DEF EdgeInv, EdgeTyped
<1>9. \A q \in Processes : drain'[q].rows = drain[q].rows
  BY <1>2, <1>7
<1>10. TokensDrawn'
  BY <1>5, <1>9 DEF EdgeInv, TokensDrawn
<1>11. ASSUME NEW x \in owed PROVE \E i \in Purges' : Keeps(i, x)'
  <2>1. PICK i \in Purges : Keeps(i, x)
    BY DEF EdgeInv, ItemsKept
  <2>2. CASE x \in drain[p].left
    <3>1. \A q \in Processes : \A c \in drain[q].rows : c[1] # row
      BY <1>6 DEF EdgeInv, TokensDrawn
    <3>2. Keeps(row, x)'
      BY <1>6, <1>9, <2>2, <3>1 DEF Keeps, NewPurge
    <3> QED BY <1>6, <3>2
  <2>3. CASE x \notin drain[p].left
    <3>1. ~Minds(p, x)
      BY <1>3, <2>3 DEF Minds
    <3>2. \A q \in Processes : q # p => (Minds(q, x)' <=> Minds(q, x))
      BY <1>7 DEF Minds
    <3>3. Keeps(i, x)'
      BY <1>5, <1>9, <2>1, <3>1, <3>2 DEF Keeps
    <3> QED BY <1>5, <3>3
  <2> QED BY <2>2, <2>3
<1> QED BY <1>3, <1>5, <1>8, <1>10, <1>11 DEF EdgeInv, ItemsKept

LEMMA SettleInv ==
    ASSUME EdgeInv, NEW p \in Processes, NEW i \in Purges, NEW token \in Nat, SettleRow(p, i, token)
    PROVE  EdgeInv'
<1> DEFINE new == PassWithout(drain[p], <<i, token>>)
           settles == purge[i].state = "pending" /\ purge[i].attempt = token
<1>1. drain[p] \in DrainState /\ purge[i] \in PurgeRow /\ <<i, token>> \in drain[p].rows /\ drain[p].at = "settle"
  BY DEF EdgeInv, EdgeTyped, SettleRow
<1>2. new \in DrainState /\ new.rows \subseteq drain[p].rows \ {<<i, token>>}
      /\ (new.rows = {} \/ (new.at = "settle" /\ new.result = drain[p].result))
  BY <1>1 DEF DrainState, DrainStates, NoDrain, PassWithout
<1>3. drain' = [drain EXCEPT ![p] = new] /\ owed' = owed
  BY DEF SettleRow, EdgeInv, EdgeTyped
<1>4. purge' = IF settles THEN [purge EXCEPT ![i] = SettledRow(@, drain[p].result)] ELSE purge
  BY DEF SettleRow
<1> HIDE DEF new
<1>5. /\ drain' \in [Processes -> DrainState] /\ drain'[p] = new
      /\ \A q \in Processes : q # p => drain'[q] = drain[q]
  BY <1>2, <1>3, DrainMoves DEF EdgeInv
<1>6. \A q \in Processes : drain'[q].rows \subseteq drain[q].rows
  BY <1>2, <1>5
<1>7. Purges' = Purges
  BY <1>4 DEF EdgeInv, EdgeTyped, Purges
<1>8. \A k \in Purges : /\ purge'[k].items = purge[k].items /\ purge'[k].attempt = purge[k].attempt
                        /\ k # i => purge'[k] = purge[k]
  BY <1>1, <1>4 DEF EdgeInv, EdgeTyped, SettledRow, PurgeRow
<1>9. purge[i].state # "pending" => purge'[i] = purge[i]
  BY <1>4
<1>10. settles => purge'[i] = SettledRow(purge[i], drain[p].result)
  BY <1>4 DEF EdgeInv, EdgeTyped
<1>11. purge'[i] \in PurgeRow /\ (drain[p].result # "done" /\ settles => purge'[i].state \in {"pending", "failed"})
  <2>1. CASE settles
    <3> DEFINE st == IF drain[p].result # "retry" THEN drain[p].result
                     ELSE IF purge[i].attempt < MaxAttempts THEN "pending" ELSE "failed"
    <3>1. drain[p].result \in {"done", "retry", "failed"}
      BY <1>1 DEF DrainState, DrainStates
    <3>2. st \in {"pending", "done", "failed"} /\ (drain[p].result # "done" => st \in {"pending", "failed"})
      BY <3>1
    <3>3. purge'[i] = [purge[i] EXCEPT !.leased = FALSE, !.state = st]
      BY <1>10, <2>1 DEF SettledRow
    <3> HIDE DEF st
    <3>4. purge'[i].state = st /\ purge'[i] \in PurgeRow
      BY <1>1, <3>2, <3>3 DEF PurgeRow
    <3> QED BY <3>2, <3>4
  <2>2. CASE ~settles
    BY <1>1, <1>4, <2>2
  <2> QED BY <2>1, <2>2
<1>12. EdgeTyped' /\ RowsNumbered'
  <2>1. \A k \in Purges : purge'[k] \in PurgeRow
    BY <1>8, <1>11 DEF EdgeInv, EdgeTyped
  <2>2. purge' = [k \in Purges |-> purge'[k]]
    BY <1>4 DEF EdgeInv, EdgeTyped
  <2>3. purge' \in [Purges' -> PurgeRow]
    BY <1>7, <2>1, <2>2
  <2> QED BY <1>3, <1>5, <1>7, <2>3 DEF EdgeInv, EdgeTyped, RowsNumbered
<1>13. TokensDrawn'
  BY <1>6, <1>7, <1>8 DEF EdgeInv, TokensDrawn
<1>14. ASSUME NEW x \in owed PROVE \E k \in Purges : Keeps(k, x)'
  <2>1. PICK k \in Purges : Keeps(k, x)
    BY DEF EdgeInv, ItemsKept
  <2>2. \A q \in Processes : q # p => (Minds(q, x)' <=> Minds(q, x))
    BY <1>5 DEF Minds
  <2>3. drain'[p].rows # {} => (Minds(p, x)' <=> Minds(p, x))
    BY <1>1, <1>2, <1>5 DEF Minds
  <2>4. \A q \in Processes : <<k, purge[k].attempt>> \in drain'[q].rows /\ purge[k].state = "pending" => Minds(q, x)'
    <3> TAKE q \in Processes
    <3>1. <<k, purge[k].attempt>> \in drain'[q].rows => <<k, purge[k].attempt>> \in drain[q].rows
      BY <1>6
    <3>2. <<k, purge[k].attempt>> \in drain[q].rows /\ purge[k].state = "pending" => Minds(q, x)
      BY <2>1 DEF Keeps
    <3> QED BY <2>2, <2>3, <3>1, <3>2
  <2>5. CASE purge'[k] = purge[k]
    BY <2>1, <2>4, <2>5 DEF Keeps
  <2>6. CASE purge'[k] # purge[k]
    <3>1. k = i /\ settles
      BY <1>4, <1>8, <2>6
    <3>2. Minds(p, x)
      BY <1>1, <2>1, <3>1 DEF Keeps
    <3>3. purge'[k].state \in {"pending", "failed"}
      BY <1>1, <1>11, <3>1, <3>2 DEF Minds
    <3> QED BY <1>8, <2>1, <2>4, <3>1, <3>3 DEF Keeps
  <2> QED BY <2>5, <2>6
<1> QED BY <1>3, <1>7, <1>12, <1>13, <1>14 DEF EdgeInv, ItemsKept

LEMMA LeaseRunsOutInv == ASSUME EdgeInv, NEW i \in Purges, LeaseRunsOut(i) PROVE EdgeInv'
<1>1. purge' = [purge EXCEPT ![i].leased = FALSE] /\ drain' = drain /\ owed' = owed
  BY DEF LeaseRunsOut
<1>2. Purges' = Purges
  BY <1>1 DEF EdgeInv, EdgeTyped, Purges
<1>3. \A k \in Purges : /\ purge'[k] \in PurgeRow /\ purge'[k].items = purge[k].items
                        /\ purge'[k].state = purge[k].state /\ purge'[k].attempt = purge[k].attempt
  BY <1>1 DEF EdgeInv, EdgeTyped, PurgeRow
<1>4. purge' \in [Purges' -> PurgeRow]
  BY <1>1, <1>2, <1>3 DEF EdgeInv, EdgeTyped
<1>5. EdgeTyped' /\ RowsNumbered' /\ TokensDrawn'
  BY <1>1, <1>2, <1>3, <1>4 DEF EdgeInv, EdgeTyped, RowsNumbered, TokensDrawn
<1>6. ItemsKept'
  BY <1>1, <1>2, <1>3 DEF EdgeInv, ItemsKept, Keeps, Minds
<1> QED BY <1>5, <1>6 DEF EdgeInv

LEMMA EdgeStarts == EdgeInit => EdgeInv
<1> SUFFICES ASSUME EdgeInit PROVE EdgeInv
  OBVIOUS
<1>1. Purges = {} /\ purge \in [Purges -> PurgeRow]
  BY DEF EdgeInit, Purges
<1>2. NoDrain \in DrainState /\ NoDrain.rows = {}
  BY DEF NoDrain, DrainState, DrainStates
<1>3. EdgeTyped
  BY <1>1, <1>2 DEF EdgeInit, EdgeTyped
<1>4. RowsNumbered
  <2>1. Purges = 1..0
    BY <1>1
  <2> QED BY <2>1 DEF RowsNumbered
<1> QED BY <1>2, <1>3, <1>4 DEF EdgeInit, EdgeInv, TokensDrawn, ItemsKept

LEMMA EdgeInductive == EdgeInv /\ [EdgeNext]_edgeVars => EdgeInv'
<1> SUFFICES ASSUME EdgeInv, [EdgeNext]_edgeVars PROVE EdgeInv'
  OBVIOUS
<1>1. CASE \E items \in (SUBSET Items) \ {{}} : EnqueuePurge(items)
  BY <1>1, EnqueueInv
<1>2. ASSUME NEW p \in Processes, ClaimPurges(p) PROVE EdgeInv'
  BY <1>2, ClaimInv
<1>3. ASSUME NEW p \in Processes, SendBatch(p) \/ SendFails(p) \/ AllSent(p) \/ PassCut(p) PROVE EdgeInv'
  BY <1>3, PassOnInv
<1>4. ASSUME NEW p \in Processes, DeferRest(p) PROVE EdgeInv'
  BY <1>4, DeferInv
<1>5. ASSUME NEW p \in Processes, NEW i \in Purges, NEW n \in 1..(MaxAttempts + MaxEnds), SettleRow(p, i, n) PROVE EdgeInv'
  BY <1>5, SettleInv, EdgeAssumption
<1>6. CASE \E i \in Purges : LeaseRunsOut(i)
  BY <1>6, LeaseRunsOutInv
<1>7. CASE UNCHANGED edgeVars
  <2>1. purge' = purge /\ drain' = drain /\ owed' = owed
    BY <1>7 DEF edgeVars
  <2>2. EdgeTyped' /\ RowsNumbered'
    BY <2>1 DEF EdgeInv, EdgeTyped, RowsNumbered, Purges
  <2>3. TokensDrawn'
    BY <2>1 DEF EdgeInv, TokensDrawn, Purges
  <2>4. ItemsKept'
    BY <2>1 DEF EdgeInv, ItemsKept, Keeps, Minds, Purges
  <2> QED BY <2>2, <2>3, <2>4 DEF EdgeInv
<1>8. CASE EdgeNext
  BY <1>1, <1>2, <1>3, <1>4, <1>5, <1>6, <1>8 DEF EdgeNext
<1> QED BY <1>7, <1>8

LEMMA EdgeInvariant == EdgeSpec => []EdgeInv
BY EdgeStarts, EdgeInductive, PTL DEF EdgeSpec

\* NoItemLost for every instance: however passes stop, overlap and are taken
\* over, an item asked for is purged later or stays in a row that a pass will
\* claim again or that was reported failed.
THEOREM NothingForgotten == EdgeSpec => []NoItemLost
<1>1. EdgeInv => NoItemLost
  BY DEF EdgeInv, ItemsKept, Keeps, NoItemLost
<1> QED BY EdgeInvariant, <1>1, PTL

-----------------------------------------------------------------------------
(* How often a row is claimed.                                             *)

\* A pass still has the last claim of row i to settle.
HeldRow(i) == \E p \in Processes : <<i, purge[i].attempt>> \in drain[p].rows

\* Claims past the limit are paid for: every one so far by a pass that ended or was
\* slower than its lease, and one more by the same when the row can be claimed again.
PaidFor(i) ==
    /\ purge[i].attempt <= MaxAttempts + ends
    /\ purge[i].state = "pending" /\ (~purge[i].leased \/ ~HeldRow(i)) => purge[i].attempt < MaxAttempts + ends

AttemptInv ==
    /\ events \in 0..MaxEvents /\ ends \in 0..MaxEnds /\ Purges \subseteq RowIds
    /\ \A p \in Processes : drain[p].tokens <= Burst /\ (drain[p].at = "idle" => drain[p].rows = {})
    /\ \A i \in Purges : PaidFor(i)

\* A pass goes on with the rows it has: nothing changes hands.
LEMMA PassOnPaid ==
    ASSUME EdgeInv, AttemptInv, NEW p \in Processes, SendBatch(p) \/ SendFails(p) \/ AllSent(p)
    PROVE  AttemptInv'
<1>1. drain[p] \in DrainStates /\ drain[p].tokens \in Nat /\ drain[p].tokens <= Burst /\ Burst \in Nat /\ drain[p].at = "send"
  BY EdgeAssumption DEF EdgeInv, EdgeTyped, DrainState, DrainStates, AttemptInv, SendBatch, SendFails, AllSent
<1>2. /\ UNCHANGED <<purge, events, ends>>
      /\ \A q \in Processes : q # p => drain'[q] = drain[q]
  BY DEF SendBatch, SendFails, AllSent, EdgeInv, EdgeTyped
<1>3. drain'[p].rows = drain[p].rows /\ drain'[p].at # "idle" /\ drain'[p].tokens <= Burst
  <2>1. CASE SendBatch(p)
    <3>1. PICK batch \in SUBSET drain[p].left :
             drain' = [drain EXCEPT ![p].left = @ \ batch, ![p].tokens = IF @ > 0 THEN @ - 1 ELSE 0]
      BY <2>1 DEF SendBatch
    <3>2. drain'[p] = [drain[p] EXCEPT !.left = @ \ batch, !.tokens = IF @ > 0 THEN @ - 1 ELSE 0]
      BY <3>1 DEF EdgeInv, EdgeTyped
    <3>3. drain'[p].rows = drain[p].rows /\ drain'[p].at = "send"
          /\ drain'[p].tokens = IF drain[p].tokens > 0 THEN drain[p].tokens - 1 ELSE 0
      BY <1>1, <3>2 DEF DrainStates
    <3> QED BY <1>1, <3>3
  <2>2. ASSUME NEW result, drain' = [drain EXCEPT ![p] = [@ EXCEPT !.at = "settle", !.left = {}, !.tokens = 0, !.result = result]]
        PROVE  drain'[p].rows = drain[p].rows /\ drain'[p].at = "settle" /\ drain'[p].tokens = 0
    BY <1>1, <2>2 DEF EdgeInv, EdgeTyped, DrainStates
  <2>3. CASE SendFails(p) \/ AllSent(p)
    <3>1. PICK result : drain' = [drain EXCEPT ![p] = [@ EXCEPT !.at = "settle", !.left = {}, !.tokens = 0, !.result = result]]
      BY <2>3 DEF SendFails, AllSent
    <3>2. drain'[p].rows = drain[p].rows /\ drain'[p].at = "settle" /\ drain'[p].tokens = 0
      BY <2>2, <3>1
    <3> QED BY <3>2, EdgeAssumption
  <2> QED BY <2>1, <2>3
<1>4. \A i \in Purges : HeldRow(i)' <=> HeldRow(i)
  <2>1. \A q \in Processes : drain'[q].rows = drain[q].rows
    BY <1>2, <1>3
  <2> QED BY <1>2, <2>1 DEF HeldRow
<1>5. \A i \in Purges : PaidFor(i)'
  BY <1>2, <1>4 DEF AttemptInv, PaidFor
<1> QED BY <1>2, <1>3, <1>5 DEF AttemptInv, Purges

\* A row is added, and no pass gains or loses one.
LEMMA AddedPaid ==
    ASSUME EdgeInv, AttemptInv, NEW items \in SUBSET Items, AddPurge(items), Cardinality(Purges) < MaxRows,
           UNCHANGED ends, events' \in 0..MaxEvents,
           \A p \in Processes : /\ drain'[p].rows = drain[p].rows /\ drain'[p].tokens <= Burst
                                /\ drain'[p].at = "idle" => drain[p].at = "idle"
    PROVE  AttemptInv'
<1>1. PICK n \in Nat : Purges = 1..n
  BY DEF EdgeInv, RowsNumbered
<1>2. Cardinality(Purges) = n
  BY <1>1, FS_Interval
<1>3. /\ Purges' = 1..(n + 1) /\ \A i \in Purges : purge'[i] = purge[i]
      /\ purge'[n + 1] = NewPurge(items)
  <2>1. Purges \cup {n + 1} = 1..(n + 1) /\ n + 1 \notin Purges
    BY <1>1
  <2> QED BY <1>2, <2>1 DEF AddPurge, Purges
<1>4. Purges' \subseteq RowIds
  BY <1>2, <1>3, EdgeAssumption DEF RowIds
<1>5. ASSUME NEW i \in Purges' PROVE PaidFor(i)'
  <2>1. CASE i \in Purges
    <3>1. HeldRow(i)' <=> HeldRow(i)
      BY <1>3, <2>1 DEF HeldRow
    <3> QED BY <1>3, <2>1, <3>1 DEF AttemptInv, PaidFor
  <2>2. CASE i = n + 1
    <3>1. purge'[i].attempt = 0
      BY <1>3, <2>2 DEF NewPurge
    <3> QED BY <3>1, EdgeAssumption DEF AttemptInv, PaidFor
  <2> QED BY <1>1, <1>3, <2>1, <2>2
<1> QED BY <1>4, <1>5 DEF AttemptInv

LEMMA EnqueuePaid == ASSUME EdgeInv, AttemptInv, NEW items \in SUBSET Items, EnqueuePurge(items) PROVE AttemptInv'
<1>1. events' \in 0..MaxEvents
  BY EdgeAssumption DEF EnqueuePurge, AttemptInv
<1> QED BY <1>1, AddedPaid DEF EnqueuePurge, AttemptInv

LEMMA DeferPaid == ASSUME EdgeInv, AttemptInv, NEW p \in Processes, DeferRest(p) PROVE AttemptInv'
<1>1. drain[p] \in DrainStates /\ drain[p].left \in SUBSET Items
  BY DEF EdgeInv, EdgeTyped, DrainState, DrainStates
<1>2. /\ drain'[p] = [drain[p] EXCEPT !.at = "settle", !.left = {}, !.tokens = 0, !.result = "done"]
      /\ \A q \in Processes : q # p => drain'[q] = drain[q]
  BY DEF DeferRest, EdgeInv, EdgeTyped
<1>3. drain'[p].rows = drain[p].rows /\ drain'[p].tokens = 0 /\ drain'[p].at = "settle"
  BY <1>1, <1>2 DEF DrainStates
<1> QED BY <1>1, <1>2, <1>3, AddedPaid, EdgeAssumption DEF DeferRest, AttemptInv

\* A row is claimed again only when another claim of it is paid for.
LEMMA ClaimPaid == ASSUME EdgeInv, AttemptInv, NEW p \in Processes, ClaimPurges(p) PROVE AttemptInv'
<1>1. PICK tokens \in 1..Burst, claimed \in SUBSET DuePurges :
         /\ purge' = [i \in Purges |-> IF i \in claimed THEN [purge[i] EXCEPT !.attempt = @ + 1, !.leased = TRUE] ELSE purge[i]]
         /\ drain' = [drain EXCEPT ![p] = [at |-> "send", rows |-> {<<i, purge[i].attempt + 1>> : i \in claimed},
                                           left |-> UNION {purge[i].items : i \in claimed}, tokens |-> tokens, result |-> "none"]]
  BY DEF ClaimPurges
<1>2. /\ drain'[p].rows = {<<i, purge[i].attempt + 1>> : i \in claimed} /\ drain'[p].at = "send" /\ drain'[p].tokens = tokens
      /\ \A q \in Processes : q # p => drain'[q] = drain[q]
      /\ drain[p].rows = {} /\ UNCHANGED <<events, ends>>
  BY <1>1 DEF EdgeInv, EdgeTyped, AttemptInv, ClaimPurges
<1>3. Purges' = Purges /\ \A i \in Purges : purge[i] \in PurgeRow /\ purge[i].attempt \in Nat
  BY <1>1 DEF Purges, EdgeInv, EdgeTyped, PurgeRow
<1>4. ASSUME NEW i \in Purges, i \in claimed PROVE PaidFor(i)'
  <2>1. purge'[i].attempt = purge[i].attempt + 1 /\ purge'[i].leased = TRUE
    <3>1. purge'[i] = [purge[i] EXCEPT !.attempt = @ + 1, !.leased = TRUE]
      BY <1>1, <1>4
    <3> QED BY <1>3, <3>1 DEF PurgeRow
  <2>2. purge[i].attempt < MaxAttempts + ends
    BY <1>4 DEF DuePurges, AttemptInv, PaidFor
  <2>3. HeldRow(i)'
    BY <1>2, <1>4, <2>1 DEF HeldRow
  <2> QED BY <1>2, <1>3, <2>1, <2>2, <2>3, EdgeAssumption DEF PaidFor, AttemptInv
<1>5. ASSUME NEW i \in Purges, i \notin claimed PROVE PaidFor(i)'
  <2>1. purge'[i] = purge[i]
    BY <1>1, <1>5
  <2>2. HeldRow(i) => HeldRow(i)'
    BY <1>2, <2>1 DEF HeldRow
  <2> QED BY <1>2, <2>1, <2>2 DEF AttemptInv, PaidFor
<1> QED BY <1>2, <1>3, <1>4, <1>5 DEF AttemptInv

\* A claim that is settled either was within the limit or ends the row.
LEMMA SettlePaid ==
    ASSUME EdgeInv, AttemptInv, NEW p \in Processes, NEW i \in Purges, NEW token \in Nat, SettleRow(p, i, token)
    PROVE  AttemptInv'
<1> DEFINE settles == purge[i].state = "pending" /\ purge[i].attempt = token
<1>1. drain[p] \in DrainState /\ purge[i] \in PurgeRow /\ <<i, token>> \in drain[p].rows /\ drain[p].at = "settle"
  BY DEF EdgeInv, EdgeTyped, SettleRow
<1>2. /\ drain'[p].rows = drain[p].rows \ {<<i, token>>} /\ drain'[p].tokens <= Burst
      /\ drain'[p].at = "idle" => drain'[p].rows = {}
  <2>1. drain'[p] = PassWithout(drain[p], <<i, token>>)
    BY DEF SettleRow, EdgeInv, EdgeTyped
  <2>2. CASE drain[p].rows = {<<i, token>>}
    BY <2>1, <2>2, EdgeAssumption DEF PassWithout, NoDrain
  <2>3. CASE drain[p].rows # {<<i, token>>}
    <3>1. drain'[p] = [drain[p] EXCEPT !.rows = @ \ {<<i, token>>}]
      BY <2>1, <2>3 DEF PassWithout
    <3> QED BY <1>1, <3>1 DEF DrainState, DrainStates, AttemptInv
  <2> QED BY <2>2, <2>3
<1>3. (\A q \in Processes : q # p => drain'[q] = drain[q]) /\ UNCHANGED <<events, ends>>
  BY DEF SettleRow, EdgeInv, EdgeTyped
<1>4. purge' = IF settles THEN [purge EXCEPT ![i] = SettledRow(@, drain[p].result)] ELSE purge
  BY DEF SettleRow
<1>5. Purges' = Purges /\ \A k \in Purges : k # i => purge'[k] = purge[k]
  BY <1>4 DEF EdgeInv, EdgeTyped, Purges
<1>6. ASSUME NEW k \in Purges, k # i \/ ~settles PROVE PaidFor(k)'
  <2>1. purge'[k] = purge[k]
    BY <1>4, <1>5, <1>6
  <2>2. CASE k # i \/ purge[i].attempt # token
    <3>1. HeldRow(k) => HeldRow(k)'
      BY <1>2, <1>3, <2>1, <2>2 DEF HeldRow
    <3> QED BY <1>3, <2>1, <3>1 DEF AttemptInv, PaidFor
  <2>3. CASE purge[k].state # "pending"
    BY <1>3, <2>1, <2>3 DEF AttemptInv, PaidFor
  <2> QED BY <1>6, <2>2, <2>3
<1>7. ASSUME settles PROVE PaidFor(i)'
  <2> DEFINE st == IF drain[p].result # "retry" THEN drain[p].result
                   ELSE IF purge[i].attempt < MaxAttempts THEN "pending" ELSE "failed"
  <2>1. drain[p].result \in {"done", "retry", "failed"}
    BY <1>1 DEF DrainState, DrainStates
  <2>2. purge'[i] = [purge[i] EXCEPT !.leased = FALSE, !.state = st]
    BY <1>4, <1>7 DEF EdgeInv, EdgeTyped, SettledRow
  <2>3. st = "pending" => purge[i].attempt < MaxAttempts
    BY <2>1
  <2> HIDE DEF st
  <2>4. purge'[i].state = st /\ purge'[i].attempt = purge[i].attempt /\ purge[i].attempt \in Nat
    BY <1>1, <2>2 DEF PurgeRow
  <2> QED BY <1>3, <2>3, <2>4, EdgeAssumption DEF AttemptInv, PaidFor
<1> QED BY <1>2, <1>3, <1>5, <1>6, <1>7 DEF AttemptInv

\* A pass that ends, or a lease that runs out under one, pays for another claim of what it held.
LEMMA EndPaid ==
    ASSUME EdgeInv, AttemptInv, (\E p \in Processes : PassCut(p)) \/ (\E i \in Purges : LeaseRunsOut(i))
    PROVE  AttemptInv'
<1>0. \A i \in Purges : purge[i] \in PurgeRow /\ purge[i].attempt \in Nat
  BY DEF EdgeInv, EdgeTyped, PurgeRow
<1>1. ASSUME NEW p \in Processes, PassCut(p) PROVE AttemptInv'
  <2>1. ends' = ends + 1 /\ ends' \in 0..MaxEnds /\ purge' = purge /\ events' = events
    BY <1>1, EdgeAssumption DEF PassCut, AttemptInv
  <2>2. \A q \in Processes : drain'[q] = IF q = p THEN NoDrain ELSE drain[q]
    BY <1>1 DEF PassCut, EdgeInv, EdgeTyped
  <2>3. \A i \in Purges : PaidFor(i)'
    BY <1>0, <2>1, EdgeAssumption DEF AttemptInv, PaidFor
  <2>4. \A q \in Processes : drain'[q].tokens <= Burst /\ (drain'[q].at = "idle" => drain'[q].rows = {})
    BY <2>2, EdgeAssumption DEF AttemptInv, NoDrain
  <2> QED BY <2>1, <2>3, <2>4 DEF AttemptInv, Purges
<1>2. ASSUME NEW i \in Purges, LeaseRunsOut(i) PROVE AttemptInv'
  <2>1. /\ purge[i].leased /\ purge[i].state = "pending" /\ drain' = drain /\ events' = events
        /\ purge' = [purge EXCEPT ![i].leased = FALSE]
    BY <1>2 DEF LeaseRunsOut
  <2>2. /\ Purges' = Purges /\ \A k \in Purges : k # i => purge'[k] = purge[k]
        /\ purge'[i].attempt = purge[i].attempt
    BY <1>0, <2>1 DEF EdgeInv, EdgeTyped, Purges, PurgeRow
  <2>3. \A k \in Purges : HeldRow(k)' <=> HeldRow(k)
    BY <2>1, <2>2 DEF HeldRow
  <2>4. CASE ends < MaxEnds /\ ends' = ends + 1
    <3>1. \A k \in Purges : PaidFor(k)'
      BY <1>0, <2>2, <2>4, EdgeAssumption DEF AttemptInv, PaidFor
    <3> QED BY <2>1, <2>2, <2>4, <3>1, EdgeAssumption DEF AttemptInv
  <2>5. CASE /\ \A p \in Processes : \A n \in 0..(MaxAttempts + MaxEnds) : <<i, n>> \in drain[p].rows => n # purge[i].attempt
             /\ UNCHANGED ends
    <3>1. purge[i].attempt \in 0..(MaxAttempts + MaxEnds)
      BY <1>0, EdgeAssumption DEF AttemptInv, PaidFor
    <3>2. ~HeldRow(i)
      BY <2>5, <3>1 DEF HeldRow
    <3>3. \A k \in Purges : PaidFor(k)'
      BY <2>2, <2>3, <2>5, <3>2, <2>1 DEF AttemptInv, PaidFor
    <3> QED BY <2>1, <2>2, <2>5, <3>3 DEF AttemptInv
  <2> QED BY <1>2, <2>4, <2>5 DEF LeaseRunsOut
<1> QED BY <1>1, <1>2

LEMMA AttemptStarts == EdgeInit => AttemptInv
  BY EdgeAssumption DEF EdgeInit, AttemptInv, Purges, NoDrain

LEMMA AttemptStep == EdgeInv /\ AttemptInv /\ [EdgeNext]_edgeVars => AttemptInv'
<1> SUFFICES ASSUME EdgeInv, AttemptInv, [EdgeNext]_edgeVars PROVE AttemptInv'
  OBVIOUS
<1>1. CASE \E items \in (SUBSET Items) \ {{}} : EnqueuePurge(items)
  BY <1>1, EnqueuePaid
<1>2. ASSUME NEW p \in Processes, ClaimPurges(p) \/ SendBatch(p) \/ SendFails(p) \/ AllSent(p) \/ DeferRest(p) PROVE AttemptInv'
  BY <1>2, ClaimPaid, PassOnPaid, DeferPaid
<1>3. ASSUME NEW p \in Processes, NEW i \in Purges, NEW n \in 1..(MaxAttempts + MaxEnds), SettleRow(p, i, n) PROVE AttemptInv'
  BY <1>3, SettlePaid, EdgeAssumption
<1>4. CASE (\E p \in Processes : PassCut(p)) \/ (\E i \in Purges : LeaseRunsOut(i))
  BY <1>4, EndPaid
<1>5. CASE UNCHANGED edgeVars
  <2>1. UNCHANGED <<purge, drain, events, ends>>
    BY <1>5 DEF edgeVars
  <2> QED BY <2>1 DEF AttemptInv, PaidFor, HeldRow, Purges
<1>6. CASE EdgeNext
  BY <1>1, <1>2, <1>3, <1>4, <1>6 DEF EdgeNext
<1> QED BY <1>5, <1>6

\* No row is claimed more than MaxAttempts times but for passes that ended halfway or were slower
\* than their lease, each good for one claim more (claimEdgePurges, settleEdgePurge's retry).
THEOREM ClaimsPaidFor == EdgeSpec => []AttemptInv
  BY AttemptStarts, AttemptStep, EdgeInvariant, PTL DEF EdgeSpec

\* Rows, passes and budget stay well formed, and a row's attempts within what was paid for.
THEOREM EdgeTypes == EdgeSpec => []EdgeTypeOK
<1>1. EdgeInv /\ AttemptInv => EdgeTypeOK
  <2> SUFFICES ASSUME EdgeInv, AttemptInv PROVE EdgeTypeOK
    OBVIOUS
  <2>1. ASSUME NEW i \in Purges
        PROVE  purge[i] \in [items : SUBSET Items, state : {"pending", "done", "failed"},
                             attempt : 0..(MaxAttempts + MaxEnds), leased : BOOLEAN]
    <3>1. purge[i] \in PurgeRow /\ purge[i].attempt <= MaxAttempts + ends
      BY DEF EdgeInv, EdgeTyped, AttemptInv, PaidFor
    <3>2. purge[i].attempt \in 0..(MaxAttempts + MaxEnds)
      BY <3>1, EdgeAssumption DEF PurgeRow, AttemptInv
    <3> QED BY <3>1, <3>2 DEF PurgeRow
  <2>2. ASSUME NEW p \in Processes
        PROVE  drain[p] \in [at : {"idle", "send", "settle"}, rows : SUBSET (RowIds \X Nat),
                             left : SUBSET Items, tokens : 0..Burst, result : {"none", "done", "retry", "failed"}]
    <3>1. drain[p] \in DrainStates /\ drain[p].tokens <= Burst
      BY DEF EdgeInv, EdgeTyped, DrainState, AttemptInv
    <3>2. drain[p].rows \subseteq RowIds \X Nat
      BY <3>1 DEF EdgeInv, TokensDrawn, AttemptInv, DrainStates
    <3>3. drain[p].tokens \in 0..Burst
      BY <3>1, EdgeAssumption DEF DrainStates
    <3> QED BY <3>1, <3>2, <3>3 DEF DrainStates
  <2> QED BY <2>1, <2>2 DEF EdgeInv, EdgeTyped, AttemptInv, EdgeTypeOK
<1> QED BY <1>1, EdgeInvariant, ClaimsPaidFor, PTL

-----------------------------------------------------------------------------
(***************************************************************************)
(* Theorems about RenderRetention, for any outputs, deliveries and         *)
(* overlapping passes.  What a pass read when it began is stale when it    *)
(* deletes: the argument is what can still have happened to it since.      *)
(***************************************************************************)
\* The outputs a pass will purge, and those it had found old enough when it began.
DueOf(s) == IF sweep[s].at \in {"purge", "record"} THEN sweep[s].due \cup sweep[s].on ELSE {}

DeliveryRow == [at: {"none", "stored", "refused"} \cup InFlight, render: SUBSET Renders]
SweepRow == [at: Stages, before: SUBSET Renders, due: SUBSET Renders, on: SUBSET Renders]

RetentionTyped ==
    /\ old \subseteq Renders /\ purged \subseteq Renders /\ blobs \subseteq Renders
    /\ mark \in [Renders -> {"none", "young", "aged"}]
    /\ delivery \in [Deliveries -> DeliveryRow]
    /\ sweep \in [Sweepers -> SweepRow]
    /\ faults \in 0..MaxFaults
    /\ audited \subseteq Renders /\ slow \subseteq Renders

\* A delivery is of one render from its first step on, only old outputs are marked,
\* and a pass records one output at a time.
RowsFit ==
    /\ \A d \in Deliveries : IF delivery[d].at = "none" THEN delivery[d].render = {}
                             ELSE \E r \in Renders : delivery[d].render = {r}
    /\ \A r \in Renders : mark[r] # "none" => r \in old
    /\ \A s \in Sweepers : sweep[s].at # "record" => sweep[s].on = {}

\* Nobody still works on an output whose mark is older than the grace.
GraceOver == \A r \in Renders \ slow : mark[r] = "aged" => Of(r, InFlight) = {}

\* The bytes a delivery has fetched are stored.
FetchedKept == \A r \in Renders \ slow : Of(r, {"holds"}) # {} => r \in blobs

\* What a pass found old enough still is, unless a delivery names it by now.
BeforeStands == \A s \in Sweepers : \A r \in sweep[s].before : mark[r] = "aged" \/ Named(r)

\* What a pass is about to delete is named by nobody.
DueIsFree == \A s \in Sweepers : \A r \in DueOf(s) \ slow : mark[r] = "aged" /\ ~Named(r)

RetentionInv ==
    /\ RetentionTyped /\ RowsFit /\ GraceOver /\ FetchedKept /\ BeforeStands /\ DueIsFree
    /\ DeliveryKeepsOutput

-----------------------------------------------------------------------------
LEMMA OfStill == delivery' = delivery => \A r : Named(r)' = Named(r) /\ \A at : Of(r, at)' = Of(r, at)
BY DEF Named, Of

LEMMA OfMember == ASSUME NEW r, NEW at PROVE Of(r, at) # {} <=> \E d \in Deliveries : delivery[d].render = {r} /\ delivery[d].at \in at
BY DEF Of

\* A step of a delivery: it works on an output only if that has no mark, fetches
\* only what is stored, and stays once it is stored.
LEMMA DeliveryKeeps ==
    ASSUME RetentionInv, RetentionTyped', RowsFit', UNCHANGED <<mark, blobs, sweep, slow>>,
           \A r \in Renders :
               /\ Of(r, InFlight)' # {} => Of(r, InFlight) # {} \/ mark[r] = "none"
               /\ Of(r, {"holds"})' # {} => Of(r, {"holds"}) # {} \/ r \in blobs
               /\ Named(r) => Named(r)'
               /\ Named(r)' => Named(r) \/ Of(r, {"holds"}) # {}
    PROVE  RetentionInv'
<1>1. \A r \in Renders : Of(r, {"holds"}) # {} => Of(r, InFlight) # {}
  BY OfMember DEF InFlight
<1>2. \A s \in Sweepers : DueOf(s)' = DueOf(s) /\ DueOf(s) \subseteq Renders /\ sweep[s].before \subseteq Renders
  BY DEF DueOf, RetentionInv, RetentionTyped, SweepRow
<1> HIDE DEF Of, Named, DueOf
<1>3. GraceOver' /\ FetchedKept' /\ DeliveryKeepsOutput'
  BY DEF RetentionInv, GraceOver, FetchedKept, DeliveryKeepsOutput
<1>4. BeforeStands'
  BY <1>2 DEF RetentionInv, BeforeStands
<1>5. DueIsFree'
  <2> SUFFICES ASSUME NEW s \in Sweepers, NEW r \in DueOf(s) \ slow PROVE mark[r] = "aged" /\ ~Named(r)'
    BY <1>2 DEF DueIsFree
  <2>1. r \in Renders /\ mark[r] = "aged" /\ ~Named(r)
    BY <1>2 DEF RetentionInv, DueIsFree
  <2>2. Of(r, {"holds"}) = {}
    BY <1>1, <2>1 DEF RetentionInv, GraceOver
  <2> QED BY <2>1, <2>2
<1> QED BY <1>3, <1>4, <1>5 DEF RetentionInv

\* The deliveries before and after a step of one of them.
LEMMA DeliveryRowMoves ==
    ASSUME RetentionTyped, NEW d \in Deliveries, NEW row \in DeliveryRow, delivery' = [delivery EXCEPT ![d] = row]
    PROVE  /\ delivery' \in [Deliveries -> DeliveryRow] /\ delivery'[d] = row
           /\ \A e \in Deliveries : e # d => delivery'[e] = delivery[e]
BY DEF RetentionTyped

LEMMA LoadKeeps == ASSUME RetentionInv, NEW d \in Deliveries, NEW r \in Renders, Load(d, r) PROVE RetentionInv'
<1> DEFINE row == [at |-> IF mark[r] = "none" THEN "read" ELSE "refused", render |-> {r}]
<1>1. delivery[d].at = "none" /\ delivery' = [delivery EXCEPT ![d] = row] /\ UNCHANGED <<rows, blobs, sweep, past>>
  BY DEF Load
<1>2. /\ row \in DeliveryRow /\ row.render = {r} /\ row.at \in {"read", "refused"}
      /\ (row.at = "read" => mark[r] = "none")
  BY DEF DeliveryRow, InFlight
<1> HIDE DEF row
<1>3. /\ delivery' \in [Deliveries -> DeliveryRow] /\ delivery'[d] = row
      /\ \A e \in Deliveries : e # d => delivery'[e] = delivery[e]
  BY <1>1, <1>2, DeliveryRowMoves DEF RetentionInv
<1>4. delivery[d].render = {}
  BY <1>1 DEF RetentionInv, RowsFit
<1>5. RetentionTyped'
  BY <1>1, <1>3 DEF rows, past, RetentionInv, RetentionTyped
<1>6. RowsFit'
  BY <1>1, <1>2, <1>3 DEF rows, RetentionInv, RowsFit
<1>7. ASSUME NEW q \in Renders
      PROVE  /\ Of(q, InFlight)' # {} => Of(q, InFlight) # {} \/ mark[q] = "none"
             /\ Of(q, {"holds"})' # {} => Of(q, {"holds"}) # {} \/ q \in blobs
             /\ Named(q) => Named(q)'
             /\ Named(q)' => Named(q) \/ Of(q, {"holds"}) # {}
  BY <1>1, <1>2, <1>3, <1>4 DEF Of, Named, InFlight
<1> QED BY <1>1, <1>5, <1>6, <1>7, DeliveryKeeps DEF rows, past

LEMMA GoesOnKeeps == ASSUME RetentionInv, NEW d \in Deliveries, Fetch(d) \/ PutDelivery(d) PROVE RetentionInv'
<1>1. PICK r \in Renders : delivery[d].render = {r}
  <2>1. delivery[d].at # "none"
    BY DEF Fetch, PutDelivery
  <2> QED BY <2>1 DEF RetentionInv, RowsFit
<1>2. PICK at : /\ delivery' = [delivery EXCEPT ![d].at = at] /\ UNCHANGED <<rows, blobs, sweep, past>>
                /\ \/ delivery[d].at = "read" /\ at \in {"holds", "refused"} /\ (at = "holds" => r \in blobs)
                   \/ delivery[d].at = "holds" /\ at \in {"stored", "refused"}
  BY <1>1 DEF Fetch, PutDelivery
<1> DEFINE row == [delivery[d] EXCEPT !.at = at]
<1>3. row \in DeliveryRow /\ row.render = {r} /\ row.at = at
  BY <1>1, <1>2 DEF RetentionInv, RetentionTyped, DeliveryRow, InFlight
<1>4. delivery' = [delivery EXCEPT ![d] = row]
  BY <1>2
<1> HIDE DEF row
<1>5. /\ delivery' \in [Deliveries -> DeliveryRow] /\ delivery'[d] = row
      /\ \A e \in Deliveries : e # d => delivery'[e] = delivery[e]
  BY <1>3, <1>4, DeliveryRowMoves DEF RetentionInv
<1>6. RetentionTyped'
  BY <1>2, <1>5 DEF rows, past, RetentionInv, RetentionTyped
<1>7. RowsFit'
  BY <1>2, <1>3, <1>5 DEF rows, RetentionInv, RowsFit
<1>8. ASSUME NEW q \in Renders
      PROVE  /\ Of(q, InFlight)' # {} => Of(q, InFlight) # {} \/ mark[q] = "none"
             /\ Of(q, {"holds"})' # {} => Of(q, {"holds"}) # {} \/ q \in blobs
             /\ Named(q) => Named(q)'
             /\ Named(q)' => Named(q) \/ Of(q, {"holds"}) # {}
  BY <1>1, <1>2, <1>3, <1>5 DEF Of, Named, InFlight
<1> QED BY <1>2, <1>6, <1>7, <1>8, DeliveryKeeps DEF rows, past

\* A step of a pass leaves the deliveries alone.  What it finds old enough is, and
\* what it will purge is free; it deletes only what it will purge.
LEMMA PassStepKeeps ==
    ASSUME RetentionInv, NEW s \in Sweepers, NEW row \in SweepRow, sweep' = [sweep EXCEPT ![s] = row],
           RetentionTyped', UNCHANGED <<old, mark, delivery, slow>>, blobs \ blobs' \subseteq DueOf(s),
           row.at # "record" => row.on = {},
           row.before # sweep[s].before => \A r \in row.before : mark[r] = "aged",
           row.at \in {"purge", "record"} => \/ row.due \cup row.on \subseteq DueOf(s)
                                             \/ \A r \in row.due \cup row.on : mark[r] = "aged" /\ ~Named(r)
    PROVE  RetentionInv'
<1>1. /\ sweep'[s] = row /\ \A u \in Sweepers : u # s => sweep'[u] = sweep[u]
      /\ DueOf(s) \subseteq Renders
  BY DEF RetentionInv, RetentionTyped, SweepRow, DueOf
<1>2. \A r : Named(r)' = Named(r) /\ \A at : Of(r, at)' = Of(r, at)
  BY OfStill
<1>3. RowsFit'
  BY <1>1 DEF RetentionInv, RowsFit
<1> HIDE DEF Of, Named
<1>4. GraceOver'
  BY <1>2 DEF RetentionInv, GraceOver
<1>5. BeforeStands'
  BY <1>1, <1>2 DEF RetentionInv, BeforeStands
<1>6. DueIsFree'
  <2>1. ASSUME NEW u \in Sweepers, NEW r \in DueOf(u)' \ slow PROVE mark[r] = "aged" /\ ~Named(r)
    <3>1. u # s => DueOf(u)' = DueOf(u)
      BY <1>1 DEF DueOf
    <3>2. u = s => r \in row.due \cup row.on /\ row.at \in {"purge", "record"}
      BY <1>1, <2>1 DEF DueOf
    <3> QED BY <2>1, <3>1, <3>2 DEF RetentionInv, DueIsFree
  <2> QED BY <1>2, <2>1 DEF DueIsFree
<1>7. \A r \in DueOf(s) \ slow : mark[r] = "aged" /\ ~Named(r) /\ Of(r, InFlight) = {}
  BY <1>1 DEF RetentionInv, DueIsFree, GraceOver
<1>8. \A r : Of(r, InFlight) = {} => Of(r, {"holds"}) = {}
  BY OfMember DEF InFlight
<1>9. FetchedKept'
  BY <1>2, <1>7, <1>8 DEF RetentionInv, FetchedKept
<1>10. DeliveryKeepsOutput'
  BY <1>2, <1>7 DEF RetentionInv, DeliveryKeepsOutput
<1> QED BY <1>3, <1>4, <1>5, <1>6, <1>9, <1>10 DEF RetentionInv

LEMMA SweepRowFacts ==
    ASSUME RetentionTyped, NEW s \in Sweepers
    PROVE  /\ sweep[s] \in SweepRow /\ DueOf(s) \subseteq Renders /\ NoPass \in SweepRow
           /\ NoPass.at = "idle" /\ NoPass.before = {} /\ NoPass.due = {} /\ NoPass.on = {}
BY DEF RetentionTyped, SweepRow, DueOf, NoPass, Stages

LEMMA SweepTyped ==
    ASSUME RetentionTyped, NEW s \in Sweepers, NEW row \in SweepRow, sweep' = [sweep EXCEPT ![s] = row],
           UNCHANGED <<old, mark, delivery, slow>>, purged' \subseteq Renders, blobs' \subseteq Renders,
           faults' \in 0..MaxFaults, audited' \subseteq Renders
    PROVE  RetentionTyped'
BY DEF RetentionTyped

LEMMA BeginKeeps == ASSUME RetentionInv, NEW s \in Sweepers, Begin(s) PROVE RetentionInv'
<1> DEFINE old_ == {r \in Renders : mark[r] = "aged"}
           row == [sweep[s] EXCEPT !.at = "clear", !.before = old_]
<1>1. sweep' = [sweep EXCEPT ![s] = row] /\ UNCHANGED <<old, mark, purged, blobs, delivery, faults, audited, slow>>
  BY DEF Begin, rows, past
<1>2. old_ \subseteq Renders /\ \A r \in old_ : mark[r] = "aged"
  OBVIOUS
<1> HIDE DEF old_
<1>3. row \in SweepRow /\ row.at = "clear" /\ row.before = old_ /\ row.on = sweep[s].on
  BY <1>2, SweepRowFacts DEF SweepRow, Stages, RetentionInv
<1> HIDE DEF row
<1>4. RetentionTyped'
  BY <1>1, <1>3, SweepTyped DEF RetentionInv, RetentionTyped
<1>5. sweep[s].on = {}
  BY DEF Begin, At, RetentionInv, RowsFit
<1> QED BY <1>1, <1>2, <1>3, <1>4, <1>5, PassStepKeeps

LEMMA ListKeeps == ASSUME RetentionInv, NEW s \in Sweepers, ListToPurge(s) PROVE RetentionInv'
<1> DEFINE due == Purgeable(s)
           row == [sweep[s] EXCEPT !.at = "purge", !.due = due]
<1>1. sweep' = [sweep EXCEPT ![s] = row] /\ UNCHANGED <<old, mark, purged, blobs, delivery, faults, audited, slow>>
  BY DEF ListToPurge, rows, past
<1>2. due \subseteq Renders /\ \A r \in due : mark[r] = "aged" /\ ~Named(r)
  <2>1. sweep[s].before \subseteq Renders
    BY SweepRowFacts DEF RetentionInv, SweepRow
  <2> HIDE DEF Named
  <2> QED BY <2>1 DEF Purgeable, RetentionInv, BeforeStands
<1> HIDE DEF due
<1>3. row \in SweepRow /\ row.at = "purge" /\ row.due = due /\ row.before = sweep[s].before /\ row.on = sweep[s].on
  BY <1>2, SweepRowFacts DEF SweepRow, Stages, RetentionInv
<1> HIDE DEF row
<1>4. RetentionTyped'
  BY <1>1, <1>3, SweepTyped DEF RetentionInv, RetentionTyped
<1>5. sweep[s].on = {}
  BY DEF ListToPurge, At, RetentionInv, RowsFit
<1> QED BY <1>1, <1>2, <1>3, <1>4, <1>5, PassStepKeeps

LEMMA DeleteBytesKeeps == ASSUME RetentionInv, NEW s \in Sweepers, NEW r \in Renders, DeleteBytes(s, r) PROVE RetentionInv'
<1> DEFINE row == [sweep[s] EXCEPT !.at = "record", !.on = {r}]
<1>1. /\ sweep[s].at = "purge" /\ r \in sweep[s].due /\ blobs' = blobs \ {r}
      /\ sweep' = [sweep EXCEPT ![s] = row] /\ UNCHANGED <<old, mark, purged, delivery, faults, audited, slow>>
  BY DEF DeleteBytes, At, rows, past
<1>2. row \in SweepRow /\ row.at = "record" /\ row.on = {r} /\ row.before = sweep[s].before /\ row.due = sweep[s].due
  BY SweepRowFacts DEF SweepRow, Stages, RetentionInv
<1> HIDE DEF row
<1>3. RetentionTyped'
  <2>1. blobs' \subseteq Renders
    BY <1>1 DEF RetentionInv, RetentionTyped
  <2> QED BY <1>1, <1>2, <2>1, SweepTyped DEF RetentionInv, RetentionTyped
<1>4. row.due \cup row.on \subseteq DueOf(s) /\ blobs \ blobs' \subseteq DueOf(s)
  BY <1>1, <1>2 DEF DueOf
<1> QED BY <1>1, <1>2, <1>3, <1>4, PassStepKeeps

LEMMA RecordKeeps == ASSUME RetentionInv, NEW s \in Sweepers, RecordPurged(s) PROVE RetentionInv'
<1> DEFINE left == sweep[s].due \ sweep[s].on
           row == [sweep[s] EXCEPT !.at = "purge", !.due = left, !.on = {}]
<1>1. /\ sweep[s].at = "record" /\ purged' = purged \cup sweep[s].on
      /\ sweep' = [sweep EXCEPT ![s] = row] /\ UNCHANGED <<old, mark, blobs, delivery, faults, audited, slow>>
  BY DEF RecordPurged, At, past
<1>2. left \subseteq Renders /\ left \subseteq sweep[s].due /\ sweep[s].on \subseteq Renders
  BY SweepRowFacts DEF SweepRow, RetentionInv
<1> HIDE DEF left
<1>3. row \in SweepRow /\ row.at = "purge" /\ row.on = {} /\ row.before = sweep[s].before /\ row.due = left
  BY <1>2, SweepRowFacts DEF SweepRow, Stages, RetentionInv
<1> HIDE DEF row
<1>4. RetentionTyped'
  <2>1. purged' \subseteq Renders
    BY <1>1, <1>2 DEF RetentionInv, RetentionTyped
  <2> QED BY <1>1, <1>3, <2>1, SweepTyped DEF RetentionInv, RetentionTyped
<1>5. row.due \cup row.on \subseteq DueOf(s)
  BY <1>1, <1>2, <1>3 DEF DueOf
<1> QED BY <1>1, <1>3, <1>4, <1>5, PassStepKeeps

\* A pass writes the audit, or is over.
LEMMA PassOverKeeps == ASSUME RetentionInv, NEW s \in Sweepers, Audit(s) \/ PassStops(s) PROVE RetentionInv'
<1>1. /\ UNCHANGED <<old, mark, purged, blobs, delivery, slow>> /\ audited' \subseteq Renders /\ faults' \in 0..MaxFaults
      /\ \/ sweep' = [sweep EXCEPT ![s] = NoPass]
         \/ \E r : sweep[s].at = "audit" /\ sweep' = [sweep EXCEPT ![s].due = sweep[s].due \ {r}]
  <2>1. faults \in Nat /\ faults <= MaxFaults /\ MaxFaults \in Nat /\ sweep[s].due \subseteq Renders /\ audited \subseteq Renders
    BY MaxFaultsAssumption, SweepRowFacts DEF RetentionInv, RetentionTyped, SweepRow
  <2> QED BY <2>1 DEF Audit, PassStops, Fault, At, rows
<1>2. CASE sweep' = [sweep EXCEPT ![s] = NoPass]
  <2>1. RetentionTyped'
    BY <1>1, <1>2, SweepRowFacts, SweepTyped DEF RetentionInv, RetentionTyped
  <2> QED BY <1>1, <1>2, <2>1, SweepRowFacts, PassStepKeeps DEF RetentionInv
<1>3. ASSUME NEW r, sweep[s].at = "audit", sweep' = [sweep EXCEPT ![s].due = sweep[s].due \ {r}] PROVE RetentionInv'
  <2> DEFINE left == sweep[s].due \ {r}
             row == [sweep[s] EXCEPT !.due = left]
  <2>1. sweep' = [sweep EXCEPT ![s] = row]
    BY <1>3
  <2>2. left \subseteq Renders
    BY SweepRowFacts DEF RetentionInv, SweepRow
  <2> HIDE DEF left
  <2>3. row \in SweepRow /\ row.at = "audit" /\ row.on = sweep[s].on /\ row.before = sweep[s].before
    BY <1>3, <2>2, SweepRowFacts DEF RetentionInv, SweepRow
  <2> HIDE DEF row
  <2>4. RetentionTyped'
    BY <1>1, <2>1, <2>3, SweepTyped DEF RetentionInv, RetentionTyped
  <2>5. sweep[s].on = {}
    BY <1>3 DEF RetentionInv, RowsFit
  <2> QED BY <1>1, <2>1, <2>3, <2>4, <2>5, PassStepKeeps
<1> QED BY <1>1, <1>2, <1>3

\* Marks come and go, while no pass takes on more: a mark goes only from an output
\* that a delivery names, and the grace ends when nobody works on it any more.
LEMMA MarksKeep ==
    ASSUME RetentionInv, RetentionTyped', RowsFit', UNCHANGED <<blobs, delivery>>, slow \subseteq slow',
           \A s \in Sweepers : sweep'[s].before \subseteq sweep[s].before /\ DueOf(s)' \subseteq DueOf(s),
           \A r \in Renders :
               \/ mark'[r] = mark[r]
               \/ mark'[r] = "none" /\ Named(r)
               \/ mark[r] = "none" /\ mark'[r] = "young"
               \/ mark[r] = "young" /\ mark'[r] = "aged" /\ (r \in slow' \/ Of(r, InFlight) = {})
    PROVE  RetentionInv'
<1>1. \A s \in Sweepers : DueOf(s) \subseteq Renders /\ sweep[s].before \subseteq Renders
  BY SweepRowFacts DEF RetentionInv, SweepRow
<1>2. \A r : Named(r)' = Named(r) /\ \A at : Of(r, at)' = Of(r, at)
  BY OfStill
<1> HIDE DEF Of, Named, DueOf
<1>3. GraceOver' /\ FetchedKept' /\ DeliveryKeepsOutput'
  BY <1>2 DEF RetentionInv, GraceOver, FetchedKept, DeliveryKeepsOutput
<1>4. BeforeStands'
  <2> SUFFICES ASSUME NEW s \in Sweepers, NEW r \in sweep'[s].before PROVE mark'[r] = "aged" \/ Named(r)
    BY <1>2 DEF BeforeStands
  <2>1. r \in Renders /\ (mark[r] = "aged" \/ Named(r))
    BY <1>1 DEF RetentionInv, BeforeStands
  <2> QED BY <2>1
<1>5. DueIsFree'
  <2> SUFFICES ASSUME NEW s \in Sweepers, NEW r \in DueOf(s)' \ slow' PROVE mark'[r] = "aged" /\ ~Named(r)
    BY <1>2 DEF DueIsFree
  <2>1. r \in Renders /\ mark[r] = "aged" /\ ~Named(r)
    BY <1>1 DEF RetentionInv, DueIsFree
  <2> QED BY <2>1
<1> QED BY <1>3, <1>4, <1>5 DEF RetentionInv

LEMMA ClearMarksKeeps == ASSUME RetentionInv, NEW s \in Sweepers, ClearMarks(s) PROVE RetentionInv'
<1> DEFINE row == [sweep[s] EXCEPT !.at = "list"]
<1>1. /\ sweep[s].at = "clear" /\ sweep' = [sweep EXCEPT ![s] = row]
      /\ mark' = [r \in Renders |-> IF r \notin purged /\ Named(r) THEN "none" ELSE mark[r]]
      /\ UNCHANGED <<old, purged, blobs, delivery, faults, audited, slow>>
  BY DEF ClearMarks, At, Go, past
<1>2. row \in SweepRow /\ row.at = "list" /\ row.before = sweep[s].before /\ row.on = sweep[s].on
  BY SweepRowFacts DEF SweepRow, Stages, RetentionInv
<1> HIDE DEF row, Named
<1>3. sweep'[s] = row /\ (\A u \in Sweepers : u # s => sweep'[u] = sweep[u]) /\ sweep' \in [Sweepers -> SweepRow]
  BY <1>1, <1>2 DEF RetentionInv, RetentionTyped
<1>4. RetentionTyped'
  BY <1>1, <1>3 DEF RetentionInv, RetentionTyped
<1>5. RowsFit'
  BY <1>1, <1>2, <1>3 DEF RetentionInv, RowsFit
<1>6. \A u \in Sweepers : sweep'[u].before \subseteq sweep[u].before /\ DueOf(u)' \subseteq DueOf(u)
  BY <1>2, <1>3 DEF DueOf
<1>7. \A r \in Renders : mark'[r] = mark[r] \/ (mark'[r] = "none" /\ Named(r))
  BY <1>1
<1> QED BY <1>1, <1>4, <1>5, <1>6, <1>7, MarksKeep

LEMMA ExpireKeeps == ASSUME RetentionInv, NEW s \in Sweepers, Expire(s) PROVE RetentionInv'
<1> DEFINE due == {r \in old : mark[r] = "none" /\ r \notin purged /\ ~Named(r)}
           row == [NoPass EXCEPT !.at = "audit", !.due = due]
<1>1. /\ sweep' = [sweep EXCEPT ![s] = row] /\ mark' = [r \in Renders |-> IF r \in due THEN "young" ELSE mark[r]]
      /\ UNCHANGED <<old, purged, blobs, delivery, faults, audited, slow>>
  BY DEF Expire, past
<1>2. due \subseteq Renders /\ due \subseteq old /\ \A r \in due : mark[r] = "none"
  BY DEF RetentionInv, RetentionTyped
<1> HIDE DEF due
<1>3. row \in SweepRow /\ row.at = "audit" /\ row.before = {} /\ row.on = {}
  BY <1>2 DEF SweepRow, Stages, NoPass
<1> HIDE DEF row
<1>4. sweep'[s] = row /\ (\A u \in Sweepers : u # s => sweep'[u] = sweep[u]) /\ sweep' \in [Sweepers -> SweepRow]
  BY <1>1, <1>3 DEF RetentionInv, RetentionTyped
<1>5. RetentionTyped'
  BY <1>1, <1>4 DEF RetentionInv, RetentionTyped
<1>6. RowsFit'
  BY <1>1, <1>2, <1>3, <1>4 DEF RetentionInv, RowsFit
<1>7. \A u \in Sweepers : sweep'[u].before \subseteq sweep[u].before /\ DueOf(u)' \subseteq DueOf(u)
  BY <1>3, <1>4 DEF DueOf
<1>8. \A r \in Renders : mark'[r] = mark[r] \/ (mark[r] = "none" /\ mark'[r] = "young")
  BY <1>1, <1>2
<1> QED BY <1>1, <1>5, <1>6, <1>7, <1>8, MarksKeep

LEMMA TimeKeeps == ASSUME RetentionInv, NEW r \in Renders, GrowOld(r) \/ GraceEnds(r) \/ GraceEndsLate(r) PROVE RetentionInv'
<1>1. /\ UNCHANGED <<purged, blobs, delivery, sweep, audited>> /\ slow \subseteq slow' /\ slow' \subseteq Renders
      /\ faults' \in 0..MaxFaults /\ old \subseteq old' /\ old' \subseteq Renders
      /\ \/ mark' = mark
         \/ /\ mark[r] = "young" /\ mark' = [mark EXCEPT ![r] = "aged"] /\ (r \in slow' \/ Of(r, InFlight) = {})
            /\ old' = old
  <2>1. faults \in Nat /\ faults <= MaxFaults /\ MaxFaults \in Nat /\ slow \subseteq Renders /\ old \subseteq Renders
    BY MaxFaultsAssumption DEF RetentionInv, RetentionTyped
  <2> QED BY <2>1 DEF GrowOld, GraceEnds, GraceEndsLate, Age, Fault, past
<1>2. RetentionTyped'
  BY <1>1 DEF RetentionInv, RetentionTyped
<1>3. RowsFit'
  BY <1>1 DEF RetentionInv, RetentionTyped, RowsFit
<1>4. \A s \in Sweepers : sweep'[s].before \subseteq sweep[s].before /\ DueOf(s)' \subseteq DueOf(s)
  BY <1>1 DEF DueOf
<1>5. \A q \in Renders :
         \/ mark'[q] = mark[q]
         \/ mark[q] = "young" /\ mark'[q] = "aged" /\ (q \in slow' \/ Of(q, InFlight) = {})
  <2> HIDE DEF Of
  <2> QED BY <1>1 DEF RetentionInv, RetentionTyped
<1> QED BY <1>1, <1>2, <1>3, <1>4, <1>5, MarksKeep

LEMMA RetentionStarts == RetentionInit => RetentionInv
<1> SUFFICES ASSUME RetentionInit PROVE RetentionInv
  OBVIOUS
<1>1. RetentionTyped
  BY MaxFaultsAssumption DEF RetentionInit, RetentionTyped, DeliveryRow, SweepRow, Stages, NoPass
<1>2. RowsFit /\ BeforeStands /\ DueIsFree
  BY DEF RetentionInit, RowsFit, BeforeStands, DueIsFree, DueOf, NoPass
<1>3. GraceOver /\ FetchedKept /\ DeliveryKeepsOutput
  BY DEF RetentionInit, GraceOver, FetchedKept, DeliveryKeepsOutput
<1> QED BY <1>1, <1>2, <1>3 DEF RetentionInv

LEMMA RetentionSteps == RetentionInv /\ [RetentionNext]_retentionVars => RetentionInv'
<1> SUFFICES ASSUME RetentionInv, [RetentionNext]_retentionVars PROVE RetentionInv'
  OBVIOUS
<1>1. ASSUME NEW d \in Deliveries, (\E r \in Renders : Load(d, r)) \/ Fetch(d) \/ PutDelivery(d) PROVE RetentionInv'
  BY <1>1, LoadKeeps, GoesOnKeeps
<1>2. ASSUME NEW s \in Sweepers, Begin(s) \/ Pass(s) \/ PassStops(s) PROVE RetentionInv'
  BY <1>2, BeginKeeps, ClearMarksKeeps, ListKeeps, DeleteBytesKeeps, RecordKeeps, ExpireKeeps, PassOverKeeps DEF Pass
<1>3. ASSUME NEW r \in Renders, GrowOld(r) \/ GraceEnds(r) \/ GraceEndsLate(r) PROVE RetentionInv'
  BY <1>3, TimeKeeps
<1>4. CASE UNCHANGED retentionVars
  <2>1. UNCHANGED <<old, mark, purged, blobs, delivery, sweep, faults, audited, slow>>
    BY <1>4 DEF retentionVars, rows, past
  <2>2. RetentionTyped' /\ RowsFit' /\ \A s \in Sweepers : sweep'[s].before \subseteq sweep[s].before /\ DueOf(s)' \subseteq DueOf(s)
    BY <2>1 DEF RetentionInv, RetentionTyped, RowsFit, DueOf
  <2> QED BY <2>1, <2>2, MarksKeep
<1> QED BY <1>1, <1>2, <1>3, <1>4 DEF RetentionNext

\* A pass deletes only outputs that nobody names or is about to name, unless a
\* delivery took longer than the grace.
THEOREM RetentionInvariant == RetentionSpec => []RetentionInv
BY RetentionStarts, RetentionSteps, PTL DEF RetentionSpec

\* Rows, deliveries and passes stay well formed.
THEOREM RetentionTypes == RetentionSpec => []RetentionTypeOK
<1>1. RetentionInv => RetentionTypeOK
  <2> SUFFICES ASSUME RetentionInv PROVE RetentionTypeOK
    OBVIOUS
  <2>1. Cardinality({}) = 0 /\ \A r : Cardinality({r}) = 1
    BY FS_EmptySet, FS_Singleton
  <2>2. \A d \in Deliveries : Cardinality(delivery[d].render) = IF delivery[d].at = "none" THEN 0 ELSE 1
    BY <2>1 DEF RetentionInv, RowsFit
  <2> QED BY <2>2 DEF RetentionInv, RetentionTyped, RowsFit, DeliveryRow, SweepRow, RetentionTypeOK
<1> QED BY <1>1, RetentionInvariant, PTL

\* An output that a stored delivery names, or that is served, has its bytes, unless
\* a delivery of it took longer than the grace.
THEOREM DeliveredOutputsStay == RetentionSpec => []DeliveryKeepsOutput
<1>1. RetentionInv => DeliveryKeepsOutput
  BY DEF RetentionInv
<1> QED BY <1>1, RetentionInvariant, PTL
=============================================================================
