--------------------------- MODULE CollabSessionProofs ---------------------------
(***************************************************************************)
(* Theorems about CollabSession, for any rooms, edits, savers, revisions   *)
(* and mishaps.  The invariant speaks of contentAt, the content at each    *)
(* revision: it only grows, and every copy of the document that is still   *)
(* used (a room's, a checkpoint's, a row read for a revision) is the       *)
(* content at the revision it is held under.                               *)
(***************************************************************************)
EXTENDS CollabSession, FiniteSetTheorems, TLAPS

RoomRecs ==
    [at : {"none", "ready", "append", "flush", "gone"} \cup Opening \cup Busy,
     rev : Nat, doc : Contents, fresh : BOOLEAN, chk : [rev : Nat, head : Nat, doc : Contents], edit : SUBSET Edits,
     closed : BOOLEAN, closing : BOOLEAN, lost : BOOLEAN, wrote : BOOLEAN, row : [rev : Nat, content : Contents],
     pending : BOOLEAN, writing : BOOLEAN, renewal : {"no", "sent", "ok"}]

\* The row, and the history of its content.
HeadKnown ==
    /\ document \in [rev : Nat \ {0}, content : Contents, deleted : BOOLEAN]
    /\ contentAt \in [1..document.rev -> Contents]
    /\ contentAt[document.rev] = document.content
    /\ \A m, n \in 1..document.rev : m <= n => contentAt[m] \subseteq contentAt[n]

\* A copy of the content at a revision.
Copy(rev, content) == rev \in 1..document.rev /\ content = contentAt[rev]

\* The checkpoint and the journal.
SavedKnown ==
    /\ saved \in [rev : Nat, head : Nat, doc : Contents]
    /\ journal \subseteq [rev : Nat, edits : SUBSET Edits]
    /\ saved.head <= document.rev /\ saved.rev <= saved.head
    /\ \A j \in journal : j.rev <= saved.head
    /\ Contiguous(saved)
    /\ saved.head # 0 => Copy(saved.rev, saved.doc) /\ Copy(saved.head, Rebuilt(saved))

\* Receipts say what is in the document, and what people were told agrees.
ReceiptsKnown ==
    /\ receipt \in [Edits -> {"none", "accepted", "rejected"}]
    /\ \A e \in Edits : receipt[e] = "accepted" <=> e \in document.content
    /\ told \subseteq document.content
    /\ denied \subseteq Edits /\ \A e \in denied : receipt[e] = "rejected"

RevisionsKnown == \A x \in revisions : Copy(x.rev, x.content)

\* What a room knows at each of its awaits.
RoomKnows(d) ==
    /\ d.at \in {"row", "write", "refuse", "answer"} \/ (d.at = "ready" /\ ~d.closed) => Copy(d.rev, d.doc)
    /\ d.at = "answer" => Copy(d.rev + 1, d.doc \cup d.edit)
    /\ d.at = "journal" =>
         /\ d.chk.head = d.rev /\ d.chk.rev <= d.chk.head /\ d.chk.head <= document.rev
         /\ Copy(d.chk.rev, d.chk.doc)
         /\ Contiguous(d.chk) => Copy(d.chk.head, Rebuilt(d.chk))
    /\ d.at = "append" => Copy(d.row.rev, d.row.content)
RoomsKnow == room \in [Rooms -> RoomRecs] /\ \A r \in Rooms : RoomKnows(room[r])

DeleteKnown == (deleter # "idle" => document.deleted) /\ (deleter = "done" => ~versioned)

CollabInv == HeadKnown /\ SavedKnown /\ ReceiptsKnown /\ RevisionsKnown /\ RoomsKnow /\ DeleteKnown

-----------------------------------------------------------------------------
(* Steps of one room that leave the row, its records and what people were  *)
(* told alone.                                                             *)

RecordsStay == UNCHANGED <<document, saved, journal, receipt, revisions, deleter, told, denied, contentAt>>

\* Two states of a room that agree on all that RoomKnows looks at, but for its closing.
LooksLike(e, d) ==
    /\ e.at = d.at /\ e.rev = d.rev /\ e.doc = d.doc /\ e.chk = d.chk /\ e.edit = d.edit /\ e.row = d.row
    /\ d.closed => e.closed

USE DEF RecordsStay, LooksLike

LEMMA RoomMoves ==
    ASSUME RoomsKnow, NEW r \in Rooms, NEW d \in RoomRecs, RoomKnows(d), Becomes(r, d),
           UNCHANGED <<document, journal, contentAt>>
    PROVE  RoomsKnow'
<1>1. room' \in [Rooms -> RoomRecs]
  BY DEF RoomsKnow, Becomes
<1>2. \A q \in Rooms : room'[q] = IF q = r THEN d ELSE room[q]
  BY DEF RoomsKnow, Becomes
<1>3. \A q \in Rooms : RoomKnows(room'[q])
  BY <1>2 DEF RoomsKnow
<1>4. ASSUME NEW q \in Rooms PROVE RoomKnows(room[q])'
  BY <1>3 DEF RoomKnows, Copy, Contiguous, JournalAfter, Rebuilt
<1> QED BY <1>1, <1>4 DEF RoomsKnow

LEMMA QuietInv ==
    ASSUME CollabInv, NEW r \in Rooms, NEW d \in RoomRecs, RoomKnows(d), Becomes(r, d),
           RecordsStay, versioned' = versioned \/ ~document.deleted
    PROVE  CollabInv'
<1>1. RoomsKnow'
  BY RoomMoves DEF CollabInv
<1>2. HeadKnown' /\ SavedKnown' /\ ReceiptsKnown' /\ RevisionsKnown'
  BY DEF CollabInv, HeadKnown, SavedKnown, ReceiptsKnown, RevisionsKnown, Copy, Contiguous, JournalAfter, Rebuilt
<1>3. DeleteKnown'
  BY DEF CollabInv, DeleteKnown
<1> QED BY <1>1, <1>2, <1>3 DEF CollabInv

\* A room that is not restoring, writing or recording holds no copy that counts.
LEMMA NothingHeld == ASSUME NEW d, d.at \in {"none", "claimed", "flush", "gone"} PROVE RoomKnows(d)
BY DEF RoomKnows

\* Nor does any other field than these matter.
LEMMA SameView == ASSUME NEW d, NEW e, RoomKnows(d), LooksLike(e, d) PROVE RoomKnows(e)
BY DEF RoomKnows

LEMMA NewRoomIsRoom == NewRoom \in RoomRecs /\ NewRoom.at = "none"
BY DEF NewRoom, RoomRecs, NoCheckpoint, NoRow, Contents, Opening, Busy

\* Renewals and the close of a room.
LEMMA LeaseMovesInv ==
    ASSUME CollabInv, NEW r \in Rooms, LoseLease(r) \/ LateRenewal(r) \/ HearLateRenewal(r) \/ CloseRoom(r)
    PROVE  CollabInv'
<1>1. room[r] \in RoomRecs /\ RoomKnows(room[r])
  BY DEF CollabInv, RoomsKnow
<1>2. CASE LoseLease(r)
  <2>1. CASE Becomes(r, [room[r] EXCEPT !.closed = TRUE, !.lost = TRUE, !.pending = FALSE])
    <3> DEFINE d == [room[r] EXCEPT !.closed = TRUE, !.lost = TRUE, !.pending = FALSE]
    <3>1. d \in RoomRecs /\ LooksLike(d, room[r])
      BY <1>1 DEF RoomRecs
    <3>2. Becomes(r, d) /\ RecordsStay /\ (versioned' = versioned \/ ~document.deleted)
      BY <1>2, <2>1 DEF LoseLease, rowVars
    <3> HIDE DEF d
    <3>3. RoomKnows(d)
      BY <1>1, <3>1, SameView
    <3> QED BY <3>1, <3>2, <3>3, QuietInv
  <2> QED BY <1>2, <2>1 DEF LoseLease
<1>3. CASE LateRenewal(r)
  <2>1. CASE Becomes(r, [room[r] EXCEPT !.renewal = "ok"])
    <3> DEFINE d == [room[r] EXCEPT !.renewal = "ok"]
    <3>1. d \in RoomRecs /\ LooksLike(d, room[r])
      BY <1>1 DEF RoomRecs
    <3>2. Becomes(r, d) /\ RecordsStay /\ (versioned' = versioned \/ ~document.deleted)
      BY <1>3, <2>1 DEF LateRenewal, rowVars
    <3> HIDE DEF d
    <3>3. RoomKnows(d)
      BY <1>1, <3>1, SameView
    <3> QED BY <3>1, <3>2, <3>3, QuietInv
  <2>2. CASE Becomes(r, [room[r] EXCEPT !.renewal = "no", !.lost = TRUE, !.pending = FALSE])
    <3> DEFINE d == [room[r] EXCEPT !.renewal = "no", !.lost = TRUE, !.pending = FALSE]
    <3>1. d \in RoomRecs /\ LooksLike(d, room[r])
      BY <1>1 DEF RoomRecs
    <3>2. Becomes(r, d) /\ RecordsStay /\ (versioned' = versioned \/ ~document.deleted)
      BY <1>3, <2>2 DEF LateRenewal, rowVars
    <3> HIDE DEF d
    <3>3. RoomKnows(d)
      BY <1>1, <3>1, SameView
    <3> QED BY <3>1, <3>2, <3>3, QuietInv
  <2> QED BY <1>3, <2>1, <2>2 DEF LateRenewal
<1>4. CASE HearLateRenewal(r)
  <2>1. CASE Becomes(r, [room[r] EXCEPT !.renewal = "no"])
    <3> DEFINE d == [room[r] EXCEPT !.renewal = "no"]
    <3>1. d \in RoomRecs /\ LooksLike(d, room[r])
      BY <1>1 DEF RoomRecs
    <3>2. Becomes(r, d) /\ RecordsStay /\ (versioned' = versioned \/ ~document.deleted)
      BY <1>4, <2>1 DEF HearLateRenewal, rowVars
    <3> HIDE DEF d
    <3>3. RoomKnows(d)
      BY <1>1, <3>1, SameView
    <3> QED BY <3>1, <3>2, <3>3, QuietInv
  <2> QED BY <1>4, <2>1 DEF HearLateRenewal
<1>5. CASE CloseRoom(r)
  <2>1. CASE Becomes(r, [room[r] EXCEPT !.closed = TRUE, !.closing = TRUE])
    <3> DEFINE d == [room[r] EXCEPT !.closed = TRUE, !.closing = TRUE]
    <3>1. d \in RoomRecs /\ LooksLike(d, room[r])
      BY <1>1 DEF RoomRecs
    <3>2. Becomes(r, d) /\ RecordsStay /\ (versioned' = versioned \/ ~document.deleted)
      BY <1>5, <2>1 DEF CloseRoom, rowVars
    <3> HIDE DEF d
    <3>3. RoomKnows(d)
      BY <1>1, <3>1, SameView
    <3> QED BY <3>1, <3>2, <3>3, QuietInv
  <2>2. CASE Becomes(r, [room[r] EXCEPT !.closed = TRUE, !.closing = TRUE, !.renewal = "sent"])
    <3> DEFINE d == [room[r] EXCEPT !.closed = TRUE, !.closing = TRUE, !.renewal = "sent"]
    <3>1. d \in RoomRecs /\ LooksLike(d, room[r])
      BY <1>1 DEF RoomRecs
    <3>2. Becomes(r, d) /\ RecordsStay /\ (versioned' = versioned \/ ~document.deleted)
      BY <1>5, <2>2 DEF CloseRoom, rowVars
    <3> HIDE DEF d
    <3>3. RoomKnows(d)
      BY <1>1, <3>1, SameView
    <3> QED BY <3>1, <3>2, <3>3, QuietInv
  <2> QED BY <1>5, <2>1, <2>2 DEF CloseRoom
<1> QED BY <1>2, <1>3, <1>4, <1>5

\* Versions of the document.
LEMMA VersionsInv ==
    ASSUME CollabInv, NEW r \in Rooms, ReadForVersion(r) \/ PutVersion(r) \/ VersionThrows(r)
    PROVE  CollabInv'
<1>1. room[r] \in RoomRecs /\ RoomKnows(room[r])
  BY DEF CollabInv, RoomsKnow
<1>2. CASE ReadForVersion(r)
  <2>1. CASE Becomes(r, [room[r] EXCEPT !.pending = FALSE, !.writing = ~document.deleted])
    <3> DEFINE d == [room[r] EXCEPT !.pending = FALSE, !.writing = ~document.deleted]
    <3>1. d \in RoomRecs /\ LooksLike(d, room[r])
      BY <1>1 DEF RoomRecs
    <3>2. Becomes(r, d) /\ RecordsStay /\ (versioned' = versioned \/ ~document.deleted)
      BY <1>2, <2>1 DEF ReadForVersion, rowVars
    <3> HIDE DEF d
    <3>3. RoomKnows(d)
      BY <1>1, <3>1, SameView
    <3> QED BY <3>1, <3>2, <3>3, QuietInv
  <2> QED BY <1>2, <2>1 DEF ReadForVersion
<1>3. CASE PutVersion(r)
  <2>1. CASE Becomes(r, [room[r] EXCEPT !.writing = FALSE])
    <3> DEFINE d == [room[r] EXCEPT !.writing = FALSE]
    <3>1. d \in RoomRecs /\ LooksLike(d, room[r])
      BY <1>1 DEF RoomRecs
    <3>2. Becomes(r, d) /\ RecordsStay /\ (versioned' = versioned \/ ~document.deleted)
      BY <1>3, <2>1 DEF PutVersion, rowVars
    <3> HIDE DEF d
    <3>3. RoomKnows(d)
      BY <1>1, <3>1, SameView
    <3> QED BY <3>1, <3>2, <3>3, QuietInv
  <2> QED BY <1>3, <2>1 DEF PutVersion
<1>4. CASE VersionThrows(r)
  <2>1. CASE Becomes(r, [room[r] EXCEPT !.writing = FALSE, !.pending = ~room[r].lost /\ ~InRoom(r, "flush")])
    <3> DEFINE d == [room[r] EXCEPT !.writing = FALSE, !.pending = ~room[r].lost /\ ~InRoom(r, "flush")]
    <3>1. d \in RoomRecs /\ LooksLike(d, room[r])
      BY <1>1 DEF RoomRecs
    <3>2. Becomes(r, d) /\ RecordsStay /\ (versioned' = versioned \/ ~document.deleted)
      BY <1>4, <2>1 DEF VersionThrows, rowVars
    <3> HIDE DEF d
    <3>3. RoomKnows(d)
      BY <1>1, <3>1, SameView
    <3> QED BY <3>1, <3>2, <3>3, QuietInv
  <2> QED BY <1>4, <2>1 DEF VersionThrows
<1> QED BY <1>2, <1>3, <1>4

LEMMA GoneIsRoom == ASSUME NEW r \in Rooms, room[r] \in RoomRecs PROVE Gone(r) \in RoomRecs /\ Gone(r).at = "gone"
<1>1. NewRoom \in RoomRecs /\ room[r].renewal \in {"no", "sent", "ok"}
  BY NewRoomIsRoom DEF RoomRecs
<1> QED BY <1>1 DEF Gone, RoomRecs, Opening, Busy

\* A room claims the lease, or is over.
LEMMA EndsInv ==
    ASSUME CollabInv, NEW r \in Rooms, OpenClaim(r) \/ OpenThrows(r) \/ AppendThrows(r) \/ ReleaseRoom(r) \/ RoomCrashes(r)
    PROVE  CollabInv'
<1>1. room[r] \in RoomRecs /\ RoomKnows(room[r])
  BY DEF CollabInv, RoomsKnow
<1>2. CASE OpenClaim(r)
  <2>1. CASE Becomes(r, [NewRoom EXCEPT !.at = "claimed"])
    <3> DEFINE d == [NewRoom EXCEPT !.at = "claimed"]
    <3>1. d \in RoomRecs /\ d.at = "claimed"
      BY NewRoomIsRoom DEF NewRoom, RoomRecs, Contents, Opening, Busy, NoCheckpoint, NoRow
    <3>2. Becomes(r, d) /\ RecordsStay /\ versioned' = versioned
      BY <1>2, <2>1 DEF OpenClaim, rowVars
    <3> HIDE DEF d
    <3>3. RoomKnows(d)
      BY <3>1, NothingHeld
    <3> QED BY <3>1, <3>2, <3>3, QuietInv
  <2> QED BY <1>2, <2>1 DEF OpenClaim
<1>3. CASE OpenThrows(r)
  <2>1. CASE Becomes(r, [NewRoom EXCEPT !.at = "gone"])
    <3> DEFINE d == [NewRoom EXCEPT !.at = "gone"]
    <3>1. d \in RoomRecs /\ d.at = "gone"
      BY NewRoomIsRoom DEF NewRoom, RoomRecs, Contents, Opening, Busy, NoCheckpoint, NoRow
    <3>2. Becomes(r, d) /\ RecordsStay /\ versioned' = versioned
      BY <1>3, <2>1 DEF OpenThrows, rowVars
    <3> HIDE DEF d
    <3>3. RoomKnows(d)
      BY <3>1, NothingHeld
    <3> QED BY <3>1, <3>2, <3>3, QuietInv
  <2> QED BY <1>3, <2>1 DEF OpenThrows
<1>4. CASE AppendThrows(r)
  <2>1. CASE Becomes(r, [Gone(r) EXCEPT !.pending = room[r].pending, !.writing = room[r].writing])
    <3> DEFINE d == [Gone(r) EXCEPT !.pending = room[r].pending, !.writing = room[r].writing]
    <3>1. d \in RoomRecs /\ d.at = "gone"
      BY <1>1, GoneIsRoom DEF RoomRecs
    <3>2. Becomes(r, d) /\ RecordsStay /\ versioned' = versioned
      BY <1>4, <2>1 DEF AppendThrows, rowVars
    <3> HIDE DEF d
    <3>3. RoomKnows(d)
      BY <3>1, NothingHeld
    <3> QED BY <3>1, <3>2, <3>3, QuietInv
  <2> QED BY <1>4, <2>1 DEF AppendThrows
<1>5. CASE ReleaseRoom(r)
  <2>1. CASE Becomes(r, Gone(r))
    <3> DEFINE d == Gone(r)
    <3>1. d \in RoomRecs /\ d.at = "gone"
      BY <1>1, GoneIsRoom
    <3>2. Becomes(r, d) /\ RecordsStay /\ versioned' = versioned
      BY <1>5, <2>1 DEF ReleaseRoom, rowVars
    <3> HIDE DEF d
    <3>3. RoomKnows(d)
      BY <3>1, NothingHeld
    <3> QED BY <3>1, <3>2, <3>3, QuietInv
  <2> QED BY <1>5, <2>1 DEF ReleaseRoom
<1>6. CASE RoomCrashes(r)
  <2>1. CASE Becomes(r, [NewRoom EXCEPT !.at = "gone"])
    <3> DEFINE d == [NewRoom EXCEPT !.at = "gone"]
    <3>1. d \in RoomRecs /\ d.at = "gone"
      BY NewRoomIsRoom DEF NewRoom, RoomRecs, Contents, Opening, Busy, NoCheckpoint, NoRow
    <3>2. Becomes(r, d) /\ RecordsStay /\ versioned' = versioned
      BY <1>6, <2>1 DEF RoomCrashes, rowVars
    <3> HIDE DEF d
    <3>3. RoomKnows(d)
      BY <3>1, NothingHeld
    <3> QED BY <3>1, <3>2, <3>3, QuietInv
  <2> QED BY <1>6, <2>1 DEF RoomCrashes
<1> QED BY <1>2, <1>3, <1>4, <1>5, <1>6

\* A room restores the document: the row, the checkpoint, the journal.
LEMMA OpensInv ==
    ASSUME CollabInv, NEW r \in Rooms, OpenRow(r) \/ OpenCheckpoint(r) \/ OpenJournal(r)
    PROVE  CollabInv'
<1>1. room[r] \in RoomRecs /\ RoomKnows(room[r])
  BY DEF CollabInv, RoomsKnow
<1>2. /\ document.rev \in Nat \ {0} /\ document.content \in Contents /\ Copy(document.rev, document.content)
      /\ saved \in [rev : Nat, head : Nat, doc : Contents] /\ \A rev, c : Copy(rev, c) => rev \in Nat /\ c \in Contents
  BY DEF CollabInv, HeadKnown, SavedKnown, Copy
<1>3. CASE OpenRow(r)
  <2>1. CASE Becomes(r, [room[r] EXCEPT !.at = "row", !.rev = document.rev, !.doc = document.content])
    <3> DEFINE d == [room[r] EXCEPT !.at = "row", !.rev = document.rev, !.doc = document.content]
    <3>1. d \in RoomRecs /\ d.at = "row" /\ d.rev = document.rev /\ d.doc = document.content
      BY <1>1, <1>2 DEF RoomRecs, Contents, Opening, Busy, NoCheckpoint, NoRow
    <3>2. Becomes(r, d) /\ RecordsStay /\ versioned' = versioned
      BY <1>3, <2>1 DEF OpenRow, rowVars
    <3> HIDE DEF d
    <3>3. RoomKnows(d)
      BY <3>1, <1>2 DEF RoomKnows
    <3> QED BY <3>1, <3>2, <3>3, QuietInv
  <2> QED BY <1>3, <2>1 DEF OpenRow
<1>4. CASE OpenCheckpoint(r)
  <2>1. CASE Becomes(r, [room[r] EXCEPT !.at = "journal", !.chk = saved]) /\ CheckpointCounts(r)
    <3> DEFINE d == [room[r] EXCEPT !.at = "journal", !.chk = saved]
    <3>1. d \in RoomRecs /\ d.at = "journal" /\ d.chk = saved /\ d.rev = room[r].rev
      BY <1>1, <1>2 DEF RoomRecs, Contents, Opening, Busy, NoCheckpoint, NoRow
    <3>2. Becomes(r, d) /\ RecordsStay /\ versioned' = versioned
      BY <1>4, <2>1 DEF OpenCheckpoint, rowVars
    <3> HIDE DEF d
    <3>3. RoomKnows(d)
      BY <3>1, <1>1, <1>4, <2>1 DEF RoomKnows, OpenCheckpoint, InRoom, CheckpointCounts, CollabInv, SavedKnown, Copy
    <3> QED BY <3>1, <3>2, <3>3, QuietInv
  <2>2. CASE Becomes(r, [room[r] EXCEPT !.at = "ready"])
    <3> DEFINE d == [room[r] EXCEPT !.at = "ready"]
    <3>1. d \in RoomRecs /\ d.at = "ready" /\ d.rev = room[r].rev /\ d.doc = room[r].doc
      BY <1>1, <1>2 DEF RoomRecs, Contents, Opening, Busy, NoCheckpoint, NoRow
    <3>2. Becomes(r, d) /\ RecordsStay /\ versioned' = versioned
      BY <1>4, <2>2 DEF OpenCheckpoint, rowVars
    <3> HIDE DEF d
    <3>3. RoomKnows(d)
      BY <3>1, <1>1, <1>4 DEF RoomKnows, OpenCheckpoint, InRoom
    <3> QED BY <3>1, <3>2, <3>3, QuietInv
  <2> QED BY <1>4, <2>1, <2>2 DEF OpenCheckpoint
<1>5. CASE OpenJournal(r)
  <2>1. CASE Becomes(r, [room[r] EXCEPT !.at = "ready", !.doc = Rebuilt(room[r].chk), !.fresh = FALSE, !.chk = NoCheckpoint])
    <3> DEFINE d == [room[r] EXCEPT !.at = "ready", !.doc = Rebuilt(room[r].chk), !.fresh = FALSE, !.chk = NoCheckpoint]
    <3>0. Rebuilt(room[r].chk) \in Contents
      BY <1>1, <1>2, <1>5 DEF RoomKnows, OpenJournal, InRoom
    <3>1. d \in RoomRecs /\ d.at = "ready" /\ d.rev = room[r].rev /\ d.doc = Rebuilt(room[r].chk)
      BY <1>1, <1>2, <3>0 DEF RoomRecs, Contents, Opening, Busy, NoCheckpoint
    <3>2. Becomes(r, d) /\ RecordsStay /\ versioned' = versioned
      BY <1>5, <2>1 DEF OpenJournal, rowVars
    <3> HIDE DEF d
    <3>3. RoomKnows(d)
      BY <3>1, <1>1, <1>5 DEF RoomKnows, OpenJournal, InRoom
    <3> QED BY <3>1, <3>2, <3>3, QuietInv
  <2> QED BY <1>5, <2>1 DEF OpenJournal
<1> QED BY <1>3, <1>4, <1>5

\* A batch that fails, or whose answer is lost; the row read at the close.
LEMMA WritesInv ==
    ASSUME CollabInv, NEW r \in Rooms, BatchThrows(r) \/ AnswerLost(r) \/ ReadForRevision(r)
    PROVE  CollabInv'
<1>1. room[r] \in RoomRecs /\ RoomKnows(room[r])
  BY DEF CollabInv, RoomsKnow
<1>2. /\ document.rev \in Nat \ {0} /\ document.content \in Contents /\ Copy(document.rev, document.content)
      /\ saved \in [rev : Nat, head : Nat, doc : Contents] /\ \A rev, c : Copy(rev, c) => rev \in Nat /\ c \in Contents
  BY DEF CollabInv, HeadKnown, SavedKnown, Copy
<1>3. CASE BatchThrows(r)
  <2>1. CASE Becomes(r, [room[r] EXCEPT !.at = "ready", !.edit = {}])
    <3> DEFINE d == [room[r] EXCEPT !.at = "ready", !.edit = {}]
    <3>1. d \in RoomRecs /\ d.at = "ready" /\ d.rev = room[r].rev /\ d.doc = room[r].doc
      BY <1>1, <1>2 DEF RoomRecs, Contents, Opening, Busy, NoCheckpoint, NoRow
    <3>2. Becomes(r, d) /\ RecordsStay /\ versioned' = versioned
      BY <1>3, <2>1 DEF BatchThrows, rowVars
    <3> HIDE DEF d
    <3>3. RoomKnows(d)
      BY <3>1, <1>1, <1>3 DEF RoomKnows, BatchThrows
    <3> QED BY <3>1, <3>2, <3>3, QuietInv
  <2> QED BY <1>3, <2>1 DEF BatchThrows, BatchOver
<1>4. CASE AnswerLost(r)
  <2>1. CASE Becomes(r, [room[r] EXCEPT !.at = "ready", !.edit = {}])
    <3> DEFINE d == [room[r] EXCEPT !.at = "ready", !.edit = {}]
    <3>1. d \in RoomRecs /\ d.at = "ready" /\ d.rev = room[r].rev /\ d.doc = room[r].doc
      BY <1>1, <1>2 DEF RoomRecs, Contents, Opening, Busy, NoCheckpoint, NoRow
    <3>2. Becomes(r, d) /\ RecordsStay /\ versioned' = versioned
      BY <1>4, <2>1 DEF AnswerLost, rowVars
    <3> HIDE DEF d
    <3>3. RoomKnows(d)
      BY <3>1, <1>1, <1>4 DEF RoomKnows, AnswerLost, InRoom
    <3> QED BY <3>1, <3>2, <3>3, QuietInv
  <2> QED BY <1>4, <2>1 DEF AnswerLost, BatchOver
<1>5. CASE ReadForRevision(r)
  <2>1. CASE Becomes(r, [room[r] EXCEPT !.at = "append", !.row = Row])
    <3> DEFINE d == [room[r] EXCEPT !.at = "append", !.row = Row]
    <3>1. d \in RoomRecs /\ d.at = "append" /\ d.row = Row
      BY <1>1, <1>2 DEF RoomRecs, Contents, Opening, Busy, Row
    <3>2. Becomes(r, d) /\ RecordsStay /\ versioned' = versioned
      BY <1>5, <2>1 DEF ReadForRevision, rowVars
    <3> HIDE DEF d
    <3>3. RoomKnows(d)
      BY <3>1, <1>2 DEF RoomKnows, Row
    <3> QED BY <3>1, <3>2, <3>3, QuietInv
  <2>2. CASE Becomes(r, [room[r] EXCEPT !.at = "flush"])
    <3> DEFINE d == [room[r] EXCEPT !.at = "flush"]
    <3>1. d \in RoomRecs /\ d.at = "flush"
      BY <1>1, <1>2 DEF RoomRecs, Contents, Opening, Busy, NoCheckpoint, NoRow
    <3>2. Becomes(r, d) /\ RecordsStay /\ versioned' = versioned
      BY <1>5, <2>2 DEF ReadForRevision, rowVars
    <3> HIDE DEF d
    <3>3. RoomKnows(d)
      BY <3>1, NothingHeld
    <3> QED BY <3>1, <3>2, <3>3, QuietInv
  <2> QED BY <1>5, <2>1, <2>2 DEF ReadForRevision, RowRead
<1> QED BY <1>3, <1>4, <1>5

-----------------------------------------------------------------------------
(* The row moves.                                                          *)

\* The content at every earlier revision stays, and the new one contains it.
LEMMA AdvanceKnown ==
    ASSUME HeadKnown, NEW content \in Contents, document.content \subseteq content, Advance(content)
    PROVE  /\ HeadKnown' /\ document'.rev = document.rev + 1 /\ document'.content = content
           /\ document'.deleted = document.deleted
           /\ \A rev, c : Copy(rev, c) => Copy(rev, c)'
           /\ Copy(document.rev, document.content)'
<1> DEFINE n == document.rev
<1>1. document \in [rev : Nat \ {0}, content : Contents, deleted : BOOLEAN] /\ n \in Nat \ {0}
  BY DEF HeadKnown
<1>2. document' = [document EXCEPT !.rev = n + 1, !.content = content]
  BY DEF Advance
<1>3. /\ document'.rev = n + 1 /\ document'.content = content /\ document'.deleted = document.deleted
      /\ document' \in [rev : Nat \ {0}, content : Contents, deleted : BOOLEAN]
  <2>1. n + 1 \in Nat \ {0}
    BY <1>1
  <2> HIDE DEF n
  <2> QED BY <1>1, <1>2, <2>1
<1>4. contentAt' = [i \in 1..(n + 1) |-> IF i = n + 1 THEN content ELSE contentAt[i]]
  <2>1. DOMAIN contentAt \cup {n + 1} = 1..(n + 1)
    BY <1>1 DEF HeadKnown
  <2> QED BY <2>1 DEF Advance
<1>5. contentAt \in [1..n -> Contents] /\ contentAt[n] = document.content
      /\ \A a, b \in 1..n : a <= b => contentAt[a] \subseteq contentAt[b]
  BY DEF HeadKnown
<1>6. contentAt' \in [1..(n + 1) -> Contents] /\ contentAt'[n + 1] = content
      /\ \A i \in 1..n : contentAt'[i] = contentAt[i]
  BY <1>1, <1>4, <1>5
<1>7. ASSUME NEW a \in 1..(n + 1), NEW b \in 1..(n + 1), a <= b PROVE contentAt'[a] \subseteq contentAt'[b]
  <2>1. CASE b \in 1..n
    BY <1>1, <1>5, <1>6, <1>7, <2>1
  <2>2. CASE b = n + 1 /\ a \in 1..n
    <3>1. contentAt[a] \subseteq contentAt[n]
      BY <1>1, <1>5, <2>2
    <3> QED BY <1>5, <1>6, <2>2, <3>1
  <2>3. CASE b = n + 1 /\ a = n + 1
    BY <2>3
  <2> QED BY <1>1, <1>7, <2>1, <2>2, <2>3
<1>8. HeadKnown'
  BY <1>3, <1>6, <1>7 DEF HeadKnown
<1>9. \A rev, c : Copy(rev, c) => Copy(rev, c)'
  BY <1>1, <1>3, <1>6 DEF Copy
<1> QED BY <1>1, <1>3, <1>6, <1>8, <1>9 DEF Copy

\* A copy is part of the document, and the head is a copy of it.
LEMMA CopyIsIn ==
    ASSUME HeadKnown
    PROVE  /\ \A rev, c : Copy(rev, c) => rev \in Nat /\ rev >= 1 /\ rev <= document.rev /\ c \in Contents /\ c \subseteq document.content
           /\ Copy(document.rev, document.content)
           /\ \A c : Copy(document.rev, c) => c = document.content
BY DEF HeadKnown, Copy

\* PUT.
LEMMA SaverPutsInv == ASSUME CollabInv, NEW s \in Savers, SaverPuts(s) PROVE CollabInv'
<1> DEFINE content == document.content \cup {s}
<1>1. /\ document.rev = saver[s].rev /\ ~document.deleted /\ Advance(contentAt[saver[s].rev] \cup {s})
      /\ revisions' = {x \in revisions : x.rev # document'.rev} \cup {[rev |-> document'.rev, content |-> document'.content]}
      /\ told' \in {told, told \cup {s}}
      /\ UNCHANGED <<owned, saved, journal, receipt, room, deleter, mishaps, denied>>
  BY DEF SaverPuts
<1>2. content \in Contents /\ Advance(content)
  BY <1>1 DEF CollabInv, HeadKnown, Contents
<1> HIDE DEF content
<1>3. /\ HeadKnown' /\ document'.rev = document.rev + 1 /\ document'.content = content /\ document'.deleted = document.deleted
      /\ (\A rev, c : Copy(rev, c) => Copy(rev, c)') /\ Copy(document.rev, document.content)'
  <2>1. document.content \subseteq content
    BY DEF content
  <2> QED BY <1>2, <2>1, AdvanceKnown DEF CollabInv
<1>4. document.rev \in Nat
  BY DEF CollabInv, HeadKnown
<1>5. SavedKnown'
  <2>1. Contiguous(saved)' /\ Rebuilt(saved)' = Rebuilt(saved)
    BY <1>1 DEF CollabInv, SavedKnown, Contiguous, JournalAfter, Rebuilt
  <2>2. saved' = saved /\ journal' = journal /\ saved.head \in Nat
    BY <1>1 DEF CollabInv, SavedKnown
  <2>3. saved'.head <= document'.rev
    BY <1>3, <1>4, <2>2 DEF CollabInv, SavedKnown
  <2>4. saved'.head # 0 => Copy(saved.rev, saved.doc)' /\ Copy(saved.head, Rebuilt(saved))'
    BY <1>3, <2>1, <2>2 DEF CollabInv, SavedKnown
  <2> QED BY <2>1, <2>2, <2>3, <2>4 DEF CollabInv, SavedKnown
<1>6. ReceiptsKnown'
  <2>1. s \notin Edits /\ told' \subseteq content /\ \A e \in Edits : e \in content <=> e \in document.content
    BY <1>1, CollabAssumption DEF CollabInv, ReceiptsKnown, content
  <2> QED BY <1>1, <1>3, <2>1 DEF CollabInv, ReceiptsKnown
<1>7. RevisionsKnown'
  BY <1>1, <1>3 DEF CollabInv, RevisionsKnown
<1>8. RoomsKnow'
  <2> SUFFICES ASSUME NEW r \in Rooms PROVE RoomKnows(room[r])'
    BY <1>1 DEF CollabInv, RoomsKnow
  <2>1. room'[r] = room[r] /\ RoomKnows(room[r]) /\ room[r].chk.head \in Nat
    BY <1>1 DEF CollabInv, RoomsKnow, RoomRecs
  <2>2. (Contiguous(room[r].chk)' <=> Contiguous(room[r].chk)) /\ Rebuilt(room[r].chk)' = Rebuilt(room[r].chk)
    BY <1>1, <2>1 DEF Contiguous, JournalAfter, Rebuilt
  <2>3. room[r].chk.head <= document.rev => room[r].chk.head <= document'.rev
    BY <1>3, <1>4, <2>1
  <2> QED BY <1>3, <2>1, <2>2, <2>3 DEF RoomKnows
<1>9. DeleteKnown'
  BY <1>1, <1>3 DEF CollabInv, DeleteKnown
<1> QED BY <1>3, <1>5, <1>6, <1>7, <1>8, <1>9 DEF CollabInv

LEMMA UnionOfEdits ==
    ASSUME NEW S, NEW x
    PROVE  UNION {j.edits : j \in S \cup {x}} = (UNION {j.edits : j \in S}) \cup x.edits
<1>1. \A e : e \in (UNION {j.edits : j \in S \cup {x}}) <=> e \in (UNION {j.edits : j \in S}) \/ e \in x.edits
  OBVIOUS
<1> QED BY <1>1

\* A commit at revision n writes a new checkpoint, or a journal row after the one there is.
JournalMove(n, edit, content) ==
    \/ /\ saved' = [rev |-> n + 1, head |-> n + 1, doc |-> content]
       /\ journal' = {j \in journal : j.rev > n + 1}
    \/ /\ saved.head = n /\ saved' = [saved EXCEPT !.head = n + 1]
       /\ journal' = journal \cup {[rev |-> n + 1, edits |-> edit]}

\* Then the checkpoint rebuilds the new content, and one that a room has read
\* before is no longer continued by the journal, unless it needs none.
JournalMoved(n, content) ==
    /\ saved' \in [rev : Nat, head : Nat, doc : Contents] /\ journal' \subseteq [rev : Nat, edits : SUBSET Edits]
    /\ saved'.head = n + 1 /\ saved'.rev <= n + 1 /\ \A j \in journal' : j.rev <= n + 1
    /\ Contiguous(saved)' /\ Rebuilt(saved)' = content
    /\ (saved'.rev = n + 1 /\ saved'.doc = content) \/ Copy(saved'.rev, saved'.doc)
    /\ \A chk \in [rev : Nat, head : Nat, doc : Contents] :
         chk.rev <= chk.head /\ chk.head <= n /\ Contiguous(chk)' => chk.rev = chk.head /\ Rebuilt(chk)' = chk.doc

LEMMA JournalMoves ==
    ASSUME CollabInv, NEW n \in Nat, n = document.rev, NEW edit \in SUBSET Edits, NEW content \in Contents,
           content = document.content \cup edit, JournalMove(n, edit, content)
    PROVE  JournalMoved(n, content)
<1> USE DEF JournalMove, JournalMoved
<1>1. /\ saved \in [rev : Nat, head : Nat, doc : Contents] /\ journal \subseteq [rev : Nat, edits : SUBSET Edits]
      /\ saved.head <= n /\ saved.rev <= saved.head /\ \A j \in journal : j.rev <= saved.head
  BY DEF CollabInv, SavedKnown
<1>2. CASE saved' = [rev |-> n + 1, head |-> n + 1, doc |-> content] /\ journal' = {j \in journal : j.rev > n + 1}
  <2>1. journal' = {}
    BY <1>1, <1>2
  <2>2. \A chk : JournalAfter(chk)' = {}
    BY <2>1 DEF JournalAfter
  <2>3. \A chk : Rebuilt(chk)' = chk.doc
    <3> TAKE chk
    <3>1. JournalAfter(chk)' = {}
      BY <2>2
    <3> QED BY <3>1, <2>1 DEF Rebuilt, JournalAfter
  <2>4. \A chk : Contiguous(chk)' <=> {} = (chk.rev + 1)..chk.head
    BY <2>1 DEF Contiguous, JournalAfter
  <2>5. Contiguous(saved)'
    BY <1>2, <2>1 DEF Contiguous, JournalAfter
  <2>6. Rebuilt(saved)' = content
    BY <1>2, <2>1 DEF Rebuilt, JournalAfter
  <2>7. ASSUME NEW chk \in [rev : Nat, head : Nat, doc : Contents], chk.rev <= chk.head, Contiguous(chk)' PROVE chk.rev = chk.head
    <3>1. {} = (chk.rev + 1)..chk.head
      BY <2>4, <2>7
    <3>2. chk.rev < chk.head => chk.head \in (chk.rev + 1)..chk.head
      OBVIOUS
    <3> QED BY <2>7, <3>1, <3>2
  <2> QED BY <1>2, <2>1, <2>3, <2>5, <2>6, <2>7
<1>3. CASE saved.head = n /\ saved' = [saved EXCEPT !.head = n + 1] /\ journal' = journal \cup {[rev |-> n + 1, edits |-> edit]}
  <2> DEFINE new == [rev |-> n + 1, edits |-> edit]
  <2>1. saved' \in [rev : Nat, head : Nat, doc : Contents] /\ saved'.rev = saved.rev /\ saved'.doc = saved.doc /\ saved'.head = n + 1
    BY <1>1, <1>3
  <2>2. new \in [rev : Nat, edits : SUBSET Edits] /\ new.rev = n + 1 /\ new.edits = edit
    OBVIOUS
  <2> HIDE DEF new
  <2>3. JournalAfter(saved)' = JournalAfter(saved) \cup {new}
    <3>1. n + 1 > saved.rev
      BY <1>1
    <3>2. journal' = journal \cup {new}
      BY <1>3 DEF new
    <3> QED BY <2>1, <2>2, <3>1, <3>2 DEF JournalAfter
  <2>4. n # 0
    BY DEF CollabInv, HeadKnown
  <2>5. {j.rev : j \in JournalAfter(saved)} = (saved.rev + 1)..n /\ Rebuilt(saved) = document.content /\ Copy(saved.rev, saved.doc)
    BY <1>3, <2>4, CopyIsIn DEF CollabInv, SavedKnown, Contiguous
  <2>6. Contiguous(saved)'
    <3>1. {j.rev : j \in JournalAfter(saved) \cup {new}} = (saved.rev + 1)..n \cup {n + 1}
      BY <2>2, <2>5
    <3>2. (saved.rev + 1)..n \cup {n + 1} = (saved.rev + 1)..(n + 1)
      BY <1>1
    <3> QED BY <2>1, <2>3, <3>1, <3>2 DEF Contiguous
  <2>7. Rebuilt(saved)' = content
    <3>1. Rebuilt(saved)' = saved'.doc \cup UNION {j.edits : j \in JournalAfter(saved) \cup {new}}
      BY <2>3 DEF Rebuilt
    <3>2. UNION {j.edits : j \in JournalAfter(saved) \cup {new}} = (UNION {j.edits : j \in JournalAfter(saved)}) \cup new.edits
      BY UnionOfEdits
    <3>3. document.content = saved.doc \cup UNION {j.edits : j \in JournalAfter(saved)}
      BY <2>5 DEF Rebuilt
    <3> QED BY <2>1, <2>2, <3>1, <3>2, <3>3
  <2>8. ASSUME NEW chk \in [rev : Nat, head : Nat, doc : Contents], chk.rev <= chk.head, chk.head <= n PROVE ~Contiguous(chk)'
    <3>1. new \in JournalAfter(chk)'
      BY <1>3, <2>2, <2>8 DEF JournalAfter, new
    <3>2. n + 1 \notin (chk.rev + 1)..chk.head
      BY <2>8
    <3> QED BY <2>2, <3>1, <3>2 DEF Contiguous
  <2>9. journal' \subseteq [rev : Nat, edits : SUBSET Edits] /\ \A j \in journal' : j.rev <= n + 1
    <3>1. journal' = journal \cup {new}
      BY <1>3 DEF new
    <3> QED BY <1>1, <1>3, <2>2, <3>1
  <2>10. saved'.rev <= n + 1
    BY <1>1, <2>1
  <2> QED BY <2>1, <2>5, <2>6, <2>7, <2>8, <2>9, <2>10
<1> QED BY <1>2, <1>3

LEMMA CommitBatchInv == ASSUME CollabInv, NEW r \in Rooms, NEW compact \in BOOLEAN, CommitBatch(r, compact) PROVE CollabInv'
<1> DEFINE n == document.rev
           edit == room[r].edit
           content == room[r].doc \cup edit
           d == [room[r] EXCEPT !.at = "answer"]
<1>1. room[r] \in RoomRecs /\ RoomKnows(room[r])
  BY DEF CollabInv, RoomsKnow
<1>2. /\ room[r].at = "write" /\ room[r].rev = n /\ ~document.deleted /\ \A e \in edit : receipt[e] = "none"
      /\ Advance(content) /\ receipt' = [e \in Edits |-> IF e \in edit THEN "accepted" ELSE receipt[e]]
      /\ Becomes(r, d) /\ UNCHANGED <<owned, revisions, versioned, saver, deleter, mishaps, told, denied>>
  BY DEF CommitBatch, Fence, InRoom
<1>3. n \in Nat /\ n # 0 /\ edit \in SUBSET Edits /\ document.content \in Contents
  BY <1>1 DEF CollabInv, HeadKnown, RoomRecs
<1>4. Copy(n, room[r].doc) /\ room[r].doc = document.content
  BY <1>1, <1>2, CopyIsIn DEF RoomKnows, CollabInv
<1>5. content \in Contents /\ content = document.content \cup edit
  BY <1>3, <1>4 DEF Contents
<1>6. d \in RoomRecs /\ d.at = "answer" /\ d.rev = n /\ d.doc = document.content /\ d.edit = edit
  BY <1>1, <1>2, <1>4 DEF RoomRecs, Busy
<1>7. \/ /\ saved' = [rev |-> document'.rev, head |-> document'.rev, doc |-> document'.content]
         /\ journal' = {j \in journal : j.rev > document'.rev}
      \/ /\ saved.head = n
         /\ saved' = [saved EXCEPT !.head = document'.rev]
         /\ journal' = journal \cup {[rev |-> document'.rev, edits |-> edit]}
  BY <1>2 DEF CommitBatch
<1> HIDE DEF content, d, edit
<1>8. /\ HeadKnown' /\ document'.rev = n + 1 /\ document'.content = content /\ document'.deleted = document.deleted
      /\ (\A rev, c : Copy(rev, c) => Copy(rev, c)') /\ Copy(document.rev, document.content)'
  <2>1. document.content \subseteq content
    BY <1>5
  <2> QED BY <1>2, <1>5, <2>1, AdvanceKnown DEF CollabInv
<1>9. \A rev, c : rev = n + 1 /\ c = content => Copy(rev, c)'
  BY <1>8 DEF Copy
<1>10. JournalMoved(n, content)
  <2>1. JournalMove(n, edit, content)
    BY <1>7, <1>8 DEF JournalMove
  <2>2. n = document.rev
    OBVIOUS
  <2> HIDE DEF n
  <2> QED BY <1>3, <1>5, <2>1, <2>2, JournalMoves
<1>11. SavedKnown'
  <2>1. Copy(saved.rev, saved.doc)'
    <3>1. CASE saved'.rev = n + 1 /\ saved'.doc = content
      BY <1>8, <3>1 DEF Copy
    <3>2. CASE Copy(saved'.rev, saved'.doc)
      <4>1. \A rev, c : Copy(rev, c) => (rev \in 1..document'.rev /\ c = contentAt'[rev])
        BY <1>8 DEF Copy
      <4> QED BY <3>2, <4>1 DEF Copy
    <3> QED BY <1>10, <3>1, <3>2 DEF JournalMoved
  <2>2. Copy(saved.head, Rebuilt(saved))'
    BY <1>8, <1>10 DEF Copy, JournalMoved
  <2>3. saved'.head <= document'.rev /\ saved'.rev <= saved'.head /\ \A j \in journal' : j.rev <= saved'.head
    BY <1>3, <1>8, <1>10 DEF JournalMoved
  <2> QED BY <1>10, <2>1, <2>2, <2>3 DEF SavedKnown, JournalMoved
<1>12. ReceiptsKnown'
  <2>1. receipt' \in [Edits -> {"none", "accepted", "rejected"}]
    BY <1>2 DEF CollabInv, ReceiptsKnown
  <2>2. \A e \in Edits : receipt'[e] = "accepted" <=> e \in document'.content
    BY <1>2, <1>5, <1>8 DEF CollabInv, ReceiptsKnown
  <2>3. told' \subseteq document'.content
    BY <1>2, <1>5, <1>8 DEF CollabInv, ReceiptsKnown
  <2>4. denied' \subseteq Edits /\ \A e \in denied' : receipt'[e] = "rejected"
    BY <1>2 DEF CollabInv, ReceiptsKnown
  <2> QED BY <2>1, <2>2, <2>3, <2>4 DEF ReceiptsKnown
<1>13. RevisionsKnown'
  BY <1>2, <1>8 DEF CollabInv, RevisionsKnown
<1>14. RoomsKnow'
  <2>1. room' \in [Rooms -> RoomRecs] /\ \A q \in Rooms : room'[q] = IF q = r THEN d ELSE room[q]
    BY <1>2, <1>6 DEF CollabInv, RoomsKnow, Becomes
  <2>2. ASSUME NEW q \in Rooms PROVE RoomKnows(room[q])'
    <3>1. CASE q = r
      <4>1. room'[q] = d
        BY <2>1, <3>1
      <4>2. \A rev, c : rev = d.rev /\ c = d.doc => Copy(rev, c)'
        BY <1>4, <1>6, <1>8
      <4>3. \A rev, c : rev = d.rev + 1 /\ c = d.doc \cup d.edit => Copy(rev, c)'
        BY <1>5, <1>6, <1>9
      <4> QED BY <1>6, <4>1, <4>2, <4>3 DEF RoomKnows
    <3>2. CASE q # r
      <4> DEFINE e == room[q]
      <4>1. room'[q] = e /\ RoomKnows(e) /\ e.chk \in [rev : Nat, head : Nat, doc : Contents]
        BY <2>1, <3>2 DEF CollabInv, RoomsKnow, RoomRecs
      <4> HIDE DEF e
      <4>2. e.at = "journal" => \A chk : chk = e.chk =>
              /\ chk.head <= document'.rev
              /\ Contiguous(chk)' => chk.rev = chk.head /\ Rebuilt(chk)' = chk.doc
        BY <1>3, <1>8, <1>10, <4>1 DEF RoomKnows, JournalMoved
      <4>3. \A rev, c : Copy(rev, c) => Copy(rev, c)'
        BY <1>8
      <4>4. ASSUME NEW f, f = e PROVE RoomKnows(f)'
        BY <4>1, <4>2, <4>3, <4>4 DEF RoomKnows
      <4> QED BY <4>1, <4>4
    <3> QED BY <3>1, <3>2
  <2> QED BY <2>1, <2>2 DEF RoomsKnow
<1>15. DeleteKnown'
  BY <1>2, <1>8 DEF CollabInv, DeleteKnown
<1> QED BY <1>8, <1>11, <1>12, <1>13, <1>14, <1>15 DEF CollabInv

-----------------------------------------------------------------------------
(* What people are told, the revisions and the delete.                     *)

LEMMA StartBatchInv ==
    ASSUME CollabInv, NEW r \in Rooms, NEW e \in Edits, NEW vetoed \in BOOLEAN, StartBatch(r, e, vetoed)
    PROVE  CollabInv'
<1>1. room[r] \in RoomRecs /\ RoomKnows(room[r]) /\ room[r].at = "ready" /\ ~room[r].closed
      /\ UNCHANGED <<document, saved, journal, receipt, revisions, versioned, deleter, contentAt>>
  BY DEF CollabInv, RoomsKnow, StartBatch, InRoom, rowVars
<1>2. CASE receipt[e] # "none"
  <2>1. /\ told' = told \cup {x \in {e} : receipt[x] = "accepted"}
        /\ denied' = denied \cup {x \in {e} : receipt[x] = "rejected"} /\ room' = room
    BY <1>2 DEF StartBatch
  <2>2. ReceiptsKnown'
    BY <1>1, <2>1 DEF CollabInv, ReceiptsKnown
  <2>3. HeadKnown' /\ SavedKnown' /\ RevisionsKnown' /\ DeleteKnown'
    BY <1>1 DEF CollabInv, HeadKnown, SavedKnown, RevisionsKnown, DeleteKnown, Copy, Contiguous, JournalAfter, Rebuilt
  <2>4. RoomsKnow'
    BY <1>1, <2>1 DEF CollabInv, RoomsKnow, RoomKnows, Copy, Contiguous, JournalAfter, Rebuilt
  <2> QED BY <2>2, <2>3, <2>4 DEF CollabInv
<1>3. CASE receipt[e] = "none"
  <2> DEFINE d == [room[r] EXCEPT !.at = IF vetoed THEN "refuse" ELSE "write", !.edit = {e}]
  <2>1. d \in RoomRecs /\ d.at \in {"refuse", "write"} /\ d.rev = room[r].rev /\ d.doc = room[r].doc
    <3>1. (IF vetoed THEN "refuse" ELSE "write") \in {"refuse", "write"}
      OBVIOUS
    <3> QED BY <1>1, <3>1 DEF RoomRecs, Busy
  <2>2. Becomes(r, d) /\ told' = told /\ denied' = denied
    BY <1>3 DEF StartBatch
  <2> HIDE DEF d
  <2>3. RoomKnows(d)
    BY <1>1, <2>1 DEF RoomKnows
  <2> QED BY <1>1, <2>1, <2>2, <2>3, QuietInv
<1> QED BY <1>2, <1>3

LEMMA HearCommitInv == ASSUME CollabInv, NEW r \in Rooms, HearCommit(r) PROVE CollabInv'
<1> DEFINE heard == [room[r] EXCEPT !.at = "ready", !.rev = @ + 1, !.edit = {}, !.wrote = TRUE, !.pending = ~room[r].lost]
           fresh == [heard EXCEPT !.doc = @ \cup room[r].edit, !.fresh = FALSE]
<1>1. room[r] \in RoomRecs /\ RoomKnows(room[r]) /\ room[r].at = "answer"
      /\ UNCHANGED <<document, saved, journal, receipt, revisions, versioned, deleter, denied, contentAt>>
  BY DEF CollabInv, RoomsKnow, HearCommit, InRoom, rowVars
<1>2. Copy(room[r].rev + 1, room[r].doc \cup room[r].edit) /\ room[r].rev + 1 \in Nat
  BY <1>1 DEF RoomKnows, RoomRecs
<1>3. room[r].doc \cup room[r].edit \in Contents /\ room[r].doc \cup room[r].edit \subseteq document.content
  BY <1>2, CopyIsIn DEF CollabInv
<1>4. heard \in RoomRecs /\ heard.at = "ready" /\ heard.rev = room[r].rev + 1 /\ heard.doc = room[r].doc /\ heard.closed = room[r].closed
  BY <1>1, <1>2 DEF RoomRecs
<1>5. CASE room[r].closed
  <2>1. Becomes(r, heard) /\ told' = told
    BY <1>5 DEF HearCommit
  <2> HIDE DEF heard
  <2>2. RoomKnows(heard)
    BY <1>4, <1>5 DEF RoomKnows
  <2> QED BY <1>1, <1>4, <2>1, <2>2, QuietInv
<1>6. CASE ~room[r].closed
  <2>1. Becomes(r, fresh) /\ told' = told \cup room[r].edit
    BY <1>6 DEF HearCommit
  <2>2. fresh \in RoomRecs /\ fresh.at = "ready" /\ fresh.rev = room[r].rev + 1 /\ fresh.doc = room[r].doc \cup room[r].edit
    <3> HIDE DEF heard
    <3>1. fresh = [heard EXCEPT !.doc = room[r].doc \cup room[r].edit, !.fresh = FALSE]
      BY <1>4
    <3> HIDE DEF fresh
    <3> QED BY <1>3, <1>4, <3>1 DEF RoomRecs
  <2> HIDE DEF fresh
  <2>3. RoomKnows(fresh)
    BY <1>2, <2>2 DEF RoomKnows
  <2>4. RoomsKnow'
    BY <1>1, <2>1, <2>2, <2>3, RoomMoves DEF CollabInv
  <2>5. ReceiptsKnown'
    BY <1>1, <1>3, <2>1 DEF CollabInv, ReceiptsKnown
  <2>6. HeadKnown' /\ SavedKnown' /\ RevisionsKnown' /\ DeleteKnown'
    BY <1>1 DEF CollabInv, HeadKnown, SavedKnown, RevisionsKnown, DeleteKnown, Copy, Contiguous, JournalAfter, Rebuilt
  <2> QED BY <2>4, <2>5, <2>6 DEF CollabInv
<1> QED BY <1>5, <1>6

LEMMA RefuseBatchInv == ASSUME CollabInv, NEW r \in Rooms, RefuseBatch(r) PROVE CollabInv'
<1> DEFINE edit == room[r].edit
           d == [room[r] EXCEPT !.at = "ready", !.edit = {}]
<1>1. /\ room[r] \in RoomRecs /\ RoomKnows(room[r]) /\ room[r].at = "refuse" /\ \A e \in edit : receipt[e] = "none"
      /\ receipt' = [e \in Edits |-> IF e \in edit THEN "rejected" ELSE receipt[e]]
      /\ denied' \in {denied, denied \cup {e \in edit : ~room[r].closed}} /\ Becomes(r, d)
      /\ UNCHANGED <<document, saved, journal, revisions, versioned, deleter, told, contentAt>>
  BY DEF CollabInv, RoomsKnow, RefuseBatch, InRoom
<1>2. edit \subseteq Edits /\ d \in RoomRecs /\ d.at = "ready" /\ d.rev = room[r].rev /\ d.doc = room[r].doc
  BY <1>1 DEF RoomRecs
<1> HIDE DEF edit, d
<1>3. RoomKnows(d)
  BY <1>1, <1>2 DEF RoomKnows
<1>4. RoomsKnow'
  BY <1>1, <1>2, <1>3, RoomMoves DEF CollabInv
<1>5. ReceiptsKnown'
  <2>1. receipt' \in [Edits -> {"none", "accepted", "rejected"}]
    BY <1>1 DEF CollabInv, ReceiptsKnown
  <2>2. \A e \in Edits : receipt'[e] = "accepted" <=> receipt[e] = "accepted"
    BY <1>1
  <2>3. denied' \subseteq Edits /\ \A e \in denied' : receipt'[e] = "rejected"
    BY <1>1, <1>2 DEF CollabInv, ReceiptsKnown
  <2> QED BY <1>1, <2>1, <2>2, <2>3 DEF CollabInv, ReceiptsKnown
<1>6. HeadKnown' /\ SavedKnown' /\ RevisionsKnown' /\ DeleteKnown'
  BY <1>1 DEF CollabInv, HeadKnown, SavedKnown, RevisionsKnown, DeleteKnown, Copy, Contiguous, JournalAfter, Rebuilt
<1> QED BY <1>4, <1>5, <1>6 DEF CollabInv

LEMMA AppendRevisionInv == ASSUME CollabInv, NEW r \in Rooms, AppendRevision(r) PROVE CollabInv'
<1> DEFINE d == [room[r] EXCEPT !.at = "flush", !.wrote = FALSE, !.row = NoRow]
<1>1. /\ room[r] \in RoomRecs /\ RoomKnows(room[r]) /\ room[r].at = "append" /\ Becomes(r, d)
      /\ revisions' = revisions \cup {x \in {room[r].row} : \A y \in revisions : y.rev # x.rev}
      /\ UNCHANGED <<document, saved, journal, receipt, versioned, deleter, told, denied, contentAt>>
  BY DEF CollabInv, RoomsKnow, AppendRevision, InRoom
<1>2. d \in RoomRecs /\ d.at = "flush"
  BY <1>1 DEF RoomRecs, NoRow, Contents
<1> HIDE DEF d
<1>3. RoomsKnow'
  BY <1>1, <1>2, NothingHeld, RoomMoves DEF CollabInv
<1>4. RevisionsKnown'
  <2>1. Copy(room[r].row.rev, room[r].row.content)
    BY <1>1 DEF RoomKnows
  <2>2. \A x \in revisions' : Copy(x.rev, x.content)
    BY <1>1, <2>1 DEF CollabInv, RevisionsKnown
  <2> QED BY <1>1, <2>2 DEF RevisionsKnown, Copy
<1>5. HeadKnown' /\ SavedKnown' /\ ReceiptsKnown' /\ DeleteKnown'
  BY <1>1 DEF CollabInv, HeadKnown, SavedKnown, ReceiptsKnown, DeleteKnown, Copy, Contiguous, JournalAfter, Rebuilt
<1> QED BY <1>3, <1>4, <1>5 DEF CollabInv

\* Neither the content nor a room changes.
LEMMA RestInv ==
    ASSUME CollabInv, UNCHANGED <<saved, journal, receipt, revisions, room, told, denied, contentAt>>,
           document' = document \/ document' = [document EXCEPT !.deleted = TRUE],
           deleter' # "idle" => document'.deleted, deleter' = "done" => ~versioned'
    PROVE  CollabInv'
<1>1. document'.rev = document.rev /\ document'.content = document.content
      /\ document' \in [rev : Nat \ {0}, content : Contents, deleted : BOOLEAN]
  BY DEF CollabInv, HeadKnown
<1>2. HeadKnown' /\ SavedKnown' /\ ReceiptsKnown' /\ RevisionsKnown'
  BY <1>1 DEF CollabInv, HeadKnown, SavedKnown, ReceiptsKnown, RevisionsKnown, Copy, Contiguous, JournalAfter, Rebuilt
<1>3. RoomsKnow'
  BY <1>1 DEF CollabInv, RoomsKnow, RoomKnows, Copy, Contiguous, JournalAfter, Rebuilt
<1> QED BY <1>2, <1>3 DEF CollabInv, DeleteKnown

LEMMA DeleteInv == ASSUME CollabInv, DeletePuts \/ DeleteVersions \/ DeleteStops \/ DeleteAgain PROVE CollabInv'
<1>1. CASE DeletePuts
  <2>1. document.deleted \in BOOLEAN /\ document' = [document EXCEPT !.deleted = TRUE]
    BY <1>1 DEF CollabInv, HeadKnown, DeletePuts
  <2>2. document'.deleted
    BY <2>1 DEF CollabInv, HeadKnown
  <2> QED BY <1>1, <2>1, <2>2, RestInv DEF DeletePuts
<1>2. CASE DeleteVersions
  BY <1>2, RestInv DEF DeleteVersions, CollabInv, DeleteKnown
<1>3. CASE DeleteStops
  BY <1>3, RestInv DEF DeleteStops, rowVars
<1>4. CASE DeleteAgain
  BY <1>4, RestInv DEF DeleteAgain, rowVars
<1> QED BY <1>1, <1>2, <1>3, <1>4

-----------------------------------------------------------------------------
(* The theorems.                                                           *)

LEMMA CollabStarts == CollabInit => CollabInv
<1> SUFFICES ASSUME CollabInit PROVE CollabInv
  OBVIOUS
<1>1. document = [rev |-> 1, content |-> {}, deleted |-> FALSE] /\ contentAt = [i \in {1} |-> {}] /\ 1..1 = {1}
  BY DEF CollabInit
<1>2. HeadKnown
  BY <1>1 DEF HeadKnown, Contents
<1>3. SavedKnown
  BY <1>1 DEF CollabInit, SavedKnown, NoCheckpoint, Contiguous, JournalAfter, Contents
<1>4. RoomsKnow
  BY NewRoomIsRoom, NothingHeld DEF CollabInit, RoomsKnow
<1> QED BY <1>1, <1>2, <1>3, <1>4 DEF CollabInit, CollabInv, ReceiptsKnown, RevisionsKnown, DeleteKnown

LEMMA CollabInductive == CollabInv /\ [CollabNext]_collabVars => CollabInv'
<1> SUFFICES ASSUME CollabInv, [CollabNext]_collabVars PROVE CollabInv'
  OBVIOUS
<1>1. CASE LeaseEnds
  BY <1>1, RestInv DEF LeaseEnds, CollabInv, DeleteKnown
<1>2. ASSUME NEW r \in Rooms, RoomNext(r) PROVE CollabInv'
  <2>1. CASE RenewRoom(r)
    BY <2>1, RestInv DEF RenewRoom, CollabInv, DeleteKnown
  <2>2. CASE LoseLease(r) \/ LateRenewal(r) \/ HearLateRenewal(r) \/ CloseRoom(r)
    BY <2>2, LeaseMovesInv
  <2>3. CASE OpenClaim(r) \/ OpenThrows(r) \/ AppendThrows(r) \/ ReleaseRoom(r) \/ RoomCrashes(r)
    BY <2>3, EndsInv
  <2>4. CASE OpenRow(r) \/ OpenCheckpoint(r) \/ OpenJournal(r)
    BY <2>4, OpensInv
  <2>5. CASE \E e \in Edits, vetoed \in BOOLEAN : StartBatch(r, e, vetoed)
    BY <2>5, StartBatchInv
  <2>6. CASE \E compact \in BOOLEAN : CommitBatch(r, compact)
    BY <2>6, CommitBatchInv
  <2>7. CASE HearCommit(r)
    BY <2>7, HearCommitInv
  <2>8. CASE RefuseBatch(r)
    BY <2>8, RefuseBatchInv
  <2>9. CASE BatchThrows(r) \/ AnswerLost(r) \/ ReadForRevision(r)
    BY <2>9, WritesInv
  <2>10. CASE ReadForVersion(r) \/ PutVersion(r) \/ VersionThrows(r)
    BY <2>10, VersionsInv
  <2>11. CASE AppendRevision(r)
    BY <2>11, AppendRevisionInv
  <2> QED BY <1>2, <2>1, <2>2, <2>3, <2>4, <2>5, <2>6, <2>7, <2>8, <2>9, <2>10, <2>11 DEF RoomNext
<1>3. ASSUME NEW s \in Savers, SaverReads(s) PROVE CollabInv'
  BY <1>3, RestInv DEF SaverReads, rowVars, CollabInv, DeleteKnown
<1>4. ASSUME NEW s \in Savers, SaverPuts(s) PROVE CollabInv'
  BY <1>4, SaverPutsInv
<1>5. CASE DeletePuts \/ DeleteVersions \/ DeleteStops \/ DeleteAgain
  BY <1>5, DeleteInv
<1>6. CASE UNCHANGED collabVars
  BY <1>6, RestInv DEF collabVars, rowVars, CollabInv, DeleteKnown
<1>7. CASE CollabNext
  BY <1>1, <1>2, <1>3, <1>4, <1>5, <1>7 DEF CollabNext
<1> QED BY <1>6, <1>7

\* In every reachable state the copies of the document that rooms, checkpoint,
\* journal and revisions hold are its content at the revision they name.
THEOREM CollabInvariant == CollabSpec => []CollabInv
BY CollabStarts, CollabInductive, PTL DEF CollabSpec

\* ToldIsStored for every instance: nobody loses an edit they were told was
\* stored, and nothing is stored that its sender was told was refused.
THEOREM NoEditLost == CollabSpec => []ToldIsStored
<1>1. CollabInv => ToldIsStored
  BY DEF CollabInv, ReceiptsKnown, ToldIsStored
<1> QED BY <1>1, CollabInvariant, PTL

\* RecordsAgree for every instance: whichever room opens the document next
\* restores what the last one wrote, and revisions are what they say.
THEOREM CopiesAgree == CollabSpec => []RecordsAgree
<1>1. CollabInv => RecordsAgree
  <2> SUFFICES ASSUME CollabInv PROVE RecordsAgree
    OBVIOUS
  <2>1. saved.head <= document.rev /\ Contiguous(saved) /\ document.rev # 0
    BY DEF CollabInv, SavedKnown, HeadKnown
  <2>2. saved.head = document.rev => Rebuilt(saved) = document.content
    BY <2>1, CopyIsIn DEF CollabInv, SavedKnown
  <2>3. \A x \in revisions : contentAt[x.rev] = x.content
    BY DEF CollabInv, RevisionsKnown, Copy
  <2> QED BY <2>1, <2>2, <2>3 DEF RecordsAgree, CheckpointRebuilds
<1> QED BY <1>1, CollabInvariant, PTL

\* VersionsGoWithDocument for every instance: no recorder that was slow, and no
\* repeated DELETE that stopped, leaves a version behind an answered DELETE.
THEOREM DeletedHasNoVersions == CollabSpec => []VersionsGoWithDocument
<1>1. CollabInv => VersionsGoWithDocument
  BY DEF CollabInv, DeleteKnown, VersionsGoWithDocument
<1> QED BY <1>1, CollabInvariant, PTL

-----------------------------------------------------------------------------
(* Types.                                                                  *)

\* No copy in a room is of a revision past the last.
RoomFits(d) ==
    /\ d.rev <= MaxRevision
    /\ d.chk.rev <= MaxRevision /\ d.chk.head <= MaxRevision
    /\ d.row.rev <= MaxRevision

\* What CollabInv leaves open of the types.
FitInv ==
    /\ document.rev <= MaxRevision
    /\ owned \in [by : Rooms \cup {NoRoom}, live : BOOLEAN]
    /\ journal \subseteq [rev : Revisions, edits : SUBSET Edits]
    /\ revisions \subseteq RowCopies /\ versioned \in BOOLEAN
    /\ saver \in [Savers -> [at : {"idle", "read", "done"}, rev : 0..MaxRevision]]
    /\ deleter \in {"idle", "marked", "done"}
    /\ mishaps \in 0..MaxMishaps
    /\ \A r \in Rooms : RoomFits(room[r])

LEMMA NothingFits == RoomFits(NewRoom)
  BY CollabAssumption DEF RoomFits, NewRoom, NoCheckpoint, NoRow

\* A step of a room leaves the others alone.
LEMMA RoomOfStep ==
    ASSUME NEW r \in Rooms, room \in [Rooms -> RoomRecs], RoomNext(r)
    PROVE  \A q \in Rooms : q # r => room'[q] = room[q]
  BY DEF RoomNext, Becomes, BatchOver, RenewRoom, LoseLease, LateRenewal, HearLateRenewal, OpenClaim, OpenRow, OpenCheckpoint, OpenJournal,
         OpenThrows, StartBatch, CommitBatch, HearCommit, RefuseBatch, BatchThrows, AnswerLost, ReadForVersion, PutVersion,
         VersionThrows, CloseRoom, ReadForRevision, AppendRevision, AppendThrows, ReleaseRoom, RoomCrashes

\* A step of a room takes its copies from the row, from the checkpoint or from what it has.
LEMMA RoomStepFits ==
    ASSUME CollabInv, FitInv, NEW r \in Rooms, RoomNext(r)
    PROVE  \A q \in Rooms : RoomFits(room'[q])
<1>1. /\ room \in [Rooms -> RoomRecs] /\ room[r] \in RoomRecs /\ RoomKnows(room[r]) /\ RoomFits(room[r])
      /\ document.rev \in Nat /\ document.rev <= MaxRevision
      /\ saved.rev \in Nat /\ saved.head \in Nat /\ saved.rev <= saved.head /\ saved.head <= document.rev
  BY DEF CollabInv, RoomsKnow, FitInv, HeadKnown, SavedKnown
<1>2. MaxRevision \in Nat \ {0}
  BY CollabAssumption
<1>3. \A q \in Rooms : q # r => room'[q] = room[q]
  BY <1>1, RoomOfStep
<1>4. SUFFICES RoomFits(room'[r])
  BY <1>1, <1>3 DEF FitInv
<1>5. ASSUME NEW d \in RoomRecs, NEW e, RoomFits(d), e.rev = d.rev, e.chk = d.chk, e.row = d.row PROVE RoomFits(e)
  BY <1>5 DEF RoomFits
<1>6. CASE LoseLease(r)
  <2>1. room'[r] = [room[r] EXCEPT !.closed = TRUE, !.lost = TRUE, !.pending = FALSE]
    BY <1>1, <1>6 DEF LoseLease, Becomes
  <2>2. room'[r].rev = room[r].rev /\ room'[r].chk = room[r].chk /\ room'[r].row = room[r].row
    BY <1>1, <2>1 DEF RoomRecs
  <2> QED BY <1>1, <1>5, <2>2
<1>7. CASE LateRenewal(r)
  <2>1. room'[r] = [room[r] EXCEPT !.renewal = "ok"] \/ room'[r] = [room[r] EXCEPT !.renewal = "no", !.lost = TRUE, !.pending = FALSE]
    BY <1>1, <1>7 DEF LateRenewal, Becomes
  <2>2. room'[r].rev = room[r].rev /\ room'[r].chk = room[r].chk /\ room'[r].row = room[r].row
    BY <1>1, <2>1 DEF RoomRecs
  <2> QED BY <1>1, <1>5, <2>2
<1>8. CASE HearLateRenewal(r)
  <2>1. room'[r] = [room[r] EXCEPT !.renewal = "no"]
    BY <1>1, <1>8 DEF HearLateRenewal, Becomes
  <2>2. room'[r].rev = room[r].rev /\ room'[r].chk = room[r].chk /\ room'[r].row = room[r].row
    BY <1>1, <2>1 DEF RoomRecs
  <2> QED BY <1>1, <1>5, <2>2
<1>9. CASE CloseRoom(r)
  <2>1. room'[r] = [room[r] EXCEPT !.closed = TRUE, !.closing = TRUE] \/ room'[r] = [room[r] EXCEPT !.closed = TRUE, !.closing = TRUE, !.renewal = "sent"]
    BY <1>1, <1>9 DEF CloseRoom, Becomes
  <2>2. room'[r].rev = room[r].rev /\ room'[r].chk = room[r].chk /\ room'[r].row = room[r].row
    BY <1>1, <2>1 DEF RoomRecs
  <2> QED BY <1>1, <1>5, <2>2
<1>10. CASE ReadForVersion(r)
  <2>1. room'[r] = [room[r] EXCEPT !.pending = FALSE, !.writing = ~document.deleted]
    BY <1>1, <1>10 DEF ReadForVersion, Becomes
  <2>2. room'[r].rev = room[r].rev /\ room'[r].chk = room[r].chk /\ room'[r].row = room[r].row
    BY <1>1, <2>1 DEF RoomRecs
  <2> QED BY <1>1, <1>5, <2>2
<1>11. CASE PutVersion(r)
  <2>1. room'[r] = [room[r] EXCEPT !.writing = FALSE]
    BY <1>1, <1>11 DEF PutVersion, Becomes
  <2>2. room'[r].rev = room[r].rev /\ room'[r].chk = room[r].chk /\ room'[r].row = room[r].row
    BY <1>1, <2>1 DEF RoomRecs
  <2> QED BY <1>1, <1>5, <2>2
<1>12. CASE VersionThrows(r)
  <2>1. room'[r] = [room[r] EXCEPT !.writing = FALSE, !.pending = ~room[r].lost /\ ~InRoom(r, "flush")]
    BY <1>1, <1>12 DEF VersionThrows, Becomes
  <2>2. room'[r].rev = room[r].rev /\ room'[r].chk = room[r].chk /\ room'[r].row = room[r].row
    BY <1>1, <2>1 DEF RoomRecs
  <2> QED BY <1>1, <1>5, <2>2
<1>13. CASE BatchThrows(r)
  <2>1. room'[r] = [room[r] EXCEPT !.at = "ready", !.edit = {}]
    BY <1>1, <1>13 DEF BatchThrows, Becomes, BatchOver
  <2>2. room'[r].rev = room[r].rev /\ room'[r].chk = room[r].chk /\ room'[r].row = room[r].row
    BY <1>1, <2>1 DEF RoomRecs
  <2> QED BY <1>1, <1>5, <2>2
<1>14. CASE AnswerLost(r)
  <2>1. room'[r] = [room[r] EXCEPT !.at = "ready", !.edit = {}]
    BY <1>1, <1>14 DEF AnswerLost, Becomes, BatchOver
  <2>2. room'[r].rev = room[r].rev /\ room'[r].chk = room[r].chk /\ room'[r].row = room[r].row
    BY <1>1, <2>1 DEF RoomRecs
  <2> QED BY <1>1, <1>5, <2>2
<1>15. CASE RefuseBatch(r)
  <2>1. room'[r] = [room[r] EXCEPT !.at = "ready", !.edit = {}]
    BY <1>1, <1>15 DEF RefuseBatch, Becomes, BatchOver
  <2>2. room'[r].rev = room[r].rev /\ room'[r].chk = room[r].chk /\ room'[r].row = room[r].row
    BY <1>1, <2>1 DEF RoomRecs
  <2> QED BY <1>1, <1>5, <2>2
<1>16. CASE OpenClaim(r) \/ OpenThrows(r) \/ RoomCrashes(r) \/ ReleaseRoom(r) \/ AppendThrows(r)
  <2>1. \/ \E at : room'[r] = [NewRoom EXCEPT !.at = at]
        \/ room'[r] = Gone(r)
        \/ room'[r] = [Gone(r) EXCEPT !.pending = room[r].pending, !.writing = room[r].writing]
    BY <1>1, <1>16 DEF OpenClaim, OpenThrows, RoomCrashes, ReleaseRoom, AppendThrows, Becomes
  <2>2. room'[r].rev = 0 /\ room'[r].chk = NoCheckpoint /\ room'[r].row = NoRow
    BY <2>1 DEF Gone, NewRoom
  <2> QED BY <1>2, <2>2 DEF RoomFits, NoCheckpoint, NoRow
<1>17. CASE OpenRow(r)
  <2>1. room'[r] = [room[r] EXCEPT !.at = "row", !.rev = document.rev, !.doc = document.content]
    BY <1>1, <1>17 DEF OpenRow, Becomes
  <2>2. room'[r].rev = document.rev /\ room'[r].chk = room[r].chk /\ room'[r].row = room[r].row
    BY <1>1, <2>1 DEF RoomRecs
  <2> QED BY <1>1, <1>2, <2>2 DEF RoomFits, Row, NoRow, NoCheckpoint
<1>18. CASE OpenCheckpoint(r)
  <2>1. room'[r] = [room[r] EXCEPT !.at = "journal", !.chk = saved] \/ room'[r] = [room[r] EXCEPT !.at = "ready"]
    BY <1>1, <1>18 DEF OpenCheckpoint, Becomes
  <2>2. room'[r].rev = room[r].rev /\ room'[r].chk \in {saved, room[r].chk} /\ room'[r].row = room[r].row
    BY <1>1, <2>1 DEF RoomRecs
  <2> QED BY <1>1, <1>2, <2>2 DEF RoomFits, Row, NoRow, NoCheckpoint
<1>19. CASE OpenJournal(r)
  <2>1. room'[r] = [room[r] EXCEPT !.at = "ready", !.doc = Rebuilt(room[r].chk), !.fresh = FALSE, !.chk = NoCheckpoint]
    BY <1>1, <1>19 DEF OpenJournal, Becomes
  <2>2. room'[r].rev = room[r].rev /\ room'[r].chk = NoCheckpoint /\ room'[r].row = room[r].row
    BY <1>1, <2>1 DEF RoomRecs
  <2> QED BY <1>1, <1>2, <2>2 DEF RoomFits, Row, NoRow, NoCheckpoint
<1>20. CASE HearCommit(r)
  <2>1. room'[r] = [room[r] EXCEPT !.at = "ready", !.rev = @ + 1, !.edit = {}, !.wrote = TRUE, !.pending = ~room[r].lost] \/ room'[r] = [room[r] EXCEPT !.at = "ready", !.rev = @ + 1, !.edit = {}, !.wrote = TRUE, !.pending = ~room[r].lost, !.doc = @ \cup room[r].edit, !.fresh = FALSE]
    BY <1>1, <1>20 DEF HearCommit, Becomes
  <2>2. room'[r].rev = room[r].rev + 1 /\ room'[r].chk = room[r].chk /\ room'[r].row = room[r].row
    BY <1>1, <2>1 DEF RoomRecs
  <2>3. room[r].rev + 1 <= MaxRevision
    BY <1>1, <1>2, <1>20 DEF HearCommit, InRoom, RoomKnows, Copy
  <2> QED BY <1>1, <1>2, <2>2, <2>3 DEF RoomFits, Row, NoRow, NoCheckpoint
<1>21. CASE ReadForRevision(r)
  <2>1. room'[r] = [room[r] EXCEPT !.at = "append", !.row = Row] \/ room'[r] = [room[r] EXCEPT !.at = "flush"]
    BY <1>1, <1>21 DEF ReadForRevision, Becomes, RowRead
  <2>2. room'[r].rev = room[r].rev /\ room'[r].chk = room[r].chk /\ room'[r].row \in {Row, room[r].row}
    BY <1>1, <2>1 DEF RoomRecs
  <2> QED BY <1>1, <1>2, <2>2 DEF RoomFits, Row, NoRow, NoCheckpoint
<1>22. CASE AppendRevision(r)
  <2>1. room'[r] = [room[r] EXCEPT !.at = "flush", !.wrote = FALSE, !.row = NoRow]
    BY <1>1, <1>22 DEF AppendRevision, Becomes
  <2>2. room'[r].rev = room[r].rev /\ room'[r].chk = room[r].chk /\ room'[r].row = NoRow
    BY <1>1, <2>1 DEF RoomRecs
  <2> QED BY <1>1, <1>2, <2>2 DEF RoomFits, Row, NoRow, NoCheckpoint
<1>23. ASSUME NEW compact \in BOOLEAN, CommitBatch(r, compact) PROVE RoomFits(room'[r])
  <2>1. room'[r] = [room[r] EXCEPT !.at = "answer"]
    BY <1>1, <1>23 DEF CommitBatch, Becomes
  <2>2. room'[r].rev = room[r].rev /\ room'[r].chk = room[r].chk /\ room'[r].row = room[r].row
    BY <1>1, <2>1 DEF RoomRecs
  <2> QED BY <1>1, <1>5, <2>2
<1>24. ASSUME NEW e \in Edits, NEW vetoed \in BOOLEAN, StartBatch(r, e, vetoed) PROVE RoomFits(room'[r])
  <2>1. room'[r] = room[r] \/ \E at : room'[r] = [room[r] EXCEPT !.at = at, !.edit = {e}]
    BY <1>1, <1>24 DEF StartBatch, Becomes
  <2>2. room'[r].rev = room[r].rev /\ room'[r].chk = room[r].chk /\ room'[r].row = room[r].row
    BY <1>1, <2>1 DEF RoomRecs
  <2> QED BY <1>1, <1>5, <2>2
<1>25. CASE RenewRoom(r)
  BY <1>1, <1>25 DEF RenewRoom
<1> QED BY <1>6, <1>7, <1>8, <1>9, <1>10, <1>11, <1>12, <1>13, <1>14, <1>15, <1>16, <1>17, <1>18, <1>19, <1>20, <1>21, <1>22, <1>23, <1>24, <1>25 DEF RoomNext

\* A step of a room leaves the rest of the state well formed.
LEMMA RoomStepTypes ==
    ASSUME CollabInv, CollabInv', FitInv, NEW r \in Rooms, RoomNext(r)
    PROVE  FitInv'
<1> USE DEF FitInv
<1>1. /\ room \in [Rooms -> RoomRecs] /\ room[r] \in RoomRecs /\ RoomFits(room[r]) /\ RoomKnows(room[r])
      /\ document \in [rev : Nat \ {0}, content : Contents, deleted : BOOLEAN]
      /\ contentAt \in [1..document.rev -> Contents] /\ MaxRevision \in Nat \ {0} /\ MaxMishaps \in Nat
  BY CollabAssumption DEF CollabInv, RoomsKnow, HeadKnown
<1>2. UNCHANGED saver /\ UNCHANGED deleter
  BY DEF RoomNext, RenewRoom, LoseLease, LateRenewal, HearLateRenewal, OpenClaim, OpenRow, OpenCheckpoint, OpenJournal,
         OpenThrows, StartBatch, CommitBatch, HearCommit, RefuseBatch, BatchThrows, AnswerLost, ReadForVersion, PutVersion,
         VersionThrows, CloseRoom, ReadForRevision, AppendRevision, AppendThrows, ReleaseRoom, RoomCrashes
<1>3. mishaps' \in 0..MaxMishaps
  <2>1. UNCHANGED mishaps \/ Mishap
    BY DEF RoomNext, RenewRoom, LoseLease, LateRenewal, HearLateRenewal, OpenClaim, OpenRow, OpenCheckpoint, OpenJournal,
         OpenThrows, StartBatch, CommitBatch, HearCommit, RefuseBatch, BatchThrows, AnswerLost, ReadForVersion, PutVersion,
         VersionThrows, CloseRoom, ReadForRevision, AppendRevision, AppendThrows, ReleaseRoom, RoomCrashes
  <2>2. mishaps \in 0..MaxMishaps /\ MaxMishaps \in Nat
    BY <1>1
  <2>3. (mishaps < MaxMishaps /\ mishaps' = mishaps + 1) \/ mishaps' = mishaps
    BY <2>1 DEF Mishap
  <2> HIDE DEF FitInv
  <2> QED BY <2>2, <2>3
<1>4. owned' \in [by : Rooms \cup {NoRoom}, live : BOOLEAN]
  <2>1. owned' = owned \/ Taken(r) \/ Released(r)
    BY DEF RoomNext, RenewRoom, LoseLease, LateRenewal, HearLateRenewal, OpenClaim, OpenRow, OpenCheckpoint, OpenJournal,
         OpenThrows, StartBatch, CommitBatch, HearCommit, RefuseBatch, BatchThrows, AnswerLost, ReadForVersion, PutVersion,
         VersionThrows, CloseRoom, ReadForRevision, AppendRevision, AppendThrows, ReleaseRoom, RoomCrashes, rowVars
  <2>2. owned \in [by : Rooms \cup {NoRoom}, live : BOOLEAN]
    OBVIOUS
  <2> HIDE DEF FitInv
  <2>3. CASE Taken(r)
    <3>1. owned' = [by |-> r, live |-> TRUE]
      BY <2>3 DEF Taken
    <3> QED BY <3>1
  <2>4. CASE Released(r)
    <3>1. owned' = [by |-> NoRoom, live |-> FALSE] \/ owned' = owned
      BY <2>4 DEF Released
    <3>2. [by |-> NoRoom, live |-> FALSE] \in [by : Rooms \cup {NoRoom}, live : BOOLEAN]
      OBVIOUS
    <3>3. CASE owned' = owned
      BY <2>2, <3>3
    <3>4. CASE owned' = [by |-> NoRoom, live |-> FALSE]
      BY <3>2, <3>4
    <3> QED BY <3>1, <3>3, <3>4
  <2> QED BY <2>1, <2>2, <2>3, <2>4
<1>5. versioned' \in BOOLEAN
  BY DEF RoomNext, RenewRoom, LoseLease, LateRenewal, HearLateRenewal, OpenClaim, OpenRow, OpenCheckpoint, OpenJournal,
         OpenThrows, StartBatch, CommitBatch, HearCommit, RefuseBatch, BatchThrows, AnswerLost, ReadForVersion, PutVersion,
         VersionThrows, CloseRoom, ReadForRevision, AppendRevision, AppendThrows, ReleaseRoom, RoomCrashes, rowVars
<1>6. ASSUME \A compact \in BOOLEAN : ~CommitBatch(r, compact) PROVE UNCHANGED <<document, journal>>
  BY <1>6 DEF RoomNext, RenewRoom, LoseLease, LateRenewal, HearLateRenewal, OpenClaim, OpenRow, OpenCheckpoint, OpenJournal,
         OpenThrows, StartBatch, HearCommit, RefuseBatch, BatchThrows, AnswerLost, ReadForVersion, PutVersion,
         VersionThrows, CloseRoom, ReadForRevision, AppendRevision, AppendThrows, ReleaseRoom, RoomCrashes, rowVars
<1>7. ASSUME NEW compact \in BOOLEAN, CommitBatch(r, compact)
      PROVE  document'.rev <= MaxRevision /\ journal' \subseteq [rev : Revisions, edits : SUBSET Edits]
  <2>1. document.rev < MaxRevision /\ document'.rev = document.rev + 1
    BY <1>1, <1>7 DEF CommitBatch, Advance
  <2>2. document'.rev \in Revisions /\ room[r].edit \in SUBSET Edits
    BY <1>1, <2>1 DEF Revisions, RoomRecs
  <2>3. \/ journal' \subseteq journal
        \/ journal' = journal \cup {[rev |-> document'.rev, edits |-> room[r].edit]}
    BY <1>7 DEF CommitBatch
  <2> QED BY <1>1, <2>1, <2>2, <2>3
<1>8. revisions' \subseteq RowCopies
  <2>1. CASE ~AppendRevision(r)
    <3>1. revisions' = revisions
      BY <2>1 DEF RoomNext, RenewRoom, LoseLease, LateRenewal, HearLateRenewal, OpenClaim, OpenRow, OpenCheckpoint, OpenJournal,
         OpenThrows, StartBatch, CommitBatch, HearCommit, RefuseBatch, BatchThrows, AnswerLost, ReadForVersion, PutVersion,
         VersionThrows, CloseRoom, ReadForRevision, AppendThrows, ReleaseRoom, RoomCrashes, rowVars
    <3> QED BY <3>1
  <2>2. CASE AppendRevision(r)
    <3>1. revisions' \subseteq revisions \cup {room[r].row}
      BY <2>2 DEF AppendRevision
    <3>2. room[r].row \in RowCopies
      BY <1>1 DEF RoomRecs, RoomFits, RowCopies
    <3> QED BY <3>1, <3>2
  <2> QED BY <2>1, <2>2
<1>9. \A q \in Rooms : RoomFits(room'[q])
  BY RoomStepFits
<1> QED BY <1>2, <1>3, <1>4, <1>5, <1>6, <1>7, <1>8, <1>9

\* So does any other.
LEMMA FitStep == CollabInv /\ CollabInv' /\ FitInv /\ [CollabNext]_collabVars => FitInv'
<1> SUFFICES ASSUME CollabInv, CollabInv', FitInv, [CollabNext]_collabVars PROVE FitInv'
  OBVIOUS
<1>1. /\ document \in [rev : Nat \ {0}, content : Contents, deleted : BOOLEAN] /\ MaxRevision \in Nat \ {0} /\ MaxMishaps \in Nat
      /\ document.rev <= MaxRevision /\ contentAt \in [1..document.rev -> Contents]
  BY CollabAssumption DEF CollabInv, HeadKnown, FitInv
<1>2. CASE LeaseEnds
  <2>1. owned' = [owned EXCEPT !.live = FALSE] /\ owned \in [by : Rooms \cup {NoRoom}, live : BOOLEAN]
    BY <1>2 DEF LeaseEnds, FitInv
  <2>2. owned' \in [by : Rooms \cup {NoRoom}, live : BOOLEAN]
    BY <2>1
  <2>3. mishaps' = mishaps \/ (mishaps < MaxMishaps /\ mishaps' = mishaps + 1)
    BY <1>2 DEF LeaseEnds, Mishap
  <2>4. mishaps \in 0..MaxMishaps
    BY DEF FitInv
  <2>5. mishaps' \in 0..MaxMishaps
    BY <1>1, <2>3, <2>4
  <2>6. UNCHANGED <<document, journal, revisions, versioned, room, saver, deleter>>
    BY <1>2 DEF LeaseEnds
  <2> QED BY <2>2, <2>5, <2>6 DEF FitInv
<1>3. ASSUME NEW r \in Rooms, RoomNext(r) PROVE FitInv'
  BY <1>3, RoomStepTypes
<1>4. ASSUME NEW s \in Savers, SaverReads(s) PROVE FitInv'
  BY <1>1, <1>4 DEF SaverReads, FitInv, rowVars
<1>5. ASSUME NEW s \in Savers, SaverPuts(s) PROVE FitInv'
  <2>1. document.rev < MaxRevision /\ document'.rev = document.rev + 1 /\ document'.content = contentAt[document.rev] \cup {s}
    BY <1>1, <1>5 DEF SaverPuts, Advance
  <2>2. [rev |-> document'.rev, content |-> document'.content] \in RowCopies
    BY <1>1, <2>1 DEF RowCopies, Contents
  <2>3. revisions' \subseteq RowCopies
    BY <1>5, <2>2 DEF SaverPuts, FitInv
  <2> QED BY <1>1, <1>5, <2>1, <2>3 DEF SaverPuts, FitInv
<1>6. CASE DeletePuts \/ DeleteVersions \/ DeleteStops \/ DeleteAgain
  <2>1. document' = document \/ document' = [document EXCEPT !.deleted = TRUE]
    BY <1>6 DEF DeletePuts, DeleteVersions, DeleteStops, DeleteAgain, rowVars
  <2>2. document'.rev = document.rev
    BY <1>1, <2>1
  <2>3. mishaps' = mishaps \/ (mishaps < MaxMishaps /\ mishaps' = mishaps + 1)
    BY <1>6 DEF DeletePuts, DeleteVersions, DeleteStops, DeleteAgain, Mishap
  <2>4. mishaps \in 0..MaxMishaps
    BY DEF FitInv
  <2>5. mishaps' \in 0..MaxMishaps
    BY <1>1, <2>3, <2>4
  <2>6. /\ UNCHANGED <<owned, journal, revisions, room, saver>> /\ deleter' \in {"idle", "marked", "done"}
        /\ versioned' = versioned \/ versioned' = FALSE
    BY <1>6 DEF DeletePuts, DeleteVersions, DeleteStops, DeleteAgain, rowVars
  <2> QED BY <1>1, <2>2, <2>5, <2>6 DEF FitInv
<1>7. CASE UNCHANGED collabVars
  BY <1>7 DEF collabVars, rowVars, FitInv
<1>8. CASE CollabNext
  BY <1>2, <1>3, <1>4, <1>5, <1>6, <1>8 DEF CollabNext
<1> QED BY <1>7, <1>8

LEMMA FitStarts == CollabInit => FitInv
<1> SUFFICES ASSUME CollabInit PROVE FitInv
  OBVIOUS
<1>1. MaxRevision \in Nat \ {0} /\ MaxMishaps \in Nat
  BY CollabAssumption
<1>2. document.rev = 1 /\ journal = {} /\ revisions = {} /\ versioned = FALSE /\ deleter = "idle" /\ mishaps = 0
  BY DEF CollabInit
<1>3. owned \in [by : Rooms \cup {NoRoom}, live : BOOLEAN]
  BY DEF CollabInit
<1>4. saver \in [Savers -> [at : {"idle", "read", "done"}, rev : 0..MaxRevision]]
  <2>1. 0 \in 0..MaxRevision
    BY <1>1
  <2>2. saver = [s \in Savers |-> [at |-> "idle", rev |-> 0]]
    BY DEF CollabInit
  <2> QED BY <2>1, <2>2
<1>5. \A r \in Rooms : RoomFits(room[r])
  BY NothingFits DEF CollabInit
<1>6. document.rev <= MaxRevision /\ mishaps \in 0..MaxMishaps
  BY <1>1, <1>2
<1> QED BY <1>2, <1>3, <1>4, <1>5, <1>6 DEF FitInv

\* The state stays well formed, and every copy of the document is of a revision it has had.
THEOREM CollabTypes == CollabSpec => []CollabTypeOK
<1>1. CollabInv /\ FitInv => CollabTypeOK
  <2> SUFFICES ASSUME CollabInv, FitInv PROVE CollabTypeOK
    OBVIOUS
  <2>1. /\ document.rev \in Nat \ {0} /\ document.rev <= MaxRevision /\ MaxRevision \in Nat
        /\ document \in [rev : Nat \ {0}, content : Contents, deleted : BOOLEAN]
    BY CollabAssumption DEF CollabInv, HeadKnown, FitInv
  <2>2. document \in [rev : Revisions, content : Contents, deleted : BOOLEAN]
    BY <2>1 DEF Revisions
  <2>3. saved \in Checkpoints
    BY <2>1 DEF CollabInv, SavedKnown, Checkpoints
  <2>4. ASSUME NEW r \in Rooms
        PROVE  room[r] \in [at : {"none", "ready", "append", "flush", "gone"} \cup Opening \cup Busy,
                            rev : 0..MaxRevision, doc : Contents, fresh : BOOLEAN, chk : Checkpoints, edit : SUBSET Edits,
                            closed : BOOLEAN, closing : BOOLEAN, lost : BOOLEAN, wrote : BOOLEAN, row : RowCopies,
                            pending : BOOLEAN, writing : BOOLEAN, renewal : {"no", "sent", "ok"}]
    <3>1. room[r] \in RoomRecs /\ RoomFits(room[r])
      BY DEF CollabInv, RoomsKnow, FitInv
    <3>2. room[r].rev \in 0..MaxRevision /\ room[r].chk \in Checkpoints /\ room[r].row \in RowCopies
      BY <2>1, <3>1 DEF RoomRecs, RoomFits, Checkpoints, RowCopies
    <3> QED BY <3>1, <3>2 DEF RoomRecs
  <2>5. contentAt \in [1..Cardinality(DOMAIN contentAt) -> Contents]
    <3>1. contentAt \in [1..document.rev -> Contents]
      BY DEF CollabInv, HeadKnown
    <3>2. 1 \in Int /\ document.rev \in Int
      BY <2>1
    <3>3. Cardinality(1..document.rev) = IF 1 > document.rev THEN 0 ELSE document.rev - 1 + 1
      BY <3>2, FS_Interval, Zenon
    <3>4. Cardinality(1..document.rev) = document.rev
      BY <2>1, <3>3
    <3> QED BY <3>1, <3>4
  <2>6. told \in Contents /\ denied \subseteq Edits /\ receipt \in [Edits -> {"none", "accepted", "rejected"}]
    BY <2>1 DEF CollabInv, ReceiptsKnown, Contents
  <2> QED BY <2>2, <2>3, <2>4, <2>5, <2>6 DEF CollabTypeOK, FitInv, CollabInv, RoomsKnow
<1>2. CollabSpec => []FitInv
  BY FitStarts, FitStep, CollabInvariant, PTL DEF CollabSpec
<1> QED BY <1>1, <1>2, CollabInvariant, PTL

-----------------------------------------------------------------------------
(* The document as its editors see it.                                     *)

\* A room that writes or refuses has one edit at hand.
OneEdit(d) == d.at \in Busy => \E e \in Edits : d.edit = {e}

\* A save is in only once its PUT was handled.
Editing ==
    /\ \A r \in Rooms : OneEdit(room[r])
    /\ saver \in [Savers -> [at : {"idle", "read", "done"}, rev : Nat]]
    /\ \A s \in Savers : s \in document.content => saver[s].at = "done"

LEMMA RoomStepEdits ==
    ASSUME NEW r \in Rooms, room \in [Rooms -> RoomRecs], OneEdit(room[r]), RoomNext(r)
    PROVE  OneEdit(room'[r])
<1>1. room[r] \in RoomRecs /\ (\A d : Becomes(r, d) => room'[r] = d)
  BY DEF Becomes
<1>2. ASSUME NEW d, Becomes(r, d), d.at = room[r].at, d.edit = room[r].edit PROVE OneEdit(room'[r])
  BY <1>1, <1>2 DEF OneEdit
<1>3. ASSUME NEW d, Becomes(r, d), d.at \notin Busy PROVE OneEdit(room'[r])
  BY <1>1, <1>3 DEF OneEdit
<1>4. CASE LoseLease(r)
  <2>1. ASSUME Becomes(r, [room[r] EXCEPT !.closed = TRUE, !.lost = TRUE, !.pending = FALSE]) PROVE OneEdit(room'[r])
    <3> DEFINE d == [room[r] EXCEPT !.closed = TRUE, !.lost = TRUE, !.pending = FALSE]
    <3>1. d.at = room[r].at /\ d.edit = room[r].edit
      BY <1>1 DEF RoomRecs, NewRoom, Gone
    <3> HIDE DEF d
    <3>2. Becomes(r, d)
      BY <2>1 DEF d
    <3> QED BY <1>2, <3>1, <3>2
  <2> QED BY <1>4, <2>1 DEF LoseLease
<1>5. CASE LateRenewal(r)
  <2>1. ASSUME Becomes(r, [room[r] EXCEPT !.renewal = "ok"]) PROVE OneEdit(room'[r])
    <3> DEFINE d == [room[r] EXCEPT !.renewal = "ok"]
    <3>1. d.at = room[r].at /\ d.edit = room[r].edit
      BY <1>1 DEF RoomRecs, NewRoom, Gone
    <3> HIDE DEF d
    <3>2. Becomes(r, d)
      BY <2>1 DEF d
    <3> QED BY <1>2, <3>1, <3>2
  <2>2. ASSUME Becomes(r, [room[r] EXCEPT !.renewal = "no", !.lost = TRUE, !.pending = FALSE]) PROVE OneEdit(room'[r])
    <3> DEFINE d == [room[r] EXCEPT !.renewal = "no", !.lost = TRUE, !.pending = FALSE]
    <3>1. d.at = room[r].at /\ d.edit = room[r].edit
      BY <1>1 DEF RoomRecs, NewRoom, Gone
    <3> HIDE DEF d
    <3>2. Becomes(r, d)
      BY <2>2 DEF d
    <3> QED BY <1>2, <3>1, <3>2
  <2> QED BY <1>5, <2>1, <2>2 DEF LateRenewal
<1>6. CASE HearLateRenewal(r)
  <2>1. ASSUME Becomes(r, [room[r] EXCEPT !.renewal = "no"]) PROVE OneEdit(room'[r])
    <3> DEFINE d == [room[r] EXCEPT !.renewal = "no"]
    <3>1. d.at = room[r].at /\ d.edit = room[r].edit
      BY <1>1 DEF RoomRecs, NewRoom, Gone
    <3> HIDE DEF d
    <3>2. Becomes(r, d)
      BY <2>1 DEF d
    <3> QED BY <1>2, <3>1, <3>2
  <2> QED BY <1>6, <2>1 DEF HearLateRenewal
<1>7. CASE CloseRoom(r)
  <2>1. ASSUME Becomes(r, [room[r] EXCEPT !.closed = TRUE, !.closing = TRUE]) PROVE OneEdit(room'[r])
    <3> DEFINE d == [room[r] EXCEPT !.closed = TRUE, !.closing = TRUE]
    <3>1. d.at = room[r].at /\ d.edit = room[r].edit
      BY <1>1 DEF RoomRecs, NewRoom, Gone
    <3> HIDE DEF d
    <3>2. Becomes(r, d)
      BY <2>1 DEF d
    <3> QED BY <1>2, <3>1, <3>2
  <2>2. ASSUME Becomes(r, [room[r] EXCEPT !.closed = TRUE, !.closing = TRUE, !.renewal = "sent"]) PROVE OneEdit(room'[r])
    <3> DEFINE d == [room[r] EXCEPT !.closed = TRUE, !.closing = TRUE, !.renewal = "sent"]
    <3>1. d.at = room[r].at /\ d.edit = room[r].edit
      BY <1>1 DEF RoomRecs, NewRoom, Gone
    <3> HIDE DEF d
    <3>2. Becomes(r, d)
      BY <2>2 DEF d
    <3> QED BY <1>2, <3>1, <3>2
  <2> QED BY <1>7, <2>1, <2>2 DEF CloseRoom
<1>8. CASE ReadForVersion(r)
  <2>1. ASSUME Becomes(r, [room[r] EXCEPT !.pending = FALSE, !.writing = ~document.deleted]) PROVE OneEdit(room'[r])
    <3> DEFINE d == [room[r] EXCEPT !.pending = FALSE, !.writing = ~document.deleted]
    <3>1. d.at = room[r].at /\ d.edit = room[r].edit
      BY <1>1 DEF RoomRecs, NewRoom, Gone
    <3> HIDE DEF d
    <3>2. Becomes(r, d)
      BY <2>1 DEF d
    <3> QED BY <1>2, <3>1, <3>2
  <2> QED BY <1>8, <2>1 DEF ReadForVersion
<1>9. CASE PutVersion(r)
  <2>1. ASSUME Becomes(r, [room[r] EXCEPT !.writing = FALSE]) PROVE OneEdit(room'[r])
    <3> DEFINE d == [room[r] EXCEPT !.writing = FALSE]
    <3>1. d.at = room[r].at /\ d.edit = room[r].edit
      BY <1>1 DEF RoomRecs, NewRoom, Gone
    <3> HIDE DEF d
    <3>2. Becomes(r, d)
      BY <2>1 DEF d
    <3> QED BY <1>2, <3>1, <3>2
  <2> QED BY <1>9, <2>1 DEF PutVersion
<1>10. CASE VersionThrows(r)
  <2>1. ASSUME Becomes(r, [room[r] EXCEPT !.writing = FALSE, !.pending = ~room[r].lost /\ ~InRoom(r, "flush")]) PROVE OneEdit(room'[r])
    <3> DEFINE d == [room[r] EXCEPT !.writing = FALSE, !.pending = ~room[r].lost /\ ~InRoom(r, "flush")]
    <3>1. d.at = room[r].at /\ d.edit = room[r].edit
      BY <1>1 DEF RoomRecs, NewRoom, Gone
    <3> HIDE DEF d
    <3>2. Becomes(r, d)
      BY <2>1 DEF d
    <3> QED BY <1>2, <3>1, <3>2
  <2> QED BY <1>10, <2>1 DEF VersionThrows
<1>11. CASE OpenRow(r)
  <2>1. ASSUME Becomes(r, [room[r] EXCEPT !.at = "row", !.rev = document.rev, !.doc = document.content]) PROVE OneEdit(room'[r])
    <3> DEFINE d == [room[r] EXCEPT !.at = "row", !.rev = document.rev, !.doc = document.content]
    <3>1. d.at = "row"
      BY <1>1 DEF RoomRecs, NewRoom, Gone
    <3> HIDE DEF d
    <3>2. Becomes(r, d)
      BY <2>1 DEF d
    <3> QED BY <1>3, <3>1, <3>2 DEF Busy
  <2> QED BY <1>11, <2>1 DEF OpenRow
<1>12. CASE OpenCheckpoint(r)
  <2>1. ASSUME Becomes(r, [room[r] EXCEPT !.at = "journal", !.chk = saved]) PROVE OneEdit(room'[r])
    <3> DEFINE d == [room[r] EXCEPT !.at = "journal", !.chk = saved]
    <3>1. d.at = "journal"
      BY <1>1 DEF RoomRecs, NewRoom, Gone
    <3> HIDE DEF d
    <3>2. Becomes(r, d)
      BY <2>1 DEF d
    <3> QED BY <1>3, <3>1, <3>2 DEF Busy
  <2>2. ASSUME Becomes(r, [room[r] EXCEPT !.at = "ready"]) PROVE OneEdit(room'[r])
    <3> DEFINE d == [room[r] EXCEPT !.at = "ready"]
    <3>1. d.at = "ready"
      BY <1>1 DEF RoomRecs, NewRoom, Gone
    <3> HIDE DEF d
    <3>2. Becomes(r, d)
      BY <2>2 DEF d
    <3> QED BY <1>3, <3>1, <3>2 DEF Busy
  <2> QED BY <1>12, <2>1, <2>2 DEF OpenCheckpoint
<1>13. CASE OpenJournal(r)
  <2>1. ASSUME Becomes(r, [room[r] EXCEPT !.at = "ready", !.doc = Rebuilt(room[r].chk), !.fresh = FALSE, !.chk = NoCheckpoint]) PROVE OneEdit(room'[r])
    <3> DEFINE d == [room[r] EXCEPT !.at = "ready", !.doc = Rebuilt(room[r].chk), !.fresh = FALSE, !.chk = NoCheckpoint]
    <3>1. d.at = "ready"
      BY <1>1 DEF RoomRecs, NewRoom, Gone
    <3> HIDE DEF d
    <3>2. Becomes(r, d)
      BY <2>1 DEF d
    <3> QED BY <1>3, <3>1, <3>2 DEF Busy
  <2> QED BY <1>13, <2>1 DEF OpenJournal
<1>14. CASE HearCommit(r)
  <2>1. ASSUME Becomes(r, [room[r] EXCEPT !.at = "ready", !.rev = @ + 1, !.edit = {}, !.wrote = TRUE, !.pending = ~room[r].lost]) PROVE OneEdit(room'[r])
    <3> DEFINE d == [room[r] EXCEPT !.at = "ready", !.rev = @ + 1, !.edit = {}, !.wrote = TRUE, !.pending = ~room[r].lost]
    <3>1. d.at = "ready"
      BY <1>1 DEF RoomRecs, NewRoom, Gone
    <3> HIDE DEF d
    <3>2. Becomes(r, d)
      BY <2>1 DEF d
    <3> QED BY <1>3, <3>1, <3>2 DEF Busy
  <2>2. ASSUME Becomes(r, [[room[r] EXCEPT !.at = "ready", !.rev = @ + 1, !.edit = {}, !.wrote = TRUE, !.pending = ~room[r].lost] EXCEPT !.doc = @ \cup room[r].edit, !.fresh = FALSE]) PROVE OneEdit(room'[r])
    <3> DEFINE d == [[room[r] EXCEPT !.at = "ready", !.rev = @ + 1, !.edit = {}, !.wrote = TRUE, !.pending = ~room[r].lost] EXCEPT !.doc = @ \cup room[r].edit, !.fresh = FALSE]
    <3>1. d.at = "ready"
      BY <1>1 DEF RoomRecs, NewRoom, Gone
    <3> HIDE DEF d
    <3>2. Becomes(r, d)
      BY <2>2 DEF d
    <3> QED BY <1>3, <3>1, <3>2 DEF Busy
  <2> QED BY <1>14, <2>1, <2>2 DEF HearCommit
<1>15. CASE RefuseBatch(r)
  <2>1. ASSUME Becomes(r, [room[r] EXCEPT !.at = "ready", !.edit = {}]) PROVE OneEdit(room'[r])
    <3> DEFINE d == [room[r] EXCEPT !.at = "ready", !.edit = {}]
    <3>1. d.at = "ready"
      BY <1>1 DEF RoomRecs, NewRoom, Gone
    <3> HIDE DEF d
    <3>2. Becomes(r, d)
      BY <2>1 DEF d
    <3> QED BY <1>3, <3>1, <3>2 DEF Busy
  <2> QED BY <1>15, <2>1 DEF RefuseBatch
<1>16. CASE BatchThrows(r)
  <2>1. ASSUME Becomes(r, [room[r] EXCEPT !.at = "ready", !.edit = {}]) PROVE OneEdit(room'[r])
    <3> DEFINE d == [room[r] EXCEPT !.at = "ready", !.edit = {}]
    <3>1. d.at = "ready"
      BY <1>1 DEF RoomRecs, NewRoom, Gone
    <3> HIDE DEF d
    <3>2. Becomes(r, d)
      BY <2>1 DEF d
    <3> QED BY <1>3, <3>1, <3>2 DEF Busy
  <2> QED BY <1>16, <2>1 DEF BatchThrows, BatchOver
<1>17. CASE AnswerLost(r)
  <2>1. ASSUME Becomes(r, [room[r] EXCEPT !.at = "ready", !.edit = {}]) PROVE OneEdit(room'[r])
    <3> DEFINE d == [room[r] EXCEPT !.at = "ready", !.edit = {}]
    <3>1. d.at = "ready"
      BY <1>1 DEF RoomRecs, NewRoom, Gone
    <3> HIDE DEF d
    <3>2. Becomes(r, d)
      BY <2>1 DEF d
    <3> QED BY <1>3, <3>1, <3>2 DEF Busy
  <2> QED BY <1>17, <2>1 DEF AnswerLost, BatchOver
<1>18. CASE ReadForRevision(r)
  <2>1. ASSUME Becomes(r, [room[r] EXCEPT !.at = "append", !.row = Row]) PROVE OneEdit(room'[r])
    <3> DEFINE d == [room[r] EXCEPT !.at = "append", !.row = Row]
    <3>1. d.at = "append"
      BY <1>1 DEF RoomRecs, NewRoom, Gone
    <3> HIDE DEF d
    <3>2. Becomes(r, d)
      BY <2>1 DEF d
    <3> QED BY <1>3, <3>1, <3>2 DEF Busy
  <2>2. ASSUME Becomes(r, [room[r] EXCEPT !.at = "flush"]) PROVE OneEdit(room'[r])
    <3> DEFINE d == [room[r] EXCEPT !.at = "flush"]
    <3>1. d.at = "flush"
      BY <1>1 DEF RoomRecs, NewRoom, Gone
    <3> HIDE DEF d
    <3>2. Becomes(r, d)
      BY <2>2 DEF d
    <3> QED BY <1>3, <3>1, <3>2 DEF Busy
  <2> QED BY <1>18, <2>1, <2>2 DEF ReadForRevision, RowRead
<1>19. CASE AppendRevision(r)
  <2>1. ASSUME Becomes(r, [room[r] EXCEPT !.at = "flush", !.wrote = FALSE, !.row = NoRow]) PROVE OneEdit(room'[r])
    <3> DEFINE d == [room[r] EXCEPT !.at = "flush", !.wrote = FALSE, !.row = NoRow]
    <3>1. d.at = "flush"
      BY <1>1 DEF RoomRecs, NewRoom, Gone
    <3> HIDE DEF d
    <3>2. Becomes(r, d)
      BY <2>1 DEF d
    <3> QED BY <1>3, <3>1, <3>2 DEF Busy
  <2> QED BY <1>19, <2>1 DEF AppendRevision
<1>20. CASE OpenClaim(r) \/ OpenThrows(r) \/ AppendThrows(r) \/ ReleaseRoom(r) \/ RoomCrashes(r)
  <2>1. room'[r].at \in {"claimed", "gone"}
    BY <1>1, <1>20 DEF OpenClaim, OpenThrows, AppendThrows, ReleaseRoom, RoomCrashes, Gone, NewRoom, Becomes
  <2> QED BY <2>1 DEF OneEdit, Busy
<1>21. ASSUME NEW compact \in BOOLEAN, CommitBatch(r, compact) PROVE OneEdit(room'[r])
  <2>1. room'[r].edit = room[r].edit /\ room[r].at = "write"
    BY <1>1, <1>21 DEF CommitBatch, InRoom, Becomes, RoomRecs
  <2> QED BY <2>1 DEF OneEdit, Busy
<1>22. ASSUME NEW e \in Edits, NEW vetoed \in BOOLEAN, StartBatch(r, e, vetoed) PROVE OneEdit(room'[r])
  <2>1. room'[r] = room[r] \/ \E at : room'[r] = [room[r] EXCEPT !.at = at, !.edit = {e}]
    BY <1>1, <1>22 DEF StartBatch, Becomes
  <2>2. CASE \E at : room'[r] = [room[r] EXCEPT !.at = at, !.edit = {e}]
    <3>1. room'[r].edit = {e}
      BY <1>1, <2>2 DEF RoomRecs
    <3> QED BY <3>1 DEF OneEdit
  <2> QED BY <2>1, <2>2 DEF OneEdit
<1>23. CASE RenewRoom(r)
  BY <1>23 DEF RenewRoom
<1> QED BY <1>4, <1>5, <1>6, <1>7, <1>8, <1>9, <1>10, <1>11, <1>12, <1>13, <1>14, <1>15, <1>16, <1>17, <1>18, <1>19, <1>20, <1>21, <1>22, <1>23 DEF RoomNext

\* What a batch does to the document, and what it tells.
LEMMA BatchShared ==
    ASSUME CollabInv, Editing, NEW r \in Rooms, RoomNext(r)
    PROVE  /\ Shared!SNext \/ UNCHANGED <<document.content, document.deleted, told, denied>>
           /\ saver' = saver /\ \A s \in Savers : s \in document'.content => s \in document.content
<1> USE DEF Shared!SNext
<1>1. /\ room[r] \in RoomRecs /\ RoomKnows(room[r]) /\ OneEdit(room[r])
      /\ document \in [rev : Nat \ {0}, content : Contents, deleted : BOOLEAN]
      /\ \A e \in Edits : receipt[e] = "accepted" <=> e \in document.content
      /\ told \subseteq document.content /\ \A e \in denied : e \in Edits /\ receipt[e] = "rejected"
      /\ \A c : Copy(document.rev, c) => c = document.content
  BY CopyIsIn DEF CollabInv, RoomsKnow, HeadKnown, ReceiptsKnown, Editing
<1>2. \A e \in Edits : e \notin Savers
  BY CollabAssumption
<1>3. ASSUME NEW compact \in BOOLEAN, CommitBatch(r, compact)
      PROVE  /\ Shared!SNext
             /\ saver' = saver /\ \A s \in Savers : s \in document'.content => s \in document.content
  <2>1. PICK e \in Edits : room[r].edit = {e}
    BY <1>1, <1>3 DEF CommitBatch, InRoom, OneEdit, Busy
  <2>2. room[r].doc = document.content /\ receipt[e] = "none" /\ ~document.deleted
    BY <1>1, <1>3, <2>1 DEF CommitBatch, InRoom, Fence, RoomKnows
  <2>3. document'.content = document.content \cup {e} /\ document'.deleted = document.deleted /\ UNCHANGED <<told, denied, saver>>
    BY <1>1, <1>3, <2>1, <2>2 DEF CommitBatch, Advance
  <2>4. e \notin document.content /\ e \notin denied
    BY <1>1, <2>2
  <2>5. Shared!Add(e) /\ e \in (Edits \cup Savers) \ document.content
    BY <2>2, <2>3, <2>4 DEF Shared!Add
  <2> QED BY <1>2, <2>3, <2>5
<1>4. ASSUME NEW e \in Edits, NEW vetoed \in BOOLEAN, StartBatch(r, e, vetoed)
      PROVE  /\ Shared!SNext \/ UNCHANGED <<document.content, document.deleted, told, denied>>
             /\ UNCHANGED <<document, saver>>
  <2>1. UNCHANGED <<document, saver>>
    BY <1>4 DEF StartBatch, rowVars
  <2>2. CASE receipt[e] = "accepted"
    <3>1. told' = told \cup {e} /\ denied' = denied
      BY <1>4, <2>2 DEF StartBatch
    <3>2. Shared!Tell(e) /\ e \in document.content \ denied
      BY <1>1, <2>1, <2>2, <3>1 DEF Shared!Tell
    <3> QED BY <2>1, <3>2
  <2>3. CASE receipt[e] = "rejected"
    <3>1. told' = told /\ denied' = denied \cup {e}
      BY <1>4, <2>3 DEF StartBatch
    <3>2. Shared!Deny(e) /\ e \in (Edits \cup Savers) \ document.content
      BY <1>1, <2>1, <2>3, <3>1 DEF Shared!Deny
    <3> QED BY <2>1, <3>2
  <2>4. CASE receipt[e] \notin {"accepted", "rejected"}
    BY <1>4, <2>1, <2>4 DEF StartBatch
  <2> QED BY <2>1, <2>2, <2>3, <2>4
<1>5. CASE HearCommit(r)
  <2>1. PICK e \in Edits : room[r].edit = {e}
    BY <1>1, <1>5 DEF HearCommit, InRoom, OneEdit, Busy
  <2>2. e \in document.content
    BY <1>1, <1>5, <2>1, CopyIsIn DEF HearCommit, InRoom, RoomKnows, CollabInv
  <2>3. UNCHANGED <<document, denied, saver>> /\ told' \in {told, told \cup {e}}
    BY <1>5, <2>1 DEF HearCommit, rowVars
  <2>4. CASE told' = told \cup {e}
    <3>1. Shared!Tell(e) /\ e \in document.content \ denied
      BY <1>1, <2>2, <2>3, <2>4 DEF Shared!Tell
    <3> QED BY <2>3, <3>1
  <2> QED BY <2>3, <2>4
<1>6. CASE RefuseBatch(r)
  <2>1. PICK e \in Edits : room[r].edit = {e}
    BY <1>1, <1>6 DEF RefuseBatch, InRoom, OneEdit, Busy
  <2>2. e \notin document.content
    BY <1>1, <1>6, <2>1 DEF RefuseBatch
  <2>3. UNCHANGED <<document, told, saver>> /\ denied' \in {denied, denied \cup {e}}
    <3>1. {x \in {e} : ~room[r].closed} \in {{}, {e}}
      OBVIOUS
    <3> QED BY <1>6, <2>1, <3>1 DEF RefuseBatch
  <2>4. CASE denied' = denied \cup {e}
    <3>1. Shared!Deny(e) /\ e \in (Edits \cup Savers) \ document.content
      BY <1>1, <2>2, <2>3, <2>4 DEF Shared!Deny
    <3> QED BY <2>3, <3>1
  <2> QED BY <2>3, <2>4
<1>7. ASSUME ~HearCommit(r), ~RefuseBatch(r), \A compact \in BOOLEAN : ~CommitBatch(r, compact),
             \A e \in Edits, vetoed \in BOOLEAN : ~StartBatch(r, e, vetoed)
      PROVE  UNCHANGED <<document, told, denied, saver>>
  BY <1>7 DEF RoomNext, RenewRoom, LoseLease, LateRenewal, HearLateRenewal, OpenClaim, OpenRow, OpenCheckpoint, OpenJournal,
         OpenThrows, BatchThrows, AnswerLost, ReadForVersion, PutVersion,
         VersionThrows, CloseRoom, ReadForRevision, AppendRevision, AppendThrows, ReleaseRoom, RoomCrashes, rowVars
<1>8. CASE \E e \in Edits, vetoed \in BOOLEAN : StartBatch(r, e, vetoed)
  BY <1>4, <1>8
<1>9. CASE HearCommit(r) \/ RefuseBatch(r)
  <2>1. UNCHANGED <<document, saver>>
    BY <1>9 DEF HearCommit, RefuseBatch, rowVars
  <2> QED BY <1>5, <1>6, <1>9, <2>1
<1> QED BY <1>3, <1>7, <1>8, <1>9

\* PUT adds the saver to what is there.
LEMMA SaverShared ==
    ASSUME CollabInv, Editing, NEW s \in Savers, SaverPuts(s)
    PROVE  /\ Shared!SNext /\ document'.content = document.content \cup {s}
           /\ saver' = [saver EXCEPT ![s].at = "done"]
<1>1. /\ document \in [rev : Nat \ {0}, content : Contents, deleted : BOOLEAN] /\ contentAt[document.rev] = document.content
      /\ denied \subseteq Edits /\ s \notin Edits
  BY CollabAssumption DEF CollabInv, HeadKnown, ReceiptsKnown
<1>2. s \notin document.content /\ ~document.deleted
  BY DEF Editing, SaverPuts
<1>3. /\ document'.content = document.content \cup {s} /\ document'.deleted = document.deleted
      /\ saver' = [saver EXCEPT ![s].at = "done"] /\ told' \in {told, told \cup {s}} /\ denied' = denied
  BY <1>1 DEF SaverPuts, Advance
<1>4. Shared!Add(s) /\ s \in (Edits \cup Savers) \ document.content
  BY <1>1, <1>2, <1>3 DEF Shared!Add
<1> QED BY <1>3, <1>4 DEF Shared!SNext

\* The requests that leave the document, or only delete it.
LEMMA RestShared ==
    ASSUME CollabInv, LeaseEnds \/ DeletePuts \/ DeleteVersions \/ DeleteStops \/ DeleteAgain \/ UNCHANGED collabVars
    PROVE  /\ Shared!SNext \/ UNCHANGED <<document.content, document.deleted, told, denied>>
           /\ UNCHANGED <<room, saver, document.content>>
<1>1. document \in [rev : Nat \ {0}, content : Contents, deleted : BOOLEAN]
  BY DEF CollabInv, HeadKnown
<1>2. CASE DeletePuts
  <2>1. /\ ~document.deleted /\ document'.deleted = TRUE /\ document'.content = document.content
        /\ UNCHANGED <<told, denied, room, saver>>
    BY <1>1, <1>2 DEF DeletePuts
  <2> QED BY <2>1 DEF Shared!SNext, Shared!Delete
<1>3. CASE ~DeletePuts
  BY <1>3 DEF LeaseEnds, DeleteVersions, DeleteStops, DeleteAgain, rowVars, collabVars
<1> QED BY <1>2, <1>3

LEMMA SharedStep ==
    ASSUME CollabInv, Editing, [CollabNext]_collabVars
    PROVE  /\ Shared!SNext \/ UNCHANGED <<document.content, document.deleted, told, denied>>
           /\ Editing'
<1>1. ASSUME NEW r \in Rooms, RoomNext(r)
      PROVE  (Shared!SNext \/ UNCHANGED <<document.content, document.deleted, told, denied>>) /\ Editing'
  <2>1. \A q \in Rooms : OneEdit(room'[q])
    <3>1. room \in [Rooms -> RoomRecs]
      BY DEF CollabInv, RoomsKnow
    <3> QED BY <1>1, <3>1, RoomOfStep, RoomStepEdits DEF Editing
  <2>2. (\A q \in Rooms : OneEdit(room[q]))'
    BY <2>1 DEF OneEdit
  <2>3. saver' = saver /\ \A s \in Savers : s \in document'.content => s \in document.content
    BY <1>1, BatchShared
  <2> QED BY <1>1, <2>2, <2>3, BatchShared DEF Editing
<1>2. ASSUME NEW s \in Savers, SaverReads(s)
      PROVE  UNCHANGED <<document, told, denied>> /\ Editing'
  <2>1. /\ UNCHANGED <<document, told, denied, room>> /\ saver[s].at # "done"
        /\ saver' = [saver EXCEPT ![s] = [at |-> "read", rev |-> document.rev]] /\ document.rev \in Nat
    BY <1>2 DEF SaverReads, rowVars, CollabInv, HeadKnown
  <2>2. saver' \in [Savers -> [at : {"idle", "read", "done"}, rev : Nat]]
    BY <2>1 DEF Editing
  <2>3. (\A q \in Savers : q \in document.content => saver[q].at = "done")'
    BY <2>1 DEF Editing
  <2> QED BY <2>1, <2>2, <2>3 DEF Editing, OneEdit
<1>3. ASSUME NEW s \in Savers, SaverPuts(s)
      PROVE  Shared!SNext /\ Editing'
  <2>1. Shared!SNext /\ document'.content = document.content \cup {s} /\ saver' = [saver EXCEPT ![s].at = "done"] /\ room' = room
    BY <1>3, SaverShared DEF SaverPuts
  <2>2. saver' \in [Savers -> [at : {"idle", "read", "done"}, rev : Nat]]
    BY <2>1 DEF Editing
  <2>3. (\A q \in Savers : q \in document.content => saver[q].at = "done")'
    BY <2>1 DEF Editing
  <2> QED BY <2>1, <2>2, <2>3 DEF Editing, OneEdit
<1>4. CASE LeaseEnds \/ DeletePuts \/ DeleteVersions \/ DeleteStops \/ DeleteAgain \/ UNCHANGED collabVars
  BY <1>4, RestShared DEF Editing, OneEdit
<1> QED BY <1>1, <1>2, <1>3, <1>4 DEF CollabNext

\* One document under rooms, takeovers, lost answers, replays, PUT and DELETE is as
\* SharedDocument says, for any rooms, edits, savers and mishaps.
THEOREM CollabKeepsDocument == CollabSpec => KeepsDocument
<1>1. CollabInit => Shared!SInit /\ Editing
  BY DEF CollabInit, Shared!SInit, Editing, OneEdit, NewRoom, Busy
<1>2. CollabInv /\ Editing /\ [CollabNext]_collabVars => Editing'
  BY SharedStep
<1>3. CollabInv /\ Editing /\ [CollabNext]_collabVars => [Shared!SNext]_(Shared!svars)
  BY SharedStep DEF Shared!svars
<1> QED BY <1>1, <1>2, <1>3, CollabInvariant, PTL DEF CollabSpec, KeepsDocument, Shared!SSpec
==============================================================================
