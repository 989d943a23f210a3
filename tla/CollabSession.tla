----------------------------- MODULE CollabSession -----------------------------
(***************************************************************************)
(* One document (a sessions row) shared by live rooms and REST.  A room    *)
(* (collab/rooms.ts) holds the row's lease under an owner id of its own,   *)
(* restores its document, and commits batches one at a time with           *)
(* store.commitCollab, each fenced by owner, lease and revision.  PUT      *)
(* saves by compare-and-set, DELETE writes a tombstone and removes the     *)
(* versions (api/app.ts, store/postgres.ts).  Leases run out, processes    *)
(* end, answers are lost, and a batch nobody heard of is sent again.       *)
(*                                                                         *)
(* The document is the set of edits in it; a batch or a save adds one.     *)
(***************************************************************************)
EXTENDS Naturals, FiniteSets

CONSTANTS
    Rooms,       \* every room ever opened, in any process; each has its own owner id
    Edits,       \* one-operation batches of live clients, which may send them again
    Savers,      \* PUT requests; each adds itself to the document it has read
    NoRoom,
    MaxRevision, \* bound: the row's last revision
    MaxMishaps   \* bound: crashes, lost answers and requests that stop halfway

ASSUME CollabAssumption ==
    /\ NoRoom \notin Rooms /\ MaxRevision \in Nat \ {0} /\ MaxMishaps \in Nat
    /\ Edits \cap Savers = {}

VARIABLES
    document,   \* the sessions row: revision, content, tombstone
    owned,      \* collab_owner, and whether collab_lease_until is in the future
    saved,      \* the collab_checkpoints row
    journal,    \* the collab_journal rows
    receipt,    \* per edit: its collab_receipts row
    revisions,  \* the session_revisions rows
    versioned,  \* the document has a session_versions row
    room, saver, deleter,
    mishaps,
    told, denied,   \* history: edits someone was told are in, or are refused
    contentAt       \* history: the content at each revision

rowVars == <<document, owned, saved, journal, receipt, revisions, versioned>>
collabVars == <<rowVars, room, saver, deleter, mishaps, told, denied, contentAt>>

Contents == SUBSET (Edits \cup Savers)
Revisions == 1..MaxRevision
RowCopies == [rev : 0..MaxRevision, content : Contents]
NoRow == [rev |-> 0, content |-> {}]
NoCheckpoint == [rev |-> 0, head |-> 0, doc |-> {}]
Checkpoints == [rev : 0..MaxRevision, head : 0..MaxRevision, doc : Contents]

NewRoom == [at |-> "none", rev |-> 0, doc |-> {}, fresh |-> TRUE, chk |-> NoCheckpoint, edit |-> {},
            closed |-> FALSE, closing |-> FALSE, lost |-> FALSE, wrote |-> FALSE, row |-> NoRow,
            pending |-> FALSE, writing |-> FALSE, renewal |-> "no"]

Opening == {"claimed", "row", "journal"}
Busy == {"write", "refuse", "answer"}

CollabTypeOK ==
    /\ document \in [rev : Revisions, content : Contents, deleted : BOOLEAN]
    /\ owned \in [by : Rooms \cup {NoRoom}, live : BOOLEAN]
    /\ saved \in Checkpoints
    /\ journal \subseteq [rev : Revisions, edits : SUBSET Edits]
    /\ receipt \in [Edits -> {"none", "accepted", "rejected"}]
    /\ revisions \subseteq RowCopies /\ versioned \in BOOLEAN
    /\ room \in [Rooms ->
         [at : {"none", "ready", "append", "flush", "gone"} \cup Opening \cup Busy,
          rev : 0..MaxRevision, doc : Contents, fresh : BOOLEAN, chk : Checkpoints, edit : SUBSET Edits,
          closed : BOOLEAN, closing : BOOLEAN, lost : BOOLEAN, wrote : BOOLEAN, row : RowCopies,
          pending : BOOLEAN, writing : BOOLEAN, renewal : {"no", "sent", "ok"}]]
    /\ saver \in [Savers -> [at : {"idle", "read", "done"}, rev : 0..MaxRevision]]
    /\ deleter \in {"idle", "marked", "done"}
    /\ mishaps \in 0..MaxMishaps
    /\ told \in Contents /\ denied \subseteq Edits
    /\ contentAt \in [1..Cardinality(DOMAIN contentAt) -> Contents]

CollabInit ==
    /\ document = [rev |-> 1, content |-> {}, deleted |-> FALSE]
    /\ owned = [by |-> NoRoom, live |-> FALSE]
    /\ saved = NoCheckpoint /\ journal = {}
    /\ receipt = [e \in Edits |-> "none"]
    /\ revisions = {} /\ versioned = FALSE
    /\ room = [r \in Rooms |-> NewRoom]
    /\ saver = [s \in Savers |-> [at |-> "idle", rev |-> 0]]
    /\ deleter = "idle"
    /\ mishaps = 0 /\ told = {} /\ denied = {}
    /\ contentAt = [i \in {1} |-> {}]

Mishap == mishaps < MaxMishaps /\ mishaps' = mishaps + 1
Row == [rev |-> document.rev, content |-> document.content]
InRoom(r, at) == room[r].at = at
Becomes(r, new) == room' = [room EXCEPT ![r] = new]

\* The head moves to a new revision.
Advance(content) ==
    /\ document.rev < MaxRevision
    /\ document' = [document EXCEPT !.rev = @ + 1, !.content = content]
    /\ contentAt' = [i \in DOMAIN contentAt \cup {document.rev + 1} |->
                      IF i = document.rev + 1 THEN content ELSE contentAt[i]]

-----------------------------------------------------------------------------
(* The lease.                                                              *)

MayClaim(r) == ~document.deleted /\ (owned.by = r \/ ~owned.live)
Taken(r) == owned' = [by |-> r, live |-> TRUE]
Released(r) == owned' = IF owned.by = r THEN [by |-> NoRoom, live |-> FALSE] ELSE owned

\* Time passes without a renewal: the owner is gone, or was too slow.
LeaseEnds ==
    /\ owned.live
    /\ \/ InRoom(owned.by, "gone") /\ UNCHANGED mishaps
       \/ ~InRoom(owned.by, "gone") /\ Mishap
    /\ owned' = [owned EXCEPT !.live = FALSE]
    /\ UNCHANGED <<document, saved, journal, receipt, revisions, versioned, room, saver, deleter, told, denied, contentAt>>

\* The ten second timer of an open room.
RenewRoom(r) ==
    /\ room[r].at \in {"ready"} \cup Busy /\ ~room[r].closed /\ MayClaim(r)
    /\ Taken(r)
    /\ UNCHANGED <<document, saved, journal, receipt, revisions, versioned, room, saver, deleter, mishaps, told, denied, contentAt>>

\* loseLease: the renewal was refused, or its answer was an error.
LoseLease(r) ==
    /\ room[r].at \in {"ready"} \cup Busy /\ ~room[r].closed
    /\ \/ ~MayClaim(r) /\ UNCHANGED <<owned, mishaps>>
       \/ MayClaim(r) /\ Mishap /\ (Taken(r) \/ UNCHANGED owned)
    /\ Becomes(r, [room[r] EXCEPT !.closed = TRUE, !.lost = TRUE, !.pending = FALSE])
    /\ UNCHANGED <<document, saved, journal, receipt, revisions, versioned, saver, deleter, told, denied, contentAt>>

\* A renewal sent before the room closed may land after it gave the lease back;
\* its callback then gives it back again.  Refused, or with an error for an
\* answer, the room counts as one that lost its lease.
LateRenewal(r) ==
    /\ room[r].renewal = "sent"
    /\ \/ MayClaim(r) /\ Taken(r) /\ Becomes(r, [room[r] EXCEPT !.renewal = "ok"])
       \/ /\ UNCHANGED owned \/ (MayClaim(r) /\ Taken(r))
          /\ Becomes(r, [room[r] EXCEPT !.renewal = "no", !.lost = TRUE, !.pending = FALSE])
    /\ UNCHANGED <<document, saved, journal, receipt, revisions, versioned, saver, deleter, mishaps, told, denied, contentAt>>

HearLateRenewal(r) ==
    /\ room[r].renewal = "ok"
    /\ Becomes(r, [room[r] EXCEPT !.renewal = "no"])
    /\ Released(r)
    /\ UNCHANGED <<document, saved, journal, receipt, revisions, versioned, saver, deleter, mishaps, told, denied, contentAt>>

-----------------------------------------------------------------------------
(* Room.open.  A step that throws gives the lease back.                    *)

OpenClaim(r) ==
    /\ InRoom(r, "none") /\ MayClaim(r)
    /\ Taken(r)
    /\ Becomes(r, [NewRoom EXCEPT !.at = "claimed"])
    /\ UNCHANGED <<document, saved, journal, receipt, revisions, versioned, saver, deleter, mishaps, told, denied, contentAt>>

OpenRow(r) ==
    /\ InRoom(r, "claimed") /\ ~document.deleted
    /\ Becomes(r, [room[r] EXCEPT !.at = "row", !.rev = document.rev, !.doc = document.content])
    /\ UNCHANGED <<rowVars, saver, deleter, mishaps, told, denied, contentAt>>

CheckpointCounts(r) == saved.head = room[r].rev

\* Only a checkpoint whose head is the row's revision counts; without one the
\* document is seeded from the inputs of the row.
OpenCheckpoint(r) ==
    /\ InRoom(r, "row") /\ saved.head <= room[r].rev
    /\ Becomes(r, IF CheckpointCounts(r) THEN [room[r] EXCEPT !.at = "journal", !.chk = saved]
                  ELSE [room[r] EXCEPT !.at = "ready"])
    /\ UNCHANGED <<rowVars, saver, deleter, mishaps, told, denied, contentAt>>

JournalAfter(chk) == {j \in journal : j.rev > chk.rev}
Contiguous(chk) == {j.rev : j \in JournalAfter(chk)} = (chk.rev + 1)..chk.head
Rebuilt(chk) == chk.doc \cup UNION {j.edits : j \in JournalAfter(chk)}

OpenJournal(r) ==
    /\ InRoom(r, "journal") /\ Contiguous(room[r].chk)
    /\ Becomes(r, [room[r] EXCEPT !.at = "ready", !.doc = Rebuilt(room[r].chk), !.fresh = FALSE, !.chk = NoCheckpoint])
    /\ UNCHANGED <<rowVars, saver, deleter, mishaps, told, denied, contentAt>>

OpenThrows(r) ==
    /\ \/ InRoom(r, "claimed") /\ document.deleted
       \/ InRoom(r, "row") /\ saved.head > room[r].rev
       \/ InRoom(r, "journal") /\ ~Contiguous(room[r].chk)
    /\ Released(r)
    /\ Becomes(r, [NewRoom EXCEPT !.at = "gone"])
    /\ UNCHANGED <<document, saved, journal, receipt, revisions, versioned, saver, deleter, mishaps, told, denied, contentAt>>

-----------------------------------------------------------------------------
(* applyBatch: one batch at a time, in the room's write chain.             *)

\* The receipts are read first: a batch that has one is only answered.
StartBatch(r, e, vetoed) ==
    /\ InRoom(r, "ready") /\ ~room[r].closed
    /\ IF receipt[e] # "none"
       THEN /\ told' = told \cup {x \in {e} : receipt[x] = "accepted"}
            /\ denied' = denied \cup {x \in {e} : receipt[x] = "rejected"}
            /\ UNCHANGED room
       ELSE /\ Becomes(r, [room[r] EXCEPT !.at = IF vetoed THEN "refuse" ELSE "write", !.edit = {e}])
            /\ UNCHANGED <<told, denied>>
    /\ UNCHANGED <<rowVars, saver, deleter, mishaps, contentAt>>

\* Mutant: the commit does not compare the revision.
FenceByOwner(r) == ~document.deleted /\ owned = [by |-> r, live |-> TRUE]

\* The row lock of commitCollab and commitCollabReceipts, and the receipts' key.
Fence(r) ==
    /\ ~document.deleted /\ document.rev = room[r].rev
    /\ owned = [by |-> r, live |-> TRUE]

\* commitCollab: the row, the checkpoint or the journal, and the receipt at once.
CommitBatch(r, compact) ==
    /\ InRoom(r, "write") /\ Fence(r)
    /\ \A e \in room[r].edit : receipt[e] = "none"
    /\ Advance(room[r].doc \cup room[r].edit)
    /\ IF compact \/ room[r].fresh
       THEN /\ saved' = [rev |-> document'.rev, head |-> document'.rev, doc |-> document'.content]
            /\ journal' = {j \in journal : j.rev > document'.rev}
       ELSE /\ saved.head = room[r].rev
            /\ saved' = [saved EXCEPT !.head = document'.rev]
            /\ journal' = journal \cup {[rev |-> document'.rev, edits |-> room[r].edit]}
    /\ receipt' = [e \in Edits |-> IF e \in room[r].edit THEN "accepted" ELSE receipt[e]]
    /\ Becomes(r, [room[r] EXCEPT !.at = "answer"])
    /\ UNCHANGED <<owned, revisions, versioned, saver, deleter, mishaps, told, denied>>

\* The answer arrives. A room closed meanwhile applies and tells nothing.
HearCommit(r) ==
    /\ InRoom(r, "answer")
    /\ LET heard == [room[r] EXCEPT !.at = "ready", !.rev = @ + 1, !.edit = {}, !.wrote = TRUE, !.pending = ~room[r].lost] IN
       IF room[r].closed THEN Becomes(r, heard) /\ UNCHANGED told
       ELSE /\ Becomes(r, [heard EXCEPT !.doc = @ \cup room[r].edit, !.fresh = FALSE])
            /\ told' = told \cup room[r].edit
    /\ UNCHANGED <<rowVars, saver, deleter, mishaps, denied, contentAt>>

\* commitCollabReceipts: nothing was accepted; the answer may get lost.
RefuseBatch(r) ==
    /\ InRoom(r, "refuse") /\ Fence(r)
    /\ \A e \in room[r].edit : receipt[e] = "none"
    /\ receipt' = [e \in Edits |-> IF e \in room[r].edit THEN "rejected" ELSE receipt[e]]
    /\ denied' \in {denied, denied \cup {e \in room[r].edit : ~room[r].closed}}
    /\ Becomes(r, [room[r] EXCEPT !.at = "ready", !.edit = {}])
    /\ UNCHANGED <<document, owned, saved, journal, revisions, versioned, saver, deleter, mishaps, told, contentAt>>

BatchOver(r) == Becomes(r, [room[r] EXCEPT !.at = "ready", !.edit = {}])

\* The statement fails: its fence, the receipt's key, or the store.
BatchThrows(r) ==
    /\ room[r].at \in {"write", "refuse"}
    /\ BatchOver(r)
    /\ UNCHANGED <<rowVars, saver, deleter, mishaps, told, denied, contentAt>>

\* The commit is in, its answer is lost: the room goes on as it was.
AnswerLost(r) ==
    /\ InRoom(r, "answer") /\ Mishap
    /\ BatchOver(r)
    /\ UNCHANGED <<rowVars, saver, deleter, told, denied, contentAt>>

-----------------------------------------------------------------------------
(* Versions (versions/recorder.ts): read the row, then write.              *)

ReadForVersion(r) ==
    /\ room[r].pending /\ ~room[r].writing
    /\ Becomes(r, [room[r] EXCEPT !.pending = FALSE, !.writing = ~document.deleted])
    /\ UNCHANGED <<rowVars, saver, deleter, mishaps, told, denied, contentAt>>

\* Mutant: the tombstone is looked at only before the lock.
PutVersionUnlocked(r) ==
    /\ room[r].writing
    /\ versioned' = TRUE
    /\ Becomes(r, [room[r] EXCEPT !.writing = FALSE])
    /\ UNCHANGED <<document, owned, saved, journal, receipt, revisions, saver, deleter, mishaps, told, denied, contentAt>>

\* putSessionVersion, which looks at the tombstone under the versions lock.
PutVersion(r) ==
    /\ room[r].writing /\ ~document.deleted
    /\ versioned' = TRUE
    /\ Becomes(r, [room[r] EXCEPT !.writing = FALSE])
    /\ UNCHANGED <<document, owned, saved, journal, receipt, revisions, saver, deleter, mishaps, told, denied, contentAt>>

\* It throws: who edited is kept for the next version.
VersionThrows(r) ==
    /\ room[r].writing
    /\ Becomes(r, [room[r] EXCEPT !.writing = FALSE, !.pending = ~room[r].lost /\ ~InRoom(r, "flush")])
    /\ UNCHANGED <<rowVars, saver, deleter, mishaps, told, denied, contentAt>>

-----------------------------------------------------------------------------
(* Room.quiesce: the last member left, the lease is lost, or the server    *)
(* drains.                                                                 *)

CloseRoom(r) ==
    /\ room[r].at \in {"ready"} \cup Busy /\ ~room[r].closing
    /\ \/ Becomes(r, [room[r] EXCEPT !.closed = TRUE, !.closing = TRUE]) /\ UNCHANGED mishaps
       \/ /\ ~room[r].closed /\ Mishap
          /\ Becomes(r, [room[r] EXCEPT !.closed = TRUE, !.closing = TRUE, !.renewal = "sent"])
    /\ UNCHANGED <<rowVars, saver, deleter, told, denied, contentAt>>

\* Mutant: the row that is read is recorded under the revision the room remembers.
ReadAtRoomRevision(r) == [rev |-> room[r].rev, content |-> document.content]

RowRead(r) == Row

\* appendQuiesceRevision, once the write chain is empty.
ReadForRevision(r) ==
    /\ InRoom(r, "ready") /\ room[r].closing
    /\ Becomes(r, IF room[r].wrote /\ ~room[r].lost /\ ~document.deleted
                  THEN [room[r] EXCEPT !.at = "append", !.row = RowRead(r)]
                  ELSE [room[r] EXCEPT !.at = "flush"])
    /\ UNCHANGED <<rowVars, saver, deleter, mishaps, told, denied, contentAt>>

\* appendSessionRevision leaves a row that is there.
AppendRevision(r) ==
    /\ InRoom(r, "append")
    /\ revisions' = revisions \cup {x \in {room[r].row} : \A y \in revisions : y.rev # x.rev}
    /\ Becomes(r, [room[r] EXCEPT !.at = "flush", !.wrote = FALSE, !.row = NoRow])
    /\ UNCHANGED <<document, owned, saved, journal, receipt, versioned, saver, deleter, mishaps, told, denied, contentAt>>

Gone(r) == [NewRoom EXCEPT !.at = "gone", !.closed = TRUE, !.renewal = room[r].renewal]

\* The append fails: the recorder is not closed, and its timers may still fire.
AppendThrows(r) ==
    /\ InRoom(r, "append") /\ Mishap
    /\ Released(r)
    /\ Becomes(r, [Gone(r) EXCEPT !.pending = room[r].pending, !.writing = room[r].writing])
    /\ UNCHANGED <<document, saved, journal, receipt, revisions, versioned, saver, deleter, told, denied, contentAt>>

\* recorder.close has written what was pending; releaseCollab, which may fail.
ReleaseRoom(r) ==
    /\ InRoom(r, "flush") /\ ~room[r].pending /\ ~room[r].writing
    /\ \/ Released(r) /\ UNCHANGED mishaps
       \/ UNCHANGED owned /\ Mishap
    /\ Becomes(r, Gone(r))
    /\ UNCHANGED <<document, saved, journal, receipt, revisions, versioned, saver, deleter, told, denied, contentAt>>

\* The process ends.
RoomCrashes(r) ==
    /\ room[r].at \notin {"none", "gone"} /\ Mishap
    /\ Becomes(r, [NewRoom EXCEPT !.at = "gone"])
    /\ UNCHANGED <<rowVars, saver, deleter, told, denied, contentAt>>

-----------------------------------------------------------------------------
(* REST.                                                                   *)

\* A client reads the document it will save over.
SaverReads(s) ==
    /\ saver[s].at # "done" /\ ~document.deleted
    /\ saver' = [saver EXCEPT ![s] = [at |-> "read", rev |-> document.rev]]
    /\ UNCHANGED <<rowVars, room, deleter, mishaps, told, denied, contentAt>>

\* PUT: commitSessionRevision writes the head, its revision and a version at
\* once, over the revision the client has read.
SaverPuts(s) ==
    /\ saver[s].at = "read" /\ ~document.deleted /\ ~owned.live
    /\ document.rev = saver[s].rev
    /\ Advance(contentAt[saver[s].rev] \cup {s})
    /\ revisions' = {x \in revisions : x.rev # document'.rev} \cup {[rev |-> document'.rev, content |-> document'.content]}
    /\ versioned' = TRUE
    /\ saver' = [saver EXCEPT ![s].at = "done"]
    /\ told' \in {told, told \cup {s}}
    /\ UNCHANGED <<owned, saved, journal, receipt, room, deleter, mishaps, denied>>

\* DELETE: putSession writes the row back as the handler read it, with deleted_at;
\* nobody looks at the document of a row that has one.
DeletePuts ==
    /\ deleter = "idle" /\ ~document.deleted /\ ~owned.live
    /\ document' = [document EXCEPT !.deleted = TRUE]
    /\ deleter' = "marked"
    /\ UNCHANGED <<owned, saved, journal, receipt, revisions, versioned, room, saver, mishaps, told, denied, contentAt>>

\* deleteSessionVersions.
DeleteVersions ==
    /\ deleter = "marked"
    /\ versioned' = FALSE
    /\ deleter' = "done"
    /\ UNCHANGED <<document, owned, saved, journal, receipt, revisions, room, saver, mishaps, told, denied, contentAt>>

\* The request stops between the two.
DeleteStops ==
    /\ deleter = "marked" /\ Mishap
    /\ deleter' = "idle"
    /\ UNCHANGED <<rowVars, room, saver, told, denied, contentAt>>

\* A repeated DELETE finds the tombstone and only removes the versions.
DeleteAgain ==
    /\ deleter = "idle" /\ document.deleted
    /\ deleter' = "marked"
    /\ UNCHANGED <<rowVars, room, saver, mishaps, told, denied, contentAt>>

-----------------------------------------------------------------------------
RoomNext(r) ==
    \/ RenewRoom(r) \/ LoseLease(r) \/ LateRenewal(r) \/ HearLateRenewal(r)
    \/ OpenClaim(r) \/ OpenRow(r) \/ OpenCheckpoint(r) \/ OpenJournal(r) \/ OpenThrows(r)
    \/ \E e \in Edits, vetoed \in BOOLEAN : StartBatch(r, e, vetoed)
    \/ \E compact \in BOOLEAN : CommitBatch(r, compact)
    \/ HearCommit(r) \/ RefuseBatch(r) \/ BatchThrows(r) \/ AnswerLost(r)
    \/ ReadForVersion(r) \/ PutVersion(r) \/ VersionThrows(r)
    \/ CloseRoom(r) \/ ReadForRevision(r) \/ AppendRevision(r) \/ AppendThrows(r) \/ ReleaseRoom(r)
    \/ RoomCrashes(r)

CollabNext ==
    \/ LeaseEnds
    \/ \E r \in Rooms : RoomNext(r)
    \/ \E s \in Savers : SaverReads(s) \/ SaverPuts(s)
    \/ DeletePuts \/ DeleteVersions \/ DeleteStops \/ DeleteAgain

CollabSpec == CollabInit /\ [][CollabNext]_collabVars

-----------------------------------------------------------------------------
(* Properties.                                                             *)

\* Whatever a sender, a peer or a saver was told is in the document is in it,
\* through lost answers, replays, takeovers and saves between two rooms; and
\* nothing is in it that its sender was told was refused.
ToldIsStored ==
    /\ document.deleted \/ told \subseteq document.content
    /\ denied \cap document.content = {}

Shared == INSTANCE SharedDocument WITH
    Items <- Edits \cup Savers, content <- document.content, gone <- document.deleted

\* Seen from its editors the document is as SharedDocument says: no takeover, lost answer,
\* replay or save between two rooms applies an edit twice or drops one that is in.
KeepsDocument == Shared!SSpec

\* The checkpoint and its journal rebuild the document of the revision they
\* claim, and a revision row holds the document of its revision.
CheckpointRebuilds ==
    ~document.deleted =>
        /\ saved.head <= document.rev
        /\ saved.head = document.rev => Contiguous(saved) /\ Rebuilt(saved) = document.content
RecordsAgree ==
    /\ CheckpointRebuilds
    /\ \A x \in revisions : contentAt[x.rev] = x.content

\* Once a DELETE has answered, no version of the document is left or appears.
VersionsGoWithDocument == deleter = "done" => ~versioned

\* collab/gateway.ts:1856: "The room checks the stored row is the document it
\* holds; a mismatch can only come from losing the lease".
Holds(r) == owned = [by |-> r, live |-> TRUE]
Matches(r) ==
    /\ InRoom(r, "ready") /\ ~room[r].closed => room[r].rev = document.rev
    /\ InRoom(r, "answer") => room[r].rev + 1 = document.rev
MismatchMeansLeaseLost ==
    [][\A r \in Rooms : Holds(r) /\ Holds(r)' /\ Matches(r) => Matches(r)']_collabVars
=============================================================================
