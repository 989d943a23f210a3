----------------------------- MODULE ApprovalFile -----------------------------
(***************************************************************************)
(* The file of an approved request (approvals/export-review.ts).  It is    *)
(* settled once: the reviewed bytes are signed, the signed update's parts  *)
(* stored and recorded in the request, by the decision or by a download    *)
(* that finds it unsettled; replicas may settle it at the same time.  Past *)
(* its retention a sweep takes the file back.  Every write stores the      *)
(* whole request as its writer read it.                                    *)
(***************************************************************************)
EXTENDS FiniteSets

CONSTANTS
    Replicas,     \* processes: each settles the request once at a time
    Sweepers,     \* retention passes
    Signings      \* files a settlement may produce: each signing has a digest of its own

ASSUME SigningAssumption == Signings \cap {"none", "not-recorded"} = {}

VARIABLES
    fileOf,       \* the stored request: its credential record and whether its file was removed
    expired,      \* the decision is older than approvedRetentionDays
    reviewed,     \* the reviewed bytes are stored
    signed,       \* signings whose parts are stored
    settling,     \* per replica: where its settlement is, its outcome, the request as read again
    sweeping      \* per sweep: where it is, the request as listed

approvalFileVars == <<fileOf, expired, reviewed, signed, settling, sweeping>>

FileOutcomes == Signings \cup {"not-recorded"}
Subjects == [record : FileOutcomes \cup {"none"}, removed : BOOLEAN]
Unread == [record |-> "none", removed |-> FALSE]
NotSettling == [at |-> "idle", outcome |-> "none", read |-> Unread]
NotSweeping == [at |-> "idle", read |-> Unread]

ApprovalFileTypeOK ==
    /\ fileOf \in Subjects /\ expired \in BOOLEAN /\ reviewed \in BOOLEAN /\ signed \subseteq Signings
    /\ settling \in [Replicas -> [at : {"idle", "sign", "check", "write"}, outcome : FileOutcomes \cup {"none"}, read : Subjects]]
    /\ sweeping \in [Sweepers -> [at : {"idle", "remove", "write"}, read : Subjects]]

\* Approved, unsettled, the reviewed bytes frozen at submit.
ApprovalFileInit ==
    /\ fileOf = Unread /\ expired = FALSE /\ reviewed = TRUE /\ signed = {}
    /\ settling = [r \in Replicas |-> NotSettling]
    /\ sweeping = [s \in Sweepers |-> NotSweeping]

SettlingAt(r, at, outcome, read) == settling' = [settling EXCEPT ![r] = [at |-> at, outcome |-> outcome, read |-> read]]

\* settleApprovedFile: the request as read is approved and has no record; a
\* settlement this replica already runs is joined.
SettleFile(r) ==
    /\ settling[r].at = "idle"
    /\ fileOf.record = "none" /\ ~fileOf.removed
    /\ SettlingAt(r, "sign", "none", Unread)
    /\ UNCHANGED <<fileOf, expired, reviewed, signed, sweeping>>

\* settleRecord declines: opted out, not offered, too large, or the recorder refuses.
DeclineRecord(r) ==
    /\ settling[r].at = "sign"
    /\ SettlingAt(r, "check", "not-recorded", Unread)
    /\ UNCHANGED <<fileOf, expired, reviewed, signed, sweeping>>

\* settleRecord signs the reviewed bytes and storeApprovedParts stores the update under its digest.
StoreApprovedParts(r) ==
    /\ settling[r].at = "sign" /\ reviewed
    /\ \E f \in Signings : /\ f \notin signed /\ f # fileOf.record /\ \A q \in Replicas : settling[q].outcome # f
                           /\ signed' = signed \cup {f}
                           /\ SettlingAt(r, "check", f, Unread)
    /\ UNCHANGED <<fileOf, expired, reviewed, sweeping>>

\* Mutant: the replica that lost drops the parts of the record it found.
DropWinnersParts(r) ==
    /\ settling[r].at = "check"
    /\ IF fileOf.record = "none" THEN SettlingAt(r, "write", settling[r].outcome, fileOf) /\ UNCHANGED signed
       ELSE /\ settling' = [settling EXCEPT ![r] = NotSettling]
            /\ signed' = signed \ {fileOf.record}
    /\ UNCHANGED <<fileOf, expired, reviewed, sweeping>>

\* The request is read again: a record stored meanwhile wins, and this replica drops its own parts.
CheckSettled(r) ==
    /\ settling[r].at = "check"
    /\ IF fileOf.record = "none" THEN SettlingAt(r, "write", settling[r].outcome, fileOf) /\ UNCHANGED signed
       ELSE /\ settling' = [settling EXCEPT ![r] = NotSettling]
            /\ signed' = IF fileOf.record = settling[r].outcome THEN signed ELSE signed \ {settling[r].outcome}
    /\ UNCHANGED <<fileOf, expired, reviewed, sweeping>>

WriteRecord(r) ==
    /\ settling[r].at = "write"
    /\ fileOf' = [settling[r].read EXCEPT !.record = settling[r].outcome]
    /\ settling' = [settling EXCEPT ![r] = NotSettling]
    /\ UNCHANGED <<expired, reviewed, signed, sweeping>>

\* The recorder, the blob store or the store fails, or the replica restarts: parts stay behind.
SettleFails(r) ==
    /\ settling[r].at # "idle"
    /\ settling' = [settling EXCEPT ![r] = NotSettling]
    /\ UNCHANGED <<fileOf, expired, reviewed, signed, sweeping>>

-----------------------------------------------------------------------------
\* Time: the retention of the decision ends.
RetentionEnds == ~expired /\ expired' = TRUE /\ UNCHANGED <<fileOf, reviewed, signed, settling, sweeping>>

\* sweepApprovalArtifacts lists the requests and takes one past its retention.
ListExpired(s) ==
    /\ sweeping[s].at = "idle" /\ expired /\ ~fileOf.removed
    /\ sweeping' = [sweeping EXCEPT ![s] = [at |-> "remove", read |-> fileOf]]
    /\ UNCHANGED <<fileOf, expired, reviewed, signed, settling>>

\* removeArtifactBytes: the reviewed parts and those of the record as listed.
RemoveArtifactBytes(s) ==
    /\ sweeping[s].at = "remove"
    /\ reviewed' = FALSE
    /\ signed' = signed \ {sweeping[s].read.record}
    /\ sweeping' = [sweeping EXCEPT ![s].at = "write"]
    /\ UNCHANGED <<fileOf, expired, settling>>

WriteRemoved(s) ==
    /\ sweeping[s].at = "write"
    /\ fileOf' = [sweeping[s].read EXCEPT !.removed = TRUE]
    /\ sweeping' = [sweeping EXCEPT ![s] = NotSweeping]
    /\ UNCHANGED <<expired, reviewed, signed, settling>>

SweepEnds(s) ==
    /\ sweeping[s].at # "idle"
    /\ sweeping' = [sweeping EXCEPT ![s] = NotSweeping]
    /\ UNCHANGED <<fileOf, expired, reviewed, signed, settling>>

ApprovalFileNext ==
    \/ RetentionEnds
    \/ \E r \in Replicas : SettleFile(r) \/ DeclineRecord(r) \/ StoreApprovedParts(r) \/ CheckSettled(r) \/ WriteRecord(r) \/ SettleFails(r)
    \/ \E s \in Sweepers : ListExpired(s) \/ RemoveArtifactBytes(s) \/ WriteRemoved(s) \/ SweepEnds(s)

ApprovalFileSpec == ApprovalFileInit /\ [][ApprovalFileNext]_approvalFileVars

-----------------------------------------------------------------------------
\* The signed file a download is sent to is stored, within its retention, while
\* replicas settle the same request at once and drop what lost.
RecordedFileStored == fileOf.record \in Signings /\ ~expired => fileOf.record \in signed
=============================================================================
