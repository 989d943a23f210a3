-------------------------------- MODULE Uploads --------------------------------
(***************************************************************************)
(* Scoped uploads: reservation against budgets, parts sent in any order    *)
(* and again, finalize, expiry, and removal by a cancel, a consumer or a   *)
(* sweep (uploads/routes.ts, scoped.ts, parts.ts, postgres.ts).  A handler *)
(* reads the upload once and then awaits; the record and the parts are in  *)
(* two stores, and any handler may end between two awaits.                 *)
(***************************************************************************)
EXTENDS Naturals, FiniteSets

CONSTANTS
    Ids,            \* upload ids: each is reserved at most once
    Parts,          \* parts of a manifest
    Owner,          \* the owner of each id
    Charge,         \* uploadCharge of each id
    Largest,        \* the largest file of its scope, where the scope widens the budgets; else 0
    OwnerBudget,    \* policy.uploads.ownerBudgetBytes
    InstanceBudget, \* policy.uploads.instanceBudgetBytes
    MaxPending,     \* UPLOAD_PENDING_LIMIT
    Puts,           \* part PUTs under way at once
    Finals,         \* finalizes under way at once
    Removals        \* cancels, sweeps and consumers that remove, under way at once

ASSUME UploadAssumption ==
    /\ IsFiniteSet(Ids) /\ Charge \in [Ids -> Nat] /\ Largest \in [Ids -> Nat]
    /\ OwnerBudget \in Nat /\ InstanceBudget \in Nat /\ MaxPending \in Nat

VARIABLES
    record,            \* the record: absent, open, ready, or deleted
    life,           \* its expiry: ahead or past
    stored,         \* parts of each upload in the blob store
    put, final, removal,    \* handlers: the await each is at, and its locals
    begun,          \* history: uploads whose removal has begun
    cut,            \* history: uploads one of whose handlers ended halfway
    straddled       \* history: uploads that expired while a statement was keeping them alive

uploadVars == <<record, life, stored, put, final, removal, begun, cut, straddled>>
records == <<record, life>>
history == <<begun, cut, straddled>>

NoPut == [at |-> "idle"]
PutStates == {NoPut} \cup [at : {"store", "touch", "move", "takeback"}, id : Ids, part : Parts]
FinalStates == {NoPut} \cup [at : {"verify", "mark"}, id : Ids, seen : SUBSET Parts]
Verifying(u, seen) == [at |-> "verify", id |-> u, seen |-> seen]
Removing(at, u, left) == [at |-> at, id |-> u, left |-> left]
RemovalStates == {NoPut} \cup [at : {"first", "row", "second"}, id : Ids, left : SUBSET Parts]

UploadTypeOK ==
    /\ record \in [Ids -> {"none", "open", "ready", "gone"}]
    /\ life \in [Ids -> {"live", "expired"}]
    /\ stored \in [Ids -> SUBSET Parts]
    /\ put \in [Puts -> PutStates] /\ final \in [Finals -> FinalStates] /\ removal \in [Removals -> RemovalStates]
    /\ begun \subseteq Ids /\ cut \subseteq Ids /\ straddled \subseteq Ids

UploadInit ==
    /\ record = [u \in Ids |-> "none"] /\ life = [u \in Ids |-> "live"]
    /\ stored = [u \in Ids |-> {}]
    /\ put = [h \in Puts |-> NoPut] /\ final = [h \in Finals |-> NoPut] /\ removal = [h \in Removals |-> NoPut]
    /\ begun = {} /\ cut = {} /\ straddled = {}

Present(u) == record[u] \in {"open", "ready"}
LiveUpload(u) == Present(u) /\ life[u] = "live"
LiveOf(o) == {u \in Ids : LiveUpload(u) /\ Owner[u] = o}

\* The sum of their charges, as the number of bytes charged: the n-th byte of u is <<u, n>>.
BytesOf(ids) == UNION {{u} \X (1..Charge[u]) : u \in ids}
Total(ids) == Cardinality(BytesOf(ids))

\* A limit of the reservation of u: at least the largest file its scope takes.
Widened(budget, u) == IF Largest[u] > budget THEN Largest[u] ELSE budget

-----------------------------------------------------------------------------
\* reserveUpload: one lock for every reservation, only live rows count.
Reserve(u) ==
    /\ record[u] = "none"
    /\ Cardinality({v \in LiveOf(Owner[u]) : record[v] = "open"}) < MaxPending
    /\ Total(LiveOf(Owner[u])) + Charge[u] <= Widened(OwnerBudget, u)
    /\ Total({v \in Ids : LiveUpload(v)}) + Charge[u] <= Widened(InstanceBudget, u)
    /\ record' = [record EXCEPT ![u] = "open"]
    /\ UNCHANGED <<life, stored, put, final, removal, history>>

\* A statement that found u live is under way.
Moving(u) == (\E h \in Puts : put[h].at = "move" /\ put[h].id = u) \/ (\E h \in Finals : final[h].at = "mark" /\ final[h].id = u)

\* Time: expires_at passes.
Expire(u) ==
    /\ LiveUpload(u)
    /\ life' = [life EXCEPT ![u] = "expired"]
    /\ straddled' = IF Moving(u) THEN straddled \cup {u} ELSE straddled
    /\ UNCHANGED <<record, stored, put, final, removal, begun, cut>>

-----------------------------------------------------------------------------
(* PUT a part: check the record, store the part, keep the upload alive, or *)
(* take the part back when the upload is gone or has expired meanwhile.    *)

BeginPut(h, u, n) ==
    /\ put[h] = NoPut
    /\ record[u] = "open" /\ life[u] = "live"
    /\ put' = [put EXCEPT ![h] = [at |-> "store", id |-> u, part |-> n]]
    /\ UNCHANGED <<records, stored, final, removal, history>>

\* storeTransferPart: the bytes are the declared ones.
StorePart(h) ==
    /\ put[h].at = "store"
    /\ stored' = [stored EXCEPT ![put[h].id] = @ \cup {put[h].part}]
    /\ put' = [put EXCEPT ![h].at = "touch"]
    /\ UNCHANGED <<records, final, removal, history>>

\* Mutant: the update forgets `expires_at > now()` and revives an expired upload.
TouchRevives(h) ==
    /\ put[h].at = "touch"
    /\ put' = [put EXCEPT ![h].at = IF Present(put[h].id) THEN "move" ELSE "takeback"]
    /\ UNCHANGED <<records, stored, final, removal, history>>

\* touchUpload compares expires_at with the time its statement began ...
Touch(h) ==
    /\ put[h].at = "touch"
    /\ put' = [put EXCEPT ![h].at = IF LiveUpload(put[h].id) THEN "move" ELSE "takeback"]
    /\ UNCHANGED <<records, stored, final, removal, history>>

\* ... and moves it out when the statement commits, which may be after it passed: an unfinished
\* upload is live again, unless its time to live is up as well.
MoveExpiry(h) ==
    /\ put[h].at = "move"
    /\ put' = [put EXCEPT ![h] = IF Present(put[h].id) THEN NoPut ELSE [@ EXCEPT !.at = "takeback"]]
    /\ \/ UNCHANGED life
       \/ record[put[h].id] = "open" /\ life' = [life EXCEPT ![put[h].id] = "live"]
    /\ UNCHANGED <<record, stored, final, removal, history>>

TakeBack(h) ==
    /\ put[h].at = "takeback"
    /\ stored' = [stored EXCEPT ![put[h].id] = @ \ {put[h].part}]
    /\ put' = [put EXCEPT ![h] = NoPut]
    /\ UNCHANGED <<records, final, removal, history>>

-----------------------------------------------------------------------------
(* Finalize: verify every part, then mark the record ready.                *)

BeginFinalize(h, u) ==
    /\ final[h] = NoPut
    /\ record[u] = "open" /\ life[u] = "live"
    /\ final' = [final EXCEPT ![h] = Verifying(u, {})]
    /\ UNCHANGED <<records, stored, put, removal, history>>

\* Mutant: a missing part is skipped.
VerifyAnyPart(h, n) ==
    /\ final[h].at = "verify" /\ n \notin final[h].seen
    /\ final' = [final EXCEPT ![h].seen = @ \cup {n}]
    /\ UNCHANGED <<records, stored, put, removal, history>>

\* verifyTransfer heads one part at a time; the first missing one refuses.
VerifyPart(h, n) ==
    /\ final[h].at = "verify" /\ n \notin final[h].seen
    /\ final' = [final EXCEPT ![h] = IF n \in stored[final[h].id] THEN Verifying(final[h].id, final[h].seen \cup {n}) ELSE NoPut]
    /\ UNCHANGED <<records, stored, put, removal, history>>

\* completeUpload compares expires_at with the time its statement began ...
CompleteUpload(h) ==
    /\ final[h].at = "verify" /\ final[h].seen = Parts
    /\ final' = [final EXCEPT ![h] = IF LiveUpload(@.id) THEN [@ EXCEPT !.at = "mark"] ELSE NoPut]
    /\ UNCHANGED <<records, stored, put, removal, history>>

\* ... and marks the record when it commits; finished now, it has a new expiry.
MarkReady(h) ==
    /\ final[h].at = "mark"
    /\ record' = IF Present(final[h].id) THEN [record EXCEPT ![final[h].id] = "ready"] ELSE record
    /\ life' = IF record[final[h].id] = "open" THEN [life EXCEPT ![final[h].id] = "live"] ELSE life
    /\ final' = [final EXCEPT ![h] = NoPut]
    /\ UNCHANGED <<stored, put, removal, history>>

-----------------------------------------------------------------------------
(* removeUpload: the parts, the record, and the parts again.  A cancel or  *)
(* a consumer takes any record it has read; a sweep, an expired one.       *)

BeginRemoval(h, u) ==
    /\ removal[h] = NoPut
    /\ Present(u)
    /\ removal' = [removal EXCEPT ![h] = Removing("first", u, Parts)]
    /\ begun' = begun \cup {u}
    /\ UNCHANGED <<records, stored, put, final, cut, straddled>>

\* removeTransferParts, one part at a time.
RemovePart(h, n) ==
    /\ removal[h].at \in {"first", "second"} /\ n \in removal[h].left
    /\ stored' = [stored EXCEPT ![removal[h].id] = @ \ {n}]
    /\ removal' = [removal EXCEPT ![h] = IF removal[h].left # {n} THEN Removing(removal[h].at, removal[h].id, removal[h].left \ {n})
                                         ELSE IF removal[h].at = "first" THEN Removing("row", removal[h].id, {}) ELSE NoPut]
    /\ UNCHANGED <<records, put, final, history>>

\* Mutant: the parts are not deleted a second time.
DeleteRowLast(h) ==
    /\ removal[h].at = "row"
    /\ record' = [record EXCEPT ![removal[h].id] = "gone"]
    /\ removal' = [removal EXCEPT ![h] = NoPut]
    /\ UNCHANGED <<life, stored, put, final, history>>

DeleteRow(h) ==
    /\ removal[h].at = "row"
    /\ record' = [record EXCEPT ![removal[h].id] = "gone"]
    /\ removal' = [removal EXCEPT ![h] = Removing("second", removal[h].id, Parts)]
    /\ UNCHANGED <<life, stored, put, final, history>>

-----------------------------------------------------------------------------
\* The process of a handler ends between two awaits, or a store fails under it.
PutEnds(h) ==
    /\ put[h].at \in {"touch", "move", "takeback"}
    /\ cut' = cut \cup {put[h].id} /\ put' = [put EXCEPT ![h] = NoPut]
    /\ UNCHANGED <<records, stored, final, removal, begun, straddled>>

FinalEnds(h) ==
    /\ final[h] # NoPut
    /\ final' = [final EXCEPT ![h] = NoPut]
    /\ UNCHANGED <<records, stored, put, removal, history>>

RemovalEnds(h) ==
    /\ removal[h] # NoPut
    /\ cut' = cut \cup {removal[h].id} /\ removal' = [removal EXCEPT ![h] = NoPut]
    /\ UNCHANGED <<records, stored, put, final, begun, straddled>>

UploadNext ==
    \/ \E u \in Ids : Reserve(u) \/ Expire(u)
    \/ \E h \in Puts : \/ StorePart(h) \/ Touch(h) \/ MoveExpiry(h) \/ TakeBack(h) \/ PutEnds(h)
                       \/ \E u \in Ids, n \in Parts : BeginPut(h, u, n)
    \/ \E h \in Finals : CompleteUpload(h) \/ MarkReady(h) \/ FinalEnds(h) \/ (\E u \in Ids : BeginFinalize(h, u)) \/ (\E n \in Parts : VerifyPart(h, n))
    \/ \E h \in Removals : \/ DeleteRow(h) \/ RemovalEnds(h)
                           \/ (\E u \in Ids : BeginRemoval(h, u)) \/ (\E n \in Parts : RemovePart(h, n))

UploadSpec == UploadInit /\ [][UploadNext]_uploadVars

-----------------------------------------------------------------------------
(* Correctness.                                                            *)

\* A live finished upload whose removal has not begun has every part, whatever PUTs
\* take back, whatever a finalize saw before, however the upload expired meanwhile. Only an
\* upload that expired under the very statement that keeps it alive is left out: one PUT
\* takes back a part of it that it found dead, and the statement then revives it.
ReadyHasAllParts ==
    \A u \in Ids : record[u] = "ready" /\ LiveUpload(u) /\ u \notin begun \cup straddled => stored[u] = Parts

\* Once an upload is gone and no handler works on it, no part of it is left,
\* unless one of its handlers ended halfway.
NothingLeftOf(u) ==
    record[u] = "gone" /\ u \notin cut
      /\ (\A h \in Puts : put[h] = NoPut \/ put[h].id # u) /\ (\A h \in Removals : removal[h] = NoPut \/ removal[h].id # u)
    => stored[u] = {}
RemovedLeavesNothing == \A u \in Ids : NothingLeftOf(u)

\* What is live has room in the limit one of the live uploads was reserved under: the
\* budget, or the largest file of that one's scope. So when the wide one is gone the rest
\* fits the budget again, although an expired upload gives its room away while its owner
\* may still be sending parts. Uploads that expired under a statement are not counted.
Fits(S, budget) == S # {} => \E u \in S : Total(S) <= Widened(budget, u)
BudgetsHold ==
    /\ \A u \in Ids : Fits(LiveOf(Owner[u]) \ straddled, OwnerBudget)
    /\ Fits({u \in Ids : LiveUpload(u)} \ straddled, InstanceBudget)
=============================================================================
