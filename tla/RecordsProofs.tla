---------------------------- MODULE RecordsProofs ----------------------------
(***************************************************************************)
(* Theorems about records and the bytes they name: uploads and their parts *)
(* (Uploads), the signed file of an approval (ApprovalFile), and the votes *)
(* an approval's state rests on (Approvals).                               *)
(***************************************************************************)
EXTENDS Uploads, ApprovalFile, Approvals, FiniteSetTheorems, SequenceTheorems, TLAPS

-----------------------------------------------------------------------------
(***************************************************************************)
(* Theorems about Uploads, for any uploads, parts, budgets and handlers.   *)
(***************************************************************************)

\* A handler works on an upload that was reserved; a removal under way has begun.
HandlersKnow ==
    /\ \A h \in Puts : put[h] # NoPut => record[put[h].id] # "none"
    /\ \A h \in Finals : final[h] # NoPut => record[final[h].id] # "none"
    /\ \A h \in Removals : removal[h] # NoPut => removal[h].id \in begun
    /\ \A u \in begun : record[u] # "none"

\* A statement that found its upload live keeps it so, unless the upload expired meanwhile or is gone.
Kept(u) == LiveUpload(u) \/ u \in straddled \/ record[u] = "gone"
MovesTheLive ==
    /\ \A h \in Puts : put[h].at = "move" => Kept(put[h].id)
    /\ \A h \in Finals : final[h].at = "mark" => Kept(final[h].id) /\ final[h].seen = Parts

\* A PUT takes its part back only from an upload that is no longer live, and none ever is
\* again but by a statement it expired under.
TakesBackTheDead == \A h \in Puts : put[h].at = "takeback" => ~LiveUpload(put[h].id) \/ put[h].id \in straddled

\* What a finalize has seen is still there, unless its upload is going away.
SeenIsStored ==
    \A h \in Finals : final[h].at \in {"verify", "mark"} /\ LiveUpload(final[h].id) /\ final[h].id \notin begun \cup straddled
                        => final[h].seen \subseteq stored[final[h].id]

\* A part left of a deleted upload has somebody who will delete it.
Owed(u, n) ==
    \/ \E h \in Puts : put[h].at \in {"touch", "move", "takeback"} /\ put[h].id = u /\ put[h].part = n
    \/ \E h \in Removals : removal[h].at = "second" /\ removal[h].id = u /\ n \in removal[h].left
LeftIsOwed == \A u \in Ids : record[u] = "gone" /\ u \notin cut => \A n \in stored[u] : Owed(u, n)

UploadInv ==
    /\ UploadTypeOK
    /\ HandlersKnow
    /\ MovesTheLive
    /\ TakesBackTheDead
    /\ SeenIsStored
    /\ ReadyHasAllParts
    /\ LeftIsOwed

USE DEF UploadInv, LiveUpload, Present, Verifying, Removing

-----------------------------------------------------------------------------
\* Handlers one step at a time: a handler is idle or works on an upload.
LEMMA HandlerFacts ==
    ASSUME UploadTypeOK
    PROVE  /\ \A h \in Puts : put[h].at \in {"store", "touch", "move", "takeback"} =>
                 put[h] # NoPut /\ put[h].id \in Ids /\ put[h].part \in Parts
           /\ \A h \in Finals : final[h].at \in {"verify", "mark"} =>
                 final[h] # NoPut /\ final[h].id \in Ids /\ final[h].seen \in SUBSET Parts
           /\ \A h \in Removals : removal[h].at \in {"first", "row", "second"} =>
                 removal[h] # NoPut /\ removal[h].id \in Ids /\ removal[h].left \in SUBSET Parts
           /\ \A h \in Puts : put[h] = NoPut \/ put[h].at \in {"store", "touch", "move", "takeback"}
           /\ \A h \in Finals : final[h] = NoPut \/ final[h].at \in {"verify", "mark"}
           /\ \A h \in Removals : removal[h] = NoPut \/ removal[h].at \in {"first", "row", "second"}
  BY DEF UploadTypeOK, NoPut, PutStates, FinalStates, RemovalStates

LEMMA ReserveInv == ASSUME UploadInv, NEW u \in Ids, Reserve(u) PROVE UploadInv'
<1> USE DEF Reserve, records, history
<1>1. record' = [record EXCEPT ![u] = "open"] /\ record[u] = "none" /\ UNCHANGED <<life, stored, put, final, removal, begun, cut, straddled>>
  OBVIOUS
<1>2. UploadTypeOK'
  BY <1>1 DEF UploadTypeOK
<1>3. \A v \in Ids : record'[v] = IF v = u THEN "open" ELSE record[v]
  BY <1>1 DEF UploadTypeOK
<1>4. HandlersKnow'
  BY <1>1, <1>3, HandlerFacts DEF HandlersKnow, UploadTypeOK
<1>5. TakesBackTheDead' /\ MovesTheLive'
  BY <1>1, <1>3, HandlerFacts DEF HandlersKnow, TakesBackTheDead, MovesTheLive, Kept
<1>6. SeenIsStored'
  BY <1>1, <1>3, HandlerFacts DEF HandlersKnow, SeenIsStored
<1>7. ReadyHasAllParts' /\ LeftIsOwed'
  BY <1>1, <1>3 DEF ReadyHasAllParts, LeftIsOwed, Owed
<1> QED BY <1>2, <1>4, <1>5, <1>6, <1>7

LEMMA ExpireInv == ASSUME UploadInv, NEW u \in Ids, Expire(u) PROVE UploadInv'
<1>1. /\ life' = [life EXCEPT ![u] = "expired"] /\ UNCHANGED <<record, stored, put, final, removal, begun, cut>>
      /\ straddled' = IF Moving(u) THEN straddled \cup {u} ELSE straddled
  BY DEF Expire
<1>2. UploadTypeOK'
  BY <1>1 DEF UploadTypeOK
<1>3. straddled \subseteq straddled' /\ \A v \in Ids : life'[v] = IF v = u THEN "expired" ELSE life[v]
  BY <1>1 DEF UploadTypeOK
<1>4. HandlersKnow' /\ LeftIsOwed' /\ ReadyHasAllParts'
  BY <1>1, <1>3 DEF HandlersKnow, LeftIsOwed, Owed, ReadyHasAllParts
<1>5. TakesBackTheDead' /\ SeenIsStored'
  BY <1>1, <1>3, HandlerFacts DEF TakesBackTheDead, SeenIsStored
<1>6. MovesTheLive'
  <2>1. \A v \in Ids : v # u /\ Kept(v) => Kept(v)'
    BY <1>1, <1>3 DEF Kept
  <2>2. Moving(u) => Kept(u)'
    BY <1>1 DEF Kept
  <2> QED BY <1>1, <2>1, <2>2, HandlerFacts DEF MovesTheLive, Moving
<1> QED BY <1>2, <1>4, <1>5, <1>6

-----------------------------------------------------------------------------
(* PUTs.                                                                   *)

LEMMA BeginPutInv == ASSUME UploadInv, NEW h \in Puts, NEW u \in Ids, NEW n \in Parts, BeginPut(h, u, n) PROVE UploadInv'
<1> DEFINE e == [at |-> "store", id |-> u, part |-> n]
<1>1. /\ put' = [put EXCEPT ![h] = e] /\ put[h] = NoPut /\ record[u] # "none"
      /\ UNCHANGED <<record, life, stored, final, removal, begun, cut, straddled>>
  BY DEF BeginPut, records, history
<1>2. UploadTypeOK'
  BY <1>1 DEF UploadTypeOK, PutStates
<1>3. \A g \in Puts : put'[g] = IF g = h THEN e ELSE put[g]
  BY <1>1 DEF UploadTypeOK
<1>4. HandlersKnow' /\ TakesBackTheDead'
  BY <1>1, <1>3 DEF HandlersKnow, TakesBackTheDead
<1>5. SeenIsStored' /\ ReadyHasAllParts' /\ MovesTheLive'
  BY <1>1 DEF SeenIsStored, ReadyHasAllParts, MovesTheLive, Kept
<1>6. LeftIsOwed'
  <2>1. NoPut.at \notin {"touch", "move", "takeback"}
    BY DEF NoPut
  <2> QED BY <1>1, <1>3, <2>1 DEF LeftIsOwed, Owed
<1> QED BY <1>2, <1>4, <1>5, <1>6

LEMMA StorePartInv == ASSUME UploadInv, NEW h \in Puts, StorePart(h) PROVE UploadInv'
<1> DEFINE u == put[h].id
           n == put[h].part
<1>1. /\ put[h].at = "store" /\ u \in Ids /\ n \in Parts /\ put[h] # NoPut
      /\ put' = [put EXCEPT ![h].at = "touch"] /\ stored' = [stored EXCEPT ![u] = @ \cup {n}]
      /\ UNCHANGED <<record, life, final, removal, begun, cut, straddled>>
  BY HandlerFacts DEF StorePart, records, history
<1>2. /\ \A g \in Puts : put'[g] = IF g = h THEN [at |-> "touch", id |-> u, part |-> n] ELSE put[g]
      /\ \A v \in Ids : stored'[v] = IF v = u THEN stored[v] \cup {n} ELSE stored[v]
  <2>1. put[h] \in [at : {"store", "touch", "move", "takeback"}, id : Ids, part : Parts]
    BY <1>1 DEF UploadTypeOK, PutStates
  <2>2. [put[h] EXCEPT !.at = "touch"] = [at |-> "touch", id |-> u, part |-> n]
    BY <2>1
  <2>3. put' = [put EXCEPT ![h] = [put[h] EXCEPT !.at = "touch"]]
    BY <1>1
  <2> HIDE DEF u, n
  <2> QED BY <1>1, <2>2, <2>3 DEF UploadTypeOK
<1>3. UploadTypeOK'
  <2>1. [at |-> "touch", id |-> u, part |-> n] \in PutStates
    BY <1>1 DEF PutStates
  <2> HIDE DEF u, n
  <2>2. put' \in [Puts -> PutStates]
    BY <1>1, <1>2, <2>1 DEF UploadTypeOK
  <2>3. stored' \in [Ids -> SUBSET Parts]
    BY <1>1, <1>2 DEF UploadTypeOK
  <2> QED BY <1>1, <2>2, <2>3 DEF UploadTypeOK
<1>4. HandlersKnow' /\ TakesBackTheDead'
  BY <1>1, <1>2 DEF HandlersKnow, TakesBackTheDead
<1>5. SeenIsStored' /\ ReadyHasAllParts' /\ MovesTheLive'
  BY <1>1, <1>2, HandlerFacts DEF SeenIsStored, ReadyHasAllParts, MovesTheLive, Kept, UploadTypeOK
<1>6. LeftIsOwed'
  <2> SUFFICES ASSUME NEW v \in Ids, record[v] = "gone", v \notin cut, NEW m \in stored'[v] PROVE Owed(v, m)'
    BY <1>1 DEF LeftIsOwed
  <2>1. CASE v = u /\ m = n
    BY <1>1, <1>2, <2>1 DEF Owed
  <2>2. CASE ~(v = u /\ m = n)
    <3>1. Owed(v, m)
      BY <1>2, <2>2 DEF LeftIsOwed
    <3> QED BY <1>1, <1>2, <3>1 DEF Owed
  <2> QED BY <2>1, <2>2
<1> QED BY <1>3, <1>4, <1>5, <1>6

\* A PUT that gets to another stage with its part.
LEMMA PutMoves ==
    ASSUME UploadTypeOK, NEW h \in Puts, put[h].at \in {"touch", "move"}, NEW at \in {"move", "takeback"}
    PROVE  /\ [put[h] EXCEPT !.at = at] = [at |-> at, id |-> put[h].id, part |-> put[h].part]
           /\ [at |-> at, id |-> put[h].id, part |-> put[h].part] \in PutStates
<1>1. put[h] \in [at : {"store", "touch", "move", "takeback"}, id : Ids, part : Parts]
  BY HandlerFacts DEF UploadTypeOK, PutStates, NoPut
<1>2. [put[h] EXCEPT !.at = at] = [at |-> at, id |-> put[h].id, part |-> put[h].part]
  BY <1>1
<1>3. [at |-> at, id |-> put[h].id, part |-> put[h].part] \in [at : {"store", "touch", "move", "takeback"}, id : Ids, part : Parts]
  BY <1>1
<1> QED BY <1>2, <1>3 DEF PutStates

LEMMA TouchInv == ASSUME UploadInv, NEW h \in Puts, Touch(h) PROVE UploadInv'
<1> DEFINE u == put[h].id
           n == put[h].part
           at == IF LiveUpload(u) THEN "move" ELSE "takeback"
           e == [at |-> at, id |-> u, part |-> n]
<1>1. /\ put[h].at = "touch" /\ u \in Ids /\ n \in Parts /\ put[h] # NoPut /\ at \in {"move", "takeback"}
      /\ put' = [put EXCEPT ![h] = [put[h] EXCEPT !.at = at]]
      /\ UNCHANGED <<record, life, stored, final, removal, begun, cut, straddled>>
  BY HandlerFacts DEF Touch, records, history
<1>2. e \in PutStates /\ \A g \in Puts : put'[g] = IF g = h THEN e ELSE put[g]
  <2> HIDE DEF at
  <2>1. e = [put[h] EXCEPT !.at = at] /\ e \in PutStates
    BY <1>1, PutMoves
  <2> HIDE DEF u, n, e
  <2> QED BY <1>1, <2>1 DEF UploadTypeOK
<1>3. UploadTypeOK'
  <2> HIDE DEF u, n, e, at
  <2>1. put' \in [Puts -> PutStates]
    BY <1>1, <1>2 DEF UploadTypeOK
  <2> QED BY <1>1, <2>1 DEF UploadTypeOK
<1>4. HandlersKnow' /\ TakesBackTheDead' /\ MovesTheLive'
  BY <1>1, <1>2 DEF HandlersKnow, TakesBackTheDead, MovesTheLive, Kept
<1>5. SeenIsStored' /\ ReadyHasAllParts'
  BY <1>1 DEF SeenIsStored, ReadyHasAllParts
<1>6. LeftIsOwed'
  <2> SUFFICES ASSUME NEW v \in Ids, record[v] = "gone", v \notin cut, NEW m \in stored[v] PROVE Owed(v, m)'
    BY <1>1 DEF LeftIsOwed
  <2>1. Owed(v, m)
    BY DEF LeftIsOwed
  <2>2. e.at \in {"touch", "move", "takeback"} /\ e.id = u /\ e.part = n
    BY <1>1
  <2> HIDE DEF e, at
  <2> QED BY <1>1, <1>2, <2>1, <2>2 DEF Owed
<1> QED BY <1>3, <1>4, <1>5, <1>6

LEMMA MoveExpiryInv == ASSUME UploadInv, NEW h \in Puts, MoveExpiry(h) PROVE UploadInv'
<1> DEFINE u == put[h].id
           n == put[h].part
           e == [at |-> "takeback", id |-> u, part |-> n]
<1>1. /\ put[h].at = "move" /\ u \in Ids /\ n \in Parts /\ put[h] # NoPut
      /\ put' = [put EXCEPT ![h] = IF Present(u) THEN NoPut ELSE [put[h] EXCEPT !.at = "takeback"]]
      /\ life' = life \/ (record[u] = "open" /\ life' = [life EXCEPT ![u] = "live"])
      /\ UNCHANGED <<record, stored, final, removal, begun, cut, straddled>>
  BY HandlerFacts DEF MoveExpiry, history
<1>2. /\ e \in PutStates
      /\ \A g \in Puts : put'[g] = IF g # h THEN put[g] ELSE IF Present(u) THEN NoPut ELSE e
  <2>1. e = [put[h] EXCEPT !.at = "takeback"] /\ e \in PutStates
    BY <1>1, PutMoves
  <2> HIDE DEF u, n, e
  <2> QED BY <1>1, <2>1 DEF UploadTypeOK
<1>3. \A v \in Ids : /\ LiveUpload(v) => LiveUpload(v)'
                     /\ LiveUpload(v)' => LiveUpload(v) \/ v \in straddled
  <2>1. Kept(u)
    BY <1>1 DEF MovesTheLive
  <2> QED BY <1>1, <2>1 DEF UploadTypeOK, Kept
<1>4. UploadTypeOK'
  <2> HIDE DEF u, n, e
  <2>1. put' \in [Puts -> PutStates]
    BY <1>1, <1>2 DEF UploadTypeOK, PutStates
  <2>2. life' \in [Ids -> {"live", "expired"}]
    BY <1>1 DEF UploadTypeOK
  <2> QED BY <1>1, <2>1, <2>2 DEF UploadTypeOK
<1>5. HandlersKnow'
  BY <1>1, <1>2 DEF HandlersKnow, NoPut
<1>6. TakesBackTheDead' /\ MovesTheLive'
  <2>1. ~Present(u) => ~LiveUpload(u)
    OBVIOUS
  <2>2. \A v \in Ids : Kept(v) => Kept(v)'
    BY <1>1, <1>3 DEF Kept
  <2> HIDE DEF LiveUpload, Present
  <2>3. TakesBackTheDead'
    BY <1>1, <1>2, <1>3, <2>1, HandlerFacts DEF TakesBackTheDead, NoPut
  <2>4. MovesTheLive'
    BY <1>1, <1>2, <2>2, HandlerFacts DEF MovesTheLive, NoPut
  <2> QED BY <2>3, <2>4
<1>7. SeenIsStored' /\ ReadyHasAllParts'
  <2> HIDE DEF LiveUpload
  <2> QED BY <1>1, <1>3, HandlerFacts DEF SeenIsStored, ReadyHasAllParts
<1>8. LeftIsOwed'
  <2> SUFFICES ASSUME NEW v \in Ids, record[v] = "gone", v \notin cut, NEW m \in stored[v] PROVE Owed(v, m)'
    BY <1>1 DEF LeftIsOwed
  <2>1. Owed(v, m)
    BY DEF LeftIsOwed
  <2>2. CASE v = u /\ m = n
    BY <1>1, <1>2, <2>2 DEF Owed
  <2>3. CASE ~(v = u /\ m = n)
    BY <1>1, <1>2, <2>1, <2>3 DEF Owed
  <2> QED BY <2>2, <2>3
<1> QED BY <1>4, <1>5, <1>6, <1>7, <1>8

LEMMA TakeBackInv == ASSUME UploadInv, NEW h \in Puts, TakeBack(h) PROVE UploadInv'
<1> DEFINE u == put[h].id
           n == put[h].part
<1>1. /\ put[h].at = "takeback" /\ u \in Ids /\ (~LiveUpload(u) \/ u \in straddled)
      /\ put' = [put EXCEPT ![h] = NoPut] /\ stored' = [stored EXCEPT ![u] = @ \ {n}]
      /\ UNCHANGED <<record, life, final, removal, begun, cut, straddled>>
  BY HandlerFacts DEF TakeBack, TakesBackTheDead, records, history
<1>2. /\ \A g \in Puts : put'[g] = IF g = h THEN NoPut ELSE put[g]
      /\ \A v \in Ids : stored'[v] = IF v = u THEN stored[v] \ {n} ELSE stored[v]
  BY <1>1 DEF UploadTypeOK
<1>3. UploadTypeOK'
  <2>1. put' \in [Puts -> PutStates] /\ stored' \in [Ids -> SUBSET Parts]
    BY <1>1, <1>2 DEF UploadTypeOK, PutStates
  <2> QED BY <1>1, <2>1 DEF UploadTypeOK
<1>4. HandlersKnow' /\ TakesBackTheDead'
  BY <1>1, <1>2 DEF HandlersKnow, TakesBackTheDead, NoPut
<1>5. SeenIsStored' /\ ReadyHasAllParts' /\ MovesTheLive'
  BY <1>1, <1>2, HandlerFacts DEF SeenIsStored, ReadyHasAllParts, MovesTheLive, Kept, NoPut
<1>6. LeftIsOwed'
  <2> SUFFICES ASSUME NEW v \in Ids, record[v] = "gone", v \notin cut, NEW m \in stored'[v] PROVE Owed(v, m)'
    BY <1>1 DEF LeftIsOwed
  <2>1. Owed(v, m) /\ ~(v = u /\ m = n)
    BY <1>2 DEF LeftIsOwed
  <2> QED BY <1>1, <1>2, <2>1 DEF Owed
<1> QED BY <1>3, <1>4, <1>5, <1>6

LEMMA PutEndsInv == ASSUME UploadInv, NEW h \in Puts, PutEnds(h) PROVE UploadInv'
<1>1. /\ put[h].id \in Ids /\ put' = [put EXCEPT ![h] = NoPut] /\ cut' = cut \cup {put[h].id}
      /\ UNCHANGED <<record, life, stored, final, removal, begun, straddled>>
  BY HandlerFacts DEF PutEnds, records
<1>2. \A g \in Puts : put'[g] = IF g = h THEN NoPut ELSE put[g]
  BY <1>1 DEF UploadTypeOK
<1>3. UploadTypeOK'
  <2>1. put' \in [Puts -> PutStates] /\ cut' \subseteq Ids
    BY <1>1, <1>2 DEF UploadTypeOK, PutStates
  <2> QED BY <1>1, <2>1 DEF UploadTypeOK
<1>4. HandlersKnow' /\ TakesBackTheDead'
  BY <1>1, <1>2 DEF HandlersKnow, TakesBackTheDead, NoPut
<1>5. SeenIsStored' /\ ReadyHasAllParts' /\ MovesTheLive'
  BY <1>1, <1>2 DEF SeenIsStored, ReadyHasAllParts, MovesTheLive, Kept, NoPut
<1>6. LeftIsOwed'
  <2> SUFFICES ASSUME NEW v \in Ids, record[v] = "gone", v \notin cut, v # put[h].id, NEW m \in stored[v] PROVE Owed(v, m)'
    BY <1>1 DEF LeftIsOwed
  <2>1. Owed(v, m)
    BY DEF LeftIsOwed
  <2> QED BY <1>1, <1>2, <2>1 DEF Owed
<1> QED BY <1>3, <1>4, <1>5, <1>6

-----------------------------------------------------------------------------
(* Finalizes.                                                              *)

LEMMA BeginFinalizeInv == ASSUME UploadInv, NEW h \in Finals, NEW u \in Ids, BeginFinalize(h, u) PROVE UploadInv'
<1> DEFINE e == [at |-> "verify", id |-> u, seen |-> {}]
<1>1. final' = [final EXCEPT ![h] = e] /\ record[u] # "none" /\ UNCHANGED <<record, life, stored, put, removal, begun, cut, straddled>>
  BY DEF BeginFinalize, records, history
<1>2. \A g \in Finals : final'[g] = IF g = h THEN e ELSE final[g]
  BY <1>1 DEF UploadTypeOK
<1>3. UploadTypeOK'
  <2>1. final' \in [Finals -> FinalStates]
    BY <1>1, <1>2 DEF UploadTypeOK, FinalStates
  <2> QED BY <1>1, <2>1 DEF UploadTypeOK
<1>4. HandlersKnow' /\ TakesBackTheDead' /\ SeenIsStored' /\ ReadyHasAllParts' /\ MovesTheLive' /\ LeftIsOwed'
  BY <1>1, <1>2 DEF HandlersKnow, TakesBackTheDead, SeenIsStored, ReadyHasAllParts, MovesTheLive, Kept, LeftIsOwed, Owed
<1> QED BY <1>3, <1>4

LEMMA VerifyPartInv == ASSUME UploadInv, NEW h \in Finals, NEW n \in Parts, VerifyPart(h, n) PROVE UploadInv'
<1> DEFINE u == final[h].id
           e == [at |-> "verify", id |-> u, seen |-> final[h].seen \cup {n}]
<1>1. final[h].at = "verify" /\ u \in Ids /\ final[h].seen \in SUBSET Parts /\ record[u] # "none"
  <2>1. final[h].at = "verify"
    BY DEF VerifyPart
  <2> QED BY <2>1, HandlerFacts DEF HandlersKnow
<1>2. /\ final' = [final EXCEPT ![h] = IF n \in stored[u] THEN e ELSE NoPut]
      /\ UNCHANGED <<record, life, stored, put, removal, begun, cut, straddled>>
      /\ \A g \in Finals : final'[g] = IF g # h THEN final[g] ELSE IF n \in stored[u] THEN e ELSE NoPut
  BY DEF VerifyPart, records, history, UploadTypeOK
<1>3. UploadTypeOK'
  <2>1. e \in FinalStates /\ NoPut \in FinalStates
    BY <1>1 DEF FinalStates
  <2> HIDE DEF u, e
  <2>2. final' \in [Finals -> FinalStates]
    BY <1>2, <2>1 DEF UploadTypeOK
  <2> QED BY <1>2, <2>2 DEF UploadTypeOK
<1>4. HandlersKnow'
  BY <1>1, <1>2 DEF HandlersKnow, NoPut
<1>5. SeenIsStored'
  BY <1>1, <1>2 DEF SeenIsStored, NoPut
<1>6. TakesBackTheDead' /\ ReadyHasAllParts' /\ LeftIsOwed'
  BY <1>2 DEF TakesBackTheDead, ReadyHasAllParts, LeftIsOwed, Owed
<1>7. MovesTheLive'
  BY <1>1, <1>2 DEF MovesTheLive, Kept, NoPut
<1> QED BY <1>3, <1>4, <1>5, <1>6, <1>7

LEMMA CompleteInv == ASSUME UploadInv, NEW h \in Finals, CompleteUpload(h) PROVE UploadInv'
<1> DEFINE u == final[h].id
           e == [at |-> "mark", id |-> u, seen |-> Parts]
<1>1. /\ final[h].at = "verify" /\ final[h].seen = Parts /\ u \in Ids /\ record[u] # "none"
      /\ final' = [final EXCEPT ![h] = IF LiveUpload(u) THEN [final[h] EXCEPT !.at = "mark"] ELSE NoPut]
      /\ UNCHANGED <<record, life, stored, put, removal, begun, cut, straddled>>
  <2>1. final[h].at = "verify" /\ final[h].seen = Parts
    BY DEF CompleteUpload
  <2> QED BY <2>1, HandlerFacts DEF CompleteUpload, HandlersKnow, records, history
<1>2. e \in FinalStates /\ \A g \in Finals : final'[g] = IF g # h THEN final[g] ELSE IF LiveUpload(u) THEN e ELSE NoPut
  <2>1. final[h] \in [at : {"verify", "mark"}, id : Ids, seen : SUBSET Parts]
    BY <1>1 DEF UploadTypeOK, FinalStates, NoPut
  <2>2. e = [final[h] EXCEPT !.at = "mark"] /\ e \in FinalStates
    BY <1>1, <2>1 DEF FinalStates
  <2> HIDE DEF u, e
  <2> QED BY <1>1, <2>2 DEF UploadTypeOK
<1>3. UploadTypeOK'
  <2> HIDE DEF u, e
  <2>1. final' \in [Finals -> FinalStates]
    BY <1>1, <1>2 DEF UploadTypeOK, FinalStates
  <2> QED BY <1>1, <2>1 DEF UploadTypeOK
<1>4. HandlersKnow' /\ TakesBackTheDead'
  BY <1>1, <1>2 DEF HandlersKnow, TakesBackTheDead, NoPut
<1>5. SeenIsStored' /\ MovesTheLive'
  BY <1>1, <1>2 DEF SeenIsStored, MovesTheLive, Kept, NoPut
<1>6. ReadyHasAllParts' /\ LeftIsOwed'
  BY <1>1 DEF ReadyHasAllParts, LeftIsOwed, Owed
<1> QED BY <1>3, <1>4, <1>5, <1>6

LEMMA MarkReadyInv == ASSUME UploadInv, NEW h \in Finals, MarkReady(h) PROVE UploadInv'
<1> DEFINE u == final[h].id
<1>1. /\ final[h].at = "mark" /\ final[h].seen = Parts /\ u \in Ids /\ Kept(u)
      /\ record' = IF Present(u) THEN [record EXCEPT ![u] = "ready"] ELSE record
      /\ life' = IF record[u] = "open" THEN [life EXCEPT ![u] = "live"] ELSE life
      /\ final' = [final EXCEPT ![h] = NoPut] /\ UNCHANGED <<stored, put, removal, begun, cut, straddled>>
  BY HandlerFacts DEF MarkReady, MovesTheLive, history
<1>2. /\ \A g \in Finals : final'[g] = IF g = h THEN NoPut ELSE final[g]
      /\ \A v \in Ids : record'[v] = IF v = u /\ Present(u) THEN "ready" ELSE record[v]
  BY <1>1 DEF UploadTypeOK
<1>3. UploadTypeOK'
  <2>1. /\ final' \in [Finals -> FinalStates] /\ record' \in [Ids -> {"none", "open", "ready", "gone"}]
        /\ life' \in [Ids -> {"live", "expired"}]
    BY <1>1, <1>2 DEF UploadTypeOK, FinalStates
  <2> QED BY <1>1, <2>1 DEF UploadTypeOK
<1>4. \A v \in Ids : /\ LiveUpload(v) => LiveUpload(v)'
                     /\ LiveUpload(v)' => LiveUpload(v) \/ v \in straddled
                     /\ record'[v] = "gone" <=> record[v] = "gone"
                     /\ record'[v] = "none" <=> record[v] = "none"
  BY <1>1, <1>2 DEF UploadTypeOK, Kept
<1>5. HandlersKnow'
  BY <1>1, <1>2, <1>4, HandlerFacts DEF HandlersKnow, UploadTypeOK
<1>6. TakesBackTheDead' /\ SeenIsStored' /\ MovesTheLive'
  <2>1. \A v \in Ids : Kept(v) => Kept(v)'
    BY <1>1, <1>4 DEF Kept
  <2> HIDE DEF LiveUpload, Present
  <2>2. TakesBackTheDead' /\ SeenIsStored'
    BY <1>1, <1>2, <1>4, HandlerFacts DEF TakesBackTheDead, SeenIsStored, NoPut
  <2>3. MovesTheLive'
    BY <1>1, <1>2, <2>1, HandlerFacts DEF MovesTheLive, NoPut
  <2> QED BY <2>2, <2>3
<1>7. ReadyHasAllParts'
  <2> SUFFICES ASSUME NEW v \in Ids, record'[v] = "ready", LiveUpload(v), v \notin begun \cup straddled PROVE stored[v] = Parts
    BY <1>1, <1>4 DEF ReadyHasAllParts
  <2>1. CASE v = u
    BY <1>1, <2>1 DEF SeenIsStored, UploadTypeOK
  <2>2. CASE v # u
    BY <1>2, <2>2 DEF ReadyHasAllParts
  <2> QED BY <2>1, <2>2
<1>8. LeftIsOwed'
  BY <1>1, <1>4 DEF LeftIsOwed, Owed
<1> QED BY <1>3, <1>5, <1>6, <1>7, <1>8

LEMMA FinalEndsInv == ASSUME UploadInv, NEW h \in Finals, FinalEnds(h) PROVE UploadInv'
<1>1. final' = [final EXCEPT ![h] = NoPut] /\ UNCHANGED <<record, life, stored, put, removal, begun, cut, straddled>>
  BY DEF FinalEnds, records, history
<1>2. \A g \in Finals : final'[g] = IF g = h THEN NoPut ELSE final[g]
  BY <1>1 DEF UploadTypeOK
<1>3. UploadTypeOK'
  <2>1. final' \in [Finals -> FinalStates]
    BY <1>1, <1>2 DEF UploadTypeOK, FinalStates
  <2> QED BY <1>1, <2>1 DEF UploadTypeOK
<1>4. HandlersKnow' /\ TakesBackTheDead' /\ ReadyHasAllParts' /\ LeftIsOwed'
  BY <1>1, <1>2 DEF HandlersKnow, TakesBackTheDead, ReadyHasAllParts, LeftIsOwed, Owed
<1>5. SeenIsStored' /\ MovesTheLive'
  BY <1>1, <1>2 DEF SeenIsStored, MovesTheLive, Kept, NoPut
<1> QED BY <1>3, <1>4, <1>5

-----------------------------------------------------------------------------
(* Removals.                                                               *)

LEMMA BeginRemovalInv == ASSUME UploadInv, NEW h \in Removals, NEW u \in Ids, BeginRemoval(h, u) PROVE UploadInv'
<1> DEFINE e == [at |-> "first", id |-> u, left |-> Parts]
<1>1. /\ removal' = [removal EXCEPT ![h] = e] /\ begun' = begun \cup {u} /\ removal[h] = NoPut /\ record[u] # "none"
      /\ UNCHANGED <<record, life, stored, put, final, cut, straddled>>
  BY DEF BeginRemoval, records
<1>2. \A g \in Removals : removal'[g] = IF g = h THEN e ELSE removal[g]
  BY <1>1 DEF UploadTypeOK
<1>3. UploadTypeOK'
  <2>1. removal' \in [Removals -> RemovalStates] /\ begun' \subseteq Ids
    BY <1>1, <1>2 DEF UploadTypeOK, RemovalStates
  <2> QED BY <1>1, <2>1 DEF UploadTypeOK
<1>4. HandlersKnow' /\ TakesBackTheDead'
  BY <1>1, <1>2 DEF HandlersKnow, TakesBackTheDead
<1>5. SeenIsStored' /\ ReadyHasAllParts' /\ MovesTheLive'
  BY <1>1 DEF SeenIsStored, ReadyHasAllParts, MovesTheLive, Kept
<1>6. LeftIsOwed'
  BY <1>1, <1>2 DEF LeftIsOwed, Owed, NoPut
<1> QED BY <1>3, <1>4, <1>5, <1>6

LEMMA RemovePartInv == ASSUME UploadInv, NEW h \in Removals, NEW n \in Parts, RemovePart(h, n) PROVE UploadInv'
<1> DEFINE u == removal[h].id
           rest == [at |-> removal[h].at, id |-> u, left |-> removal[h].left \ {n}]
           next == [at |-> "row", id |-> u, left |-> {}]
<1>1. /\ removal[h].at \in {"first", "second"} /\ n \in removal[h].left
      /\ u \in Ids /\ u \in begun /\ removal[h].left \in SUBSET Parts
  <2>1. removal[h].at \in {"first", "second"} /\ n \in removal[h].left
    BY DEF RemovePart
  <2> QED BY <2>1, HandlerFacts DEF HandlersKnow
<1>2. /\ stored' = [stored EXCEPT ![u] = @ \ {n}] /\ UNCHANGED <<record, life, put, final, begun, cut, straddled>>
      /\ removal' = [removal EXCEPT ![h] = IF removal[h].left # {n} THEN rest ELSE IF removal[h].at = "first" THEN next ELSE NoPut]
  BY DEF RemovePart, records, history
<1>3. /\ \A v \in Ids : stored'[v] = IF v = u THEN stored[v] \ {n} ELSE stored[v]
      /\ \A g \in Removals : removal'[g] = IF g # h THEN removal[g]
                                           ELSE IF removal[h].left # {n} THEN rest
                                           ELSE IF removal[h].at = "first" THEN next ELSE NoPut
  BY <1>1, <1>2 DEF UploadTypeOK
<1>4. UploadTypeOK'
  <2>1. rest \in RemovalStates /\ next \in RemovalStates /\ NoPut \in RemovalStates
    BY <1>1 DEF RemovalStates
  <2> HIDE DEF u, rest, next
  <2>2. removal' \in [Removals -> RemovalStates]
    BY <1>2, <1>3, <2>1 DEF UploadTypeOK
  <2>3. stored' \in [Ids -> SUBSET Parts]
    BY <1>2, <1>3 DEF UploadTypeOK
  <2> QED BY <1>2, <2>2, <2>3 DEF UploadTypeOK
<1>5. HandlersKnow' /\ TakesBackTheDead'
  BY <1>1, <1>2, <1>3 DEF HandlersKnow, TakesBackTheDead
<1>6. SeenIsStored' /\ ReadyHasAllParts' /\ MovesTheLive'
  BY <1>1, <1>2, <1>3, HandlerFacts DEF SeenIsStored, ReadyHasAllParts, MovesTheLive, Kept
<1>7. LeftIsOwed'
  <2> SUFFICES ASSUME NEW v \in Ids, record[v] = "gone", v \notin cut, NEW m \in stored'[v] PROVE Owed(v, m)'
    BY <1>2 DEF LeftIsOwed
  <2>1. Owed(v, m) /\ ~(v = u /\ m = n)
    BY <1>3 DEF LeftIsOwed
  <2>2. CASE \E g \in Puts : put[g].at \in {"touch", "move", "takeback"} /\ put[g].id = v /\ put[g].part = m
    BY <1>2, <2>2 DEF Owed
  <2>3. CASE \E g \in Removals : removal[g].at = "second" /\ removal[g].id = v /\ m \in removal[g].left
    <3>1. PICK g \in Removals : removal[g].at = "second" /\ removal[g].id = v /\ m \in removal[g].left
      BY <2>3
    <3>2. removal'[g].at = "second" /\ removal'[g].id = v /\ m \in removal'[g].left
      BY <1>1, <1>3, <2>1, <3>1
    <3> QED BY <3>2 DEF Owed
  <2> QED BY <2>1, <2>2, <2>3 DEF Owed
<1> QED BY <1>4, <1>5, <1>6, <1>7

\* The row goes; whatever is stored now, the second round over all parts will delete.
LEMMA DeleteRowInv == ASSUME UploadInv, NEW h \in Removals, DeleteRow(h) PROVE UploadInv'
<1> DEFINE u == removal[h].id
           e == [at |-> "second", id |-> u, left |-> Parts]
<1>1. removal[h].at = "row" /\ u \in Ids /\ u \in begun
  <2>1. removal[h].at = "row"
    BY DEF DeleteRow
  <2> QED BY <2>1, HandlerFacts DEF HandlersKnow
<1>2. /\ record' = [record EXCEPT ![u] = "gone"] /\ removal' = [removal EXCEPT ![h] = e]
      /\ UNCHANGED <<life, stored, put, final, begun, cut, straddled>>
  BY DEF DeleteRow, history
<1>3. /\ \A v \in Ids : record'[v] = IF v = u THEN "gone" ELSE record[v]
      /\ \A g \in Removals : removal'[g] = IF g = h THEN e ELSE removal[g]
  BY <1>1, <1>2 DEF UploadTypeOK
<1>4. UploadTypeOK'
  <2>1. e \in RemovalStates
    BY <1>1 DEF RemovalStates
  <2> HIDE DEF u, e
  <2>2. removal' \in [Removals -> RemovalStates] /\ record' \in [Ids -> {"none", "open", "ready", "gone"}]
    BY <1>2, <1>3, <2>1 DEF UploadTypeOK
  <2> QED BY <1>2, <2>2 DEF UploadTypeOK
<1>5. HandlersKnow'
  BY <1>1, <1>2, <1>3, HandlerFacts DEF HandlersKnow, UploadTypeOK
<1>6. TakesBackTheDead' /\ SeenIsStored' /\ ReadyHasAllParts' /\ MovesTheLive'
  BY <1>1, <1>2, <1>3, HandlerFacts DEF TakesBackTheDead, SeenIsStored, ReadyHasAllParts, MovesTheLive, Kept
<1>7. LeftIsOwed'
  <2> SUFFICES ASSUME NEW v \in Ids, record'[v] = "gone", v \notin cut, NEW m \in stored[v] PROVE Owed(v, m)'
    BY <1>2 DEF LeftIsOwed
  <2>1. CASE v = u
    <3>1. m \in Parts
      BY DEF UploadTypeOK
    <3>2. removal'[h].at = "second" /\ removal'[h].id = v /\ m \in removal'[h].left
      BY <1>3, <2>1, <3>1
    <3> QED BY <3>2 DEF Owed
  <2>2. CASE v # u
    <3>1. Owed(v, m)
      BY <1>3, <2>2 DEF LeftIsOwed
    <3>2. \A g \in Removals : removal[g].at = "second" => g # h
      BY <1>1
    <3> QED BY <1>2, <1>3, <3>1, <3>2 DEF Owed
  <2> QED BY <2>1, <2>2
<1> QED BY <1>4, <1>5, <1>6, <1>7

LEMMA RemovalEndsInv == ASSUME UploadInv, NEW h \in Removals, RemovalEnds(h) PROVE UploadInv'
<1>1. /\ removal[h].id \in Ids /\ removal' = [removal EXCEPT ![h] = NoPut] /\ cut' = cut \cup {removal[h].id}
      /\ UNCHANGED <<record, life, stored, put, final, begun, straddled>>
  BY HandlerFacts DEF RemovalEnds, records
<1>2. \A g \in Removals : removal'[g] = IF g = h THEN NoPut ELSE removal[g]
  BY <1>1 DEF UploadTypeOK
<1>3. UploadTypeOK'
  <2>1. removal' \in [Removals -> RemovalStates] /\ cut' \subseteq Ids
    BY <1>1, <1>2 DEF UploadTypeOK, RemovalStates
  <2> QED BY <1>1, <2>1 DEF UploadTypeOK
<1>4. HandlersKnow' /\ TakesBackTheDead' /\ SeenIsStored' /\ ReadyHasAllParts' /\ MovesTheLive'
  BY <1>1, <1>2 DEF HandlersKnow, TakesBackTheDead, SeenIsStored, ReadyHasAllParts, MovesTheLive, Kept
<1>5. LeftIsOwed'
  <2> SUFFICES ASSUME NEW v \in Ids, record[v] = "gone", v \notin cut, v # removal[h].id, NEW m \in stored[v] PROVE Owed(v, m)'
    BY <1>1 DEF LeftIsOwed
  <2>1. Owed(v, m)
    BY DEF LeftIsOwed
  <2> QED BY <1>1, <1>2, <2>1 DEF Owed
<1> QED BY <1>3, <1>4, <1>5

-----------------------------------------------------------------------------
(* The theorems.                                                           *)

LEMMA UploadInductive == UploadInv /\ [UploadNext]_uploadVars => UploadInv'
<1> SUFFICES ASSUME UploadInv, [UploadNext]_uploadVars PROVE UploadInv'
  OBVIOUS
<1> HIDE DEF UploadInv
<1>1. ASSUME NEW u \in Ids, Reserve(u) \/ Expire(u) PROVE UploadInv'
  BY <1>1, ReserveInv, ExpireInv
<1>2. ASSUME NEW h \in Puts, \/ StorePart(h) \/ Touch(h) \/ MoveExpiry(h) \/ TakeBack(h) \/ PutEnds(h)
                             \/ \E u \in Ids, n \in Parts : BeginPut(h, u, n)
      PROVE  UploadInv'
  BY <1>2, StorePartInv, TouchInv, MoveExpiryInv, TakeBackInv, PutEndsInv, BeginPutInv
<1>3. ASSUME NEW h \in Finals,
             CompleteUpload(h) \/ MarkReady(h) \/ FinalEnds(h) \/ (\E u \in Ids : BeginFinalize(h, u)) \/ (\E n \in Parts : VerifyPart(h, n))
      PROVE  UploadInv'
  BY <1>3, CompleteInv, MarkReadyInv, FinalEndsInv, BeginFinalizeInv, VerifyPartInv
<1>4. ASSUME NEW h \in Removals, \/ DeleteRow(h) \/ RemovalEnds(h)
                                 \/ (\E u \in Ids : BeginRemoval(h, u)) \/ (\E n \in Parts : RemovePart(h, n))
      PROVE  UploadInv'
  BY <1>4, DeleteRowInv, RemovalEndsInv, BeginRemovalInv, RemovePartInv
<1>5. CASE UNCHANGED uploadVars
  BY <1>5 DEF UploadInv, uploadVars, records, history, UploadTypeOK, HandlersKnow, MovesTheLive, Kept, TakesBackTheDead, SeenIsStored,
              ReadyHasAllParts, LeftIsOwed, Owed
<1> QED BY <1>1, <1>2, <1>3, <1>4, <1>5 DEF UploadNext

LEMMA UploadStarts == UploadInit => UploadInv
  BY DEF UploadInit, UploadTypeOK, NoPut, PutStates, FinalStates, RemovalStates,
         HandlersKnow, MovesTheLive, TakesBackTheDead, SeenIsStored, ReadyHasAllParts, LeftIsOwed

\* Why a finished upload is whole and a deleted one leaves nothing.
THEOREM UploadInvariant == UploadSpec => []UploadInv
<1> HIDE DEF UploadInv
<1> QED BY UploadStarts, UploadInductive, PTL DEF UploadSpec

\* A live finished upload has every part (uploads/routes.ts finalize, scoped.ts), for any
\* overlap of PUTs, finalizes, expiry and removals.
THEOREM FinishedIsWhole == UploadSpec => []ReadyHasAllParts
<1>1. UploadInv => ReadyHasAllParts
  OBVIOUS
<1> HIDE DEF UploadInv
<1> QED BY <1>1, UploadInvariant, PTL

\* A deleted upload leaves no part behind once its handlers are done (scoped.ts removeUpload),
\* unless one of them ended halfway.
THEOREM DeletedIsClean == UploadSpec => []RemovedLeavesNothing
<1>1. ASSUME UploadInv PROVE RemovedLeavesNothing
  BY <1>1, HandlerFacts DEF RemovedLeavesNothing, NothingLeftOf, LeftIsOwed, Owed
<1> HIDE DEF UploadInv
<1> QED BY <1>1, UploadInvariant, PTL

-----------------------------------------------------------------------------
(* Budgets.                                                                *)

\* The bytes of one upload are as many as it is charged for.
LEMMA OneCharge ==
    ASSUME NEW u \in Ids
    PROVE  IsFiniteSet({u} \X (1..Charge[u])) /\ Cardinality({u} \X (1..Charge[u])) = Charge[u]
<1>1. Charge[u] \in Nat /\ 1 \in Int /\ Charge[u] \in Int
  BY UploadAssumption
<1>2. IsFiniteSet({u}) /\ Cardinality({u}) = 1
  BY FS_Singleton
<1>3. IsFiniteSet(1..Charge[u]) /\ Cardinality(1..Charge[u]) = IF 1 > Charge[u] THEN 0 ELSE Charge[u] - 1 + 1
  BY <1>1, FS_Interval, Zenon
<1>4. Cardinality(1..Charge[u]) = Charge[u]
  BY <1>1, <1>3
<1>5. IsFiniteSet({u} \X (1..Charge[u])) /\ Cardinality({u} \X (1..Charge[u])) = Cardinality({u}) * Cardinality(1..Charge[u])
  BY <1>2, <1>3, FS_Product, Zenon
<1> QED BY <1>1, <1>2, <1>4, <1>5

\* The bytes of a set of uploads are finitely many.
LEMMA BytesFinite == ASSUME NEW S \in SUBSET Ids PROVE IsFiniteSet(BytesOf(S)) /\ Total(S) \in Nat
<1> DEFINE bytes(u) == {u} \X (1..Charge[u])
           all == {bytes(u) : u \in S}
<1>1. IsFiniteSet(S)
  BY UploadAssumption, FS_Subset
<1>2. \A X \in all : IsFiniteSet(X)
  BY OneCharge
<1>3. IsFiniteSet(all)
  <2> DEFINE f == [u \in S |-> bytes(u)]
  <2> HIDE DEF bytes
  <2>1. f \in Surjection(S, all)
    BY DEF Surjection
  <2> QED BY <1>1, <2>1, FS_Surjection
<1>4. IsFiniteSet(UNION all)
  BY <1>2, <1>3, FS_UNION
<1> QED BY <1>4, FS_CardinalityType DEF BytesOf, Total

\* Fewer uploads cost no more.
LEMMA FewerCostNoMore ==
    ASSUME NEW S \in SUBSET Ids, NEW T \in SUBSET Ids, T \subseteq S
    PROVE  Total(T) <= Total(S)
<1>1. IsFiniteSet(BytesOf(S)) /\ BytesOf(T) \subseteq BytesOf(S)
  BY BytesFinite DEF BytesOf
<1> QED BY <1>1, FS_Subset DEF Total

\* One upload more costs its charge at most.
LEMMA OneMoreCosts ==
    ASSUME NEW S \in SUBSET Ids, NEW T \in SUBSET Ids, NEW u \in Ids, T \subseteq S \cup {u}
    PROVE  Total(T) <= Total(S) + Charge[u]
<1> DEFINE bytes == {u} \X (1..Charge[u])
           both == BytesOf(S) \cap bytes
<1>1. IsFiniteSet(BytesOf(S)) /\ Total(S) \in Nat /\ Total(T) \in Nat
  BY BytesFinite
<1>2. BytesOf(T) \subseteq BytesOf(S) \cup bytes
  BY DEF BytesOf
<1>3. IsFiniteSet(bytes) /\ Cardinality(bytes) = Charge[u] /\ Charge[u] \in Nat
  BY OneCharge, UploadAssumption
<1>4. both \subseteq bytes
  OBVIOUS
<1> HIDE DEF bytes
<1>5. /\ IsFiniteSet(BytesOf(S) \cup bytes)
      /\ Cardinality(BytesOf(S) \cup bytes) = Cardinality(BytesOf(S)) + Cardinality(bytes) - Cardinality(both)
  BY <1>1, <1>3, FS_Union
<1> HIDE DEF both
<1>6. Cardinality(both) \in Nat
  BY <1>3, <1>4, FS_Subset, FS_CardinalityType
<1>7. Cardinality(BytesOf(T)) <= Cardinality(BytesOf(S) \cup bytes)
  BY <1>2, <1>5, FS_Subset
<1>8. Cardinality(BytesOf(S) \cup bytes) \in Nat
  BY <1>5, FS_CardinalityType
<1> QED BY <1>1, <1>3, <1>5, <1>6, <1>7, <1>8 DEF Total

\* Every live upload; what the instance's budget counts.
AllLive == {u \in Ids : LiveUpload(u)}

\* Any of these uploads would fit on their own; what an expiry or a removal leaves fits again.
Room(S, budget) == \A T \in SUBSET S : Fits(T, budget)
BudgetInv ==
    /\ Room(AllLive \ straddled, InstanceBudget)
    /\ \A o : Room(LiveOf(o) \ straddled, OwnerBudget)

LEMMA FewerHaveRoom == ASSUME NEW S, NEW R, R \subseteq S, NEW budget, Room(S, budget) PROVE Room(R, budget)
  BY DEF Room

\* One upload more, counted with what is live: whatever part of them it is in fits its own limit.
LEMMA OneMoreHasRoom ==
    ASSUME NEW live \in SUBSET Ids, NEW S \in SUBSET live, NEW u \in Ids, NEW budget \in Nat,
           Room(S, budget), Total(live) + Charge[u] <= Widened(budget, u)
    PROVE  Room(S \cup {u}, budget)
<1> SUFFICES ASSUME NEW T \in SUBSET (S \cup {u}) PROVE Fits(T, budget)
  BY DEF Room
<1>1. CASE u \in T
  <2>1. T \subseteq live \cup {u} /\ T \in SUBSET Ids
    OBVIOUS
  <2>2. Total(T) <= Total(live) + Charge[u]
    BY <2>1, OneMoreCosts
  <2>3. Total(T) \in Nat /\ Total(live) \in Nat /\ Charge[u] \in Nat /\ Widened(budget, u) \in Nat
    BY <2>1, BytesFinite, UploadAssumption DEF Widened
  <2>4. Total(T) <= Widened(budget, u)
    BY <2>2, <2>3
  <2> QED BY <1>1, <2>4 DEF Fits
<1>2. CASE u \notin T
  BY <1>2 DEF Room
<1> QED BY <1>1, <1>2

\* Only a reservation makes an upload live, but for one that expired under the statement that revives it.
LEMMA OnlyReserved ==
    ASSUME UploadInv, [UploadNext]_uploadVars, \A u \in Ids : ~Reserve(u), NEW u \in Ids, LiveUpload(u)', u \notin straddled'
    PROVE  LiveUpload(u) /\ u \notin straddled
<1> USE DEF records, history
<1>1. ASSUME NEW v \in Ids, Expire(v) PROVE LiveUpload(u) /\ u \notin straddled
  BY <1>1 DEF Expire, UploadTypeOK
<1>2. ASSUME NEW h \in Puts, MoveExpiry(h) PROVE LiveUpload(u) /\ u \notin straddled
  <2>1. Kept(put[h].id) /\ straddled' = straddled
    BY <1>2 DEF MoveExpiry, MovesTheLive
  <2> QED BY <1>2, <2>1 DEF MoveExpiry, Kept, UploadTypeOK
<1>3. ASSUME NEW h \in Finals, MarkReady(h) PROVE LiveUpload(u) /\ u \notin straddled
  <2>1. Kept(final[h].id) /\ straddled' = straddled
    BY <1>3 DEF MarkReady, MovesTheLive
  <2> QED BY <1>3, <2>1 DEF MarkReady, Kept, UploadTypeOK
<1>4. ASSUME NEW h \in Removals, DeleteRow(h) PROVE LiveUpload(u) /\ u \notin straddled
  BY <1>4 DEF DeleteRow, UploadTypeOK
<1>5. ASSUME NEW h \in Puts, \/ StorePart(h) \/ Touch(h) \/ TakeBack(h) \/ PutEnds(h)
                             \/ \E v \in Ids, n \in Parts : BeginPut(h, v, n)
      PROVE  UNCHANGED <<records, straddled>>
  BY <1>5 DEF StorePart, Touch, TakeBack, PutEnds, BeginPut
<1>6. ASSUME NEW h \in Finals, \/ CompleteUpload(h) \/ FinalEnds(h)
                               \/ (\E v \in Ids : BeginFinalize(h, v)) \/ (\E n \in Parts : VerifyPart(h, n))
      PROVE  UNCHANGED <<records, straddled>>
  BY <1>6 DEF CompleteUpload, FinalEnds, BeginFinalize, VerifyPart
<1>7. ASSUME NEW h \in Removals,
             RemovalEnds(h) \/ (\E v \in Ids : BeginRemoval(h, v)) \/ (\E n \in Parts : RemovePart(h, n))
      PROVE  UNCHANGED <<records, straddled>>
  BY <1>7 DEF RemovalEnds, BeginRemoval, RemovePart
<1>8. CASE UNCHANGED uploadVars
  BY <1>8 DEF uploadVars
<1>9. CASE UNCHANGED <<records, straddled>>
  BY <1>9
<1> QED BY <1>1, <1>2, <1>3, <1>4, <1>5, <1>6, <1>7, <1>8, <1>9 DEF UploadNext

\* A reservation was counted with what is live, under the lock; no other step makes anything live.
LEMMA BudgetsStep == UploadInv /\ BudgetInv /\ [UploadNext]_uploadVars => BudgetInv'
<1> SUFFICES ASSUME UploadInv, BudgetInv, [UploadNext]_uploadVars PROVE BudgetInv'
  OBVIOUS
<1>0. UploadTypeOK /\ OwnerBudget \in Nat /\ InstanceBudget \in Nat
  BY UploadAssumption
<1>1. ASSUME \A v \in Ids : ~Reserve(v) PROVE BudgetInv'
  <2>1. \A u \in Ids : LiveUpload(u)' /\ u \notin straddled' => LiveUpload(u) /\ u \notin straddled
    BY <1>1, OnlyReserved
  <2> HIDE DEF UploadInv, LiveUpload
  <2>2. /\ AllLive' \ straddled' \subseteq AllLive \ straddled
        /\ \A o : LiveOf(o)' \ straddled' \subseteq LiveOf(o) \ straddled
    BY <2>1 DEF AllLive, LiveOf
  <2>3. Room(AllLive' \ straddled', InstanceBudget)
    BY <2>2, FewerHaveRoom DEF BudgetInv
  <2>4. \A o : Room(LiveOf(o)' \ straddled', OwnerBudget)
    BY <2>2, FewerHaveRoom DEF BudgetInv
  <2> QED BY <2>3, <2>4 DEF BudgetInv
<1>2. ASSUME NEW v \in Ids, Reserve(v) PROVE BudgetInv'
  <2>1. /\ Total(LiveOf(Owner[v])) + Charge[v] <= Widened(OwnerBudget, v)
        /\ Total(AllLive) + Charge[v] <= Widened(InstanceBudget, v)
        /\ record' = [record EXCEPT ![v] = "open"] /\ life' = life /\ straddled' = straddled
    BY <1>2 DEF Reserve, AllLive, history
  <2>2. \A u \in Ids : LiveUpload(u)' => LiveUpload(u) \/ u = v
    BY <1>0, <2>1 DEF UploadTypeOK
  <2> HIDE DEF UploadInv, LiveUpload
  <2>3. /\ AllLive' \ straddled' \subseteq (AllLive \ straddled) \cup {v}
        /\ AllLive \in SUBSET Ids /\ AllLive \ straddled \in SUBSET AllLive
    BY <2>1, <2>2 DEF AllLive
  <2>4. Room(AllLive' \ straddled', InstanceBudget)
    <3>1. Room(AllLive \ straddled, InstanceBudget)
      BY DEF BudgetInv
    <3>2. Room((AllLive \ straddled) \cup {v}, InstanceBudget)
      BY <1>0, <2>1, <2>3, <3>1, OneMoreHasRoom
    <3> QED BY <2>3, <3>2, FewerHaveRoom
  <2>5. ASSUME NEW o PROVE Room(LiveOf(o)' \ straddled', OwnerBudget)
    <3>1. /\ LiveOf(o)' \ straddled' \subseteq (LiveOf(o) \ straddled) \cup {v}
          /\ o # Owner[v] => LiveOf(o)' \ straddled' \subseteq LiveOf(o) \ straddled
          /\ LiveOf(o) \in SUBSET Ids /\ LiveOf(o) \ straddled \in SUBSET LiveOf(o)
      BY <2>1, <2>2 DEF LiveOf
    <3>2. Room(LiveOf(o) \ straddled, OwnerBudget)
      BY DEF BudgetInv
    <3>3. CASE o = Owner[v]
      <4>1. Room((LiveOf(o) \ straddled) \cup {v}, OwnerBudget)
        BY <1>0, <2>1, <3>1, <3>2, <3>3, OneMoreHasRoom
      <4> QED BY <3>1, <4>1, FewerHaveRoom
    <3>4. CASE o # Owner[v]
      BY <3>1, <3>2, <3>4, FewerHaveRoom
    <3> QED BY <3>3, <3>4
  <2> QED BY <2>4, <2>5 DEF BudgetInv
<1> QED BY <1>1, <1>2

\* What is live has room in the limit one of the live uploads was reserved under: a room once
\* given away by an expiry is never taken again by a PUT or a finalize that began before
\* (reserveUpload, touchUpload, completeUpload), unless the upload expired under that very statement.
THEOREM BudgetsKept == UploadSpec => []BudgetsHold
<1>1. UploadInit => BudgetInv
  <2> SUFFICES ASSUME UploadInit PROVE BudgetInv
    OBVIOUS
  <2>1. AllLive = {} /\ \A o : LiveOf(o) = {}
    BY DEF UploadInit, AllLive, LiveOf
  <2> QED BY <2>1 DEF BudgetInv, Room, Fits
<1>2. BudgetInv => BudgetsHold
  BY DEF BudgetInv, BudgetsHold, Room, AllLive
<1> HIDE DEF UploadInv
<1> QED BY <1>1, <1>2, BudgetsStep, UploadInvariant, PTL DEF UploadSpec

-----------------------------------------------------------------------------
(***************************************************************************)
(* A theorem about ApprovalFile, for any replicas, sweeps and signings.    *)
(***************************************************************************)

\* Within the retention nothing sweeps, and the parts a replica holds are its own.
NoSweepYet == ~expired => \A s \in Sweepers : sweeping[s].at = "idle"
PartsStored == ~expired => \A r \in Replicas : settling[r].outcome \in Signings => settling[r].outcome \in signed
PartsOwn == \A q, r \in Replicas : settling[q].outcome \in Signings /\ settling[q].outcome = settling[r].outcome => q = r

FileInv ==
    /\ ApprovalFileTypeOK
    /\ NoSweepYet
    /\ PartsStored
    /\ PartsOwn
    /\ RecordedFileStored

SettlingType == [at : {"idle", "sign", "check", "write"}, outcome : FileOutcomes \cup {"none"}, read : Subjects]

USE SigningAssumption DEF FileInv

-----------------------------------------------------------------------------
\* A step of a replica that gives up its outcome, or keeps it, and drops no other's parts.
LEMMA ReplicaMoves ==
    ASSUME FileInv, NEW r \in Replicas, NEW k \in SettlingType, settling' = [settling EXCEPT ![r] = k],
           UNCHANGED <<expired, reviewed, sweeping>>, fileOf' \in Subjects, signed' \subseteq Signings,
           \A f \in signed \ signed' : f = settling[r].outcome /\ f # k.outcome /\ f # fileOf'.record,
           k.outcome \in Signings => k.outcome \in signed' /\ \A q \in Replicas : q # r => settling[q].outcome # k.outcome,
           RecordedFileStored'
    PROVE  FileInv'
<1>1. \A q \in Replicas : settling'[q] = IF q = r THEN k ELSE settling[q]
  BY DEF ApprovalFileTypeOK
<1>2. ApprovalFileTypeOK'
  <2>1. settling' \in [Replicas -> SettlingType]
    BY <1>1 DEF ApprovalFileTypeOK, SettlingType
  <2> QED BY <2>1 DEF ApprovalFileTypeOK, SettlingType
<1>3. NoSweepYet'
  BY DEF NoSweepYet
<1>4. PartsOwn'
  BY <1>1 DEF PartsOwn
<1>5. PartsStored'
  <2> SUFFICES ASSUME ~expired, NEW q \in Replicas, settling'[q].outcome \in Signings PROVE settling'[q].outcome \in signed'
    BY DEF PartsStored
  <2>1. CASE q = r
    BY <1>1, <2>1
  <2>2. CASE q # r
    <3>1. settling'[q] = settling[q] /\ settling[q].outcome \in signed
      BY <1>1, <2>2 DEF PartsStored
    <3>2. settling[q].outcome # settling[r].outcome
      BY <2>2, <3>1 DEF PartsOwn
    <3> QED BY <3>1, <3>2
  <2> QED BY <2>1, <2>2
<1> QED BY <1>2, <1>3, <1>4, <1>5

LEMMA SettlingTyped == ASSUME FileInv, NEW r \in Replicas PROVE settling[r] \in SettlingType /\ fileOf \in Subjects /\ signed \subseteq Signings
  BY DEF ApprovalFileTypeOK, SettlingType

LEMMA NotSettlingTyped == NotSettling \in SettlingType /\ NotSettling.outcome = "none" /\ Unread \in Subjects
  BY DEF NotSettling, SettlingType, Unread, Subjects

LEMMA SettleFileInv == ASSUME FileInv, NEW r \in Replicas, SettleFile(r) \/ DeclineRecord(r) PROVE FileInv'
<1>1. PICK k \in SettlingType : /\ k.outcome \in {"none", "not-recorded"}
                               /\ settling' = [settling EXCEPT ![r] = k]
                               /\ UNCHANGED <<fileOf, expired, reviewed, signed, sweeping>>
  <2>1. CASE SettleFile(r)
    <3>1. [at |-> "sign", outcome |-> "none", read |-> Unread] \in SettlingType
      BY NotSettlingTyped DEF SettlingType
    <3> QED BY <2>1, <3>1 DEF SettleFile, SettlingAt
  <2>2. CASE DeclineRecord(r)
    <3>1. [at |-> "check", outcome |-> "not-recorded", read |-> Unread] \in SettlingType
      BY NotSettlingTyped DEF SettlingType, FileOutcomes
    <3> QED BY <2>2, <3>1 DEF DeclineRecord, SettlingAt
  <2> QED BY <2>1, <2>2
<1>2. RecordedFileStored'
  BY <1>1 DEF RecordedFileStored
<1>3. fileOf' \in Subjects /\ signed' \subseteq Signings
  BY <1>1, SettlingTyped
<1> QED BY <1>1, <1>2, <1>3, ReplicaMoves

LEMMA StorePartsInv == ASSUME FileInv, NEW r \in Replicas, StoreApprovedParts(r) PROVE FileInv'
<1>1. PICK f \in Signings : /\ f \notin signed /\ \A q \in Replicas : settling[q].outcome # f
                           /\ signed' = signed \cup {f} /\ SettlingAt(r, "check", f, Unread)
  BY DEF StoreApprovedParts
<1>2. PICK k \in SettlingType : k = [at |-> "check", outcome |-> f, read |-> Unread]
  BY NotSettlingTyped DEF SettlingType, FileOutcomes
<1>3. settling' = [settling EXCEPT ![r] = k] /\ UNCHANGED <<fileOf, expired, reviewed, sweeping>>
  BY <1>1, <1>2 DEF StoreApprovedParts, SettlingAt
<1>4. RecordedFileStored'
  BY <1>1, <1>3 DEF RecordedFileStored
<1>5. fileOf' \in Subjects /\ signed' \subseteq Signings
  BY <1>1, <1>3, SettlingTyped
<1> QED BY <1>1, <1>2, <1>3, <1>4, <1>5, ReplicaMoves

\* The replica that lost drops its own parts: not the recorded ones, and no other's.
LEMMA CheckInv == ASSUME FileInv, NEW r \in Replicas, CheckSettled(r) PROVE FileInv'
<1>1. /\ settling[r] \in SettlingType /\ fileOf \in Subjects /\ signed \subseteq Signings
      /\ UNCHANGED <<fileOf, expired, reviewed, sweeping>>
  BY SettlingTyped DEF CheckSettled
<1>2. CASE fileOf.record = "none"
  <2>1. PICK k \in SettlingType : k = [at |-> "write", outcome |-> settling[r].outcome, read |-> fileOf]
    BY <1>1 DEF SettlingType
  <2>2. settling' = [settling EXCEPT ![r] = k] /\ signed' = signed
    BY <1>2, <2>1 DEF CheckSettled, SettlingAt
  <2>3. RecordedFileStored' /\ k.outcome = settling[r].outcome
    BY <1>1, <2>1, <2>2 DEF RecordedFileStored
  <2>4. \A q \in Replicas : settling'[q].outcome = settling[q].outcome
    BY <2>2, <2>3 DEF ApprovalFileTypeOK
  <2>5. ApprovalFileTypeOK'
    <3>1. settling' \in [Replicas -> SettlingType]
      BY <2>2 DEF ApprovalFileTypeOK, SettlingType
    <3> QED BY <1>1, <2>2, <3>1 DEF ApprovalFileTypeOK, SettlingType
  <2> QED BY <1>1, <2>2, <2>3, <2>4, <2>5 DEF NoSweepYet, PartsStored, PartsOwn
<1>3. CASE fileOf.record # "none"
  <2>1. settling' = [settling EXCEPT ![r] = NotSettling]
    BY <1>3 DEF CheckSettled
  <2>2. signed' = IF fileOf.record = settling[r].outcome THEN signed ELSE signed \ {settling[r].outcome}
    BY <1>3 DEF CheckSettled
  <2>3. RecordedFileStored'
    BY <1>1, <2>2 DEF RecordedFileStored
  <2>4. \A f \in signed \ signed' : f = settling[r].outcome /\ f # NotSettling.outcome /\ f # fileOf'.record
    BY <1>1, <2>2, NotSettlingTyped
  <2>5. fileOf' \in Subjects /\ signed' \subseteq Signings /\ NotSettling.outcome \notin Signings
    BY <1>1, <2>2, NotSettlingTyped
  <2>6. PICK k \in SettlingType : k = NotSettling
    BY NotSettlingTyped
  <2> QED BY <1>1, <2>1, <2>3, <2>4, <2>5, <2>6, ReplicaMoves
<1> QED BY <1>2, <1>3

LEMMA WriteRecordInv == ASSUME FileInv, NEW r \in Replicas, WriteRecord(r) PROVE FileInv'
<1>1. /\ settling[r] \in SettlingType /\ signed \subseteq Signings
      /\ UNCHANGED <<expired, reviewed, signed, sweeping>> /\ settling' = [settling EXCEPT ![r] = NotSettling]
      /\ fileOf' = [settling[r].read EXCEPT !.record = settling[r].outcome]
  BY SettlingTyped DEF WriteRecord
<1>2. PICK k \in SettlingType : k = NotSettling
  BY NotSettlingTyped
<1>3. fileOf' \in Subjects /\ fileOf'.record = settling[r].outcome
  BY <1>1 DEF SettlingType, Subjects
<1>4. RecordedFileStored'
  BY <1>1, <1>3 DEF RecordedFileStored, PartsStored
<1>5. k.outcome \notin Signings
  BY <1>2, NotSettlingTyped
<1> QED BY <1>1, <1>2, <1>3, <1>4, <1>5, ReplicaMoves

LEMMA SettleFailsInv == ASSUME FileInv, NEW r \in Replicas, SettleFails(r) PROVE FileInv'
<1>1. UNCHANGED <<fileOf, expired, reviewed, signed, sweeping>> /\ settling' = [settling EXCEPT ![r] = NotSettling]
  BY DEF SettleFails
<1>2. PICK k \in SettlingType : k = NotSettling
  BY NotSettlingTyped
<1>3. fileOf' \in Subjects /\ signed' \subseteq Signings /\ k.outcome \notin Signings
  BY <1>1, <1>2, SettlingTyped, NotSettlingTyped
<1>4. RecordedFileStored'
  BY <1>1 DEF RecordedFileStored
<1> QED BY <1>1, <1>2, <1>3, <1>4, ReplicaMoves

-----------------------------------------------------------------------------
\* A sweep under way means the retention has ended, and nothing is promised any more.
LEMMA SweepInv ==
    ASSUME FileInv, NEW s \in Sweepers, ListExpired(s) \/ RemoveArtifactBytes(s) \/ WriteRemoved(s) \/ SweepEnds(s)
    PROVE  FileInv'
<1>1. expired /\ expired' = expired /\ settling' = settling
  BY DEF ListExpired, RemoveArtifactBytes, WriteRemoved, SweepEnds, NoSweepYet
<1>2. sweeping[s] \in [at : {"idle", "remove", "write"}, read : Subjects] /\ NotSweeping \in [at : {"idle", "remove", "write"}, read : Subjects]
  BY NotSettlingTyped DEF ApprovalFileTypeOK, NotSweeping
<1>3. ApprovalFileTypeOK'
  <2>1. CASE ListExpired(s)
    BY <1>1, <2>1 DEF ListExpired, ApprovalFileTypeOK
  <2>2. CASE RemoveArtifactBytes(s)
    BY <1>1, <1>2, <2>2 DEF RemoveArtifactBytes, ApprovalFileTypeOK
  <2>3. CASE WriteRemoved(s)
    <3>1. fileOf' \in Subjects
      BY <1>2, <2>3 DEF WriteRemoved, Subjects
    <3> QED BY <1>1, <1>2, <2>3, <3>1 DEF WriteRemoved, ApprovalFileTypeOK
  <2>4. CASE SweepEnds(s)
    BY <1>1, <1>2, <2>4 DEF SweepEnds, ApprovalFileTypeOK
  <2> QED BY <2>1, <2>2, <2>3, <2>4
<1> QED BY <1>1, <1>3 DEF NoSweepYet, PartsStored, PartsOwn, RecordedFileStored

LEMMA FileInductive == FileInv /\ [ApprovalFileNext]_approvalFileVars => FileInv'
<1> SUFFICES ASSUME FileInv, [ApprovalFileNext]_approvalFileVars PROVE FileInv'
  OBVIOUS
<1> HIDE DEF FileInv
<1>1. CASE RetentionEnds
  BY <1>1 DEF FileInv, RetentionEnds, ApprovalFileTypeOK, NoSweepYet, PartsStored, PartsOwn, RecordedFileStored
<1>2. ASSUME NEW r \in Replicas, \/ SettleFile(r) \/ DeclineRecord(r) \/ StoreApprovedParts(r)
                                 \/ CheckSettled(r) \/ WriteRecord(r) \/ SettleFails(r)
      PROVE  FileInv'
  BY <1>2, SettleFileInv, StorePartsInv, CheckInv, WriteRecordInv, SettleFailsInv
<1>3. ASSUME NEW s \in Sweepers, ListExpired(s) \/ RemoveArtifactBytes(s) \/ WriteRemoved(s) \/ SweepEnds(s) PROVE FileInv'
  BY <1>3, SweepInv
<1>4. CASE UNCHANGED approvalFileVars
  BY <1>4 DEF FileInv, approvalFileVars, ApprovalFileTypeOK, NoSweepYet, PartsStored, PartsOwn, RecordedFileStored
<1> QED BY <1>1, <1>2, <1>3, <1>4 DEF ApprovalFileNext

LEMMA FileStarts == ApprovalFileInit => FileInv
<1> SUFFICES ASSUME ApprovalFileInit PROVE FileInv
  OBVIOUS
<1>1. /\ fileOf = Unread /\ expired = FALSE /\ reviewed = TRUE /\ signed = {}
      /\ settling = [r \in Replicas |-> NotSettling] /\ sweeping = [s \in Sweepers |-> NotSweeping]
  BY DEF ApprovalFileInit
<1>2. NotSweeping \in [at : {"idle", "remove", "write"}, read : Subjects] /\ NotSweeping.at = "idle"
  BY NotSettlingTyped DEF NotSweeping
<1>3. ApprovalFileTypeOK
  BY <1>1, <1>2, NotSettlingTyped DEF ApprovalFileTypeOK, SettlingType
<1>4. "none" \notin Signings /\ fileOf.record = "none"
  BY <1>1 DEF Unread
<1>5. RecordedFileStored
  BY <1>4 DEF RecordedFileStored
<1>6. \A r \in Replicas : settling[r].outcome = "none"
  BY <1>1, NotSettlingTyped
<1>7. PartsStored /\ PartsOwn
  BY <1>4, <1>6 DEF PartsStored, PartsOwn
<1>8. NoSweepYet
  BY <1>1, <1>2 DEF NoSweepYet
<1> QED BY <1>3, <1>5, <1>7, <1>8

\* The recorded file of an approved request can be downloaded within its retention
\* (approvals/export-review.ts), however many replicas settle it at once.
THEOREM RecordedFileKept == ApprovalFileSpec => []RecordedFileStored
<1>1. FileInv => RecordedFileStored
  OBVIOUS
<1> HIDE DEF FileInv
<1> QED BY <1>1, FileStarts, FileInductive, PTL DEF ApprovalFileSpec

-----------------------------------------------------------------------------
(***************************************************************************)
(* Theorems about Approvals, for any chain, members and handlers.          *)
(***************************************************************************)

HIDE SigningAssumption DEF UploadInv, LiveUpload, Present, Verifying, Removing, FileInv

\* Who approved a step, and when its rule is met, read from the votes alone.
ApproveVote(m, s) == [by |-> m, step |-> s, vote |-> "approve"]
ApprovedIn(votes, m, s) == \E i \in DOMAIN votes : votes[i] = ApproveVote(m, s)
MetBy(votes, s) ==
    /\ \E m \in Members : ApprovedIn(votes, m, s)
    /\ Chain[s].rule = "all" /\ s = 1 => \A m \in Nominees : ApprovedIn(votes, m, s)
    /\ Chain[s].rule = "quorum" => Cardinality({m \in Members : ApprovedIn(votes, m, s)}) >= Chain[s].quorum

\* Every vote is by somebody its step allows, at a step that was reached.
VotesAllowed(a) ==
    \A i \in DOMAIN a.votes : /\ a.votes[i].by # Submitter /\ a.votes[i].by \in Chain[a.votes[i].step].who
                              /\ a.votes[i].step <= a.step
\* The steps passed are those whose rule is met; a rejection is the last vote of a rejected request.
StepsMet(a) == \A s \in 1..Len(Chain) : s < a.step <=> MetBy(a.votes, s)
RejectLast(a) == \A i \in DOMAIN a.votes : a.votes[i].vote = "reject" => i = Len(a.votes) /\ a.state = "rejected"

\* An open request is at a step of the chain, with the nominees of the first one only.
OpenFits(a) ==
    /\ a.state = "in_review" => a.step <= Len(Chain) /\ a.nominees = IF a.step = 1 THEN Nominees ELSE {}
    /\ a.state = "approved" => a.step > Len(Chain)

\* The votes of a request justify the rest of it.
Justified(a) == a \in Requests /\ VotesAllowed(a) /\ StepsMet(a) /\ RejectLast(a) /\ OpenFits(a)

ApprovalInv == Justified(request) /\ handler \in [Handlers -> Requests \cup {Idle}]
                 /\ \A h \in Handlers : handler[h] # Idle => Justified(handler[h])

-----------------------------------------------------------------------------
\* Nominees are approvers of the first step.
LEMMA NomineesAreMembers == Nominees \subseteq Members /\ Nominees \subseteq Chain[1].who
<1> DEFINE Step == [who : SUBSET Members, rule : {"any", "all", "quorum"}, quorum : Nat \ {0}]
<1>1. Chain \in Seq(Step) /\ Chain # <<>>
  BY ApprovalAssumption
<1> HIDE DEF Step
<1>2. Chain[1] \in Step
  BY <1>1
<1>3. Chain[1].who \subseteq Members
  BY <1>2 DEF Step
<1> QED  BY <1>3, ApprovalAssumption

\* A sequence of votes within the bound.
VoteLists == UNION {[1..n -> Votes] : n \in 0..MaxVotes}

\* A request with a new state, step, nominees and votes.
Written(a, state, step, nominees, votes) ==
    [a EXCEPT !.state = state, !.step = step, !.nominees = nominees, !.votes = votes]

LEMMA RequestWritten ==
    ASSUME NEW a \in Requests, NEW state \in {"in_review", "approved", "rejected", "withdrawn"},
           NEW step \in 1..Len(Chain) + 1, NEW nominees \in SUBSET Members, NEW votes \in VoteLists
    PROVE  LET b == Written(a, state, step, nominees, votes)
           IN  b \in Requests /\ b.state = state /\ b.step = step /\ b.nominees = nominees /\ b.votes = votes
<1> HIDE DEF VoteLists
<1>1. Requests = [state : {"in_review", "approved", "rejected", "withdrawn"}, step : 1..Len(Chain) + 1,
                  nominees : SUBSET Members, votes : VoteLists]
  BY DEF Requests, VoteLists
<1> QED  BY <1>1 DEF Written

\* What a request consists of.
LEMMA RequestFields ==
    ASSUME NEW a \in Requests
    PROVE  /\ a.state \in {"in_review", "approved", "rejected", "withdrawn"} /\ a.step \in 1..Len(Chain) + 1
           /\ a.nominees \in SUBSET Members /\ a.votes \in VoteLists
           /\ a = [state |-> a.state, step |-> a.step, nominees |-> a.nominees, votes |-> a.votes]
  BY DEF Requests, VoteLists

\* One more vote.
LEMMA VoteAppended ==
    ASSUME NEW a \in Requests, Len(a.votes) < MaxVotes, NEW v \in Votes
    PROVE  /\ Append(a.votes, v) \in UNION {[1..n -> Votes] : n \in 0..MaxVotes}
           /\ DOMAIN a.votes = 1..Len(a.votes) /\ Len(a.votes) \in Nat
           /\ \A i \in DOMAIN a.votes : a.votes[i] \in Votes
           /\ DOMAIN Append(a.votes, v) = 1..Len(a.votes) + 1
           /\ Len(Append(a.votes, v)) = Len(a.votes) + 1
           /\ \A i \in DOMAIN a.votes : Append(a.votes, v)[i] = a.votes[i]
           /\ Append(a.votes, v)[Len(a.votes) + 1] = v
<1>1. PICK n \in 0..MaxVotes : a.votes \in [1..n -> Votes]
  BY DEF Requests
<1>2. a.votes \in Seq(Votes) /\ Len(a.votes) = n /\ n \in Nat
  BY <1>1, ApprovalAssumption
<1>3. Append(a.votes, v) \in [1..n + 1 -> Votes]
  <2> DEFINE w == Append(a.votes, v)
  <2>1. w \in Seq(Votes) /\ Len(w) = n + 1
    BY <1>2, AppendProperties
  <2> HIDE DEF w
  <2>2. w \in [1..n + 1 -> Votes]
    BY <2>1, LenProperties
  <2> QED  BY <2>2 DEF w
<1>4. n + 1 \in 0..MaxVotes
  BY <1>2, ApprovalAssumption
<1>5. DOMAIN a.votes = 1..n /\ \A i \in 1..n : a.votes[i] \in Votes
  BY <1>1
<1>6. /\ DOMAIN Append(a.votes, v) = 1..n + 1 /\ Len(Append(a.votes, v)) = n + 1
      /\ \A i \in 1..n : Append(a.votes, v)[i] = a.votes[i]
      /\ Append(a.votes, v)[n + 1] = v
  BY <1>1, <1>2
<1> QED  BY <1>2, <1>3, <1>4, <1>5, <1>6

\* A rejection changes nobody's approval, and an approval only that of its voter at its step.
LEMMA ApprovalsAppended ==
    ASSUME NEW a \in Requests, Len(a.votes) < MaxVotes, NEW v \in Votes, NEW m \in Members, NEW s \in 1..Len(Chain)
    PROVE  ApprovedIn(Append(a.votes, v), m, s) <=> ApprovedIn(a.votes, m, s) \/ v = ApproveVote(m, s)
<1>1. \A i \in 1..Len(a.votes) + 1 : i \in 1..Len(a.votes) \/ i = Len(a.votes) + 1
  BY VoteAppended
<1>2. \A i \in 1..Len(a.votes) : i \in 1..Len(a.votes) + 1
  BY VoteAppended
<1>3. Len(a.votes) + 1 \in 1..Len(a.votes) + 1
  BY VoteAppended
<1>4. ASSUME ApprovedIn(Append(a.votes, v), m, s) PROVE ApprovedIn(a.votes, m, s) \/ v = ApproveVote(m, s)
  <2>1. PICK i \in 1..Len(a.votes) + 1 : Append(a.votes, v)[i] = ApproveVote(m, s)
    BY <1>4, VoteAppended DEF ApprovedIn
  <2> QED  BY <2>1, <1>1, VoteAppended DEF ApprovedIn
<1>5. ASSUME ApprovedIn(a.votes, m, s) PROVE ApprovedIn(Append(a.votes, v), m, s)
  <2>1. PICK i \in 1..Len(a.votes) : a.votes[i] = ApproveVote(m, s)
    BY <1>5, VoteAppended DEF ApprovedIn
  <2> QED  BY <2>1, <1>2, VoteAppended DEF ApprovedIn
<1>6. ASSUME v = ApproveVote(m, s) PROVE ApprovedIn(Append(a.votes, v), m, s)
  BY <1>6, <1>3, VoteAppended DEF ApprovedIn
<1> QED  BY <1>4, <1>5, <1>6

\* The rule of a step is met by the votes before a vote at another step as by those after it.
LEMMA OtherStepsKeep ==
    ASSUME NEW a \in Requests, Len(a.votes) < MaxVotes, NEW v \in Votes, NEW s \in 1..Len(Chain),
           v.vote = "approve" => v.step # s
    PROVE  MetBy(Append(a.votes, v), s) <=> MetBy(a.votes, s)
<1>1. \A m \in Members : v # ApproveVote(m, s)
  BY DEF ApproveVote
<1>2. \A m \in Members : ApprovedIn(Append(a.votes, v), m, s) <=> ApprovedIn(a.votes, m, s)
  BY <1>1, ApprovalsAppended
<1>3. {m \in Members : ApprovedIn(Append(a.votes, v), m, s)} = {m \in Members : ApprovedIn(a.votes, m, s)}
  BY <1>2
<1>4. Nominees \subseteq Members
  BY NomineesAreMembers
<1> QED  BY <1>2, <1>3, <1>4 DEF MetBy

\* What the engine calls cleared is what the votes say is met.
LEMMA ClearsIsMet ==
    ASSUME NEW votes, \A i \in DOMAIN votes : votes[i] \in Votes, NEW s \in 1..Len(Chain)
    PROVE  StepClears(Chain[s], IF s = 1 THEN Nominees ELSE {}, ApproversOf(votes, s)) <=> MetBy(votes, s)
<1>1. ApproversOf(votes, s) = {m \in Members : ApprovedIn(votes, m, s)}
  <2>1. \A i \in DOMAIN votes : /\ votes[i].by \in Members
                                /\ votes[i].step = s /\ votes[i].vote = "approve" => votes[i] = ApproveVote(votes[i].by, s)
    BY DEF Votes, ApproveVote
  <2>2. \A m \in Members : m = ApproveVote(m, s).by /\ ApproveVote(m, s).step = s /\ ApproveVote(m, s).vote = "approve"
    BY DEF ApproveVote
  <2> QED  BY <2>1, <2>2 DEF ApproversOf, ApprovedIn
<1>2. Nominees \subseteq Members
  BY NomineesAreMembers
<1>3. s = 1 => (Nominees \subseteq {m \in Members : ApprovedIn(votes, m, s)} <=> \A m \in Nominees : ApprovedIn(votes, m, s))
  BY <1>2
<1>4. (\E m \in Members : ApprovedIn(votes, m, s)) <=> {m \in Members : ApprovedIn(votes, m, s)} # {}
  OBVIOUS
<1> QED  BY <1>1, <1>3, <1>4 DEF StepClears, MetBy

\* The engine's decision on a request that is open as read keeps it justified.
LEMMA DecisionJustified ==
    ASSUME NEW a, Justified(a), Len(a.votes) < MaxVotes, NEW m \in Members, NEW vote \in {"approve", "reject"}, MayAct(a, m)
    PROVE  Justified(ApplyAction(a, m, vote))
<1> DEFINE v == [by |-> m, step |-> a.step, vote |-> vote]
           votes == Append(a.votes, v)
           next == ApplyAction(a, m, vote)
           clears == StepClears(Chain[a.step], a.nominees, ApproversOf(votes, a.step))
           last == a.step = Len(Chain)
<1>1. a \in Requests /\ a.state = "in_review" /\ a.step \in 1..Len(Chain) /\ Len(Chain) \in Nat
      /\ a.nominees = IF a.step = 1 THEN Nominees ELSE {}
  <2>1. a \in Requests /\ a.state = "in_review"
    BY DEF Justified, MayAct, IsTerminal, Requests
  <2>2. a.step \in 1..Len(Chain) + 1 /\ Len(Chain) \in Nat
    BY <2>1, ApprovalAssumption DEF Requests
  <2> QED  BY <2>1, <2>2 DEF Justified, OpenFits
<1>2. v \in Votes /\ v.by = m /\ v.step = a.step /\ v.vote = vote
  BY <1>1 DEF Votes
<1>3. m # Submitter /\ m \in Chain[a.step].who
  BY DEF MayAct
<1>4. /\ votes \in UNION {[1..n -> Votes] : n \in 0..MaxVotes}
      /\ DOMAIN a.votes = 1..Len(a.votes) /\ Len(a.votes) \in Nat
      /\ DOMAIN votes = 1..Len(a.votes) + 1 /\ Len(votes) = Len(a.votes) + 1
      /\ \A i \in 1..Len(a.votes) : votes[i] = a.votes[i]
      /\ votes[Len(a.votes) + 1] = v
      /\ \A i \in DOMAIN votes : votes[i] \in Votes
  <2>1. Len(a.votes) \in Nat /\ DOMAIN votes = 1..Len(a.votes) + 1
    BY <1>1, <1>2, VoteAppended
  <2>2. \A i \in DOMAIN votes : i \in 1..Len(a.votes) \/ i = Len(a.votes) + 1
    BY <2>1
  <2>3. \A i \in DOMAIN votes : votes[i] \in Votes
    BY <2>2, <1>1, <1>2, VoteAppended
  <2> HIDE DEF v
  <2>4. /\ votes \in UNION {[1..n -> Votes] : n \in 0..MaxVotes}
        /\ DOMAIN a.votes = 1..Len(a.votes) /\ DOMAIN votes = 1..Len(a.votes) + 1 /\ Len(votes) = Len(a.votes) + 1
        /\ \A i \in DOMAIN a.votes : votes[i] = a.votes[i]
        /\ votes[Len(a.votes) + 1] = v
    BY <1>1, <1>2, VoteAppended, Zenon
  <2> HIDE DEF votes
  <2> QED  BY <2>1, <2>3, <2>4
<1>5. clears <=> MetBy(votes, a.step)
  BY <1>1, <1>4, ClearsIsMet
<1>6. \A s \in 1..Len(Chain) : (vote = "approve" => s # a.step) => (MetBy(votes, s) <=> MetBy(a.votes, s))
  BY <1>1, <1>2, OtherStepsKeep
<1> HIDE DEF v, votes, clears
<1>7. /\ next.votes = votes
      /\ next.step \in {a.step, a.step + 1}
      /\ next.step = a.step + 1 <=> vote = "approve" /\ clears
      /\ vote = "reject" => next.state = "rejected"
      /\ vote = "approve" => next.state = IF clears /\ last THEN "approved" ELSE "in_review"
      /\ next.nominees = IF vote = "approve" /\ clears /\ ~last THEN {} ELSE a.nominees
      /\ next \in Requests
  <2>a. a = [state |-> a.state, step |-> a.step, nominees |-> a.nominees, votes |-> a.votes] /\ a.nominees \in SUBSET Members
        /\ a.step \in 1..Len(Chain) + 1 /\ a.step + 1 \in 1..Len(Chain) + 1 /\ a.step + 1 # a.step /\ {} \in SUBSET Members
    BY <1>1, RequestFields
  <2>b. votes \in VoteLists
    BY <1>4 DEF VoteLists
  <2>1. CASE vote = "reject"
    <3>1. next = Written(a, "rejected", a.step, a.nominees, votes)
      BY <2>1, <2>a DEF ApplyAction, Written, v, votes
    <3> HIDE DEF next
    <3>2. next \in Requests /\ next.state = "rejected" /\ next.step = a.step /\ next.nominees = a.nominees /\ next.votes = votes
      BY <3>1, <2>a, <2>b, <1>1, RequestWritten
    <3> QED  BY <2>1, <2>a, <3>2
  <2>2. CASE vote = "approve" /\ ~clears
    <3>1. next = Written(a, "in_review", a.step, a.nominees, votes)
      BY <2>2, <2>a, <1>1 DEF ApplyAction, Written, v, votes, clears
    <3> HIDE DEF next
    <3>2. next \in Requests /\ next.state = "in_review" /\ next.step = a.step /\ next.nominees = a.nominees /\ next.votes = votes
      BY <3>1, <2>a, <2>b, <1>1, RequestWritten
    <3> QED  BY <2>2, <2>a, <3>2
  <2>3. CASE vote = "approve" /\ clears
    <3> DEFINE state == IF last THEN "approved" ELSE "in_review"
               nominees == IF last THEN a.nominees ELSE {}
    <3>1. next = Written(a, state, a.step + 1, nominees, votes)
      BY <2>3, <2>a DEF ApplyAction, Written, v, votes, clears
    <3>2. state \in {"in_review", "approved", "rejected", "withdrawn"} /\ nominees \in SUBSET Members
      BY <2>a
    <3> HIDE DEF next, state, nominees
    <3>3. next \in Requests /\ next.state = state /\ next.step = a.step + 1 /\ next.nominees = nominees /\ next.votes = votes
      BY <3>1, <3>2, <2>a, <2>b, <1>1, RequestWritten
    <3> QED  BY <2>3, <2>a, <3>3 DEF state, nominees
  <2> QED  BY <2>1, <2>2, <2>3
<1> HIDE DEF next, last
<1>8. VotesAllowed(next)
  <2> SUFFICES ASSUME NEW i \in DOMAIN votes
               PROVE  votes[i].by # Submitter /\ votes[i].by \in Chain[votes[i].step].who /\ votes[i].step <= next.step
    BY <1>7 DEF VotesAllowed
  <2>1. CASE i \in 1..Len(a.votes)
    <3>1. a.votes[i].by # Submitter /\ a.votes[i].by \in Chain[a.votes[i].step].who /\ a.votes[i].step <= a.step
      BY <2>1, <1>4 DEF Justified, VotesAllowed
    <3>2. votes[i] = a.votes[i] /\ votes[i].step \in 1..Len(Chain)
      BY <2>1, <1>4 DEF Votes
    <3> QED  BY <3>1, <3>2, <1>1, <1>7
  <2>2. CASE i = Len(a.votes) + 1
    BY <2>2, <1>1, <1>2, <1>3, <1>4, <1>7
  <2> QED  BY <2>1, <2>2, <1>4
<1>9. StepsMet(next)
  <2> SUFFICES ASSUME NEW s \in 1..Len(Chain) PROVE s < next.step <=> MetBy(votes, s)
    BY <1>7 DEF StepsMet
  <2>1. s < a.step <=> MetBy(a.votes, s)
    BY DEF Justified, StepsMet
  <2>2. CASE s # a.step
    <3>1. s < next.step <=> s < a.step
      BY <2>2, <1>1, <1>7
    <3> QED  BY <2>1, <2>2, <3>1, <1>6
  <2>3. CASE s = a.step /\ vote = "approve"
    <3>1. s < next.step <=> clears
      BY <2>3, <1>1, <1>7
    <3> QED  BY <2>3, <3>1, <1>5
  <2>4. CASE s = a.step /\ vote = "reject"
    <3>1. next.step = a.step
      BY <2>4, <1>7
    <3> QED  BY <2>1, <2>4, <3>1, <1>6
  <2> QED  BY <2>2, <2>3, <2>4
<1>10. RejectLast(next)
  <2> SUFFICES ASSUME NEW i \in DOMAIN votes, votes[i].vote = "reject"
               PROVE  i = Len(votes) /\ next.state = "rejected"
    BY <1>7 DEF RejectLast
  <2>1. i \in 1..Len(a.votes) => a.votes[i].vote # "reject"
    BY <1>1, <1>4 DEF Justified, RejectLast
  <2>2. i = Len(a.votes) + 1
    BY <2>1, <1>4
  <2> QED  BY <2>2, <1>2, <1>4, <1>7
<1>11. OpenFits(next)
  <2>1. next.state = "in_review" => next.step <= Len(Chain) /\ next.nominees = IF next.step = 1 THEN Nominees ELSE {}
    BY <1>1, <1>7 DEF last
  <2>2. next.state = "approved" => next.step > Len(Chain)
    BY <1>1, <1>7 DEF last
  <2> QED  BY <2>1, <2>2 DEF OpenFits
<1> QED  BY <1>7, <1>8, <1>9, <1>10, <1>11 DEF Justified, next

\* A withdrawal changes neither votes nor step.
LEMMA WithdrawalJustified ==
    ASSUME NEW a, Justified(a), ~IsTerminal(a)
    PROVE  Justified([a EXCEPT !.state = "withdrawn"])
<1> DEFINE next == [a EXCEPT !.state = "withdrawn"]
<1>1. /\ a \in Requests /\ next \in Requests /\ a.state = "in_review"
      /\ next.votes = a.votes /\ next.step = a.step /\ next.state = "withdrawn"
  BY DEF Justified, Requests, IsTerminal
<1> HIDE DEF next
<1>2. VotesAllowed(next) /\ StepsMet(next)
  BY <1>1 DEF Justified, VotesAllowed, StepsMet
<1>3. RejectLast(next)
  BY <1>1 DEF Justified, RejectLast
<1>4. OpenFits(next)
  BY <1>1 DEF OpenFits
<1> QED  BY <1>1, <1>2, <1>3, <1>4 DEF Justified, next

\* A request as it is submitted has no votes and needs none.
LEMMA SubmittedJustified == ApprovalInit => Justified(request)
<1> SUFFICES ASSUME ApprovalInit PROVE Justified(request)
  OBVIOUS
<1>1. Len(Chain) \in Nat \ {0} /\ MaxVotes \in Nat
  BY ApprovalAssumption
<1>2. request = [state |-> "in_review", step |-> 1, nominees |-> Nominees, votes |-> <<>>]
  BY DEF ApprovalInit
<1>3. <<>> \in [1..0 -> Votes] /\ DOMAIN request.votes = {} /\ request.step = 1
  BY <1>2
<1>4. request.votes \in UNION {[1..n -> Votes] : n \in 0..MaxVotes}
  BY <1>1, <1>2, <1>3
<1>7. <<>> \in UNION {[1..n -> Votes] : n \in 0..MaxVotes} /\ 1 \in 1..Len(Chain) + 1
  BY <1>1, <1>3
<1>5. request \in Requests
  BY <1>1, <1>2, <1>7, NomineesAreMembers DEF Requests
<1>6. \A s \in 1..Len(Chain) : ~(s < 1) /\ ~MetBy(request.votes, s)
  BY <1>3 DEF MetBy, ApprovedIn
<1> QED  BY <1>1, <1>2, <1>3, <1>5, <1>6 DEF Justified, VotesAllowed, StepsMet, RejectLast, OpenFits

LEMMA ApprovalStarts == ApprovalInit => ApprovalInv
  BY SubmittedJustified DEF ApprovalInit, ApprovalInv

\* A handler that has read holds a justified request; the others keep theirs.
LEMMA ReadsInv ==
    ASSUME ApprovalInv, NEW h \in Handlers, NEW next, Justified(next), Reads(h, next)
    PROVE  ApprovalInv'
<1>1. request' = request /\ handler' = [handler EXCEPT ![h] = next] /\ next \in Requests
  BY DEF Reads, Justified
<1>2. Justified(request')
  BY <1>1 DEF ApprovalInv
<1>3. handler' \in [Handlers -> Requests \cup {Idle}]
  BY <1>1 DEF ApprovalInv
<1>4. \A g \in Handlers : handler'[g] = IF g = h THEN next ELSE handler[g]
  BY <1>1 DEF ApprovalInv
<1>5. \A g \in Handlers : handler'[g] # Idle => Justified(handler'[g])
  BY <1>4 DEF ApprovalInv
<1> QED  BY <1>2, <1>3, <1>5 DEF ApprovalInv, Justified, VotesAllowed, StepsMet, RejectLast, OpenFits

LEMMA ApprovalStep == ApprovalInv /\ [ApprovalNext]_approvalVars => ApprovalInv'
<1> SUFFICES ASSUME ApprovalInv, [ApprovalNext]_approvalVars PROVE ApprovalInv'
  OBVIOUS
<1>1. ASSUME NEW h \in Handlers, Act(h) PROVE ApprovalInv'
  <2>1. PICK m \in Members, vote \in {"approve", "reject"} :
          MayAct(request, m) /\ Reads(h, ApplyAction(request, m, vote))
    BY <1>1 DEF Act
  <2>2. Justified(ApplyAction(request, m, vote))
    BY <1>1, <2>1, DecisionJustified DEF Act, ApprovalInv
  <2> QED  BY <2>1, <2>2, ReadsInv
<1>2. ASSUME NEW h \in Handlers, Withdraw(h) PROVE ApprovalInv'
  BY <1>2, WithdrawalJustified, ReadsInv DEF Withdraw, ApprovalInv
<1>3. ASSUME NEW h \in Handlers, PutApproval(h) PROVE ApprovalInv'
  <2>1. request' = handler[h] /\ handler' = [handler EXCEPT ![h] = Idle] /\ handler[h] # Idle
    BY <1>3 DEF PutApproval
  <2>2. Justified(request')
    BY <2>1 DEF ApprovalInv
  <2>3. handler' \in [Handlers -> Requests \cup {Idle}]
    BY <2>1 DEF ApprovalInv
  <2>4. \A g \in Handlers : handler'[g] = IF g = h THEN Idle ELSE handler[g]
    BY <2>1 DEF ApprovalInv
  <2>5. \A g \in Handlers : handler'[g] # Idle => Justified(handler'[g])
    BY <2>4 DEF ApprovalInv
  <2> QED  BY <2>2, <2>3, <2>5 DEF ApprovalInv
<1>4. CASE UNCHANGED approvalVars
  BY <1>4 DEF approvalVars, ApprovalInv, Justified, VotesAllowed, StepsMet, RejectLast, OpenFits
<1> QED  BY <1>1, <1>2, <1>3, <1>4 DEF ApprovalNext

\* The stored request and every copy a handler is about to store are justified by their own votes.
THEOREM ApprovalInvariant == ApprovalSpec => []ApprovalInv
  BY ApprovalStarts, ApprovalStep, PTL DEF ApprovalSpec

\* The stored request is one of those.
LEMMA JustifiedShows == ApprovalInv => VotesJustifyState
<1> SUFFICES ASSUME Justified(request) PROVE VotesJustifyState
  BY DEF ApprovalInv
<1>1. \A m, s : Approved(m, s) <=> ApprovedIn(request.votes, m, s)
  BY DEF Approved, ApprovedIn, ApproveVote
<1>2. \A s \in 1..Len(Chain) : Met(s) <=> MetBy(request.votes, s)
  BY <1>1 DEF Met, MetBy
<1>3. \A s \in 1..Len(Chain) : (s < request.step) = Met(s)
  <2> SUFFICES ASSUME NEW s \in 1..Len(Chain) PROVE (s < request.step) = Met(s)
    OBVIOUS
  <2>1. (s < request.step) <=> Met(s)
    BY <1>2 DEF Justified, StepsMet
  <2>2. (s < request.step) \in BOOLEAN /\ Met(s) \in BOOLEAN
    BY DEF Met
  <2> QED  BY <2>1, <2>2
<1> QED  BY <1>3 DEF VotesJustifyState, Justified, VotesAllowed, RejectLast, OpenFits

\* VotesJustifyState: whichever writes are lost, the stored votes justify the stored
\* state, since every handler stores what the engine made of one justified request
\* (applyAction, putApproval), for any chain, members and handlers.
THEOREM VotesJustify == ApprovalSpec => []VotesJustifyState
  BY ApprovalInvariant, JustifiedShows, PTL
=============================================================================
