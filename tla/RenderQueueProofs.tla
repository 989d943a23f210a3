-------------------------- MODULE RenderQueueProofs --------------------------
(***************************************************************************)
(* Theorems about RenderQueue, for any set of renders and processes and    *)
(* any attempt limit.                                                      *)
(***************************************************************************)
EXTENDS RenderQueue, FiniteSetTheorems, TLAPS

-----------------------------------------------------------------------------
LEMMA ClaimParts ==
    \A c \in Claims : c = <<c[1], c[2]>> /\ c[1] \in Renders /\ c[2] \in 1..MaxAttempts
BY DEF Claims

\* The statements of the store keep a row a row.
LEMMA UnleasedTyping == \A rec \in RowType, s \in States : Unleased(rec, s) \in RowType
BY MaxAttemptsAssumption DEF Unleased, RowType, Row

LEMMA ClaimedTyping == \A rec \in RowType : rec.attempt < MaxAttempts => ClaimedRow(rec) \in RowType
BY MaxAttemptsAssumption DEF ClaimedRow, RowType, Row, States

LEMMA PublishedTyping == \A rec \in RowType, n \in 1..MaxAttempts : PublishedRow(rec, n) \in RowType
BY MaxAttemptsAssumption DEF PublishedRow, RowType, Row, States

LEMMA FailedTyping == \A rec \in RowType, class \in Classes : FailedRow(rec, class) \in RowType
BY UnleasedTyping, MaxAttemptsAssumption DEF FailedRow, RowType, Row, States

LEMMA FlagTyping == \A rec \in RowType : /\ [rec EXCEPT !.due = TRUE] \in RowType
                                         /\ [rec EXCEPT !.live = FALSE] \in RowType
BY DEF RowType

LEMMA SettleTyping ==
    ASSUME TypeOK, NEW c \in Claims, NEW class \in Classes, SettleFailed(c, class)
    PROVE  row' \in [Renders -> RowType]
BY ClaimParts, FailedTyping DEF SettleFailed, TypeOK

LEMMA EndWorkTyping ==
    ASSUME TypeOK, NEW c \in Claims, NEW w \in WorkStates, NEW k \in Classes, EndWork(c, w, k)
    PROVE  work' \in [Claims -> WorkStates] /\ result' \in [Claims -> Classes]
BY DEF EndWork, TypeOK

LEMMA Typing == TypeOK /\ [Next]_vars => TypeOK'
<1> SUFFICES ASSUME TypeOK, [Next]_vars PROVE TypeOK'
    OBVIOUS
<1>1. ASSUME NEW r \in Renders, Submit(r) PROVE TypeOK'
  <2>1. Row("queued", 0, 0, FALSE, TRUE, 0) \in RowType
    BY MaxAttemptsAssumption DEF RowType, Row, States
  <2> QED BY <1>1, <2>1 DEF Submit, TypeOK, runVars
<1>2. ASSUME NEW r \in Renders, CancelRender(r) PROVE TypeOK'
  <2>1. row' \in [Renders -> RowType]
    BY <1>2, UnleasedTyping DEF CancelRender, TypeOK, States
  <2> QED BY <1>2, <2>1 DEF CancelRender, TypeOK, runVars
<1>3. ASSUME NEW r \in Renders, Clock(r) PROVE TypeOK'
  <2>1. CASE BecomeDue(r)
    <3>1. [row[r] EXCEPT !.due = TRUE] \in RowType
      BY FlagTyping DEF TypeOK
    <3> QED BY <2>1, <3>1 DEF BecomeDue, TypeOK, runVars
  <2>2. CASE LeaseLapses(r)
    <3>1. [row[r] EXCEPT !.live = FALSE] \in RowType
      BY FlagTyping DEF TypeOK
    <3> QED BY <2>2, <3>1 DEF LeaseLapses, TypeOK, runVars
  <2> QED BY <1>3, <2>1, <2>2 DEF Clock
<1>4. ASSUME NEW p \in Procs, Tick(p) PROVE TypeOK'
    BY <1>4 DEF Tick, TypeOK
<1>5. ASSUME NEW p \in Procs, ExhaustDue(p) PROVE TypeOK'
  <2>1. row' \in [Renders -> RowType]
    BY <1>5, UnleasedTyping DEF ExhaustDue, TypeOK, States
  <2> QED BY <1>5, <2>1 DEF ExhaustDue, TypeOK
<1>6. ASSUME NEW p \in Procs, ClaimRender(p) PROVE TypeOK'
  <2>1. CASE UNCHANGED <<row, main, owner>>
    BY <1>6, <2>1 DEF ClaimRender, TypeOK
  <2>2. ASSUME NEW r \in Renders, Claimable(r), row' = [row EXCEPT ![r] = ClaimedRow(@)]
        PROVE row' \in [Renders -> RowType]
    BY <2>2, ClaimedTyping DEF Claimable, TypeOK
  <2>3. CASE ~UNCHANGED <<row, main, owner>>
    <3>1. row' \in [Renders -> RowType]
      BY <1>6, <2>2, <2>3 DEF ClaimRender
    <3>2. pass' \in [Procs -> {"idle", "exhaust", "claim", "start"}]
      BY <1>6 DEF ClaimRender, TypeOK
    <3>3. main' \in [Claims -> {"none", "claimed", "racing", "finalizing", "done"}]
      BY <1>6 DEF ClaimRender, TypeOK
    <3>4. owner' \in [Claims -> Procs \cup {NoProc}]
      BY <1>6 DEF ClaimRender, TypeOK
    <3> QED BY <1>6, <3>1, <3>2, <3>3, <3>4 DEF ClaimRender, TypeOK
  <2> QED BY <2>1, <2>3
<1>7. ASSUME NEW c \in Claims, StartClaim(c) PROVE TypeOK'
  <2>1. row' \in [Renders -> RowType]
    BY <1>7, SettleTyping DEF StartClaim, TypeOK, Classes
  <2>2. controllers' \in [Procs -> [Renders -> 0..MaxAttempts]]
    <3>1. CASE UNCHANGED controllers
      BY <3>1 DEF TypeOK
    <3>2. CASE owner[c] \in Procs /\ controllers' = [controllers EXCEPT ![owner[c]][c[1]] = c[2]]
      <4>1. [controllers[owner[c]] EXCEPT ![c[1]] = c[2]] \in [Renders -> 0..MaxAttempts]
        BY <3>2, ClaimParts, MaxAttemptsAssumption DEF TypeOK
      <4> QED BY <3>2, <4>1 DEF TypeOK
    <3>3. CASE owner[c] \notin Procs /\ controllers' = [controllers EXCEPT ![owner[c]][c[1]] = c[2]]
      BY <3>3 DEF TypeOK
    <3> QED BY <1>7, <3>1, <3>2, <3>3 DEF StartClaim
  <2>3. pass' \in [Procs -> {"idle", "exhaust", "claim", "start"}]
    BY <1>7 DEF StartClaim, TypeOK
  <2>4. /\ work' \in [Claims -> WorkStates]
        /\ main' \in [Claims -> {"none", "claimed", "racing", "finalizing", "done"}]
    BY <1>7 DEF StartClaim, TypeOK, WorkStates
  <2> QED BY <1>7, <2>1, <2>2, <2>3, <2>4 DEF StartClaim, TypeOK
<1>8. ASSUME NEW c \in Claims, Execute(c) \/ CheckAbort(c) PROVE TypeOK'
  <2>1. \E w \in WorkStates, k \in Classes : EndWork(c, w, k)
    BY <1>8 DEF Execute, CheckAbort, TypeOK, WorkStates, Ended, Classes
  <2> QED BY <1>8, <2>1, EndWorkTyping DEF Execute, CheckAbort, TypeOK
<1>9. ASSUME NEW c \in Claims, PutBlob(c) PROVE TypeOK'
  <2>1. \E w \in WorkStates, k \in Classes : EndWork(c, w, k)
    BY <1>9 DEF PutBlob, WorkStates, Classes
  <2>2. blobs' \subseteq Claims
    BY <1>9 DEF PutBlob, TypeOK
  <2> QED BY <1>9, <2>1, <2>2, EndWorkTyping DEF PutBlob, TypeOK
<1>10. ASSUME NEW c \in Claims, Publish(c) PROVE TypeOK'
  <2>1. row' \in [Renders -> RowType]
    BY <1>10, ClaimParts, PublishedTyping DEF Publish, TypeOK
  <2>2. \E w \in WorkStates, k \in Classes : EndWork(c, w, k)
    BY <1>10 DEF Publish, WorkStates, Ended, Classes
  <2> QED BY <1>10, <2>1, <2>2, EndWorkTyping DEF Publish, TypeOK
<1>11. ASSUME NEW c \in Claims, Cleanup(c) PROVE TypeOK'
    BY <1>11 DEF Cleanup, TypeOK, WorkStates, Ended
<1>12. ASSUME NEW c \in Claims, NEW class \in Classes, Aborts(c, class) PROVE TypeOK'
    BY <1>12 DEF Aborts, TypeOK
<1>13. ASSUME NEW c \in Claims, TimeOut(c) \/ HeartbeatRefused(c) PROVE TypeOK'
    BY <1>12, <1>13 DEF TimeOut, HeartbeatRefused, Classes
<1>14. ASSUME NEW c \in Claims, SettleFailure(c) PROVE TypeOK'
  <2>1. row' \in [Renders -> RowType]
    BY <1>14, SettleTyping DEF SettleFailure, TypeOK
  <2> QED BY <1>14, <2>1 DEF SettleFailure, TypeOK
<1>15. ASSUME NEW c \in Claims, Finish(c) PROVE TypeOK'
  <2>1. controllers' \in [Procs -> [Renders -> 0..MaxAttempts]]
    <3>1. CASE owner[c] \in Procs
      <4>1. [controllers[owner[c]] EXCEPT ![c[1]] = 0] \in [Renders -> 0..MaxAttempts]
        BY <3>1, ClaimParts, MaxAttemptsAssumption DEF TypeOK
      <4> QED BY <1>15, <3>1, <4>1 DEF Finish, TypeOK
    <3>2. CASE owner[c] \notin Procs
      BY <1>15, <3>2 DEF Finish, TypeOK
    <3> QED BY <3>1, <3>2
  <2> QED BY <1>15, <2>1 DEF Finish, TypeOK
<1>16. ASSUME NEW p \in Procs, NEW r \in Renders, CancelLocal(p, r) PROVE TypeOK'
  <2>1. <<r, controllers[p][r]>> \in Claims
    BY <1>16, MaxAttemptsAssumption DEF CancelLocal, Claims, TypeOK
  <2> QED BY <1>16, <2>1, <1>12 DEF CancelLocal, Classes
<1>17. ASSUME NEW p \in Procs, Stop(p) PROVE TypeOK'
  <2>1. abort' \in [Claims -> Classes]
    BY <1>17 DEF Stop, TypeOK, Classes
  <2>2. outages' \in 0..MaxOutages
    BY <1>17, MaxOutagesAssumption DEF Stop, TypeOK
  <2>3. proc' \in [Procs -> {"up", "stopping", "down"}]
    BY <1>17 DEF Stop, TypeOK
  <2> QED BY <1>17, <2>1, <2>2, <2>3 DEF Stop, TypeOK
<1>18. ASSUME NEW p \in Procs, Stopped(p) \/ Restart(p) PROVE TypeOK'
    BY <1>18 DEF Stopped, Restart, TypeOK
<1>19. ASSUME NEW p \in Procs, Crash(p) PROVE TypeOK'
  <2>1. blobs' \subseteq Claims
    BY <1>19 DEF Crash, Active, TypeOK
  <2>2. work' \in [Claims -> WorkStates]
    BY <1>19 DEF Crash, TypeOK, WorkStates, Ended
  <2>3. main' \in [Claims -> {"none", "claimed", "racing", "finalizing", "done"}]
    BY <1>19 DEF Crash, TypeOK
  <2>4. controllers' \in [Procs -> [Renders -> 0..MaxAttempts]]
    BY <1>19, MaxAttemptsAssumption DEF Crash, TypeOK
  <2>5. outages' \in 0..MaxOutages
    BY <1>19, MaxOutagesAssumption DEF Crash, TypeOK
  <2> QED BY <1>19, <2>1, <2>2, <2>3, <2>4, <2>5 DEF Crash, TypeOK
<1>20. CASE UNCHANGED vars
    BY <1>20 DEF vars, TypeOK
<1> QED
    BY <1>1, <1>2, <1>3, <1>4, <1>5, <1>6, <1>7, <1>8, <1>9, <1>10, <1>11, <1>13,
       <1>14, <1>15, <1>16, <1>17, <1>18, <1>19, <1>20
    DEF Next, Caller, Pass, Work, Run

\* The table, the work states and the processes always have their types.
THEOREM QueueTypeOK == Spec => []TypeOK
<1>1. Init => TypeOK
    BY MaxAttemptsAssumption, MaxOutagesAssumption
    DEF Init, TypeOK, RowType, Row, States, WorkStates, Ended, Classes
<1> QED BY <1>1, Typing, PTL DEF Spec

-----------------------------------------------------------------------------
(* Steps that only move rows short of publication, or runs past their claim. *)

\* No row is published or claimed anew by the step.
RowsKeep ==
    \A r \in Renders :
        \/ row'[r] = row[r]
        \/ /\ row[r].state \notin {"succeeded", "absent"}
           /\ row'[r].state \notin {"succeeded", "absent"}
           /\ row'[r].attempt = row[r].attempt /\ row'[r].output = row[r].output
           /\ row'[r].state = "running" =>
                row[r].state = "running" /\ row'[r].token = row[r].token

\* No run begins by the step.
RunsKeep ==
    /\ \A c \in Claims : \/ main'[c] = main[c]
                         \/ main[c] # "none" /\ main'[c] \notin {"none", "claimed"}
    /\ UNCHANGED owner

LEMMA QuietStep ==
    ASSUME IInv, TypeOK', RowsKeep, RunsKeep, UNCHANGED <<blobs, work>>
    PROVE  IInv'
<1> USE ClaimParts
<1>1. RowsLeased'
    BY DEF IInv, RowsLeased, RowsKeep
<1>2. UnclaimedIdle'
    BY DEF IInv, UnclaimedIdle, RowsKeep, RunsKeep
<1>3. BytesFollowWork'
    BY DEF IInv, BytesFollowWork
<1>4. WinnerDone'
    BY DEF IInv, WinnerDone, RowsKeep
<1>5. NoStrayBytes'
    BY DEF IInv, NoStrayBytes, RowsKeep, WorkRuns, TypeOK
<1> QED BY <1>1, <1>2, <1>3, <1>4, <1>5 DEF IInv

LEMMA CancelRowsKeep ==
    ASSUME TypeOK, NEW r \in Renders, CancelRender(r) PROVE RowsKeep
BY DEF CancelRender, RowsKeep, Unleased, Row, TypeOK

LEMMA ClockRowsKeep ==
    ASSUME TypeOK, NEW r \in Renders, Clock(r) PROVE RowsKeep
<1> DEFINE rec == row[r]
<1>1. rec \in RowType
    BY DEF TypeOK
<1>2. /\ [rec EXCEPT !.due = TRUE].state = rec.state
      /\ [rec EXCEPT !.due = TRUE].attempt = rec.attempt
      /\ [rec EXCEPT !.due = TRUE].output = rec.output
      /\ [rec EXCEPT !.due = TRUE].token = rec.token
    BY <1>1 DEF RowType
<1>3. /\ [rec EXCEPT !.live = FALSE].state = rec.state
      /\ [rec EXCEPT !.live = FALSE].attempt = rec.attempt
      /\ [rec EXCEPT !.live = FALSE].output = rec.output
      /\ [rec EXCEPT !.live = FALSE].token = rec.token
    BY <1>1 DEF RowType
<1>4. CASE BecomeDue(r)
    BY <1>2, <1>4 DEF BecomeDue, RowsKeep, TypeOK
<1>5. CASE LeaseLapses(r)
    BY <1>3, <1>5 DEF LeaseLapses, RowsKeep, TypeOK
<1> QED BY <1>4, <1>5 DEF Clock

LEMMA ExhaustRowsKeep ==
    ASSUME TypeOK, NEW p \in Procs, ExhaustDue(p) PROVE RowsKeep
BY DEF ExhaustDue, RowsKeep, Exhausted, Ready, Lapsed, Unleased, Row, TypeOK

LEMMA SettleRowsKeep ==
    ASSUME TypeOK, NEW c \in Claims, NEW class \in Classes, SettleFailed(c, class) PROVE RowsKeep
<1>1. CASE Held(c)
    BY <1>1, ClaimParts DEF SettleFailed, Held, RowsKeep, FailedRow, Unleased, Row, TypeOK
<1>2. CASE ~Held(c)
    BY <1>2 DEF SettleFailed, RowsKeep
<1> QED BY <1>1, <1>2

-----------------------------------------------------------------------------
(* The steps of a claim's work.                                            *)

\* A work step of c that leaves the table and the runs alone keeps the
\* invariant when its own blob matches the stage it reaches.
LEMMA WorkStep ==
    ASSUME IInv, TypeOK', NEW c \in Claims, NEW w \in WorkStates \ {"none"},
           work[c] \notin Ended \cup {"none"},
           work' = [work EXCEPT ![c] = w],
           UNCHANGED <<row, main, owner>>,
           \A d \in Claims : d # c => (d \in blobs' <=> d \in blobs),
           w \in {"execute", "put"} => c \notin blobs',
           w \in {"written", "settle"} => c \in blobs',
           w = "ended" => c \notin blobs'
    PROVE  IInv'
<1>1. RowsLeased'
    BY DEF IInv, RowsLeased
<1>2. UnclaimedIdle'
    BY DEF IInv, UnclaimedIdle, TypeOK
<1>3. BytesFollowWork'
    BY DEF IInv, BytesFollowWork, TypeOK, Ended
<1>4. WinnerDone'
  <2> SUFFICES ASSUME NEW r \in Renders, row[r].state = "succeeded"
               PROVE  /\ <<r, row[r].output>> \in blobs'
                      /\ work'[<<r, row[r].output>>] \in Ended
      BY DEF IInv, WinnerDone
  <2>1. <<r, row[r].output>> \in Claims /\ work[<<r, row[r].output>>] \in Ended
               /\ <<r, row[r].output>> \in blobs
      BY DEF IInv, WinnerDone, Claims
  <2> QED BY <2>1 DEF IInv, TypeOK
<1>5. NoStrayBytes'
    BY DEF IInv, NoStrayBytes, WorkRuns, TypeOK, WorkStates, Ended
<1> QED BY <1>1, <1>2, <1>3, <1>4, <1>5 DEF IInv

LEMMA ExecuteStep == ASSUME IInv, TypeOK', NEW c \in Claims, Execute(c) PROVE IInv'
<1>1. c \notin blobs /\ blobs' = blobs /\ work[c] = "execute"
    BY DEF Execute, IInv, BytesFollowWork
<1>2. \E w \in {"put", "ended"} : work' = [work EXCEPT ![c] = w]
    BY DEF Execute, EndWork
<1> QED BY <1>1, <1>2, WorkStep DEF Execute, WorkStates, Ended

LEMMA PutStep == ASSUME IInv, TypeOK', NEW c \in Claims, PutBlob(c) PROVE IInv'
<1>1. \A d \in Claims : d # c => (d \in blobs' <=> d \in blobs)
    BY DEF PutBlob
<1>2. CASE work' = [work EXCEPT ![c] = "written"] /\ c \in blobs'
    BY <1>1, <1>2, WorkStep DEF PutBlob, WorkStates, Ended
<1>3. CASE work' = [work EXCEPT ![c] = "cleanup"]
    BY <1>1, <1>3, WorkStep DEF PutBlob, WorkStates, Ended
<1> QED BY <1>2, <1>3 DEF PutBlob, EndWork

LEMMA CheckStep == ASSUME IInv, TypeOK', NEW c \in Claims, CheckAbort(c) PROVE IInv'
<1>1. c \in blobs /\ blobs' = blobs /\ work[c] = "written"
    BY DEF CheckAbort, IInv, BytesFollowWork
<1>2. \E w \in {"settle", "cleanup"} : work' = [work EXCEPT ![c] = w]
    BY DEF CheckAbort, EndWork
<1> QED BY <1>1, <1>2, WorkStep DEF CheckAbort, WorkStates, Ended

LEMMA CleanupStep == ASSUME IInv, TypeOK', NEW c \in Claims, Cleanup(c) PROVE IInv'
<1>1. \A d \in Claims : d # c => (d \in blobs' <=> d \in blobs)
    BY DEF Cleanup
<1>2. CASE work' = [work EXCEPT ![c] = "ended"] /\ c \notin blobs'
    BY <1>1, <1>2, WorkStep DEF Cleanup, WorkStates, Ended
<1>3. CASE work' = [work EXCEPT ![c] = "unsure"]
    BY <1>1, <1>3, WorkStep DEF Cleanup, WorkStates, Ended
<1> QED BY <1>2, <1>3 DEF Cleanup

\* The settlement that publishes: the claim holds its row, so it is the last
\* one, its bytes are stored, and its work ends without a clean-up.
LEMMA PublishStep == ASSUME IInv, TypeOK', NEW c \in Claims, Publish(c) PROVE IInv'
<1>1. c \in blobs /\ blobs' = blobs /\ work[c] = "settle"
    BY DEF Publish, IInv, BytesFollowWork
<1>2. CASE UNCHANGED row
  <2>1. \E w \in {"unsure", "cleanup"} : work' = [work EXCEPT ![c] = w]
    <3>1. CASE Held(c) /\ row' = [row EXCEPT ![c[1]] = PublishedRow(@, c[2])]
      BY <1>2, <3>1, ClaimParts DEF Held, PublishedRow, Row, IInv, TypeOK
    <3> QED BY <3>1 DEF Publish, EndWork
  <2> QED BY <1>1, <1>2, <2>1, WorkStep DEF Publish, WorkStates, Ended
<1>3. CASE Held(c) /\ row' = [row EXCEPT ![c[1]] = PublishedRow(@, c[2])]
  <2> DEFINE r == c[1]
  <2>1. r \in Renders /\ c[2] \in 1..MaxAttempts /\ c = <<r, c[2]>>
    BY ClaimParts
  <2>2. row[r].state = "running" /\ row[r].attempt = c[2] /\ row[r].output = 0
    BY <1>3, <2>1 DEF Held, IInv, RowsLeased
  <2>3. /\ row'[r].state = "succeeded" /\ row'[r].attempt = c[2] /\ row'[r].output = c[2]
        /\ \A q \in Renders : q # r => row'[q] = row[q]
    BY <1>3, <2>1, <2>2 DEF PublishedRow, Row, IInv, TypeOK
  <2>4. \E w \in Ended \cup {"cleanup"} : work' = [work EXCEPT ![c] = w]
    BY DEF Publish, EndWork, Ended
  <2>5. \E w \in Ended : work' = [work EXCEPT ![c] = w]
    <3>1. CASE UNCHANGED row
      BY <2>2, <2>3, <3>1
    <3> QED BY <3>1, <1>3 DEF Publish, EndWork, Ended
  <2>6. UNCHANGED <<main, owner>>
    BY DEF Publish
  <2>7. RowsLeased'
    BY <2>1, <2>3 DEF IInv, RowsLeased
  <2>8. UnclaimedIdle'
    BY <1>1, <2>2, <2>3, <2>5, <2>6, ClaimParts DEF IInv, UnclaimedIdle, TypeOK
  <2>9. BytesFollowWork'
    BY <1>1, <2>5 DEF IInv, BytesFollowWork, TypeOK, Ended
  <2>10. WinnerDone'
    <3> SUFFICES ASSUME NEW q \in Renders, row'[q].state = "succeeded"
                 PROVE  /\ row'[q].output = row'[q].attempt /\ row'[q].output \in 1..MaxAttempts
                        /\ <<q, row'[q].output>> \in blobs
                        /\ work'[<<q, row'[q].output>>] \in Ended
        BY <1>1 DEF WinnerDone
    <3>1. CASE q = r
      <4>1. <<q, row'[q].output>> = c
        BY <2>1, <2>3, <3>1
      <4>2. work'[c] \in Ended
        BY <2>5 DEF IInv, TypeOK
      <4> QED BY <1>1, <2>1, <2>3, <3>1, <4>1, <4>2
    <3>2. CASE q # r
      <4>1. /\ row'[q] = row[q] /\ row[q].output \in 1..MaxAttempts
            /\ work[<<q, row[q].output>>] \in Ended
            /\ <<q, row[q].output>> \in Claims /\ <<q, row[q].output>> # c
        BY <2>1, <2>3, <3>2 DEF IInv, WinnerDone, Claims
      <4> QED BY <2>3, <2>5, <3>2, <4>1 DEF IInv, WinnerDone, TypeOK
    <3> QED BY <3>1, <3>2
  <2>11. NoStrayBytes'
    <3> SUFFICES ASSUME NEW d \in Claims, d \in blobs
                 PROVE  \/ row'[d[1]].output = d[2] \/ work'[d] \notin Ended \cup {"none"}
                        \/ work'[d] \in {"unsure", "crashed"}
        BY <1>1 DEF NoStrayBytes, WorkRuns, IInv, TypeOK
    <3>1. CASE d = c
      BY <2>3, <3>1
    <3>2. CASE d # c
      <4>1. work'[d] = work[d]
        BY <2>5, <3>2 DEF IInv, TypeOK
      <4>2. row[d[1]].output = d[2] => d[1] # r
        BY <2>2, ClaimParts
      <4> QED BY <2>3, <4>1, <4>2, ClaimParts DEF IInv, NoStrayBytes, WorkRuns
    <3> QED BY <3>1, <3>2
  <2> QED BY <2>7, <2>8, <2>9, <2>10, <2>11 DEF IInv
<1> QED BY <1>2, <1>3 DEF Publish

-----------------------------------------------------------------------------
(* The steps that create rows, claims and runs, and the crash.             *)

LEMMA SubmitStep == ASSUME IInv, TypeOK', NEW r \in Renders, Submit(r) PROVE IInv'
<1> USE ClaimParts
<1>1. /\ row[r].state = "absent" /\ row[r].attempt = 0 /\ row[r].output = 0
      /\ row'[r] = Row("queued", 0, 0, FALSE, TRUE, 0)
      /\ \A q \in Renders : q # r => row'[q] = row[q]
      /\ UNCHANGED <<blobs, work, main, owner>>
    BY DEF Submit, runVars, IInv, RowsLeased, TypeOK
<1>2. /\ row'[r].state = "queued" /\ row'[r].attempt = 0 /\ row'[r].output = 0
    BY <1>1 DEF Row
<1>3. RowsLeased'
    BY <1>1, <1>2 DEF IInv, RowsLeased
<1>4. UnclaimedIdle'
    BY <1>1, <1>2 DEF IInv, UnclaimedIdle
<1>5. BytesFollowWork'
    BY <1>1 DEF IInv, BytesFollowWork
<1>6. WinnerDone'
    BY <1>1, <1>2 DEF IInv, WinnerDone
<1>7. NoStrayBytes'
    BY <1>1, <1>2 DEF IInv, NoStrayBytes, WorkRuns, TypeOK
<1> QED BY <1>3, <1>4, <1>5, <1>6, <1>7 DEF IInv

\* A claim takes the next attempt number, which no run has used.
LEMMA ClaimStep ==
    ASSUME IInv, TypeOK', NEW r \in Renders, Claimable(r),
           row' = [row EXCEPT ![r] = ClaimedRow(@)], UNCHANGED <<blobs, work>>,
           \/ UNCHANGED <<main, owner>>
           \/ \E p \in Procs :
                /\ main' = [main EXCEPT ![<<r, row[r].attempt + 1>>] = "claimed"]
                /\ owner' = [owner EXCEPT ![<<r, row[r].attempt + 1>>] = p]
    PROVE  IInv'
<1> USE ClaimParts
<1> DEFINE c == <<r, row[r].attempt + 1>>
<1>1. row[r] \in RowType /\ row[r].state \in {"queued", "running"} /\ c \in Claims
  <2>1. row[r] \in RowType
    BY DEF IInv, TypeOK
  <2>2. row[r].state \in {"queued", "running"} /\ row[r].attempt < MaxAttempts
    BY DEF Claimable, Ready, Lapsed
  <2>3. row[r].attempt + 1 \in 1..MaxAttempts
    BY <2>1, <2>2, MaxAttemptsAssumption DEF RowType
  <2> QED BY <2>1, <2>2, <2>3 DEF Claims
<1>2. row[r].attempt \in Nat
    BY <1>1, MaxAttemptsAssumption DEF RowType
<1>3. row[r].output = 0
    BY <1>1 DEF IInv, RowsLeased
<1>4. /\ row'[r].state = "running" /\ row'[r].attempt = row[r].attempt + 1
      /\ row'[r].token = row[r].attempt + 1 /\ row'[r].output = row[r].output
      /\ \A q \in Renders : q # r => row'[q] = row[q]
    BY DEF ClaimedRow, Row, IInv, TypeOK
<1>5. main[c] = "none" /\ work[c] = "none"
    BY <1>1, <1>2 DEF IInv, UnclaimedIdle
<1>6. RowsLeased'
    BY <1>3, <1>4 DEF IInv, RowsLeased
<1>7. UnclaimedIdle'
  <2> SUFFICES ASSUME NEW d \in Claims
               PROVE  /\ d[2] > row'[d[1]].attempt => main'[d] = "none"
                      /\ main'[d] = "none" => owner'[d] = NoProc
                      /\ main'[d] \in {"none", "claimed"} => work'[d] = "none"
      BY DEF UnclaimedIdle
  <2>1. CASE d = c
    <3>1. d[1] = r /\ d[2] = row[r].attempt + 1
      BY <2>1
    <3>2. ~(d[2] > row'[d[1]].attempt) /\ work'[d] = "none"
      BY <1>2, <1>4, <1>5, <2>1, <3>1
    <3>3. (main'[d] = main[d] /\ owner'[d] = owner[d]) \/ main'[d] = "claimed"
      <4>1. CASE UNCHANGED <<main, owner>>
        BY <4>1
      <4>2. CASE \E p \in Procs : main' = [main EXCEPT ![c] = "claimed"]
        BY <1>1, <2>1, <4>2 DEF IInv, TypeOK
      <4> QED BY <4>1, <4>2
    <3> QED BY <3>2, <3>3 DEF IInv, UnclaimedIdle
  <2>2. CASE d # c
    <3>1. main'[d] = main[d] /\ owner'[d] = owner[d]
      BY <2>2 DEF IInv, TypeOK
    <3>2. d[2] > row'[d[1]].attempt => d[2] > row[d[1]].attempt
      BY <1>2, <1>4
    <3> QED BY <3>1, <3>2 DEF IInv, UnclaimedIdle
  <2> QED BY <2>1, <2>2
<1>8. BytesFollowWork'
    BY DEF IInv, BytesFollowWork
<1>9. WinnerDone'
    BY <1>4 DEF IInv, WinnerDone
<1>10. NoStrayBytes'
  <2>1. \A q \in Renders : row'[q].output = row[q].output
    BY <1>4
  <2> QED BY <2>1 DEF IInv, NoStrayBytes, WorkRuns, TypeOK
<1> QED BY <1>6, <1>7, <1>8, <1>9, <1>10 DEF IInv

LEMMA StartStep == ASSUME IInv, TypeOK', NEW c \in Claims, StartClaim(c) PROVE IInv'
<1>1. main[c] = "claimed" /\ work[c] = "none" /\ c \notin blobs
    BY DEF StartClaim, IInv, UnclaimedIdle, BytesFollowWork
<1>2. CASE /\ UNCHANGED <<row, owner, blobs>>
           /\ work' = [work EXCEPT ![c] = "execute"]
           /\ main' = [main EXCEPT ![c] = "racing"]
  <2>1. RowsLeased'
    BY <1>2 DEF IInv, RowsLeased
  <2>2. UnclaimedIdle'
    BY <1>1, <1>2 DEF IInv, UnclaimedIdle, TypeOK
  <2>3. BytesFollowWork'
    BY <1>1, <1>2 DEF IInv, BytesFollowWork, TypeOK
  <2>4. WinnerDone'
    BY <1>1, <1>2, ClaimParts DEF IInv, WinnerDone, TypeOK, Ended
  <2>5. NoStrayBytes'
    BY <1>1, <1>2 DEF IInv, NoStrayBytes, WorkRuns, TypeOK
  <2> QED BY <2>1, <2>2, <2>3, <2>4, <2>5 DEF IInv
<1>3. CASE /\ SettleFailed(c, "transient")
           /\ main' = [main EXCEPT ![c] = "done"]
           /\ UNCHANGED <<owner, blobs, work>>
  <2>1. RowsKeep
    BY <1>3, SettleRowsKeep DEF IInv, Classes
  <2>2. RunsKeep
    BY <1>1, <1>3 DEF RunsKeep, IInv, TypeOK
  <2> QED BY <1>3, <2>1, <2>2, QuietStep
<1> QED BY <1>2, <1>3 DEF StartClaim

LEMMA CrashStep == ASSUME IInv, TypeOK', NEW p \in Procs, Crash(p) PROVE IInv'
<1>1. PICK landed \in SUBSET {c \in Active(p) : work[c] = "put"} : blobs' = blobs \cup landed
    BY DEF Crash
<1>2. /\ UNCHANGED <<row, owner>>
      /\ \A c \in Claims :
           /\ work'[c] = IF c \in Active(p) /\ WorkRuns(c) THEN "crashed" ELSE work[c]
           /\ main'[c] = IF owner[c] = p THEN "done" ELSE main[c]
    BY DEF Crash
<1>3. \A c \in landed : c \in Claims /\ work'[c] = "crashed"
    BY <1>1, <1>2 DEF Active, WorkRuns, Ended
<1>4. RowsLeased'
    BY <1>2 DEF IInv, RowsLeased
<1>5. UnclaimedIdle'
  <2>1. \A c \in Claims : owner[c] = p => main[c] # "none"
    BY NoProcAssumption DEF IInv, UnclaimedIdle
  <2> QED BY <1>2, <2>1 DEF IInv, UnclaimedIdle, WorkRuns
<1>6. BytesFollowWork'
    BY <1>1, <1>2, <1>3 DEF IInv, BytesFollowWork, WorkRuns, Ended
<1>7. WinnerDone'
  <2> SUFFICES ASSUME NEW r \in Renders, row[r].state = "succeeded"
               PROVE  /\ <<r, row[r].output>> \in blobs'
                      /\ work'[<<r, row[r].output>>] \in Ended
      BY <1>2 DEF IInv, WinnerDone
  <2>1. <<r, row[r].output>> \in Claims /\ work[<<r, row[r].output>>] \in Ended
               /\ <<r, row[r].output>> \in blobs
      BY DEF IInv, WinnerDone, Claims
  <2> QED BY <1>1, <1>2, <2>1 DEF Ended
<1>8. NoStrayBytes'
    BY <1>1, <1>2, <1>3 DEF IInv, NoStrayBytes, WorkRuns, TypeOK
<1> QED BY <1>4, <1>5, <1>6, <1>7, <1>8 DEF IInv

-----------------------------------------------------------------------------
LEMMA Inductive == IInv /\ [Next]_vars => IInv'
<1> SUFFICES ASSUME IInv, [Next]_vars PROVE IInv'
    OBVIOUS
<1> TypeOK /\ TypeOK'
    BY Typing DEF IInv
<1>1. ASSUME NEW r \in Renders, Caller(r) \/ Clock(r) PROVE IInv'
  <2>1. CASE Submit(r)
    BY <2>1, SubmitStep
  <2>2. CASE CancelRender(r)
    BY <2>2, CancelRowsKeep, QuietStep DEF CancelRender, runVars, RunsKeep
  <2>3. CASE Clock(r)
    BY <2>3, ClockRowsKeep, QuietStep DEF Clock, BecomeDue, LeaseLapses, runVars, RunsKeep
  <2> QED BY <1>1, <2>1, <2>2, <2>3 DEF Caller
<1>2. ASSUME NEW p \in Procs, Tick(p) \/ Stop(p) \/ Stopped(p) \/ Restart(p) PROVE IInv'
    BY <1>2, QuietStep DEF Tick, Stop, Stopped, Restart, RowsKeep, RunsKeep
<1>3. ASSUME NEW p \in Procs, ExhaustDue(p) PROVE IInv'
    BY <1>3, ExhaustRowsKeep, QuietStep DEF ExhaustDue, RunsKeep
<1>4. ASSUME NEW p \in Procs, ClaimRender(p) PROVE IInv'
  <2>1. CASE UNCHANGED <<row, main, owner>>
    BY <1>4, <2>1, QuietStep DEF ClaimRender, RowsKeep, RunsKeep
  <2>2. CASE ~UNCHANGED <<row, main, owner>>
    <3>1. PICK r \in Renders :
            /\ Claimable(r)
            /\ row' = [row EXCEPT ![r] = ClaimedRow(@)]
            /\ \/ UNCHANGED <<main, owner>>
               \/ /\ main' = [main EXCEPT ![<<r, row[r].attempt + 1>>] = "claimed"]
                  /\ owner' = [owner EXCEPT ![<<r, row[r].attempt + 1>>] = p]
      BY <1>4, <2>2 DEF ClaimRender
    <3>2. UNCHANGED <<blobs, work>>
      BY <1>4 DEF ClaimRender
    <3> QED BY <3>1, <3>2, ClaimStep
  <2> QED BY <2>1, <2>2
<1>5. ASSUME NEW c \in Claims, Work(c) PROVE IInv'
    BY <1>5, ExecuteStep, PutStep, CheckStep, PublishStep, CleanupStep DEF Work
<1>6. ASSUME NEW c \in Claims, StartClaim(c) PROVE IInv'
    BY <1>6, StartStep
<1>7. ASSUME NEW c \in Claims, NEW class \in Classes, Aborts(c, class) PROVE IInv'
    BY <1>7, QuietStep DEF Aborts, RowsKeep, RunsKeep
<1>8. ASSUME NEW c \in Claims, TimeOut(c) \/ HeartbeatRefused(c) PROVE IInv'
    BY <1>7, <1>8 DEF TimeOut, HeartbeatRefused, Classes
<1>9. ASSUME NEW c \in Claims, SettleFailure(c) PROVE IInv'
  <2>1. RowsKeep
    <3>1. CASE UNCHANGED row
      BY <3>1 DEF RowsKeep
    <3>2. CASE \E class \in Classes : SettleFailed(c, class)
      BY <3>2, SettleRowsKeep
    <3> QED BY <1>9, <3>1, <3>2 DEF SettleFailure, TypeOK
  <2>2. RunsKeep
    BY <1>9 DEF SettleFailure, RunsKeep, TypeOK
  <2> QED BY <1>9, <2>1, <2>2, QuietStep DEF SettleFailure
<1>10. ASSUME NEW c \in Claims, Finish(c) PROVE IInv'
  <2>1. RunsKeep
    BY <1>10 DEF Finish, RunsKeep, TypeOK
  <2> QED BY <1>10, <2>1, QuietStep DEF Finish, RowsKeep
<1>11. ASSUME NEW p \in Procs, NEW r \in Renders, CancelLocal(p, r) PROVE IInv'
    BY <1>11, QuietStep DEF CancelLocal, Aborts, RowsKeep, RunsKeep
<1>12. ASSUME NEW p \in Procs, Crash(p) PROVE IInv'
    BY <1>12, CrashStep
<1>13. CASE UNCHANGED vars
    BY <1>13, QuietStep DEF vars, RowsKeep, RunsKeep
<1> QED
    BY <1>1, <1>2, <1>3, <1>4, <1>5, <1>6, <1>8, <1>9, <1>10, <1>11, <1>12, <1>13
    DEF Next, Pass, Run

\* The invariant holds throughout, for any number of renders, processes,
\* attempts and outages.
THEOREM QueueInvariant == Spec => []IInv
<1>1. Init => IInv
  <2> SUFFICES ASSUME Init PROVE IInv
      OBVIOUS
  <2>1. TypeOK
      BY MaxAttemptsAssumption, MaxOutagesAssumption
      DEF Init, TypeOK, RowType, Row, States, WorkStates, Ended, Classes
  <2>2. \A r \in Renders : row[r].state = "absent" /\ row[r].attempt = 0 /\ row[r].output = 0
      BY DEF Init, Row
  <2>3. RowsLeased /\ WinnerDone
      BY <2>2 DEF RowsLeased, WinnerDone
  <2>4. UnclaimedIdle /\ BytesFollowWork /\ NoStrayBytes
      BY DEF Init, UnclaimedIdle, BytesFollowWork, NoStrayBytes
  <2> QED BY <2>1, <2>3, <2>4 DEF IInv
<1> QED BY <1>1, Inductive, PTL DEF Spec

\* A succeeded render always has its bytes, and they are its last claim's.
THEOREM PublishedBytes == Spec => [](SucceededHasBytes /\ WinnerIsLastClaim)
<1>1. IInv => SucceededHasBytes /\ WinnerIsLastClaim
    BY DEF IInv, WinnerDone, SucceededHasBytes, WinnerIsLastClaim
<1> QED BY <1>1, QueueInvariant, PTL

\* No blob stays behind without an owner, a lost answer or a crash to blame.
THEOREM NoStray == Spec => []NoStrayBytes
<1>1. IInv => NoStrayBytes
    BY DEF IInv
<1> QED BY <1>1, QueueInvariant, PTL

-----------------------------------------------------------------------------
(* Every step, seen from the table: nothing a caller can see, an accepted   *)
(* request, a cancellation, a publication, or renders given up on.          *)

Pending == {"queued", "running"}

KeepsPending ==
    \A r \in Renders : \/ row'[r] = row[r]
                       \/ row[r].state \in Pending /\ row'[r].state \in Pending

GivesUp(lost) ==
    \A r \in Renders : IF r \in lost
                       THEN row[r].state \in Pending /\ row'[r].state = "failed"
                       ELSE row'[r] = row[r]

Publishes(c) == Held(c) /\ row' = [row EXCEPT ![c[1]] = PublishedRow(@, c[2])]

TableStep ==
    \/ KeepsPending
    \/ \E r \in Renders : Submit(r) \/ CancelRender(r)
    \/ \E c \in Claims : Publishes(c)
    \/ \E lost \in SUBSET Renders : GivesUp(lost)

LEMMA SettleTable ==
    ASSUME TypeOK, NEW c \in Claims, NEW class \in Classes, SettleFailed(c, class)
    PROVE  TableStep
<1>1. CASE ~Held(c)
    BY <1>1 DEF SettleFailed, TableStep, KeepsPending
<1>2. CASE Held(c)
  <2>1. /\ c[1] \in Renders /\ row[c[1]].state = "running"
        /\ row'[c[1]] = FailedRow(row[c[1]], class)
        /\ \A q \in Renders : q # c[1] => row'[q] = row[q]
    BY <1>2, ClaimParts DEF SettleFailed, Held, TypeOK
  <2>2. row'[c[1]].state \in {"queued", "failed"}
    BY <2>1 DEF FailedRow, Unleased, Row
  <2>3. CASE row'[c[1]].state = "queued"
    BY <2>1, <2>3 DEF TableStep, KeepsPending, Pending
  <2>4. CASE row'[c[1]].state = "failed"
    <3>1. GivesUp({c[1]})
      BY <2>1, <2>4 DEF GivesUp, Pending
    <3> QED BY <2>1, <3>1 DEF TableStep
  <2> QED BY <2>2, <2>3, <2>4
<1> QED BY <1>1, <1>2

LEMMA TableSteps == TypeOK /\ [Next]_vars => TableStep
<1> SUFFICES ASSUME TypeOK, [Next]_vars PROVE TableStep
    OBVIOUS
<1>1. CASE UNCHANGED row
    BY <1>1 DEF TableStep, KeepsPending
<1>2. ASSUME NEW r \in Renders, Clock(r) PROVE TableStep
  <2>1. [row[r] EXCEPT !.due = TRUE].state = row[r].state /\ [row[r] EXCEPT !.live = FALSE].state = row[r].state
    BY DEF TypeOK, RowType
  <2>2. KeepsPending
    BY <1>2, <2>1 DEF Clock, BecomeDue, LeaseLapses, KeepsPending, Pending, TypeOK
  <2> QED BY <2>2 DEF TableStep
<1>3. ASSUME NEW p \in Procs, ExhaustDue(p) PROVE TableStep
  <2> DEFINE lost == {r \in Renders : Exhausted(r)}
  <2>1. GivesUp(lost)
    BY <1>3 DEF ExhaustDue, GivesUp, Exhausted, Ready, Lapsed, Unleased, Row, Pending, TypeOK
  <2>2. lost \in SUBSET Renders
    OBVIOUS
  <2> QED BY <2>1, <2>2 DEF TableStep
<1>4. ASSUME NEW p \in Procs, ClaimRender(p), ~UNCHANGED row PROVE TableStep
  <2>1. PICK r \in Renders : Claimable(r) /\ row' = [row EXCEPT ![r] = ClaimedRow(@)]
    BY <1>4 DEF ClaimRender
  <2>2. row[r].state \in Pending
    BY <2>1 DEF Claimable, Ready, Lapsed, Pending
  <2>3. row'[r].state = "running" /\ \A q \in Renders : q # r => row'[q] = row[q]
    BY <2>1 DEF ClaimedRow, Row, TypeOK
  <2> QED BY <2>2, <2>3 DEF TableStep, KeepsPending, Pending
<1>5. ASSUME NEW c \in Claims, StartClaim(c) \/ SettleFailure(c) PROVE TableStep
  <2>1. \/ UNCHANGED row
        \/ \E class \in Classes : SettleFailed(c, class)
    BY <1>5 DEF StartClaim, SettleFailure, TypeOK, Classes
  <2> QED BY <1>1, <2>1, SettleTable
<1>6. ASSUME NEW c \in Claims, Work(c) PROVE TableStep
  <2>1. UNCHANGED row \/ Publishes(c)
    BY <1>6 DEF Work, Execute, PutBlob, CheckAbort, Publish, Publishes, Cleanup
  <2> QED BY <1>1, <2>1 DEF TableStep
<1>7. ASSUME NEW c \in Claims, TimeOut(c) \/ HeartbeatRefused(c) \/ Finish(c) PROVE TableStep
    BY <1>1, <1>7 DEF TimeOut, HeartbeatRefused, Aborts, Finish
<1>8. ASSUME NEW p \in Procs, Tick(p) \/ Stop(p) \/ Stopped(p) \/ Restart(p) \/ Crash(p) PROVE TableStep
    BY <1>1, <1>8 DEF Tick, Stop, Stopped, Restart, Crash
<1>9. ASSUME NEW p \in Procs, NEW r \in Renders, CancelLocal(p, r) PROVE TableStep
    BY <1>1, <1>9 DEF CancelLocal, Aborts
<1>10. CASE UNCHANGED vars
    BY <1>1, <1>10 DEF vars
<1>11. ASSUME NEW r \in Renders, Caller(r) PROVE TableStep
    BY <1>11 DEF Caller, TableStep
<1> QED
    BY <1>1, <1>2, <1>3, <1>4, <1>5, <1>6, <1>7, <1>8, <1>9, <1>10, <1>11 DEF Next, Pass, Run

\* A render that has ended never changes again.
THEOREM CompletedIsFinal == Spec => TerminalIsFinal
<1>1. TypeOK /\ [Next]_vars => [\A r \in Renders : row[r].state \in Terminal => row'[r] = row[r]]_vars
  <2> SUFFICES ASSUME TypeOK, TableStep, NEW r \in Renders, row[r].state \in Terminal
               PROVE  row'[r] = row[r]
      BY TableSteps
  <2>1. CASE KeepsPending
    BY <2>1 DEF KeepsPending, Pending, Terminal
  <2>2. ASSUME NEW q \in Renders, Submit(q) \/ CancelRender(q) PROVE row'[r] = row[r]
    BY <2>2 DEF Submit, CancelRender, Terminal, TypeOK
  <2>3. ASSUME NEW c \in Claims, Publishes(c) PROVE row'[r] = row[r]
    BY <2>3 DEF Publishes, Held, Terminal, TypeOK
  <2>4. ASSUME NEW lost \in SUBSET Renders, GivesUp(lost) PROVE row'[r] = row[r]
    BY <2>4 DEF GivesUp, Pending, Terminal
  <2> QED BY <2>1, <2>2, <2>3, <2>4 DEF TableStep
<1> QED BY <1>1, QueueTypeOK, PTL DEF Spec, TerminalIsFinal

-----------------------------------------------------------------------------
(* The refinement of RenderPromise.                                        *)

Outcome == [r \in Renders |-> OutcomeOf(row[r].state)]

\* With the invariant, what can be downloaded is what succeeded.
LEMMA DownloadsAreSuccesses == IInv => Downloads = {r \in Renders : row[r].state = "succeeded"}
BY DEF IInv, WinnerDone, Downloads

LEMMA PromiseStep ==
    ASSUME IInv, IInv', TableStep
    PROVE  Promise!PNext \/ (Outcome' = Outcome /\ Downloads' = Downloads)
<1> USE DEF Outcome
<1>1. /\ Downloads = {r \in Renders : row[r].state = "succeeded"}
      /\ Downloads' = {r \in Renders : row'[r].state = "succeeded"}
    BY DownloadsAreSuccesses DEF IInv, WinnerDone, Downloads
<1>2. CASE KeepsPending
  <2>1. \A r \in Renders : OutcomeOf(row'[r].state) = OutcomeOf(row[r].state)
    BY <1>2 DEF KeepsPending, Pending, OutcomeOf
  <2>2. \A r \in Renders : row'[r].state = "succeeded" <=> row[r].state = "succeeded"
    BY <1>2 DEF KeepsPending, Pending
  <2> QED BY <1>1, <2>1, <2>2
<1>3. ASSUME NEW r \in Renders, Submit(r) PROVE Promise!Accept(r)
  <2>1. /\ row[r].state = "absent" /\ row'[r].state = "queued"
        /\ \A q \in Renders : q # r => row'[q] = row[q]
    BY <1>3 DEF Submit, Row, IInv, TypeOK
  <2>2. Downloads' = Downloads
    BY <1>1, <2>1
  <2>3. OutcomeOf("absent") = "none" /\ OutcomeOf("queued") = "pending"
    BY DEF OutcomeOf
  <2>4. Outcome' = [Outcome EXCEPT ![r] = "pending"]
    BY <2>1, <2>3
  <2> QED BY <2>1, <2>2, <2>3, <2>4 DEF Promise!Accept
<1>4. ASSUME NEW r \in Renders, CancelRender(r) PROVE Promise!Cancel(r)
  <2>1. /\ row[r].state \in Pending /\ row'[r].state = "cancelled"
        /\ \A q \in Renders : q # r => row'[q] = row[q]
    BY <1>4 DEF CancelRender, Unleased, Row, IInv, TypeOK, Pending
  <2>2. Downloads' = Downloads
    BY <1>1, <2>1 DEF Pending
  <2>3. OutcomeOf(row[r].state) = "pending" /\ OutcomeOf("cancelled") = "cancelled"
    BY <2>1 DEF OutcomeOf, Pending
  <2>4. Outcome' = [Outcome EXCEPT ![r] = "cancelled"]
    BY <2>1, <2>3
  <2> QED BY <2>2, <2>3, <2>4 DEF Promise!Cancel
<1>5. ASSUME NEW c \in Claims, Publishes(c) PROVE Promise!Succeed(c[1])
  <2>1. /\ c[1] \in Renders /\ row[c[1]].state = "running" /\ row'[c[1]].state = "succeeded"
        /\ \A q \in Renders : q # c[1] => row'[q] = row[q]
    BY <1>5, ClaimParts DEF Publishes, Held, PublishedRow, Row, IInv, TypeOK
  <2>2. Downloads' = Downloads \cup {c[1]}
    BY <1>1, <2>1
  <2>3. OutcomeOf("running") = "pending" /\ OutcomeOf("succeeded") = "succeeded"
    BY DEF OutcomeOf
  <2>4. Outcome' = [Outcome EXCEPT ![c[1]] = "succeeded"]
    BY <2>1, <2>3
  <2> QED BY <2>1, <2>2, <2>3, <2>4 DEF Promise!Succeed
<1>6. ASSUME NEW lost \in SUBSET Renders, GivesUp(lost) PROVE Promise!Fail(lost)
  <2>1. Downloads' = Downloads
    BY <1>1, <1>6 DEF GivesUp, Pending
  <2>2. /\ \A r \in lost : OutcomeOf(row[r].state) = "pending"
        /\ OutcomeOf("failed") = "failed"
    BY <1>6 DEF OutcomeOf, GivesUp, Pending
  <2>3. Outcome' = [r \in Renders |-> IF r \in lost THEN "failed" ELSE Outcome[r]]
    BY <1>6, <2>2 DEF GivesUp
  <2> QED BY <2>1, <2>2, <2>3 DEF Promise!Fail
<1> QED
  <2>1. CASE \E r \in Renders : Submit(r) \/ CancelRender(r)
    BY <1>3, <1>4, <2>1 DEF Promise!PNext
  <2>2. CASE \E c \in Claims : Publishes(c)
    BY <1>5, <2>2, ClaimParts DEF Promise!PNext
  <2>3. CASE \E lost \in SUBSET Renders : GivesUp(lost)
    BY <1>6, <2>3 DEF Promise!PNext
  <2> QED BY <1>2, <2>1, <2>2, <2>3 DEF TableStep

\* The queue, with its leases, retries, lost answers and crashes, implements
\* what the render resource promises its caller.
THEOREM QueueKeepsPromise == Spec => ImplementsPromise
<1>1. Init => Promise!PInit
  <2> SUFFICES ASSUME Init PROVE Promise!PInit
      OBVIOUS
  <2>1. \A r \in Renders : row[r].state = "absent"
    BY DEF Init, Row
  <2>2. OutcomeOf("absent") = "none"
    BY DEF OutcomeOf
  <2>3. Downloads = {}
    BY <2>1 DEF Downloads
  <2> QED BY <2>1, <2>2, <2>3 DEF Promise!PInit
<1>2. IInv /\ IInv' /\ [Next]_vars => [Promise!PNext]_(Promise!pvars)
    BY PromiseStep, TableSteps DEF IInv, Outcome, Promise!pvars
<1> QED BY <1>1, <1>2, QueueInvariant, PTL DEF Spec, ImplementsPromise, Promise!PSpec

-----------------------------------------------------------------------------
(* Capacity follows physical work.                                         *)

\* A process never has more runs than slots, and one slot free while its pass goes on.
SlotsKept ==
    \A p \in Procs :
        /\ IsFiniteSet(Active(p))
        /\ Cardinality(Active(p)) <= Concurrency
        /\ pass[p] # "idle" => Cardinality(Active(p)) < Concurrency

\* Work runs only while its run still holds a slot.
WorkHoldsSlot == \A c \in Claims : WorkRuns(c) => main[c] \in {"racing", "finalizing"}

\* A claim handed out and not started is the one its process's pass waits for.
OneToStart ==
    /\ \A c \in Claims : main[c] = "claimed" => owner[c] \in Procs /\ pass[owner[c]] = "start"
    /\ \A c, d \in Claims : main[c] = "claimed" /\ main[d] = "claimed" /\ owner[c] = owner[d] => c = d

SlotInv == SlotsKept /\ WorkHoldsSlot /\ OneToStart

\* Runs of a process: a claim more, or fewer.
LEMMA FewerRuns ==
    ASSUME SlotsKept, NEW p \in Procs, NEW S, S \subseteq Active(p)
    PROVE  /\ IsFiniteSet(S) /\ Cardinality(S) \in Nat /\ Cardinality(S) <= Cardinality(Active(p))
           /\ Cardinality(S) <= Concurrency
           /\ pass[p] # "idle" => Cardinality(S) < Concurrency
<1>1. IsFiniteSet(Active(p)) /\ Cardinality(Active(p)) <= Concurrency
      /\ (pass[p] # "idle" => Cardinality(Active(p)) < Concurrency)
  BY DEF SlotsKept
<1>2. IsFiniteSet(S) /\ Cardinality(S) <= Cardinality(Active(p))
  BY <1>1, FS_Subset
<1>3. Cardinality(S) \in Nat /\ Cardinality(Active(p)) \in Nat
  BY <1>1, <1>2, FS_CardinalityType
<1> QED BY <1>1, <1>2, <1>3, ConcurrencyAssumption

\* Steps of the work of a claim, and those that change no run: nothing starts to run.
LEMMA NothingStarts ==
    ASSUME SlotInv, UNCHANGED <<main, owner, pass>>, \A c \in Claims : WorkRuns(c)' => WorkRuns(c)
    PROVE  SlotInv'
<1>1. \A p : Active(p)' = Active(p)
  BY DEF Active
<1>2. SlotsKept'
  BY <1>1 DEF SlotInv, SlotsKept
<1> QED BY <1>2 DEF SlotInv, WorkHoldsSlot, OneToStart

\* A run over, or one that has its answer, frees at most its own slot.
LEMMA RunsEnd ==
    ASSUME SlotInv, UNCHANGED <<work, owner, pass>>, NEW c \in Claims, NEW to \in {"finalizing", "done"},
           main[c] \in {"racing", "finalizing"}, WorkRuns(c) => to = "finalizing",
           TypeOK, main' = [main EXCEPT ![c] = to]
    PROVE  SlotInv'
<1>1. \A d \in Claims : main'[d] = IF d = c THEN to ELSE main[d]
  BY DEF TypeOK
<1>2. \A p \in Procs : Active(p)' \subseteq Active(p)
  BY <1>1 DEF Active
<1>3. SlotsKept'
  BY <1>2, FewerRuns DEF SlotInv, SlotsKept
<1>4. WorkHoldsSlot'
  BY <1>1 DEF SlotInv, WorkHoldsSlot, WorkRuns
<1>5. OneToStart'
  BY <1>1 DEF SlotInv, OneToStart
<1> QED BY <1>3, <1>4, <1>5 DEF SlotInv

\* The pass goes on only with a slot free.
LEMMA PassMoves ==
    ASSUME SlotInv, TypeOK, UNCHANGED <<work, main, owner>>, NEW p \in Procs, NEW to \in {"idle", "exhaust", "claim"},
           pass' = [pass EXCEPT ![p] = to], pass[p] # "start",
           to # "idle" => pass[p] # "idle" \/ Cardinality(Active(p)) < Concurrency
    PROVE  SlotInv'
<1>1. \A q : Active(q)' = Active(q)
  BY DEF Active
<1>2. \A q \in Procs : pass'[q] = IF q = p THEN to ELSE pass[q]
  BY DEF TypeOK
<1>3. SlotsKept'
  BY <1>1, <1>2 DEF SlotInv, SlotsKept
<1>4. OneToStart'
  BY <1>2 DEF SlotInv, OneToStart
<1> QED BY <1>3, <1>4 DEF SlotInv, WorkHoldsSlot, WorkRuns

\* A claim is handed out to a pass that had none to start.
LEMMA ClaimSlots == ASSUME SlotInv, IInv, NEW p \in Procs, ClaimRender(p) PROVE SlotInv'
<1>0. TypeOK /\ pass[p] = "claim"
  BY DEF IInv, ClaimRender
<1>1. CASE UNCHANGED <<main, owner>>
  <2>1. pass' = [pass EXCEPT ![p] = "idle"] \/ pass' = [pass EXCEPT ![p] = "start"]
    BY DEF ClaimRender
  <2>2. CASE pass' = [pass EXCEPT ![p] = "idle"]
    BY <1>0, <1>1, <2>2, PassMoves DEF ClaimRender
  <2>3. CASE pass' = [pass EXCEPT ![p] = "start"]
    <3>1. \A q : Active(q)' = Active(q)
      BY <1>1 DEF Active
    <3>2. \A q \in Procs : pass'[q] = IF q = p THEN "start" ELSE pass[q]
      BY <1>0, <2>3 DEF TypeOK
    <3>3. SlotsKept'
      BY <1>0, <3>1, <3>2 DEF SlotInv, SlotsKept
    <3>4. OneToStart'
      BY <1>0, <1>1, <3>2 DEF SlotInv, OneToStart
    <3> QED BY <1>1, <3>3, <3>4 DEF SlotInv, WorkHoldsSlot, WorkRuns, ClaimRender
  <2> QED BY <2>1, <2>2, <2>3
<1>2. CASE ~UNCHANGED <<main, owner>>
  <2>1. PICK r \in Renders :
          /\ Claimable(r)
          /\ pass' = [pass EXCEPT ![p] = "start"]
          /\ main' = [main EXCEPT ![<<r, row[r].attempt + 1>>] = "claimed"]
          /\ owner' = [owner EXCEPT ![<<r, row[r].attempt + 1>>] = p]
          /\ work' = work
    BY <1>2 DEF ClaimRender
  <2> DEFINE c == <<r, row[r].attempt + 1>>
  <2>2. c \in Claims /\ c[1] = r /\ c[2] = row[r].attempt + 1 /\ row[r].attempt \in Nat
    BY <1>0, <2>1, MaxAttemptsAssumption DEF TypeOK, RowType, Claimable, Claims
  <2> HIDE DEF c
  <2>3. main[c] = "none" /\ owner[c] = NoProc /\ ~WorkRuns(c)
    BY <2>2 DEF IInv, UnclaimedIdle, WorkRuns
  <2>4. /\ \A d \in Claims : main'[d] = IF d = c THEN "claimed" ELSE main[d]
        /\ \A d \in Claims : owner'[d] = IF d = c THEN p ELSE owner[d]
        /\ \A q \in Procs : pass'[q] = IF q = p THEN "start" ELSE pass[q]
    BY <1>0, <2>1 DEF TypeOK, c
  <2>5. \A q \in Procs : Active(q)' = Active(q)
    BY <2>3, <2>4 DEF Active
  <2>6. SlotsKept'
    BY <1>0, <2>4, <2>5 DEF SlotInv, SlotsKept
  <2>7. WorkHoldsSlot'
    BY <2>1, <2>3, <2>4 DEF SlotInv, WorkHoldsSlot, WorkRuns
  <2>8. \A d \in Claims : main[d] = "claimed" => owner[d] # p
    BY <1>0 DEF SlotInv, OneToStart
  <2>9. OneToStart'
    <3>1. \A d \in Claims : main'[d] = "claimed" => owner'[d] \in Procs /\ pass'[owner'[d]] = "start"
      BY <2>4 DEF SlotInv, OneToStart
    <3>2. \A d, e \in Claims : main'[d] = "claimed" /\ main'[e] = "claimed" /\ owner'[d] = owner'[e] => d = e
      BY <2>4, <2>8 DEF SlotInv, OneToStart
    <3> QED BY <3>1, <3>2 DEF OneToStart
  <2> QED BY <2>6, <2>7, <2>9 DEF SlotInv
<1> QED BY <1>1, <1>2

\* A claim takes the slot its pass has kept free, or is handed back.
LEMMA StartSlots == ASSUME SlotInv, TypeOK, NEW c \in Claims, StartClaim(c) PROVE SlotInv'
<1>12. PICK p \in Procs : p = owner[c]
  BY DEF SlotInv, OneToStart, StartClaim
<1>0. p = owner[c] /\ pass[p] = "start" /\ main[c] = "claimed" /\ owner' = owner
  BY <1>12 DEF SlotInv, OneToStart, StartClaim
<1>1. \A d \in Claims : main[d] = "claimed" /\ d # c => owner[d] # p
  BY <1>0 DEF SlotInv, OneToStart
<1>2. IsFiniteSet(Active(p)) /\ Cardinality(Active(p)) < Concurrency /\ Cardinality(Active(p)) \in Nat
  BY <1>0, FS_CardinalityType DEF SlotInv, SlotsKept
<1>3. PICK to \in {"racing", "done"}, next \in {"idle", "exhaust"} :
        /\ main' = [main EXCEPT ![c] = to]
        /\ pass' = [pass EXCEPT ![p] = next]
        /\ to = "racing" => work' = [work EXCEPT ![c] = "execute"]
        /\ to = "done" => work' = work /\ next = "idle"
        /\ next = "exhaust" => Cardinality(Active(p)) + 1 < Concurrency
  BY <1>12 DEF StartClaim
<1>4. /\ \A d \in Claims : main'[d] = IF d = c THEN to ELSE main[d]
      /\ \A q \in Procs : pass'[q] = IF q = p THEN next ELSE pass[q]
  BY <1>3 DEF TypeOK
<1>5. ~WorkRuns(c) /\ \A d \in Claims : d # c => (WorkRuns(d)' <=> WorkRuns(d))
  <2>1. ~WorkRuns(c)
    BY <1>0 DEF SlotInv, WorkHoldsSlot
  <2> QED BY <1>3, <2>1 DEF WorkRuns, TypeOK
<1>6. \A q \in Procs : q # p => Active(q)' = Active(q)
  BY <1>0, <1>4 DEF Active
<1>7. Active(p)' = IF to = "racing" THEN Active(p) \cup {c} ELSE Active(p)
  BY <1>0, <1>4 DEF Active
<1>8. IsFiniteSet(Active(p)') /\ Cardinality(Active(p)') <= Concurrency
      /\ (next # "idle" => Cardinality(Active(p)') < Concurrency)
  <2>1. CASE to = "done"
    BY <1>2, <1>3, <1>7, <2>1, ConcurrencyAssumption
  <2>2. CASE to = "racing"
    <3>1. c \notin Active(p)
      BY <1>0 DEF Active
    <3>2. Active(p)' = Active(p) \cup {c}
      BY <1>7, <2>2
    <3>3. IsFiniteSet(Active(p) \cup {c}) /\ Cardinality(Active(p) \cup {c}) = Cardinality(Active(p)) + 1
      BY <1>2, <3>1, FS_AddElement
    <3> QED BY <1>2, <1>3, <3>2, <3>3, ConcurrencyAssumption
  <2> QED BY <2>1, <2>2
<1>9. SlotsKept'
  <2> SUFFICES ASSUME NEW q \in Procs
               PROVE  /\ IsFiniteSet(Active(q)') /\ Cardinality(Active(q)') <= Concurrency
                      /\ pass'[q] # "idle" => Cardinality(Active(q)') < Concurrency
    BY DEF SlotsKept
  <2>1. CASE q = p
    <3>1. Active(q)' = Active(p)'
      BY <2>1 DEF Active
    <3> QED BY <1>4, <1>8, <2>1, <3>1
  <2>2. CASE q # p
    BY <1>4, <1>6, <2>2 DEF SlotInv, SlotsKept
  <2> QED BY <2>1, <2>2
<1>10. WorkHoldsSlot'
  <2>1. ASSUME NEW d \in Claims, WorkRuns(d)' PROVE main'[d] \in {"racing", "finalizing"}
    <3>1. CASE d # c
      BY <1>4, <1>5, <2>1, <3>1 DEF SlotInv, WorkHoldsSlot
    <3>2. CASE d = c /\ to = "racing"
      BY <1>4, <3>2
    <3>3. CASE d = c /\ to = "done"
      BY <1>3, <1>5, <2>1, <3>3 DEF WorkRuns
    <3> QED BY <3>1, <3>2, <3>3
  <2> QED BY <2>1 DEF WorkHoldsSlot
<1>11. OneToStart'
  <2>1. \A d \in Claims : main'[d] = "claimed" => d # c /\ main[d] = "claimed"
    BY <1>4
  <2>2. \A d \in Claims : main'[d] = "claimed" => owner[d] \in Procs /\ owner[d] # p /\ pass[owner[d]] = "start"
    BY <1>1, <2>1 DEF SlotInv, OneToStart
  <2> QED BY <1>0, <1>4, <2>1, <2>2 DEF SlotInv, OneToStart
<1> QED BY <1>9, <1>10, <1>11 DEF SlotInv

\* A crash ends every run of its process.
LEMMA CrashSlots == ASSUME SlotInv, TypeOK, NEW p \in Procs, Crash(p) PROVE SlotInv'
<1>1. /\ work' = [c \in Claims |-> IF c \in Active(p) /\ WorkRuns(c) THEN "crashed" ELSE work[c]]
      /\ main' = [c \in Claims |-> IF owner[c] = p THEN "done" ELSE main[c]]
      /\ pass' = [pass EXCEPT ![p] = "idle"] /\ owner' = owner
  BY DEF Crash
<1>2. \A q \in Procs : pass'[q] = IF q = p THEN "idle" ELSE pass[q]
  BY <1>1 DEF TypeOK
<1>3. \A q \in Procs : Active(q)' \subseteq Active(q)
  BY <1>1 DEF Active
<1>4. SlotsKept'
  BY <1>2, <1>3, FewerRuns DEF SlotInv, SlotsKept
<1>5. WorkHoldsSlot'
  <2> SUFFICES ASSUME NEW c \in Claims, WorkRuns(c)' PROVE main'[c] \in {"racing", "finalizing"}
    BY DEF WorkHoldsSlot
  <2>1. work'[c] # "crashed"
    BY DEF WorkRuns, Ended
  <2>2. work'[c] = work[c] /\ ~(c \in Active(p) /\ WorkRuns(c))
    BY <1>1, <2>1
  <2>3. WorkRuns(c)
    BY <2>2 DEF WorkRuns
  <2>4. main[c] \in {"racing", "finalizing"} /\ c \notin Active(p)
    BY <2>2, <2>3 DEF SlotInv, WorkHoldsSlot
  <2>5. owner[c] # p
    BY <2>4 DEF Active
  <2> QED BY <1>1, <2>4, <2>5
<1>6. OneToStart'
  <2>1. \A c \in Claims : main'[c] = "claimed" => main[c] = "claimed" /\ owner[c] # p
    BY <1>1
  <2> QED BY <1>1, <1>2, <2>1 DEF SlotInv, OneToStart
<1> QED BY <1>4, <1>5, <1>6 DEF SlotInv

\* A step of the work of a claim is that claim's alone.
LEMMA WorkIsOnes ==
    ASSUME NEW c \in Claims, Work(c), TypeOK
    PROVE  \A d \in Claims : d # c => work'[d] = work[d]
<1>1. ASSUME NEW end, NEW class, EndWork(c, end, class) PROVE \A d \in Claims : d # c => work'[d] = work[d]
  BY <1>1 DEF EndWork, TypeOK
<1>2. CASE Cleanup(c)
  BY <1>2 DEF Cleanup, TypeOK
<1>3. CASE Execute(c) \/ PutBlob(c) \/ CheckAbort(c) \/ Publish(c)
  <2>1. \E end, class : EndWork(c, end, class)
    BY <1>3 DEF Execute, PutBlob, CheckAbort, Publish
  <2> QED BY <1>1, <2>1
<1> QED BY <1>2, <1>3 DEF Work

\* A step of the work of a claim starts nothing.
LEMMA WorkStarts ==
    ASSUME NEW c \in Claims, Work(c), TypeOK
    PROVE  UNCHANGED <<main, owner, pass>> /\ \A d \in Claims : WorkRuns(d)' => WorkRuns(d)
<1>1. UNCHANGED <<main, owner, pass>> /\ WorkRuns(c)
  BY DEF Work, Execute, PutBlob, CheckAbort, Publish, Cleanup, WorkRuns, Ended
<1>2. \A d \in Claims : d # c => work'[d] = work[d]
  BY WorkIsOnes
<1> QED BY <1>1, <1>2 DEF WorkRuns

\* Every step keeps the slots.
LEMMA SlotStep == IInv /\ SlotInv /\ [Next]_vars => SlotInv'
<1> SUFFICES ASSUME IInv, SlotInv, [Next]_vars PROVE SlotInv'
  OBVIOUS
<1>0. TypeOK
  BY DEF IInv
<1>1. ASSUME NEW r \in Renders, Caller(r) \/ Clock(r) PROVE SlotInv'
  <2>1. UNCHANGED <<work, main, owner, pass>>
    BY <1>1 DEF Caller, Clock, Submit, CancelRender, BecomeDue, LeaseLapses, runVars
  <2> QED BY <2>1, NothingStarts DEF WorkRuns
<1>2. ASSUME NEW p \in Procs, Tick(p) PROVE SlotInv'
  BY <1>0, <1>2, PassMoves DEF Tick
<1>3. ASSUME NEW p \in Procs, ExhaustDue(p) PROVE SlotInv'
  BY <1>0, <1>3, PassMoves DEF ExhaustDue
<1>4. ASSUME NEW p \in Procs, Stop(p) \/ Stopped(p) \/ Restart(p) PROVE SlotInv'
  <2>1. UNCHANGED <<work, main, owner, pass>>
    BY <1>4 DEF Stop, Stopped, Restart
  <2> QED BY <2>1, NothingStarts DEF WorkRuns
<1>5. ASSUME NEW c \in Claims, Work(c) PROVE SlotInv'
  BY <1>0, <1>5, WorkStarts, NothingStarts
<1>6. ASSUME NEW c \in Claims, Run(c) PROVE SlotInv'
  <2>1. CASE StartClaim(c)
    BY <1>0, <2>1, StartSlots
  <2>2. CASE TimeOut(c) \/ HeartbeatRefused(c)
    <3>1. UNCHANGED <<work, main, owner, pass>>
      BY <2>2 DEF TimeOut, HeartbeatRefused, Aborts
    <3> QED BY <3>1, NothingStarts DEF WorkRuns
  <2>3. CASE SettleFailure(c)
    BY <1>0, <2>3, RunsEnd DEF SettleFailure
  <2>4. CASE Finish(c)
    <3>1. ~WorkRuns(c)
      BY <2>4 DEF Finish, WorkRuns
    <3> QED BY <1>0, <2>4, <3>1, RunsEnd DEF Finish
  <2> QED BY <1>6, <2>1, <2>2, <2>3, <2>4 DEF Run
<1>7. ASSUME NEW p \in Procs, NEW r \in Renders, CancelLocal(p, r) PROVE SlotInv'
  <2>1. UNCHANGED <<work, main, owner, pass>>
    BY <1>7 DEF CancelLocal, Aborts
  <2> QED BY <2>1, NothingStarts DEF WorkRuns
<1>8. CASE UNCHANGED vars
  <2>1. UNCHANGED <<work, main, owner, pass>>
    BY <1>8 DEF vars
  <2> QED BY <2>1, NothingStarts DEF WorkRuns
<1> QED BY <1>1, <1>2, <1>3, <1>4, <1>5, <1>6, <1>7, <1>8, ClaimSlots, CrashSlots, <1>0 DEF Next, Pass

\* A run holds its slot until its work is over, and no claim pass takes a slot that is not free.
THEOREM SlotsInvariant == Spec => []SlotInv
<1>1. Init => SlotInv
  <2> SUFFICES ASSUME Init PROVE SlotInv
    OBVIOUS
  <2>1. \A p \in Procs : Active(p) = {}
    BY DEF Init, Active
  <2>2. IsFiniteSet({}) /\ Cardinality({}) = 0
    BY FS_EmptySet
  <2>3. SlotsKept
    BY <2>1, <2>2, ConcurrencyAssumption DEF SlotsKept
  <2>4. WorkHoldsSlot /\ OneToStart
    BY DEF Init, WorkHoldsSlot, WorkRuns, OneToStart
  <2> QED BY <2>3, <2>4 DEF SlotInv
<1> QED BY <1>1, SlotStep, QueueInvariant, PTL DEF Spec

\* PhysicalWorkBounded: a process executes at most Concurrency renders at once, also those
\* whose caller has its answer already (RenderRunner.active), for any renders and processes.
THEOREM PhysicalWorkKept == Spec => []PhysicalWorkBounded
<1>1. SlotInv => PhysicalWorkBounded
  <2> SUFFICES ASSUME SlotInv, NEW p \in Procs
               PROVE  Cardinality({c \in Claims : owner[c] = p /\ WorkRuns(c)}) <= Concurrency
    BY DEF PhysicalWorkBounded
  <2>1. {c \in Claims : owner[c] = p /\ WorkRuns(c)} \subseteq Active(p)
    BY DEF SlotInv, WorkHoldsSlot, Active
  <2> QED BY <2>1, FewerRuns DEF SlotInv
<1> QED BY <1>1, SlotsInvariant, PTL
=============================================================================
