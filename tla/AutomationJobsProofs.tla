-------------------------- MODULE AutomationJobsProofs --------------------------
(***************************************************************************)
(* No result is lost, nothing is left behind and what is settled stays, for *)
(* any jobs, processes and scenes.  The type invariant is itself a counting *)
(* argument: that the claims of a job stay within their bound needs what    *)
(* every one of them cost (ClaimsPaid).                                     *)
(***************************************************************************)
EXTENDS AutomationJobs, FiniteSetTheorems, TLAPS

Current(j) == <<j, job[j].n>>

JobRow == [state: {"absent", "queued", "running", "done", "failed", "removed"},
           n: 0..MaxClaims, live: BOOLEAN, result: 0..MaxClaims]
RemovalState == [at: {"none", "read", "deleted", "over"}, n: 0..MaxClaims, result: 0..MaxClaims]
Waiting == {NoPass, [at |-> "asked", job |-> <<>>], [at |-> "empty", job |-> <<>>]}
Got(c) == [at |-> "got", job |-> c]

JobsTyped ==
    /\ scene \in Scenes
    /\ job \in [Jobs -> JobRow]
    /\ blobs \subseteq Claims /\ aborted \subseteq Claims
    /\ unheard \subseteq Claims /\ leaked \subseteq Jobs
    /\ stage \in [Claims -> Active \cup {"none", "ended"}]
    /\ home \in [Claims -> Procs \cup {NoProc}]
    /\ running \in [Procs -> [Jobs -> 0..MaxClaims]]
    /\ pass \in [Procs -> Waiting \cup {Got(c) : c \in Claims}]
    /\ again \in [Procs -> BOOLEAN]
    /\ proc \in [Procs -> {"up", "stopping", "down"}]
    /\ removal \in [Jobs -> RemovalState]
    /\ faults \in 0..scene.faults /\ outages \in 0..scene.outages

\* A claim that was handed out is no later than the last, and handed to one process.
Numbered ==
    /\ \A c \in Claims : stage[c] # "none" => c[2] <= job[c[1]].n /\ home[c] \in Procs
    /\ \A p \in Procs : pass[p].at = "got" =>
          /\ stage[pass[p].job] = "none" /\ pass[p].job[2] <= job[pass[p].job[1]].n
          /\ \A q \in Procs : pass[q] = pass[p] => q = p

\* Only a claim that was handed out is aborted or in a Map, and a process that is
\* down neither asks nor holds a claim.
Handed ==
    /\ \A c \in aborted : stage[c] # "none"
    /\ \A p \in Procs, c \in Claims : running[p][c[1]] = c[2] => stage[c] # "none"
    /\ \A p \in Procs : proc[p] = "down" => pass[p].at \notin {"asked", "got"}

\* Processes told to stop, and those of them whose claim statement is under way.
Stopping == {p \in Procs : proc[p] = "stopping"}
LastAsk == {p \in Stopping : pass[p].at = "asked"}

\* The attempt of claim c will record an outcome unless a fault or an outage intervenes.
Sound(c) ==
    \/ \E p \in Procs \ Stopping : pass[p] = Got(c)
    \/ stage[c] \in {"exec", "put", "save", "undo", "failing"} /\ c \notin aborted /\ home[c] \notin Stopping

\* Something that was already counted will cost job j its running claim.
Charged(j) == job[j].state = "running" /\ ~(job[j].live /\ Sound(Current(j)))
Charge(j) == IF Charged(j) THEN 1 ELSE 0

\* Every claim of j beyond its retries is paid for by a fault or an outage; an
\* outage pays for two, since a stopping process may still claim once.
Paid(j) == job[j].n + Charge(j) + Cardinality(LastAsk) <= scene.retries + 1 + faults + 2 * outages

ClaimsPaid ==
    /\ IsFiniteSet(Stopping) /\ Cardinality(Stopping) <= outages
    /\ \A j \in Jobs : /\ Paid(j)
                       /\ job[j].state \in {"absent", "queued"} => job[j].n <= scene.retries
                       /\ job[j].state = "running" => job[j].n # 0

JobsInv == JobsTyped /\ Numbered /\ Handed /\ ClaimsPaid

-----------------------------------------------------------------------------
\* An attempt about to publish as the current claim has its bytes stored.
SaveHasBytes ==
    \A c \in Claims : stage[c] = "save" /\ c = Current(c[1]) /\ job[c[1]].state # "removed" => c \in blobs

\* The result of a done job is of its last claim, whose attempt is past every
\* step that deletes its own bytes unless it never heard of its success.
DoneHasBytes ==
    \A j \in Jobs : job[j].state = "done" =>
        /\ job[j].result = job[j].n /\ Current(j) \in Claims
        /\ Current(j) \in unheard \/ (Current(j) \in blobs /\ stage[Current(j)] \in {"sweep", "ending", "ended"})

\* The attempt of the claim will see to its bytes, or a delete has failed.
Accounted(c) == c[1] \in leaked \/ stage[c] \in {"save", "refused", "undo"}

\* Bytes that are nobody's result have an attempt that will see to them.
BytesOwned ==
    \A c \in blobs : \/ Accounted(c)
                     \/ job[c[1]].state \in {"done", "removed"} /\ c = Current(c[1]) /\ c[2] = job[c[1]].result

\* remove() deletes the bytes of every claim it read of.
RemovalOver ==
    \A c \in blobs : removal[c[1]].at = "over" => Accounted(c) \/ c[2] > removal[c[1]].n

FailedHasNoResult == \A j \in Jobs : job[j].state = "failed" => job[j].result = 0

\* Removal has begun before the row is marked.
RemovedForGood ==
    \A j \in Jobs : /\ removal[j].at \in {"deleted", "over"} => job[j].state = "removed"
                    /\ removal[j].at = "read" => job[j].state # "absent"

BytesInv ==
    /\ SaveHasBytes /\ DoneHasBytes /\ BytesOwned
    /\ FailedHasNoResult /\ RemovedForGood /\ RemovalOver

-----------------------------------------------------------------------------
(* Helpers.                                                                *)

LEMMA SceneFacts ==
    ASSUME JobsTyped
    PROVE  /\ scene.retries \in Nat /\ scene.faults \in Nat /\ scene.outages \in Nat /\ MaxClaims \in Nat
           /\ scene.retries + 1 + scene.faults + 2 * scene.outages <= MaxClaims
           /\ faults \in Nat /\ faults <= scene.faults /\ outages \in Nat /\ outages <= scene.outages
<1>1. scene \in SceneType /\ scene.retries + 1 + scene.faults + 2 * scene.outages <= MaxClaims
  BY ConstantsAssumption DEF JobsTyped
<1>2. scene.retries \in Nat /\ scene.faults \in Nat /\ scene.outages \in Nat
  BY <1>1 DEF SceneType
<1> QED BY <1>1, <1>2, ConstantsAssumption DEF JobsTyped

LEMMA RowFacts ==
    ASSUME JobsTyped, NEW j \in Jobs
    PROVE  /\ job[j] \in JobRow /\ job[j].n \in Nat /\ Charge(j) \in {0, 1}
           /\ job[j].n # 0 => Current(j) \in Claims
BY SceneFacts DEF JobsTyped, JobRow, Current, Claims, Charge

LEMMA ClaimFacts ==
    ASSUME JobsTyped, NEW c \in Claims
    PROVE  c = <<c[1], c[2]>> /\ c[1] \in Jobs /\ c[2] \in 1..MaxClaims /\ c[2] \in Nat
BY SceneFacts DEF Claims

\* A pass is idle, waits for an answer or holds a claim.
LEMMA PassFacts ==
    ASSUME JobsTyped, NEW p \in Procs
    PROVE  /\ pass[p].at = "got" => pass[p].job \in Claims /\ pass[p] = Got(pass[p].job)
           /\ \A c \in Claims : pass[p] = Got(c) => pass[p].at = "got" /\ pass[p].job = c
           /\ pass[p].at \in {"idle", "asked", "empty", "got"}
           /\ \A j \in Jobs : pass[p].job = Current(j) => pass[p].at = "got"
<1>1. CASE pass[p] \in Waiting
  BY <1>1 DEF Waiting, NoPass, Got, Current
<1>2. CASE \E c \in Claims : pass[p] = Got(c)
  BY <1>2 DEF Got
<1> QED BY <1>1, <1>2 DEF JobsTyped

\* Passes change, but none that holds a claim or comes to hold one, and a
\* stopping process does not ask again.
PassesMove ==
    \A p \in Procs :
        \/ pass'[p] = pass[p]
        \/ pass[p].at # "got" /\ pass'[p] \in Waiting /\ (pass'[p].at = "asked" => proc[p] = "up")

LEMMA KickMoves ==
    ASSUME JobsTyped, NEW p \in Procs, NEW map, Kick(p, map)
    PROVE  /\ PassesMove /\ again' \in [Procs -> BOOLEAN]
           /\ pass' \in [Procs -> Waiting \cup {Got(c) : c \in Claims}]
<1>1. again' \in [Procs -> BOOLEAN]
  BY DEF Kick, JobsTyped
<1>2. pass' = pass \/ (proc[p] = "up" /\ pass[p].at = "idle" /\ pass' = [pass EXCEPT ![p] = [at |-> "asked", job |-> <<>>]])
  BY DEF Kick
<1>3. pass' \in [Procs -> Waiting \cup {Got(c) : c \in Claims}]
  BY <1>2 DEF JobsTyped, Waiting
<1>4. PassesMove
  BY <1>2 DEF JobsTyped, PassesMove, Waiting
<1> QED BY <1>1, <1>3, <1>4

LEMMA NextPassMoves ==
    ASSUME JobsTyped, NEW p \in Procs, NEW map, NEW more, NextPass(p, map, more)
    PROVE  /\ again' \in [Procs -> BOOLEAN]
           /\ \E new \in Waiting : pass' = [pass EXCEPT ![p] = new] /\ (new.at = "asked" => proc[p] = "up")
<1>1. NoPass \in Waiting /\ NoPass.at # "asked" /\ [at |-> "asked", job |-> <<>>] \in Waiting
  BY DEF Waiting, NoPass
<1> QED BY <1>1 DEF NextPass, JobsTyped

\* While passes only move, the same claims are held and nobody who stops asks anew.
LEMMA MovesKeep ==
    ASSUME JobsTyped, JobsTyped', PassesMove, proc' = proc
    PROVE  /\ Stopping' = Stopping /\ LastAsk' \subseteq LastAsk
           /\ \A c \in Claims, p \in Procs : pass'[p] = Got(c) <=> pass[p] = Got(c)
<1>1. Stopping' = Stopping /\ \A p \in Stopping : proc[p] = "stopping"
  BY DEF Stopping
<1>2. LastAsk' \subseteq LastAsk
  BY <1>1 DEF LastAsk, PassesMove, Stopping
<1>3. ASSUME NEW c \in Claims, NEW p \in Procs PROVE pass'[p] = Got(c) <=> pass[p] = Got(c)
  <2>1. pass'[p] \in Waiting => pass'[p] # Got(c)
    BY DEF Waiting, Got, NoPass
  <2>2. pass[p].at # "got" => pass[p] # Got(c)
    BY DEF Got
  <2> QED BY <2>1, <2>2 DEF PassesMove
<1> QED BY <1>1, <1>2, <1>3

LEMMA NumberedKept ==
    ASSUME JobsTyped, JobsTyped', Numbered, PassesMove,
           \A j \in Jobs : job'[j].n >= job[j].n,
           \A c \in Claims : (stage'[c] = "none" <=> stage[c] = "none") /\ home'[c] = home[c]
    PROVE  Numbered'
<1>1. \A c \in Claims : stage'[c] # "none" => c[2] <= job'[c[1]].n /\ home'[c] \in Procs
  <2> SUFFICES ASSUME NEW c \in Claims, stage'[c] # "none" PROVE c[2] <= job'[c[1]].n /\ home'[c] \in Procs
    OBVIOUS
  <2>1. c[1] \in Jobs /\ c[2] \in Nat /\ job[c[1]].n \in Nat /\ job'[c[1]].n \in Nat
    BY ClaimFacts, RowFacts, SceneFacts DEF JobsTyped, JobRow
  <2> QED BY <2>1 DEF Numbered
<1>2. \A p \in Procs : pass'[p].at = "got" => pass'[p] = pass[p]
  BY DEF PassesMove, Waiting, NoPass
<1>3. ASSUME NEW p \in Procs, pass'[p].at = "got"
      PROVE  /\ stage'[pass'[p].job] = "none" /\ pass'[p].job[2] <= job'[pass'[p].job[1]].n
             /\ \A q \in Procs : pass'[q] = pass'[p] => q = p
  <2>1. pass'[p] = pass[p] /\ pass[p].at = "got"
    BY <1>2, <1>3
  <2>2. pass[p].job \in Claims
    BY <2>1, PassFacts
  <2> DEFINE c == pass[p].job
  <2>3. stage[c] = "none" /\ c[2] <= job[c[1]].n
    BY <2>1 DEF Numbered
  <2>4. c[1] \in Jobs /\ c[2] \in Nat /\ job[c[1]].n \in Nat /\ job'[c[1]].n \in Nat
    BY <2>2, ClaimFacts, RowFacts, SceneFacts DEF JobsTyped, JobRow
  <2>5. \A q \in Procs : pass'[q] = pass'[p] => q = p
    BY <1>2, <2>1 DEF Numbered
  <2> QED BY <2>1, <2>2, <2>3, <2>4, <2>5
<1> QED BY <1>1, <1>3 DEF Numbered

\* A step that claims nothing and stops nobody keeps the account.
LEMMA PaidKept ==
    ASSUME JobsInv, JobsTyped', scene' = scene, outages' = outages, faults' >= faults,
           Stopping' = Stopping, LastAsk' \subseteq LastAsk,
           \A j \in Jobs : /\ job'[j].n = job[j].n
                           /\ Charged(j)' => Charged(j) \/ faults' > faults
                           /\ job'[j].state = "running" => job[j].state = "running"
                           /\ job'[j].state \in {"absent", "queued"} =>
                                 job[j].state \in {"absent", "queued"} \/ job[j].n <= scene.retries
    PROVE  ClaimsPaid'
<1>1. IsFiniteSet(Stopping) /\ LastAsk \subseteq Stopping /\ Cardinality(Stopping) <= outages
  BY DEF JobsInv, ClaimsPaid, LastAsk
<1>2. IsFiniteSet(LastAsk) /\ IsFiniteSet(LastAsk')
  BY <1>1, FS_Subset
<1>3. Cardinality(LastAsk') <= Cardinality(LastAsk) /\ Cardinality(LastAsk) \in Nat /\ Cardinality(LastAsk') \in Nat
  BY <1>2, FS_Subset, FS_CardinalityType
<1>4. ASSUME NEW j \in Jobs PROVE Paid(j)'
  <2>1. Paid(j) /\ job[j].n \in Nat /\ Charge(j) \in {0, 1} /\ job'[j].n = job[j].n
    BY RowFacts DEF JobsInv, ClaimsPaid
  <2>2. Charge(j)' \in {0, 1} /\ (Charge(j)' = 1 => Charge(j) = 1 \/ faults' > faults)
    BY DEF Charge
  <2>3. scene.retries \in Nat /\ faults \in Nat /\ outages \in Nat /\ faults' \in Nat
    BY SceneFacts DEF JobsInv, JobsTyped
  <2> HIDE DEF Charge, LastAsk
  <2> QED BY <1>3, <2>1, <2>2, <2>3 DEF Paid
<1> QED BY <1>1, <1>4 DEF JobsInv, ClaimsPaid

\* A step of one attempt or statement, while passes only move.  If it ends the
\* running claim of a job unrecorded, that was charged before or a fault is.
LEMMA StepKeeps ==
    ASSUME JobsInv, JobsTyped', PassesMove, UNCHANGED <<scene, proc, outages>>, faults' >= faults,
           \A c \in aborted' : c \in aborted \/ stage[c] # "none",
           \A p \in Procs, c \in Claims : running'[p][c[1]] = c[2] => running[p][c[1]] = c[2],
           \A c \in Claims : (stage'[c] = "none" <=> stage[c] = "none") /\ home'[c] = home[c],
           \A j \in Jobs : /\ job'[j].n = job[j].n
                           /\ job'[j].state = "running" => job[j].state = "running" /\ job'[j].live = job[j].live
                           /\ job'[j].state \in {"absent", "queued"} =>
                                 job[j].state \in {"absent", "queued"} \/ job[j].n <= scene.retries
                           /\ job'[j].state = "running" /\ job[j].live /\ stage[Current(j)] # "none" /\ faults' = faults
                                 => /\ stage[Current(j)] \in {"exec", "put", "save", "undo", "failing"} /\ Current(j) \notin aborted
                                       => /\ stage'[Current(j)] \in {"exec", "put", "save", "undo", "failing"}
                                          /\ Current(j) \notin aborted'
    PROVE  JobsInv'
<1>1. Numbered'
  <2>1. \A j \in Jobs : job'[j].n >= job[j].n
    BY RowFacts DEF JobsInv
  <2> QED BY <2>1, NumberedKept DEF JobsInv
<1>2. Stopping' = Stopping /\ LastAsk' \subseteq LastAsk
  BY MovesKeep DEF JobsInv
<1>3. ASSUME NEW j \in Jobs, Charged(j)', faults' = faults PROVE Charged(j)
  <2> DEFINE c == Current(j)
  <2>1. job'[j].state = "running" /\ job[j].state = "running" /\ job'[j].live = job[j].live /\ Current(j)' = c
    BY <1>3 DEF Charged, Current
  <2>2. SUFFICES ASSUME job[j].live, Sound(c) PROVE Sound(c)'
    BY <1>3, <2>1 DEF Charged
  <2>3. CASE \E p \in Procs \ Stopping : pass[p] = Got(c)
    <3>1. PICK p \in Procs \ Stopping : pass[p] = Got(c)
      BY <2>3
    <3>2. pass[p].at = "got" /\ pass[p].job = c
      BY <3>1 DEF Got
    <3>3. c \in Claims
      BY <3>2, PassFacts DEF JobsInv
    <3> QED BY <1>2, <2>1, <3>1, <3>3, MovesKeep DEF Sound, JobsInv
  <2>4. CASE stage[c] \in {"exec", "put", "save", "undo", "failing"} /\ c \notin aborted /\ home[c] \notin Stopping
    <3>1. job[j].n # 0
      BY <2>1 DEF JobsInv, ClaimsPaid
    <3>2. c \in Claims
      BY <3>1, RowFacts DEF JobsInv
    <3> QED BY <1>2, <1>3, <2>1, <2>2, <2>4, <3>2 DEF Sound
  <2> QED BY <2>2, <2>3, <2>4 DEF Sound
<1>4. ClaimsPaid'
  <2>1. faults' \in Nat /\ faults \in Nat
    BY SceneFacts DEF JobsInv, JobsTyped
  <2>2. \A j \in Jobs : Charged(j)' => Charged(j) \/ faults' > faults
    BY <1>3, <2>1
  <2> HIDE DEF Charged
  <2> QED BY <1>2, <2>2, PaidKept
<1>5. Handed'
  <2>1. \A p \in Procs : proc[p] = "down" => pass'[p].at \notin {"asked", "got"}
    BY DEF JobsInv, Handed, PassesMove, Waiting, NoPass
  <2>2. aborted' \subseteq Claims
    BY DEF JobsTyped
  <2> QED BY <2>1, <2>2 DEF JobsInv, JobsTyped, Handed
<1> QED BY <1>1, <1>4, <1>5 DEF JobsInv

-----------------------------------------------------------------------------
(* What each action does to JobsInv.                                       *)

LEMMA SubmitJobs == ASSUME JobsInv, NEW j \in Jobs, NEW p \in Procs, Submit(j, p) PROVE JobsInv'
<1>1. /\ job' = [job EXCEPT ![j].state = "queued"] /\ job[j].state = "absent"
      /\ UNCHANGED <<scene, blobs, stage, home, aborted, running, proc, removal, outages, unheard, leaked>>
  BY DEF Submit, runs, past
<1>2. PassesMove /\ again' \in [Procs -> BOOLEAN] /\ pass' \in [Procs -> Waiting \cup {Got(c) : c \in Claims}]
  <2>1. Kick(p, running) \/ UNCHANGED <<pass, again>>
    BY DEF Submit
  <2> QED BY <2>1, KickMoves DEF JobsInv, JobsTyped, PassesMove
<1>3. faults' \in 0..scene.faults /\ faults' >= faults
  BY SceneFacts DEF Submit, Fault, Answered, JobsInv, JobsTyped
<1>4. job' \in [Jobs -> JobRow]
  BY <1>1 DEF JobsInv, JobsTyped, JobRow
<1>5. JobsTyped'
  BY <1>1, <1>2, <1>3, <1>4 DEF JobsInv, JobsTyped
<1>6. \A i \in Jobs : job'[i] = job[i] \/ (i = j /\ job'[i].state = "queued" /\ job'[i].n = job[i].n)
  BY <1>1 DEF JobsInv, JobsTyped, JobRow
<1> QED BY <1>1, <1>2, <1>3, <1>5, <1>6, StepKeeps

\* A step of claim c that leaves its process alone.
LEMMA AttemptKeeps ==
    ASSUME JobsInv, NEW c \in Claims, NEW s \in Active \cup {"ended"}, stage[c] \in Active,
           To(c, s), JobsTyped', UNCHANGED <<scene, proc, outages, home, aborted>>, faults' >= faults, PassesMove,
           \A p \in Procs, d \in Claims : running'[p][d[1]] = d[2] => running[p][d[1]] = d[2],
           \A j \in Jobs : job'[j] = job[j] \/
              (/\ j = c[1] /\ job'[j].n = job[j].n /\ job'[j].state \notin {"running", "absent"}
               /\ job'[j].state = "queued" => job[j].n <= scene.retries),
           job' = job /\ faults' = faults /\ c \notin aborted /\ stage[c] \in {"exec", "put", "save", "undo", "failing"}
              /\ s \notin {"exec", "put", "save", "undo", "failing"} => ~Holds(c)
    PROVE  JobsInv'
<1>1. stage' = [stage EXCEPT ![c] = s] /\ \A d \in Claims : d # c => stage'[d] = stage[d]
  BY DEF To, JobsInv, JobsTyped
<1>2. stage'[c] = s /\ s # "none" /\ stage[c] # "none"
  BY <1>1 DEF JobsInv, JobsTyped, Active
<1>3. \A d \in Claims : (stage'[d] = "none" <=> stage[d] = "none") /\ home'[d] = home[d]
  BY <1>1, <1>2
<1>4. ASSUME NEW j \in Jobs
      PROVE  /\ job'[j].n = job[j].n
             /\ job'[j].state = "running" => job[j].state = "running" /\ job'[j].live = job[j].live
             /\ job'[j].state \in {"absent", "queued"} => job[j].state \in {"absent", "queued"} \/ job[j].n <= scene.retries
  OBVIOUS
<1>5. ASSUME NEW j \in Jobs, job'[j].state = "running", job[j].live, faults' = faults,
             stage[Current(j)] \in {"exec", "put", "save", "undo", "failing"}, Current(j) \notin aborted
      PROVE  stage'[Current(j)] \in {"exec", "put", "save", "undo", "failing"} /\ Current(j) \notin aborted'
  <2>1. job'[j] = job[j] /\ job[j].state = "running" /\ job[j].n # 0 /\ Current(j) \in Claims
    BY <1>5, RowFacts DEF JobsInv, ClaimsPaid
  <2>2. CASE Current(j) # c
    BY <1>1, <1>5, <2>1, <2>2
  <2>3. CASE Current(j) = c
    <3>1. c[1] = j /\ c[2] = job[j].n /\ Holds(c)
      BY <1>5, <2>1, <2>3 DEF Current, Holds
    <3>2. job' = job
      <4>1. \A i \in Jobs : job'[i] = job[i]
        BY <2>1, <3>1
      <4> QED BY <4>1 DEF JobsInv, JobsTyped
    <3> QED BY <1>2, <1>5, <2>3, <3>1, <3>2
  <2> QED BY <2>2, <2>3
<1> QED BY <1>3, <1>4, <1>5, StepKeeps

\* The steps of an attempt that touch neither its job nor the poll loop.
LEMMA QuietAttempt ==
    ASSUME JobsInv, NEW c \in Claims, NEW s \in Active, stage[c] \in Active, To(c, s),
           UNCHANGED <<scene, job, home, aborted, pollVars, proc, removal, faults, outages, unheard>>,
           blobs' \subseteq Claims, leaked' \subseteq Jobs,
           c \notin aborted /\ stage[c] \in {"exec", "put", "save", "undo", "failing"}
              => s \in {"exec", "put", "save", "undo", "failing"}
    PROVE  JobsInv'
<1>1. JobsTyped'
  BY DEF JobsInv, JobsTyped, To, pollVars
<1>2. PassesMove /\ running' = running
  BY DEF PassesMove, pollVars
<1>3. faults' >= faults
  BY SceneFacts DEF JobsInv
<1> QED BY <1>1, <1>2, <1>3, AttemptKeeps

LEMMA ExecuteJobs == ASSUME JobsInv, NEW c \in Claims, Execute(c) PROVE JobsInv'
<1>1. /\ stage[c] = "exec"
      /\ UNCHANGED <<scene, job, blobs, home, aborted, pollVars, proc, removal, faults, outages, unheard, leaked>>
      /\ (c \in aborted /\ To(c, "ending")) \/ To(c, "put") \/ To(c, "failing")
  BY DEF Execute, At, tables, past
<1> QED BY <1>1, QuietAttempt DEF Active, JobsInv, JobsTyped

LEMMA PutJobs == ASSUME JobsInv, NEW c \in Claims, Put(c) PROVE JobsInv'
<1>1. /\ stage[c] = "put" /\ blobs' \in {blobs, blobs \cup {c}} /\ leaked' \in {leaked, leaked \cup {c[1]}}
      /\ UNCHANGED <<scene, job, home, aborted, pollVars, proc, removal, faults, outages, unheard>>
      /\ \E s \in {"undo", "save", "ending", "failing"} : To(c, s) /\ (c \notin aborted => s # "ending")
  BY DEF Put, At
<1>2. c[1] \in Jobs
  BY ClaimFacts DEF JobsInv
<1>3. blobs' \subseteq Claims /\ leaked' \subseteq Jobs
  BY <1>1, <1>2 DEF JobsInv, JobsTyped
<1> QED BY <1>1, <1>3, QuietAttempt DEF Active

LEMMA RefusedJobs == ASSUME JobsInv, NEW c \in Claims, Refused(c) PROVE JobsInv'
<1>1. /\ stage[c] = "refused" /\ blobs' \subseteq blobs /\ leaked' = leaked
      /\ UNCHANGED <<scene, job, home, aborted, pollVars, proc, removal, faults, outages, unheard>>
      /\ \E s \in {"ending", "undo"} : To(c, s)
  BY DEF Refused, At, past
<1> QED BY <1>1, QuietAttempt DEF Active, JobsInv, JobsTyped

LEMMA UndoJobs == ASSUME JobsInv, NEW c \in Claims, Undo(c) PROVE JobsInv'
<1>1. /\ stage[c] = "undo" /\ blobs' \subseteq blobs /\ leaked' \in {leaked, leaked \cup {c[1]}}
      /\ UNCHANGED <<scene, job, home, aborted, pollVars, proc, removal, faults, outages, unheard>>
      /\ \E s \in {"ending", "failing"} : To(c, s) /\ (c \notin aborted => s # "ending")
  BY DEF Undo, At
<1>2. c[1] \in Jobs
  BY ClaimFacts DEF JobsInv
<1>3. blobs' \subseteq Claims /\ leaked' \subseteq Jobs
  BY <1>1, <1>2 DEF JobsInv, JobsTyped
<1> QED BY <1>1, <1>3, QuietAttempt DEF Active

LEMMA SweepJobs == ASSUME JobsInv, NEW c \in Claims, Sweep(c) PROVE JobsInv'
<1>1. /\ stage[c] = "sweep" /\ blobs' \subseteq blobs /\ leaked' \in {leaked, leaked \cup {c[1]}}
      /\ UNCHANGED <<scene, job, home, aborted, pollVars, proc, removal, faults, outages, unheard>> /\ To(c, "ending")
  BY DEF Sweep, At
<1>2. c[1] \in Jobs
  BY ClaimFacts DEF JobsInv
<1>3. blobs' \subseteq Claims /\ leaked' \subseteq Jobs
  BY <1>1, <1>2 DEF JobsInv, JobsTyped
<1> QED BY <1>1, <1>3, QuietAttempt DEF Active

LEMMA RowSaved ==
    ASSUME JobsTyped, NEW j \in Jobs, NEW s \in {"queued", "running", "done", "failed"}, NEW r \in 0..MaxClaims,
           job' = [job EXCEPT ![j].state = s, ![j].result = r]
    PROVE  /\ job' \in [Jobs -> JobRow] /\ \A i \in Jobs : i # j => job'[i] = job[i]
           /\ job'[j].state = s /\ job'[j].result = r /\ job'[j].n = job[j].n /\ job'[j].live = job[j].live
<1> DEFINE row == [job[j] EXCEPT !.state = s, !.result = r]
<1>1. row \in JobRow /\ row.state = s /\ row.result = r /\ row.n = job[j].n /\ row.live = job[j].live
  BY DEF JobsTyped, JobRow
<1>2. job' = [job EXCEPT ![j] = row]
  BY DEF JobsTyped, JobRow
<1> HIDE DEF row
<1>3. job'[j] = row /\ \A i \in Jobs : i # j => job'[i] = job[i]
  BY <1>2 DEF JobsTyped
<1>4. job' \in [Jobs -> JobRow]
  BY <1>1, <1>2 DEF JobsTyped
<1> QED BY <1>1, <1>3, <1>4

\* Both saves of an attempt, and what its row holds when they take effect.
LEMMA SavableFacts ==
    ASSUME JobsInv, NEW c \in Claims, NEW s, Savable(c, s)
    PROVE  /\ c[1] \in Jobs /\ c = Current(c[1])
           /\ job[c[1]].state \in {"running", s} /\ job[c[1]].state \in {"running", "done", "failed"}
BY ClaimFacts DEF JobsInv, Savable, Holds, Current

LEMMA PublishJobs == ASSUME JobsInv, NEW c \in Claims, Publish(c) PROVE JobsInv'
<1>1. /\ stage[c] = "save" /\ UNCHANGED <<scene, blobs, home, aborted, pollVars, proc, removal, outages, leaked>>
      /\ unheard' \in {unheard, unheard \cup {c}} /\ (faults' = faults \/ Fault)
      /\ \/ (job' = job /\ To(c, "undo")) \/ (job' = job /\ ~Savable(c, "done") /\ To(c, "refused"))
         \/ /\ Savable(c, "done") /\ job' = [job EXCEPT ![c[1]].state = "done", ![c[1]].result = c[2]]
            /\ \E s \in {"sweep", "undo"} : To(c, s)
  BY DEF Publish, At, Answered
<1>2. c[1] \in Jobs /\ c[2] \in 0..MaxClaims
  BY ClaimFacts DEF JobsInv
<1>3. faults' \in 0..scene.faults /\ faults' >= faults
  BY <1>1, SceneFacts DEF Fault, JobsInv, JobsTyped
<1>4. job' \in [Jobs -> JobRow] /\ \A j \in Jobs : job'[j] = job[j] \/ (j = c[1] /\ job'[j].n = job[j].n /\ job'[j].state = "done")
  <2>1. CASE job' = job
    BY <2>1 DEF JobsInv, JobsTyped
  <2>2. CASE job' = [job EXCEPT ![c[1]].state = "done", ![c[1]].result = c[2]]
    BY <1>2, <2>2, RowSaved DEF JobsInv
  <2> QED BY <1>1, <2>1, <2>2
<1>5. JobsTyped'
  <2>1. stage' \in [Claims -> Active \cup {"none", "ended"}]
    BY <1>1 DEF JobsInv, JobsTyped, To, Active
  <2> QED BY <1>1, <1>3, <1>4, <2>1 DEF JobsInv, JobsTyped, pollVars
<1>6. PassesMove /\ running' = running
  BY <1>1 DEF PassesMove, pollVars
<1>7. ASSUME Savable(c, "done"), Holds(c), job' = job PROVE ~(job' = [job EXCEPT ![c[1]].state = "done", ![c[1]].result = c[2]])
  BY <1>2, <1>7 DEF Holds, JobsInv, JobsTyped, JobRow
<1>8. ~Savable(c, "done") => ~Holds(c)
  BY DEF Savable
<1>9. PICK s \in {"undo", "refused", "sweep"} : To(c, s) /\ (job' = job => s = "undo" \/ ~Holds(c))
  BY <1>1, <1>7, <1>8
<1> QED BY <1>1, <1>3, <1>4, <1>5, <1>6, <1>9, AttemptKeeps DEF Active

LEMMA FailJobs == ASSUME JobsInv, NEW c \in Claims, Fail(c) PROVE JobsInv'
<1> DEFINE v == IF c[2] <= scene.retries THEN "queued" ELSE "failed"
<1>1. /\ stage[c] = "failing" /\ UNCHANGED <<scene, blobs, home, aborted, pollVars, proc, removal, outages, unheard, leaked>>
      /\ faults' = faults \/ Fault
      /\ \/ job' = job /\ To(c, "ending") /\ (c \in aborted \/ Fault \/ ~Savable(c, v))
         \/ /\ Savable(c, v) /\ job' = [job EXCEPT ![c[1]].state = v, ![c[1]].result = 0]
            /\ \E s \in {"sweep", "ending"} : To(c, s)
  BY DEF Fail, At, Answered, past
<1>2. c[1] \in Jobs /\ 0 \in 0..MaxClaims
  BY ClaimFacts, SceneFacts DEF JobsInv
<1>3. faults' \in 0..scene.faults /\ faults' >= faults /\ (Fault => faults' # faults)
  BY <1>1, SceneFacts DEF Fault, JobsInv, JobsTyped
<1>4. Savable(c, v) => c[2] = job[c[1]].n
  BY DEF Savable, Holds
<1>5. job' \in [Jobs -> JobRow] /\ \A j \in Jobs : job'[j] = job[j] \/
           (j = c[1] /\ job'[j].n = job[j].n /\ job'[j].state = v /\ Savable(c, v))
  <2>1. CASE job' = job
    BY <2>1 DEF JobsInv, JobsTyped
  <2>2. CASE Savable(c, v) /\ job' = [job EXCEPT ![c[1]].state = v, ![c[1]].result = 0]
    BY <1>2, <2>2, RowSaved DEF JobsInv
  <2> QED BY <1>1, <2>1, <2>2
<1>6. JobsTyped'
  <2>1. stage' \in [Claims -> Active \cup {"none", "ended"}]
    BY <1>1 DEF JobsInv, JobsTyped, To, Active
  <2> QED BY <1>1, <1>3, <1>5, <2>1 DEF JobsInv, JobsTyped, pollVars
<1>7. PassesMove /\ running' = running
  BY <1>1 DEF PassesMove, pollVars
<1>8. ASSUME Holds(c), job' = job PROVE ~(job' = [job EXCEPT ![c[1]].state = v, ![c[1]].result = 0])
  BY <1>2, <1>8 DEF Holds, JobsInv, JobsTyped, JobRow
<1>9. ~Savable(c, v) => ~Holds(c)
  BY DEF Savable
<1>10. PICK s \in {"sweep", "ending"} : To(c, s) /\ (job' = job => c \in aborted \/ Fault \/ ~Holds(c))
  BY <1>1, <1>8, <1>9
<1>11. \A j \in Jobs : job'[j] = job[j] \/
              (/\ j = c[1] /\ job'[j].n = job[j].n /\ job'[j].state \notin {"running", "absent"}
               /\ job'[j].state = "queued" => job[j].n <= scene.retries)
  BY <1>4, <1>5
<1> QED BY <1>1, <1>3, <1>6, <1>7, <1>10, <1>11, AttemptKeeps DEF Active

LEMMA EndJobs == ASSUME JobsInv, NEW c \in Claims, End(c) PROVE JobsInv'
<1> DEFINE map == [running EXCEPT ![home[c]][c[1]] = 0]
<1>1. /\ stage[c] = "ending" /\ To(c, "ended") /\ running' = map /\ Kick(home[c], map)
      /\ UNCHANGED <<scene, job, blobs, home, aborted, proc, removal, faults, outages, unheard, leaked>>
  BY DEF End, At, tables, past
<1>2. home[c] \in Procs /\ c[1] \in Jobs
  BY <1>1, ClaimFacts DEF JobsInv, Numbered
<1>3. map \in [Procs -> [Jobs -> 0..MaxClaims]]
  BY <1>2, SceneFacts DEF JobsInv, JobsTyped
<1>4. PassesMove /\ again' \in [Procs -> BOOLEAN] /\ pass' \in [Procs -> Waiting \cup {Got(d) : d \in Claims}]
  BY <1>1, <1>2, KickMoves DEF JobsInv
<1>5. stage' \in [Claims -> Active \cup {"none", "ended"}]
  BY <1>1 DEF JobsInv, JobsTyped, To
<1>6. JobsTyped'
  BY <1>1, <1>3, <1>4, <1>5 DEF JobsInv, JobsTyped
<1>7. faults' >= faults
  BY <1>1, SceneFacts DEF JobsInv
<1>8. \A p \in Procs, d \in Claims : running'[p][d[1]] = d[2] => running[p][d[1]] = d[2]
  <2> SUFFICES ASSUME NEW p \in Procs, NEW d \in Claims, map[p][d[1]] = d[2] PROVE running[p][d[1]] = d[2]
    BY <1>1
  <2>1. d[2] # 0 /\ d[1] \in Jobs
    BY ClaimFacts DEF JobsInv
  <2> QED BY <1>2, <2>1 DEF JobsInv, JobsTyped
<1> QED BY <1>1, <1>4, <1>6, <1>7, <1>8, AttemptKeeps DEF Active

LEMMA HeartbeatJobs == ASSUME JobsInv, NEW c \in Claims, Heartbeat(c) PROVE JobsInv'
<1>1. /\ stage[c] \in Active /\ aborted' = aborted \cup {c} /\ ((faults' = faults /\ ~Holds(c)) \/ Fault)
      /\ UNCHANGED <<scene, job, blobs, stage, home, pollVars, proc, removal, outages, unheard, leaked>>
  BY DEF Heartbeat, Answered, tables, past
<1>2. faults' \in 0..scene.faults /\ faults' >= faults /\ (Fault => faults' # faults)
  BY <1>1, SceneFacts DEF Fault, JobsInv, JobsTyped
<1>3. JobsTyped'
  BY <1>1, <1>2 DEF JobsInv, JobsTyped, pollVars
<1>4. PassesMove /\ running' = running
  BY <1>1 DEF PassesMove, pollVars
<1>5. ASSUME NEW j \in Jobs, job[j].state = "running", job[j].live, Current(j) = c PROVE Holds(c)
  BY <1>5 DEF Current, Holds
<1> QED BY <1>1, <1>2, <1>3, <1>4, <1>5, StepKeeps DEF Active

LEMMA TickJobs == ASSUME JobsInv, NEW p \in Procs, Tick(p) PROVE JobsInv'
<1>1. /\ Kick(p, running)
      /\ UNCHANGED <<scene, job, blobs, stage, home, aborted, running, proc, removal, faults, outages, unheard, leaked>>
  BY DEF Tick, tables, runs, past
<1>2. PassesMove /\ again' \in [Procs -> BOOLEAN] /\ pass' \in [Procs -> Waiting \cup {Got(d) : d \in Claims}]
  BY <1>1, KickMoves DEF JobsInv
<1>3. JobsTyped' /\ faults' >= faults
  BY <1>1, <1>2, SceneFacts DEF JobsInv, JobsTyped
<1> QED BY <1>1, <1>2, <1>3, StepKeeps

LEMMA ResumeEmptyJobs == ASSUME JobsInv, NEW p \in Procs, ResumeEmpty(p) PROVE JobsInv'
<1>1. /\ pass[p].at = "empty" /\ NextPass(p, running, again[p])
      /\ UNCHANGED <<scene, job, blobs, stage, home, aborted, running, proc, removal, faults, outages, unheard, leaked>>
  BY DEF ResumeEmpty, tables, runs, past
<1>2. PICK new \in Waiting : pass' = [pass EXCEPT ![p] = new] /\ (new.at = "asked" => proc[p] = "up")
  BY <1>1, NextPassMoves DEF JobsInv
<1>3. again' \in [Procs -> BOOLEAN]
  BY <1>1, NextPassMoves DEF JobsInv
<1>4. JobsTyped' /\ faults' >= faults
  <2>1. pass' \in [Procs -> Waiting \cup {Got(c) : c \in Claims}]
    BY <1>2 DEF JobsInv, JobsTyped
  <2> QED BY <1>1, <1>3, <2>1, SceneFacts DEF JobsInv, JobsTyped
<1>5. PassesMove
  BY <1>1, <1>2 DEF PassesMove, JobsInv, JobsTyped
<1> QED BY <1>1, <1>4, <1>5, StepKeeps

LEMMA PassLeaseTyped ==
    ASSUME JobsInv, NEW j \in Jobs, PassLease(j), faults' \in 0..scene.faults
    PROVE  /\ JobsTyped' /\ UNCHANGED <<scene, stage, home, aborted, pollVars, proc, outages>>
           /\ job[j].state = "running" /\ job[j].live /\ \A i \in Jobs : i # j => job'[i] = job[i]
           /\ job'[j].n = job[j].n /\ job'[j].state = "running" /\ job'[j].live = FALSE
<1>1. /\ job' = [job EXCEPT ![j].live = FALSE] /\ job[j].state = "running" /\ job[j].live
      /\ UNCHANGED <<scene, blobs, stage, home, aborted, pollVars, proc, removal, outages, unheard, leaked>>
  BY DEF PassLease, runs, past
<1>2. /\ job' \in [Jobs -> JobRow] /\ \A i \in Jobs : i # j => job'[i] = job[i]
      /\ job'[j].n = job[j].n /\ job'[j].state = "running" /\ job'[j].live = FALSE
  BY <1>1 DEF JobsInv, JobsTyped, JobRow
<1>3. JobsTyped'
  BY <1>1, <1>2 DEF JobsInv, JobsTyped, pollVars
<1> QED BY <1>1, <1>2, <1>3

\* A lease that lapses was unattended, so nobody would have recorded an outcome,
\* or it cost a fault.
LEMMA LapseJobs == ASSUME JobsInv, NEW j \in Jobs, Lapse(j) \/ LapseLate(j) PROVE JobsInv'
<1>1. PassLease(j) /\ ((faults' = faults /\ ~Attended(j)) \/ Fault)
  BY DEF Lapse, LapseLate, Answered
<1>2. faults' \in 0..scene.faults /\ faults' >= faults /\ (Fault => faults' > faults)
  BY <1>1, SceneFacts DEF Fault, JobsInv, JobsTyped
<1>3. /\ JobsTyped' /\ UNCHANGED <<scene, stage, home, aborted, pollVars, proc, outages>>
      /\ job[j].state = "running" /\ job[j].live /\ \A i \in Jobs : i # j => job'[i] = job[i]
      /\ job'[j].n = job[j].n /\ job'[j].state = "running" /\ job'[j].live = FALSE
  BY <1>1, <1>2, PassLeaseTyped
<1>4. PassesMove
  BY <1>3 DEF PassesMove, pollVars
<1>5. Numbered'
  <2>1. \A i \in Jobs : job'[i].n >= job[i].n
    BY <1>3, RowFacts DEF JobsInv
  <2> QED BY <1>3, <1>4, <2>1, NumberedKept DEF JobsInv
<1>6. Stopping' = Stopping /\ LastAsk' = LastAsk
  BY <1>3 DEF Stopping, LastAsk, pollVars
<1>7. Charged(j) \/ faults' > faults
  <2>1. SUFFICES ASSUME ~Attended(j) PROVE ~Sound(Current(j))
    BY <1>1, <1>2, <1>3 DEF Charged
  <2>2. stage[Current(j)] \notin Active /\ \A p \in Procs : pass[p].job # Current(j)
    BY <2>1 DEF Attended, Current
  <2> QED BY <2>2 DEF Sound, Got, Active
<1>8. \A i \in Jobs : i # j => (Charged(i)' <=> Charged(i))
  BY <1>3 DEF Charged, Sound, Current, Stopping, pollVars
<1>9. ClaimsPaid'
  <2> HIDE DEF Charged
  <2> QED BY <1>2, <1>3, <1>6, <1>7, <1>8, PaidKept
<1>10. Handed'
  BY <1>3 DEF JobsInv, Handed, pollVars
<1> QED BY <1>3, <1>5, <1>9, <1>10 DEF JobsInv

LEMMA RemoveJobs == ASSUME JobsInv, NEW j \in Jobs, RemoveRead(j) \/ RemoveRow(j) \/ RemoveBytes(j) PROVE JobsInv'
<1>1. UNCHANGED <<scene, stage, home, aborted, pollVars, proc, faults, outages, unheard>>
  BY DEF RemoveRead, RemoveRow, RemoveBytes, tables, runs, past
<1>2. PassesMove /\ running' = running
  BY <1>1 DEF PassesMove, pollVars
<1>3. JobsTyped' /\ \A i \in Jobs : job'[i] = job[i] \/ (job'[i].n = job[i].n /\ job'[i].state = "removed")
  <2>1. CASE RemoveRead(j)
    <3>1. removal' \in [Jobs -> RemovalState]
      BY <2>1 DEF RemoveRead, RemovalState, JobsInv, JobsTyped, JobRow
    <3> QED BY <1>1, <2>1, <3>1 DEF RemoveRead, tables, past, pollVars, JobsInv, JobsTyped
  <2>2. CASE RemoveRow(j)
    <3>1. removal' \in [Jobs -> RemovalState]
      BY <2>2 DEF RemoveRow, RemovalState, JobsInv, JobsTyped
    <3>2. job' = [job EXCEPT ![j] = [job[j] EXCEPT !.state = "removed", !.live = FALSE]]
      BY <2>2 DEF RemoveRow, JobsInv, JobsTyped, JobRow
    <3>3. job' \in [Jobs -> JobRow] /\ \A i \in Jobs : job'[i] = job[i] \/ (job'[i].n = job[i].n /\ job'[i].state = "removed")
      BY <3>2 DEF JobsInv, JobsTyped, JobRow
    <3> QED BY <1>1, <2>2, <3>1, <3>3 DEF RemoveRow, past, pollVars, JobsInv, JobsTyped
  <2>3. CASE RemoveBytes(j)
    <3>1. removal' \in [Jobs -> RemovalState]
      BY <2>3 DEF RemoveBytes, RemovalState, JobsInv, JobsTyped
    <3>2. blobs' \subseteq Claims /\ leaked' \subseteq Jobs /\ job' = job
      BY <2>3 DEF RemoveBytes, JobsInv, JobsTyped
    <3> QED BY <1>1, <2>3, <3>1, <3>2 DEF pollVars, JobsInv, JobsTyped
  <2> QED BY <2>1, <2>2, <2>3
<1>4. faults' >= faults
  BY <1>1, SceneFacts DEF JobsInv
<1> QED BY <1>1, <1>2, <1>3, <1>4, StepKeeps

LEMMA ResumeJobs == ASSUME JobsInv, NEW p \in Procs, Resume(p) PROVE JobsInv'
<1> DEFINE c == pass[p].job
           v == IF c[2] > scene.retries + 2 THEN "failing" ELSE "exec"
<1>1. /\ pass[p].at = "got" /\ running' = [running EXCEPT ![p][c[1]] = c[2]]
      /\ stage' = [stage EXCEPT ![c] = v] /\ home' = [home EXCEPT ![c] = p]
      /\ UNCHANGED <<scene, job, blobs, aborted, proc, removal, faults, outages, unheard, leaked>>
  BY DEF Resume, tables, past
<1>2. /\ c \in Claims /\ pass[p] = Got(c) /\ stage[c] = "none" /\ c[2] <= job[c[1]].n
      /\ \A q \in Procs : pass[q] = Got(c) => q = p
  BY <1>1, PassFacts DEF JobsInv, Numbered
<1>3. again' \in [Procs -> BOOLEAN] /\ \E new \in Waiting : pass' = [pass EXCEPT ![p] = new] /\ (new.at = "asked" => proc[p] = "up")
  <2>1. PICK more, map : (proc[p] = "up" /\ pass' = [pass EXCEPT ![p] = [at |-> "asked", job |-> <<>>]] /\ UNCHANGED again)
                         \/ NextPass(p, map, more)
    BY DEF Resume
  <2>2. CASE NextPass(p, map, more)
    BY <2>2, NextPassMoves DEF JobsInv
  <2>3. CASE proc[p] = "up" /\ pass' = [pass EXCEPT ![p] = [at |-> "asked", job |-> <<>>]] /\ UNCHANGED again
    BY <2>3 DEF JobsInv, JobsTyped, Waiting
  <2> QED BY <2>1, <2>2, <2>3
<1>4. PICK new \in Waiting : pass' = [pass EXCEPT ![p] = new] /\ (new.at = "asked" => proc[p] = "up")
  BY <1>3
<1>5. c[1] \in Jobs /\ c[2] \in Nat /\ c[2] \in 0..MaxClaims /\ c = <<c[1], c[2]>>
  BY <1>2, ClaimFacts, SceneFacts DEF JobsInv
<1>6. v \in {"exec", "failing"}
  OBVIOUS
<1> HIDE DEF c, v
<1>7. /\ stage'[c] = v /\ home'[c] = p
      /\ \A d \in Claims : d # c => stage'[d] = stage[d] /\ home'[d] = home[d]
  BY <1>1, <1>2 DEF JobsInv, JobsTyped
<1>8. pass'[p] = new /\ new.at # "got" /\ \A q \in Procs : q # p => pass'[q] = pass[q]
  BY <1>4 DEF JobsInv, JobsTyped, Waiting, NoPass
<1>9. JobsTyped'
  <2>1. stage' \in [Claims -> Active \cup {"none", "ended"}] /\ home' \in [Claims -> Procs \cup {NoProc}]
    BY <1>1, <1>6 DEF JobsInv, JobsTyped, Active
  <2>2. running' \in [Procs -> [Jobs -> 0..MaxClaims]]
    BY <1>1, <1>5 DEF JobsInv, JobsTyped
  <2>3. pass' \in [Procs -> Waiting \cup {Got(d) : d \in Claims}]
    BY <1>4 DEF JobsInv, JobsTyped
  <2> QED BY <1>1, <1>3, <2>1, <2>2, <2>3 DEF JobsInv, JobsTyped
<1>10. Numbered'
  <2>1. \A d \in Claims : stage'[d] # "none" => d[2] <= job'[d[1]].n /\ home'[d] \in Procs
    BY <1>1, <1>2, <1>7 DEF JobsInv, Numbered
  <2>2. ASSUME NEW q \in Procs, pass'[q].at = "got"
        PROVE  /\ stage'[pass'[q].job] = "none" /\ pass'[q].job[2] <= job'[pass'[q].job[1]].n
               /\ \A u \in Procs : pass'[u] = pass'[q] => u = q
    <3>1. q # p /\ pass'[q] = pass[q] /\ pass[q].at = "got" /\ pass[q] = Got(pass[q].job) /\ pass[q].job \in Claims
      BY <1>8, <2>2, PassFacts DEF JobsInv
    <3>2. pass[q].job # c
      BY <1>2, <3>1
    <3>3. stage'[pass[q].job] = "none" /\ pass[q].job[2] <= job[pass[q].job[1]].n
      BY <1>7, <3>1, <3>2 DEF JobsInv, Numbered
    <3>4. \A u \in Procs : pass'[u] = pass'[q] => u = q
      BY <1>8, <2>2, <3>1 DEF JobsInv, Numbered
    <3> QED BY <1>1, <3>1, <3>3, <3>4
  <2> QED BY <2>1, <2>2 DEF Numbered
<1>11. Handed'
  <2>1. \A d \in Claims : stage[d] # "none" => stage'[d] # "none"
    BY <1>6, <1>7
  <2>2. ASSUME NEW q \in Procs, NEW d \in Claims, running'[q][d[1]] = d[2] PROVE stage'[d] # "none"
    <3>1. d[1] \in Jobs /\ d = <<d[1], d[2]>>
      BY ClaimFacts DEF JobsInv
    <3>2. CASE q = p /\ d[1] = c[1]
      <4>1. running'[q][d[1]] = c[2]
        BY <1>1, <1>5, <3>2 DEF JobsInv, JobsTyped
      <4> QED BY <1>5, <1>6, <1>7, <2>2, <3>1, <3>2, <4>1
    <3>3. CASE ~(q = p /\ d[1] = c[1])
      <4>1. running'[q][d[1]] = running[q][d[1]]
        BY <1>1, <1>5, <3>1, <3>3 DEF JobsInv, JobsTyped
      <4> QED BY <2>1, <2>2, <4>1 DEF JobsInv, Handed
    <3> QED BY <3>2, <3>3
  <2>3. \A q \in Procs : proc'[q] = "down" => pass'[q].at \notin {"asked", "got"}
    BY <1>1, <1>4, <1>8 DEF JobsInv, Handed
  <2> QED BY <1>1, <2>1, <2>2, <2>3 DEF JobsInv, JobsTyped, Handed
<1>12. Stopping' = Stopping /\ LastAsk' \subseteq LastAsk
  BY <1>1, <1>4, <1>8 DEF Stopping, LastAsk
<1>13. ASSUME NEW j \in Jobs, Charged(j)' PROVE Charged(j)
  <2>1. job[j].state = "running" /\ Current(j)' = Current(j) /\ Current(j) \in Claims
    BY <1>1, <1>13, RowFacts DEF Charged, Current, JobsInv, ClaimsPaid
  <2>2. SUFFICES ASSUME Sound(Current(j)) PROVE Sound(Current(j))'
    BY <1>1, <1>13, <2>1 DEF Charged
  <2>3. CASE Current(j) = c
    <3>1. stage[c] \notin {"exec", "put", "save", "undo", "failing"}
      BY <1>2
    <3>2. p \notin Stopping
      BY <1>2, <2>2, <2>3, <3>1 DEF Sound
    <3>3. c \notin aborted
      BY <1>2 DEF JobsInv, Handed
    <3> QED BY <1>1, <1>6, <1>7, <1>12, <2>1, <2>3, <3>2, <3>3 DEF Sound
  <2>4. CASE Current(j) # c
    <3>1. \A q \in Procs : pass[q] = Got(Current(j)) => pass'[q] = Got(Current(j))
      BY <1>2, <1>8, <2>4 DEF Got
    <3> QED BY <1>1, <1>7, <1>12, <2>1, <2>2, <2>4, <3>1 DEF Sound
  <2> QED BY <2>3, <2>4
<1>14. ClaimsPaid'
  <2>1. faults' >= faults
    BY <1>1, SceneFacts DEF JobsInv
  <2> HIDE DEF Charged
  <2> QED BY <1>1, <1>9, <1>12, <1>13, <2>1, PaidKept
<1> QED BY <1>9, <1>10, <1>11, <1>14 DEF JobsInv

LEMMA AskCounts ==
    ASSUME JobsInv
    PROVE  /\ IsFiniteSet(LastAsk) /\ Cardinality(LastAsk) \in Nat /\ Cardinality(Stopping) \in Nat
           /\ Cardinality(LastAsk) <= outages
<1>1. LastAsk \subseteq Stopping /\ IsFiniteSet(Stopping) /\ Cardinality(Stopping) <= outages
  BY DEF JobsInv, ClaimsPaid, LastAsk
<1>2. IsFiniteSet(LastAsk) /\ Cardinality(LastAsk) <= Cardinality(Stopping)
  BY <1>1, FS_Subset
<1>3. Cardinality(LastAsk) \in Nat /\ Cardinality(Stopping) \in Nat
  BY <1>1, <1>2, FS_CardinalityType
<1>4. outages \in Nat
  BY SceneFacts DEF JobsInv
<1> QED BY <1>1, <1>2, <1>3, <1>4

\* A job that can be claimed has a claim to spare, and one for each stopping
\* process whose claim is under way.
LEMMA RoomForClaim ==
    ASSUME JobsInv, NEW j \in Jobs, Claimable(j)
    PROVE  /\ job[j].n + 1 + Cardinality(LastAsk) <= scene.retries + 1 + faults + 2 * outages
           /\ job[j].n + 1 \in 1..MaxClaims
<1>1. /\ scene.retries \in Nat /\ faults \in Nat /\ outages \in Nat /\ MaxClaims \in Nat /\ job[j].n \in Nat
      /\ scene.faults \in Nat /\ scene.outages \in Nat /\ faults <= scene.faults /\ outages <= scene.outages
      /\ scene.retries + 1 + scene.faults + 2 * scene.outages <= MaxClaims
  BY SceneFacts, RowFacts DEF JobsInv
<1>2. Cardinality(LastAsk) \in Nat /\ Cardinality(LastAsk) <= outages
  BY AskCounts
<1>3. job[j].n + 1 + Cardinality(LastAsk) <= scene.retries + 1 + faults + 2 * outages
  <2>1. CASE job[j].state = "queued"
    <3>1. job[j].n <= scene.retries
      BY <2>1 DEF JobsInv, ClaimsPaid
    <3> HIDE DEF LastAsk
    <3> QED BY <1>1, <1>2, <3>1
  <2>2. CASE job[j].state = "running" /\ ~job[j].live
    <3>1. Paid(j) /\ Charge(j) = 1
      BY <2>2 DEF JobsInv, ClaimsPaid, Charge, Charged
    <3> HIDE DEF LastAsk, Charge
    <3> QED BY <1>1, <1>2, <3>1 DEF Paid
  <2> QED BY <2>1, <2>2 DEF Claimable
<1> HIDE DEF LastAsk
<1>4. job[j].n + 1 <= MaxClaims
  BY <1>1, <1>2, <1>3
<1> QED BY <1>1, <1>3, <1>4

LEMMA ClaimJobs == ASSUME JobsInv, NEW p \in Procs, ClaimStatement(p) PROVE JobsInv'
<1>1. /\ pass[p].at = "asked"
      /\ UNCHANGED <<scene, blobs, stage, home, aborted, running, again, proc, removal, outages, unheard, leaked>>
  BY DEF ClaimStatement, runs, past
<1>2. CASE pass' = [pass EXCEPT ![p] = [at |-> "empty", job |-> <<>>]] /\ UNCHANGED <<job, faults>>
  <2>1. JobsTyped' /\ faults' >= faults
    BY <1>1, <1>2, SceneFacts DEF JobsInv, JobsTyped, Waiting
  <2>2. PassesMove
    BY <1>1, <1>2 DEF PassesMove, JobsInv, JobsTyped, Waiting
  <2> QED BY <1>1, <1>2, <2>1, <2>2, StepKeeps
<1>3. CASE \E j \in Jobs :
            /\ Claimable(j)
            /\ job' = [job EXCEPT ![j].state = "running", ![j].n = @ + 1, ![j].live = TRUE]
            /\ \/ faults' = faults /\ pass' = [pass EXCEPT ![p] = Got(<<j, job[j].n + 1>>)]
               \/ Fault /\ pass' = [pass EXCEPT ![p] = NoPass]
  <2>1. PICK j \in Jobs :
            /\ Claimable(j)
            /\ job' = [job EXCEPT ![j].state = "running", ![j].n = @ + 1, ![j].live = TRUE]
            /\ \/ faults' = faults /\ pass' = [pass EXCEPT ![p] = Got(<<j, job[j].n + 1>>)]
               \/ Fault /\ pass' = [pass EXCEPT ![p] = NoPass]
    BY <1>3
  <2> DEFINE c == <<j, job[j].n + 1>>
             row == [job[j] EXCEPT !.state = "running", !.n = job[j].n + 1, !.live = TRUE]
  <2>2. c \in Claims /\ job[j].n + 1 \in 1..MaxClaims /\ job[j].n \in Nat /\ job[j].n + 1 \in Nat
    BY <2>1, RoomForClaim, RowFacts DEF Claims, JobsInv
  <2>3. row \in JobRow /\ row.state = "running" /\ row.n = job[j].n + 1 /\ row.live = TRUE /\ job' = [job EXCEPT ![j] = row]
    BY <2>1, <2>2 DEF JobsInv, JobsTyped, JobRow
  <2> HIDE DEF row
  <2>4. job' \in [Jobs -> JobRow] /\ job'[j] = row /\ \A i \in Jobs : i # j => job'[i] = job[i]
    BY <2>3 DEF JobsInv, JobsTyped
  <2>5. faults' \in 0..scene.faults /\ faults' \in Nat /\ (faults' = faults \/ faults' = faults + 1)
        /\ (faults' = faults => pass' = [pass EXCEPT ![p] = Got(c)])
        /\ (faults' # faults => pass' = [pass EXCEPT ![p] = NoPass])
    BY <2>1, SceneFacts DEF Fault, JobsInv, JobsTyped
  <2> HIDE DEF c
  <2>6. /\ \A q \in Procs : q # p => pass'[q] = pass[q]
        /\ faults' = faults => pass'[p] = Got(c) /\ pass'[p].at = "got" /\ pass'[p].job = c
        /\ faults' # faults => pass'[p] = NoPass /\ pass'[p].at = "idle"
    BY <2>5 DEF JobsInv, JobsTyped, Got, NoPass
  <2>7. JobsTyped'
    <3>1. pass' \in [Procs -> Waiting \cup {Got(d) : d \in Claims}]
      BY <2>2, <2>5 DEF JobsInv, JobsTyped, Waiting
    <3> QED BY <1>1, <2>4, <2>5, <3>1 DEF JobsInv, JobsTyped
  <2>8. \A i \in Jobs : job[i].n \in Nat /\ job'[i].n \in Nat /\ job'[i].n >= job[i].n
    BY <2>2, <2>3, <2>4, RowFacts DEF JobsInv
  <2>9. \A d \in Claims : (stage[d] # "none" \/ \E q \in Procs : pass[q] = Got(d)) => d # c
    <3> SUFFICES ASSUME NEW d \in Claims, stage[d] # "none" \/ \E q \in Procs : pass[q] = Got(d), d = c PROVE FALSE
      OBVIOUS
    <3>1. d[2] <= job[d[1]].n
      BY PassFacts DEF JobsInv, Numbered
    <3>2. d[1] = j /\ d[2] = job[j].n + 1
      BY DEF c
    <3> QED BY <2>2, <3>1, <3>2
  <2>10. Numbered'
    <3>1. \A d \in Claims : stage'[d] # "none" => d[2] <= job'[d[1]].n /\ home'[d] \in Procs
      <4> SUFFICES ASSUME NEW d \in Claims, stage'[d] # "none" PROVE d[2] <= job'[d[1]].n /\ home'[d] \in Procs
        OBVIOUS
      <4>1. d[1] \in Jobs /\ d[2] \in Nat /\ d[2] <= job[d[1]].n /\ home[d] \in Procs
        BY <1>1, ClaimFacts DEF JobsInv, Numbered
      <4> QED BY <1>1, <2>8, <4>1
    <3>2. ASSUME NEW q \in Procs, pass'[q].at = "got"
          PROVE  /\ stage'[pass'[q].job] = "none" /\ pass'[q].job[2] <= job'[pass'[q].job[1]].n
                 /\ \A u \in Procs : pass'[u] = pass'[q] => u = q
      <4>1. CASE q = p
        <5>1. pass'[p] = Got(c) /\ pass'[p].job = c
          BY <2>6, <3>2, <4>1
        <5>2. stage[c] = "none" /\ c[1] = j /\ c[2] = job[j].n + 1
          BY <2>2, <2>9 DEF c
        <5>3. c[2] <= job'[c[1]].n
          BY <2>2, <2>3, <2>4, <5>2
        <5>4. \A u \in Procs : u # p => pass'[u] # Got(c)
          BY <2>2, <2>6, <2>9
        <5> QED BY <1>1, <4>1, <5>1, <5>2, <5>3, <5>4
      <4>2. CASE q # p
        <5>1. pass'[q] = pass[q] /\ pass[q].at = "got" /\ pass[q] = Got(pass[q].job) /\ pass[q].job \in Claims
          BY <2>6, <3>2, <4>2, PassFacts DEF JobsInv
        <5>2. stage[pass[q].job] = "none" /\ pass[q].job[2] <= job[pass[q].job[1]].n
          BY <5>1 DEF JobsInv, Numbered
        <5>3. pass[q].job[1] \in Jobs /\ pass[q].job[2] \in Nat
          BY <5>1, ClaimFacts DEF JobsInv
        <5>4. pass'[p] # pass[q]
          <6>1. pass[q].job # c
            BY <2>9, <5>1
          <6> QED BY <2>6, <5>1, <6>1
        <5>5. \A u \in Procs : pass'[u] = pass'[q] => u = q
          BY <2>6, <5>1, <5>4 DEF JobsInv, Numbered
        <5> QED BY <1>1, <2>8, <5>1, <5>2, <5>3, <5>5
      <4> QED BY <4>1, <4>2
    <3> QED BY <3>1, <3>2 DEF Numbered
  <2>11. Handed'
    <3>1. proc[p] # "down"
      BY <1>1 DEF JobsInv, Handed
    <3> QED BY <1>1, <2>6, <3>1 DEF JobsInv, Handed
  <2>12. /\ Stopping' = Stopping /\ LastAsk' = LastAsk \ {p} /\ (p \in Stopping => p \in LastAsk)
    BY <1>1, <2>6 DEF Stopping, LastAsk
  <2>13. /\ Cardinality(LastAsk) \in Nat /\ Cardinality(LastAsk') \in Nat /\ Cardinality(LastAsk) <= outages
         /\ Cardinality(LastAsk') <= Cardinality(LastAsk)
         /\ p \in LastAsk => Cardinality(LastAsk') = Cardinality(LastAsk) - 1
    <3>1. IsFiniteSet(LastAsk) /\ Cardinality(LastAsk) \in Nat /\ Cardinality(LastAsk) <= outages
      BY AskCounts
    <3>2. IsFiniteSet(LastAsk') /\ Cardinality(LastAsk') = IF p \in LastAsk THEN Cardinality(LastAsk) - 1 ELSE Cardinality(LastAsk)
      BY <2>12, <3>1, FS_RemoveElement
    <3>3. Cardinality(LastAsk') \in Nat
      BY <3>2, FS_CardinalityType
    <3> HIDE DEF LastAsk
    <3> QED BY <3>1, <3>2, <3>3
  <2>14. Paid(j)'
    <3>1. Charge(j)' \in {0, 1}
      BY DEF Charge
    <3>2. faults' = faults /\ p \notin Stopping => Charge(j)' = 0
      <4> SUFFICES ASSUME faults' = faults, p \notin Stopping PROVE ~Charged(j)'
        BY DEF Charge
      <4>1. Current(j)' = c
        BY <2>3, <2>4 DEF Current, c
      <4> QED BY <2>3, <2>4, <2>6, <2>12, <4>1 DEF Charged, Sound
    <3>3. job[j].n + 1 + Cardinality(LastAsk) <= scene.retries + 1 + faults + 2 * outages
      BY <2>1, RoomForClaim
    <3>4. scene.retries \in Nat /\ faults \in Nat /\ outages \in Nat
      BY SceneFacts DEF JobsInv
    <3>5. job'[j].n = job[j].n + 1
      BY <2>3, <2>4
    <3> HIDE DEF Charge, LastAsk, Stopping
    <3> QED BY <1>1, <2>2, <2>5, <2>12, <2>13, <3>1, <3>2, <3>3, <3>4, <3>5 DEF Paid
  <2>15. ASSUME NEW i \in Jobs, i # j PROVE Paid(i)'
    <3>1. Charged(i)' => Charged(i)
      <4> SUFFICES ASSUME Charged(i)' PROVE Charged(i)
        OBVIOUS
      <4>1. job'[i] = job[i] /\ job[i].state = "running" /\ Current(i)' = Current(i) /\ Current(i) \in Claims
        BY <2>4, <2>15, RowFacts DEF Charged, Current, JobsInv, ClaimsPaid
      <4>2. \A q \in Procs : pass[q] = Got(Current(i)) => pass'[q] = pass[q]
        BY <1>1, <2>6 DEF Got
      <4> QED BY <1>1, <2>12, <4>1, <4>2 DEF Charged, Sound
    <3>2. Charge(i)' \in {0, 1} /\ Charge(i) \in {0, 1} /\ Charge(i)' <= Charge(i)
      BY <3>1 DEF Charge
    <3>3. Paid(i) /\ job[i].n \in Nat /\ job'[i].n = job[i].n
      BY <2>4, <2>15, RowFacts DEF JobsInv, ClaimsPaid
    <3>4. scene.retries \in Nat /\ faults \in Nat /\ outages \in Nat
      BY SceneFacts DEF JobsInv
    <3> HIDE DEF Charge, LastAsk
    <3> QED BY <1>1, <2>5, <2>13, <3>2, <3>3, <3>4 DEF Paid
  <2>16. ClaimsPaid'
    <3>1. \A i \in Jobs : job'[i].state \in {"absent", "queued"} => job'[i].n <= scene.retries
      BY <2>3, <2>4 DEF JobsInv, ClaimsPaid
    <3>2. \A i \in Jobs : job'[i].state = "running" => job'[i].n # 0
      BY <2>2, <2>3, <2>4 DEF JobsInv, ClaimsPaid
    <3> QED BY <1>1, <2>12, <2>14, <2>15, <3>1, <3>2 DEF JobsInv, ClaimsPaid
  <2> QED BY <2>7, <2>10, <2>11, <2>16 DEF JobsInv
<1> QED BY <1>2, <1>3 DEF ClaimStatement, Answered, Got

LEMMA StopJobs == ASSUME JobsInv, NEW p \in Procs, Stop(p) PROVE JobsInv'
<1>1. /\ proc[p] = "up" /\ outages < scene.outages /\ outages' = outages + 1
      /\ proc' = [proc EXCEPT ![p] = "stopping"]
      /\ aborted' = aborted \cup {c \in Claims : running[p][c[1]] = c[2]}
      /\ UNCHANGED <<scene, job, blobs, stage, home, running, pass, again, removal, faults, unheard, leaked>>
  BY DEF Stop, tables, pollVars, past
<1>2. JobsTyped'
  <2>1. outages' \in 0..scene.outages
    BY <1>1, SceneFacts DEF JobsInv
  <2> QED BY <1>1, <2>1 DEF JobsInv, JobsTyped
<1>3. Numbered'
  BY <1>1 DEF JobsInv, Numbered
<1>4. Handed'
  BY <1>1 DEF JobsInv, JobsTyped, Handed
<1>5. Stopping' = Stopping \cup {p} /\ LastAsk' \subseteq LastAsk \cup {p}
  BY <1>1 DEF JobsInv, JobsTyped, Stopping, LastAsk
<1>6. /\ IsFiniteSet(Stopping') /\ Cardinality(Stopping') <= outages + 1
      /\ Cardinality(LastAsk') \in Nat /\ Cardinality(LastAsk) \in Nat /\ Cardinality(LastAsk') <= Cardinality(LastAsk) + 1
  <2>1. /\ IsFiniteSet(LastAsk) /\ IsFiniteSet(Stopping) /\ Cardinality(Stopping) <= outages
        /\ Cardinality(LastAsk) \in Nat /\ Cardinality(Stopping) \in Nat
    BY AskCounts DEF JobsInv, ClaimsPaid
  <2>2. /\ IsFiniteSet(Stopping \cup {p}) /\ Cardinality(Stopping \cup {p}) <= Cardinality(Stopping) + 1
        /\ IsFiniteSet(LastAsk \cup {p}) /\ Cardinality(LastAsk \cup {p}) <= Cardinality(LastAsk) + 1
    <3> HIDE DEF LastAsk, Stopping
    <3>1. /\ IsFiniteSet(Stopping \cup {p})
          /\ Cardinality(Stopping \cup {p}) = IF p \in Stopping THEN Cardinality(Stopping) ELSE Cardinality(Stopping) + 1
      BY <2>1, FS_AddElement
    <3>2. /\ IsFiniteSet(LastAsk \cup {p})
          /\ Cardinality(LastAsk \cup {p}) = IF p \in LastAsk THEN Cardinality(LastAsk) ELSE Cardinality(LastAsk) + 1
      BY <2>1, FS_AddElement
    <3> QED BY <2>1, <3>1, <3>2
  <2>3. Cardinality(Stopping \cup {p}) \in Nat /\ Cardinality(LastAsk \cup {p}) \in Nat
    BY <2>2, FS_CardinalityType
  <2>4. IsFiniteSet(LastAsk') /\ Cardinality(LastAsk') <= Cardinality(LastAsk \cup {p})
    BY <1>5, <2>2, FS_Subset
  <2>5. Cardinality(LastAsk') \in Nat /\ outages \in Nat
    BY <2>4, FS_CardinalityType, SceneFacts DEF JobsInv
  <2> HIDE DEF LastAsk, Stopping
  <2> QED BY <1>5, <2>1, <2>2, <2>3, <2>4, <2>5
<1>7. ASSUME NEW j \in Jobs PROVE Paid(j)'
  <2>1. Paid(j) /\ job[j].n \in Nat /\ Charge(j) \in {0, 1}
    BY RowFacts DEF JobsInv, ClaimsPaid
  <2>2. Charge(j)' \in {0, 1}
    BY DEF Charge
  <2>3. scene.retries \in Nat /\ faults \in Nat /\ outages \in Nat
    BY SceneFacts DEF JobsInv
  <2> HIDE DEF Charge, LastAsk
  <2> QED BY <1>1, <1>6, <2>1, <2>2, <2>3 DEF Paid
<1>8. ClaimsPaid'
  BY <1>1, <1>6, <1>7 DEF JobsInv, ClaimsPaid
<1> QED BY <1>2, <1>3, <1>4, <1>8 DEF JobsInv

\* A stopping process was charged for its attempts when it was told to stop.
LEMMA ExitJobs == ASSUME JobsInv, NEW p \in Procs, Exit(p) PROVE JobsInv'
<1> DEFINE mine == {c \in Claims : stage[c] \in Active /\ home[c] = p}
<1>1. /\ \/ proc[p] = "stopping" /\ outages' = outages
         \/ proc[p] = "up" /\ outages < scene.outages /\ outages' = outages + 1
      /\ proc' = [proc EXCEPT ![p] = "down"] /\ blobs' \subseteq blobs \cup mine
      /\ stage' = [c \in Claims |-> IF c \in mine THEN "ended" ELSE stage[c]]
      /\ leaked' = leaked \cup {c[1] : c \in mine}
      /\ running' = [running EXCEPT ![p] = [j \in Jobs |-> 0]]
      /\ pass' = [pass EXCEPT ![p] = NoPass] /\ again' = [again EXCEPT ![p] = FALSE]
      /\ UNCHANGED <<scene, job, home, aborted, removal, faults, unheard>>
  BY DEF Exit
<1>2. mine \subseteq Claims /\ \A c \in mine : c[1] \in Jobs /\ stage[c] \in Active /\ home[c] = p
  BY ClaimFacts DEF JobsInv
<1> HIDE DEF mine
<1>3. JobsTyped'
  <2>1. outages' \in 0..scene.outages
    BY <1>1, SceneFacts DEF JobsInv
  <2>2. stage' \in [Claims -> Active \cup {"none", "ended"}]
    BY <1>1 DEF JobsInv, JobsTyped
  <2>3. running' \in [Procs -> [Jobs -> 0..MaxClaims]]
    BY <1>1, SceneFacts DEF JobsInv, JobsTyped
  <2>4. pass' \in [Procs -> Waiting \cup {Got(c) : c \in Claims}]
    BY <1>1 DEF JobsInv, JobsTyped, Waiting
  <2>5. blobs' \subseteq Claims /\ leaked' \subseteq Jobs
    BY <1>1, <1>2 DEF JobsInv, JobsTyped
  <2> QED BY <1>1, <2>1, <2>2, <2>3, <2>4, <2>5 DEF JobsInv, JobsTyped
<1>4. \A c \in Claims : /\ stage'[c] = "none" <=> stage[c] = "none"
                        /\ c \notin mine => stage'[c] = stage[c]
  BY <1>1, <1>2 DEF Active
<1>5. pass'[p] = NoPass /\ \A q \in Procs : q # p => pass'[q] = pass[q] /\ proc'[q] = proc[q]
  BY <1>1 DEF JobsInv, JobsTyped
<1>7. Numbered'
  <2>1. \A c \in Claims : stage'[c] # "none" => c[2] <= job'[c[1]].n /\ home'[c] \in Procs
    BY <1>1, <1>4 DEF JobsInv, Numbered
  <2>2. ASSUME NEW q \in Procs, pass'[q].at = "got"
        PROVE  /\ stage'[pass'[q].job] = "none" /\ pass'[q].job[2] <= job'[pass'[q].job[1]].n
               /\ \A u \in Procs : pass'[u] = pass'[q] => u = q
    <3>1. q # p /\ pass'[q] = pass[q]
      BY <1>5, <2>2 DEF NoPass
    <3>2. pass[q].job \in Claims
      BY <2>2, <3>1, PassFacts DEF JobsInv
    <3>3. \A u \in Procs : pass'[u] = pass'[q] => u # p
      BY <1>5, <2>2 DEF NoPass
    <3> QED BY <1>1, <1>4, <1>5, <2>2, <3>1, <3>2, <3>3 DEF JobsInv, Numbered
  <2> QED BY <2>1, <2>2 DEF Numbered
<1>8. Handed'
  <2>1. ASSUME NEW q \in Procs, NEW c \in Claims, running'[q][c[1]] = c[2] PROVE stage'[c] # "none"
    <3>1. c[1] \in Jobs /\ c[2] # 0
      BY ClaimFacts DEF JobsInv
    <3>2. q # p /\ running'[q] = running[q]
      BY <1>1, <2>1, <3>1 DEF JobsInv, JobsTyped
    <3> QED BY <1>4, <2>1, <3>2 DEF JobsInv, Handed
  <2>2. \A q \in Procs : proc'[q] = "down" => pass'[q].at \notin {"asked", "got"}
    BY <1>5 DEF JobsInv, Handed, NoPass
  <2>3. \A c \in aborted' : stage'[c] # "none"
    BY <1>1, <1>4 DEF JobsInv, JobsTyped, Handed
  <2> QED BY <2>1, <2>2, <2>3 DEF Handed
<1>9. Stopping' = Stopping \ {p} /\ LastAsk' \subseteq LastAsk
  <2>1. proc'[p] = "down" /\ pass'[p].at # "asked"
    BY <1>1, <1>5 DEF JobsInv, JobsTyped, NoPass
  <2> QED BY <1>5, <2>1 DEF Stopping, LastAsk
<1>10. /\ IsFiniteSet(Stopping') /\ Cardinality(Stopping') <= outages /\ Cardinality(Stopping') \in Nat
       /\ Cardinality(LastAsk') \in Nat /\ Cardinality(LastAsk) \in Nat /\ Cardinality(LastAsk') <= Cardinality(LastAsk)
  <2>1. /\ IsFiniteSet(LastAsk) /\ IsFiniteSet(Stopping) /\ Cardinality(Stopping) <= outages
        /\ Cardinality(LastAsk) \in Nat /\ Cardinality(Stopping) \in Nat /\ outages \in Nat
    BY AskCounts, SceneFacts DEF JobsInv, ClaimsPaid
  <2>2. /\ IsFiniteSet(Stopping') /\ Cardinality(Stopping') <= Cardinality(Stopping)
        /\ IsFiniteSet(LastAsk') /\ Cardinality(LastAsk') <= Cardinality(LastAsk)
    BY <1>9, <2>1, FS_Subset
  <2>3. Cardinality(Stopping') \in Nat /\ Cardinality(LastAsk') \in Nat
    BY <2>2, FS_CardinalityType
  <2> HIDE DEF LastAsk, Stopping
  <2> QED BY <2>1, <2>2, <2>3
<1>11. ASSUME NEW j \in Jobs PROVE Charge(j)' <= Charge(j) + (outages' - outages)
  <2>1. Charge(j) \in {0, 1} /\ Charge(j)' \in {0, 1} /\ outages \in Nat
    BY SceneFacts DEF Charge, JobsInv
  <2>2. CASE outages' = outages + 1
    <3> HIDE DEF Charge
    <3> QED BY <2>1, <2>2
  <2>3. CASE outages' = outages
    <3>1. p \in Stopping
      BY <1>1, <2>1, <2>3 DEF Stopping
    <3>2. SUFFICES ASSUME Charged(j)' PROVE Charged(j)
      BY <2>1, <2>3 DEF Charge
    <3>3. job[j].state = "running" /\ Current(j)' = Current(j) /\ Current(j) \in Claims
      BY <1>1, <3>2, RowFacts DEF Charged, Current, JobsInv, ClaimsPaid
    <3>4. SUFFICES ASSUME Sound(Current(j)) PROVE Sound(Current(j))'
      BY <1>1, <3>2, <3>3 DEF Charged
    <3>5. CASE \E q \in Procs \ Stopping : pass[q] = Got(Current(j))
      BY <1>5, <1>9, <3>1, <3>3, <3>5 DEF Sound
    <3>6. CASE stage[Current(j)] \in {"exec", "put", "save", "undo", "failing"} /\ Current(j) \notin aborted /\ home[Current(j)] \notin Stopping
      <4>1. Current(j) \notin mine
        BY <1>2, <3>1, <3>6
      <4> QED BY <1>1, <1>4, <1>9, <3>3, <3>6, <4>1 DEF Sound
    <3> QED BY <3>4, <3>5, <3>6 DEF Sound
  <2> QED BY <1>1, <2>2, <2>3
<1>12. ASSUME NEW j \in Jobs PROVE Paid(j)'
  <2>1. Paid(j) /\ job[j].n \in Nat /\ Charge(j) \in {0, 1}
    BY RowFacts DEF JobsInv, ClaimsPaid
  <2>2. Charge(j)' \in {0, 1}
    BY DEF Charge
  <2>3. scene.retries \in Nat /\ faults \in Nat /\ outages \in Nat /\ outages' \in {outages, outages + 1}
    BY <1>1, SceneFacts DEF JobsInv
  <2>4. Charge(j)' <= Charge(j) + (outages' - outages)
    BY <1>11
  <2> HIDE DEF Charge, LastAsk
  <2> QED BY <1>1, <1>10, <2>1, <2>2, <2>3, <2>4 DEF Paid
<1>13. ClaimsPaid'
  <2>1. Cardinality(Stopping') <= outages'
    <3>1. outages \in Nat /\ outages' \in {outages, outages + 1}
      BY <1>1, SceneFacts DEF JobsInv
    <3> HIDE DEF Stopping
    <3> QED BY <1>10, <3>1
  <2> QED BY <1>1, <1>10, <1>12, <2>1 DEF JobsInv, ClaimsPaid
<1> QED BY <1>3, <1>7, <1>8, <1>13 DEF JobsInv

LEMMA StartJobs == ASSUME JobsInv, NEW p \in Procs, Start(p) PROVE JobsInv'
<1>1. /\ proc[p] = "down" /\ proc' = [proc EXCEPT ![p] = "up"]
      /\ pass' = [pass EXCEPT ![p] = [at |-> "asked", job |-> <<>>]]
      /\ UNCHANGED <<scene, job, blobs, stage, home, aborted, running, again, removal, faults, outages, unheard, leaked>>
  BY DEF Start, tables, runs, past
<1>2. /\ pass[p].at \notin {"asked", "got"} /\ pass'[p] = [at |-> "asked", job |-> <<>>] /\ proc'[p] = "up"
      /\ \A q \in Procs : q # p => pass'[q] = pass[q] /\ proc'[q] = proc[q]
  BY <1>1 DEF JobsInv, JobsTyped, Handed
<1>3. JobsTyped'
  BY <1>1 DEF JobsInv, JobsTyped, Waiting
<1>4. Numbered'
  <2>1. \A q \in Procs : pass'[q].at = "got" => q # p /\ pass'[q] = pass[q]
    BY <1>2
  <2>2. \A q \in Procs : pass'[q].at = "got" => \A u \in Procs : pass'[u] = pass'[q] => u # p
    BY <1>2
  <2> QED BY <1>1, <1>2, <2>1, <2>2 DEF JobsInv, Numbered
<1>5. Handed'
  BY <1>1, <1>2 DEF JobsInv, Handed
<1>6. Stopping' = Stopping /\ LastAsk' \subseteq LastAsk
  BY <1>1, <1>2 DEF Stopping, LastAsk
<1>7. ASSUME NEW j \in Jobs, Charged(j)' PROVE Charged(j)
  <2>1. Current(j)' = Current(j)
    BY <1>1 DEF Current
  <2>2. \A q \in Procs : pass[q] = Got(Current(j)) => q # p
    BY <1>2 DEF Got
  <2> QED BY <1>1, <1>2, <1>6, <1>7, <2>1, <2>2 DEF Charged, Sound
<1>8. ClaimsPaid'
  <2>1. faults' >= faults
    BY <1>1, SceneFacts DEF JobsInv
  <2> HIDE DEF Charged
  <2> QED BY <1>1, <1>3, <1>6, <1>7, <2>1, PaidKept
<1> QED BY <1>3, <1>4, <1>5, <1>8 DEF JobsInv

-----------------------------------------------------------------------------
LEMMA InitJobs == ASSUME Init PROVE JobsInv
<1>1. scene \in SceneType /\ MaxClaims \in Nat /\ scene.retries + 1 + scene.faults + 2 * scene.outages <= MaxClaims
  BY ConstantsAssumption DEF Init
<1>2. scene.retries \in Nat /\ scene.faults \in Nat /\ scene.outages \in Nat
  BY <1>1 DEF SceneType
<1>3. 0 \in 0..MaxClaims /\ 0 \in 0..scene.faults /\ 0 \in 0..scene.outages
  BY <1>1, <1>2
<1>4. JobsTyped
  <2>1. job \in [Jobs -> JobRow] /\ removal \in [Jobs -> RemovalState] /\ running \in [Procs -> [Jobs -> 0..MaxClaims]]
    BY <1>3 DEF Init, JobRow, RemovalState
  <2> QED BY <1>3, <2>1 DEF Init, JobsTyped, Waiting
<1>5. Numbered
  BY DEF Init, Numbered, NoPass
<1>6. Handed
  <2>1. \A p \in Procs, c \in Claims : running[p][c[1]] # c[2]
    <3> SUFFICES ASSUME NEW p \in Procs, NEW c \in Claims PROVE running[p][c[1]] # c[2]
      OBVIOUS
    <3>1. c[1] \in Jobs /\ c[2] \in 1..MaxClaims
      BY <1>4, ClaimFacts
    <3> QED BY <1>1, <3>1 DEF Init
  <2> QED BY <2>1 DEF Init, Handed, NoPass
<1>7. ClaimsPaid
  <2>1. Stopping = {} /\ LastAsk = {}
    BY DEF Init, Stopping, LastAsk
  <2>2. IsFiniteSet(Stopping) /\ Cardinality(Stopping) = 0 /\ Cardinality(LastAsk) = 0
    BY <2>1, FS_EmptySet
  <2>3. \A j \in Jobs : job[j].state = "absent" /\ job[j].n = 0 /\ Charge(j) = 0
    BY DEF Init, Charge, Charged
  <2> HIDE DEF Stopping, LastAsk, Charge
  <2> QED BY <1>2, <2>2, <2>3 DEF Init, ClaimsPaid, Paid
<1> QED BY <1>4, <1>5, <1>6, <1>7 DEF JobsInv

LEMMA NextJobs == ASSUME JobsInv, [Next]_vars PROVE JobsInv'
<1>1. ASSUME NEW j \in Jobs, NEW p \in Procs, Submit(j, p) PROVE JobsInv'
  BY <1>1, SubmitJobs
<1>2. ASSUME NEW p \in Procs, ClaimStatement(p) PROVE JobsInv'
  BY <1>2, ClaimJobs
<1>3. ASSUME NEW p \in Procs, Resume(p) PROVE JobsInv'
  BY <1>3, ResumeJobs
<1>4. ASSUME NEW p \in Procs, ResumeEmpty(p) \/ Tick(p) PROVE JobsInv'
  BY <1>4, ResumeEmptyJobs, TickJobs
<1>5. ASSUME NEW p \in Procs, Stop(p) \/ Exit(p) \/ Start(p) PROVE JobsInv'
  BY <1>5, StopJobs, ExitJobs, StartJobs
<1>6. ASSUME NEW c \in Claims, Heartbeat(c) PROVE JobsInv'
  BY <1>6, HeartbeatJobs
<1>7. ASSUME NEW c \in Claims, Work(c) PROVE JobsInv'
  BY <1>7, ExecuteJobs, PutJobs, PublishJobs, RefusedJobs, UndoJobs, FailJobs, SweepJobs, EndJobs DEF Work
<1>8. ASSUME NEW j \in Jobs, Lapse(j) \/ LapseLate(j) PROVE JobsInv'
  BY <1>8, LapseJobs
<1>9. ASSUME NEW j \in Jobs, RemoveRead(j) \/ RemoveRow(j) \/ RemoveBytes(j) PROVE JobsInv'
  BY <1>9, RemoveJobs
<1>10. CASE UNCHANGED vars
  <2>1. PassesMove /\ UNCHANGED <<scene, job, stage, home, aborted, running, pass, proc, faults, outages>>
    BY <1>10 DEF vars, tables, runs, pollVars, past, PassesMove
  <2>2. JobsTyped' /\ faults' >= faults
    BY <1>10, SceneFacts DEF vars, tables, runs, pollVars, past, JobsInv, JobsTyped
  <2> QED BY <2>1, <2>2, StepKeeps
<1> QED BY <1>1, <1>2, <1>3, <1>4, <1>5, <1>6, <1>7, <1>8, <1>9, <1>10 DEF Next

\* The type invariant for any jobs and processes: every claim of a job stays
\* within the retries the job may use, its faults and two per outage, so
\* lease_token and attempt are bounded (claimAutomationJob and fail()).
THEOREM JobsInvariant == Spec => []JobsInv
BY InitJobs, NextJobs, PTL DEF Spec

LEMMA JobsTypes == ASSUME JobsInv PROVE TypeOK
<1>1. \A p \in Procs : pass[p].at \in {"idle", "asked", "empty", "got"}
  BY PassFacts DEF JobsInv
<1>2. ASSUME NEW j \in Jobs PROVE job[j].n <= scene.retries + 1 + scene.faults + 2 * scene.outages
  <2>1. Paid(j) /\ job[j].n \in Nat /\ Charge(j) \in {0, 1}
    BY RowFacts DEF JobsInv, ClaimsPaid
  <2>2. Cardinality(LastAsk) \in Nat
    BY AskCounts
  <2>3. /\ scene.retries \in Nat /\ scene.faults \in Nat /\ scene.outages \in Nat
        /\ faults \in Nat /\ faults <= scene.faults /\ outages \in Nat /\ outages <= scene.outages
    BY SceneFacts DEF JobsInv
  <2> HIDE DEF Charge, LastAsk
  <2> QED BY <2>1, <2>2, <2>3 DEF Paid
<1> QED BY <1>1, <1>2 DEF JobsInv, JobsTyped, JobRow, RemovalState, TypeOK

\* The state of the jobs is well formed and no job is claimed more often than
\* its retries, its faults and its outages pay for.
THEOREM JobsTypeOK == Spec => []TypeOK
BY JobsInvariant, JobsTypes, PTL

-----------------------------------------------------------------------------
(* The bytes of attempts: BytesInv, given JobsInv before and after a step. *)

\* What a step may do to a row that is not published by it.
RowMoves(j) ==
    \/ job'[j].state = job[j].state /\ job'[j].n = job[j].n /\ job'[j].result = job[j].result
    \/ job'[j].state = "removed" /\ job'[j].n = job[j].n /\ job'[j].result = job[j].result
    \/ /\ job[j].state \notin {"done", "removed"} /\ job'[j].state \notin {"done", "absent"}
       /\ job'[j].state = "failed" => job'[j].result = 0
       /\ job'[j].n = job[j].n \/ stage'[Current(j)'] # "save"

\* The bytes of a claim go only if the claim itself deletes them, its job was
\* removed or a later claim sweeps them, and appear only with an owner.
BlobMoves(c) ==
    /\ c \in blobs \ blobs' =>
          stage[c] \in {"refused", "undo"} \/ job[c[1]].state = "removed" \/ c # Current(c[1])
    /\ c \in blobs' \ blobs => c[1] \in leaked' \/ stage'[c] \in {"save", "refused", "undo"}

StageMoves(c) ==
    /\ stage'[c] = "save" => stage[c] = "save" \/ c \in blobs'
    /\ stage[c] \in {"sweep", "ending", "ended"} => stage'[c] \in {"sweep", "ending", "ended"}
    /\ stage[c] \in {"save", "refused", "undo"} =>
          stage'[c] \in {"save", "refused", "undo"} \/ c \notin blobs' \/ c[1] \in leaked'

\* Bytes nobody accounts for after such a step were stored, and nobody's, before it.
LEMMA StaysAccounted ==
    ASSUME JobsInv', leaked \subseteq leaked', \A c \in Claims : BlobMoves(c) /\ StageMoves(c),
           NEW c \in blobs', ~Accounted(c)'
    PROVE  c \in blobs /\ ~Accounted(c)
<1>1. c \in Claims
  BY DEF JobsInv, JobsTyped, Claims
<1> QED BY <1>1 DEF Accounted, BlobMoves, StageMoves

LEMMA BytesKept ==
    ASSUME JobsInv, JobsInv', BytesInv, RemovedForGood', RemovalOver', unheard \subseteq unheard', leaked \subseteq leaked',
           \A j \in Jobs : RowMoves(j), \A c \in Claims : BlobMoves(c) /\ StageMoves(c)
    PROVE  BytesInv'
<1>1. \A c \in Claims : c = <<c[1], c[2]>> /\ c[1] \in Jobs
  BY ClaimFacts DEF JobsInv
<1>2. SaveHasBytes'
  <2> SUFFICES ASSUME NEW c \in Claims, stage'[c] = "save", c = Current(c[1])', job'[c[1]].state # "removed"
               PROVE c \in blobs'
    BY DEF SaveHasBytes
  <2>1. CASE stage[c] # "save"
    BY <2>1 DEF StageMoves
  <2>2. CASE stage[c] = "save"
    <3>1. c[1] \in Jobs /\ job'[c[1]].n = job[c[1]].n /\ job[c[1]].state # "removed"
      BY <1>1 DEF RowMoves
    <3>2. c = Current(c[1])
      BY <3>1 DEF Current
    <3>3. c \in blobs
      BY <2>2, <3>1, <3>2 DEF BytesInv, SaveHasBytes
    <3> QED BY <2>2, <3>1, <3>2, <3>3 DEF BlobMoves
  <2> QED BY <2>1, <2>2
<1>3. DoneHasBytes'
  <2> SUFFICES ASSUME NEW j \in Jobs, job'[j].state = "done"
               PROVE  /\ job'[j].result = job'[j].n /\ Current(j)' \in Claims
                      /\ Current(j)' \in unheard' \/ (Current(j)' \in blobs' /\ stage'[Current(j)'] \in {"sweep", "ending", "ended"})
    BY DEF DoneHasBytes, Claims
  <2>1. job[j].state = "done" /\ job'[j].n = job[j].n /\ job'[j].result = job[j].result
    BY DEF RowMoves
  <2>2. Current(j)' = Current(j) /\ Current(j)[1] = j
    BY <2>1 DEF Current
  <2>3. /\ job[j].result = job[j].n /\ Current(j) \in Claims
        /\ Current(j) \in unheard \/ (Current(j) \in blobs /\ stage[Current(j)] \in {"sweep", "ending", "ended"})
    BY <2>1 DEF BytesInv, DoneHasBytes
  <2> QED BY <2>1, <2>2, <2>3 DEF BlobMoves, StageMoves
<1>4. BytesOwned'
  <2> SUFFICES ASSUME NEW c \in blobs', ~Accounted(c)'
               PROVE  job'[c[1]].state \in {"done", "removed"} /\ c = Current(c[1])' /\ c[2] = job'[c[1]].result
    BY DEF BytesOwned, Accounted
  <2>1. c \in blobs /\ ~Accounted(c) /\ c[1] \in Jobs
    BY <1>1, StaysAccounted DEF JobsInv, JobsTyped
  <2>2. job[c[1]].state \in {"done", "removed"} /\ c = Current(c[1]) /\ c[2] = job[c[1]].result
    BY <2>1 DEF BytesInv, BytesOwned
  <2>3. job'[c[1]].state \in {"done", "removed"} /\ job'[c[1]].n = job[c[1]].n /\ job'[c[1]].result = job[c[1]].result
    BY <2>1, <2>2 DEF RowMoves
  <2> QED BY <2>2, <2>3 DEF Current
<1>5. FailedHasNoResult'
  BY DEF BytesInv, FailedHasNoResult, RowMoves
<1> QED BY <1>2, <1>3, <1>4, <1>5 DEF BytesInv

\* What remove() saw to stays seen to while it is over for no further job.
LEMMA OverKept ==
    ASSUME JobsInv', BytesInv, leaked \subseteq leaked', \A c \in Claims : BlobMoves(c) /\ StageMoves(c),
           \A j \in Jobs : removal'[j].at = "over" => removal'[j] = removal[j]
    PROVE  RemovalOver'
<1> SUFFICES ASSUME NEW c \in blobs', removal'[c[1]].at = "over", ~Accounted(c)'
             PROVE  c[2] > removal'[c[1]].n
  BY DEF RemovalOver, Accounted
<1>1. c \in blobs /\ ~Accounted(c)
  BY StaysAccounted
<1>2. c[1] \in Jobs
  BY DEF JobsInv, JobsTyped, Claims
<1>3. removal'[c[1]] = removal[c[1]]
  BY <1>2
<1> QED BY <1>1, <1>3 DEF BytesInv, RemovalOver

\* While no request to remove makes progress, rows that move do not come back.
LEMMA RemovalKept ==
    ASSUME JobsInv', BytesInv, removal' = removal, \A j \in Jobs : RowMoves(j),
           leaked \subseteq leaked', \A c \in Claims : BlobMoves(c) /\ StageMoves(c)
    PROVE  RemovedForGood' /\ RemovalOver'
<1>1. RemovedForGood'
  BY DEF BytesInv, RemovedForGood, RowMoves
<1> QED BY <1>1, OverKept

LEMMA SubmitBytes ==
    ASSUME JobsInv, JobsInv', BytesInv, NEW j \in Jobs, NEW p \in Procs, Submit(j, p) PROVE BytesInv'
<1>1. /\ job' = [job EXCEPT ![j].state = "queued"] /\ job[j].state = "absent"
      /\ UNCHANGED <<blobs, stage, removal, unheard, leaked>>
  BY DEF Submit, runs, past
<1>2. \A i \in Jobs : RowMoves(i)
  BY <1>1 DEF RowMoves, JobsInv, JobsTyped, JobRow
<1>3. \A c \in Claims : BlobMoves(c) /\ StageMoves(c)
  BY <1>1 DEF BlobMoves, StageMoves
<1> QED BY <1>1, <1>2, <1>3, RemovalKept, BytesKept

LEMMA ClaimBytes ==
    ASSUME JobsInv, JobsInv', BytesInv, NEW p \in Procs, ClaimStatement(p) PROVE BytesInv'
<1>1. UNCHANGED <<blobs, stage, removal, unheard, leaked>>
  BY DEF ClaimStatement, runs, past
<1>2. \A c \in Claims : BlobMoves(c) /\ StageMoves(c)
  BY <1>1 DEF BlobMoves, StageMoves
<1>3. \A i \in Jobs : RowMoves(i)
  <2>1. CASE job' = job
    BY <2>1 DEF RowMoves
  <2>2. CASE \E j \in Jobs : Claimable(j) /\ job' = [job EXCEPT ![j].state = "running", ![j].n = @ + 1, ![j].live = TRUE]
    <3>1. PICK j \in Jobs : Claimable(j) /\ job' = [job EXCEPT ![j].state = "running", ![j].n = @ + 1, ![j].live = TRUE]
      BY <2>2
    <3> DEFINE row == [job[j] EXCEPT !.state = "running", !.n = job[j].n + 1, !.live = TRUE]
    <3>2. row.state = "running" /\ row.n = job[j].n + 1 /\ job' = [job EXCEPT ![j] = row]
      BY <3>1 DEF JobsInv, JobsTyped, JobRow
    <3> HIDE DEF row
    <3>3. job'[j] = row /\ \A i \in Jobs : i # j => job'[i] = job[i]
      BY <3>2 DEF JobsInv, JobsTyped
    <3>4. stage'[Current(j)'] # "save"
      <4>1. Current(j)' = <<j, job[j].n + 1>> /\ job[j].n \in Nat /\ job[j].n + 1 \in 1..MaxClaims
        BY <3>1, <3>2, <3>3, RowFacts, RoomForClaim DEF Current, JobsInv
      <4>2. <<j, job[j].n + 1>> \in Claims
        BY <4>1 DEF Claims
      <4>3. stage[<<j, job[j].n + 1>>] = "none"
        BY <4>1, <4>2 DEF JobsInv, Numbered
      <4> QED BY <1>1, <4>1, <4>3
    <3>5. job[j].state \notin {"done", "removed"}
      BY <3>1 DEF Claimable
    <3> QED BY <3>2, <3>3, <3>4, <3>5 DEF RowMoves
  <2> QED BY <2>1, <2>2 DEF ClaimStatement
<1> QED BY <1>1, <1>2, <1>3, RemovalKept, BytesKept

\* Steps that leave the rows as they are.
LEMMA SameRowsBytes ==
    ASSUME JobsInv, JobsInv', BytesInv, UNCHANGED <<job, removal>>, unheard \subseteq unheard', leaked \subseteq leaked',
           \A c \in Claims : BlobMoves(c) /\ StageMoves(c)
    PROVE  BytesInv'
<1>1. \A j \in Jobs : RowMoves(j)
  BY DEF RowMoves
<1> QED BY <1>1, RemovalKept, BytesKept

\* A step of claim c alone that leaves the rows as they are.
LEMMA AttemptBytes ==
    ASSUME JobsInv, JobsInv', BytesInv, NEW c \in Claims, NEW s, To(c, s),
           UNCHANGED <<job, removal>>, unheard \subseteq unheard', leaked \subseteq leaked',
           BlobMoves(c), StageMoves(c),
           \A d \in Claims : d # c => (d \in blobs' => d \in blobs) /\ (d \in blobs \ blobs' => d # Current(d[1]))
    PROVE  BytesInv'
<1>1. \A d \in Claims : d # c => stage'[d] = stage[d]
  BY DEF To, JobsInv, JobsTyped
<1>2. \A d \in Claims : BlobMoves(d) /\ StageMoves(d)
  BY <1>1 DEF BlobMoves, StageMoves
<1> QED BY <1>2, SameRowsBytes

LEMMA WorkBytes ==
    ASSUME JobsInv, JobsInv', BytesInv, NEW c \in Claims,
           Execute(c) \/ Put(c) \/ Refused(c) \/ Undo(c) \/ End(c)
    PROVE  BytesInv'
<1>1. \A s : To(c, s) => stage'[c] = s
  BY DEF To, JobsInv, JobsTyped
<1>2. CASE Execute(c)
  BY <1>1, <1>2, AttemptBytes DEF Execute, At, BlobMoves, StageMoves, tables, past
<1>3. CASE Put(c)
  <2>1. PICK s : To(c, s) /\ ((s \in {"save", "undo"} /\ c \in blobs') \/ (s \in {"ending", "failing"} /\ c[1] \in leaked'))
    BY <1>3 DEF Put
  <2>2. /\ stage[c] = "put" /\ blobs' \in {blobs, blobs \cup {c}} /\ leaked \subseteq leaked'
        /\ UNCHANGED <<job, removal, unheard>>
    BY <1>3 DEF Put, At
  <2>3. BlobMoves(c) /\ StageMoves(c)
    BY <1>1, <2>1, <2>2 DEF BlobMoves, StageMoves
  <2> QED BY <2>1, <2>2, <2>3, AttemptBytes
<1>4. CASE Refused(c)
  <2>1. PICK s : To(c, s) /\ ((s = "ending" /\ blobs' = blobs \ {c}) \/ (s = "undo" /\ blobs' = blobs))
    BY <1>4 DEF Refused
  <2>2. stage[c] = "refused" /\ UNCHANGED <<job, removal, unheard, leaked>>
    BY <1>4 DEF Refused, At, past
  <2>3. BlobMoves(c) /\ StageMoves(c)
    BY <1>1, <2>1, <2>2 DEF BlobMoves, StageMoves
  <2> QED BY <2>1, <2>2, <2>3, AttemptBytes
<1>5. CASE Undo(c)
  <2>1. PICK s : To(c, s) /\ s \in {"ending", "failing"}
    BY <1>5 DEF Undo
  <2>2. /\ stage[c] = "undo" /\ UNCHANGED <<job, removal, unheard>> /\ leaked \subseteq leaked'
        /\ blobs' = blobs \ {c} \/ (blobs' = blobs /\ c[1] \in leaked')
    BY <1>5 DEF Undo, At
  <2>3. BlobMoves(c) /\ StageMoves(c)
    BY <1>1, <2>1, <2>2 DEF BlobMoves, StageMoves
  <2> QED BY <2>1, <2>2, <2>3, AttemptBytes
<1>6. CASE End(c)
  <2>1. To(c, "ended") /\ stage[c] = "ending" /\ UNCHANGED <<job, blobs, removal, unheard, leaked>>
    BY <1>6 DEF End, At, tables, past
  <2>2. BlobMoves(c) /\ StageMoves(c)
    BY <1>1, <2>1 DEF BlobMoves, StageMoves
  <2> QED BY <2>1, <2>2, AttemptBytes
<1> QED BY <1>2, <1>3, <1>4, <1>5, <1>6

\* A sweep reaches earlier claims only, and no claim is later than the last.
LEMMA SweepBytes == ASSUME JobsInv, JobsInv', BytesInv, NEW c \in Claims, Sweep(c) PROVE BytesInv'
<1>1. /\ stage[c] = "sweep" /\ To(c, "ending") /\ UNCHANGED <<job, removal, unheard>> /\ leaked \subseteq leaked'
      /\ blobs' \subseteq blobs /\ blobs \ Earlier(c) \subseteq blobs'
  BY DEF Sweep, At
<1>2. \A d \in Earlier(c) : d # c /\ d # Current(d[1])
  <2> SUFFICES ASSUME NEW d \in Claims, d[1] = c[1], d[2] < c[2] PROVE d # c /\ d # Current(d[1])
    BY DEF Earlier
  <2>1. c[2] <= job[c[1]].n /\ c[2] \in Nat /\ d[2] \in Nat /\ job[c[1]].n \in Nat
    BY <1>1, ClaimFacts, RowFacts DEF JobsInv, Numbered
  <2> QED BY <2>1 DEF Current
<1>3. stage'[c] = "ending"
  BY <1>1 DEF To, JobsInv, JobsTyped
<1>4. BlobMoves(c) /\ StageMoves(c)
  BY <1>1, <1>2, <1>3 DEF BlobMoves, StageMoves
<1> QED BY <1>1, <1>2, <1>4, AttemptBytes

\* A save that takes effect publishes bytes that are stored.
LEMMA PublishBytes == ASSUME JobsInv, JobsInv', BytesInv, NEW c \in Claims, Publish(c) PROVE BytesInv'
<1>1. stage[c] = "save" /\ UNCHANGED <<blobs, removal, leaked>>
  BY DEF Publish, At
<1>2. CASE job' = job /\ unheard' = unheard /\ (To(c, "refused") \/ To(c, "undo"))
  <2>1. stage'[c] \in {"refused", "undo"}
    BY <1>2 DEF To, JobsInv, JobsTyped
  <2>2. BlobMoves(c) /\ StageMoves(c)
    BY <1>1, <2>1 DEF BlobMoves, StageMoves
  <2> QED BY <1>1, <1>2, <2>2, AttemptBytes
<1>3. CASE /\ Savable(c, "done") /\ job' = [job EXCEPT ![c[1]].state = "done", ![c[1]].result = c[2]]
           /\ (To(c, "sweep") /\ unheard' = unheard) \/ (To(c, "undo") /\ unheard' = unheard \cup {c})
  <2> DEFINE j == c[1]
  <2>1. j \in Jobs /\ c = Current(j) /\ c[2] = job[j].n /\ job[j].state \in {"running", "done"} /\ c[2] \in 0..MaxClaims
    BY <1>3, SavableFacts, ClaimFacts DEF Current, JobsInv
  <2>2. /\ \A i \in Jobs : i # j => job'[i] = job[i]
        /\ job'[j].state = "done" /\ job'[j].result = c[2] /\ job'[j].n = job[j].n
    BY <1>3, <2>1, RowSaved DEF JobsInv
  <2>3. Current(j)' = c /\ \A i \in Jobs : i # j => Current(i)' = Current(i)
    BY <2>1, <2>2 DEF Current
  <2>4. stage'[c] \in {"sweep", "undo"} /\ (stage'[c] = "undo" => c \in unheard') /\ \A d \in Claims : d # c => stage'[d] = stage[d]
    BY <1>3 DEF To, JobsInv, JobsTyped
  <2>5. c \in blobs
    BY <1>1, <2>1 DEF BytesInv, SaveHasBytes
  <2>6. unheard \subseteq unheard'
    BY <1>3
  <2>7. \A d \in Claims : d[1] \in Jobs
    BY ClaimFacts DEF JobsInv
  <2> HIDE DEF j
  <2>8. SaveHasBytes'
    <3> SUFFICES ASSUME NEW d \in Claims, stage'[d] = "save", d = Current(d[1])', job'[d[1]].state # "removed"
                 PROVE d \in blobs
      BY <1>1 DEF SaveHasBytes
    <3>1. d # c /\ stage[d] = "save"
      BY <2>4
    <3>2. d[1] # j
      BY <2>3, <3>1
    <3>3. Current(d[1])' = Current(d[1]) /\ job'[d[1]] = job[d[1]]
      BY <2>2, <2>3, <2>7, <3>2
    <3> QED BY <3>1, <3>3 DEF BytesInv, SaveHasBytes
  <2>9. DoneHasBytes'
    <3> SUFFICES ASSUME NEW i \in Jobs, job'[i].state = "done"
                 PROVE  /\ job'[i].result = job'[i].n /\ Current(i)' \in Claims
                        /\ Current(i)' \in unheard' \/ (Current(i)' \in blobs' /\ stage'[Current(i)'] \in {"sweep", "ending", "ended"})
      BY DEF DoneHasBytes, Claims
    <3>1. CASE i = j
      BY <1>1, <2>1, <2>2, <2>3, <2>4, <2>5, <3>1
    <3>2. CASE i # j
      <4>1. job'[i] = job[i] /\ Current(i)' = Current(i) /\ Current(i) # c
        BY <2>1, <2>2, <2>3, <3>2 DEF Current
      <4> QED BY <1>1, <2>4, <2>6, <4>1 DEF BytesInv, DoneHasBytes
    <3> QED BY <3>1, <3>2
  <2>10. BytesOwned'
    <3> SUFFICES ASSUME NEW d \in blobs, ~Accounted(d)'
                 PROVE  job'[d[1]].state \in {"done", "removed"} /\ d = Current(d[1])' /\ d[2] = job'[d[1]].result
      BY <1>1 DEF BytesOwned, Accounted
    <3>1. d \in Claims /\ d[1] \in Jobs
      BY <2>7 DEF JobsInv, JobsTyped
    <3>2. CASE d = c
      BY <2>2, <2>3, <3>2 DEF j
    <3>3. CASE d # c
      <4>1. d[1] = j => d # Current(d[1]) /\ job[d[1]].state # "removed"
        BY <2>1, <3>3
      <4>2. d[1] # j => job'[d[1]] = job[d[1]] /\ Current(d[1])' = Current(d[1])
        BY <2>2, <2>3, <3>1
      <4>3. ~Accounted(d)
        BY <1>1, <2>4, <3>1, <3>3 DEF Accounted
      <4>4. job[d[1]].state \in {"done", "removed"} /\ d = Current(d[1]) /\ d[2] = job[d[1]].result
        BY <4>3 DEF BytesInv, BytesOwned
      <4> QED BY <2>1, <4>1, <4>2, <4>4
    <3> QED BY <3>2, <3>3
  <2>11. FailedHasNoResult'
    BY <2>2 DEF BytesInv, FailedHasNoResult
  <2>12. RemovedForGood'
    BY <1>1, <2>1, <2>2 DEF BytesInv, RemovedForGood
  <2>13. RemovalOver'
    <3> SUFFICES ASSUME NEW d \in blobs, removal[d[1]].at = "over", ~Accounted(d)'
                 PROVE  d[2] > removal[d[1]].n
      BY <1>1 DEF RemovalOver, Accounted
    <3>1. d \in Claims /\ d[1] \in Jobs
      BY <2>7 DEF JobsInv, JobsTyped
    <3>2. d # c
      BY <2>1, <3>1 DEF BytesInv, RemovedForGood, j
    <3>3. ~Accounted(d)
      BY <1>1, <2>4, <3>1, <3>2 DEF Accounted
    <3> QED BY <3>3 DEF BytesInv, RemovalOver
  <2> QED BY <2>8, <2>9, <2>10, <2>11, <2>12, <2>13 DEF BytesInv
<1> QED BY <1>2, <1>3 DEF Publish

LEMMA FailBytes == ASSUME JobsInv, JobsInv', BytesInv, NEW c \in Claims, Fail(c) PROVE BytesInv'
<1> DEFINE v == IF c[2] <= scene.retries THEN "queued" ELSE "failed"
<1>1. /\ stage[c] = "failing" /\ UNCHANGED <<blobs, removal, unheard, leaked>>
      /\ \E s \in {"sweep", "ending"} : To(c, s)
      /\ job' = job \/ (Savable(c, v) /\ job' = [job EXCEPT ![c[1]].state = v, ![c[1]].result = 0])
  BY DEF Fail, At, past
<1>2. /\ stage'[c] \in {"sweep", "ending"} /\ \A d \in Claims : d # c => stage'[d] = stage[d]
  BY <1>1 DEF To, JobsInv, JobsTyped
<1>3. \A d \in Claims : BlobMoves(d) /\ StageMoves(d)
  BY <1>1, <1>2 DEF BlobMoves, StageMoves
<1>4. ASSUME NEW i \in Jobs PROVE RowMoves(i)
  <2>1. CASE job' = job
    BY <2>1 DEF RowMoves
  <2>2. CASE Savable(c, v) /\ job' = [job EXCEPT ![c[1]].state = v, ![c[1]].result = 0]
    <3>1. c[1] \in Jobs /\ job[c[1]].state \in {"running", "failed"} /\ 0 \in 0..MaxClaims
      BY <2>2, SavableFacts, SceneFacts DEF JobsInv
    <3>2. /\ \A k \in Jobs : k # c[1] => job'[k] = job[k]
          /\ job'[c[1]].state = v /\ job'[c[1]].result = 0 /\ job'[c[1]].n = job[c[1]].n
      <4>1. v \in {"queued", "running", "done", "failed"}
        OBVIOUS
      <4> DEFINE k0 == c[1]
      <4>2. k0 \in Jobs /\ job' = [job EXCEPT ![k0].state = v, ![k0].result = 0] /\ 0 \in 0..MaxClaims /\ JobsTyped
        BY <2>2, <3>1 DEF JobsInv
      <4> HIDE DEF v, k0
      <4>3. /\ \A k \in Jobs : k # k0 => job'[k] = job[k]
            /\ job'[k0].state = v /\ job'[k0].result = 0 /\ job'[k0].n = job[k0].n
        BY <4>1, <4>2, RowSaved
      <4> QED BY <4>3 DEF k0
    <3> QED BY <3>1, <3>2 DEF RowMoves
  <2> QED BY <1>1, <2>1, <2>2
<1> QED BY <1>1, <1>3, <1>4, RemovalKept, BytesKept

\* Steps of a process, a heartbeat or a lease: no bytes and no attempt's end,
\* but the crash, after which every attempt of the process is accounted as leaked.
LEMMA ProcessBytes ==
    ASSUME JobsInv, JobsInv', BytesInv, NEW p \in Procs,
           Resume(p) \/ ResumeEmpty(p) \/ Tick(p) \/ Stop(p) \/ Start(p)
    PROVE  BytesInv'
<1>1. UNCHANGED <<job, blobs, removal, unheard, leaked>>
  BY DEF Resume, ResumeEmpty, Tick, Stop, Start, tables, past
<1>2. \A c \in Claims : stage'[c] = stage[c] \/ (stage[c] = "none" /\ stage'[c] \in {"exec", "failing"})
  <2>1. CASE Resume(p)
    <3>1. pass[p].at = "got" /\ stage' = [stage EXCEPT ![pass[p].job] = IF pass[p].job[2] > scene.retries + 2 THEN "failing" ELSE "exec"]
      BY <2>1 DEF Resume
    <3>2. stage[pass[p].job] = "none"
      BY <3>1 DEF JobsInv, Numbered
    <3> QED BY <3>1, <3>2 DEF JobsInv, JobsTyped
  <2>2. CASE ~Resume(p)
    BY <2>2 DEF ResumeEmpty, Tick, Stop, Start, runs
  <2> QED BY <2>1, <2>2
<1>3. \A c \in Claims : BlobMoves(c) /\ StageMoves(c)
  BY <1>1, <1>2 DEF BlobMoves, StageMoves
<1> QED BY <1>1, <1>3, SameRowsBytes

LEMMA ExitBytes == ASSUME JobsInv, JobsInv', BytesInv, NEW p \in Procs, Exit(p) PROVE BytesInv'
<1> DEFINE mine == {c \in Claims : stage[c] \in Active /\ home[c] = p}
<1>1. /\ blobs \subseteq blobs' /\ blobs' \subseteq blobs \cup mine
      /\ stage' = [c \in Claims |-> IF c \in mine THEN "ended" ELSE stage[c]]
      /\ leaked' = leaked \cup {c[1] : c \in mine}
      /\ UNCHANGED <<job, removal, unheard>>
  BY DEF Exit
<1> HIDE DEF mine
<1>2. \A c \in Claims : BlobMoves(c) /\ StageMoves(c)
  BY <1>1 DEF BlobMoves, StageMoves
<1> QED BY <1>1, <1>2, SameRowsBytes

LEMMA LeaseBytes ==
    ASSUME JobsInv, JobsInv', BytesInv,
           (\E c \in Claims : Heartbeat(c)) \/ (\E j \in Jobs : Lapse(j) \/ LapseLate(j)) \/ UNCHANGED vars
    PROVE  BytesInv'
<1>1. /\ UNCHANGED <<blobs, stage, removal, unheard, leaked>>
      /\ job' = job \/ \E j \in Jobs : job' = [job EXCEPT ![j].live = FALSE]
  BY DEF Heartbeat, Lapse, LapseLate, PassLease, vars, tables, runs, past
<1>2. \A j \in Jobs : RowMoves(j)
  BY <1>1 DEF RowMoves, JobsInv, JobsTyped, JobRow
<1>3. \A c \in Claims : BlobMoves(c) /\ StageMoves(c)
  BY <1>1 DEF BlobMoves, StageMoves
<1> QED BY <1>1, <1>2, <1>3, RemovalKept, BytesKept

LEMMA RemoveBytesKept ==
    ASSUME JobsInv, JobsInv', BytesInv, NEW j \in Jobs, RemoveRead(j) \/ RemoveRow(j) \/ RemoveBytes(j)
    PROVE  BytesInv'
<1>1. UNCHANGED <<stage, unheard>> /\ leaked \subseteq leaked'
  BY DEF RemoveRead, RemoveRow, RemoveBytes, tables, runs, past
<1>2. CASE RemoveRead(j)
  <2>1. /\ job[j].state # "absent" /\ UNCHANGED <<job, blobs, leaked>>
        /\ removal' = [removal EXCEPT ![j] = [at |-> "read", n |-> job[j].n, result |-> job[j].result]]
    BY <1>2 DEF RemoveRead, tables, past
  <2>2. RemovedForGood'
    BY <2>1 DEF BytesInv, RemovedForGood, JobsInv, JobsTyped
  <2>3. (\A i \in Jobs : RowMoves(i)) /\ \A c \in Claims : BlobMoves(c) /\ StageMoves(c)
    BY <1>1, <2>1 DEF RowMoves, BlobMoves, StageMoves
  <2>4. \A i \in Jobs : removal'[i].at = "over" => removal'[i] = removal[i]
    BY <2>1 DEF JobsInv, JobsTyped
  <2> QED BY <1>1, <2>2, <2>3, <2>4, OverKept, BytesKept
<1>3. CASE RemoveRow(j)
  <2>1. /\ removal' = [removal EXCEPT ![j].at = "deleted"] /\ UNCHANGED <<blobs, leaked>>
        /\ job' = [job EXCEPT ![j] = [job[j] EXCEPT !.state = "removed", !.live = FALSE]]
    BY <1>3 DEF RemoveRow, past, JobsInv, JobsTyped, JobRow
  <2>2. /\ job'[j].state = "removed" /\ job'[j].n = job[j].n /\ job'[j].result = job[j].result
        /\ \A i \in Jobs : i # j => job'[i] = job[i]
    BY <2>1 DEF JobsInv, JobsTyped, JobRow
  <2>3. removal'[j].at = "deleted" /\ \A i \in Jobs : i # j => removal'[i] = removal[i]
    BY <2>1 DEF JobsInv, JobsTyped, RemovalState
  <2>4. RemovedForGood'
    BY <2>2, <2>3 DEF BytesInv, RemovedForGood
  <2>5. (\A i \in Jobs : RowMoves(i)) /\ \A c \in Claims : BlobMoves(c) /\ StageMoves(c)
    BY <1>1, <2>1, <2>2 DEF RowMoves, BlobMoves, StageMoves
  <2> QED BY <1>1, <2>3, <2>4, <2>5, OverKept, BytesKept
<1>4. CASE RemoveBytes(j)
  <2>1. /\ removal[j].at = "deleted" /\ removal' = [removal EXCEPT ![j].at = "over"] /\ job' = job
        /\ blobs' \subseteq blobs /\ \A c \in blobs \ blobs' : c[1] = j
        /\ \A c \in blobs' : c[1] = j => j \in leaked' \/ ~(c[2] <= removal[j].n)
    BY <1>4 DEF RemoveBytes
  <2>2. removal'[j].at = "over" /\ removal'[j].n = removal[j].n /\ \A i \in Jobs : i # j => removal'[i] = removal[i]
    BY <2>1 DEF JobsInv, JobsTyped, RemovalState
  <2>3. job[j].state = "removed"
    BY <2>1 DEF BytesInv, RemovedForGood
  <2>4. RemovedForGood'
    BY <2>1, <2>2, <2>3 DEF BytesInv, RemovedForGood
  <2>5. (\A i \in Jobs : RowMoves(i)) /\ \A c \in Claims : BlobMoves(c) /\ StageMoves(c)
    BY <1>1, <2>1, <2>3 DEF RowMoves, BlobMoves, StageMoves
  <2>6. RemovalOver'
    <3> SUFFICES ASSUME NEW c \in blobs', removal'[c[1]].at = "over", ~Accounted(c)'
                 PROVE  c[2] > removal'[c[1]].n
      BY DEF RemovalOver, Accounted
    <3>1. c \in blobs /\ c \in Claims /\ ~Accounted(c)
      BY <1>1, <2>1 DEF JobsInv, JobsTyped, Accounted
    <3>2. c[1] \in Jobs /\ c[2] \in Nat /\ removal[c[1]].n \in Nat
      BY <3>1, ClaimFacts, SceneFacts DEF JobsInv, JobsTyped, RemovalState
    <3>3. CASE c[1] = j
      BY <2>1, <2>2, <3>2, <3>3 DEF Accounted
    <3>4. CASE c[1] # j
      BY <2>2, <3>1, <3>2, <3>4 DEF BytesInv, RemovalOver
    <3> QED BY <3>3, <3>4
  <2> QED BY <1>1, <2>4, <2>5, <2>6, BytesKept
<1> QED BY <1>2, <1>3, <1>4

LEMMA InitBytes == ASSUME Init PROVE BytesInv
<1>1. SaveHasBytes /\ BytesOwned /\ RemovalOver
  BY DEF Init, SaveHasBytes, BytesOwned, RemovalOver
<1> QED BY <1>1 DEF Init, BytesInv, DoneHasBytes, FailedHasNoResult, RemovedForGood

LEMMA NextBytes == ASSUME JobsInv, JobsInv', BytesInv, [Next]_vars PROVE BytesInv'
<1>1. ASSUME NEW j \in Jobs, NEW p \in Procs, Submit(j, p) PROVE BytesInv'
  BY <1>1, SubmitBytes
<1>2. ASSUME NEW p \in Procs, ClaimStatement(p) PROVE BytesInv'
  BY <1>2, ClaimBytes
<1>3. ASSUME NEW p \in Procs, Resume(p) \/ ResumeEmpty(p) \/ Tick(p) \/ Stop(p) \/ Start(p) PROVE BytesInv'
  BY <1>3, ProcessBytes
<1>4. ASSUME NEW p \in Procs, Exit(p) PROVE BytesInv'
  BY <1>4, ExitBytes
<1>5. ASSUME NEW c \in Claims, Work(c) PROVE BytesInv'
  BY <1>5, WorkBytes, SweepBytes, PublishBytes, FailBytes DEF Work
<1>6. ASSUME (\E c \in Claims : Heartbeat(c)) \/ (\E j \in Jobs : Lapse(j) \/ LapseLate(j)) \/ UNCHANGED vars PROVE BytesInv'
  BY <1>6, LeaseBytes
<1>7. ASSUME NEW j \in Jobs, RemoveRead(j) \/ RemoveRow(j) \/ RemoveBytes(j) PROVE BytesInv'
  BY <1>7, RemoveBytesKept
<1> QED BY <1>1, <1>2, <1>3, <1>4, <1>5, <1>6, <1>7 DEF Next

\* Where the bytes of every attempt are, in every reachable state.
THEOREM BytesInvariant == Spec => [](JobsInv /\ BytesInv)
<1>1. Init => JobsInv /\ BytesInv
  BY InitJobs, InitBytes
<1>2. JobsInv /\ BytesInv /\ [Next]_vars => (JobsInv /\ BytesInv)'
  BY NextJobs, NextBytes
<1> QED BY <1>1, <1>2, PTL DEF Spec

-----------------------------------------------------------------------------
\* A published result keeps its bytes, except from the attempt that never heard
\* of its own success (run() and sweepEarlierAttempts of durable-runner.ts).
THEOREM JobsResultKept == Spec => []ResultKept
<1>1. BytesInv => ResultKept
  <2> SUFFICES ASSUME BytesInv, NEW j \in Jobs, job[j].state = "done" PROVE <<j, job[j].result>> \in blobs \cup unheard
    BY DEF ResultKept
  <2>1. job[j].result = job[j].n /\ Current(j) \in blobs \cup unheard
    BY DEF BytesInv, DoneHasBytes
  <2> QED BY <2>1 DEF Current
<1> QED BY <1>1, BytesInvariant, PTL

\* When the attempts of a settled job are over, only its result is stored, and of a
\* removed one nothing that remove() could know of (Publish, Sweep and RemoveBytes).
THEOREM JobsNothingLeftBehind == Spec => []NothingLeftBehind
<1>1. JobsInv /\ BytesInv => NothingLeftBehind
  <2> SUFFICES ASSUME JobsInv, BytesInv, NEW j \in Jobs \ leaked,
                      \A c \in Claims : c[1] = j => stage[c] \notin Active,
                      NEW c \in blobs, c[1] = j
               PROVE  /\ Settled(j) => c[2] = job[j].result
                      /\ removal[j].at = "over" => c[2] = job[j].result /\ c[2] > removal[j].n
    BY DEF NothingLeftBehind
  <2>1. c \in Claims /\ ~Accounted(c)
    BY DEF JobsInv, JobsTyped, Active, Accounted
  <2>2. c[2] = job[j].result
    BY <2>1 DEF BytesInv, BytesOwned
  <2>3. removal[j].at = "over" => c[2] > removal[j].n
    BY <2>1 DEF BytesInv, RemovalOver
  <2> QED BY <2>2, <2>3
<1> QED BY <1>1, BytesInvariant, PTL

Final(j) == Settled(j) => job'[j] = job[j] \/ job'[j].state = "removed"

LEMMA PublishFinal == ASSUME JobsInv, BytesInv, NEW c \in Claims, Publish(c) PROVE \A j \in Jobs : Final(j)
<1>1. CASE job' = job
  BY <1>1 DEF Final
<1>2. CASE Savable(c, "done") /\ job' = [job EXCEPT ![c[1]].state = "done", ![c[1]].result = c[2]]
  <2>1. c[1] \in Jobs /\ c[2] = job[c[1]].n /\ job[c[1]].state \in {"running", "done"} /\ c[2] \in 0..MaxClaims
    BY <1>2, SavableFacts, ClaimFacts DEF Current, JobsInv
  <2>2. job[c[1]].state = "done" => job[c[1]].result = c[2]
    BY <2>1 DEF BytesInv, DoneHasBytes
  <2> DEFINE row == [job[c[1]] EXCEPT !.state = "done", !.result = c[2]]
  <2>3. job' = [job EXCEPT ![c[1]] = row] /\ (job[c[1]].state = "done" => row = job[c[1]])
    BY <1>2, <2>1, <2>2 DEF JobsInv, JobsTyped, JobRow
  <2> HIDE DEF row
  <2>4. \A j \in Jobs : job'[j] = IF j = c[1] THEN row ELSE job[j]
    BY <2>3 DEF JobsInv, JobsTyped
  <2> QED BY <2>1, <2>3, <2>4 DEF Final, Settled
<1> QED BY <1>1, <1>2 DEF Publish

LEMMA FailFinal == ASSUME JobsInv, BytesInv, NEW c \in Claims, Fail(c) PROVE \A j \in Jobs : Final(j)
<1> DEFINE v == IF c[2] <= scene.retries THEN "queued" ELSE "failed"
<1>1. CASE job' = job
  BY <1>1 DEF Final
<1>2. CASE Savable(c, v) /\ job' = [job EXCEPT ![c[1]].state = v, ![c[1]].result = 0]
  <2>1. c[1] \in Jobs /\ job[c[1]].state \in {"running", v} /\ job[c[1]].state \in {"running", "done", "failed"}
    BY <1>2, SavableFacts
  <2>2. job[c[1]].state = "failed" => job[c[1]].result = 0 /\ v = "failed"
    BY <2>1 DEF BytesInv, FailedHasNoResult
  <2>3. job[c[1]].state \in {"running", "failed"}
    BY <2>1
  <2> DEFINE row == [job[c[1]] EXCEPT !.state = v, !.result = 0]
  <2> HIDE DEF v
  <2>4. job' = [job EXCEPT ![c[1]] = row] /\ (job[c[1]].state = "failed" => row = job[c[1]])
    BY <1>2, <2>1, <2>2 DEF JobsInv, JobsTyped, JobRow
  <2> HIDE DEF row
  <2>5. \A j \in Jobs : job'[j] = IF j = c[1] THEN row ELSE job[j]
    BY <2>4 DEF JobsInv, JobsTyped
  <2> QED BY <2>3, <2>4, <2>5 DEF Final, Settled
<1> QED BY <1>1, <1>2 DEF Fail

LEMMA StepIsFinal == ASSUME JobsInv, BytesInv, [Next]_vars PROVE \A j \in Jobs : Final(j)
<1>1. ASSUME NEW j \in Jobs, NEW p \in Procs, Submit(j, p) PROVE \A i \in Jobs : Final(i)
  BY <1>1 DEF Submit, Final, Settled, JobsInv, JobsTyped
<1>2. ASSUME NEW p \in Procs, ClaimStatement(p) PROVE \A i \in Jobs : Final(i)
  <2>1. job' = job \/ \E j \in Jobs : Claimable(j) /\ \A i \in Jobs : i # j => job'[i] = job[i]
    BY <1>2 DEF ClaimStatement, JobsInv, JobsTyped
  <2> QED BY <2>1 DEF Final, Settled, Claimable
<1>3. ASSUME NEW c \in Claims, Publish(c) \/ Fail(c) PROVE \A i \in Jobs : Final(i)
  BY <1>3, PublishFinal, FailFinal
<1>4. ASSUME NEW j \in Jobs, Lapse(j) \/ LapseLate(j) PROVE \A i \in Jobs : Final(i)
  <2>1. job[j].state = "running" /\ job' = [job EXCEPT ![j].live = FALSE]
    BY <1>4 DEF Lapse, LapseLate, PassLease
  <2> QED BY <2>1 DEF Final, Settled, JobsInv, JobsTyped
<1>5. ASSUME NEW j \in Jobs, RemoveRow(j) PROVE \A i \in Jobs : Final(i)
  <2>1. job' = [job EXCEPT ![j] = [job[j] EXCEPT !.state = "removed", !.live = FALSE]]
    BY <1>5 DEF RemoveRow, JobsInv, JobsTyped, JobRow
  <2> QED BY <2>1 DEF Final, JobsInv, JobsTyped, JobRow
<1>6. job' = job => \A i \in Jobs : Final(i)
  BY DEF Final
<1>7. ASSUME NEW p \in Procs, Resume(p) \/ ResumeEmpty(p) \/ Tick(p) \/ Stop(p) \/ Exit(p) \/ Start(p) PROVE job' = job
  BY <1>7 DEF Resume, ResumeEmpty, Tick, Stop, Exit, Start, tables
<1>8. ASSUME NEW c \in Claims, Heartbeat(c) \/ Execute(c) \/ Put(c) \/ Refused(c) \/ Undo(c) \/ Sweep(c) \/ End(c) PROVE job' = job
  BY <1>8 DEF Heartbeat, Execute, Put, Refused, Undo, Sweep, End, tables
<1>9. ASSUME NEW j \in Jobs, RemoveRead(j) \/ RemoveBytes(j) PROVE job' = job
  BY <1>9 DEF RemoveRead, RemoveBytes, tables
<1>10. UNCHANGED vars => job' = job
  BY DEF vars, tables
<1> QED BY <1>1, <1>2, <1>3, <1>4, <1>5, <1>6, <1>7, <1>8, <1>9, <1>10 DEF Next, Work

\* Whoever saves late, a settled job stays as it is until it is removed (the
\* WHERE of saveClaimedAutomationJob).
THEOREM JobsSettledIsFinal == Spec => SettledIsFinal
<1>1. JobsInv /\ BytesInv /\ [Next]_vars =>
        [\A j \in Jobs : Settled(j) => job'[j] = job[j] \/ job'[j].state = "removed"]_vars
  BY StepIsFinal DEF Final
<1> QED BY <1>1, BytesInvariant, PTL DEF Spec, SettledIsFinal

-----------------------------------------------------------------------------
(* The refinement of JobPromise.                                           *)

\* An attempt that never heard of its success is past its put.
UnheardPast == \A c \in unheard : stage[c] \in {"undo", "failing", "sweep", "ending", "ended"}

LEMMA NextUnheard == ASSUME JobsInv, UnheardPast, [Next]_vars PROVE UnheardPast'
<1>1. ASSUME unheard' = unheard,
             \A c \in unheard : \/ stage'[c] = stage[c]
                                \/ stage[c] = "undo" /\ stage'[c] \in {"failing", "ending"}
                                \/ stage[c] = "failing" /\ stage'[c] \in {"sweep", "ending"}
                                \/ stage[c] \notin {"undo", "failing", "sweep", "ending", "ended"}
                                \/ stage'[c] \in {"ending", "ended"}
      PROVE  UnheardPast'
  BY <1>1 DEF UnheardPast
<1>2. ASSUME NEW c \in Claims, NEW s, To(c, s)
      PROVE  stage'[c] = s /\ \A d \in Claims : d # c => stage'[d] = stage[d]
  BY <1>2 DEF To, JobsInv, JobsTyped
<1>3. unheard \subseteq Claims
  BY DEF JobsInv, JobsTyped
<1>4. ASSUME NEW c \in Claims, NEW s, To(c, s), unheard' = unheard,
             \/ stage[c] = "undo" /\ s \in {"failing", "ending"}
             \/ stage[c] = "failing" /\ s \in {"sweep", "ending"}
             \/ stage[c] \in {"exec", "put", "save", "refused"}
             \/ s \in {"ending", "ended"}
      PROVE  UnheardPast'
  BY <1>1, <1>2, <1>3, <1>4
<1>5. ASSUME NEW c \in Claims, Work(c) PROVE UnheardPast'
  <2>1. CASE Publish(c) /\ unheard' # unheard
    <3>1. To(c, "undo") /\ unheard' = unheard \cup {c}
      BY <2>1 DEF Publish
    <3> QED BY <1>2, <1>3, <3>1 DEF UnheardPast
  <2>2. CASE Publish(c) /\ unheard' = unheard
    <3>1. stage[c] = "save" /\ \E s : To(c, s)
      BY <2>2 DEF Publish, At
    <3> QED BY <1>4, <2>2, <3>1
  <2>3. CASE Execute(c)
    BY <1>4, <2>3 DEF Execute, At, past
  <2>4. CASE Put(c)
    BY <1>4, <2>4 DEF Put, At
  <2>5. CASE Refused(c)
    BY <1>4, <2>5 DEF Refused, At, past
  <2>6. CASE Undo(c)
    BY <1>4, <2>6 DEF Undo, At
  <2>7. CASE Fail(c)
    <3>1. stage[c] = "failing" /\ UNCHANGED unheard /\ \E s \in {"sweep", "ending"} : To(c, s)
      BY <2>7 DEF Fail, At, past
    <3> QED BY <1>4, <3>1
  <2>8. CASE Sweep(c) \/ End(c)
    BY <1>4, <2>8 DEF Sweep, End, past
  <2> QED BY <1>5, <2>1, <2>2, <2>3, <2>4, <2>5, <2>6, <2>7, <2>8 DEF Work
<1>6. ASSUME NEW p \in Procs, Resume(p) PROVE UnheardPast'
  <2>1. /\ UNCHANGED unheard /\ pass[p].at = "got"
        /\ stage' = [stage EXCEPT ![pass[p].job] = IF pass[p].job[2] > scene.retries + 2 THEN "failing" ELSE "exec"]
    BY <1>6 DEF Resume, past
  <2>2. stage[pass[p].job] = "none"
    BY <2>1 DEF JobsInv, Numbered
  <2>3. \A c \in Claims : stage'[c] = stage[c] \/ stage[c] = "none"
    BY <2>1, <2>2 DEF JobsInv, JobsTyped
  <2> QED BY <1>1, <1>3, <2>1, <2>3
<1>7. ASSUME NEW p \in Procs, Exit(p) PROVE UnheardPast'
  BY <1>1, <1>3, <1>7 DEF Exit
<1>8. ASSUME UNCHANGED <<stage, unheard>> PROVE UnheardPast'
  BY <1>1, <1>8
<1>9. ASSUME NEW p \in Procs, ClaimStatement(p) \/ ResumeEmpty(p) \/ Tick(p) \/ Stop(p) \/ Start(p) PROVE UnheardPast'
  BY <1>8, <1>9 DEF ClaimStatement, ResumeEmpty, Tick, Stop, Start, runs, past
<1>10. ASSUME NEW j \in Jobs, \/ Lapse(j) \/ LapseLate(j) \/ RemoveRead(j) \/ RemoveRow(j) \/ RemoveBytes(j)
                              \/ \E p \in Procs : Submit(j, p)
       PROVE  UnheardPast'
  BY <1>8, <1>10 DEF Lapse, LapseLate, PassLease, RemoveRead, RemoveRow, RemoveBytes, Submit, runs, past
<1>11. ASSUME NEW c \in Claims, Heartbeat(c) PROVE UnheardPast'
  BY <1>8, <1>11 DEF Heartbeat, past
<1>12. CASE UNCHANGED vars
  BY <1>8, <1>12 DEF vars, runs, past
<1>13. ASSUME NEW p \in Procs, ClaimStatement(p) \/ Resume(p) \/ ResumeEmpty(p) \/ Tick(p) \/ Stop(p) \/ Exit(p) \/ Start(p)
       PROVE  UnheardPast'
  BY <1>6, <1>7, <1>9, <1>13
<1>14. CASE Next
  BY <1>5, <1>10, <1>11, <1>13, <1>14 DEF Next
<1> QED BY <1>12, <1>14

Outcomes == [j \in Jobs |-> Outcome(job[j].state)]
Silent == {c[1] : c \in unheard}

\* A step of the promise, or none.
Promised == Promise!JNext \/ (Outcomes' = Outcomes /\ Readable' = Readable /\ Silent' = Silent)

\* The row of one job changes: the others' outcomes and results stay.
LEMMA RowPromise ==
    ASSUME JobsInv, UNCHANGED <<blobs, unheard>>, NEW j \in Jobs, NEW row, job' = [job EXCEPT ![j] = row]
    PROVE  /\ Outcomes' = [Outcomes EXCEPT ![j] = Outcome(row.state)] /\ Outcomes[j] = Outcome(job[j].state)
           /\ Silent' = Silent
           /\ row.state # "done" => Readable' = Readable \ {j}
           /\ row.state = job[j].state /\ row.result = job[j].result => Readable' = Readable
           /\ job[j].state # "done" => j \notin Readable
<1>1. job'[j] = row /\ \A i \in Jobs : i # j => job'[i] = job[i]
  BY DEF JobsInv, JobsTyped
<1>2. Outcomes' = [Outcomes EXCEPT ![j] = Outcome(row.state)]
  <2>1. /\ Outcomes' = [i \in Jobs |-> Outcome(job'[i].state)]
        /\ [Outcomes EXCEPT ![j] = Outcome(row.state)]
             = [i \in Jobs |-> IF i = j THEN Outcome(row.state) ELSE Outcome(job[i].state)]
    BY DEF Outcomes
  <2>2. \A i \in Jobs : Outcome(job'[i].state) = IF i = j THEN Outcome(row.state) ELSE Outcome(job[i].state)
    BY <1>1
  <2> QED BY <2>1, <2>2
<1>3. row.state # "done" => Readable' = Readable \ {j}
  BY <1>1 DEF Readable
<1>4. row.state = job[j].state /\ row.result = job[j].result => Readable' = Readable
  BY <1>1 DEF Readable
<1> QED BY <1>2, <1>3, <1>4 DEF Outcomes, Silent, Readable

LEMMA OutcomeNames ==
    /\ Outcome("absent") = "none" /\ Outcome("queued") = "pending" /\ Outcome("running") = "pending"
    /\ Outcome("done") = "done" /\ Outcome("failed") = "failed" /\ Outcome("removed") = "removed"
BY DEF Outcome

\* Bytes come and go: a result that can be read goes only if nobody heard of it,
\* and none comes back.
LEMMA BytesPromise ==
    ASSUME JobsInv, BytesInv, UnheardPast, UNCHANGED <<job, unheard>>, NEW k \in Claims,
           \A c \in Claims : c \in blobs' \ blobs => stage[c] = "put",
           \A c \in Claims : c \in blobs \ blobs' =>
               \/ c = k /\ stage[k] \in {"refused", "undo"}
               \/ job[c[1]].state = "removed"
               \/ c # Current(c[1])
    PROVE  Promised
<1>1. Outcomes' = Outcomes /\ Silent' = Silent
  BY DEF Outcomes, Silent
<1>2. ASSUME NEW j \in Jobs, job[j].state = "done"
      PROVE  /\ Current(j) \in Claims /\ Current(j) = <<j, job[j].result>> /\ Current(j)[1] = j
             /\ Current(j) \in unheard \/ (Current(j) \in blobs /\ stage[Current(j)] \in {"sweep", "ending", "ended"})
  BY <1>2 DEF BytesInv, DoneHasBytes, Current
<1>3. Readable' \subseteq Readable
  <2> SUFFICES ASSUME NEW j \in Jobs, job[j].state = "done", <<j, job[j].result>> \in blobs', <<j, job[j].result>> \notin blobs
               PROVE  FALSE
    BY DEF Readable
  <2>1. Current(j) \in unheard /\ stage[Current(j)] = "put"
    BY <1>2
  <2> QED BY <2>1 DEF UnheardPast
<1>4. ASSUME NEW j \in Readable \ Readable' PROVE j = k[1] /\ j \in Silent
  <2>1. j \in Jobs /\ job[j].state = "done" /\ <<j, job[j].result>> \in blobs \ blobs'
    BY DEF Readable
  <2>2. Current(j) = k /\ stage[k] \in {"refused", "undo"}
    BY <1>2, <2>1
  <2>3. k \in unheard /\ k[1] = j
    BY <1>2, <2>1, <2>2
  <2> QED BY <2>3 DEF Silent
<1>5. CASE Readable' = Readable
  BY <1>1, <1>5 DEF Promised
<1>6. CASE Readable' # Readable
  <2>1. Readable' = Readable \ {k[1]} /\ k[1] \in Readable \cap Silent /\ k[1] \in Jobs
    BY <1>3, <1>4, <1>6 DEF Readable
  <2>2. Promise!LoseResult(k[1])
    BY <1>1, <2>1 DEF Promise!LoseResult, Outcomes, Silent
  <2> QED BY <2>1, <2>2 DEF Promise!JNext, Promised
<1> QED BY <1>5, <1>6

LEMMA WorkPromise == ASSUME JobsInv, BytesInv, UnheardPast, NEW c \in Claims, Work(c) PROVE Promised
<1>1. CASE Execute(c) \/ End(c)
  BY <1>1, BytesPromise DEF Execute, End, tables, past
<1>2. CASE Put(c)
  BY <1>2, BytesPromise DEF Put, At
<1>3. CASE Refused(c)
  BY <1>3, BytesPromise DEF Refused, At, past
<1>4. CASE Undo(c)
  BY <1>4, BytesPromise DEF Undo, At
<1>5. CASE Sweep(c)
  <2>1. stage[c] = "sweep" /\ UNCHANGED <<job, unheard>> /\ blobs' \subseteq blobs /\ blobs \ Earlier(c) \subseteq blobs'
    BY <1>5 DEF Sweep, At
  <2>2. \A d \in Earlier(c) : d # Current(d[1])
    <3> SUFFICES ASSUME NEW d \in Claims, d[1] = c[1], d[2] < c[2] PROVE d # Current(d[1])
      BY DEF Earlier
    <3>1. c[2] <= job[c[1]].n /\ c[2] \in Nat /\ d[2] \in Nat /\ job[c[1]].n \in Nat
      BY <2>1, ClaimFacts, RowFacts DEF JobsInv, Numbered
    <3> QED BY <3>1 DEF Current
  <2> QED BY <2>1, <2>2, BytesPromise
<1>6. CASE Publish(c)
  <2>1. stage[c] = "save" /\ UNCHANGED blobs
    BY <1>6 DEF Publish, At
  <2>2. CASE job' = job /\ unheard' = unheard
    BY <2>1, <2>2, BytesPromise
  <2>3. CASE /\ Savable(c, "done") /\ job' = [job EXCEPT ![c[1]].state = "done", ![c[1]].result = c[2]]
             /\ unheard' \in {unheard, unheard \cup {c}}
    <3> DEFINE j == c[1]
               row == [job[j] EXCEPT !.state = "done", !.result = c[2]]
    <3>1. j \in Jobs /\ c = Current(j) /\ job[j].state \in {"running", "done"} /\ c[2] \in 0..MaxClaims
      BY <2>3, SavableFacts, ClaimFacts DEF JobsInv
    <3>2. job[j].state = "running"
      <4>1. CASE job[j].state = "done"
        <5>1. c \in unheard
          BY <2>1, <3>1, <4>1 DEF BytesInv, DoneHasBytes
        <5> QED BY <2>1, <5>1 DEF UnheardPast
      <4> QED BY <3>1, <4>1
    <3>3. c \in blobs
      BY <2>1, <3>1, <3>2 DEF BytesInv, SaveHasBytes
    <3>4. c = <<j, c[2]>>
      BY ClaimFacts DEF JobsInv
    <3>5. job'[j].state = "done" /\ job'[j].result = c[2] /\ \A i \in Jobs : i # j => job'[i] = job[i]
      BY <2>3, <3>1, RowSaved DEF JobsInv
    <3> HIDE DEF j
    <3>6. Outcomes' = [Outcomes EXCEPT ![j] = "done"] /\ Outcomes[j] = "pending"
      BY <3>1, <3>2, <3>5, OutcomeNames DEF Outcomes
    <3>7. Readable' = Readable \cup {j}
      BY <2>1, <3>1, <3>3, <3>4, <3>5 DEF Readable
    <3>8. Silent' \in {Silent, Silent \cup {j}}
      BY <2>3 DEF Silent, j
    <3>9. Promise!Finish(j)
      BY <3>6, <3>7, <3>8 DEF Promise!Finish, Outcomes, Silent
    <3> QED BY <3>1, <3>9 DEF Promise!JNext, Promised
  <2> QED BY <1>6, <2>2, <2>3 DEF Publish
<1>7. CASE Fail(c)
  <2> DEFINE v == IF c[2] <= scene.retries THEN "queued" ELSE "failed"
             j == c[1]
  <2>1. /\ UNCHANGED <<blobs, unheard>>
        /\ job' = job \/ (Savable(c, v) /\ job' = [job EXCEPT ![j].state = v, ![j].result = 0])
    BY <1>7 DEF Fail, past
  <2>2. CASE job' = job
    BY <2>1, <2>2, BytesPromise
  <2>3. CASE Savable(c, v) /\ job' = [job EXCEPT ![j].state = v, ![j].result = 0]
    <3>1. j \in Jobs /\ job[j].state \in {"running", "failed"} /\ (job[j].state = "failed" => v = "failed")
      BY <2>3, SavableFacts DEF JobsInv
    <3> DEFINE row == [job[j] EXCEPT !.state = v, !.result = 0]
    <3>2. v \in {"queued", "failed"}
      OBVIOUS
    <3> HIDE DEF v, j
    <3>3. row.state = v /\ job' = [job EXCEPT ![j] = row]
      BY <2>3, <3>1 DEF JobsInv, JobsTyped, JobRow
    <3> HIDE DEF row
    <3>4. /\ Outcomes' = [Outcomes EXCEPT ![j] = Outcome(v)] /\ Outcomes[j] = Outcome(job[j].state)
          /\ Silent' = Silent /\ Readable' = Readable
      <4>1. /\ Outcomes' = [Outcomes EXCEPT ![j] = Outcome(row.state)] /\ Outcomes[j] = Outcome(job[j].state)
            /\ Silent' = Silent
            /\ row.state # "done" => Readable' = Readable \ {j}
            /\ job[j].state # "done" => j \notin Readable
        BY <2>1, <3>1, <3>3, RowPromise
      <4>2. row.state # "done" /\ job[j].state # "done"
        BY <3>1, <3>2, <3>3
      <4> QED BY <3>3, <4>1, <4>2
    <3>5. CASE Outcome(v) = Outcome(job[j].state)
      BY <3>4, <3>5 DEF Promised, Outcomes
    <3>6. CASE Outcome(v) # Outcome(job[j].state)
      <4>1. job[j].state = "running" /\ v = "failed"
        BY <3>1, <3>2, <3>6, OutcomeNames
      <4>2. Promise!GiveUp(j)
        BY <3>4, <4>1, OutcomeNames DEF Promise!GiveUp, Outcomes, Silent
      <4> QED BY <3>1, <4>2 DEF Promise!JNext, Promised
    <3> QED BY <3>5, <3>6
  <2> QED BY <2>1, <2>2, <2>3
<1> QED BY <1>1, <1>2, <1>3, <1>4, <1>5, <1>6, <1>7 DEF Work

LEMMA RowsPromise ==
    ASSUME JobsInv, BytesInv, UnheardPast, NEW j \in Jobs,
           \/ Lapse(j) \/ LapseLate(j) \/ RemoveRead(j) \/ RemoveRow(j) \/ RemoveBytes(j) \/ \E p \in Procs : Submit(j, p)
    PROVE  Promised
<1>1. CASE \E p \in Procs : Submit(j, p)
  <2> DEFINE row == [job[j] EXCEPT !.state = "queued"]
  <2>1. UNCHANGED <<blobs, unheard>> /\ job[j].state = "absent" /\ row.state = "queued" /\ job' = [job EXCEPT ![j] = row]
    BY <1>1 DEF Submit, past, JobsInv, JobsTyped, JobRow
  <2> HIDE DEF row
  <2>2. Outcomes' = [Outcomes EXCEPT ![j] = "pending"] /\ Outcomes[j] = "none" /\ Silent' = Silent /\ Readable' = Readable
    BY <2>1, RowPromise, OutcomeNames
  <2>3. Promise!Accept(j)
    BY <2>2 DEF Promise!Accept, Outcomes, Silent
  <2> QED BY <2>3 DEF Promise!JNext, Promised
<1>2. CASE Lapse(j) \/ LapseLate(j)
  <2> DEFINE row == [job[j] EXCEPT !.live = FALSE]
  <2>1. /\ UNCHANGED <<blobs, unheard>> /\ row.state = job[j].state /\ row.result = job[j].result
        /\ job' = [job EXCEPT ![j] = row]
    BY <1>2 DEF Lapse, LapseLate, PassLease, past, JobsInv, JobsTyped, JobRow
  <2> HIDE DEF row
  <2>2. Outcomes' = [Outcomes EXCEPT ![j] = Outcomes[j]] /\ Silent' = Silent /\ Readable' = Readable
    BY <2>1, RowPromise
  <2> QED BY <2>2 DEF Promised, Outcomes
<1>3. CASE RemoveRead(j) \/ RemoveBytes(j)
  <2>1. UNCHANGED <<job, unheard>> /\ blobs' \subseteq blobs /\ \A d \in blobs \ blobs' : d[1] = j /\ removal[j].at = "deleted"
    BY <1>3 DEF RemoveRead, RemoveBytes, tables, past
  <2>2. removal[j].at = "deleted" => job[j].state = "removed"
    BY DEF BytesInv, RemovedForGood
  <2>3. Readable' = Readable /\ Outcomes' = Outcomes /\ Silent' = Silent
    BY <2>1, <2>2 DEF Readable, Outcomes, Silent
  <2> QED BY <2>3 DEF Promised
<1>4. CASE RemoveRow(j)
  <2> DEFINE row == [job[j] EXCEPT !.state = "removed", !.live = FALSE]
  <2>1. /\ UNCHANGED <<blobs, unheard>> /\ removal[j].at = "read" /\ row.state = "removed"
        /\ job' = [job EXCEPT ![j] = row]
    BY <1>4 DEF RemoveRow, past, JobsInv, JobsTyped, JobRow
  <2>2. job[j].state # "absent" /\ job[j].state \in {"absent", "queued", "running", "done", "failed", "removed"}
    BY <2>1 DEF BytesInv, RemovedForGood, JobsInv, JobsTyped, JobRow
  <2> HIDE DEF row
  <2>3. Outcomes' = [Outcomes EXCEPT ![j] = "removed"] /\ Outcomes[j] # "none" /\ Silent' = Silent /\ Readable' = Readable \ {j}
    <3>1. /\ Outcomes' = [Outcomes EXCEPT ![j] = Outcome(row.state)] /\ Outcomes[j] = Outcome(job[j].state)
          /\ Silent' = Silent
          /\ row.state # "done" => Readable' = Readable \ {j}
      BY <2>1, RowPromise
    <3>2. Outcome(row.state) = "removed" /\ row.state # "done"
      BY <2>1, OutcomeNames
    <3>3. Outcome(job[j].state) # "none"
      BY <2>2, OutcomeNames
    <3> QED BY <3>1, <3>2, <3>3
  <2>4. Promise!Remove(j)
    BY <2>3 DEF Promise!Remove, Outcomes, Silent
  <2> QED BY <2>4 DEF Promise!JNext, Promised
<1> QED BY <1>1, <1>2, <1>3, <1>4

LEMMA ProcessPromise ==
    ASSUME JobsInv, BytesInv, UnheardPast, NEW p \in Procs,
           ClaimStatement(p) \/ Resume(p) \/ ResumeEmpty(p) \/ Tick(p) \/ Stop(p) \/ Exit(p) \/ Start(p)
    PROVE  Promised
<1>1. CASE ClaimStatement(p)
  <2>1. UNCHANGED <<blobs, unheard>>
    BY <1>1 DEF ClaimStatement, past
  <2>2. CASE job' = job
    BY <2>1, <2>2 DEF Promised, Outcomes, Readable, Silent
  <2>3. CASE \E j \in Jobs : Claimable(j) /\ job' = [job EXCEPT ![j].state = "running", ![j].n = @ + 1, ![j].live = TRUE]
    <3>1. PICK j \in Jobs : Claimable(j) /\ job' = [job EXCEPT ![j].state = "running", ![j].n = @ + 1, ![j].live = TRUE]
      BY <2>3
    <3> DEFINE row == [job[j] EXCEPT !.state = "running", !.n = job[j].n + 1, !.live = TRUE]
    <3>2. row.state = "running" /\ job' = [job EXCEPT ![j] = row] /\ job[j].state \in {"queued", "running"}
      BY <3>1 DEF Claimable, JobsInv, JobsTyped, JobRow
    <3> HIDE DEF row
    <3>3. Outcomes' = [Outcomes EXCEPT ![j] = Outcomes[j]] /\ Silent' = Silent /\ Readable' = Readable
      BY <2>1, <3>2, RowPromise, OutcomeNames
    <3> QED BY <3>3 DEF Promised, Outcomes
  <2> QED BY <1>1, <2>2, <2>3 DEF ClaimStatement
<1>2. CASE Exit(p)
  <2>1. UNCHANGED <<job, unheard>> /\ blobs \subseteq blobs' /\ \A c \in blobs' \ blobs : c \in Claims /\ stage[c] = "put"
    BY <1>2 DEF Exit, At
  <2>2. CASE Claims = {}
    <3>1. Readable' = Readable /\ Outcomes' = Outcomes /\ Silent' = Silent
      BY <2>1, <2>2 DEF Readable, Outcomes, Silent
    <3> QED BY <3>1 DEF Promised
  <2>3. CASE Claims # {}
    BY <2>1, <2>3, BytesPromise
  <2> QED BY <2>2, <2>3
<1>3. CASE Resume(p) \/ ResumeEmpty(p) \/ Tick(p) \/ Stop(p) \/ Start(p)
  <2>1. UNCHANGED <<job, blobs, unheard>>
    BY <1>3 DEF Resume, ResumeEmpty, Tick, Stop, Start, tables, past
  <2> QED BY <2>1 DEF Promised, Outcomes, Readable, Silent
<1> QED BY <1>1, <1>2, <1>3

LEMMA NextPromise == ASSUME JobsInv, BytesInv, UnheardPast, [Next]_vars PROVE Promised
<1>1. ASSUME NEW c \in Claims, Heartbeat(c) \/ Work(c) PROVE Promised
  <2>1. CASE Heartbeat(c)
    <3>1. UNCHANGED <<job, blobs, unheard>>
      BY <2>1 DEF Heartbeat, tables, past
    <3> QED BY <3>1 DEF Promised, Outcomes, Readable, Silent
  <2> QED BY <1>1, <2>1, WorkPromise
<1>2. CASE UNCHANGED vars
  BY <1>2 DEF vars, tables, past, Promised, Outcomes, Readable, Silent
<1>3. CASE Next
  BY <1>1, <1>3, RowsPromise, ProcessPromise DEF Next
<1> QED BY <1>2, <1>3

\* Durable jobs, with their retries, takeovers, lost answers and crashes, keep what
\* JobPromise says, for any jobs, processes and scenes.
THEOREM JobsKeepPromise == Spec => KeepsJobPromise
<1>1. Init => Promise!JInit /\ UnheardPast
  <2> SUFFICES ASSUME Init PROVE Promise!JInit /\ UnheardPast
    OBVIOUS
  <2>1. /\ \A j \in Jobs : job[j].state = "absent" /\ Outcome(job[j].state) = "none"
        /\ unheard = {}
    BY OutcomeNames DEF Init
  <2> QED BY <2>1 DEF Promise!JInit, UnheardPast, Readable
<1>2. JobsInv /\ UnheardPast /\ [Next]_vars => UnheardPast'
  BY NextUnheard
<1>3. JobsInv /\ BytesInv /\ UnheardPast /\ [Next]_vars => [Promise!JNext]_(Promise!jvars)
  BY NextPromise DEF Promised, Outcomes, Silent, Promise!jvars
<1> QED BY <1>1, <1>2, <1>3, BytesInvariant, PTL DEF Spec, KeepsJobPromise, Promise!JSpec
=============================================================================
