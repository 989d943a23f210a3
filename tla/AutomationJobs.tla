---------------------------- MODULE AutomationJobs ----------------------------
(***************************************************************************)
(* Durable automation jobs (automation/durable-runner.ts, jobs.ts and      *)
(* their statements in store/postgres.ts).  A claim is <<job, n>>: claiming *)
(* increments lease_token and attempt together, and the token names the     *)
(* path of the attempt's bytes.                                            *)
(***************************************************************************)
EXTENDS Integers, FiniteSets

CONSTANTS
    Jobs, Procs, NoProc,
    Width,       \* concurrency
    MaxClaims,   \* bound: claims of one job
    Scenes       \* situations to start in

\* A scene: the jobs submitted and those removed, the processes,  the retries asked for, whether pollMs > 0, and two
\* bounds: faults are lost SQL answers and leases that lapse under a live
\* attempt, outages are crashes and stops.
SceneType == [jobs: SUBSET Jobs, removable: SUBSET Jobs, procs: SUBSET Procs, retries: 0..3, timer: BOOLEAN, faults: Nat, outages: Nat]

\* Every claim but the first costs a retry, a fault or an outage; a stopping
\* process may start a second claim before it exits.
ASSUME ConstantsAssumption ==
    /\ NoProc \notin Procs /\ Width \in Nat \ {0} /\ MaxClaims \in Nat
    /\ \A s \in Scenes :
        /\ s \in SceneType
        /\ s.retries + 1 + s.faults + 2 * s.outages <= MaxClaims

VARIABLES
    scene,
    job,       \* automation_jobs: state, token, whether lease_until lies ahead, result
    blobs,     \* stored bytes, by claim
    stage,     \* how far the run of each claim is
    home,      \* the process a claim was handed to
    aborted,   \* claims whose controller is aborted
    running,   \* per process: the `running` Map, job to claim number; 0: no entry
    pass,      \* per process: where poll() is
    again,     \* pollAgain
    proc,
    removal,   \* per job: a DELETE request and what it read
    faults, outages,
    unheard,   \* history: claims whose save took effect and was never answered
    leaked     \* history: jobs for which a delete failed or a process died

tables == <<job, blobs>>
runs == <<stage, home, aborted>>
pollVars == <<running, pass, again>>
past == <<scene, unheard, leaked>>
vars == <<tables, runs, pollVars, proc, removal, faults, outages, past>>

Claims == Jobs \X (1..MaxClaims)
Active == {"exec", "put", "save", "refused", "undo", "failing", "sweep", "ending"}
NoPass == [at |-> "idle", job |-> <<>>]

TypeOK ==
    /\ scene \in Scenes
    /\ job \in [Jobs -> [state: {"absent", "queued", "running", "done", "failed", "removed"},
                         n: 0..MaxClaims, live: BOOLEAN, result: 0..MaxClaims]]
    /\ blobs \subseteq Claims
    /\ stage \in [Claims -> Active \cup {"none", "ended"}]
    /\ home \in [Claims -> Procs \cup {NoProc}]
    /\ aborted \subseteq Claims
    /\ running \in [Procs -> [Jobs -> 0..MaxClaims]]
    /\ \A p \in Procs : pass[p].at \in {"idle", "asked", "empty", "got"}
    /\ again \in [Procs -> BOOLEAN]
    /\ proc \in [Procs -> {"up", "stopping", "down"}]
    /\ removal \in [Jobs -> [at: {"none", "read", "deleted", "over"}, n: 0..MaxClaims, result: 0..MaxClaims]]
    /\ faults \in 0..scene.faults /\ outages \in 0..scene.outages
    /\ \A j \in Jobs : job[j].n <= scene.retries + 1 + scene.faults + 2 * scene.outages
    /\ unheard \subseteq Claims /\ leaked \subseteq Jobs

Init ==
    /\ scene \in Scenes
    /\ job = [j \in Jobs |-> [state |-> "absent", n |-> 0, live |-> FALSE, result |-> 0]]
    /\ blobs = {}
    /\ stage = [c \in Claims |-> "none"]
    /\ home = [c \in Claims |-> NoProc]
    /\ aborted = {}
    /\ running = [p \in Procs |-> [j \in Jobs |-> 0]]
    /\ pass = [p \in Procs |-> NoPass]
    /\ again = [p \in Procs |-> FALSE]
    /\ proc = [p \in Procs |-> IF p \in scene.procs THEN "up" ELSE "down"]
    /\ removal = [j \in Jobs |-> [at |-> "none", n |-> 0, result |-> 0]]
    /\ faults = 0 /\ outages = 0
    /\ unheard = {} /\ leaked = {}

-----------------------------------------------------------------------------
Size(p, map) == Cardinality({j \in Jobs : map[p][j] # 0})

\* Mutant: a poll asked for during a pass is dropped.
KickDropped(p, map) ==
    /\ IF pass[p].at = "idle" /\ proc[p] = "up" /\ Size(p, map) < Width
       THEN pass' = [pass EXCEPT ![p] = [at |-> "asked", job |-> <<>>]]
       ELSE UNCHANGED pass
    /\ UNCHANGED again

\* poll(): `map` is the running Map at the call.
Kick(p, map) ==
    IF proc[p] # "up" THEN UNCHANGED <<pass, again>>
    ELSE IF pass[p].at # "idle"
         THEN again' = [again EXCEPT ![p] = TRUE] /\ UNCHANGED pass
         ELSE /\ again' = [again EXCEPT ![p] = FALSE]
              /\ IF Size(p, map) < Width
                 THEN pass' = [pass EXCEPT ![p] = [at |-> "asked", job |-> <<>>]]
                 ELSE UNCHANGED pass

Fault == faults < scene.faults /\ faults' = faults + 1

\* An answered statement, or one whose answer is lost.
Answered == UNCHANGED faults

\* create: the insert, then poll.
Submit(j, p) ==
    /\ j \in scene.jobs /\ job[j].state = "absent" /\ proc[p] = "up"
    /\ job' = [job EXCEPT ![j].state = "queued"]
    /\ \/ Answered /\ Kick(p, running)
       \/ Fault /\ UNCHANGED <<pass, again>>
    /\ UNCHANGED <<blobs, runs, running, proc, removal, outages, past>>

\* Mutant: a running job is claimed whether or not its lease has passed.
ClaimableAlways(j) == job[j].state \in {"queued", "running"}

Claimable(j) == job[j].state = "queued" \/ (job[j].state = "running" /\ ~job[j].live)

\* claimAutomationJob
ClaimStatement(p) ==
    /\ pass[p].at = "asked"
    /\ \/ \E j \in Jobs :
            /\ Claimable(j)
            /\ job' = [job EXCEPT ![j].state = "running", ![j].n = @ + 1, ![j].live = TRUE]
            /\ \/ Answered /\ pass' = [pass EXCEPT ![p] = [at |-> "got", job |-> <<j, job[j].n + 1>>]]
               \/ Fault /\ pass' = [pass EXCEPT ![p] = NoPass]
       \/ /\ \A j \in Jobs : ~Claimable(j)
          /\ pass' = [pass EXCEPT ![p] = [at |-> "empty", job |-> <<>>]]
          /\ UNCHANGED <<job, faults>>
    /\ UNCHANGED <<blobs, runs, running, again, proc, removal, outages, past>>

\* The loop of poll() goes on after an answer; `map` is the running Map then.
NextPass(p, map, more) ==
    /\ again' = [again EXCEPT ![p] = FALSE]
    /\ pass' = [pass EXCEPT ![p] = IF more /\ proc[p] = "up" /\ Size(p, map) < Width
                                   THEN [at |-> "asked", job |-> <<>>] ELSE NoPass]

\* poll() resumes with a job: its run starts, even if the runner was stopped meanwhile.
Resume(p) ==
    /\ pass[p].at = "got"
    /\ LET c == pass[p].job
           map == [running EXCEPT ![p][c[1]] = c[2]]
           more == Size(p, map) < Width
       IN /\ running' = map
          /\ stage' = [stage EXCEPT ![c] = IF c[2] > scene.retries + 2 THEN "failing" ELSE "exec"]
          /\ home' = [home EXCEPT ![c] = p]
          /\ IF more /\ proc[p] = "up"
             THEN pass' = [pass EXCEPT ![p] = [at |-> "asked", job |-> <<>>]] /\ UNCHANGED again
             ELSE NextPass(p, map, again[p])
    /\ UNCHANGED <<tables, aborted, proc, removal, faults, outages, past>>

ResumeEmpty(p) ==
    /\ pass[p].at = "empty"
    /\ NextPass(p, running, again[p])
    /\ UNCHANGED <<tables, runs, running, proc, removal, faults, outages, past>>

\* The interval of enableDurable.
Tick(p) ==
    /\ scene.timer
    /\ Kick(p, running)
    /\ UNCHANGED <<tables, runs, running, proc, removal, faults, outages, past>>

-----------------------------------------------------------------------------
(* One attempt: run().                                                     *)

At(c, s) == stage[c] = s
To(c, s) == stage' = [stage EXCEPT ![c] = s]

Holds(c) == job[c[1]].n = c[2] /\ job[c[1]].state = "running" /\ job[c[1]].live

\* The heartbeat is refused, or fails: the attempt is aborted.
Heartbeat(c) ==
    /\ stage[c] \in Active \ {"ending"} /\ c \notin aborted
    /\ \/ ~Holds(c) /\ Answered
       \/ Fault
    /\ aborted' = aborted \cup {c}
    /\ UNCHANGED <<tables, stage, home, pollVars, proc, removal, outages, past>>

\* The executor returns or throws; it may have ignored the abort until now.
Execute(c) ==
    /\ At(c, "exec")
    /\ IF c \in aborted THEN To(c, "ending") ELSE To(c, "put") \/ To(c, "failing")
    /\ UNCHANGED <<tables, home, aborted, pollVars, proc, removal, faults, outages, past>>

\* blobs.put; an error may come after the bytes are stored.
Put(c) ==
    /\ At(c, "put")
    /\ \/ /\ blobs' = blobs \cup {c}
          /\ To(c, IF c \in aborted THEN "undo" ELSE "save")
          /\ UNCHANGED leaked
       \/ /\ blobs' \in {blobs, blobs \cup {c}}
          /\ leaked' = leaked \cup {c[1]}
          /\ To(c, IF c \in aborted THEN "ending" ELSE "failing")
    /\ UNCHANGED <<scene, job, home, aborted, pollVars, proc, removal, faults, outages, unheard>>

\* Mutant: the fence checks the token alone.
SavableByToken(c, s) == job[c[1]].n = c[2] /\ job[c[1]].state # "removed"

\* The WHERE of saveClaimedAutomationJob.
Savable(c, s) ==
    \/ Holds(c)
    \/ job[c[1]].n = c[2] /\ job[c[1]].state = s /\ s \in {"done", "failed"}

\* The save of a finished attempt.
Publish(c) ==
    /\ At(c, "save")
    /\ \/ /\ Savable(c, "done")
          /\ job' = [job EXCEPT ![c[1]].state = "done", ![c[1]].result = c[2]]
          /\ \/ Answered /\ To(c, "sweep") /\ UNCHANGED unheard
             \/ Fault /\ To(c, "undo") /\ unheard' = unheard \cup {c}
       \/ /\ \/ ~Savable(c, "done") /\ Answered /\ To(c, "refused")
             \/ Fault /\ To(c, "undo")
          /\ UNCHANGED <<job, unheard>>
    /\ UNCHANGED <<scene, blobs, home, aborted, pollVars, proc, removal, outages, leaked>>

\* Mutant: a refused attempt leaves its bytes behind.
RefusedKeeps(c) ==
    /\ At(c, "refused")
    /\ To(c, "ending")
    /\ UNCHANGED <<tables, home, aborted, pollVars, proc, removal, faults, outages, past>>

\* A refused attempt deletes its own bytes, or throws into the catch.
Refused(c) ==
    /\ At(c, "refused")
    /\ \/ blobs' = blobs \ {c} /\ To(c, "ending")
       \/ blobs' = blobs /\ To(c, "undo")
    /\ UNCHANGED <<job, home, aborted, pollVars, proc, removal, faults, outages, past>>

\* The catch of an attempt that wrote: delete, then fail unless aborted.
Undo(c) ==
    /\ At(c, "undo")
    /\ \/ blobs' = blobs \ {c} /\ UNCHANGED leaked
       \/ blobs' = blobs /\ leaked' = leaked \cup {c[1]}
    /\ To(c, IF c \in aborted THEN "ending" ELSE "failing")
    /\ UNCHANGED <<scene, job, home, aborted, pollVars, proc, removal, faults, outages, unheard>>

\* The save of a failed attempt: queued again while ordinary retries remain.
Fail(c) ==
    /\ At(c, "failing")
    /\ IF c \in aborted THEN To(c, "ending") /\ UNCHANGED <<job, faults>>
       ELSE LET s == IF c[2] <= scene.retries THEN "queued" ELSE "failed" IN
            \/ /\ Savable(c, s)
               /\ job' = [job EXCEPT ![c[1]].state = s, ![c[1]].result = 0]
               /\ \/ Answered /\ To(c, IF s = "failed" THEN "sweep" ELSE "ending")
                  \/ Fault /\ To(c, "ending")
            \/ /\ To(c, "ending") /\ UNCHANGED job
               /\ \/ ~Savable(c, s) /\ Answered
                  \/ Fault
    /\ UNCHANGED <<blobs, home, aborted, pollVars, proc, removal, outages, past>>

\* Mutant: the sweep reaches the attempt's own token.
EarlierAndOwn(c) == {d \in Claims : d[1] = c[1] /\ d[2] <= c[2]}

Earlier(c) == {d \in Claims : d[1] = c[1] /\ d[2] < c[2]}

\* sweepEarlierAttempts; each delete may fail, and none is repeated.
Sweep(c) ==
    /\ At(c, "sweep")
    /\ \E kept \in SUBSET (blobs \cap Earlier(c)) :
        /\ blobs' = (blobs \ Earlier(c)) \cup kept
        /\ leaked' = IF kept = {} THEN leaked ELSE leaked \cup {c[1]}
    /\ To(c, "ending")
    /\ UNCHANGED <<scene, job, home, aborted, pollVars, proc, removal, faults, outages, unheard>>

\* The finally of poll(): the Map entry goes, whoever it belongs to, and onSettled polls.
End(c) ==
    /\ At(c, "ending")
    /\ To(c, "ended")
    /\ LET map == [running EXCEPT ![home[c]][c[1]] = 0] IN
        /\ running' = map
        /\ Kick(home[c], map)
    /\ UNCHANGED <<tables, home, aborted, proc, removal, faults, outages, past>>

Work(c) ==
    \/ Execute(c) \/ Put(c) \/ Publish(c) \/ Refused(c) \/ Undo(c) \/ Fail(c) \/ Sweep(c) \/ End(c)

\* A process of this claim is alive, so its heartbeats go on.
Attended(j) ==
    \/ stage[<<j, job[j].n>>] \in Active
    \/ \E p \in Procs : pass[p].job = <<j, job[j].n>>

PassLease(j) ==
    /\ job[j].state = "running" /\ job[j].live
    /\ job' = [job EXCEPT ![j].live = FALSE]
    /\ UNCHANGED <<blobs, runs, pollVars, proc, removal, outages, past>>

\* lease_until passes: nobody renews it, or the renewals come too late.
Lapse(j) == PassLease(j) /\ ~Attended(j) /\ Answered
LapseLate(j) == PassLease(j) /\ Attended(j) /\ Fault

-----------------------------------------------------------------------------
(* Processes.                                                              *)

\* stop(): the runs the Map knows are aborted.
Stop(p) ==
    /\ proc[p] = "up" /\ outages < scene.outages
    /\ outages' = outages + 1
    /\ proc' = [proc EXCEPT ![p] = "stopping"]
    /\ aborted' = aborted \cup {c \in Claims : running[p][c[1]] = c[2]}
    /\ UNCHANGED <<tables, stage, home, pollVars, removal, faults, past>>

\* The process ends; bytes on their way may still be stored.
Exit(p) ==
    /\ \/ proc[p] = "stopping" /\ UNCHANGED outages
       \/ proc[p] = "up" /\ outages < scene.outages /\ outages' = outages + 1
    /\ proc' = [proc EXCEPT ![p] = "down"]
    /\ LET mine == {c \in Claims : stage[c] \in Active /\ home[c] = p} IN
        /\ \E late \in SUBSET {c \in mine : At(c, "put")} : blobs' = blobs \cup late
        /\ stage' = [c \in Claims |-> IF c \in mine THEN "ended" ELSE stage[c]]
        /\ leaked' = leaked \cup {c[1] : c \in mine}
    /\ running' = [running EXCEPT ![p] = [j \in Jobs |-> 0]]
    /\ pass' = [pass EXCEPT ![p] = NoPass]
    /\ again' = [again EXCEPT ![p] = FALSE]
    /\ UNCHANGED <<scene, job, home, aborted, removal, faults, unheard>>

\* A new process: enableDurable polls.
Start(p) ==
    /\ p \in scene.procs /\ proc[p] = "down"
    /\ proc' = [proc EXCEPT ![p] = "up"]
    /\ pass' = [pass EXCEPT ![p] = [at |-> "asked", job |-> <<>>]]
    /\ UNCHANGED <<tables, runs, running, again, removal, faults, outages, past>>

-----------------------------------------------------------------------------
(* remove(): read the job, delete its row, then every path the row named.  *)

RemoveRead(j) ==
    /\ j \in scene.removable /\ removal[j].at = "none" /\ job[j].state \notin {"absent", "removed"}
    /\ removal' = [removal EXCEPT ![j] = [at |-> "read", n |-> job[j].n, result |-> job[j].result]]
    /\ UNCHANGED <<tables, runs, pollVars, proc, faults, outages, past>>

RemoveRow(j) ==
    /\ removal[j].at = "read"
    /\ removal' = [removal EXCEPT ![j].at = "deleted"]
    /\ job' = [job EXCEPT ![j].state = "removed", ![j].live = FALSE]
    /\ UNCHANGED <<blobs, runs, pollVars, proc, faults, outages, past>>

RemoveBytes(j) ==
    /\ removal[j].at = "deleted"
    /\ removal' = [removal EXCEPT ![j].at = "over"]
    /\ LET named == {c \in blobs : c[1] = j /\ c[2] <= removal[j].n} IN
       \E kept \in SUBSET named :
        /\ blobs' = (blobs \ named) \cup kept
        /\ leaked' = IF kept = {} THEN leaked ELSE leaked \cup {j}
    /\ UNCHANGED <<scene, job, runs, pollVars, proc, faults, outages, unheard>>

Next ==
    \/ \E j \in Jobs, p \in Procs : Submit(j, p)
    \/ \E p \in Procs : \/ ClaimStatement(p) \/ Resume(p) \/ ResumeEmpty(p) \/ Tick(p)
                        \/ Stop(p) \/ Exit(p) \/ Start(p)
    \/ \E c \in Claims : Heartbeat(c) \/ Work(c)
    \/ \E j \in Jobs : Lapse(j) \/ LapseLate(j) \/ RemoveRead(j) \/ RemoveRow(j) \/ RemoveBytes(j)

Spec == Init /\ [][Next]_vars

\* Statements are answered, runs go on, timers fire, a lease nobody renews
\* lapses and a process that went down comes back.
Fairness ==
    /\ \A p \in Procs : /\ WF_vars(ClaimStatement(p)) /\ WF_vars(Resume(p))
                        /\ WF_vars(ResumeEmpty(p)) /\ WF_vars(Tick(p)) /\ WF_vars(Start(p))
                        /\ WF_vars(proc[p] = "stopping" /\ Exit(p))
    /\ \A c \in Claims : WF_vars(Work(c))
    /\ \A j \in Jobs : WF_vars(Lapse(j))

LiveSpec == Spec /\ Fairness

-----------------------------------------------------------------------------
(* Properties.                                                             *)

Settled(j) == job[j].state \in {"done", "failed"}

\* The bytes of a published result stay: no sweep, no stale attempt and no
\* catch deletes them, except the attempt that never heard of its own success.
ResultKept ==
    \A j \in Jobs : job[j].state = "done" =>
        <<j, job[j].result>> \in blobs \cup unheard

\* A settled job stays as it is until it is removed, whoever saves late.
SettledIsFinal ==
    [][\A j \in Jobs : Settled(j) => job'[j] = job[j] \/ job'[j].state = "removed"]_vars

Outcome(state) ==
    CASE state = "absent" -> "none"
      [] state \in {"queued", "running"} -> "pending"
      [] OTHER -> state

Readable == {j \in Jobs : job[j].state = "done" /\ <<j, job[j].result>> \in blobs}

Promise == INSTANCE JobPromise WITH
    outcome <- [j \in Jobs |-> Outcome(job[j].state)],
    ready <- Readable,
    silent <- {c[1] : c \in unheard}

\* Seen from who submitted it, a job is as JobPromise says: no retry, takeover, late
\* save, sweep or crash shows, and a result that was lost never comes back.
KeepsJobPromise == Promise!JSpec

\* When the last attempt of a settled job is over, only its result is stored; of a
\* removed one nothing, unless it was claimed and published between the two
\* statements of remove().  Not so where a process died under an attempt, or a put
\* or delete failed.
NothingLeftBehind ==
    \A j \in Jobs \ leaked :
        (\A c \in Claims : c[1] = j => stage[c] \notin Active) =>
            \A c \in blobs : c[1] = j =>
                /\ Settled(j) => c[2] = job[j].result
                /\ removal[j].at = "over" => c[2] = job[j].result /\ c[2] > removal[j].n

\* Every submitted job settles, or is removed.
EveryJobSettles == \A j \in Jobs : job[j].state = "queued" ~> Settled(j) \/ job[j].state = "removed"

\* durable-runner.ts:54: an attempt "can never overwrite or delete the winning
\* worker's bytes".
WinnersBytesStay ==
    \A j \in Jobs : job[j].state = "done" => <<j, job[j].result>> \in blobs
=============================================================================
