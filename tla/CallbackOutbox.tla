---------------------------- MODULE CallbackOutbox ----------------------------
(***************************************************************************)
(* The callback outbox (automation/callback-outbox.ts and its statements   *)
(* in store/postgres.ts): entries of settled jobs, renders and batches,    *)
(* sent at least once under one id.  A claim is <<entry, n>>: claiming      *)
(* increments attempt and lease_token together.                            *)
(***************************************************************************)
EXTENDS Integers, FiniteSets

CONSTANTS
    Entries, Procs, NoProc,
    Width,      \* concurrency
    Limit,      \* attempts: one more than there are retry delays
    MaxClaims,  \* bound: claims of one entry
    Scenes      \* situations to start in

\* A scene: the entries stored, the processes, whether a timer elsewhere polls
\* (polledOnTimer) and three bounds: faults are lost or failed statements and
\* leases that end under a live sender, outages are crashes and stops, asks are
\* questions for the next due entry that are open at a time in one process.
SceneType == [entries: SUBSET Entries, procs: SUBSET Procs, timer: BOOLEAN,
              faults: Nat, outages: Nat, asks: Nat]

ASSUME ConstantsAssumption ==
    /\ NoProc \notin Procs /\ Width \in Nat \ {0} /\ Limit \in Nat \ {0} /\ MaxClaims \in Nat
    /\ \A s \in Scenes : s \in SceneType /\ Limit + s.faults + 2 * s.outages <= MaxClaims

VARIABLES
    scene,
    entry,      \* automation_callbacks: state, attempt, next_attempt_at <= now, lease, last_outcome
    stage,      \* how far the attempt of each claim is
    home,       \* the process a claim was handed to
    pass,       \* per process: where poll() is
    again,      \* pollAgain
    wake,       \* per process: the wake timer is set
    asks,       \* per process: scheduleWake calls awaiting an answer, by what it will be
    proc,
    faults, outages,
    seen,       \* claims whose request reached the receiver
    overtaken,  \* history: entries whose lease ended under a live sender
    cleared     \* history: processes whose wake timer an answer of "nothing" cleared

attempts == <<stage, home>>
pollVars == <<pass, again, wake, asks>>
bounds == <<faults, outages>>
past == <<scene, seen, overtaken, cleared>>
vars == <<entry, attempts, pollVars, proc, bounds, past>>

Claims == Entries \X (1..MaxClaims)
Answers == {"acknowledged", "refused", "uncertain", "not-sent"}
Active == {"prepare", "sending", "ending"} \cup Answers
Idle == [at |-> "idle", claim |-> <<>>]
Asking == [at |-> "asked", claim |-> <<>>]

TypeOK ==
    /\ scene \in Scenes
    /\ entry \in [Entries -> [state: {"absent", "pending", "acknowledged", "failed"}, n: 0..MaxClaims,
                              due: BOOLEAN, lease: {"none", "live", "ended"}, last: Answers \cup {"none"}]]
    /\ \A e \in Entries : entry[e].n <= Limit + scene.faults + 2 * scene.outages
    /\ stage \in [Claims -> Active \cup {"none", "ended"}]
    /\ home \in [Claims -> Procs \cup {NoProc}]
    /\ \A p \in Procs : pass[p].at \in {"idle", "asked", "empty", "failed", "got"}
    /\ again \in [Procs -> BOOLEAN] /\ wake \in [Procs -> BOOLEAN]
    /\ asks \in [Procs -> [{"asked", "nothing", "something", "failed"} -> 0..scene.asks]]
    /\ proc \in [Procs -> {"up", "stopping", "down"}]
    /\ faults \in 0..scene.faults /\ outages \in 0..scene.outages
    /\ seen \subseteq Claims /\ overtaken \subseteq Entries /\ cleared \subseteq Procs

NoAsks == [a \in {"asked", "nothing", "something", "failed"} |-> 0]

Init ==
    /\ scene \in Scenes
    /\ entry = [e \in Entries |-> [state |-> "absent", n |-> 0, due |-> TRUE, lease |-> "none", last |-> "none"]]
    /\ stage = [c \in Claims |-> "none"]
    /\ home = [c \in Claims |-> NoProc]
    /\ pass = [p \in Procs |-> IF p \in scene.procs THEN Asking ELSE Idle]
    /\ again = [p \in Procs |-> FALSE]
    /\ wake = [p \in Procs |-> FALSE]
    /\ asks = [p \in Procs |-> NoAsks]
    /\ proc = [p \in Procs |-> IF p \in scene.procs THEN "up" ELSE "down"]
    /\ faults = 0 /\ outages = 0
    /\ seen = {} /\ overtaken = {} /\ cleared = {}

-----------------------------------------------------------------------------
(* Polling.                                                                *)

Fault == faults < scene.faults /\ faults' = faults + 1 /\ UNCHANGED outages
Answered == UNCHANGED bounds

Running(p) == {c \in Claims : home[c] = p /\ stage[c] \in Active}

\* poll(), with `size` attempts running.  A pass that finds no free slot ends at once.
Kick(p, size) ==
    /\ UNCHANGED asks
    /\ IF proc[p] # "up" THEN UNCHANGED <<pass, again>>
       ELSE IF pass[p].at # "idle"
            THEN again' = [again EXCEPT ![p] = TRUE] /\ UNCHANGED pass
            ELSE /\ again' = [again EXCEPT ![p] = FALSE]
                 /\ pass' = [pass EXCEPT ![p] = IF size < Width THEN Asking ELSE Idle]

\* Questions of p for the next due entry that scheduleWake has not acted on.
OpenAsks(p) == asks[p]["asked"] + asks[p]["nothing"] + asks[p]["something"] + asks[p]["failed"]

\* Mutant: after a store error nothing is looked at again.
EndPassUnarmed(p, failed) ==
    /\ pass' = [pass EXCEPT ![p] = Idle]
    /\ UNCHANGED wake
    /\ IF scene.timer \/ proc[p] # "up" \/ Running(p) # {} \/ failed THEN UNCHANGED asks
       ELSE /\ OpenAsks(p) < scene.asks
            /\ asks' = [asks EXCEPT ![p]["asked"] = @ + 1]

\* The finally of poll(): with nothing running and no timer elsewhere, look for
\* the next due entry, or after a store error set a bounded wait at once.
EndPass(p, failed) ==
    /\ pass' = [pass EXCEPT ![p] = Idle]
    /\ IF scene.timer \/ proc[p] # "up" \/ Running(p) # {} THEN UNCHANGED <<wake, asks>>
       ELSE IF failed THEN wake' = [wake EXCEPT ![p] = TRUE] /\ UNCHANGED asks
       ELSE /\ OpenAsks(p) < scene.asks
            /\ asks' = [asks EXCEPT ![p]["asked"] = @ + 1]
            /\ UNCHANGED wake

\* A subject settles with a callback URL, and its process polls when it hears so.
Insert(e, p) ==
    /\ e \in scene.entries /\ entry[e].state = "absent" /\ proc[p] = "up"
    /\ entry' = [entry EXCEPT ![e].state = "pending"]
    /\ \/ Answered /\ Kick(p, Cardinality(Running(p)))
       \/ Fault /\ UNCHANGED <<pass, again, asks>>
    /\ UNCHANGED <<attempts, wake, proc, past>>

Claimable(e) == entry[e].state = "pending" /\ entry[e].due /\ entry[e].lease # "live"

\* Mutant: a claim does not mark the attempt that never recorded its answer.
LeasedUnmarked(e) ==
    [entry EXCEPT ![e].n = @ + 1, ![e].lease = "live"]

\* The claim's update: an ended lease still set means an unrecorded attempt.
Leased(e) ==
    [entry EXCEPT ![e].n = @ + 1, ![e].lease = "live",
                  ![e].last = IF entry[e].lease = "none" THEN @ ELSE "uncertain"]

\* claimAutomationCallback
ClaimStatement(p) ==
    /\ pass[p].at = "asked"
    /\ \/ \E e \in Entries :
            /\ Claimable(e)
            /\ entry' = Leased(e)
            /\ \/ Answered /\ pass' = [pass EXCEPT ![p] = [at |-> "got", claim |-> <<e, entry'[e].n>>]]
               \/ Fault /\ pass' = [pass EXCEPT ![p].at = "failed"]
       \/ /\ \A e \in Entries : ~Claimable(e)
          /\ Answered /\ pass' = [pass EXCEPT ![p].at = "empty"]
          /\ UNCHANGED entry
       \/ /\ Fault /\ pass' = [pass EXCEPT ![p].at = "failed"]
          /\ UNCHANGED entry
    /\ UNCHANGED <<attempts, again, wake, asks, proc, past>>

\* poll() resumes with a claim.
Resume(p) ==
    /\ pass[p].at = "got"
    /\ LET c == pass[p].claim IN
        /\ stage' = [stage EXCEPT ![c] = "prepare"]
        /\ home' = [home EXCEPT ![c] = p]
    /\ IF proc[p] = "up" /\ Cardinality(Running(p)) + 1 < Width
       THEN pass' = [pass EXCEPT ![p] = Asking] /\ UNCHANGED again
       ELSE pass' = [pass EXCEPT ![p] = Idle] /\ again' = [again EXCEPT ![p] = FALSE]
    /\ UNCHANGED <<entry, wake, asks, proc, bounds, past>>

\* poll() resumes with nothing, or with an error.
ResumeEmpty(p) ==
    /\ pass[p].at \in {"empty", "failed"}
    /\ IF pass[p].at = "empty" /\ again[p] /\ proc[p] = "up"
       THEN pass' = [pass EXCEPT ![p] = Asking] /\ UNCHANGED <<wake, asks>>
       ELSE EndPass(p, pass[p].at = "failed")
    /\ again' = [again EXCEPT ![p] = FALSE]
    /\ UNCHANGED <<entry, attempts, proc, bounds, past>>

\* nextAutomationCallbackAt
NextAt(p) ==
    /\ asks[p]["asked"] > 0
    /\ \E a \in {"nothing", "something", "failed"} :
        /\ asks' = [asks EXCEPT ![p]["asked"] = @ - 1, ![p][a] = @ + 1]
        /\ IF a = "failed" THEN Fault
           ELSE Answered /\ (a = "something" <=> \E e \in Entries : entry[e].state = "pending")
    /\ UNCHANGED <<entry, attempts, pass, again, wake, proc, past>>

\* scheduleWake goes on: no pending entry clears the timer, anything else sets it.
ScheduleWake(p) ==
    /\ \E a \in {"nothing", "something", "failed"} :
        /\ asks[p][a] > 0
        /\ asks' = [asks EXCEPT ![p][a] = @ - 1]
        /\ wake' = [wake EXCEPT ![p] = a # "nothing" /\ proc[p] = "up"]
        /\ cleared' = IF wake[p] /\ a = "nothing" THEN cleared \cup {p} ELSE cleared
    /\ UNCHANGED <<scene, entry, attempts, pass, again, proc, bounds, seen, overtaken>>

\* The wake timer, or the timer elsewhere.
Tick(p) ==
    /\ scene.timer \/ wake[p]
    /\ wake' = [wake EXCEPT ![p] = FALSE]
    /\ Kick(p, Cardinality(Running(p)))
    /\ UNCHANGED <<entry, attempts, proc, bounds, past>>

-----------------------------------------------------------------------------
(* One attempt.                                                            *)

At(c, s) == stage[c] = s
To(c, s) == stage' = [stage EXCEPT ![c] = s]

\* Past the limit, without a subject, secret or approved URL nothing is sent.
Prepare(c) ==
    /\ At(c, "prepare")
    /\ To(c, "not-sent") \/ (c[2] <= Limit /\ To(c, "sending"))
    /\ UNCHANGED <<entry, home, pollVars, proc, bounds, past>>

\* The request is answered, or times out before or after it arrived.
Send(c) ==
    /\ At(c, "sending")
    /\ \/ \E a \in {"acknowledged", "refused"} : To(c, a) /\ seen' = seen \cup {c}
       \/ To(c, "uncertain") /\ seen' \in {seen, seen \cup {c}}
    /\ UNCHANGED <<scene, entry, home, pollVars, proc, bounds, overtaken, cleared>>

\* Mutant: the fence of the settlement is missing.
HeldPending(c) == entry[c[1]].state = "pending"

\* The WHERE of settleAutomationCallback.
Held(c) == entry[c[1]].state = "pending" /\ entry[c[1]].n = c[2] /\ entry[c[1]].lease # "none"

\* Mutant: one attempt too many before the entry fails.
RecordedLate(c) ==
    [entry EXCEPT ![c[1]].state = IF stage[c] = "acknowledged" THEN "acknowledged"
                                  ELSE IF stage[c] = "not-sent" \/ c[2] > Limit THEN "failed" ELSE "pending",
                  ![c[1]].lease = "none", ![c[1]].last = stage[c]]

\* Mutant: a request without an answer counts as delivered.
RecordedOnTimeout(c) ==
    [entry EXCEPT ![c[1]] =
          [@ EXCEPT !.state = IF stage[c] \in {"acknowledged", "uncertain"} THEN "acknowledged"
                              ELSE IF stage[c] = "not-sent" \/ c[2] >= Limit THEN "failed" ELSE "pending",
                    !.lease = "none", !.last = stage[c]]]

\* What the attempt leaves in the entry.
Recorded(c) ==
    LET e == entry[c[1]]
        a == stage[c]
        final == CASE a = "acknowledged" -> "acknowledged"
                   [] a = "not-sent" \/ c[2] >= Limit -> "failed"
                   [] OTHER -> "pending"
    IN [entry EXCEPT ![c[1]] =
          [e EXCEPT !.state = final, !.lease = "none", !.due = final # "pending",
                    !.last = IF c[2] > Limit /\ e.last # "none" THEN e.last ELSE a]]

\* settleAutomationCallback; an error leaves the lease to end by itself.
Settle(c) ==
    /\ stage[c] \in Answers
    /\ To(c, "ending")
    /\ \/ Held(c) /\ entry' = Recorded(c) /\ (Answered \/ Fault)
       \/ UNCHANGED entry /\ ((~Held(c) /\ Answered) \/ Fault)
    /\ UNCHANGED <<home, pollVars, proc, past>>

\* The attempt leaves the running Set and polls.
End(c) ==
    /\ At(c, "ending")
    /\ To(c, "ended")
    /\ Kick(home[c], Cardinality(Running(home[c]) \ {c}))
    /\ UNCHANGED <<entry, home, wake, proc, bounds, past>>

Work(c) == Prepare(c) \/ Send(c) \/ Settle(c) \/ End(c)

-----------------------------------------------------------------------------
(* Time and processes.                                                     *)

FallsDue(e) ==
    /\ entry[e].state = "pending" /\ ~entry[e].due
    /\ entry' = [entry EXCEPT ![e].due = TRUE]
    /\ UNCHANGED <<attempts, pollVars, proc, bounds, past>>

Attended(e) ==
    \/ \E c \in Claims : c = <<e, entry[e].n>> /\ stage[c] \in Active
    \/ \E p \in Procs : pass[p].claim = <<e, entry[e].n>>

\* Mutant: a lease ends although its attempt is within its time.
LeaseEndsEarly(e) ==
    /\ entry[e].lease = "live"
    /\ entry' = [entry EXCEPT ![e].lease = "ended"]
    /\ UNCHANGED <<attempts, pollVars, proc, bounds, past>>

\* The lease of an attempt that is gone ends: it outlives a full attempt.
LeaseEnds(e) ==
    /\ entry[e].lease = "live" /\ ~Attended(e)
    /\ entry' = [entry EXCEPT ![e].lease = "ended"]
    /\ UNCHANGED <<attempts, pollVars, proc, bounds, past>>

\* A sender slower than its lease: its process or its store stood still.
LeaseEndsLate(e) ==
    /\ entry[e].lease = "live" /\ Attended(e) /\ Fault
    /\ entry' = [entry EXCEPT ![e].lease = "ended"]
    /\ overtaken' = overtaken \cup {e}
    /\ UNCHANGED <<scene, attempts, pollVars, proc, seen, cleared>>

\* stop()
Stop(p) ==
    /\ proc[p] = "up" /\ outages < scene.outages
    /\ outages' = outages + 1
    /\ proc' = [proc EXCEPT ![p] = "stopping"]
    /\ wake' = [wake EXCEPT ![p] = FALSE]
    /\ UNCHANGED <<entry, attempts, pass, again, asks, faults, past>>

\* The process ends; requests on their way may still arrive.
Exit(p) ==
    /\ \/ proc[p] = "stopping" /\ UNCHANGED outages
       \/ proc[p] = "up" /\ outages < scene.outages /\ outages' = outages + 1
    /\ proc' = [proc EXCEPT ![p] = "down"]
    /\ \E late \in SUBSET {c \in Running(p) : At(c, "sending")} : seen' = seen \cup late
    /\ stage' = [c \in Claims |-> IF c \in Running(p) THEN "ended" ELSE stage[c]]
    /\ pass' = [pass EXCEPT ![p] = Idle] /\ again' = [again EXCEPT ![p] = FALSE]
    /\ wake' = [wake EXCEPT ![p] = FALSE] /\ asks' = [asks EXCEPT ![p] = NoAsks]
    /\ UNCHANGED <<scene, entry, home, faults, overtaken, cleared>>

\* Boot: send what a stopped process left.
Start(p) ==
    /\ p \in scene.procs /\ proc[p] = "down"
    /\ proc' = [proc EXCEPT ![p] = "up"]
    /\ pass' = [pass EXCEPT ![p] = Asking]
    /\ UNCHANGED <<entry, attempts, again, wake, asks, bounds, past>>

Next ==
    \/ \E e \in Entries, p \in Procs : Insert(e, p)
    \/ \E p \in Procs : \/ ClaimStatement(p) \/ Resume(p) \/ ResumeEmpty(p) \/ NextAt(p)
                        \/ ScheduleWake(p) \/ Tick(p) \/ Stop(p) \/ Exit(p) \/ Start(p)
    \/ \E c \in Claims : Work(c)
    \/ \E e \in Entries : FallsDue(e) \/ LeaseEnds(e) \/ LeaseEndsLate(e)

Spec == Init /\ [][Next]_vars

\* Statements are answered, attempts go on, timers fire, leases end and a
\* process that went down comes back.
Fairness ==
    /\ \A p \in Procs : /\ WF_vars(ClaimStatement(p)) /\ WF_vars(Resume(p))
                        /\ WF_vars(ResumeEmpty(p)) /\ WF_vars(NextAt(p))
                        /\ WF_vars(ScheduleWake(p)) /\ WF_vars(Tick(p))
                        /\ WF_vars(Start(p)) /\ WF_vars(proc[p] = "stopping" /\ Exit(p))
    /\ \A c \in Claims : WF_vars(Work(c))
    /\ \A e \in Entries : WF_vars(FallsDue(e)) /\ WF_vars(LeaseEnds(e))

LiveSpec == Spec /\ Fairness

-----------------------------------------------------------------------------
(* Properties.                                                             *)

\* The requests of entry e the receiver got.
Arrivals(e) == {c \in seen : c[1] = e}

\* No two requests of one entry are under way at a time, in one process or in
\* two, unless a lease ended under a sender that outlived it; and the receiver
\* sees at most `Limit` requests of one entry, crashes included.
OneSenderAtATime ==
    /\ \A c, d \in Claims : c[1] = d[1] /\ c[1] \notin overtaken /\ At(c, "sending") /\ At(d, "sending") => c = d
    /\ \A e \in Entries : Cardinality(Arrivals(e)) <= Limit

\* An attempt that stopped before it recorded its answer is never written off
\* as unsent: when no attempts remain the record says uncertain.
UnrecordedIsUncertain ==
    \A e \in Entries : entry[e].state = "failed" /\ entry[e].n > Limit => entry[e].last = "uncertain"

Delivery == INSTANCE DeliveryPromise WITH
    status <- [e \in Entries |-> entry[e].state],
    arrived <- [e \in Entries |-> Cardinality(Arrivals(e))],
    overrun <- overtaken

\* Seen from the subscriber, an entry is delivered as DeliveryPromise says: no
\* takeover, lost answer or crash lets a request follow its settlement, a request
\* too many arrive or an entry count as acknowledged that nobody received.
KeepsDelivery == Delivery!DSpec

\* An entry that was acknowledged or failed stays so, and the record of a
\* pending one is only changed by its last claim.
SettledIsFinal ==
    [][\A e \in Entries :
        /\ entry[e].state \in {"acknowledged", "failed"} => entry'[e] = entry[e]
        /\ entry'[e].state = "acknowledged" /\ entry[e].state = "pending" =>
              stage[<<e, entry[e].n>>] = "acknowledged"]_vars

\* Every stored callback is acknowledged or fails.  Without a timer an entry that
\* was never claimed may wait if a store error kept its process from looking, and
\* any entry if a late answer cleared the wake timer (WakesItself).
EveryCallbackSettles ==
    \A e \in Entries :
        entry[e].state = "pending" /\ (scene.timer \/ entry[e].n > 0 \/ faults = 0)
            ~> entry[e].state # "pending" \/ (~scene.timer /\ cleared # {})

\* callback-outbox.ts:65: while nothing else polls, "the outbox then wakes itself
\* when the next pending entry falls due".
WakesItself ==
    \A p \in Procs :
        proc[p] = "up" /\ ~scene.timer /\ pass[p].at = "idle" /\ asks[p] = NoAsks /\ Running(p) = {}
            => wake[p] \/ \A e \in Entries : entry[e].state = "pending" => entry[e].n = 0
=============================================================================
