------------------------- MODULE CallbackOutboxProofs -------------------------
(***************************************************************************)
(* One sender at a time, at most Limit requests and no unrecorded attempt   *)
(* written off as unsent, for any entries, processes and scenes.  As with   *)
(* jobs, that the claims of an entry are bounded is a counting argument:    *)
(* every claim whose answer will not be recorded has been paid for.         *)
(***************************************************************************)
EXTENDS CallbackOutbox, FiniteSetTheorems, TLAPS

Current(e) == <<e, entry[e].n>>

EntryRow == [state: {"absent", "pending", "acknowledged", "failed"}, n: 0..MaxClaims,
             due: BOOLEAN, lease: {"none", "live", "ended"}, last: Answers \cup {"none"}]
AskKinds == {"asked", "nothing", "something", "failed"}
Empty == [at |-> "empty", claim |-> <<>>]
Failed == [at |-> "failed", claim |-> <<>>]
Waiting == {Idle, Asking, Empty, Failed}
Got(c) == [at |-> "got", claim |-> c]

\* Stages of an attempt that will still ask the store to record its answer.
Working == {"prepare", "sending"} \cup Answers

OutboxTyped ==
    /\ scene \in Scenes
    /\ entry \in [Entries -> EntryRow]
    /\ stage \in [Claims -> Active \cup {"none", "ended"}]
    /\ home \in [Claims -> Procs \cup {NoProc}]
    /\ pass \in [Procs -> Waiting \cup {Got(c) : c \in Claims}]
    /\ again \in [Procs -> BOOLEAN] /\ wake \in [Procs -> BOOLEAN]
    /\ asks \in [Procs -> [AskKinds -> Nat]]
    /\ proc \in [Procs -> {"up", "stopping", "down"}]
    /\ faults \in 0..scene.faults /\ outages \in 0..scene.outages
    /\ seen \subseteq Claims /\ overtaken \subseteq Entries /\ cleared \subseteq Procs

\* The questions open in a process stay within their bound, whatever they turn into.
AsksBounded == \A p \in Procs : OpenAsks(p) <= scene.asks

\* A claim that was handed out is no later than the last, and handed to one process.
Numbered ==
    /\ \A c \in Claims : stage[c] # "none" => c[2] <= entry[c[1]].n /\ home[c] \in Procs
    /\ \A p \in Procs : pass[p].at = "got" =>
          /\ stage[pass[p].claim] = "none" /\ pass[p].claim[2] <= entry[pass[p].claim[1]].n
          /\ \A q \in Procs : pass[q] = pass[p] => q = p

DownIsIdle == \A p \in Procs : proc[p] = "down" => pass[p].at \notin {"asked", "got"}

\* An entry whose last answer is recorded has an attempt left; a lease is of a
\* pending entry that was claimed.
Leases ==
    \A e \in Entries :
        /\ entry[e].lease = "none" /\ entry[e].state \in {"absent", "pending"} => entry[e].n < Limit
        /\ entry[e].lease # "none" => entry[e].state = "pending" /\ entry[e].n # 0

\* Processes told to stop, and those of them whose claim statement is under way.
Stopping == {p \in Procs : proc[p] = "stopping"}
LastAsk == {p \in Stopping : pass[p].at = "asked"}

\* The attempt of claim c will be recorded unless a fault or an outage intervenes.
Sound(c) ==
    \/ \E p \in Procs \ Stopping : pass[p] = Got(c)
    \/ stage[c] \in Working /\ home[c] \notin Stopping

\* Something that was already counted will cost entry e its lease.
Charged(e) == entry[e].lease # "none" /\ ~(entry[e].lease = "live" /\ Sound(Current(e)))
Charge(e) == IF Charged(e) THEN 1 ELSE 0

\* Every claim of e beyond its attempts is paid for by a fault or an outage; an
\* outage pays for two, since a stopping process may still claim once.
Paid(e) == entry[e].n + Charge(e) + Cardinality(LastAsk) <= Limit + faults + 2 * outages

ClaimsPaid == IsFiniteSet(Stopping) /\ Cardinality(Stopping) <= outages /\ \A e \in Entries : Paid(e)

OutboxInv == OutboxTyped /\ Numbered /\ DownIsIdle /\ Leases /\ ClaimsPaid

\* Claim c is held by a pass or worked on.
InHand(c) == stage[c] \in Working \/ \E p \in Procs : pass[p] = Got(c)

InHandIsLast ==
    \A c \in Claims : InHand(c) /\ c[1] \notin overtaken => c = Current(c[1]) /\ entry[c[1]].lease = "live"

WithinLimit == \A c \in Claims : stage[c] = "sending" \/ c \in seen => c[2] <= Limit

LateIsUncertain == \A e \in Entries : entry[e].n > Limit => entry[e].last = "uncertain"

SenderInv == InHandIsLast /\ WithinLimit /\ LateIsUncertain

-----------------------------------------------------------------------------
(* Helpers.                                                                *)

LEMMA SceneFacts ==
    ASSUME OutboxTyped
    PROVE  /\ scene.faults \in Nat /\ scene.outages \in Nat /\ scene.asks \in Nat /\ MaxClaims \in Nat /\ Limit \in Nat
           /\ Limit # 0 /\ Limit + scene.faults + 2 * scene.outages <= MaxClaims
           /\ faults \in Nat /\ faults <= scene.faults /\ outages \in Nat /\ outages <= scene.outages
<1>1. scene \in SceneType /\ Limit + scene.faults + 2 * scene.outages <= MaxClaims
  BY ConstantsAssumption DEF OutboxTyped
<1>2. scene.faults \in Nat /\ scene.outages \in Nat /\ scene.asks \in Nat
  BY <1>1 DEF SceneType
<1> QED BY <1>1, <1>2, ConstantsAssumption DEF OutboxTyped

LEMMA RowFacts ==
    ASSUME OutboxTyped, NEW e \in Entries
    PROVE  /\ entry[e] \in EntryRow /\ entry[e].n \in Nat /\ Charge(e) \in {0, 1}
           /\ entry[e].n # 0 => Current(e) \in Claims
BY SceneFacts DEF OutboxTyped, EntryRow, Current, Claims, Charge

LEMMA ClaimFacts ==
    ASSUME OutboxTyped, NEW c \in Claims
    PROVE  c = <<c[1], c[2]>> /\ c[1] \in Entries /\ c[2] \in 1..MaxClaims /\ c[2] \in Nat
BY SceneFacts DEF Claims

\* A pass is idle, waits for an answer or holds a claim.
LEMMA PassFacts ==
    ASSUME OutboxTyped, NEW p \in Procs
    PROVE  /\ pass[p].at = "got" => pass[p].claim \in Claims /\ pass[p] = Got(pass[p].claim)
           /\ \A c \in Claims : pass[p] = Got(c) => pass[p].at = "got" /\ pass[p].claim = c
           /\ pass[p].at # "got" => pass[p] \in Waiting
           /\ pass[p].at \in {"idle", "asked", "empty", "failed", "got"}
           /\ \A e \in Entries : pass[p].claim = Current(e) => pass[p].at = "got"
<1>1. CASE pass[p] \in Waiting
  BY <1>1 DEF Waiting, Idle, Asking, Empty, Failed, Got, Current
<1>2. CASE \E c \in Claims : pass[p] = Got(c)
  BY <1>2 DEF Got
<1> QED BY <1>1, <1>2 DEF OutboxTyped

LEMMA WaitingFacts ==
    /\ \A w \in Waiting : w.at # "got" /\ (w.at = "asked" => w = Asking) /\ \A c : w # Got(c)
    /\ Idle \in Waiting /\ Asking \in Waiting /\ Empty \in Waiting /\ Failed \in Waiting
    /\ Idle.at = "idle" /\ Asking.at = "asked" /\ Empty.at = "empty" /\ Failed.at = "failed"
BY DEF Waiting, Idle, Asking, Empty, Failed, Got

\* Passes change, but none that holds a claim or comes to hold one, and only a
\* process that is up asks.
PassesMove ==
    \A p \in Procs :
        \/ pass'[p] = pass[p]
        \/ pass[p].at # "got" /\ pass'[p] \in Waiting /\ (pass'[p].at = "asked" => proc[p] = "up")

LEMMA KickMoves ==
    ASSUME OutboxTyped, NEW p \in Procs, NEW size, Kick(p, size)
    PROVE  /\ PassesMove /\ again' \in [Procs -> BOOLEAN] /\ asks' = asks
           /\ pass' \in [Procs -> Waiting \cup {Got(c) : c \in Claims}]
<1>1. again' \in [Procs -> BOOLEAN] /\ asks' = asks
  BY DEF Kick, OutboxTyped
<1>2. pass' = pass \/ (proc[p] = "up" /\ pass[p].at = "idle" /\ \E new \in {Asking, Idle} : pass' = [pass EXCEPT ![p] = new])
  BY DEF Kick
<1>3. pass' \in [Procs -> Waiting \cup {Got(c) : c \in Claims}]
  BY <1>2, WaitingFacts DEF OutboxTyped
<1>4. PassesMove
  BY <1>2, WaitingFacts DEF OutboxTyped, PassesMove
<1> QED BY <1>1, <1>3, <1>4

\* While passes only move, the same claims are held and nobody who stops asks anew.
LEMMA MovesKeep ==
    ASSUME PassesMove, proc' = proc
    PROVE  /\ Stopping' = Stopping /\ LastAsk' \subseteq LastAsk
           /\ \A c, p : p \in Procs => (pass'[p] = Got(c) <=> pass[p] = Got(c))
<1>1. Stopping' = Stopping /\ \A p \in Stopping : p \in Procs /\ proc[p] = "stopping"
  BY DEF Stopping
<1>2. LastAsk' \subseteq LastAsk
  BY <1>1 DEF LastAsk, PassesMove, Stopping
<1>3. ASSUME NEW c, NEW p \in Procs PROVE pass'[p] = Got(c) <=> pass[p] = Got(c)
  <2>1. pass'[p] \in Waiting => pass'[p] # Got(c)
    BY WaitingFacts
  <2>2. pass[p].at # "got" => pass[p] # Got(c)
    BY DEF Got
  <2> QED BY <2>1, <2>2 DEF PassesMove
<1> QED BY <1>1, <1>2, <1>3

LEMMA NumberedKept ==
    ASSUME OutboxTyped, OutboxTyped', Numbered, PassesMove,
           \A e \in Entries : entry'[e].n = entry[e].n,
           \A c \in Claims : (stage'[c] = "none" <=> stage[c] = "none") /\ home'[c] = home[c]
    PROVE  Numbered'
<1>1. \A c \in Claims : c[1] \in Entries
  BY ClaimFacts
<1>2. \A c \in Claims : stage'[c] # "none" => c[2] <= entry'[c[1]].n /\ home'[c] \in Procs
  BY <1>1 DEF Numbered
<1>3. \A p \in Procs : pass'[p].at = "got" => pass'[p] = pass[p]
  BY WaitingFacts DEF PassesMove
<1>4. ASSUME NEW p \in Procs, pass'[p].at = "got"
      PROVE  /\ stage'[pass'[p].claim] = "none" /\ pass'[p].claim[2] <= entry'[pass'[p].claim[1]].n
             /\ \A q \in Procs : pass'[q] = pass'[p] => q = p
  <2>1. pass'[p] = pass[p] /\ pass[p].at = "got" /\ pass[p].claim \in Claims
    BY <1>3, <1>4, PassFacts
  <2>2. \A q \in Procs : pass'[q] = pass'[p] => q = p
    BY <1>3, <2>1 DEF Numbered
  <2> QED BY <1>1, <2>1, <2>2 DEF Numbered
<1> QED BY <1>2, <1>4 DEF Numbered

LEMMA AskCounts ==
    ASSUME OutboxInv
    PROVE  /\ IsFiniteSet(LastAsk) /\ Cardinality(LastAsk) \in Nat /\ Cardinality(Stopping) \in Nat
           /\ Cardinality(LastAsk) <= outages
<1>1. LastAsk \subseteq Stopping /\ IsFiniteSet(Stopping) /\ Cardinality(Stopping) <= outages
  BY DEF OutboxInv, ClaimsPaid, LastAsk
<1>2. IsFiniteSet(LastAsk) /\ Cardinality(LastAsk) <= Cardinality(Stopping)
  BY <1>1, FS_Subset
<1>3. Cardinality(LastAsk) \in Nat /\ Cardinality(Stopping) \in Nat
  BY <1>1, <1>2, FS_CardinalityType
<1>4. outages \in Nat
  BY SceneFacts DEF OutboxInv
<1> HIDE DEF LastAsk, Stopping
<1> QED BY <1>1, <1>2, <1>3, <1>4

\* A step that claims nothing and stops nobody keeps the account.
LEMMA PaidKept ==
    ASSUME OutboxInv, OutboxTyped', scene' = scene, outages' = outages, faults' >= faults,
           Stopping' = Stopping, LastAsk' \subseteq LastAsk,
           \A e \in Entries : /\ entry'[e].n = entry[e].n
                              /\ Charged(e)' => Charged(e) \/ faults' > faults
    PROVE  ClaimsPaid'
<1>1. IsFiniteSet(Stopping) /\ Cardinality(Stopping) <= outages
  BY DEF OutboxInv, ClaimsPaid
<1>2. IsFiniteSet(LastAsk) /\ IsFiniteSet(LastAsk')
  BY AskCounts, FS_Subset
<1>3. Cardinality(LastAsk') <= Cardinality(LastAsk) /\ Cardinality(LastAsk) \in Nat /\ Cardinality(LastAsk') \in Nat
  BY <1>2, FS_Subset, FS_CardinalityType
<1>4. ASSUME NEW e \in Entries PROVE Paid(e)'
  <2>1. Paid(e) /\ entry[e].n \in Nat /\ Charge(e) \in {0, 1} /\ entry'[e].n = entry[e].n
    BY RowFacts DEF OutboxInv, ClaimsPaid
  <2>2. Charge(e)' \in {0, 1} /\ (Charge(e)' = 1 => Charge(e) = 1 \/ faults' > faults)
    BY DEF Charge
  <2>3. Limit \in Nat /\ faults \in Nat /\ outages \in Nat /\ faults' \in Nat
    BY SceneFacts DEF OutboxInv, OutboxTyped
  <2> HIDE DEF Charge, LastAsk
  <2> QED BY <1>3, <2>1, <2>2, <2>3 DEF Paid
<1> QED BY <1>1, <1>4 DEF ClaimsPaid

\* A step of one attempt, statement or clock, while passes only move.  If it ends
\* the last claim of an entry unrecorded, that was charged before or a fault is.
LEMMA StepKeeps ==
    ASSUME OutboxInv, OutboxTyped', PassesMove, UNCHANGED <<scene, proc, outages>>, faults' >= faults,
           \A c \in Claims : (stage'[c] = "none" <=> stage[c] = "none") /\ home'[c] = home[c],
           Leases',
           \A e \in Entries : /\ entry'[e].n = entry[e].n
                              /\ entry'[e].lease # "none" =>
                                   /\ entry[e].lease # "none"
                                   /\ entry'[e].lease = entry[e].lease \/ faults' > faults \/ ~Sound(Current(e))
                                   /\ entry[e].lease = "live" /\ stage[Current(e)] \in Working
                                        => faults' > faults \/ stage'[Current(e)] \in Working
    PROVE  OutboxInv'
<1>1. Numbered'
  BY NumberedKept DEF OutboxInv
<1>2. Stopping' = Stopping /\ LastAsk' \subseteq LastAsk /\ \A c, p : p \in Procs => (pass'[p] = Got(c) <=> pass[p] = Got(c))
  BY MovesKeep
<1>3. ASSUME NEW e \in Entries, Charged(e)', ~(faults' > faults) PROVE Charged(e)
  <2>1. entry[e].lease # "none" /\ entry[e].n # 0 /\ Current(e)' = Current(e)
    BY <1>3 DEF Charged, Current, OutboxInv, Leases
  <2>2. Current(e) \in Claims
    BY <2>1, RowFacts DEF OutboxInv
  <2>3. SUFFICES ASSUME entry[e].lease = "live", Sound(Current(e)) PROVE Sound(Current(e))'
    BY <1>3, <2>1 DEF Charged
  <2>4. CASE \E p \in Procs \ Stopping : pass[p] = Got(Current(e))
    BY <1>2, <2>1, <2>4 DEF Sound
  <2>5. CASE stage[Current(e)] \in Working /\ home[Current(e)] \notin Stopping
    <3>1. entry'[e].lease # "none"
      BY <1>3 DEF Charged
    <3> QED BY <1>2, <1>3, <2>1, <2>2, <2>3, <2>5, <3>1 DEF Sound
  <2> QED BY <2>3, <2>4, <2>5 DEF Sound
<1>4. ClaimsPaid'
  <2> HIDE DEF Charged
  <2> QED BY <1>2, <1>3, PaidKept
<1>5. DownIsIdle'
  BY DEF OutboxInv, DownIsIdle, PassesMove, Waiting, Idle, Asking, Empty, Failed
<1> QED BY <1>1, <1>4, <1>5 DEF OutboxInv

\* A step that leaves the entries and the attempts alone.
LEMMA PollKeeps ==
    ASSUME OutboxInv, OutboxTyped', PassesMove, UNCHANGED <<scene, entry, stage, home, proc, outages>>, faults' >= faults
    PROVE  OutboxInv'
<1>1. Leases'
  BY DEF OutboxInv, Leases
<1> QED BY <1>1, StepKeeps

\* A step of claim c that leaves the entries alone and goes on working.
LEMMA AttemptKeeps ==
    ASSUME OutboxInv, OutboxTyped', PassesMove, UNCHANGED <<scene, entry, home, proc, bounds>>,
           NEW c \in Claims, NEW s, To(c, s), stage[c] # "none", s # "none", stage[c] \in Working => s \in Working
    PROVE  OutboxInv'
<1>1. Leases'
  BY DEF OutboxInv, Leases
<1>2. stage'[c] = s /\ \A d \in Claims : d # c => stage'[d] = stage[d]
  BY DEF To, OutboxInv, OutboxTyped
<1>3. ASSUME NEW e \in Entries, entry[e].lease # "none", stage[Current(e)] \in Working PROVE stage'[Current(e)] \in Working
  <2>1. Current(e) \in Claims
    BY <1>3, RowFacts DEF OutboxInv, Leases
  <2> QED BY <1>2, <1>3, <2>1
<1>4. faults' >= faults /\ outages' = outages
  BY SceneFacts DEF OutboxInv, bounds
<1> QED BY <1>1, <1>2, <1>3, <1>4, StepKeeps

-----------------------------------------------------------------------------
(* What each action does to OutboxInv.                                     *)

LEMMA FaultTyped ==
    ASSUME OutboxTyped, scene' = scene, Answered \/ Fault
    PROVE  /\ faults' \in 0..scene'.faults /\ outages' = outages /\ faults' >= faults
           /\ (Answered => faults' = faults) /\ (Fault => faults' > faults)
BY SceneFacts DEF Answered, Fault, bounds, OutboxTyped

LEMMA InsertOutbox == ASSUME OutboxInv, NEW e \in Entries, NEW p \in Procs, Insert(e, p) PROVE OutboxInv'
<1>1. /\ entry[e].state = "absent" /\ entry' = [entry EXCEPT ![e].state = "pending"] /\ (Answered \/ Fault)
      /\ UNCHANGED <<scene, stage, home, wake, proc, seen, overtaken, cleared>>
      /\ Kick(p, Cardinality(Running(p))) \/ UNCHANGED <<pass, again, asks>>
  BY DEF Insert, attempts, past
<1>2. PassesMove /\ again' \in [Procs -> BOOLEAN] /\ asks' = asks /\ pass' \in [Procs -> Waiting \cup {Got(c) : c \in Claims}]
  BY <1>1, KickMoves DEF OutboxInv, OutboxTyped, PassesMove
<1>3. faults' \in 0..scene.faults /\ outages' = outages /\ faults' >= faults
  BY <1>1, FaultTyped DEF OutboxInv
<1>4. entry' \in [Entries -> EntryRow]
  <2> DEFINE row == [entry[e] EXCEPT !.state = "pending"]
  <2>1. row \in EntryRow
    BY RowFacts DEF OutboxInv, EntryRow
  <2>2. entry' = [entry EXCEPT ![e] = row]
    BY <1>1
  <2> HIDE DEF row
  <2> QED BY <2>1, <2>2 DEF OutboxInv, OutboxTyped
<1>5. OutboxTyped'
  BY <1>1, <1>2, <1>3, <1>4 DEF OutboxInv, OutboxTyped
<1>6. \A i \in Entries : /\ entry'[i].n = entry[i].n /\ entry'[i].lease = entry[i].lease
                         /\ entry'[i].state = entry[i].state \/ (entry[i].state = "absent" /\ entry'[i].state = "pending")
  BY <1>1 DEF OutboxInv, OutboxTyped, EntryRow
<1>7. Leases'
  BY <1>6 DEF OutboxInv, Leases
<1> QED BY <1>1, <1>2, <1>3, <1>5, <1>6, <1>7, StepKeeps

\* An entry that can be claimed has a claim to spare, and one for each stopping
\* process whose claim is under way.
LEMMA RoomForClaim ==
    ASSUME OutboxInv, NEW e \in Entries, Claimable(e)
    PROVE  /\ entry[e].n + 1 + Cardinality(LastAsk) <= Limit + faults + 2 * outages
           /\ entry[e].n + 1 \in 1..MaxClaims
<1>1. /\ Limit \in Nat /\ faults \in Nat /\ outages \in Nat /\ MaxClaims \in Nat /\ entry[e].n \in Nat
      /\ scene.faults \in Nat /\ scene.outages \in Nat /\ faults <= scene.faults /\ outages <= scene.outages
      /\ Limit + scene.faults + 2 * scene.outages <= MaxClaims
  BY SceneFacts, RowFacts DEF OutboxInv
<1>2. Cardinality(LastAsk) \in Nat /\ Cardinality(LastAsk) <= outages
  BY AskCounts
<1>3. entry[e].n + 1 + Cardinality(LastAsk) <= Limit + faults + 2 * outages
  <2>1. CASE entry[e].lease = "none"
    <3>1. entry[e].n < Limit
      BY <2>1 DEF Claimable, OutboxInv, Leases
    <3> HIDE DEF LastAsk
    <3> QED BY <1>1, <1>2, <3>1
  <2>2. CASE entry[e].lease # "none"
    <3>1. Paid(e) /\ Charge(e) = 1
      BY <2>2 DEF Claimable, OutboxInv, ClaimsPaid, Charge, Charged
    <3> HIDE DEF LastAsk, Charge
    <3> QED BY <1>1, <1>2, <3>1 DEF Paid
  <2> QED BY <2>1, <2>2
<1> HIDE DEF LastAsk
<1>4. entry[e].n + 1 <= MaxClaims
  BY <1>1, <1>2, <1>3
<1> QED BY <1>1, <1>3, <1>4

\* The row a claim leaves.
ClaimedRow(e) == [entry[e] EXCEPT !.n = @ + 1, !.lease = "live", !.last = IF entry[e].lease = "none" THEN @ ELSE "uncertain"]

LEMMA LeasedFacts ==
    ASSUME OutboxInv, NEW e \in Entries, Claimable(e)
    PROVE  /\ Leased(e) = [entry EXCEPT ![e] = ClaimedRow(e)] /\ ClaimedRow(e) \in EntryRow
           /\ ClaimedRow(e).state = "pending" /\ ClaimedRow(e).n = entry[e].n + 1 /\ ClaimedRow(e).lease = "live"
           /\ ClaimedRow(e).last = IF entry[e].lease = "none" THEN entry[e].last ELSE "uncertain"
           /\ Leased(e)[e] = ClaimedRow(e) /\ \A i \in Entries : i # e => Leased(e)[i] = entry[i]
           /\ Leased(e) \in [Entries -> EntryRow]
           /\ <<e, entry[e].n + 1>> \in Claims /\ entry[e].n \in Nat
<1> DEFINE row == ClaimedRow(e)
<1>1. entry[e].n + 1 \in 1..MaxClaims /\ entry[e].n \in Nat
  BY RoomForClaim, RowFacts DEF OutboxInv
<1>2. /\ row \in EntryRow /\ row.state = "pending" /\ row.n = entry[e].n + 1 /\ row.lease = "live"
      /\ row.last = IF entry[e].lease = "none" THEN entry[e].last ELSE "uncertain"
  <2> DEFINE l == IF entry[e].lease = "none" THEN entry[e].last ELSE "uncertain"
  <2>1. entry[e] \in EntryRow /\ entry[e].state = "pending"
    BY RowFacts DEF Claimable, OutboxInv
  <2>2. l \in Answers \cup {"none"}
    BY <2>1 DEF EntryRow, Answers
  <2>3. entry[e].n + 1 \in 0..MaxClaims
    BY <1>1
  <2>4. row = [entry[e] EXCEPT !.n = entry[e].n + 1, !.lease = "live", !.last = l]
    BY <2>1 DEF ClaimedRow, EntryRow
  <2> HIDE DEF l, row
  <2>5. /\ row \in EntryRow /\ row.state = "pending" /\ row.n = entry[e].n + 1 /\ row.lease = "live" /\ row.last = l
    BY <2>1, <2>2, <2>3, <2>4 DEF EntryRow
  <2> QED BY <2>5 DEF l
<1>3. Leased(e) = [entry EXCEPT ![e] = row]
  BY DEF Leased, ClaimedRow, OutboxInv, OutboxTyped, EntryRow
<1> HIDE DEF row
<1>4. Leased(e)[e] = row /\ (\A i \in Entries : i # e => Leased(e)[i] = entry[i]) /\ Leased(e) \in [Entries -> EntryRow]
  BY <1>2, <1>3 DEF OutboxInv, OutboxTyped
<1> QED BY <1>1, <1>2, <1>3, <1>4 DEF row, Claims

\* A claim statement that takes entry e, answered or not.
Takes(p, e) ==
    /\ Claimable(e) /\ entry' = Leased(e) /\ pass[p].at = "asked"
    /\ \/ Answered /\ pass' = [pass EXCEPT ![p] = Got(<<e, entry[e].n + 1>>)]
       \/ Fault /\ pass' = [pass EXCEPT ![p] = Failed]
    /\ UNCHANGED <<scene, stage, home, again, wake, asks, proc, seen, overtaken, cleared>>

LEMMA ClaimCases ==
    ASSUME OutboxInv, NEW p \in Procs, ClaimStatement(p)
    PROVE  \/ \E e \in Entries : Takes(p, e)
           \/ /\ entry' = entry /\ (Answered \/ Fault) /\ \E new \in {Empty, Failed} : pass' = [pass EXCEPT ![p] = new]
              /\ UNCHANGED <<scene, stage, home, again, wake, asks, proc, seen, overtaken, cleared>>
<1>1. pass[p].at = "asked" /\ pass[p] = Asking /\ UNCHANGED <<scene, stage, home, again, wake, asks, proc, seen, overtaken, cleared>>
  BY PassFacts, WaitingFacts DEF ClaimStatement, OutboxInv, attempts, past
<1>2. /\ [pass EXCEPT ![p].at = "failed"] = [pass EXCEPT ![p] = Failed]
      /\ [pass EXCEPT ![p].at = "empty"] = [pass EXCEPT ![p] = Empty]
  <2>1. [Asking EXCEPT !.at = "failed"] = Failed /\ [Asking EXCEPT !.at = "empty"] = Empty
    BY DEF Asking, Failed, Empty
  <2> QED BY <1>1, <2>1
<1>3. CASE \E e \in Entries :
            /\ Claimable(e)
            /\ entry' = Leased(e)
            /\ \/ Answered /\ pass' = [pass EXCEPT ![p] = [at |-> "got", claim |-> <<e, entry'[e].n>>]]
               \/ Fault /\ pass' = [pass EXCEPT ![p].at = "failed"]
  <2>1. PICK e \in Entries :
            /\ Claimable(e)
            /\ entry' = Leased(e)
            /\ \/ Answered /\ pass' = [pass EXCEPT ![p] = [at |-> "got", claim |-> <<e, entry'[e].n>>]]
               \/ Fault /\ pass' = [pass EXCEPT ![p].at = "failed"]
    BY <1>3
  <2>2. entry'[e].n = entry[e].n + 1
    BY <2>1, LeasedFacts
  <2> QED BY <1>1, <1>2, <2>1, <2>2 DEF Takes, Got
<1>4. CASE entry' = entry /\ (Answered \/ Fault) /\ pass' \in {[pass EXCEPT ![p].at = "failed"], [pass EXCEPT ![p].at = "empty"]}
  BY <1>1, <1>2, <1>4
<1> QED BY <1>3, <1>4 DEF ClaimStatement

LEMMA TakesOutbox == ASSUME OutboxInv, NEW p \in Procs, NEW e \in Entries, Takes(p, e) PROVE OutboxInv'
<1> DEFINE c == <<e, entry[e].n + 1>>
           row == ClaimedRow(e)
<1>1. /\ Claimable(e) /\ pass[p].at = "asked"
      /\ UNCHANGED <<scene, stage, home, again, wake, asks, proc, seen, overtaken, cleared>>
  BY DEF Takes
<1>2. /\ row \in EntryRow /\ row.state = "pending" /\ row.n = entry[e].n + 1 /\ row.lease = "live"
      /\ entry'[e] = row /\ (\A i \in Entries : i # e => entry'[i] = entry[i]) /\ entry' \in [Entries -> EntryRow]
      /\ c \in Claims /\ entry[e].n \in Nat
  BY LeasedFacts DEF Takes
<1> HIDE DEF row
<1>3. /\ faults' \in 0..scene.faults /\ outages' = outages /\ faults' >= faults /\ faults' \in Nat
      /\ faults' = faults => pass' = [pass EXCEPT ![p] = Got(c)]
      /\ faults' # faults => faults' > faults /\ pass' = [pass EXCEPT ![p] = Failed]
  BY FaultTyped, SceneFacts DEF Takes, OutboxInv
<1> HIDE DEF c
<1>4. /\ \A q \in Procs : q # p => pass'[q] = pass[q]
      /\ faults' = faults => pass'[p] = Got(c) /\ pass'[p].at = "got" /\ pass'[p].claim = c
      /\ faults' # faults => pass'[p].at = "failed"
  BY <1>3 DEF OutboxInv, OutboxTyped, Got, Failed
<1>5. OutboxTyped'
  <2>1. pass' \in [Procs -> Waiting \cup {Got(d) : d \in Claims}]
    BY <1>2, <1>3, WaitingFacts DEF OutboxInv, OutboxTyped
  <2> QED BY <1>1, <1>2, <1>3, <2>1 DEF OutboxInv, OutboxTyped
<1>6. \A d \in Claims : (stage[d] # "none" \/ \E q \in Procs : pass[q] = Got(d)) => d # c
  <2> SUFFICES ASSUME NEW d \in Claims, stage[d] # "none" \/ \E q \in Procs : pass[q] = Got(d), d = c PROVE FALSE
    OBVIOUS
  <2>1. d[2] <= entry[d[1]].n
    BY PassFacts DEF OutboxInv, Numbered
  <2>2. d[1] = e /\ d[2] = entry[e].n + 1
    BY DEF c
  <2> QED BY <1>2, <2>1, <2>2
<1>7. \A i \in Entries : entry[i].n \in Nat /\ entry'[i].n \in Nat /\ entry'[i].n >= entry[i].n
  BY <1>2, RowFacts DEF OutboxInv
<1>8. Numbered'
  <2>1. ASSUME NEW d \in Claims, stage'[d] # "none" PROVE d[2] <= entry'[d[1]].n /\ home'[d] \in Procs
    <3>1. d[1] \in Entries /\ d[2] \in Nat /\ d[2] <= entry[d[1]].n /\ home[d] \in Procs
      BY <1>1, <2>1, ClaimFacts DEF OutboxInv, Numbered
    <3> QED BY <1>1, <1>7, <3>1
  <2>2. ASSUME NEW q \in Procs, pass'[q].at = "got"
        PROVE  /\ stage'[pass'[q].claim] = "none" /\ pass'[q].claim[2] <= entry'[pass'[q].claim[1]].n
               /\ \A u \in Procs : pass'[u] = pass'[q] => u = q
    <3>1. CASE q = p
      <4>1. pass'[p] = Got(c) /\ pass'[p].claim = c
        BY <1>4, <2>2, <3>1
      <4>2. stage[c] = "none" /\ c[1] = e /\ c[2] = entry[e].n + 1
        BY <1>2, <1>6 DEF c
      <4>3. c[2] <= entry'[c[1]].n
        BY <1>2, <4>2
      <4>4. \A u \in Procs : u # p => pass'[u] # Got(c)
        BY <1>2, <1>4, <1>6
      <4> QED BY <1>1, <3>1, <4>1, <4>2, <4>3, <4>4
    <3>2. CASE q # p
      <4>1. pass'[q] = pass[q] /\ pass[q].at = "got" /\ pass[q] = Got(pass[q].claim) /\ pass[q].claim \in Claims
        BY <1>4, <2>2, <3>2, PassFacts DEF OutboxInv
      <4>2. stage[pass[q].claim] = "none" /\ pass[q].claim[2] <= entry[pass[q].claim[1]].n
        BY <4>1 DEF OutboxInv, Numbered
      <4>3. pass[q].claim[1] \in Entries /\ pass[q].claim[2] \in Nat
        BY <4>1, ClaimFacts DEF OutboxInv
      <4>4. pass'[p] # pass[q]
        <5>1. pass[q].claim # c
          BY <1>6, <4>1
        <5> QED BY <1>4, <4>1, <5>1
      <4>5. \A u \in Procs : pass'[u] = pass'[q] => u = q
        BY <1>4, <4>1, <4>4 DEF OutboxInv, Numbered
      <4> QED BY <1>1, <1>7, <4>1, <4>2, <4>3, <4>5
    <3> QED BY <3>1, <3>2
  <2> QED BY <2>1, <2>2 DEF Numbered
<1>9. DownIsIdle'
  BY <1>1, <1>4 DEF OutboxInv, DownIsIdle
<1>10. Leases'
  BY <1>2 DEF OutboxInv, Leases
<1>11. Stopping' = Stopping /\ LastAsk' = LastAsk \ {p} /\ (p \in Stopping => p \in LastAsk)
  BY <1>1, <1>4 DEF Stopping, LastAsk
<1>12. /\ Cardinality(LastAsk) \in Nat /\ Cardinality(LastAsk') \in Nat /\ Cardinality(LastAsk) <= outages
       /\ Cardinality(LastAsk') <= Cardinality(LastAsk)
       /\ p \in LastAsk => Cardinality(LastAsk') = Cardinality(LastAsk) - 1
  <2>1. IsFiniteSet(LastAsk) /\ Cardinality(LastAsk) \in Nat /\ Cardinality(LastAsk) <= outages
    BY AskCounts
  <2>2. IsFiniteSet(LastAsk') /\ Cardinality(LastAsk') = IF p \in LastAsk THEN Cardinality(LastAsk) - 1 ELSE Cardinality(LastAsk)
    BY <1>11, <2>1, FS_RemoveElement
  <2>3. Cardinality(LastAsk') \in Nat
    BY <2>2, FS_CardinalityType
  <2> HIDE DEF LastAsk
  <2> QED BY <2>1, <2>2, <2>3
<1>13. Paid(e)'
  <2>1. Charge(e)' \in {0, 1}
    BY DEF Charge
  <2>2. faults' = faults /\ p \notin Stopping => Charge(e)' = 0
    <3> SUFFICES ASSUME faults' = faults, p \notin Stopping PROVE ~Charged(e)'
      BY DEF Charge
    <3>1. Current(e)' = c
      BY <1>2 DEF Current, c
    <3> QED BY <1>2, <1>4, <1>11, <3>1 DEF Charged, Sound
  <2>3. entry[e].n + 1 + Cardinality(LastAsk) <= Limit + faults + 2 * outages
    BY <1>1, RoomForClaim
  <2>4. Limit \in Nat /\ faults \in Nat /\ outages \in Nat /\ entry'[e].n = entry[e].n + 1
    BY <1>2, SceneFacts DEF OutboxInv
  <2> HIDE DEF Charge, LastAsk, Stopping
  <2> QED BY <1>2, <1>3, <1>11, <1>12, <2>1, <2>2, <2>3, <2>4 DEF Paid
<1>14. ASSUME NEW i \in Entries, i # e PROVE Paid(i)'
  <2>1. Charged(i)' => Charged(i)
    <3> SUFFICES ASSUME Charged(i)' PROVE Charged(i)
      OBVIOUS
    <3>1. entry'[i] = entry[i] /\ Current(i)' = Current(i)
      BY <1>2, <1>14 DEF Current
    <3>2. \A q \in Procs : pass[q] = Got(Current(i)) => pass'[q] = pass[q]
      BY <1>1, <1>4 DEF Got
    <3> QED BY <1>1, <1>11, <3>1, <3>2 DEF Charged, Sound
  <2>2. Charge(i)' \in {0, 1} /\ Charge(i) \in {0, 1} /\ Charge(i)' <= Charge(i)
    BY <2>1 DEF Charge
  <2>3. Paid(i) /\ entry[i].n \in Nat /\ entry'[i].n = entry[i].n
    BY <1>2, <1>14, RowFacts DEF OutboxInv, ClaimsPaid
  <2>4. Limit \in Nat /\ faults \in Nat /\ outages \in Nat
    BY SceneFacts DEF OutboxInv
  <2> HIDE DEF Charge, LastAsk
  <2> QED BY <1>3, <1>12, <2>2, <2>3, <2>4 DEF Paid
<1>15. ClaimsPaid'
  BY <1>3, <1>11, <1>13, <1>14 DEF OutboxInv, ClaimsPaid
<1> QED BY <1>5, <1>8, <1>9, <1>10, <1>15 DEF OutboxInv

LEMMA ClaimOutbox == ASSUME OutboxInv, NEW p \in Procs, ClaimStatement(p) PROVE OutboxInv'
<1>1. CASE \E e \in Entries : Takes(p, e)
  BY <1>1, TakesOutbox
<1>2. CASE /\ entry' = entry /\ (Answered \/ Fault) /\ \E new \in {Empty, Failed} : pass' = [pass EXCEPT ![p] = new]
           /\ UNCHANGED <<scene, stage, home, again, wake, asks, proc, seen, overtaken, cleared>>
  <2>1. faults' \in 0..scene.faults /\ outages' = outages /\ faults' >= faults
    BY <1>2, FaultTyped DEF OutboxInv
  <2>2. pass[p].at = "asked"
    BY DEF ClaimStatement
  <2>3. PassesMove
    BY <1>2, <2>2, WaitingFacts DEF PassesMove, OutboxInv, OutboxTyped
  <2>4. OutboxTyped'
    <3>1. pass' \in [Procs -> Waiting \cup {Got(d) : d \in Claims}]
      BY <1>2, WaitingFacts DEF OutboxInv, OutboxTyped
    <3> QED BY <1>2, <2>1, <3>1 DEF OutboxInv, OutboxTyped
  <2> QED BY <1>2, <2>1, <2>3, <2>4, PollKeeps
<1> QED BY <1>1, <1>2, ClaimCases

LEMMA ResumeOutbox == ASSUME OutboxInv, NEW p \in Procs, Resume(p) PROVE OutboxInv'
<1> DEFINE c == pass[p].claim
<1>1. /\ pass[p].at = "got" /\ stage' = [stage EXCEPT ![c] = "prepare"] /\ home' = [home EXCEPT ![c] = p]
      /\ UNCHANGED <<scene, entry, wake, asks, proc, faults, outages, seen, overtaken, cleared>>
  BY DEF Resume, bounds, past
<1>2. /\ c \in Claims /\ pass[p] = Got(c) /\ stage[c] = "none" /\ c[2] <= entry[c[1]].n
      /\ \A q \in Procs : pass[q] = Got(c) => q = p
  BY <1>1, PassFacts DEF OutboxInv, Numbered
<1>3. again' \in [Procs -> BOOLEAN] /\ \E new \in Waiting : pass' = [pass EXCEPT ![p] = new] /\ (new.at = "asked" => proc[p] = "up")
  BY WaitingFacts DEF Resume, OutboxInv, OutboxTyped
<1>4. PICK new \in Waiting : pass' = [pass EXCEPT ![p] = new] /\ (new.at = "asked" => proc[p] = "up")
  BY <1>3
<1> HIDE DEF c
<1>5. /\ stage'[c] = "prepare" /\ home'[c] = p
      /\ \A d \in Claims : d # c => stage'[d] = stage[d] /\ home'[d] = home[d]
  BY <1>1, <1>2 DEF OutboxInv, OutboxTyped
<1>6. pass'[p] = new /\ new.at # "got" /\ \A q \in Procs : q # p => pass'[q] = pass[q]
  BY <1>4, WaitingFacts DEF OutboxInv, OutboxTyped
<1>7. OutboxTyped'
  <2>1. stage' \in [Claims -> Active \cup {"none", "ended"}] /\ home' \in [Claims -> Procs \cup {NoProc}]
    BY <1>1 DEF OutboxInv, OutboxTyped, Active
  <2>2. pass' \in [Procs -> Waiting \cup {Got(d) : d \in Claims}]
    BY <1>4 DEF OutboxInv, OutboxTyped
  <2> QED BY <1>1, <1>3, <2>1, <2>2 DEF OutboxInv, OutboxTyped
<1>8. Numbered'
  <2>1. \A d \in Claims : stage'[d] # "none" => d[2] <= entry'[d[1]].n /\ home'[d] \in Procs
    BY <1>1, <1>2, <1>5 DEF OutboxInv, Numbered
  <2>2. ASSUME NEW q \in Procs, pass'[q].at = "got"
        PROVE  /\ stage'[pass'[q].claim] = "none" /\ pass'[q].claim[2] <= entry'[pass'[q].claim[1]].n
               /\ \A u \in Procs : pass'[u] = pass'[q] => u = q
    <3>1. q # p /\ pass'[q] = pass[q] /\ pass[q].at = "got" /\ pass[q] = Got(pass[q].claim) /\ pass[q].claim \in Claims
      BY <1>6, <2>2, PassFacts DEF OutboxInv
    <3>2. pass[q].claim # c
      BY <1>2, <3>1
    <3>3. stage'[pass[q].claim] = "none" /\ pass[q].claim[2] <= entry[pass[q].claim[1]].n
      BY <1>5, <3>1, <3>2 DEF OutboxInv, Numbered
    <3>4. \A u \in Procs : pass'[u] = pass'[q] => u = q
      BY <1>6, <2>2, <3>1 DEF OutboxInv, Numbered
    <3> QED BY <1>1, <3>1, <3>3, <3>4
  <2> QED BY <2>1, <2>2 DEF Numbered
<1>9. DownIsIdle'
  BY <1>1, <1>4, <1>6 DEF OutboxInv, DownIsIdle
<1>10. Stopping' = Stopping /\ LastAsk' \subseteq LastAsk
  BY <1>1, <1>4, <1>6 DEF Stopping, LastAsk
<1>11. ASSUME NEW e \in Entries, Charged(e)' PROVE Charged(e)
  <2>1. Current(e)' = Current(e) /\ Current(e) \in Claims
    BY <1>1, <1>11, RowFacts DEF Charged, Current, OutboxInv, Leases
  <2>2. SUFFICES ASSUME Sound(Current(e)) PROVE Sound(Current(e))'
    BY <1>1, <1>11, <2>1 DEF Charged
  <2>3. CASE Current(e) = c
    <3>1. stage[c] \notin Working
      BY <1>2 DEF Working, Answers
    <3>2. p \notin Stopping
      BY <1>2, <2>2, <2>3, <3>1 DEF Sound
    <3> QED BY <1>5, <1>10, <2>1, <2>3, <3>2 DEF Sound, Working
  <2>4. CASE Current(e) # c
    <3>1. \A q \in Procs : pass[q] = Got(Current(e)) => pass'[q] = Got(Current(e))
      BY <1>2, <1>6, <2>4 DEF Got
    <3> QED BY <1>5, <1>10, <2>1, <2>2, <2>4, <3>1 DEF Sound
  <2> QED BY <2>3, <2>4
<1>12. ClaimsPaid'
  <2>1. faults' >= faults
    BY <1>1, SceneFacts DEF OutboxInv
  <2> HIDE DEF Charged
  <2> QED BY <1>1, <1>7, <1>10, <1>11, <2>1, PaidKept
<1>13. Leases'
  BY <1>1 DEF OutboxInv, Leases
<1> QED BY <1>7, <1>8, <1>9, <1>12, <1>13 DEF OutboxInv

LEMMA AskRow ==
    ASSUME OutboxTyped, NEW p \in Procs, NEW row \in [AskKinds -> Nat], asks' = [asks EXCEPT ![p] = row]
    PROVE  asks'[p] = row /\ asks' \in [Procs -> [AskKinds -> Nat]] /\ \A q \in Procs : q # p => asks'[q] = asks[q]
BY DEF OutboxTyped

LEMMA AskTyped ==
    ASSUME OutboxTyped, NEW p \in Procs, asks' = [asks EXCEPT ![p]["asked"] = @ + 1]
    PROVE  /\ asks' \in [Procs -> [AskKinds -> Nat]] /\ OpenAsks(p)' = OpenAsks(p) + 1
           /\ \A q \in Procs : q # p => asks'[q] = asks[q]
<1> DEFINE row == [asks[p] EXCEPT !["asked"] = asks[p]["asked"] + 1]
<1>1. asks[p] \in [AskKinds -> Nat] /\ (\A k \in AskKinds : asks[p][k] \in Nat) /\ AskKinds = {"asked", "nothing", "something", "failed"}
  BY DEF OutboxTyped, AskKinds
<1>2. asks' = [asks EXCEPT ![p] = row]
  OBVIOUS
<1>3. row \in [AskKinds -> Nat] /\ row["asked"] = asks[p]["asked"] + 1 /\ \A k \in AskKinds : k # "asked" => row[k] = asks[p][k]
  BY <1>1
<1> HIDE DEF row
<1>4. asks'[p] = row /\ asks' \in [Procs -> [AskKinds -> Nat]] /\ \A q \in Procs : q # p => asks'[q] = asks[q]
  BY <1>2, <1>3, AskRow
<1> QED BY <1>1, <1>3, <1>4 DEF OpenAsks

LEMMA EndPassTyped ==
    ASSUME OutboxTyped, NEW p \in Procs, NEW failed, EndPass(p, failed)
    PROVE  /\ pass' = [pass EXCEPT ![p] = Idle] /\ wake' \in [Procs -> BOOLEAN]
           /\ asks' \in [Procs -> [AskKinds -> Nat]]
           /\ asks' = asks \/ (OpenAsks(p) < scene.asks /\ asks' = [asks EXCEPT ![p]["asked"] = @ + 1])
<1>1. pass' = [pass EXCEPT ![p] = Idle] /\ (wake' = wake \/ wake' = [wake EXCEPT ![p] = TRUE])
  BY Zenon DEF EndPass
<1>2. asks' = asks \/ (OpenAsks(p) < scene.asks /\ asks' = [asks EXCEPT ![p]["asked"] = @ + 1])
  BY Zenon DEF EndPass
<1>3. wake' \in [Procs -> BOOLEAN]
  BY <1>1 DEF OutboxTyped
<1>4. asks' \in [Procs -> [AskKinds -> Nat]]
  <2>1. CASE asks' = asks
    BY <2>1 DEF OutboxTyped
  <2>2. CASE asks' = [asks EXCEPT ![p]["asked"] = @ + 1]
    BY <2>2, AskTyped
  <2> QED BY <1>2, <2>1, <2>2
<1> QED BY <1>1, <1>2, <1>3, <1>4

LEMMA ResumeEmptyOutbox == ASSUME OutboxInv, NEW p \in Procs, ResumeEmpty(p) PROVE OutboxInv'
<1>1. /\ pass[p].at # "got" /\ again' \in [Procs -> BOOLEAN]
      /\ UNCHANGED <<scene, entry, stage, home, proc, faults, outages, seen, overtaken, cleared>>
  BY DEF ResumeEmpty, attempts, bounds, past, OutboxInv, OutboxTyped
<1>2. /\ asks' \in [Procs -> [AskKinds -> Nat]] /\ wake' \in [Procs -> BOOLEAN]
      /\ \E new \in {Asking, Idle} : pass' = [pass EXCEPT ![p] = new] /\ (new.at = "asked" => proc[p] = "up")
  <2>1. CASE proc[p] = "up" /\ pass' = [pass EXCEPT ![p] = Asking] /\ UNCHANGED <<wake, asks>>
    BY <2>1 DEF OutboxInv, OutboxTyped
  <2>2. CASE EndPass(p, pass[p].at = "failed")
    BY <2>2, EndPassTyped, WaitingFacts DEF OutboxInv
  <2> QED BY <2>1, <2>2 DEF ResumeEmpty
<1>3. PassesMove
  BY <1>1, <1>2, WaitingFacts DEF PassesMove, OutboxInv, OutboxTyped
<1>4. OutboxTyped'
  <2>1. pass' \in [Procs -> Waiting \cup {Got(c) : c \in Claims}]
    BY <1>2, WaitingFacts DEF OutboxInv, OutboxTyped
  <2> QED BY <1>1, <1>2, <2>1 DEF OutboxInv, OutboxTyped
<1>5. faults' >= faults
  BY <1>1, SceneFacts DEF OutboxInv
<1> QED BY <1>1, <1>3, <1>4, <1>5, PollKeeps

\* A question is answered.
LEMMA AskAnswered ==
    ASSUME OutboxTyped, NEW p \in Procs, NEW a \in {"nothing", "something", "failed"}, asks[p]["asked"] > 0,
           asks' = [asks EXCEPT ![p]["asked"] = @ - 1, ![p][a] = @ + 1]
    PROVE  /\ asks' \in [Procs -> [AskKinds -> Nat]] /\ OpenAsks(p)' = OpenAsks(p)
           /\ \A q \in Procs : q # p => asks'[q] = asks[q]
<1> DEFINE row == [asks[p] EXCEPT !["asked"] = asks[p]["asked"] - 1, ![a] = asks[p][a] + 1]
<1>1. asks[p] \in [AskKinds -> Nat] /\ (\A k \in AskKinds : asks[p][k] \in Nat) /\ AskKinds = {"asked", "nothing", "something", "failed"}
  BY DEF OutboxTyped, AskKinds
<1>2. asks' = [asks EXCEPT ![p] = row]
  BY <1>1 DEF OutboxTyped
<1>3. row \in [AskKinds -> Nat] /\ row["asked"] = asks[p]["asked"] - 1 /\ row[a] = asks[p][a] + 1
  BY <1>1
<1>4. \A k \in AskKinds : k # "asked" /\ k # a => row[k] = asks[p][k]
  BY <1>1
<1> HIDE DEF row
<1>5. asks'[p] = row /\ asks' \in [Procs -> [AskKinds -> Nat]] /\ \A q \in Procs : q # p => asks'[q] = asks[q]
  BY <1>2, <1>3, AskRow
<1>6. OpenAsks(p)' = row["asked"] + row["nothing"] + row["something"] + row["failed"]
  BY <1>5 DEF OpenAsks
<1>7. CASE a = "nothing"
  BY <1>1, <1>3, <1>4, <1>5, <1>6, <1>7 DEF OpenAsks
<1>8. CASE a = "something"
  BY <1>1, <1>3, <1>4, <1>5, <1>6, <1>8 DEF OpenAsks
<1>9. CASE a = "failed"
  BY <1>1, <1>3, <1>4, <1>5, <1>6, <1>9 DEF OpenAsks
<1> QED BY <1>7, <1>8, <1>9

\* scheduleWake has acted on an answer.
LEMMA AskClosed ==
    ASSUME OutboxTyped, NEW p \in Procs, NEW a \in {"nothing", "something", "failed"}, asks[p][a] > 0,
           asks' = [asks EXCEPT ![p][a] = @ - 1]
    PROVE  /\ asks' \in [Procs -> [AskKinds -> Nat]] /\ OpenAsks(p)' = OpenAsks(p) - 1
           /\ \A q \in Procs : q # p => asks'[q] = asks[q]
<1> DEFINE row == [asks[p] EXCEPT ![a] = asks[p][a] - 1]
<1>1. asks[p] \in [AskKinds -> Nat] /\ (\A k \in AskKinds : asks[p][k] \in Nat) /\ AskKinds = {"asked", "nothing", "something", "failed"}
  BY DEF OutboxTyped, AskKinds
<1>2. asks' = [asks EXCEPT ![p] = row]
  OBVIOUS
<1>3. row \in [AskKinds -> Nat] /\ row[a] = asks[p][a] - 1 /\ \A k \in AskKinds : k # a => row[k] = asks[p][k]
  BY <1>1
<1> HIDE DEF row
<1>5. asks'[p] = row /\ asks' \in [Procs -> [AskKinds -> Nat]] /\ \A q \in Procs : q # p => asks'[q] = asks[q]
  BY <1>2, <1>3, AskRow
<1>7. CASE a = "nothing"
  BY <1>1, <1>3, <1>5, <1>7 DEF OpenAsks
<1>8. CASE a = "something"
  BY <1>1, <1>3, <1>5, <1>8 DEF OpenAsks
<1>9. CASE a = "failed"
  BY <1>1, <1>3, <1>5, <1>9 DEF OpenAsks
<1> QED BY <1>7, <1>8, <1>9

LEMMA AskOutbox == ASSUME OutboxInv, NEW p \in Procs, NextAt(p) \/ ScheduleWake(p) PROVE OutboxInv'
<1>1. asks' \in [Procs -> [AskKinds -> Nat]] /\ wake' \in [Procs -> BOOLEAN] /\ cleared' \subseteq Procs
  <2>1. CASE NextAt(p)
    <3>1. asks' \in [Procs -> [AskKinds -> Nat]]
      BY <2>1, AskAnswered DEF NextAt, OutboxInv
    <3>2. wake' = wake /\ cleared' = cleared
      BY <2>1 DEF NextAt, past
    <3> QED BY <3>1, <3>2 DEF OutboxInv, OutboxTyped
  <2>2. CASE ScheduleWake(p)
    <3>1. asks' \in [Procs -> [AskKinds -> Nat]]
      BY <2>2, AskClosed DEF ScheduleWake, OutboxInv
    <3>2. wake' \in [Procs -> BOOLEAN] /\ cleared' \subseteq Procs
      BY <2>2 DEF ScheduleWake, OutboxInv, OutboxTyped
    <3> QED BY <3>1, <3>2
  <2> QED BY <2>1, <2>2
<1>2. UNCHANGED <<scene, entry, stage, home, pass, again, proc, seen, overtaken>> /\ (Answered \/ Fault)
  BY DEF NextAt, ScheduleWake, Answered, attempts, past
<1>3. faults' \in 0..scene.faults /\ outages' = outages /\ faults' >= faults
  BY <1>2, FaultTyped DEF OutboxInv
<1>4. PassesMove
  BY <1>2 DEF PassesMove
<1>5. OutboxTyped'
  BY <1>1, <1>2, <1>3 DEF OutboxInv, OutboxTyped
<1> QED BY <1>2, <1>3, <1>4, <1>5, PollKeeps

LEMMA TickOutbox == ASSUME OutboxInv, NEW p \in Procs, Tick(p) PROVE OutboxInv'
<1>1. /\ wake' = [wake EXCEPT ![p] = FALSE] /\ Kick(p, Cardinality(Running(p)))
      /\ UNCHANGED <<scene, entry, stage, home, proc, faults, outages, seen, overtaken, cleared>>
  BY DEF Tick, attempts, bounds, past
<1>2. PassesMove /\ again' \in [Procs -> BOOLEAN] /\ asks' = asks /\ pass' \in [Procs -> Waiting \cup {Got(c) : c \in Claims}]
  BY <1>1, KickMoves DEF OutboxInv
<1>3. wake' \in [Procs -> BOOLEAN]
  BY <1>1 DEF OutboxInv, OutboxTyped
<1>4. OutboxTyped'
  BY <1>1, <1>2, <1>3 DEF OutboxInv, OutboxTyped
<1>5. faults' >= faults
  BY <1>1, SceneFacts DEF OutboxInv
<1> QED BY <1>1, <1>2, <1>4, <1>5, PollKeeps

LEMMA AttemptOutbox == ASSUME OutboxInv, NEW c \in Claims, Prepare(c) \/ Send(c) \/ End(c) PROVE OutboxInv'
<1>1. PICK s : /\ To(c, s) /\ s \in Working \cup {"ended"} /\ (stage[c] \in Working => s \in Working)
               /\ stage[c] \in {"prepare", "sending", "ending"}
  <2>1. CASE Prepare(c)
    BY <2>1 DEF Prepare, At, Working, Answers
  <2>2. CASE Send(c)
    BY <2>2 DEF Send, At, Working, Answers
  <2>3. CASE End(c)
    BY <2>3 DEF End, At, Working, Answers
  <2> QED BY <2>1, <2>2, <2>3
<1>2. /\ UNCHANGED <<scene, entry, home, wake, proc, bounds, overtaken, cleared>> /\ seen' \in {seen, seen \cup {c}}
      /\ UNCHANGED <<pass, again, asks>> \/ Kick(home[c], Cardinality(Running(home[c]) \ {c}))
      /\ UNCHANGED <<pass, again, asks>> \/ stage[c] = "ending"
  BY DEF Prepare, Send, End, At, pollVars, past
<1>3. home[c] \in Procs
  BY <1>1 DEF OutboxInv, Numbered
<1>4. PassesMove /\ again' \in [Procs -> BOOLEAN] /\ asks' = asks /\ pass' \in [Procs -> Waiting \cup {Got(d) : d \in Claims}]
  BY <1>2, <1>3, KickMoves DEF OutboxInv, OutboxTyped, PassesMove
<1>5. stage' \in [Claims -> Active \cup {"none", "ended"}]
  BY <1>1 DEF To, OutboxInv, OutboxTyped, Active, Working
<1>6. OutboxTyped'
  BY <1>2, <1>4, <1>5 DEF OutboxInv, OutboxTyped, bounds
<1>7. s # "none"
  BY <1>1 DEF Working, Answers
<1> QED BY <1>1, <1>2, <1>4, <1>6, <1>7, AttemptKeeps

\* What a settlement leaves: the lease is given up, and another attempt is left
\* if the entry stays pending.
LEMMA RecordedFacts ==
    ASSUME OutboxTyped, NEW c \in Claims, Held(c), stage[c] \in Answers
    PROVE  /\ Recorded(c) \in [Entries -> EntryRow] /\ \A e \in Entries : e # c[1] => Recorded(c)[e] = entry[e]
           /\ Recorded(c)[c[1]].n = entry[c[1]].n /\ Recorded(c)[c[1]].lease = "none"
           /\ Recorded(c)[c[1]].state \in {"pending", "acknowledged", "failed"}
           /\ Recorded(c)[c[1]].state = "pending" => c[2] < Limit
           /\ Recorded(c)[c[1]].state = "acknowledged" => stage[c] = "acknowledged"
           /\ c[2] > Limit /\ entry[c[1]].last # "none" => Recorded(c)[c[1]].last = entry[c[1]].last
<1> DEFINE e == entry[c[1]]
           a == stage[c]
           final == CASE a = "acknowledged" -> "acknowledged"
                      [] a = "not-sent" \/ c[2] >= Limit -> "failed"
                      [] OTHER -> "pending"
           l == IF c[2] > Limit /\ e.last # "none" THEN e.last ELSE a
           d == final # "pending"
           row == [e EXCEPT !.state = final, !.lease = "none", !.due = d, !.last = l]
<1>1. Recorded(c) = [entry EXCEPT ![c[1]] = row]
  BY DEF Recorded
<1>2. c[1] \in Entries /\ e \in EntryRow /\ c[2] \in Nat /\ Limit \in Nat
  BY ClaimFacts, RowFacts, SceneFacts
<1>3. /\ final \in {"pending", "acknowledged", "failed"} /\ (final = "pending" => c[2] < Limit)
      /\ final = "acknowledged" => a = "acknowledged"
  BY <1>2
<1>4. l \in Answers \cup {"none"} /\ (c[2] > Limit /\ e.last # "none" => l = e.last) /\ d \in BOOLEAN
  BY <1>2 DEF EntryRow
<1> HIDE DEF final, l, d, e
<1>5. /\ row \in EntryRow /\ row.state = final /\ row.lease = "none" /\ row.n = e.n /\ row.last = l
  BY <1>2, <1>3, <1>4 DEF EntryRow
<1> HIDE DEF row
<1>6. Recorded(c)[c[1]] = row /\ Recorded(c) \in [Entries -> EntryRow] /\ \A i \in Entries : i # c[1] => Recorded(c)[i] = entry[i]
  BY <1>1, <1>2, <1>5 DEF OutboxTyped
<1> QED BY <1>3, <1>4, <1>5, <1>6 DEF e

LEMMA SettleOutbox == ASSUME OutboxInv, NEW c \in Claims, Settle(c) PROVE OutboxInv'
<1>1. /\ stage[c] \in Answers /\ To(c, "ending") /\ (Answered \/ Fault)
      /\ \/ Held(c) /\ entry' = Recorded(c)
         \/ entry' = entry /\ (~Held(c) \/ Fault)
      /\ UNCHANGED <<scene, home, pass, again, wake, asks, proc, seen, overtaken, cleared>>
  BY DEF Settle, pollVars, past
<1>2. c[1] \in Entries /\ c = <<c[1], c[2]>>
  BY ClaimFacts DEF OutboxInv
<1>3. faults' \in 0..scene.faults /\ outages' = outages /\ faults' >= faults /\ (Fault => faults' > faults)
  BY <1>1, FaultTyped DEF OutboxInv
<1>4. entry' \in [Entries -> EntryRow] /\ \A e \in Entries : /\ entry'[e].n = entry[e].n
                                                             /\ e # c[1] => entry'[e] = entry[e]
  BY <1>1, RecordedFacts DEF OutboxInv, OutboxTyped
<1>5. stage' = [stage EXCEPT ![c] = "ending"] /\ stage'[c] = "ending" /\ \A d \in Claims : d # c => stage'[d] = stage[d]
  BY <1>1 DEF To, OutboxInv, OutboxTyped
<1>6. OutboxTyped'
  <2>1. stage' \in [Claims -> Active \cup {"none", "ended"}]
    BY <1>5 DEF OutboxInv, OutboxTyped, Active
  <2> QED BY <1>1, <1>3, <1>4, <2>1 DEF OutboxInv, OutboxTyped
<1>7. PassesMove
  BY <1>1 DEF PassesMove
<1>8. \A d \in Claims : (stage'[d] = "none" <=> stage[d] = "none") /\ home'[d] = home[d]
  BY <1>1, <1>5 DEF Answers
<1>9. Held(c) /\ entry' = Recorded(c) =>
        /\ entry'[c[1]].lease = "none" /\ entry'[c[1]].state \in {"pending", "acknowledged", "failed"}
        /\ entry'[c[1]].state = "pending" => entry'[c[1]].n < Limit
  BY <1>1, RecordedFacts DEF Held, OutboxInv
<1>10. Leases'
  <2>1. CASE entry' = entry
    BY <2>1 DEF OutboxInv, Leases
  <2>2. CASE Held(c) /\ entry' = Recorded(c)
    BY <1>2, <1>4, <1>9, <2>2 DEF OutboxInv, Leases
  <2> QED BY <1>1, <2>1, <2>2
<1>11. ASSUME NEW e \in Entries, entry'[e].lease # "none"
       PROVE  /\ entry[e].lease # "none" /\ entry'[e].lease = entry[e].lease
              /\ entry[e].lease = "live" /\ stage[Current(e)] \in Working
                   => faults' > faults \/ stage'[Current(e)] \in Working
  <2>1. entry'[e] = entry[e]
    BY <1>1, <1>4, <1>9, <1>11
  <2>2. Current(e) \in Claims /\ entry[e].state = "pending"
    BY <1>11, <2>1, RowFacts DEF OutboxInv, Leases
  <2>3. CASE Current(e) # c
    BY <1>5, <1>11, <2>1, <2>2, <2>3
  <2>4. CASE Current(e) = c
    <3>1. e = c[1] /\ Held(c)
      BY <1>11, <2>1, <2>2, <2>4 DEF Current, Held
    <3>2. Fault
      BY <1>1, <1>9, <1>11, <3>1
    <3> QED BY <1>3, <1>11, <2>1, <3>2
  <2> QED BY <2>3, <2>4
<1> QED BY <1>1, <1>3, <1>4, <1>6, <1>7, <1>8, <1>10, <1>11, StepKeeps

\* An entry falls due, or its lease ends: nobody was at work on it, or a fault is paid.
LEMMA ClockOutbox == ASSUME OutboxInv, NEW e \in Entries, FallsDue(e) \/ LeaseEnds(e) \/ LeaseEndsLate(e) PROVE OutboxInv'
<1>1. /\ UNCHANGED <<scene, stage, home, pass, again, wake, asks, proc, seen, cleared>> /\ (Answered \/ Fault)
      /\ overtaken' \in {overtaken, overtaken \cup {e}}
      /\ \/ entry' = [entry EXCEPT ![e].due = TRUE]
         \/ /\ entry[e].lease = "live" /\ entry' = [entry EXCEPT ![e].lease = "ended"] /\ (~Attended(e) \/ Fault)
  BY DEF FallsDue, LeaseEnds, LeaseEndsLate, Answered, attempts, pollVars, past
<1>2. faults' \in 0..scene.faults /\ outages' = outages /\ faults' >= faults /\ (Fault => faults' > faults)
  BY <1>1, FaultTyped DEF OutboxInv
<1>3. /\ entry' \in [Entries -> EntryRow] /\ \A i \in Entries : i # e => entry'[i] = entry[i]
      /\ entry'[e].n = entry[e].n /\ entry'[e].state = entry[e].state
      /\ entry'[e].lease = entry[e].lease \/ (entry[e].lease = "live" /\ entry'[e].lease = "ended" /\ (~Attended(e) \/ Fault))
  <2>1. CASE entry' = [entry EXCEPT ![e].due = TRUE]
    <3> DEFINE row == [entry[e] EXCEPT !.due = TRUE]
    <3>1. row \in EntryRow /\ row.n = entry[e].n /\ row.state = entry[e].state /\ row.lease = entry[e].lease
      BY RowFacts DEF EntryRow, OutboxInv
    <3>2. entry' = [entry EXCEPT ![e] = row]
      BY <2>1
    <3> HIDE DEF row
    <3> QED BY <3>1, <3>2 DEF OutboxInv, OutboxTyped
  <2>2. CASE entry[e].lease = "live" /\ entry' = [entry EXCEPT ![e].lease = "ended"] /\ (~Attended(e) \/ Fault)
    <3> DEFINE row == [entry[e] EXCEPT !.lease = "ended"]
    <3>1. row \in EntryRow /\ row.n = entry[e].n /\ row.state = entry[e].state /\ row.lease = "ended"
      BY RowFacts DEF EntryRow, OutboxInv
    <3>2. entry' = [entry EXCEPT ![e] = row]
      BY <2>2
    <3> HIDE DEF row
    <3> QED BY <2>2, <3>1, <3>2 DEF OutboxInv, OutboxTyped
  <2> QED BY <1>1, <2>1, <2>2
<1>4. OutboxTyped'
  BY <1>1, <1>2, <1>3 DEF OutboxInv, OutboxTyped
<1>5. PassesMove
  BY <1>1 DEF PassesMove
<1>6. Leases'
  BY <1>3 DEF OutboxInv, Leases
<1>7. ~Attended(e) /\ entry[e].lease = "live" => ~Sound(Current(e))
  <2> SUFFICES ASSUME ~Attended(e), entry[e].lease = "live" PROVE ~Sound(Current(e))
    OBVIOUS
  <2>1. Current(e) \in Claims
    BY RowFacts DEF OutboxInv, Leases
  <2>2. stage[Current(e)] \notin Active /\ \A p \in Procs : pass[p].claim # Current(e)
    BY <2>1 DEF Attended, Current
  <2> QED BY <2>2 DEF Sound, Got, Active, Working
<1>8. \A i \in Entries : entry'[i].n = entry[i].n /\ (entry'[i].lease # "none" => entry[i].lease # "none")
  BY <1>3
<1>9. \A i \in Entries : entry'[i].lease = entry[i].lease \/ faults' > faults \/ ~Sound(Current(i))
  BY <1>2, <1>3, <1>7
<1> HIDE DEF Sound
<1> QED BY <1>1, <1>2, <1>4, <1>5, <1>6, <1>8, <1>9, StepKeeps

LEMMA StopOutbox == ASSUME OutboxInv, NEW p \in Procs, Stop(p) PROVE OutboxInv'
<1>1. /\ proc[p] = "up" /\ outages < scene.outages /\ outages' = outages + 1
      /\ proc' = [proc EXCEPT ![p] = "stopping"]
      /\ wake' = [wake EXCEPT ![p] = FALSE]
      /\ UNCHANGED <<scene, entry, stage, home, pass, again, asks, faults, seen, overtaken, cleared>>
  BY DEF Stop, attempts, past
<1>2. OutboxTyped'
  <2>1. outages' \in 0..scene.outages
    BY <1>1, SceneFacts DEF OutboxInv
  <2> QED BY <1>1, <2>1 DEF OutboxInv, OutboxTyped
<1>3. Numbered'
  BY <1>1 DEF OutboxInv, Numbered
<1>4. DownIsIdle' /\ Leases'
  BY <1>1 DEF OutboxInv, OutboxTyped, DownIsIdle, Leases
<1>5. Stopping' = Stopping \cup {p} /\ LastAsk' \subseteq LastAsk \cup {p}
  BY <1>1 DEF OutboxInv, OutboxTyped, Stopping, LastAsk
<1>6. /\ IsFiniteSet(Stopping') /\ Cardinality(Stopping') <= outages + 1
      /\ Cardinality(LastAsk') \in Nat /\ Cardinality(LastAsk) \in Nat /\ Cardinality(LastAsk') <= Cardinality(LastAsk) + 1
  <2>1. /\ IsFiniteSet(LastAsk) /\ IsFiniteSet(Stopping) /\ Cardinality(Stopping) <= outages
        /\ Cardinality(LastAsk) \in Nat /\ Cardinality(Stopping) \in Nat
    BY AskCounts DEF OutboxInv, ClaimsPaid
  <2>2. /\ IsFiniteSet(Stopping \cup {p}) /\ Cardinality(Stopping \cup {p}) <= Cardinality(Stopping) + 1
        /\ IsFiniteSet(LastAsk \cup {p}) /\ Cardinality(LastAsk \cup {p}) <= Cardinality(LastAsk) + 1
    <3> HIDE DEF LastAsk, Stopping
    <3>1. /\ IsFiniteSet(Stopping \cup {p})
          /\ Cardinality(Stopping \cup {p}) = IF p \in Stopping THEN Cardinality(Stopping) ELSE Cardinality(Stopping) + 1
      BY <2>1, FS_AddElement
    <3>2. /\ IsFiniteSet(LastAsk \cup {p})
          /\ Cardinality(LastAsk \cup {p}) = IF p \in LastAsk THEN Cardinality(LastAsk) ELSE Cardinality(LastAsk) + 1
      BY <2>1, FS_AddElement
    <3> QED BY <2>1, <3>1, <3>2
  <2>3. Cardinality(Stopping \cup {p}) \in Nat /\ Cardinality(LastAsk \cup {p}) \in Nat
    BY <2>2, FS_CardinalityType
  <2>4. IsFiniteSet(LastAsk') /\ Cardinality(LastAsk') <= Cardinality(LastAsk \cup {p})
    BY <1>5, <2>2, FS_Subset
  <2>5. Cardinality(LastAsk') \in Nat /\ outages \in Nat
    BY <2>4, FS_CardinalityType, SceneFacts DEF OutboxInv
  <2> HIDE DEF LastAsk, Stopping
  <2> QED BY <1>5, <2>1, <2>2, <2>3, <2>4, <2>5
<1>7. ASSUME NEW e \in Entries PROVE Paid(e)'
  <2>1. Paid(e) /\ entry[e].n \in Nat /\ Charge(e) \in {0, 1}
    BY RowFacts DEF OutboxInv, ClaimsPaid
  <2>2. Charge(e)' \in {0, 1}
    BY DEF Charge
  <2>3. Limit \in Nat /\ faults \in Nat /\ outages \in Nat
    BY SceneFacts DEF OutboxInv
  <2> HIDE DEF Charge, LastAsk
  <2> QED BY <1>1, <1>6, <2>1, <2>2, <2>3 DEF Paid
<1>8. ClaimsPaid'
  BY <1>1, <1>6, <1>7 DEF OutboxInv, ClaimsPaid
<1> QED BY <1>2, <1>3, <1>4, <1>8 DEF OutboxInv

\* A stopping process was charged for its attempts when it was told to stop.
LEMMA ExitOutbox == ASSUME OutboxInv, NEW p \in Procs, Exit(p) PROVE OutboxInv'
<1> DEFINE mine == Running(p)
<1>1. /\ \/ proc[p] = "stopping" /\ outages' = outages
         \/ proc[p] = "up" /\ outages < scene.outages /\ outages' = outages + 1
      /\ proc' = [proc EXCEPT ![p] = "down"]
      /\ \E late \in SUBSET {c \in mine : stage[c] = "sending"} : seen' = seen \cup late
      /\ stage' = [c \in Claims |-> IF c \in mine THEN "ended" ELSE stage[c]]
      /\ pass' = [pass EXCEPT ![p] = Idle] /\ again' = [again EXCEPT ![p] = FALSE]
      /\ wake' = [wake EXCEPT ![p] = FALSE] /\ asks' = [asks EXCEPT ![p] = NoAsks]
      /\ UNCHANGED <<scene, entry, home, faults, overtaken, cleared>>
  BY DEF Exit, At
<1>2. mine \subseteq Claims /\ \A c \in mine : stage[c] \in Active /\ home[c] = p
  BY DEF Running
<1> HIDE DEF mine
<1>3. OutboxTyped'
  <2>1. outages' \in 0..scene.outages
    BY <1>1, SceneFacts DEF OutboxInv
  <2>2. stage' \in [Claims -> Active \cup {"none", "ended"}]
    BY <1>1 DEF OutboxInv, OutboxTyped
  <2>3. asks' \in [Procs -> [AskKinds -> Nat]]
    BY <1>1 DEF OutboxInv, OutboxTyped, NoAsks, AskKinds
  <2>4. pass' \in [Procs -> Waiting \cup {Got(c) : c \in Claims}]
    BY <1>1 DEF OutboxInv, OutboxTyped, Waiting
  <2>5. seen' \subseteq Claims
    BY <1>1, <1>2 DEF OutboxInv, OutboxTyped
  <2> QED BY <1>1, <2>1, <2>2, <2>3, <2>4, <2>5 DEF OutboxInv, OutboxTyped
<1>4. \A c \in Claims : /\ stage'[c] = "none" <=> stage[c] = "none"
                        /\ c \notin mine => stage'[c] = stage[c]
  BY <1>1, <1>2 DEF Active, Answers
<1>5. pass'[p] = Idle /\ \A q \in Procs : q # p => pass'[q] = pass[q] /\ proc'[q] = proc[q]
  BY <1>1 DEF OutboxInv, OutboxTyped
<1>7. Numbered'
  <2>1. \A c \in Claims : stage'[c] # "none" => c[2] <= entry'[c[1]].n /\ home'[c] \in Procs
    BY <1>1, <1>4 DEF OutboxInv, Numbered
  <2>2. ASSUME NEW q \in Procs, pass'[q].at = "got"
        PROVE  /\ stage'[pass'[q].claim] = "none" /\ pass'[q].claim[2] <= entry'[pass'[q].claim[1]].n
               /\ \A u \in Procs : pass'[u] = pass'[q] => u = q
    <3>1. q # p /\ pass'[q] = pass[q]
      BY <1>5, <2>2 DEF Idle
    <3>2. pass[q].claim \in Claims
      BY <2>2, <3>1, PassFacts DEF OutboxInv
    <3>3. \A u \in Procs : pass'[u] = pass'[q] => u # p
      BY <1>5, <2>2 DEF Idle
    <3> QED BY <1>1, <1>4, <1>5, <2>2, <3>1, <3>2, <3>3 DEF OutboxInv, Numbered
  <2> QED BY <2>1, <2>2 DEF Numbered
<1>8. DownIsIdle' /\ Leases'
  BY <1>1, <1>5 DEF OutboxInv, DownIsIdle, Leases, Idle
<1>9. Stopping' = Stopping \ {p} /\ LastAsk' \subseteq LastAsk
  <2>1. proc'[p] = "down" /\ pass'[p].at # "asked"
    BY <1>1, <1>5 DEF OutboxInv, OutboxTyped, Idle
  <2> QED BY <1>5, <2>1 DEF Stopping, LastAsk
<1>10. /\ IsFiniteSet(Stopping') /\ Cardinality(Stopping') <= outages /\ Cardinality(Stopping') \in Nat
       /\ Cardinality(LastAsk') \in Nat /\ Cardinality(LastAsk) \in Nat /\ Cardinality(LastAsk') <= Cardinality(LastAsk)
  <2>1. /\ IsFiniteSet(LastAsk) /\ IsFiniteSet(Stopping) /\ Cardinality(Stopping) <= outages
        /\ Cardinality(LastAsk) \in Nat /\ Cardinality(Stopping) \in Nat /\ outages \in Nat
    BY AskCounts, SceneFacts DEF OutboxInv, ClaimsPaid
  <2>2. /\ IsFiniteSet(Stopping') /\ Cardinality(Stopping') <= Cardinality(Stopping)
        /\ IsFiniteSet(LastAsk') /\ Cardinality(LastAsk') <= Cardinality(LastAsk)
    BY <1>9, <2>1, FS_Subset
  <2>3. Cardinality(Stopping') \in Nat /\ Cardinality(LastAsk') \in Nat
    BY <2>2, FS_CardinalityType
  <2> HIDE DEF LastAsk, Stopping
  <2> QED BY <2>1, <2>2, <2>3
<1>11. ASSUME NEW e \in Entries PROVE Charge(e)' <= Charge(e) + (outages' - outages)
  <2>1. Charge(e) \in {0, 1} /\ Charge(e)' \in {0, 1} /\ outages \in Nat
    BY SceneFacts DEF Charge, OutboxInv
  <2>2. CASE outages' = outages + 1
    <3> HIDE DEF Charge
    <3> QED BY <2>1, <2>2
  <2>3. CASE outages' = outages
    <3>1. p \in Stopping
      BY <1>1, <2>1, <2>3 DEF Stopping
    <3>2. SUFFICES ASSUME Charged(e)' PROVE Charged(e)
      BY <2>1, <2>3 DEF Charge
    <3>3. entry[e].lease # "none" /\ Current(e)' = Current(e) /\ Current(e) \in Claims
      BY <1>1, <3>2, RowFacts DEF Charged, Current, OutboxInv, Leases
    <3>4. SUFFICES ASSUME Sound(Current(e)) PROVE Sound(Current(e))'
      BY <1>1, <3>2, <3>3 DEF Charged
    <3>5. CASE \E q \in Procs \ Stopping : pass[q] = Got(Current(e))
      BY <1>5, <1>9, <3>1, <3>3, <3>5 DEF Sound
    <3>6. CASE stage[Current(e)] \in Working /\ home[Current(e)] \notin Stopping
      <4>1. Current(e) \notin mine
        BY <1>2, <3>1, <3>6
      <4> QED BY <1>1, <1>4, <1>9, <3>3, <3>6, <4>1 DEF Sound
    <3> QED BY <3>4, <3>5, <3>6 DEF Sound
  <2> QED BY <1>1, <2>2, <2>3
<1>12. ASSUME NEW e \in Entries PROVE Paid(e)'
  <2>1. Paid(e) /\ entry[e].n \in Nat /\ Charge(e) \in {0, 1}
    BY RowFacts DEF OutboxInv, ClaimsPaid
  <2>2. Charge(e)' \in {0, 1}
    BY DEF Charge
  <2>3. Limit \in Nat /\ faults \in Nat /\ outages \in Nat /\ outages' \in {outages, outages + 1}
    BY <1>1, SceneFacts DEF OutboxInv
  <2>4. Charge(e)' <= Charge(e) + (outages' - outages)
    BY <1>11
  <2> HIDE DEF Charge, LastAsk
  <2> QED BY <1>1, <1>10, <2>1, <2>2, <2>3, <2>4 DEF Paid
<1>13. ClaimsPaid'
  <2>1. Cardinality(Stopping') <= outages'
    <3>1. outages \in Nat /\ outages' \in {outages, outages + 1}
      BY <1>1, SceneFacts DEF OutboxInv
    <3> HIDE DEF Stopping
    <3> QED BY <1>10, <3>1
  <2> QED BY <1>1, <1>10, <1>12, <2>1 DEF OutboxInv, ClaimsPaid
<1> QED BY <1>3, <1>7, <1>8, <1>13 DEF OutboxInv

LEMMA StartOutbox == ASSUME OutboxInv, NEW p \in Procs, Start(p) PROVE OutboxInv'
<1>1. /\ proc[p] = "down" /\ proc' = [proc EXCEPT ![p] = "up"] /\ pass' = [pass EXCEPT ![p] = Asking]
      /\ UNCHANGED <<scene, entry, stage, home, again, wake, asks, faults, outages, seen, overtaken, cleared>>
  BY DEF Start, attempts, bounds, past
<1>2. /\ pass[p].at \notin {"asked", "got"} /\ pass'[p] = Asking /\ proc'[p] = "up"
      /\ \A q \in Procs : q # p => pass'[q] = pass[q] /\ proc'[q] = proc[q]
  BY <1>1 DEF OutboxInv, OutboxTyped, DownIsIdle
<1>3. OutboxTyped'
  BY <1>1 DEF OutboxInv, OutboxTyped, Waiting
<1>4. Numbered'
  <2>1. \A q \in Procs : pass'[q].at = "got" => q # p /\ pass'[q] = pass[q]
    BY <1>2, WaitingFacts
  <2>2. \A q \in Procs : pass'[q].at = "got" => \A u \in Procs : pass'[u] = pass'[q] => u # p
    BY <1>2, WaitingFacts
  <2> QED BY <1>1, <1>2, <2>1, <2>2 DEF OutboxInv, Numbered
<1>5. DownIsIdle' /\ Leases'
  BY <1>1, <1>2 DEF OutboxInv, DownIsIdle, Leases
<1>6. Stopping' = Stopping /\ LastAsk' \subseteq LastAsk
  BY <1>1, <1>2 DEF Stopping, LastAsk
<1>7. ASSUME NEW e \in Entries, Charged(e)' PROVE Charged(e)
  <2>1. Current(e)' = Current(e)
    BY <1>1 DEF Current
  <2>2. \A q \in Procs : pass[q] = Got(Current(e)) => q # p
    BY <1>2 DEF Got
  <2> QED BY <1>1, <1>2, <1>6, <1>7, <2>1, <2>2 DEF Charged, Sound
<1>8. ClaimsPaid'
  <2>1. faults' >= faults
    BY <1>1, SceneFacts DEF OutboxInv
  <2> HIDE DEF Charged
  <2> QED BY <1>1, <1>3, <1>6, <1>7, <2>1, PaidKept
<1> QED BY <1>3, <1>4, <1>5, <1>8 DEF OutboxInv

-----------------------------------------------------------------------------
LEMMA InitOutbox == ASSUME Init PROVE OutboxInv
<1>1. scene \in SceneType /\ MaxClaims \in Nat /\ Limit \in Nat \ {0}
  BY ConstantsAssumption DEF Init
<1>2. scene.faults \in Nat /\ scene.outages \in Nat
  BY <1>1 DEF SceneType
<1>3. 0 \in 0..MaxClaims /\ 0 \in 0..scene.faults /\ 0 \in 0..scene.outages
  BY <1>1, <1>2
<1>4. OutboxTyped
  <2>1. entry \in [Entries -> EntryRow]
    BY <1>3 DEF Init, EntryRow
  <2>2. asks \in [Procs -> [AskKinds -> Nat]]
    BY DEF Init, NoAsks, AskKinds
  <2>3. pass \in [Procs -> Waiting \cup {Got(c) : c \in Claims}]
    BY WaitingFacts DEF Init
  <2> QED BY <1>3, <2>1, <2>2, <2>3 DEF Init, OutboxTyped
<1>5. Numbered
  BY WaitingFacts DEF Init, Numbered
<1>6. DownIsIdle /\ Leases
  BY <1>1, WaitingFacts DEF Init, DownIsIdle, Leases
<1>7. ClaimsPaid
  <2>1. Stopping = {} /\ LastAsk = {}
    BY DEF Init, Stopping, LastAsk
  <2>2. IsFiniteSet(Stopping) /\ Cardinality(Stopping) = 0 /\ Cardinality(LastAsk) = 0
    BY <2>1, FS_EmptySet
  <2>3. \A e \in Entries : entry[e].n = 0 /\ Charge(e) = 0
    BY DEF Init, Charge, Charged
  <2> HIDE DEF Stopping, LastAsk, Charge
  <2> QED BY <1>1, <1>2, <2>2, <2>3 DEF Init, ClaimsPaid, Paid
<1> QED BY <1>4, <1>5, <1>6, <1>7 DEF OutboxInv

LEMMA NextOutbox == ASSUME OutboxInv, [Next]_vars PROVE OutboxInv'
<1>1. ASSUME NEW e \in Entries, NEW p \in Procs, Insert(e, p) PROVE OutboxInv'
  BY <1>1, InsertOutbox
<1>2. ASSUME NEW p \in Procs, ClaimStatement(p) PROVE OutboxInv'
  BY <1>2, ClaimOutbox
<1>3. ASSUME NEW p \in Procs, Resume(p) PROVE OutboxInv'
  BY <1>3, ResumeOutbox
<1>4. ASSUME NEW p \in Procs, ResumeEmpty(p) \/ NextAt(p) \/ ScheduleWake(p) \/ Tick(p) PROVE OutboxInv'
  BY <1>4, ResumeEmptyOutbox, AskOutbox, TickOutbox
<1>5. ASSUME NEW p \in Procs, Stop(p) \/ Exit(p) \/ Start(p) PROVE OutboxInv'
  BY <1>5, StopOutbox, ExitOutbox, StartOutbox
<1>6. ASSUME NEW c \in Claims, Work(c) PROVE OutboxInv'
  BY <1>6, AttemptOutbox, SettleOutbox DEF Work
<1>7. ASSUME NEW e \in Entries, FallsDue(e) \/ LeaseEnds(e) \/ LeaseEndsLate(e) PROVE OutboxInv'
  BY <1>7, ClockOutbox
<1>8. CASE UNCHANGED vars
  <2>1. /\ UNCHANGED <<scene, entry, stage, home, pass, again, wake, asks, proc, faults, outages, seen, overtaken, cleared>>
        /\ PassesMove
    BY <1>8 DEF vars, attempts, pollVars, bounds, past, PassesMove
  <2>2. OutboxTyped' /\ faults' >= faults
    BY <2>1, SceneFacts DEF OutboxInv, OutboxTyped
  <2> QED BY <2>1, <2>2, PollKeeps
<1> QED BY <1>1, <1>2, <1>3, <1>4, <1>5, <1>6, <1>7, <1>8 DEF Next

\* Claims carry the numbers they were given, a lease is of a pending entry, and
\* every claim of an entry beyond its attempts is paid for by a statement that was
\* lost, a lease that ended under a live sender, or a process that was stopped.
THEOREM OutboxInvariant == Spec => []OutboxInv
<1>1. Init => OutboxInv
  BY InitOutbox
<1>2. OutboxInv /\ [Next]_vars => OutboxInv'
  BY NextOutbox
<1> QED BY <1>1, <1>2, PTL DEF Spec

-----------------------------------------------------------------------------
(* Questions about the next due entry: AsksBounded, and so TypeOK.         *)

LEMMA NextAsks == ASSUME OutboxInv, AsksBounded, [Next]_vars PROVE AsksBounded'
<1>1. \A q \in Procs : OpenAsks(q) \in Nat /\ OpenAsks(q) <= scene.asks
  BY DEF OutboxInv, OutboxTyped, AskKinds, OpenAsks, AsksBounded
<1>2. scene.asks \in Nat
  BY SceneFacts DEF OutboxInv
<1>3. CASE asks' = asks /\ scene' = scene
  BY <1>3 DEF AsksBounded, OpenAsks
<1>4. ASSUME NEW p \in Procs, ResumeEmpty(p) PROVE AsksBounded'
  <2>1. scene' = scene
    BY <1>4 DEF ResumeEmpty, past
  <2>2. asks' = asks \/ (OpenAsks(p) < scene.asks /\ asks' = [asks EXCEPT ![p]["asked"] = @ + 1])
    BY <1>4, EndPassTyped DEF ResumeEmpty, OutboxInv
  <2>3. CASE OpenAsks(p) < scene.asks /\ asks' = [asks EXCEPT ![p]["asked"] = @ + 1]
    <3>1. OpenAsks(p)' = OpenAsks(p) + 1 /\ \A q \in Procs : q # p => asks'[q] = asks[q]
      BY <2>3, AskTyped DEF OutboxInv
    <3>2. \A q \in Procs : q # p => OpenAsks(q)' = OpenAsks(q)
      BY <3>1 DEF OpenAsks
    <3>3. OpenAsks(p)' <= scene.asks
      <4> HIDE DEF OpenAsks
      <4> QED BY <1>1, <1>2, <2>3, <3>1
    <3> HIDE DEF OpenAsks
    <3> QED BY <1>1, <2>1, <3>2, <3>3 DEF AsksBounded
  <2> QED BY <1>3, <2>1, <2>2, <2>3
<1>5. ASSUME NEW p \in Procs, NextAt(p) \/ ScheduleWake(p) PROVE AsksBounded'
  <2>1. scene' = scene
    BY <1>5 DEF NextAt, ScheduleWake, past
  <2>2. OpenAsks(p)' \in {OpenAsks(p), OpenAsks(p) - 1} /\ \A q \in Procs : q # p => asks'[q] = asks[q]
    <3>1. CASE NextAt(p)
      BY <3>1, AskAnswered DEF NextAt, OutboxInv
    <3>2. CASE ScheduleWake(p)
      BY <3>2, AskClosed DEF ScheduleWake, OutboxInv
    <3> QED BY <1>5, <3>1, <3>2
  <2>3. \A q \in Procs : q # p => OpenAsks(q)' = OpenAsks(q)
    BY <2>2 DEF OpenAsks
  <2> HIDE DEF OpenAsks
  <2>4. \A q \in Procs : OpenAsks(q)' <= scene.asks
    BY <1>1, <1>2, <2>2, <2>3
  <2> QED BY <2>1, <2>4 DEF AsksBounded
<1>6. ASSUME NEW p \in Procs, Exit(p) PROVE AsksBounded'
  <2>1. scene' = scene /\ asks' = [asks EXCEPT ![p] = NoAsks]
    BY <1>6 DEF Exit
  <2>2. OpenAsks(p)' = 0 /\ \A q \in Procs : q # p => OpenAsks(q)' = OpenAsks(q)
    BY <2>1 DEF OpenAsks, NoAsks, OutboxInv, OutboxTyped
  <2> HIDE DEF OpenAsks
  <2> QED BY <1>1, <1>2, <2>1, <2>2 DEF AsksBounded
<1>7. ASSUME NEW e \in Entries, NEW p \in Procs, Insert(e, p) PROVE AsksBounded'
  BY <1>3, <1>7 DEF Insert, Kick, past
<1>8. ASSUME NEW p \in Procs, ClaimStatement(p) \/ Resume(p) \/ Tick(p) \/ Stop(p) \/ Start(p) PROVE AsksBounded'
  BY <1>3, <1>8 DEF ClaimStatement, Resume, Tick, Stop, Start, Kick, past
<1>9. ASSUME NEW c \in Claims, Work(c) PROVE AsksBounded'
  BY <1>3, <1>9 DEF Work, Prepare, Send, Settle, End, Kick, pollVars, past
<1>10. ASSUME NEW e \in Entries, FallsDue(e) \/ LeaseEnds(e) \/ LeaseEndsLate(e) PROVE AsksBounded'
  BY <1>3, <1>10 DEF FallsDue, LeaseEnds, LeaseEndsLate, pollVars, past
<1>11. CASE UNCHANGED vars
  BY <1>3, <1>11 DEF vars, pollVars, past
<1> QED BY <1>4, <1>5, <1>6, <1>7, <1>8, <1>9, <1>10, <1>11 DEF Next

LEMMA OutboxTypes == ASSUME OutboxInv, AsksBounded PROVE TypeOK
<1>1. \A e \in Entries : entry[e].n <= Limit + scene.faults + 2 * scene.outages
  <2> SUFFICES ASSUME NEW e \in Entries PROVE entry[e].n <= Limit + scene.faults + 2 * scene.outages
    OBVIOUS
  <2>1. Paid(e) /\ entry[e].n \in Nat /\ Charge(e) \in {0, 1} /\ Cardinality(LastAsk) \in Nat
    BY RowFacts, AskCounts DEF OutboxInv, ClaimsPaid
  <2>2. /\ Limit \in Nat /\ faults \in Nat /\ outages \in Nat /\ scene.faults \in Nat /\ scene.outages \in Nat
        /\ faults <= scene.faults /\ outages <= scene.outages
    BY SceneFacts DEF OutboxInv
  <2> HIDE DEF Charge, LastAsk
  <2> QED BY <2>1, <2>2 DEF Paid
<1>2. asks \in [Procs -> [{"asked", "nothing", "something", "failed"} -> 0..scene.asks]]
  <2>1. ASSUME NEW p \in Procs PROVE asks[p] \in [{"asked", "nothing", "something", "failed"} -> 0..scene.asks]
    <3>1. asks[p] \in [{"asked", "nothing", "something", "failed"} -> Nat] /\ scene.asks \in Nat
      BY SceneFacts DEF OutboxInv, OutboxTyped, AskKinds
    <3>2. asks[p]["asked"] + asks[p]["nothing"] + asks[p]["something"] + asks[p]["failed"] <= scene.asks
      BY DEF AsksBounded, OpenAsks
    <3>3. \A k \in {"asked", "nothing", "something", "failed"} : asks[p][k] \in 0..scene.asks
      BY <3>1, <3>2
    <3> QED BY <3>1, <3>3
  <2> QED BY <2>1 DEF OutboxInv, OutboxTyped
<1>3. \A p \in Procs : pass[p].at \in {"idle", "asked", "empty", "failed", "got"}
  BY PassFacts DEF OutboxInv
<1> QED BY <1>1, <1>2, <1>3 DEF OutboxInv, OutboxTyped, EntryRow, TypeOK

\* The state of the outbox is well formed, no entry is claimed more often than its
\* attempts, its faults and its outages pay for, and no kind of question outgrows
\* the bound on all of them.
THEOREM OutboxTypeOK == Spec => []TypeOK
<1>1. Init => AsksBounded
  <2> SUFFICES ASSUME Init PROVE AsksBounded
    OBVIOUS
  <2>1. scene.asks \in Nat
    BY InitOutbox, SceneFacts DEF OutboxInv
  <2> QED BY <2>1 DEF Init, NoAsks, AsksBounded, OpenAsks
<1>2. OutboxInv /\ AsksBounded /\ [Next]_vars => AsksBounded'
  BY NextAsks
<1>3. OutboxInv /\ AsksBounded => TypeOK
  BY OutboxTypes
<1> QED BY <1>1, <1>2, <1>3, OutboxInvariant, PTL DEF Spec

-----------------------------------------------------------------------------
(* One sender at a time: SenderInv, given OutboxInv before the step.       *)

\* What a step leaves of the requests under way and of those that arrived.
RequestsMove ==
    \A c \in Claims :
        /\ stage'[c] = "sending" => stage[c] = "sending" \/ c[2] <= Limit
        /\ c \in seen' => c \in seen \/ stage[c] = "sending"

\* A step that hands out no claim, and takes no lease from a claim still in hand
\* unless that is remembered.
LEMMA SenderKeeps ==
    ASSUME OutboxInv, SenderInv, RequestsMove, overtaken \subseteq overtaken',
           \A e \in Entries : entry'[e].n = entry[e].n /\ (entry[e].n > Limit => entry'[e].last = entry[e].last),
           \A c \in Claims : InHand(c)' => /\ InHand(c)
                                           /\ c[1] \in overtaken' \/ entry'[c[1]].lease = entry[c[1]].lease
    PROVE  SenderInv'
<1>1. \A c \in Claims : c[1] \in Entries
  BY ClaimFacts DEF OutboxInv
<1>2. InHandIsLast'
  <2> HIDE DEF InHand
  <2> QED BY <1>1 DEF SenderInv, InHandIsLast, Current
<1>3. WithinLimit'
  BY DEF RequestsMove, SenderInv, WithinLimit
<1>4. LateIsUncertain'
  BY DEF SenderInv, LateIsUncertain
<1> QED BY <1>2, <1>3, <1>4 DEF SenderInv

\* No claim is handed to a pass or taken up again.
HandsMove ==
    \A c \in Claims :
        /\ stage'[c] \in Working => stage[c] \in Working
        /\ \A p \in Procs : pass'[p] = Got(c) => pass[p] = Got(c)

LEMMA HandsKeep ==
    ASSUME HandsMove, NEW c \in Claims, InHand(c)'
    PROVE  InHand(c)
BY DEF HandsMove, InHand

\* A step of a process that leaves the entries alone and takes up no claim.
LEMMA ProcessSender ==
    ASSUME OutboxInv, SenderInv, RequestsMove, HandsMove, UNCHANGED <<entry, overtaken>>
    PROVE  SenderInv'
<1> HIDE DEF InHand
<1> QED BY HandsKeep, SenderKeeps

LEMMA PassesKeepHands ==
    ASSUME PassesMove, NEW c, NEW p \in Procs, pass'[p] = Got(c)
    PROVE  pass[p] = Got(c)
<1>1. pass'[p] \notin Waiting
  BY WaitingFacts
<1> QED BY <1>1 DEF PassesMove

LEMMA InsertSender == ASSUME OutboxInv, SenderInv, NEW e \in Entries, NEW p \in Procs, Insert(e, p) PROVE SenderInv'
<1>1. /\ entry' = [entry EXCEPT ![e].state = "pending"] /\ UNCHANGED <<stage, home, proc, seen, overtaken>>
      /\ Kick(p, Cardinality(Running(p))) \/ UNCHANGED <<pass, again, asks>>
  BY DEF Insert, attempts, past
<1>2. PassesMove
  BY <1>1, KickMoves DEF OutboxInv, PassesMove
<1>3. RequestsMove /\ HandsMove
  BY <1>1, <1>2, PassesKeepHands DEF RequestsMove, HandsMove
<1>4. \A i \in Entries : entry'[i].n = entry[i].n /\ entry'[i].last = entry[i].last /\ entry'[i].lease = entry[i].lease
  <2> DEFINE row == [entry[e] EXCEPT !.state = "pending"]
  <2>1. row.n = entry[e].n /\ row.last = entry[e].last /\ row.lease = entry[e].lease
    BY RowFacts DEF OutboxInv, EntryRow
  <2>2. entry' = [entry EXCEPT ![e] = row]
    BY <1>1
  <2> HIDE DEF row
  <2> QED BY <2>1, <2>2 DEF OutboxInv, OutboxTyped
<1>5. \A c \in Claims : c[1] \in Entries
  BY ClaimFacts DEF OutboxInv
<1> HIDE DEF InHand
<1> QED BY <1>1, <1>3, <1>4, <1>5, HandsKeep, SenderKeeps

LEMMA PollSender ==
    ASSUME OutboxInv, SenderInv, NEW p \in Procs, ResumeEmpty(p) \/ NextAt(p) \/ ScheduleWake(p) \/ Tick(p) \/ Stop(p) \/ Start(p)
    PROVE  SenderInv'
<1>1. UNCHANGED <<entry, stage, seen, overtaken>>
  BY DEF ResumeEmpty, NextAt, ScheduleWake, Tick, Stop, Start, attempts, past
<1>2. \A q \in Procs : pass'[q] = pass[q] \/ pass'[q] \in Waiting
  <2>1. CASE ResumeEmpty(p)
    BY <2>1, EndPassTyped, WaitingFacts DEF ResumeEmpty, OutboxInv, OutboxTyped
  <2>2. CASE NextAt(p) \/ ScheduleWake(p) \/ Stop(p)
    BY <2>2 DEF NextAt, ScheduleWake, Stop
  <2>3. CASE Tick(p)
    BY <2>3, KickMoves DEF Tick, PassesMove, OutboxInv
  <2>4. CASE Start(p)
    BY <2>4, WaitingFacts DEF Start, OutboxInv, OutboxTyped
  <2> QED BY <2>1, <2>2, <2>3, <2>4
<1>3. RequestsMove /\ HandsMove
  BY <1>1, <1>2, WaitingFacts DEF RequestsMove, HandsMove
<1> QED BY <1>1, <1>3, ProcessSender

LEMMA ClaimSender == ASSUME OutboxInv, SenderInv, NEW p \in Procs, ClaimStatement(p) PROVE SenderInv'
<1>1. CASE \E e \in Entries : Takes(p, e)
  <2>1. PICK e \in Entries : Takes(p, e)
    BY <1>1
  <2> DEFINE c == <<e, entry[e].n + 1>>
  <2>2. /\ entry'[e].n = entry[e].n + 1 /\ entry'[e].lease = "live" /\ entry[e].n \in Nat /\ c \in Claims
        /\ entry'[e].last = IF entry[e].lease = "none" THEN entry[e].last ELSE "uncertain"
        /\ \A i \in Entries : i # e => entry'[i] = entry[i]
    BY <2>1, LeasedFacts DEF Takes
  <2>3. /\ Claimable(e) /\ UNCHANGED <<stage, seen, overtaken>>
        /\ \A q \in Procs : pass'[q] = pass[q] \/ pass'[q] = Got(c) \/ pass'[q] \in Waiting
    BY <2>1, WaitingFacts DEF Takes, OutboxInv, OutboxTyped
  <2>4. InHandIsLast'
    <3> SUFFICES ASSUME NEW d \in Claims, InHand(d)', d[1] \notin overtaken
                 PROVE  d = <<d[1], entry'[d[1]].n>> /\ entry'[d[1]].lease = "live"
      BY <2>3 DEF InHandIsLast, Current
    <3>1. d[1] \in Entries
      BY ClaimFacts DEF OutboxInv
    <3>2. CASE d = c
      BY <2>2, <3>2
    <3>3. CASE d # c
      <4>1. \A q \in Procs : pass'[q] = Got(d) => pass[q] = Got(d)
        BY <2>3, <3>3, WaitingFacts DEF Got
      <4>2. InHand(d)
        BY <2>3, <4>1 DEF InHand
      <4>3. d = <<d[1], entry[d[1]].n>> /\ entry[d[1]].lease = "live"
        BY <4>2 DEF SenderInv, InHandIsLast, Current
      <4>4. d[1] # e
        BY <2>3, <4>3 DEF Claimable
      <4> QED BY <2>2, <3>1, <4>3, <4>4
    <3> QED BY <3>2, <3>3
  <2>5. WithinLimit'
    BY <2>3 DEF SenderInv, WithinLimit
  <2>6. LateIsUncertain'
    <3>1. entry'[e].n > Limit => entry'[e].last = "uncertain"
      <4>1. CASE entry[e].lease = "none"
        <5>1. entry[e].n < Limit
          BY <2>3, <4>1 DEF Claimable, OutboxInv, Leases
        <5> QED BY <2>2, <5>1, SceneFacts DEF OutboxInv
      <4>2. CASE entry[e].lease # "none"
        BY <2>2, <4>2
      <4> QED BY <4>1, <4>2
    <3> QED BY <2>2, <3>1 DEF SenderInv, LateIsUncertain
  <2> QED BY <2>4, <2>5, <2>6 DEF SenderInv
<1>2. CASE /\ entry' = entry /\ (Answered \/ Fault) /\ \E new \in {Empty, Failed} : pass' = [pass EXCEPT ![p] = new]
           /\ UNCHANGED <<scene, stage, home, again, wake, asks, proc, seen, overtaken, cleared>>
  <2>1. RequestsMove /\ HandsMove
    BY <1>2, WaitingFacts DEF RequestsMove, HandsMove, OutboxInv, OutboxTyped
  <2> QED BY <1>2, <2>1, ProcessSender
<1> QED BY <1>1, <1>2, ClaimCases

LEMMA ResumeSender == ASSUME OutboxInv, SenderInv, NEW p \in Procs, Resume(p) PROVE SenderInv'
<1> DEFINE c == pass[p].claim
<1>1. /\ c \in Claims /\ pass[p] = Got(c) /\ UNCHANGED <<entry, seen, overtaken>>
      /\ stage' = [stage EXCEPT ![c] = "prepare"] /\ \A q \in Procs : pass'[q] = pass[q] \/ pass'[q] \in Waiting
  BY PassFacts, WaitingFacts DEF Resume, past, OutboxInv, OutboxTyped
<1> HIDE DEF c
<1>2. stage'[c] = "prepare" /\ \A d \in Claims : d # c => stage'[d] = stage[d]
  BY <1>1 DEF OutboxInv, OutboxTyped
<1>3. RequestsMove
  BY <1>1, <1>2 DEF RequestsMove
<1>4. \A d \in Claims : InHand(d)' => InHand(d)
  BY <1>1, <1>2, WaitingFacts DEF InHand
<1> HIDE DEF InHand
<1> QED BY <1>1, <1>3, <1>4, SenderKeeps

LEMMA AttemptSender == ASSUME OutboxInv, SenderInv, NEW c \in Claims, Prepare(c) \/ Send(c) \/ End(c) PROVE SenderInv'
<1>1. PICK s : /\ To(c, s) /\ (s \in Working => stage[c] \in Working) /\ (s = "sending" => c[2] <= Limit)
               /\ stage[c] # "none"
  <2>1. CASE Prepare(c)
    BY <2>1 DEF Prepare, At, Working, Answers
  <2>2. CASE Send(c)
    BY <2>2 DEF Send, At, Working, Answers
  <2>3. CASE End(c)
    BY <2>3 DEF End, At, Working, Answers
  <2> QED BY <2>1, <2>2, <2>3
<1>2. /\ UNCHANGED <<entry, overtaken>> /\ (seen' = seen \/ (stage[c] = "sending" /\ seen' \subseteq seen \cup {c}))
      /\ UNCHANGED <<pass, again, asks>> \/ Kick(home[c], Cardinality(Running(home[c]) \ {c}))
  BY DEF Prepare, Send, End, At, pollVars, past
<1>3. home[c] \in Procs
  BY <1>1 DEF OutboxInv, Numbered
<1>4. PassesMove
  BY <1>2, <1>3, KickMoves DEF OutboxInv, PassesMove
<1>5. stage'[c] = s /\ \A d \in Claims : d # c => stage'[d] = stage[d]
  BY <1>1 DEF To, OutboxInv, OutboxTyped
<1>6. RequestsMove
  BY <1>1, <1>2, <1>5 DEF RequestsMove
<1>7. HandsMove
  BY <1>1, <1>4, <1>5, PassesKeepHands DEF HandsMove
<1> QED BY <1>2, <1>6, <1>7, ProcessSender

LEMMA SettleSender == ASSUME OutboxInv, SenderInv, NEW c \in Claims, Settle(c) PROVE SenderInv'
<1>1. /\ stage[c] \in Answers /\ To(c, "ending")
      /\ entry' = entry \/ (Held(c) /\ entry' = Recorded(c))
      /\ UNCHANGED <<pass, seen, overtaken>>
  BY DEF Settle, pollVars, past
<1>2. stage'[c] = "ending" /\ \A d \in Claims : d # c => stage'[d] = stage[d]
  BY <1>1 DEF To, OutboxInv, OutboxTyped
<1>3. RequestsMove /\ HandsMove
  BY <1>1, <1>2 DEF RequestsMove, HandsMove, Working, Answers
<1>4. CASE entry' = entry
  BY <1>1, <1>3, <1>4, ProcessSender
<1>5. CASE Held(c) /\ entry' = Recorded(c)
  <2>1. c[1] \in Entries /\ c = Current(c[1]) /\ (\A d \in Claims : d = <<d[1], d[2]>> /\ d[1] \in Entries)
    BY <1>5, ClaimFacts DEF Held, Current, OutboxInv
  <2>2. /\ \A e \in Entries : e # c[1] => entry'[e] = entry[e]
        /\ entry'[c[1]].n = entry[c[1]].n
        /\ c[2] > Limit /\ entry[c[1]].last # "none" => entry'[c[1]].last = entry[c[1]].last
    BY <1>1, <1>5, RecordedFacts DEF OutboxInv
  <2>3. \A e \in Entries : entry'[e].n = entry[e].n /\ (entry[e].n > Limit => entry'[e].last = entry[e].last)
    BY <1>5, <2>1, <2>2 DEF SenderInv, LateIsUncertain, Held
  <2>4. ~InHand(c)'
    <3>1. stage[c] # "none" /\ stage'[c] \notin Working
      BY <1>1, <1>2 DEF Working, Answers
    <3>2. \A p \in Procs : pass[p] # Got(c)
      BY <3>1, PassFacts DEF OutboxInv, Numbered
    <3> QED BY <1>1, <3>1, <3>2 DEF InHand
  <2>5. ASSUME NEW d \in Claims, InHand(d)'
        PROVE  InHand(d) /\ (d[1] \in overtaken' \/ entry'[d[1]].lease = entry[d[1]].lease)
    <3>1. InHand(d) /\ d # c
      BY <1>3, <2>4, <2>5, HandsKeep
    <3>2. d[1] \notin overtaken => d[1] # c[1]
      <4> HIDE DEF InHand
      <4> QED BY <2>1, <3>1 DEF SenderInv, InHandIsLast
    <3> QED BY <1>1, <2>1, <2>2, <3>1, <3>2
  <2> HIDE DEF InHand
  <2> QED BY <1>1, <1>3, <2>3, <2>5, SenderKeeps
<1> QED BY <1>1, <1>4, <1>5

LEMMA ClockSender ==
    ASSUME OutboxInv, SenderInv, NEW e \in Entries, FallsDue(e) \/ LeaseEnds(e) \/ LeaseEndsLate(e)
    PROVE  SenderInv'
<1>1. /\ UNCHANGED <<stage, pass, seen>> /\ overtaken \subseteq overtaken'
      /\ \/ entry' = [entry EXCEPT ![e].due = TRUE]
         \/ entry' = [entry EXCEPT ![e].lease = "ended"] /\ (e \in overtaken' \/ ~Attended(e))
  BY DEF FallsDue, LeaseEnds, LeaseEndsLate, attempts, pollVars, past
<1>2. /\ \A i \in Entries : /\ i # e => entry'[i] = entry[i]
                            /\ entry'[i].n = entry[i].n /\ entry'[i].last = entry[i].last
      /\ entry'[e].lease = entry[e].lease \/ e \in overtaken' \/ ~Attended(e)
  <2>1. ASSUME NEW row, row.n = entry[e].n, row.last = entry[e].last, entry' = [entry EXCEPT ![e] = row]
        PROVE  entry'[e] = row /\ \A i \in Entries : /\ i # e => entry'[i] = entry[i]
                                                     /\ entry'[i].n = entry[i].n /\ entry'[i].last = entry[i].last
    BY <2>1 DEF OutboxInv, OutboxTyped
  <2>2. CASE entry' = [entry EXCEPT ![e].due = TRUE]
    <3> DEFINE row == [entry[e] EXCEPT !.due = TRUE]
    <3>1. row.n = entry[e].n /\ row.last = entry[e].last /\ row.lease = entry[e].lease
      BY RowFacts DEF OutboxInv, EntryRow
    <3>2. entry' = [entry EXCEPT ![e] = row]
      BY <2>2
    <3> HIDE DEF row
    <3> QED BY <2>1, <3>1, <3>2
  <2>3. CASE entry' = [entry EXCEPT ![e].lease = "ended"] /\ (e \in overtaken' \/ ~Attended(e))
    <3> DEFINE row == [entry[e] EXCEPT !.lease = "ended"]
    <3>1. row.n = entry[e].n /\ row.last = entry[e].last
      BY RowFacts DEF OutboxInv, EntryRow
    <3>2. entry' = [entry EXCEPT ![e] = row]
      BY <2>3
    <3> HIDE DEF row
    <3> QED BY <2>1, <2>3, <3>1, <3>2
  <2> QED BY <1>1, <2>2, <2>3
<1>3. RequestsMove /\ HandsMove
  BY <1>1 DEF RequestsMove, HandsMove
<1>4. ASSUME NEW c \in Claims, InHand(c)
      PROVE  c[1] \in overtaken' \/ entry'[c[1]].lease = entry[c[1]].lease
  <2>1. c[1] \in Entries
    BY ClaimFacts DEF OutboxInv
  <2>2. c[1] = e /\ e \notin overtaken => Attended(e)
    <3> SUFFICES ASSUME c[1] = e, e \notin overtaken PROVE Attended(e)
      OBVIOUS
    <3>1. c = <<e, entry[e].n>>
      <4> HIDE DEF InHand
      <4> QED BY <1>4 DEF SenderInv, InHandIsLast, Current
    <3> QED BY <1>4, <3>1 DEF InHand, Attended, Got, Working, Active
  <2> QED BY <1>1, <1>2, <2>1, <2>2
<1> HIDE DEF InHand
<1> QED BY <1>1, <1>2, <1>3, <1>4, HandsKeep, SenderKeeps

LEMMA ExitSender == ASSUME OutboxInv, SenderInv, NEW p \in Procs, Exit(p) PROVE SenderInv'
<1>1. /\ \E late \in SUBSET {c \in Running(p) : stage[c] = "sending"} : seen' = seen \cup late
      /\ stage' = [c \in Claims |-> IF c \in Running(p) THEN "ended" ELSE stage[c]]
      /\ pass' = [pass EXCEPT ![p] = Idle] /\ UNCHANGED <<entry, overtaken>>
  BY DEF Exit, At
<1>2. RequestsMove /\ HandsMove
  BY <1>1, WaitingFacts DEF RequestsMove, HandsMove, Working, Answers, OutboxInv, OutboxTyped
<1> QED BY <1>1, <1>2, ProcessSender

LEMMA NextSender == ASSUME OutboxInv, SenderInv, [Next]_vars PROVE SenderInv'
<1>1. ASSUME NEW e \in Entries, NEW p \in Procs, Insert(e, p) PROVE SenderInv'
  BY <1>1, InsertSender
<1>2. ASSUME NEW p \in Procs, ClaimStatement(p) \/ Resume(p) \/ Exit(p) PROVE SenderInv'
  BY <1>2, ClaimSender, ResumeSender, ExitSender
<1>3. ASSUME NEW p \in Procs, ResumeEmpty(p) \/ NextAt(p) \/ ScheduleWake(p) \/ Tick(p) \/ Stop(p) \/ Start(p) PROVE SenderInv'
  BY <1>3, PollSender
<1>4. ASSUME NEW c \in Claims, Work(c) PROVE SenderInv'
  BY <1>4, AttemptSender, SettleSender DEF Work
<1>5. ASSUME NEW e \in Entries, FallsDue(e) \/ LeaseEnds(e) \/ LeaseEndsLate(e) PROVE SenderInv'
  BY <1>5, ClockSender
<1>6. CASE UNCHANGED vars
  <2>1. RequestsMove /\ HandsMove /\ UNCHANGED <<entry, overtaken>>
    BY <1>6 DEF vars, attempts, pollVars, past, RequestsMove, HandsMove
  <2> QED BY <2>1, ProcessSender
<1> QED BY <1>1, <1>2, <1>3, <1>4, <1>5, <1>6 DEF Next

\* A claim that a pass holds or that is worked on is the last of its entry and holds
\* its lease, unless that lease ended under it; nothing past the limit is sent; and
\* a claim past the limit marks the attempt before it.
THEOREM SenderInvariant == Spec => []SenderInv
<1>1. Init => SenderInv
  <2> SUFFICES ASSUME Init PROVE SenderInv
    OBVIOUS
  <2>1. \A c \in Claims : ~InHand(c) /\ stage[c] # "sending" /\ c \notin seen
    BY WaitingFacts DEF Init, InHand, Working, Answers
  <2>2. \A e \in Entries : ~(entry[e].n > Limit)
    BY ConstantsAssumption DEF Init
  <2> HIDE DEF InHand
  <2> QED BY <2>1, <2>2 DEF SenderInv, InHandIsLast, WithinLimit, LateIsUncertain
<1>2. OutboxInv /\ SenderInv /\ [Next]_vars => SenderInv'
  BY NextSender
<1> QED BY <1>1, <1>2, OutboxInvariant, PTL DEF Spec

\* Claims of one entry within the limit are at most Limit.
LEMMA FewWithinLimit ==
    ASSUME OutboxTyped, NEW e \in Entries, NEW S \in SUBSET Claims, \A c \in S : c[1] = e /\ c[2] <= Limit
    PROVE  IsFiniteSet(S) /\ Cardinality(S) \in 0..Limit
<1> DEFINE f == [c \in S |-> c[2]]
<1>1. \A c \in S : c = <<e, c[2]>> /\ c[2] \in 1..Limit
  BY ClaimFacts, SceneFacts
<1>2. f \in Injection(S, 1..Limit)
  BY <1>1 DEF Injection, IsInjective
<1>3. Limit \in Nat /\ IsFiniteSet(1..Limit) /\ Cardinality(1..Limit) = Limit
  BY SceneFacts, FS_Interval
<1>4. IsFiniteSet(S) /\ Cardinality(S) <= Limit
  BY <1>2, <1>3, FS_Injection
<1>5. Cardinality(S) \in Nat
  BY <1>4, FS_CardinalityType
<1> QED BY <1>3, <1>4, <1>5

\* So the receiver got at most Limit requests of an entry.
LEMMA ArrivalsBounded ==
    ASSUME OutboxInv, SenderInv, NEW e \in Entries
    PROVE  IsFiniteSet(Arrivals(e)) /\ Cardinality(Arrivals(e)) \in 0..Limit
<1>1. Arrivals(e) \in SUBSET Claims /\ \A c \in Arrivals(e) : c[1] = e /\ c[2] <= Limit
  BY DEF Arrivals, OutboxInv, OutboxTyped, SenderInv, WithinLimit
<1> QED BY <1>1, FewWithinLimit DEF OutboxInv

\* Two requests of one entry are under way at a time only if a lease ended under a
\* sender that outlived it, and the receiver sees at most Limit of an entry.
THEOREM OutboxOneSender == Spec => []OneSenderAtATime
<1>1. OutboxInv /\ SenderInv => OneSenderAtATime
  <2> SUFFICES ASSUME OutboxInv, SenderInv PROVE OneSenderAtATime
    OBVIOUS
  <2>1. ASSUME NEW c \in Claims, NEW d \in Claims, c[1] = d[1], c[1] \notin overtaken, At(c, "sending"), At(d, "sending")
        PROVE  c = d
    <3>1. InHand(c) /\ InHand(d)
      BY <2>1 DEF InHand, At, Working
    <3> HIDE DEF InHand
    <3> QED BY <2>1, <3>1 DEF SenderInv, InHandIsLast
  <2>2. \A e \in Entries : Cardinality(Arrivals(e)) <= Limit
    BY ArrivalsBounded, SceneFacts DEF OutboxInv
  <2> QED BY <2>1, <2>2 DEF OneSenderAtATime
<1> QED BY <1>1, OutboxInvariant, SenderInvariant, PTL

\* An attempt that never recorded its answer is not written off as unsent.
THEOREM OutboxUnrecorded == Spec => []UnrecordedIsUncertain
<1>1. SenderInv => UnrecordedIsUncertain
  BY DEF SenderInv, LateIsUncertain, UnrecordedIsUncertain
<1> QED BY <1>1, SenderInvariant, PTL

-----------------------------------------------------------------------------
(* Settled entries stay settled.                                           *)

\* What a step may do to entry e.
EntryMoves(e) ==
    /\ entry[e].state \in {"acknowledged", "failed"} => entry'[e] = entry[e]
    /\ entry'[e].state = "acknowledged" /\ entry[e].state = "pending" => stage[<<e, entry[e].n>>] = "acknowledged"

LEMMA SettleFinal == ASSUME OutboxInv, NEW c \in Claims, Settle(c), NEW e \in Entries PROVE EntryMoves(e)
<1>1. stage[c] \in Answers /\ (entry' = entry \/ (Held(c) /\ entry' = Recorded(c)))
  BY DEF Settle
<1>2. CASE entry' = entry
  BY <1>2 DEF EntryMoves
<1>3. CASE Held(c) /\ entry' = Recorded(c)
  <2>1. c = <<c[1], entry[c[1]].n>> /\ entry[c[1]].state = "pending"
    BY <1>3, ClaimFacts DEF Held, OutboxInv
  <2>2. e # c[1] => entry'[e] = entry[e]
    BY <1>1, <1>3, RecordedFacts DEF OutboxInv
  <2>3. entry'[c[1]].state = "acknowledged" => stage[c] = "acknowledged"
    BY <1>1, <1>3, RecordedFacts DEF OutboxInv
  <2> QED BY <2>1, <2>2, <2>3 DEF EntryMoves
<1> QED BY <1>1, <1>2, <1>3

LEMMA NextEntries == ASSUME OutboxInv, [Next]_vars, NEW e \in Entries PROVE EntryMoves(e)
<1>1. ASSUME NEW i \in Entries, NEW row, entry[i].state \notin {"acknowledged", "failed"}, row.state # "acknowledged",
             entry' = [entry EXCEPT ![i] = row]
      PROVE  EntryMoves(e)
  BY <1>1 DEF OutboxInv, OutboxTyped, EntryMoves
<1>2. CASE entry' = entry
  BY <1>2 DEF EntryMoves
<1>3. ASSUME NEW i \in Entries, NEW p \in Procs, Insert(i, p) PROVE EntryMoves(e)
  <2> DEFINE row == [entry[i] EXCEPT !.state = "pending"]
  <2>1. row.state = "pending"
    BY RowFacts DEF OutboxInv, EntryRow
  <2>2. entry[i].state = "absent" /\ entry' = [entry EXCEPT ![i] = row]
    BY <1>3 DEF Insert
  <2> HIDE DEF row
  <2> QED BY <1>1, <2>1, <2>2
<1>4. ASSUME NEW p \in Procs, ClaimStatement(p) PROVE EntryMoves(e)
  <2>1. CASE \E i \in Entries : Takes(p, i)
    <3>1. PICK i \in Entries : Takes(p, i)
      BY <2>1
    <3>2. entry' = [entry EXCEPT ![i] = ClaimedRow(i)] /\ ClaimedRow(i).state = "pending" /\ entry[i].state = "pending"
      BY <3>1, LeasedFacts DEF Takes, Claimable
    <3> HIDE DEF ClaimedRow
    <3> QED BY <1>1, <3>2
  <2> QED BY <1>2, <1>4, <2>1, ClaimCases
<1>5. ASSUME NEW c \in Claims, Work(c) PROVE EntryMoves(e)
  <2>1. CASE Settle(c)
    BY <2>1, SettleFinal
  <2>2. CASE Prepare(c) \/ Send(c) \/ End(c)
    BY <1>2, <2>2 DEF Prepare, Send, End
  <2> QED BY <1>5, <2>1, <2>2 DEF Work
<1>6. ASSUME NEW i \in Entries, FallsDue(i) PROVE EntryMoves(e)
  <2> DEFINE row == [entry[i] EXCEPT !.due = TRUE]
  <2>1. entry[i].state = "pending" /\ row.state = entry[i].state
    BY <1>6, RowFacts DEF FallsDue, OutboxInv, EntryRow
  <2>2. entry' = [entry EXCEPT ![i] = row]
    BY <1>6 DEF FallsDue
  <2> HIDE DEF row
  <2> QED BY <1>1, <2>1, <2>2
<1>7. ASSUME NEW i \in Entries, LeaseEnds(i) \/ LeaseEndsLate(i) PROVE EntryMoves(e)
  <2> DEFINE row == [entry[i] EXCEPT !.lease = "ended"]
  <2>1. entry[i].lease = "live" /\ row.state = entry[i].state
    BY <1>7, RowFacts DEF LeaseEnds, LeaseEndsLate, OutboxInv, EntryRow
  <2>2. entry' = [entry EXCEPT ![i] = row]
    BY <1>7 DEF LeaseEnds, LeaseEndsLate
  <2>3. entry[i].state = "pending"
    BY <2>1 DEF OutboxInv, Leases
  <2> HIDE DEF row
  <2> QED BY <1>1, <2>1, <2>2, <2>3
<1>8. ASSUME NEW p \in Procs, Resume(p) \/ ResumeEmpty(p) \/ NextAt(p) \/ ScheduleWake(p) \/ Tick(p) \/ Stop(p) \/ Exit(p) \/ Start(p)
      PROVE  EntryMoves(e)
  BY <1>2, <1>8 DEF Resume, ResumeEmpty, NextAt, ScheduleWake, Tick, Stop, Exit, Start
<1>9. CASE UNCHANGED vars
  BY <1>2, <1>9 DEF vars
<1> QED BY <1>3, <1>4, <1>5, <1>6, <1>7, <1>8, <1>9 DEF Next

\* An entry that was acknowledged or has failed stays so, and only an acknowledged
\* answer to its last claim acknowledges it.
THEOREM OutboxSettledIsFinal == Spec => SettledIsFinal
<1>1. OutboxInv /\ [Next]_vars =>
        [\A e \in Entries :
            /\ entry[e].state \in {"acknowledged", "failed"} => entry'[e] = entry[e]
            /\ entry'[e].state = "acknowledged" /\ entry[e].state = "pending" =>
                  stage[<<e, entry[e].n>>] = "acknowledged"]_vars
  BY NextEntries DEF EntryMoves
<1> QED BY <1>1, OutboxInvariant, PTL DEF Spec, SettledIsFinal

-----------------------------------------------------------------------------
(* The refinement of DeliveryPromise.                                      *)

\* What was answered was received.
AnsweredWasSeen == \A c \in Claims : stage[c] \in {"acknowledged", "refused"} => c \in seen

LEMMA NextAnswered == ASSUME OutboxInv, AnsweredWasSeen, [Next]_vars PROVE AnsweredWasSeen'
<1>1. ASSUME seen \subseteq seen', \A c \in Claims : stage'[c] \in {"acknowledged", "refused"} => stage[c] = stage'[c] \/ c \in seen'
      PROVE  AnsweredWasSeen'
  BY <1>1 DEF AnsweredWasSeen
<1>2. ASSUME NEW c \in Claims, NEW s, To(c, s), seen \subseteq seen', s \in {"acknowledged", "refused"} => c \in seen'
      PROVE  AnsweredWasSeen'
  BY <1>1, <1>2 DEF To, OutboxInv, OutboxTyped
<1>3. ASSUME NEW p \in Procs, Resume(p) PROVE AnsweredWasSeen'
  BY <1>1, <1>3 DEF Resume, past, OutboxInv, OutboxTyped
<1>4. ASSUME NEW c \in Claims, Work(c) PROVE AnsweredWasSeen'
  <2>1. CASE Prepare(c)
    BY <1>2, <2>1 DEF Prepare, past
  <2>2. CASE Send(c)
    BY <1>2, <2>2 DEF Send
  <2>3. CASE Settle(c)
    BY <1>2, <2>3 DEF Settle, past
  <2>4. CASE End(c)
    BY <1>2, <2>4 DEF End, past
  <2> QED BY <1>4, <2>1, <2>2, <2>3, <2>4 DEF Work
<1>5. ASSUME NEW p \in Procs, Exit(p) PROVE AnsweredWasSeen'
  BY <1>1, <1>5 DEF Exit
<1>6. ASSUME UNCHANGED <<stage, seen>> PROVE AnsweredWasSeen'
  BY <1>6 DEF AnsweredWasSeen
<1>7. ASSUME NEW e \in Entries, NEW p \in Procs, Insert(e, p) PROVE AnsweredWasSeen'
  BY <1>6, <1>7 DEF Insert, attempts, past
<1>8. ASSUME NEW p \in Procs, ClaimStatement(p) \/ ResumeEmpty(p) \/ NextAt(p) \/ ScheduleWake(p) \/ Tick(p) \/ Stop(p) \/ Start(p)
      PROVE  AnsweredWasSeen'
  BY <1>6, <1>8 DEF ClaimStatement, ResumeEmpty, NextAt, ScheduleWake, Tick, Stop, Start, attempts, past
<1>9. ASSUME NEW e \in Entries, FallsDue(e) \/ LeaseEnds(e) \/ LeaseEndsLate(e) PROVE AnsweredWasSeen'
  BY <1>6, <1>9 DEF FallsDue, LeaseEnds, LeaseEndsLate, attempts, past
<1>10. CASE UNCHANGED vars
  BY <1>6, <1>10 DEF vars, attempts, past
<1> QED BY <1>3, <1>4, <1>5, <1>7, <1>8, <1>9, <1>10 DEF Next

Status == [e \in Entries |-> entry[e].state]
Arrived == [e \in Entries |-> Cardinality(Arrivals(e))]

\* Requests under way arrive: of entries that are pending, unless a sender was overtaken.
LEMMA ArriveSteps ==
    ASSUME OutboxInv, SenderInv, SenderInv', OutboxInv', UNCHANGED <<entry, overtaken>>, seen \subseteq seen',
           \A c \in Claims : c \in seen' => c \in seen \/ stage[c] = "sending"
    PROVE  Delivery!DNext
<1> DEFINE some == {e \in Entries : Arrivals(e)' # Arrivals(e)}
<1>1. ASSUME NEW e \in some PROVE entry[e].state = "pending" \/ e \in overtaken
  <2>1. PICK c \in seen' : c \notin seen /\ c[1] = e
    BY DEF Arrivals
  <2>2. c \in Claims /\ stage[c] = "sending"
    BY <2>1 DEF OutboxInv, OutboxTyped
  <2>3. e \notin overtaken => entry[e].lease = "live"
    BY <2>1, <2>2 DEF SenderInv, InHandIsLast, InHand, Working
  <2> QED BY <2>3 DEF OutboxInv, Leases
<1>2. ASSUME NEW e \in Entries
      PROVE  /\ Arrivals(e) \subseteq Arrivals(e)' /\ IsFiniteSet(Arrivals(e)')
             /\ Cardinality(Arrivals(e)) \in 0..Limit /\ Cardinality(Arrivals(e)') \in 0..Limit
  <2>1. Arrivals(e)' \in SUBSET Claims /\ \A c \in Arrivals(e)' : c[1] = e /\ c[2] <= Limit
    BY DEF Arrivals, OutboxInv, OutboxTyped, SenderInv, WithinLimit
  <2>2. IsFiniteSet(Arrivals(e)') /\ Cardinality(Arrivals(e)') \in 0..Limit
    BY <2>1, FewWithinLimit DEF OutboxInv
  <2>3. Arrivals(e) \subseteq Arrivals(e)'
    BY DEF Arrivals
  <2> QED BY <2>2, <2>3, ArrivalsBounded
<1>3. ASSUME NEW e \in Entries PROVE IF e \in some THEN Arrived'[e] > Arrived[e] ELSE Arrived'[e] = Arrived[e]
  <2>1. /\ Cardinality(Arrivals(e)) <= Cardinality(Arrivals(e)')
        /\ Cardinality(Arrivals(e)) = Cardinality(Arrivals(e)') => Arrivals(e) = Arrivals(e)'
    BY <1>2, FS_Subset
  <2>2. Cardinality(Arrivals(e)) \in Nat /\ Cardinality(Arrivals(e)') \in Nat
    BY <1>2, SceneFacts DEF OutboxInv
  <2>3. Arrived[e] = Cardinality(Arrivals(e)) /\ Arrived'[e] = Cardinality(Arrivals(e)')
    BY DEF Arrived
  <2> QED BY <2>1, <2>2, <2>3
<1>4. Delivery!Arrive(some)
  <2> HIDE DEF some
  <2>1. UNCHANGED <<Status, overtaken>> /\ Arrived' \in [Entries -> 0..Limit]
    BY <1>2 DEF Status, Arrived
  <2>2. some \in SUBSET Entries
    BY DEF some
  <2> QED BY <1>1, <1>3, <2>1, <2>2 DEF Delivery!Arrive, Status, Arrived
<1> QED BY <1>4 DEF Delivery!DNext

\* A step in which nothing arrives changes one entry's state, or none.
LEMMA StatusSteps ==
    ASSUME OutboxInv, UNCHANGED seen, NEW e \in Entries, NEW s, entry'[e].state = s,
           \A i \in Entries : i # e => entry'[i].state = entry[i].state
    PROVE  Status' = [Status EXCEPT ![e] = s] /\ Arrived' = Arrived
BY DEF Status, Arrived, Arrivals

LEMMA DeliveryStep ==
    ASSUME OutboxInv, SenderInv, OutboxInv', SenderInv', AnsweredWasSeen, [Next]_vars
    PROVE  Delivery!DNext \/ (Status' = Status /\ Arrived' = Arrived /\ overtaken' = overtaken)
<1> DEFINE Goal == Delivery!DNext \/ (Status' = Status /\ Arrived' = Arrived /\ overtaken' = overtaken)
<1>1. ASSUME UNCHANGED <<seen, overtaken>>, \A i \in Entries : entry'[i].state = entry[i].state PROVE Goal
  BY <1>1 DEF Status, Arrived, Arrivals
<1>2. ASSUME NEW i \in Entries, NEW row, entry' = [entry EXCEPT ![i] = row]
      PROVE  entry'[i] = row /\ \A e \in Entries : e # i => entry'[e] = entry[e]
  BY <1>2 DEF OutboxInv, OutboxTyped
<1>3. ASSUME NEW i \in Entries, NEW p \in Procs, Insert(i, p) PROVE Goal
  <2> DEFINE row == [entry[i] EXCEPT !.state = "pending"]
  <2>1. row.state = "pending"
    BY RowFacts DEF OutboxInv, EntryRow
  <2>2. entry[i].state = "absent" /\ entry' = [entry EXCEPT ![i] = row] /\ UNCHANGED <<seen, overtaken>>
    BY <1>3 DEF Insert, past
  <2> HIDE DEF row
  <2>3. Status' = [Status EXCEPT ![i] = "pending"] /\ Arrived' = Arrived
    <3>1. entry'[i].state = "pending" /\ \A e \in Entries : e # i => entry'[e].state = entry[e].state
      BY <1>2, <2>1, <2>2
    <3> QED BY <2>2, <3>1, StatusSteps
  <2>4. Delivery!Store(i)
    BY <2>2, <2>3 DEF Delivery!Store, Status, Arrived
  <2> QED BY <2>4 DEF Delivery!DNext
<1>4. ASSUME NEW p \in Procs, ClaimStatement(p) PROVE Goal
  <2>1. UNCHANGED <<seen, overtaken>>
    BY <1>4 DEF ClaimStatement, past
  <2>2. CASE \E i \in Entries : Takes(p, i)
    <3>1. PICK i \in Entries : Takes(p, i)
      BY <2>2
    <3>2. entry' = [entry EXCEPT ![i] = ClaimedRow(i)] /\ ClaimedRow(i).state = "pending" /\ entry[i].state = "pending"
      BY <3>1, LeasedFacts DEF Takes, Claimable
    <3> HIDE DEF ClaimedRow
    <3>3. \A e \in Entries : entry'[e].state = entry[e].state
      BY <1>2, <3>2
    <3> QED BY <1>1, <2>1, <3>3
  <2> QED BY <1>1, <1>4, <2>1, <2>2, ClaimCases
<1>5. ASSUME NEW c \in Claims, Send(c) PROVE Goal
  <2>1. /\ UNCHANGED <<entry, overtaken>> /\ seen \subseteq seen'
        /\ \A d \in Claims : d \in seen' => d \in seen \/ stage[d] = "sending"
    BY <1>5 DEF Send, At
  <2> QED BY <2>1, ArriveSteps
<1>6. ASSUME NEW p \in Procs, Exit(p) PROVE Goal
  <2>1. /\ UNCHANGED <<entry, overtaken>> /\ seen \subseteq seen'
        /\ \A d \in Claims : d \in seen' => d \in seen \/ stage[d] = "sending"
    BY <1>6 DEF Exit, At
  <2> QED BY <2>1, ArriveSteps
<1>7. ASSUME NEW c \in Claims, Settle(c) PROVE Goal
  <2>1. stage[c] \in Answers /\ UNCHANGED <<seen, overtaken>> /\ (entry' = entry \/ (Held(c) /\ entry' = Recorded(c)))
    BY <1>7 DEF Settle, past
  <2>2. CASE Held(c) /\ entry' = Recorded(c)
    <3> DEFINE i == c[1]
               s == entry'[i].state
    <3>1. /\ i \in Entries /\ entry[i].state = "pending" /\ s \in {"pending", "acknowledged", "failed"}
          /\ s = "acknowledged" => stage[c] = "acknowledged"
          /\ \A e \in Entries : e # i => entry'[e] = entry[e]
      BY <2>1, <2>2, ClaimFacts, RecordedFacts DEF Held, OutboxInv
    <3> HIDE DEF i
    <3>2. Status' = [Status EXCEPT ![i] = s] /\ Arrived' = Arrived /\ Status[i] = "pending"
      BY <2>1, <3>1, StatusSteps DEF Status
    <3>3. CASE s = "pending"
      BY <1>1, <2>1, <3>1, <3>3
    <3>4. CASE s = "failed"
      <4>1. Delivery!GiveUp(i)
        BY <2>1, <3>2, <3>4 DEF Delivery!GiveUp, Status, Arrived
      <4> QED BY <3>1, <4>1 DEF Delivery!DNext
    <3>5. CASE s = "acknowledged"
      <4>1. c \in Arrivals(i)
        BY <3>1, <3>5 DEF AnsweredWasSeen, Arrivals, i
      <4>2. Cardinality(Arrivals(i)) # 0 /\ Cardinality(Arrivals(i)) \in Nat
        BY <3>1, <4>1, ArrivalsBounded, FS_EmptySet, SceneFacts DEF OutboxInv
      <4>3. Arrived[i] > 0
        BY <3>1, <4>2 DEF Arrived
      <4>4. Delivery!Acknowledge(i)
        BY <2>1, <3>2, <3>5, <4>3 DEF Delivery!Acknowledge, Status, Arrived
      <4> QED BY <3>1, <4>4 DEF Delivery!DNext
    <3> QED BY <3>1, <3>3, <3>4, <3>5
  <2> QED BY <1>1, <2>1, <2>2
<1>8. ASSUME NEW i \in Entries, FallsDue(i) PROVE Goal
  <2> DEFINE row == [entry[i] EXCEPT !.due = TRUE]
  <2>1. row.state = entry[i].state
    BY RowFacts DEF OutboxInv, EntryRow
  <2>2. entry' = [entry EXCEPT ![i] = row] /\ UNCHANGED <<seen, overtaken>>
    BY <1>8 DEF FallsDue, past
  <2> HIDE DEF row
  <2> QED BY <1>1, <1>2, <2>1, <2>2
<1>9. ASSUME NEW i \in Entries, LeaseEnds(i) \/ LeaseEndsLate(i) PROVE Goal
  <2> DEFINE row == [entry[i] EXCEPT !.lease = "ended"]
  <2>1. entry[i].lease = "live" /\ row.state = entry[i].state
    BY <1>9, RowFacts DEF LeaseEnds, LeaseEndsLate, OutboxInv, EntryRow
  <2>2. entry' = [entry EXCEPT ![i] = row] /\ UNCHANGED seen /\ overtaken' \in {overtaken, overtaken \cup {i}}
    BY <1>9 DEF LeaseEnds, LeaseEndsLate, past
  <2>3. entry[i].state = "pending"
    BY <2>1 DEF OutboxInv, Leases
  <2> HIDE DEF row
  <2>4. \A e \in Entries : entry'[e].state = entry[e].state
    BY <1>2, <2>1, <2>2
  <2>5. Status' = Status /\ Arrived' = Arrived /\ Status[i] = "pending"
    BY <2>2, <2>3, <2>4 DEF Status, Arrived, Arrivals
  <2>6. CASE overtaken' = overtaken \cup {i}
    <3>1. Delivery!Overrun(i)
      BY <2>5, <2>6 DEF Delivery!Overrun, Status, Arrived
    <3> QED BY <3>1 DEF Delivery!DNext
  <2> QED BY <2>2, <2>5, <2>6
<1>10. ASSUME NEW c \in Claims, Prepare(c) \/ End(c) PROVE Goal
  BY <1>1, <1>10 DEF Prepare, End, past
<1>11. ASSUME NEW p \in Procs, Resume(p) \/ ResumeEmpty(p) \/ NextAt(p) \/ ScheduleWake(p) \/ Tick(p) \/ Stop(p) \/ Start(p)
       PROVE  Goal
  BY <1>1, <1>11 DEF Resume, ResumeEmpty, NextAt, ScheduleWake, Tick, Stop, Start, past
<1>12. CASE UNCHANGED vars
  BY <1>1, <1>12 DEF vars, past
<1> HIDE DEF Goal
<1>13. ASSUME NEW c \in Claims, Work(c) PROVE Goal
  BY <1>5, <1>7, <1>10, <1>13 DEF Work
<1>14. ASSUME NEW p \in Procs, \/ ClaimStatement(p) \/ Resume(p) \/ ResumeEmpty(p) \/ NextAt(p)
                               \/ ScheduleWake(p) \/ Tick(p) \/ Stop(p) \/ Exit(p) \/ Start(p)
       PROVE  Goal
  BY <1>4, <1>6, <1>11, <1>14
<1>15. ASSUME Next PROVE Goal
  BY <1>3, <1>8, <1>9, <1>13, <1>14, <1>15 DEF Next
<1> QED BY <1>12, <1>15 DEF Goal

\* The outbox, with its takeovers, lost answers, timers and crashes, delivers as
\* DeliveryPromise says, for any entries, processes and scenes.
THEOREM OutboxKeepsDelivery == Spec => KeepsDelivery
<1>1. Init => Delivery!DInit /\ AnsweredWasSeen
  <2> SUFFICES ASSUME Init PROVE Delivery!DInit /\ AnsweredWasSeen
    OBVIOUS
  <2>1. /\ \A e \in Entries : entry[e].state = "absent" /\ Arrivals(e) = {}
        /\ overtaken = {} /\ \A c \in Claims : stage[c] = "none"
    BY DEF Init, Arrivals
  <2>2. \A e \in Entries : Cardinality(Arrivals(e)) = 0
    BY <2>1, FS_EmptySet
  <2> QED BY <2>1, <2>2 DEF Delivery!DInit, AnsweredWasSeen
<1>2. OutboxInv /\ AnsweredWasSeen /\ [Next]_vars => AnsweredWasSeen'
  BY NextAnswered
<1>3. OutboxInv /\ SenderInv /\ OutboxInv' /\ SenderInv' /\ AnsweredWasSeen /\ [Next]_vars
        => [Delivery!DNext]_(Delivery!dvars)
  BY DeliveryStep DEF Status, Arrived, Delivery!dvars
<1> QED BY <1>1, <1>2, <1>3, OutboxInvariant, SenderInvariant, PTL DEF Spec, KeepsDelivery, Delivery!DSpec
=============================================================================
