------------------------------- MODULE Approvals -------------------------------
(***************************************************************************)
(* One approval request: the decision engine (approvals/engine.ts) and the *)
(* routes that read the stored request, decide on what they read and write *)
(* it back whole (api/app.ts).  putApproval has no version check, so a     *)
(* handler may overwrite what another one wrote after it read.  The file   *)
(* an approved request releases is the subject of ApprovalFile.            *)
(***************************************************************************)
EXTENDS Naturals, Sequences, FiniteSets

CONSTANTS
    Members,      \* people who may act
    Submitter,    \* the member who raised the request
    Chain,        \* its steps: [who |-> members of the approver groups, rule, quorum]
    Nominees,     \* named at submit, for the first step
    Handlers,     \* requests of routes under way at once
    MaxVotes      \* bound: votes a request collects

ASSUME ApprovalAssumption ==
    /\ Chain \in Seq([who : SUBSET Members, rule : {"any", "all", "quorum"}, quorum : Nat \ {0}])
    /\ Chain # <<>> /\ Nominees \subseteq Chain[1].who \ {Submitter} /\ MaxVotes \in Nat

VARIABLES
    request,      \* the stored approval
    handler       \* per handler: idle, or the request it is about to write

approvalVars == <<request, handler>>

Votes == [by : Members, step : 1..Len(Chain), vote : {"approve", "reject"}]
Requests == [state : {"in_review", "approved", "rejected", "withdrawn"}, step : 1..Len(Chain) + 1,
             nominees : SUBSET Members, votes : UNION {[1..n -> Votes] : n \in 0..MaxVotes}]
Idle == [state |-> "idle"]

ApprovalTypeOK == request \in Requests /\ handler \in [Handlers -> Requests \cup {Idle}]

\* createApproval: in review at the first step.
ApprovalInit ==
    /\ request = [state |-> "in_review", step |-> 1, nominees |-> Nominees, votes |-> <<>>]
    /\ handler = [h \in Handlers |-> Idle]

-----------------------------------------------------------------------------
(* The engine: pure, from a request as read to the next one.               *)

IsTerminal(a) == a.state \in {"approved", "rejected", "withdrawn"}

\* The distinct people who approved a step.
ApproversOf(votes, step) == {votes[i].by : i \in {j \in DOMAIN votes : votes[j].step = step /\ votes[j].vote = "approve"}}

\* "all" is one approval from each nominee; without nominees it is one approval.
StepClears(step, nominees, approvers) ==
    /\ approvers # {}
    /\ step.rule = "all" => nominees \subseteq approvers
    /\ step.rule = "quorum" => Cardinality(approvers) >= step.quorum

\* applyAction refuses a closed request, the submitter, and anyone outside the step's groups.
MayAct(a, m) == ~IsTerminal(a) /\ m # Submitter /\ m \in Chain[a.step].who

\* Mutant: the nominees of the first step are kept for the next ones.
ApplyKeepingNominees(a, m, vote) ==
    LET votes == Append(a.votes, [by |-> m, step |-> a.step, vote |-> vote])
    IN  IF vote = "reject" THEN [a EXCEPT !.state = "rejected", !.votes = votes]
        ELSE IF ~StepClears(Chain[a.step], a.nominees, ApproversOf(votes, a.step)) THEN [a EXCEPT !.votes = votes]
        ELSE [a EXCEPT !.state = IF a.step = Len(Chain) THEN "approved" ELSE "in_review",
                       !.step = a.step + 1, !.votes = votes]

ApplyAction(a, m, vote) ==
    LET votes == Append(a.votes, [by |-> m, step |-> a.step, vote |-> vote])
        last == a.step = Len(Chain)
    IN  IF vote = "reject" THEN [a EXCEPT !.state = "rejected", !.votes = votes]
        ELSE IF ~StepClears(Chain[a.step], a.nominees, ApproversOf(votes, a.step)) THEN [a EXCEPT !.votes = votes]
        ELSE [a EXCEPT !.state = IF last THEN "approved" ELSE "in_review", !.step = a.step + 1,
                       !.nominees = IF last THEN @ ELSE {}, !.votes = votes]

-----------------------------------------------------------------------------
(* The routes: read the request, await, write it back whole.               *)

Reads(h, next) == handler[h] = Idle /\ handler' = [handler EXCEPT ![h] = next] /\ UNCHANGED request

\* POST act: the checks and the engine see the request as read.
Act(h) ==
    /\ Len(request.votes) < MaxVotes
    /\ \E m \in Members, vote \in {"approve", "reject"} :
         MayAct(request, m) /\ Reads(h, ApplyAction(request, m, vote))

\* POST withdraw, by the submitter; the file is deleted between the read and the write.
Withdraw(h) == ~IsTerminal(request) /\ Reads(h, [request EXCEPT !.state = "withdrawn"])

\* putApproval.
PutApproval(h) ==
    /\ handler[h] # Idle
    /\ request' = handler[h]
    /\ handler' = [handler EXCEPT ![h] = Idle]

ApprovalNext == \E h \in Handlers : Act(h) \/ Withdraw(h) \/ PutApproval(h)

ApprovalSpec == ApprovalInit /\ [][ApprovalNext]_approvalVars

-----------------------------------------------------------------------------
(* Correctness.                                                            *)

\* A step's rule is met by the people in the votes; nominees are for the first step only.
Approved(m, step) == \E i \in DOMAIN request.votes : request.votes[i] = [by |-> m, step |-> step, vote |-> "approve"]
Met(step) ==
    /\ \E m \in Members : Approved(m, step)
    /\ Chain[step].rule = "all" /\ step = 1 => \A m \in Nominees : Approved(m, step)
    /\ Chain[step].rule = "quorum" => Cardinality({m \in Members : Approved(m, step)}) >= Chain[step].quorum

\* The votes in the stored request justify its state, whichever writes were lost:
\* every vote is by a member of its step's groups and never the submitter; each
\* step passed had its rule met by distinct people, the open one has not; an
\* approved request holds no rejection and a rejected one ends with it.
VotesJustifyState ==
    /\ \A i \in DOMAIN request.votes : LET v == request.votes[i] IN v.by # Submitter /\ v.by \in Chain[v.step].who
    /\ \A s \in 1..Len(Chain) : (s < request.step) = Met(s)
    /\ request.state = "approved" => request.step > Len(Chain)
    /\ \A i \in DOMAIN request.votes :
         request.votes[i].vote = "reject" => i = Len(request.votes) /\ request.state = "rejected"

\* docs/approvals.md, Rules the engine enforces: "A reject is terminal."
RejectIsTerminal == [][request.state = "rejected" => request'.state = "rejected"]_approvalVars
=============================================================================
