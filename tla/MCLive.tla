--------------------------------- MODULE MCLive ---------------------------------
(***************************************************************************)
(* The broker and the retention of outputs, which share no state, each     *)
(* under its own fairness: a behaviour is one of `which`.                  *)
(***************************************************************************)
EXTENDS LeaseBroker, RenderRetention, TLC

VARIABLE which

liveVars == <<which, vars, retentionVars>>
OfBroker(A) == which = "broker" /\ A /\ UNCHANGED <<which, retentionVars>>
OfRetention(A) == which = "retention" /\ A /\ UNCHANGED <<which, vars>>

LiveInit == which \in {"broker", "retention"} /\ Init /\ RetentionInit

LiveNext == OfBroker(Next) \/ OfRetention(RetentionNext)

\* LeaseBroker!Fairness and RetentionFairness.
BothSpec ==
    /\ LiveInit /\ [][LiveNext]_liveVars
    /\ \A j \in Jobs : /\ WF_liveVars(OfBroker(QueueTimeout(j))) /\ WF_liveVars(OfBroker(PassDeadline(j)))
                       /\ WF_liveVars(OfBroker(FailLeased(j))) /\ WF_liveVars(OfBroker(Reclaim(j)))
    /\ \A s \in Slots : WF_liveVars(OfBroker(Answer(s))) /\ WF_liveVars(OfBroker(Abandon(s)))
    /\ \A s \in Sweepers : WF_liveVars(OfRetention(Begin(s))) /\ WF_liveVars(OfRetention(Pass(s)))
    /\ \A d \in Deliveries : WF_liveVars(OfRetention(Fetch(d))) /\ WF_liveVars(OfRetention(PutDelivery(d)))
    /\ \A r \in Renders : WF_liveVars(OfRetention(GraceEnds(r)))
=============================================================================
