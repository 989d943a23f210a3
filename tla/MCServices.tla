------------------------------- MODULE MCServices -------------------------------
(***************************************************************************)
(* The components that share no state with each other, side by side: each  *)
(* behaviour is one of `which`, the others stay as they started.           *)
(***************************************************************************)
EXTENDS LeaseBroker, MCRenderBatch, AuditLog, EdgePurgeOutbox, Uploads, MCApprovals, ApprovalFile, CollabSession, TLC

CONSTANTS a1, a2, b1, b2

VARIABLE which

\* Two uploads of one owner, the second in a scope that takes files larger than the
\* budgets, and one of another owner, which shares only the instance's budget with them.
OwnerOf == [u1 |-> "owner", u2 |-> "owner", u3 |-> "other"]
ChargeOf == [u1 |-> 3, u2 |-> 4, u3 |-> 2]
LargestOf == [u1 |-> 0, u2 |-> 6, u3 |-> 0]

\* Bound: the uploads of the first owner are sent, finished and removed, one of them in a
\* behaviour; the others are reserved and expire.
MaxWorkedOn == 1
WorkedOn == {u \in Ids : \/ record[u] \in {"ready", "gone"} \/ stored[u] # {} \/ u \in begun \cup cut
                         \/ \E h \in Puts : put[h] # NoPut /\ put[h].id = u
                         \/ \E h \in Finals : final[h] # NoPut /\ final[h].id = u}

\* Bound: retention passes and forwarder ticks of the audit log at the same time.
MaxUnderWay == 3
UnderWay == Cardinality({p \in Passes : pass[p].at # "idle"} \cup {t \in Ticks : tick[t].at # "idle"})

ServicesInit ==
    /\ which \in {"broker", "batch", "audit", "edge", "uploads", "approvals", "file", "collab"}
    /\ Init /\ BatchInit /\ AuditInit /\ EdgeInit /\ UploadInit /\ ApprovalInit /\ ApprovalFileInit /\ CollabInit

ServicesNext ==
    /\ UNCHANGED which
    /\ \/ which = "broker" /\ Next /\ UNCHANGED <<batchVars, auditVars, edgeVars, uploadVars, approvalVars, approvalFileVars, collabVars>>
       \/ which = "batch" /\ BatchNext /\ UNCHANGED <<vars, auditVars, edgeVars, uploadVars, approvalVars, approvalFileVars, collabVars>>
       \/ which = "audit" /\ AuditNext /\ UnderWay' <= MaxUnderWay /\ UNCHANGED <<vars, batchVars, edgeVars, uploadVars, approvalVars, approvalFileVars, collabVars>>
       \/ which = "edge" /\ EdgeNext /\ UNCHANGED <<vars, batchVars, auditVars, uploadVars, approvalVars, approvalFileVars, collabVars>>
       \/ which = "uploads" /\ UploadNext /\ "u3" \notin WorkedOn' /\ Cardinality(WorkedOn') <= MaxWorkedOn /\ UNCHANGED <<vars, batchVars, auditVars, edgeVars, approvalVars, approvalFileVars, collabVars>>
       \/ which = "approvals" /\ ApprovalNext /\ UNCHANGED <<vars, batchVars, auditVars, edgeVars, uploadVars, approvalFileVars, collabVars>>
       \/ which = "file" /\ ApprovalFileNext /\ UNCHANGED <<vars, batchVars, auditVars, edgeVars, uploadVars, approvalVars, collabVars>>
       \/ which = "collab" /\ CollabNext /\ UNCHANGED <<vars, batchVars, auditVars, edgeVars, uploadVars, approvalVars, approvalFileVars>>

ServicesSpec == ServicesInit /\ [][ServicesNext]_<<which, vars, batchVars, auditVars, edgeVars, uploadVars, approvalVars, approvalFileVars, collabVars>>

\* The type invariant of the component that moves.
ServicesTypeOK ==
    /\ which = "broker" => TypeOK
    /\ which = "batch" => BatchTypeOK
    /\ which = "audit" => AuditTypeOK
    /\ which = "edge" => EdgeTypeOK
    /\ which = "uploads" => UploadTypeOK
    /\ which = "approvals" => ApprovalTypeOK
    /\ which = "file" => ApprovalFileTypeOK
    /\ which = "collab" => CollabTypeOK

\* In every component the two actors of a kind are alike.
Symmetry == Permutations({a1, a2}) \cup Permutations({b1, b2})
=============================================================================
