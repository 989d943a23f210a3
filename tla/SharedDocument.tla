---------------------------- MODULE SharedDocument ----------------------------
(***************************************************************************)
(* What one document promises those who edit it, without rooms, leases,    *)
(* checkpoints or revisions: an edit is added as a whole, once, to all     *)
(* that is there; whoever is told that it is in finds it in, whoever is    *)
(* told that it is refused was right and stays right; and a deleted        *)
(* document does not change.                                               *)
(***************************************************************************)
CONSTANT Items

VARIABLES
    content,   \* what is in the document, or was when it was deleted
    gone,      \* it is deleted
    told,      \* items somebody was told are in
    denied     \* items somebody was told are refused

svars == <<content, gone, told, denied>>

SInit == content = {} /\ gone = FALSE /\ told = {} /\ denied = {}

\* An item that is added may be acknowledged in the same step.
Add(x) ==
    /\ ~gone /\ x \notin denied
    /\ content' = content \cup {x}
    /\ told' \in {told, told \cup {x}}
    /\ UNCHANGED <<gone, denied>>

Tell(x) ==
    /\ told' = told \cup {x}
    /\ UNCHANGED <<content, gone, denied>>

Deny(x) ==
    /\ x \notin told
    /\ denied' = denied \cup {x}
    /\ UNCHANGED <<content, gone, told>>

Delete ==
    /\ ~gone /\ gone' = TRUE
    /\ UNCHANGED <<content, told, denied>>

SNext ==
    \/ \E x \in Items \ content : Add(x) \/ Deny(x)
    \/ \E x \in content \ denied : Tell(x)
    \/ Delete

SSpec == SInit /\ [][SNext]_svars
=============================================================================
