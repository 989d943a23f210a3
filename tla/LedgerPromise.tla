----------------------------- MODULE LedgerPromise -----------------------------
(***************************************************************************)
(* What the audit log promises, without scans, cursors, anchors or ticks:  *)
(* events get the numbers 1, 2, 3 ... as they are appended, the receiver   *)
(* gets nothing else, and what the log drops, from its old end, the        *)
(* receiver has and the last event is never part of it.                    *)
(***************************************************************************)
EXTENDS Naturals

VARIABLES
    last,      \* number of the last event
    held,      \* events still in the log
    received   \* events the receiver has

lvars == <<last, held, received>>

LInit == last = 0 /\ held = {} /\ received = {}

Record ==
    /\ last' = last + 1
    /\ held' = held \cup {last'}
    /\ UNCHANGED received

Deliver ==
    /\ received \subseteq received' /\ received' \subseteq 1..last
    /\ UNCHANGED <<last, held>>

Drop(n) ==
    /\ n < last /\ \A e \in held : e <= n => e \in received
    /\ held' = {e \in held : e > n}
    /\ UNCHANGED <<last, received>>

LNext == Record \/ Deliver \/ \E n \in held : Drop(n)

LSpec == LInit /\ [][LNext]_lvars
=============================================================================
