--------------------------- MODULE MCCallbackOutbox ---------------------------
EXTENDS CallbackOutbox, TLC

CONSTANTS e1, e2, p1, p2

Scene(es, ps, t, f, o, a) ==
    [entries |-> es, procs |-> ps, timer |-> t, faults |-> f, outages |-> o, asks |-> a]

\* Takeovers between two processes on a timer, by a fault and by an outage;
\* one process without a timer, with two entries and with an outage.
AllScenes ==
    {Scene({e1}, {p1, p2}, TRUE, 1, 0, 1),
     Scene({e1}, {p1, p2}, TRUE, 0, 1, 1),
     Scene({e1, e2}, {p1}, FALSE, 1, 0, 1),
     Scene({e1}, {p1}, FALSE, 0, 1, 1)}

\* One process without a timer and one store error.
LateAnswerScene == {Scene({e1}, {p1}, FALSE, 1, 0, 1)}
=============================================================================
