--------------------------- MODULE MCAutomationJobs ---------------------------
EXTENDS AutomationJobs, TLC

CONSTANTS j1, j2, p1, p2

Scene(js, rm, ps, rs, t, f, o) ==
    [jobs |-> js, removable |-> rm, procs |-> ps, retries |-> rs,
     timer |-> t, faults |-> f, outages |-> o]

\* Takeovers between two processes, without and with an outage; a removal that
\* races a takeover; an outage under a retry; two jobs without a timer.
AllScenes ==
    {Scene({j1}, {}, {p1, p2}, 0, TRUE, 2, 0),
     Scene({j1}, {}, {p1, p2}, 0, TRUE, 1, 1),
     Scene({j1}, {j1}, {p1}, 0, TRUE, 1, 0),
     Scene({j1}, {}, {p1}, 1, TRUE, 1, 1),
     Scene({j1, j2}, {}, {p1}, 1, FALSE, 0, 0)}

\* One job and one lost answer.
LostAnswerScene == {Scene({j1}, {}, {p1}, 0, FALSE, 1, 0)}
=============================================================================
