------------------------------ MODULE MCApprovals ------------------------------
EXTENDS Approvals, TLC

CONSTANTS ana, bo, sam

\* Two people decide together, then one alone.
TheChain == <<[who |-> {ana, bo, sam}, rule |-> "quorum", quorum |-> 2], [who |-> {bo}, rule |-> "all", quorum |-> 1]>>
=============================================================================
