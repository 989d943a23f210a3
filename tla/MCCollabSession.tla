----------------------------- MODULE MCCollabSession -----------------------------
EXTENDS CollabSession, TLC
=============================================================================
