---------------------------- MODULE MCRenderBatch ----------------------------
EXTENDS RenderBatch, TLC

CONSTANTS r1, r2, r3, r4, r5

\* Two independent batches, and a retry of the first that reuses one of its rows.
MixedRows == [b \in Batches |-> CASE b = 1 -> {r1, r2} [] b = 2 -> {r3, r4} [] b = 3 -> {r1, r5}]

TxSymmetry == Permutations(Txs)
=============================================================================
