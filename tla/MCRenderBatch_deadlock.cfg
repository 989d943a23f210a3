SPECIFICATION BatchSpec
CONSTANTS
    r1 = r1
    r2 = r2
    r3 = r3
    r4 = r4
    r5 = r5
    Renders = {r1, r2, r3, r4, r5}
    Batches = {1, 2, 3}
    Rows <- MixedRows
    Txs = {t1, t2}
    NoTx = NoTx
SYMMETRY TxSymmetry
INVARIANT CancelNeverDeadlocks
CHECK_DEADLOCK FALSE
