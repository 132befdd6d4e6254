CONSTANTS
    Tx = {r, t1, t2, t3}
    ReadOnly = {r}
    Words = {x, y}
    NoTx = NoTx
    MaxOps <- TwoCalls
SPECIFICATION Spec
SYMMETRY Perms
PROPERTIES AbortedWritesUndone
