------------------------------- MODULE MCNvFtl -------------------------------
EXTENDS NvFtl, TLC

CONSTANTS d, x, y, t1, t2

MCDefault == [f \in Field |-> 0]
Symm == Permutations(Thread)
=============================================================================
