-------------------------- MODULE MCDurableFileLock --------------------------
\* Three processes; one of them has three writers of the same file.
EXTENDS DurableFileLock, TLC

CONSTANTS a1, a2, a3, b, c, p, q, r
MCProcOf ==
  [w \in Writers |-> IF w \in {a1, a2, a3} THEN p ELSE IF w = b THEN q ELSE r]

\* The writers of p are alike, and so are q and r: they are called in order.
Called(w) == pc[w] # "new"
InOrder == /\ (Called(a2) => Called(a1)) /\ (Called(a3) => Called(a2))
           /\ (Called(c) => Called(b))
=============================================================================
