--------------------------- MODULE MCAutoRotation ---------------------------
EXTENDS AutoRotation
CONSTANTS q1, q2, q3, u1, u2

\* The messages of a kind are alike: they arrive in this order.
Arrived(m) == fate[m] # "new" \/ (IF m \in Urgent THEN direct[m] # "new" ELSE into[m] # 0)
InOrder == /\ (Arrived(q2) => Arrived(q1)) /\ (Arrived(q3) => Arrived(q2))
           /\ (Arrived(u2) => Arrived(u1))
=============================================================================
