--------------------------- MODULE MCSessionQueue ---------------------------
(* Instances of SessionQueue: urgent messages u*, normal n*, low l*.       *)
EXTENDS SessionQueue

CONSTANTS u1, u2, n1, n2, l1

MCMsgs == {u1, u2, n1, n2}
MCPrio == [m \in MCMsgs |-> IF m \in {u1, u2} THEN "high" ELSE "normal"]

MixedMsgs == {u1, n1, n2, l1}
MixedPrio == [m \in MixedMsgs |->
                CASE m = u1 -> "high" [] m = l1 -> "low" [] OTHER -> "normal"]

=============================================================================
