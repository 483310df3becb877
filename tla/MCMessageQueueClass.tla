------------------------- MODULE MCMessageQueueClass -------------------------
(* Two messages in two of the bands and one in the third, a limit below the *)
(* number of messages.                                                      *)
EXTENDS MessageQueueClass

CONSTANTS u1, n1, n2, l1, l2

MCMsgs == {u1, n1, n2, l1, l2}
MCPrio == [m \in MCMsgs |-> CASE m = u1 -> "high"
                              [] m \in {n1, n2} -> "normal"
                              [] OTHER -> "low"]
=============================================================================
