CONSTANTS
  u1 = u1  n1 = n1  n2 = n2  l1 = l1  l2 = l2
  Msgs <- MCMsgs
  Prio <- MCPrio
  Limit = 4
SPECIFICATION Spec
PROPERTIES ServesByBands
