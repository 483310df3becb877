-------------------------- MODULE MessageQueueClass --------------------------
(***************************************************************************)
(* One object of class SessionMessageQueue (message-queue.ts), from its    *)
(* constructor on, and its calls, each synchronous and therefore atomic:   *)
(* one sorted list, which must behave as the three bands of                *)
(* PriorityMailbox.  Whoever replaces a session's queue (a rotation, a     *)
(* restore, the reorder route) constructs a new object.                    *)
(***************************************************************************)
EXTENDS MessageQueue

CONSTANT Limit

ASSUME LimitAssumption == Limit \in Nat

VARIABLES items,
          call    \* history: the last call, what it was given and returned

vars == <<items, call>>

(* Saved lists: the constructor takes any, longer than the limit too.      *)
Lists == UNION { { s \in [1..n -> Msgs] : IsInjective(s) } : n \in 0..Cardinality(Msgs) }

Init == \E list \in Lists : /\ items = NormalizeQueueState(list)
                            /\ call = <<"constructor", list>>

Position(list, m) == CHOOSE i \in DOMAIN list : list[i] = m

(* enqueue; a full queue throws MessageQueueFullError and changes nothing. *)
Enqueue(m) ==
  /\ ~Contains(items, m) /\ Len(items) < Limit
  /\ items' = EnqueueItem(items, m)
  /\ call' = <<"enqueue", m, Position(items', m)>>

Dequeue ==
  /\ items # <<>>
  /\ items' = Tail(items)
  /\ call' = <<"dequeue", Head(items)>>

Withdraw(m) ==
  /\ Contains(items, m)
  /\ items' = RemoveItem(items, m)
  /\ call' = <<"remove", m>>

(* Mutant: a stable sort by priority alone.                                *)
ReorderByRank(order) ==
  /\ Len(order) = Len(items) /\ Range(order) = Range(items)
  /\ items' = NormalizeQueueState(items)
  /\ call' = <<"reorder", order>>

(* reorder: refuses anything but a permutation; sorts by priority, then by *)
(* the client's order.                                                     *)
Reorder(order) ==
  /\ Len(order) = Len(items) /\ Range(order) = Range(items)
  /\ items' = SortSeq(items, LAMBDA x, y :
       \/ Rank(x) < Rank(y)
       \/ Rank(x) = Rank(y) /\ Position(order, x) < Position(order, y))
  /\ call' = <<"reorder", order>>

Clear == items' = <<>> /\ call' = <<"clear">>

Next ==
  \/ Dequeue \/ Clear
  \/ \E m \in Msgs : Enqueue(m) \/ Withdraw(m)
  \/ \E list \in Lists : Reorder(list)

Spec == Init /\ [][Next]_vars

-----------------------------------------------------------------------------
(* SessionMessageQueue implements the three bands, call by call: each      *)
(* leaves every band as the mailbox does and returns the same, so that a   *)
(* message is overtaken only by a more urgent one or at the user's wish,   *)
(* and a wish is heeded within a band exactly as it was made.              *)
Mailbox == INSTANCE PriorityMailbox WITH
  band <- [p \in Priorities |-> SelectSeq(items, LAMBDA m : Prio[m] = p)]
ServesByBands == Mailbox!Spec
=============================================================================
