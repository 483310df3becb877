---------------------------- MODULE MessageQueue ----------------------------
(***************************************************************************)
(* The per-session list of waiting prompts: class SessionMessageQueue of   *)
(* modules/agents/message-queue.ts.  A message is its id; Prio gives the   *)
(* priority it was created with.  Every operator works on the items list.  *)
(***************************************************************************)
EXTENDS Integers, Sequences, SequencesExt

CONSTANTS Msgs,   \* message ids
          Prio    \* priority of each message

Priorities == {"high", "normal", "low"}

ASSUME PrioAssumption == Prio \in [Msgs -> Priorities]

PriorityRank(p) == CASE p = "high" -> 0 [] p = "normal" -> 1 [] p = "low" -> 2

Rank(m) == PriorityRank(Prio[m])

High(m) == Prio[m] = "high"

(* Mutant: always at the end.                                              *)
InsertIndexLast(items, m) == Len(items) + 1

(* items.findIndex(entry => rank(entry) > rank(m)), or one past the end:   *)
(* a message goes behind every message of its own priority.                *)
InsertIndex(items, m) ==
  LET Later == { i \in 1..Len(items) : Rank(items[i]) > Rank(m) }
  IN  IF Later = {} THEN Len(items) + 1
      ELSE CHOOSE i \in Later : \A j \in Later : i <= j

EnqueueItem(items, m) == InsertAt(items, InsertIndex(items, m), m)

(* remove(id): drops the first entry with that id, if there is one.        *)
RemoveItem(items, m) ==
  LET At == { i \in 1..Len(items) : items[i] = m }
  IN  IF At = {} THEN items
      ELSE RemoveAt(items, CHOOSE i \in At : \A j \in At : i <= j)

(* The constructor's normalisation: stable grouping by priority.           *)
NormalizeQueueState(items) ==
  LET Band(p) == SelectSeq(items, LAMBDA m : Prio[m] = p)
  IN  Band("high") \o Band("normal") \o Band("low")

Ordered(items) == \A i, j \in 1..Len(items) : i < j => Rank(items[i]) <= Rank(items[j])

Distinct(items) == \A i, j \in 1..Len(items) : items[i] = items[j] => i = j

=============================================================================
