--------------------------- MODULE PriorityMailbox ---------------------------
(***************************************************************************)
(* What a queue of prompts with priorities promises: three first-in        *)
(* first-out bands, served from the most urgent down.  The last call, with *)
(* its argument and result, is part of the promise: a step is the one that *)
(* was asked for.                                                          *)
(***************************************************************************)
EXTENDS Naturals, FiniteSets, Sequences, SequencesExt

CONSTANTS Msgs, Prio, Limit

VARIABLES band,   \* the waiting messages of each priority
          call    \* the last call

Bands == {"high", "normal", "low"}

Waiting == UNION { Range(band[p]) : p \in Bands }
Size == Len(band["high"]) + Len(band["normal"]) + Len(band["low"])

Saved == UNION { { s \in [1..n -> Msgs] : IsInjective(s) } : n \in 0..Cardinality(Msgs) }

InBands(list) == [p \in Bands |-> SelectSeq(list, LAMBDA m : Prio[m] = p)]

(* A mailbox begins with what was saved, in the order within each band.    *)
Init == \E list \in Saved : band = InBands(list) /\ call = <<"constructor", list>>

(* The place of the last message of band p in the order of service.        *)
LastOf(p) ==
  Len(band'["high"]) + (IF p = "high" THEN 0 ELSE Len(band'["normal"]))
                     + (IF p = "low" THEN Len(band'["low"]) ELSE 0)

Put(m) ==
  /\ m \notin Waiting /\ Size < Limit
  /\ band' = [band EXCEPT ![Prio[m]] = Append(@, m)]
  /\ call' = <<"enqueue", m, LastOf(Prio[m])>>

Urgent(p) ==
  /\ band[p] # <<>>
  /\ p = "normal" => band["high"] = <<>>
  /\ p = "low" => band["high"] = <<>> /\ band["normal"] = <<>>

Take(p) ==
  /\ Urgent(p)
  /\ band' = [band EXCEPT ![p] = Tail(@)]
  /\ call' = <<"dequeue", Head(band[p])>>

Withdraw(m) ==
  /\ m \in Waiting
  /\ band' = [band EXCEPT ![Prio[m]] = SelectSeq(@, LAMBDA x : x # m)]
  /\ call' = <<"remove", m>>

(* The user's order holds within a band and never across bands.            *)
Rearrange(order) ==
  /\ call' = <<"reorder", order>>
  /\ Range(order) = Waiting
  /\ band' = InBands(order)

Empty == band' = [p \in Bands |-> <<>>] /\ call' = <<"clear">>

Next ==
  \/ Empty
  \/ \E m \in Msgs : Put(m) \/ Withdraw(m)
  \/ \E p \in Bands : Take(p)
  \/ \E order \in [1..Size -> Waiting] : Rearrange(order)

Spec == Init /\ [][Next]_<<band, call>>
=============================================================================
