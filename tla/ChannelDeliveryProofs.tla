------------------------ MODULE ChannelDeliveryProofs ------------------------
(* A channel message is delivered once, for any number of webhook calls.   *)
EXTENDS ChannelDelivery, TLAPS

(***************************************************************************)
(* Why at most once: a delivery that is not yet in the ledger is being     *)
(* claimed by the one call in the map, and a call enters the map only when *)
(* the ledger has no entry.  An operation that runs counts as a delivery.  *)
(***************************************************************************)
HolderIsFirst ==
  \A r \in Requests : pc[r] \in {"delivering", "claiming"} => entry # "live"

Unclaimed == \E r \in Requests : pc[r] = "claiming"

Counted ==
  entry # "torn" => deliveries + operations <= excuses + (IF entry = "live" \/ Unclaimed THEN 1 ELSE 0)

ClaimedWasDelivered ==
  Unclaimed \/ (\E r \in Requests : pc[r] = "duplicate") \/ entry \in {"live", "expired"}
    => \/ deliveries > 0
       \/ deep /\ (operations > 0 \/ abandoned > 0)

IInv == /\ TypeOK /\ OneDelivery /\ HolderIsFirst
        /\ Counted /\ ClaimedWasDelivered

LEMMA InitIInv == Init => IInv
PROOF
  BY NoRequestAssumption
  DEF Init, IInv, TypeOK, OneDelivery, HolderIsFirst, Counted, Unclaimed,
      ClaimedWasDelivered, Places, Waiting, Answers, Entries

(* What the release of the delivery in flight does to the other calls.     *)
LEMMA ReleasedFacts ==
  ASSUME IInv, NEW r \in Requests, NEW ok \in BOOLEAN, NEW answer \in Answers,
         pc[r] \in {"delivering", "claiming"}, Released(r, answer, ok)
  PROVE  /\ pc' \in [Requests -> Places] /\ inFlight' = NoRequest
         /\ \A q \in Requests : pc'[q] \notin {"delivering", "claiming"}
         /\ \A q \in Requests : pc'[q] = "duplicate" =>
              ok \/ pc[q] = "duplicate" \/ (q = r /\ answer = "duplicate")
PROOF
  BY NoRequestAssumption
  DEF IInv, TypeOK, OneDelivery, Released, ToldFailed, Places, Waiting, Answers

LEMMA NextIInv == IInv /\ [Next]_vars => IInv'
PROOF
  <1> SUFFICES ASSUME IInv, [Next]_vars
               PROVE  IInv'
    OBVIOUS
  <1> USE NoRequestAssumption
  <1> USE DEF thinking, IInv, TypeOK, OneDelivery, HolderIsFirst, Counted, Unclaimed,
              ClaimedWasDelivered, Places, Waiting, Answers, Entries, Goto
  <1>1. ASSUME NEW r \in Requests, Arrive(r)
        PROVE  IInv'
    BY <1>1 DEF Arrive
  <1>2. ASSUME NEW r \in Requests, Check(r)
        PROVE  IInv'
    BY <1>2 DEF Check, Has, AfterHas, Reserve
  <1>3. ASSUME NEW r \in Requests, CheckAgain(r)
        PROVE  IInv'
    BY <1>3 DEF CheckAgain, Has, AfterHas
  <1>4. ASSUME NEW r \in Requests, Deliver(r)
        PROVE  IInv'
    BY <1>4 DEF Deliver
  <1>5. ASSUME NEW r \in Requests, Claim(r)
        PROVE  IInv'
    <2>1. Released(r, "delivered", TRUE) /\ pc[r] = "claiming"
      BY <1>5 DEF Claim
    <2>2. /\ pc' \in [Requests -> Places] /\ inFlight' = NoRequest
          /\ \A q \in Requests : pc'[q] \notin {"delivering", "claiming"}
      BY <2>1, ReleasedFacts
    <2> QED  BY <1>5, <2>1, <2>2 DEF Claim
  <1>6. ASSUME NEW r \in Requests, Refuse(r)
        PROVE  IInv'
    <2>1. Released(r, "failed", FALSE) /\ pc[r] = "delivering"
      BY <1>6 DEF Refuse
    <2>2. /\ pc' \in [Requests -> Places] /\ inFlight' = NoRequest
          /\ \A q \in Requests : pc'[q] \notin {"delivering", "claiming"}
          /\ \A q \in Requests : pc'[q] = "duplicate" => pc[q] = "duplicate"
      BY <2>1, ReleasedFacts
    <2>3. ~Unclaimed
      BY <2>1
    <2> QED  BY <1>6, <2>2, <2>3 DEF Refuse
  <1>7. ASSUME NEW r \in Requests, FailAfterDelivery(r)
        PROVE  IInv'
    <2>1. Released(r, "failed", FALSE) /\ pc[r] = "claiming"
      BY <1>7 DEF FailAfterDelivery
    <2>2. /\ pc' \in [Requests -> Places] /\ inFlight' = NoRequest
          /\ \A q \in Requests : pc'[q] \notin {"delivering", "claiming"}
          /\ \A q \in Requests : pc'[q] = "duplicate" => pc[q] = "duplicate"
      BY <2>1, ReleasedFacts
    <2> QED  BY <1>7, <2>1, <2>2 DEF FailAfterDelivery
  <1>8. CASE Expire
    BY <1>8 DEF Expire
  <1>9. CASE Crash
    BY <1>9 DEF Crash
  <1>10. CASE Synthesize
    BY <1>10 DEF Synthesize
  <1>11. CASE Abandon
    BY <1>11 DEF Abandon
  <1>12. CASE UNCHANGED vars
    BY <1>12 DEF vars
  <1> QED
    BY <1>1, <1>2, <1>3, <1>4, <1>5, <1>6, <1>7, <1>8, <1>9, <1>10, <1>11, <1>12
    DEF Next, Step

(* The strengthened invariant holds in every reachable state.              *)
THEOREM Invariance == Spec => []IInv
PROOF
  BY InitIInv, NextIInv, PTL DEF Spec

(* Type correctness of the handlers, the map and the ledger file.          *)
THEOREM TypeCorrect == Spec => []TypeOK
PROOF
  <1>1. IInv => TypeOK
    BY DEF IInv
  <1> QED  BY <1>1, Invariance, PTL

(* Two calls with one message id are never in the delivery together.       *)
THEOREM DeliversAlone == Spec => []OneDelivery
PROOF
  <1>1. IInv => OneDelivery
    BY DEF IInv
  <1> QED  BY <1>1, Invariance, PTL

(* The message is delivered once, and once more for each excuse.           *)
THEOREM DeliveredOnce == Spec => []AtMostOnce
PROOF
  <1>1. IInv => AtMostOnce
    BY DEF IInv, TypeOK, Counted, AtMostOnce
  <1> QED  BY <1>1, Invariance, PTL

(* "Duplicate" is only said of a message that was delivered or that a      *)
(* deep-thinking operation has taken.                                      *)
THEOREM DuplicateWasTaken == Spec => []NoFalseDuplicate
PROOF
  <1>1. IInv => NoFalseDuplicate
    BY DEF IInv, ClaimedWasDelivered, NoFalseDuplicate
  <1> QED  BY <1>1, Invariance, PTL
=============================================================================
