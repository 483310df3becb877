---------------------------- MODULE ApprovalReview ----------------------------
(***************************************************************************)
(* What an approval promises, whatever carries it: a request is ruled on   *)
(* at most once, the first ruling is the one that counts, and the client   *)
(* that asked hears that ruling or nothing at all.                         *)
(***************************************************************************)
CONSTANT Ids

VARIABLES answer,   \* what the client of each request knows
          verdict   \* the ruling on each request

Decisions == {"approve", "reject"}
AnswerFor(d) == IF d = "approve" THEN "allow" ELSE "deny"

Init ==
  /\ answer = [id \in Ids |-> "unasked"]
  /\ verdict = [id \in Ids |-> "none"]

Ask(id) ==
  /\ answer[id] = "unasked"
  /\ answer' = [answer EXCEPT ![id] = "asked"]
  /\ UNCHANGED verdict

(* A reviewer or the deadline rules; a client that is listening hears it.  *)
Rule(id, d) ==
  /\ answer[id] # "unasked" /\ verdict[id] = "none"
  /\ verdict' = [verdict EXCEPT ![id] = d]
  /\ \/ UNCHANGED answer
     \/ /\ answer[id] = "asked"
        /\ answer' = [answer EXCEPT ![id] = AnswerFor(d)]

Tell(id) ==
  /\ answer[id] = "asked" /\ verdict[id] # "none"
  /\ answer' = [answer EXCEPT ![id] = AnswerFor(verdict[id])]
  /\ UNCHANGED verdict

(* The client stops waiting and blocks the action on its own.              *)
Drop(id) ==
  /\ answer[id] = "asked"
  /\ answer' = [answer EXCEPT ![id] = "closed"]
  /\ UNCHANGED verdict

Next == \E id \in Ids :
  \/ Ask(id) \/ Tell(id) \/ Drop(id)
  \/ \E d \in Decisions : Rule(id, d)

Spec == Init /\ [][Next]_<<answer, verdict>>
=============================================================================
