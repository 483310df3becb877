--------------------------- MODULE ChannelDelivery ---------------------------
(***************************************************************************)
(* POST /channel-message (modules/commanders/routes/register-channels.ts)  *)
(* with the ledger it consults (channel-idempotency-ledger.ts), for the    *)
(* webhook calls that carry ONE provider message id.  A provider repeats a *)
(* call it got no answer to, so several calls with the same id may be in   *)
(* the handler at once.  Two things keep the message from being delivered  *)
(* twice: a map of deliveries in flight, lost with the process, and a file *)
(* per message id, written after the delivery.                             *)
(*                                                                         *)
(* A message whose text asks for deep thinking is not handed over at once: *)
(* the delivery only starts an operation, which sends a prompt made of the *)
(* message when its workers are done, or gives the message up.             *)
(*                                                                         *)
(* An await of a file operation and the code that runs on its result are   *)
(* one step: the result is handed to the event loop as soon as it exists,  *)
(* while a delivery and its claim take several turns of the loop.          *)
(***************************************************************************)
EXTENDS Naturals, FiniteSets

CONSTANTS Requests,    \* the webhook calls with this message id
          NoRequest,   \* no delivery is in flight
          MaxFaults,   \* bound: deliveries and claims that fail half way
          MaxCrashes,  \* bound: crashes of the server
          MaxExpiries  \* bound: times the ledger entry passes its 30 days

ASSUME NoRequestAssumption == NoRequest \notin Requests

VARIABLES
  pc,         \* where the handler of each call stands
  inFlight,   \* inFlightChannelMessageDeliveries: the call that delivers
  entry,      \* the ledger file of the message id
  deep,       \* the text of the message asks for deep thinking
  operations, \* number of deep-thinking operations that run with the message
  abandoned,  \* history: operations that ended without sending it
  deliveries, \* history: times the message reached the conversation
  excuses,    \* history: faults, crashes and expiries so far
  faults, crashes, expiries  \* the bounded counters

thinking == <<deep, operations, abandoned>>

vars == <<pc, inFlight, entry, thinking, deliveries, excuses, faults, crashes, expiries>>

(***************************************************************************)
(* "waiting" and "again" await the pending delivery of another call, from  *)
(* the first check and after a reservation that was refused; "told" and    *)
(* "retold" have received `false` from it.                                 *)
(***************************************************************************)
Waiting == {"waiting", "again"}
Answers == {"delivered", "duplicate", "conflict", "failed", "lost"}
Places == {"new", "told", "retold", "delivering", "claiming"}
            \union Waiting \union Answers

(***************************************************************************)
(* "torn" is a file without a readable entry: the process died between the *)
(* creation of the file and the end of its writing.                        *)
(***************************************************************************)
Entries == {"absent", "live", "expired", "torn"}

(* Type correctness of the handlers' places, the map and the ledger file.  *)
TypeOK ==
  /\ pc \in [Requests -> Places]
  /\ inFlight \in Requests \union {NoRequest}
  /\ entry \in Entries
  /\ deep \in BOOLEAN
  /\ {operations, abandoned, deliveries, excuses, faults, crashes, expiries} \subseteq Nat

Init ==
  /\ pc = [r \in Requests |-> "new"]
  /\ inFlight = NoRequest
  /\ entry = "absent"
  /\ deep \in BOOLEAN /\ operations = 0 /\ abandoned = 0
  /\ deliveries = 0 /\ excuses = 0
  /\ faults = 0 /\ crashes = 0 /\ expiries = 0

Goto(r, p) == pc' = [pc EXCEPT ![r] = p]

(* has(): an expired entry is removed, an unreadable one does not count.   *)
Has == entry = "live"

AfterHas == IF entry = "expired" THEN "absent" ELSE entry

(***************************************************************************)
(* The first check: wait for a delivery in flight; when there is none, or  *)
(* it failed, ask the ledger.                                              *)
(***************************************************************************)
Arrive(r) ==
  /\ pc[r] = "new"
  /\ Goto(r, IF inFlight = NoRequest THEN "told" ELSE "waiting")
  /\ UNCHANGED <<inFlight, entry, thinking, deliveries, excuses, faults, crashes, expiries>>

(***************************************************************************)
(* The reservation follows the ledger's answer in the same turn of the     *)
(* loop.  A call that finds another one ahead waits a second time.         *)
(***************************************************************************)
Reserve(r) ==
  IF inFlight = NoRequest
  THEN inFlight' = r /\ Goto(r, "delivering")
  ELSE UNCHANGED inFlight /\ Goto(r, "again")

Check(r) ==
  /\ pc[r] = "told"
  /\ entry' = AfterHas
  /\ IF Has THEN Goto(r, "duplicate") /\ UNCHANGED inFlight ELSE Reserve(r)
  /\ UNCHANGED <<thinking, deliveries, excuses, faults, crashes, expiries>>

(* After a refused reservation the call is never delivered, only answered. *)
CheckAgain(r) ==
  /\ pc[r] = "retold"
  /\ entry' = AfterHas
  /\ Goto(r, IF Has THEN "duplicate" ELSE "conflict")
  /\ UNCHANGED <<inFlight, thinking, deliveries, excuses, faults, crashes, expiries>>

(***************************************************************************)
(* release(delivered): the calls that wait are told, and the map entry is  *)
(* removed when it is still this call's.                                   *)
(***************************************************************************)
\* Mutant: the waiters are told that the message was delivered.
ReleasedAsDelivered(r, answer, ok) ==
  /\ pc' = [q \in Requests |-> IF q = r THEN answer
                               ELSE IF pc[q] \in Waiting THEN "duplicate" ELSE pc[q]]
  /\ inFlight' = IF inFlight = r THEN NoRequest ELSE inFlight

\* Mutant: the promise the others wait for is never settled.
ReleasedSilently(r, answer, ok) ==
  /\ pc' = [pc EXCEPT ![r] = answer]
  /\ inFlight' = IF inFlight = r THEN NoRequest ELSE inFlight

ToldFailed(p) == IF p = "waiting" THEN "told" ELSE "retold"

Released(r, answer, ok) ==
  /\ pc' = [q \in Requests |->
              IF q = r THEN answer
              ELSE IF pc[q] \notin Waiting THEN pc[q]
              ELSE IF ok THEN "duplicate" ELSE ToldFailed(pc[q])]
  /\ inFlight' = IF inFlight = r THEN NoRequest ELSE inFlight

(***************************************************************************)
(* deliverConversationMessage hands the message to the session, or starts  *)
(* a deep-thinking operation with it; both are an ok to the handler.       *)
(***************************************************************************)
Deliver(r) ==
  /\ pc[r] = "delivering"
  /\ \/ ~deep /\ deliveries' = deliveries + 1 /\ UNCHANGED operations
     \/ deep /\ operations' = operations + 1 /\ UNCHANGED deliveries
  /\ Goto(r, "claiming")
  /\ UNCHANGED <<inFlight, entry, deep, abandoned, excuses, faults, crashes, expiries>>

(***************************************************************************)
(* An operation ends: its prompt is sent to the session, or not, when it   *)
(* was aborted (a closed request, a newer operation of the conversation,   *)
(* its stop), timed out, or lost a worker or the session.  An abort that   *)
(* comes after the last worker's end does not stop the prompt.             *)
(***************************************************************************)
Synthesize ==
  /\ operations > 0
  /\ operations' = operations - 1
  /\ deliveries' = deliveries + 1
  /\ UNCHANGED <<pc, inFlight, entry, deep, abandoned, excuses, faults, crashes, expiries>>

Abandon ==
  /\ operations > 0
  /\ operations' = operations - 1
  /\ abandoned' = abandoned + 1
  /\ UNCHANGED <<pc, inFlight, entry, deep, deliveries, excuses, faults, crashes, expiries>>

(* It refuses (archived, no commander, no session) without a delivery.     *)
Refuse(r) ==
  /\ pc[r] = "delivering"
  /\ faults < MaxFaults
  /\ faults' = faults + 1
  /\ Released(r, "failed", FALSE)
  /\ UNCHANGED <<entry, thinking, deliveries, excuses, crashes, expiries>>

(***************************************************************************)
(* claim(): creates the entry exclusively, replaces an expired one, and    *)
(* leaves an unreadable one where it is; the handler ignores which.        *)
(***************************************************************************)
\* Mutant: the delivery is reported to the waiters without a ledger entry.
ClaimNothing(r) ==
  /\ pc[r] = "claiming"
  /\ Released(r, "delivered", TRUE)
  /\ UNCHANGED <<entry, thinking, deliveries, excuses, faults, crashes, expiries>>

Claim(r) ==
  /\ pc[r] = "claiming"
  /\ entry' = IF entry = "torn" THEN "torn" ELSE "live"
  /\ Released(r, "delivered", TRUE)
  /\ UNCHANGED <<thinking, deliveries, excuses, faults, crashes, expiries>>

(***************************************************************************)
(* After the hand-over, the update of the conversation or the claim        *)
(* throws: the call is answered 500 and the waiters are told `false`.      *)
(***************************************************************************)
FailAfterDelivery(r) ==
  /\ pc[r] = "claiming"
  /\ faults < MaxFaults
  /\ faults' = faults + 1
  /\ excuses' = excuses + 1
  /\ Released(r, "failed", FALSE)
  /\ UNCHANGED <<entry, thinking, deliveries, crashes, expiries>>

(* Thirty days pass for the entry.                                         *)
Expire ==
  /\ entry = "live"
  /\ expiries < MaxExpiries
  /\ expiries' = expiries + 1
  /\ excuses' = excuses + 1
  /\ entry' = "expired"
  /\ UNCHANGED <<pc, inFlight, thinking, deliveries, faults, crashes>>

(***************************************************************************)
(* The server crashes: the map and the operations are gone and the open    *)
(* calls get no answer.                                                    *)
(* A claim that was being written may leave an unreadable file.            *)
(***************************************************************************)
Crash ==
  /\ crashes < MaxCrashes
  /\ crashes' = crashes + 1
  /\ excuses' = excuses + 1
  /\ inFlight' = NoRequest
  /\ pc' = [r \in Requests |-> IF pc[r] \in {"new"} \union Answers THEN pc[r] ELSE "lost"]
  /\ entry' \in IF entry \in {"absent", "expired"} /\ \E r \in Requests : pc[r] = "claiming"
                THEN {entry, "torn"} ELSE {entry}
  /\ operations' = 0 /\ abandoned' = abandoned + operations
  /\ UNCHANGED <<deep, deliveries, faults, expiries>>

Step(r) == \/ Check(r) \/ CheckAgain(r) \/ Deliver(r) \/ Claim(r)

Next ==
  \/ \E r \in Requests : Arrive(r) \/ Step(r) \/ Refuse(r) \/ FailAfterDelivery(r)
  \/ Synthesize \/ Abandon \/ Expire \/ Crash

Spec == Init /\ [][Next]_vars

(* Every call that is in the handler goes on.                              *)
FairSpec == Spec /\ \A r \in Requests : WF_vars(Step(r))

-----------------------------------------------------------------------------
(***************************************************************************)
(* One delivery at a time: the call that delivers or claims is the one in  *)
(* the map, so no other call with this id can be delivering too            *)
(* (register-channels.ts:389, the check and the write of the map).         *)
(***************************************************************************)
OneDelivery ==
  \A r \in Requests : pc[r] \in {"delivering", "claiming"} <=> inFlight = r

(***************************************************************************)
(* The message reaches the conversation once, but for each fault behind a  *)
(* delivery, crash of the server and expiry of its entry, which may each   *)
(* cost one repetition -- unless a crash left an unreadable entry, which   *)
(* no later claim repairs (channel-idempotency-ledger.ts:187-193).         *)
(***************************************************************************)
AtMostOnce == entry # "torn" => deliveries <= 1 + excuses

(***************************************************************************)
(* A call is answered as a duplicate only when the message reached the     *)
(* conversation; a message for deep thinking, when it did, or an operation *)
(* runs with it or gave it up (register-channels.ts:370-387, 439-447).  So *)
(* a provider never stops repeating a message that was lost, but for that  *)
(* last case, which the code allows: the id is claimed when the operation  *)
(* has only been scheduled (conversation-runtime.ts:1372-1390).            *)
(***************************************************************************)
NoFalseDuplicate ==
  (\E r \in Requests : pc[r] = "duplicate") =>
    \/ deliveries > 0
    \/ deep /\ (operations > 0 \/ abandoned > 0)

(***************************************************************************)
(* Every call in the handler is answered, also one that waits for the      *)
(* delivery of another, or is lost to a crash of the server.               *)
(***************************************************************************)
EveryCallAnswered ==
  \A r \in Requests : pc[r] # "new" ~> pc[r] \in Answers
=============================================================================
