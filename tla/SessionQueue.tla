---------------------------- MODULE SessionQueue ----------------------------
(***************************************************************************)
(* One live stream session and the runtime that feeds it prompts:          *)
(* modules/agents/session/queue-runtime.ts with the handlers that drive it *)
(* (the send, reorder, remove and clear routes, the turn events of         *)
(* stream-events.ts, the exit of the provider process).                    *)
(*                                                                         *)
(* The server is one JavaScript process: an action is what runs between    *)
(* two awaits.  A drain is three actions (its first checks, the dispatch   *)
(* after it awaited a rotation, the answer) and a direct send is two.      *)
(* Claude's adapter writes to stdin and answers before any other event     *)
(* runs; Codex's adapter awaits an RPC, and all else interleaves with it.  *)
(***************************************************************************)
EXTENDS MessageQueue, FiniteSets

CONSTANTS Provider,   \* the adapter: "claude" or "codex"
          Limit,      \* DEFAULT_SESSION_MESSAGE_QUEUE_LIMIT
          None        \* undefined

ASSUME ProviderAssumption == Provider \in {"claude", "codex"}
ASSUME LimitAssumption == Limit \in Nat \ {0}
ASSUME NoneAssumption == None \notin Msgs


VARIABLES
  pending,         \* session.pendingDirectSendMessages (urgent messages)
  queue,           \* session.messageQueue.items
  current,         \* session.currentQueuedMessage
  turnDone,        \* session.lastTurnCompleted
  drain,           \* the drain: "idle", "scheduled" (microtask), "awaiting"
                   \* (awaitAutoRotationIfNeeded), "sending"
  drainForce,      \* options.force of that drain
  drainAgain,      \* session.queuedMessageDrainPending
  drainAgainForce, \* session.queuedMessageDrainPendingForce
  drainMsg,        \* nextMessage of the drain that is sending
  retryFor,        \* session.queuedMessageRetryMessageId; None: no timer
  status,          \* what became of each message
  copies,          \* how often the agent received each message
  overtaken,       \* in-flight messages that saw a turn end since dispatch
  agentWork,       \* prompts the agent took whose turn end is to come
  proc             \* the provider process: "up", "closing", "gone"

urgentVars == <<pending, queue>>
drainVars  == <<drain, drainForce, drainAgain, drainAgainForce, drainMsg>>
agentVars  == <<agentWork, proc>>
vars == <<pending, queue, current, turnDone, drain, drainForce, drainAgain,
          drainAgainForce, drainMsg, retryFor, status, copies, overtaken,
          agentWork, proc>>

(* "first" and "direct" are the two sends of sendImmediateTextToStream-    *)
(* Session that may be in flight.                                          *)
Statuses == {"new", "first", "direct", "queued", "delivered", "failed",
             "dropped", "rejected"}

Watchdog == Provider = "codex"

InFlight == { m \in Msgs : status[m] \in {"first", "direct"} }
              \cup (IF drain = "sending" THEN {drainMsg} ELSE {})

(* JavaScript runs to completion: nothing comes between the dispatch and   *)
(* the answer of a synchronous adapter.                                    *)
Free == Provider = "claude" => InFlight = {}

BacklogCount == Len(pending) + Len(queue)
InBacklog(m) == Contains(pending, m) \/ Contains(queue, m)

NextMessage == IF pending # <<>> THEN Head(pending)
               ELSE IF queue # <<>> THEN Head(queue) ELSE None

Init ==
  /\ pending = <<>> /\ queue = <<>>
  /\ current = None
  /\ turnDone = TRUE
  /\ drain = "idle" /\ drainForce = FALSE
  /\ drainAgain = FALSE /\ drainAgainForce = FALSE
  /\ drainMsg = None
  /\ retryFor = None
  /\ status = [m \in Msgs |-> "new"]
  /\ copies = [m \in Msgs |-> 0]
  /\ overtaken = {}
  /\ agentWork = 0
  /\ proc = "up"

-----------------------------------------------------------------------------
(* scheduleQueuedMessageDrain: one drain at a time; a request made while   *)
(* one is scheduled or running is remembered.                              *)
ScheduleDrain(force) ==
  /\ UNCHANGED drainMsg
  /\ \/ /\ drain # "idle"
        /\ drainAgain' = TRUE
        /\ drainAgainForce' = (drainAgainForce \/ force)
        /\ UNCHANGED <<drain, drainForce>>
     \/ /\ drain = "idle"
        /\ drain' = "scheduled"
        /\ drainForce' = force
        /\ UNCHANGED <<drainAgain, drainAgainForce>>

(* The finally of that microtask: run again if somebody asked meanwhile.   *)
FinishDrain ==
  /\ drain' = IF drainAgain THEN "scheduled" ELSE "idle"
  /\ drainForce' = (drainAgain /\ drainAgainForce)
  /\ drainAgain' = FALSE
  /\ drainAgainForce' = FALSE
  /\ drainMsg' = None

(* What an adapter does before it awaits: Codex declares the turn running  *)
(* (resetActiveTurnState), Claude has not touched the session yet.         *)
Dispatch(m) ==
  /\ turnDone' = IF Provider = "codex" THEN FALSE ELSE turnDone
  /\ overtaken' = overtaken \ {m}

(* An accepted prompt: the turn is running and the agent owes its end.     *)
Accepted(m) ==
  /\ proc = "up"
  /\ turnDone' = IF Provider = "claude" THEN FALSE ELSE turnDone
  /\ agentWork' = agentWork + 1
  /\ copies' = [copies EXCEPT ![m] = @ + 1]
  /\ overtaken' = overtaken \ {m}
  /\ UNCHANGED proc

(* A retryable refusal: Claude's stdin is draining; Codex is busy with a   *)
(* turn, or the turn to steer ended after the dispatch.                    *)
Busy(m) ==
  /\ proc = "up"
  /\ Provider = "codex" => agentWork > 0 \/ m \in overtaken
  /\ overtaken' = overtaken \ {m}
  /\ UNCHANGED <<copies, agentWork, proc>>

(* A refusal for good: stdin is closed, or the RPC failed and              *)
(* failCodexSession removes the session.                                   *)
Refused(m) ==
  /\ Provider = "claude" => proc # "up"
  /\ proc' = IF Provider = "codex" THEN "gone" ELSE proc
  /\ overtaken' = overtaken \ {m}
  /\ UNCHANGED <<copies, agentWork>>

-----------------------------------------------------------------------------
(* POST /message?queue=true and sendToSession({queue}): enqueue, then ask  *)
(* for a drain; a full backlog answers 409.                                *)
EnqueueQueuedMessage(m) ==
  /\ Free /\ proc # "gone"
  /\ status[m] = "new" /\ ~High(m)
  /\ \/ /\ BacklogCount >= Limit
        /\ status' = [status EXCEPT ![m] = "rejected"]
        /\ UNCHANGED <<queue, drainVars>>
     \/ /\ BacklogCount < Limit
        /\ queue' = EnqueueItem(queue, m)
        /\ status' = [status EXCEPT ![m] = "queued"]
        /\ ScheduleDrain(FALSE)
  /\ UNCHANGED <<pending, current, turnDone, retryFor, copies, overtaken, agentVars>>

(* Mutant: the limit counts the urgent messages only.                      *)
PushUrgentOverLimit(m) ==
  /\ Len(pending) < Limit
  /\ pending' = <<m>> \o pending
  /\ status' = [status EXCEPT ![m] = "queued"]
  /\ ScheduleDrain(turnDone)
  /\ UNCHANGED <<queue, turnDone>>

(* The end of sendImmediate...: the message could not go out now and waits *)
(* in front of every other urgent message.                                 *)
PushUrgent(m) ==
  /\ \/ /\ BacklogCount >= Limit
        /\ status' = [status EXCEPT ![m] = "rejected"]
        /\ UNCHANGED <<pending, drainVars>>
     \/ /\ BacklogCount < Limit
        /\ pending' = <<m>> \o pending
        /\ status' = [status EXCEPT ![m] = "queued"]
        /\ ScheduleDrain(turnDone)
  /\ UNCHANGED <<queue, turnDone>>

MaySendFirst == turnDone /\ current = None /\ pending = <<>>
MaySendDirect == ~turnDone /\ (pending = <<>> \/ Watchdog)

(* POST /send and /message: sendImmediateTextToStreamSession up to its     *)
(* first send (no rotation is pending here).                               *)
SendImmediate(m) ==
  /\ Free /\ proc # "gone"
  /\ status[m] = "new" /\ High(m)
  /\ \/ /\ MaySendFirst
        /\ current' = m
        /\ status' = [status EXCEPT ![m] = "first"]
        /\ Dispatch(m)
        /\ UNCHANGED <<pending, queue, drainVars>>
     \/ /\ ~MaySendFirst /\ MaySendDirect
        /\ status' = [status EXCEPT ![m] = "direct"]
        /\ Dispatch(m)
        /\ UNCHANGED <<pending, queue, current, drainVars>>
     \/ /\ ~MaySendFirst /\ ~MaySendDirect
        /\ PushUrgent(m)
        /\ UNCHANGED <<current, overtaken>>
  /\ UNCHANGED <<retryFor, copies, agentVars>>

(* The answer to the send of the first branch.                             *)
FirstSent(m) ==
  /\ status[m] = "first"
  /\ Accepted(m)
  /\ retryFor' = None
  /\ current' = IF current = m THEN None ELSE current
  /\ status' = [status EXCEPT ![m] = "delivered"]
  /\ UNCHANGED <<pending, queue, drainVars>>

FirstBusy(m) ==
  /\ status[m] = "first"
  /\ Busy(m)
  /\ current' = None
  /\ \/ /\ MaySendDirect
        /\ status' = [status EXCEPT ![m] = "direct"]
        /\ UNCHANGED <<turnDone, pending, queue, drainVars>>
     \/ /\ ~MaySendDirect
        /\ PushUrgent(m)
  /\ UNCHANGED retryFor

FirstRefused(m) ==
  /\ status[m] = "first"
  /\ Refused(m)
  /\ current' = None
  /\ status' = [status EXCEPT ![m] = "rejected"]
  /\ UNCHANGED <<pending, queue, turnDone, drainVars, retryFor>>

(* The answer to the send into a running turn.                             *)
DirectSent(m) ==
  /\ status[m] = "direct"
  /\ Accepted(m)
  /\ retryFor' = None
  /\ status' = [status EXCEPT ![m] = "delivered"]
  /\ UNCHANGED <<pending, queue, current, drainVars>>

DirectBusy(m) ==
  /\ status[m] = "direct"
  /\ Busy(m)
  /\ PushUrgent(m)
  /\ UNCHANGED <<current, retryFor>>

DirectRefused(m) ==
  /\ status[m] = "direct"
  /\ Refused(m)
  /\ status' = [status EXCEPT ![m] = "rejected"]
  /\ UNCHANGED <<pending, queue, current, turnDone, drainVars, retryFor>>

-----------------------------------------------------------------------------
(* drainQueuedMessages looks at the current message, then awaits a         *)
(* rotation (that leaves the session in place here).                       *)
DrainBegin ==
  /\ Free /\ drain = "scheduled"
  /\ proc # "gone" /\ current = None
  /\ drain' = "awaiting"
  /\ UNCHANGED <<pending, queue, current, turnDone, drainForce, drainAgain,
                 drainAgainForce, drainMsg, retryFor, status, copies, overtaken,
                 agentVars>>

(* Its early returns, before and after that await.                         *)
MustWait(m) == ~turnDone /\ IF High(m) THEN Watchdog ELSE ~drainForce

DrainDeclines ==
  \/ proc = "gone"
  \/ drain = "scheduled" /\ current # None
  \/ drain = "awaiting" /\ NextMessage = None
  \/ drain = "awaiting" /\ NextMessage # None /\ MustWait(NextMessage)

DrainSkip ==
  /\ Free /\ drain \in {"scheduled", "awaiting"}
  /\ DrainDeclines
  /\ FinishDrain
  /\ UNCHANGED <<pending, queue, current, turnDone, retryFor, status, copies,
                 overtaken, agentVars>>

(* The message stays in the backlog while it is being sent.  The current   *)
(* message is not looked at again after the await.                         *)
DrainDispatch ==
  /\ Free /\ drain = "awaiting"
  /\ ~DrainDeclines
  /\ current' = NextMessage
  /\ drainMsg' = NextMessage
  /\ drain' = "sending"
  /\ Dispatch(NextMessage)
  /\ UNCHANGED <<pending, queue, drainForce, drainAgain, drainAgainForce,
                 retryFor, status, copies, agentVars>>

(* Mutant: shift() in place of a removal by id.                            *)
RemoveHead(m) ==
  /\ pending' = IF pending = <<>> THEN pending ELSE Tail(pending)
  /\ queue' = IF pending = <<>> /\ queue # <<>> THEN Tail(queue) ELSE queue

(* Mutant: removePendingDirectSendById without includeCurrentSlot.         *)
RemoveVisible(m) ==
  /\ pending' = IF pending # <<>> /\ current = None /\ Head(pending) = m
                  THEN pending ELSE RemoveItem(pending, m)
  /\ queue' = IF pending' = pending THEN RemoveItem(queue, m) ELSE queue

RemoveFromBacklog(m) ==
  /\ pending' = RemoveItem(pending, m)
  /\ queue' = IF pending' = pending THEN RemoveItem(queue, m) ELSE queue

DrainSent ==
  /\ drain = "sending"
  /\ Accepted(drainMsg)
  /\ retryFor' = None
  /\ RemoveFromBacklog(drainMsg)
  /\ status' = [status EXCEPT ![drainMsg] = "delivered"]
  /\ FinishDrain
  /\ UNCHANGED current

(* Mutants: no retry timer; the current message stays.                     *)
DrainBusyNoRetry ==
  /\ drain = "sending"
  /\ Busy(drainMsg)
  /\ current' = IF current = drainMsg THEN None ELSE current
  /\ FinishDrain
  /\ UNCHANGED <<pending, queue, turnDone, status, retryFor>>

DrainBusyKeepsCurrent ==
  /\ drain = "sending"
  /\ Busy(drainMsg)
  /\ retryFor' = drainMsg
  /\ FinishDrain
  /\ UNCHANGED <<pending, queue, current, turnDone, status>>

DrainBusy ==
  /\ drain = "sending"
  /\ Busy(drainMsg)
  /\ current' = IF current = drainMsg THEN None ELSE current
  /\ retryFor' = drainMsg
  /\ FinishDrain
  /\ UNCHANGED <<pending, queue, turnDone, status>>

DrainRefused ==
  /\ drain = "sending"
  /\ Refused(drainMsg)
  /\ current' = IF current = drainMsg THEN None ELSE current
  /\ RemoveFromBacklog(drainMsg)
  /\ status' = IF InBacklog(drainMsg)
                 THEN [status EXCEPT ![drainMsg] = "failed"] ELSE status
  /\ FinishDrain
  /\ UNCHANGED <<turnDone, retryFor>>

(* The retry timer of scheduleQueuedMessageRetry.                          *)
RetryTimerFires ==
  /\ Free /\ retryFor # None
  /\ retryFor' = None
  /\ ScheduleDrain(TRUE)
  /\ UNCHANGED <<pending, queue, current, turnDone, status, copies, overtaken, agentVars>>

-----------------------------------------------------------------------------
(* Mutants: the backlog is looked at, or the current message cleared, in   *)
(* one of the branches only.                                               *)
TurnEndNoDrain ==
  /\ Free /\ proc # "gone" /\ agentWork > 0
  /\ agentWork' \in 0..(agentWork - 1)
  /\ turnDone' = TRUE
  /\ overtaken' = overtaken \cup InFlight
  /\ current' = None
  /\ IF current = None THEN UNCHANGED <<retryFor, drainVars>>
                       ELSE retryFor' = None /\ ScheduleDrain(FALSE)
  /\ UNCHANGED <<pending, queue, status, copies, proc>>

(* appendStreamEvent on a turn end.  One result may answer several         *)
(* prompts that the agent folded into one turn.                            *)
TurnEnd ==
  /\ Free /\ proc # "gone" /\ agentWork > 0
  /\ agentWork' \in 0..(agentWork - 1)
  /\ turnDone' = TRUE
  /\ overtaken' = overtaken \cup InFlight
  /\ \/ /\ current # None
        /\ current' = None
        /\ retryFor' = None
        /\ ScheduleDrain(FALSE)
     \/ /\ current = None /\ BacklogCount > 0
        /\ ScheduleDrain(FALSE)
        /\ UNCHANGED <<current, retryFor>>
     \/ /\ current = None /\ BacklogCount = 0
        /\ UNCHANGED <<current, retryFor, drainVars>>
  /\ UNCHANGED <<pending, queue, status, copies, proc>>

(* ... and on a turn start (message_start).                                *)
TurnStart ==
  /\ Free /\ proc # "gone" /\ agentWork > 0
  /\ turnDone /\ turnDone' = FALSE
  /\ UNCHANGED <<pending, queue, current, drainVars, retryFor, status, copies,
                 overtaken, agentVars>>

-----------------------------------------------------------------------------
(* DELETE /queue/:id.  Without a current message the head of pending shows *)
(* as current and cannot be removed.                                       *)
Removable(m) ==
  \/ \E i \in 1..Len(pending) : pending[i] = m /\ (i > 1 \/ current # None)
  \/ Contains(queue, m)

RemoveQueued(m) ==
  /\ Free /\ proc # "gone"
  /\ Removable(m)
  /\ RemoveFromBacklog(m)
  /\ status' = IF status[m] = "queued" THEN [status EXCEPT ![m] = "dropped"] ELSE status
  /\ \/ /\ retryFor # m
        /\ UNCHANGED <<retryFor, drainVars>>
     \/ /\ retryFor = m
        /\ retryFor' = None
        /\ \/ /\ turnDone /\ current = None /\ (pending' # <<>> \/ queue' # <<>>)
              /\ ScheduleDrain(FALSE)
           \/ /\ ~(turnDone /\ current = None /\ (pending' # <<>> \/ queue' # <<>>))
              /\ UNCHANGED drainVars
  /\ UNCHANGED <<current, turnDone, copies, overtaken, agentVars>>

(* Mutant: the message queue survives.                                     *)
ClearUrgentOnly ==
  /\ Free /\ proc # "gone" /\ BacklogCount > 0
  /\ pending' = <<>>
  /\ retryFor' = None
  /\ status' = [m \in Msgs |-> IF InBacklog(m) /\ status[m] = "queued"
                                 THEN "dropped" ELSE status[m]]
  /\ UNCHANGED <<queue, current, turnDone, drainVars, copies, overtaken, agentVars>>

(* DELETE /queue: the whole backlog, the hidden head of pending included.  *)
ClearQueue ==
  /\ Free /\ proc # "gone" /\ BacklogCount > 0
  /\ pending' = <<>> /\ queue' = <<>>
  /\ retryFor' = None
  /\ status' = [m \in Msgs |-> IF InBacklog(m) /\ status[m] = "queued"
                                 THEN "dropped" ELSE status[m]]
  /\ UNCHANGED <<current, turnDone, drainVars, copies, overtaken, agentVars>>

(* PUT /queue/reorder: a permutation of the visible items that keeps the   *)
(* priority at every position.                                             *)
Reorderings(items) ==
  { [i \in 1..Len(items) |-> items[p[i]]] : p \in Bijection(1..Len(items), 1..Len(items)) }

Reorder ==
  /\ Free /\ proc # "gone" /\ BacklogCount > 0
  /\ pending' \in { s \in Reorderings(pending) :
                      current = None /\ s # <<>> => s[1] = pending[1] }
  /\ queue' \in { s \in Reorderings(queue) :
                    \A i \in 1..Len(queue) : Prio[s[i]] = Prio[queue[i]] }
  /\ <<pending, queue>> # <<pending', queue'>>
  /\ UNCHANGED <<current, turnDone, drainVars, retryFor, status, copies,
                 overtaken, agentVars>>

(* The provider process closes its input, then its exit is handled and the *)
(* session leaves the sessions map.                                        *)
ProcessCloses ==
  /\ Free /\ proc = "up"
  /\ proc' = "closing"
  /\ UNCHANGED <<pending, queue, current, turnDone, drainVars, retryFor,
                 status, copies, overtaken, agentWork>>

SessionExits ==
  /\ Free /\ proc = "closing"
  /\ proc' = "gone"
  /\ UNCHANGED <<pending, queue, current, turnDone, drainVars, retryFor,
                 status, copies, overtaken, agentWork>>

-----------------------------------------------------------------------------
DrainStep == DrainBegin \/ DrainSkip \/ DrainDispatch
DrainAnswer == DrainSent \/ DrainBusy \/ DrainRefused
SendAnswer(m) == \/ FirstSent(m) \/ FirstBusy(m) \/ FirstRefused(m)
                 \/ DirectSent(m) \/ DirectBusy(m) \/ DirectRefused(m)

Next ==
  \/ \E m \in Msgs : \/ EnqueueQueuedMessage(m) \/ SendImmediate(m)
                     \/ SendAnswer(m) \/ RemoveQueued(m)
  \/ DrainStep \/ DrainAnswer \/ RetryTimerFires
  \/ TurnEnd \/ TurnStart
  \/ ClearQueue \/ Reorder
  \/ ProcessCloses \/ SessionExits

Spec == Init /\ [][Next]_vars

(* Microtasks, timers and answers do come, and the agent ends its turns.   *)
(* A stdin that is busy again and again accepts a write some time; Codex   *)
(* needs no such assumption.                                               *)
Fairness ==
  /\ WF_vars(DrainStep) /\ WF_vars(DrainAnswer) /\ WF_vars(RetryTimerFires)
  /\ WF_vars(TurnEnd)
  /\ SF_vars(Provider = "claude" /\ DrainSent)
  /\ \A m \in Msgs : WF_vars(SendAnswer(m))

FairSpec == Spec /\ Fairness

-----------------------------------------------------------------------------
(* Types, and the shape of the two lists: urgent messages in pending only, *)
(* the queue ordered by priority, no message twice.                        *)
TypeOK ==
  /\ pending \in Seq(Msgs) /\ queue \in Seq(Msgs)
  /\ current \in Msgs \cup {None} /\ retryFor \in Msgs \cup {None}
  /\ turnDone \in BOOLEAN
  /\ drain \in {"idle", "scheduled", "awaiting", "sending"}
  /\ drainForce \in BOOLEAN /\ drainAgain \in BOOLEAN /\ drainAgainForce \in BOOLEAN
  /\ drainMsg \in Msgs \cup {None} /\ (drain = "sending" <=> drainMsg # None)
  /\ status \in [Msgs -> Statuses]
  /\ copies \in [Msgs -> Nat]
  /\ overtaken \subseteq InFlight
  /\ agentWork \in Nat
  /\ proc \in {"up", "closing", "gone"}

(* message-queue.ts keeps items grouped by priority under every insertion, *)
(* removal and reorder, and urgent messages never enter it.                *)
BacklogShape ==
  /\ Ordered(queue)
  /\ \A i \in 1..Len(pending) : High(pending[i])
  /\ \A i \in 1..Len(queue) : ~High(queue[i])
  /\ Distinct(pending) /\ Distinct(queue)

(* The 409 checks bound pending and queue together, although they are made *)
(* in different functions, one of them after two awaited sends.            *)
BacklogBounded == BacklogCount <= Limit

(* No lost wakeup: while the provider is up, a waiting message always has  *)
(* something on its way that will look at the backlog again: a drain, a    *)
(* retry timer, a turn end, or the answer to a send in flight.             *)
NoLostWakeup ==
  proc = "up" /\ BacklogCount > 0 =>
    drain # "idle" \/ retryFor # None \/ agentWork > 0 \/ InFlight # {}

(* A current message is never left over: it is in flight, or the turn it   *)
(* started is still to end (otherwise every later drain would decline).    *)
CurrentIsLive ==
  proc = "up" /\ current # None => current \in InFlight \/ agentWork > 0

(* An accepted message is in exactly one of the lists until it is          *)
(* delivered, reported as failed, or dropped by the user.                  *)
NothingLost == \A m \in Msgs : status[m] = "queued" <=> InBacklog(m)

(* However sends, retries, turn ends and removals interleave, the agent    *)
(* receives a message at most once, and not at all if its sender was told  *)
(* that it failed.                                                         *)
AtMostOnce ==
  \A m \in Msgs : /\ copies[m] <= 1
                  /\ copies[m] = 1 => status[m] = "delivered"

(* DELETE of a waiting message sticks: unless the message was on its way   *)
(* to the provider when the user removed it, it is never sent again.       *)
DroppedStaysDropped ==
  [][\A m \in Msgs : status[m] = "dropped" /\ drainMsg # m =>
                         status'[m] = "dropped" /\ drainMsg' # m]_vars

(* The strengthening behind NoLostWakeup and CurrentIsLive.  TurnOwed: a   *)
(* turn end is sure to come, or the answer to a dispatch that no turn end  *)
(* has overtaken; that answer is an acceptance, or a refusal by an agent   *)
(* that is at work.                                                        *)
TurnOwed ==
  agentWork > 0 \/ (Provider = "codex" /\ InFlight \ overtaken # {})

WakeupInv ==
  proc = "up" =>
    /\ ~turnDone => TurnOwed
    /\ current # None =>
         \/ agentWork > 0
         \/ current \notin overtaken /\ (status[current] = "first" \/ current = drainMsg)
    /\ BacklogCount > 0 => drain # "idle" \/ retryFor # None \/ TurnOwed

(* Bookkeeping: the message of a running drain is waiting or was removed   *)
(* meanwhile, only urgent messages are sent without waiting, only a        *)
(* delivered message has been received, and no turn end overtakes the      *)
(* dispatch of a synchronous adapter.                                      *)
DispatchInv ==
  /\ drainMsg # None => status[drainMsg] \in {"queued", "dropped"}
  /\ \A m \in Msgs : status[m] \in {"first", "direct"} => High(m)
  /\ \A m \in Msgs : status[m] # "delivered" => copies[m] = 0
  /\ \A m \in Msgs : status[m] = "delivered" => copies[m] = 1
  /\ Provider = "claude" => overtaken = {}

(* The inductive invariant.                                                *)
IInv == /\ TypeOK /\ BacklogShape /\ BacklogBounded /\ NothingLost
        /\ WakeupInv /\ DispatchInv

(* Every waiting message is settled in the end, as long as the provider    *)
(* process stays up.                                                       *)
QueuedIsSettled ==
  \A m \in Msgs : status[m] = "queued" ~> status[m] # "queued" \/ proc # "up"

=============================================================================
