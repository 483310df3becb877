---------------------------- MODULE AutoRotation ----------------------------
(***************************************************************************)
(* The replacement of a session that has grown past the entry threshold by *)
(* a fresh one of the same name (modules/agents/session/auto-rotation.ts), *)
(* with what the queue runtime does around it: a drain and a direct send   *)
(* both await a rotation, the backlog moves to the replacement, and a turn *)
(* end starts the next rotation.                                           *)
(*                                                                         *)
(* A session object is a generation 1, 2, ...; live is the one that the    *)
(* sessions map holds.  The adapter is Claude's on a stdin that accepts:   *)
(* dispatch and answer are one step (SessionQueue has the others).  The    *)
(* order of the backlog, too, is SessionQueue's matter: here it is a set.  *)
(*                                                                         *)
(* A promise callback or a queued microtask runs before the next event of  *)
(* the outside, hence Quiet in the actions that such an event starts.      *)
(***************************************************************************)
EXTENDS Integers, FiniteSets

CONSTANTS Msgs,         \* message ids
          Urgent,       \* those sent directly; the others are queued
          None,         \* undefined
          Threshold,    \* autoRotateEntryThreshold
          MaxGen,       \* bound: session objects
          MaxRot,       \* bound: rotations in flight
          MaxFailures,  \* bound: replacements that cannot be created
          MaxDeletes    \* bound: DELETE /sessions/:name requests

ASSUME MessagesAssumption == Urgent \subseteq Msgs /\ None \notin Msgs
ASSUME ThresholdAssumption == Threshold \in Nat \ {0}
ASSUME BoundsAssumption == /\ MaxGen \in Nat \ {0} /\ MaxRot \in Nat \ {0}
                           /\ MaxFailures \in Nat /\ MaxDeletes \in Nat
                           /\ Msgs \cap (0..MaxGen) = {}

Gens == 1..MaxGen
Slots == 1..MaxRot
Callers == Gens \cup Urgent   \* a generation stands for its drain

VARIABLES
  live,       \* sessions.get(name); 0: none
  born,       \* session objects created
  session,    \* their fields
  drain,      \* the drain of each object
  into,       \* the session that each request to queue a message has looked up; 0: none
  direct,     \* each direct send: "new", "awaiting", "done"
  wait,       \* what the await of a caller stands on: a rotation, or a result
  rot,        \* calls of rotateStreamSessionIfNeeded that are past its checks
  registered, \* the one in autoRotationQueues; 0: no entry
  failures, deletes,
  fate        \* what became of each message

vars == <<live, born, session, drain, into, direct, wait, rot, registered,
          failures, deletes, fate>>

Fresh(backlog) ==
  [backlog |-> backlog, current |-> None, done |-> TRUE, entries |-> 0,
   rotate |-> FALSE, running |-> {}, up |-> TRUE]

Unborn == [Fresh({}) EXCEPT !.up = FALSE]
Free == [phase |-> "free", of |-> 0, result |-> 0]
NoDrain == [at |-> "idle", force |-> FALSE, again |-> "no"]

Init ==
  /\ live = 1 /\ born = 1
  /\ session = [g \in Gens |-> IF g = 1 THEN Fresh({}) ELSE Unborn]
  /\ drain = [g \in Gens |-> NoDrain]
  /\ into = [m \in Msgs \ Urgent |-> 0]
  /\ direct = [m \in Urgent |-> "new"]
  /\ wait = [c \in Callers |-> [on |-> 0, got |-> 0]]
  /\ rot = [s \in Slots |-> Free]
  /\ registered = 0
  /\ failures = 0 /\ deletes = 0
  /\ fate = [m \in Msgs |-> "new"]

-----------------------------------------------------------------------------
(* Microtasks in hand: a drain to start, a caller to resume, the finally   *)
(* of a rotation.                                                          *)
Ready(c) == /\ wait[c].on = 0
            /\ IF c \in Gens THEN drain[c].at = "awaiting" ELSE direct[c] = "awaiting"

Quiet == /\ \A g \in Gens : drain[g].at # "scheduled"
         /\ \A c \in Callers : ~Ready(c)
         /\ \A s \in Slots : rot[s].phase # "settling"

(* What rotateStreamSessionIfNeeded checks before it creates anything.     *)
RotationDue(s) == s.rotate /\ s.done /\ s.current = None

FreeSlot == CHOOSE s \in Slots : rot[s].phase = "free"
SomeSlot == \E s \in Slots : rot[s].phase = "free"

Creating(g) == [phase |-> "creating", of |-> g, result |-> 0]

(* Mutant: a caller does not wait for a rotation in flight.                *)
AwaitNothing(c) ==
  wait' = [wait EXCEPT ![c] = [on |-> 0, got |-> live]] /\ UNCHANGED rot

(* scheduleAutoRotationIfNeeded, with the sessions in the state ss.        *)
ScheduleRotation(ss) ==
  IF live # 0 /\ registered = 0 /\ RotationDue(ss[live])
    THEN /\ SomeSlot
         /\ rot' = [rot EXCEPT ![FreeSlot] = Creating(live)]
         /\ registered' = FreeSlot
    ELSE UNCHANGED <<rot, registered>>

(* awaitAutoRotationIfNeeded: join the registered rotation, or call        *)
(* rotateStreamSessionIfNeeded without registering it.                     *)
AwaitRotation(c) ==
  IF registered # 0
    THEN /\ wait' = [wait EXCEPT ![c] = [on |-> registered, got |-> 0]]
         /\ UNCHANGED rot
    ELSE IF live # 0 /\ RotationDue(session[live])
           THEN /\ SomeSlot
                /\ rot' = [rot EXCEPT ![FreeSlot] = Creating(live)]
                /\ wait' = [wait EXCEPT ![c] = [on |-> FreeSlot, got |-> 0]]
           ELSE /\ wait' = [wait EXCEPT ![c] = [on |-> 0, got |-> live]]
                /\ UNCHANGED rot

(* scheduleQueuedMessageDrain and the finally of the drain's microtask.    *)
Scheduled(d, force) ==
  IF d.at = "idle" THEN [d EXCEPT !.at = "scheduled", !.force = force]
  ELSE [d EXCEPT !.again = IF force \/ @ = "force" THEN "force" ELSE "yes"]

Finished(d) ==
  IF d.again = "no" THEN NoDrain
  ELSE [at |-> "scheduled", force |-> d.again = "force", again |-> "no"]

Accept(g, m, isCurrent) ==
  /\ session' = [session EXCEPT
       ![g].backlog = @ \ {m}, ![g].done = FALSE, ![g].running = @ \cup {m},
       ![g].current = IF isCurrent THEN m ELSE @]
  /\ fate' = [fate EXCEPT ![m] = IF @ \in {"sent", "answered", "cut"} THEN "again" ELSE "sent"]

-----------------------------------------------------------------------------
(* POST /message?queue=true looks the session up and awaits the workspace  *)
(* context of the text, which may never come.                              *)
QueueBegins(m) ==
  /\ Quiet /\ m \notin Urgent /\ fate[m] = "new" /\ into[m] = 0 /\ live # 0
  /\ into' = [into EXCEPT ![m] = live]
  /\ UNCHANGED <<live, born, session, drain, direct, wait, rot, registered, failures,
                 deletes, fate>>

(* ... then puts the message into the backlog of that session and answers  *)
(* 202, though the map may hold another one by now, or none.               *)
QueueLands(m) ==
  LET g == into[m]
  IN  /\ Quiet /\ m \notin Urgent /\ fate[m] = "new" /\ g # 0
      /\ into' = [into EXCEPT ![m] = 0]
      /\ session' = [session EXCEPT ![g].backlog = @ \cup {m}]
      /\ drain' = [drain EXCEPT ![g] = Scheduled(@, FALSE)]
      /\ fate' = [fate EXCEPT ![m] = IF g = live THEN "queued" ELSE "late"]
      /\ UNCHANGED <<live, born, direct, wait, rot, registered, failures, deletes>>

(* POST /send: sendImmediateTextToStreamSession up to its first await.  It *)
(* goes by the name; the session may be gone since the route looked it up. *)
SendImmediate(m) ==
  /\ Quiet /\ direct[m] = "new"
  /\ direct' = [direct EXCEPT ![m] = "awaiting"]
  /\ AwaitRotation(m)
  /\ UNCHANGED <<live, born, session, drain, into, registered, failures, deletes, fate>>

Unavailable(g) == IF g = 0 THEN TRUE ELSE ~session[g].up

(* ... and after it, on the session that the await returned: sent, or put  *)
(* in front of the backlog; a torn down process takes nothing.             *)
SendResumes(m) ==
  LET g == wait[m].got
      s == session[g]
      urgent == s.backlog \cap Urgent
  IN  /\ m \in Urgent /\ Ready(m)
      /\ direct' = [direct EXCEPT ![m] = "done"]
      /\ \/ /\ Unavailable(g)
            /\ fate' = [fate EXCEPT ![m] = "failed"]
            /\ UNCHANGED <<session, drain>>
         \/ /\ ~Unavailable(g)
            /\ ~s.done \/ s.current = None
            /\ urgent = {}
            /\ Accept(g, m, FALSE)
            /\ UNCHANGED drain
         \/ /\ ~Unavailable(g)
            /\ (s.done /\ s.current # None) \/ urgent # {}
            /\ session' = [session EXCEPT ![g].backlog = @ \cup {m}]
            /\ drain' = [drain EXCEPT ![g] = Scheduled(@, s.done)]
            /\ fate' = [fate EXCEPT ![m] = "queued"]
      /\ UNCHANGED <<live, born, into, wait, rot, registered, failures, deletes>>

(* drainQueuedMessages up to its await, or its early return.               *)
DrainBegins(g) ==
  /\ drain[g].at = "scheduled"
  /\ IF live = g /\ session[g].current = None
       THEN /\ drain' = [drain EXCEPT ![g].at = "awaiting"]
            /\ AwaitRotation(g)
       ELSE /\ drain' = [drain EXCEPT ![g] = Finished(@)]
            /\ UNCHANGED <<wait, rot>>
  /\ UNCHANGED <<live, born, session, into, direct, registered, failures, deletes, fate>>

(* Mutant: the drain does not compare the session it was given.            *)
DrainResumesBlindly(g) ==
  LET s == session[g]
      First == IF s.backlog \cap Urgent # {} THEN s.backlog \cap Urgent ELSE s.backlog
  IN  /\ drain[g].at = "awaiting" /\ Ready(g)
      /\ drain' = [drain EXCEPT ![g] = Finished(@)]
      /\ \E m \in First : Accept(g, m, TRUE)
      /\ UNCHANGED <<live, born, into, direct, wait, rot, registered, failures, deletes>>

(* ... and after it: hand the drain to the session that replaced this one, *)
(* or send the first message.                                              *)
DrainResumes(g) ==
  LET r == wait[g].got
      s == session[g]
      First == IF s.backlog \cap Urgent # {} THEN s.backlog \cap Urgent ELSE s.backlog
      May(m) == s.done \/ m \in Urgent \/ drain[g].force
  IN  /\ drain[g].at = "awaiting" /\ Ready(g)
      /\ \/ /\ r \notin {0, g}
            /\ drain' = [drain EXCEPT ![g] = Finished(@), ![r] = Scheduled(@, drain[g].force)]
            /\ UNCHANGED <<session, fate>>
         \/ /\ r = 0 \/ (r = g /\ \A m \in First : ~May(m))
            /\ drain' = [drain EXCEPT ![g] = Finished(@)]
            /\ UNCHANGED <<session, fate>>
         \/ /\ r = g
            /\ drain' = [drain EXCEPT ![g] = Finished(@)]
            /\ \E m \in First :
                 /\ May(m)
                 /\ IF s.up THEN Accept(g, m, TRUE)
                    ELSE /\ session' = [session EXCEPT ![g].backlog = @ \ {m}]
                         /\ fate' = [fate EXCEPT ![m] = "failed"]
      /\ UNCHANGED <<live, born, into, direct, wait, rot, registered, failures, deletes>>

Ended(s) ==
  LET entries == IF s.entries < Threshold THEN s.entries + 1 ELSE s.entries
  IN  [s EXCEPT !.done = TRUE, !.current = None, !.running = {}, !.entries = entries,
                !.rotate = @ \/ entries >= Threshold]

EndTurn(g) ==
  /\ Quiet /\ session[g].up /\ session[g].running # {}
  /\ session' = [session EXCEPT ![g] = Ended(@)]
  /\ fate' = [m \in Msgs |-> IF m \in session[g].running THEN "answered" ELSE fate[m]]
  /\ UNCHANGED <<live, born, into, direct, wait, failures, deletes>>

(* Mutant: no drain for a backlog alone.                                   *)
TurnEndNoDrain(g) ==
  /\ EndTurn(g)
  /\ ScheduleRotation(session')
  /\ drain' = IF session[g].current # None
                THEN [drain EXCEPT ![g] = Scheduled(@, FALSE)] ELSE drain

(* appendStreamEvent on a turn end: count the entry (up to the threshold   *)
(* is enough), clear the current message, start a rotation that is due,    *)
(* then a drain.                                                           *)
TurnEnd(g) ==
  /\ EndTurn(g)
  /\ ScheduleRotation(session')
  /\ drain' = IF session[g].current # None \/ session[g].backlog # {}
                THEN [drain EXCEPT ![g] = Scheduled(@, FALSE)] ELSE drain

-----------------------------------------------------------------------------
(* The end of a rotation call: an unregistered one resumes its caller; the *)
(* registered one goes through its finally first.                          *)
Return(s, result) ==
  IF s = registered
    THEN /\ rot' = [rot EXCEPT ![s] = [phase |-> "settling", of |-> 0, result |-> result]]
         /\ UNCHANGED wait
    ELSE /\ rot' = [rot EXCEPT ![s] = Free]
         /\ wait' = [c \in Callers |-> IF wait[c].on = s THEN [on |-> 0, got |-> result]
                                       ELSE wait[c]]

Replace(s, backlog, teardown) ==
  LET old == rot[s].of
      new == born + 1
  IN  /\ Quiet /\ rot[s].phase = "creating" /\ born < MaxGen
      /\ born' = new /\ live' = new
      /\ session' = [session EXCEPT ![new] = Fresh(backlog), ![old].up = @ /\ ~teardown,
                                    ![old].running = IF teardown THEN {} ELSE @]
      /\ fate' = [m \in Msgs |-> IF teardown /\ m \in session[old].running
                                   THEN "cut" ELSE fate[m]]
      /\ drain' = IF backlog # {} THEN [drain EXCEPT ![new] = Scheduled(@, TRUE)] ELSE drain
      /\ Return(s, new)
      /\ UNCHANGED <<into, direct, registered, failures, deletes>>

(* Mutants: the backlog stays behind; the old process is left running.     *)
RotationMadeEmpty(s) == Replace(s, {}, TRUE)
RotationMadeNoTeardown(s) == Replace(s, session[rot[s].of].backlog, FALSE)

(* The replacement exists: it takes the backlog and the place in the map,  *)
(* and the old object is torn down, whatever happened to either since.     *)
RotationMade(s) == Replace(s, session[rot[s].of].backlog, TRUE)

(* The replacement could not be created; the session stays, and stays due. *)
RotationFails(s) ==
  /\ Quiet /\ rot[s].phase = "creating" /\ failures < MaxFailures
  /\ failures' = failures + 1
  /\ Return(s, live)
  /\ UNCHANGED <<live, born, session, drain, into, direct, registered, deletes, fate>>

(* The finally of scheduleAutoRotationIfNeeded, then its waiters resume.   *)
RotationSettles(s) ==
  LET due == live # 0 /\ RotationDue(session[live])
  IN  /\ rot[s].phase = "settling"
      /\ wait' = [c \in Callers |-> IF wait[c].on = s THEN [on |-> 0, got |-> rot[s].result]
                                    ELSE wait[c]]
      /\ rot' = [rot EXCEPT ![s] = IF due THEN Creating(live) ELSE Free]
      /\ registered' = IF due THEN s ELSE 0
      /\ UNCHANGED <<live, born, session, drain, into, direct, failures, deletes, fate>>

-----------------------------------------------------------------------------
(* DELETE /sessions/:name: tear the session down and take the name out of  *)
(* the map.                                                                *)
Delete ==
  /\ Quiet /\ live # 0 /\ deletes < MaxDeletes
  /\ deletes' = deletes + 1
  /\ live' = 0
  /\ session' = [session EXCEPT ![live].up = FALSE, ![live].running = {}]
  /\ fate' = [m \in Msgs |-> IF m \in session[live].running THEN "deleted" ELSE fate[m]]
  /\ UNCHANGED <<born, drain, into, direct, wait, rot, registered, failures>>

-----------------------------------------------------------------------------
Microtask == \/ \E g \in Gens : DrainBegins(g) \/ DrainResumes(g)
             \/ \E m \in Urgent : SendResumes(m)
             \/ \E s \in Slots : RotationSettles(s)
Rotation == \E s \in Slots : RotationMade(s) \/ RotationFails(s)
AgentWork == \E g \in Gens : TurnEnd(g)

Next == \/ \E m \in Msgs \ Urgent : QueueBegins(m) \/ QueueLands(m)
        \/ \E m \in Urgent : SendImmediate(m)
        \/ Microtask \/ Rotation \/ AgentWork
        \/ Delete

Spec == Init /\ [][Next]_vars

FairSpec == Spec /\ WF_vars(Microtask) /\ WF_vars(Rotation) /\ WF_vars(AgentWork)

-----------------------------------------------------------------------------
(* Types; a caller waits for a rotation in flight, and so is the one that  *)
(* the map names.                                                          *)
TypeOK ==
  /\ live \in 0..born /\ born \in Gens
  /\ registered \in 0..MaxRot
  /\ session \in [Gens -> [backlog : SUBSET Msgs, current : Msgs \cup {None},
                           done : BOOLEAN, entries : Nat, rotate : BOOLEAN,
                           running : SUBSET Msgs, up : BOOLEAN]]
  /\ drain \in [Gens -> [at : {"idle", "scheduled", "awaiting"}, force : BOOLEAN,
                         again : {"no", "yes", "force"}]]
  /\ into \in [Msgs \ Urgent -> 0..born]
  /\ direct \in [Urgent -> {"new", "awaiting", "done"}]
  /\ wait \in [Callers -> [on : 0..MaxRot, got : 0..born]]
  /\ rot \in [Slots -> [phase : {"free", "creating", "settling"}, of : 0..born,
                        result : 0..born]]
  /\ failures \in 0..MaxFailures /\ deletes \in 0..MaxDeletes
  /\ fate \in [Msgs -> {"new", "queued", "sent", "answered", "cut", "deleted",
                        "failed", "again", "late"}]
  /\ \A c \in Callers : wait[c].on # 0 => rot[wait[c].on].phase # "free"
  /\ registered # 0 => rot[registered].phase # "free"

(* Rotations lose nothing: a message that was put into the backlog of the  *)
(* session in the map and is not yet sent is in the backlog of the session *)
(* the name stands for now, however often that session was replaced since, *)
(* and mid-copy too.  A message that its route puts into a session it      *)
(* looked up before a replacement ("late") is outside of this, and lost    *)
(* (session-control-routes.ts:198-240).                                    *)
NothingLost ==
  live # 0 => \A m \in Msgs : fate[m] = "queued" => m \in session[live].backlog

(* ... and duplicate nothing: a message copied to a replacement is not     *)
(* sent by both, nor by both of its drains.                                *)
AtMostOnce == \A m \in Msgs : fate[m] # "again"

(* Everything is well-formed and single: the call that awaitAutoRotation-  *)
(* IfNeeded makes without registering it never runs beside another one,    *)
(* and no provider process is left behind a replacement or a deletion.     *)
OneOfEach ==
  /\ TypeOK
  /\ Cardinality({ s \in Slots : rot[s].phase = "creating" }) <= 1
  /\ \A g \in Gens : session[g].up => g = live

(* Without failures a rotation never tears a session down in mid-turn.     *)
NoTurnCut == failures = 0 => \A m \in Msgs : fate[m] # "cut"

(* Messages that wait in the session of the map are sent or deleted with   *)
(* it, and a session that is due for a rotation is replaced, through the   *)
(* failures of both.  (A late message waits in an object that no drain     *)
(* sends from: queue-runtime.ts:376.)                                      *)
QueuedIsSettled == \A m \in Msgs : fate[m] = "queued" ~> fate[m] # "queued" \/ live = 0
RotatesInTheEnd == \A g \in Gens : live = g /\ RotationDue(session[g]) ~> live # g
MovesOn == QueuedIsSettled /\ RotatesInTheEnd

=============================================================================
