------------------------- MODULE AutoRotationProofs -------------------------
(* Rotations lose, repeat and cut nothing, for any messages and any number  *)
(* of sessions, failures and deletions.                                     *)
EXTENDS AutoRotation, FiniteSetTheorems, TLAPS

Queued == { m \in Msgs : fate[m] = "queued" }
Late == { m \in Msgs : fate[m] = "late" }

(* What a backlog may hold: every queued message, and late ones.           *)
Waits(backlog) == Queued \subseteq backlog /\ backlog \subseteq Queued \cup Late

Creates(s) == rot[s].phase = "creating"

(***************************************************************************)
(* A session that is due always has a rotation on record: a turn end makes *)
(* it due and records one at once, and a rotation that ends records the    *)
(* next.  So no caller ever starts one by itself, and there is one.        *)
(***************************************************************************)
DueIsRegistered == live # 0 /\ RotationDue(session[live]) => registered # 0

OneRotation ==
  /\ \A s \in Slots : rot[s].phase # "free" <=> s = registered
  /\ \A s \in Slots : Creates(s) => /\ rot[s].of # 0
                                    /\ live # 0 => rot[s].of = live
  /\ \A s \in Slots : rot[s].phase = "settling" => rot[s].result = live

(* Whoever resumes has in hand what the name stands for now.               *)
ResumesOnLive ==
  \A c \in Callers : /\ wait[c].on \in {0, registered}
                     /\ Ready(c) => wait[c].got = live

(* A process is up, and a turn runs, in the session in the map only.       *)
UpIsLive == \A g \in Gens : /\ session[g].up <=> g = live
                            /\ session[g].running # {} => g = live /\ ~session[g].done

(* Where messages are, by their fate.  While the name is gone the backlog  *)
(* waits in the session that is being replaced.                            *)
RunningSent == \A g \in Gens : \A m \in session[g].running : fate[m] = "sent"

DirectsAreNew == \A m \in Urgent : direct[m] # "done" => fate[m] = "new"

BacklogIsQueued ==
  /\ live # 0 => Waits(session[live].backlog)
  /\ \A s \in Slots : Creates(s) => Waits(session[rot[s].of].backlog)

(* Before any rotation failed nobody resumes while one is being made, and  *)
(* the session it made is not due when it settles.                         *)
CalmCreating ==
  failures = 0 => \A s \in Slots : Creates(s) => /\ \A c \in Callers : ~Ready(c)
                                                 /\ session[rot[s].of].running = {}

CalmSettling ==
  failures = 0 =>
    \A s \in Slots : rot[s].phase = "settling" /\ live # 0 => ~session[live].rotate

InSessions == /\ DueIsRegistered /\ OneRotation /\ UpIsLive /\ RunningSent
              /\ BacklogIsQueued /\ AtMostOnce /\ CalmSettling /\ NoTurnCut

IInv == TypeOK /\ InSessions /\ ResumesOnLive /\ DirectsAreNew /\ CalmCreating

-----------------------------------------------------------------------------
Sessions == [backlog : SUBSET Msgs, current : Msgs \cup {None}, done : BOOLEAN,
             entries : Nat, rotate : BOOLEAN, running : SUBSET Msgs, up : BOOLEAN]
Drains == [at : {"idle", "scheduled", "awaiting"}, force : BOOLEAN,
           again : {"no", "yes", "force"}]
FateSet == {"new", "queued", "sent", "answered", "cut", "deleted", "failed", "again", "late"}

LEMMA DrainTypes ==
  ASSUME NEW d \in Drains, NEW force \in BOOLEAN
  PROVE  /\ Scheduled(d, force) \in Drains
         /\ Scheduled(d, force).at = "awaiting" <=> d.at = "awaiting"
         /\ Finished(d) \in Drains /\ Finished(d).at # "awaiting"
PROOF
  <1>1. ASSUME d.at = "idle"
        PROVE  Scheduled(d, force) \in Drains /\ Scheduled(d, force).at # "awaiting"
    BY <1>1 DEF Drains, Scheduled
  <1>2. ASSUME d.at # "idle"
        PROVE  Scheduled(d, force) \in Drains /\ Scheduled(d, force).at = d.at
    BY <1>2 DEF Drains, Scheduled
  <1>3. Finished(d) \in Drains /\ Finished(d).at # "awaiting"
    BY DEF Drains, Finished, NoDrain
  <1> QED  BY <1>1, <1>2, <1>3

LEMMA DrainScheduled ==
  ASSUME drain \in [Gens -> Drains], NEW g \in Gens, NEW force \in BOOLEAN,
         drain' = [drain EXCEPT ![g] = Scheduled(@, force)]
  PROVE  /\ drain' \in [Gens -> Drains]
         /\ \A h \in Gens : drain'[h].at = "awaiting" <=> drain[h].at = "awaiting"
PROOF
  <1>1. Scheduled(drain[g], force) \in Drains
        /\ (Scheduled(drain[g], force).at = "awaiting" <=> drain[g].at = "awaiting")
    BY DrainTypes
  <1>2. drain'[g] = Scheduled(drain[g], force) /\ \A h \in Gens \ {g} : drain'[h] = drain[h]
    OBVIOUS
  <1> QED  BY <1>1, <1>2

LEMMA TypeParts ==
  TypeOK <=>
    /\ session \in [Gens -> Sessions] /\ drain \in [Gens -> Drains]
    /\ fate \in [Msgs -> FateSet] /\ direct \in [Urgent -> {"new", "awaiting", "done"}]
    /\ into \in [Msgs \ Urgent -> 0..born]
    /\ live \in 0..born /\ born \in Gens /\ registered \in 0..MaxRot
    /\ failures \in 0..MaxFailures /\ deletes \in 0..MaxDeletes
    /\ wait \in [Callers -> [on : 0..MaxRot, got : 0..born]]
    /\ rot \in [Slots -> [phase : {"free", "creating", "settling"}, of : 0..born,
                          result : 0..born]]
    /\ \A c \in Callers : wait[c].on # 0 => rot[wait[c].on].phase # "free"
    /\ registered # 0 => rot[registered].phase # "free"
PROOF
  BY DEF TypeOK, Sessions, Drains, FateSet

LEMMA BoundFacts ==
  /\ MaxGen \in Nat \ {0} /\ MaxRot \in Nat \ {0} /\ MaxFailures \in Nat /\ MaxDeletes \in Nat
  /\ Gens \subseteq Nat \ {0} /\ 1 \in Gens /\ Slots \subseteq Nat \ {0} /\ Slots # {}
  /\ Urgent \subseteq Msgs /\ None \notin Msgs /\ \A m \in Msgs : m \notin Gens
PROOF
  BY BoundsAssumption, MessagesAssumption DEF Gens, Slots

LEMMA InitIInv == Init => IInv
PROOF
  <1> SUFFICES ASSUME Init
               PROVE  IInv
    OBVIOUS
  <1> USE BoundFacts DEF Init
  <1>1. TypeOK
    <2>1. live \in 0..born /\ born \in Gens /\ registered \in 0..MaxRot
          /\ failures \in 0..MaxFailures /\ deletes \in 0..MaxDeletes
      OBVIOUS
    <2>2. session \in [Gens -> [backlog : SUBSET Msgs, current : Msgs \cup {None},
                                done : BOOLEAN, entries : Nat, rotate : BOOLEAN,
                                running : SUBSET Msgs, up : BOOLEAN]]
      BY DEF Fresh, Unborn
    <2>3. drain \in [Gens -> [at : {"idle", "scheduled", "awaiting"}, force : BOOLEAN,
                              again : {"no", "yes", "force"}]]
      BY DEF NoDrain
    <2>4. wait \in [Callers -> [on : 0..MaxRot, got : 0..born]]
      OBVIOUS
    <2>5. rot \in [Slots -> [phase : {"free", "creating", "settling"}, of : 0..born,
                             result : 0..born]]
      BY DEF Free
    <2>6. /\ into \in [Msgs \ Urgent -> 0..born]
          /\ direct \in [Urgent -> {"new", "awaiting", "done"}]
          /\ fate \in [Msgs -> {"new", "queued", "sent", "answered", "cut", "deleted",
                                "failed", "again", "late"}]
          /\ \A c \in Callers : wait[c].on = 0
      OBVIOUS
    <2> QED  BY <2>1, <2>2, <2>3, <2>4, <2>5, <2>6 DEF TypeOK
  <1>2. DueIsRegistered /\ OneRotation
    BY DEF DueIsRegistered, OneRotation, RotationDue, Fresh, Free, Creates
  <1>3. ResumesOnLive
    <2>1. \A c \in Callers : ~Ready(c)
      BY DEF Ready, Callers, NoDrain
    <2> QED  BY <2>1 DEF ResumesOnLive
  <1>4. UpIsLive
    BY DEF UpIsLive, Fresh, Unborn
  <1>5. RunningSent /\ DirectsAreNew /\ BacklogIsQueued
    BY DEF RunningSent, DirectsAreNew, BacklogIsQueued, Waits, Queued, Late, Fresh, Unborn, Creates, Free
  <1>6. AtMostOnce /\ CalmCreating /\ CalmSettling /\ NoTurnCut
    BY DEF AtMostOnce, CalmCreating, CalmSettling, NoTurnCut, Creates, Free
  <1> QED  BY <1>1, <1>2, <1>3, <1>4, <1>5, <1>6 DEF IInv, InSessions

(* No caller starts a rotation: it joins the one there is, or goes on with *)
(* the session in the map.                                                 *)
LEMMA AwaitFacts ==
  ASSUME IInv, NEW c \in Callers, AwaitRotation(c)
  PROVE  /\ rot' = rot
         /\ wait' = [wait EXCEPT ![c] = IF registered # 0 THEN [on |-> registered, got |-> 0]
                                        ELSE [on |-> 0, got |-> live]]
PROOF
  BY DEF AwaitRotation, IInv, InSessions, DueIsRegistered

LEMMA SlotFacts ==
  ASSUME IInv
  PROVE  /\ registered = 0 => /\ \A s \in Slots : rot[s].phase = "free"
                              /\ FreeSlot \in Slots
         /\ registered # 0 => registered \in Slots
         /\ \A s \in Slots : rot[s].phase # "free" => s = registered /\ registered # 0
         /\ \A s \in Slots : Creates(s) => rot[s].of \in Gens
PROOF
  <1> USE BoundFacts
  <1>1. registered # 0 => registered \in Slots
    BY DEF IInv, TypeOK, Slots
  <1>2. registered = 0 => \A s \in Slots : rot[s].phase = "free"
    BY DEF IInv, InSessions, OneRotation
  <1>3. registered = 0 => FreeSlot \in Slots
    <2>1. registered = 0 => \E s \in Slots : rot[s].phase = "free"
      BY <1>2
    <2> QED  BY <2>1 DEF FreeSlot
  <1>4. ASSUME NEW s \in Slots, Creates(s)
        PROVE  rot[s].of \in Gens
    <2>1. rot[s].of \in 0..born /\ rot[s].of # 0 /\ born \in 1..MaxGen
      BY <1>4 DEF IInv, InSessions, OneRotation, TypeOK, Gens
    <2> QED  BY <2>1 DEF Gens
  <1> QED  BY <1>1, <1>2, <1>3, <1>4 DEF IInv, InSessions, OneRotation

-----------------------------------------------------------------------------
(* A message joins the backlog of the session in the map.                  *)
LEMMA BackloggedKeeps ==
  ASSUME IInv, live # 0, NEW m \in Msgs, fate[m] = "new",
         session' = [session EXCEPT ![live].backlog = @ \cup {m}],
         fate' = [fate EXCEPT ![m] = "queued"],
         UNCHANGED <<live, born, rot, registered, failures>>
  PROVE  /\ InSessions' /\ session' \in [Gens -> Sessions] /\ fate' \in [Msgs -> FateSet]
         /\ \A g \in Gens : session'[g].running = session[g].running
PROOF
  <1> USE BoundFacts DEF IInv, InSessions
  <1>a. live \in 0..born /\ born \in 1..MaxGen
    BY DEF TypeOK, Gens
  <1>b. live \in Gens
    BY <1>a DEF Gens
  <1>0. live \in Gens /\ session[live] \in Sessions /\ session \in [Gens -> Sessions]
        /\ fate \in [Msgs -> FateSet]
    BY <1>b, TypeParts
  <1>1. /\ \A g \in Gens \ {live} : session'[g] = session[g]
        /\ session'[live] = [session[live] EXCEPT !.backlog = @ \cup {m}]
        /\ \A n \in Msgs \ {m} : fate'[n] = fate[n]
        /\ fate'[m] = "queued"
    BY <1>0
  <1>2. \A g \in Gens : /\ session'[g].up = session[g].up
                        /\ session'[g].done = session[g].done
                        /\ session'[g].current = session[g].current
                        /\ session'[g].rotate = session[g].rotate
                        /\ session'[g].running = session[g].running
    BY <1>0, <1>1 DEF Sessions
  <1>3. session' \in [Gens -> Sessions]
    <2>1. [session[live] EXCEPT !.backlog = @ \cup {m}] \in Sessions
      BY <1>0 DEF Sessions
    <2>2. session' = [session EXCEPT ![live] = [session[live] EXCEPT !.backlog = @ \cup {m}]]
      OBVIOUS
    <2> QED  BY <1>0, <2>1, <2>2
  <1>4. fate' \in [Msgs -> FateSet]
    BY <1>0 DEF FateSet
  <1>5. DueIsRegistered' /\ OneRotation' /\ UpIsLive'
    BY <1>0, <1>2 DEF DueIsRegistered, OneRotation, UpIsLive, RotationDue, Creates
  <1>6. RunningSent'
    <2> SUFFICES ASSUME NEW g \in Gens, NEW n \in session'[g].running
                 PROVE  fate'[n] = "sent"
      BY DEF RunningSent
    <2>1. n \in session[g].running
      BY <1>2
    <2>2. n \in Msgs /\ fate[n] = "sent"
      BY <1>0, <2>1 DEF RunningSent, Sessions
    <2> QED  BY <1>1, <2>2
  <1>7. BacklogIsQueued'
    <2>1. Queued' = Queued \cup {m} /\ Late' = Late
      BY <1>1 DEF Queued, Late
    <2>2. session'[live].backlog = session[live].backlog \cup {m}
      BY <1>0, <1>1 DEF Sessions
    <2>3. Waits(session[live].backlog)
      BY DEF BacklogIsQueued
    <2>4. Waits(session[live].backlog)'
      BY <2>1, <2>2, <2>3 DEF Waits
    <2> QED  BY <2>4 DEF OneRotation, BacklogIsQueued, Creates
  <1>8. AtMostOnce' /\ NoTurnCut'
    BY <1>1 DEF AtMostOnce, NoTurnCut
  <1>9. CalmSettling'
    BY <1>0, <1>2 DEF CalmSettling
  <1> QED  BY <1>2, <1>3, <1>4, <1>5, <1>6, <1>7, <1>8, <1>9

(* The session in the map takes a message.                                 *)
LEMMA AcceptedKeeps ==
  ASSUME IInv, live # 0, NEW m \in Msgs, fate[m] \in {"new", "queued", "late"},
         NEW isCurrent \in BOOLEAN, Accept(live, m, isCurrent),
         UNCHANGED <<live, born, rot, registered, failures>>
  PROVE  /\ InSessions' /\ session' \in [Gens -> Sessions] /\ fate' \in [Msgs -> FateSet]
         /\ fate' = [fate EXCEPT ![m] = "sent"]
PROOF
  <1> USE BoundFacts DEF IInv, InSessions
  <1>a. live \in 0..born /\ born \in 1..MaxGen
    BY DEF TypeOK, Gens
  <1>b. live \in Gens
    BY <1>a DEF Gens
  <1>0. live \in Gens /\ session[live] \in Sessions /\ session \in [Gens -> Sessions]
        /\ fate \in [Msgs -> FateSet]
    BY <1>b, TypeParts
  <1>f. fate' = [fate EXCEPT ![m] = "sent"]
    BY DEF Accept
  <1> DEFINE next == [session[live] EXCEPT
                        !.backlog = @ \ {m}, !.done = FALSE, !.running = @ \cup {m},
                        !.current = IF isCurrent THEN m ELSE @]
  <1>s. session' = [session EXCEPT ![live] = next]
    BY <1>0 DEF Accept
  <1>n. /\ next \in Sessions /\ next.backlog = session[live].backlog \ {m}
        /\ next.done = FALSE /\ next.running = session[live].running \cup {m}
        /\ next.up = session[live].up /\ next.rotate = session[live].rotate
    BY <1>0 DEF Sessions
  <1> HIDE DEF next
  <1>1. /\ \A g \in Gens \ {live} : session'[g] = session[g]
        /\ session'[live] = next
        /\ \A n \in Msgs \ {m} : fate'[n] = fate[n]
        /\ fate'[m] = "sent"
    BY <1>0, <1>f, <1>s
  <1>3. session' \in [Gens -> Sessions] /\ fate' \in [Msgs -> FateSet]
    BY <1>0, <1>f, <1>n, <1>s DEF FateSet
  <1>5. DueIsRegistered' /\ OneRotation' /\ UpIsLive'
    BY <1>0, <1>1, <1>n DEF DueIsRegistered, OneRotation, UpIsLive, RotationDue, Creates
  <1>6. RunningSent'
    <2> SUFFICES ASSUME NEW g \in Gens, NEW n \in session'[g].running
                 PROVE  fate'[n] = "sent"
      BY DEF RunningSent
    <2>1. n = m \/ n \in session[g].running
      BY <1>1, <1>n
    <2>2. n = m \/ (n \in Msgs /\ fate[n] = "sent")
      BY <1>0, <2>1 DEF RunningSent, Sessions
    <2> QED  BY <1>1, <2>2
  <1>7. BacklogIsQueued'
    <2>1. Queued' = Queued \ {m} /\ Late' = Late \ {m}
      BY <1>1 DEF Queued, Late
    <2>2. Waits(session[live].backlog)
      BY DEF BacklogIsQueued
    <2>3. Waits(session[live].backlog)'
      BY <1>1, <1>n, <2>1, <2>2 DEF Waits
    <2> QED  BY <2>3 DEF OneRotation, BacklogIsQueued, Creates
  <1>8. AtMostOnce' /\ NoTurnCut'
    BY <1>1 DEF AtMostOnce, NoTurnCut
  <1>9. CalmSettling'
    BY <1>0, <1>1, <1>n DEF CalmSettling
  <1> QED  BY <1>3, <1>5, <1>6, <1>7, <1>8, <1>9, <1>f

-----------------------------------------------------------------------------
LEMMA QueueBeginsKeeps ==
  ASSUME IInv, NEW m \in Msgs \ Urgent, QueueBegins(m)
  PROVE  IInv'
PROOF
  <1> USE DEF IInv, QueueBegins
  <1>1. TypeOK'
    BY DEF TypeOK
  <1>2. InSessions'
    BY DEF InSessions, DueIsRegistered, OneRotation, UpIsLive, RunningSent,
           BacklogIsQueued, Waits, Queued, Late, AtMostOnce, CalmSettling, NoTurnCut, Creates,
           RotationDue
  <1>3. ResumesOnLive' /\ DirectsAreNew' /\ CalmCreating'
    BY DEF ResumesOnLive, Ready, DirectsAreNew, CalmCreating, Creates
  <1> QED  BY <1>1, <1>2, <1>3

(* A message joins the backlog of a session that is not in the map.        *)
LEMMA LateKeeps ==
  ASSUME IInv, NEW g \in Gens, g # live, NEW m \in Msgs, fate[m] = "new",
         session' = [session EXCEPT ![g].backlog = @ \cup {m}],
         fate' = [fate EXCEPT ![m] = "late"],
         UNCHANGED <<live, born, rot, registered, failures>>
  PROVE  /\ InSessions' /\ session' \in [Gens -> Sessions] /\ fate' \in [Msgs -> FateSet]
         /\ \A h \in Gens : session'[h].running = session[h].running
PROOF
  <1> USE BoundFacts DEF IInv, InSessions
  <1>0. session[g] \in Sessions /\ session \in [Gens -> Sessions] /\ fate \in [Msgs -> FateSet]
    BY TypeParts
  <1>1. /\ \A h \in Gens \ {g} : session'[h] = session[h]
        /\ session'[g] = [session[g] EXCEPT !.backlog = @ \cup {m}]
        /\ \A n \in Msgs \ {m} : fate'[n] = fate[n]
        /\ fate'[m] = "late"
    BY <1>0
  <1>2. /\ \A h \in Gens : /\ session'[h].up = session[h].up
                           /\ session'[h].done = session[h].done
                           /\ session'[h].current = session[h].current
                           /\ session'[h].rotate = session[h].rotate
                           /\ session'[h].running = session[h].running
        /\ session'[g].backlog = session[g].backlog \cup {m}
    BY <1>0, <1>1 DEF Sessions
  <1>3. session' \in [Gens -> Sessions]
    <2>1. [session[g] EXCEPT !.backlog = @ \cup {m}] \in Sessions
      BY <1>0 DEF Sessions
    <2>2. session' = [session EXCEPT ![g] = [session[g] EXCEPT !.backlog = @ \cup {m}]]
      OBVIOUS
    <2> QED  BY <1>0, <2>1, <2>2
  <1>4. fate' \in [Msgs -> FateSet]
    BY <1>0 DEF FateSet
  <1>5. DueIsRegistered' /\ OneRotation' /\ UpIsLive'
    BY <1>0, <1>2 DEF DueIsRegistered, OneRotation, UpIsLive, RotationDue, Creates
  <1>6. RunningSent'
    <2> SUFFICES ASSUME NEW h \in Gens, NEW n \in session'[h].running
                 PROVE  fate'[n] = "sent"
      BY DEF RunningSent
    <2>1. n \in session[h].running
      BY <1>2
    <2>2. n \in Msgs /\ fate[n] = "sent"
      BY <1>0, <2>1 DEF RunningSent, Sessions
    <2> QED  BY <1>1, <2>2
  <1>7. BacklogIsQueued'
    <2>1. Queued' = Queued /\ Late' = Late \cup {m}
      BY <1>1 DEF Queued, Late
    <2>2. \A h \in Gens : Waits(session[h].backlog) => Waits(session[h].backlog)'
      <3> SUFFICES ASSUME NEW h \in Gens, Waits(session[h].backlog)
                   PROVE  Waits(session[h].backlog)'
        OBVIOUS
      <3>1. session'[h].backlog = session[h].backlog
            \/ session'[h].backlog = session[h].backlog \cup {m}
        BY <1>1, <1>2
      <3> QED  BY <2>1, <3>1 DEF Waits
    <2>3. \A s \in Slots : Creates(s)' => Creates(s) /\ rot'[s] = rot[s] /\ rot[s].of \in Gens
      BY SlotFacts DEF Creates
    <2>4. live # 0 => live \in Gens
      BY BoundFacts DEF TypeOK, Gens
    <2> QED  BY <2>2, <2>3, <2>4 DEF BacklogIsQueued
  <1>8. AtMostOnce' /\ NoTurnCut'
    BY <1>1 DEF AtMostOnce, NoTurnCut
  <1>9. CalmSettling'
    BY <1>0, <1>2 DEF CalmSettling
  <1> QED  BY <1>2, <1>3, <1>4, <1>5, <1>6, <1>7, <1>8, <1>9

LEMMA QueueLandsKeeps ==
  ASSUME IInv, NEW m \in Msgs \ Urgent, QueueLands(m)
  PROVE  IInv'
PROOF
  <1> USE BoundFacts DEF IInv
  <1> DEFINE g == into[m]
  <1>0. /\ g \in Gens /\ drain \in [Gens -> Drains] /\ fate[m] = "new"
        /\ into' = [into EXCEPT ![m] = 0]
        /\ session' = [session EXCEPT ![g].backlog = @ \cup {m}]
        /\ drain' = [drain EXCEPT ![g] = Scheduled(@, FALSE)]
        /\ fate' = [fate EXCEPT ![m] = IF g = live THEN "queued" ELSE "late"]
        /\ UNCHANGED <<live, born, direct, wait, rot, registered, failures, deletes>>
    <2>1. g \in 0..born /\ g # 0 /\ born \in Gens
      BY TypeParts DEF QueueLands
    <2> QED  BY <2>1, TypeParts DEF QueueLands, Gens
  <1> HIDE DEF g
  <1>1. /\ InSessions' /\ session' \in [Gens -> Sessions] /\ fate' \in [Msgs -> FateSet]
        /\ \A h \in Gens : session'[h].running = session[h].running
    <2>1. CASE g = live
      <3>1. live # 0
        BY <1>0, <2>1
      <3> QED  BY <1>0, <2>1, <3>1, BackloggedKeeps
    <2>2. CASE g # live
      BY <1>0, <2>2, LateKeeps
    <2> QED  BY <2>1, <2>2
  <1>2. /\ drain' \in [Gens -> Drains]
        /\ \A h \in Gens : drain'[h].at = "awaiting" <=> drain[h].at = "awaiting"
    BY <1>0, DrainScheduled
  <1>3. \A c \in Callers : Ready(c)' <=> Ready(c)
    BY <1>0, <1>2 DEF Ready
  <1>4. TypeOK'
    <2>1. into' \in [Msgs \ Urgent -> 0..born]
      BY <1>0, TypeParts
    <2> QED  BY <1>0, <1>1, <1>2, <2>1 DEF TypeOK, Sessions, Drains, FateSet
  <1>5. ResumesOnLive'
    BY <1>0, <1>3 DEF ResumesOnLive
  <1>6. CalmCreating'
    <2>1. \A s \in Slots : Creates(s)' => Creates(s) /\ rot'[s] = rot[s] /\ rot[s].of \in Gens
      BY <1>0, SlotFacts DEF Creates
    <2> QED  BY <1>0, <1>1, <1>3, <2>1 DEF CalmCreating
  <1>7. DirectsAreNew'
    BY <1>0 DEF DirectsAreNew
  <1> QED  BY <1>1, <1>4, <1>5, <1>6, <1>7

LEMMA SendImmediateKeeps ==
  ASSUME IInv, NEW m \in Urgent, SendImmediate(m)
  PROVE  IInv'
PROOF
  <1> USE BoundFacts DEF IInv, SendImmediate
  <1>0. m \in Callers /\ m \notin Gens
    BY DEF Callers
  <1>1. /\ rot' = rot
        /\ wait' = [wait EXCEPT ![m] = IF registered # 0 THEN [on |-> registered, got |-> 0]
                                       ELSE [on |-> 0, got |-> live]]
    BY <1>0, AwaitFacts
  <1>2. /\ \A c \in Callers \ {m} : wait'[c] = wait[c] /\ (Ready(c)' <=> Ready(c))
        /\ wait'[m].on = registered /\ (registered = 0 => wait'[m].got = live)
    <2>1. \A c \in Callers \ {m} : wait'[c] = wait[c]
      BY <1>0, <1>1 DEF TypeOK
    <2>2. \A c \in Callers \ {m} : Ready(c)' <=> Ready(c)
      BY <2>1 DEF Ready, Callers, TypeOK
    <2> QED  BY <1>0, <1>1, <2>1, <2>2 DEF TypeOK
  <1>3. InSessions'
    BY <1>1 DEF InSessions, DueIsRegistered, OneRotation, UpIsLive, RunningSent,
                BacklogIsQueued, Waits, Queued, Late, AtMostOnce, CalmSettling, NoTurnCut, Creates,
                RotationDue
  <1>4. TypeOK'
    <2>1. wait' \in [Callers -> [on : 0..MaxRot, got : 0..born]]
      BY <1>0, <1>1 DEF TypeOK
    <2> QED  BY <1>1, <1>2, <2>1 DEF TypeOK
  <1>5. ResumesOnLive'
    BY <1>2 DEF ResumesOnLive, Ready
  <1>6. CalmCreating'
    BY <1>1, <1>2, SlotFacts DEF CalmCreating, Creates, Ready
  <1>7. DirectsAreNew'
    BY DEF DirectsAreNew, TypeOK
  <1> QED  BY <1>3, <1>4, <1>5, <1>6, <1>7

LEMMA DrainBeginsKeeps ==
  ASSUME IInv, NEW g \in Gens, DrainBegins(g)
  PROVE  IInv'
PROOF
  <1> USE BoundFacts DEF IInv, DrainBegins
  <1>0. g \in Callers /\ drain \in [Gens -> Drains]
    BY TypeParts DEF Callers
  <1>1. CASE /\ drain' = [drain EXCEPT ![g].at = "awaiting"]
             /\ AwaitRotation(g)
    <2>1. /\ rot' = rot
          /\ wait' = [wait EXCEPT ![g] = IF registered # 0 THEN [on |-> registered, got |-> 0]
                                         ELSE [on |-> 0, got |-> live]]
      BY <1>0, <1>1, AwaitFacts
    <2>2. \A c \in Callers \ {g} : wait'[c] = wait[c] /\ (Ready(c)' <=> Ready(c))
      <3>1. \A c \in Callers \ {g} : wait'[c] = wait[c]
        BY <1>0, <2>1 DEF TypeOK
      <3>2. \A h \in Gens \ {g} : drain'[h] = drain[h]
        BY <1>0, <1>1
      <3> QED  BY <3>1, <3>2 DEF Ready
    <2>3. wait'[g].on = registered /\ (registered = 0 => wait'[g].got = live)
      BY <1>0, <2>1 DEF TypeOK
    <2>4. TypeOK'
      <3>1. wait' \in [Callers -> [on : 0..MaxRot, got : 0..born]]
        BY <1>0, <2>1 DEF TypeOK
      <3>2. drain' \in [Gens -> Drains]
        BY <1>0, <1>1 DEF Drains
      <3> QED  BY <2>1, <2>2, <2>3, <3>1, <3>2 DEF TypeOK, Drains
    <2>5. ResumesOnLive'
      BY <2>2, <2>3 DEF ResumesOnLive, Ready
    <2>6. CalmCreating'
      BY <2>1, <2>2, <2>3, SlotFacts DEF CalmCreating, Creates, Ready
    <2>7. InSessions' /\ DirectsAreNew'
      BY <2>1 DEF InSessions, DueIsRegistered, OneRotation, UpIsLive, RunningSent,
                  BacklogIsQueued, Waits, Queued, Late, AtMostOnce, CalmSettling, NoTurnCut, Creates,
                  RotationDue, DirectsAreNew
    <2> QED  BY <2>4, <2>5, <2>6, <2>7
  <1>2. CASE /\ drain' = [drain EXCEPT ![g] = Finished(@)]
             /\ UNCHANGED <<wait, rot>>
    <2>1. drain' \in [Gens -> Drains]
      BY <1>0, <1>2, DrainTypes
    <2>2. \A c \in Callers : Ready(c)' => Ready(c)
      <3>1. drain'[g].at # "awaiting" /\ \A h \in Gens \ {g} : drain'[h] = drain[h]
        BY <1>0, <1>2, DrainTypes
      <3> QED  BY <1>2, <3>1 DEF Ready
    <2>3. TypeOK'
      BY <1>2, <2>1 DEF TypeOK, Drains
    <2>4. ResumesOnLive' /\ CalmCreating'
      BY <1>2, <2>2 DEF ResumesOnLive, CalmCreating, Creates
    <2>5. InSessions' /\ DirectsAreNew'
      BY <1>2 DEF InSessions, DueIsRegistered, OneRotation, UpIsLive, RunningSent,
                  BacklogIsQueued, Waits, Queued, Late, AtMostOnce, CalmSettling, NoTurnCut, Creates,
                  RotationDue, DirectsAreNew
    <2> QED  BY <2>3, <2>4, <2>5
  <1> QED  BY <1>1, <1>2

(* No one resumes while a rotation is being made, before any failed.       *)
LEMMA ReadyNotCreating ==
  ASSUME IInv, NEW c \in Callers, Ready(c), failures = 0, NEW s \in Slots
  PROVE  ~Creates(s)
PROOF
  BY DEF IInv, CalmCreating

LEMMA SendResumesKeeps ==
  ASSUME IInv, NEW m \in Urgent, SendResumes(m)
  PROVE  IInv'
PROOF
  <1> USE BoundFacts DEF IInv
  <1>0. /\ m \in Callers /\ m \notin Gens /\ m \in Msgs /\ Ready(m) /\ wait[m].got = live
        /\ fate[m] = "new" /\ direct' = [direct EXCEPT ![m] = "done"]
        /\ UNCHANGED <<live, born, into, wait, rot, registered, failures, deletes>>
        /\ drain \in [Gens -> Drains]
    <2>1. m \in Callers /\ m \notin Gens /\ Ready(m)
      BY DEF Callers, SendResumes
    <2>2. direct[m] = "awaiting"
      BY <2>1 DEF Ready
    <2> QED  BY <2>1, <2>2, TypeParts DEF ResumesOnLive, DirectsAreNew, SendResumes
  <1>l. live # 0 => live \in Gens /\ session[live].up
    BY DEF TypeOK, Gens, InSessions, UpIsLive
  <1>d. /\ direct' \in [Urgent -> {"new", "awaiting", "done"}]
        /\ direct'[m] = "done" /\ \A n \in Urgent \ {m} : direct'[n] = direct[n]
    BY <1>0 DEF TypeOK
  <1>1. ASSUME session' = session, drain' = drain, fate' = [fate EXCEPT ![m] = "failed"]
        PROVE  IInv'
    <2>1. /\ \A n \in Msgs \ {m} : fate'[n] = fate[n]
          /\ fate'[m] = "failed" /\ fate' \in [Msgs -> FateSet]
      BY <1>0, <1>1, TypeParts DEF FateSet
    <2>2. \A c \in Callers : Ready(c)' => Ready(c)
      BY <1>0, <1>1, <1>d DEF Ready, Callers
    <2>3. Queued' = Queued /\ Late' = Late
      BY <1>0, <2>1 DEF Queued, Late
    <2>4. RunningSent'
      BY <1>0, <1>1, <2>1, TypeParts DEF InSessions, RunningSent, Sessions
    <2>5. InSessions'
      BY <1>0, <1>1, <2>1, <2>3, <2>4
      DEF InSessions, DueIsRegistered, OneRotation, UpIsLive,
          BacklogIsQueued, Waits, AtMostOnce, CalmSettling, NoTurnCut, Creates, RotationDue
    <2>6. TypeOK'
      BY <1>0, <1>1, <1>d, <2>1 DEF TypeOK, FateSet
    <2>7. ResumesOnLive' /\ CalmCreating'
      BY <1>0, <1>1, <2>2 DEF ResumesOnLive, CalmCreating, Creates
    <2>8. DirectsAreNew'
      BY <1>d, <2>1 DEF DirectsAreNew
    <2> QED  BY <2>5, <2>6, <2>7, <2>8
  <1>2. ASSUME live # 0, Accept(live, m, FALSE), drain' = drain
        PROVE  IInv'
    <2>1. /\ InSessions' /\ session' \in [Gens -> Sessions] /\ fate' \in [Msgs -> FateSet]
          /\ fate' = [fate EXCEPT ![m] = "sent"]
      BY <1>0, <1>2, AcceptedKeeps
    <2>2. \A c \in Callers : Ready(c)' => Ready(c)
      BY <1>0, <1>2, <1>d DEF Ready, Callers
    <2>3. TypeOK'
      BY <1>0, <1>2, <1>d, <2>1 DEF TypeOK, FateSet, Sessions
    <2>4. ResumesOnLive'
      BY <1>0, <2>2 DEF ResumesOnLive
    <2>5. CalmCreating'
      BY <1>0, ReadyNotCreating DEF CalmCreating, Creates
    <2>6. DirectsAreNew'
      BY <1>0, <1>d, <2>1, TypeParts DEF DirectsAreNew
    <2> QED  BY <2>1, <2>3, <2>4, <2>5, <2>6
  <1>3. ASSUME live # 0, NEW force \in BOOLEAN,
               session' = [session EXCEPT ![live].backlog = @ \cup {m}],
               drain' = [drain EXCEPT ![live] = Scheduled(@, force)],
               fate' = [fate EXCEPT ![m] = "queued"]
        PROVE  IInv'
    <2>1. /\ InSessions' /\ session' \in [Gens -> Sessions] /\ fate' \in [Msgs -> FateSet]
      BY <1>0, <1>3, BackloggedKeeps
    <2>2. /\ drain' \in [Gens -> Drains]
          /\ \A g \in Gens : drain'[g].at = "awaiting" <=> drain[g].at = "awaiting"
      BY <1>0, <1>l, <1>3, DrainScheduled
    <2>3. \A c \in Callers : Ready(c)' => Ready(c)
      BY <1>0, <1>d, <2>2 DEF Ready, Callers
    <2>4. TypeOK'
      BY <1>0, <1>d, <2>1, <2>2 DEF TypeOK, FateSet, Sessions, Drains
    <2>5. ResumesOnLive'
      BY <1>0, <2>3 DEF ResumesOnLive
    <2>6. CalmCreating'
      BY <1>0, ReadyNotCreating DEF CalmCreating, Creates
    <2>7. DirectsAreNew'
      BY <1>0, <1>d, <1>3, TypeParts DEF DirectsAreNew
    <2> QED  BY <2>1, <2>4, <2>5, <2>6, <2>7
  <1> DEFINE g == wait[m].got
             s == session[g]
  <1>4. CASE Unavailable(g) /\ fate' = [fate EXCEPT ![m] = "failed"]
             /\ UNCHANGED <<session, drain>>
    BY <1>4, <1>1
  <1>5. CASE ~Unavailable(g) /\ Accept(g, m, FALSE) /\ UNCHANGED drain
    <2>1. live # 0
      BY <1>0, <1>5 DEF Unavailable
    <2> QED  BY <1>0, <1>2, <1>5, <2>1
  <1>6. CASE /\ ~Unavailable(g)
             /\ session' = [session EXCEPT ![g].backlog = @ \cup {m}]
             /\ drain' = [drain EXCEPT ![g] = Scheduled(@, s.done)]
             /\ fate' = [fate EXCEPT ![m] = "queued"]
    <2>1. live # 0 /\ s.done \in BOOLEAN
      BY <1>0, <1>l, <1>6, TypeParts DEF Unavailable, Sessions
    <2> QED  BY <1>0, <1>3, <1>6, <2>1
  <1> QED  BY <1>4, <1>5, <1>6 DEF SendResumes

LEMMA DrainResumesKeeps ==
  ASSUME IInv, NEW g \in Gens, DrainResumes(g)
  PROVE  IInv'
PROOF
  <1> USE BoundFacts DEF IInv
  <1>0. /\ g \in Callers /\ drain[g].at = "awaiting" /\ Ready(g) /\ wait[g].got = live
        /\ UNCHANGED <<live, born, into, direct, wait, rot, registered, failures, deletes>>
        /\ drain \in [Gens -> Drains] /\ g # 0
    <2>1. g \in Callers /\ drain[g].at = "awaiting" /\ Ready(g)
      BY DEF Callers, DrainResumes
    <2> QED  BY <2>1, TypeParts DEF ResumesOnLive, DrainResumes
  <1>l. /\ live # 0 => live \in Gens
        /\ session[g].up <=> g = live
    BY DEF TypeOK, Gens, InSessions, UpIsLive
  <1>1. ASSUME drain' \in [Gens -> Drains],
               \A h \in Gens : drain'[h].at = "awaiting" => drain[h].at = "awaiting",
               UNCHANGED <<session, fate>>
        PROVE  IInv'
    <2>1. \A c \in Callers : Ready(c)' => Ready(c)
      BY <1>0, <1>1 DEF Ready
    <2>2. TypeOK'
      BY <1>0, <1>1 DEF TypeOK, Drains
    <2>3. ResumesOnLive' /\ CalmCreating' /\ DirectsAreNew'
      BY <1>0, <1>1, <2>1 DEF ResumesOnLive, CalmCreating, Creates, DirectsAreNew
    <2>4. InSessions'
      BY <1>0, <1>1
      DEF InSessions, DueIsRegistered, OneRotation, UpIsLive, RunningSent, Queued, Late,
          Waits, BacklogIsQueued, AtMostOnce, CalmSettling, NoTurnCut, Creates, RotationDue
    <2> QED  BY <2>2, <2>3, <2>4
  <1>2. /\ [drain EXCEPT ![g] = Finished(@)] \in [Gens -> Drains]
        /\ \A h \in Gens : [drain EXCEPT ![g] = Finished(@)][h].at = "awaiting"
                             => drain[h].at = "awaiting"
    BY <1>0, DrainTypes
  <1> DEFINE First == IF session[g].backlog \cap Urgent # {} THEN session[g].backlog \cap Urgent
                      ELSE session[g].backlog
             May(m) == session[g].done \/ m \in Urgent \/ drain[g].force
  <1>3. CASE /\ live \notin {0, g}
             /\ drain' = [drain EXCEPT ![g] = Finished(@),
                                       ![live] = Scheduled(@, drain[g].force)]
             /\ UNCHANGED <<session, fate>>
    <2>1. /\ Finished(drain[g]) \in Drains /\ Finished(drain[g]).at # "awaiting"
          /\ Scheduled(drain[live], drain[g].force) \in Drains
          /\ Scheduled(drain[live], drain[g].force).at = "awaiting"
               <=> drain[live].at = "awaiting"
      <3>1. drain[g] \in Drains /\ drain[live] \in Drains
        BY <1>0, <1>l, <1>3
      <3>2. drain[g].force \in BOOLEAN
        BY <3>1 DEF Drains
      <3> QED  BY <3>1, <3>2, DrainTypes
    <2>2. /\ drain'[g] = Finished(drain[g])
          /\ drain'[live] = Scheduled(drain[live], drain[g].force)
          /\ \A h \in Gens \ {g, live} : drain'[h] = drain[h]
          /\ drain' \in [Gens -> Drains]
      BY <1>0, <1>l, <1>3, <2>1
    <2> QED  BY <1>1, <1>3, <2>1, <2>2
  <1>4. CASE /\ drain' = [drain EXCEPT ![g] = Finished(@)]
             /\ UNCHANGED <<session, fate>>
    BY <1>1, <1>2, <1>4
  <1>5. ASSUME live = g, drain' = [drain EXCEPT ![g] = Finished(@)],
               NEW m \in First,
               IF session[g].up THEN Accept(g, m, TRUE)
               ELSE /\ session' = [session EXCEPT ![g].backlog = @ \ {m}]
                    /\ fate' = [fate EXCEPT ![m] = "failed"]
        PROVE  IInv'
    <2>1. Accept(live, m, TRUE)
      BY <1>l, <1>5
    <2>2. m \in Msgs /\ fate[m] \in {"queued", "late"}
      BY <1>0, <1>5 DEF InSessions, BacklogIsQueued, Waits, Queued, Late
    <2>3. /\ InSessions' /\ session' \in [Gens -> Sessions] /\ fate' \in [Msgs -> FateSet]
          /\ fate' = [fate EXCEPT ![m] = "sent"]
      BY <1>0, <1>5, <2>1, <2>2, AcceptedKeeps
    <2>4. \A c \in Callers : Ready(c)' => Ready(c)
      BY <1>0, <1>2, <1>5 DEF Ready
    <2>5. TypeOK'
      BY <1>0, <1>2, <1>5, <2>3 DEF TypeOK, FateSet, Sessions, Drains
    <2>6. ResumesOnLive'
      BY <1>0, <2>4 DEF ResumesOnLive
    <2>7. CalmCreating'
      BY <1>0, ReadyNotCreating DEF CalmCreating, Creates
    <2>8. DirectsAreNew'
      BY <1>0, <2>2, <2>3, TypeParts DEF DirectsAreNew
    <2> QED  BY <2>3, <2>5, <2>6, <2>7, <2>8
  <1> QED  BY <1>0, <1>3, <1>4, <1>5 DEF DrainResumes

(* A turn ends: the session may be due now, and then a rotation is         *)
(* recorded at once.                                                       *)
LEMMA TurnEndKeeps ==
  ASSUME IInv, NEW g \in Gens, TurnEnd(g)
  PROVE  IInv'
PROOF
  <1> USE BoundFacts DEF IInv
  <1>0. /\ Quiet /\ session[g].running # {} /\ g = live
        /\ session' = [session EXCEPT ![g] = Ended(@)]
        /\ fate' = [m \in Msgs |-> IF m \in session[g].running THEN "answered" ELSE fate[m]]
        /\ UNCHANGED <<live, born, into, direct, wait, failures, deletes>>
        /\ drain \in [Gens -> Drains] /\ session \in [Gens -> Sessions]
        /\ fate \in [Msgs -> FateSet]
    BY TypeParts DEF TurnEnd, EndTurn, InSessions, UpIsLive
  <1>q. \A c \in Callers : ~Ready(c)
    BY <1>0 DEF Quiet
  <1>n. \A s \in Slots : rot[s].phase # "settling"
    BY <1>0 DEF Quiet
  <1> DEFINE next == Ended(session[g])
  <1>1. /\ next \in Sessions /\ next.running = {} /\ next.backlog = session[g].backlog
        /\ next.up = session[g].up /\ next.done = TRUE /\ next.current = None
    <2>1. session[g] \in Sessions
      BY <1>0
    <2> DEFINE e == IF session[g].entries < Threshold THEN session[g].entries + 1
                    ELSE session[g].entries
               r == session[g].rotate \/ e >= Threshold
    <2>2. e \in Nat /\ r \in BOOLEAN
      BY <2>1, ThresholdAssumption DEF Sessions
    <2>3. next = [session[g] EXCEPT !.done = TRUE, !.current = None, !.running = {},
                                    !.entries = e, !.rotate = r]
      BY DEF Ended
    <2> HIDE DEF next, e, r
    <2> QED  BY <2>1, <2>2, <2>3 DEF Sessions
  <1> HIDE DEF next
  <1>2. /\ session'[g] = next /\ \A h \in Gens \ {g} : session'[h] = session[h]
        /\ session' \in [Gens -> Sessions] /\ fate' \in [Msgs -> FateSet]
    BY <1>0, <1>1 DEF next, FateSet
  <1>3. /\ drain' \in [Gens -> Drains]
        /\ \A h \in Gens : drain'[h].at = "awaiting" <=> drain[h].at = "awaiting"
    <2>1. drain' = drain \/ drain' = [drain EXCEPT ![g] = Scheduled(@, FALSE)]
      BY DEF TurnEnd
    <2> QED  BY <1>0, <2>1, DrainScheduled
  <1>4. \A c \in Callers : ~Ready(c)'
    BY <1>0, <1>3, <1>q DEF Ready
  <1>5. \/ /\ registered = 0 /\ RotationDue(next)
           /\ rot' = [rot EXCEPT ![FreeSlot] = Creating(live)] /\ registered' = FreeSlot
        \/ /\ UNCHANGED <<rot, registered>>
           /\ RotationDue(next) => registered # 0
    <2>1. ScheduleRotation(session')
      BY DEF TurnEnd
    <2>2. live # 0 /\ session'[live] = next
      BY <1>0, <1>2
    <2> QED  BY <2>1, <2>2 DEF ScheduleRotation
  <1>6. /\ DueIsRegistered' /\ OneRotation'
        /\ \A s \in Slots : Creates(s)' => rot'[s].of = live
        /\ rot' \in [Slots -> [phase : {"free", "creating", "settling"}, of : 0..born,
                               result : 0..born]]
        /\ registered' \in 0..MaxRot
        /\ \A s \in Slots : rot'[s].phase # "settling"
        /\ registered # 0 => registered' = registered
    <2>1. CASE /\ registered = 0
               /\ rot' = [rot EXCEPT ![FreeSlot] = Creating(live)] /\ registered' = FreeSlot
      <3>1. FreeSlot \in Slots /\ \A s \in Slots : rot[s].phase = "free"
        BY <2>1, SlotFacts
      <3>2. /\ rot'[FreeSlot] = [phase |-> "creating", of |-> live, result |-> 0]
            /\ \A s \in Slots \ {FreeSlot} : rot'[s] = rot[s]
        BY <2>1, <3>1 DEF TypeOK, Creating
      <3>3. live \in 0..born /\ 0 \in 0..born
        BY DEF TypeOK, Gens
      <3>4. rot' \in [Slots -> [phase : {"free", "creating", "settling"}, of : 0..born,
                                result : 0..born]]
        BY <2>1, <3>1, <3>3 DEF TypeOK, Creating
      <3> QED  BY <1>0, <2>1, <3>1, <3>2, <3>4 DEF DueIsRegistered, OneRotation, Creates, Slots
    <2>2. CASE UNCHANGED <<rot, registered>> /\ (RotationDue(next) => registered # 0)
      BY <1>0, <1>2, <1>n, <2>2
      DEF DueIsRegistered, OneRotation, Creates, TypeOK, InSessions
    <2> QED  BY <1>5, <2>1, <2>2
  <1>7. TypeOK'
    <2>1. \A c \in Callers : wait[c].on \in {0, registered'}
      <3>1. \A c \in Callers : wait[c].on \in {0, registered}
        BY DEF ResumesOnLive
      <3> QED  BY <1>6, <3>1
    <2>2. registered' # 0 => rot'[registered'].phase # "free"
      BY <1>6 DEF OneRotation, Slots
    <2> QED  BY <1>0, <1>2, <1>3, <1>6, <2>1, <2>2 DEF TypeOK, Sessions, Drains, FateSet
  <1>8. ResumesOnLive'
    BY <1>0, <1>4, <1>6 DEF ResumesOnLive
  <1>9. UpIsLive'
    BY <1>0, <1>1, <1>2 DEF InSessions, UpIsLive
  <1>10. RunningSent'
    <2> SUFFICES ASSUME NEW h \in Gens, NEW m \in session'[h].running
                 PROVE  fate'[m] = "sent"
      BY DEF RunningSent
    <2>1. h # g /\ m \in session[h].running
      BY <1>1, <1>2
    <2>2. FALSE
      BY <1>0, <2>1 DEF InSessions, UpIsLive
    <2> QED  BY <2>2
  <1>11. Queued' = Queued /\ Late' = Late
    <2>1. \A m \in session[g].running : fate[m] = "sent"
      BY DEF InSessions, RunningSent
    <2>2. \A m \in Msgs : (fate'[m] = "queued") <=> (fate[m] = "queued")
      BY <1>0, <2>1
    <2>q. Queued' = Queued
      BY <2>2 DEF Queued
    <2>l. \A m \in Msgs : (fate'[m] = "late") <=> (fate[m] = "late")
      BY <1>0, <2>1
    <2> QED  BY <2>q, <2>l DEF Late
  <1>12. BacklogIsQueued'
    <2>1. live # 0 /\ Waits(session[live].backlog)'
      BY <1>0, <1>1, <1>2, <1>11 DEF InSessions, BacklogIsQueued, Waits
    <2> QED  BY <1>0, <1>6, <2>1 DEF BacklogIsQueued
  <1>13. AtMostOnce' /\ NoTurnCut'
    BY <1>0 DEF InSessions, AtMostOnce, NoTurnCut
  <1>14. CalmSettling'
    BY <1>6 DEF CalmSettling
  <1>15. CalmCreating'
    BY <1>0, <1>1, <1>2, <1>4, <1>6 DEF CalmCreating
  <1>16. DirectsAreNew'
    <2>1. \A m \in session[g].running : fate[m] = "sent"
      BY DEF InSessions, RunningSent
    <2> QED  BY <1>0, <2>1 DEF DirectsAreNew
  <1> QED
    BY <1>6, <1>7, <1>8, <1>9, <1>10, <1>12, <1>13, <1>14, <1>15, <1>16 DEF InSessions

-----------------------------------------------------------------------------
(* The one rotation ends; who waits for it waits on, until it settles.     *)
LEMMA RegisteredReturns ==
  ASSUME IInv, NEW s \in Slots, Creates(s), NEW result, Return(s, result), result \in 0..born',
         born' \in Nat, born <= born', registered' = registered, live' = result
  PROVE  /\ s = registered /\ wait' = wait
         /\ rot' \in [Slots -> [phase : {"free", "creating", "settling"}, of : 0..born',
                                result : 0..born']]
         /\ \A c \in Callers : wait'[c].on # 0 => rot'[wait'[c].on].phase # "free"
         /\ registered' # 0 /\ rot'[registered'].phase # "free"
         /\ \A t \in Slots : ~Creates(t)'
         /\ OneRotation'
PROOF
  <1> USE BoundFacts DEF IInv
  <1>1. s = registered /\ registered # 0 /\ s \in Slots
    BY SlotFacts DEF Creates
  <1>2. wait' = wait /\ rot' = [rot EXCEPT ![s] = [phase |-> "settling", of |-> 0,
                                                  result |-> result]]
    BY <1>1 DEF Return
  <1>3. rot \in [Slots -> [phase : {"free", "creating", "settling"}, of : 0..born,
                          result : 0..born]]
    BY DEF TypeOK
  <1>4. \A k \in 0..born : k \in 0..born'
    BY DEF TypeOK, Gens
  <1>5. 0 \in 0..born'
    BY <1>4 DEF TypeOK, Gens
  <1>6. rot \in [Slots -> [phase : {"free", "creating", "settling"}, of : 0..born',
                          result : 0..born']]
    BY <1>3, <1>4
  <1>7. rot' \in [Slots -> [phase : {"free", "creating", "settling"}, of : 0..born',
                           result : 0..born']]
    BY <1>2, <1>5, <1>6
  <1>8. /\ rot'[s] = [phase |-> "settling", of |-> 0, result |-> result]
        /\ \A t \in Slots \ {s} : rot'[t] = rot[t] /\ rot[t].phase = "free"
    <2>1. \A t \in Slots \ {s} : rot[t].phase = "free"
      BY <1>1 DEF InSessions, OneRotation
    <2> QED  BY <1>2, <1>3, <2>1
  <1>9. OneRotation' /\ \A t \in Slots : ~Creates(t)'
    <2> SUFFICES ASSUME NEW t \in Slots
                 PROVE  /\ rot'[t].phase # "free" <=> t = registered'
                        /\ rot'[t].phase # "creating"
                        /\ rot'[t].phase = "settling" => rot'[t].result = live'
      BY DEF OneRotation, Creates
    <2>1. CASE t = s
      BY <1>1, <1>8, <2>1
    <2>2. CASE t # s
      BY <1>1, <1>8, <2>2
    <2> QED  BY <2>1, <2>2
  <1>10. \A c \in Callers : wait'[c].on \in {0, s}
    BY <1>1, <1>2 DEF ResumesOnLive
  <1> QED  BY <1>1, <1>2, <1>7, <1>8, <1>9, <1>10

(* The replacement takes the name, the backlog and nothing that runs.      *)
LEMMA RotationMadeKeeps ==
  ASSUME IInv, NEW s \in Slots, RotationMade(s)
  PROVE  IInv'
PROOF
  <1> USE BoundFacts DEF IInv
  <1> DEFINE old == rot[s].of
             new == born + 1
             queued == session[old].backlog
  <1>0. /\ Quiet /\ Creates(s) /\ born < MaxGen /\ born' = new /\ live' = new
        /\ session' = [session EXCEPT ![new] = Fresh(queued), ![old].up = FALSE,
                                      ![old].running = {}]
        /\ fate' = [m \in Msgs |-> IF m \in session[old].running THEN "cut" ELSE fate[m]]
        /\ drain' = IF queued # {} THEN [drain EXCEPT ![new] = Scheduled(@, TRUE)] ELSE drain
        /\ Return(s, new)
        /\ UNCHANGED <<into, direct, registered, failures, deletes>>
    <2>1. Replace(s, queued, TRUE)
      BY DEF RotationMade
    <2>2. \A b \in BOOLEAN : (b /\ ~TRUE) = FALSE
      OBVIOUS
    <2>3. session[old].up \in BOOLEAN
      BY <2>1, SlotFacts, TypeParts DEF Sessions, Replace, Creates
    <2> QED  BY <2>1, <2>2, <2>3 DEF Replace, Creates
  <1>1. /\ born \in Nat \ {0} /\ new \in Gens /\ old \in Gens /\ old # new /\ live # new
        /\ live # 0 => old = live
    <2>1. born \in Nat \ {0} /\ new \in Gens /\ live \in 0..born /\ live # new
      BY <1>0 DEF TypeOK, Gens
    <2>2. old \in 0..born /\ old \in Gens
      BY <1>0, SlotFacts DEF TypeOK
    <2>3. live # 0 => old = live
      BY <1>0 DEF InSessions, OneRotation
    <2>4. old # new
      BY <2>1, <2>2
    <2> QED  BY <2>1, <2>2, <2>3, <2>4
  <1>t. /\ session \in [Gens -> Sessions] /\ drain \in [Gens -> Drains]
        /\ fate \in [Msgs -> FateSet]
    BY TypeParts
  <1> HIDE DEF new, old
  <1>q. \A c \in Callers : ~Ready(c)
    BY <1>0 DEF Quiet
  <1>2. /\ s = registered /\ wait' = wait
        /\ rot' \in [Slots -> [phase : {"free", "creating", "settling"}, of : 0..born',
                               result : 0..born']]
        /\ \A c \in Callers : wait'[c].on # 0 => rot'[wait'[c].on].phase # "free"
        /\ registered' # 0 /\ rot'[registered'].phase # "free"
        /\ \A t \in Slots : ~Creates(t)'
        /\ OneRotation'
    <2>1. new \in 0..born' /\ born' \in Nat /\ born <= born'
      BY <1>0, <1>1 DEF new
    <2> QED  BY <1>0, <2>1, RegisteredReturns
  <1>3. /\ session'[new] = Fresh(queued)
        /\ session'[old] = [session[old] EXCEPT !.up = FALSE, !.running = {}]
        /\ \A g \in Gens \ {old, new} : session'[g] = session[g]
        /\ session' \in [Gens -> Sessions]
    <2>1. queued \in SUBSET Msgs /\ session[old] \in Sessions
      BY <1>1, <1>t DEF Sessions
    <2>2. Fresh(queued) \in Sessions
      BY <2>1 DEF Fresh, Sessions
    <2>3. [session[old] EXCEPT !.up = FALSE, !.running = {}] \in Sessions
      BY <2>1 DEF Sessions
    <2>4. session' = [session EXCEPT ![new] = Fresh(queued),
                        ![old] = [session[old] EXCEPT !.up = FALSE, !.running = {}]]
      BY <1>0, <1>1, <1>t
    <2> QED  BY <1>1, <1>t, <2>2, <2>3, <2>4
  <1>4. /\ session'[new].backlog = queued /\ session'[new].up = TRUE
        /\ session'[new].running = {} /\ session'[new].rotate = FALSE
    BY <1>3 DEF Fresh
  <1>5. \A g \in Gens \ {new} : session'[g].up = FALSE /\ session'[g].running = {}
    <2>1. session'[old].up = FALSE /\ session'[old].running = {}
      BY <1>1, <1>3, <1>t DEF Sessions
    <2>2. \A g \in Gens \ {old, new} : session[g].up = FALSE /\ session[g].running = {}
      <3> SUFFICES ASSUME NEW g \in Gens \ {old, new}
                   PROVE  session[g].up = FALSE /\ session[g].running = {}
        OBVIOUS
      <3>1. g # live
        BY <1>1
      <3>2. session[g].up \in BOOLEAN
        BY <1>t DEF Sessions
      <3>3. (session[g].up <=> g = live) /\ (session[g].running # {} => g = live)
        BY DEF InSessions, UpIsLive
      <3>4. ~session[g].up
        BY <3>1, <3>3, Zenon
      <3>5. session[g].up = FALSE
        BY <3>2, <3>4
      <3>6. session[g].running = {}
        BY <3>1, <3>3
      <3> QED  BY <3>5, <3>6
    <2>3. \A g \in Gens \ {old, new} : session'[g] = session[g]
      BY <1>3
    <2>4. \A g \in Gens \ {old, new} : session'[g].up = FALSE /\ session'[g].running = {}
      BY <2>2, <2>3, Zenon
    <2> QED  BY <2>1, <2>4, Zenon
  <1>6. /\ drain' \in [Gens -> Drains]
        /\ \A h \in Gens : drain'[h].at = "awaiting" <=> drain[h].at = "awaiting"
    <2>1. drain' = drain \/ drain' = [drain EXCEPT ![new] = Scheduled(@, TRUE)]
      BY <1>0
    <2> QED  BY <1>1, <1>t, <2>1, DrainScheduled
  <1>7. \A c \in Callers : ~Ready(c)'
    BY <1>0, <1>2, <1>6, <1>q DEF Ready
  <1>8. \A m \in session[old].running : m \in Msgs /\ fate[m] = "sent"
    BY <1>1, <1>t DEF InSessions, RunningSent, Sessions
  <1>9. Queued' = Queued /\ Late' = Late
    <2>1. \A m \in Msgs : (fate'[m] = "queued") <=> (fate[m] = "queued")
      BY <1>0, <1>8
    <2>q. Queued' = Queued
      BY <2>1 DEF Queued
    <2>l. \A m \in Msgs : (fate'[m] = "late") <=> (fate[m] = "late")
      BY <1>0, <1>8
    <2> QED  BY <2>q, <2>l DEF Late
  <1>10. TypeOK'
    <2>1. fate' \in [Msgs -> FateSet]
      BY <1>0, <1>t DEF FateSet
    <2>2. wait' \in [Callers -> [on : 0..MaxRot, got : 0..born']]
      <3>1. wait \in [Callers -> [on : 0..MaxRot, got : 0..born]]
        BY DEF TypeOK
      <3>2. \A k \in 0..born : k \in 0..born'
        BY <1>0, <1>1 DEF new
      <3> QED  BY <1>2, <3>1, <3>2
    <2>3. live' \in 0..born' /\ born' \in Gens
      BY <1>0, <1>1 DEF new
    <2>4. into' \in [Msgs \ Urgent -> 0..born']
      <3>1. into \in [Msgs \ Urgent -> 0..born]
        BY DEF TypeOK
      <3>2. \A k \in 0..born : k \in 0..born'
        BY <1>0, <1>1 DEF new
      <3> QED  BY <1>0, <3>1, <3>2
    <2> QED  BY <1>0, <1>2, <1>3, <1>6, <2>1, <2>2, <2>3, <2>4
             DEF TypeOK, Sessions, Drains, FateSet
  <1>11. DueIsRegistered' /\ ResumesOnLive'
    BY <1>0, <1>2, <1>7 DEF DueIsRegistered, ResumesOnLive
  <1>12. UpIsLive' /\ RunningSent'
    <2>1. \A g \in Gens : session'[g].running = {} /\ (session'[g].up <=> g = new)
      BY <1>4, <1>5
    <2> QED  BY <1>0, <2>1 DEF UpIsLive, RunningSent
  <1>13. BacklogIsQueued'
    <2>1. Waits(queued)
      BY <1>0 DEF BacklogIsQueued, InSessions, old
    <2>2. Waits(session[live].backlog)'
      BY <1>0, <1>4, <1>9, <2>1 DEF Waits
    <2> QED  BY <1>2, <2>2 DEF BacklogIsQueued
  <1>14. DirectsAreNew'
    BY <1>0, <1>8 DEF DirectsAreNew
  <1>15. AtMostOnce'
    BY <1>0 DEF AtMostOnce, InSessions
  <1>16. NoTurnCut'
    <2>1. failures = 0 => session[old].running = {}
      BY <1>0 DEF CalmCreating, old
    <2> QED  BY <1>0, <2>1 DEF NoTurnCut, InSessions
  <1>17. CalmCreating' /\ CalmSettling'
    BY <1>0, <1>2, <1>4 DEF CalmCreating, CalmSettling
  <1> QED  BY <1>2, <1>10, <1>11, <1>12, <1>13, <1>14, <1>15, <1>16, <1>17 DEF InSessions

(* The replacement failed: the session stays as it was.                    *)
LEMMA RotationFailsKeeps ==
  ASSUME IInv, NEW s \in Slots, RotationFails(s)
  PROVE  IInv'
PROOF
  <1> USE BoundFacts DEF IInv
  <1>0. /\ Quiet /\ Creates(s) /\ failures' = failures + 1 /\ failures < MaxFailures
        /\ Return(s, live)
        /\ UNCHANGED <<live, born, session, drain, into, direct, registered, deletes, fate>>
    BY DEF RotationFails, Creates
  <1>1. failures' # 0 /\ failures' \in 0..MaxFailures
    BY <1>0 DEF TypeOK
  <1>2. /\ wait' = wait
        /\ rot' \in [Slots -> [phase : {"free", "creating", "settling"}, of : 0..born',
                               result : 0..born']]
        /\ \A c \in Callers : wait'[c].on # 0 => rot'[wait'[c].on].phase # "free"
        /\ registered' # 0 /\ rot'[registered'].phase # "free"
        /\ \A t \in Slots : ~Creates(t)'
        /\ OneRotation'
    <2>1. live \in 0..born' /\ born' \in Nat /\ born <= born'
      BY <1>0 DEF TypeOK, Gens
    <2> QED  BY <1>0, <2>1, RegisteredReturns
  <1>3. \A c \in Callers : ~Ready(c)'
    BY <1>0, <1>2 DEF Quiet, Ready
  <1>4. TypeOK'
    BY <1>0, <1>1, <1>2 DEF TypeOK
  <1>5. DueIsRegistered' /\ ResumesOnLive'
    BY <1>0, <1>2, <1>3 DEF DueIsRegistered, ResumesOnLive
  <1>6. UpIsLive' /\ RunningSent' /\ DirectsAreNew' /\ AtMostOnce' /\ BacklogIsQueued'
    BY <1>0, <1>2
    DEF InSessions, UpIsLive, RunningSent, DirectsAreNew, AtMostOnce, BacklogIsQueued,
        Waits, Queued, Late
  <1>7. CalmCreating' /\ CalmSettling' /\ NoTurnCut'
    BY <1>1 DEF CalmCreating, CalmSettling, NoTurnCut
  <1> QED  BY <1>2, <1>4, <1>5, <1>6, <1>7 DEF InSessions

(* The finally of the rotation: the next one is on record before anyone    *)
(* resumes, if the session that the name stands for is due.                *)
LEMMA RotationSettlesKeeps ==
  ASSUME IInv, NEW s \in Slots, RotationSettles(s)
  PROVE  IInv'
PROOF
  <1> USE BoundFacts DEF IInv
  <1> DEFINE due == live # 0 /\ RotationDue(session[live])
  <1>0. /\ rot[s].phase = "settling"
        /\ wait' = [c \in Callers |-> IF wait[c].on = s THEN [on |-> 0, got |-> rot[s].result]
                                      ELSE wait[c]]
        /\ rot' = [rot EXCEPT ![s] = IF due THEN Creating(live) ELSE Free]
        /\ registered' = IF due THEN s ELSE 0
        /\ UNCHANGED <<live, born, session, drain, into, direct, failures, deletes, fate>>
    BY DEF RotationSettles
  <1>1. s = registered /\ s # 0 /\ rot[s].result = live
    BY <1>0, SlotFacts DEF InSessions, OneRotation
  <1>2. \A c \in Callers : /\ wait'[c] = IF wait[c].on = s THEN [on |-> 0, got |-> live]
                                          ELSE wait[c]
                           /\ wait[c].on \in {0, s}
    BY <1>0, <1>1 DEF ResumesOnLive
  <1>t. /\ rot \in [Slots -> [phase : {"free", "creating", "settling"}, of : 0..born,
                             result : 0..born]]
        /\ 0 \in 0..born /\ live \in 0..born /\ s \in 0..MaxRot /\ 0 \in 0..MaxRot
    <2>1. /\ rot \in [Slots -> [phase : {"free", "creating", "settling"}, of : 0..born,
                                result : 0..born]]
          /\ live \in 0..born /\ born \in 1..MaxGen
      BY DEF TypeOK, Gens
    <2> QED  BY <2>1 DEF Slots
  <1>3. /\ rot'[s] = IF due THEN [phase |-> "creating", of |-> live, result |-> 0]
                     ELSE [phase |-> "free", of |-> 0, result |-> 0]
        /\ \A t \in Slots \ {s} : rot'[t] = rot[t] /\ rot[t].phase = "free"
        /\ rot' \in [Slots -> [phase : {"free", "creating", "settling"}, of : 0..born,
                               result : 0..born]]
    <2>1. \A t \in Slots \ {s} : rot[t].phase = "free"
      BY <1>1 DEF InSessions, OneRotation
    <2> QED  BY <1>0, <1>t, <2>1 DEF Creating, Free
  <1>4. \A c \in Callers : wait'[c].on = 0 /\ (Ready(c)' => wait'[c].got = live)
    <2> SUFFICES ASSUME NEW c \in Callers
                 PROVE  wait'[c].on = 0 /\ (Ready(c)' => wait'[c].got = live)
      OBVIOUS
    <2>1. CASE wait[c].on = s
      BY <1>2, <2>1
    <2>2. CASE wait[c].on # s
      <3>1. wait'[c] = wait[c] /\ wait[c].on = 0
        BY <1>2, <2>2
      <3>2. Ready(c)' => Ready(c)
        BY <1>0, <3>1 DEF Ready
      <3> QED  BY <3>1, <3>2 DEF ResumesOnLive
    <2> QED  BY <2>1, <2>2
  <1>5. TypeOK'
    <2>1. wait' \in [Callers -> [on : 0..MaxRot, got : 0..born]]
      <3>1. [on |-> 0, got |-> live] \in [on : 0..MaxRot, got : 0..born]
        BY <1>t
      <3> QED  BY <1>0, <1>1, <3>1 DEF TypeOK
    <2>2. registered' \in 0..MaxRot /\ (registered' # 0 => rot'[registered'].phase # "free")
      BY <1>0, <1>1, <1>3, <1>t
    <2> QED  BY <1>0, <1>3, <1>4, <2>1, <2>2 DEF TypeOK
  <1>6. DueIsRegistered' /\ OneRotation' /\ ResumesOnLive'
    <2>1. DueIsRegistered'
      BY <1>0, <1>1 DEF DueIsRegistered, RotationDue
    <2>2. OneRotation'
      BY <1>0, <1>1, <1>3 DEF OneRotation, Creates
    <2>3. ResumesOnLive'
      BY <1>0, <1>4 DEF ResumesOnLive
    <2> QED  BY <2>1, <2>2, <2>3
  <1>7. UpIsLive' /\ RunningSent' /\ DirectsAreNew' /\ AtMostOnce' /\ NoTurnCut'
    BY <1>0 DEF InSessions, UpIsLive, RunningSent, DirectsAreNew, AtMostOnce, NoTurnCut
  <1>8. BacklogIsQueued'
    <2> HIDE DEF due
    <2>1. \A t \in Slots : Creates(t)' => t = s /\ due /\ rot'[t].of = live
      BY <1>3 DEF Creates
    <2>2. live # 0 => Waits(session[live].backlog)
      BY DEF InSessions, BacklogIsQueued
    <2>3. due => live # 0
      BY DEF due
    <2> QED  BY <1>0, <2>1, <2>2, <2>3 DEF BacklogIsQueued, Waits, Queued, Late
  <1>9. CalmCreating' /\ CalmSettling'
    <2>1. failures = 0 => ~due
      BY <1>0 DEF InSessions, CalmSettling, RotationDue
    <2>2. \A t \in Slots : /\ rot'[t].phase # "settling"
                           /\ failures = 0 => ~Creates(t)'
      BY <1>3, <2>1 DEF Creates
    <2> QED  BY <1>0, <2>2 DEF CalmCreating, CalmSettling
  <1> QED  BY <1>5, <1>6, <1>7, <1>8, <1>9 DEF InSessions

(* The session is taken out of the map, with what it runs; a rotation of   *)
(* it goes on, and keeps its backlog.                                      *)
LEMMA DeleteKeeps ==
  ASSUME IInv, Delete
  PROVE  IInv'
PROOF
  <1> USE BoundFacts DEF IInv
  <1>0. /\ Quiet /\ live # 0 /\ deletes < MaxDeletes /\ deletes' = deletes + 1 /\ live' = 0
        /\ session' = [session EXCEPT ![live].up = FALSE, ![live].running = {}]
        /\ fate' = [m \in Msgs |-> IF m \in session[live].running THEN "deleted" ELSE fate[m]]
        /\ UNCHANGED <<born, drain, into, direct, wait, rot, registered, failures>>
        /\ live \in Gens /\ session \in [Gens -> Sessions] /\ fate \in [Msgs -> FateSet]
    BY TypeParts DEF Delete, Gens
  <1>1. \A c \in Callers : ~Ready(c) /\ ~Ready(c)'
    BY <1>0 DEF Quiet, Ready
  <1>2. \A s \in Slots : rot[s].phase # "settling"
    BY <1>0 DEF Quiet
  <1>3. /\ session' \in [Gens -> Sessions]
        /\ session'[live].up = FALSE /\ session'[live].running = {}
        /\ \A g \in Gens : session'[g].backlog = session[g].backlog
        /\ \A g \in Gens \ {live} : session'[g] = session[g]
    <2> DEFINE next == [session[live] EXCEPT !.up = FALSE, !.running = {}]
    <2>0. session[live] \in Sessions
      BY <1>0
    <2>1. next.up = FALSE /\ next.running = {} /\ next.backlog = session[live].backlog
      BY <2>0 DEF Sessions
    <2>3. next \in Sessions
      BY <2>0 DEF Sessions
    <2>2. session' = [session EXCEPT ![live] = next]
      BY <1>0
    <2> HIDE DEF next
    <2> QED  BY <1>0, <2>1, <2>2, <2>3
  <1>4. \A g \in Gens : session'[g].up = FALSE /\ session'[g].running = {}
    <2>1. \A g \in Gens : session[g].up \in BOOLEAN
      BY <1>0 DEF Sessions
    <2> QED  BY <1>3, <2>1 DEF InSessions, UpIsLive
  <1>5. \A m \in session[live].running : fate[m] = "sent"
    BY <1>0 DEF InSessions, RunningSent
  <1>6. Queued' = Queued /\ Late' = Late
    <2>1. \A m \in Msgs : (fate'[m] = "queued") <=> (fate[m] = "queued")
      BY <1>0, <1>5
    <2>q. Queued' = Queued
      BY <2>1 DEF Queued
    <2>l. \A m \in Msgs : (fate'[m] = "late") <=> (fate[m] = "late")
      BY <1>0, <1>5
    <2> QED  BY <2>q, <2>l DEF Late
  <1>7. TypeOK'
    <2>1. fate' \in [Msgs -> FateSet]
      BY <1>0 DEF FateSet
    <2>2. live' \in 0..born' /\ deletes' \in 0..MaxDeletes
      BY <1>0 DEF TypeOK, Gens
    <2> QED  BY <1>0, <1>3, <2>1, <2>2 DEF TypeOK, Sessions, FateSet
  <1>8. DueIsRegistered' /\ OneRotation' /\ ResumesOnLive'
    BY <1>0, <1>1, <1>2
    DEF InSessions, DueIsRegistered, OneRotation, ResumesOnLive, Creates
  <1>9. UpIsLive' /\ RunningSent'
    BY <1>0, <1>4 DEF UpIsLive, RunningSent
  <1>10. BacklogIsQueued'
    <2>1. \A s \in Slots : Creates(s)' => Creates(s) /\ rot'[s] = rot[s] /\ rot[s].of \in Gens
      BY <1>0, SlotFacts DEF Creates
    <2> QED  BY <1>0, <1>3, <1>6, <2>1 DEF InSessions, BacklogIsQueued, Waits
  <1>11. DirectsAreNew'
    BY <1>0, <1>5 DEF DirectsAreNew
  <1>12. AtMostOnce' /\ NoTurnCut'
    BY <1>0 DEF InSessions, AtMostOnce, NoTurnCut
  <1>13. CalmSettling'
    BY <1>0 DEF CalmSettling
  <1>14. CalmCreating'
    <2>1. \A s \in Slots : Creates(s)' => rot'[s].of \in Gens
      BY <1>0, SlotFacts DEF Creates
    <2> QED  BY <1>1, <1>4, <2>1 DEF CalmCreating
  <1> QED  BY <1>7, <1>8, <1>9, <1>10, <1>11, <1>12, <1>13, <1>14 DEF InSessions

-----------------------------------------------------------------------------
LEMMA NextIInv == IInv /\ [Next]_vars => IInv'
PROOF
  <1> SUFFICES ASSUME IInv, [Next]_vars
               PROVE  IInv'
    OBVIOUS
  <1>1. ASSUME NEW m \in Msgs \ Urgent, QueueBegins(m) \/ QueueLands(m)
        PROVE  IInv'
    BY <1>1, QueueBeginsKeeps, QueueLandsKeeps
  <1>2. ASSUME NEW m \in Urgent, SendImmediate(m)
        PROVE  IInv'
    BY <1>2, SendImmediateKeeps
  <1>3. ASSUME NEW g \in Gens, DrainBegins(g) \/ DrainResumes(g)
        PROVE  IInv'
    BY <1>3, DrainBeginsKeeps, DrainResumesKeeps
  <1>4. ASSUME NEW m \in Urgent, SendResumes(m)
        PROVE  IInv'
    BY <1>4, SendResumesKeeps
  <1>5. ASSUME NEW s \in Slots, RotationMade(s) \/ RotationFails(s) \/ RotationSettles(s)
        PROVE  IInv'
    BY <1>5, RotationMadeKeeps, RotationFailsKeeps, RotationSettlesKeeps
  <1>6. ASSUME NEW g \in Gens, TurnEnd(g)
        PROVE  IInv'
    BY <1>6, TurnEndKeeps
  <1>7. CASE Delete
    BY <1>7, DeleteKeeps
  <1>8. CASE UNCHANGED vars
    BY <1>8
    DEF vars, IInv, TypeOK, InSessions, DueIsRegistered, OneRotation, UpIsLive, RunningSent,
        BacklogIsQueued, Waits, Queued, Late, AtMostOnce, CalmSettling, NoTurnCut, ResumesOnLive, Ready,
        DirectsAreNew, CalmCreating, Creates, RotationDue
  <1> QED  BY <1>1, <1>2, <1>3, <1>4, <1>5, <1>6, <1>7, <1>8
           DEF Next, Microtask, Rotation, AgentWork

(* The invariant of a session that is replaced under the feet of its       *)
(* drains, direct sends and turns: at most one rotation is made at a time, *)
(* whoever awaits it resumes on the session in the map, and the backlog of *)
(* that session is all that waits.                                         *)
THEOREM Invariance == Spec => []IInv
PROOF
  BY InitIInv, NextIInv, PTL DEF Spec

(* Every reachable state of a session that rotates is well-formed.         *)
THEOREM TypeCorrect == Spec => []TypeOK
PROOF
  <1>1. IInv => TypeOK
    BY DEF IInv
  <1> QED  BY <1>1, Invariance, PTL

(* A message that was put into the backlog of the session in the map is in *)
(* the backlog of the session that its name stands for, however often that *)
(* session was replaced, and whatever failed, until it is sent.            *)
THEOREM QueuedSurvives == Spec => []NothingLost
PROOF
  <1>1. IInv => NothingLost
    BY DEF IInv, InSessions, BacklogIsQueued, Waits, Queued, NothingLost
  <1> QED  BY <1>1, Invariance, PTL

(* No message goes out twice, through the session it was queued for and    *)
(* through the one that replaced it.                                       *)
THEOREM SentOnce == Spec => []AtMostOnce
PROOF
  <1>1. IInv => AtMostOnce
    BY DEF IInv, InSessions
  <1> QED  BY <1>1, Invariance, PTL

(* There is one rotation at a time, though awaitAutoRotationIfNeeded may   *)
(* start one that nobody else can see, and only the session in the map has *)
(* a process.                                                              *)
THEOREM Single == Spec => []OneOfEach
PROOF
  <1>1. IInv => OneOfEach
    <2> SUFFICES ASSUME IInv
                 PROVE  OneOfEach
      OBVIOUS
    <2> DEFINE making == { s \in Slots : rot[s].phase = "creating" }
    <2>1. making \subseteq {registered}
      BY SlotFacts
    <2>2. IsFiniteSet({registered}) /\ Cardinality({registered}) = 1
      BY FS_Singleton
    <2>3. Cardinality(making) <= 1
      BY <2>1, <2>2, FS_Subset
    <2> QED  BY <2>3 DEF IInv, InSessions, UpIsLive, OneOfEach
  <1> QED  BY <1>1, Invariance, PTL

(* As long as every replacement is created, no rotation tears down a       *)
(* session in mid-turn.                                                    *)
THEOREM TurnsFinish == Spec => []NoTurnCut
PROOF
  <1>1. IInv => NoTurnCut
    BY DEF IInv, InSessions
  <1> QED  BY <1>1, Invariance, PTL

=============================================================================
