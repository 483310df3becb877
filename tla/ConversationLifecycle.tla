------------------------ MODULE ConversationLifecycle ------------------------
(***************************************************************************)
(* One conversation of one commander: the request handlers that start,     *)
(* resume, pause and archive it, send it a message, and start and stop its *)
(* commander (modules/commanders/routes), with the heartbeat loop they     *)
(* keep (heartbeat.ts).                                                    *)
(*                                                                         *)
(* Each request is a process of its own; it can be overtaken wherever its  *)
(* handler awaits the disk, the provider or a session.  A read of the      *)
(* in-memory stores does not wait.  An update of the conversation waits in *)
(* the store's queue (conversation-store.ts:850), is applied to the record *)
(* as it then is, and its caller goes on after the write.                  *)
(***************************************************************************)
EXTENDS Naturals, FiniteSets, Sequences, SequencesExt

CONSTANTS
    Request,    \* the requests, each made once; a session or a loop is named by the request that made it
    Kinds,      \* the kinds of request that are made
    MaxTicks,   \* bound: heartbeats in flight at once
    None

VARIABLES
    status,     \* the conversation's status, in its store
    commander,  \* the commander's state, in its store
    session,    \* the session under the conversation's name, or None
    procs,      \* the sessions whose process runs
    loop,       \* the heartbeat loop of the conversation, or None
    ticks,      \* the heartbeats being sent: their loop, the commander's state they saw, and
                \* whether they are ending: about to stop the loop
    robbed,     \* history: a heartbeat that had found no session stopped another loop than its
                \* own, and none began since
    overlay,    \* what the runtime overlay says of a bootstrap
    line,       \* the updates of the conversation that are queued
    pc,         \* where each request is
    mem,        \* what its handler remembers
    ended,      \* history: the request accepted last was a pause or an archive
    astray      \* history: two bootstraps had one generation, or a start passed the overlay by

beats == <<ticks, robbed>>

vars == <<status, commander, session, procs, loop, beats, overlay, line, pc, mem, ended, astray>>

AllKinds == {"start", "resume", "pause", "archive", "message", "channel",
             "startCommander", "stopCommander"}

Statuses == {"idle", "active", "archived"}

States == {"idle", "running", "stopped"}

\* the absence of a value is none of the values
ASSUME NoneAssumption == None \notin Request \union Statuses \union AllKinds

\* where a bootstrap is until it is over
BootLabels == {"prepare", "create", "activated", "startup", "sent", "unsent", "gaveUp",
               "fail", "stopped", "stopEnds"}

\* where a handler is: named for what it does next
Labels == BootLabels \union
    {"new", "done", "revived", "reheart", "archived", "halt", "deliver", "delivered", "counted",
     "run", "seed", "spawn", "greet"}

NoOverlay == [state |-> "none", gen |-> 0, cancel |-> None, owner |-> None]

Blank == [kind |-> None, gen |-> 0, saw |-> None, was |-> None, reused |-> FALSE]

Init ==
    /\ status = "idle" /\ commander = "idle"
    /\ session = None /\ procs = {} /\ loop = None /\ ticks = {} /\ robbed = FALSE
    /\ overlay = NoOverlay /\ line = <<>> /\ ended = FALSE /\ astray = FALSE
    /\ pc = [r \in Request |-> "new"]
    /\ mem = [r \in Request |-> Blank]

-----------------------------------------------------------------------------
(* The pieces the handlers are made of.                                    *)

Starting == overlay.state = "starting"

\* Request r of this kind is taken now.
Accept(r, kind) == pc[r] = "new" /\ kind \in Kinds /\ ended' = (kind \in {"pause", "archive"})

\* r goes on at label; once it is done it remembers nothing
Advance(r, label) ==
    /\ pc' = [pc EXCEPT ![r] = label]
    /\ mem' = IF label = "done" THEN [mem EXCEPT ![r] = Blank] ELSE mem

Goto(r, label) == Advance(r, label) /\ UNCHANGED line

\* the update of r that sets this status; keep: it spares an archived one
Setting(r, to, keep) == [by |-> r, to |-> to, keep |-> keep]

\* r's update of the conversation joins the queue; the handler goes on at
\* the step that follows once it is applied.
Update(r, next, to) == Advance(r, next) /\ line' = Append(line, Setting(r, to, FALSE))

At(r, label) == pc[r] = label /\ \A u \in ToSet(line) : u.by # r

\* Mutant: what happens to a conversation revives a stopped commander
DerivedAlways(live) == IF status = "active" /\ live # None THEN "running" ELSE "idle"

\* updateCommanderDerivedState, given the session there is from now on
Derived(live) ==
    IF commander = "stopped" THEN "stopped"
    ELSE IF status = "active" /\ live # None THEN "running" ELSE "idle"

\* deleteSession
Drop == session' = None /\ procs' = procs \ {session}

\* a bootstrap that is not over
Booting(r) == mem[r].kind \in {"start", "resume"} /\ pc[r] \in BootLabels

\* beginConversationBootstrap, and the handler that awaits it
Begin(r, kind) ==
    /\ astray' = (astray \/ \E q \in Request : Booting(q) /\ mem[q].gen = overlay.gen + 1)
    /\ overlay' = [state |-> "starting", gen |-> overlay.gen + 1, cancel |-> None, owner |-> r]
    /\ mem' = [mem EXCEPT ![r].kind = kind, ![r].gen = overlay.gen + 1]
    /\ pc' = [pc EXCEPT ![r] = "prepare"]
    /\ UNCHANGED <<status, commander, session, procs, loop, beats, line>>

Mine(r) == overlay.gen = mem[r].gen

Completed(r) == IF Mine(r) THEN NoOverlay ELSE overlay

\* Mutant: a bootstrap that fails leaves its overlay starting
FailedSilently(r) == overlay

Failed(r) == IF Mine(r) /\ overlay.state # "none"
             THEN [overlay EXCEPT !.state = "failed"] ELSE overlay

CancelRequested(r) == Mine(r) /\ overlay.cancel # None

\* requestConversationBootstrapCancel
WithCancel(to) == IF Starting THEN [overlay EXCEPT !.cancel = to] ELSE overlay

-----------------------------------------------------------------------------
(* A start or a resume: launchConversationBootstrap around                 *)
(* startConversationSession; the latter alone for a channel's message.     *)

Start(r) == Accept(r, "start") /\ ~Starting /\ status = "idle" /\ Begin(r, "start")

Resume(r) == Accept(r, "resume") /\ ~Starting /\ session = None /\ Begin(r, "resume")

\* a resume of a conversation that has its session only updates the record
Revive(r) ==
    /\ Accept(r, "resume") /\ ~Starting /\ session # None
    /\ Update(r, "revived", "active")
    /\ UNCHANGED <<status, commander, session, procs, loop, beats, overlay, astray>>

Revived(r) ==
    /\ At(r, "revived")
    /\ commander' = Derived(session)
    /\ Goto(r, "reheart")
    /\ UNCHANGED <<status, session, procs, loop, beats, overlay, ended, astray>>

Reheart(r) ==
    /\ At(r, "reheart")
    /\ loop' = IF loop = None THEN r ELSE loop
    /\ robbed' = FALSE
    /\ Goto(r, "done")
    /\ UNCHANGED <<status, commander, session, procs, ticks, overlay, ended, astray>>

\* A channel's message to an idle conversation starts it, past the overlay.
ChannelStart(r) ==
    /\ Accept(r, "channel")
    /\ status = "idle" /\ session = None
    /\ mem' = [mem EXCEPT ![r].kind = "channel"]
    /\ pc' = [pc EXCEPT ![r] = "prepare"]
    /\ astray' = TRUE
    /\ UNCHANGED <<status, commander, session, procs, loop, beats, overlay, line>>

\* A compatible session is used again; another one makes way for the new one.
Prepare(r) ==
    /\ At(r, "prepare")
    /\ \/ /\ session # None
          /\ line' = Append(line, Setting(r, "active", FALSE))
          /\ pc' = [pc EXCEPT ![r] = "activated"]
          /\ mem' = [mem EXCEPT ![r].reused = TRUE]
          /\ UNCHANGED <<session, procs>>
       \/ Drop /\ Goto(r, "create")
    /\ UNCHANGED <<status, commander, loop, beats, overlay, ended, astray>>

Create(r) ==
    /\ At(r, "create")
    /\ session' = r
    /\ procs' = procs \union {r}
    /\ Update(r, "activated", "active")
    /\ UNCHANGED <<status, commander, loop, beats, overlay, ended, astray>>

\* onConversationActivated, then the commander's state
Activated(r) ==
    /\ At(r, "activated")
    /\ overlay' = IF CancelRequested(r) THEN overlay ELSE Completed(r)
    /\ commander' = Derived(session)
    /\ Goto(r, "startup")
    /\ UNCHANGED <<status, session, procs, loop, beats, ended, astray>>

\* The heartbeat starts, and the startup prompt goes to whatever session has
\* the name; one used again gets none.
Startup(r) ==
    /\ At(r, "startup")
    /\ loop' = r /\ robbed' = FALSE
    /\ \/ (session # None \/ mem[r].reused) /\ Goto(r, "sent")
       \/ ~mem[r].reused /\ Goto(r, "unsent")
    /\ UNCHANGED <<status, commander, session, procs, ticks, overlay, ended, astray>>

Unsent(r) ==
    /\ At(r, "unsent")
    /\ loop' = None
    /\ Drop
    /\ Update(r, "gaveUp", "idle")
    /\ UNCHANGED <<status, commander, beats, overlay, ended, astray>>

GaveUp(r) ==
    /\ At(r, "gaveUp")
    /\ commander' = Derived(session)
    /\ Goto(r, "fail")
    /\ UNCHANGED <<status, session, procs, loop, beats, overlay, ended, astray>>

CreateFails(r) ==
    /\ At(r, "create")
    /\ IF mem[r].kind = "channel" THEN Goto(r, "done")
       ELSE IF session # None THEN Update(r, "stopped", "idle")
       ELSE Advance(r, "gaveUp") /\ line' = Append(line, Setting(r, "idle", TRUE))
    /\ UNCHANGED <<status, commander, session, procs, loop, beats, overlay, ended, astray>>

Fail(r) ==
    /\ At(r, "fail")
    /\ overlay' = IF mem[r].kind = "channel" THEN overlay ELSE Failed(r)
    /\ Goto(r, "done")
    /\ UNCHANGED <<status, commander, session, procs, loop, beats, ended, astray>>

\* Mutant: the bootstrap does not look for a cancel once it has started
SentBlindly(r) ==
    /\ At(r, "sent") /\ mem[r].kind # "channel"
    /\ overlay' = Completed(r)
    /\ Goto(r, "done")
    /\ UNCHANGED <<status, commander, session, procs, loop, beats, ended, astray>>

\* The bootstrap is over: a pause or an archive that came meanwhile is done now.
Sent(r) ==
    /\ At(r, "sent") /\ mem[r].kind # "channel"
    /\ IF CancelRequested(r)
       THEN Update(r, "stopped", overlay.cancel) /\ UNCHANGED overlay
       ELSE overlay' = Completed(r) /\ Goto(r, "done")
    /\ UNCHANGED <<status, commander, session, procs, loop, beats, ended, astray>>

-----------------------------------------------------------------------------
(* stopConversationSession, for whoever called it, and the requests that   *)
(* end a conversation.                                                     *)

Stopped(r) ==
    /\ At(r, "stopped")
    /\ loop' = None
    /\ Drop
    /\ commander' = Derived(None)
    /\ Goto(r, IF mem[r].kind \in {"start", "resume"} THEN "stopEnds"
               ELSE IF mem[r].kind = "stopCommander" THEN "halt" ELSE "done")
    /\ UNCHANGED <<status, beats, overlay, ended, astray>>

\* the bootstrap that was cancelled, or whose creation failed, is over
StopEnds(r) ==
    /\ At(r, "stopEnds")
    /\ overlay' = IF CancelRequested(r) THEN Completed(r) ELSE Failed(r)
    /\ Goto(r, "done")
    /\ UNCHANGED <<status, commander, session, procs, loop, beats, ended, astray>>

Pause(r) ==
    /\ Accept(r, "pause")
    /\ status # "archived"
    /\ overlay' = WithCancel("idle")
    /\ IF Starting THEN Goto(r, "done") ELSE Update(r, "stopped", "idle")
    /\ UNCHANGED <<status, commander, session, procs, loop, beats, astray>>

Archive(r) ==
    /\ Accept(r, "archive")
    /\ overlay' = WithCancel("archived")
    /\ loop' = IF session = None THEN None ELSE loop
    /\ Update(r, IF session = None THEN "archived" ELSE "stopped", "archived")
    /\ UNCHANGED <<status, commander, session, procs, beats, astray>>

Archived(r) ==
    /\ At(r, "archived")
    /\ commander' = Derived(session)
    /\ Goto(r, "done")
    /\ UNCHANGED <<status, session, procs, loop, beats, overlay, ended, astray>>

-----------------------------------------------------------------------------
(* A message to the live session, by a client or a channel.                *)

Message(r) ==
    /\ Accept(r, "message")
    /\ status # "archived" /\ ~Starting
    /\ mem' = [mem EXCEPT ![r].kind = "message"]
    /\ pc' = [pc EXCEPT ![r] = "deliver"]
    /\ UNCHANGED <<status, commander, session, procs, loop, beats, overlay, line, astray>>

\* without a session it is refused; the send may be refused too
Deliver(r) ==
    /\ At(r, "deliver")
    /\ Goto(r, IF session = None THEN "done" ELSE "delivered")
    /\ UNCHANGED <<status, commander, session, procs, loop, beats, overlay, ended, astray>>

\* the message that a channel's start was for
ChannelSends(r) ==
    /\ At(r, "sent") /\ mem[r].kind = "channel"
    /\ IF session = None THEN Update(r, "stopped", "idle") ELSE Goto(r, "delivered")
    /\ UNCHANGED <<status, commander, session, procs, loop, beats, overlay, ended, astray>>

Delivered(r) ==
    /\ At(r, "delivered")
    /\ \/ Update(r, "counted", "active")
       \/ mem[r].kind = "message" /\ Goto(r, "done")
       \/ mem[r].kind = "channel" /\ Update(r, "stopped", "idle")
    /\ UNCHANGED <<status, commander, session, procs, loop, beats, overlay, ended, astray>>

Counted(r) ==
    /\ At(r, "counted")
    /\ commander' = Derived(session)
    /\ Goto(r, IF mem[r].kind = "message" THEN "reheart" ELSE "done")
    /\ UNCHANGED <<status, session, procs, loop, beats, overlay, ended, astray>>

-----------------------------------------------------------------------------
(* The commander's own start and stop.                                     *)

StartCommander(r) ==
    /\ Accept(r, "startCommander")
    /\ commander # "running"
    /\ mem' = [mem EXCEPT ![r].kind = "startCommander", ![r].saw = commander, ![r].was = status]
    /\ pc' = [pc EXCEPT ![r] = "run"]
    /\ astray' = TRUE
    /\ UNCHANGED <<status, commander, session, procs, loop, beats, overlay, line>>

Run(r) ==
    /\ At(r, "run")
    /\ commander' = "running"
    /\ Update(r, "seed", "active")
    /\ UNCHANGED <<status, session, procs, loop, beats, overlay, ended, astray>>

Seed(r) ==
    /\ At(r, "seed")
    /\ Drop
    /\ Goto(r, "spawn")
    /\ UNCHANGED <<status, commander, loop, beats, overlay, ended, astray>>

Spawn(r) ==
    /\ At(r, "spawn")
    /\ session' = r
    /\ procs' = procs \union {r}
    /\ loop' = r /\ robbed' = FALSE
    /\ Goto(r, "greet")
    /\ UNCHANGED <<status, commander, ticks, overlay, ended, astray>>

Greet(r) ==
    /\ At(r, "greet") /\ session # None
    /\ Goto(r, "done")
    /\ UNCHANGED <<status, commander, session, procs, loop, beats, overlay, ended, astray>>

\* rollbackCommanderStart, when the session or the greeting fails
RollBack(r) ==
    /\ At(r, "spawn") \/ At(r, "greet")
    /\ loop' = None
    /\ Drop
    /\ commander' = mem[r].saw
    /\ Update(r, "done", mem[r].was)
    /\ UNCHANGED <<status, beats, overlay, ended, astray>>

StopCommander(r) ==
    /\ Accept(r, "stopCommander")
    /\ loop' = None
    /\ IF status = "archived"
       THEN Goto(r, "halt")
       ELSE /\ line' = Append(line, Setting(r, "idle", FALSE))
            /\ pc' = [pc EXCEPT ![r] = "stopped"]
            /\ mem' = [mem EXCEPT ![r].kind = "stopCommander"]
    /\ UNCHANGED <<status, commander, session, procs, beats, overlay, astray>>

Halt(r) ==
    /\ At(r, "halt")
    /\ commander' = "stopped"
    /\ Goto(r, "done")
    /\ UNCHANGED <<status, session, procs, loop, beats, overlay, ended, astray>>

-----------------------------------------------------------------------------
(* The conversation store and the heartbeat.                               *)

\* The update at the head of the queue is applied.
Mutate ==
    /\ line # <<>>
    /\ LET u == Head(line)
       IN  status' = IF u.keep /\ status = "archived" THEN status ELSE u.to
    /\ line' = Tail(line)
    /\ UNCHANGED <<commander, session, procs, loop, beats, overlay, pc, mem, ended, astray>>

\* The loop's timer fires; a loop sends one heartbeat at a time.
Tick ==
    /\ loop # None /\ Cardinality(ticks) < MaxTicks
    /\ \A t \in ticks : t.loop # loop
    /\ ticks' = ticks \union {[loop |-> loop, saw |-> commander, ending |-> FALSE]}
    /\ UNCHANGED <<status, commander, session, procs, loop, robbed, overlay, line, pc, mem,
                   ended, astray>>

\* Mutant: a heartbeat stops the loop of an idle commander too
StopsIdle(t) == t.saw # "running" \/ session = None

\* A heartbeat for a stopped commander, or for no session, is to stop the
\* loop; an idle commander's is skipped.
Stops(t) == t.saw = "stopped" \/ (t.saw = "running" /\ session = None)

\* The heartbeat is over, or it is to stop the loop once it is in the log.
Beat(t) ==
    /\ t \in ticks /\ ~t.ending
    /\ ticks' = IF Stops(t) THEN (ticks \ {t}) \union {[t EXCEPT !.ending = TRUE]} ELSE ticks \ {t}
    /\ UNCHANGED <<status, commander, session, procs, loop, robbed, overlay, line, pc, mem,
                   ended, astray>>

\* It stops the loop that the conversation has by then, be it another one.
BeatStops(t) ==
    /\ t \in ticks /\ t.ending
    /\ ticks' = ticks \ {t}
    /\ loop' = None
    /\ robbed' = (robbed \/ (t.saw = "running" /\ loop \notin {None, t.loop}))
    /\ UNCHANGED <<status, commander, session, procs, overlay, line, pc, mem, ended, astray>>

Step(r) ==
    \/ Revived(r) \/ Reheart(r) \/ Prepare(r) \/ Create(r) \/ Activated(r) \/ Startup(r)
    \/ Unsent(r) \/ GaveUp(r) \/ CreateFails(r) \/ Fail(r) \/ Sent(r)
    \/ Stopped(r) \/ StopEnds(r) \/ Archived(r)
    \/ Deliver(r) \/ ChannelSends(r) \/ Delivered(r) \/ Counted(r)
    \/ Run(r) \/ Seed(r) \/ Spawn(r) \/ Greet(r) \/ RollBack(r) \/ Halt(r)

Arrival(r) ==
    \/ Start(r) \/ Resume(r) \/ Revive(r) \/ ChannelStart(r) \/ Pause(r) \/ Archive(r)
    \/ Message(r) \/ StartCommander(r) \/ StopCommander(r)

Next ==
    \/ \E r \in Request : Arrival(r) \/ Step(r)
    \/ Mutate \/ Tick \/ \E t \in ticks : Beat(t) \/ BeatStops(t)

Spec == Init /\ [][Next]_vars

-----------------------------------------------------------------------------
(* Properties                                                              *)

Overlays == [state : {"none", "starting", "failed"}, gen : Nat,
             cancel : {None, "idle", "archived"}, owner : Request \union {None}]

Memory == [kind : AllKinds \union {None}, gen : Nat, saw : States \union {None},
           was : Statuses \union {None}, reused : BOOLEAN]

Settings == [by : Request, to : Statuses, keep : BOOLEAN]

HandlersOK ==
    /\ line \in Seq(Settings)
    /\ pc \in [Request -> Labels]
    /\ mem \in [Request -> Memory]

StoresOK ==
    /\ status \in Statuses /\ commander \in States
    /\ session \in Request \union {None} /\ procs \subseteq Request
    /\ loop \in Request \union {None}
    /\ ticks \subseteq [loop : Request, saw : States, ending : BOOLEAN] /\ robbed \in BOOLEAN
    /\ overlay \in Overlays
    /\ overlay.gen > 0 <=> overlay.state # "none"

\* Every variable has its type; an overlay has a generation from 1 on.
TypeOK == HandlersOK /\ StoresOK /\ ended \in BOOLEAN /\ astray \in BOOLEAN

\* No request is under way.
Quiet == line = <<>> /\ \A r \in Request : pc[r] \in {"new", "done"}

(***************************************************************************)
(* When all requests are done, the conversation is as the last one asked:  *)
(* no process runs but that of the session under its name (another one     *)
(* could not be reached or stopped any more), and one that was paused or   *)
(* archived last has no session: a bootstrap that was under way is undone  *)
(* (launchConversationBootstrap looks for a cancel after every start).     *)
(* Not so once two bootstraps had one generation (beginConversation-       *)
(* Bootstrap counts from 1 again when an overlay is gone), nor with a      *)
(* channel's or the commander's start, which pass the overlay by.          *)
(***************************************************************************)
RestsAsAsked ==
    Quiet /\ ~astray =>
        /\ procs \subseteq {session}
        /\ ended => session = None

(***************************************************************************)
(* A conversation is not left starting: the bootstrap that set the overlay *)
(* is still under way.  While it says starting, every message is refused   *)
(* and no start begins.                                                    *)
(***************************************************************************)
StartingIsOwned == Starting => Booting(overlay.owner)

(***************************************************************************)
(* When all requests are done, the commander runs if and only if the       *)
(* conversation is active and has its session (updateCommanderDerivedState *)
(* after every change), and that has its heartbeat: no late heartbeat, no  *)
(* stop of a loop and no two of them in any order take away the one that   *)
(* serves it, but for this: a heartbeat that found no session awaits the   *)
(* log before it stops the loop, and by then a pause and a start may have  *)
(* made another (routes/context.ts:1249-1257, heartbeat.ts:302-303).  A    *)
(* stopped commander, and starts that pass the overlay by, aside.          *)
(***************************************************************************)
FollowsConversation ==
    Quiet /\ commander # "stopped" /\ ~astray =>
        /\ commander = "running" <=> status = "active" /\ session # None
        /\ commander = "running" => loop # None \/ robbed

(***************************************************************************)
(* Only the handler of POST /:id/start takes a commander out of stopped    *)
(* (conversation-runtime.ts:517); what happens to its conversations does   *)
(* not.                                                                    *)
(***************************************************************************)
StoppedSticks ==
    [][commander = "stopped" /\ commander' # "stopped" =>
           \E r \in Request : mem[r].kind = "startCommander" /\ pc'[r] # pc[r]]_vars

=============================================================================
