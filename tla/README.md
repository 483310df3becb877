# Hervald in TLA+

Specifications of the concurrent core of Hervald (the `apps/hammurabi` server),
model-checked with TLC, and theorems about them checked with TLAPS. Paths below
are relative to `src/apps/hammurabi/` unless they start with `src/`.

Run from this directory:

    tlc -workers 2 -config MCSessionQueue_codex.cfg MCSessionQueue
    tlapm SessionQueueProofs.tla

## 1. The system

Hervald is one Node.js process that runs coding agents (Claude, Codex, Gemini,
OpenCode) for its users. It keeps all its state in memory and in JSON files
under one data directory, and it talks to agents through child processes, to
machines through daemons, to people through HTTP, WebSockets and messaging
channels.

Within the process, JavaScript runs to completion: two handlers interleave only
at an `await`, a timer or a callback. Most of what is hard in this code happens
there: state is looked at, something is awaited, and what was looked at is used
although another handler has run meanwhile. The rest happens at the edges of
the process: a kill between two file writes, a file torn by a kill, a child
process or a hook that dies, a message that never comes.

### Inventory

| Part | State | Operations | What is hard | What makes it correct |
|---|---|---|---|---|
| Session message queue: `modules/agents/message-queue.ts` | `items`, sorted by priority | enqueue, dequeue, remove, reorder, clear, rebuild from a list | order under mixed edits, the limit | each priority is a FIFO band, urgent before normal before low |
| Queue runtime: `agents/session/queue-runtime.ts`, turn events in `session/stream-events.ts`, queue routes in `routes/session-control-routes.ts` | urgent list, queue, current message, `lastTurnCompleted`, drain flags, retry timer | send now, queue, drain, retry, turn start and end, remove, reorder, clear, exit | awaits inside drain and send; answers overtaken by turn ends; a timer shared by all messages | nothing lost, nothing sent twice, the limit, no waiting message without a wakeup |
| Approval coordinator: `policies/pending-store.ts` with `policies/routes.ts`, `action-policy-gate.ts`, `agents/claude-approval-hook.mjs` | approvals map, timers, waiters, job queue, snapshot and audit files | check, wait, poll, decide, time out, deliver, reload | operator, timer and poll race; kills between map, snapshot, audit and answer | the first ruling counts, nobody is allowed without a reason, every review ends |
| Auto-rotation: `agents/session/auto-rotation.ts` | pending and running rotations, old and new session | schedule, rotate, await | the queue is copied after an await; drains and sends await a rotation that may fail | one replacement at a time, no message left behind, no turn cut short |
| Session persistence: `agents/session/persistence.ts` | snapshot of sessions and queues | save, restore, resume | a message restored as current | a restored backlog is drained |
| Provider runtime: `agents/session/provider-runtime.ts` | watchdog per turn | arm, read the thread, recover | the answer belongs to an older turn | a healthy turn is never failed |
| Daemons: `agents/daemon/registry.ts`, `daemon/websocket.ts`, the daemon in `src/packages/hammurabi-cli/src/daemon.ts` | connections, process entries; the daemon's children and buffer | connect, supersede, spawn, kill, exit, revoke, restart | messages of a superseded connection; the buffer replayed while new output flows | both ends agree on what runs, each message once, they meet again |
| Automations: `automations/scheduler.ts`, `executor.ts`, `store.ts` | automations, cron jobs, runs in flight | create, update, pause, delete, run, quest events | status written back after a run | paused stays paused, an active one has a job |
| Quests: `commanders/quest-store.ts` | quests per commander | create, claim, finish | the event after the write | one claim per conversation, no event lost |
| Channel messages: `commanders/routes/register-channels.ts`, `channel-idempotency-ledger.ts` | a map of deliveries in flight, one ledger file per message id | deliver, wait for the one in flight, claim, expire | checks before awaits, a crash between delivery and claim | a message is delivered once but for faults, every call is answered |
| Durable files: `durable-file.ts` | lock files, temporary files | lock, break, rename | two breakers of a stale lock | mutual exclusion |
| Conversations: `commanders/routes/register-conversations.ts`, `conversation-runtime.ts`, `conversation-runtime-state.ts`, `commanders/conversation-store.ts`, and the commander's start and stop in `register-core.ts` | status, session, runtime overlay, update queue; the commander's state | start, resume, pause, archive, message, channel message, start and stop of the commander | handlers that overtake each other at every await | a conversation ends as it was last asked, no process is orphaned |
| Heartbeats: `commanders/heartbeat.ts` | a loop per conversation | start, fire, replace, stop | late answers of replaced loops | a live conversation keeps its loop |
| Policies: `policies/resolver.ts`, `store.ts` | rules per scope | resolve | precedence | the narrowest rule wins |
| Transport tickets, API keys: `server/auth`, `server/api-keys` | tickets, keys | issue, consume, revoke | eviction at the limit | a ticket is used once |
| Realtime proxy: `server/realtime/proxy.ts` | one live transcription and a retry | stream, time out, retry | a late final | one final per utterance |
| Everything else (UI, channels, org, workspace, telemetry, packages) | stores and views | request and response | I/O | |

How they interact: routes, heartbeats, automations and channels put messages
into sessions through the queue runtime; the provider adapter sends them and
calls `appendStreamEvent` with the provider's turn events, which drain the
queue again. Before an agent acts, its provider asks the approval coordinator:
Claude's hook over HTTP from a process of its own, the other providers through
`ActionPolicyGate` inside the server. Rotation and restart replace the session
object under the queue runtime. `PROJECT.json` lists every component with its
status, and every hazard at its line with the properties that would catch it.

## 2. Modules

| Module | Role |
|---|---|
| `MessageQueue` | the pure operations on a list of messages with priorities |
| `PriorityMailbox` | abstract: three FIFO bands |
| `MessageQueueClass` | `SessionMessageQueue` as a state machine; implements `PriorityMailbox` |
| `SessionQueue` | one live session and its runtime; uses `MessageQueue` |
| `ApprovalReview` | abstract: ask, rule once, tell |
| `ApprovalCoordinator` | the coordinator, its clients, its files; implements `ApprovalReview` |
| `AutoRotation` | a session and its replacements; what drains, sends and turn ends do around a rotation |
| `Automations` | one automation: record, file, mutation queue, cron job, executions |
| `ChannelDelivery` | the webhook calls that carry one provider message id |
| `DurableFileLock` | the lock file of a store, its writers and processes |
| `ConversationLifecycle` | one conversation, its commander, and the requests to both |
| `DaemonLink` | server and daemon of one machine, and the connections between them |
| `MC*` | instances for TLC |
| `SessionQueueProofs`, `ApprovalCoordinatorProofs`, `AutoRotationProofs`, `AutomationsProofs`, `ChannelDeliveryProofs`, `DurableFileLockProofs`, `ConversationLifecycleProofs`, `DaemonLinkProofs` | theorems about the module each is named for; the first begins with the lemmas about `MessageQueue`, the second ends with the refinement of `ApprovalReview` and the audit log |

Some operators say "Mutant" in their comment. They are not used by any
specification: each is a plausible slip in one definition (a forgotten retry, a
removal by position, a reload that arms no timers), and each property of a
passing run is violated when its definition is replaced by such a slip. The
pairs are listed under `mutants` in `PROJECT.json`.

### 2.1 MessageQueue, MessageQueueClass, PriorityMailbox

A message is a model value; `Prio` gives its priority; text, images and ids are
left out. `InsertIndex` is the `findIndex` of `enqueue`, `RemoveItem` the
`splice` of `remove`, `NormalizeQueueState` what the constructor does to a
saved list: it sorts, stably, and does not cut, so a list may be longer than the
limit until it has been served. `MessageQueueClass` is one object from its
constructor on, with one action per method. `call` is a history variable: the
last call, its argument, and what it returned (the message of a `dequeue`, the
position of an `enqueue`).

`PriorityMailbox` knows nothing of a sorted array. The refinement mapping
selects each band from `items` and keeps `call` as it is, so the two run call by
call: `ServesByBands` says that each call of the class does to every band what
the same call does to the mailbox, and returns the same. A removal takes one
message out of its band, an insertion goes behind the last of its band, a user's
reordering leaves in each band exactly the order that was chosen, and never lets
a low message overtake an urgent one.

### 2.2 SessionQueue

State and code:

| Variable | Code |
|---|---|
| `pending`, `queue` | `session.pendingDirectSendMessages`, `session.messageQueue.items` |
| `current` | `session.currentQueuedMessage` |
| `turnDone` | `session.lastTurnCompleted` |
| `drain`, `drainForce`, `drainMsg` | the running drain: `queuedMessageDrainScheduled` and the locals of `drainQueuedMessages` |
| `drainAgain`, `drainAgainForce` | `queuedMessageDrainPending`, `queuedMessageDrainPendingForce` |
| `retryFor` | `queuedMessageRetryMessageId` with its timer |
| `status`, `copies` | history: what became of each message, how often the agent got it |
| `overtaken`, `agentWork`, `proc` | the provider: dispatches a turn end has overtaken, turn ends it owes, its process |

An action is what runs between two awaits:

- `sendImmediateTextToStreamSession` is `SendImmediate` up to its first
  dispatch, then `FirstSent/FirstBusy/FirstRefused` for the answer, which may go
  on to a second dispatch, then `DirectSent/DirectBusy/DirectRefused`. Each
  includes what follows in the same run: the push into `pending`, the limit, the
  drain request.
- `drainQueuedMessages` is `DrainBegin` (checks, then the await of a rotation),
  `DrainDispatch` (checks again and sends, the message staying in the backlog)
  and `DrainSent/DrainBusy/DrainRefused`; `DrainSkip` is each early return. All
  but the first two end with the `finally` of `scheduleQueuedMessageDrain`
  (`FinishDrain`).
- `TurnStart`, `TurnEnd` are the branches of `appendStreamEvent` that touch the
  queue; `RemoveQueued`, `ClearQueue`, `Reorder` are the routes;
  `ProcessCloses`, `SessionExits` the provider process going away.

Two adapters are modelled, chosen by `Provider`. Claude's `dispatchSend` writes
to stdin and answers in the same run (`Free` keeps all else out while a dispatch
is open); a write is refused while stdin drains. Codex's awaits an RPC, so turn
events and routes run meanwhile; it declares the turn running before the RPC,
refuses while the thread is busy or the turn to steer has ended, and fails the
session on any other error. The agent may answer several prompts it took with
one turn end (`agentWork' \in 0..agentWork-1`).

Not in this module: rotation that replaces the session (section 2.4), restored
queues, the `resume` and `DELETE` session routes, message text and transcript
events, the other two adapters; sessions of automations, which do not clear
`lastTurnCompleted` at a dispatch (`stream-io-helpers.ts:105`). Simplified: a
Codex dispatch awaits a pending recovery before it is sent
(`codex/session.ts:683-689`), which is part of the same await here; a Codex
session that fails is torn down in one step (495-535); and that a Codex refusal
as busy implies a turn end to come is taken from Codex. A drain here always finds its rotation to leave
the session in place, so the branch that moves the drain to a new session
object is not taken.

### 2.3 ApprovalCoordinator

| Variable | Code |
|---|---|
| `approvals` | the `approvals` map; an entry's resolution is `approval.resolution` |
| `timers` | `timeoutTimers` |
| `loaded` | `initPromise`: not started, fulfilled, rejected |
| `jobs`, `phase` | `mutationQueue`; the head is the job that runs and the await it is at |
| `file`, `torn`, `audit` | `pending.json`, whether it was cut short, the audit log's resolved rows |
| `client` | each request's hook or gate |
| `due`, `asked` | the environment: deadlines passed, decisions posted |
| `verdict` | history: the ruling applied to a request |

Everything that changes an approval is a job of `serializeMutation`. A job is
one action that changes the maps (`StartEnqueue`, `StartWait`, `StartResolve`,
`StartDelivered`), then `Persist` (the snapshot is written), then `Audit` (the
row is written and the caller goes on). `SkipResolve` is `resolve` returning
early. A job that writes nothing ends at once. `Poll` reads the map between
those steps, because `getStatus` does not go through the queue; it does so
again after resolving an expired approval (`PollReply`).

The hook is a process: it polls, gives up at its own deadline, fails closed when
the server is unreachable, and may sleep through a restart. The gate is a
promise in the server and dies with it. `Crash` kills the server at any point,
in the middle of `writeFile` too (old, new or torn file). `WriteFails` is a
write that rejects: the gate's caller catches it and denies, and every other
rejection is unhandled, on which `server/index.ts` exits. `Load` drops entries
whose source `normalizePendingApproval` does not know (`Reloadable`).

Not modelled: approvals with a `resolutionHandler` and the outcome cache, which
nothing in the running server uses; `HAMMURABI_APPROVAL_FAIL_OPEN=1`; history
queries; the actions that a policy allows or blocks without review; a hook
killed while it posts; the retention of rows in the audit log
(`pending-store.ts:967-1019`), and a failing rewrite of a delivered row, which
is swallowed (926-934) and costs the row its mark. The append that `res.once('finish')` triggers is the job
`delivered`, queued with the answer.

### 2.4 AutoRotation

A session object is a generation; `live` is what `sessions.get(name)` returns.
`session[g]` holds the fields a rotation reads or copies, `drain[g]` the drain
that belongs to the object. `rot` is the set of calls of
`rotateStreamSessionIfNeeded` that are past their checks, and `registered` the
one in `autoRotationQueues`: `awaitAutoRotationIfNeeded` joins that one, or
makes a call of its own that it does not register.

| Action | Code |
|---|---|
| `QueueBegins`, `QueueLands` | `POST /message?queue=true` before and after it awaits the workspace context, `into` the session object it looked up |
| `SendImmediate`, `SendResumes` | `sendImmediateTextToStreamSession` before and after its await |
| `DrainBegins`, `DrainResumes` | `drainQueuedMessages` before and after its await; on another object it asks that one to drain |
| `TurnEnd` | the turn-end branch of `appendStreamEvent`, which schedules a rotation or a drain |
| `RotationMade`, `RotationFails`, `RotationSettles` | the continuation of `createReplacementStreamSession`, its `catch`, the `finally` that looks for the next one |
| `Delete` | `DELETE /sessions/:name` |

Promise callbacks run before the next event from outside (`Quiet`). Sending is
one step here: the awaits of a dispatch are `SessionQueue`'s subject, and the
two modules share the same guards. So is `Delete`, which awaits the teardown of
the provider. A queued message that lands in a session which is not the one in
the map any more has the fate `late`: section 5.

### 2.5 Automations

`rec` is the record in the store's map, `file` the same on disk, `ops` the FIFO
of `withMutationLock`. A mutation is two steps, since the file is written (and
may be torn) between them; whoever reads outside the FIFO sees the old record.
`Continue` is what each caller does when its mutation is over: the scheduler
registers or removes the cron job, a run goes on to its next entry. `Execute` is
`executeAutomation`, which joins an execution in flight. A PATCH (`Patches`)
changes the status, `maxRuns`, the trigger, the schedule, or trigger and schedule
together; without a schedule `registerJob` does nothing (`Registers`). `cap` is a
history variable, the highest `maxRuns` there was. Failed runs write back
the status they started with, then their entry; `RunUnrecorded` is a run whose
metadata could not be written either. `Restart` loads what is on disk and drops
a file that does not parse. Left out: the re-reading of a legacy file whose
migration was deferred (`store.ts:287-309`), and what node-cron makes of an
expression it cannot parse.

### 2.6 ChannelDelivery

All calls carry one message id, since calls with different ids share nothing.
`Check` and `CheckAgain` are the two looks at map and ledger with the awaits
between them, `Deliver` and `Claim` the delivery and the ledger entry after it,
`Released` what settles the promise that the others wait for. When the text asks
for deep thinking (`deep`), delivering only schedules an operation, which is
answered with ok and claimed like a delivery (`conversation-runtime.ts:1351-1390`);
it ends later in `Synthesize`, which sends its prompt to the session, or in
`Abandon`: aborted, timed out, failed, or lost with the process. Faults hit
between delivery and claim (`FailAfterDelivery`), crashes at any point; `excuses`
counts what may cost one repetition.

### 2.7 DurableFileLock

A writer queues behind the last writer of its process (`tail` is
`mutationQueues`), opens `<file>.lock` exclusively, writes its token, and
removes the file if it still has that token. `Judge` is `shouldBreakLock`,
`Break` the `rm` of what was judged, by path: `wrong` records that another lock
was hit. A call to the file system is one step; calls of different processes
interleave. Each may fail: `FailWrite` (the write or a sync behind it, then the
`rm` of what is at the path, which may fail too and is swallowed), `Misread`
(`readLockMetadata` takes an unreadable lock for malformed, which is broken when
it is old), `FailBreak` (the only failing call that the writer hears of),
`FailRelease` (`removeLockIfOwned` swallows a failing read or `rm`). `left` and
`misread` are the writers to whom the last and the second happened. Process ids
are not reused, all processes share a host, and writing a lock's token takes less
than `staleMs`.

### 2.8 ConversationLifecycle

Each request is a process with a program counter `pc` and the locals it keeps
over an await, `mem`. An update of the conversation is queued (`line`, the
store's `withMutationLock`), applied to the record as it then is (`Mutate`), and
only then does its caller go on (`At`). The overlay of
`conversation-runtime-state.ts` has its state, generation and cancel. `procs`
are the processes that run, `session` the one that can be reached by name;
`Drop` is `deleteSession`. The labels name what a handler does next:
`launchConversationBootstrap` with `startConversationSession` is `prepare`,
`create`, `activated`, `startup`, `sent`, or one of the ways out. `Tick` fires a
heartbeat, `Beat` is its finding, and `BeatStops` what follows when it found no
session or a stopped commander: the finding is appended to the heartbeat log
(`routes/context.ts:1249-1257`), and after that await whatever loop the
conversation has by then is stopped (`heartbeat.ts:302-303`). History: `ended`,
that the request accepted last was a pause or an archive; `astray`, that two
bootstraps had one generation or a start passed the overlay by; `robbed`, that a
heartbeat without a session has stopped a loop that was not its own, and none has
begun since.

### 2.9 DaemonLink

Both ends of the WebSocket connections of one machine. The server has its
current connection `conn`, the state `srv` of each socket, its process entries
`known`; the daemon has `ws`, `cl`, its children `running` and the `buffer` of
messages printed while the link is down. Between them are two queues per
connection, and `cut`: a broken connection whose ends have not noticed. The
upgrade is two steps (`Admit` reads the machines' registry, `Attach` puts the
connection into the map); closing a socket and its close event are two. Output
that is still in a child's pipes when it exits is printed after its exit
(`Drain`), as Node emits `exit` before stdio has ended. A
command sent over a connection that is broken, or whose other end has closed, is
`unheard`, whatever the sender believes. The
hello waits for the provider probes, after which the buffer is flushed over
whatever connection is active by then (`ProbeEnds`). A restart of the server
makes the entries of some processes again (`attachProcess`), without the ids of
their requests, so that a late `spawned` is dropped; which ones is any choice, and
the others run on `unattached`: terminals, which `attachProcess` refuses, the
processes of Codex, Gemini and OpenCode, whose runtimes never attach, and those of
sessions that are not persisted.

## 3. Runs

Twelve runs, one per question. Where a module has liveness properties they are
checked in the same run as its safety, on the same instance.

| Run | Question | Instance |
|---|---|---|
| `session_claude` | is the backlog bounded, complete, always on its way, and settled in the end? | 1 urgent, 2 normal, 1 low message, limit 3 |
| `session_codex` | the same with everything interleaving; delivered once; deletions stick; the invariant of the proofs | 2 urgent, 2 normal, limit 3 |
| `queue_class` | does the sorted array implement the bands, call by call? | 5 messages in 3 bands, limit 4, any saved list |
| `approval_steady` | one ruling, heard and logged as it was made, for everybody? | 1 hook (times out to reject), 1 gate (times out to approve), 2 decisions |
| `approval_faulty` | is anybody allowed without a reason, or forgotten, under a kill and a failed or torn write? | the same, 1 crash, 1 fault |
| `approval_torn` | expected violation, section 5 | the same, 1 crash |
| `rotation` | does a rotation lose, double or cut anything, and does it come about? | 3 queued, 2 direct messages, threshold 2, 5 generations, 3 failures, 1 deletion |
| `automations` | are runs counted and bounded, and jobs, pauses and deletions kept? | 2 requests, 3 runs, `maxRuns` 2 or patched to 1 or none, 2 failures, 1 crash |
| `channel` | is a message delivered once, and every call answered truthfully? | 4 calls, with and without deep thinking, 2 faults, 2 crashes, 2 expiries |
| `lock` | when does the lock exclude, and who waits for ever? | 3 writers in one process, 1 in each of 2 others, 1 crash, 1 failing call to the file system |
| `conversation` | does a conversation rest as it was last asked, and does its commander follow? | 3 requests of any of 8 kinds, 1 heartbeat in flight |
| `daemon` | do both ends agree, and meet again? | 1 process that prints once before and once after its exit, buffer of 2, 3 connections, 1 break or restart |

Why these bounds suffice for what they show:

- Every race in `SessionQueue` is between a message that is in flight, one that
  waits before or behind it, and the one whose retry timer runs; with four
  messages and a limit of three all of them exist at once and the limit is hit.
- Every race about an approval is between two decisions about it and its timer,
  and between its job and one of another approval ahead in the queue; one hook
  and one gate give each kind of client and of timeout.
- A rotation races with a drain, a direct send, a turn end and another
  rotation. Five messages with a threshold of two make sessions that are
  replaced twice, with a backlog and both kinds of sends around each.
- An automation's mutations meet in pairs (a request and a run's entry), and the
  third execution meets `maxRuns`.
- Three calls with one id are enough for one that delivers, one that waits and
  one that arrives between the two looks; the fourth comes after a crash.
- A collision needs a dead process and two breakers; a chain of promise tails
  needs three writers of one process to be broken.
- Three requests are two that race and one that comes in between or after, of
  any kinds. The requests are symmetric and no liveness is checked there, so the
  run uses symmetry.
- Three connections are one that breaks or meets the restart, one that was on
  its way meanwhile and is refused or attached late, and the one that supersedes
  them. The buffer of two overflows with the four messages of a process, its
  spawn, output, exit and what was left in its pipes.

Two runs have a state constraint, `InOrder`. The queued messages of `rotation`,
its direct ones, the writers of one process of `lock` and its two processes with
one writer are alike: the specification and the properties do not tell them
apart. Every behaviour is therefore one in which they begin in a fixed order, with
the names exchanged, and `InOrder` explores those only. It constrains the order of
first steps, of which no fairness is assumed. (TLC's symmetry reduction, as in
`conversation`, is not sound for liveness.)

All bounds are constants: `Limit`, `Threshold`, `MaxRuns` and `BufferLimit` are
limits of the code, small here; the sizes of the sets, and the constants that the
modules mark `bound`, limit the environment only. The theorems hold for all
values.

Deadlock is checked in `queue_class`, which can always move. The others may
stop: messages and requests are finite and a session or hook may be gone.

### Properties

`SessionQueue`: `NoLostWakeup` (a waiting message always has a drain, a retry
timer, a turn end or an answer on its way), `CurrentIsLive` (the message that
blocks all drains is in flight or its turn is to end), `NothingLost`,
`AtMostOnce`, `DroppedStaysDropped` (a removal sticks unless the message was on
its way when it was removed), `BacklogBounded`, and `QueuedIsSettled`
(liveness).

`ApprovalCoordinator`: `FailClosed` (allow only if a person said so, or the
deadline passed and the settings approve then; no crash, failed write or missing
entry makes up an answer), `WaitedForIsKnown` (a poll is never answered with
404 and a wait never finds its approval missing), `PendingIsArmed`,
`SnapshotCurrent`, `AuditFaithful`, `FirstRulingCounts` (refinement of
`ApprovalReview`), `AnsweredAndForgotten` (liveness).

`AutoRotation`: `NothingLost` (a message put into the session of the map is in the
backlog of whichever session has the name until it is sent), `AtMostOnce` and
`OneOfEach` across any number of replacements; `NoTurnCut` (a rotation that was not preceded by a failed one never
tears a session down in mid-turn); `MovesOn` (liveness: messages that
wait in the session of the map are sent, a due session is replaced).

`Automations`: `RunsCounted` (each history entry counts once, and the highest
`maxRuns` there was is never exceeded although it is checked when a run starts,
counted when it ends and may be patched in between), `ActiveHasJob` (active, on
schedule and with a schedule, it has a cron job), `UserDecides` (no pause, cancellation or deletion is
undone by what was still on its way), `RunsEnd` (liveness). `ActiveHasJob` and
the pause are promised only while no run and no write has failed: section 5.

`ChannelDelivery`: `AtMostOnce`, `NoFalseDuplicate` (a provider is never told
"duplicate" of a message that was lost, but of one that a deep-thinking operation
took and gave up), `EveryCallAnswered` (liveness).

`DurableFileLock`: `ExclusiveUnlessWrong` (what the code achieves of mutual
exclusion), `OnlyBreakersCollide` (what it takes to break it),
`NoLeftover` (a lock file that nobody holds is a dead process's, or its own
removal failed), `WritersEnd` (liveness).

`ConversationLifecycle`: `RestsAsAsked` (when all requests are done no process
is unreachable and a paused or archived conversation has no session),
`StartingIsOwned`, `FollowsConversation` (the commander's state and heartbeat),
`StoppedSticks`. The first and third make exceptions that the modules name
(`astray`, `robbed`): section 5 tells why.

`DaemonLink`: `EachInOnePlace` (a message is in the buffer, on its way, passed
on or lost, never two of these; on a sound link nothing is lost but output that
comes after the exit), `SidesAgree` (an entry without a process, or a process
without an entry, is explained by something on its way or lost, or by a restart
that did not attach it),
`Reconnects` (liveness).

### Fairness

`SessionQueue.Fairness`: weak fairness of the drain's microtasks, the answers of
a dispatch, the retry timer and the turn end. Node runs queued microtasks and
due timers, an RPC is answered or fails, and an agent that took a prompt ends
its turn or its process goes away (which ends the obligation of
`QueuedIsSettled`). For Claude, strong fairness of `DrainSent`: an stdin that
drains again and again accepts a write some time; without it the retry loop may
meet a full pipe forever, which the code does not exclude. Codex needs no such
assumption, since a refusal there implies a turn end to come. Nothing is
assumed of users: that messages are sent, edited or removed is never needed.

`ApprovalCoordinator.FairSpec`: weak fairness of loading, job starts and writes,
of time (`Expire`), of timers and of a hook's polling. Nothing is assumed of
operators, so `AnsweredAndForgotten` rests on the timeout alone.

`AutoRotation.FairSpec`: microtasks run, a replacement is created or fails (a
bounded number of times), an agent ends its turn. `Automations.Fairness`: file
operations return, sessions of runs end, cron ticks come.
`ChannelDelivery.FairSpec` and `DurableFileLock.FairSpec`: a handler that has
begun goes on; nothing is assumed of deep-thinking operations. `DaemonLink.FairSpec`: sockets, timers and probes go on; no
process need be spawned, print or end. `ConversationLifecycle` states none.

## 4. Proofs

TLAPS proves, for all values of the constants:

- `SessionQueueProofs`: `Invariance` (`Spec => []IInv`), and from it
  `TypeCorrect`, `NeverStranded` (`NoLostWakeup`), `CurrentNeverStale`
  (`CurrentIsLive`), `BacklogSound` (`BacklogShape`, `BacklogBounded`,
  `NothingLost`), `DeliveredAtMostOnce` (`AtMostOnce`) and `DropSticks`
  (`DroppedStaysDropped`).
- `ApprovalCoordinatorProofs`: `Invariance`, and from it `TypeCorrect`,
  `NeverAllowedUnasked` (`FailClosed`), `WaitersAreKnown` (`WaitedForIsKnown`),
  `EveryReviewEnds` (`PendingIsArmed`), `SnapshotFollowsMap`
  (`SnapshotCurrent`). Also `ImplementsReview` (`FirstRulingCounts`), for a
  process that is not killed and whose writes succeed (`MaxCrashes = 0`,
  `MaxFaults = 0`), with any requests, timeouts and decisions, and
  `LogIsFaithful` (`AuditFaithful`).
- `AutoRotationProofs`: `Invariance`, and from it `TypeCorrect`,
  `QueuedSurvives` (`NothingLost`), `SentOnce` (`AtMostOnce`), `Single`
  (`OneOfEach`) and `TurnsFinish` (`NoTurnCut`), for any messages and any number
  of sessions, failures and deletions.
- `AutomationsProofs`: `Invariance`, and from it `TypeCorrect`,
  `RunsAreCounted` (`RunsCounted`), `NotForgotten` (`ActiveHasJob`) and
  `DecisionsStand` (`UserDecides`), for any limit and any number of requests,
  runs, failures and crashes.
- `ChannelDeliveryProofs`: `Invariance`, and from it `TypeCorrect`,
  `DeliversAlone` (`OneDelivery`), `DeliveredOnce` (`AtMostOnce`) and
  `DuplicateWasTaken` (`NoFalseDuplicate`), for any number of calls.
- `DurableFileLockProofs`: `Invariance`, and from it `TypeCorrect`, `Exclusive`
  (`ExclusiveUnlessWrong`), `NothingLeftOver` (`NoLeftover`) and
  `CollisionsNeedTwo` (`OnlyBreakersCollide`), for any processes and writers.
- `ConversationLifecycleProofs`: `Invariance`, and from it `TypeCorrect`,
  `NotLeftStarting` (`StartingIsOwned`) and `OnlyStartRevives`
  (`StoppedSticks`); then `EndsAsAsked` (`RestsAsAsked`) and `CommanderFollows`
  (`FollowsConversation`); for any number of requests of every kind.
- `DaemonLinkProofs`: `TypeCorrect`, `SidesStayAgreed` (`SidesAgree`) and
  `OneMessageOnePlace` (`EachInOnePlace`), for any processes, connections, breaks
  and restarts.

They assume only the named `ASSUME`s of the modules: `Prio` is a function into
the priorities, the limit is a positive number, the provider is one of the two,
hooks survive a reload, null values are not members of the sets they stand
beside (nor is a message a session number, or the scheduler an execution), every
writer has a process, a link has finitely many processes, bounds are
numbers.

**The invariant of a session.** `NoLostWakeup` is not inductive: a turn end that
overtakes a Codex dispatch leaves no turn to come, and the answer may still be
"busy". `WakeupInv` says what makes it safe. A turn is *owed* (`TurnOwed`) when
the agent has work, or a Codex dispatch is in flight that no turn end has
overtaken; such a dispatch ends in an acceptance, which brings a turn end, or
in a refusal by an agent that is at work. Then: a running turn is owed; a
current message is one whose turn is owed, dispatched and not overtaken; and a
backlog has a drain, a timer or an owed turn. `DispatchInv` ties `status` and
`copies` to the drain's message, which gives `AtMostOnce`. There is one lemma
per action; the facts about lists (insertion keeps the order and the contents,
removal by id removes exactly one) are lemmas at the head of the module, cited by
name.

**The invariant of an approval.** The promises are about a client that sees the
map, the map is rebuilt from the file, and decisions wait in jobs; so the
strengthening says of each of those what the promise needs. `RulingsSound`: a
resolution in the map or on disk was posted or is the timeout's after the
deadline. `JobsSound`: so is a decision in a job, an enqueue job's client is
still posting, a wait job's is registering, a delivery's has heard; no client
has two jobs of the first kinds. `RunningSound`: what the job that runs has
already done to the map, and that after the snapshot the file equals it.
`ClientsSound`: a hook that polls is on disk (it may meet the next process), a
gate exists only in a process that has loaded. `Restart` then keeps everything
because it only throws away what no surviving client refers to.

**The refinement.** Every action of the coordinator is a step of the review or
none. `RuledSound` is what that takes: what is pending was not ruled on, what is
resolved has the ruling that was applied, and a request is in the map only when
its client asked for it. A crash in the middle of a write would bring back a
pending approval that was ruled on, which is why the theorem is about a process
that lives on.

**The audit log.** A ruling gets its row when the job that applied it ends, and
the row its mark when the delivery that the answer queued does. `RowSound` and
`HeardSound` say that the log is behind what a client heard by exactly the jobs
still in the queue, the one that runs included; with the queue empty it is behind
by nothing. It stands on the refinement's `RuledSound`: one ruling for a request.

**The invariant of a rotation.** `OneOfEach` is not inductive: a caller that
finds a due session without a registered rotation makes one of its own, and
nothing in the state forbids a second. `DueIsRegistered` does: a turn end that
makes a session due registers a rotation in the same run, and one that settles
registers the next, so a due live session always has one and nobody starts
another (`OneRotation`). Whoever resumes after the await therefore has the live
session in hand (`ResumesOnLive`). `BacklogIsQueued` is behind
`NothingLost` and `AtMostOnce`: the backlog of the live session, or of the one
being replaced while the name is gone, holds every message said to be queued, and
besides only late ones.
`NoTurnCut` needs that nobody can resume while a replacement is being made
(`CalmCreating`) and that a session just made is not due (`CalmSettling`), both
only before the first failure.

**The invariant of an automation.** `Books` ties each execution's phase to the one
mutation it has in the FIFO; `OneRun`, that there is one execution, makes the
limit checked at its start hold until its entry is counted (`RoomLeft`), which is
why checking early and counting late does not exceed it. A patched limit is why
both are about `cap`: it grows with the limit and never shrinks. `CalmSoFar` describes
the FIFO before anything has failed: no run updates a status but to complete the
series, and where an active automation has no job a delete is on its way.

**The invariant of a delivery.** `HolderIsFirst`: a call that delivers or claims
found no live entry, and none can appear while it is the one in the map. So
deliveries, with the operations that may still become some, exceed the excuses by
one at most, and by one only while the entry is live or the claim is on its way
(`Counted`); and whatever says "delivered" (an entry, a claim, a duplicate) has
behind it a delivery, or an operation that runs or was given up
(`ClaimedWasDelivered`).

**The invariant of the lock.** A lock is judged dead only when its writer has
ended, unless reading it failed, and a writer that has ended does not come back
(`JudgedIsDead`); so as long as nobody has removed a lock it had not judged, the
file of whoever creates or holds the lock is the one at the path
(`OwnerHasFile`), and there is one such file. The file at the path is that of a
writer that creates it, holds it, or has ended (`LockOwner`), and one that ended
in a live process is the one whose removal failed (`LeftByFailure`): this is
`NoLeftover`.

What it takes to remove a wrong lock rests on the chain of promise tails. In each
living process the writers that have not ended form a queue (`Queues`): the last
is the tail, each waits for the one before it, and only the first is at its turn;
so the lock a writer meets is another process's, or one that was left by a
failure. A writer that judged a lock
which is no longer there was overtaken by a rival, a writer of another process that
judged the same lock (`SeenOrRemoved`), and so a wrong removal has two rivals, or
a failed reading, behind it (`WrongHasRivals`).

**The invariant of a conversation.** `Owned`: while the overlay says starting, its
owner is a bootstrap under way that remembers the overlay's generation, and each
of its ways out (completed, cancelled, failed) takes that generation out of
starting. Bootstraps that share a generation do no harm here: the other one can
only clear the overlay earlier. `ByStart` says that the states in which a step
may take the commander out of stopped belong to requests of that kind.

`RestsAsAsked` and `FollowsConversation` speak of the moment when all requests are
done; `Orderly` is what holds on the way there, as long as the conversation did
not go `astray`. Generations of bootstraps differ (`Bootstraps`), so one that has
not activated the conversation has the overlay, and there is only one such
(`InOverlay`): nobody else creates a session between its drop and its creation
(`OneSession`). After a pause or an archive a session that is left is about to be
dropped, by the request or by the bootstrap, which has been told and will look
(`Ending`). The commander's state agrees with the conversation's, or a request
that changed what it is derived from is at a step that derives it again
(`Derives`); queued updates are those of such requests (`Queued`), so applying one
late, in whatever order, is followed by a derivation. `Beats` says that a session
has its loop, will get it from a request that is at such a step (`Looping`), is
about to go, or was `robbed` of it; that no heartbeat in flight saw a stopped
commander; and that one which is about to stop its own loop belongs to a session
that went. `Named` says that a loop's name is used once, so that a heartbeat which
finds another loop than its own is told apart from one which finds its own.

**The invariant of a link.** Commands wait only in the queue of the daemon's
active socket, and the daemon connects again only when it has let the last one go
(`Sockets`), so commands are never overtaken by those of another connection. A
process is spawned once and is `Quiet` before that: it does not run and nothing of
it has been sent; and a spawn whose entry is gone has its kill behind it in the
queue, or the kill is lost, or a restart left the process unattached
(`KillFollows`). This carries `SidesAgree` over the
moment when the daemon obeys the spawn. Messages are followed from the buffer to
the network to the losses (`Somewhere`): a news of an end leaves these only by
taking the entry away.

`EachInOnePlace` counts the places of a message, a queue and a position in it, so
that it says of every message that it is in one. Behind it, no queue holds a
message twice and no two hold the same (`Apart`); output is numbered as it is
printed and a child has sent exactly the numbers so far (`Counted`), so what is
printed next is new. Nothing is lost while no connection broke or was revoked
because the daemon then talks over one open connection, the server's own, to
processes the server knows, and says of each that it ended after all it printed
while it ran (`Calm`); what is drained from its pipes behind that (`Drained`) is
the exception the property makes.

TLC checks the session's `IInv` as an invariant (`session_codex`); the other
invariants were checked by TLC on the instances above (`Orderly` also with four
requests, the link's also with two processes) before they were proved.

Only model-checked: the liveness properties (`QueuedIsSettled`,
`AnsweredAndForgotten`, `MovesOn`, `RunsEnd`, `EveryCallAnswered`, `WritersEnd`,
`Reconnects`), as liveness under fairness and `ENABLED` are outside the prover;
and the refinement `ServesByBands`. That one is about `SelectSeq` and `SortSeq`
of lists of any length: what these recursive operators compute takes an induction
over the list, and the library's induction theorems take an operator as a
parameter, which the installed provers cannot instantiate. Every safety property
of the other passing runs has its theorem.

## 5. Findings and observations

Finding (`approval_torn`): `writeJsonFile` (`policies/shared.ts:262-265`)
overwrites `pending.json` in place. A kill in the middle leaves a file that does
not parse. `readJsonFile` forgives a missing file only, so `ensureLoaded` of the
next process rejects for good; the first check, poll or decision rejects
unhandled and the process exits, and so does its successor. The tests promise
that pending approvals are restart-safe
(`policies/__tests__/routes.test.ts:1474`). `durable-file.ts` has the atomic
write that would avoid it. In the run: a check enqueues, its snapshot is
written, a second write is killed halfway, the hook sleeps through the restart,
and the new process cannot load.

Observed while modelling. Each is behaviour of the models here, where the
properties leave room for it and say so.

Approvals:

- Deciding about an approval that is already resolved, but not yet fetched,
  answers `ok` with the decision that was ignored (`pending-store.ts:708`).
- Audit rows of gates stay `delivered: false`: only a poll marks them
  (`AuditFaithful` says so).
- A gate's approval that is resolved between its enqueue and its wait stays in
  the map and the snapshot for good, as no poll will fetch it. `Forgotten` is
  about hooks for this reason.
- Approvals of Gemini, OpenCode and channel replies are written to the snapshot
  and dropped when it is read (`normalizePendingApproval`,
  `pending-store.ts:130`). No client survives to miss them.

Rotation and queue:

- `POST /sessions/:name/message?queue=true` looks the session up, awaits the
  workspace context of the text, and queues into the object it looked up
  (`session-control-routes.ts:198-240`). A rotation that completes meanwhile has
  copied the backlog already: the message is answered 202, and the retired object's
  drains return at once (`queue-runtime.ts:376`), so it is never sent. If the object
  was deleted in the middle of its rotation, the late message may come back with
  the backlog that is copied to the replacement. `NothingLost` and `MovesOn` are
  about messages put into the session of the map; the others are `late`.
- A session deleted while its replacement is being created comes back:
  `rotateStreamSessionIfNeeded` puts the replacement under the name without
  looking whether the name is still there (`auto-rotation.ts:204`).
- After a failed rotation a drain or a send that waited for it starts a turn on
  the old session, and the next rotation, made by a second waiter, tears it down
  in mid-turn. `NoTurnCut` holds without failures only.

Automations:

- A failed run writes back the status it read when it started
  (`executor.ts:439`): a pause made during the run is undone, and the job is not
  registered again, since that update goes past the scheduler.
- A PATCH may take the schedule of an active automation away: it stays active, on
  trigger `schedule`, without a job (`routes.ts:575-581`, `scheduler.ts:248`), until
  a later one restores it. A schedule patched without a trigger is not validated
  (`scheduler.ts:139`); what node-cron makes of a wrong one is not modelled.
- A delete stops the job before the file is removed; if the removal fails, the
  automation stays active without a job until the next restart.
- A file torn by a kill is dropped at the next load (`store.ts:637`), and the
  automation with it.

Channels:

- A ledger file torn by a kill is never repaired: `has` reads no entry, `claim`
  meets an existing file. Every later call with that id is delivered again.
- A message that asks for deep thinking is answered ok, and its id claimed, when
  its operation has only been scheduled (`conversation-runtime.ts:1351-1390`,
  `register-channels.ts:439-444`). A newer such message of the conversation aborts it
  (1119-1123), a worker may fail or time out (1281-1301), a crash ends it; the
  provider's retry is then answered "duplicate" of a message nobody got.
  `NoFalseDuplicate` makes this exception and no other.

Lock:

- Two processes that have both judged the lock of a dead third one can both
  hold it: the second `rm` removes, by path, the lock the first has created
  since (`durable-file.ts:266`). And a lock whose reading fails is taken for
  malformed (83-100) and, when it is older than `staleMs`, broken although its
  holder lives. `ExclusiveUnlessWrong` and `OnlyBreakersCollide` say that these are
  the only ways.
- `removeLockIfOwned` swallows a failing read or `rm` of the own lock (120-131), and
  `create` a failing `rm` after a failed write (226). The lock stays, its process
  lives, and every later writer of any process is refused until that process ends.
  `NoLeftover` says that there is no other way to leave one.
- `FailWrite`: the `rm` after a failed write does not look whose file it removes.
  The store's mutations pass no `staleMs`, so an empty lock file left by a kill
  refuses every later writer. `isPidAlive` looks at neither the host nor the
  possibility of a reused process id.

Conversations:

- A bootstrap's generation starts again at 1 when the overlay is gone
  (`conversation-runtime-state.ts:29`). With two bootstraps of one generation,
  the failure of the first marks the second, a pause then cancels neither, and the
  session comes up after the pause (`astray`).
- Pause looks at the status before its update is queued; behind an archive it
  takes the conversation out of the archive (`register-conversations.ts:1080`,
  whose comment says it must not). The session is gone all the same.
- A failing start sets `idle` over `archived`; a message that was delivered after a
  pause sets `active` without a session.
- `POST /:id/stop` of a commander stops the conversations' sessions but cancels no
  bootstrap (`register-core.ts:2129`): the session that comes up afterwards runs
  under a stopped commander.
- A channel's message and the commander's own start go past the overlay. Two
  commander starts replace each other's session and leave a process nobody can
  reach; a channel's start whose creation fails has removed the session of the
  start it raced with. `RestsAsAsked` and `FollowsConversation` leave both out.
- A start while a cancel is pending is answered 202 and ends idle.
- A heartbeat that found no session awaits its entry in the heartbeat log and then
  stops the conversation's loop (`routes/context.ts:1249-1257`,
  `heartbeat.ts:302-303`). If the conversation was started anew meanwhile, it is the
  new loop that stops: a live session under a running commander has no heartbeat
  until something starts a loop again. `FollowsConversation` excepts it (`robbed`).

Daemons:

- The hello waits for the provider probes, and only then is the buffer flushed.
  What a child prints meanwhile overtakes the buffered output; an exit that
  overtakes makes the server forget the process and drop that output.
- Node emits a child's `exit` before its pipes have ended, and the daemon sends both
  as they come (`daemon.ts:487-518`); the server forgets the process at its exit
  (`registry.ts:503-512`) and drops what follows, on a sound connection too. The
  Claude adapter knows this order for its local children
  (`adapters/claude/session.ts:482-491`). `EachInOnePlace` excepts this output.
- After a restart of the server, daemon processes that are not attached run on
  without an entry or a kill: terminals (`registry.ts:340`), those of Codex, Gemini
  and OpenCode, which only ever spawn (`adapters/codex/process.ts:235`,
  `launchers/runtimes.ts:321, 726`), those of sessions that are not persisted
  (`persistence.ts:199-205`). A restored process has no request, so a
  `spawned` that comes late is dropped (`registry.ts:465`). `SidesAgree` excepts the
  former (`unattached`).
- Messages in a connection that breaks or is superseded are lost, exits
  included: the session then waits for a process that is gone.
- A spawn that is lost with its connection, or thrown on a closing socket, leaves
  an entry that nothing removes (`registry.ts:321`).
- Revoking a pairing while no connection is open leaves the agents running; an
  upgrade that read the registry before the revocation is attached after it.

## 6. Plan

Modelled so far: the session queue and its rotation, approvals, automations,
channel messages, the lock, conversations with their commander, and the daemon
link; proved: all their safety properties but the refinement of the bands. Next,
in this order:

1. `SessionRestore`: the persisted queue. A restart restores the current message
   without scheduling a drain (`persistence.ts:431`), and later drains decline
   while it is current.
2. `CodexWatchdog`: reading the thread and acting on the answer, against turns
   that end or begin meanwhile (`provider-runtime.ts:405`).
3. `QuestStore` (claims, the event after the write), `TransportTickets`,
   `RealtimeProxy`, and the policy resolver as a function against a reference
   definition.
4. The composition of `SessionQueue` and `AutoRotation` in one module.
5. Proofs: that sending and draining in `AutoRotation` keep the promises of
   `SessionQueue` across a replacement, with the composition; lemmas about
   `SelectSeq` by the least-counterexample principle, for `ServesByBands`.

## 7. Not modelled

The project keeps to a dozen runs and some forty properties, each on a question
that is hard to test; a module is added when it has one. By far the largest part
of the repository has none: the web client, the messaging adapters, event
normalizers and transcripts (sequential translations), machine setup and
provider authentication, provider RPC framing and process spawning, and
request-response stores such as org, operators, settings and skills have no
protocol of their own. Sentinels are the predecessor of automations, with the
same machinery. `PROJECT.json` gives the reason for each part.

Of the parts that are modelled, `PROJECT.json` names what each module leaves out:
among them stdin, resizing and a restart of the daemon itself; provider swaps and
deletion of conversations; creation of automations and their quest filters; the
atomic rewrite behind the lock; the Gemini and OpenCode adapters.
