-------------------------- MODULE ApprovalCoordinator --------------------------
(***************************************************************************)
(* Approvals of agent actions: modules/policies/pending-store.ts, with its *)
(* two kinds of clients.  A hook (claude-approval-hook.mjs) posts a check  *)
(* and then polls the routes of policies/routes.ts from a process of its   *)
(* own; a gate (ActionPolicyGate.enforceAndWait, for the other providers)  *)
(* awaits the decision inside the server.                                  *)
(*                                                                         *)
(* Everything that changes an approval runs through serializeMutation, a   *)
(* FIFO of jobs: a job changes the maps, then awaits the snapshot's write, *)
(* then the audit log's.  Polls read the maps between those steps.         *)
(* A write that fails rejects its job.  Nobody but the gate's callers      *)
(* catches that, and server/index.ts exits on an unhandled rejection.      *)
(***************************************************************************)
EXTENDS Naturals, FiniteSets, SequencesExt

CONSTANTS Ids,         \* requests for approval
          Hooks,       \* the requests of hooks; the others are gates'
          Reloadable,  \* requests whose source survives a reload
          Timeout,     \* the timeoutAction of each request
          MaxDecisions, \* bound: posts to /approval/decide
          MaxCrashes,  \* bound: kills of the server
          MaxFaults    \* bound: writes that fail

Decisions == {"approve", "reject"}

ASSUME HooksAssumption == Hooks \subseteq Reloadable /\ Reloadable \subseteq Ids
ASSUME TimeoutAssumption == Timeout \in [Ids -> Decisions]
ASSUME BoundsAssumption == MaxDecisions \in Nat /\ MaxCrashes \in Nat
                            /\ MaxFaults \in Nat

VARIABLES
  client,    \* how far the client of each request has come
  approvals, \* the approvals map: "none", "pending" or the resolution
  timers,    \* timeoutTimers
  loaded,    \* "no", "yes", or "failed": initPromise rejected
  jobs,      \* mutationQueue; the head is the job that runs
  phase,     \* of the head: "start", "persist" or "audit"
  file,      \* the snapshot on disk
  torn,      \* the snapshot was truncated and not rewritten
  audit,     \* the approval.resolved rows of each request
  due,       \* requests whose expiresAt has passed
  asked,     \* what the operator posted to /approval/decide
  verdict,   \* history: the ruling last applied to each request
  crashes, faults

vars == <<client, approvals, timers, loaded, jobs, phase, file, torn, audit,
          due, asked, verdict, crashes, faults>>
diskVars == <<file, torn, audit>>
boundVars == <<crashes, faults>>
mapVars == <<approvals, timers, verdict>>
worldVars == <<due, asked>>

Resolvers == {"operator", "timer", "poll"}
Terminal == {"allow", "deny", "closed"}
AnswerFor(d) == IF d = "approve" THEN "allow" ELSE "deny"

Job(kind, id, d) == [kind |-> kind, id |-> id, decision |-> d]

Init ==
  /\ client = [id \in Ids |-> "idle"]
  /\ approvals = [id \in Ids |-> "none"]
  /\ timers = {}
  /\ loaded = "no"
  /\ jobs = <<>> /\ phase = "start"
  /\ file = [id \in Ids |-> "none"] /\ torn = FALSE
  /\ audit = [id \in Ids |-> <<>>]
  /\ due = {} /\ asked = {}
  /\ verdict = [id \in Ids |-> "none"]
  /\ crashes = 0 /\ faults = 0

-----------------------------------------------------------------------------
(* POST /approval/check, or enforceAndWait, with a policy that says review *)
Request(id) ==
  /\ client[id] = "idle"
  /\ client' = [client EXCEPT ![id] = "posting"]
  /\ jobs' = Append(jobs, Job("enqueue", id, "none"))
  /\ UNCHANGED <<mapVars, loaded, phase, diskVars, worldVars, boundVars>>

(* Mutant: a reload that keeps only what is still pending.                 *)
LoadPendingOnly ==
  /\ loaded = "no"
  /\ IF torn
     THEN loaded' = "failed" /\ UNCHANGED <<approvals, timers>>
     ELSE /\ loaded' = "yes"
          /\ timers' = { id \in Reloadable : file[id] = "pending" }
          /\ approvals' = [id \in Ids |->
                             IF id \in timers' THEN "pending" ELSE "none"]
  /\ UNCHANGED <<client, verdict, jobs, phase, diskVars, worldVars, boundVars>>

(* Mutant: a reload that forgets initializeTimeouts.                       *)
LoadUnarmed ==
  /\ loaded = "no"
  /\ IF torn
     THEN loaded' = "failed" /\ UNCHANGED approvals
     ELSE /\ loaded' = "yes"
          /\ approvals' = [id \in Ids |->
                             IF id \in Reloadable THEN file[id] ELSE "none"]
  /\ UNCHANGED <<client, timers, verdict, jobs, phase, diskVars, worldVars,
                 boundVars>>

(* ensureLoaded with initializeTimeouts: the first operation of a process  *)
(* reads the snapshot; normalizePendingApproval drops unknown sources.     *)
Load ==
  /\ loaded = "no"
  /\ IF torn
     THEN loaded' = "failed" /\ UNCHANGED <<approvals, timers>>
     ELSE /\ loaded' = "yes"
          /\ approvals' = [id \in Ids |->
                             IF id \in Reloadable THEN file[id] ELSE "none"]
          /\ timers' = { id \in Reloadable : file[id] = "pending" }
  /\ UNCHANGED <<client, verdict, jobs, phase, diskVars, worldVars, boundVars>>

Running(kind) ==
  /\ loaded = "yes" /\ phase = "start"
  /\ jobs # <<>> /\ Head(jobs).kind = kind

(* Mutant: enqueue without scheduleTimeout.                                *)
StartEnqueueUnarmed ==
  LET id == Head(jobs).id IN
  /\ Running("enqueue")
  /\ approvals' = [approvals EXCEPT ![id] = "pending"]
  /\ phase' = "persist"
  /\ UNCHANGED <<client, timers, verdict, loaded, jobs, diskVars, worldVars,
                 boundVars>>

StartEnqueue ==
  LET id == Head(jobs).id IN
  /\ Running("enqueue")
  /\ approvals' = [approvals EXCEPT ![id] = "pending"]
  /\ timers' = timers \cup {id}
  /\ phase' = "persist"
  /\ UNCHANGED <<client, verdict, loaded, jobs, diskVars, worldVars, boundVars>>

(* waitForResolution: register, or return what is already known.  A        *)
(* missing approval counts as timed out.                                   *)
StartWait ==
  LET id == Head(jobs).id IN
  /\ Running("wait")
  /\ client' = [client EXCEPT ![id] =
       CASE approvals[id] = "pending" -> "waiting"
         [] approvals[id] = "none"    -> AnswerFor(Timeout[id])
         [] OTHER                     -> AnswerFor(approvals[id])]
  /\ jobs' = Tail(jobs)
  /\ UNCHANGED <<mapVars, loaded, phase, diskVars, worldVars, boundVars>>

(* The answer to a poll that had to resolve an expired approval first.     *)
PollReply(id) ==
  IF client[id] # "expiring" THEN UNCHANGED client /\ jobs' = Tail(jobs)
  ELSE IF approvals[id] \in Decisions
       THEN /\ client' = [client EXCEPT ![id] = AnswerFor(approvals[id])]
            /\ jobs' = Append(Tail(jobs), Job("delivered", id, "none"))
       ELSE /\ client' = [client EXCEPT ![id] = "closed"]
            /\ jobs' = Tail(jobs)

ReplyFor(job) ==
  IF job.kind = "poll" THEN PollReply(job.id)
  ELSE UNCHANGED client /\ jobs' = Tail(jobs)

(* Mutant: resolve without the early return for a resolved approval.       *)
StartResolveAgain ==
  \E kind \in Resolvers :
    /\ Running(kind)
    /\ LET id == Head(jobs).id
           d  == Head(jobs).decision
           waits == client[id] = "waiting"
       IN /\ approvals[id] # "none"
          /\ timers' = timers \ {id}
          /\ approvals' = [approvals EXCEPT ![id] = IF waits THEN "none" ELSE d]
          /\ client' = IF waits THEN [client EXCEPT ![id] = AnswerFor(d)]
                       ELSE client
          /\ verdict' = [verdict EXCEPT ![id] = d]
    /\ phase' = "persist"
    /\ UNCHANGED <<loaded, jobs, diskVars, worldVars, boundVars>>

(* Mutant: resolve forgets the approval though nobody was waiting yet.     *)
StartResolveForgets ==
  \E kind \in Resolvers :
    /\ Running(kind)
    /\ LET id == Head(jobs).id
           d  == Head(jobs).decision
           waits == client[id] = "waiting"
       IN /\ approvals[id] = "pending"
          /\ timers' = timers \ {id}
          /\ approvals' = [approvals EXCEPT ![id] = "none"]
          /\ client' = IF waits THEN [client EXCEPT ![id] = AnswerFor(d)]
                       ELSE client
          /\ verdict' = [verdict EXCEPT ![id] = d]
    /\ phase' = "persist"
    /\ UNCHANGED <<loaded, jobs, diskVars, worldVars, boundVars>>

(* resolve, of an approval that is pending: waiters hear it now and the    *)
(* approval is forgotten; without a waiter the resolution is kept.         *)
StartResolve ==
  \E kind \in Resolvers :
    /\ Running(kind)
    /\ LET id == Head(jobs).id
           d  == Head(jobs).decision
           waits == client[id] = "waiting"
       IN /\ approvals[id] = "pending"
          /\ timers' = timers \ {id}
          /\ approvals' = [approvals EXCEPT ![id] = IF waits THEN "none" ELSE d]
          /\ client' = IF waits THEN [client EXCEPT ![id] = AnswerFor(d)]
                       ELSE client
          /\ verdict' = [verdict EXCEPT ![id] = d]
    /\ phase' = "persist"
    /\ UNCHANGED <<loaded, jobs, diskVars, worldVars, boundVars>>

(* resolve, of an approval already resolved or gone: nothing is written.   *)
SkipResolve ==
  \E kind \in Resolvers :
    /\ Running(kind)
    /\ approvals[Head(jobs).id] # "pending"
    /\ ReplyFor(Head(jobs))
    /\ UNCHANGED <<mapVars, loaded, phase, diskVars, worldVars, boundVars>>

(* Mutant: markDelivered deletes the approval without a snapshot.          *)
StartDeliveredUnsaved ==
  LET id == Head(jobs).id IN
  /\ Running("delivered")
  /\ approvals' = [approvals EXCEPT ![id] = "none"]
  /\ timers' = timers \ {id}
  /\ jobs' = Tail(jobs)
  /\ UNCHANGED <<phase, client, verdict, loaded, diskVars, worldVars, boundVars>>

(* markDelivered: the hook's decision was sent; forget the approval.       *)
StartDelivered ==
  LET id == Head(jobs).id IN
  /\ Running("delivered")
  /\ IF approvals[id] \in Decisions
     THEN /\ approvals' = [approvals EXCEPT ![id] = "none"]
          /\ timers' = timers \ {id}
          /\ phase' = "persist"
          /\ UNCHANGED jobs
     ELSE jobs' = Tail(jobs) /\ UNCHANGED <<approvals, timers, phase>>
  /\ UNCHANGED <<client, verdict, loaded, diskVars, worldVars, boundVars>>

(* persistSnapshot succeeds: the file holds the whole map.                 *)
Persist ==
  /\ phase = "persist"
  /\ file' = approvals /\ torn' = FALSE
  /\ phase' = "audit"
  /\ UNCHANGED <<client, mapVars, loaded, jobs, audit, worldVars, boundVars>>

(* updateAuditDelivered: the last row not yet marked.                      *)
MarkRow(rows) ==
  LET open == { k \in DOMAIN rows : ~rows[k].delivered } IN
  IF open = {} THEN rows ELSE [rows EXCEPT ![Max(open)].delivered = TRUE]

(* The audit row is written and the job's promise resolves: the POST is    *)
(* answered with "pending", the gate goes on to wait, the poll is answered *)
Audit ==
  LET job == Head(jobs)
      id  == job.id
  IN
  /\ phase = "audit"
  /\ phase' = "start"
  /\ CASE job.kind = "enqueue" /\ id \in Hooks ->
            /\ client' = IF client[id] = "posting"
                         THEN [client EXCEPT ![id] = "polling"] ELSE client
            /\ jobs' = Tail(jobs)
            /\ UNCHANGED audit
       [] job.kind = "enqueue" /\ id \notin Hooks ->
            /\ client' = [client EXCEPT ![id] = "registering"]
            /\ jobs' = Append(Tail(jobs), Job("wait", id, "none"))
            /\ UNCHANGED audit
       [] job.kind \in Resolvers ->
            /\ audit' = [audit EXCEPT ![id] =
                 Append(@, [decision |-> job.decision, delivered |-> FALSE])]
            /\ ReplyFor(job)
       [] OTHER ->
            /\ audit' = [audit EXCEPT ![id] = MarkRow(@)]
            /\ jobs' = Tail(jobs)
            /\ UNCHANGED client
  /\ UNCHANGED <<mapVars, loaded, file, torn, worldVars, boundVars>>

-----------------------------------------------------------------------------
(* expiresAt passes, then the timer scheduled for it fires.                *)
Expire(id) ==
  /\ id \notin due
  /\ IF loaded = "yes" THEN approvals[id] = "pending" ELSE file[id] = "pending"
  /\ due' = due \cup {id}
  /\ UNCHANGED <<client, mapVars, loaded, jobs, phase, diskVars, asked, boundVars>>

TimerFires(id) ==
  /\ id \in timers /\ id \in due
  /\ timers' = timers \ {id}
  /\ jobs' = Append(jobs, Job("timer", id, Timeout[id]))
  /\ UNCHANGED <<client, approvals, verdict, loaded, phase, diskVars, worldVars,
                 boundVars>>

(* POST /approval/decide.  The list and the pending stream show an         *)
(* approval as soon as it is in the map; a stale page still has it later.  *)
OperatorDecides(id, d) ==
  /\ <<id, d>> \notin asked /\ Cardinality(asked) < MaxDecisions
  /\ approvals[id] # "none" \/ client[id] \notin {"idle", "posting"}
  /\ asked' = asked \cup {<<id, d>>}
  /\ jobs' = Append(jobs, Job("operator", id, d))
  /\ UNCHANGED <<client, mapVars, loaded, phase, diskVars, due, boundVars>>

(* Mutant: the poll's answer does not mark the approval delivered.         *)
PollUndelivered(id) ==
  /\ client[id] = "polling" /\ loaded = "yes"
  /\ \/ /\ approvals[id] # "pending"
        /\ client' = [client EXCEPT ![id] =
             IF approvals[id] = "none" THEN "closed" ELSE AnswerFor(approvals[id])]
        /\ UNCHANGED jobs
     \/ /\ approvals[id] = "pending" /\ id \in due
        /\ client' = [client EXCEPT ![id] = "expiring"]
        /\ jobs' = Append(jobs, Job("poll", id, Timeout[id]))
  /\ UNCHANGED <<mapVars, loaded, phase, diskVars, worldVars, boundVars>>

(* GET /approval/check/:id, a hook's poll (one that finds the approval     *)
(* pending does nothing): resolved; expired before its timer fired, so the *)
(* poll resolves it; or unknown: 404, the hook fails closed.               *)
Poll(id) ==
  /\ client[id] = "polling" /\ loaded = "yes"
  /\ \/ /\ approvals[id] # "pending"
        /\ client' = [client EXCEPT ![id] =
             IF approvals[id] = "none" THEN "closed" ELSE AnswerFor(approvals[id])]
        /\ jobs' = IF approvals[id] = "none" THEN jobs
                   ELSE Append(jobs, Job("delivered", id, "none"))
     \/ /\ approvals[id] = "pending" /\ id \in due
        /\ client' = [client EXCEPT ![id] = "expiring"]
        /\ jobs' = Append(jobs, Job("poll", id, Timeout[id]))
  /\ UNCHANGED <<mapVars, loaded, phase, diskVars, worldVars, boundVars>>

(* The hook's own deadline, or its process is killed: it fails closed.     *)
GiveUp(id) ==
  /\ client[id] \in {"polling", "expiring"}
  /\ client' = [client EXCEPT ![id] = "closed"]
  /\ UNCHANGED <<mapVars, loaded, jobs, phase, diskVars, worldVars, boundVars>>

-----------------------------------------------------------------------------
(* The process is gone and a new one starts.  A hook between two polls may *)
(* sleep through it; all other clients see their request fail and block.   *)
Restart ==
  /\ loaded' = "no"
  /\ approvals' = [id \in Ids |-> "none"]
  /\ timers' = {}
  /\ jobs' = <<>> /\ phase' = "start"
  /\ \E asleep \in SUBSET { id \in Ids : client[id] = "polling" } :
       client' = [id \in Ids |->
                    IF id \in asleep \/ client[id] \in Terminal \cup {"idle"}
                    THEN client[id] ELSE "closed"]
  /\ UNCHANGED <<audit, worldVars, verdict>>

(* Killed, possibly in writeFile: the old, the new or half a snapshot.     *)
Crash ==
  /\ crashes < MaxCrashes
  /\ crashes' = crashes + 1
  /\ Restart
  /\ \/ UNCHANGED <<file, torn>>
     \/ phase = "persist" /\ file' = approvals /\ torn' = FALSE
     \/ phase = "persist" /\ torn' = TRUE /\ UNCHANGED file
  /\ UNCHANGED faults

(* A write fails: the gate catches the rejection of its enqueue and denies *)
(* the action; any other rejection is unhandled and the process exits.     *)
WriteFails ==
  /\ phase \in {"persist", "audit"}
  /\ faults < MaxFaults
  /\ faults' = faults + 1
  /\ \/ UNCHANGED torn
     \/ phase = "persist" /\ torn' = TRUE
  /\ LET job == Head(jobs) IN
     IF job.kind = "enqueue" /\ job.id \notin Hooks
     THEN /\ client' = [client EXCEPT ![job.id] = "closed"]
          /\ jobs' = Tail(jobs) /\ phase' = "start"
          /\ UNCHANGED <<mapVars, loaded, audit, worldVars>>
     ELSE Restart
  /\ UNCHANGED <<file, crashes>>

(* The snapshot cannot be parsed: every operation of this process rejects. *)
LoadFailed ==
  /\ loaded = "failed"
  /\ IF jobs # <<>> /\ Head(jobs).kind = "enqueue" /\ Head(jobs).id \notin Hooks
     THEN /\ client' = [client EXCEPT ![Head(jobs).id] = "closed"]
          /\ jobs' = Tail(jobs)
          /\ UNCHANGED <<mapVars, loaded, phase, audit, worldVars>>
     ELSE Restart
  /\ UNCHANGED <<file, torn, boundVars>>

StartJob == \/ StartEnqueue \/ StartWait \/ StartResolve \/ SkipResolve
            \/ StartDelivered

Next ==
  \/ Load \/ StartJob \/ Persist \/ Audit
  \/ Crash \/ WriteFails \/ LoadFailed
  \/ \E id \in Ids :
       \/ Request(id) \/ Expire(id) \/ TimerFires(id)
       \/ Poll(id) \/ GiveUp(id)
       \/ \E d \in Decisions : OperatorDecides(id, d)

Spec == Init /\ [][Next]_vars

(* I/O completes, time passes, timers fire, hooks keep polling; nothing is *)
(* assumed of operators.                                                   *)
FairSpec ==
  /\ Spec
  /\ WF_vars(Load) /\ WF_vars(StartJob) /\ WF_vars(Persist) /\ WF_vars(Audit)
  /\ \A id \in Ids : WF_vars(Expire(id)) /\ WF_vars(TimerFires(id))
                     /\ WF_vars(Poll(id))
-----------------------------------------------------------------------------
ClientStates == {"idle", "posting", "polling", "expiring", "registering",
                 "waiting"} \cup Terminal
Entries == {"none", "pending"} \cup Decisions
Jobs == [kind : Resolvers \cup {"enqueue", "wait", "delivered"}, id : Ids,
         decision : Decisions \cup {"none"}]

(* Types, and what each job kind carries.                                  *)
TypeOK ==
  /\ client \in [Ids -> ClientStates]
  /\ approvals \in [Ids -> Entries] /\ file \in [Ids -> Entries]
  /\ timers \subseteq Ids /\ due \subseteq Ids
  /\ loaded \in {"no", "yes", "failed"}
  /\ jobs \in Seq(Jobs)
  /\ phase \in {"start", "persist", "audit"}
  /\ phase # "start" => loaded = "yes" /\ jobs # <<>>
  /\ torn \in BOOLEAN
  /\ audit \in [Ids -> Seq([decision : Decisions, delivered : BOOLEAN])]
  /\ asked \subseteq Ids \X Decisions
  /\ verdict \in [Ids -> Decisions \cup {"none"}]
  /\ crashes \in 0..MaxCrashes /\ faults \in 0..MaxFaults

(* An operator asked for d, or d is the timeout's and the time is over.    *)
Justified(id, d) == <<id, d>> \in asked \/ (d = Timeout[id] /\ id \in due)

(* The client of a request is told "allow" only if a person approved it,   *)
(* or its deadline passed and the settings approve then; "deny" likewise.  *)
(* No crash, restart, write failure or missing approval (StartWait answers *)
(* that with the timeout's action) makes up an answer.                     *)
FailClosed ==
  \A id \in Ids :
    /\ client[id] = "allow" => Justified(id, "approve")
    /\ client[id] = "deny"  => Justified(id, "reject")

(* A client that waits is known to the coordinator, across restarts: its   *)
(* poll is not answered with 404, its wait does not find it missing.       *)
WaitedForIsKnown ==
  loaded = "yes" =>
    \A id \in Ids :
      /\ client[id] \in {"polling", "expiring", "registering"} => approvals[id] # "none"
      /\ client[id] = "waiting" => approvals[id] = "pending"

(* A pending approval has a timer, or a job that will resolve it: a review *)
(* that nobody attends to cannot hang its agent.                           *)
PendingIsArmed ==
  loaded = "yes" =>
    \A id \in Ids : approvals[id] = "pending" =>
      id \in timers \/ \E job \in Range(jobs) : job.kind \in Resolvers /\ job.id = id

(* Unless a job is writing it, the snapshot says what the map says.        *)
SnapshotCurrent ==
  loaded = "yes" /\ phase # "persist" /\ faults = 0 =>
    ~torn /\ \A id \in Reloadable : file[id] = approvals[id]

(* The inductive strengthening of the invariants above.  Rulings in the    *)
(* map, on disk and in jobs are justified; a job knows how far its client  *)
(* is, and no client has two of a kind; a hook that polls is on disk.      *)
RulingsSound ==
  \A id \in Ids, d \in Decisions :
    approvals[id] = d \/ file[id] = d => Justified(id, d)

JobSound(job) ==
  /\ job.kind \in Resolvers => job.decision \in Decisions
                               /\ Justified(job.id, job.decision)
  /\ job.kind = "enqueue" => client[job.id] = "posting"
  /\ job.kind = "wait" => client[job.id] = "registering"
  /\ job.kind = "delivered" => job.id \in Hooks /\ client[job.id] \in Terminal

OnePerClient(q) ==
  \A k, l \in DOMAIN q :
    q[k].kind \in {"enqueue", "wait"} /\ q[k].kind = q[l].kind /\ q[k].id = q[l].id
      => k = l

JobsSound == (\A job \in Range(jobs) : JobSound(job)) /\ OnePerClient(jobs)

RunningSound ==
  /\ phase # "start" /\ Head(jobs).kind = "enqueue" => approvals[Head(jobs).id] = "pending"
  /\ phase # "start" /\ Head(jobs).kind \in Resolvers => approvals[Head(jobs).id] # "pending"
  /\ phase = "audit" => file = approvals /\ ~torn

ClientsSound ==
  \A id \in Ids :
    /\ client[id] \in {"polling", "expiring"} => id \in Hooks /\ (torn \/ file[id] # "none")
    /\ client[id] = "expiring" => loaded = "yes"
    /\ client[id] \in {"registering", "waiting"} => id \notin Hooks /\ loaded = "yes"

IInv == /\ TypeOK /\ FailClosed /\ WaitedForIsKnown /\ PendingIsArmed
        /\ SnapshotCurrent /\ RulingsSound /\ JobsSound /\ RunningSound
        /\ ClientsSound

(* While no process was lost, the audit log has one resolved row for each  *)
(* decision, the one the client heard, marked delivered once a hook got it *)
AuditFaithful ==
  crashes = 0 /\ faults = 0 =>
    \A id \in Ids :
      /\ Len(audit[id]) <= 1
      /\ client[id] \in {"allow", "deny"} /\ jobs = <<>> =>
           /\ Len(audit[id]) = 1
           /\ AnswerFor(audit[id][1].decision) = client[id]
           /\ audit[id][1].delivered = (id \in Hooks)

(* policies/__tests__/routes.test.ts:1474 "keeps pending approvals         *)
(* restart-safe across the polling route": a hook that sleeps through a    *)
(* restart meets a process that could read the snapshot.                   *)
RestartSafe == \A id \in Ids : client[id] = "polling" => loaded # "failed"

(* In a process that lives on, the coordinator is ApprovalReview: the      *)
(* first ruling counts, is never changed, and is the one the client hears. *)
Heard == [id \in Ids |-> CASE client[id] = "idle" -> "unasked"
                           [] client[id] \in Terminal -> client[id]
                           [] OTHER -> "asked"]
Review == INSTANCE ApprovalReview WITH answer <- Heard, verdict <- verdict
FirstRulingCounts == Review!Spec

(* Whoever asked for an approval is answered, or gives up; and a decision  *)
(* that a hook has heard is not kept in the map forever.                   *)
Answered == \A id \in Ids : client[id] = "posting" ~> client[id] \in Terminal
Forgotten == \A id \in Hooks :
               client[id] \in {"allow", "deny"} ~> approvals[id] = "none"
AnsweredAndForgotten == Answered /\ Forgotten
=============================================================================
