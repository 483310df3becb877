----------------------------- MODULE Automations -----------------------------
(***************************************************************************)
(* One automation: its record in memory and on disk (automations/store.ts, *)
(* whose mutations form one FIFO), its cron job (scheduler.ts) and its     *)
(* runs (executor.ts).  Records of different automations share nothing but *)
(* that FIFO.  An id is a random UUID: a deleted automation stays deleted. *)
(*                                                                         *)
(* A mutation is two steps, for the file is written between them; readers  *)
(* outside the FIFO see the record in memory.                              *)
(***************************************************************************)
EXTENDS Integers, Sequences, FiniteSets

CONSTANTS Gone, Torn,  \* no record; a file cut off by a crash
          MaxRuns,     \* automation.maxRuns at its creation; 0: unset
          Limits,      \* what a PATCH may set it to
          Slots,       \* executions that could be in flight
          MaxRequests, \* bound: requests of the user
          MaxTotal,    \* bound: executions started
          MaxFailures, \* bound: failed runs and failed writes
          MaxCrashes   \* bound: restarts of the server

ASSUME BoundsAssumption ==
  /\ MaxRuns \in Nat /\ Limits \subseteq Nat /\ MaxRequests \in Nat /\ MaxTotal \in Nat
  /\ MaxFailures \in Nat /\ MaxCrashes \in Nat

Statuses == {"active", "paused", "completed", "cancelled"}
Triggers == {"schedule", "quest"}
Schedules == {"cron", "none"}   \* an expression node-cron takes, or no schedule
Records == [trigger : Triggers, schedule : Schedules, status : Statuses,
            maxRuns : Nat, runs : Nat]

(* Null values are no records, and the scheduler is no slot.               *)
ASSUME NullsAssumption == /\ Gone # Torn /\ {Gone, Torn} \cap Records = {}
                          /\ "scheduler" \notin Slots

VARIABLES
  rec,       \* the record in the store's map
  file,      \* the same on disk
  ops,       \* the mutation FIFO
  writing,   \* the mutation at its head is at its file
  job,       \* the automation has an entry in activeJobs
  run,       \* the executions
  requests, started, failures, crashes, appended, \* counters
  cap        \* history: the highest maxRuns there was; 0: unset some time

vars == <<rec, file, ops, writing, job, run, requests, started, failures, crashes, appended, cap>>
counters == <<requests, started, failures, crashes>>

Idle == [phase |-> "idle", status |-> "active"]
Phases == {"idle", "running", "appending", "updating", "recording", "closing"}

Init ==
  /\ rec = [trigger |-> "schedule", schedule |-> "cron", status |-> "active",
            maxRuns |-> MaxRuns, runs |-> 0]
  /\ file = rec
  /\ ops = <<>> /\ writing = FALSE
  /\ job = TRUE
  /\ run = [s \in Slots |-> Idle]
  /\ requests = 0 /\ started = 0 /\ failures = 0 /\ crashes = 0 /\ appended = 0
  /\ cap = MaxRuns

Schedulable(r) == r # Gone /\ r.trigger = "schedule" /\ r.status = "active"
Exhausted(r) == r.maxRuns > 0 /\ r.runs >= r.maxRuns

(* registerJob, where a job is due: nothing without a schedule.            *)
Registers(r) == Schedulable(r) /\ r.schedule = "cron"

(* The mutations.  An update carries the fields to change; by says which   *)
(* code goes on after it: the scheduler ("scheduler") or the run of a slot.*)
Update(patch, by) == [kind |-> "update", patch |-> patch, by |-> by]
Append1(by) == [kind |-> "append", patch |-> <<>>, by |-> by]
Delete1 == [kind |-> "delete", patch |-> <<>>, by |-> "scheduler"]

StatusPatch(s) == [status |-> s]

(* A PATCH of the user: the status, the limit, or what starts the runs.    *)
Patches ==
  { StatusPatch(s) : s \in Statuses } \cup [maxRuns : Limits]
    \cup [trigger : Triggers] \cup [schedule : Schedules]
    \cup [trigger : Triggers, schedule : Schedules]

Patched(r, patch) ==
  [f \in DOMAIN r |-> IF f \in DOMAIN patch THEN patch[f] ELSE r[f]]

(* update, appendHistory and delete: what they make of the record.         *)
Applied(r, op) ==
  CASE op.kind = "update" -> Patched(r, op.patch)
    [] op.kind = "append" ->
         LET next == [r EXCEPT !.runs = @ + 1]
         IN  IF Exhausted(next) THEN [next EXCEPT !.status = "completed"] ELSE next
    [] op.kind = "delete" -> Gone

-----------------------------------------------------------------------------
(* The user's requests: updateAutomation and deleteAutomation, the latter  *)
(* without the job at once.                                                *)
Request(op) ==
  /\ requests < MaxRequests
  /\ requests' = requests + 1
  /\ ops' = Append(ops, op)
  /\ UNCHANGED <<rec, file, writing, run, started, failures, crashes, appended, cap>>

UpdateAutomation ==
  /\ \E patch \in Patches : Request(Update(patch, "scheduler"))
  /\ UNCHANGED job

DeleteAutomation == Request(Delete1) /\ job' = FALSE

(* executeAutomation: an execution in flight is joined, whatever its       *)
(* source; otherwise the record as it is now decides (mutant: no joining). *)
NeverInFlight == FALSE

InFlight == \E s \in Slots : run[s].phase # "idle"

Execute(source) ==
  /\ ~InFlight /\ rec # Gone
  /\ started < MaxTotal
  /\ IF source = "manual" THEN rec.status \in {"active", "paused"} ELSE rec.status = "active"
  /\ \E s \in Slots :
       \/ /\ Exhausted(rec)
          /\ run' = [run EXCEPT ![s] = [phase |-> "closing", status |-> rec.status]]
          /\ ops' = Append(ops, Update(StatusPatch("completed"), s))
          /\ UNCHANGED started
       \/ /\ ~Exhausted(rec)
          /\ run' = [run EXCEPT ![s] = [phase |-> "running", status |-> rec.status]]
          /\ started' = started + 1
          /\ UNCHANGED ops
  /\ UNCHANGED <<rec, file, writing, job, requests, failures, crashes, appended, cap>>

RunManually == Execute("manual")

(* handleQuestCompleted, for the automations with that trigger.            *)
QuestCompleted == rec # Gone /\ rec.trigger = "quest" /\ Execute("quest")

(* handleScheduledTick: an execution, or the end of the job.               *)
Tick ==
  /\ job
  /\ \/ /\ ~Schedulable(rec)
        /\ job' = FALSE
        /\ UNCHANGED <<rec, file, ops, writing, run, appended, cap, counters>>
     \/ /\ Schedulable(rec) /\ Exhausted(rec)
        /\ \A i \in 1..Len(ops) : ops[i].kind # "update"   \* bound
        /\ ops' = Append(ops, Update(StatusPatch("completed"), "scheduler"))
        /\ UNCHANGED <<rec, file, writing, job, run, appended, cap, counters>>
     \/ /\ Schedulable(rec) /\ ~Exhausted(rec)
        /\ Execute("schedule")

(* The session of the run ends well ...                                    *)
RunSucceeds(s) ==
  /\ run[s].phase = "running"
  /\ run' = [run EXCEPT ![s].phase = "appending"]
  /\ ops' = Append(ops, Append1(s))
  /\ UNCHANGED <<rec, file, writing, job, appended, cap, counters>>

(* ... or fails or times out: the status read when the run started is      *)
(* written back, then the history entry.                                   *)
RunFails(s) ==
  /\ run[s].phase = "running" /\ failures < MaxFailures
  /\ failures' = failures + 1
  /\ run' = [run EXCEPT ![s].phase = "updating"]
  /\ ops' = Append(ops, Update(StatusPatch(run[s].status), s))
  /\ UNCHANGED <<rec, file, writing, job, requests, started, crashes, appended, cap>>

(* ... or fails and leaves no trace: writeRunMetadata failed, too.         *)
RunUnrecorded(s) ==
  /\ run[s].phase = "running" /\ failures < MaxFailures
  /\ failures' = failures + 1
  /\ run' = [run EXCEPT ![s] = Idle]
  /\ UNCHANGED <<rec, file, ops, writing, job, requests, started, crashes, appended, cap>>

-----------------------------------------------------------------------------
(* Mutants: an update ends the job; a failed run forgets its entry.        *)
ContinueUnregisters(op, r, tail) ==
  /\ ops' = tail
  /\ job' = (job /\ op.by # "scheduler")
  /\ run' = [s \in Slots |-> IF op.by = s THEN Idle ELSE run[s]]

ContinueForgets(op, r, tail) ==
  /\ ops' = tail
  /\ job' = IF op.by = "scheduler" /\ op.kind = "update" /\ r # Gone THEN Registers(r) ELSE job
  /\ run' = [s \in Slots |->
              IF op.by # s THEN run[s]
              ELSE IF run[s].phase = "updating" THEN [run[s] EXCEPT !.phase = "recording"]
              ELSE Idle]

(* What follows a mutation, with the record it left (Gone: it found none). *)
Continue(op, r, tail) ==
  IF op.by = "scheduler"
    THEN /\ job' = IF op.kind = "update" /\ r # Gone THEN Registers(r) ELSE job
         /\ ops' = tail
         /\ UNCHANGED run
    ELSE /\ UNCHANGED job
         /\ IF run[op.by].phase = "updating"
              THEN /\ run' = [run EXCEPT ![op.by].phase = "recording"]
                   /\ ops' = Append(tail, Append1(op.by))
              ELSE /\ run' = [run EXCEPT ![op.by] = Idle]
                   /\ ops' = tail

(* writeAutomation begins, or rm.                                          *)
MutationBegins ==
  /\ ops # <<>> /\ ~writing /\ rec # Gone
  /\ writing' = TRUE
  /\ file' = IF Head(ops).kind = "delete" THEN Gone ELSE Torn
  /\ UNCHANGED <<rec, ops, job, run, appended, cap, counters>>

CapWith(limit) == IF cap = 0 \/ limit = 0 THEN 0 ELSE IF limit > cap THEN limit ELSE cap

(* The record is on disk; then the map has it.                             *)
MutationEnds ==
  LET op == Head(ops)
      next == Applied(rec, op)
  IN  /\ writing
      /\ writing' = FALSE
      /\ rec' = next /\ file' = next
      /\ appended' = IF op.kind = "append" THEN appended + 1 ELSE appended
      /\ cap' = IF next = Gone THEN cap ELSE CapWith(next.maxRuns)
      /\ Continue(op, next, Tail(ops))
      /\ UNCHANGED counters

(* The write or the removal fails, before the file is touched or after:    *)
(* the map keeps the record.  A run that could not record its success now  *)
(* records a failure.                                                      *)
MutationFails ==
  LET op == Head(ops)
  IN  /\ ops # <<>> /\ rec # Gone /\ failures < MaxFailures
      /\ writing' = FALSE
      /\ failures' = failures + 1
      /\ \/ /\ op.by = "scheduler"
            /\ ops' = Tail(ops)
            /\ UNCHANGED run
         \/ /\ op.by # "scheduler" /\ run[op.by].phase = "appending"
            /\ run' = [run EXCEPT ![op.by].phase = "updating"]
            /\ ops' = Append(Tail(ops), Update(StatusPatch(run[op.by].status), op.by))
         \/ /\ op.by # "scheduler" /\ run[op.by].phase # "appending"
            /\ run' = [run EXCEPT ![op.by] = Idle]
            /\ ops' = Tail(ops)
      /\ UNCHANGED <<rec, file, job, requests, started, crashes, appended, cap>>

(* Mutant: a history entry does not check that its automation exists.      *)
AppendToNone ==
  /\ ops # <<>> /\ rec = Gone
  /\ rec' = IF Head(ops).kind = "append"
              THEN [trigger |-> "schedule", schedule |-> "none", status |-> "active",
                    maxRuns |-> 0, runs |-> 1]
              ELSE Gone
  /\ file' = rec'
  /\ Continue(Head(ops), rec', Tail(ops))
  /\ UNCHANGED <<writing, appended, cap, counters>>

MutationFindsNone ==
  /\ ops # <<>> /\ rec = Gone
  /\ Continue(Head(ops), Gone, Tail(ops))
  /\ UNCHANGED <<rec, file, writing, appended, cap, counters>>

(* A crash; then readFromDisk skips a file that does not parse, and        *)
(* initialize registers the job.                                           *)
Restart ==
  LET loaded == IF file = Torn THEN Gone ELSE file
  IN  /\ crashes < MaxCrashes
      /\ crashes' = crashes + 1
      /\ rec' = loaded
      /\ ops' = <<>> /\ writing' = FALSE
      /\ job' = Registers(loaded)
      /\ run' = [s \in Slots |-> Idle]
      /\ UNCHANGED <<file, requests, started, failures, appended, cap>>

Next ==
  \/ UpdateAutomation \/ DeleteAutomation
  \/ RunManually \/ QuestCompleted \/ Tick
  \/ \E s \in Slots : RunSucceeds(s) \/ RunFails(s) \/ RunUnrecorded(s)
  \/ MutationBegins \/ MutationEnds \/ MutationFails \/ MutationFindsNone
  \/ Restart

Spec == Init /\ [][Next]_vars

Fairness ==
  /\ WF_vars(MutationBegins \/ MutationEnds \/ MutationFindsNone)
  /\ WF_vars(\E s \in Slots : RunSucceeds(s) \/ RunFails(s))
  /\ WF_vars(Tick)

FairSpec == Spec /\ Fairness

-----------------------------------------------------------------------------
(* Types; an execution that is closing its books has one mutation on its   *)
(* way, and no other has any.                                              *)
TypeOK ==
  /\ rec \in Records \cup {Gone} /\ file \in Records \cup {Gone, Torn}
  /\ writing \in BOOLEAN /\ job \in BOOLEAN
  /\ run \in [Slots -> [phase : Phases, status : Statuses]]
  /\ \A s \in Slots : Cardinality({ i \in 1..Len(ops) : ops[i].by = s })
                        = IF run[s].phase \in {"idle", "running"} THEN 0 ELSE 1

(* The books are in order: every history entry that was appended counts,   *)
(* once, after a crash too; and however ticks, quest events and manual     *)
(* runs coincide, and although the limit is checked when a run starts and  *)
(* counted when it ends, maxRuns is never exceeded; of a limit that was    *)
(* patched meanwhile, the highest value counts.                            *)
RunsCounted ==
  /\ TypeOK
  /\ rec # Gone => rec.runs = appended /\ (cap > 0 => rec.runs <= cap)

(* With the FIFO at rest, an active scheduled automation that has a        *)
(* schedule (a PATCH may take it away, and restore it) has its cron job,   *)
(* as long as nothing has failed: a failed run writes back the status it   *)
(* started with, through the store alone; a failed delete has stopped the  *)
(* job.                                                                    *)
ActiveHasJob == failures = 0 /\ ops = <<>> /\ Registers(rec) => job

(* A pause or a cancellation is undone by the user only, again as long as  *)
(* nothing has failed; and a deleted automation does not come back,        *)
(* whatever was still to be written of it: no update, no history entry and *)
(* no restart recreates it.                                                *)
UserDecides ==
  [][/\ rec = Gone => rec' = Gone
     /\ rec # Gone /\ rec' # Gone /\ failures = 0 /\ rec.status # "active"
          => rec'.status # "active" \/ Head(ops).by = "scheduler"]_vars

(* An execution always closes its books (otherwise every later request     *)
(* would join it), and a job left over by a race is stopped by its tick.   *)
RunsEnd ==
  /\ \A s \in Slots : run[s].phase # "idle" ~> run[s].phase = "idle"
  /\ job /\ ~Schedulable(rec) ~> ~job \/ Schedulable(rec)

=============================================================================
