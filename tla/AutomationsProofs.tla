-------------------------- MODULE AutomationsProofs --------------------------
(* The books of an automation are in order, and what the user decided       *)
(* stands, for any limit and any number of requests, failures and crashes.  *)
EXTENDS Automations, FiniteSetTheorems, SequenceTheorems, TLAPS

(* The mutations there are; those of a run without a failure.              *)
Ours == Slots \cup {"scheduler"}
StatusUpdates(B) == { Update(StatusPatch(s), b) : s \in Statuses, b \in B }
UserUpdates == { Update(patch, "scheduler") : patch \in Patches }
Appends == { Append1(b) : b \in Slots }
Closings == { Update(StatusPatch("completed"), b) : b \in Slots }
Calm == {Delete1} \cup StatusUpdates({"scheduler"}) \cup UserUpdates \cup Appends \cup Closings
Mutations == Calm \cup StatusUpdates(Slots)

NoneBy(o, s) == \A i \in 1..Len(o) : o[i].by # s
OneBy(o, s, kind) ==
  \E i \in 1..Len(o) : /\ o[i].by = s /\ o[i].kind = kind
                       /\ \A j \in 1..Len(o) : o[j].by = s => j = i
Deletes(o) == \E i \in 1..Len(o) : o[i].kind = "delete"

KindOf(phase) == IF phase \in {"appending", "recording"} THEN "append" ELSE "update"

(***************************************************************************)
(* There is one execution at a time, and what it has in the FIFO is told   *)
(* by its phase; so the limit that held when it started holds until its    *)
(* history entry is counted.                                               *)
(***************************************************************************)
Typed == /\ rec \in Records \cup {Gone} /\ file \in {rec, Gone, Torn}
         /\ writing \in BOOLEAN /\ job \in BOOLEAN
         /\ run \in [Slots -> [phase : Phases, status : Statuses]]
         /\ ops \in Seq(Mutations) /\ failures \in Nat /\ appended \in Nat /\ cap \in Nat

Books == \A s \in Slots :
           IF run[s].phase \in {"idle", "running"} THEN NoneBy(ops, s)
           ELSE OneBy(ops, s, KindOf(run[s].phase))

OneRun == \A s, t \in Slots : run[s].phase # "idle" /\ run[t].phase # "idle" => s = t

Writing == writing => ops # <<>> /\ rec # Gone

Counted == rec # Gone =>
             rec.runs = appended /\ (cap > 0 => rec.runs <= cap /\ rec.maxRuns \in 1..cap)

RoomLeft == \A s \in Slots :
              run[s].phase \in {"running", "appending", "updating", "recording"} /\ rec # Gone
                => (cap > 0 => rec.runs < cap)

CapGrows == cap' \in Nat /\ (cap' > 0 => 0 < cap /\ cap <= cap')

(* Before anything failed, no run updates anything but to end the series,  *)
(* and a job is missing only where a delete is on its way.                 *)
CalmSoFar == failures = 0 => /\ ops \in Seq(Calm)
                             /\ Registers(rec) => job \/ Deletes(ops)

IInv == /\ Typed /\ Books /\ OneRun /\ Writing /\ Counted /\ RoomLeft /\ CalmSoFar

-----------------------------------------------------------------------------
(* The FIFO: what a push and a pop do to the mutations of one owner.       *)
LEMMA MutationCases ==
  ASSUME NEW op \in Mutations
  PROVE  op = Delete1 \/ op \in StatusUpdates(Ours) \/ op \in UserUpdates \/ op \in Appends
PROOF
  <1>1. CASE op \in Closings
    BY <1>1 DEF Closings, StatusUpdates, Ours, Statuses
  <1>2. CASE op \in StatusUpdates({"scheduler"}) \cup StatusUpdates(Slots)
    BY <1>2 DEF StatusUpdates, Ours
  <1> QED  BY <1>1, <1>2 DEF Mutations, Calm

LEMMA MutationFields ==
  ASSUME NEW op \in Mutations
  PROVE  /\ op.kind \in {"update", "append", "delete"} /\ op.by \in Ours
         /\ op.kind = "append" => op.by \in Slots
         /\ op.by \in Slots => op.kind \in {"append", "update"}
PROOF
  <1>1. CASE op = Delete1
    BY <1>1, NullsAssumption DEF Delete1, Ours
  <1>2. CASE op \in StatusUpdates(Ours)
    BY <1>2 DEF StatusUpdates, Update
  <1>3. CASE op \in UserUpdates
    BY <1>3, NullsAssumption DEF UserUpdates, Update, Ours
  <1>4. CASE op \in Appends
    BY <1>4 DEF Appends, Append1, Ours
  <1> QED  BY <1>1, <1>2, <1>3, <1>4, MutationCases

LEMMA Push ==
  ASSUME NEW o \in Seq(Mutations), NEW op \in Mutations, NEW s
  PROVE  /\ Append(o, op) \in Seq(Mutations) /\ Append(o, op) # <<>>
         /\ op.by # s => /\ NoneBy(o, s) => NoneBy(Append(o, op), s)
                         /\ \A k : OneBy(o, s, k) => OneBy(Append(o, op), s, k)
         /\ op.by = s => (NoneBy(o, s) => OneBy(Append(o, op), s, op.kind))
         /\ Deletes(o) \/ op.kind = "delete" => Deletes(Append(o, op))
PROOF
  <1> DEFINE n == Append(o, op)
  <1>1. /\ n \in Seq(Mutations) /\ Len(n) = Len(o) + 1 /\ Len(o) \in Nat
        /\ n[Len(n)] = op /\ \A i \in 1..Len(o) : n[i] = o[i]
    OBVIOUS
  <1> HIDE DEF n
  <1>2. n # <<>>
    BY <1>1
  <1>i. \A i \in 1..Len(n) : i \in 1..Len(o) \/ i = Len(n)
    BY <1>1
  <1>j. \A i \in 1..Len(o) : i \in 1..Len(n) /\ i # Len(n)
    BY <1>1
  <1>k. Len(n) \in 1..Len(n)
    BY <1>1
  <1>3. ASSUME op.by # s, NoneBy(o, s)
        PROVE  NoneBy(n, s)
    BY <1>1, <1>i, <1>3 DEF NoneBy
  <1>4. ASSUME op.by # s, NEW k, OneBy(o, s, k)
        PROVE  OneBy(n, s, k)
    <2>1. PICK i \in 1..Len(o) : /\ o[i].by = s /\ o[i].kind = k
                                 /\ \A j \in 1..Len(o) : o[j].by = s => j = i
      BY <1>4 DEF OneBy
    <2>2. i \in 1..Len(n) /\ n[i] = o[i]
      BY <1>1, <1>j
    <2>3. \A j \in 1..Len(n) : n[j].by = s => j = i
      BY <1>1, <1>i, <1>4, <2>1
    <2> QED  BY <2>1, <2>2, <2>3 DEF OneBy
  <1>5. ASSUME op.by = s, NoneBy(o, s)
        PROVE  OneBy(n, s, op.kind)
    BY <1>1, <1>i, <1>k, <1>5 DEF NoneBy, OneBy
  <1>6. ASSUME Deletes(o) \/ op.kind = "delete"
        PROVE  Deletes(n)
    BY <1>1, <1>j, <1>k, <1>6 DEF Deletes
  <1> QED  BY <1>1, <1>2, <1>3, <1>4, <1>5, <1>6 DEF n

LEMMA Pop ==
  ASSUME NEW o \in Seq(Mutations), o # <<>>, NEW s
  PROVE  /\ Tail(o) \in Seq(Mutations) /\ Head(o) \in Mutations
         /\ NoneBy(o, s) => NoneBy(Tail(o), s) /\ Head(o).by # s
         /\ Head(o).by # s => \A k : OneBy(o, s, k) => OneBy(Tail(o), s, k)
         /\ Head(o).by = s => \A k : OneBy(o, s, k) => NoneBy(Tail(o), s) /\ Head(o).kind = k
         /\ Deletes(o) /\ Head(o).kind # "delete" => Deletes(Tail(o))
PROOF
  <1> DEFINE n == Tail(o)
             h == Head(o)
  <1>1. /\ n \in Seq(Mutations) /\ Len(n) = Len(o) - 1 /\ Len(n) \in Nat /\ Len(o) \in Nat
        /\ h = o[1] /\ h \in Mutations /\ 1 \in 1..Len(o)
        /\ \A i \in 1..Len(n) : n[i] = o[i + 1]
    OBVIOUS
  <1> HIDE DEF n, h
  <1>i. \A i \in 1..Len(n) : i + 1 \in 1..Len(o) /\ i + 1 # 1
    BY <1>1
  <1>j. \A i \in 1..Len(o) : i # 1 => i - 1 \in 1..Len(n) /\ n[i - 1] = o[i]
    BY <1>1
  <1>2. ASSUME NoneBy(o, s)
        PROVE  NoneBy(n, s) /\ h.by # s
    BY <1>1, <1>i, <1>2 DEF NoneBy
  <1>3. ASSUME h.by # s, NEW k, OneBy(o, s, k)
        PROVE  OneBy(n, s, k)
    <2>1. PICK i \in 1..Len(o) : /\ o[i].by = s /\ o[i].kind = k
                                 /\ \A j \in 1..Len(o) : o[j].by = s => j = i
      BY <1>3 DEF OneBy
    <2>2. i - 1 \in 1..Len(n) /\ n[i - 1] = o[i]
      BY <1>1, <1>3, <1>j, <2>1
    <2>3. \A j \in 1..Len(n) : n[j].by = s => j = i - 1
      BY <1>1, <1>i, <2>1
    <2> QED  BY <2>1, <2>2, <2>3 DEF OneBy
  <1>4. ASSUME h.by = s, NEW k, OneBy(o, s, k)
        PROVE  NoneBy(n, s) /\ h.kind = k
    BY <1>1, <1>i, <1>4 DEF OneBy, NoneBy
  <1>5. ASSUME Deletes(o), h.kind # "delete"
        PROVE  Deletes(n)
    <2>1. PICK i \in 1..Len(o) : o[i].kind = "delete"
      BY <1>5 DEF Deletes
    <2> QED  BY <1>1, <1>j, <1>5, <2>1 DEF Deletes
  <1> QED  BY <1>1, <1>2, <1>3, <1>4, <1>5 DEF n, h

(* What the mutations make of a record.                                    *)
LEMMA PatchedStatus ==
  ASSUME NEW r \in Records, NEW s \in Statuses
  PROVE  Patched(r, StatusPatch(s)) = [r EXCEPT !.status = s]
PROOF
  BY DEF Patched, StatusPatch, Records

LEMMA PatchedFacts ==
  ASSUME NEW r \in Records, NEW patch \in Patches
  PROVE  Patched(r, patch) \in Records /\ Patched(r, patch).runs = r.runs
PROOF
  <1>1. DOMAIN r = {"trigger", "schedule", "status", "maxRuns", "runs"}
    BY DEF Records
  <1>2. /\ r.trigger \in Triggers /\ r.schedule \in Schedules /\ r.status \in Statuses
        /\ r.maxRuns \in Nat /\ r.runs \in Nat
    BY DEF Records
  <1>3. /\ DOMAIN patch \subseteq {"trigger", "schedule", "status", "maxRuns"}
        /\ "trigger" \in DOMAIN patch => patch["trigger"] \in Triggers
        /\ "schedule" \in DOMAIN patch => patch["schedule"] \in Schedules
        /\ "status" \in DOMAIN patch => patch["status"] \in Statuses
        /\ "maxRuns" \in DOMAIN patch => patch["maxRuns"] \in Nat
    <2>1. CASE \E s \in Statuses : patch = StatusPatch(s)
      BY <2>1 DEF StatusPatch
    <2>2. CASE patch \in [maxRuns : Limits]
      BY <2>2, BoundsAssumption
    <2>3. CASE patch \in [trigger : Triggers]
      BY <2>3
    <2>4. CASE patch \in [schedule : Schedules]
      BY <2>4
    <2>5. CASE patch \in [trigger : Triggers, schedule : Schedules]
      BY <2>5
    <2> QED  BY <2>1, <2>2, <2>3, <2>4, <2>5 DEF Patches
  <1> DEFINE n == Patched(r, patch)
  <1>4. /\ n = [f \in DOMAIN r |-> IF f \in DOMAIN patch THEN patch[f] ELSE r[f]]
    BY DEF Patched
  <1> HIDE DEF n
  <1>5. n = [trigger |-> n["trigger"], schedule |-> n["schedule"], status |-> n["status"],
             maxRuns |-> n["maxRuns"], runs |-> n["runs"]]
    BY <1>1, <1>4
  <1>6. /\ n["trigger"] \in Triggers /\ n["schedule"] \in Schedules /\ n["status"] \in Statuses
        /\ n["maxRuns"] \in Nat /\ n["runs"] = r.runs
    BY <1>1, <1>2, <1>3, <1>4
  <1> QED  BY <1>2, <1>5, <1>6 DEF n, Records

LEMMA AppliedFacts ==
  ASSUME NEW r \in Records, NEW op \in Mutations
  PROVE  /\ op.kind = "delete" => Applied(r, op) = Gone
         /\ op.kind # "delete" => Applied(r, op) \in Records
         /\ op.kind = "append" => /\ Applied(r, op).runs = r.runs + 1
                                  /\ Applied(r, op).trigger = r.trigger
                                  /\ Applied(r, op).schedule = r.schedule
                                  /\ Applied(r, op).maxRuns = r.maxRuns
                                  /\ Applied(r, op).status \in {r.status, "completed"}
         /\ op.kind = "update" => Applied(r, op).runs = r.runs
PROOF
  <1>1. CASE op = Delete1
    BY <1>1 DEF Delete1, Applied
  <1>2. CASE op \in StatusUpdates(Ours)
    <2>1. PICK s \in Statuses, b \in Ours : op = Update(StatusPatch(s), b)
      BY <1>2 DEF StatusUpdates
    <2>2. Applied(r, op) = [r EXCEPT !.status = s] /\ op.kind = "update"
      BY <2>1, PatchedStatus DEF Applied, Update
    <2> QED  BY <2>2 DEF Records
  <1>3. CASE op \in UserUpdates
    <2>1. PICK patch \in Patches : op = Update(patch, "scheduler")
      BY <1>3 DEF UserUpdates
    <2>2. Applied(r, op) = Patched(r, patch) /\ op.kind = "update"
      BY <2>1 DEF Applied, Update
    <2> QED  BY <2>2, PatchedFacts
  <1>4. CASE op \in Appends
    <2>1. op.kind = "append"
      BY <1>4 DEF Appends, Append1
    <2> DEFINE next == [r EXCEPT !.runs = @ + 1]
    <2>2. Applied(r, op) = next \/ Applied(r, op) = [next EXCEPT !.status = "completed"]
      BY <2>1 DEF Applied
    <2>3. /\ next \in Records /\ next.runs = r.runs + 1 /\ next.trigger = r.trigger
          /\ next.schedule = r.schedule /\ next.maxRuns = r.maxRuns /\ next.status = r.status
      BY DEF Records
    <2> HIDE DEF next
    <2> QED  BY <2>1, <2>2, <2>3 DEF Records, Statuses
  <1> QED  BY <1>1, <1>2, <1>3, <1>4, MutationCases

LEMMA CalmMutations == Calm \subseteq Mutations
PROOF
  BY DEF Mutations

(* A run without a failure is calm: its mutations, too, leave it to the    *)
(* scheduler to wake the automation up.                                    *)
LEMMA CalmApplied ==
  ASSUME NEW r \in Records, NEW op \in Calm, op.by # "scheduler"
  PROVE  /\ Applied(r, op) \in Records /\ Applied(r, op).trigger = r.trigger
         /\ Applied(r, op).schedule = r.schedule
         /\ Applied(r, op).status \in {r.status, "completed"}
PROOF
  <1>1. CASE op \in Appends
    <2>1. op.kind = "append"
      BY <1>1 DEF Appends, Append1
    <2> QED  BY <2>1, AppliedFacts, CalmMutations
  <1>2. CASE op \in Closings
    <2>1. PICK b \in Slots : op = Update(StatusPatch("completed"), b)
      BY <1>2 DEF Closings
    <2>2. Applied(r, op) = [r EXCEPT !.status = "completed"]
      BY <2>1, PatchedStatus DEF Applied, Update, Statuses
    <2> QED  BY <2>2 DEF Records, Statuses
  <1>3. op \in Appends \cup Closings
    BY DEF Calm, Delete1, StatusUpdates, UserUpdates, Update
  <1> QED  BY <1>1, <1>2, <1>3

-----------------------------------------------------------------------------
LEMMA InitIInv == Init => IInv
PROOF
  <1> SUFFICES ASSUME Init
               PROVE  IInv
    OBVIOUS
  <1> USE BoundsAssumption DEF Init
  <1>1. Typed
    <2>1. rec \in Records /\ file = rec /\ writing \in BOOLEAN /\ job \in BOOLEAN
      BY DEF Records, Triggers, Schedules, Statuses
    <2>2. run \in [Slots -> [phase : Phases, status : Statuses]]
      BY DEF Idle, Phases, Statuses
    <2>3. ops \in Seq(Mutations)
      OBVIOUS
    <2> QED  BY <2>1, <2>2, <2>3 DEF Typed
  <1>2. Books
    BY DEF Books, NoneBy, Idle
  <1>3. OneRun /\ RoomLeft
    BY DEF OneRun, RoomLeft, Idle
  <1>4. Writing /\ Counted
    BY DEF Writing, Counted
  <1>5. CalmSoFar /\ failures \in Nat
    BY DEF CalmSoFar
  <1> QED  BY <1>1, <1>2, <1>3, <1>4, <1>5 DEF IInv

(* A mutation of the scheduler joins the FIFO.                             *)
LEMMA SchedulerPushes ==
  ASSUME IInv, NEW op \in Calm, op.by = "scheduler", ops' = Append(ops, op),
         op.kind = "delete" \/ job' = job, job' \in BOOLEAN,
         UNCHANGED <<rec, file, writing, run, failures, appended, cap>>
  PROVE  IInv'
PROOF
  <1> USE DEF IInv
  <1>0. op \in Mutations /\ ops \in Seq(Mutations)
    BY CalmMutations DEF Typed
  <1>1. Typed'
    BY <1>0, Push DEF Typed
  <1>2. Books'
    <2> SUFFICES ASSUME NEW s \in Slots
                 PROVE  IF run[s].phase \in {"idle", "running"} THEN NoneBy(ops', s)
                        ELSE OneBy(ops', s, KindOf(run[s].phase))
      BY DEF Books
    <2>1. op.by # s
      BY NullsAssumption
    <2> QED  BY <1>0, <2>1, Push DEF Books
  <1>3. OneRun' /\ RoomLeft' /\ Counted'
    BY DEF OneRun, RoomLeft, Counted, Exhausted
  <1>4. Writing'
    BY <1>0, Push DEF Writing
  <1>5. CalmSoFar'
    <2>1. failures = 0 => ops' \in Seq(Calm)
      BY DEF CalmSoFar
    <2>2. Deletes(ops) \/ op.kind = "delete" => Deletes(ops')
      BY <1>0, Push
    <2> QED  BY <2>1, <2>2 DEF CalmSoFar, Registers, Schedulable
  <1> QED  BY <1>1, <1>2, <1>3, <1>4, <1>5

(* An execution begins, or closes at once.                                 *)
LEMMA ExecuteKeeps ==
  ASSUME IInv, NEW source, Execute(source)
  PROVE  IInv'
PROOF
  <1> USE DEF IInv, Execute
  <1>0. \A s \in Slots : run[s].phase = "idle"
    BY DEF InFlight
  <1>r. rec \in Records
    BY DEF Typed
  <1>1. PICK s \in Slots :
          \/ /\ Exhausted(rec)
             /\ run' = [run EXCEPT ![s] = [phase |-> "closing", status |-> rec.status]]
             /\ ops' = Append(ops, Update(StatusPatch("completed"), s))
          \/ /\ ~Exhausted(rec)
             /\ run' = [run EXCEPT ![s] = [phase |-> "running", status |-> rec.status]]
             /\ UNCHANGED ops
    BY DEF Execute
  <1> DEFINE op == Update(StatusPatch("completed"), s)
  <1>2. op \in Calm /\ op \in Mutations /\ op.by = s /\ op.kind = "update"
    BY DEF Calm, Closings, Mutations, Update
  <1>3. /\ ops \in Seq(Mutations) /\ Append(ops, op) \in Seq(Mutations) /\ Append(ops, op) # <<>>
        /\ Deletes(ops) => Deletes(Append(ops, op))
    BY <1>2, Push DEF Typed
  <1>4. \A t \in Slots \ {s} : run'[t] = run[t]
    BY <1>1 DEF Typed
  <1>5. /\ Exhausted(rec) => run'[s].phase = "closing" /\ ops' = Append(ops, op)
        /\ ~Exhausted(rec) => run'[s].phase = "running" /\ ops' = ops
    BY <1>1 DEF Typed
  <1> HIDE DEF op
  <1>6. Typed'
    <2>1. rec.status \in Statuses
      BY <1>r DEF Records
    <2>2. run' \in [Slots -> [phase : Phases, status : Statuses]]
      BY <1>1, <2>1 DEF Typed, Phases
    <2> QED  BY <1>3, <1>5, <2>2 DEF Typed
  <1>7. Books'
    <2> SUFFICES ASSUME NEW t \in Slots
                 PROVE  IF run'[t].phase \in {"idle", "running"} THEN NoneBy(ops', t)
                        ELSE OneBy(ops', t, KindOf(run'[t].phase))
      BY DEF Books
    <2>1. NoneBy(ops, t)
      BY <1>0 DEF Books
    <2>2. CASE t = s /\ Exhausted(rec)
      BY <1>2, <1>3, <1>5, <2>1, <2>2, Push DEF KindOf
    <2>3. CASE t # s /\ Exhausted(rec)
      BY <1>0, <1>2, <1>3, <1>4, <1>5, <2>1, <2>3, Push
    <2>4. CASE ~Exhausted(rec)
      BY <1>0, <1>4, <1>5, <2>1, <2>4
    <2> QED  BY <2>2, <2>3, <2>4
  <1>8. OneRun'
    BY <1>0, <1>4 DEF OneRun
  <1>9. RoomLeft' /\ Counted' /\ Writing'
    <2>1. ~Exhausted(rec) => (cap > 0 => rec.runs < cap)
      BY <1>r, NullsAssumption DEF Exhausted, Counted, Typed, Records
    <2> QED  BY <1>0, <1>3, <1>4, <1>5, <2>1 DEF RoomLeft, Counted, Writing
  <1>10. CalmSoFar'
    <2>1. failures = 0 => ops' \in Seq(Calm)
      BY <1>2, <1>5 DEF CalmSoFar
    <2> QED  BY <1>3, <1>5, <2>1 DEF CalmSoFar, Registers, Schedulable, counters
  <1> QED  BY <1>6, <1>7, <1>8, <1>9, <1>10

(* An execution goes on with a mutation of its own: its phase changes, and *)
(* the FIFO has the mutation in it.                                        *)
LEMMA RunPushes ==
  ASSUME IInv, NEW s \in Slots, NEW o \in Seq(Mutations), NEW op \in Mutations,
         NEW phase \in Phases \ {"idle", "running", "closing"},
         op.by = s, op.kind = KindOf(phase),
         \A t \in Slots : t # s => (NoneBy(ops, t) => NoneBy(o, t)),
         NoneBy(o, s), run[s].phase \notin {"idle", "closing"},
         run' = [run EXCEPT ![s].phase = phase], ops' = Append(o, op),
         rec' \in {rec, Gone} \/ (rec \in Records /\ rec' \in Records /\ rec'.runs = rec.runs),
         CapGrows
  PROVE  Books' /\ OneRun' /\ RoomLeft' /\ ops' \in Seq(Mutations) /\ ops' # <<>>
         /\ run' \in [Slots -> [phase : Phases, status : Statuses]]
PROOF
  <1> USE DEF IInv
  <1>1. /\ run'[s].phase = phase
        /\ \A t \in Slots \ {s} : run'[t] = run[t] /\ run[t].phase = "idle"
        /\ run' \in [Slots -> [phase : Phases, status : Statuses]]
    BY DEF Typed, OneRun
  <1>2. \A t \in Slots \ {s} : NoneBy(o, t)
    BY <1>1 DEF Books
  <1>3. \A t \in Slots \ {s} : NoneBy(ops', t)
    BY <1>2, Push
  <1>4. OneBy(ops', s, op.kind)
    BY Push
  <1>5. Books'
    <2> SUFFICES ASSUME NEW t \in Slots
                 PROVE  IF run'[t].phase \in {"idle", "running"} THEN NoneBy(ops', t)
                        ELSE OneBy(ops', t, KindOf(run'[t].phase))
      BY DEF Books
    <2> QED  BY <1>1, <1>3, <1>4
  <1>6. OneRun'
    BY <1>1 DEF OneRun
  <1>7. RoomLeft'
    <2>1. run[s].phase \in {"running", "appending", "updating", "recording"}
      BY DEF Typed, Phases
    <2>2. rec # Gone => (cap > 0 => rec.runs < cap)
      BY <2>1 DEF RoomLeft
    <2>3. rec' # Gone => rec # Gone /\ rec'.runs = rec.runs /\ rec.runs \in Nat /\ cap \in Nat
      BY NullsAssumption DEF Typed, Records
    <2>4. rec' # Gone => (cap' > 0 => rec'.runs < cap')
      BY <2>2, <2>3 DEF CapGrows
    <2> QED  BY <1>1, <2>4 DEF RoomLeft
  <1> QED  BY <1>1, <1>5, <1>6, <1>7, Push

(* The head of the FIFO is done with: its run goes on or ends.             *)
LEMMA ContinueKeeps ==
  ASSUME IInv, ops # <<>>, NEW r, Continue(Head(ops), r, Tail(ops)), rec' = r,
         \/ r = Gone
         \/ /\ rec \in Records /\ r \in Records
            /\ Head(ops).kind # "append" => r.runs = rec.runs,
         CapGrows
  PROVE  Books' /\ OneRun' /\ RoomLeft' /\ ops' \in Seq(Mutations)
         /\ run' \in [Slots -> [phase : Phases, status : Statuses]]
PROOF
  <1> USE DEF IInv
  <1> DEFINE op == Head(ops)
             tail == Tail(ops)
  <1>0. ops \in Seq(Mutations) /\ op \in Mutations /\ tail \in Seq(Mutations)
    BY Pop DEF Typed
  <1>p. \A t \in Slots : NoneBy(ops, t) => NoneBy(tail, t)
    BY <1>0, Pop
  <1>c. Continue(op, r, tail)
    OBVIOUS
  <1>k. op.by = "scheduler" => op.kind # "append"
    BY <1>0, MutationFields, NullsAssumption
  <1>b. op.by \in Ours
    BY <1>0, MutationFields
  <1>1. CASE op.by = "scheduler"
    <2>1. run' = run /\ ops' = tail
      BY <1>c, <1>1 DEF Continue
    <2>2. Books'
      <3> SUFFICES ASSUME NEW t \in Slots
                   PROVE  IF run[t].phase \in {"idle", "running"} THEN NoneBy(tail, t)
                          ELSE OneBy(tail, t, KindOf(run[t].phase))
        BY <2>1 DEF Books
      <3>1. op.by # t
        BY <1>1, NullsAssumption
      <3> QED  BY <1>0, <3>1, Pop DEF Books
    <2>3. OneRun'
      BY <2>1 DEF OneRun
    <2>4. RoomLeft'
      <3>1. rec' # Gone => rec # Gone /\ rec'.runs = rec.runs /\ rec.runs \in Nat /\ cap \in Nat
        BY <1>1, <1>k, NullsAssumption DEF Typed, Records
      <3> QED  BY <2>1, <3>1 DEF RoomLeft, CapGrows
    <2> QED  BY <1>0, <2>1, <2>2, <2>3, <2>4 DEF Typed
  <1>2. CASE op.by \in Slots
    <2> DEFINE s == op.by
    <2>0. s # "scheduler"
      BY <1>2, NullsAssumption
    <2>1. run[s].phase \notin {"idle", "running"}
      <3>1. ~NoneBy(ops, s)
        BY <1>0, Pop
      <3> QED  BY <1>2, <3>1 DEF Books
    <2>2. op.kind = KindOf(run[s].phase) /\ NoneBy(tail, s)
      <3>1. OneBy(ops, s, KindOf(run[s].phase))
        BY <1>2, <2>1 DEF Books
      <3> QED  BY <1>0, <3>1, Pop
    <2>3. CASE run[s].phase = "updating"
      <3>1. op.kind = "update"
        BY <2>2, <2>3 DEF KindOf
      <3>2. /\ run' = [run EXCEPT ![s].phase = "recording"]
            /\ ops' = Append(tail, Append1(s))
        BY <1>c, <2>0, <2>3 DEF Continue
      <3>3. Append1(s) \in Mutations /\ Append1(s).by = s /\ Append1(s).kind = KindOf("recording")
        BY <1>2 DEF Mutations, Calm, Appends, Append1, KindOf
      <3>4. rec' \in {rec, Gone} \/ (rec \in Records /\ rec' \in Records /\ rec'.runs = rec.runs)
        BY <3>1
      <3>5. "recording" \in Phases \ {"idle", "running", "closing"}
        BY DEF Phases
      <3> QED  BY <1>0, <1>2, <1>p, <2>2, <2>3, <3>2, <3>3, <3>4, <3>5, RunPushes DEF CapGrows, Typed, counters
    <2>4. CASE run[s].phase # "updating"
      <3>1. run' = [run EXCEPT ![s] = Idle] /\ ops' = tail
        BY <1>c, <2>0, <2>4 DEF Continue
      <3>2. /\ \A t \in Slots : run'[t].phase = "idle"
            /\ run' \in [Slots -> [phase : Phases, status : Statuses]]
        BY <1>2, <2>1, <3>1 DEF OneRun, Typed, Idle, Phases, Statuses
      <3>3. \A t \in Slots \ {s} : NoneBy(ops, t)
        BY <1>2, <2>1 DEF OneRun, Books
      <3>4. \A t \in Slots : NoneBy(tail, t)
        BY <1>p, <2>2, <3>3
      <3>5. Books' /\ OneRun' /\ RoomLeft'
        BY <3>1, <3>2, <3>4 DEF Books, OneRun, RoomLeft
      <3> QED  BY <1>0, <3>1, <3>2, <3>5
    <2> QED  BY <2>3, <2>4
  <1> QED  BY <1>1, <1>2, <1>b DEF Ours

LEMMA RunSucceedsKeeps ==
  ASSUME IInv, NEW s \in Slots, RunSucceeds(s)
  PROVE  IInv'
PROOF
  <1> USE DEF IInv, RunSucceeds
  <1> DEFINE op == Append1(s)
  <1>1. op \in Calm /\ op \in Mutations /\ op.by = s /\ op.kind = KindOf("appending")
    BY DEF Mutations, Calm, Appends, Append1, KindOf
  <1>2. ops \in Seq(Mutations) /\ NoneBy(ops, s) /\ ops' = Append(ops, op)
    BY DEF Typed, Books
  <1>3. "appending" \in Phases \ {"idle", "running", "closing"}
    BY DEF Phases
  <1>g. CapGrows
    BY DEF CapGrows, Typed
  <1>4. Books' /\ OneRun' /\ RoomLeft' /\ ops' \in Seq(Mutations) /\ ops' # <<>>
        /\ run' \in [Slots -> [phase : Phases, status : Statuses]]
    BY <1>1, <1>2, <1>3, <1>g, RunPushes
  <1>5. Typed' /\ Writing' /\ Counted'
    BY <1>4 DEF Typed, Writing, Counted, counters
  <1>6. CalmSoFar'
    <2>1. failures = 0 => ops' \in Seq(Calm)
      BY <1>1, <1>2 DEF CalmSoFar
    <2>2. Deletes(ops) => Deletes(ops')
      BY <1>1, <1>2, Push
    <2> QED  BY <2>1, <2>2 DEF CalmSoFar, Registers, Schedulable, counters
  <1> QED  BY <1>4, <1>5, <1>6

LEMMA RunFailsKeeps ==
  ASSUME IInv, NEW s \in Slots, RunFails(s)
  PROVE  IInv'
PROOF
  <1> USE DEF IInv, RunFails
  <1> DEFINE op == Update(StatusPatch(run[s].status), s)
  <1>1. op \in Mutations /\ op.by = s /\ op.kind = KindOf("updating")
    BY DEF Mutations, StatusUpdates, Update, KindOf, Typed
  <1>2. ops \in Seq(Mutations) /\ NoneBy(ops, s) /\ ops' = Append(ops, op)
    BY DEF Typed, Books
  <1>3. "updating" \in Phases \ {"idle", "running", "closing"}
    BY DEF Phases
  <1>g. CapGrows
    BY DEF CapGrows, Typed
  <1>4. Books' /\ OneRun' /\ RoomLeft' /\ ops' \in Seq(Mutations) /\ ops' # <<>>
        /\ run' \in [Slots -> [phase : Phases, status : Statuses]]
    BY <1>1, <1>2, <1>3, <1>g, RunPushes
  <1>5. Typed' /\ Writing' /\ Counted' /\ CalmSoFar'
    BY <1>4 DEF Typed, Writing, Counted, CalmSoFar
  <1> QED  BY <1>4, <1>5

LEMMA RunUnrecordedKeeps ==
  ASSUME IInv, NEW s \in Slots, RunUnrecorded(s)
  PROVE  IInv'
PROOF
  <1> USE DEF IInv, RunUnrecorded
  <1>1. /\ run'[s].phase = "idle" /\ \A t \in Slots \ {s} : run'[t] = run[t]
        /\ run' \in [Slots -> [phase : Phases, status : Statuses]]
    BY DEF Typed, Idle, Phases, Statuses
  <1>2. NoneBy(ops, s)
    BY DEF Books
  <1>3. Books'
    BY <1>1, <1>2 DEF Books
  <1>4. OneRun' /\ RoomLeft'
    BY <1>1 DEF OneRun, RoomLeft, Exhausted
  <1>5. Typed' /\ Writing' /\ Counted' /\ CalmSoFar'
    BY <1>1 DEF Typed, Writing, Counted, CalmSoFar
  <1> QED  BY <1>3, <1>4, <1>5

LEMMA TickKeeps ==
  ASSUME IInv, Tick
  PROVE  IInv'
PROOF
  <1> USE DEF IInv
  <1>1. CASE /\ ~Schedulable(rec) /\ job' = FALSE
             /\ UNCHANGED <<rec, file, ops, writing, run, appended, cap, counters>>
    BY <1>1
    DEF Typed, Books, OneRun, Writing, Counted, RoomLeft, Exhausted, CalmSoFar, Registers, Schedulable,
        counters
  <1>2. CASE /\ ops' = Append(ops, Update(StatusPatch("completed"), "scheduler"))
             /\ UNCHANGED <<rec, file, writing, job, run, appended, cap, counters>>
    <2> DEFINE op == Update(StatusPatch("completed"), "scheduler")
    <2>1. op \in Calm /\ op.by = "scheduler" /\ ops' = Append(ops, op)
      BY <1>2 DEF Calm, StatusUpdates, Update, Statuses
    <2> QED  BY <1>2, <2>1, SchedulerPushes DEF Typed, counters
  <1>3. CASE Execute("schedule")
    BY <1>3, ExecuteKeeps
  <1> QED  BY <1>1, <1>2, <1>3 DEF Tick

LEMMA RequestKeeps ==
  ASSUME IInv, UpdateAutomation \/ DeleteAutomation
  PROVE  IInv'
PROOF
  <1>1. ASSUME NEW patch \in Patches, Request(Update(patch, "scheduler")), UNCHANGED job
        PROVE  IInv'
    <2> DEFINE op == Update(patch, "scheduler")
    <2>1. op \in Calm /\ op.by = "scheduler" /\ ops' = Append(ops, op)
      BY <1>1 DEF Calm, UserUpdates, Update, Request
    <2> QED  BY <1>1, <2>1, SchedulerPushes DEF Request, IInv, Typed
  <1>3. ASSUME DeleteAutomation
        PROVE  IInv'
    <2>1. /\ Delete1 \in Calm /\ Delete1.by = "scheduler" /\ Delete1.kind = "delete"
          /\ ops' = Append(ops, Delete1) /\ job' = FALSE
      BY <1>3 DEF Calm, Delete1, DeleteAutomation, Request
    <2> QED  BY <1>3, <2>1, SchedulerPushes DEF Request, DeleteAutomation
  <1> QED  BY <1>1, <1>3 DEF UpdateAutomation

LEMMA MutationBeginsKeeps ==
  ASSUME IInv, MutationBegins
  PROVE  IInv'
PROOF
  <1> USE DEF IInv, MutationBegins
  <1>1. Typed' /\ Writing'
    BY DEF Typed, Writing, counters
  <1>2. Books' /\ OneRun' /\ RoomLeft' /\ Counted' /\ CalmSoFar'
    BY DEF Books, OneRun, RoomLeft, Exhausted, Counted, CalmSoFar, Registers, Schedulable, counters
  <1> QED  BY <1>1, <1>2

(* A mutation takes effect: an entry is counted, a deletion is for good.   *)
LEMMA MutationEndsKeeps ==
  ASSUME IInv, MutationEnds
  PROVE  IInv'
PROOF
  <1> USE DEF IInv
  <1> DEFINE op == Head(ops)
             next == Applied(rec, op)
  <1>0. /\ writing /\ writing' = FALSE /\ rec' = next /\ file' = next
        /\ appended' = IF op.kind = "append" THEN appended + 1 ELSE appended
        /\ Continue(op, next, Tail(ops)) /\ failures' = failures
    BY DEF MutationEnds, counters
  <1>1. /\ ops \in Seq(Mutations) /\ ops # <<>> /\ rec \in Records
        /\ op \in Mutations
    BY <1>0, Pop DEF Writing, Typed
  <1>2. /\ op.kind = "delete" => next = Gone
        /\ op.kind # "delete" => next \in Records
        /\ op.kind = "append" => next.runs = rec.runs + 1 /\ next.maxRuns = rec.maxRuns
        /\ op.kind = "update" => next.runs = rec.runs
        /\ op.kind \in {"update", "append", "delete"}
    BY <1>1, AppliedFacts, MutationFields
  <1>c. /\ CapGrows
        /\ next # Gone /\ cap' > 0 => next.maxRuns \in 1..cap'
    <2>1. cap \in Nat /\ (next # Gone => next.maxRuns \in Nat)
      BY <1>2 DEF Typed, Records
    <2>2. cap' = IF next = Gone THEN cap ELSE CapWith(next.maxRuns)
      BY DEF MutationEnds
    <2> HIDE DEF next
    <2> QED  BY <2>1, <2>2 DEF CapWith, CapGrows
  <1>3. Books' /\ OneRun' /\ RoomLeft' /\ ops' \in Seq(Mutations)
        /\ run' \in [Slots -> [phase : Phases, status : Statuses]]
    <2> HIDE DEF op, next
    <2>1. next = Gone \/ (rec \in Records /\ next \in Records
                          /\ (op.kind # "append" => next.runs = rec.runs))
      BY <1>1, <1>2
    <2> QED  BY <1>0, <1>1, <1>c, <2>1, ContinueKeeps DEF op
  <1>4. Writing'
    BY <1>0 DEF Writing
  <1>5. Counted'
    <2>1. rec.runs = appended /\ (cap > 0 => rec.runs <= cap)
      BY <1>1, NullsAssumption DEF Counted
    <2>2. op.kind = "append" => (cap > 0 => rec.runs < cap)
      <3> SUFFICES ASSUME op.kind = "append"
                   PROVE  cap > 0 => rec.runs < cap
        OBVIOUS
      <3> DEFINE s == op.by
      <3>1. s \in Slots /\ ~NoneBy(ops, s)
        BY <1>1, MutationFields, Pop
      <3>2. run[s].phase \notin {"idle", "running"}
        BY <3>1 DEF Books
      <3>3. KindOf(run[s].phase) = "append"
        BY <1>1, <3>1, <3>2, Pop DEF Books
      <3>4. run[s].phase \in {"appending", "recording"}
        BY <3>3 DEF KindOf
      <3> QED  BY <1>1, <3>1, <3>4, NullsAssumption DEF RoomLeft
    <2>3. rec.runs \in Nat /\ cap \in Nat
      BY <1>1 DEF Records, Typed
    <2>4. next # Gone =>
            next.runs = appended' /\ (cap' > 0 => next.runs <= cap')
      <3> HIDE DEF next
      <3> QED  BY <1>0, <1>2, <1>c, <2>1, <2>2, <2>3 DEF CapGrows
    <2> QED  BY <1>0, <1>c, <2>4 DEF Counted
  <1>6. CalmSoFar'
    <2> SUFFICES ASSUME failures = 0
                 PROVE  ops' \in Seq(Calm) /\ (Registers(rec') => job' \/ Deletes(ops'))
      BY <1>0 DEF CalmSoFar, Registers, Schedulable
    <2>1. ops \in Seq(Calm) /\ (Registers(rec) => job \/ Deletes(ops))
      BY DEF CalmSoFar
    <2>2. op \in Calm /\ Tail(ops) \in Seq(Calm)
      BY <1>1, <2>1
    <2>3. CASE op.by = "scheduler"
      <3>1. /\ ops' = Tail(ops)
            /\ job' = IF op.kind = "update" /\ next # Gone THEN Registers(next) ELSE job
        BY <1>0, <2>3 DEF Continue
      <3>2. Registers(rec') => rec' # Gone
        BY DEF Registers, Schedulable
      <3>3. op.kind # "append"
        BY <1>1, <2>3, MutationFields, NullsAssumption
      <3> QED  BY <1>0, <1>2, <2>2, <3>1, <3>2, <3>3
    <2>4. CASE op.by # "scheduler"
      <3>1. /\ job' = job
            /\ ops' = Tail(ops) \/ ops' = Append(Tail(ops), Append1(op.by))
        BY <1>0, <2>4 DEF Continue
      <3>2. op.by \in Slots /\ op.kind # "delete"
        BY <1>1, <2>4, MutationFields DEF Ours
      <3>3. Append1(op.by) \in Calm
        BY <3>2 DEF Calm, Appends
      <3>4. ops' \in Seq(Calm)
        BY <2>2, <3>1, <3>3
      <3>5. Deletes(ops) => Deletes(ops')
        <4>1. Deletes(ops) => Deletes(Tail(ops))
          BY <1>1, <3>2, Pop
        <4>2. Deletes(Tail(ops)) => Deletes(Append(Tail(ops), Append1(op.by)))
          BY <1>1, <3>3, CalmMutations, Pop, Push
        <4> QED  BY <3>1, <4>1, <4>2
      <3>6. Registers(rec') => Registers(rec)
        <4>1. /\ next \in Records /\ next.trigger = rec.trigger /\ next.schedule = rec.schedule
              /\ next.status \in {rec.status, "completed"}
          BY <1>1, <2>2, <2>4, CalmApplied
        <4> QED  BY <1>0, <1>1, <4>1, NullsAssumption DEF Registers, Schedulable
      <3> QED  BY <2>1, <3>1, <3>4, <3>5, <3>6
    <2> QED  BY <2>3, <2>4
  <1>7. Typed'
    <2>1. job' \in BOOLEAN
      BY <1>0 DEF Continue, Typed, Registers, Schedulable
    <2>2. appended' \in Nat /\ failures' \in Nat /\ writing' \in BOOLEAN
      <3>1. appended \in Nat /\ failures \in Nat
        BY DEF Typed
      <3>2. appended' = appended \/ appended' = appended + 1
        BY DEF MutationEnds
      <3>3. failures' \in Nat /\ writing' \in BOOLEAN
        BY <3>1 DEF MutationEnds, counters
      <3>4. appended' \in Nat
        BY <3>1, <3>2
      <3> QED  BY <3>3, <3>4
    <2>3. rec' \in Records \cup {Gone}
      BY <1>0, <1>2
    <2> QED  BY <1>0, <1>3, <1>c, <2>1, <2>2, <2>3 DEF Typed, CapGrows
  <1> QED  BY <1>3, <1>4, <1>5, <1>6, <1>7

LEMMA MutationFindsNoneKeeps ==
  ASSUME IInv, MutationFindsNone
  PROVE  IInv'
PROOF
  <1> USE DEF IInv, MutationFindsNone
  <1>1. Books' /\ OneRun' /\ RoomLeft' /\ ops' \in Seq(Mutations)
        /\ run' \in [Slots -> [phase : Phases, status : Statuses]]
    BY ContinueKeeps DEF CapGrows, Typed
  <1>2. job' = job
    BY DEF Continue
  <1>3. Typed' /\ Writing' /\ Counted'
    BY <1>1, <1>2 DEF Typed, Writing, Counted, counters
  <1>4. CalmSoFar'
    <2>1. failures' = failures /\ ~Registers(rec')
      BY DEF counters, Registers, Schedulable
    <2>2. failures = 0 => ops' \in Seq(Calm)
      <3> SUFFICES ASSUME failures = 0
                   PROVE  ops' \in Seq(Calm)
        OBVIOUS
      <3>1. ops \in Seq(Calm) /\ Tail(ops) \in Seq(Calm) /\ Head(ops) \in Mutations
        BY Pop DEF CalmSoFar, Typed
      <3>2. ops' = Tail(ops) \/ (Head(ops).by # "scheduler"
                                 /\ ops' = Append(Tail(ops), Append1(Head(ops).by)))
        BY DEF Continue
      <3>3. Head(ops).by # "scheduler" => Append1(Head(ops).by) \in Calm
        BY <3>1, MutationFields DEF Calm, Appends, Ours
      <3> QED  BY <3>1, <3>2, <3>3
    <2> QED  BY <2>1, <2>2 DEF CalmSoFar
  <1> QED  BY <1>1, <1>3, <1>4

(* A write fails: the map keeps the record, a run that was about to record *)
(* its success records a failure.                                          *)
LEMMA MutationFailsKeeps ==
  ASSUME IInv, MutationFails
  PROVE  IInv'
PROOF
  <1> USE DEF IInv
  <1> DEFINE op == Head(ops)
             tail == Tail(ops)
  <1>0. /\ ops # <<>> /\ rec # Gone /\ writing' = FALSE /\ failures' = failures + 1
        /\ UNCHANGED <<rec, file, job, appended, cap>>
    BY DEF MutationFails
  <1>1. /\ ops \in Seq(Mutations) /\ op \in Mutations /\ tail \in Seq(Mutations)
        /\ op.by \in Ours
    BY <1>0, Pop, MutationFields DEF Typed
  <1>p. \A t \in Slots : NoneBy(ops, t) => NoneBy(tail, t)
    BY <1>0, <1>1, Pop
  <1>b. op.by \in Slots =>
          /\ run[op.by].phase \notin {"idle", "running"} /\ NoneBy(tail, op.by)
    <2> SUFFICES ASSUME op.by \in Slots
                 PROVE  run[op.by].phase \notin {"idle", "running"} /\ NoneBy(tail, op.by)
      OBVIOUS
    <2>1. ~NoneBy(ops, op.by)
      BY <1>0, <1>1, Pop
    <2>2. run[op.by].phase \notin {"idle", "running"}
      BY <2>1 DEF Books
    <2>3. OneBy(ops, op.by, KindOf(run[op.by].phase))
      BY <2>2 DEF Books
    <2> QED  BY <1>0, <1>1, <2>2, <2>3, Pop
  <1>2. /\ Books' /\ OneRun' /\ RoomLeft' /\ ops' \in Seq(Mutations)
        /\ run' \in [Slots -> [phase : Phases, status : Statuses]]
    <2>1. CASE op.by = "scheduler" /\ ops' = tail /\ run' = run
      <3>1. Books'
        <4> SUFFICES ASSUME NEW t \in Slots
                     PROVE  IF run[t].phase \in {"idle", "running"} THEN NoneBy(tail, t)
                            ELSE OneBy(tail, t, KindOf(run[t].phase))
          BY <2>1 DEF Books
        <4>1. op.by # t
          BY <2>1, NullsAssumption
        <4> QED  BY <1>0, <1>1, <4>1, Pop DEF Books
      <3> QED  BY <1>0, <1>1, <2>1, <3>1 DEF Typed, OneRun, RoomLeft, Exhausted
    <2>2. CASE /\ op.by # "scheduler" /\ run[op.by].phase = "appending"
               /\ run' = [run EXCEPT ![op.by].phase = "updating"]
               /\ ops' = Append(tail, Update(StatusPatch(run[op.by].status), op.by))
      <3> DEFINE s == op.by
                 next == Update(StatusPatch(run[s].status), s)
      <3>1. s \in Slots
        BY <1>1, <2>2 DEF Ours
      <3>2. run[s].status \in Statuses
        BY <3>1 DEF Typed
      <3>3. next \in Mutations /\ next.by = s /\ next.kind = KindOf("updating")
        BY <3>1, <3>2 DEF Mutations, StatusUpdates, Update, KindOf
      <3>4. "updating" \in Phases \ {"idle", "running", "closing"}
        BY DEF Phases
      <3>5. CapGrows
        BY <1>0 DEF CapGrows, Typed
      <3> HIDE DEF next
      <3> QED  BY <1>0, <1>1, <1>p, <1>b, <2>2, <3>1, <3>3, <3>4, <3>5, RunPushes DEF next
    <2>3. CASE /\ op.by # "scheduler"
               /\ run' = [run EXCEPT ![op.by] = Idle] /\ ops' = tail
      <3> DEFINE s == op.by
      <3>1. s \in Slots
        BY <1>1, <2>3 DEF Ours
      <3>2. /\ \A t \in Slots : run'[t].phase = "idle"
            /\ run' \in [Slots -> [phase : Phases, status : Statuses]]
        BY <1>b, <2>3, <3>1 DEF OneRun, Typed, Idle, Phases, Statuses
      <3>3. \A t \in Slots \ {s} : NoneBy(ops, t)
        BY <1>b, <3>1 DEF OneRun, Books
      <3>4. \A t \in Slots : NoneBy(tail, t)
        BY <1>b, <1>p, <3>1, <3>3
      <3> QED  BY <1>1, <2>3, <3>2, <3>4 DEF Books, OneRun, RoomLeft
    <2> QED  BY <2>1, <2>2, <2>3 DEF MutationFails
  <1>3. Typed' /\ Writing' /\ Counted' /\ CalmSoFar'
    <2>1. failures' \in Nat /\ failures' # 0
      BY <1>0 DEF Typed
    <2> QED  BY <1>0, <1>2, <2>1 DEF Typed, Writing, Counted, CalmSoFar
  <1> QED  BY <1>2, <1>3

(* What was in flight is forgotten; what is on disk is the record.         *)
LEMMA RestartKeeps ==
  ASSUME IInv, Restart
  PROVE  IInv'
PROOF
  <1> USE DEF IInv, Restart
  <1>1. rec' \in {rec, Gone} /\ file' \in {rec', Gone, Torn}
    BY DEF Typed
  <1>2. /\ \A s \in Slots : run'[s].phase = "idle" 
        /\ run' \in [Slots -> [phase : Phases, status : Statuses]]
    BY DEF Idle, Phases, Statuses
  <1>j. job' = Registers(rec') /\ job' \in BOOLEAN
    BY DEF Registers, Schedulable
  <1>k. ops' = <<>> /\ ops' \in Seq(Mutations) /\ ops' \in Seq(Calm)
    OBVIOUS
  <1>l. rec' \in Records \cup {Gone} /\ writing' \in BOOLEAN
        /\ failures' \in Nat /\ appended' \in Nat /\ cap' \in Nat
    BY <1>1 DEF Typed
  <1>3. Typed'
    BY <1>1, <1>2, <1>j, <1>k, <1>l DEF Typed
  <1>4. Books'
    BY <1>2 DEF Books, NoneBy
  <1>5. OneRun' /\ RoomLeft' /\ Writing' /\ Counted'
    BY <1>1, <1>2 DEF OneRun, RoomLeft, Writing, Counted
  <1>6. CalmSoFar'
    BY <1>j, <1>k DEF CalmSoFar
  <1> QED  BY <1>3, <1>4, <1>5, <1>6

LEMMA NextIInv == IInv /\ [Next]_vars => IInv'
PROOF
  <1> SUFFICES ASSUME IInv, [Next]_vars
               PROVE  IInv'
    OBVIOUS
  <1>1. CASE UpdateAutomation \/ DeleteAutomation
    BY <1>1, RequestKeeps
  <1>2. CASE RunManually \/ QuestCompleted
    BY <1>2, ExecuteKeeps DEF RunManually, QuestCompleted
  <1>3. CASE Tick
    BY <1>3, TickKeeps
  <1>4. ASSUME NEW s \in Slots, RunSucceeds(s) \/ RunFails(s) \/ RunUnrecorded(s)
        PROVE  IInv'
    BY <1>4, RunSucceedsKeeps, RunFailsKeeps, RunUnrecordedKeeps
  <1>5. CASE MutationBegins
    BY <1>5, MutationBeginsKeeps
  <1>6. CASE MutationEnds
    BY <1>6, MutationEndsKeeps
  <1>7. CASE MutationFails
    BY <1>7, MutationFailsKeeps
  <1>8. CASE MutationFindsNone
    BY <1>8, MutationFindsNoneKeeps
  <1>9. CASE Restart
    BY <1>9, RestartKeeps
  <1>10. CASE UNCHANGED vars
    BY <1>10
    DEF vars, IInv, Typed, Books, OneRun, Writing, Counted, RoomLeft, Exhausted, CalmSoFar,
        Schedulable
  <1> QED
    BY <1>1, <1>2, <1>3, <1>4, <1>5, <1>6, <1>7, <1>8, <1>9, <1>10 DEF Next

-----------------------------------------------------------------------------
THEOREM Invariance == Spec => []IInv
PROOF
  BY InitIInv, NextIInv, PTL DEF Spec

(* What one owner has in the FIFO, as a number.                            *)
LEMMA NumberBy ==
  ASSUME NEW o, NEW s
  PROVE  /\ NoneBy(o, s) => Cardinality({ i \in 1..Len(o) : o[i].by = s }) = 0
         /\ \A k : OneBy(o, s, k) => Cardinality({ i \in 1..Len(o) : o[i].by = s }) = 1
PROOF
  <1> DEFINE S == { i \in 1..Len(o) : o[i].by = s }
  <1>1. NoneBy(o, s) => S = {}
    BY DEF NoneBy
  <1>2. ASSUME NEW k, OneBy(o, s, k)
        PROVE  \E i : S = {i}
    BY <1>2 DEF OneBy
  <1> HIDE DEF S
  <1>3. NoneBy(o, s) => Cardinality(S) = 0
    BY <1>1, FS_EmptySet
  <1>4. \A k : OneBy(o, s, k) => Cardinality(S) = 1
    BY <1>2, FS_Singleton
  <1> QED  BY <1>3, <1>4 DEF S

LEMMA IInvTypeOK == IInv => TypeOK
PROOF
  <1> SUFFICES ASSUME IInv
               PROVE  TypeOK
    OBVIOUS
  <1>1. \A s \in Slots : Cardinality({ i \in 1..Len(ops) : ops[i].by = s })
                           = IF run[s].phase \in {"idle", "running"} THEN 0 ELSE 1
    <2> SUFFICES ASSUME NEW s \in Slots
                 PROVE  Cardinality({ i \in 1..Len(ops) : ops[i].by = s })
                          = IF run[s].phase \in {"idle", "running"} THEN 0 ELSE 1
      OBVIOUS
    <2>1. IF run[s].phase \in {"idle", "running"} THEN NoneBy(ops, s)
          ELSE OneBy(ops, s, KindOf(run[s].phase))
      BY DEF IInv, Books
    <2> QED  BY <2>1, NumberBy
  <1> QED  BY <1>1 DEF TypeOK, IInv, Typed

(* Types, and the books of every execution: its phase says what it has in  *)
(* the store's FIFO.                                                       *)
THEOREM TypeCorrect == Spec => []TypeOK
PROOF
  BY Invariance, IInvTypeOK, PTL

(* Every history entry counts once, and maxRuns, or the highest value it   *)
(* was given, is never exceeded.                                           *)
THEOREM RunsAreCounted == Spec => []RunsCounted
PROOF
  <1>1. IInv => RunsCounted
    BY IInvTypeOK DEF RunsCounted, IInv, Counted
  <1> QED  BY <1>1, Invariance, PTL

(* Without failures an active scheduled automation that has a schedule has *)
(* its cron job.                                                           *)
THEOREM NotForgotten == Spec => []ActiveHasJob
PROOF
  <1>1. IInv => ActiveHasJob
    BY DEF ActiveHasJob, IInv, CalmSoFar, Deletes
  <1> QED  BY <1>1, Invariance, PTL

(* A pause is undone by the user only, a deletion by nothing.              *)
THEOREM DecisionsStand == Spec => UserDecides
PROOF
  <1> DEFINE A == /\ rec = Gone => rec' = Gone
                  /\ rec # Gone /\ rec' # Gone /\ failures = 0 /\ rec.status # "active"
                       => rec'.status # "active" \/ Head(ops).by = "scheduler"
  <1>1. ASSUME IInv, [Next]_vars
        PROVE  [A]_vars
    <2>1. CASE MutationEnds
      <3>1. /\ ops \in Seq(Mutations) /\ ops # <<>> /\ rec \in Records /\ rec # Gone
            /\ rec' = Applied(rec, Head(ops))
        BY <1>1, <2>1, NullsAssumption DEF MutationEnds, IInv, Writing, Typed
      <3>2. ASSUME failures = 0, Head(ops).by # "scheduler"
            PROVE  rec'.status \in {rec.status, "completed"}
        <4>1. Head(ops) \in Calm
          BY <1>1, <3>1, <3>2 DEF IInv, CalmSoFar
        <4> QED  BY <3>1, <3>2, <4>1, CalmApplied
      <3> QED  BY <3>1, <3>2
    <2>2. CASE Restart
      <3>1. rec' \in {rec, Gone}
        BY <1>1, <2>2 DEF Restart, IInv, Typed
      <3> QED  BY <3>1
    <2>3. CASE rec' = rec
      BY <2>3
    <2>4. ASSUME ~MutationEnds, ~Restart
          PROVE  rec' = rec
      BY <1>1, <2>4
      DEF Next, vars, UpdateAutomation, DeleteAutomation, Request, RunManually, QuestCompleted,
          Tick, Execute, RunSucceeds, RunFails, RunUnrecorded, MutationBegins, MutationFails,
          MutationFindsNone
    <2> QED  BY <2>1, <2>2, <2>3, <2>4
  <1>2. Spec => [][A]_vars
    BY <1>1, Invariance, PTL DEF Spec
  <1> QED  BY <1>2 DEF UserDecides
=============================================================================
