----------------------- MODULE ApprovalCoordinatorProofs -----------------------
(***************************************************************************)
(* IInv is an inductive invariant of ApprovalCoordinator, for any requests *)
(* and any number of crashes and failed writes.  First what the job queue  *)
(* holds after a job is added or done, then one lemma per action, then the *)
(* theorems.                                                               *)
(***************************************************************************)
EXTENDS ApprovalCoordinator, TLAPS, SequenceTheorems

(* A job added at the end of the mutation queue.                           *)
LEMMA AppendFacts ==
  ASSUME NEW q \in Seq(Jobs), NEW e \in Jobs
  PROVE  /\ Append(q, e) \in Seq(Jobs) /\ Append(q, e) # <<>>
         /\ Range(Append(q, e)) = Range(q) \cup {e}
         /\ q # <<>> => Head(Append(q, e)) = Head(q)
         /\ OnePerClient(q) /\ (e.kind \in {"enqueue", "wait"} =>
              \A j \in Range(q) : ~(j.kind = e.kind /\ j.id = e.id))
            => OnePerClient(Append(q, e))
PROOF
  <1> DEFINE a == Append(q, e)
             n == Len(q)
  <1>1. /\ n \in Nat /\ a \in Seq(Jobs) /\ a # <<>> /\ Len(a) = n + 1
        /\ DOMAIN q = 1..n /\ DOMAIN a = 1..n+1
        /\ \A k \in 1..n : a[k] = q[k]
        /\ a[n+1] = e
        /\ q # <<>> => n # 0 /\ Head(a) = a[1] /\ Head(q) = q[1]
    OBVIOUS
  <1> HIDE DEF a, n
  <1>2. Range(a) = Range(q) \cup {e}
    <2>1. \A x \in Range(a) : x \in Range(q) \cup {e}
      <3>1. \A k \in 1..n+1 : k \in 1..n \/ k = n + 1
        BY <1>1
      <3> QED  BY <1>1, <3>1 DEF Range
    <2>2. \A x \in Range(q) \cup {e} : x \in Range(a)
      <3>1. \A k \in 1..n : k \in 1..n+1
        BY <1>1
      <3>2. n + 1 \in 1..n+1
        BY <1>1
      <3> QED  BY <1>1, <3>1, <3>2 DEF Range
    <2> QED  BY <2>1, <2>2
  <1>3. q # <<>> => Head(a) = Head(q)
    BY <1>1
  <1>4. ASSUME OnePerClient(q),
               e.kind \in {"enqueue", "wait"} =>
                 \A j \in Range(q) : ~(j.kind = e.kind /\ j.id = e.id),
               NEW k \in 1..n+1, NEW l \in 1..n+1,
               a[k].kind \in {"enqueue", "wait"},
               a[k].kind = a[l].kind, a[k].id = a[l].id
        PROVE  k = l
    <2>1. CASE k \in 1..n /\ l \in 1..n
      BY <1>1, <1>4, <2>1 DEF OnePerClient
    <2>2. \A i \in 1..n : q[i] \in Range(q)
      BY <1>1 DEF Range
    <2>3. k # n + 1 => k \in 1..n
      BY <1>1
    <2>4. l # n + 1 => l \in 1..n
      BY <1>1
    <2>5. CASE k = n + 1 /\ l # n + 1
      BY <1>1, <1>4, <2>2, <2>4, <2>5
    <2>6. CASE k # n + 1 /\ l = n + 1
      BY <1>1, <1>4, <2>2, <2>3, <2>6
    <2> QED  BY <2>1, <2>3, <2>4, <2>5, <2>6
  <1> QED  BY <1>1, <1>2, <1>3, <1>4 DEF OnePerClient, a

(* A finished job leaves the front of the queue.                           *)
LEMMA TailFacts ==
  ASSUME NEW q \in Seq(Jobs), q # <<>>
  PROVE  /\ Tail(q) \in Seq(Jobs) /\ Head(q) \in Jobs
         /\ Range(q) = Range(Tail(q)) \cup {Head(q)}
         /\ OnePerClient(q) => OnePerClient(Tail(q))
         /\ OnePerClient(q) /\ Head(q).kind \in {"enqueue", "wait"} =>
              \A j \in Range(Tail(q)) : ~(j.kind = Head(q).kind /\ j.id = Head(q).id)
PROOF
  <1> DEFINE t == Tail(q)
             n == Len(q)
  <1>1. /\ n \in Nat /\ n # 0 /\ t \in Seq(Jobs) /\ Len(t) = n - 1
        /\ DOMAIN q = 1..n /\ DOMAIN t = 1..n-1
        /\ \A k \in 1..n-1 : t[k] = q[k+1] /\ k + 1 \in 1..n
        /\ Head(q) = q[1] /\ 1 \in 1..n /\ Head(q) \in Jobs
    OBVIOUS
  <1>2. \A k \in 1..n : k # 1 => k - 1 \in 1..n-1 /\ q[k] = t[k-1]
    BY <1>1
  <1> HIDE DEF t, n
  <1>3. Range(q) = Range(t) \cup {Head(q)}
    <2>1. ASSUME NEW k \in 1..n  PROVE q[k] \in Range(t) \cup {Head(q)}
      <3>1. CASE k # 1
        BY <1>1, <1>2, <3>1 DEF Range
      <3> QED  BY <1>1, <3>1
    <2>2. ASSUME NEW k \in 1..n-1  PROVE t[k] \in Range(q)
      BY <1>1 DEF Range
    <2>3. Head(q) \in Range(q)
      BY <1>1 DEF Range
    <2> QED  BY <1>1, <2>1, <2>2, <2>3 DEF Range
  <1>4. ASSUME OnePerClient(q) PROVE OnePerClient(t)
    <2>1. ASSUME NEW k \in 1..n-1, NEW l \in 1..n-1,
                 t[k].kind \in {"enqueue", "wait"},
                 t[k].kind = t[l].kind, t[k].id = t[l].id
          PROVE  k = l
      <3>1. k + 1 \in 1..n /\ l + 1 \in 1..n /\ t[k] = q[k+1] /\ t[l] = q[l+1]
        BY <1>1
      <3>2. k + 1 = l + 1
        BY <1>1, <1>4, <2>1, <3>1 DEF OnePerClient
      <3> QED  BY <1>1, <3>2
    <2> QED  BY <1>1, <2>1 DEF OnePerClient
  <1>5. ASSUME OnePerClient(q), Head(q).kind \in {"enqueue", "wait"},
               NEW j \in Range(t)
        PROVE  ~(j.kind = Head(q).kind /\ j.id = Head(q).id)
    <2>1. PICK k \in 1..n-1 : j = t[k]
      BY <1>1 DEF Range
    <2>2. k + 1 # 1 /\ k + 1 \in 1..n /\ j = q[k+1]
      BY <1>1, <2>1
    <2> QED  BY <1>1, <1>5, <2>2 DEF OnePerClient
  <1> QED  BY <1>1, <1>3, <1>4, <1>5 DEF t

(* Marking a row leaves a sequence of rows.                                *)
LEMMA MarkRowType ==
  ASSUME NEW rows \in Seq([decision : Decisions, delivered : BOOLEAN])
  PROVE  MarkRow(rows) \in Seq([decision : Decisions, delivered : BOOLEAN])
PROOF
  <1> DEFINE R == [decision : Decisions, delivered : BOOLEAN]
             n == Len(rows)
             x == Max({ k \in DOMAIN rows : ~rows[k].delivered })
             new == [rows EXCEPT ![x].delivered = TRUE]
  <1>0. rows \in Seq(R)
    OBVIOUS
  <1>1. n \in Nat /\ rows \in [1..n -> R]
    <2> HIDE DEF R
    <2> QED  BY <1>0, LenProperties
  <1> HIDE DEF n, x
  <1>2. new \in [1..n -> R]
    BY <1>1
  <1>3. new \in Seq(R)
    <2> HIDE DEF new, R
    <2> QED  BY <1>1, <1>2
  <1> QED  BY <1>3 DEF MarkRow, x

(* An answer taken from a justified ruling is justified.                   *)
LEMMA AnswerIsRuling ==
  ASSUME NEW id \in Ids, NEW d \in Decisions, Justified(id, d)
  PROVE  /\ AnswerFor(d) = "allow" => Justified(id, "approve")
         /\ AnswerFor(d) = "deny"  => Justified(id, "reject")
BY DEF AnswerFor, Decisions

(* A request joins the queue; its client was idle, so it has no other job. *)
LEMMA RequestStep ==
  ASSUME IInv, NEW id \in Ids, Request(id)
  PROVE  IInv'
PROOF
  <1> USE DEF mapVars, diskVars, worldVars, boundVars, Decisions, Terminal,
            Resolvers, Job
  <1>0. /\ TypeOK /\ FailClosed /\ WaitedForIsKnown /\ PendingIsArmed
        /\ SnapshotCurrent /\ RulingsSound /\ RunningSound /\ ClientsSound
        /\ JobsSound /\ jobs \in Seq(Jobs)
    BY DEF IInv, TypeOK
  <1> DEFINE e == Job("enqueue", id, "none")
  <1>e. e \in Jobs /\ jobs' = Append(jobs, e)
    BY <1>0, TimeoutAssumption DEF Jobs, Request
  <1>j. /\ jobs' \in Seq(Jobs) /\ jobs' # <<>>
        /\ Range(jobs') = Range(jobs) \cup {e}
        /\ jobs # <<>> => Head(jobs') = Head(jobs)
        /\ OnePerClient(jobs) /\ (e.kind \in {"enqueue", "wait"} =>
             \A j \in Range(jobs) : ~(j.kind = e.kind /\ j.id = e.id))
             => OnePerClient(jobs')
        /\ \A j \in Range(jobs) : j \in Jobs
    <2>1. \A j \in Range(jobs) : j \in Jobs
      BY <1>0 DEF Range
    <2> QED  BY <1>0, <1>e, <2>1, AppendFacts
  <1>1. TypeOK'
    BY <1>0, <1>j DEF TypeOK, ClientStates, Entries, AnswerFor, Request
  <1>2. FailClosed'
    BY <1>0, <1>j DEF TypeOK, FailClosed, RulingsSound, JobsSound, JobSound,
       Justified, WaitedForIsKnown, AnswerFor, Request
  <1>3. WaitedForIsKnown'
    BY <1>0, <1>j DEF TypeOK, WaitedForIsKnown, ClientsSound, JobsSound,
       JobSound, RunningSound, AnswerFor, Request
  <1>4. PendingIsArmed'
    BY <1>0, <1>j DEF TypeOK, PendingIsArmed, RunningSound, Request
  <1>5. SnapshotCurrent'
    BY <1>0, <1>j DEF TypeOK, SnapshotCurrent, RunningSound, Request
  <1>6. RulingsSound'
    BY <1>0, <1>j DEF TypeOK, RulingsSound, Justified, JobsSound, JobSound, Request
  <1>7. JobsSound'
    <2>1. \A j \in Range(jobs) : JobSound(j)'
      BY <1>0, <1>j DEF TypeOK, Jobs, JobsSound, JobSound, Justified, Request
    <2>2. JobSound(e)'
      BY <1>0, <1>j DEF TypeOK, JobSound, Justified, RulingsSound, AnswerFor, Request
    <2>3. OnePerClient(jobs')
      BY <1>0, <1>j DEF JobsSound, JobSound, Request
    <2> QED  BY <1>j, <2>1, <2>2, <2>3 DEF JobsSound
  <1>8. RunningSound'
    BY <1>0, <1>j DEF TypeOK, RunningSound, Request
  <1>9. ClientsSound'
    BY <1>0, <1>j DEF TypeOK, ClientsSound, RunningSound, JobsSound, JobSound,
       AnswerFor, Request
  <1> QED  BY <1>1, <1>2, <1>3, <1>4, <1>5, <1>6, <1>7, <1>8, <1>9 DEF IInv

(* The maps come from a snapshot whose rulings are justified.              *)
LEMMA LoadStep ==
  ASSUME IInv, Load
  PROVE  IInv'
PROOF
  <1> USE DEF mapVars, diskVars, worldVars, boundVars, Decisions, Terminal,
            Resolvers, Job
  <1>0. /\ TypeOK /\ FailClosed /\ WaitedForIsKnown /\ PendingIsArmed
        /\ SnapshotCurrent /\ RulingsSound /\ RunningSound /\ ClientsSound
        /\ JobsSound /\ jobs \in Seq(Jobs)
    BY DEF IInv, TypeOK
  <1>j. jobs' = jobs
    BY DEF Load
  <1>1. TypeOK'
    BY <1>0, <1>j, HooksAssumption DEF TypeOK, ClientStates, Entries, AnswerFor, Load
  <1>2. FailClosed'
    BY <1>0, <1>j, HooksAssumption DEF TypeOK, FailClosed, RulingsSound, JobsSound, JobSound,
       Justified, WaitedForIsKnown, AnswerFor, Load
  <1>3. WaitedForIsKnown'
    BY <1>0, <1>j, HooksAssumption DEF TypeOK, WaitedForIsKnown, ClientsSound, JobsSound,
       JobSound, RunningSound, AnswerFor, Load
  <1>4. PendingIsArmed'
    <2>1. CASE torn
      BY <1>0, <2>1 DEF PendingIsArmed, Load
    <2>2. CASE ~torn
      <3>1. ASSUME NEW id \in Ids, approvals'[id] = "pending"  PROVE id \in timers'
        BY <2>2, <3>1 DEF Load
      <3> QED  BY <3>1 DEF PendingIsArmed
    <2> QED  BY <2>1, <2>2
  <1>5. SnapshotCurrent'
    BY <1>0, <1>j, HooksAssumption DEF TypeOK, SnapshotCurrent, RunningSound, Load
  <1>6. RulingsSound'
    <2>1. \A id \in Ids : approvals'[id] \in {approvals[id], file[id], "none"}
      BY <1>0 DEF TypeOK, Load
    <2>2. file' = file /\ asked' = asked /\ due' = due
      BY DEF Load
    <2> QED  BY <1>0, <2>1, <2>2 DEF RulingsSound, Justified
  <1>7. JobsSound'
    BY <1>0, <1>j, HooksAssumption DEF TypeOK, JobsSound, JobSound, Justified, AnswerFor, Load
  <1>8. RunningSound'
    BY <1>0, <1>j, HooksAssumption DEF TypeOK, RunningSound, Load
  <1>9. ClientsSound'
    BY <1>0, <1>j, HooksAssumption DEF TypeOK, ClientsSound, RunningSound, JobsSound, JobSound,
       AnswerFor, Load
  <1> QED  BY <1>1, <1>2, <1>3, <1>4, <1>5, <1>6, <1>7, <1>8, <1>9 DEF IInv

(* The approval gets its timer in the step that makes it pending.          *)
LEMMA StartEnqueueStep ==
  ASSUME IInv, StartEnqueue
  PROVE  IInv'
PROOF
  <1> USE DEF mapVars, diskVars, worldVars, boundVars, Decisions, Terminal,
            Resolvers, Job
  <1>0. /\ TypeOK /\ FailClosed /\ WaitedForIsKnown /\ PendingIsArmed
        /\ SnapshotCurrent /\ RulingsSound /\ RunningSound /\ ClientsSound
        /\ JobsSound /\ jobs \in Seq(Jobs)
    BY DEF IInv, TypeOK
  <1>j. jobs' = jobs /\ jobs # <<>> /\ Head(jobs) \in Jobs
        /\ Head(jobs) \in Range(jobs)
    BY <1>0, TailFacts DEF StartEnqueue, Running
  <1>1. TypeOK'
    BY <1>0, <1>j DEF TypeOK, ClientStates, Entries, AnswerFor, StartEnqueue, Running, Jobs
  <1>2. FailClosed'
    BY <1>0, <1>j DEF TypeOK, FailClosed, RulingsSound, JobsSound, JobSound,
       Justified, WaitedForIsKnown, AnswerFor, StartEnqueue, Running, Jobs
  <1>3. WaitedForIsKnown'
    BY <1>0, <1>j DEF TypeOK, WaitedForIsKnown, ClientsSound, JobsSound,
       JobSound, RunningSound, AnswerFor, StartEnqueue, Running, Jobs
  <1>4. PendingIsArmed'
    BY <1>0, <1>j DEF TypeOK, PendingIsArmed, RunningSound, StartEnqueue, Running, Jobs
  <1>5. SnapshotCurrent'
    BY <1>0, <1>j DEF TypeOK, SnapshotCurrent, RunningSound, StartEnqueue, Running, Jobs
  <1>6. RulingsSound'
    BY <1>0, <1>j DEF TypeOK, RulingsSound, Justified, JobsSound, JobSound, StartEnqueue, Running, Jobs
  <1>7. JobsSound'
    BY <1>0, <1>j DEF TypeOK, JobsSound, JobSound, Justified, AnswerFor, StartEnqueue, Running, Jobs
  <1>8. RunningSound'
    BY <1>0, <1>j DEF TypeOK, RunningSound, StartEnqueue, Running, Jobs
  <1>9. ClientsSound'
    BY <1>0, <1>j DEF TypeOK, ClientsSound, RunningSound, JobsSound, JobSound,
       AnswerFor, StartEnqueue, Running, Jobs
  <1> QED  BY <1>1, <1>2, <1>3, <1>4, <1>5, <1>6, <1>7, <1>8, <1>9 DEF IInv

(* A registering client finds its approval, so it is never answered with a *)
(* timeout that did not happen.                                            *)
LEMMA StartWaitStep ==
  ASSUME IInv, StartWait
  PROVE  IInv'
PROOF
  <1> USE DEF mapVars, diskVars, worldVars, boundVars, Decisions, Terminal,
            Resolvers, Job
  <1>0. /\ TypeOK /\ FailClosed /\ WaitedForIsKnown /\ PendingIsArmed
        /\ SnapshotCurrent /\ RulingsSound /\ RunningSound /\ ClientsSound
        /\ JobsSound /\ jobs \in Seq(Jobs)
    BY DEF IInv, TypeOK
  <1>h. jobs # <<>>
    BY <1>0 DEF TypeOK, Running, StartWait
  <1>j. /\ Tail(jobs) \in Seq(Jobs) /\ Head(jobs) \in Jobs
        /\ Range(jobs) = Range(Tail(jobs)) \cup {Head(jobs)}
        /\ OnePerClient(jobs) => OnePerClient(Tail(jobs))
        /\ OnePerClient(jobs) /\ Head(jobs).kind \in {"enqueue", "wait"} =>
             \A j \in Range(Tail(jobs)) :
               ~(j.kind = Head(jobs).kind /\ j.id = Head(jobs).id)
        /\ \A j \in Range(jobs) : j \in Jobs
        /\ jobs' = Tail(jobs)
    <2>1. \A j \in Range(jobs) : j \in Jobs
      BY <1>0 DEF Range
    <2> QED  BY <1>0, <1>h, <2>1, TailFacts DEF StartWait
  <1> DEFINE id == Head(jobs).id
  <1>k. /\ id \in Ids /\ client[id] = "registering" /\ approvals[id] # "none"
        /\ Head(jobs).kind = "wait" /\ loaded = "yes" /\ phase = "start"
        /\ client' = [client EXCEPT ![id] =
             IF approvals[id] = "pending" THEN "waiting" ELSE AnswerFor(approvals[id])]
        /\ UNCHANGED <<mapVars, loaded, phase, diskVars, worldVars, boundVars>>
    <2>1. id \in Ids /\ client[id] = "registering" /\ loaded = "yes"
      BY <1>0, <1>h, <1>j DEF JobsSound, JobSound, Jobs, StartWait, Running
    <2>2. approvals[id] # "none"
      BY <1>0, <2>1 DEF WaitedForIsKnown
    <2> QED  BY <2>1, <2>2 DEF StartWait, Running
  <1>s. \A x \in Ids, r \in Decisions : Justified(x, r)' <=> Justified(x, r)
    BY <1>k DEF Justified
  <1>1. TypeOK'
    BY <1>0, <1>j, <1>k DEF TypeOK, ClientStates, Entries, AnswerFor, StartWait, Running, Jobs
  <1>2. FailClosed'
    <2>1. ASSUME NEW x \in Ids
          PROVE  /\ client'[x] = "allow" => Justified(x, "approve")
                 /\ client'[x] = "deny"  => Justified(x, "reject")
      <3>1. CASE x = id /\ approvals[id] # "pending"
        <4>1. approvals[id] \in Decisions /\ Justified(id, approvals[id])
          BY <1>0, <1>k, <3>1 DEF TypeOK, Entries, RulingsSound
        <4> QED  BY <1>0, <1>k, <3>1, <4>1, AnswerIsRuling DEF TypeOK
      <3>2. CASE x # id
        BY <1>0, <1>k, <3>2 DEF FailClosed, TypeOK
      <3> QED  BY <1>0, <1>k, <3>1, <3>2 DEF TypeOK
    <2> QED  BY <1>s, <2>1 DEF FailClosed
  <1>3. WaitedForIsKnown'
    BY <1>0, <1>j, <1>k DEF TypeOK, WaitedForIsKnown, ClientsSound, JobsSound,
       JobSound, RunningSound, AnswerFor, StartWait, Running, Jobs
  <1>4. PendingIsArmed'
    <2>1. \A j \in Range(jobs) : j.kind \in Resolvers => j \in Range(jobs')
      BY <1>j, <1>k
    <2> QED  BY <1>0, <1>k, <2>1 DEF PendingIsArmed
  <1>5. SnapshotCurrent'
    BY <1>0, <1>j, <1>k DEF TypeOK, SnapshotCurrent, RunningSound, StartWait, Running, Jobs
  <1>6. RulingsSound'
    BY <1>0, <1>j, <1>k DEF TypeOK, RulingsSound, Justified, JobsSound, JobSound, StartWait, Running, Jobs
  <1>7. JobsSound'
    <2>1. ASSUME NEW j \in Range(jobs')  PROVE JobSound(j)'
      <3>1. j \in Jobs /\ JobSound(j) /\ ~(j.kind = "wait" /\ j.id = id)
        BY <1>0, <1>j, <1>k DEF JobsSound
      <3>2. j.decision \in Decisions => (Justified(j.id, j.decision)' <=> Justified(j.id, j.decision))
        BY <1>s, <3>1 DEF Jobs
      <3> QED  BY <1>0, <1>k, <3>1, <3>2 DEF JobSound, Jobs, TypeOK
    <2> QED  BY <1>0, <1>j, <2>1 DEF JobsSound
  <1>8. RunningSound'
    BY <1>0, <1>j, <1>k DEF TypeOK, RunningSound, StartWait, Running, Jobs
  <1>9. ClientsSound'
    BY <1>0, <1>j, <1>k DEF TypeOK, ClientsSound, RunningSound, JobsSound, JobSound,
       AnswerFor, StartWait, Running, Jobs
  <1> QED  BY <1>1, <1>2, <1>3, <1>4, <1>5, <1>6, <1>7, <1>8, <1>9 DEF IInv

(* A decision answers the waiter and removes the approval, or is kept; in  *)
(* both cases it is the job's, which is justified.                         *)
LEMMA StartResolveStep ==
  ASSUME IInv, StartResolve
  PROVE  IInv'
PROOF
  <1> USE DEF mapVars, diskVars, worldVars, boundVars, Decisions, Terminal,
            Resolvers, Job
  <1>0. /\ TypeOK /\ FailClosed /\ WaitedForIsKnown /\ PendingIsArmed
        /\ SnapshotCurrent /\ RulingsSound /\ RunningSound /\ ClientsSound
        /\ JobsSound /\ jobs \in Seq(Jobs)
    BY DEF IInv, TypeOK
  <1>j. jobs' = jobs /\ jobs # <<>> /\ Head(jobs) \in Jobs
        /\ Head(jobs) \in Range(jobs)
    BY <1>0, TailFacts DEF StartResolve, Running
  <1> DEFINE id == Head(jobs).id
             d  == Head(jobs).decision
  <1>k. /\ id \in Ids /\ d \in Decisions /\ Justified(id, d)
        /\ loaded = "yes" /\ phase = "start" /\ approvals[id] = "pending"
        /\ timers' = timers \ {id} /\ phase' = "persist"
        /\ approvals' = [approvals EXCEPT ![id] =
                           IF client[id] = "waiting" THEN "none" ELSE d]
        /\ client' = IF client[id] = "waiting"
                     THEN [client EXCEPT ![id] = AnswerFor(d)] ELSE client
        /\ verdict' = [verdict EXCEPT ![id] = d]
        /\ UNCHANGED <<loaded, jobs, diskVars, worldVars, boundVars>>
    BY <1>0, <1>j DEF JobsSound, JobSound, Jobs, StartResolve, Running
  <1>s. \A x \in Ids, r \in Decisions : Justified(x, r)' <=> Justified(x, r)
    BY <1>k DEF Justified
  <1>1. TypeOK'
    BY <1>0, <1>j, <1>k DEF TypeOK, ClientStates, Entries, AnswerFor, StartResolve, Running, Jobs
  <1>2. FailClosed'
    <2>1. ASSUME NEW x \in Ids
          PROVE  /\ client'[x] = "allow" => Justified(x, "approve")
                 /\ client'[x] = "deny"  => Justified(x, "reject")
      <3>1. CASE x = id /\ client[id] = "waiting"
        BY <1>0, <1>k, <3>1, AnswerIsRuling DEF TypeOK
      <3>2. CASE client'[x] = client[x]
        BY <1>0, <3>2 DEF FailClosed
      <3> QED  BY <1>0, <1>k, <3>1, <3>2 DEF TypeOK
    <2> QED  BY <1>s, <2>1 DEF FailClosed
  <1>3. WaitedForIsKnown'
    BY <1>0, <1>j, <1>k DEF TypeOK, WaitedForIsKnown, ClientsSound, JobsSound,
       JobSound, RunningSound, AnswerFor, StartResolve, Running, Jobs
  <1>4. PendingIsArmed'
    BY <1>0, <1>j, <1>k DEF TypeOK, PendingIsArmed, RunningSound, StartResolve, Running, Jobs
  <1>5. SnapshotCurrent'
    BY <1>0, <1>j, <1>k DEF TypeOK, SnapshotCurrent, RunningSound, StartResolve, Running, Jobs
  <1>6. RulingsSound'
    <2>1. ASSUME NEW x \in Ids
          PROVE  approvals'[x] = approvals[x] \/ approvals'[x] = "none" \/ (x = id /\ approvals'[x] = d)
      <3> HIDE DEF id, d
      <3> QED  BY <1>0, <1>k DEF TypeOK
    <2>2. file' = file
      BY <1>k
    <2> QED  BY <1>0, <1>k, <1>s, <2>1, <2>2 DEF RulingsSound
  <1>7. JobsSound'
    BY <1>0, <1>j, <1>k DEF TypeOK, JobsSound, JobSound, Justified, AnswerFor, StartResolve, Running, Jobs
  <1>8. RunningSound'
    BY <1>0, <1>j, <1>k DEF TypeOK, RunningSound, StartResolve, Running, Jobs
  <1>9. ClientsSound'
    BY <1>0, <1>j, <1>k DEF TypeOK, ClientsSound, RunningSound, JobsSound, JobSound,
       AnswerFor, StartResolve, Running, Jobs
  <1> QED  BY <1>1, <1>2, <1>3, <1>4, <1>5, <1>6, <1>7, <1>8, <1>9 DEF IInv

(* What the end of a resolve job does to the queue and to its poll's       *)
(* client.                                                                 *)
LEMMA ReplyFacts ==
  ASSUME TypeOK, JobsSound, ClientsSound, jobs # <<>>, loaded = "yes",
         Head(jobs).kind \in Resolvers, ReplyFor(Head(jobs))
  PROVE  /\ jobs' \in Seq(Jobs) /\ OnePerClient(jobs') /\ Head(jobs) \in Jobs
         /\ Head(jobs) \in Range(jobs)
         /\ \A j \in Range(jobs') :
              \/ j \in Range(jobs)
              \/ /\ j = Job("delivered", Head(jobs).id, "none")
                 /\ client[Head(jobs).id] = "expiring"
                 /\ client'[Head(jobs).id] \in Terminal
         /\ \A j \in Range(jobs) : j = Head(jobs) \/ j \in Range(jobs')
         /\ \A j \in Range(jobs) : j \in Jobs
         /\ client' \in [Ids -> ClientStates]
         /\ \A id \in Ids :
              \/ client'[id] = client[id]
              \/ /\ client[id] = "expiring" /\ approvals[id] \in Decisions
                 /\ client'[id] = AnswerFor(approvals[id])
              \/ client[id] = "expiring" /\ client'[id] = "closed"
PROOF
  <1> DEFINE id == Head(jobs).id
             t == Tail(jobs)
             e == Job("delivered", id, "none")
  <1>1. /\ t \in Seq(Jobs) /\ Head(jobs) \in Jobs
        /\ Range(jobs) = Range(t) \cup {Head(jobs)}
        /\ OnePerClient(t)
    BY TailFacts DEF TypeOK, JobsSound
  <1>2. e \in Jobs /\ id \in Ids
    BY <1>1 DEF Jobs, Job
  <1>3. \A j \in Range(jobs) : j \in Jobs
    BY DEF TypeOK, Range
  <1>4. \/ jobs' = t
        \/ /\ jobs' = Append(t, e) /\ client[id] = "expiring"
           /\ client' = [client EXCEPT ![id] = AnswerFor(approvals[id])]
    BY DEF ReplyFor, PollReply
  <1>5. /\ Append(t, e) \in Seq(Jobs) /\ OnePerClient(Append(t, e))
        /\ Range(Append(t, e)) = Range(t) \cup {e}
    BY <1>1, <1>2, AppendFacts DEF Job
  <1>6. /\ client' \in [Ids -> ClientStates]
        /\ \A x \in Ids :
              \/ client'[x] = client[x]
              \/ /\ client[x] = "expiring" /\ approvals[x] \in Decisions
                 /\ client'[x] = AnswerFor(approvals[x])
              \/ client[x] = "expiring" /\ client'[x] = "closed"
    BY <1>2 DEF TypeOK, ReplyFor, PollReply, AnswerFor, ClientStates, Terminal
  <1>7. client' = [client EXCEPT ![id] = AnswerFor(approvals[id])] => client'[id] \in Terminal
    BY <1>2 DEF TypeOK, AnswerFor, Terminal
  <1> HIDE DEF t, e
  <1> QED  BY <1>1, <1>3, <1>4, <1>5, <1>6, <1>7 DEF e

(* A late decision changes nothing but the answer to the poll that waited  *)
(* for it.                                                                 *)
LEMMA SkipResolveStep ==
  ASSUME IInv, SkipResolve
  PROVE  IInv'
PROOF
  <1> USE DEF mapVars, diskVars, worldVars, boundVars, Decisions, Terminal,
            Resolvers, Job
  <1>0. /\ TypeOK /\ FailClosed /\ WaitedForIsKnown /\ PendingIsArmed
        /\ SnapshotCurrent /\ RulingsSound /\ RunningSound /\ ClientsSound
        /\ JobsSound /\ jobs \in Seq(Jobs)
    BY DEF IInv, TypeOK
  <1>h. /\ jobs # <<>> /\ loaded = "yes" /\ Head(jobs).kind \in Resolvers
        /\ approvals[Head(jobs).id] # "pending" /\ phase = "start"
        /\ ReplyFor(Head(jobs))
        /\ UNCHANGED <<mapVars, loaded, phase, diskVars, worldVars, boundVars>>
    BY DEF SkipResolve, Running
  <1>j. /\ jobs' \in Seq(Jobs) /\ OnePerClient(jobs') /\ Head(jobs) \in Jobs
        /\ Head(jobs) \in Range(jobs)
        /\ \A j \in Range(jobs') :
              \/ j \in Range(jobs)
              \/ /\ j = Job("delivered", Head(jobs).id, "none")
                 /\ client[Head(jobs).id] = "expiring"
                 /\ client'[Head(jobs).id] \in Terminal
        /\ \A j \in Range(jobs) : j = Head(jobs) \/ j \in Range(jobs')
        /\ \A j \in Range(jobs) : j \in Jobs
        /\ client' \in [Ids -> ClientStates]
        /\ \A id \in Ids :
              \/ client'[id] = client[id]
              \/ /\ client[id] = "expiring" /\ approvals[id] \in Decisions
                 /\ client'[id] = AnswerFor(approvals[id])
              \/ client[id] = "expiring" /\ client'[id] = "closed"
    BY <1>0, <1>h, ReplyFacts
  <1>s. \A id \in Ids, d \in Decisions : Justified(id, d)' <=> Justified(id, d)
    BY <1>h DEF Justified
  <1>1. TypeOK'
    BY <1>0, <1>j, <1>h DEF TypeOK, ClientStates, Entries, AnswerFor, Jobs
  <1>2. FailClosed'
    <2>1. ASSUME NEW id \in Ids
          PROVE  /\ client'[id] = "allow" => Justified(id, "approve")
                 /\ client'[id] = "deny"  => Justified(id, "reject")
      <3>1. approvals[id] \in Decisions => Justified(id, approvals[id])
        BY <1>0 DEF RulingsSound
      <3>2. CASE approvals[id] \in Decisions /\ client'[id] = AnswerFor(approvals[id])
        BY <3>1, <3>2, AnswerIsRuling
      <3>3. CASE client'[id] = client[id] \/ client'[id] = "closed"
        BY <1>0, <3>3 DEF FailClosed
      <3> QED  BY <1>j, <3>2, <3>3
    <2> QED  BY <1>s, <2>1 DEF FailClosed
  <1>3. WaitedForIsKnown'
    BY <1>0, <1>j, <1>h DEF TypeOK, WaitedForIsKnown, ClientsSound, JobsSound,
       JobSound, RunningSound, AnswerFor, Jobs
  <1>4. PendingIsArmed'
    BY <1>0, <1>j, <1>h DEF TypeOK, PendingIsArmed, RunningSound, Jobs
  <1>5. SnapshotCurrent'
    BY <1>0, <1>j, <1>h DEF TypeOK, SnapshotCurrent, RunningSound, Jobs
  <1>6. RulingsSound'
    <2>1. approvals' = approvals /\ file' = file
      BY <1>h
    <2> QED  BY <1>0, <1>s, <2>1 DEF RulingsSound
  <1>7. JobsSound'
    <2>1. ASSUME NEW j \in Range(jobs'), j \in Range(jobs)  PROVE JobSound(j)'
      <3>1. j \in Jobs /\ JobSound(j)
        BY <1>0, <1>j, <2>1 DEF JobsSound
      <3>2. j.decision \in Decisions => (Justified(j.id, j.decision)' <=> Justified(j.id, j.decision))
        BY <1>s, <3>1 DEF Jobs
      <3> QED  BY <1>j, <3>1, <3>2 DEF JobSound, Jobs, AnswerFor
    <2>2. ASSUME NEW j \in Range(jobs'), j \notin Range(jobs)  PROVE JobSound(j)'
      <3>1. /\ j = Job("delivered", Head(jobs).id, "none")
            /\ client[Head(jobs).id] = "expiring"
            /\ client'[Head(jobs).id] \in Terminal
            /\ Head(jobs).id \in Ids
        BY <1>j, <2>2 DEF Jobs
      <3> QED  BY <1>0, <3>1 DEF JobSound, ClientsSound
    <2> QED  BY <1>j, <2>1, <2>2 DEF JobsSound
  <1>8. RunningSound'
    BY <1>0, <1>j, <1>h DEF TypeOK, RunningSound, Jobs
  <1>9. ClientsSound'
    BY <1>0, <1>j, <1>h DEF TypeOK, ClientsSound, RunningSound, JobsSound, JobSound,
       AnswerFor, Jobs
  <1> QED  BY <1>1, <1>2, <1>3, <1>4, <1>5, <1>6, <1>7, <1>8, <1>9 DEF IInv

(* The file takes the map's rulings.                                       *)
LEMMA PersistStep ==
  ASSUME IInv, Persist
  PROVE  IInv'
PROOF
  <1> USE DEF mapVars, diskVars, worldVars, boundVars, Decisions, Terminal,
            Resolvers, Job
  <1>0. /\ TypeOK /\ FailClosed /\ WaitedForIsKnown /\ PendingIsArmed
        /\ SnapshotCurrent /\ RulingsSound /\ RunningSound /\ ClientsSound
        /\ JobsSound /\ jobs \in Seq(Jobs)
    BY DEF IInv, TypeOK
  <1>j. jobs' = jobs
    BY DEF Persist
  <1>1. TypeOK'
    BY <1>0, <1>j DEF TypeOK, ClientStates, Entries, AnswerFor, Persist
  <1>2. FailClosed'
    BY <1>0, <1>j DEF TypeOK, FailClosed, RulingsSound, JobsSound, JobSound,
       Justified, WaitedForIsKnown, AnswerFor, Persist
  <1>3. WaitedForIsKnown'
    BY <1>0, <1>j DEF TypeOK, WaitedForIsKnown, ClientsSound, JobsSound,
       JobSound, RunningSound, AnswerFor, Persist
  <1>4. PendingIsArmed'
    BY <1>0, <1>j DEF TypeOK, PendingIsArmed, RunningSound, Persist
  <1>5. SnapshotCurrent'
    BY <1>0, <1>j DEF TypeOK, SnapshotCurrent, RunningSound, Persist
  <1>6. RulingsSound'
    BY <1>0, <1>j DEF TypeOK, RulingsSound, Justified, JobsSound, JobSound, Persist
  <1>7. JobsSound'
    BY <1>0, <1>j DEF TypeOK, JobsSound, JobSound, Justified, AnswerFor, Persist
  <1>8. RunningSound'
    BY <1>0, <1>j DEF TypeOK, RunningSound, Persist
  <1>9. ClientsSound'
    BY <1>0, <1>j DEF TypeOK, ClientsSound, WaitedForIsKnown, Persist
  <1> QED  BY <1>1, <1>2, <1>3, <1>4, <1>5, <1>6, <1>7, <1>8, <1>9 DEF IInv

(* Time only adds to what is justified.                                    *)
LEMMA ExpireStep ==
  ASSUME IInv, NEW id \in Ids, Expire(id)
  PROVE  IInv'
PROOF
  <1> USE DEF mapVars, diskVars, worldVars, boundVars, Decisions, Terminal,
            Resolvers, Job
  <1>0. /\ TypeOK /\ FailClosed /\ WaitedForIsKnown /\ PendingIsArmed
        /\ SnapshotCurrent /\ RulingsSound /\ RunningSound /\ ClientsSound
        /\ JobsSound /\ jobs \in Seq(Jobs)
    BY DEF IInv, TypeOK
  <1>j. jobs' = jobs
    BY DEF Expire
  <1>r. \A j \in Range(jobs) : j \in Jobs
    BY <1>0 DEF Range
  <1>1. TypeOK'
    BY <1>0, <1>j DEF TypeOK, ClientStates, Entries, AnswerFor, Expire
  <1>2. FailClosed'
    BY <1>0, <1>j DEF TypeOK, FailClosed, RulingsSound, JobsSound, JobSound,
       Justified, WaitedForIsKnown, AnswerFor, Expire
  <1>3. WaitedForIsKnown'
    BY <1>0, <1>j DEF TypeOK, WaitedForIsKnown, ClientsSound, JobsSound,
       JobSound, RunningSound, AnswerFor, Expire
  <1>4. PendingIsArmed'
    BY <1>0, <1>j DEF TypeOK, PendingIsArmed, RunningSound, Expire
  <1>5. SnapshotCurrent'
    BY <1>0, <1>j DEF TypeOK, SnapshotCurrent, RunningSound, Expire
  <1>6. RulingsSound'
    BY <1>0, <1>j DEF TypeOK, RulingsSound, Justified, JobsSound, JobSound, Expire
  <1>7. JobsSound'
    BY <1>0, <1>j DEF TypeOK, JobsSound, JobSound, Justified, AnswerFor, Expire
  <1>8. RunningSound'
    BY <1>0, <1>j DEF TypeOK, RunningSound, Expire
  <1>9. ClientsSound'
    BY <1>0, <1>j DEF TypeOK, ClientsSound, RunningSound, JobsSound, JobSound,
       AnswerFor, Expire
  <1> QED  BY <1>1, <1>2, <1>3, <1>4, <1>5, <1>6, <1>7, <1>8, <1>9 DEF IInv

(* A hook that gives up blocks its action.                                 *)
LEMMA GiveUpStep ==
  ASSUME IInv, NEW id \in Ids, GiveUp(id)
  PROVE  IInv'
PROOF
  <1> USE DEF mapVars, diskVars, worldVars, boundVars, Decisions, Terminal,
            Resolvers, Job
  <1>0. /\ TypeOK /\ FailClosed /\ WaitedForIsKnown /\ PendingIsArmed
        /\ SnapshotCurrent /\ RulingsSound /\ RunningSound /\ ClientsSound
        /\ JobsSound /\ jobs \in Seq(Jobs)
    BY DEF IInv, TypeOK
  <1>j. jobs' = jobs
    BY DEF GiveUp
  <1>r. \A j \in Range(jobs) : j \in Jobs
    BY <1>0 DEF Range
  <1>1. TypeOK'
    BY <1>0, <1>j, <1>r DEF TypeOK, ClientStates, Entries, AnswerFor, GiveUp
  <1>2. FailClosed'
    BY <1>0, <1>j, <1>r DEF TypeOK, FailClosed, RulingsSound, JobsSound, JobSound,
       Justified, WaitedForIsKnown, AnswerFor, GiveUp
  <1>3. WaitedForIsKnown'
    BY <1>0, <1>j, <1>r DEF TypeOK, WaitedForIsKnown, ClientsSound, JobsSound,
       JobSound, RunningSound, AnswerFor, GiveUp
  <1>4. PendingIsArmed'
    BY <1>0, <1>j, <1>r DEF TypeOK, PendingIsArmed, RunningSound, GiveUp
  <1>5. SnapshotCurrent'
    BY <1>0, <1>j, <1>r DEF TypeOK, SnapshotCurrent, RunningSound, GiveUp
  <1>6. RulingsSound'
    BY <1>0, <1>j, <1>r DEF TypeOK, RulingsSound, Justified, JobsSound, JobSound, GiveUp
  <1>7. JobsSound'
    BY <1>0, <1>j, <1>r DEF TypeOK, JobsSound, JobSound, Jobs, Justified, AnswerFor, GiveUp
  <1>8. RunningSound'
    BY <1>0, <1>j, <1>r DEF TypeOK, RunningSound, GiveUp
  <1>9. ClientsSound'
    BY <1>0, <1>j, <1>r DEF TypeOK, ClientsSound, RunningSound, JobsSound, JobSound,
       AnswerFor, GiveUp
  <1> QED  BY <1>1, <1>2, <1>3, <1>4, <1>5, <1>6, <1>7, <1>8, <1>9 DEF IInv

(* The timer hands its approval to a job before it is gone.                *)
LEMMA TimerFiresStep ==
  ASSUME IInv, NEW id \in Ids, TimerFires(id)
  PROVE  IInv'
PROOF
  <1> USE DEF mapVars, diskVars, worldVars, boundVars, Decisions, Terminal,
            Resolvers, Job
  <1>0. /\ TypeOK /\ FailClosed /\ WaitedForIsKnown /\ PendingIsArmed
        /\ SnapshotCurrent /\ RulingsSound /\ RunningSound /\ ClientsSound
        /\ JobsSound /\ jobs \in Seq(Jobs)
    BY DEF IInv, TypeOK
  <1> DEFINE e == Job("timer", id, Timeout[id])
  <1>e. e \in Jobs /\ jobs' = Append(jobs, e)
    BY <1>0, TimeoutAssumption DEF Jobs, TimerFires
  <1>j. /\ jobs' \in Seq(Jobs) /\ jobs' # <<>>
        /\ Range(jobs') = Range(jobs) \cup {e}
        /\ jobs # <<>> => Head(jobs') = Head(jobs)
        /\ OnePerClient(jobs) /\ (e.kind \in {"enqueue", "wait"} =>
             \A j \in Range(jobs) : ~(j.kind = e.kind /\ j.id = e.id))
             => OnePerClient(jobs')
        /\ \A j \in Range(jobs) : j \in Jobs
    <2>1. \A j \in Range(jobs) : j \in Jobs
      BY <1>0 DEF Range
    <2> QED  BY <1>0, <1>e, <2>1, AppendFacts
  <1>1. TypeOK'
    BY <1>0, <1>j DEF TypeOK, ClientStates, Entries, AnswerFor, TimerFires
  <1>2. FailClosed'
    BY <1>0, <1>j DEF TypeOK, FailClosed, RulingsSound, JobsSound, JobSound,
       Justified, WaitedForIsKnown, AnswerFor, TimerFires
  <1>3. WaitedForIsKnown'
    BY <1>0, <1>j DEF TypeOK, WaitedForIsKnown, ClientsSound, JobsSound,
       JobSound, RunningSound, AnswerFor, TimerFires
  <1>4. PendingIsArmed'
    <2>1. /\ e \in Range(jobs') /\ e.kind = "timer" /\ e.id = id
          /\ \A j \in Range(jobs) : j \in Range(jobs')
      BY <1>j
    <2>2. /\ timers' = timers \ {id}
          /\ approvals' = approvals /\ loaded' = loaded
      BY DEF TimerFires
    <2> HIDE DEF e
    <2> QED  BY <1>0, <2>1, <2>2 DEF PendingIsArmed
  <1>5. SnapshotCurrent'
    BY <1>0, <1>j DEF TypeOK, SnapshotCurrent, RunningSound, TimerFires
  <1>6. RulingsSound'
    BY <1>0, <1>j DEF TypeOK, RulingsSound, Justified, JobsSound, JobSound, TimerFires
  <1>7. JobsSound'
    <2>1. \A j \in Range(jobs) : JobSound(j)'
      BY <1>0, <1>j DEF TypeOK, Jobs, JobsSound, JobSound, Justified, TimerFires
    <2>2. JobSound(e)'
      BY <1>0, <1>j, TimeoutAssumption DEF TypeOK, JobSound, Justified, RulingsSound, AnswerFor, TimerFires
    <2>3. OnePerClient(jobs')
      BY <1>0, <1>j DEF JobsSound, JobSound, TimerFires
    <2> QED  BY <1>j, <2>1, <2>2, <2>3 DEF JobsSound
  <1>8. RunningSound'
    BY <1>0, <1>j DEF TypeOK, RunningSound, TimerFires
  <1>9. ClientsSound'
    BY <1>0, <1>j DEF TypeOK, ClientsSound, RunningSound, JobsSound, JobSound,
       AnswerFor, TimerFires
  <1> QED  BY <1>1, <1>2, <1>3, <1>4, <1>5, <1>6, <1>7, <1>8, <1>9 DEF IInv

(* The operator's decision is justified by having been posted.             *)
LEMMA OperatorDecidesStep ==
  ASSUME IInv, NEW id \in Ids, NEW d \in Decisions, OperatorDecides(id, d)
  PROVE  IInv'
PROOF
  <1> USE DEF mapVars, diskVars, worldVars, boundVars, Decisions, Terminal,
            Resolvers, Job
  <1>0. /\ TypeOK /\ FailClosed /\ WaitedForIsKnown /\ PendingIsArmed
        /\ SnapshotCurrent /\ RulingsSound /\ RunningSound /\ ClientsSound
        /\ JobsSound /\ jobs \in Seq(Jobs)
    BY DEF IInv, TypeOK
  <1> DEFINE e == Job("operator", id, d)
  <1>e. e \in Jobs /\ jobs' = Append(jobs, e)
    BY <1>0, TimeoutAssumption DEF Jobs, OperatorDecides
  <1>j. /\ jobs' \in Seq(Jobs) /\ jobs' # <<>>
        /\ Range(jobs') = Range(jobs) \cup {e}
        /\ jobs # <<>> => Head(jobs') = Head(jobs)
        /\ OnePerClient(jobs) /\ (e.kind \in {"enqueue", "wait"} =>
             \A j \in Range(jobs) : ~(j.kind = e.kind /\ j.id = e.id))
             => OnePerClient(jobs')
        /\ \A j \in Range(jobs) : j \in Jobs
    <2>1. \A j \in Range(jobs) : j \in Jobs
      BY <1>0 DEF Range
    <2> QED  BY <1>0, <1>e, <2>1, AppendFacts
  <1>1. TypeOK'
    BY <1>0, <1>j DEF TypeOK, ClientStates, Entries, AnswerFor, OperatorDecides
  <1>2. FailClosed'
    BY <1>0, <1>j DEF TypeOK, FailClosed, RulingsSound, JobsSound, JobSound,
       Justified, WaitedForIsKnown, AnswerFor, OperatorDecides
  <1>3. WaitedForIsKnown'
    BY <1>0, <1>j DEF TypeOK, WaitedForIsKnown, ClientsSound, JobsSound,
       JobSound, RunningSound, AnswerFor, OperatorDecides
  <1>4. PendingIsArmed'
    BY <1>0, <1>j DEF TypeOK, PendingIsArmed, RunningSound, OperatorDecides
  <1>5. SnapshotCurrent'
    BY <1>0, <1>j DEF TypeOK, SnapshotCurrent, RunningSound, OperatorDecides
  <1>6. RulingsSound'
    BY <1>0, <1>j DEF TypeOK, RulingsSound, Justified, JobsSound, JobSound, OperatorDecides
  <1>7. JobsSound'
    <2>1. \A j \in Range(jobs) : JobSound(j)'
      BY <1>0, <1>j DEF TypeOK, Jobs, JobsSound, JobSound, Justified, OperatorDecides
    <2>2. JobSound(e)'
      BY <1>0, <1>j DEF TypeOK, JobSound, Justified, RulingsSound, AnswerFor, OperatorDecides
    <2>3. OnePerClient(jobs')
      BY <1>0, <1>j DEF JobsSound, JobSound, OperatorDecides
    <2> QED  BY <1>j, <2>1, <2>2, <2>3 DEF JobsSound
  <1>8. RunningSound'
    BY <1>0, <1>j DEF TypeOK, RunningSound, OperatorDecides
  <1>9. ClientsSound'
    BY <1>0, <1>j DEF TypeOK, ClientsSound, RunningSound, JobsSound, JobSound,
       AnswerFor, OperatorDecides
  <1> QED  BY <1>1, <1>2, <1>3, <1>4, <1>5, <1>6, <1>7, <1>8, <1>9 DEF IInv

(* Only an approval whose hook has its answer is forgotten, so nobody      *)
(* polls it again.                                                         *)
LEMMA StartDeliveredStep ==
  ASSUME IInv, StartDelivered
  PROVE  IInv'
PROOF
  <1> USE DEF mapVars, diskVars, worldVars, boundVars, Decisions, Terminal,
            Resolvers, Job
  <1>0. /\ TypeOK /\ FailClosed /\ WaitedForIsKnown /\ PendingIsArmed
        /\ SnapshotCurrent /\ RulingsSound /\ RunningSound /\ ClientsSound
        /\ JobsSound /\ jobs \in Seq(Jobs)
    BY DEF IInv, TypeOK
  <1>h. jobs # <<>>
    BY <1>0 DEF TypeOK, Running, StartDelivered
  <1>j. /\ Tail(jobs) \in Seq(Jobs) /\ Head(jobs) \in Jobs
        /\ Range(jobs) = Range(Tail(jobs)) \cup {Head(jobs)}
        /\ OnePerClient(jobs) => OnePerClient(Tail(jobs))
        /\ OnePerClient(jobs) /\ Head(jobs).kind \in {"enqueue", "wait"} =>
             \A j \in Range(Tail(jobs)) :
               ~(j.kind = Head(jobs).kind /\ j.id = Head(jobs).id)
        /\ \A j \in Range(jobs) : j \in Jobs
        /\ Head(jobs) \in Range(jobs)
    <2>1. \A j \in Range(jobs) : j \in Jobs
      BY <1>0 DEF Range
    <2> QED  BY <1>0, <1>h, <2>1, TailFacts
  <1> DEFINE id == Head(jobs).id
  <1>k. /\ id \in Hooks /\ id \in Ids /\ client[id] \in Terminal
        /\ Head(jobs).kind = "delivered" /\ loaded = "yes" /\ phase = "start"
        /\ UNCHANGED <<client, verdict, loaded, diskVars, worldVars, boundVars>>
        /\ \/ /\ approvals[id] \in Decisions /\ jobs' = jobs /\ phase' = "persist"
              /\ approvals' = [approvals EXCEPT ![id] = "none"]
              /\ timers' = timers \ {id}
           \/ jobs' = Tail(jobs) /\ UNCHANGED <<approvals, timers, phase>>
    BY <1>0, <1>j, HooksAssumption DEF JobsSound, JobSound, StartDelivered, Running
  <1>s. \A x \in Ids, r \in Decisions : Justified(x, r)' <=> Justified(x, r)
    BY <1>k DEF Justified
  <1>1. TypeOK'
    BY <1>0, <1>j, <1>h, <1>k, <1>s DEF TypeOK, ClientStates, Entries, AnswerFor, Jobs
  <1>2. FailClosed'
    BY <1>0, <1>j, <1>h, <1>k, <1>s DEF TypeOK, FailClosed, RulingsSound, JobsSound, JobSound,
       Justified, WaitedForIsKnown, AnswerFor, Jobs
  <1>3. WaitedForIsKnown'
    BY <1>0, <1>j, <1>h, <1>k, <1>s DEF TypeOK, WaitedForIsKnown, ClientsSound, JobsSound,
       JobSound, RunningSound, AnswerFor, Jobs
  <1>4. PendingIsArmed'
    <2>1. \A j \in Range(jobs) : j.kind \in Resolvers => j \in Range(jobs')
      BY <1>j, <1>k
    <2>2. ASSUME NEW x \in Ids, approvals'[x] = "pending"
          PROVE  approvals[x] = "pending" /\ (x \in timers => x \in timers')
      <3> HIDE DEF id
      <3> QED  BY <1>0, <1>k, <2>2 DEF TypeOK
    <2> QED  BY <1>0, <1>k, <2>1, <2>2 DEF PendingIsArmed
  <1>5. SnapshotCurrent'
    BY <1>0, <1>j, <1>h, <1>k, <1>s DEF TypeOK, SnapshotCurrent, RunningSound, Jobs
  <1>6. RulingsSound'
    <2>1. \A x \in Ids : approvals'[x] = approvals[x] \/ approvals'[x] = "none"
      <3> HIDE DEF id
      <3> QED  BY <1>0, <1>k DEF TypeOK
    <2> QED  BY <1>0, <1>k, <1>s, <2>1 DEF RulingsSound
  <1>7. JobsSound'
    <2>1. ASSUME NEW j \in Range(jobs')  PROVE JobSound(j)'
      <3>1. j \in Jobs /\ JobSound(j)
        BY <1>0, <1>j, <1>k DEF JobsSound
      <3>2. j.decision \in Decisions => (Justified(j.id, j.decision)' <=> Justified(j.id, j.decision))
        BY <1>s, <3>1 DEF Jobs
      <3> QED  BY <1>k, <3>1, <3>2 DEF JobSound
    <2> QED  BY <1>0, <1>j, <1>k, <2>1 DEF JobsSound
  <1>8. RunningSound'
    BY <1>0, <1>j, <1>h, <1>k, <1>s DEF TypeOK, RunningSound, Jobs
  <1>9. ClientsSound'
    BY <1>0, <1>j, <1>h, <1>k, <1>s DEF TypeOK, ClientsSound, RunningSound, JobsSound, JobSound,
       AnswerFor, Jobs
  <1> QED  BY <1>1, <1>2, <1>3, <1>4, <1>5, <1>6, <1>7, <1>8, <1>9 DEF IInv

(* A polling hook finds its approval and hears its ruling.                 *)
LEMMA PollStep ==
  ASSUME IInv, NEW id \in Ids, Poll(id)
  PROVE  IInv'
PROOF
  <1> USE DEF mapVars, diskVars, worldVars, boundVars, Decisions, Terminal,
            Resolvers, Job
  <1>0. /\ TypeOK /\ FailClosed /\ WaitedForIsKnown /\ PendingIsArmed
        /\ SnapshotCurrent /\ RulingsSound /\ RunningSound /\ ClientsSound
        /\ JobsSound /\ jobs \in Seq(Jobs)
    BY DEF IInv, TypeOK
  <1> DEFINE e1 == Job("delivered", id, "none")
             e2 == Job("poll", id, Timeout[id])
  <1>e. e1 \in Jobs /\ e2 \in Jobs /\ Timeout[id] \in Decisions
    BY TimeoutAssumption DEF Jobs
  <1>k. /\ client[id] = "polling" /\ loaded = "yes" /\ approvals[id] # "none"
        /\ UNCHANGED <<mapVars, loaded, phase, diskVars, worldVars, boundVars>>
        /\ \/ /\ approvals[id] \in Decisions /\ jobs' = Append(jobs, e1)
              /\ client' = [client EXCEPT ![id] = AnswerFor(approvals[id])]
           \/ /\ jobs' = Append(jobs, e2) /\ id \in due
              /\ client' = [client EXCEPT ![id] = "expiring"]
    <2>1. client[id] = "polling" /\ loaded = "yes" /\ approvals[id] # "none"
      BY <1>0 DEF Poll, WaitedForIsKnown
    <2> QED  BY <1>0, <2>1 DEF Poll, TypeOK, Entries
  <1>j. /\ jobs' \in Seq(Jobs) /\ jobs' # <<>> /\ OnePerClient(jobs')
        /\ \A j \in Range(jobs') : \/ j \in Range(jobs)
                                   \/ j = e1 /\ client'[id] \in Terminal
                                   \/ j = e2 /\ client'[id] = "expiring" /\ id \in due
        /\ \A j \in Range(jobs) : j \in Range(jobs') /\ j \in Jobs
        /\ jobs # <<>> => Head(jobs') = Head(jobs)
    <2>1. e1.kind = "delivered" /\ e2.kind = "poll"
      OBVIOUS
    <2>2. \A j \in Range(jobs) : j \in Jobs
      BY <1>0 DEF Range
    <2>3. ASSUME NEW e \in {e1, e2}
          PROVE /\ Append(jobs, e) \in Seq(Jobs) /\ Append(jobs, e) # <<>>
                /\ Range(Append(jobs, e)) = Range(jobs) \cup {e}
                /\ jobs # <<>> => Head(Append(jobs, e)) = Head(jobs)
                /\ OnePerClient(Append(jobs, e))
      <3> HIDE DEF e1, e2
      <3> QED  BY <1>0, <1>e, <2>1, AppendFacts DEF JobsSound
    <2>4. /\ client' = [client EXCEPT ![id] = AnswerFor(approvals[id])] => client'[id] \in Terminal
          /\ client' = [client EXCEPT ![id] = "expiring"] => client'[id] = "expiring"
      BY <1>0 DEF TypeOK, AnswerFor
    <2> HIDE DEF e1, e2
    <2> QED  BY <1>k, <2>2, <2>3, <2>4
  <1>s. \A x \in Ids, r \in Decisions : Justified(x, r)' <=> Justified(x, r)
    BY <1>k DEF Justified
  <1>1. TypeOK'
    <2> HIDE DEF e1, e2
    <2>1. client' \in [Ids -> ClientStates]
      BY <1>0, <1>k DEF TypeOK, ClientStates, AnswerFor
    <2> QED  BY <1>0, <1>j, <1>k, <2>1 DEF TypeOK
  <1>2. FailClosed'
    <2>1. ASSUME NEW x \in Ids
          PROVE  /\ client'[x] = "allow" => Justified(x, "approve")
                 /\ client'[x] = "deny"  => Justified(x, "reject")
      <3>1. CASE x = id /\ approvals[id] \in Decisions
        <4>1. Justified(id, approvals[id])
          BY <1>0, <3>1 DEF RulingsSound
        <4> QED  BY <1>0, <1>k, <3>1, <4>1, AnswerIsRuling DEF TypeOK
      <3>2. CASE x = id /\ approvals[id] \notin Decisions
        BY <1>0, <1>k, <3>2 DEF TypeOK
      <3>3. CASE x # id
        BY <1>0, <1>k, <3>3 DEF FailClosed, TypeOK
      <3> QED  BY <3>1, <3>2, <3>3
    <2> QED  BY <1>s, <2>1 DEF FailClosed
  <1>3. WaitedForIsKnown'
    BY <1>0, <1>j, <1>e, <1>k, <1>s DEF TypeOK, WaitedForIsKnown, ClientsSound, JobsSound,
       JobSound, RunningSound, AnswerFor, Jobs
  <1>4. PendingIsArmed'
    BY <1>0, <1>j, <1>e, <1>k, <1>s DEF TypeOK, PendingIsArmed, RunningSound, Jobs
  <1>5. SnapshotCurrent'
    BY <1>0, <1>j, <1>e, <1>k, <1>s DEF TypeOK, SnapshotCurrent, RunningSound, Jobs
  <1>6. RulingsSound'
    <2>1. approvals' = approvals /\ file' = file
      BY <1>k
    <2> QED  BY <1>0, <1>s, <2>1 DEF RulingsSound
  <1>7. JobsSound'
    <2>1. ASSUME NEW j \in Range(jobs), j \in Range(jobs')  PROVE JobSound(j)'
      <3>1. j \in Jobs /\ JobSound(j)
        BY <1>0, <1>j DEF JobsSound
      <3>2. j.decision \in Decisions => (Justified(j.id, j.decision)' <=> Justified(j.id, j.decision))
        BY <1>s, <3>1 DEF Jobs
      <3> QED  BY <1>0, <1>k, <3>1, <3>2 DEF JobSound, Jobs, TypeOK
    <2>2. client'[id] \in Terminal => JobSound(e1)'
      BY <1>0, <1>k DEF ClientsSound, JobSound
    <2>3. id \in due => JobSound(e2)'
      BY <1>e, <1>k DEF JobSound, Justified
    <2> HIDE DEF e1, e2
    <2> QED  BY <1>j, <2>1, <2>2, <2>3 DEF JobsSound
  <1>8. RunningSound'
    BY <1>0, <1>j, <1>e, <1>k, <1>s DEF TypeOK, RunningSound, Jobs
  <1>9. ClientsSound'
    BY <1>0, <1>j, <1>e, <1>k, <1>s DEF TypeOK, ClientsSound, RunningSound, JobsSound, JobSound,
       AnswerFor, Jobs
  <1> QED  BY <1>1, <1>2, <1>3, <1>4, <1>5, <1>6, <1>7, <1>8, <1>9 DEF IInv

(* A new process knows only the file, and only hooks survive to poll it.   *)
LEMMA RestartStep ==
  ASSUME IInv, Restart, torn' \in BOOLEAN,
         \/ file' = file /\ (torn' = torn \/ torn')
         \/ file' = approvals /\ phase = "persist",
         crashes' \in 0..MaxCrashes, faults' \in 0..MaxFaults
  PROVE  IInv'
PROOF
  <1> USE DEF worldVars, Decisions, Terminal
  <1>0. /\ TypeOK /\ FailClosed /\ WaitedForIsKnown /\ RulingsSound /\ ClientsSound
    BY DEF IInv
  <1>1. /\ loaded' = "no" /\ jobs' = <<>> /\ phase' = "start" /\ timers' = {}
        /\ approvals' = [id \in Ids |-> "none"]
        /\ UNCHANGED <<audit, worldVars, verdict>>
        /\ Range(jobs') = {} /\ jobs' \in Seq(Jobs)
        /\ OnePerClient(jobs')
    BY DEF Restart, Range, OnePerClient
  <1>2. /\ client' \in [Ids -> ClientStates]
        /\ \A id \in Ids :
             \/ client'[id] = client[id] /\ client[id] \in {"polling", "idle"} \cup Terminal
             \/ client'[id] = "closed"
    BY <1>0 DEF Restart, TypeOK, ClientStates
  <1>3. file' \in [Ids -> Entries]
    BY <1>0 DEF TypeOK
  <1>4. TypeOK'
    BY <1>0, <1>1, <1>2, <1>3 DEF TypeOK, Entries
  <1>5. FailClosed'
    BY <1>0, <1>1, <1>2 DEF FailClosed, Justified
  <1>6. WaitedForIsKnown' /\ PendingIsArmed' /\ SnapshotCurrent'
    BY <1>1 DEF WaitedForIsKnown, PendingIsArmed, SnapshotCurrent
  <1>7. RulingsSound'
    <2>1. \A id \in Ids : file'[id] = file[id] \/ file'[id] = approvals[id]
      OBVIOUS
    <2> QED  BY <1>0, <1>1, <2>1 DEF RulingsSound, Justified
  <1>8. JobsSound' /\ RunningSound'
    BY <1>1 DEF JobsSound, RunningSound
  <1>9. ClientsSound'
    <2>1. ASSUME NEW id \in Ids, client[id] = "polling"
          PROVE  id \in Hooks /\ (torn' \/ file'[id] # "none")
      BY <1>0, <2>1 DEF ClientsSound, WaitedForIsKnown, TypeOK
    <2> QED  BY <1>2, <2>1 DEF ClientsSound
  <1> QED  BY <1>4, <1>5, <1>6, <1>7, <1>8, <1>9 DEF IInv

(* A kill in the middle of a write leaves the old, the new or half a file. *)
LEMMA CrashStep ==
  ASSUME IInv, Crash
  PROVE  IInv'
PROOF
  <1>1. /\ crashes' \in 0..MaxCrashes /\ faults' \in 0..MaxFaults /\ torn' \in BOOLEAN
    <2>1. crashes \in 0..MaxCrashes /\ crashes < MaxCrashes /\ crashes' = crashes + 1
      BY DEF IInv, TypeOK, Crash
    <2>2. faults' \in 0..MaxFaults
      BY DEF IInv, TypeOK, Crash
    <2>3. torn' \in BOOLEAN
      BY DEF IInv, TypeOK, Crash
    <2> QED  BY <2>1, <2>2, <2>3, BoundsAssumption
  <1>2. /\ Restart
        /\ \/ file' = file /\ (torn' = torn \/ torn')
           \/ file' = approvals /\ phase = "persist"
    BY DEF Crash
  <1> QED  BY <1>1, <1>2, RestartStep

(* What follows a rejected load or write: the gate's enqueue is denied, or *)
(* the process exits.                                                      *)
LEMMA GateDeniedStep ==
  ASSUME IInv, jobs # <<>>,
         Head(jobs).kind = "enqueue", Head(jobs).id \notin Hooks,
         client' = [client EXCEPT ![Head(jobs).id] = "closed"],
         jobs' = Tail(jobs),
         UNCHANGED <<mapVars, audit, worldVars, loaded, file, crashes>>,
         phase' = "start",
         torn' = torn \/ torn', torn' \in BOOLEAN,
         faults' \in 0..MaxFaults,
         faults' = 0 => phase = "start" /\ torn' = torn /\ faults = 0
  PROVE  IInv'
PROOF
  <1> USE DEF mapVars, worldVars, Decisions, Terminal, Resolvers
  <1>0. /\ TypeOK /\ FailClosed /\ WaitedForIsKnown /\ PendingIsArmed
        /\ SnapshotCurrent /\ RulingsSound /\ RunningSound /\ ClientsSound
        /\ JobsSound /\ jobs \in Seq(Jobs)
    BY DEF IInv, TypeOK
  <1> DEFINE id == Head(jobs).id
  <1>j. /\ jobs' \in Seq(Jobs) /\ OnePerClient(jobs')
        /\ \A j \in Range(jobs') : j \in Jobs /\ JobSound(j)
                                   /\ ~(j.kind = "enqueue" /\ j.id = id)
        /\ \A j \in Range(jobs) : j \in Range(jobs') \/ j = Head(jobs)
        /\ id \in Ids /\ client[id] = "posting"
    <2>1. \A j \in Range(jobs) : j \in Jobs
      BY <1>0 DEF Range
    <2>2. /\ Tail(jobs) \in Seq(Jobs) /\ Head(jobs) \in Jobs
          /\ Range(jobs) = Range(Tail(jobs)) \cup {Head(jobs)}
          /\ OnePerClient(Tail(jobs))
          /\ \A j \in Range(Tail(jobs)) : ~(j.kind = "enqueue" /\ j.id = id)
      BY <1>0, TailFacts DEF JobsSound
    <2>3. JobSound(Head(jobs)) /\ id \in Ids
      BY <1>0, <2>2 DEF JobsSound, Jobs
    <2> QED  BY <1>0, <2>1, <2>2, <2>3 DEF JobsSound, JobSound
  <1>s. \A x \in Ids, r \in Decisions : Justified(x, r)' <=> Justified(x, r)
    BY DEF Justified
  <1>c. \A x \in Ids : client'[x] = IF x = id THEN "closed" ELSE client[x]
    BY <1>0 DEF TypeOK
  <1>1. TypeOK'
    BY <1>0, <1>j DEF TypeOK, ClientStates
  <1> HIDE DEF id
  <1>2. FailClosed'
    BY <1>0, <1>c, <1>s DEF FailClosed
  <1>3. WaitedForIsKnown'
    BY <1>0, <1>c DEF WaitedForIsKnown
  <1>4. PendingIsArmed'
    BY <1>0, <1>j DEF PendingIsArmed
  <1>5. SnapshotCurrent'
    BY <1>0 DEF SnapshotCurrent
  <1>6. RulingsSound'
    BY <1>0, <1>s DEF RulingsSound
  <1>7. JobsSound'
    <2>1. ASSUME NEW j \in Range(jobs')  PROVE JobSound(j)'
      <3>1. j.decision \in Decisions => (Justified(j.id, j.decision)' <=> Justified(j.id, j.decision))
        BY <1>j, <1>s DEF Jobs
      <3> QED  BY <1>c, <1>j, <3>1 DEF JobSound, Jobs
    <2> QED  BY <1>j, <2>1 DEF JobsSound
  <1>8. RunningSound'
    BY DEF RunningSound
  <1>9. ClientsSound'
    BY <1>0, <1>c DEF ClientsSound
  <1> QED  BY <1>1, <1>2, <1>3, <1>4, <1>5, <1>6, <1>7, <1>8, <1>9 DEF IInv

(* A failed write.                                                         *)
LEMMA WriteFailsStep ==
  ASSUME IInv, WriteFails
  PROVE  IInv'
PROOF
  <1> DEFINE gate == Head(jobs).kind = "enqueue" /\ Head(jobs).id \notin Hooks
  <1>1. /\ faults' \in 0..MaxFaults /\ faults' # 0 /\ torn' \in BOOLEAN
        /\ torn' = torn \/ torn'
        /\ crashes' = crashes /\ crashes' \in 0..MaxCrashes /\ file' = file
        /\ phase # "start" /\ jobs # <<>>
    <2>1. faults \in 0..MaxFaults /\ faults < MaxFaults /\ faults' = faults + 1
      BY DEF IInv, TypeOK, WriteFails
    <2>2. /\ torn' \in BOOLEAN /\ (torn' = torn \/ torn')
      BY DEF IInv, TypeOK, WriteFails
    <2>3. /\ crashes' = crashes /\ crashes' \in 0..MaxCrashes /\ file' = file
          /\ phase # "start" /\ jobs # <<>>
      BY DEF IInv, TypeOK, WriteFails
    <2> QED  BY <2>1, <2>2, <2>3, BoundsAssumption
  <1>2. CASE gate
    <2>1. /\ client' = [client EXCEPT ![Head(jobs).id] = "closed"]
          /\ jobs' = Tail(jobs) /\ phase' = "start"
          /\ UNCHANGED <<mapVars, loaded, audit, worldVars>>
      BY <1>2 DEF WriteFails
    <2> QED  BY <1>1, <1>2, <2>1, GateDeniedStep
  <1>3. CASE ~gate
    <2>1. Restart
      BY <1>3 DEF WriteFails
    <2> QED  BY <1>1, <2>1, RestartStep
  <1> QED  BY <1>2, <1>3

(* An operation on a snapshot that could not be read.                      *)
LEMMA LoadFailedStep ==
  ASSUME IInv, LoadFailed
  PROVE  IInv'
PROOF
  <1> DEFINE gate == jobs # <<>> /\ Head(jobs).kind = "enqueue" /\ Head(jobs).id \notin Hooks
  <1>1. /\ UNCHANGED <<file, torn, crashes, faults>> /\ torn' \in BOOLEAN
        /\ crashes' \in 0..MaxCrashes /\ faults' \in 0..MaxFaults
        /\ loaded = "failed" /\ phase = "start"
    BY DEF IInv, TypeOK, LoadFailed, boundVars
  <1>2. CASE gate
    <2>1. /\ client' = [client EXCEPT ![Head(jobs).id] = "closed"]
          /\ jobs' = Tail(jobs) /\ phase' = "start"
          /\ UNCHANGED <<mapVars, loaded, audit, worldVars>>
      BY <1>1, <1>2 DEF LoadFailed
    <2> QED  BY <1>1, <1>2, <2>1, GateDeniedStep
  <1>3. CASE ~gate
    <2>1. Restart
      BY <1>3 DEF LoadFailed
    <2> QED  BY <1>1, <2>1, RestartStep
  <1> QED  BY <1>2, <1>3

(* A job that ends moves its client on: a posted hook to polling, a gate   *)
(* to its wait; a resolved approval answers the poll that asked for it.    *)
LEMMA AuditStep ==
  ASSUME IInv, Audit
  PROVE  IInv'
PROOF
  <1> USE DEF mapVars, diskVars, worldVars, boundVars, Decisions, Terminal,
            Resolvers, Job
  <1> DEFINE job == Head(jobs)
             id  == Head(jobs).id
             w   == Job("wait", id, "none")
  <1>0. /\ TypeOK /\ FailClosed /\ WaitedForIsKnown /\ PendingIsArmed
        /\ SnapshotCurrent /\ RulingsSound /\ RunningSound /\ ClientsSound
        /\ JobsSound /\ jobs \in Seq(Jobs)
    BY DEF IInv, TypeOK
  <1>1. /\ phase = "audit" /\ loaded = "yes" /\ jobs # <<>>
        /\ file = approvals /\ torn = FALSE /\ phase' = "start"
        /\ UNCHANGED <<mapVars, loaded, file, torn, worldVars, boundVars>>
    BY <1>0 DEF Audit, TypeOK, RunningSound
  <1>2. /\ Tail(jobs) \in Seq(Jobs) /\ job \in Jobs /\ job \in Range(jobs)
        /\ id \in Ids /\ JobSound(job)
        /\ Range(jobs) = Range(Tail(jobs)) \cup {job}
        /\ \A j \in Range(jobs) : j \in Jobs /\ JobSound(j)
        /\ OnePerClient(Tail(jobs))
        /\ job.kind \in {"enqueue", "wait"} =>
             \A j \in Range(Tail(jobs)) : ~(j.kind = job.kind /\ j.id = id)
    <2>1. \A j \in Range(jobs) : j \in Jobs
      BY <1>0 DEF Range
    <2>2. \A j \in Range(jobs) : JobSound(j)
      BY <1>0 DEF JobsSound
    <2>3. OnePerClient(jobs)
      BY <1>0 DEF JobsSound
    <2>4. /\ Tail(jobs) \in Seq(Jobs) /\ job \in Jobs
          /\ Range(jobs) = Range(Tail(jobs)) \cup {job}
          /\ OnePerClient(Tail(jobs))
          /\ job.kind \in {"enqueue", "wait"} =>
               \A j \in Range(Tail(jobs)) : ~(j.kind = job.kind /\ j.id = id)
      BY <1>0, <1>1, <2>3, TailFacts
    <2>5. id \in Ids
      BY <2>4 DEF Jobs
    <2> HIDE DEF job, id
    <2> QED  BY <2>1, <2>2, <2>4, <2>5
  <1>s. \A x \in Ids, r \in Decisions : Justified(x, r)' <=> Justified(x, r)
    BY <1>1 DEF Justified
  (* The three ways a job ends, said alike: what becomes of the queue, the *)
  (* client and the audit log.                                             *)
  <1>3. /\ jobs' \in Seq(Jobs) /\ OnePerClient(jobs')
        /\ \A j \in Range(jobs') :
             \/ j \in Range(jobs) /\ ~(j.kind = "enqueue" /\ job.kind = "enqueue" /\ j.id = id)
             \/ j = w /\ client'[id] = "registering"
             \/ /\ j = Job("delivered", id, "none") /\ id \in Hooks
                /\ client'[id] \in Terminal
        /\ \A j \in Range(jobs) : j = job \/ j \in Range(jobs')
        /\ client' \in [Ids -> ClientStates]
        /\ \A x \in Ids :
             \/ client'[x] = client[x]
             \/ /\ client[x] = "expiring" /\ approvals[x] \in Decisions
                /\ client'[x] = AnswerFor(approvals[x])
             \/ client[x] = "expiring" /\ client'[x] = "closed"
             \/ /\ x = id /\ job.kind = "enqueue" /\ id \in Hooks
                /\ client[x] = "posting" /\ client'[x] = "polling"
             \/ /\ x = id /\ job.kind = "enqueue" /\ id \notin Hooks
                /\ client[x] = "posting" /\ client'[x] = "registering"
        /\ audit' \in [Ids -> Seq([decision : Decisions, delivered : BOOLEAN])]
    <2>1. CASE job.kind = "enqueue" /\ id \in Hooks
      <3>1. /\ client[id] = "posting" /\ client' = [client EXCEPT ![id] = "polling"]
            /\ jobs' = Tail(jobs) /\ audit' = audit
        BY <1>2, <2>1 DEF Audit, JobSound
      <3>2. client' \in [Ids -> ClientStates]
        BY <1>0, <1>2, <3>1 DEF TypeOK, ClientStates
      <3> HIDE DEF id, job, w
      <3> QED  BY <1>0, <1>2, <2>1, <3>1, <3>2 DEF TypeOK
    <2>2. CASE job.kind = "enqueue" /\ id \notin Hooks
      <3>1. /\ client[id] = "posting" /\ client' = [client EXCEPT ![id] = "registering"]
            /\ jobs' = Append(Tail(jobs), w) /\ audit' = audit
        BY <1>2, <2>2 DEF Audit, JobSound
      <3>2. client' \in [Ids -> ClientStates]
        BY <1>0, <1>2, <3>1 DEF TypeOK, ClientStates
      <3>3. w \in Jobs /\ w.kind = "wait" /\ w.id = id
        BY <1>2 DEF Jobs
      <3>4. \A j \in Range(Tail(jobs)) : ~(j.kind = "wait" /\ j.id = id)
        BY <1>2, <3>1 DEF JobSound
      <3> HIDE DEF id, job, w
      <3>5. /\ jobs' \in Seq(Jobs) /\ OnePerClient(jobs')
            /\ Range(jobs') = Range(Tail(jobs)) \cup {w}
        BY <1>2, <3>1, <3>3, <3>4, AppendFacts
      <3> QED  BY <1>0, <1>2, <2>2, <3>1, <3>2, <3>5 DEF TypeOK
    <2>3. CASE job.kind \in Resolvers
      <3>1. ReplyFor(job) /\ audit' = [audit EXCEPT ![id] =
                 Append(@, [decision |-> job.decision, delivered |-> FALSE])]
        BY <2>3 DEF Audit
      <3>2. audit' \in [Ids -> Seq([decision : Decisions, delivered : BOOLEAN])]
        <4>1. [decision |-> job.decision, delivered |-> FALSE]
                \in [decision : Decisions, delivered : BOOLEAN]
          BY <1>2, <2>3 DEF JobSound
        <4>2. audit[id] \in Seq([decision : Decisions, delivered : BOOLEAN])
          BY <1>0, <1>2 DEF TypeOK
        <4>3. Append(audit[id], [decision |-> job.decision, delivered |-> FALSE])
                \in Seq([decision : Decisions, delivered : BOOLEAN])
          BY <4>1, <4>2
        <4> QED  BY <1>0, <1>2, <3>1, <4>3 DEF TypeOK
      <3>3. /\ jobs' \in Seq(Jobs) /\ OnePerClient(jobs')
            /\ \A j \in Range(jobs') :
                 \/ j \in Range(jobs)
                 \/ /\ j = Job("delivered", id, "none") /\ client[id] = "expiring"
                    /\ client'[id] \in Terminal
            /\ \A j \in Range(jobs) : j = job \/ j \in Range(jobs')
            /\ client' \in [Ids -> ClientStates]
            /\ \A x \in Ids :
                 \/ client'[x] = client[x]
                 \/ /\ client[x] = "expiring" /\ approvals[x] \in Decisions
                    /\ client'[x] = AnswerFor(approvals[x])
                 \/ client[x] = "expiring" /\ client'[x] = "closed"
        BY <1>0, <1>1, <2>3, <3>1, ReplyFacts
      <3>4. client[id] = "expiring" => id \in Hooks
        BY <1>0, <1>2 DEF ClientsSound
      <3> HIDE DEF id, job, w
      <3> QED  BY <2>3, <3>2, <3>3, <3>4
    <2>4. CASE job.kind \in {"wait", "delivered"}
      <3>1. /\ jobs' = Tail(jobs) /\ client' = client
            /\ audit' = [audit EXCEPT ![id] = MarkRow(@)]
        BY <2>4 DEF Audit
      <3>2. MarkRow(audit[id]) \in Seq([decision : Decisions, delivered : BOOLEAN])
        BY <1>0, <1>2, MarkRowType DEF TypeOK
      <3>3. audit' \in [Ids -> Seq([decision : Decisions, delivered : BOOLEAN])]
        BY <1>0, <1>2, <3>1, <3>2 DEF TypeOK
      <3> HIDE DEF id, job, w
      <3> QED  BY <1>0, <1>2, <2>4, <3>1, <3>3 DEF TypeOK
    <2> QED  BY <1>2, <2>1, <2>2, <2>3, <2>4 DEF Jobs
  <1>4. job.kind = "enqueue" => approvals[id] = "pending"
    BY <1>0, <1>1 DEF RunningSound
  <1>5. job.kind \in Resolvers => approvals[id] # "pending"
    BY <1>0, <1>1 DEF RunningSound
  <1>6. w.kind = "wait" /\ w.id = id
    OBVIOUS
  <1>7. TypeOK'
    BY <1>0, <1>1, <1>3 DEF TypeOK
  <1>8. JobsSound'
    <2>1. ASSUME NEW j \in Range(jobs'), j \in Range(jobs),
                 ~(j.kind = "enqueue" /\ job.kind = "enqueue" /\ j.id = id)
          PROVE JobSound(j)'
      <3>1. j \in Jobs /\ JobSound(j) /\ j.id \in Ids
        BY <1>2, <2>1 DEF Jobs
      <3>2. j.decision \in Decisions => (Justified(j.id, j.decision)' <=> Justified(j.id, j.decision))
        BY <1>s, <3>1
      <3> HIDE DEF id, job, w
      <3> QED  BY <1>3, <2>1, <3>1, <3>2 DEF JobSound, AnswerFor
    <2>2. ASSUME NEW j \in Range(jobs'), j = w, client'[id] = "registering"
          PROVE  JobSound(j)'
      <3>1. j.kind = "wait" /\ client'[j.id] = "registering"
        BY <2>2
      <3> QED  BY <3>1 DEF JobSound
    <2>3. ASSUME NEW j \in Range(jobs'), j = Job("delivered", id, "none"),
                 id \in Hooks, client'[id] \in Terminal
          PROVE  JobSound(j)'
      <3>1. j.kind = "delivered" /\ j.id \in Hooks /\ client'[j.id] \in Terminal
        BY <2>3
      <3> QED  BY <3>1 DEF JobSound
    <2> HIDE DEF id, job, w
    <2> QED  BY <1>3, <2>1, <2>2, <2>3 DEF JobsSound
  <1> HIDE DEF id, job, w
  <1>9. FailClosed'
    <2>1. ASSUME NEW x \in Ids
          PROVE  /\ client'[x] = "allow" => Justified(x, "approve")
                 /\ client'[x] = "deny"  => Justified(x, "reject")
      <3>1. CASE approvals[x] \in Decisions /\ client'[x] = AnswerFor(approvals[x])
        <4>1. Justified(x, approvals[x])
          BY <1>0, <3>1 DEF RulingsSound
        <4> QED  BY <3>1, <4>1, AnswerIsRuling
      <3>2. CASE client'[x] = client[x] \/ client'[x] \in {"closed", "polling", "registering"}
        BY <1>0, <3>2 DEF FailClosed
      <3> QED  BY <1>3, <3>1, <3>2
    <2> QED  BY <1>s, <2>1 DEF FailClosed
  <1>10. WaitedForIsKnown'
    BY <1>0, <1>1, <1>3, <1>4 DEF WaitedForIsKnown, AnswerFor
  <1>11. PendingIsArmed'
    <2>1. job = Head(jobs) /\ id = Head(jobs).id
      BY DEF job, id
    <2> QED  BY <1>0, <1>1, <1>3, <1>5, <2>1 DEF PendingIsArmed
  <1>12. SnapshotCurrent'
    BY <1>0, <1>1 DEF SnapshotCurrent
  <1>13. RulingsSound'
    BY <1>0, <1>1, <1>s DEF RulingsSound
  <1>14. RunningSound'
    BY <1>1 DEF RunningSound
  <1>15. ClientsSound'
    BY <1>0, <1>1, <1>3, <1>4 DEF ClientsSound, AnswerFor
  <1> QED
    BY <1>7, <1>8, <1>9, <1>10, <1>11, <1>12, <1>13, <1>14, <1>15 DEF IInv

(* The maps and the queue are empty at first.                              *)
LEMMA InitIInv == Init => IInv
PROOF
  <1> SUFFICES ASSUME Init PROVE IInv
    OBVIOUS
  <1>1. TypeOK
    <2>1. \A S : <<>> \in Seq(S)
      OBVIOUS
    <2>2. crashes \in 0..MaxCrashes /\ faults \in 0..MaxFaults
      BY BoundsAssumption DEF Init
    <2> QED  BY <2>1, <2>2 DEF Init, TypeOK, ClientStates, Entries
  <1>2. FailClosed /\ WaitedForIsKnown /\ PendingIsArmed /\ SnapshotCurrent
    BY DEF Init, FailClosed, WaitedForIsKnown, PendingIsArmed, SnapshotCurrent
  <1>3. RulingsSound /\ RunningSound /\ ClientsSound
    BY DEF Init, RulingsSound, RunningSound, ClientsSound, Decisions
  <1>4. JobsSound
    BY DEF Init, JobsSound, OnePerClient, Range
  <1> QED  BY <1>1, <1>2, <1>3, <1>4 DEF IInv

(* A stuttering step.                                                      *)
LEMMA StutterIInv ==
  ASSUME IInv, UNCHANGED vars
  PROVE  IInv'
PROOF
  <1> USE DEF vars
  <1>1. TypeOK' /\ FailClosed'
    BY DEF IInv, TypeOK, FailClosed, Justified
  <1>2. WaitedForIsKnown' /\ PendingIsArmed' /\ SnapshotCurrent'
    BY DEF IInv, WaitedForIsKnown, PendingIsArmed, SnapshotCurrent
  <1>3. RulingsSound' /\ RunningSound' /\ ClientsSound'
    BY DEF IInv, RulingsSound, RunningSound, ClientsSound, Justified
  <1>4. JobsSound'
    BY DEF IInv, JobsSound, JobSound, Justified
  <1> QED  BY <1>1, <1>2, <1>3, <1>4 DEF IInv

(* Every step keeps the invariant.                                         *)
LEMMA NextIInv ==
  ASSUME IInv, [Next]_vars
  PROVE  IInv'
PROOF
  <1>1. CASE StartJob
    BY <1>1, StartEnqueueStep, StartWaitStep, StartResolveStep, SkipResolveStep,
       StartDeliveredStep DEF StartJob
  <1>2. CASE Load \/ Persist \/ Audit
    BY <1>2, LoadStep, PersistStep, AuditStep
  <1>3. CASE Crash \/ WriteFails \/ LoadFailed
    BY <1>3, CrashStep, WriteFailsStep, LoadFailedStep
  <1>4. ASSUME NEW id \in Ids, Request(id) \/ Expire(id) \/ TimerFires(id)
        PROVE  IInv'
    BY <1>4, RequestStep, ExpireStep, TimerFiresStep
  <1>5. ASSUME NEW id \in Ids, Poll(id) \/ GiveUp(id)
        PROVE  IInv'
    BY <1>5, PollStep, GiveUpStep
  <1>6. ASSUME NEW id \in Ids, NEW d \in Decisions, OperatorDecides(id, d)
        PROVE  IInv'
    BY <1>6, OperatorDecidesStep
  <1>7. CASE UNCHANGED vars
    BY <1>7, StutterIInv
  <1> QED  BY <1>1, <1>2, <1>3, <1>4, <1>5, <1>6, <1>7 DEF Next

(* Every reachable state satisfies the inductive invariant, whatever       *)
(* crashes, failed writes, late timers and stale operators do to the       *)
(* coordinator of pending-store.ts.                                        *)
THEOREM Invariance == Spec => []IInv
PROOF
  <1>1. Init => IInv
    BY InitIInv
  <1>2. IInv /\ [Next]_vars => IInv'
    BY NextIInv
  <1> QED  BY <1>1, <1>2, PTL DEF Spec

(* The variables keep their types.                                         *)
THEOREM TypeCorrect == Spec => []TypeOK
PROOF
  <1>1. IInv => TypeOK
    BY DEF IInv
  <1> QED  BY <1>1, Invariance, PTL

(* An action is allowed only on an operator's approval or on a timeout set *)
(* to approve, and denied only likewise: resolve, waitForResolution, the   *)
(* reload and the polling route never make up an answer.                   *)
THEOREM NeverAllowedUnasked == Spec => []FailClosed
PROOF
  <1>1. IInv => FailClosed
    BY DEF IInv
  <1> QED  BY <1>1, Invariance, PTL

(* A hook that polls and a gate that waits are known to the coordinator,   *)
(* in every process that could load the snapshot.                          *)
THEOREM WaitersAreKnown == Spec => []WaitedForIsKnown
PROOF
  <1>1. IInv => WaitedForIsKnown
    BY DEF IInv
  <1> QED  BY <1>1, Invariance, PTL

(* Every pending approval has a timer or a job that ends it, restarts      *)
(* included (initializeTimeouts).                                          *)
THEOREM EveryReviewEnds == Spec => []PendingIsArmed
PROOF
  <1>1. IInv => PendingIsArmed
    BY DEF IInv
  <1> QED  BY <1>1, Invariance, PTL

(* Outside a job's write, and while no write failed, the snapshot is whole *)
(* and agrees with the map.                                                *)
THEOREM SnapshotFollowsMap == Spec => []SnapshotCurrent
PROOF
  <1>1. IInv => SnapshotCurrent
    BY DEF IInv
  <1> QED  BY <1>1, Invariance, PTL

-----------------------------------------------------------------------------
(***************************************************************************)
(* While its process lives on, the coordinator implements ApprovalReview.  *)
(* The map is rebuilt nowhere then, so what it says of a request can be    *)
(* tied to the ruling; every action is a step of the review or none.       *)
(***************************************************************************)
(* The job that runs is writing the approval it has put into the map.      *)
Enqueuing(id) == phase # "start" /\ Head(jobs).kind = "enqueue" /\ Head(jobs).id = id

LivesOn == crashes = 0 /\ faults = 0 /\ ~torn /\ loaded # "failed"

(* A request is in the map only when its client asked, and the client goes *)
(* on only when the snapshot holds it; what is pending was not ruled on,   *)
(* and what is resolved has the ruling that was applied.                   *)
RuledSound ==
  /\ \A id \in Ids :
       /\ client[id] = "idle" => approvals[id] = "none" /\ verdict[id] = "none"
       /\ client[id] = "posting" =>
            verdict[id] = "none" /\ (approvals[id] = "none" \/ Enqueuing(id))
       /\ approvals[id] = "pending" => verdict[id] = "none"
       /\ approvals[id] \in Decisions => verdict[id] = approvals[id]
  /\ loaded = "no" => \A id \in Ids : approvals[id] = "none" /\ file[id] = "none"

RInv == IInv /\ LivesOn /\ RuledSound

Simulated == Review!Next \/ UNCHANGED <<Heard, verdict>>

(* What the client of a request knows, by its state.                       *)
Hears(c) == CASE c = "idle" -> "unasked"
              [] c \in Terminal -> c
              [] OTHER -> "asked"

LEMMA HeardAt == Heard = [id \in Ids |-> Hears(client[id])]
PROOF
  BY DEF Heard, Hears

LEMMA ClientMoves ==
  ASSUME NEW id \in Ids, NEW c, client \in [Ids -> ClientStates],
         client' = [client EXCEPT ![id] = c]
  PROVE  /\ Heard' = [Heard EXCEPT ![id] = Hears(c)]
         /\ Heard[id] = Hears(client[id])
PROOF
  <1> HIDE DEF Hears
  <1>1. Heard = [x \in Ids |-> Hears(client[x])] /\ Heard' = [x \in Ids |-> Hears(client'[x])]
    BY DEF Heard, Hears
  <1> QED  BY <1>1

LEMMA Unheard ==
  ASSUME client' = client
  PROVE  Heard' = Heard
PROOF
  BY DEF Heard

(* Steps of the review.                                                    *)
LEMMA Told ==
  ASSUME TypeOK, NEW id \in Ids, client[id] \notin Terminal \cup {"idle"},
         verdict[id] \in Decisions, verdict' = verdict,
         client' = [client EXCEPT ![id] = AnswerFor(verdict[id])]
  PROVE  Simulated
PROOF
  <1>1. client \in [Ids -> ClientStates]
    BY DEF TypeOK
  <1>2. Hears(client[id]) = "asked" /\ Hears(AnswerFor(verdict[id])) = Review!AnswerFor(verdict[id])
    BY DEF Hears, Terminal, AnswerFor, Review!AnswerFor
  <1>3. Heard[id] = "asked" /\ Heard' = [Heard EXCEPT ![id] = Review!AnswerFor(verdict[id])]
    BY <1>1, <1>2, ClientMoves
  <1>4. verdict[id] # "none"
    BY DEF Decisions
  <1>5. Review!Tell(id)
    BY <1>3, <1>4 DEF Review!Tell
  <1> QED  BY <1>5 DEF Simulated, Review!Next

LEMMA Dropped ==
  ASSUME TypeOK, NEW id \in Ids, client[id] \notin Terminal \cup {"idle"}, verdict' = verdict,
         client' = [client EXCEPT ![id] = "closed"]
  PROVE  Simulated
PROOF
  <1>1. client \in [Ids -> ClientStates]
    BY DEF TypeOK
  <1>2. Hears(client[id]) = "asked" /\ Hears("closed") = "closed"
    BY DEF Hears, Terminal
  <1>3. Heard[id] = "asked" /\ Heard' = [Heard EXCEPT ![id] = "closed"]
    BY <1>1, <1>2, ClientMoves
  <1>4. Review!Drop(id)
    BY <1>3 DEF Review!Drop
  <1> QED  BY <1>4 DEF Simulated, Review!Next

LEMMA StillWaiting ==
  ASSUME TypeOK, NEW id \in Ids, client[id] \notin Terminal \cup {"idle"}, verdict' = verdict,
         NEW c \in ClientStates \ (Terminal \cup {"idle"}),
         client' = [client EXCEPT ![id] = c]
  PROVE  Simulated
PROOF
  <1>1. client \in [Ids -> ClientStates]
    BY DEF TypeOK
  <1>2. Hears(client[id]) = "asked" /\ Hears(c) = "asked"
    BY DEF Hears, Terminal
  <1>3. Heard[id] = "asked" /\ Heard' = [Heard EXCEPT ![id] = "asked"]
    BY <1>1, <1>2, ClientMoves
  <1>4. Heard' = Heard
    BY <1>3 DEF Heard
  <1> QED  BY <1>4 DEF Simulated

(* A job that joins the queue leaves the one that runs.                    *)
LEMMA SameHead ==
  ASSUME TypeOK, NEW e \in Jobs, jobs' = Append(jobs, e), phase' = phase
  PROVE  \A id \in Ids : Enqueuing(id)' <=> Enqueuing(id)
PROOF
  <1>1. phase # "start" => jobs # <<>> /\ jobs \in Seq(Jobs)
    BY DEF TypeOK
  <1>2. phase # "start" => Head(jobs') = Head(jobs)
    BY <1>1, AppendFacts
  <1> QED  BY <1>2 DEF Enqueuing
-----------------------------------------------------------------------------
(* Every action that a living process takes.                               *)
LEMMA Outside ==
  ASSUME RInv, NEW id \in Ids,
         \/ Request(id) \/ Expire(id) \/ TimerFires(id) \/ Poll(id) \/ GiveUp(id)
         \/ \E d \in Decisions : OperatorDecides(id, d)
  PROVE  LivesOn' /\ RuledSound' /\ Simulated
PROOF
  <1> USE DEF mapVars, diskVars, worldVars, boundVars
  <1>0. TypeOK /\ RuledSound /\ LivesOn /\ client \in [Ids -> ClientStates]
    BY DEF RInv, IInv, TypeOK
  <1>1. CASE Request(id)
    <2>1. /\ client[id] = "idle" /\ client' = [client EXCEPT ![id] = "posting"]
          /\ jobs' = Append(jobs, Job("enqueue", id, "none")) /\ phase' = phase
          /\ UNCHANGED <<approvals, verdict, loaded, file, torn, crashes, faults>>
      BY <1>1 DEF Request
    <2>2. Job("enqueue", id, "none") \in Jobs
      BY DEF Job, Jobs
    <2>3. \A x \in Ids : Enqueuing(x)' <=> Enqueuing(x)
      BY <1>0, <2>1, <2>2, SameHead
    <2>4. RuledSound'
      BY <1>0, <2>1, <2>3 DEF RuledSound
    <2>5. Hears("idle") = "unasked" /\ Hears("posting") = "asked"
      BY DEF Hears, Terminal
    <2>6. Heard[id] = "unasked" /\ Heard' = [Heard EXCEPT ![id] = "asked"]
      BY <1>0, <2>1, <2>5, ClientMoves
    <2>7. Review!Ask(id)
      BY <2>1, <2>6 DEF Review!Ask
    <2> QED  BY <1>0, <2>1, <2>4, <2>7 DEF LivesOn, Simulated, Review!Next
  <1>2. CASE Expire(id)
    <2>1. UNCHANGED <<client, approvals, verdict, loaded, jobs, phase, file, torn, crashes, faults>>
      BY <1>2 DEF Expire
    <2> QED  BY <1>0, <2>1, Unheard DEF LivesOn, RuledSound, Enqueuing, Simulated
  <1>3. CASE TimerFires(id)
    <2>1. /\ UNCHANGED <<client, approvals, verdict, loaded, phase, file, torn, crashes, faults>>
          /\ jobs' = Append(jobs, Job("timer", id, Timeout[id]))
      BY <1>3 DEF TimerFires
    <2>2. Job("timer", id, Timeout[id]) \in Jobs
      BY TimeoutAssumption DEF Job, Jobs, Resolvers
    <2>3. \A x \in Ids : Enqueuing(x)' <=> Enqueuing(x)
      BY <1>0, <2>1, <2>2, SameHead
    <2> QED  BY <1>0, <2>1, <2>3, Unheard DEF LivesOn, RuledSound, Simulated
  <1>4. ASSUME NEW d \in Decisions, OperatorDecides(id, d)
        PROVE  LivesOn' /\ RuledSound' /\ Simulated
    <2>1. /\ UNCHANGED <<client, approvals, verdict, loaded, phase, file, torn, crashes, faults>>
          /\ jobs' = Append(jobs, Job("operator", id, d))
      BY <1>4 DEF OperatorDecides
    <2>2. Job("operator", id, d) \in Jobs
      BY DEF Job, Jobs, Resolvers
    <2>3. \A x \in Ids : Enqueuing(x)' <=> Enqueuing(x)
      BY <1>0, <2>1, <2>2, SameHead
    <2> QED  BY <1>0, <2>1, <2>3, Unheard DEF LivesOn, RuledSound, Simulated
  <1>5. CASE GiveUp(id)
    <2>1. /\ UNCHANGED <<jobs, approvals, verdict, loaded, phase, file, torn, crashes, faults>>
          /\ client[id] \in {"polling", "expiring"}
          /\ client' = [client EXCEPT ![id] = "closed"]
      BY <1>5 DEF GiveUp
    <2>2. Simulated
      BY <1>0, <2>1, Dropped DEF Terminal
    <2> QED  BY <1>0, <2>1, <2>2 DEF LivesOn, RuledSound, Enqueuing
  <1>6. CASE Poll(id)
    <2>1. /\ UNCHANGED <<approvals, verdict, loaded, phase, file, torn, crashes, faults>>
          /\ client[id] = "polling"
      BY <1>6 DEF Poll
    <2>2. ASSUME NEW c \in ClientStates \ {"idle", "posting"}, client' = [client EXCEPT ![id] = c],
                 jobs' = jobs \/ \E e \in Jobs : jobs' = Append(jobs, e)
          PROVE  LivesOn' /\ RuledSound'
      <3>1. \A x \in Ids : Enqueuing(x)' <=> Enqueuing(x)
        <4>1. CASE jobs' = jobs
          BY <2>1, <4>1 DEF Enqueuing
        <4>2. ASSUME NEW e \in Jobs, jobs' = Append(jobs, e)
              PROVE  \A x \in Ids : Enqueuing(x)' <=> Enqueuing(x)
          BY <1>0, <2>1, <4>2, SameHead
        <4> QED  BY <2>2, <4>1, <4>2
      <3> QED  BY <1>0, <2>1, <2>2, <3>1 DEF LivesOn, RuledSound
    <2>3. CASE approvals[id] = "none"
      <3>1. client' = [client EXCEPT ![id] = "closed"] /\ jobs' = jobs
        BY <1>6, <2>3 DEF Poll
      <3>2. Simulated
        BY <1>0, <2>1, <3>1, Dropped DEF Terminal
      <3> QED  BY <2>2, <3>1, <3>2 DEF ClientStates, Terminal
    <2>4. CASE approvals[id] \in Decisions
      <3>1. /\ client' = [client EXCEPT ![id] = AnswerFor(approvals[id])]
            /\ jobs' = Append(jobs, Job("delivered", id, "none"))
        BY <1>6, <2>4 DEF Poll, Decisions
      <3>2. verdict[id] = approvals[id]
        BY <1>0, <2>4 DEF RuledSound
      <3>3. Simulated
        BY <1>0, <2>1, <2>4, <3>1, <3>2, Told DEF Terminal
      <3>4. Job("delivered", id, "none") \in Jobs
        BY DEF Job, Jobs
      <3>5. AnswerFor(approvals[id]) \in ClientStates \ {"idle", "posting"}
        BY DEF AnswerFor, ClientStates, Terminal
      <3> QED  BY <2>2, <3>1, <3>3, <3>4, <3>5
    <2>5. CASE approvals[id] = "pending"
      <3>1. /\ client' = [client EXCEPT ![id] = "expiring"]
            /\ jobs' = Append(jobs, Job("poll", id, Timeout[id]))
        BY <1>6, <2>5 DEF Poll
      <3>2. Simulated
        BY <1>0, <2>1, <3>1, StillWaiting DEF Terminal, ClientStates
      <3>3. Job("poll", id, Timeout[id]) \in Jobs
        BY TimeoutAssumption DEF Job, Jobs, Resolvers
      <3> QED  BY <2>2, <3>1, <3>2, <3>3 DEF ClientStates, Terminal
    <2>6. approvals[id] \in Entries
      BY <1>0 DEF TypeOK
    <2> QED  BY <2>3, <2>4, <2>5, <2>6 DEF Entries
  <1> QED  BY <1>1, <1>2, <1>3, <1>4, <1>5, <1>6

(* The answer to a poll that had to resolve an expired approval.           *)
LEMMA Replied ==
  ASSUME TypeOK, RuledSound, verdict' = verdict, NEW job \in Jobs, ReplyFor(job)
  PROVE  /\ Simulated
         /\ \A x \in Ids : \/ client'[x] = client[x]
                           \/ client[x] = "expiring" /\ client'[x] \in Terminal
PROOF
  <1>0. client \in [Ids -> ClientStates] /\ job.id \in Ids
    BY DEF TypeOK, Jobs
  <1>1. CASE client' = client
    BY <1>1, Unheard DEF Simulated
  <1>2. CASE client' # client
    <2>1. PollReply(job.id) /\ client[job.id] = "expiring"
      BY <1>2 DEF ReplyFor, PollReply
    <2>2. PICK id \in Ids : id = job.id
      BY <1>0
    <2>3. CASE approvals[id] \in Decisions
      <3>1. client' = [client EXCEPT ![id] = AnswerFor(approvals[id])]
        BY <2>1, <2>2, <2>3 DEF PollReply
      <3>2. verdict[id] = approvals[id]
        BY <2>3 DEF RuledSound
      <3>3. Simulated
        BY <2>1, <2>2, <2>3, <3>1, <3>2, Told DEF Terminal
      <3>4. AnswerFor(approvals[id]) \in Terminal
        BY DEF AnswerFor, Terminal
      <3> QED  BY <1>0, <2>1, <2>2, <3>1, <3>3, <3>4
    <2>4. CASE approvals[id] \notin Decisions
      <3>1. client' = [client EXCEPT ![id] = "closed"]
        BY <2>1, <2>2, <2>4 DEF PollReply
      <3>2. Simulated
        BY <2>1, <2>2, <3>1, Dropped DEF Terminal
      <3> QED  BY <1>0, <2>1, <2>2, <3>1, <3>2 DEF Terminal
    <2> QED  BY <2>3, <2>4
  <1> QED  BY <1>1, <1>2

LEMMA Started ==
  ASSUME RInv, StartJob
  PROVE  LivesOn' /\ RuledSound' /\ Simulated
PROOF
  <1> USE DEF mapVars, diskVars, worldVars, boundVars
  <1> DEFINE id == Head(jobs).id
             kind == Head(jobs).kind
  <1>0. /\ TypeOK /\ RuledSound /\ LivesOn /\ JobsSound /\ WaitedForIsKnown
        /\ client \in [Ids -> ClientStates] /\ approvals \in [Ids -> Entries]
        /\ verdict \in [Ids -> Decisions \cup {"none"}]
    BY DEF RInv, IInv, TypeOK
  <1>1. /\ phase = "start" /\ loaded = "yes" /\ jobs # <<>>
        /\ id \in Ids /\ JobSound(Head(jobs))
    <2>1. phase = "start" /\ loaded = "yes" /\ jobs # <<>>
      BY DEF StartJob, StartEnqueue, StartWait, StartResolve, SkipResolve, StartDelivered, Running
    <2>2. Head(jobs) \in Jobs /\ Head(jobs) \in Range(jobs)
      BY <1>0, <2>1, TailFacts DEF TypeOK
    <2> QED  BY <1>0, <2>1, <2>2 DEF Jobs, JobsSound
  <1>2. /\ \A x \in Ids : ~Enqueuing(x)
        /\ \A x \in Ids : client[x] = "posting" => approvals[x] = "none"
    BY <1>0, <1>1 DEF Enqueuing, RuledSound
  <1>3. UNCHANGED <<loaded, file, torn, crashes, faults>>
    BY DEF StartJob, StartEnqueue, StartWait, StartResolve, SkipResolve, StartDelivered
  <1>4. LivesOn'
    BY <1>0, <1>3 DEF LivesOn
  <1>5. CASE StartEnqueue
    <2>1. /\ approvals' = [approvals EXCEPT ![id] = "pending"] /\ phase' = "persist"
          /\ UNCHANGED <<client, verdict, jobs>> /\ kind = "enqueue"
      BY <1>5 DEF StartEnqueue, Running
    <2>2. client[id] = "posting" /\ verdict[id] = "none"
      BY <1>0, <1>1, <2>1 DEF JobSound, RuledSound
    <2>3. Enqueuing(id)'
      BY <2>1 DEF Enqueuing
    <2> HIDE DEF id
    <2>4. RuledSound'
      <3> SUFFICES ASSUME NEW x \in Ids
                   PROVE  /\ client'[x] = "idle" => approvals'[x] = "none" /\ verdict'[x] = "none"
                          /\ client'[x] = "posting" =>
                               verdict'[x] = "none" /\ (approvals'[x] = "none" \/ Enqueuing(x)')
                          /\ approvals'[x] = "pending" => verdict'[x] = "none"
                          /\ approvals'[x] \in Decisions => verdict'[x] = approvals'[x]
        BY <1>1, <1>3 DEF RuledSound
      <3>1. CASE x = id
        BY <1>0, <2>1, <2>2, <2>3, <3>1 DEF Enqueuing, Decisions, id
      <3>2. CASE x # id
        BY <1>0, <1>2, <2>1, <3>2 DEF RuledSound
      <3> QED  BY <3>1, <3>2
    <2> QED  BY <1>4, <2>1, <2>4, Unheard DEF Simulated
  <1>6. CASE StartWait
    <2>1. /\ client' = [client EXCEPT ![id] =
               CASE approvals[id] = "pending" -> "waiting"
                 [] approvals[id] = "none"    -> AnswerFor(Timeout[id])
                 [] OTHER                     -> AnswerFor(approvals[id])]
          /\ UNCHANGED <<approvals, verdict, phase>> /\ kind = "wait"
      BY <1>6 DEF StartWait, Running
    <2>2. client[id] = "registering" /\ approvals[id] # "none"
      BY <1>0, <1>1, <2>1 DEF JobSound, WaitedForIsKnown
    <2>3. ASSUME NEW c \in ClientStates \ {"idle", "posting"}, client' = [client EXCEPT ![id] = c]
          PROVE  RuledSound'
      BY <1>0, <1>1, <1>2, <1>3, <2>1, <2>3 DEF RuledSound
    <2>4. CASE approvals[id] = "pending"
      <3>1. client' = [client EXCEPT ![id] = "waiting"]
        BY <2>1, <2>4
      <3> HIDE DEF id
      <3>2. Simulated
        BY <1>0, <1>1, <2>1, <2>2, <3>1, StillWaiting DEF Terminal, ClientStates
      <3> QED  BY <1>4, <2>3, <3>1, <3>2 DEF ClientStates, Terminal
    <2>5. CASE approvals[id] \in Decisions
      <3>1. client' = [client EXCEPT ![id] = AnswerFor(approvals[id])]
        BY <2>1, <2>5 DEF Decisions
      <3>2. verdict[id] = approvals[id]
        BY <1>0, <1>1, <2>5 DEF RuledSound
      <3>3. AnswerFor(approvals[id]) \in ClientStates \ {"idle", "posting"}
        BY DEF AnswerFor, ClientStates, Terminal
      <3> HIDE DEF id
      <3>4. Simulated
        BY <1>0, <1>1, <2>1, <2>2, <2>5, <3>1, <3>2, Told DEF Terminal
      <3> QED  BY <1>4, <2>3, <3>1, <3>3, <3>4
    <2>6. approvals[id] \in Entries
      BY <1>0, <1>1
    <2> QED  BY <2>2, <2>4, <2>5, <2>6 DEF Entries
  <1>7. CASE StartResolve
    <2> DEFINE d == Head(jobs).decision
    <2>1. /\ approvals[id] = "pending"
          /\ approvals' = [approvals EXCEPT ![id] = IF client[id] = "waiting" THEN "none" ELSE d]
          /\ client' = IF client[id] = "waiting" THEN [client EXCEPT ![id] = AnswerFor(d)]
                       ELSE client
          /\ verdict' = [verdict EXCEPT ![id] = d]
          /\ phase' = "persist" /\ kind \in Resolvers
      BY <1>7 DEF StartResolve, Running
    <2>2. d \in Decisions
      BY <1>1, <2>1 DEF JobSound
    <2>3. client[id] \notin {"idle", "posting"} /\ verdict[id] = "none"
      BY <1>0, <1>1, <1>2, <2>1 DEF RuledSound
    <2> HIDE DEF id, d
    <2>4. RuledSound'
      <3> SUFFICES ASSUME NEW x \in Ids
                   PROVE  /\ client'[x] = "idle" => approvals'[x] = "none" /\ verdict'[x] = "none"
                          /\ client'[x] = "posting" =>
                               verdict'[x] = "none" /\ (approvals'[x] = "none" \/ Enqueuing(x)')
                          /\ approvals'[x] = "pending" => verdict'[x] = "none"
                          /\ approvals'[x] \in Decisions => verdict'[x] = approvals'[x]
        BY <1>1, <1>3 DEF RuledSound
      <3>1. CASE x = id
        <4>1. client'[x] \notin {"idle", "posting"}
          BY <1>0, <1>1, <2>1, <2>3, <3>1 DEF AnswerFor
        <4>2. verdict'[x] = d /\ approvals'[x] \in {"none", d} /\ d # "pending"
          BY <1>0, <1>1, <2>1, <2>2, <3>1 DEF Decisions
        <4> QED  BY <4>1, <4>2 DEF Decisions
      <3>2. CASE x # id
        <4>1. client'[x] = client[x] /\ approvals'[x] = approvals[x] /\ verdict'[x] = verdict[x]
          BY <1>0, <2>1, <3>2
        <4> QED  BY <1>0, <1>2, <4>1 DEF RuledSound
      <3> QED  BY <3>1, <3>2
    <2>5. Review!Rule(id, d)
      <3>1. Heard[id] # "unasked"
        BY <1>1, <2>3, HeardAt DEF Hears, Terminal
      <3>2. CASE client[id] = "waiting"
        <4>1. Hears(client[id]) = "asked" /\ Hears(AnswerFor(d)) = Review!AnswerFor(d)
          BY <3>2 DEF Hears, Terminal, AnswerFor, Review!AnswerFor
        <4>2. Heard[id] = "asked" /\ Heard' = [Heard EXCEPT ![id] = Review!AnswerFor(d)]
          <5>1. client' = [client EXCEPT ![id] = AnswerFor(d)] /\ id \in Ids
            BY <1>1, <2>1, <3>2 DEF id
          <5>2. /\ Heard' = [Heard EXCEPT ![id] = Hears(AnswerFor(d))]
                /\ Heard[id] = Hears(client[id])
            BY <1>0, <5>1, ClientMoves
          <5> QED  BY <4>1, <5>2
        <4> QED  BY <2>1, <2>3, <3>1, <4>2 DEF Review!Rule
      <3>3. CASE client[id] # "waiting"
        BY <2>1, <2>3, <3>1, <3>3, Unheard DEF Review!Rule
      <3> QED  BY <3>2, <3>3
    <2>6. Simulated
      BY <1>1, <2>2, <2>5 DEF Simulated, Review!Next, Review!Decisions, Decisions
    <2> QED  BY <1>4, <2>4, <2>6
  <1>8. CASE SkipResolve
    <2>1. UNCHANGED <<approvals, verdict, phase>> /\ ReplyFor(Head(jobs))
      BY <1>8 DEF SkipResolve
    <2>2. Head(jobs) \in Jobs
      BY <1>0, <1>1, TailFacts DEF TypeOK
    <2>3. /\ Simulated
          /\ \A x \in Ids : \/ client'[x] = client[x]
                            \/ client[x] = "expiring" /\ client'[x] \in Terminal
      BY <1>0, <2>1, <2>2, Replied
    <2>4. RuledSound'
      BY <1>0, <1>1, <1>2, <1>3, <2>1, <2>3 DEF RuledSound, Terminal
    <2> QED  BY <1>4, <2>3, <2>4
  <1>9. CASE StartDelivered
    <2>1. /\ client' = client /\ verdict' = verdict
          /\ \/ approvals' = [approvals EXCEPT ![id] = "none"]
             \/ approvals' = approvals
      BY <1>9 DEF StartDelivered
    <2> HIDE DEF id
    <2>2. \A x \in Ids : approvals'[x] \in {"none", approvals[x]}
      BY <1>0, <2>1
    <2>3. RuledSound'
      BY <1>0, <1>1, <1>2, <1>3, <2>1, <2>2 DEF RuledSound, Decisions
    <2> QED  BY <1>4, <2>1, <2>3, Unheard DEF Simulated
  <1> QED  BY <1>5, <1>6, <1>7, <1>8, <1>9 DEF StartJob

LEMMA Written ==
  ASSUME RInv, Load \/ Persist \/ Audit
  PROVE  LivesOn' /\ RuledSound' /\ Simulated
PROOF
  <1> USE DEF mapVars, diskVars, worldVars, boundVars
  <1>0. /\ TypeOK /\ RuledSound /\ LivesOn /\ JobsSound
        /\ client \in [Ids -> ClientStates] /\ approvals \in [Ids -> Entries]
    BY DEF RInv, IInv, TypeOK
  <1>1. CASE Load
    <2>1. /\ UNCHANGED <<client, verdict, jobs, phase, file, torn, crashes, faults>>
          /\ loaded = "no" /\ loaded' = "yes"
          /\ approvals' = [x \in Ids |-> IF x \in Reloadable THEN file[x] ELSE "none"]
      BY <1>0, <1>1 DEF Load, LivesOn
    <2>2. \A x \in Ids : approvals'[x] = "none" /\ approvals[x] = "none"
      BY <1>0, <2>1 DEF RuledSound
    <2>3. RuledSound'
      BY <1>0, <2>1, <2>2 DEF RuledSound, Decisions
    <2> QED  BY <1>0, <2>1, <2>3, Unheard DEF LivesOn, Simulated
  <1>2. CASE Persist
    <2>1. /\ UNCHANGED <<client, approvals, verdict, loaded, jobs, crashes, faults>>
          /\ torn' = FALSE /\ phase = "persist" /\ phase' = "audit"
      BY <1>2 DEF Persist
    <2>2. loaded = "yes"
      BY <1>0, <2>1 DEF TypeOK
    <2>3. \A x \in Ids : Enqueuing(x)' <=> Enqueuing(x)
      BY <2>1 DEF Enqueuing
    <2>4. RuledSound'
      BY <1>0, <2>1, <2>2, <2>3 DEF RuledSound
    <2> QED  BY <1>0, <2>1, <2>4, Unheard DEF LivesOn, Simulated
  <1>3. CASE Audit
    <2> DEFINE job == Head(jobs)
               id == job.id
    <2>1. /\ UNCHANGED <<approvals, verdict, loaded, file, torn, crashes, faults>>
          /\ phase = "audit" /\ phase' = "start"
      BY <1>3 DEF Audit
    <2>2. /\ loaded = "yes" /\ job \in Jobs /\ id \in Ids /\ JobSound(job)
      <3>1. loaded = "yes" /\ jobs # <<>>
        BY <1>0, <2>1 DEF TypeOK
      <3>2. job \in Jobs /\ job \in Range(jobs)
        BY <1>0, <3>1, TailFacts DEF TypeOK
      <3> QED  BY <1>0, <3>1, <3>2 DEF Jobs, JobsSound
    <2>3. LivesOn'
      BY <1>0, <2>1 DEF LivesOn
    <2>4. ASSUME \A x \in Ids : \/ client'[x] = client[x] /\ ~Enqueuing(x)
                                \/ client'[x] \notin {"idle", "posting"}
          PROVE  RuledSound'
      BY <1>0, <2>1, <2>2, <2>4 DEF RuledSound
    <2>5. CASE job.kind = "enqueue"
      <3>1. client[id] = "posting"
        BY <2>2, <2>5 DEF JobSound
      <3>2. PICK c \in {"polling", "registering"} : client' = [client EXCEPT ![id] = c]
        BY <1>3, <2>5, <3>1 DEF Audit, Resolvers
      <3>3. \A x \in Ids : x # id => ~Enqueuing(x)
        BY DEF Enqueuing
      <3> HIDE DEF id
      <3>4. RuledSound'
        BY <1>0, <2>2, <2>4, <3>2, <3>3
      <3>5. Simulated
        BY <1>0, <2>1, <2>2, <3>1, <3>2, StillWaiting DEF ClientStates, Terminal
      <3> QED  BY <2>3, <3>4, <3>5
    <2>6. CASE job.kind \in Resolvers
      <3>1. ReplyFor(job)
        BY <1>3, <2>6 DEF Audit, Resolvers
      <3>2. /\ Simulated
            /\ \A x \in Ids : \/ client'[x] = client[x]
                              \/ client[x] = "expiring" /\ client'[x] \in Terminal
        <4> HIDE DEF job
        <4> QED  BY <1>0, <2>1, <2>2, <3>1, Replied
      <3>3. \A x \in Ids : ~Enqueuing(x)
        BY <2>6 DEF Enqueuing, Resolvers
      <3>4. RuledSound'
        BY <2>4, <3>2, <3>3 DEF Terminal
      <3> QED  BY <2>3, <3>2, <3>4
    <2>7. CASE job.kind \notin Resolvers \cup {"enqueue"}
      <3>1. client' = client
        BY <1>3, <2>7 DEF Audit, Resolvers
      <3>2. \A x \in Ids : ~Enqueuing(x)
        BY <2>7 DEF Enqueuing
      <3>3. RuledSound'
        BY <2>4, <3>1, <3>2
      <3> QED  BY <2>1, <2>3, <3>1, <3>3, Unheard DEF Simulated
    <2> QED  BY <2>5, <2>6, <2>7
  <1> QED  BY <1>1, <1>2, <1>3

(* A process that nothing kills and whose writes succeed.                  *)
LEMMA NothingFails ==
  ASSUME MaxCrashes = 0, MaxFaults = 0, RInv
  PROVE  ~Crash /\ ~WriteFails /\ ~LoadFailed
PROOF
  BY DEF RInv, LivesOn, Crash, WriteFails, LoadFailed

LEMMA StepSimulated ==
  ASSUME MaxCrashes = 0, MaxFaults = 0, RInv, [Next]_vars
  PROVE  RInv' /\ Simulated
PROOF
  <1>1. IInv'
    BY NextIInv DEF RInv
  <1>2. CASE Next
    <2>1. ASSUME NEW id \in Ids,
                 \/ Request(id) \/ Expire(id) \/ TimerFires(id) \/ Poll(id) \/ GiveUp(id)
                 \/ \E d \in Decisions : OperatorDecides(id, d)
          PROVE  LivesOn' /\ RuledSound' /\ Simulated
      BY <2>1, Outside
    <2>2. CASE StartJob
      BY <1>1, <2>2, Started DEF RInv
    <2>3. CASE Load \/ Persist \/ Audit
      BY <1>1, <2>3, Written DEF RInv
    <2> QED  BY <1>1, <1>2, <2>1, <2>2, <2>3, NothingFails DEF Next, RInv
  <1>3. CASE UNCHANGED vars
    BY <1>1, <1>3, Unheard DEF RInv, LivesOn, RuledSound, Enqueuing, Simulated, vars
  <1> QED  BY <1>2, <1>3

LEMMA InitSimulated == Init => RInv /\ Review!Init
PROOF
  <1> SUFFICES ASSUME Init PROVE RInv /\ Review!Init
    OBVIOUS
  <1>1. IInv
    BY InitIInv
  <1>2. LivesOn /\ RuledSound
    BY DEF Init, LivesOn, RuledSound, Decisions
  <1>3. Review!Init
    BY DEF Init, Heard, Terminal, Review!Init
  <1> QED  BY <1>1, <1>2, <1>3 DEF RInv

(* For any requests, policies and timeouts: as long as the process is not  *)
(* killed and its writes succeed, each approval of pending-store.ts gets   *)
(* one ruling, the first, whoever gives it (an operator, the timer or a    *)
(* late poll), and its client hears that one or nothing.                   *)
THEOREM ImplementsReview ==
  ASSUME MaxCrashes = 0, MaxFaults = 0
  PROVE  Spec => FirstRulingCounts
PROOF
  <1>1. Init => RInv /\ Review!Init
    BY InitSimulated
  <1>2. RInv /\ [Next]_vars => RInv' /\ [Review!Next]_<<Heard, verdict>>
    BY StepSimulated DEF Simulated
  <1> QED  BY <1>1, <1>2, PTL DEF Spec, FirstRulingCounts, Review!Spec

-----------------------------------------------------------------------------
(***************************************************************************)
(* The audit log.  A ruling gets its row when the job that applied it ends *)
(* and the row its mark when the delivery does; so the log is behind what  *)
(* a client heard by the jobs that are still in the queue, and no more.    *)
(***************************************************************************)
Row(d, b) == [decision |-> d, delivered |-> b]

(* The job at the head of q is of this request, and past its start.        *)
Runs(p, q, kinds, id) == p # "start" /\ Head(q).kind \in kinds /\ Head(q).id = id
Marks == {"delivered"}

HasDelivery(q, id) == \E j \in Range(q) : j.kind = "delivered" /\ j.id = id

(* One row for each ruling, but for the one whose job still runs; and only *)
(* what a hook asked for is marked.                                        *)
RowSound(id) ==
  /\ Runs(phase, jobs, Resolvers, id) => verdict[id] = Head(jobs).decision
  /\ verdict[id] = "none" \/ Runs(phase, jobs, Resolvers, id) => audit[id] = <<>>
  /\ verdict[id] # "none" /\ ~Runs(phase, jobs, Resolvers, id) =>
       \E b \in BOOLEAN : audit[id] = <<Row(verdict[id], b)>> /\ (b => id \in Hooks)

(* A client has heard the ruling; a hook's row is marked, or its delivery  *)
(* is under way.                                                           *)
HeardSound(id) ==
  client[id] \in {"allow", "deny"} =>
    /\ verdict[id] # "none" /\ client[id] = AnswerFor(verdict[id])
    /\ id \in Hooks => \/ audit[id] = <<Row(verdict[id], TRUE)>>
                       \/ Runs(phase, jobs, Marks, id)
                       \/ HasDelivery(jobs, id) /\ approvals[id] \in Decisions

AuditSound == /\ \A id \in Ids : RowSound(id) /\ HeardSound(id)
              /\ phase # "start" => Head(jobs).kind # "wait"

LInv == IInv /\ (crashes = 0 /\ faults = 0 => RInv /\ AuditSound)

LEMMA RowMarked ==
  ASSUME NEW d, NEW b, NEW c
  PROVE  [Row(d, b) EXCEPT !.delivered = c] = Row(d, c)
PROOF
  <1>1. ASSUME NEW r, r = [decision |-> d, delivered |-> b]
        PROVE  [r EXCEPT !.delivered = c] = [decision |-> d, delivered |-> c]
    BY <1>1
  <1> QED  BY <1>1 DEF Row

LEMMA OneReplaced ==
  ASSUME NEW r, NEW q
  PROVE  [<<r>> EXCEPT ![1] = q] = <<q>>
OBVIOUS

LEMMA MarkRowFacts ==
  /\ MarkRow(<<>>) = <<>>
  /\ \A d \in Decisions, b \in BOOLEAN : MarkRow(<<Row(d, b)>>) = <<Row(d, TRUE)>>
PROOF
  <1>1. MarkRow(<<>>) = <<>>
    BY DEF MarkRow
  <1>2. ASSUME NEW d \in Decisions, NEW b \in BOOLEAN
        PROVE  MarkRow(<<Row(d, b)>>) = <<Row(d, TRUE)>>
    <2> DEFINE rows == <<Row(d, b)>>
               open == { k \in DOMAIN rows : ~rows[k].delivered }
    <2>1. DOMAIN rows = {1} /\ rows[1] = Row(d, b) /\ Row(d, b).delivered = b
      BY DEF Row
    <2>2. CASE b
      <3>1. open = {}
        BY <2>1, <2>2
      <3>2. b = TRUE
        BY <2>2
      <3> QED  BY <3>1, <3>2 DEF MarkRow
    <2>3. CASE ~b
      <3>1. open = {1}
        BY <2>1, <2>3
      <3>2. Max(open) = 1
        BY <3>1 DEF Max
      <3>3. MarkRow(rows) = [rows EXCEPT ![1].delivered = TRUE]
        BY <3>1, <3>2 DEF MarkRow
      <3>4. [rows EXCEPT ![1].delivered = TRUE]
              = [rows EXCEPT ![1] = [Row(d, b) EXCEPT !.delivered = TRUE]]
        BY <2>1
      <3>5. [rows EXCEPT ![1].delivered = TRUE] = [rows EXCEPT ![1] = Row(d, TRUE)]
        <4>1. [Row(d, b) EXCEPT !.delivered = TRUE] = Row(d, TRUE)
          BY RowMarked, Zenon
        <4> HIDE DEF rows
        <4> QED  BY <3>4, <4>1
      <3> QED  BY <3>3, <3>5, OneReplaced
    <2> QED  BY <2>2, <2>3
  <1> QED  BY <1>1, <1>2

(* A step that rules on nothing and delivers nothing.                      *)
LEMMA AuditKept ==
  ASSUME RInv, AuditSound, audit' = audit, verdict' = verdict,
         \A x \in Ids : /\ Runs(phase', jobs', Resolvers, x) <=> Runs(phase, jobs, Resolvers, x)
                        /\ Runs(phase, jobs, Marks, x) => Runs(phase', jobs', Marks, x)
                        /\ HasDelivery(jobs, x) => HasDelivery(jobs', x)
                        /\ approvals[x] \in Decisions => approvals'[x] = approvals[x],
         phase # "start" /\ phase' # "start" => Head(jobs') = Head(jobs),
         phase' # "start" => Head(jobs').kind # "wait",
         \A x \in Ids :
           \/ client'[x] = client[x]
           \/ client'[x] \notin {"allow", "deny"}
           \/ /\ approvals[x] \in Decisions /\ client'[x] = AnswerFor(approvals[x])
              /\ x \in Hooks => HasDelivery(jobs', x)
  PROVE  AuditSound'
PROOF
  <1> SUFFICES ASSUME NEW x \in Ids
               PROVE  RowSound(x)' /\ HeardSound(x)'
    BY DEF AuditSound
  <1>1. RowSound(x) /\ HeardSound(x)
    BY DEF AuditSound
  <1>2. approvals[x] \in Decisions => verdict[x] = approvals[x] /\ verdict[x] # "none"
    BY DEF RInv, RuledSound, Decisions
  <1>3. RowSound(x)'
    <2>1. Runs(phase', jobs', Resolvers, x) => Head(jobs') = Head(jobs)
      BY DEF Runs
    <2> QED  BY <1>1, <2>1 DEF RowSound
  <1>4. HeardSound(x)'
    <2>1. CASE client'[x] = client[x]
      BY <1>1, <2>1 DEF HeardSound
    <2>2. CASE client'[x] \notin {"allow", "deny"}
      BY <2>2 DEF HeardSound
    <2>3. CASE /\ approvals[x] \in Decisions /\ client'[x] = AnswerFor(approvals[x])
               /\ x \in Hooks => HasDelivery(jobs', x)
      BY <1>2, <2>3 DEF HeardSound
    <2> QED  BY <2>1, <2>2, <2>3
  <1> QED  BY <1>3, <1>4

LEMMA AuditInQueue ==
  ASSUME TypeOK
  PROVE  /\ phase # "start" => jobs # <<>>
         /\ jobs # <<>> => Head(jobs) \in Jobs /\ Head(jobs).id \in Ids /\ Head(jobs) \in Range(jobs)
         /\ \A e \in Jobs : /\ jobs # <<>> => Head(Append(jobs, e)) = Head(jobs)
                            /\ \A x : HasDelivery(jobs, x) => HasDelivery(Append(jobs, e), x)
                            /\ e.kind = "delivered" => HasDelivery(Append(jobs, e), e.id)
         /\ jobs # <<>> => \A x : HasDelivery(jobs, x) =>
                             \/ HasDelivery(Tail(jobs), x)
                             \/ Head(jobs).kind = "delivered" /\ Head(jobs).id = x
PROOF
  <1>0. jobs \in Seq(Jobs) /\ (phase # "start" => jobs # <<>>)
    BY DEF TypeOK
  <1>1. ASSUME jobs # <<>>
        PROVE  /\ Head(jobs) \in Jobs /\ Head(jobs).id \in Ids
               /\ Range(jobs) = Range(Tail(jobs)) \cup {Head(jobs)}
    <2>1. Head(jobs) \in Jobs /\ Range(jobs) = Range(Tail(jobs)) \cup {Head(jobs)}
      BY <1>0, <1>1, TailFacts
    <2> QED  BY <2>1 DEF Jobs
  <1>2. ASSUME NEW e \in Jobs
        PROVE  /\ jobs # <<>> => Head(Append(jobs, e)) = Head(jobs)
               /\ Range(Append(jobs, e)) = Range(jobs) \cup {e}
    BY <1>0, AppendFacts
  <1> QED  BY <1>0, <1>1, <1>2 DEF HasDelivery

-----------------------------------------------------------------------------
LEMMA OutsideAudit ==
  ASSUME RInv, AuditSound, NEW id \in Ids,
         \/ Request(id) \/ Expire(id) \/ TimerFires(id) \/ Poll(id) \/ GiveUp(id)
         \/ \E d \in Decisions : OperatorDecides(id, d)
  PROVE  AuditSound'
PROOF
  <1> USE DEF mapVars, diskVars, worldVars, boundVars
  <1>0. TypeOK /\ ClientsSound /\ client \in [Ids -> ClientStates] /\ approvals \in [Ids -> Entries]
    BY DEF RInv, IInv, TypeOK
  <1>1. UNCHANGED <<approvals, verdict, phase, audit>>
    BY DEF Request, Expire, TimerFires, Poll, GiveUp, OperatorDecides
  <1>2. jobs' = jobs \/ \E e \in Jobs : jobs' = Append(jobs, e)
    <2>1. \A d \in Decisions \cup {"none"} :
            \A k \in Resolvers \cup {"enqueue", "delivered"} : Job(k, id, d) \in Jobs
      BY DEF Job, Jobs
    <2>2. Timeout[id] \in Decisions
      BY TimeoutAssumption
    <2>3. \/ jobs' = jobs
          \/ \E d \in Decisions \cup {"none"}, k \in Resolvers \cup {"enqueue", "delivered"} :
               jobs' = Append(jobs, Job(k, id, d))
      <3>1. CASE Request(id)
        BY <3>1 DEF Request
      <3>2. CASE Expire(id) \/ GiveUp(id)
        BY <3>2 DEF Expire, GiveUp
      <3>3. CASE TimerFires(id)
        BY <2>2, <3>3 DEF TimerFires, Resolvers
      <3>4. CASE Poll(id)
        BY <2>2, <3>4 DEF Poll, Resolvers
      <3>5. CASE \E d \in Decisions : OperatorDecides(id, d)
        BY <3>5 DEF OperatorDecides, Resolvers
      <3> QED  BY <3>1, <3>2, <3>3, <3>4, <3>5
    <2> QED  BY <2>1, <2>3
  <1>3. /\ phase # "start" => Head(jobs') = Head(jobs)
        /\ \A x \in Ids : HasDelivery(jobs, x) => HasDelivery(jobs', x)
    <2>1. ASSUME NEW e \in Jobs, jobs' = Append(jobs, e)
          PROVE  /\ phase # "start" => Head(jobs') = Head(jobs)
                 /\ \A x \in Ids : HasDelivery(jobs, x) => HasDelivery(jobs', x)
      BY <1>0, <2>1, AuditInQueue
    <2> QED  BY <1>2, <2>1
  <1>4. \A x \in Ids :
          \/ client'[x] = client[x]
          \/ client'[x] \notin {"allow", "deny"}
          \/ /\ approvals[x] \in Decisions /\ client'[x] = AnswerFor(approvals[x])
             /\ x \in Hooks => HasDelivery(jobs', x)
    <2>1. CASE Poll(id)
      <3>1. CASE approvals[id] \in Decisions
        <4>1. /\ client' = [client EXCEPT ![id] = AnswerFor(approvals[id])]
              /\ jobs' = Append(jobs, Job("delivered", id, "none"))
          BY <2>1, <3>1 DEF Poll, Decisions
        <4>2. /\ Job("delivered", id, "none") \in Jobs
              /\ Job("delivered", id, "none").kind = "delivered"
              /\ Job("delivered", id, "none").id = id
          BY DEF Job, Jobs
        <4>3. HasDelivery(jobs', id)
          BY <1>0, <4>1, <4>2, AuditInQueue
        <4> QED  BY <1>0, <3>1, <4>1, <4>3
      <3>2. CASE approvals[id] \notin Decisions
        <4>1. approvals[id] \in {"none", "pending"}
          BY <1>0, <3>2 DEF Entries
        <4>2. \E c \in {"closed", "expiring"} : client' = [client EXCEPT ![id] = c]
          BY <2>1, <4>1 DEF Poll
        <4> QED  BY <1>0, <4>2
      <3> QED  BY <3>1, <3>2
    <2>2. CASE ~Poll(id)
      <3>1. client' = client \/ \E c \in {"posting", "closed"} : client' = [client EXCEPT ![id] = c]
        BY <2>2 DEF Request, Expire, TimerFires, GiveUp, OperatorDecides
      <3> QED  BY <1>0, <3>1
    <2> QED  BY <2>1, <2>2
  <1>5. \A x \in Ids, k \in {Resolvers, Marks} : Runs(phase', jobs', k, x) <=> Runs(phase, jobs, k, x)
    BY <1>1, <1>3 DEF Runs
  <1>6. phase' # "start" => Head(jobs').kind # "wait"
    BY <1>1, <1>3 DEF AuditSound
  <1> QED  BY <1>1, <1>3, <1>4, <1>5, <1>6, AuditKept

(* A job that is no delivery leaves, and a late poll may be answered.      *)
LEMMA RepliedAudit ==
  ASSUME TypeOK, jobs # <<>>, Head(jobs).kind \in Resolvers, ReplyFor(Head(jobs))
  PROVE  /\ \A x \in Ids : HasDelivery(jobs, x) => HasDelivery(jobs', x)
         /\ \A x \in Ids :
              \/ client'[x] = client[x]
              \/ client'[x] \notin {"allow", "deny"}
              \/ /\ approvals[x] \in Decisions /\ client'[x] = AnswerFor(approvals[x])
                 /\ HasDelivery(jobs', x)
PROOF
  <1> DEFINE id == Head(jobs).id
             e == Job("delivered", id, "none")
  <1>0. /\ client \in [Ids -> ClientStates] /\ id \in Ids /\ jobs \in Seq(Jobs)
        /\ \A x : HasDelivery(jobs, x) => HasDelivery(Tail(jobs), x)
    BY AuditInQueue DEF TypeOK, Resolvers
  <1>1. Tail(jobs) \in Seq(Jobs) /\ e \in Jobs /\ e.kind = "delivered" /\ e.id = id
    BY <1>0, TailFacts DEF Job, Jobs
  <1>2. Range(Append(Tail(jobs), e)) = Range(Tail(jobs)) \cup {e}
    BY <1>1, AppendFacts
  <1>3. /\ \A x : HasDelivery(Tail(jobs), x) => HasDelivery(Append(Tail(jobs), e), x)
        /\ HasDelivery(Append(Tail(jobs), e), id)
    BY <1>1, <1>2 DEF HasDelivery
  <1>4. \/ jobs' = Tail(jobs) /\ client' = client
        \/ jobs' = Tail(jobs) /\ client' = [client EXCEPT ![id] = "closed"]
        \/ /\ jobs' = Append(Tail(jobs), e) /\ approvals[id] \in Decisions
           /\ client' = [client EXCEPT ![id] = AnswerFor(approvals[id])]
    BY DEF ReplyFor, PollReply
  <1> HIDE DEF e, id
  <1> QED  BY <1>0, <1>3, <1>4

LEMMA StartedAudit ==
  ASSUME RInv, AuditSound, StartJob
  PROVE  AuditSound'
PROOF
  <1> USE DEF mapVars, diskVars, worldVars, boundVars
  <1> DEFINE id == Head(jobs).id
             kind == Head(jobs).kind
  <1>0. /\ TypeOK /\ RuledSound /\ JobsSound /\ WaitedForIsKnown /\ ClientsSound
        /\ client \in [Ids -> ClientStates] /\ approvals \in [Ids -> Entries]
        /\ verdict \in [Ids -> Decisions \cup {"none"}]
    BY DEF RInv, IInv, TypeOK
  <1>1. /\ phase = "start" /\ jobs # <<>> /\ id \in Ids /\ JobSound(Head(jobs)) /\ audit' = audit
    <2>1. phase = "start" /\ jobs # <<>> /\ audit' = audit
      BY DEF StartJob, StartEnqueue, StartWait, StartResolve, SkipResolve, StartDelivered, Running
    <2> QED  BY <1>0, <2>1, AuditInQueue DEF JobsSound
  <1>2. \A k, x : ~Runs(phase, jobs, k, x)
    BY <1>1 DEF Runs
  <1>3. CASE StartEnqueue
    <2>1. /\ approvals' = [approvals EXCEPT ![id] = "pending"] /\ phase' = "persist"
          /\ UNCHANGED <<client, verdict, jobs>> /\ kind = "enqueue"
      BY <1>3 DEF StartEnqueue, Running
    <2>2. client[id] = "posting" /\ approvals[id] \notin Decisions
      BY <1>0, <1>1, <2>1 DEF JobSound, RuledSound, Enqueuing, Decisions
    <2>3. \A x : ~Runs(phase', jobs', Resolvers, x)
      BY <2>1 DEF Runs, Resolvers
    <2> HIDE DEF id
    <2>4. \A x \in Ids : approvals[x] \in Decisions => approvals'[x] = approvals[x]
      BY <1>0, <2>1, <2>2
    <2> QED  BY <1>1, <1>2, <2>1, <2>3, <2>4, AuditKept
  <1>4. CASE StartWait
    <2>1. /\ client' = [client EXCEPT ![id] =
               CASE approvals[id] = "pending" -> "waiting"
                 [] approvals[id] = "none"    -> AnswerFor(Timeout[id])
                 [] OTHER                     -> AnswerFor(approvals[id])]
          /\ UNCHANGED <<approvals, verdict, phase>> /\ kind = "wait" /\ jobs' = Tail(jobs)
      BY <1>4 DEF StartWait, Running
    <2>2. client[id] = "registering" /\ approvals[id] # "none" /\ id \notin Hooks
      BY <1>0, <1>1, <2>1 DEF JobSound, WaitedForIsKnown, ClientsSound
    <2>3. \/ client' = [client EXCEPT ![id] = "waiting"]
          \/ /\ client' = [client EXCEPT ![id] = AnswerFor(approvals[id])]
             /\ approvals[id] \in Decisions
      BY <1>0, <1>1, <2>1, <2>2 DEF Entries, Decisions
    <2>4. \A k, x : ~Runs(phase', jobs', k, x)
      BY <1>1, <2>1 DEF Runs
    <2>5. \A x \in Ids : HasDelivery(jobs, x) => HasDelivery(jobs', x)
      BY <1>0, <1>1, <2>1, AuditInQueue
    <2> HIDE DEF id
    <2> QED  BY <1>0, <1>1, <1>2, <2>1, <2>2, <2>3, <2>4, <2>5, AuditKept
  <1>5. CASE SkipResolve
    <2>1. UNCHANGED <<approvals, verdict, phase>> /\ ReplyFor(Head(jobs)) /\ kind \in Resolvers
      BY <1>5 DEF SkipResolve, Running
    <2>2. \A k, x : ~Runs(phase', jobs', k, x)
      BY <1>1, <2>1 DEF Runs
    <2> QED  BY <1>0, <1>1, <1>2, <2>1, <2>2, RepliedAudit, AuditKept
  <1>6. CASE StartResolve
    <2> DEFINE d == Head(jobs).decision
    <2>1. /\ approvals[id] = "pending"
          /\ approvals' = [approvals EXCEPT ![id] = IF client[id] = "waiting" THEN "none" ELSE d]
          /\ client' = IF client[id] = "waiting" THEN [client EXCEPT ![id] = AnswerFor(d)]
                       ELSE client
          /\ verdict' = [verdict EXCEPT ![id] = d]
          /\ phase' = "persist" /\ kind \in Resolvers /\ jobs' = jobs
      BY <1>6 DEF StartResolve, Running
    <2>2. verdict[id] = "none" /\ d \in Decisions
      BY <1>0, <1>1, <2>1 DEF RuledSound, JobSound
    <2>3. client[id] = "waiting" => id \notin Hooks
      BY <1>0, <1>1 DEF ClientsSound
    <2>4. /\ \A x : Runs(phase', jobs', Resolvers, x) <=> x = id
          /\ \A x : ~Runs(phase', jobs', Marks, x)
      BY <2>1 DEF Runs, Resolvers, Marks
    <2>5. ASSUME NEW x \in Ids
          PROVE  RowSound(x)' /\ HeardSound(x)'
      <3>1. RowSound(x) /\ HeardSound(x)
        BY DEF AuditSound
      <3>2. CASE x = id
        <4>1. verdict'[x] = d /\ d # "none" /\ audit'[x] = <<>>
          BY <1>0, <1>1, <1>2, <2>1, <2>2, <3>1, <3>2 DEF RowSound, Decisions
        <4>2. client'[x] \in {"allow", "deny"} => client'[x] = AnswerFor(d) /\ x \notin Hooks
          BY <1>0, <1>1, <2>1, <2>2, <2>3, <3>1, <3>2 DEF HeardSound
        <4>3. Head(jobs') = Head(jobs)
          BY <2>1
        <4> QED  BY <2>4, <3>2, <4>1, <4>2, <4>3 DEF RowSound, HeardSound
      <3>3. CASE x # id
        <4> HIDE DEF id, d
        <4>1. /\ client'[x] = client[x] /\ approvals'[x] = approvals[x]
              /\ verdict'[x] = verdict[x] /\ audit'[x] = audit[x] /\ jobs' = jobs
          BY <1>0, <1>1, <2>1, <3>3
        <4> QED  BY <1>2, <2>4, <3>1, <3>3, <4>1 DEF RowSound, HeardSound
      <3> QED  BY <3>2, <3>3
    <2>6. phase' # "start" => Head(jobs').kind # "wait"
      BY <2>1 DEF Resolvers
    <2> QED  BY <2>5, <2>6 DEF AuditSound
  <1>7. CASE StartDelivered
    <2>1. kind = "delivered" /\ client' = client /\ verdict' = verdict
      BY <1>7 DEF StartDelivered, Running
    <2>2. CASE approvals[id] \in Decisions
      <3>1. approvals' = [approvals EXCEPT ![id] = "none"] /\ phase' = "persist" /\ jobs' = jobs
        BY <1>7, <2>2 DEF StartDelivered
      <3>2. /\ \A x : ~Runs(phase', jobs', Resolvers, x)
            /\ \A x : Runs(phase', jobs', Marks, x) <=> x = id
        BY <2>1, <3>1 DEF Runs, Resolvers, Marks
      <3>3. ASSUME NEW x \in Ids
            PROVE  RowSound(x)' /\ HeardSound(x)'
        <4>1. RowSound(x) /\ HeardSound(x)
          BY DEF AuditSound
        <4> HIDE DEF id
        <4>2. x # id => approvals'[x] = approvals[x]
          BY <1>0, <1>1, <3>1
        <4>3. RowSound(x)'
          BY <1>1, <1>2, <2>1, <3>1, <3>2, <4>1 DEF RowSound
        <4>4. HeardSound(x)'
          BY <1>1, <1>2, <2>1, <3>1, <3>2, <4>1, <4>2 DEF HeardSound
        <4> QED  BY <4>3, <4>4
      <3>4. Head(jobs').kind # "wait"
        BY <2>1, <3>1
      <3> QED  BY <3>3, <3>4 DEF AuditSound
    <2>3. CASE approvals[id] \notin Decisions
      <3>1. approvals' = approvals /\ phase' = phase /\ jobs' = Tail(jobs)
        BY <1>7, <2>3 DEF StartDelivered
      <3>2. \A k, x : ~Runs(phase', jobs', k, x)
        BY <1>1, <3>1 DEF Runs
      <3>3. \A x \in Ids : HasDelivery(jobs, x) => x = id \/ HasDelivery(jobs', x)
        BY <1>0, <1>1, <3>1, AuditInQueue
      <3>4. ASSUME NEW x \in Ids
            PROVE  RowSound(x)' /\ HeardSound(x)'
        <4>1. RowSound(x) /\ HeardSound(x)
          BY DEF AuditSound
        <4> HIDE DEF id
        <4>2. RowSound(x)'
          BY <1>1, <1>2, <2>1, <3>1, <3>2, <4>1 DEF RowSound
        <4>3. HeardSound(x)'
          BY <1>1, <1>2, <2>1, <2>3, <3>1, <3>2, <3>3, <4>1 DEF HeardSound
        <4> QED  BY <4>2, <4>3
      <3> QED  BY <1>1, <3>1, <3>4 DEF AuditSound
    <2> QED  BY <2>2, <2>3
  <1> QED  BY <1>3, <1>4, <1>5, <1>6, <1>7 DEF StartJob

LEMMA WrittenAudit ==
  ASSUME RInv, AuditSound, Load \/ Persist \/ Audit
  PROVE  AuditSound'
PROOF
  <1> USE DEF mapVars, diskVars, worldVars, boundVars
  <1>0. /\ TypeOK /\ RuledSound /\ LivesOn /\ JobsSound
        /\ client \in [Ids -> ClientStates] /\ audit \in [Ids -> Seq([decision : Decisions, delivered : BOOLEAN])]
        /\ verdict \in [Ids -> Decisions \cup {"none"}]
    BY DEF RInv, IInv, TypeOK
  <1>1. CASE Load
    <2>1. UNCHANGED <<client, verdict, jobs, phase, audit>> /\ loaded = "no"
      BY <1>1 DEF Load
    <2>2. \A x \in Ids : approvals[x] \notin Decisions
      BY <1>0, <2>1 DEF RuledSound, Decisions
    <2>3. phase' # "start" => Head(jobs').kind # "wait"
      BY <2>1 DEF AuditSound
    <2> QED  BY <2>1, <2>2, <2>3, AuditKept
  <1>2. CASE Persist
    <2>1. UNCHANGED <<client, approvals, verdict, jobs, audit>> /\ phase = "persist" /\ phase' = "audit"
      BY <1>2 DEF Persist
    <2>2. \A x \in Ids, k \in {Resolvers, Marks} : Runs(phase', jobs', k, x) <=> Runs(phase, jobs, k, x)
      BY <2>1 DEF Runs
    <2>3. Head(jobs').kind # "wait" /\ Head(jobs') = Head(jobs)
      BY <2>1 DEF AuditSound
    <2> QED  BY <2>1, <2>2, <2>3, AuditKept
  <1>3. CASE Audit
    <2> DEFINE job == Head(jobs)
               id == job.id
    <2>1. /\ UNCHANGED <<approvals, verdict>> /\ phase = "audit" /\ phase' = "start"
          /\ \A k, x : ~Runs(phase', jobs', k, x)
      BY <1>3 DEF Audit, Runs
    <2>2. jobs # <<>> /\ job \in Jobs /\ id \in Ids /\ JobSound(job)
      BY <1>0, <2>1, AuditInQueue DEF TypeOK, JobsSound
    <2>3. CASE job.kind = "enqueue"
      <3>1. /\ audit' = audit
            /\ \/ client' = client /\ jobs' = Tail(jobs)
               \/ client' = [client EXCEPT ![id] = "polling"] /\ jobs' = Tail(jobs)
               \/ /\ client' = [client EXCEPT ![id] = "registering"]
                  /\ jobs' = Append(Tail(jobs), Job("wait", id, "none"))
        BY <1>3, <2>3 DEF Audit, Resolvers
      <3>2. \A k \in {Resolvers, Marks} : \A x : ~Runs(phase, jobs, k, x)
        BY <2>3 DEF Runs, Resolvers, Marks
      <3>3. \A x \in Ids : HasDelivery(jobs, x) => HasDelivery(jobs', x)
        <4>1. \A x \in Ids : HasDelivery(jobs, x) => HasDelivery(Tail(jobs), x)
          BY <1>0, <2>2, <2>3, AuditInQueue
        <4>2. Tail(jobs) \in Seq(Jobs) /\ Job("wait", id, "none") \in Jobs
          BY <1>0, <2>2, TailFacts DEF TypeOK, Job, Jobs
        <4>3. Range(Append(Tail(jobs), Job("wait", id, "none")))
                = Range(Tail(jobs)) \cup {Job("wait", id, "none")}
          BY <4>2, AppendFacts
        <4>4. \A x \in Ids : HasDelivery(Tail(jobs), x) =>
                               HasDelivery(Append(Tail(jobs), Job("wait", id, "none")), x)
          BY <4>3 DEF HasDelivery
        <4> QED  BY <3>1, <4>1, <4>4
      <3>4. \A x \in Ids : client'[x] = client[x] \/ client'[x] \notin {"allow", "deny"}
        BY <1>0, <2>2, <3>1
      <3> QED  BY <2>1, <3>1, <3>2, <3>3, <3>4, AuditKept
    <2>4. CASE job.kind \in Resolvers
      <3>1. ReplyFor(job) /\ audit' = [audit EXCEPT ![id] = Append(@, Row(job.decision, FALSE))]
        BY <1>3, <2>4 DEF Audit, Resolvers, Row
      <3>2. /\ \A x : Runs(phase, jobs, Resolvers, x) <=> x = id
            /\ \A x : ~Runs(phase, jobs, Marks, x)
        BY <2>1, <2>4 DEF Runs, Resolvers, Marks
      <3>3. /\ \A x \in Ids : HasDelivery(jobs, x) => HasDelivery(jobs', x)
            /\ \A x \in Ids :
                 \/ client'[x] = client[x]
                 \/ client'[x] \notin {"allow", "deny"}
                 \/ /\ approvals[x] \in Decisions /\ client'[x] = AnswerFor(approvals[x])
                    /\ HasDelivery(jobs', x)
        BY <1>0, <2>2, <2>4, <3>1, RepliedAudit
      <3>4. job.decision \in Decisions
        BY <2>2, <2>4 DEF JobSound
      <3> HIDE DEF job
      <3>5. ASSUME NEW x \in Ids
            PROVE  RowSound(x)' /\ HeardSound(x)'
        <4>1. RowSound(x) /\ HeardSound(x)
          BY DEF AuditSound
        <4>2. CASE x = id
          <5>1. audit[x] = <<>> /\ verdict[x] = job.decision
            BY <3>2, <4>1, <4>2 DEF RowSound, job
          <5>2. audit'[x] = <<Row(verdict[x], FALSE)>>
            <6>1. audit'[x] = Append(audit[x], Row(job.decision, FALSE))
              BY <1>0, <3>1, <4>2
            <6>2. \A r : Append(<<>>, r) = <<r>>
              OBVIOUS
            <6> QED  BY <5>1, <6>1, <6>2
          <5>3. RowSound(x)'
            <6>1. verdict'[x] # "none" /\ audit'[x] = <<Row(verdict'[x], FALSE)>>
              BY <2>1, <3>4, <5>1, <5>2 DEF Decisions
            <6> QED  BY <2>1, <6>1 DEF RowSound
          <5>4. audit[x] # <<Row(verdict[x], TRUE)>>
            BY <5>1
          <5>5. approvals[x] \in Decisions => verdict[x] = approvals[x] /\ verdict[x] # "none"
            BY <1>0 DEF RuledSound, Decisions
          <5>6. HeardSound(x)'
            <6>1. CASE client'[x] = client[x]
              BY <2>1, <3>2, <3>3, <4>1, <5>4, <6>1 DEF HeardSound
            <6>2. CASE client'[x] # client[x]
              BY <2>1, <3>3, <5>5, <6>2 DEF HeardSound
            <6> QED  BY <6>1, <6>2
          <5> QED  BY <5>3, <5>6
        <4>3. CASE x # id
          <5>1. audit'[x] = audit[x]
            BY <1>0, <3>1, <4>3
          <5>2. RowSound(x)'
            BY <2>1, <3>2, <4>1, <4>3, <5>1 DEF RowSound
          <5>3. approvals[x] \in Decisions => verdict[x] = approvals[x] /\ verdict[x] # "none"
            BY <1>0 DEF RuledSound, Decisions
          <5>4. HeardSound(x)'
            <6>1. CASE client'[x] = client[x]
              BY <2>1, <3>2, <3>3, <4>1, <5>1, <6>1 DEF HeardSound
            <6>2. CASE client'[x] # client[x]
              BY <2>1, <3>3, <5>3, <6>2 DEF HeardSound
            <6> QED  BY <6>1, <6>2
          <5> QED  BY <5>2, <5>4
        <4> QED  BY <4>2, <4>3
      <3> QED  BY <2>1, <3>5 DEF AuditSound
    <2>5. CASE job.kind \notin Resolvers \cup {"enqueue"}
      <3>1. audit' = [audit EXCEPT ![id] = MarkRow(@)] /\ jobs' = Tail(jobs) /\ client' = client
        BY <1>3, <2>5 DEF Audit, Resolvers
      <3>2. job.kind = "delivered" /\ id \in Hooks
        BY <2>1, <2>2, <2>5 DEF AuditSound, Jobs, JobSound
      <3>3. \A x : ~Runs(phase, jobs, Resolvers, x)
        BY <2>5 DEF Runs
      <3>4. \A x : Runs(phase, jobs, Marks, x) => x = id
        BY DEF Runs
      <3>5. \A x \in Ids : HasDelivery(jobs, x) => x = id \/ HasDelivery(jobs', x)
        BY <1>0, <2>2, <3>1, AuditInQueue
      <3> HIDE DEF id, job
      <3>6. ASSUME NEW x \in Ids
            PROVE  RowSound(x)' /\ HeardSound(x)'
        <4>1. RowSound(x) /\ HeardSound(x)
          BY DEF AuditSound
        <4>2. CASE x = id
          <5>1. audit'[x] = MarkRow(audit[x])
            BY <1>0, <3>1, <4>2
          <5>2. verdict[x] = "none" => audit'[x] = <<>>
            BY <3>3, <4>1, <5>1, MarkRowFacts DEF RowSound
          <5>3. verdict[x] # "none" => audit'[x] = <<Row(verdict[x], TRUE)>>
            <6>1. verdict[x] # "none" => verdict[x] \in Decisions
              BY <1>0
            <6> QED  BY <3>3, <4>1, <5>1, <6>1, MarkRowFacts DEF RowSound
          <5> QED  BY <2>1, <3>1, <3>2, <4>1, <4>2, <5>2, <5>3 DEF RowSound, HeardSound
        <4>3. CASE x # id
          <5>1. audit'[x] = audit[x]
            BY <1>0, <3>1, <4>3
          <5> QED  BY <2>1, <3>1, <3>3, <3>4, <3>5, <4>1, <4>3, <5>1 DEF RowSound, HeardSound
        <4> QED  BY <4>2, <4>3
      <3> QED  BY <2>1, <3>6 DEF AuditSound
    <2> QED  BY <2>3, <2>4, <2>5
  <1> QED  BY <1>1, <1>2, <1>3

LEMMA InitLInv == Init => LInv
PROOF
  <1> SUFFICES ASSUME Init PROVE LInv
    OBVIOUS
  <1>1. RInv
    BY InitSimulated
  <1>2. AuditSound
    BY DEF Init, AuditSound, RowSound, HeardSound, Runs
  <1> QED  BY <1>1, <1>2 DEF LInv, RInv

LEMMA NextLInv == LInv /\ [Next]_vars => LInv'
PROOF
  <1> SUFFICES ASSUME LInv, [Next]_vars PROVE LInv'
    OBVIOUS
  <1>1. IInv'
    BY NextIInv DEF LInv
  <1>2. ASSUME crashes' = 0, faults' = 0
        PROVE  RInv' /\ AuditSound'
    <2>1. crashes \in Nat /\ faults \in Nat
      BY BoundsAssumption DEF LInv, IInv, TypeOK
    <2>2. ~Crash
      BY <1>2, <2>1 DEF Crash
    <2>3. ~WriteFails
      BY <1>2, <2>1 DEF WriteFails
    <2>4. CASE Next
      <3>1. crashes = 0 /\ faults = 0
        BY <1>2, <2>1, <2>2, <2>3, <2>4
        DEF Next, Load, StartJob, StartEnqueue, StartWait, StartResolve, SkipResolve,
            StartDelivered, Persist, Audit, LoadFailed, Request, Expire, TimerFires, Poll,
            GiveUp, OperatorDecides, boundVars
      <3>2. RInv /\ AuditSound
        BY <3>1 DEF LInv
      <3>3. ~LoadFailed
        BY <3>2 DEF RInv, LivesOn, LoadFailed
      <3>4. ASSUME NEW id \in Ids,
                   \/ Request(id) \/ Expire(id) \/ TimerFires(id) \/ Poll(id) \/ GiveUp(id)
                   \/ \E d \in Decisions : OperatorDecides(id, d)
            PROVE  LivesOn' /\ RuledSound' /\ AuditSound'
        BY <3>2, <3>4, Outside, OutsideAudit
      <3>5. CASE StartJob
        BY <1>1, <3>2, <3>5, Started, StartedAudit DEF RInv
      <3>6. CASE Load \/ Persist \/ Audit
        BY <1>1, <3>2, <3>6, Written, WrittenAudit DEF RInv
      <3> QED  BY <1>1, <2>2, <2>3, <2>4, <3>3, <3>4, <3>5, <3>6 DEF Next, RInv
    <2>5. CASE UNCHANGED vars
      <3>1. RInv /\ AuditSound
        BY <1>2, <2>5 DEF LInv, vars
      <3>2. LivesOn' /\ RuledSound'
        BY <2>5, <3>1 DEF RInv, LivesOn, RuledSound, Enqueuing, vars
      <3>3. AuditSound'
        BY <2>5, <3>1 DEF AuditSound, RowSound, HeardSound, vars
      <3> QED  BY <1>1, <3>2, <3>3 DEF RInv
    <2> QED  BY <2>4, <2>5
  <1> QED  BY <1>1, <1>2 DEF LInv

(* As long as no process was lost, the approval log of pending-store.ts    *)
(* tells of each decision once, as the client heard it, and of a hook's    *)
(* that it was fetched, whatever the order of operators, timers and polls. *)
THEOREM LogIsFaithful == Spec => []AuditFaithful
PROOF
  <1>1. LInv => AuditFaithful
    <2> SUFFICES ASSUME LInv, crashes = 0, faults = 0, NEW id \in Ids
                 PROVE  /\ Len(audit[id]) <= 1
                        /\ client[id] \in {"allow", "deny"} /\ jobs = <<>> =>
                             /\ Len(audit[id]) = 1
                             /\ AnswerFor(audit[id][1].decision) = client[id]
                             /\ audit[id][1].delivered = (id \in Hooks)
      BY DEF AuditFaithful
    <2>1. RowSound(id) /\ HeardSound(id) /\ (jobs = <<>> => phase = "start")
      BY DEF LInv, RInv, IInv, TypeOK, AuditSound
    <2>2. Len(audit[id]) <= 1
      <3>1. audit[id] = <<>> \/ \E b \in BOOLEAN : audit[id] = <<Row(verdict[id], b)>>
        BY <2>1 DEF RowSound
      <3>2. CASE audit[id] = <<>>
        BY <3>2
      <3>3. ASSUME NEW b \in BOOLEAN, audit[id] = <<Row(verdict[id], b)>>
            PROVE  Len(audit[id]) <= 1
        BY <3>3
      <3> QED  BY <3>1, <3>2, <3>3
    <2>3. ASSUME client[id] \in {"allow", "deny"}, jobs = <<>>
          PROVE  /\ Len(audit[id]) = 1
                 /\ AnswerFor(audit[id][1].decision) = client[id]
                 /\ audit[id][1].delivered = (id \in Hooks)
      <3>1. \A k : ~Runs(phase, jobs, k, id)
        BY <2>1, <2>3 DEF Runs
      <3>2. ~HasDelivery(jobs, id)
        BY <2>3 DEF HasDelivery, Range
      <3>3. PICK b \in BOOLEAN : audit[id] = <<Row(verdict[id], b)>> /\ (b => id \in Hooks)
        BY <2>1, <2>3, <3>1 DEF RowSound, HeardSound
      <3>4. audit[id][1] = Row(verdict[id], b) /\ Len(audit[id]) = 1
        BY <3>3
      <3>5. AnswerFor(verdict[id]) = client[id]
        BY <2>1, <2>3 DEF HeardSound
      <3>6. id \in Hooks => b = TRUE
        <4>1. id \in Hooks => audit[id] = <<Row(verdict[id], TRUE)>>
          BY <2>1, <2>3, <3>1, <3>2 DEF HeardSound
        <4>2. \A r : <<r>>[1] = r
          OBVIOUS
        <4>3. id \in Hooks => Row(verdict[id], b) = Row(verdict[id], TRUE)
          BY <3>4, <4>1, <4>2
        <4>4. Row(verdict[id], b).delivered = b /\ Row(verdict[id], TRUE).delivered = TRUE
          BY DEF Row
        <4> QED  BY <4>3, <4>4
      <3> QED  BY <3>3, <3>4, <3>5, <3>6 DEF Row
    <2> QED  BY <2>2, <2>3
  <1>2. Spec => []LInv
    BY InitLInv, NextLInv, PTL DEF Spec
  <1> QED  BY <1>1, <1>2, PTL

=============================================================================
