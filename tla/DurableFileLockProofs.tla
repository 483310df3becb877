------------------------ MODULE DurableFileLockProofs ------------------------
(* Exclusion of the lock file, for any number of processes and writers.    *)
EXTENDS DurableFileLock, Sequences, TLAPS

(* Whoever has not ended belongs to a live process.                        *)
ActiveIsAlive ==
  \A w \in Writers : pc[w] \notin Ended \union {"new"} => ProcOf[w] \in alive

(* A lock is only judged dead when its writer has ended, unless reading it *)
(* failed.                                                                 *)
JudgedIsDead ==
  \A w \in Writers : judged[w] # None /\ w \notin misread => pc[judged[w]] \in Ended

(* The lock file is that of a writer that is creating it, that is inside   *)
(* with its content written, or that has ended.                            *)
LockOwner ==
  lock # None => \/ pc[lock] \in {"creating"} \union Ended
                 \/ pc[lock] \in {"held", "releasing"} /\ written

(* The file of a writer that ended in a live process is one it could not   *)
(* remove.                                                                 *)
LeftByFailure ==
  lock # None /\ pc[lock] \in Ended \ {"dead"} => ProcOf[lock] \notin alive \/ lock \in left

(* "dead" is the end of a writer whose process died.                       *)
DeadIsDead == \A w \in Writers : pc[w] = "dead" => ProcOf[w] \notin alive

(* Whoever creates or holds the lock finds its own file at the path.       *)
OwnerHasFile ==
  ~wrong => \A w \in Writers :
              pc[w] \in {"creating", "held", "releasing"} => lock = w

Breaks == \A w \in Writers : pc[w] = "breaking" => judged[w] # None

(* The inductive invariant.                                                *)
IInv == /\ TypeOK /\ ActiveIsAlive /\ JudgedIsDead
        /\ OwnerHasFile /\ Breaks /\ LockOwner /\ LeftByFailure /\ DeadIsDead

LEMMA InitIInv == Init => IInv
PROOF
  <1> SUFFICES ASSUME Init PROVE IInv
    OBVIOUS
  <1> USE WriterAssumption DEF Init
  <1>1. written \in BOOLEAN /\ wrong \in BOOLEAN
    OBVIOUS
  <1>2. TypeOK
    BY <1>1 DEF TypeOK, Places, Ended
  <1>3. ActiveIsAlive /\ OwnerHasFile /\ Breaks /\ LockOwner /\ LeftByFailure /\ DeadIsDead
    BY DEF ActiveIsAlive, OwnerHasFile, Breaks, LockOwner, LeftByFailure, DeadIsDead, Places, Ended
  <1>4. JudgedIsDead
    BY DEF JudgedIsDead
  <1> QED  BY <1>2, <1>3, <1>4 DEF IInv

LEMMA NextIInv == IInv /\ [Next]_vars => IInv'
PROOF
  <1> SUFFICES ASSUME IInv, [Next]_vars
               PROVE  IInv'
    OBVIOUS
  <1> USE WriterAssumption
  <1> USE DEF IInv, TypeOK, ActiveIsAlive, JudgedIsDead, OwnerHasFile, Breaks, LockOwner,
              LeftByFailure, DeadIsDead, Places, Ended, Goto, End, Unlink, fileVars, lapses,
              counters
  <1>1. ASSUME NEW w \in Writers, Call(w)
        PROVE  IInv'
    <2>0. written' \in BOOLEAN /\ wrong' \in BOOLEAN
      BY <1>1 DEF Call
    <2>1. TypeOK'
      BY <1>1, <2>0 DEF Call
    <2>2. ActiveIsAlive' /\ Breaks' /\ DeadIsDead'
      BY <1>1 DEF Call
    <2>3. JudgedIsDead'
      BY <1>1 DEF Call
    <2>4. OwnerHasFile'
      BY <1>1 DEF Call
    <2>5. LockOwner' /\ LeftByFailure'
      BY <1>1 DEF Call
    <2> QED  BY <2>1, <2>2, <2>3, <2>4, <2>5
  <1>2. ASSUME NEW w \in Writers, Open(w)
        PROVE  IInv'
    <2>0. written' \in BOOLEAN /\ wrong' \in BOOLEAN
      BY <1>2 DEF Open, Create
    <2>1. TypeOK'
      BY <1>2, <2>0 DEF Open, Create
    <2>2. ActiveIsAlive' /\ Breaks' /\ DeadIsDead'
      BY <1>2 DEF Open, Create
    <2>3. JudgedIsDead'
      BY <1>2 DEF Open, Create
    <2>4. OwnerHasFile'
      BY <1>2 DEF Open, Create
    <2>5. LockOwner' /\ LeftByFailure'
      BY <1>2 DEF Open, Create
    <2> QED  BY <2>1, <2>2, <2>3, <2>4, <2>5
  <1>3. ASSUME NEW w \in Writers, Write(w)
        PROVE  IInv'
    <2>0. written' \in BOOLEAN /\ wrong' \in BOOLEAN
      BY <1>3 DEF Write
    <2>1. TypeOK'
      BY <1>3, <2>0 DEF Write
    <2>2. ActiveIsAlive' /\ Breaks' /\ DeadIsDead'
      BY <1>3 DEF Write
    <2>3. JudgedIsDead'
      BY <1>3 DEF Write
    <2>4. OwnerHasFile'
      BY <1>3 DEF Write
    <2>5. LockOwner' /\ LeftByFailure'
      BY <1>3 DEF Write
    <2> QED  BY <2>1, <2>2, <2>3, <2>4, <2>5
  <1>4. ASSUME NEW w \in Writers, FailWrite(w)
        PROVE  IInv'
    <2>0. written' \in BOOLEAN /\ wrong' \in BOOLEAN
      BY <1>4 DEF FailWrite, Fails, Remove
    <2>1. TypeOK'
      BY <1>4, <2>0 DEF FailWrite, Fails, Remove
    <2>2. ActiveIsAlive' /\ Breaks' /\ DeadIsDead'
      BY <1>4 DEF FailWrite, Fails, Remove
    <2>3. JudgedIsDead'
      BY <1>4 DEF FailWrite, Fails, Remove
    <2>4. OwnerHasFile'
      BY <1>4 DEF FailWrite, Fails, Remove
    <2>5. LockOwner' /\ LeftByFailure'
      BY <1>4 DEF FailWrite, Fails, Remove
    <2> QED  BY <2>1, <2>2, <2>3, <2>4, <2>5
  <1>5. ASSUME NEW w \in Writers, Judge(w)
        PROVE  IInv'
    <2>1. UNCHANGED <<alive, prev, lock, written, wrong, misread, left, crashes, failures>>
      BY <1>5 DEF Judge
    <2>2. PICK old \in Ages : IF ShouldBreak(old)
                            THEN /\ judged' = [judged EXCEPT ![w] = lock]
                                 /\ Goto(w, "breaking") /\ UNCHANGED tail
                            ELSE End(w, "refused") /\ UNCHANGED judged
      BY <1>5 DEF Judge
    <2>3. pc[w] = "checking"
      BY <1>5 DEF Judge
    <2>4. CASE ShouldBreak(old)
      <3>1. lock # None /\ pc[lock] \in Ended
        BY <2>4 DEF ShouldBreak, Ages
      <3>2. pc' = [pc EXCEPT ![w] = "breaking"] /\ tail' = tail
        BY <2>2, <2>4
      <3>3. judged' = [judged EXCEPT ![w] = lock]
        BY <2>2, <2>4
      <3>4. TypeOK' /\ ActiveIsAlive' /\ Breaks' /\ DeadIsDead'
        BY <2>1, <2>3, <3>1, <3>2, <3>3
      <3>5. JudgedIsDead' /\ OwnerHasFile'
        BY <2>1, <2>3, <3>1, <3>2, <3>3
      <3>6. LockOwner' /\ LeftByFailure'
        BY <2>1, <2>3, <3>1, <3>2, <3>3
      <3> QED  BY <3>4, <3>5, <3>6
    <2>5. CASE ~ShouldBreak(old)
      <3>1. pc' = [pc EXCEPT ![w] = "refused"] /\ judged' = judged /\ Unlink(w)
        BY <2>2, <2>5
      <3>2. TypeOK' /\ ActiveIsAlive' /\ Breaks' /\ DeadIsDead'
        BY <2>1, <2>3, <3>1
      <3>3. JudgedIsDead' /\ OwnerHasFile'
        BY <2>1, <2>3, <3>1
      <3>4. LockOwner' /\ LeftByFailure'
        BY <2>1, <2>3, <3>1
      <3> QED  BY <3>2, <3>3, <3>4
    <2> QED  BY <2>4, <2>5
  <1>6. ASSUME NEW w \in Writers, Misread(w)
        PROVE  IInv'
    <2>0. written' \in BOOLEAN /\ wrong' \in BOOLEAN
      BY <1>6 DEF Misread, Fails
    <2>1. TypeOK'
      BY <1>6, <2>0 DEF Misread, Fails
    <2>2. ActiveIsAlive' /\ Breaks' /\ DeadIsDead'
      BY <1>6 DEF Misread, Fails
    <2>3. JudgedIsDead'
      BY <1>6 DEF Misread, Fails
    <2>4. OwnerHasFile'
      BY <1>6 DEF Misread, Fails
    <2>5. LockOwner' /\ LeftByFailure'
      BY <1>6 DEF Misread, Fails
    <2> QED  BY <2>1, <2>2, <2>3, <2>4, <2>5
  <1>7. ASSUME NEW w \in Writers, Break(w)
        PROVE  IInv'
    <2>0. written' \in BOOLEAN /\ wrong' \in BOOLEAN
      BY <1>7 DEF Break, Remove
    <2>1. TypeOK'
      BY <1>7, <2>0 DEF Break, Remove
    <2>2. ActiveIsAlive' /\ Breaks' /\ DeadIsDead'
      BY <1>7 DEF Break, Remove
    <2>3. JudgedIsDead'
      BY <1>7 DEF Break, Remove
    <2>4. OwnerHasFile'
      BY <1>7 DEF Break, Remove
    <2>5. LockOwner' /\ LeftByFailure'
      BY <1>7 DEF Break, Remove
    <2> QED  BY <2>1, <2>2, <2>3, <2>4, <2>5
  <1>8. ASSUME NEW w \in Writers, FailBreak(w)
        PROVE  IInv'
    <2>0. written' \in BOOLEAN /\ wrong' \in BOOLEAN
      BY <1>8 DEF FailBreak, Fails
    <2>1. TypeOK'
      BY <1>8, <2>0 DEF FailBreak, Fails
    <2>2. ActiveIsAlive' /\ Breaks' /\ DeadIsDead'
      BY <1>8 DEF FailBreak, Fails
    <2>3. JudgedIsDead'
      BY <1>8 DEF FailBreak, Fails
    <2>4. OwnerHasFile'
      BY <1>8 DEF FailBreak, Fails
    <2>5. LockOwner' /\ LeftByFailure'
      BY <1>8 DEF FailBreak, Fails
    <2> QED  BY <2>1, <2>2, <2>3, <2>4, <2>5
  <1>9. ASSUME NEW w \in Writers, OpenAgain(w)
        PROVE  IInv'
    <2>0. written' \in BOOLEAN /\ wrong' \in BOOLEAN
      BY <1>9 DEF OpenAgain, Create
    <2>1. TypeOK'
      BY <1>9, <2>0 DEF OpenAgain, Create
    <2>2. ActiveIsAlive' /\ Breaks' /\ DeadIsDead'
      BY <1>9 DEF OpenAgain, Create
    <2>3. JudgedIsDead'
      BY <1>9 DEF OpenAgain, Create
    <2>4. OwnerHasFile'
      BY <1>9 DEF OpenAgain, Create
    <2>5. LockOwner' /\ LeftByFailure'
      BY <1>9 DEF OpenAgain, Create
    <2> QED  BY <2>1, <2>2, <2>3, <2>4, <2>5
  <1>10. ASSUME NEW w \in Writers, ReadOwn(w)
        PROVE  IInv'
    <2>0. written' \in BOOLEAN /\ wrong' \in BOOLEAN
      BY <1>10 DEF ReadOwn
    <2>1. TypeOK'
      BY <1>10, <2>0 DEF ReadOwn
    <2>2. ActiveIsAlive' /\ Breaks' /\ DeadIsDead'
      BY <1>10 DEF ReadOwn
    <2>3. JudgedIsDead'
      BY <1>10 DEF ReadOwn
    <2>4. OwnerHasFile'
      BY <1>10 DEF ReadOwn
    <2>5. LockOwner' /\ LeftByFailure'
      BY <1>10 DEF ReadOwn
    <2> QED  BY <2>1, <2>2, <2>3, <2>4, <2>5
  <1>11. ASSUME NEW w \in Writers, RemoveOwn(w)
        PROVE  IInv'
    <2>0. written' \in BOOLEAN /\ wrong' \in BOOLEAN
      BY <1>11 DEF RemoveOwn, Remove
    <2>1. TypeOK'
      BY <1>11, <2>0 DEF RemoveOwn, Remove
    <2>2. ActiveIsAlive' /\ Breaks' /\ DeadIsDead'
      BY <1>11 DEF RemoveOwn, Remove
    <2>3. JudgedIsDead'
      BY <1>11 DEF RemoveOwn, Remove
    <2>4. OwnerHasFile'
      BY <1>11 DEF RemoveOwn, Remove
    <2>5. LockOwner' /\ LeftByFailure'
      BY <1>11 DEF RemoveOwn, Remove
    <2> QED  BY <2>1, <2>2, <2>3, <2>4, <2>5
  <1>12. ASSUME NEW w \in Writers, FailRelease(w)
        PROVE  IInv'
    <2>0. written' \in BOOLEAN /\ wrong' \in BOOLEAN
      BY <1>12 DEF FailRelease, Fails
    <2>1. TypeOK'
      BY <1>12, <2>0 DEF FailRelease, Fails
    <2>2. ActiveIsAlive' /\ Breaks' /\ DeadIsDead'
      BY <1>12 DEF FailRelease, Fails
    <2>3. JudgedIsDead'
      BY <1>12 DEF FailRelease, Fails
    <2>4. OwnerHasFile'
      BY <1>12 DEF FailRelease, Fails
    <2>5. LockOwner' /\ LeftByFailure'
      BY <1>12 DEF FailRelease, Fails
    <2> QED  BY <2>1, <2>2, <2>3, <2>4, <2>5
  <1>13. ASSUME NEW p \in Procs, Crash(p)
         PROVE  IInv'
    BY <1>13 DEF Crash
  <1>14. CASE UNCHANGED vars
    BY <1>14 DEF vars
  <1> QED
    BY <1>1, <1>2, <1>3, <1>4, <1>5, <1>6, <1>7, <1>8, <1>9, <1>10, <1>11, <1>12, <1>13, <1>14
    DEF Next, Step, Failure

(* The strengthened invariant holds in every reachable state.              *)
THEOREM Invariance == Spec => []IInv
PROOF
  BY InitIInv, NextIInv, PTL DEF Spec

(* Type correctness of the writers, the queues and the lock file.          *)
THEOREM TypeCorrect == Spec => []TypeOK
PROOF
  <1>1. IInv => TypeOK
    BY DEF IInv
  <1> QED  BY <1>1, Invariance, PTL

(* Exclusion, as long as no writer removed another lock than it had read.  *)
THEOREM Exclusive == Spec => []ExclusiveUnlessWrong
PROOF
  <1>1. IInv => ExclusiveUnlessWrong
    BY DEF IInv, OwnerHasFile, ExclusiveUnlessWrong, MutualExclusion, Inside
  <1> QED  BY <1>1, Invariance, PTL

(* A live process leaves no lock behind but one whose removal failed.      *)
THEOREM NothingLeftOver == Spec => []NoLeftover
PROOF
  <1>1. IInv => NoLeftover
    BY DEF IInv, TypeOK, LockOwner, LeftByFailure, DeadIsDead, NoLeftover, Inside
  <1> QED  BY <1>1, Invariance, PTL

-----------------------------------------------------------------------------
(* Who collides.  The promise tails of a live process are a queue: its     *)
(* writers that have not ended, each waiting for the one before it, with   *)
(* the map entry for the last.  So one of them at a time is at the lock.   *)
Waiting(w) == pc[w] = "queued"
Live(w) == pc[w] \notin Ended \union {"new"}
AtTurn(w) ==
  Live(w) /\ (Waiting(w) => prev[w] = None \/ (prev[w] # None /\ Settled(prev[w])))

IsQueue(q, p) ==
  /\ \A w \in Writers :
       (ProcOf[w] = p /\ Live(w)) <=> (\E i \in 1..Len(q) : q[i] = w)
  /\ \A i, j \in 1..Len(q) : q[i] = q[j] => i = j
  /\ Len(q) = 0 => tail[p] = None
  /\ Len(q) > 0 => tail[p] = q[Len(q)] /\ AtTurn(q[1])
  /\ \A i \in 2..Len(q) : Waiting(q[i]) /\ prev[q[i]] = q[i - 1]

Queues == \A p \in alive : \E q \in Seq(Writers) : IsQueue(q, p)

(* Only the first of a queue is at its turn.                               *)
LEMMA HeadOnly ==
  ASSUME TypeOK, NEW p \in Procs, NEW q \in Seq(Writers), IsQueue(q, p),
         NEW w \in Writers, ProcOf[w] = p, AtTurn(w)
  PROVE  Len(q) > 0 /\ w = q[1]
PROOF
  <1>1. PICK i \in 1..Len(q) : q[i] = w
    BY DEF IsQueue, AtTurn
  <1>2. CASE i = 1
    BY <1>1, <1>2
  <1>3. CASE i # 1
    <2>1. i \in 2..Len(q) /\ i - 1 \in 1..Len(q) /\ q[i - 1] \in Writers
      BY <1>3
    <2>2. Waiting(w) /\ prev[w] = q[i - 1]
      BY <1>1, <2>1 DEF IsQueue
    <2>3. Live(q[i - 1])
      BY <2>1 DEF IsQueue
    <2> QED  BY <2>1, <2>2, <2>3, WriterAssumption DEF AtTurn, Settled, Live
  <1> QED  BY <1>2, <1>3

LEMMA OneAtTurn ==
  ASSUME TypeOK, Queues, NEW v \in Writers, NEW w \in Writers,
         ProcOf[v] = ProcOf[w], ProcOf[w] \in alive, AtTurn(v), AtTurn(w)
  PROVE  v = w
PROOF
  <1>1. PICK q \in Seq(Writers) : IsQueue(q, ProcOf[w])
    BY DEF Queues
  <1>2. ProcOf[w] \in Procs
    BY WriterAssumption
  <1>3. w = q[1]
    BY <1>1, <1>2, HeadOnly
  <1>4. v = q[1]
    BY <1>1, <1>2, HeadOnly
  <1> QED  BY <1>3, <1>4

(* Steps that leave the order of the queues alone.                         *)
LEMMA QueuesKept ==
  ASSUME TypeOK, Queues, NEW w \in Writers, ProcOf[w] \in alive, AtTurn(w),
         NEW x \in Places \ (Ended \union {"new", "queued"}), Goto(w, x),
         prev' = prev, tail' = tail, alive' = alive
  PROVE  Queues'
PROOF
  <1> SUFFICES ASSUME NEW p \in alive
               PROVE  \E q \in Seq(Writers) : IsQueue(q, p)'
    BY DEF Queues
  <1>1. PICK q \in Seq(Writers) : IsQueue(q, p)
    BY DEF Queues
  <1>2. p \in Procs
    BY DEF TypeOK
  <1>3. /\ \A v \in Writers \ {w} : pc'[v] = pc[v]
        /\ pc'[w] = x /\ Live(w)' /\ ~Waiting(w)'
    BY DEF Goto, TypeOK, Live, Waiting
  <1>4. \A v \in Writers : Live(v)' <=> Live(v)
    BY <1>3 DEF Live, AtTurn
  <1>5. \A v \in Writers : Settled(v)' <=> Settled(v)
    BY <1>3, <1>4 DEF Live, Settled, AtTurn
  <1>6. \A v \in Writers : AtTurn(v) => AtTurn(v)'
    BY <1>3, <1>4, <1>5 DEF AtTurn, Waiting, TypeOK
  <1>7. \A i \in 2..Len(q) : q[i] # w
    <2>1. ASSUME NEW i \in 2..Len(q), q[i] = w
          PROVE  FALSE
      <3>1. i \in 1..Len(q) /\ 1 \in 1..Len(q)
        BY <2>1
      <3>2. ProcOf[w] = p
        BY <1>1, <2>1, <3>1 DEF IsQueue
      <3>3. w = q[1]
        BY <1>1, <1>2, <3>2, HeadOnly
      <3> QED  BY <1>1, <2>1, <3>1, <3>3 DEF IsQueue
    <2> QED  BY <2>1
  <1>8. \A i \in 2..Len(q) : q[i] \in Writers
    OBVIOUS
  <1>9. Len(q) > 0 => q[1] \in Writers
    OBVIOUS
  <1>10. IsQueue(q, p)'
    BY <1>1, <1>3, <1>4, <1>6, <1>7, <1>8, <1>9 DEF IsQueue, Waiting
  <1> QED  BY <1>10

(* The one at its turn ends, and the next one is.                          *)
LEMMA QueuesShift ==
  ASSUME TypeOK, Queues, NEW w \in Writers, ProcOf[w] \in alive, AtTurn(w),
         NEW x \in Ended, End(w, x), prev' = prev, alive' = alive
  PROVE  Queues'
PROOF
  <1> SUFFICES ASSUME NEW p \in alive
               PROVE  \E q \in Seq(Writers) : IsQueue(q, p)'
    BY DEF Queues
  <1>1. PICK q \in Seq(Writers) : IsQueue(q, p)
    BY DEF Queues
  <1>2. p \in Procs
    BY DEF TypeOK
  <1>3. /\ \A v \in Writers \ {w} : pc'[v] = pc[v] /\ (Live(v)' <=> Live(v))
                                   /\ (Waiting(v)' <=> Waiting(v))
        /\ pc'[w] = x /\ ~Live(w)' /\ Settled(w)'
        /\ \A v \in Writers : Settled(v) => Settled(v)'
    BY DEF End, Goto, TypeOK, Live, Waiting, Settled
  <1>4. tail' = [tail EXCEPT ![ProcOf[w]] = IF @ = w THEN None ELSE @]
    BY DEF End, Unlink
  <1>5. \A v \in Writers \ {w} : AtTurn(v) => AtTurn(v)'
    BY <1>3 DEF AtTurn, TypeOK
  <1>6. CASE ProcOf[w] # p
    <2>1. \A i \in 1..Len(q) : q[i] \in Writers \ {w}
      BY <1>1, <1>6 DEF IsQueue
    <2>2. tail'[p] = tail[p]
      BY <1>4, <1>6, <1>2, WriterAssumption DEF TypeOK
    <2>3. Len(q) > 0 => q[1] \in Writers \ {w}
      BY <2>1
    <2>4. \A i \in 2..Len(q) : q[i] \in Writers \ {w}
      BY <2>1
    <2>5. IsQueue(q, p)'
      BY <1>1, <1>3, <1>5, <1>6, <2>2, <2>3, <2>4 DEF IsQueue
    <2> QED  BY <2>5
  <1>7. CASE ProcOf[w] = p
    <2>1. Len(q) > 0 /\ w = q[1]
      BY <1>1, <1>2, <1>7, HeadOnly
    <2> DEFINE t == Tail(q)
    <2>2. t \in Seq(Writers) /\ Len(t) = Len(q) - 1 /\ \A i \in 1..Len(t) : t[i] = q[i + 1]
      BY <2>1
    <2> HIDE DEF t
    <2>3. \A i \in 2..Len(q) : q[i] \in Writers \ {w}
      BY <1>1, <2>1 DEF IsQueue
    <2>4. \A i \in 1..Len(t) : t[i] \in Writers \ {w}
      BY <2>2, <2>3
    <2>5. \A v \in Writers :
            (ProcOf[v] = p /\ Live(v)') <=> (\E i \in 1..Len(t) : t[i] = v)
      <3>1. ASSUME NEW v \in Writers, ProcOf[v] = p, Live(v)'
            PROVE  \E i \in 1..Len(t) : t[i] = v
        <4>1. v # w /\ Live(v)
          BY <1>3, <3>1
        <4>2. PICK i \in 1..Len(q) : q[i] = v
          BY <1>1, <3>1, <4>1 DEF IsQueue
        <4>3. i # 1 /\ i - 1 \in 1..Len(t) /\ t[i - 1] = v
          BY <2>1, <2>2, <4>1, <4>2
        <4> QED  BY <4>3
      <3>2. ASSUME NEW v \in Writers, NEW i \in 1..Len(t), t[i] = v
            PROVE  ProcOf[v] = p /\ Live(v)'
        <4>1. i + 1 \in 1..Len(q) /\ q[i + 1] = v /\ v # w
          BY <2>2, <2>4, <3>2
        <4> QED  BY <1>1, <1>3, <4>1 DEF IsQueue
      <3> QED  BY <3>1, <3>2
    <2>6. \A i, j \in 1..Len(t) : t[i] = t[j] => i = j
      <3> SUFFICES ASSUME NEW i \in 1..Len(t), NEW j \in 1..Len(t), t[i] = t[j]
                   PROVE  i = j
        OBVIOUS
      <3>1. i + 1 \in 1..Len(q) /\ j + 1 \in 1..Len(q) /\ q[i + 1] = q[j + 1]
        BY <2>2
      <3>2. i + 1 = j + 1
        BY <1>1, <3>1 DEF IsQueue
      <3> QED  BY <3>2
    <2>7. Len(t) = 0 => tail'[p] = None
      <3>0. Len(t) = 0 => Len(q) = 1
        BY <2>2
      <3>a. tail[p] = q[Len(q)]
        BY <1>1, <2>1 DEF IsQueue
      <3>1. Len(t) = 0 => tail[p] = w
        BY <2>1, <3>0, <3>a
      <3>2. tail \in [Procs -> Writers \union {None}]
        BY DEF TypeOK
      <3> QED  BY <1>2, <1>4, <1>7, <3>1, <3>2
    <2>8. Len(t) > 0 => tail'[p] = t[Len(t)]
      <3> SUFFICES ASSUME Len(t) > 0
                   PROVE  tail'[p] = t[Len(t)]
        OBVIOUS
      <3>1. t[Len(t)] = q[Len(q)] /\ Len(q) \in 2..Len(q)
        BY <2>2
      <3>2. tail[p] = q[Len(q)] /\ tail[p] # w
        BY <1>1, <2>1, <2>3, <3>1 DEF IsQueue
      <3> QED  BY <1>2, <1>4, <1>7, <3>1, <3>2 DEF TypeOK
    <2>9. Len(t) > 0 => AtTurn(t[1])'
      <3> SUFFICES ASSUME Len(t) > 0
                   PROVE  AtTurn(t[1])'
        OBVIOUS
      <3>1. t[1] = q[2] /\ 2 \in 2..Len(q) /\ 1 \in 1..Len(t)
        BY <2>2
      <3>2. prev[q[2]] = w
        BY <1>1, <2>1, <3>1 DEF IsQueue
      <3>3. Live(q[2])'
        BY <2>5, <3>1, <2>4
      <3> QED  BY <1>3, <3>1, <3>2, <3>3, WriterAssumption DEF AtTurn, Settled
    <2>10. \A i \in 2..Len(t) : Waiting(t[i])' /\ prev'[t[i]] = t[i - 1]
      <3> SUFFICES ASSUME NEW i \in 2..Len(t)
                   PROVE  Waiting(t[i])' /\ prev'[t[i]] = t[i - 1]
        OBVIOUS
      <3>1. i \in 1..Len(t) /\ i - 1 \in 1..Len(t) /\ i + 1 \in 2..Len(q)
        BY <2>2
      <3>2. t[i] = q[i + 1] /\ t[i - 1] = q[i] /\ q[i + 1] \in Writers \ {w}
        BY <2>2, <2>3, <3>1
      <3>3. Waiting(q[i + 1]) /\ prev[q[i + 1]] = q[(i + 1) - 1]
        BY <1>1, <3>1 DEF IsQueue
      <3> QED  BY <1>3, <3>2, <3>3
    <2>11. IsQueue(t, p)'
      BY <2>5, <2>6, <2>7, <2>8, <2>9, <2>10 DEF IsQueue
    <2> QED  BY <2>2, <2>11
  <1> QED  BY <1>6, <1>7

(* A writer that is called queues behind the last one.                     *)
LEMMA QueuesGrow ==
  ASSUME TypeOK, Queues, NEW w \in Writers, Call(w)
  PROVE  Queues'
PROOF
  <1> USE WriterAssumption
  <1> SUFFICES ASSUME NEW p \in alive
               PROVE  \E q \in Seq(Writers) : IsQueue(q, p)'
    BY DEF Queues, Call
  <1>1. PICK q \in Seq(Writers) : IsQueue(q, p)
    BY DEF Queues
  <1>2. p \in Procs
    BY DEF TypeOK
  <1>3. /\ pc[w] = "new" /\ pc'[w] = "queued" /\ ~Live(w) /\ Live(w)' /\ Waiting(w)'
        /\ prev'[w] = tail[ProcOf[w]] /\ tail'[ProcOf[w]] = w
        /\ \A v \in Writers \ {w} : pc'[v] = pc[v] /\ prev'[v] = prev[v]
        /\ \A o \in Procs \ {ProcOf[w]} : tail'[o] = tail[o]
    BY DEF Call, Goto, TypeOK, Live, Waiting, Ended
  <1>4. \A v \in Writers : Settled(v)' <=> Settled(v)
    BY <1>3 DEF Settled, Ended
  <1>5. \A v \in Writers \ {w} : /\ Live(v)' <=> Live(v)
                               /\ Waiting(v)' <=> Waiting(v)
    BY <1>3 DEF Live, Waiting
  <1>6. \A v \in Writers \ {w} : AtTurn(v) => AtTurn(v)'
    BY <1>3, <1>4, <1>5 DEF AtTurn, TypeOK, Live, Waiting, Settled, Call, Goto, Ended
  <1>7. \A i \in 1..Len(q) : q[i] \in Writers \ {w}
    BY <1>1, <1>3 DEF IsQueue
  <1>a. \A i \in 2..Len(q) : q[i] \in Writers \ {w}
    BY <1>7
  <1>b. Len(q) > 0 => q[1] \in Writers \ {w}
    BY <1>7
  <1>8. CASE ProcOf[w] # p
    <2>1. \A v \in Writers :
            (ProcOf[v] = p /\ Live(v)') <=> (\E i \in 1..Len(q) : q[i] = v)
      <3> SUFFICES ASSUME NEW v \in Writers
                   PROVE  (ProcOf[v] = p /\ Live(v)') <=> (\E i \in 1..Len(q) : q[i] = v)
        OBVIOUS
      <3>1. ProcOf[v] = p => (Live(v)' <=> Live(v))
        BY <1>3, <1>8 DEF Live
      <3>2. (ProcOf[v] = p /\ Live(v)) <=> (\E i \in 1..Len(q) : q[i] = v)
        BY <1>1 DEF IsQueue
      <3> QED  BY <3>1, <3>2
    <2>2. tail'[p] = tail[p]
      BY <1>2, <1>3, <1>8
    <2>3. Len(q) > 0 => AtTurn(q[1])'
      BY <1>1, <1>6, <1>b DEF IsQueue
    <2>4. \A i \in 2..Len(q) : Waiting(q[i])' /\ prev'[q[i]] = q[i - 1]
      BY <1>1, <1>3, <1>5, <1>a DEF IsQueue
    <2>5. IsQueue(q, p)'
      BY <1>1, <2>1, <2>2, <2>3, <2>4 DEF IsQueue
    <2> QED  BY <2>5
  <1>9. CASE ProcOf[w] = p
    <2> DEFINE t == Append(q, w)
    <2>1. /\ t \in Seq(Writers) /\ Len(t) = Len(q) + 1
          /\ t[Len(t)] = w /\ \A i \in 1..Len(q) : t[i] = q[i]
      OBVIOUS
    <2> HIDE DEF t
    <2>2. \A v \in Writers :
            (ProcOf[v] = p /\ Live(v)') <=> (\E i \in 1..Len(t) : t[i] = v)
      <3>1. ASSUME NEW v \in Writers, ProcOf[v] = p, Live(v)'
            PROVE  \E i \in 1..Len(t) : t[i] = v
        <4>1. CASE v = w
          BY <2>1, <4>1
        <4>2. CASE v # w
          <5>0. Live(v)
            BY <1>3, <3>1, <4>2 DEF Live
          <5>1. PICK i \in 1..Len(q) : q[i] = v
            BY <1>1, <3>1, <5>0 DEF IsQueue
          <5> QED  BY <2>1, <5>1
        <4> QED  BY <4>1, <4>2
      <3>2. ASSUME NEW v \in Writers, NEW i \in 1..Len(t), t[i] = v
            PROVE  ProcOf[v] = p /\ Live(v)'
        <4>1. CASE i = Len(t)
          BY <1>3, <1>9, <2>1, <3>2, <4>1
        <4>2. CASE i # Len(t)
          <5>1. i \in 1..Len(q) /\ q[i] = v /\ v # w
            BY <1>7, <2>1, <3>2, <4>2
          <5>2. ProcOf[v] = p /\ Live(v)
            BY <1>1, <5>1 DEF IsQueue
          <5> QED  BY <1>3, <5>1, <5>2 DEF Live
        <4> QED  BY <4>1, <4>2
      <3> QED  BY <3>1, <3>2
    <2>3. \A i, j \in 1..Len(t) : t[i] = t[j] => i = j
      <3> SUFFICES ASSUME NEW i \in 1..Len(t), NEW j \in 1..Len(t), t[i] = t[j]
                   PROVE  i = j
        OBVIOUS
      <3>1. CASE i \in 1..Len(q) /\ j \in 1..Len(q)
        BY <1>1, <2>1, <3>1 DEF IsQueue
      <3>2. CASE i = Len(t) \/ j = Len(t)
        BY <1>7, <2>1, <3>2
      <3> QED  BY <2>1, <3>1, <3>2
    <2>4. Len(t) > 0 /\ tail'[p] = t[Len(t)]
      BY <1>3, <1>9, <2>1
    <2>5. AtTurn(t[1])'
      <3>1. CASE Len(q) = 0
        <4>1. t[1] = w /\ prev'[w] = None
          BY <1>1, <1>3, <1>9, <2>1, <3>1 DEF IsQueue
        <4> QED  BY <1>3, <4>1 DEF AtTurn
      <3>2. CASE Len(q) > 0
        <4>1. t[1] = q[1]
          BY <2>1, <3>2
        <4> QED  BY <1>1, <1>6, <1>b, <3>2, <4>1 DEF IsQueue
      <3> QED  BY <3>1, <3>2
    <2>6. \A i \in 2..Len(t) : Waiting(t[i])' /\ prev'[t[i]] = t[i - 1]
      <3> SUFFICES ASSUME NEW i \in 2..Len(t)
                   PROVE  Waiting(t[i])' /\ prev'[t[i]] = t[i - 1]
        OBVIOUS
      <3>0. i - 1 \in 1..Len(q) /\ t[i - 1] = q[i - 1]
        BY <2>1
      <3>1. CASE i = Len(t)
        <4>1. i - 1 = Len(q) /\ tail[p] = q[Len(q)]
          BY <1>1, <2>1, <3>0, <3>1 DEF IsQueue
        <4> QED  BY <1>3, <1>9, <2>1, <3>0, <3>1, <4>1
      <3>2. CASE i # Len(t)
        <4>1. i \in 2..Len(q) /\ t[i] = q[i]
          BY <2>1, <3>2
        <4> QED  BY <1>1, <1>3, <1>5, <1>a, <3>0, <4>1 DEF IsQueue
      <3> QED  BY <3>1, <3>2
    <2>7. IsQueue(t, p)'
      BY <2>2, <2>3, <2>4, <2>5, <2>6 DEF IsQueue
    <2> QED  BY <2>1, <2>7
  <1> QED  BY <1>8, <1>9

(* A crash leaves the queues of the other processes.                       *)
LEMMA QueuesOfOthers ==
  ASSUME TypeOK, Queues, NEW o \in Procs, Crash(o)
  PROVE  Queues'
PROOF
  <1> USE WriterAssumption
  <1> SUFFICES ASSUME NEW p \in alive, p # o
               PROVE  \E q \in Seq(Writers) : IsQueue(q, p)'
    BY DEF Queues, Crash
  <1>1. PICK q \in Seq(Writers) : IsQueue(q, p)
    BY DEF Queues
  <1>2. \A v \in Writers : ProcOf[v] # o => pc'[v] = pc[v]
    BY DEF Crash, TypeOK
  <1>3. \A v \in Writers : Settled(v) => Settled(v)'
    BY DEF Crash, TypeOK, Settled
  <1>4. prev' = prev /\ tail' = tail
    BY DEF Crash
  <1>5. \A i \in 1..Len(q) : q[i] \in Writers /\ ProcOf[q[i]] = p
    BY <1>1 DEF IsQueue
  <1>6. \A v \in Writers : ProcOf[v] = p =>
          /\ Live(v)' <=> Live(v)
          /\ Waiting(v)' <=> Waiting(v)
          /\ AtTurn(v) => AtTurn(v)'
    BY <1>2, <1>3, <1>4 DEF Live, Waiting, AtTurn, TypeOK
  <1>7. Len(q) > 0 => q[1] \in Writers /\ ProcOf[q[1]] = p
    BY <1>5
  <1>8. \A i \in 2..Len(q) : q[i] \in Writers /\ ProcOf[q[i]] = p
    BY <1>5
  <1>9. IsQueue(q, p)'
    BY <1>1, <1>4, <1>6, <1>7, <1>8 DEF IsQueue
  <1> QED  BY <1>9

-----------------------------------------------------------------------------
(* A writer judges once.                                                   *)
JudgesOnce == \A w \in Writers : pc[w] \in {"new", "queued", "checking"} => judged[w] = None

Rivals(v, w) == ProcOf[v] # ProcOf[w] /\ judged[v] # None /\ judged[v] = judged[w]

(* The dead lock that a writer is about to remove is at the path, or a     *)
(* writer of another process removed it, unless reading it failed.         *)
SeenOrRemoved ==
  ~wrong => \A w \in Writers \ misread : pc[w] = "breaking" /\ lock # judged[w] =>
              \E v \in Writers : Rivals(v, w)

WrongHasRivals == wrong => misread # {} \/ \E v, w \in Writers : Rivals(v, w)

CInv == IInv /\ Queues /\ JudgesOnce /\ SeenOrRemoved /\ WrongHasRivals

LEMMA InitCInv == Init => CInv
PROOF
  <1> SUFFICES ASSUME Init PROVE CInv
    OBVIOUS
  <1>1. IInv
    BY InitIInv
  <1>2. JudgesOnce /\ SeenOrRemoved /\ WrongHasRivals
    BY DEF Init, JudgesOnce, SeenOrRemoved, WrongHasRivals
  <1>3. Queues
    <2>1. ASSUME NEW p \in alive
          PROVE  IsQueue(<<>>, p)
      BY <2>1 DEF Init, IsQueue, Live, Waiting
    <2>2. <<>> \in Seq(Writers)
      OBVIOUS
    <2> QED  BY <2>1, <2>2 DEF Queues
  <1> QED  BY <1>1, <1>2, <1>3 DEF CInv

LEMMA NextQueues ==
  ASSUME CInv, [Next]_vars
  PROVE  Queues'
PROOF
  <1> USE WriterAssumption
  <1>0. TypeOK /\ Queues /\ ActiveIsAlive
    BY DEF CInv, IInv
  <1>a. ASSUME NEW w \in Writers, pc[w] \in Places \ (Ended \union {"new", "queued"})
        PROVE  AtTurn(w) /\ ProcOf[w] \in alive
    BY <1>0, <1>a DEF AtTurn, Live, Waiting, ActiveIsAlive, Ended
  <1>b. ASSUME NEW w \in Writers, Open(w)
        PROVE  AtTurn(w) /\ ProcOf[w] \in alive
    BY <1>0, <1>b DEF AtTurn, Live, Waiting, ActiveIsAlive, Ended, Open
  <1>1. ASSUME NEW w \in Writers, Call(w)
        PROVE  Queues'
    BY <1>0, <1>1, QueuesGrow
  <1>2. ASSUME NEW w \in Writers, Open(w)
        PROVE  Queues'
    <2>1. PICK x \in {"creating", "checking"} : Goto(w, x)
      BY <1>2 DEF Open, Create
    <2>2. prev' = prev /\ tail' = tail /\ alive' = alive
      BY <1>2 DEF Open, Create
    <2>3. x \in Places \ (Ended \union {"new", "queued"})
      BY DEF Places, Ended
    <2> QED  BY <1>0, <1>b, <1>2, <2>1, <2>2, <2>3, QueuesKept
  <1>3. ASSUME NEW w \in Writers, Write(w)
        PROVE  Queues'
    <2>1. pc[w] = "creating" /\ Goto(w, "held") /\ prev' = prev /\ tail' = tail /\ alive' = alive
      BY <1>3 DEF Write
    <2> QED  BY <1>0, <1>a, <2>1, QueuesKept DEF Places, Ended
  <1>4. ASSUME NEW w \in Writers, FailWrite(w)
        PROVE  Queues'
    <2>1. pc[w] = "creating" /\ End(w, "failed") /\ prev' = prev /\ alive' = alive
      BY <1>4 DEF FailWrite
    <2> QED  BY <1>0, <1>a, <2>1, QueuesShift DEF Places, Ended
  <1>5. ASSUME NEW w \in Writers, Judge(w)
        PROVE  Queues'
    <2>1. pc[w] = "checking" /\ prev' = prev /\ alive' = alive
      BY <1>5 DEF Judge
    <2>2. CASE Goto(w, "breaking") /\ tail' = tail
      BY <1>0, <1>a, <2>1, <2>2, QueuesKept DEF Places, Ended
    <2>3. CASE End(w, "refused")
      BY <1>0, <1>a, <2>1, <2>3, QueuesShift DEF Places, Ended
    <2> QED  BY <1>5, <2>2, <2>3 DEF Judge
  <1>6. ASSUME NEW w \in Writers, Break(w)
        PROVE  Queues'
    <2>1. pc[w] = "breaking" /\ Goto(w, "again") /\ prev' = prev /\ tail' = tail /\ alive' = alive
      BY <1>6 DEF Break
    <2> QED  BY <1>0, <1>a, <2>1, QueuesKept DEF Places, Ended
  <1>7. ASSUME NEW w \in Writers, OpenAgain(w)
        PROVE  Queues'
    <2>1. pc[w] = "again" /\ prev' = prev /\ alive' = alive
      BY <1>7 DEF OpenAgain
    <2>2. CASE Goto(w, "creating") /\ tail' = tail
      BY <1>0, <1>a, <2>1, <2>2, QueuesKept DEF Places, Ended
    <2>3. CASE End(w, "refused")
      BY <1>0, <1>a, <2>1, <2>3, QueuesShift DEF Places, Ended
    <2> QED  BY <1>7, <2>2, <2>3 DEF OpenAgain, Create
  <1>8. ASSUME NEW w \in Writers, ReadOwn(w)
        PROVE  Queues'
    <2>1. pc[w] = "held" /\ prev' = prev /\ alive' = alive
      BY <1>8 DEF ReadOwn
    <2>2. CASE Goto(w, "releasing") /\ tail' = tail
      BY <1>0, <1>a, <2>1, <2>2, QueuesKept DEF Places, Ended
    <2>3. CASE End(w, "released")
      BY <1>0, <1>a, <2>1, <2>3, QueuesShift DEF Places, Ended
    <2> QED  BY <1>8, <2>2, <2>3 DEF ReadOwn
  <1>9. ASSUME NEW w \in Writers, RemoveOwn(w)
        PROVE  Queues'
    <2>1. pc[w] = "releasing" /\ End(w, "released") /\ prev' = prev /\ alive' = alive
      BY <1>9 DEF RemoveOwn
    <2> QED  BY <1>0, <1>a, <2>1, QueuesShift DEF Places, Ended
  <1>10. ASSUME NEW p \in Procs, Crash(p)
         PROVE  Queues'
    BY <1>0, <1>10, QueuesOfOthers
  <1>11. CASE UNCHANGED vars
    <2>1. pc' = pc /\ prev' = prev /\ tail' = tail /\ alive' = alive
      BY <1>11 DEF vars
    <2> QED  BY <1>0, <2>1 DEF Queues, IsQueue, AtTurn, Live, Waiting, Settled
  <1>12. ASSUME NEW w \in Writers, Misread(w)
         PROVE  Queues'
    <2>1. pc[w] = "checking" /\ prev' = prev /\ alive' = alive
      BY <1>12 DEF Misread
    <2>2. CASE Goto(w, "breaking") /\ tail' = tail
      BY <1>0, <1>a, <2>1, <2>2, QueuesKept DEF Places, Ended
    <2>3. CASE End(w, "refused")
      BY <1>0, <1>a, <2>1, <2>3, QueuesShift DEF Places, Ended
    <2> QED  BY <1>12, <2>2, <2>3 DEF Misread
  <1>13. ASSUME NEW w \in Writers, FailBreak(w) \/ FailRelease(w)
         PROVE  Queues'
    <2>1. /\ pc[w] \in {"breaking", "held", "releasing"}
          /\ End(w, "failed") \/ End(w, "released")
          /\ prev' = prev /\ alive' = alive
      BY <1>13 DEF FailBreak, FailRelease
    <2> QED  BY <1>0, <1>a, <2>1, QueuesShift DEF Places, Ended
  <1> QED
    BY <1>1, <1>2, <1>3, <1>4, <1>5, <1>6, <1>7, <1>8, <1>9, <1>10, <1>11, <1>12, <1>13
    DEF Next, Step, Failure

(* What has been judged stays so, and so do rivals.                        *)
LEMMA JudgedStays ==
  ASSUME CInv, [Next]_vars
  PROVE  /\ JudgesOnce'
         /\ \A w \in Writers : judged[w] # None => judged'[w] = judged[w]
         /\ \A v, w \in Writers : Rivals(v, w) => Rivals(v, w)'
PROOF
  <1> USE WriterAssumption
  <1>0. TypeOK /\ JudgesOnce
    BY DEF CInv, IInv
  <1>1. /\ JudgesOnce'
        /\ \A w \in Writers : judged[w] # None => judged'[w] = judged[w]
    <2>1. ASSUME NEW w \in Writers, Judge(w)
          PROVE  /\ JudgesOnce'
                 /\ \A v \in Writers : judged[v] # None => judged'[v] = judged[v]
      BY <1>0, <2>1 DEF Judge, End, Goto, JudgesOnce, TypeOK
    <2>5. ASSUME NEW w \in Writers, Misread(w)
          PROVE  /\ JudgesOnce'
                 /\ \A v \in Writers : judged[v] # None => judged'[v] = judged[v]
      BY <1>0, <2>5 DEF Misread, End, Goto, JudgesOnce, TypeOK
    <2>2. ASSUME NEW w \in Writers,
                 Call(w) \/ Open(w) \/ Write(w) \/ FailWrite(w) \/ Break(w) \/ OpenAgain(w)
                   \/ ReadOwn(w) \/ RemoveOwn(w) \/ FailBreak(w) \/ FailRelease(w)
          PROVE  JudgesOnce' /\ judged' = judged
      BY <1>0, <2>2 DEF Call, Open, Create, Write, FailWrite, Break, OpenAgain, ReadOwn, RemoveOwn,
                        FailBreak, FailRelease, End, Goto, JudgesOnce, TypeOK
    <2>3. ASSUME NEW p \in Procs, Crash(p)
          PROVE  JudgesOnce' /\ judged' = judged
      BY <1>0, <2>3 DEF Crash, JudgesOnce, TypeOK
    <2>4. CASE UNCHANGED vars
      BY <1>0, <2>4 DEF vars, JudgesOnce
    <2> QED  BY <2>1, <2>2, <2>3, <2>4, <2>5 DEF Next, Step, Failure
  <1> QED  BY <1>1 DEF Rivals

(* Nor is a failed reading forgotten.                                      *)
LEMMA MisreadStays ==
  ASSUME CInv, [Next]_vars
  PROVE  misread \subseteq misread'
PROOF
  BY DEF Next, Step, Failure, Call, Open, Write, FailWrite, Judge, Misread, Break, FailBreak,
         OpenAgain, ReadOwn, RemoveOwn, FailRelease, Crash, lapses, vars

LEMMA NextWrong ==
  ASSUME CInv, [Next]_vars
  PROVE  WrongHasRivals'
PROOF
  <1> USE WriterAssumption
  <1>0. TypeOK /\ OwnerHasFile /\ Breaks /\ SeenOrRemoved /\ WrongHasRivals
    BY DEF CInv, IInv
  <1>1. CASE wrong
    BY <1>0, <1>1, JudgedStays, MisreadStays DEF WrongHasRivals
  <1>2. CASE ~wrong
    <2>1. ASSUME NEW w \in Writers, FailWrite(w) \/ RemoveOwn(w)
          PROVE  ~wrong'
      <3>1. lock = w
        BY <1>0, <1>2, <2>1 DEF OwnerHasFile, FailWrite, RemoveOwn
      <3> QED  BY <1>2, <2>1, <3>1 DEF FailWrite, RemoveOwn, Remove
    <2>2. ASSUME NEW w \in Writers, Break(w), wrong'
          PROVE  misread # {} \/ \E v \in Writers : Rivals(v, w)
      <3>1. w \notin misread => pc[w] = "breaking" /\ lock # judged[w]
        BY <1>2, <2>2 DEF Break, Remove
      <3> QED  BY <1>0, <1>2, <3>1 DEF SeenOrRemoved
    <2>3. ASSUME NEW w \in Writers,
                 Call(w) \/ Open(w) \/ Write(w) \/ Judge(w) \/ Misread(w) \/ FailBreak(w)
                   \/ OpenAgain(w) \/ ReadOwn(w) \/ FailRelease(w)
          PROVE  ~wrong'
      BY <1>2, <2>3 DEF Call, Open, Write, Judge, Misread, FailBreak, OpenAgain, ReadOwn,
                        FailRelease
    <2>4. ASSUME (\E p \in Procs : Crash(p)) \/ UNCHANGED vars
          PROVE  ~wrong'
      BY <1>2, <2>4 DEF Crash, vars
    <2>5. wrong' => misread # {} \/ \E v, w \in Writers : Rivals(v, w)
      BY <2>1, <2>2, <2>3, <2>4 DEF Next, Step, Failure
    <2> QED  BY <2>5, JudgedStays, MisreadStays DEF WrongHasRivals
  <1> QED  BY <1>1, <1>2

(* Whoever takes away the lock another writer is about to remove is that   *)
(* writer's rival.                                                         *)
LEMMA NextSeen ==
  ASSUME CInv, [Next]_vars
  PROVE  SeenOrRemoved'
PROOF
  <1> USE WriterAssumption
  <1>0. /\ TypeOK /\ OwnerHasFile /\ Breaks /\ SeenOrRemoved /\ Queues
        /\ ActiveIsAlive /\ JudgedIsDead
    BY DEF CInv, IInv
  <1> SUFFICES ASSUME ~wrong', NEW w \in Writers, w \notin misread', pc'[w] = "breaking",
                      lock' # judged'[w]
               PROVE  \E v \in Writers : Rivals(v, w)'
    BY DEF SeenOrRemoved
  <1>a. w \notin misread
    BY MisreadStays
  <1>1. ~wrong
    BY DEF Next, Step, Failure, Call, Open, Create, Write, FailWrite, Judge, Misread, Break,
           FailBreak, OpenAgain, ReadOwn, RemoveOwn, FailRelease, Remove, Crash, vars
  <1>2. ~Judge(w) /\ ~Misread(w)
    BY <1>0 DEF Judge, Misread, TypeOK, fileVars, Goto, End
  <1>3. pc[w] = "breaking"
    <2>1. ASSUME NEW v \in Writers,
                 Call(v) \/ Open(v) \/ Write(v) \/ FailWrite(v) \/ Judge(v) \/ Misread(v)
                   \/ Break(v) \/ FailBreak(v) \/ OpenAgain(v) \/ ReadOwn(v) \/ RemoveOwn(v)
                   \/ FailRelease(v)
          PROVE  pc[w] = "breaking"
      BY <1>0, <1>2, <2>1 DEF Call, Open, Create, Write, FailWrite, Judge, Misread, Break,
                              FailBreak, OpenAgain, ReadOwn, RemoveOwn, FailRelease, End, Goto,
                              TypeOK
    <2>2. ASSUME NEW p \in Procs, Crash(p)
          PROVE  pc[w] = "breaking"
      BY <1>0, <2>2 DEF Crash, TypeOK
    <2>3. CASE UNCHANGED vars
      BY <2>3 DEF vars
    <2> QED  BY <2>1, <2>2, <2>3 DEF Next, Step, Failure
  <1>4. judged[w] # None /\ judged'[w] = judged[w]
    BY <1>0, <1>3, JudgedStays DEF Breaks
  <1>5. CASE lock # judged[w]
    BY <1>0, <1>1, <1>a, <1>3, <1>5, JudgedStays DEF SeenOrRemoved
  <1>6. CASE lock = judged[w]
    <2>1. lock # None /\ lock' # lock /\ pc[lock] \in Ended
      BY <1>0, <1>4, <1>a, <1>6 DEF JudgedIsDead
    <2>2. ASSUME NEW v \in Writers, FailWrite(v) \/ RemoveOwn(v)
          PROVE  FALSE
      <3>1. pc[v] \in {"creating", "releasing"}
        BY <2>2 DEF FailWrite, RemoveOwn
      <3>2. lock = v
        BY <1>0, <1>1, <3>1 DEF OwnerHasFile
      <3> QED  BY <2>1, <3>1, <3>2 DEF Ended
    <2>3. ASSUME NEW v \in Writers, Break(v)
          PROVE  Rivals(v, w)
      <3>1. pc[v] = "breaking" /\ judged[v] = lock /\ pc'[v] = "again"
        BY <1>0, <1>1, <2>1, <2>3, WriterAssumption DEF Break, Remove, Goto, TypeOK
      <3>2. v # w
        BY <3>1
      <3>3. AtTurn(v) /\ AtTurn(w) /\ ProcOf[w] \in alive
        BY <1>0, <1>3, <3>1 DEF AtTurn, Live, Waiting, ActiveIsAlive, Ended
      <3>4. ProcOf[v] # ProcOf[w]
        BY <1>0, <3>2, <3>3, OneAtTurn
      <3> QED  BY <1>4, <1>6, <3>1, <3>4 DEF Rivals
    <2>4. ASSUME NEW v \in Writers,
                 Call(v) \/ Open(v) \/ Write(v) \/ Judge(v) \/ Misread(v) \/ FailBreak(v)
                   \/ OpenAgain(v) \/ ReadOwn(v) \/ FailRelease(v)
          PROVE  FALSE
      BY <2>1, <2>4 DEF Call, Open, Create, Write, Judge, Misread, FailBreak, OpenAgain, ReadOwn,
                        FailRelease, fileVars
    <2>5. ASSUME (\E p \in Procs : Crash(p)) \/ UNCHANGED vars
          PROVE  FALSE
      BY <2>1, <2>5 DEF Crash, vars, fileVars
    <2> QED  BY <2>2, <2>3, <2>4, <2>5, JudgedStays DEF Next, Step, Failure
  <1> QED  BY <1>5, <1>6

LEMMA NextCInv == CInv /\ [Next]_vars => CInv'
PROOF
  <1> SUFFICES ASSUME CInv, [Next]_vars
               PROVE  CInv'
    OBVIOUS
  <1>1. IInv'
    BY NextIInv DEF CInv
  <1> QED  BY <1>1, NextQueues, JudgedStays, NextSeen, NextWrong DEF CInv

(* A writer meets a lock of its own process only when its removal failed,  *)
(* and a lock is removed wrongly only where two processes had found the    *)
(* same dead one or the reading of one failed.                             *)
THEOREM CollisionsNeedTwo == Spec => []OnlyBreakersCollide
PROOF
  <1>1. ASSUME CInv
        PROVE  OnlyBreakersCollide
    <2> USE WriterAssumption
    <2>0. /\ TypeOK /\ Queues /\ ActiveIsAlive /\ WrongHasRivals
          /\ LockOwner /\ LeftByFailure /\ DeadIsDead
      BY <1>1 DEF CInv, IInv
    <2>1. ASSUME NEW w \in Writers, pc[w] \in {"checking", "breaking", "again"},
                 lock \notin left \union {None}, ProcOf[lock] = ProcOf[w]
          PROVE  FALSE
      <3>1. lock \in Writers /\ ProcOf[w] \in alive /\ AtTurn(w)
        BY <2>0, <2>1 DEF TypeOK, ActiveIsAlive, AtTurn, Live, Waiting, Ended
      <3>2. pc[lock] \in {"creating", "held", "releasing"}
        BY <2>0, <2>1, <3>1 DEF LockOwner, LeftByFailure, DeadIsDead, Ended
      <3>3. AtTurn(lock)
        BY <3>2 DEF AtTurn, Live, Waiting, Ended
      <3>4. lock = w
        BY <2>0, <2>1, <3>1, <3>3, OneAtTurn
      <3> QED  BY <2>1, <3>2, <3>4
    <2> QED  BY <2>0, <2>1 DEF OnlyBreakersCollide, WrongHasRivals, Rivals
  <1>2. Spec => []CInv
    BY InitCInv, NextCInv, PTL DEF Spec
  <1> QED  BY <1>1, <1>2, PTL
=============================================================================
