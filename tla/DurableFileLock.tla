--------------------------- MODULE DurableFileLock ---------------------------
(***************************************************************************)
(* The lock file of modules/durable-file.ts.  Every rewrite of a store     *)
(* file runs in withFileMutationLock: the writers of one process queue     *)
(* behind each other in a map of promise tails, and the one whose turn it  *)
(* is takes `<file>.lock` against the writers of other processes.  The     *)
(* server takes the lock of its data directory in the same way, once       *)
(* (server/store-process-lock.ts).  A lock whose process is dead is        *)
(* removed by the next writer.                                             *)
(*                                                                         *)
(* A file system call takes effect and returns in one step, or fails; the  *)
(* calls of different processes interleave.  A process identifier is not   *)
(* used again, all processes run on one host, and writing a lock's content *)
(* takes less than staleMs.                                                *)
(***************************************************************************)
EXTENDS Naturals, FiniteSets

CONSTANTS Writers,     \* calls of acquireFileLock, each with its own token
          Procs,       \* the processes
          ProcOf,      \* the process of each writer
          None,        \* no writer: no lock file, no predecessor
          UseStale,    \* the caller passes staleMs: an old malformed lock is removed
          MaxCrashes,  \* bound: crashes of a process
          MaxFailures  \* bound: calls to the file system that fail

ASSUME WriterAssumption ==
  /\ ProcOf \in [Writers -> Procs]
  /\ None \notin Writers
  /\ UseStale \in BOOLEAN

VARIABLES
  alive,    \* the processes that run
  pc,       \* where each writer stands
  prev,     \* the writer of the same process that each writer waits for
  tail,     \* mutationQueues: the last writer queued in each process
  lock,     \* the writer whose token the lock file is for, or None
  written,  \* the lock file has its content
  judged,   \* the lock file each writer has found to be dead
  wrong,    \* history: a lock file was removed that its remover had not read to be dead
  misread,  \* history: the writers that took a lock for malformed because reading it failed
  left,     \* history: the writers whose removal of their own lock failed
  crashes, failures  \* the bounded counters

fileVars == <<lock, written>>
lapses == <<misread, left>>
counters == <<crashes, failures>>
vars == <<alive, pc, prev, tail, lock, written, judged, wrong, misread, left,
          crashes, failures>>

Ended == {"released", "failed", "refused", "dead"}
Places == {"new", "queued", "creating", "held", "releasing",
           "checking", "breaking", "again"} \union Ended

(* Type correctness of the writers' places, the queue and the lock file.   *)
TypeOK ==
  /\ alive \subseteq Procs
  /\ pc \in [Writers -> Places]
  /\ prev \in [Writers -> Writers \union {None}]
  /\ tail \in [Procs -> Writers \union {None}]
  /\ lock \in Writers \union {None}
  /\ judged \in [Writers -> Writers \union {None}]
  /\ written \in BOOLEAN /\ wrong \in BOOLEAN
  /\ misread \subseteq Writers /\ left \subseteq Writers
  /\ crashes \in Nat /\ failures \in Nat

Init ==
  /\ alive = Procs
  /\ pc = [w \in Writers |-> "new"]
  /\ prev = [w \in Writers |-> None]
  /\ tail = [p \in Procs |-> None]
  /\ lock = None /\ written = FALSE
  /\ judged = [w \in Writers |-> None]
  /\ wrong = FALSE /\ misread = {} /\ left = {}
  /\ crashes = 0 /\ failures = 0

Goto(w, p) == pc' = [pc EXCEPT ![w] = p]

\* Mutant: the next caller starts a chain of its own.
UnlinkAlways(w) == tail' = [tail EXCEPT ![ProcOf[w]] = None]

(* The map entry goes when nobody has queued behind the writer.            *)
Unlink(w) ==
  tail' = [tail EXCEPT ![ProcOf[w]] = IF @ = w THEN None ELSE @]

End(w, p) == Goto(w, p) /\ Unlink(w)

\* Mutant: a predecessor that was refused never lets the next one go on.
PredecessorReleased(w) == pc[w] = "released"

(* Success and failure both settle the tail of the predecessor.            *)
Settled(w) == pc[w] \in Ended

(* withFileMutationLock: queue behind the last writer of the process.      *)
Call(w) ==
  /\ pc[w] = "new" /\ ProcOf[w] \in alive
  /\ prev' = [prev EXCEPT ![w] = tail[ProcOf[w]]]
  /\ tail' = [tail EXCEPT ![ProcOf[w]] = w]
  /\ Goto(w, "queued")
  /\ UNCHANGED <<alive, fileVars, judged, wrong, lapses, counters>>

(* open(lockPath, 'wx').                                                   *)
Create(w) ==
  /\ lock' = w /\ written' = FALSE
  /\ Goto(w, "creating")
  /\ UNCHANGED tail

Open(w) ==
  /\ pc[w] = "queued"
  /\ prev[w] = None \/ (prev[w] # None /\ Settled(prev[w]))
  /\ IF lock = None THEN Create(w) ELSE Goto(w, "checking") /\ UNCHANGED <<fileVars, tail>>
  /\ UNCHANGED <<alive, prev, judged, wrong, lapses, counters>>

(***************************************************************************)
(* The token is written to the file that was opened, which may have been   *)
(* removed by now.                                                         *)
(***************************************************************************)
Write(w) ==
  /\ pc[w] = "creating"
  /\ written' = (written \/ lock = w)
  /\ Goto(w, "held")
  /\ UNCHANGED <<alive, prev, tail, lock, judged, wrong, lapses, counters>>

(* rm(lockPath, {force: true}) by a writer that means the lock of `meant`. *)
Remove(meant) ==
  /\ lock' = None /\ written' = FALSE
  /\ wrong' = (wrong \/ lock \notin {meant, None})

Fails == failures < MaxFailures /\ failures' = failures + 1

(***************************************************************************)
(* Writing the token fails, at the write or at a sync behind it: whatever  *)
(* is at the path is removed.  The failure may take that removal with it.  *)
(***************************************************************************)
FailWrite(w) ==
  /\ pc[w] = "creating"
  /\ Fails
  /\ \/ Remove(w) /\ UNCHANGED left
     \/ /\ left' = left \union {w}
        /\ written' \in {written, written \/ lock = w}
        /\ UNCHANGED <<lock, wrong>>
  /\ End(w, "failed")
  /\ UNCHANGED <<alive, prev, judged, misread, crashes>>

\* Mutant: a lock without content is taken for a dead one at once.
BrokenAtOnce(old) == lock # None /\ (~written \/ ProcOf[lock] \notin alive)

(***************************************************************************)
(* shouldBreakLock: the process is dead, or the file has no content and is *)
(* older than staleMs.  A file that has vanished is not broken.            *)
(***************************************************************************)
ShouldBreak(old) ==
  /\ lock # None
  /\ IF written THEN ProcOf[lock] \notin alive ELSE UseStale /\ old

(* A lock file that is still being written is never that old.              *)
Ages == IF lock # None /\ pc[lock] # "creating" THEN BOOLEAN ELSE {FALSE}

Judge(w) ==
  /\ pc[w] = "checking"
  /\ \E old \in Ages :
     IF ShouldBreak(old)
     THEN /\ judged' = [judged EXCEPT ![w] = lock]
          /\ Goto(w, "breaking") /\ UNCHANGED tail
     ELSE End(w, "refused") /\ UNCHANGED judged
  /\ UNCHANGED <<alive, prev, fileVars, wrong, lapses, counters>>

(***************************************************************************)
(* readLockMetadata fails on a lock that has its content: an old one is    *)
(* broken as if it were malformed, whoever holds it.                       *)
(***************************************************************************)
Misread(w) ==
  /\ pc[w] = "checking" /\ lock # None /\ written
  /\ Fails
  /\ \/ /\ UseStale
        /\ judged' = [judged EXCEPT ![w] = lock]
        /\ misread' = misread \union {w}
        /\ Goto(w, "breaking") /\ UNCHANGED tail
     \/ End(w, "refused") /\ UNCHANGED <<judged, misread>>
  /\ UNCHANGED <<alive, prev, fileVars, wrong, left, crashes>>

Break(w) ==
  /\ pc[w] = "breaking"
  /\ Remove(IF w \in misread THEN None ELSE judged[w])
  /\ Goto(w, "again")
  /\ UNCHANGED <<alive, prev, tail, judged, lapses, counters>>

(* The rm of a dead lock fails, and with it the call.                      *)
FailBreak(w) ==
  /\ pc[w] = "breaking"
  /\ Fails
  /\ End(w, "failed")
  /\ UNCHANGED <<alive, prev, fileVars, judged, wrong, lapses, crashes>>

(* The second and last attempt.                                            *)
OpenAgain(w) ==
  /\ pc[w] = "again"
  /\ IF lock = None THEN Create(w) ELSE End(w, "refused") /\ UNCHANGED fileVars
  /\ UNCHANGED <<alive, prev, judged, wrong, lapses, counters>>

(***************************************************************************)
(* release(): the file is read, and removed when it has the writer's own   *)
(* token.                                                                  *)
(***************************************************************************)
ReadOwn(w) ==
  /\ pc[w] = "held"
  /\ IF lock = w THEN Goto(w, "releasing") /\ UNCHANGED tail ELSE End(w, "released")
  /\ UNCHANGED <<alive, prev, fileVars, judged, wrong, lapses, counters>>

\* Mutant: the file is left for the next writer to break.
RemoveNothing(w) ==
  /\ pc[w] = "releasing"
  /\ End(w, "released")
  /\ UNCHANGED <<alive, prev, fileVars, judged, wrong, lapses, counters>>

RemoveOwn(w) ==
  /\ pc[w] = "releasing"
  /\ Remove(w)
  /\ End(w, "released")
  /\ UNCHANGED <<alive, prev, judged, lapses, counters>>

(***************************************************************************)
(* removeLockIfOwned swallows a failing read or rm: the writer has         *)
(* released, and its lock file stays.                                      *)
(***************************************************************************)
FailRelease(w) ==
  /\ pc[w] \in {"held", "releasing"}
  /\ Fails
  /\ left' = left \union {w}
  /\ End(w, "released")
  /\ UNCHANGED <<alive, prev, fileVars, judged, wrong, misread, crashes>>

(* The process dies with its queue; its lock file stays.                   *)
Crash(p) ==
  /\ p \in alive /\ crashes < MaxCrashes
  /\ crashes' = crashes + 1
  /\ alive' = alive \ {p}
  /\ pc' = [w \in Writers |->
              IF ProcOf[w] = p /\ pc[w] \notin Ended THEN "dead" ELSE pc[w]]
  /\ UNCHANGED <<prev, tail, fileVars, judged, wrong, lapses, failures>>

Step(w) == \/ Open(w) \/ Write(w) \/ Judge(w) \/ Break(w) \/ OpenAgain(w)
           \/ ReadOwn(w) \/ RemoveOwn(w)

Failure(w) == FailWrite(w) \/ Misread(w) \/ FailBreak(w) \/ FailRelease(w)

Next ==
  \/ \E w \in Writers : Call(w) \/ Step(w) \/ Failure(w)
  \/ \E p \in Procs : Crash(p)

Spec == Init /\ [][Next]_vars

(* A writer that has been called goes on: its file operations return.      *)
FairSpec == Spec /\ \A w \in Writers : WF_vars(Step(w))

-----------------------------------------------------------------------------
Inside(w) == pc[w] \in {"held", "releasing"}

(***************************************************************************)
(* Two writers are never inside the lock together                          *)
(* (durable-file.ts:280-294; server/__tests__/store-process-lock.test.ts:24). *)
(***************************************************************************)
MutualExclusion == \A v, w \in Writers : Inside(v) /\ Inside(w) => v = w

(***************************************************************************)
(* What the code achieves: exclusion, as long as no writer removes a lock  *)
(* other than the dead one it had read (durable-file.ts:265-266).          *)
(***************************************************************************)
ExclusiveUnlessWrong == ~wrong => MutualExclusion

(***************************************************************************)
(* What is left of collisions: a writer meets a lock of its own process    *)
(* only when the removal of that lock failed, for the queue of promise     *)
(* tails keeps the two apart otherwise (durable-file.ts:286-307); and a    *)
(* wrong removal takes a dead lock and two writers, of two processes, that *)
(* read it before either has removed it, or a lock whose reading failed.   *)
(***************************************************************************)
OnlyBreakersCollide ==
  /\ \A w \in Writers :
       pc[w] \in {"checking", "breaking", "again"} /\ lock \notin left \union {None} =>
         ProcOf[lock] # ProcOf[w]
  /\ wrong => \/ misread # {}
              \/ \E v, w \in Writers :
                   ProcOf[v] # ProcOf[w] /\ judged[v] # None /\ judged[v] = judged[w]

(***************************************************************************)
(* A lock that nobody in a live process holds or creates belongs to a dead *)
(* one, or to a writer whose own removal of it failed, which the code      *)
(* swallows: on no other path, failed writes and lost races included, does *)
(* a live process leave its lock behind, where it would refuse every later *)
(* writer (durable-file.ts:120-131, 224-229, 237-240).                     *)
(***************************************************************************)
NoLeftover ==
  lock # None => \/ ProcOf[lock] \notin alive
                 \/ Inside(lock) \/ pc[lock] = "creating"
                 \/ lock \in left

(* Every writer is served, refused or dies with its process.               *)
WritersEnd == \A w \in Writers : pc[w] # "new" ~> pc[w] \in Ended
=============================================================================
