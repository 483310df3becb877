--------------------- MODULE ConversationLifecycleProofs ---------------------
(* What any number of requests, of every kind, keeps of a conversation.    *)
EXTENDS ConversationLifecycle, TLAPS

(***************************************************************************)
(* Why a conversation is not left starting: the generation of the overlay  *)
(* is the one its owner remembers, and the owner's last step, whichever it *)
(* is, takes the overlay of its generation out of starting.  A bootstrap   *)
(* that shares the generation may do so earlier, never later.              *)
(***************************************************************************)
Owned ==
  Starting => /\ overlay.owner \in Request
              /\ Booting(overlay.owner)
              /\ mem[overlay.owner].gen = overlay.gen

\* The steps of a commander's start are made by such a request, which knows
\* what it found; the other ones' never are.
ByStart ==
  \A r \in Request :
    /\ pc[r] \in {"run", "seed", "spawn", "greet"} =>
         /\ mem[r].kind = "startCommander"
         /\ mem[r].saw \in States /\ mem[r].was \in Statuses

IInv == TypeOK /\ Owned /\ ByStart

LEMMA InitIInv == Init => IInv
PROOF
  <1> SUFFICES ASSUME Init
               PROVE  IInv
    OBVIOUS
  <1>1. HandlersOK
    <2>1. Blank \in Memory
      BY DEF Blank, Memory, AllKinds, States, Statuses
    <2>2. "new" \in Labels /\ <<>> \in Seq(Settings)
      BY DEF Labels
    <2> QED  BY <2>1, <2>2 DEF Init, HandlersOK
  <1>2. StoresOK
    <2>1. robbed \in BOOLEAN
      BY DEF Init
    <2>2. ticks = {}
      BY DEF Init
    <2>3. overlay \in Overlays /\ (overlay.gen > 0 <=> overlay.state # "none")
      BY DEF Init, NoOverlay, Overlays
    <2> QED  BY <2>1, <2>2, <2>3 DEF Init, StoresOK, Statuses, States
  <1>4. ended \in BOOLEAN /\ astray \in BOOLEAN
    BY DEF Init
  <1>3. Owned /\ ByStart
    BY DEF Init, Owned, ByStart, NoOverlay, Starting
  <1> QED  BY <1>1, <1>2, <1>3, <1>4 DEF IInv, TypeOK

(***************************************************************************)
(* The pieces of the handlers keep the types of what the handlers keep.    *)
(***************************************************************************)
LEMMA AdvanceType ==
  ASSUME HandlersOK, NEW r \in Request, NEW label \in Labels, Advance(r, label)
  PROVE  pc' \in [Request -> Labels] /\ mem' \in [Request -> Memory]
PROOF
  <1>1. Blank \in Memory
    BY DEF Blank, Memory, AllKinds, States, Statuses
  <1> QED  BY <1>1 DEF Advance, HandlersOK

LEMMA SettingType ==
  ASSUME HandlersOK, NEW r \in Request, NEW to \in Statuses, NEW keep \in BOOLEAN
  PROVE  Append(line, Setting(r, to, keep)) \in Seq(Settings)
PROOF
  <1>1. Setting(r, to, keep) \in Settings
    BY DEF Setting, Settings
  <1> QED  BY <1>1 DEF HandlersOK

LEMMA UpdateType ==
  ASSUME HandlersOK, NEW r \in Request, NEW next \in Labels, NEW to \in Statuses,
         Update(r, next, to)
  PROVE  HandlersOK'
PROOF
  BY AdvanceType, SettingType DEF Update, HandlersOK

LEMMA GotoType ==
  ASSUME HandlersOK, NEW r \in Request, NEW label \in Labels, Goto(r, label)
  PROVE  HandlersOK'
PROOF
  BY AdvanceType DEF HandlersOK, Goto

LEMMA StepHandlers ==
  ASSUME IInv, NEW r \in Request, Step(r)
  PROVE  HandlersOK'
PROOF
  <1>0. HandlersOK /\ StoresOK
    BY DEF IInv, TypeOK
  <1> USE <1>0, GotoType, UpdateType DEF Labels, BootLabels, Statuses
  <1>1. CASE Revived(r)
    BY <1>1 DEF Revived
  <1>2. CASE Reheart(r)
    BY <1>2 DEF Reheart
  <1>3. CASE Prepare(r)
    <2>1. CASE Goto(r, "create")
      BY <2>1
    <2>2. CASE /\ line' = Append(line, Setting(r, "active", FALSE))
               /\ pc' = [pc EXCEPT ![r] = "activated"]
               /\ mem' = [mem EXCEPT ![r].reused = TRUE]
      <3>1. mem' \in [Request -> Memory]
        BY <2>2 DEF HandlersOK, Memory
      <3>2. line' \in Seq(Settings)
        BY <2>2, SettingType
      <3> QED  BY <2>2, <3>1, <3>2 DEF HandlersOK
    <2> QED  BY <1>3, <2>1, <2>2 DEF Prepare
  <1>4. CASE Create(r)
    BY <1>4 DEF Create
  <1>5. CASE Activated(r)
    BY <1>5 DEF Activated
  <1>6. CASE Startup(r)
    BY <1>6 DEF Startup
  <1>7. CASE Unsent(r)
    BY <1>7 DEF Unsent
  <1>8. CASE GaveUp(r)
    BY <1>8 DEF GaveUp
  <1>9. CASE CreateFails(r)
    <2>1. CASE Advance(r, "gaveUp") /\ line' = Append(line, Setting(r, "idle", TRUE))
      BY <2>1, AdvanceType, SettingType DEF HandlersOK
    <2>2. CASE Goto(r, "done") \/ Update(r, "stopped", "idle")
      BY <2>2
    <2> QED  BY <1>9, <2>1, <2>2 DEF CreateFails
  <1>10. CASE Fail(r)
    BY <1>10 DEF Fail
  <1>11. CASE Sent(r)
    <2>1. CASE CancelRequested(r)
      <3>1. overlay.cancel \in Statuses
        BY <2>1 DEF CancelRequested, StoresOK, Overlays
      <3> QED  BY <1>11, <2>1, <3>1 DEF Sent
    <2>2. CASE ~CancelRequested(r)
      BY <1>11, <2>2 DEF Sent
    <2> QED  BY <2>1, <2>2
  <1>12. CASE Stopped(r)
    BY <1>12 DEF Stopped
  <1>13. CASE StopEnds(r)
    BY <1>13 DEF StopEnds
  <1>14. CASE Archived(r)
    BY <1>14 DEF Archived
  <1>15. CASE Deliver(r)
    BY <1>15 DEF Deliver
  <1>16. CASE ChannelSends(r)
    BY <1>16 DEF ChannelSends
  <1>17. CASE Delivered(r)
    BY <1>17 DEF Delivered
  <1>18. CASE Counted(r)
    BY <1>18 DEF Counted
  <1>19. CASE Run(r)
    BY <1>19 DEF Run
  <1>20. CASE Seed(r)
    BY <1>20 DEF Seed
  <1>21. CASE Spawn(r)
    BY <1>21 DEF Spawn
  <1>22. CASE Greet(r)
    BY <1>22 DEF Greet
  <1>23. CASE RollBack(r)
    <2>1. mem[r].was \in Statuses
      BY <1>23 DEF IInv, ByStart, RollBack, At
    <2> QED  BY <1>23, <2>1 DEF RollBack
  <1>24. CASE Halt(r)
    BY <1>24 DEF Halt
  <1> QED
    BY <1>1, <1>2, <1>3, <1>4, <1>5, <1>6, <1>7, <1>8, <1>9, <1>10, <1>11, <1>12,
       <1>13, <1>14, <1>15, <1>16, <1>17, <1>18, <1>19, <1>20, <1>21, <1>22, <1>23, <1>24 DEF Step

LEMMA StepStores ==
  ASSUME IInv, NEW r \in Request, Step(r)
  PROVE  StoresOK'
PROOF
  <1>0. HandlersOK /\ StoresOK
    BY DEF IInv, TypeOK
  <1> USE <1>0 DEF beats, StoresOK, Statuses, States
  <1>a. /\ Drop => session' \in Request \union {None} /\ procs' \subseteq Request
        /\ \A live : Derived(live) \in States
    BY DEF Drop, Derived
  <1>b. /\ Completed(r) \in Overlays /\ Failed(r) \in Overlays
        /\ Completed(r).gen > 0 <=> Completed(r).state # "none"
        /\ Failed(r).gen > 0 <=> Failed(r).state # "none"
    BY DEF Completed, Failed, NoOverlay, Overlays
  <1>1. CASE Revived(r)
    BY <1>1, <1>a, <1>b DEF Revived
  <1>2. CASE Reheart(r)
    BY <1>2, <1>a, <1>b DEF Reheart
  <1>3. CASE Prepare(r)
    BY <1>3, <1>a, <1>b DEF Prepare
  <1>4. CASE Create(r)
    BY <1>4, <1>a, <1>b DEF Create
  <1>5. CASE Activated(r)
    BY <1>5, <1>a, <1>b DEF Activated
  <1>6. CASE Startup(r)
    BY <1>6, <1>a, <1>b DEF Startup
  <1>7. CASE Unsent(r)
    BY <1>7, <1>a, <1>b DEF Unsent
  <1>8. CASE GaveUp(r)
    BY <1>8, <1>a, <1>b DEF GaveUp
  <1>9. CASE CreateFails(r)
    BY <1>9, <1>a, <1>b DEF CreateFails
  <1>10. CASE Fail(r)
    BY <1>10, <1>a, <1>b DEF Fail
  <1>11. CASE Sent(r)
    BY <1>11, <1>a, <1>b DEF Sent
  <1>12. CASE Stopped(r)
    BY <1>12, <1>a, <1>b DEF Stopped
  <1>13. CASE StopEnds(r)
    BY <1>13, <1>a, <1>b DEF StopEnds
  <1>14. CASE Archived(r)
    BY <1>14, <1>a, <1>b DEF Archived
  <1>15. CASE Deliver(r)
    BY <1>15, <1>a, <1>b DEF Deliver
  <1>16. CASE ChannelSends(r)
    BY <1>16, <1>a, <1>b DEF ChannelSends
  <1>17. CASE Delivered(r)
    BY <1>17, <1>a, <1>b DEF Delivered
  <1>18. CASE Counted(r)
    BY <1>18, <1>a, <1>b DEF Counted
  <1>19. CASE Run(r)
    BY <1>19, <1>a, <1>b DEF Run
  <1>20. CASE Seed(r)
    BY <1>20, <1>a, <1>b DEF Seed
  <1>21. CASE Spawn(r)
    BY <1>21, <1>a, <1>b DEF Spawn
  <1>22. CASE Greet(r)
    BY <1>22, <1>a, <1>b DEF Greet
  <1>23. CASE RollBack(r)
    <2>1. mem[r].saw \in States
      BY <1>23 DEF IInv, ByStart, RollBack, At
    <2> QED  BY <1>23, <2>1, <1>a DEF RollBack
  <1>24. CASE Halt(r)
    BY <1>24, <1>a, <1>b DEF Halt
  <1> QED
    BY <1>1, <1>2, <1>3, <1>4, <1>5, <1>6, <1>7, <1>8, <1>9, <1>10, <1>11, <1>12,
       <1>13, <1>14, <1>15, <1>16, <1>17, <1>18, <1>19, <1>20, <1>21, <1>22, <1>23, <1>24 DEF Step

(***************************************************************************)
(* A step leaves the overlay, or takes it out of starting; the owner's     *)
(* last step takes it out.                                                 *)
(***************************************************************************)
LEMMA StepRest ==
  ASSUME IInv, NEW r \in Request, Step(r)
  PROVE  Owned' /\ ByStart' /\ ended' = ended /\ astray' = astray
PROOF
  <1>0. /\ pc \in [Request -> Labels] /\ mem \in [Request -> Memory]
        /\ Owned /\ ByStart
    BY DEF IInv, TypeOK, HandlersOK
  <1> USE <1>0 DEF At, Goto, Update, Advance, Blank, Owned, ByStart, Booting, BootLabels, Starting, Memory
  <1>1. CASE Revived(r)
    BY <1>1 DEF Revived
  <1>2. CASE Reheart(r)
    BY <1>2 DEF Reheart
  <1>3. CASE Prepare(r)
    <2>1. CASE Goto(r, "create")
      BY <1>3, <2>1 DEF Prepare
    <2>2. CASE /\ pc' = [pc EXCEPT ![r] = "activated"]
               /\ mem' = [mem EXCEPT ![r].reused = TRUE]
      <3>1. /\ overlay' = overlay /\ pc[r] = "prepare"
            /\ ended' = ended /\ astray' = astray
        BY <1>3 DEF Prepare
      <3>2. \A q \in Request : /\ mem'[q].kind = mem[q].kind /\ mem'[q].gen = mem[q].gen
                               /\ mem'[q].saw = mem[q].saw /\ mem'[q].was = mem[q].was
        BY <2>2
      <3> QED  BY <2>2, <3>1, <3>2
    <2> QED  BY <1>3, <2>1, <2>2 DEF Prepare
  <1>4. CASE Create(r)
    BY <1>4 DEF Create
  <1>5. CASE Activated(r)
    BY <1>5 DEF Activated, Completed, Failed, Mine, CancelRequested, NoOverlay
  <1>6. CASE Startup(r)
    BY <1>6 DEF Startup
  <1>7. CASE Unsent(r)
    BY <1>7 DEF Unsent
  <1>8. CASE GaveUp(r)
    BY <1>8 DEF GaveUp
  <1>9. CASE CreateFails(r)
    <2>1. CASE mem[r].kind = "channel"
      BY <1>9, <2>1 DEF CreateFails
    <2>2. CASE mem[r].kind # "channel" /\ session # None
      <3>1. /\ overlay' = overlay /\ pc' = [pc EXCEPT ![r] = "stopped"] /\ pc[r] = "create"
            /\ mem' = mem /\ ended' = ended /\ astray' = astray
        BY <1>9, <2>2 DEF CreateFails
      <3> QED  BY <3>1
    <2>3. CASE mem[r].kind # "channel" /\ session = None
      <3>1. /\ overlay' = overlay /\ pc' = [pc EXCEPT ![r] = "gaveUp"] /\ pc[r] = "create"
            /\ mem' = mem /\ ended' = ended /\ astray' = astray
        BY <1>9, <2>3 DEF CreateFails
      <3> QED  BY <3>1
    <2> QED  BY <2>1, <2>2, <2>3
  <1>10. CASE Fail(r)
    BY <1>10 DEF Fail, Completed, Failed, Mine, CancelRequested, NoOverlay
  <1>11. CASE Sent(r)
    <2>1. CASE CancelRequested(r)
      <3>1. /\ overlay' = overlay /\ pc' = [pc EXCEPT ![r] = "stopped"] /\ pc[r] = "sent"
            /\ mem' = mem /\ ended' = ended /\ astray' = astray
        BY <1>11, <2>1 DEF Sent
      <3> QED  BY <3>1
    <2>2. CASE ~CancelRequested(r) /\ Mine(r)
      BY <1>11, <2>2 DEF Sent, Completed, NoOverlay
    <2>3. CASE ~Mine(r)
      <3>1. overlay' = overlay /\ (Starting => overlay.owner # r)
        BY <1>11, <2>3 DEF Sent, Completed, CancelRequested, Mine
      <3> QED  BY <1>11, <3>1, <2>3 DEF Sent, CancelRequested
    <2> QED  BY <2>1, <2>2, <2>3 DEF CancelRequested
  <1>12. CASE Stopped(r)
    BY <1>12 DEF Stopped
  <1>13. CASE StopEnds(r)
    BY <1>13 DEF StopEnds, Completed, Failed, Mine, CancelRequested, NoOverlay
  <1>14. CASE Archived(r)
    BY <1>14 DEF Archived
  <1>15. CASE Deliver(r)
    BY <1>15 DEF Deliver
  <1>16. CASE ChannelSends(r)
    BY <1>16 DEF ChannelSends
  <1>17. CASE Delivered(r)
    BY <1>17 DEF Delivered
  <1>18. CASE Counted(r)
    BY <1>18 DEF Counted
  <1>19. CASE Run(r)
    BY <1>19 DEF Run
  <1>20. CASE Seed(r)
    BY <1>20 DEF Seed
  <1>21. CASE Spawn(r)
    BY <1>21 DEF Spawn
  <1>22. CASE Greet(r)
    BY <1>22 DEF Greet
  <1>23. CASE RollBack(r)
    BY <1>23 DEF RollBack
  <1>24. CASE Halt(r)
    BY <1>24 DEF Halt
  <1> QED
    BY <1>1, <1>2, <1>3, <1>4, <1>5, <1>6, <1>7, <1>8, <1>9, <1>10, <1>11, <1>12,
       <1>13, <1>14, <1>15, <1>16, <1>17, <1>18, <1>19, <1>20, <1>21, <1>22, <1>23, <1>24 DEF Step

(* A bootstrap that begins.                                                *)
LEMMA BeginIInv ==
  ASSUME IInv, NEW r \in Request, NEW kind \in {"start", "resume"},
         ~Starting, ended' \in BOOLEAN, Begin(r, kind)
  PROVE  IInv'
PROOF
  <1>0. HandlersOK /\ StoresOK /\ Owned /\ ByStart
    BY DEF IInv, TypeOK
  <1>1. /\ overlay' \in Overlays /\ overlay'.gen \in Nat /\ overlay'.gen > 0
        /\ overlay'.state = "starting" /\ overlay'.owner = r
    BY <1>0 DEF Begin, StoresOK, Overlays
  <1>2. StoresOK'
    BY <1>0, <1>1 DEF Begin, StoresOK, AllKinds, beats
  <1>3. mem[r] \in Memory /\ overlay.gen + 1 \in Nat
    BY <1>0 DEF HandlersOK, StoresOK, Overlays
  <1>4. mem' = [mem EXCEPT ![r] = [mem[r] EXCEPT !.kind = kind, !.gen = overlay.gen + 1]]
    BY <1>0 DEF Begin, HandlersOK
  <1>5. [mem[r] EXCEPT !.kind = kind, !.gen = overlay.gen + 1] \in Memory
    BY <1>3 DEF Memory, AllKinds
  <1>6. HandlersOK'
    BY <1>0, <1>4, <1>5 DEF Begin, HandlersOK, Labels, BootLabels
  <1>7. /\ mem'[r].kind = kind /\ mem'[r].gen = overlay'.gen /\ pc'[r] = "prepare"
        /\ \A q \in Request \ {r} : mem'[q] = mem[q] /\ pc'[q] = pc[q]
    BY <1>0, <1>3, <1>4 DEF Begin, HandlersOK, Memory
  <1>8. Owned' /\ ByStart'
    BY <1>0, <1>1, <1>7 DEF Owned, ByStart, Starting, Booting, BootLabels
  <1>9. ended' \in BOOLEAN /\ astray' \in BOOLEAN
    BY DEF Begin
  <1> QED  BY <1>2, <1>6, <1>8, <1>9 DEF IInv, TypeOK

LEMMA ArrivalIInv ==
  ASSUME IInv, NEW r \in Request, Arrival(r)
  PROVE  IInv'
PROOF
  <1>0. HandlersOK /\ StoresOK /\ Owned /\ ByStart /\ ended \in BOOLEAN /\ astray \in BOOLEAN
    BY DEF IInv, TypeOK
  <1>a. pc \in [Request -> Labels] /\ mem \in [Request -> Memory] /\ mem[r] \in Memory
    BY <1>0 DEF HandlersOK
  <1>1. CASE Start(r)
    BY <1>1, BeginIInv DEF Start, Accept
  <1>2. CASE Resume(r)
    BY <1>2, BeginIInv DEF Resume, Accept
  <1>3. CASE Revive(r)
    <2>1. HandlersOK'
      BY <1>0, <1>3, UpdateType DEF Revive, Labels, Statuses
    <2>2. StoresOK'
      BY <1>0, <1>3 DEF Revive, Accept, StoresOK, AllKinds, beats
    <2>3. Owned' /\ ByStart' /\ ended' \in BOOLEAN /\ astray' \in BOOLEAN
      BY <1>0, <1>3, <1>a
      DEF Revive, Accept, Update, Advance, Owned, ByStart, Starting, Booting, BootLabels, Memory
    <2> QED  BY <1>0, <2>1, <2>2, <2>3 DEF IInv, TypeOK
  <1>4. CASE ChannelStart(r)
    <2>1. [mem[r] EXCEPT !.kind = "channel"] \in Memory
      BY <1>a DEF Memory, AllKinds
    <2>2. HandlersOK'
      BY <1>0, <1>4, <2>1 DEF ChannelStart, HandlersOK, Labels, BootLabels
    <2>3. StoresOK'
      BY <1>0, <1>4 DEF ChannelStart, Accept, StoresOK, AllKinds, beats
    <2>4. /\ mem'[r].kind = "channel" /\ pc'[r] = "prepare" /\ pc[r] = "new"
          /\ overlay' = overlay /\ ended' \in BOOLEAN /\ astray' \in BOOLEAN
          /\ \A q \in Request \ {r} : mem'[q] = mem[q] /\ pc'[q] = pc[q]
      BY <1>4, <1>a DEF ChannelStart, Accept, Memory
    <2>5. Owned'
      BY <1>0, <2>4 DEF Owned, Starting, Booting, BootLabels
    <2>6. ByStart'
      BY <1>0, <2>4 DEF ByStart
    <2> QED  BY <1>0, <2>2, <2>3, <2>4, <2>5, <2>6 DEF IInv, TypeOK
  <1>5. CASE Pause(r)
    <2>1. HandlersOK'
      BY <1>0, <1>5, UpdateType, GotoType DEF Pause, Labels, BootLabels, Statuses
    <2>2. StoresOK'
      BY <1>0, <1>5 DEF Pause, Accept, WithCancel, StoresOK, Overlays, AllKinds, beats
    <2>3. /\ pc[r] = "new" /\ pc'[r] \in {"done", "stopped"}
          /\ \A q \in Request \ {r} : mem'[q] = mem[q] /\ pc'[q] = pc[q]
          /\ ended' \in BOOLEAN /\ astray' \in BOOLEAN
      BY <1>0, <1>5, <1>a DEF Pause, Accept, Update, Goto, Advance
    <2>4. overlay'.state = overlay.state /\ overlay'.gen = overlay.gen /\ overlay'.owner = overlay.owner
      BY <1>0, <1>5 DEF Pause, WithCancel, StoresOK, Overlays
    <2>5. Owned'
      BY <1>0, <2>3, <2>4 DEF Owned, Starting, Booting, BootLabels
    <2>6. ByStart'
      BY <1>0, <2>3 DEF ByStart
    <2> QED  BY <1>0, <2>1, <2>2, <2>3, <2>5, <2>6 DEF IInv, TypeOK
  <1>6. CASE Archive(r)
    <2>1. HandlersOK'
      BY <1>0, <1>6, UpdateType DEF Archive, Labels, BootLabels, Statuses
    <2>2. StoresOK'
      BY <1>0, <1>6 DEF Archive, Accept, WithCancel, StoresOK, Overlays, AllKinds, beats
    <2>3. Owned' /\ ByStart' /\ ended' \in BOOLEAN /\ astray' \in BOOLEAN
      BY <1>0, <1>6, <1>a
      DEF Archive, Accept, Update, Advance, WithCancel, Owned, ByStart, Starting, Booting,
          BootLabels, Memory, StoresOK, Overlays
    <2> QED  BY <1>0, <2>1, <2>2, <2>3 DEF IInv, TypeOK
  <1>7. CASE Message(r)
    <2>1. [mem[r] EXCEPT !.kind = "message"] \in Memory
      BY <1>a DEF Memory, AllKinds
    <2>2. HandlersOK'
      BY <1>0, <1>7, <2>1 DEF Message, HandlersOK, Labels
    <2>3. StoresOK'
      BY <1>0, <1>7 DEF Message, Accept, StoresOK, AllKinds, beats
    <2>4. Owned' /\ ByStart' /\ ended' \in BOOLEAN /\ astray' \in BOOLEAN
      BY <1>0, <1>7, <1>a
      DEF Message, Accept, Owned, ByStart, Starting, Booting, BootLabels, Memory
    <2> QED  BY <1>0, <2>2, <2>3, <2>4 DEF IInv, TypeOK
  <1>8. CASE StartCommander(r)
    <2>0. commander \in States /\ status \in Statuses
      BY <1>0 DEF StoresOK
    <2>1. [mem[r] EXCEPT !.kind = "startCommander", !.saw = commander, !.was = status] \in Memory
      BY <1>a, <2>0 DEF Memory, AllKinds
    <2>2. mem' = [mem EXCEPT ![r] = [mem[r] EXCEPT !.kind = "startCommander",
                                                    !.saw = commander, !.was = status]]
      BY <1>8, <1>a DEF StartCommander
    <2>3. HandlersOK'
      BY <1>0, <1>8, <2>1, <2>2 DEF StartCommander, HandlersOK, Labels
    <2>4. StoresOK'
      BY <1>0, <1>8 DEF StartCommander, Accept, StoresOK, AllKinds, beats
    <2>5. /\ mem'[r].kind = "startCommander" /\ mem'[r].saw \in States
          /\ mem'[r].was \in Statuses
          /\ \A q \in Request \ {r} : mem'[q] = mem[q] /\ pc'[q] = pc[q]
      BY <1>8, <1>a, <2>0, <2>2 DEF StartCommander, Memory
    <2>6. pc[r] = "new" /\ overlay' = overlay /\ ended' \in BOOLEAN /\ astray' \in BOOLEAN
      BY <1>8 DEF StartCommander, Accept
    <2>7. Owned'
      BY <1>0, <2>5, <2>6 DEF Owned, Starting, Booting, BootLabels
    <2>8. ByStart'
      BY <1>0, <2>5 DEF ByStart
    <2> QED  BY <1>0, <2>3, <2>4, <2>6, <2>7, <2>8 DEF IInv, TypeOK
  <1>9. CASE StopCommander(r)
    <2>0. StoresOK' /\ ended' \in BOOLEAN /\ astray' \in BOOLEAN
      BY <1>0, <1>9 DEF StopCommander, Accept, StoresOK, AllKinds, beats
    <2>1. CASE status = "archived"
      <3>1. HandlersOK'
        BY <1>0, <1>9, <2>1, GotoType DEF StopCommander, Labels
      <3>2. /\ pc' = [pc EXCEPT ![r] = "halt"] /\ pc[r] = "new"
            /\ mem' = mem /\ overlay' = overlay
        BY <1>9, <2>1 DEF StopCommander, Accept, Goto, Advance
      <3>3. Owned'
        BY <1>0, <1>a, <3>2 DEF Owned, Starting, Booting, BootLabels
      <3>4. ByStart'
        BY <1>0, <1>a, <3>2 DEF ByStart
      <3> QED  BY <1>0, <2>0, <3>1, <3>3, <3>4 DEF IInv, TypeOK
    <2>2. CASE status # "archived"
      <3>1. /\ line' = Append(line, Setting(r, "idle", FALSE)) /\ pc' = [pc EXCEPT ![r] = "stopped"]
            /\ mem' = [mem EXCEPT ![r] = [mem[r] EXCEPT !.kind = "stopCommander"]]
            /\ overlay' = overlay /\ pc[r] = "new"
        BY <1>9, <1>a, <2>2 DEF StopCommander, Accept
      <3>2. [mem[r] EXCEPT !.kind = "stopCommander"] \in Memory
        BY <1>a DEF Memory, AllKinds, Statuses
      <3>3. mem' \in [Request -> Memory] /\ "stopped" \in Labels
        BY <1>a, <3>1, <3>2 DEF Labels, BootLabels
      <3>4. HandlersOK'
        BY <1>0, <3>1, <3>3, SettingType DEF HandlersOK, Statuses
      <3>5. /\ mem'[r].kind = "stopCommander" /\ pc'[r] = "stopped"
            /\ \A q \in Request \ {r} : mem'[q] = mem[q] /\ pc'[q] = pc[q]
        BY <1>a, <3>1 DEF Memory
      <3>6. Owned'
        BY <1>0, <3>1, <3>5 DEF Owned, Starting, Booting, BootLabels
      <3>7. ByStart'
        BY <1>0, <3>5 DEF ByStart
      <3> QED  BY <1>0, <2>0, <3>4, <3>6, <3>7 DEF IInv, TypeOK
    <2> QED  BY <2>1, <2>2
  <1> QED
    BY <1>1, <1>2, <1>3, <1>4, <1>5, <1>6, <1>7, <1>8, <1>9 DEF Arrival

LEMMA EnvironmentIInv ==
  ASSUME IInv, Mutate \/ Tick \/ (\E t \in ticks : Beat(t) \/ BeatStops(t))
  PROVE  IInv'
PROOF
  <1>0. HandlersOK /\ StoresOK /\ Owned /\ ByStart /\ ended \in BOOLEAN /\ astray \in BOOLEAN
    BY DEF IInv, TypeOK
  <1> USE <1>0 DEF beats, IInv, TypeOK, Owned, ByStart, Starting, Booting
  <1>1. CASE Mutate
    <2>1. Head(line) \in Settings /\ Tail(line) \in Seq(Settings)
      BY <1>1 DEF Mutate, HandlersOK
    <2>2. Head(line).to \in Statuses
      BY <2>1 DEF Settings
    <2>3. HandlersOK' /\ StoresOK'
      BY <1>1, <2>1, <2>2 DEF Mutate, HandlersOK, StoresOK
    <2> QED  BY <1>1, <2>3 DEF Mutate
  <1>2. CASE Tick
    <2>0. loop \in Request /\ commander \in States
      BY <1>2 DEF Tick, StoresOK
    <2>1. [loop |-> loop, saw |-> commander, ending |-> FALSE]
            \in [loop : Request, saw : States, ending : BOOLEAN]
      BY <2>0
    <2>2. ticks' \subseteq [loop : Request, saw : States, ending : BOOLEAN]
      BY <1>2, <2>1 DEF Tick, StoresOK
    <2>3. UNCHANGED <<status, commander, session, procs, loop, robbed, overlay>>
      BY <1>2 DEF Tick
    <2>4. StoresOK'
      BY <2>2, <2>3 DEF StoresOK
    <2> QED  BY <1>2, <2>4 DEF Tick, HandlersOK
  <1>3. CASE \E t \in ticks : Beat(t)
    <2>0. PICK t \in ticks : Beat(t)
      BY <1>3
    <2>1. [t EXCEPT !.ending = TRUE] \in [loop : Request, saw : States, ending : BOOLEAN]
      BY DEF StoresOK
    <2>2. StoresOK'
      BY <2>0, <2>1 DEF Beat, StoresOK
    <2> QED  BY <2>0, <2>2 DEF Beat, HandlersOK
  <1>4. CASE \E t \in ticks : BeatStops(t)
    <2>1. StoresOK'
      BY <1>4 DEF BeatStops, StoresOK
    <2> QED  BY <1>4, <2>1 DEF BeatStops, HandlersOK
  <1> QED  BY <1>1, <1>2, <1>3, <1>4

LEMMA NextIInv == IInv /\ [Next]_vars => IInv'
PROOF
  <1> SUFFICES ASSUME IInv, [Next]_vars
               PROVE  IInv'
    OBVIOUS
  <1>1. CASE \E r \in Request : Arrival(r)
    BY <1>1, ArrivalIInv
  <1>2. ASSUME NEW r \in Request, Step(r)
        PROVE  IInv'
    BY <1>2, StepHandlers, StepStores, StepRest DEF IInv, TypeOK
  <1>3. CASE Mutate \/ Tick \/ (\E t \in ticks : Beat(t) \/ BeatStops(t))
    BY <1>3, EnvironmentIInv
  <1>4. CASE UNCHANGED vars
    BY <1>4 DEF vars, beats, IInv, TypeOK, HandlersOK, StoresOK, Owned, ByStart, Starting, Booting
  <1> QED  BY <1>1, <1>2, <1>3, <1>4 DEF Next

(***************************************************************************)
(* The invariant of the specification.                                     *)
(***************************************************************************)
THEOREM Invariance == Spec => []IInv
PROOF
  BY InitIInv, NextIInv, PTL DEF Spec

(***************************************************************************)
(* Every variable keeps its type.                                          *)
(***************************************************************************)
THEOREM TypeCorrect == Spec => []TypeOK
PROOF
  <1>1. IInv => TypeOK
    BY DEF IInv
  <1> QED  BY <1>1, Invariance, PTL

(***************************************************************************)
(* Whatever requests come, of whatever kind: a conversation that says      *)
(* starting has a bootstrap that is still under way.                       *)
(***************************************************************************)
THEOREM NotLeftStarting == Spec => []StartingIsOwned
PROOF
  <1>1. IInv => StartingIsOwned
    BY DEF IInv, Owned, StartingIsOwned
  <1> QED  BY <1>1, Invariance, PTL

LEMMA NextSticks ==
  IInv /\ [Next]_vars =>
    [commander = "stopped" /\ commander' # "stopped" =>
       \E r \in Request : mem[r].kind = "startCommander" /\ pc'[r] # pc[r]]_vars
PROOF
  <1> SUFFICES ASSUME IInv, Next, commander = "stopped", commander' # "stopped"
               PROVE  \E r \in Request : mem[r].kind = "startCommander" /\ pc'[r] # pc[r]
    BY DEF vars
  <1>0. \A live : Derived(live) = "stopped"
    BY DEF Derived
  <1>1. ~(Mutate \/ Tick \/ (\E t \in ticks : Beat(t) \/ BeatStops(t)))
    BY DEF Mutate, Tick, Beat, BeatStops
  <1>2. ASSUME NEW r \in Request, Arrival(r)
        PROVE  FALSE
    BY <1>2 DEF Arrival, Start, Resume, Begin, Revive, ChannelStart, Pause, Archive, Message,
                StartCommander, StopCommander
  <1>3. ASSUME NEW r \in Request, Step(r)
        PROVE  mem[r].kind = "startCommander" /\ pc'[r] # pc[r]
    <2>1. Run(r) \/ RollBack(r)
      BY <1>0, <1>3
      DEF Step, Revived, Reheart, Prepare, Create, Activated, Startup, Unsent, GaveUp,
          CreateFails, Fail, Sent, Stopped, StopEnds, Archived, Deliver, ChannelSends,
          Delivered, Counted, Seed, Spawn, Greet, Halt
    <2>2. pc[r] \in {"run", "spawn", "greet"} /\ pc'[r] \in {"seed", "done"} /\ pc'[r] # pc[r]
      BY <2>1 DEF Run, RollBack, At, Update, Advance, IInv, TypeOK, HandlersOK
    <2> QED  BY <2>2 DEF IInv, ByStart
  <1> QED  BY <1>1, <1>2, <1>3 DEF Next

(***************************************************************************)
(* Only a start of the commander itself takes it out of stopped.           *)
(***************************************************************************)
THEOREM OnlyStartRevives == Spec => StoppedSticks
PROOF
  BY Invariance, NextSticks, PTL DEF Spec, StoppedSticks


-----------------------------------------------------------------------------
(***************************************************************************)
(* What holds while no start passed the overlay by and no two bootstraps   *)
(* had one generation.                                                     *)
(***************************************************************************)

\* Handlers that begin a session are bootstraps, and their generations differ.
Bootstraps ==
  \A r \in Request :
    /\ pc[r] = "new" => mem[r].kind = None
    /\ mem[r].kind \notin {"channel", "startCommander"}
    /\ pc[r] \in BootLabels \ {"stopped"} => mem[r].kind \in {"start", "resume"}
    /\ \A q \in Request : Booting(r) /\ Booting(q) /\ mem[r].gen = mem[q].gen => q = r

\* One that has not activated the conversation has the overlay.
Early(r) == pc[r] \in {"prepare", "create", "activated"}

InOverlay == \A r \in Request : Early(r) => Starting /\ Mine(r)

\* The session under the name is the only one; a bootstrap that is about to
\* create it, or has given up while it had the overlay, finds none.
OneSession ==
  /\ procs \subseteq {session}
  /\ \A r \in Request : pc[r] = "create" => session = None
  /\ Starting /\ pc[overlay.owner] \in {"gaveUp", "fail", "stopEnds"} => session = None

\* A session that outlives a pause or an archive is about to be dropped: by
\* the request, or by the bootstrap, which has been told.
Ending ==
  ended => /\ Starting => overlay.cancel # None
           /\ session # None => Starting \/ \E r \in Request : pc[r] = "stopped"

\* The commander's state is derived, or will be by a request that changed
\* what it is derived from.
Deriving == {"revived", "create", "activated", "gaveUp", "stopped", "archived", "counted"}

Consistent == commander = "running" <=> status = "active" /\ session # None

Derives ==
  commander # "stopped" => Consistent \/ \E r \in Request : pc[r] \in Deriving

\* Another step will start a loop, or take the session or the commander away.
Looping == {"activated", "startup", "stopped", "halt"}

\* A session has its loop, or will have, or was robbed of it, or is about to
\* go; a heartbeat that is to stop its own loop belongs to a session that went.
Beats ==
  commander # "stopped" =>
    /\ \A t \in ticks : t.saw # "stopped"
    /\ session # None => \/ loop # None \/ robbed
                         \/ \E r \in Request : pc[r] \in Looping
    /\ \A t \in ticks : t.ending /\ t.loop = loop /\ session # None =>
                          \E r \in Request : pc[r] \in Looping

\* The request that started a loop is past that step, and starts no other.
After == {"unsent", "sent", "gaveUp", "fail", "stopped", "stopEnds", "halt", "done"}

Named == /\ loop # None => pc[loop] \in After
         /\ \A t \in ticks : pc[t.loop] \in After /\ (t.ending => t.saw # "idle")

\* A queued update is one of a handler that will derive the state after it.
Queued == \A u \in ToSet(line) : pc[u.by] \in Deriving

Orderly == Queued /\ Bootstraps /\ InOverlay /\ OneSession /\ Ending /\ Derives /\ Beats /\ Named

JInv == IInv /\ (~astray => Orderly)

\* The steps but those of a commander's start.
Onward(r) ==
  \/ Revived(r) \/ Reheart(r) \/ Prepare(r) \/ Create(r) \/ Activated(r) \/ Startup(r)
  \/ Unsent(r) \/ GaveUp(r) \/ CreateFails(r) \/ Fail(r) \/ Sent(r)
  \/ Stopped(r) \/ StopEnds(r) \/ Archived(r)
  \/ Deliver(r) \/ ChannelSends(r) \/ Delivered(r) \/ Counted(r) \/ Halt(r)

LEMMA InitJInv == Init => JInv
PROOF
  <1> SUFFICES ASSUME Init
               PROVE  Orderly
    BY InitIInv DEF JInv
  <1>1. line = <<>> /\ ToSet(line) = {}
    BY DEF Init, ToSet
  <1>2. \A r \in Request : pc[r] = "new" /\ mem[r].kind = None
    BY DEF Init, Blank
  <1>3. /\ ~Starting /\ ended = FALSE /\ procs = {} /\ session = None /\ commander = "idle"
        /\ ticks = {} /\ loop = None
    BY DEF Init, Starting, NoOverlay
  <1>4. Queued
    BY <1>1 DEF Queued
  <1>5. Bootstraps
    BY <1>2, NoneAssumption DEF Bootstraps, BootLabels, Booting, AllKinds
  <1>6. InOverlay /\ OneSession
    BY <1>2, <1>3 DEF InOverlay, Early, OneSession
  <1>7. Ending /\ Derives /\ Beats /\ Named
    BY <1>3 DEF Ending, Derives, Consistent, Beats, Named
  <1> QED  BY <1>4, <1>5, <1>6, <1>7 DEF Orderly

LEMMA StepOnward ==
  ASSUME IInv, Orderly, NEW r \in Request, Step(r)
  PROVE  Onward(r)
PROOF
  <1>1. mem[r].kind # "startCommander"
    BY DEF Orderly, Bootstraps
  <1>2. pc[r] \notin {"run", "seed", "spawn", "greet"}
    BY <1>1 DEF IInv, ByStart
  <1>3. ~Run(r) /\ ~Seed(r) /\ ~Spawn(r) /\ ~Greet(r) /\ ~RollBack(r)
    BY <1>2 DEF Run, Seed, Spawn, Greet, RollBack, At
  <1> QED  BY <1>3 DEF Step, Onward

(***************************************************************************)
(* Where a step takes its handler: no step enters a bootstrap, and what it *)
(* queues is followed by a step that derives the state.                    *)
(***************************************************************************)
Moves(r) ==
  /\ pc[r] # "new" /\ pc'[r] # "new"
  /\ \A q \in Request : q # r => pc'[q] = pc[q] /\ mem'[q] = mem[q]
  /\ \/ mem'[r].kind = mem[r].kind /\ mem'[r].gen = mem[r].gen
     \/ pc'[r] = "done" /\ mem'[r].kind = None
  /\ pc'[r] \in BootLabels => pc[r] \in BootLabels
  /\ pc'[r] \in BootLabels \ {"stopped"} => mem[r].kind \in {"start", "resume"}
  /\ pc'[r] \in {"prepare", "create", "activated"} => Early(r)
  /\ \A u \in ToSet(line) : u.by # r
  /\ \/ line' = line
     \/ pc'[r] \in Deriving /\ \E to \in Statuses, keep \in BOOLEAN :
                                   line' = Append(line, Setting(r, to, keep))

LEMMA OnwardMoves ==
  ASSUME IInv, Orderly, NEW r \in Request, Onward(r)
  PROVE  Moves(r)
PROOF
  <1>0. /\ pc \in [Request -> Labels] /\ mem \in [Request -> Memory]
        /\ mem[r].kind # "channel"
        /\ pc[r] \in BootLabels \ {"stopped"} => mem[r].kind \in {"start", "resume"}
    BY DEF IInv, TypeOK, HandlersOK, Orderly, Bootstraps
  <1> USE <1>0 DEF At, Goto, Update, Advance, Blank, BootLabels, Early, Memory, Deriving, Moves, Statuses
  <1>1. CASE Revived(r)
    BY <1>1 DEF Revived
  <1>2. CASE Reheart(r)
    BY <1>2 DEF Reheart
  <1>3. CASE Prepare(r)
    <2>1. CASE Goto(r, "create")
      BY <1>3, <2>1 DEF Prepare
    <2>2. CASE /\ line' = Append(line, Setting(r, "active", FALSE))
               /\ pc' = [pc EXCEPT ![r] = "activated"]
               /\ mem' = [mem EXCEPT ![r].reused = TRUE]
      <3>1. mem'[r].kind = mem[r].kind /\ mem'[r].gen = mem[r].gen
        BY <2>2
      <3> QED  BY <1>3, <2>2, <3>1 DEF Prepare
    <2> QED  BY <1>3, <2>1, <2>2 DEF Prepare
  <1>4. CASE Create(r)
    BY <1>4 DEF Create
  <1>5. CASE Activated(r)
    BY <1>5 DEF Activated
  <1>6. CASE Startup(r)
    BY <1>6 DEF Startup
  <1>7. CASE Unsent(r)
    BY <1>7 DEF Unsent
  <1>8. CASE GaveUp(r)
    BY <1>8 DEF GaveUp
  <1>9. CASE CreateFails(r)
    BY <1>9 DEF CreateFails
  <1>10. CASE Fail(r)
    BY <1>10 DEF Fail
  <1>11. CASE Sent(r)
    <2>1. CASE CancelRequested(r)
      <3>1. overlay.cancel \in Statuses
        BY <2>1 DEF CancelRequested, IInv, TypeOK, StoresOK, Overlays, Statuses
      <3> QED  BY <1>11, <2>1, <3>1 DEF Sent
    <2>2. CASE ~CancelRequested(r)
      BY <1>11, <2>2 DEF Sent
    <2> QED  BY <2>1, <2>2
  <1>12. CASE Stopped(r)
    BY <1>12 DEF Stopped
  <1>13. CASE StopEnds(r)
    BY <1>13 DEF StopEnds
  <1>14. CASE Archived(r)
    BY <1>14 DEF Archived
  <1>15. CASE Deliver(r)
    BY <1>15 DEF Deliver
  <1>16. CASE ChannelSends(r)
    BY <1>16 DEF ChannelSends
  <1>17. CASE Delivered(r)
    <2>1. CASE Update(r, "counted", "active")
      BY <1>17, <2>1 DEF Delivered
    <2>2. CASE mem[r].kind = "message" /\ Goto(r, "done")
      BY <1>17, <2>2 DEF Delivered
    <2> QED  BY <1>17, <2>1, <2>2 DEF Delivered
  <1>18. CASE Counted(r)
    BY <1>18 DEF Counted
  <1>19. CASE Halt(r)
    BY <1>19 DEF Halt
  <1> QED
    BY <1>1, <1>2, <1>3, <1>4, <1>5, <1>6, <1>7, <1>8, <1>9, <1>10, <1>11, <1>12, <1>13,
       <1>14, <1>15, <1>16, <1>17, <1>18, <1>19 DEF Onward

(***************************************************************************)
(* What a step does to the overlay: nothing, or a bootstrap that has it    *)
(* gives it up; it does not with a session that an end was asked of.       *)
(***************************************************************************)
Yields(r) ==
  \/ overlay' = overlay
  \/ /\ Booting(r) /\ Mine(r) /\ pc'[r] \notin {"prepare", "create", "activated"}
     /\ overlay'.state # "starting"
     /\ ended /\ Starting => session = None /\ session' = None

LEMMA OnwardYields ==
  ASSUME IInv, Orderly, NEW r \in Request, Onward(r)
  PROVE  Yields(r)
PROOF
  <1>0. /\ pc \in [Request -> Labels] /\ mem \in [Request -> Memory]
        /\ Owned /\ Bootstraps /\ InOverlay /\ OneSession
        /\ ended => (Starting => overlay.cancel # None)
    BY DEF IInv, TypeOK, HandlersOK, Orderly, Ending
  <1>a. mem[r].kind # "channel" /\ (pc[r] \in BootLabels \ {"stopped"} => Booting(r))
    BY <1>0 DEF Bootstraps, Booting
  <1>b. Starting /\ Booting(r) /\ Mine(r) => r = overlay.owner
    BY <1>0 DEF Owned, Bootstraps, Mine
  <1>c. /\ Completed(r) = overlay \/ (Mine(r) /\ Completed(r).state # "starting")
        /\ Failed(r) = overlay \/ (Mine(r) /\ Failed(r).state # "starting")
    BY DEF Completed, Failed, NoOverlay, IInv, TypeOK, StoresOK, Overlays
  <1>d. ended /\ Starting /\ Mine(r) => CancelRequested(r)
    BY <1>0 DEF CancelRequested
  <1> USE DEF Yields
  <1>1. CASE Revived(r)
    BY <1>1 DEF Revived
  <1>2. CASE Reheart(r)
    BY <1>2 DEF Reheart
  <1>3. CASE Prepare(r)
    BY <1>3 DEF Prepare
  <1>4. CASE Create(r)
    BY <1>4 DEF Create
  <1>5. CASE Activated(r)
    <2>1. Booting(r) /\ pc'[r] = "startup"
      BY <1>5, <1>0, <1>a DEF Activated, At, BootLabels, Goto, Advance
    <2> QED  BY <1>5, <1>c, <1>d, <2>1 DEF Activated
  <1>6. CASE Startup(r)
    BY <1>6 DEF Startup
  <1>7. CASE Unsent(r)
    BY <1>7 DEF Unsent
  <1>8. CASE GaveUp(r)
    BY <1>8 DEF GaveUp
  <1>9. CASE CreateFails(r)
    BY <1>9 DEF CreateFails
  <1>10. CASE Fail(r)
    <2>1. Booting(r) /\ pc'[r] = "done" /\ pc[r] = "fail"
      BY <1>10, <1>0, <1>a DEF Fail, At, BootLabels, Goto, Advance
    <2>2. Starting /\ Mine(r) => session = None
      BY <1>0, <1>b, <2>1 DEF OneSession
    <2> QED  BY <1>10, <1>a, <1>c, <2>1, <2>2 DEF Fail
  <1>11. CASE Sent(r)
    <2>1. CASE CancelRequested(r)
      BY <1>11, <2>1 DEF Sent
    <2>2. CASE ~CancelRequested(r)
      <3>1. Booting(r) /\ pc'[r] = "done"
        BY <1>11, <1>0, <1>a, <2>2 DEF Sent, At, BootLabels, Goto, Advance
      <3> QED  BY <1>11, <1>c, <1>d, <2>2, <3>1 DEF Sent
    <2> QED  BY <2>1, <2>2
  <1>12. CASE Stopped(r)
    BY <1>12 DEF Stopped
  <1>13. CASE StopEnds(r)
    <2>1. Booting(r) /\ pc'[r] = "done" /\ pc[r] = "stopEnds"
      BY <1>13, <1>0, <1>a DEF StopEnds, At, BootLabels, Goto, Advance
    <2>2. Starting /\ Mine(r) => session = None
      BY <1>0, <1>b, <2>1 DEF OneSession
    <2> QED  BY <1>13, <1>c, <2>1, <2>2 DEF StopEnds
  <1>14. CASE Archived(r)
    BY <1>14 DEF Archived
  <1>15. CASE Deliver(r)
    BY <1>15 DEF Deliver
  <1>16. CASE ChannelSends(r)
    BY <1>16 DEF ChannelSends
  <1>17. CASE Delivered(r)
    BY <1>17 DEF Delivered
  <1>18. CASE Counted(r)
    BY <1>18 DEF Counted
  <1>19. CASE Halt(r)
    BY <1>19 DEF Halt
  <1> QED
    BY <1>1, <1>2, <1>3, <1>4, <1>5, <1>6, <1>7, <1>8, <1>9, <1>10, <1>11, <1>12, <1>13,
       <1>14, <1>15, <1>16, <1>17, <1>18, <1>19 DEF Onward

(***************************************************************************)
(* What a step does to the session: it drops it, or creates the only one.  *)
(***************************************************************************)
Leaves(r) ==
  /\ \/ session' = session /\ procs' = procs
     \/ session' = None /\ procs' = {}
     \/ pc[r] = "create" /\ pc'[r] = "activated" /\ session' = r /\ procs' = {r}
  /\ pc[r] = "stopped" => session' = None
  /\ pc'[r] \in {"create", "gaveUp", "stopEnds"} => session' = None
  /\ pc'[r] = "fail" => pc[r] = "gaveUp" /\ session' = session

LEMMA OnwardLeaves ==
  ASSUME IInv, Orderly, NEW r \in Request, Onward(r)
  PROVE  Leaves(r)
PROOF
  <1>0. /\ pc \in [Request -> Labels] /\ mem[r].kind # "channel"
        /\ procs \subseteq {session} /\ procs \subseteq Request
        /\ pc[r] = "create" => session = None
    BY DEF IInv, TypeOK, HandlersOK, StoresOK, Orderly, Bootstraps, OneSession
  <1>a. None \notin Request
    BY NoneAssumption
  <1> USE <1>0, <1>a DEF At, Goto, Update, Advance, Drop, Leaves
  <1>1. CASE Revived(r)
    BY <1>1 DEF Revived
  <1>2. CASE Reheart(r)
    BY <1>2 DEF Reheart
  <1>3. CASE Prepare(r)
    BY <1>3 DEF Prepare
  <1>4. CASE Create(r)
    BY <1>4 DEF Create
  <1>5. CASE Activated(r)
    BY <1>5 DEF Activated
  <1>6. CASE Startup(r)
    BY <1>6 DEF Startup
  <1>7. CASE Unsent(r)
    BY <1>7 DEF Unsent
  <1>8. CASE GaveUp(r)
    BY <1>8 DEF GaveUp
  <1>9. CASE CreateFails(r)
    BY <1>9 DEF CreateFails
  <1>10. CASE Fail(r)
    BY <1>10 DEF Fail
  <1>11. CASE Sent(r)
    BY <1>11 DEF Sent
  <1>12. CASE Stopped(r)
    BY <1>12 DEF Stopped
  <1>13. CASE StopEnds(r)
    BY <1>13 DEF StopEnds
  <1>14. CASE Archived(r)
    BY <1>14 DEF Archived
  <1>15. CASE Deliver(r)
    BY <1>15 DEF Deliver
  <1>16. CASE ChannelSends(r)
    BY <1>16 DEF ChannelSends
  <1>17. CASE Delivered(r)
    BY <1>17 DEF Delivered
  <1>18. CASE Counted(r)
    BY <1>18 DEF Counted
  <1>19. CASE Halt(r)
    BY <1>19 DEF Halt
  <1> QED
    BY <1>1, <1>2, <1>3, <1>4, <1>5, <1>6, <1>7, <1>8, <1>9, <1>10, <1>11, <1>12, <1>13,
       <1>14, <1>15, <1>16, <1>17, <1>18, <1>19 DEF Onward

(***************************************************************************)
(* The queue, the bootstraps, the overlay and the session after a step.    *)
(***************************************************************************)
LEMMA QueueTyped ==
  ASSUME HandlersOK
  PROVE  line \in Seq(Settings) /\ \A u \in ToSet(line) : u.by \in Request
PROOF
  <1>1. line \in Seq(Settings)
    BY DEF HandlersOK
  <1>2. ToSet(line) \subseteq Settings
    BY <1>1 DEF ToSet
  <1> QED  BY <1>1, <1>2 DEF Settings

LEMMA QueuedAfter ==
  ASSUME line \in Seq(Settings), NEW u \in Settings
  PROVE  \A x \in ToSet(Append(line, u)) : x \in ToSet(line) \/ x = u
PROOF
  <1> SUFFICES ASSUME NEW x \in ToSet(Append(line, u))
               PROVE  x \in ToSet(line) \/ x = u
    OBVIOUS
  <1>1. /\ DOMAIN line = 1..Len(line) /\ DOMAIN Append(line, u) = 1..(Len(line) + 1)
        /\ \A i \in 1..Len(line) : Append(line, u)[i] = line[i]
        /\ Append(line, u)[Len(line) + 1] = u
    OBVIOUS
  <1>2. PICK i \in 1..(Len(line) + 1) : x = Append(line, u)[i]
    BY <1>1 DEF ToSet
  <1>3. i \in 1..Len(line) \/ i = Len(line) + 1
    OBVIOUS
  <1> QED  BY <1>1, <1>2, <1>3 DEF ToSet

LEMMA OnwardOrder ==
  ASSUME IInv, Orderly, NEW r \in Request, Onward(r)
  PROVE  Queued' /\ Bootstraps' /\ InOverlay'
PROOF
  <1>0. Moves(r) /\ Yields(r) /\ Queued /\ Bootstraps /\ InOverlay
    BY OnwardMoves, OnwardYields DEF Orderly
  <1>1. line \in Seq(Settings) /\ \A u \in ToSet(line) : u.by \in Request
    BY QueueTyped DEF IInv, TypeOK
  <1>2. Queued'
    <2>1. \A u \in ToSet(line) : pc'[u.by] \in Deriving
      BY <1>0, <1>1 DEF Moves, Queued
    <2>2. ASSUME pc'[r] \in Deriving, NEW to \in Statuses, NEW keep \in BOOLEAN,
                 line' = Append(line, Setting(r, to, keep))
          PROVE  Queued'
      <3>1. \A u \in ToSet(line') : u \in ToSet(line) \/ u = Setting(r, to, keep)
        BY <1>1, <2>2, QueuedAfter DEF Setting, Settings
      <3> QED  BY <2>1, <2>2, <3>1 DEF Queued, Setting, Deriving
    <2>3. CASE line' = line
      BY <2>1, <2>3 DEF Queued, Deriving
    <2> QED  BY <1>0, <2>2, <2>3 DEF Moves
  <1>3. \A q \in Request : Booting(q)' => Booting(q) /\ mem'[q].gen = mem[q].gen
    BY <1>0, NoneAssumption DEF Moves, Booting, AllKinds, BootLabels
  <1>4. Bootstraps'
    <2>1. SUFFICES ASSUME NEW q \in Request
          PROVE  /\ pc'[q] = "new" => mem'[q].kind = None
                 /\ mem'[q].kind \notin {"channel", "startCommander"}
                 /\ pc'[q] \in BootLabels \ {"stopped"} => mem'[q].kind \in {"start", "resume"}
                 /\ \A s \in Request : Booting(q)' /\ Booting(s)' /\ mem'[q].gen = mem'[s].gen => s = q
      BY DEF Bootstraps, BootLabels
    <2>2. /\ pc'[q] = "new" => mem'[q].kind = None
          /\ mem'[q].kind \notin {"channel", "startCommander"}
          /\ pc'[q] \in BootLabels \ {"stopped"} => mem'[q].kind \in {"start", "resume"}
      BY <1>0, NoneAssumption DEF Moves, Bootstraps, AllKinds, BootLabels
    <2>3. \A s \in Request : Booting(q)' /\ Booting(s)' /\ mem'[q].gen = mem'[s].gen => s = q
      BY <1>0, <1>3 DEF Bootstraps
    <2> QED  BY <2>2, <2>3
  <1>5. InOverlay'
    <2>1. SUFFICES ASSUME NEW q \in Request, pc'[q] \in {"prepare", "create", "activated"}
          PROVE  overlay'.state = "starting" /\ overlay'.gen = mem'[q].gen
      BY DEF InOverlay, Early, Starting, Mine
    <2>2. Early(q) /\ mem'[q].gen = mem[q].gen
      BY <1>0, <2>1 DEF Moves, Early
    <2>3. Booting(q) /\ Starting /\ Mine(q)
      BY <1>0, <2>2 DEF Bootstraps, Booting, Early, InOverlay, BootLabels
    <2>4. overlay' = overlay
      BY <1>0, <2>1, <2>3 DEF Yields, Bootstraps, Mine
    <2> QED  BY <2>2, <2>3, <2>4 DEF Starting, Mine
  <1> QED  BY <1>2, <1>4, <1>5

LEMMA OnwardSession ==
  ASSUME IInv, Orderly, NEW r \in Request, Onward(r)
  PROVE  OneSession' /\ Ending'
PROOF
  <1>0. /\ Moves(r) /\ Yields(r) /\ Leaves(r) /\ Bootstraps /\ InOverlay /\ OneSession /\ Ending
        /\ Owned /\ None \notin Request
    BY OnwardMoves, OnwardYields, OnwardLeaves, NoneAssumption DEF Orderly, IInv
  <1>1. ended' = ended
    BY StepRest DEF Onward, Step
  <1>2. pc[r] = "create" => /\ Starting /\ overlay.owner = r
                            /\ \A q \in Request : pc[q] = "create" => q = r
    BY <1>0 DEF InOverlay, Early, Bootstraps, Booting, Mine, Owned, BootLabels
  <1>3. OneSession'
    <2>1. procs' \subseteq {session'}
      BY <1>0 DEF Leaves, OneSession
    <2>2. \A q \in Request : pc'[q] = "create" => session' = None
      BY <1>0, <1>2 DEF Leaves, OneSession, Moves
    <2>3. ASSUME overlay'.state = "starting", pc'[overlay'.owner] \in {"gaveUp", "fail", "stopEnds"}
          PROVE  session' = None
      <3>1. overlay' = overlay /\ Starting /\ overlay.owner \in Request
        BY <1>0, <2>3 DEF Yields, Starting, Owned
      <3> QED  BY <1>0, <1>2, <2>3, <3>1 DEF Leaves, OneSession, Moves
    <2> QED  BY <2>1, <2>2, <2>3 DEF OneSession, Starting
  <1>4. Ending'
    <2>1. SUFFICES ASSUME ended
          PROVE  /\ overlay'.state = "starting" => overlay'.cancel # None
                 /\ session' # None => \/ overlay'.state = "starting"
                                       \/ \E q \in Request : pc'[q] = "stopped"
      BY <1>1 DEF Ending, Starting
    <2>2. overlay'.state = "starting" => overlay'.cancel # None
      BY <1>0, <2>1 DEF Yields, Ending, Starting
    <2>3. ASSUME session' # None, overlay'.state # "starting"
          PROVE  \E q \in Request : pc'[q] = "stopped"
      <3>1. ~Starting
        BY <1>0, <2>1, <2>3 DEF Yields, Starting
      <3>2. session # None
        BY <1>0, <1>2, <2>3, <3>1 DEF Leaves
      <3>3. PICK q \in Request : pc[q] = "stopped"
        BY <1>0, <2>1, <3>1, <3>2 DEF Ending
      <3> QED  BY <1>0, <2>3, <3>3 DEF Leaves, Moves
    <2> QED  BY <2>2, <2>3
  <1> QED  BY <1>3, <1>4

(***************************************************************************)
(* What a step does to the commander's state: it derives it, or another    *)
(* step of the request will.                                               *)
(***************************************************************************)
Follows(r) ==
  /\ status' = status /\ (commander = "stopped" => commander' = "stopped")
  /\ \/ commander' # "stopped" => commander' = "running" <=> status' = "active" /\ session' # None
     \/ pc'[r] \in Deriving
     \/ commander' = commander /\ session' = session /\ pc[r] \notin Deriving

LEMMA OnwardFollows ==
  ASSUME IInv, Orderly, NEW r \in Request, Onward(r)
  PROVE  Follows(r)
PROOF
  <1>0. /\ pc \in [Request -> Labels] /\ mem[r].kind # "channel"
    BY DEF IInv, TypeOK, HandlersOK, Orderly, Bootstraps
  <1> USE <1>0 DEF At, Goto, Update, Advance, Drop, Derived, Deriving, Follows
  <1>1. CASE Revived(r)
    BY <1>1 DEF Revived
  <1>2. CASE Reheart(r)
    BY <1>2 DEF Reheart
  <1>3. CASE Prepare(r)
    BY <1>3 DEF Prepare
  <1>4. CASE Create(r)
    BY <1>4 DEF Create
  <1>5. CASE Activated(r)
    BY <1>5 DEF Activated
  <1>6. CASE Startup(r)
    BY <1>6 DEF Startup
  <1>7. CASE Unsent(r)
    BY <1>7 DEF Unsent
  <1>8. CASE GaveUp(r)
    BY <1>8 DEF GaveUp
  <1>9. CASE CreateFails(r)
    BY <1>9 DEF CreateFails
  <1>10. CASE Fail(r)
    BY <1>10 DEF Fail
  <1>11. CASE Sent(r)
    BY <1>11 DEF Sent
  <1>12. CASE Stopped(r)
    BY <1>12 DEF Stopped
  <1>13. CASE StopEnds(r)
    BY <1>13 DEF StopEnds
  <1>14. CASE Archived(r)
    BY <1>14 DEF Archived
  <1>15. CASE Deliver(r)
    BY <1>15 DEF Deliver
  <1>16. CASE ChannelSends(r)
    BY <1>16 DEF ChannelSends
  <1>17. CASE Delivered(r)
    BY <1>17 DEF Delivered
  <1>18. CASE Counted(r)
    BY <1>18 DEF Counted
  <1>19. CASE Halt(r)
    BY <1>19 DEF Halt
  <1> QED
    BY <1>1, <1>2, <1>3, <1>4, <1>5, <1>6, <1>7, <1>8, <1>9, <1>10, <1>11, <1>12, <1>13,
       <1>14, <1>15, <1>16, <1>17, <1>18, <1>19 DEF Onward

(***************************************************************************)
(* What a step does to the heartbeat loop of a session.                    *)
(***************************************************************************)
Kept(r) ==
  \/ session' = None
  \/ commander' = "stopped"
  \/ loop' = r /\ pc[r] \notin After
  \/ pc'[r] \in Looping
  \/ /\ session' = session /\ loop' = loop /\ robbed' = robbed
     /\ pc[r] \notin Looping
  \/ session' = session /\ loop' = loop /\ loop # None /\ pc[r] \notin Looping

LEMMA OnwardKept ==
  ASSUME IInv, Orderly, NEW r \in Request, Onward(r)
  PROVE  /\ Kept(r) /\ ticks' = ticks
         /\ pc[r] \in After => pc'[r] \in After
         /\ loop' \in {None, loop} \/ (loop' = r /\ pc'[r] \in After)
PROOF
  <1>0. /\ pc \in [Request -> Labels] /\ mem[r].kind # "channel" /\ None \notin Request
    BY NoneAssumption DEF IInv, TypeOK, HandlersOK, Orderly, Bootstraps
  <1> USE <1>0 DEF At, Goto, Update, Advance, Drop, Kept, Looping, After, beats
  <1>1. CASE Revived(r)
    BY <1>1 DEF Revived
  <1>2. CASE Reheart(r)
    BY <1>2 DEF Reheart
  <1>3. CASE Prepare(r)
    BY <1>3 DEF Prepare
  <1>4. CASE Create(r)
    BY <1>4 DEF Create
  <1>5. CASE Activated(r)
    BY <1>5 DEF Activated
  <1>6. CASE Startup(r)
    BY <1>6 DEF Startup
  <1>7. CASE Unsent(r)
    BY <1>7 DEF Unsent
  <1>8. CASE GaveUp(r)
    BY <1>8 DEF GaveUp
  <1>9. CASE CreateFails(r)
    BY <1>9 DEF CreateFails
  <1>10. CASE Fail(r)
    BY <1>10 DEF Fail
  <1>11. CASE Sent(r)
    BY <1>11 DEF Sent
  <1>12. CASE Stopped(r)
    BY <1>12 DEF Stopped
  <1>13. CASE StopEnds(r)
    BY <1>13 DEF StopEnds
  <1>14. CASE Archived(r)
    BY <1>14 DEF Archived
  <1>15. CASE Deliver(r)
    BY <1>15 DEF Deliver
  <1>16. CASE ChannelSends(r)
    BY <1>16 DEF ChannelSends
  <1>17. CASE Delivered(r)
    BY <1>17 DEF Delivered
  <1>18. CASE Counted(r)
    BY <1>18 DEF Counted
  <1>19. CASE Halt(r)
    BY <1>19 DEF Halt
  <1> QED
    BY <1>1, <1>2, <1>3, <1>4, <1>5, <1>6, <1>7, <1>8, <1>9, <1>10, <1>11, <1>12, <1>13,
       <1>14, <1>15, <1>16, <1>17, <1>18, <1>19 DEF Onward

LEMMA OnwardCommander ==
  ASSUME IInv, Orderly, NEW r \in Request, Onward(r)
  PROVE  Derives' /\ Beats' /\ Named'
PROOF
  <1>0. Moves(r) /\ Follows(r) /\ Kept(r) /\ ticks' = ticks /\ Derives /\ Beats /\ Named
    BY OnwardMoves, OnwardFollows, OnwardKept DEF Orderly
  <1>1. Derives'
    BY <1>0 DEF Moves, Follows, Derives, Consistent, Deriving
  <1>a. None \notin Request /\ \A t \in ticks : t.loop \in Request
    BY NoneAssumption DEF IInv, TypeOK, StoresOK
  <1>2. Beats'
    <2> SUFFICES ASSUME commander' # "stopped", session' # None
                 PROVE  /\ loop' # None \/ robbed' \/ \E q \in Request : pc'[q] \in Looping
                        /\ \A t \in ticks : t.ending /\ t.loop = loop' =>
                                              \E q \in Request : pc'[q] \in Looping
      BY <1>0 DEF Follows, Beats, Looping
    <2>0. commander # "stopped"
      BY <1>0 DEF Follows
    <2>1. CASE loop' = r /\ pc[r] \notin After
      BY <1>0, <1>a, <2>1 DEF Named
    <2>2. CASE pc'[r] \in Looping
      BY <2>2
    <2>3. CASE session' = session /\ loop' = loop /\ pc[r] \notin Looping
               /\ (robbed' = robbed \/ loop # None)
      <3>1. \A q \in Request : pc[q] \in Looping => pc'[q] \in Looping
        BY <1>0, <2>3 DEF Moves
      <3> QED  BY <1>0, <2>0, <2>3, <3>1 DEF Beats
    <2> QED  BY <1>0, <2>1, <2>2, <2>3 DEF Kept
  <1>3. Named'
    <2>1. /\ pc[r] \in After => pc'[r] \in After
          /\ loop' \in {None, loop} \/ (loop' = r /\ pc'[r] \in After)
      BY OnwardKept
    <2>2. loop \in Request \union {None}
      BY DEF IInv, TypeOK, StoresOK
    <2>3. \A q \in Request : pc[q] \in After => pc'[q] \in After
      BY <1>0, <2>1 DEF Moves
    <2> QED  BY <1>0, <1>a, <2>1, <2>2, <2>3 DEF Named, After
  <1> QED  BY <1>1, <1>2, <1>3

(***************************************************************************)
(* A bootstrap that begins is the only one with the overlay.               *)
(***************************************************************************)
LEMMA BeginOrder ==
  ASSUME IInv, Orderly, NEW r \in Request, NEW kind \in {"start", "resume"},
         ~Starting, ~astray', pc[r] = "new", ~ended', Begin(r, kind)
  PROVE  Orderly'
PROOF
  <1>0. /\ pc \in [Request -> Labels] /\ mem \in [Request -> Memory]
        /\ overlay.gen \in Nat /\ \A u \in ToSet(line) : u.by \in Request
    BY QueueTyped DEF IInv, TypeOK, HandlersOK, StoresOK, Overlays
  <1>a. /\ Queued /\ Bootstraps /\ InOverlay /\ OneSession /\ Derives /\ Beats /\ Named
        /\ UNCHANGED <<status, commander, session, procs, loop, ticks, robbed, line>>
    BY DEF Orderly, Begin, beats
  <1>1. /\ pc'[r] = "prepare"
        /\ mem'[r].kind = kind /\ mem'[r].gen = overlay.gen + 1
        /\ \A q \in Request : q # r => pc'[q] = pc[q] /\ mem'[q] = mem[q]
    BY <1>0 DEF Begin, Memory
  <1>2. /\ overlay'.state = "starting" /\ overlay'.gen = overlay.gen + 1
        /\ overlay'.owner = r
        /\ \A q \in Request : Booting(q) => mem[q].gen # overlay.gen + 1
    BY DEF Begin
  <1>3. Queued'
    BY <1>0, <1>a, <1>1 DEF Queued, Deriving
  <1>4. Bootstraps'
    <2>1. SUFFICES ASSUME NEW q \in Request
          PROVE  /\ pc'[q] = "new" => mem'[q].kind = None
                 /\ mem'[q].kind \notin {"channel", "startCommander"}
                 /\ pc'[q] \in BootLabels \ {"stopped"} => mem'[q].kind \in {"start", "resume"}
                 /\ \A s \in Request : Booting(q)' /\ Booting(s)' /\ mem'[q].gen = mem'[s].gen => s = q
      BY DEF Bootstraps, BootLabels
    <2>2. /\ pc'[q] = "new" => mem'[q].kind = None
          /\ mem'[q].kind \notin {"channel", "startCommander"}
          /\ pc'[q] \in BootLabels \ {"stopped"} => mem'[q].kind \in {"start", "resume"}
      BY <1>a, <1>1 DEF Bootstraps, BootLabels
    <2>3. \A s \in Request : s # r /\ Booting(s)' => /\ Booting(s) /\ mem'[s].gen = mem[s].gen
                                                      /\ mem'[s].gen # mem'[r].gen
      BY <1>1, <1>2 DEF Booting
    <2>4. \A s \in Request : Booting(q)' /\ Booting(s)' /\ mem'[q].gen = mem'[s].gen => s = q
      BY <1>a, <2>3 DEF Bootstraps
    <2> QED  BY <2>2, <2>4
  <1>5. InOverlay'
    BY <1>a, <1>1, <1>2 DEF InOverlay, Early, Starting, Mine
  <1>6. \A q \in Request : q # r => ~Early(q)
    BY <1>a DEF InOverlay
  <1>7. OneSession'
    BY <1>a, <1>1, <1>2 DEF OneSession
  <1>8. Ending'
    BY DEF Ending
  <1>9. Derives' /\ Beats'
    BY <1>a, <1>1, <1>2 DEF Derives, Consistent, Beats, Deriving, Looping
  <1>10. Named'
    <2>1. /\ \A t \in ticks : t.loop \in Request
          /\ loop \in Request \union {None}
      BY DEF IInv, TypeOK, StoresOK
    <2> QED  BY <1>a, <1>1, <2>1 DEF Named, After
  <1> QED  BY <1>3, <1>4, <1>5, <1>7, <1>8, <1>9, <1>10 DEF Orderly

(***************************************************************************)
(* The other requests, as they are taken: none begins a bootstrap; one     *)
(* that ends the conversation tells the bootstrap, or goes on to stop it.  *)
(***************************************************************************)
Arrives(r) ==
  /\ pc[r] = "new"
  /\ \A q \in Request : q # r => pc'[q] = pc[q] /\ mem'[q] = mem[q]
  /\ mem'[r].kind \notin {"start", "resume", "channel", "startCommander"}
  /\ pc'[r] # "new" /\ pc'[r] \notin BootLabels \ {"stopped"}
  /\ UNCHANGED <<status, commander, session, procs, ticks, robbed>>
  /\ loop' \in {None, loop}
  /\ overlay'.state = overlay.state /\ overlay'.gen = overlay.gen /\ overlay'.owner = overlay.owner
  /\ ended' => /\ Starting => overlay'.cancel # None
               /\ session # None => Starting \/ pc'[r] = "stopped"
  /\ session # None => loop' = loop \/ pc'[r] \in {"stopped", "halt"}
  /\ \/ line' = line
     \/ pc'[r] \in Deriving /\ \E to \in Statuses, keep \in BOOLEAN :
                                   line' = Append(line, Setting(r, to, keep))

LEMMA ArrivalArrives ==
  ASSUME IInv, Orderly, NEW r \in Request,
         Revive(r) \/ Pause(r) \/ Archive(r) \/ Message(r) \/ StopCommander(r)
  PROVE  Arrives(r)
PROOF
  <1>0. /\ pc \in [Request -> Labels] /\ mem \in [Request -> Memory]
        /\ None \notin Statuses /\ None \notin AllKinds
    BY NoneAssumption DEF IInv, TypeOK, HandlersOK, Statuses
  <1>a. pc[r] = "new" => mem[r].kind = None
    BY DEF Orderly, Bootstraps
  <1>b. /\ overlay \in Overlays
        /\ \A to : /\ WithCancel(to).state = overlay.state /\ WithCancel(to).gen = overlay.gen
                   /\ WithCancel(to).owner = overlay.owner
                   /\ Starting => WithCancel(to).cancel = to
    BY DEF IInv, TypeOK, StoresOK, Overlays, WithCancel
  <1> USE <1>0, <1>a DEF Accept, Update, Goto, Advance, Blank, BootLabels, Deriving, AllKinds,
                         Statuses, beats
  <1>1. CASE Revive(r)
    <2>1. ~ended' /\ \E keep \in BOOLEAN : line' = Append(line, Setting(r, "active", keep))
      BY <1>1 DEF Revive
    <2> QED  BY <1>1, <2>1 DEF Revive, Arrives
  <1>2. CASE Pause(r)
    <2>1. CASE Starting
      BY <1>2, <1>b, <2>1 DEF Pause, Arrives
    <2>2. CASE ~Starting
      <3>1. \E keep \in BOOLEAN : line' = Append(line, Setting(r, "idle", keep))
        BY <1>2, <2>2 DEF Pause
      <3> QED  BY <1>2, <1>b, <2>2, <3>1 DEF Pause, Arrives
    <2> QED  BY <2>1, <2>2
  <1>3. CASE Archive(r)
    <2>1. \E keep \in BOOLEAN : line' = Append(line, Setting(r, "archived", keep))
      BY <1>3 DEF Archive
    <2>2. CASE session = None
      BY <1>3, <1>b, <2>1, <2>2 DEF Archive, Arrives
    <2>3. CASE session # None
      BY <1>3, <1>b, <2>1, <2>3 DEF Archive, Arrives
    <2> QED  BY <2>2, <2>3
  <1>4. CASE Message(r)
    <2>1. ~ended' /\ mem'[r].kind = "message"
      BY <1>4 DEF Message, Memory
    <2> QED  BY <1>4, <2>1 DEF Message, Arrives
  <1>5. CASE StopCommander(r)
    <2>0. ~ended'
      BY <1>5 DEF StopCommander
    <2>1. CASE status = "archived"
      BY <1>5, <2>0, <2>1 DEF StopCommander, Arrives
    <2>2. CASE status # "archived"
      <3>1. mem'[r].kind = "stopCommander"
        BY <1>5, <2>2 DEF StopCommander, Memory
      <3>2. \E keep \in BOOLEAN : line' = Append(line, Setting(r, "idle", keep))
        BY <1>5, <2>2 DEF StopCommander
      <3> QED  BY <1>5, <2>0, <2>2, <3>1, <3>2 DEF StopCommander, Arrives
    <2> QED  BY <2>1, <2>2
  <1> QED  BY <1>1, <1>2, <1>3, <1>4, <1>5

LEMMA ArrivalOrder ==
  ASSUME IInv, Orderly, NEW r \in Request, Arrives(r)
  PROVE  Orderly'
PROOF
  <1>0. /\ Queued /\ Bootstraps /\ InOverlay /\ OneSession /\ Ending /\ Derives /\ Beats /\ Owned
        /\ Named /\ line \in Seq(Settings) /\ \A u \in ToSet(line) : u.by \in Request
    BY QueueTyped DEF Orderly, IInv, TypeOK
  <1>1. /\ pc[r] = "new" /\ pc'[r] # "new"
        /\ \A q \in Request : q # r => pc'[q] = pc[q] /\ mem'[q] = mem[q]
        /\ mem'[r].kind \notin {"start", "resume", "channel", "startCommander"}
        /\ pc'[r] \notin BootLabels \ {"stopped"}
        /\ UNCHANGED <<status, commander, session, procs, ticks, robbed>>
        /\ loop' \in {None, loop}
    BY DEF Arrives
  <1>2. /\ overlay'.state = overlay.state /\ overlay'.gen = overlay.gen
        /\ overlay'.owner = overlay.owner
    BY DEF Arrives
  <1>3. Queued'
    <2>1. \A u \in ToSet(line) : pc'[u.by] \in Deriving
      BY <1>0, <1>1 DEF Queued, Deriving
    <2>2. ASSUME pc'[r] \in Deriving, NEW to \in Statuses, NEW keep \in BOOLEAN,
                 line' = Append(line, Setting(r, to, keep))
          PROVE  Queued'
      <3>1. \A u \in ToSet(line') : u \in ToSet(line) \/ u = Setting(r, to, keep)
        BY <1>0, <2>2, QueuedAfter DEF Setting, Settings
      <3> QED  BY <2>1, <2>2, <3>1 DEF Queued, Setting, Deriving
    <2>3. CASE line' = line
      BY <2>1, <2>3 DEF Queued, Deriving
    <2> QED  BY <2>2, <2>3 DEF Arrives
  <1>4. Bootstraps'
    <2>1. \A q \in Request : Booting(q)' => q # r /\ Booting(q) /\ mem'[q] = mem[q]
      BY <1>1 DEF Booting
    <2> QED  BY <1>0, <1>1, <2>1 DEF Bootstraps, BootLabels
  <1>5. InOverlay'
    BY <1>0, <1>1, <1>2 DEF InOverlay, Early, Starting, Mine, BootLabels
  <1>6. OneSession'
    <2>1. Starting => overlay.owner \in Request
      BY <1>0 DEF Owned
    <2> QED  BY <1>0, <1>1, <1>2, <2>1 DEF OneSession, Starting, BootLabels
  <1>7. Ending'
    BY <1>1, <1>2 DEF Ending, Starting, Arrives
  <1>8. Derives'
    BY <1>0, <1>1 DEF Derives, Consistent, Deriving
  <1>9. Beats'
    <2>1. \A q \in Request : pc[q] \in Looping => pc'[q] \in Looping
      BY <1>1 DEF Looping
    <2>2. session # None => loop' = loop \/ pc'[r] \in Looping
      BY DEF Arrives, Looping
    <2> QED  BY <1>0, <1>1, <2>1, <2>2 DEF Beats
  <1>10. Named'
    <2>1. /\ \A t \in ticks : t.loop \in Request
          /\ loop \in Request \union {None}
      BY DEF IInv, TypeOK, StoresOK
    <2> QED  BY <1>0, <1>1, <2>1 DEF Named, After
  <1> QED  BY <1>3, <1>4, <1>5, <1>6, <1>7, <1>8, <1>9, <1>10 DEF Orderly

(***************************************************************************)
(* The store and the heartbeat.                                            *)
(***************************************************************************)
LEMMA EnvironmentOrder ==
  ASSUME IInv, Orderly,
         Mutate \/ Tick \/ (\E t \in ticks : Beat(t) \/ BeatStops(t)) \/ UNCHANGED vars
  PROVE  Orderly'
PROOF
  <1>0. /\ Queued /\ Bootstraps /\ InOverlay /\ OneSession /\ Ending /\ Derives /\ Beats
        /\ Named /\ line \in Seq(Settings) /\ \A u \in ToSet(line) : u.by \in Request
    BY QueueTyped DEF Orderly, IInv, TypeOK
  <1>1. UNCHANGED <<commander, session, procs, overlay, pc, mem, ended>>
    BY DEF Mutate, Tick, Beat, BeatStops, vars
  <1>2. Bootstraps' /\ InOverlay' /\ OneSession' /\ Ending'
    BY <1>0, <1>1 DEF Bootstraps, Booting, InOverlay, Early, Starting, Mine, OneSession, Ending
  <1>3. CASE Mutate
    <2>1. /\ Head(line) \in ToSet(line) /\ \A u \in ToSet(Tail(line)) : u \in ToSet(line)
      BY <1>0, <1>3 DEF Mutate, ToSet
    <2>2. Queued'
      BY <1>0, <1>1, <1>3, <2>1 DEF Mutate, Queued, Deriving
    <2>3. \E r \in Request : pc[r] \in Deriving
      BY <1>0, <2>1 DEF Queued
    <2>4. Derives' /\ Beats' /\ Named'
      BY <1>0, <1>1, <1>3, <2>3 DEF Mutate, Derives, Deriving, Beats, Named, beats
    <2> QED  BY <1>2, <2>2, <2>4 DEF Orderly
  <1>4. ASSUME UNCHANGED <<status, line>>, Beats', Named'
        PROVE  Orderly'
    <2>1. Queued' /\ Derives'
      BY <1>0, <1>1, <1>4 DEF Queued, Derives, Consistent, Deriving
    <2> QED  BY <1>2, <1>4, <2>1 DEF Orderly
  <1>5. CASE Tick
    <2>1. /\ UNCHANGED <<status, line, loop, robbed>> /\ loop # None
          /\ ticks' = ticks \union {[loop |-> loop, saw |-> commander, ending |-> FALSE]}
      BY <1>5 DEF Tick
    <2> QED  BY <1>0, <1>1, <1>4, <2>1 DEF Beats, Named
  <1>6. ASSUME NEW t \in ticks, Beat(t)
        PROVE  Orderly'
    <2> DEFINE later == [t EXCEPT !.ending = TRUE]
    <2>1. /\ UNCHANGED <<status, line, loop, robbed>>
          /\ ticks' = IF Stops(t) THEN (ticks \ {t}) \union {later} ELSE ticks \ {t}
      BY <1>6 DEF Beat
    <2>2. t \in [loop : Request, saw : States, ending : BOOLEAN]
      BY DEF IInv, TypeOK, StoresOK
    <2>3. later.loop = t.loop /\ later.saw = t.saw
      BY <2>2
    <2> HIDE DEF later
    <2>4. Named'
      BY <1>0, <1>1, <2>1, <2>3 DEF Named, Stops
    <2>5. Beats'
      <3>1. commander # "stopped" /\ Stops(t) => session = None
        BY <1>0 DEF Beats, Stops
      <3> QED  BY <1>0, <1>1, <2>1, <2>3, <3>1 DEF Beats
    <2> QED  BY <1>4, <2>1, <2>4, <2>5
  <1>7. ASSUME NEW t \in ticks, BeatStops(t)
        PROVE  Orderly'
    <2>1. /\ UNCHANGED <<status, line>> /\ ticks' = ticks \ {t} /\ loop' = None /\ t.ending
          /\ robbed' = (robbed \/ (t.saw = "running" /\ loop \notin {None, t.loop}))
      BY <1>7 DEF BeatStops
    <2>2. Named'
      BY <1>0, <1>1, <2>1 DEF Named
    <2>3. Beats'
      <3>1. \A s \in ticks' : s.loop # None
        BY <2>1, NoneAssumption DEF IInv, TypeOK, StoresOK
      <3>2. CASE loop = t.loop
        BY <1>0, <1>1, <2>1, <3>1, <3>2 DEF Beats
      <3>3. CASE loop = None
        <4>1. robbed => robbed'
          BY <2>1
        <4> QED  BY <1>0, <1>1, <2>1, <3>1, <3>3, <4>1 DEF Beats
      <3>4. CASE loop \notin {None, t.loop}
        <4>1. commander # "stopped" => t.saw = "running"
          BY <1>0, <2>1 DEF Beats, Named, IInv, TypeOK, StoresOK, States
        <4>2. commander # "stopped" => robbed'
          BY <2>1, <3>4, <4>1
        <4> QED  BY <1>0, <1>1, <2>1, <3>1, <4>2 DEF Beats
      <3> QED  BY <3>2, <3>3, <3>4
    <2> QED  BY <1>4, <2>1, <2>2, <2>3
  <1>8. CASE UNCHANGED vars
    <2>1. UNCHANGED <<status, line, loop, ticks, robbed>>
      BY <1>8 DEF vars, beats
    <2> QED  BY <1>0, <1>1, <1>4, <2>1 DEF Beats, Named
  <1> QED  BY <1>3, <1>5, <1>6, <1>7, <1>8

LEMMA NextJInv == JInv /\ [Next]_vars => JInv'
PROOF
  <1> SUFFICES ASSUME JInv, [Next]_vars, ~astray'
               PROVE  Orderly'
    BY NextIInv DEF JInv
  <1>1. IInv
    BY DEF JInv
  <1>2. CASE Mutate \/ Tick \/ (\E t \in ticks : Beat(t) \/ BeatStops(t)) \/ UNCHANGED vars
    <2>1. ~astray
      BY <1>2 DEF Mutate, Tick, Beat, BeatStops, vars
    <2> QED  BY <1>1, <1>2, <2>1, EnvironmentOrder DEF JInv
  <1>3. ASSUME NEW r \in Request, Step(r)
        PROVE  Orderly'
    <2>1. Orderly
      BY <1>1, <1>3, StepRest DEF JInv
    <2>2. Onward(r)
      BY <1>1, <1>3, <2>1, StepOnward
    <2> QED  BY <1>1, <2>1, <2>2, OnwardOrder, OnwardSession, OnwardCommander DEF Orderly
  <1>4. ASSUME NEW r \in Request, Arrival(r)
        PROVE  Orderly'
    <2>1. ~ChannelStart(r) /\ ~StartCommander(r)
      BY DEF ChannelStart, StartCommander
    <2>2. ~astray
      BY <1>4, <2>1 DEF Arrival, Start, Resume, Begin, Revive, Pause, Archive, Message, StopCommander
    <2>3. Orderly
      BY <2>2 DEF JInv
    <2>4. CASE Start(r) \/ Resume(r)
      <3>1. /\ \/ Accept(r, "start") /\ Begin(r, "start")
               \/ Accept(r, "resume") /\ Begin(r, "resume")
            /\ ~Starting
        BY <2>4 DEF Start, Resume
      <3>2. "start" \notin {"pause", "archive"} /\ "resume" \notin {"pause", "archive"}
        OBVIOUS
      <3>3. Accept(r, "start") \/ Accept(r, "resume") => pc[r] = "new" /\ ~ended'
        BY <3>2, Zenon DEF Accept
      <3> QED  BY <1>1, <2>3, <3>1, <3>3, BeginOrder
    <2>5. CASE Revive(r) \/ Pause(r) \/ Archive(r) \/ Message(r) \/ StopCommander(r)
      BY <1>1, <2>3, <2>5, ArrivalArrives, ArrivalOrder
    <2> QED  BY <1>4, <2>1, <2>4, <2>5 DEF Arrival
  <1> QED  BY <1>2, <1>3, <1>4 DEF Next

LEMMA Order == Spec => []JInv
PROOF
  BY InitJInv, NextJInv, PTL DEF Spec

(***************************************************************************)
(* However many requests overtake each other: once they are done, no       *)
(* process is left that the conversation's name does not reach, and a      *)
(* conversation paused or archived last has no session.                    *)
(***************************************************************************)
THEOREM EndsAsAsked == Spec => []RestsAsAsked
PROOF
  <1>1. JInv => RestsAsAsked
    <2> SUFFICES ASSUME JInv, Quiet, ~astray
                 PROVE  procs \subseteq {session} /\ (ended => session = None)
      BY DEF RestsAsAsked
    <2>1. ~Starting
      BY DEF JInv, IInv, Owned, Booting, Quiet, BootLabels
    <2>2. \A r \in Request : pc[r] # "stopped"
      BY DEF Quiet
    <2> QED  BY <2>1, <2>2 DEF JInv, Orderly, OneSession, Ending
  <1> QED  BY <1>1, Order, PTL

(***************************************************************************)
(* Once they are done, the commander runs if and only if the conversation  *)
(* is active with a session, and that session has its heartbeat loop, or   *)
(* was robbed of it by the late end of an earlier loop's heartbeat.        *)
(***************************************************************************)
THEOREM CommanderFollows == Spec => []FollowsConversation
PROOF
  <1>1. JInv => FollowsConversation
    <2> SUFFICES ASSUME JInv, Quiet, commander # "stopped", ~astray
                 PROVE  /\ commander = "running" <=> status = "active" /\ session # None
                        /\ commander = "running" => loop # None \/ robbed
      BY DEF FollowsConversation
    <2>1. \A r \in Request : pc[r] \notin Deriving
                             /\ pc[r] \notin {"activated", "startup", "stopped", "halt"}
      BY DEF Quiet, Deriving
    <2> QED  BY <2>1 DEF JInv, Orderly, Derives, Consistent, Beats, Looping
  <1> QED  BY <1>1, Order, PTL
==============================================================================
