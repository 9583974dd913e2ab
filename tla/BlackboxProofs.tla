--------------------------- MODULE BlackboxProofs ---------------------------
(***************************************************************************)
(* Theorems about Blackbox for any number of requests, any save limit and  *)
(* any number of attempts: the slot counter is exact, the main loop never  *)
(* waits for a save in progress, nothing is uploaded after the stop, a     *)
(* stop that hangs leaves no clip, every clip handed over is accounted     *)
(* for, and one save at a time keeps the masker to itself.                 *)
(***************************************************************************)
EXTENDS Blackbox, FiniteSetTheorems, SequenceTheorems, TLAPS

(* The clips whose save is in progress. *)
Savings == {c \in Clip : Saving(c)}

(* One step of one worker, as the others see it: it goes on, gives its slot *)
(* back, or returns.                                                        *)
Move(c, pc) ==
  /\ workerPc' = [workerPc EXCEPT ![c] = pc]
  /\ UNCHANGED <<threads, running, mainVars>>
  /\ \/ /\ Saving(c)
        /\ pc \in WorkerPcs \ {"idle", "leaving", "ended"}
        /\ active' = active
     \/ /\ Saving(c)
        /\ pc = "leaving"
        /\ active' = active - 1
     \/ /\ workerPc[c] = "leaving"
        /\ pc = "ended"
        /\ active' = active

(* --- the parts of the invariant ----------------------------------------- *)

(* A request not made yet has no worker, nor has the one under way. *)
RequestsFresh ==
  /\ \A c \in Clip : c > requested => workerPc[c] = "idle"
  /\ mainPc \in {"reserved", "reap", "spawn"} =>
       requested \in Clip /\ workerPc[requested] = "idle"

(* The thread list holds every thread that has not returned, and no other. *)
ThreadsListed ==
  /\ \A c \in Clip : workerPc[c] \in {"idle", "ended"} \/ c \in threads
  /\ \A c \in threads : workerPc[c] # "idle"

(* The clip thread exists only while clip_running_ holds, until the stop. *)
RunsOnlyFlagged ==
  mainPc \notin {"notifyClip", "joinClip", "done"} =>
    (clipRunning <=> clipPc # "none")

(* A job is in hand exactly while it is posted. *)
JobInHand == job # NoClip <=> clipPc \in {"attempt", "pause"}

(* A clip thread about to sleep has seen an empty queue; whoever pushed      *)
(* since it slept has still to wake it.                                      *)
SleeperCovered ==
  /\ clipPc = "park" => clipQueue = <<>>
  /\ clipPc = "asleep" /\ clipQueue # <<>> =>
       \E c \in Clip : workerPc[c] \in {"start", "notify"}

(* The notification is missed only by a stop. *)
MissedInStop == missed => mainPc \in {"joinClip", "done"}

IInv ==
  /\ TypeOK
  /\ RequestsFresh
  /\ SlotsCounted
  /\ ThreadsListed
  /\ ReapFindsFinished
  /\ RunsOnlyFlagged
  /\ NoUploadAfterStop
  /\ JobInHand
  /\ SleeperCovered
  /\ MissedInStop
-----------------------------------------------------------------------------
LEMMA ClipFinite == /\ Clip \subseteq Nat
                    /\ NoClip \notin Clip
                    /\ IsFiniteSet(Clip)
                    /\ \A S \in SUBSET Clip : IsFiniteSet(S) /\ Cardinality(S) \in Nat
<1>1. IsFiniteSet(Clip)
  BY FS_Interval, ClipsOK DEF Clip
<1>2. Clip \subseteq Nat /\ NoClip \notin Clip
  BY ClipsOK DEF Clip, NoClip
<1>3. ASSUME NEW S \in SUBSET Clip
      PROVE  IsFiniteSet(S) /\ Cardinality(S) \in Nat
  <2>1. IsFiniteSet(S)
    BY <1>1, FS_Subset
  <2> QED BY <2>1, FS_CardinalityType
<1> QED BY <1>1, <1>2, <1>3

LEMMA CapIsPositive == SaveCap \in Nat /\ SaveCap >= 1
BY SavesOK DEF SaveCap

(* Every step of a worker is a Move. *)
LEMMA WorkerMoves ==
  ASSUME TypeOK, NEW c \in Clip, Worker(c) \/ FramesCome(c)
  PROVE  \E pc \in WorkerPcs : Move(c, pc)
<1> USE DEF SavedStep, Goto, FreeSlot, Move, Saving, Through, WorkerPcs, TypeOK,
            SavesTypeOK
<1>1. CASE EndWait(c) /\ UNCHANGED mainVars
  BY <1>1 DEF EndWait
<1>2. CASE LookForMasker(c) /\ UNCHANGED mainVars
  BY <1>2 DEF LookForMasker
<1>3. CASE MakeMasker(c) /\ UNCHANGED mainVars
  BY <1>3 DEF MakeMasker
<1>4. ASSUME NEW ok \in BOOLEAN, ProbeMasker(c, ok) /\ UNCHANGED mainVars
      PROVE \E pc \in WorkerPcs : Move(c, pc)
  BY <1>4 DEF ProbeMasker
<1>5. ASSUME NEW some \in BOOLEAN, WriteFrames(c, some) /\ UNCHANGED mainVars
      PROVE \E pc \in WorkerPcs : Move(c, pc)
  BY <1>5 DEF WriteFrames
<1>6. CASE CountDown(c) /\ UNCHANGED mainVars
  BY <1>6 DEF CountDown
<1>7. CASE WorkerEnds(c) /\ UNCHANGED mainVars
  BY <1>7 DEF WorkerEnds
<1>8. CASE UploadOff(c) /\ UNCHANGED mainVars
  BY <1>8 DEF UploadOff
<1>9. CASE UploadPush(c) /\ UNCHANGED mainVars
  BY <1>9 DEF UploadPush
<1>10. CASE UploadStart(c) /\ UNCHANGED mainVars
  BY <1>10 DEF UploadStart
<1>11. CASE UploadNotify(c) /\ UNCHANGED mainVars
  BY <1>11 DEF UploadNotify
<1> HIDE DEF SavedStep, Goto, FreeSlot, Move, Saving, Through, WorkerPcs, TypeOK,
             SavesTypeOK
<1> QED
  BY <1>1, <1>2, <1>3, <1>4, <1>5, <1>6, <1>7, <1>8, <1>9, <1>10, <1>11
     DEF Worker, FramesCome, SaveStep, WaitFramesCame, WaitTimesOut, WaitStopped

(* What a Move does to the number of saves in progress. *)
LEMMA MoveCounts ==
  ASSUME TypeOK, NEW c \in Clip, NEW pc \in WorkerPcs, Move(c, pc)
  PROVE  /\ Cardinality(Savings') = Cardinality(Savings) + active' - active
         /\ active' \in {active, active - 1}
         /\ active' = active - 1 => Cardinality(Savings) >= 1
<1> USE DEF TypeOK, SavesTypeOK
<1>1. \A d \in Clip : d # c => (Saving(d)' <=> Saving(d))
  BY DEF Move, Saving, Through
<1>2. IsFiniteSet(Savings) /\ Cardinality(Savings) \in Nat /\ Savings \in SUBSET Clip
  BY ClipFinite DEF Savings
<1>3. workerPc'[c] = pc
  BY DEF Move
<1>4. CASE Saving(c) /\ pc \in WorkerPcs \ {"idle", "leaving", "ended"} /\ active' = active
  <2>1. Saving(c)'
    BY <1>3, <1>4 DEF Saving, Through
  <2>2. Savings' = Savings
    BY <1>1, <1>4, <2>1 DEF Savings
  <2> QED BY <1>2, <1>4, <2>2
<1>5. CASE Saving(c) /\ pc = "leaving" /\ active' = active - 1
  <2>1. ~Saving(c)'
    BY <1>3, <1>5 DEF Saving, Through
  <2>2. Savings' = Savings \ {c} /\ c \in Savings
    BY <1>1, <1>5, <2>1 DEF Savings
  <2>3. Cardinality(Savings') = Cardinality(Savings) - 1
    BY <1>2, <2>2, FS_RemoveElement
  <2>4. Cardinality(Savings) # 0
    BY <1>2, <2>2, FS_EmptySet
  <2> QED BY <1>2, <1>5, <2>3, <2>4
<1>6. CASE workerPc[c] = "leaving" /\ pc = "ended" /\ active' = active
  <2>1. ~Saving(c)' /\ ~Saving(c)
    BY <1>3, <1>6 DEF Saving, Through
  <2>2. Savings' = Savings
    BY <1>1, <2>1 DEF Savings
  <2> QED BY <1>2, <1>6, <2>2
<1> QED BY <1>4, <1>5, <1>6 DEF Move
-----------------------------------------------------------------------------
(* The actions other than those of the workers and of the clip thread. *)
MainActions == Request \/ Refuse \/ MainContinues \/ BeginStop \/ Crash

LEMMA StepCases ==
  ASSUME [Next]_vars
  PROVE  \/ \E c \in Clip : Worker(c) \/ FramesCome(c)
         \/ ClipThread
         \/ MainActions
         \/ UNCHANGED vars
BY DEF Next, MainActions

(* The clip thread touches nothing of the camera or of the main thread. *)
LEMMA ClipMoves ==
  ASSUME ClipThread
  PROVE  /\ UNCHANGED <<saveVars, mainVars, clipRunning>>
         /\ clipPc \notin {"none", "ended"}
         /\ clipPc' # "none"
BY DEF ClipThread, ClipStep, LoopTop, WaitParks, WaitBlocks, WaitBreaks, TakeClip,
       PostClip, PauseEnds, GiveUpClip

(* What a worker does to the clip thread: nothing, or one of the three      *)
(* steps of UploadClip, at its place in the callback.                       *)
LEMMA UploadMoves ==
  ASSUME NEW c \in Clip, Worker(c) \/ FramesCome(c)
  PROVE  \/ UNCHANGED clipVars /\ workerPc[c] \notin {"start", "notify"}
         \/ PushClip(c) /\ workerPc[c] = "upload" /\ Goto(c, "start")
         \/ StartClipThread /\ workerPc[c] = "start" /\ Goto(c, "notify")
         \/ NotifyClip /\ workerPc[c] = "notify"
BY DEF Worker, FramesCome, SaveStep, WaitFramesCame, WaitTimesOut, WaitStopped,
       EndWait, LookForMasker, MakeMasker, ProbeMasker, WriteFrames, CountDown,
       WorkerEnds, UploadOff, UploadPush, UploadStart, UploadNotify, SavedStep, Goto

-----------------------------------------------------------------------------
(* --- types -------------------------------------------------------------- *)

LEMMA ClipTypes ==
  ASSUME TypeOK, JobInHand, ClipThread
  PROVE  ClipTypeOK'
<1> USE DEF TypeOK, ClipTypeOK, ClipPcs
<1>1. CASE LoopTop
  BY <1>1 DEF LoopTop, jobVars
<1>2. CASE WaitParks \/ WaitBlocks \/ WaitBreaks
  BY <1>2 DEF WaitParks, WaitBlocks, WaitBreaks, jobVars
<1>3. CASE TakeClip
  <2>1. Head(clipQueue) \in Clip /\ Tail(clipQueue) \in Seq(Clip)
    BY <1>3 DEF TakeClip
  <2> QED BY <1>3, <2>1 DEF TakeClip
<1>4. ASSUME NEW ok \in BOOLEAN, PostClip(ok)
      PROVE  ClipTypeOK'
  <2>1. job \in Clip
    BY <1>4 DEF PostClip, JobInHand
  <2>2. failed[job] + 1 \in Nat /\ attempt + 1 \in Nat
    BY <2>1
  <2>3. \A n \in Nat : [failed EXCEPT ![job] = n] \in [Clip -> Nat]
    BY <2>1
  <2>4. failed' \in [Clip -> Nat]
    BY <1>4, <2>2, <2>3 DEF PostClip
  <2> QED BY <1>4, <2>1, <2>2, <2>4 DEF PostClip
<1>5. CASE PauseEnds
  BY <1>5 DEF PauseEnds, jobVars
<1>6. CASE GiveUpClip
  <2>1. job \in Clip
    BY <1>6 DEF GiveUpClip, JobInHand
  <2> QED BY <1>6, <2>1 DEF GiveUpClip
<1> QED
  BY <1>1, <1>2, <1>3, <1>4, <1>5, <1>6 DEF ClipThread, ClipStep

LEMMA WorkerTypes ==
  ASSUME TypeOK, SlotsCounted, NEW c \in Clip, Worker(c) \/ FramesCome(c)
  PROVE  TypeOK'
<1> USE DEF TypeOK
<1>1. PICK pc \in WorkerPcs : Move(c, pc)
  BY WorkerMoves
<1>2. active' \in Nat
  <2>1. Cardinality(Savings) <= active
    BY ClipFinite DEF SlotsCounted, Savings, SavesTypeOK
  <2>2. Cardinality(Savings) \in Nat
    BY ClipFinite DEF Savings
  <2> QED BY <1>1, <2>1, <2>2, MoveCounts DEF SavesTypeOK
<1>3. workerPc' \in [Clip -> WorkerPcs]
  BY <1>1 DEF Move, SavesTypeOK
<1>4. masker' \in BOOLEAN /\ saved' \in SUBSET Clip
  BY DEF Worker, FramesCome, SaveStep, WaitFramesCame, WaitTimesOut, WaitStopped,
     EndWait, LookForMasker, MakeMasker, ProbeMasker, WriteFrames, CountDown,
     WorkerEnds, UploadOff, UploadPush, UploadStart, UploadNotify, SavedStep,
     SavesTypeOK
<1>5. SavesTypeOK'
  BY <1>1, <1>2, <1>3, <1>4 DEF Move, SavesTypeOK
<1>6. ClipTypeOK'
  <2> USE DEF ClipTypeOK, ClipPcs, clipVars, jobVars
  <2>1. CASE UNCHANGED clipVars
    BY <2>1
  <2>2. CASE PushClip(c)
    BY <2>2 DEF PushClip
  <2>3. CASE StartClipThread \/ NotifyClip
    BY <2>3 DEF StartClipThread, NotifyClip
  <2> QED BY <2>1, <2>2, <2>3, UploadMoves
<1>7. UNCHANGED mainVars
  BY <1>1 DEF Move
<1> QED BY <1>5, <1>6, <1>7 DEF mainVars

LEMMA TypeStep ==
  ASSUME IInv, [Next]_vars
  PROVE  TypeOK'
<1>0. TypeOK /\ SlotsCounted /\ JobInHand /\ RequestsFresh
  BY DEF IInv
<1>1. ASSUME NEW c \in Clip, Worker(c) \/ FramesCome(c) PROVE TypeOK'
  BY <1>0, <1>1, WorkerTypes
<1>2. CASE ClipThread
  <2>1. ClipTypeOK'
    BY <1>0, <1>2, ClipTypes
  <2> QED BY <1>0, <1>2, <2>1, ClipMoves DEF TypeOK, SavesTypeOK, saveVars, mainVars
<1>3. CASE MainActions
  <2> USE <1>0 DEF TypeOK, SavesTypeOK, ClipTypeOK, MainPcs, MainGoto, saveVars,
               clipVars, jobVars
  <2>1. CASE Request
    BY <2>1, ClipsOK DEF Request, ReserveSlot
  <2>2. CASE Refuse
    BY <2>2, ClipsOK DEF Refuse
  <2>3. CASE LookForThreads
    BY <2>3 DEF LookForThreads
  <2>4. CASE Reap
    BY <2>4 DEF Reap, JoinThreads
  <2>5. CASE Spawn
    <3>1. requested \in Clip
      BY <2>5 DEF Spawn, RequestsFresh
    <3> QED BY <2>5, <3>1 DEF Spawn, SpawnWorker, Goto, WorkerPcs
  <2>6. CASE JoinWorkers
    BY <2>6 DEF JoinWorkers, JoinThreads
  <2>7. CASE StopClip
    BY <2>7 DEF StopClip, StopClipFlag
  <2>8. CASE NotifyStop
    BY <2>8 DEF NotifyStop, NotifyClip, ClipPcs
  <2>9. CASE JoinClip
    BY <2>9 DEF JoinClip
  <2>10. CASE BeginStop
    BY <2>10 DEF BeginStop, StopRunning
  <2>11. CASE Crash
    <3>1. SavesTypeOK'
      BY <2>11 DEF Crash, WorkerPcs
    <3>2. ClipTypeOK'
      <4>1. <<>> \in Seq(Clip) /\ [c \in Clip |-> 0] \in [Clip -> Nat]
        OBVIOUS
      <4> QED BY <2>11, <4>1 DEF Crash, ClipPcs
    <3> QED BY <2>11, <3>1, <3>2 DEF Crash
  <2> QED
    BY <1>3, <2>1, <2>2, <2>3, <2>4, <2>5, <2>6, <2>7, <2>8, <2>9, <2>10, <2>11
       DEF MainActions, MainContinues
<1>4. CASE UNCHANGED vars
  BY <1>0, <1>4 DEF vars, saveVars, clipVars, jobVars, mainVars, TypeOK, SavesTypeOK,
     ClipTypeOK
<1> QED BY <1>1, <1>2, <1>3, <1>4, StepCases
-----------------------------------------------------------------------------
(* --- requests, slots and threads ---------------------------------------- *)

LEMMA FreshStep ==
  ASSUME IInv, [Next]_vars
  PROVE  RequestsFresh'
<1> USE DEF RequestsFresh
<1>0. TypeOK /\ RequestsFresh
  BY DEF IInv
<1>1. ASSUME NEW c \in Clip, Worker(c) \/ FramesCome(c) PROVE RequestsFresh'
  <2>1. PICK pc \in WorkerPcs : Move(c, pc)
    BY <1>0, <1>1, WorkerMoves
  <2>2. workerPc[c] # "idle" /\ \A d \in Clip : d # c => workerPc'[d] = workerPc[d]
    BY <1>0, <2>1 DEF Move, Saving, TypeOK, SavesTypeOK
  <2> QED BY <1>0, <2>1, <2>2 DEF Move, mainVars
<1>2. CASE ClipThread
  BY <1>0, <1>2, ClipMoves DEF saveVars, mainVars
<1>3. CASE MainActions
  <2> USE <1>0 DEF MainGoto, saveVars
  <2>1. CASE Request
    <3>1. requested + 1 \in Clip /\ requested + 1 > requested
      BY <2>1, ClipsOK DEF Request, TypeOK, Clip
    <3>2. \A c \in Clip : c > requested + 1 => c > requested
      BY ClipsOK DEF TypeOK, Clip
    <3> QED BY <2>1, <3>1, <3>2 DEF Request, ReserveSlot
  <2>2. CASE Refuse
    <3>1. \A c \in Clip : c > requested + 1 => c > requested
      BY ClipsOK DEF TypeOK, Clip
    <3> QED BY <2>2, <3>1 DEF Refuse
  <2>3. CASE LookForThreads
    BY <2>3 DEF LookForThreads
  <2>4. CASE Reap
    BY <2>4 DEF Reap, JoinThreads
  <2>5. CASE Spawn
    <3>1. \A c \in Clip : c > requested => workerPc'[c] = workerPc[c]
      BY <2>5, ClipsOK DEF Spawn, SpawnWorker, Goto, TypeOK, SavesTypeOK, Clip
    <3> QED BY <2>5, <3>1 DEF Spawn
  <2>6. CASE JoinWorkers \/ StopClip \/ NotifyStop \/ JoinClip \/ BeginStop
    BY <2>6 DEF JoinWorkers, JoinThreads, StopClip, NotifyStop, JoinClip, BeginStop,
       StopRunning
  <2>7. CASE Crash
    BY <2>7 DEF Crash
  <2> QED
    BY <1>3, <2>1, <2>2, <2>3, <2>4, <2>5, <2>6, <2>7 DEF MainActions, MainContinues
<1>4. CASE UNCHANGED vars
  BY <1>0, <1>4 DEF vars, saveVars, mainVars
<1> QED BY <1>1, <1>2, <1>3, <1>4, StepCases

(* The counter in terms of the set of saves in progress. *)
Requesting == IF mainPc \in {"reserved", "reap", "spawn"} THEN 1 ELSE 0

LEMMA SlotsAre ==
  /\ SlotsCounted <=> active = Cardinality(Savings) + Requesting /\ active <= SaveCap
  /\ SlotsCounted' <=>
       active' = Cardinality(Savings') + Requesting' /\ active' <= SaveCap
BY DEF SlotsCounted, Savings, Requesting, SaveCap

LEMMA SlotsStep ==
  ASSUME IInv, [Next]_vars
  PROVE  SlotsCounted'
<1>0. TypeOK /\ SlotsCounted /\ RequestsFresh
  BY DEF IInv
<1>a. /\ active = Cardinality(Savings) + Requesting
      /\ active <= SaveCap
      /\ active \in Nat /\ Cardinality(Savings) \in Nat
      /\ IsFiniteSet(Savings)
  BY <1>0, SlotsAre, ClipFinite DEF TypeOK, SavesTypeOK, Savings
<1>1. ASSUME NEW c \in Clip, Worker(c) \/ FramesCome(c) PROVE SlotsCounted'
  <2>1. PICK pc \in WorkerPcs : Move(c, pc)
    BY <1>0, <1>1, WorkerMoves
  <2>2. Requesting' = Requesting /\ Requesting \in Nat
    BY <2>1 DEF Move, mainVars, Requesting
  <2>3. /\ Cardinality(Savings') = Cardinality(Savings) + active' - active
        /\ active' \in {active, active - 1}
    BY <1>0, <2>1, MoveCounts
  <2>4. active' = Cardinality(Savings') + Requesting' /\ active' <= SaveCap
    BY <1>a, <2>2, <2>3, CapIsPositive
  <2> QED BY <2>4, SlotsAre
<1>2. ASSUME UNCHANGED <<workerPc, active>>, Requesting' = Requesting
      PROVE  SlotsCounted'
  <2>1. Savings' = Savings
    BY <1>2 DEF Savings, Saving, Through
  <2> QED BY <1>a, <1>2, <2>1, SlotsAre
<1>3. CASE ClipThread
  BY <1>2, <1>3, ClipMoves DEF saveVars, mainVars, Requesting
<1>4. CASE MainActions
  <2> USE DEF MainGoto, saveVars, Requesting
  <2>1. CASE Request
    <3>1. Savings' = Savings
      BY <2>1 DEF Request, ReserveSlot, Savings, Saving, Through
    <3>2. active' = active + 1 /\ active < SaveCap /\ Requesting = 0 /\ Requesting' = 1
      BY <2>1 DEF Request, ReserveSlot
    <3>3. active' = Cardinality(Savings') + Requesting' /\ active' <= SaveCap
      BY <1>a, <3>1, <3>2, CapIsPositive
    <3> QED BY <3>3, SlotsAre
  <2>2. CASE Refuse
    BY <1>2, <2>2 DEF Refuse
  <2>3. CASE LookForThreads
    BY <1>2, <2>3 DEF LookForThreads
  <2>4. CASE Reap
    BY <1>2, <2>4 DEF Reap, JoinThreads
  <2>5. CASE Spawn
    <3>1. requested \in Clip /\ workerPc[requested] = "idle"
      BY <1>0, <2>5 DEF Spawn, RequestsFresh
    <3>2. /\ workerPc' = [workerPc EXCEPT ![requested] = "wait"]
          /\ active' = active /\ requested' = requested
      BY <2>5 DEF Spawn, SpawnWorker, Goto
    <3>3. Savings' = Savings \cup {requested} /\ requested \notin Savings
      <4>1. \A d \in Clip : d # requested => (Saving(d)' <=> Saving(d))
        BY <1>0, <3>2 DEF TypeOK, SavesTypeOK, Saving, Through
      <4>2. Saving(requested)' /\ ~Saving(requested)
        BY <1>0, <3>1, <3>2 DEF TypeOK, SavesTypeOK, Saving, Through
      <4> QED BY <3>1, <3>2, <4>1, <4>2 DEF Savings
    <3>4. Cardinality(Savings') = Cardinality(Savings) + 1
      BY <1>a, <3>3, FS_AddElement
    <3>5. Requesting = 1 /\ Requesting' = 0
      BY <2>5 DEF Spawn
    <3>6. active' = Cardinality(Savings') + Requesting' /\ active' <= SaveCap
      BY <1>a, <3>2, <3>4, <3>5
    <3> QED BY <3>6, SlotsAre
  <2>6. CASE JoinWorkers \/ StopClip \/ NotifyStop \/ JoinClip \/ BeginStop
    BY <1>2, <2>6 DEF JoinWorkers, JoinThreads, StopClip, NotifyStop, JoinClip,
       BeginStop, StopRunning
  <2>7. CASE Crash
    <3>1. Savings' = {}
      <4>1. \A c \in Clip : workerPc'[c] = "idle"
        BY <2>7 DEF Crash
      <4> QED BY <4>1 DEF Savings, Saving
    <3>2. active' = 0 /\ Requesting' = 0
      BY <2>7 DEF Crash
    <3>3. Cardinality(Savings') = 0
      BY <3>1, FS_EmptySet
    <3>4. active' = Cardinality(Savings') + Requesting' /\ active' <= SaveCap
      BY <3>2, <3>3, CapIsPositive
    <3> QED BY <3>4, SlotsAre
  <2> QED
    BY <1>4, <2>1, <2>2, <2>3, <2>4, <2>5, <2>6, <2>7 DEF MainActions, MainContinues
<1>5. CASE UNCHANGED vars
  BY <1>2, <1>5 DEF vars, saveVars, mainVars, Requesting
<1> QED BY <1>1, <1>3, <1>4, <1>5, StepCases

LEMMA ThreadsStep ==
  ASSUME IInv, [Next]_vars
  PROVE  ThreadsListed'
<1> USE DEF ThreadsListed
<1>0. TypeOK /\ ThreadsListed /\ RequestsFresh
  BY DEF IInv
<1>1. ASSUME NEW c \in Clip, Worker(c) \/ FramesCome(c) PROVE ThreadsListed'
  <2>1. PICK pc \in WorkerPcs : Move(c, pc)
    BY <1>0, <1>1, WorkerMoves
  <2>2. /\ \A d \in Clip : d # c => workerPc'[d] = workerPc[d]
        /\ workerPc[c] \notin {"idle", "ended"}
        /\ workerPc'[c] # "idle"
        /\ threads' = threads /\ threads \subseteq Clip
    BY <1>0, <2>1 DEF Move, Saving, Through, TypeOK, SavesTypeOK
  <2> QED BY <1>0, <2>2
<1>2. CASE ClipThread
  BY <1>0, <1>2, ClipMoves DEF saveVars
<1>3. CASE MainActions
  <2> USE <1>0 DEF MainGoto, saveVars
  <2>1. CASE Request \/ Refuse \/ LookForThreads \/ StopClip \/ NotifyStop \/ JoinClip
             \/ BeginStop
    BY <2>1 DEF Request, ReserveSlot, Refuse, LookForThreads, StopClip, NotifyStop,
       JoinClip, BeginStop, StopRunning
  <2>2. CASE Reap \/ JoinWorkers
    BY <2>2 DEF Reap, JoinWorkers, JoinThreads, ThreadsEnded
  <2>3. CASE Spawn
    BY <2>3 DEF Spawn, SpawnWorker, Goto, RequestsFresh, TypeOK, SavesTypeOK
  <2>4. CASE Crash
    BY <2>4 DEF Crash
  <2> QED BY <1>3, <2>1, <2>2, <2>3, <2>4 DEF MainActions, MainContinues
<1>4. CASE UNCHANGED vars
  BY <1>0, <1>4 DEF vars, saveVars
<1> QED BY <1>1, <1>2, <1>3, <1>4, StepCases

(* The only request that reaps counts one save, its own: no other is in      *)
(* progress.                                                                 *)
LEMMA ReapStep ==
  ASSUME IInv, [Next]_vars
  PROVE  ReapFindsFinished'
<1> USE DEF ReapFindsFinished
<1>0. TypeOK /\ ReapFindsFinished /\ SlotsCounted /\ ThreadsListed
  BY DEF IInv
<1>1. ASSUME NEW c \in Clip, Worker(c) \/ FramesCome(c) PROVE ReapFindsFinished'
  <2>1. PICK pc \in WorkerPcs : Move(c, pc)
    BY <1>0, <1>1, WorkerMoves
  <2>2. /\ \A d \in Clip : d # c => (Through(d)' <=> Through(d))
        /\ Through(c) => Through(c)'
        /\ threads' = threads /\ threads \subseteq Clip
        /\ mainPc' = mainPc
    BY <1>0, <2>1 DEF Move, mainVars, Saving, Through, TypeOK, SavesTypeOK
  <2> QED BY <1>0, <2>2
<1>2. CASE ClipThread
  BY <1>0, <1>2, ClipMoves DEF saveVars, mainVars, Through
<1>3. CASE LookForThreads
  <2> SUFFICES ASSUME mainPc' = "reap", NEW c \in threads'
               PROVE  Through(c)'
    OBVIOUS
  <2>1. c \in threads /\ workerPc' = workerPc /\ mainPc = "reserved" /\ active <= 1
    BY <1>3 DEF LookForThreads, MainGoto, MustReap, saveVars
  <2>2. Cardinality(Savings) \in Nat /\ IsFiniteSet(Savings)
    BY ClipFinite DEF Savings
  <2>3. active = Cardinality(Savings) + 1
    BY <1>0, <2>1, SlotsAre DEF Requesting
  <2>4. Savings = {}
    BY <1>0, <2>1, <2>2, <2>3, FS_EmptySet DEF TypeOK, SavesTypeOK
  <2>5. workerPc[c] # "idle" /\ c \in Clip
    BY <1>0, <2>1 DEF ThreadsListed, TypeOK, SavesTypeOK
  <2>6. Through(c)
    BY <2>4, <2>5 DEF Savings, Saving
  <2> QED BY <2>1, <2>6 DEF Through
<1>4. CASE MainActions /\ ~LookForThreads
  <2>1. mainPc' # "reap"
    BY <1>4, <1>0 DEF MainActions, MainContinues, Request, Refuse, Reap, Spawn, JoinWorkers,
       StopClip, NotifyStop, JoinClip, BeginStop, Crash, MainGoto
  <2> QED BY <2>1
<1>5. CASE UNCHANGED vars
  BY <1>0, <1>5 DEF vars, saveVars, mainVars, Through
<1> QED BY <1>1, <1>2, <1>3, <1>4, <1>5, StepCases
-----------------------------------------------------------------------------
(* --- the stop ------------------------------------------------------------ *)

LEMMA FlaggedStep ==
  ASSUME IInv, [Next]_vars
  PROVE  RunsOnlyFlagged'
<1> USE DEF RunsOnlyFlagged
<1>0. TypeOK /\ RunsOnlyFlagged /\ NoUploadAfterStop
  BY DEF IInv
<1>1. ASSUME NEW c \in Clip, Worker(c) \/ FramesCome(c) PROVE RunsOnlyFlagged'
  <2>1. PICK pc \in WorkerPcs : Move(c, pc)
    BY <1>0, <1>1, WorkerMoves
  <2>2. mainPc' = mainPc
    BY <2>1 DEF Move, mainVars
  <2> QED BY <1>0, <1>1, <2>2, UploadMoves DEF PushClip, StartClipThread, NotifyClip,
             clipVars, jobVars
<1>2. CASE ClipThread
  BY <1>0, <1>2, ClipMoves DEF mainVars
<1>3. CASE MainActions
  BY <1>0, <1>3 DEF MainActions, MainContinues, Request, Refuse, LookForThreads, Reap,
     Spawn, JoinWorkers, StopClip, NotifyStop, JoinClip, BeginStop, Crash, MainGoto,
     clipVars
<1>4. CASE UNCHANGED vars
  BY <1>0, <1>4 DEF vars, clipVars, mainVars
<1> QED BY <1>1, <1>2, <1>3, <1>4, StepCases

LEMMA StopStep ==
  ASSUME IInv, [Next]_vars
  PROVE  NoUploadAfterStop'
<1> USE DEF NoUploadAfterStop
<1>0. TypeOK /\ NoUploadAfterStop /\ RunsOnlyFlagged /\ ThreadsListed
  BY DEF IInv
<1>1. ASSUME NEW c \in Clip, Worker(c) \/ FramesCome(c) PROVE NoUploadAfterStop'
  <2>1. PICK pc \in WorkerPcs : Move(c, pc)
    BY <1>0, <1>1, WorkerMoves
  <2>2. workerPc[c] \notin {"idle", "ended"} /\ mainPc' = mainPc
    BY <2>1 DEF Move, mainVars, Saving, Through
  <2>3. mainPc \notin {"stopClip", "notifyClip", "joinClip", "done"}
    BY <1>0, <2>2
  <2> QED BY <2>2, <2>3
<1>2. CASE ClipThread
  BY <1>0, <1>2, ClipMoves DEF saveVars, mainVars
<1>3. CASE MainActions
  <2> USE <1>0 DEF MainGoto, saveVars, clipVars
  <2>1. CASE Request \/ Refuse \/ LookForThreads \/ Reap \/ Spawn \/ BeginStop \/ Crash
    BY <2>1 DEF Request, Refuse, LookForThreads, Reap, Spawn, BeginStop, Crash
  <2>2. CASE JoinWorkers
    <3>1. \A c \in Clip : workerPc'[c] \in {"idle", "ended"}
      BY <2>2 DEF JoinWorkers, JoinThreads, ThreadsEnded, ThreadsListed
    <3> QED BY <2>2, <3>1 DEF JoinWorkers
  <2>3. CASE StopClip
    BY <2>3 DEF StopClip, StopClipFlag, RunsOnlyFlagged
  <2>4. CASE NotifyStop
    BY <2>4 DEF NotifyStop, NotifyClip
  <2>5. CASE JoinClip
    BY <2>5 DEF JoinClip
  <2> QED BY <1>3, <2>1, <2>2, <2>3, <2>4, <2>5 DEF MainActions, MainContinues
<1>4. CASE UNCHANGED vars
  BY <1>0, <1>4 DEF vars, saveVars, clipVars, mainVars
<1> QED BY <1>1, <1>2, <1>3, <1>4, StepCases

LEMMA JobStep ==
  ASSUME IInv, [Next]_vars
  PROVE  JobInHand'
<1> USE DEF JobInHand
<1>0. TypeOK /\ JobInHand /\ RunsOnlyFlagged /\ NoUploadAfterStop
  BY DEF IInv
<1>1. ASSUME NEW c \in Clip, Worker(c) \/ FramesCome(c) PROVE JobInHand'
  <2>1. PICK pc \in WorkerPcs : Move(c, pc)
    BY <1>0, <1>1, WorkerMoves
  <2>2. mainPc \notin {"stopClip", "notifyClip", "joinClip", "done"}
    BY <1>0, <2>1 DEF Move, Saving, Through, NoUploadAfterStop
  <2> QED BY <1>0, <1>1, <2>2, UploadMoves DEF PushClip, StartClipThread, NotifyClip,
             clipVars, jobVars, RunsOnlyFlagged
<1>2. CASE ClipThread
  <2>1. CASE TakeClip
    <3>1. Head(clipQueue) \in Clip
      BY <1>0, <2>1 DEF TakeClip, TypeOK, ClipTypeOK
    <3> QED BY <2>1, <3>1, ClipFinite DEF TakeClip
  <2>2. CASE ~TakeClip
    BY <1>0, <1>2, <2>2 DEF ClipThread, ClipStep, LoopTop, WaitParks, WaitBlocks,
       WaitBreaks, PostClip, PauseEnds, GiveUpClip, jobVars
  <2> QED BY <2>1, <2>2
<1>3. CASE MainActions
  BY <1>0, <1>3 DEF MainActions, MainContinues, Request, Refuse, LookForThreads, Reap,
     Spawn, JoinWorkers, StopClip, StopClipFlag, NotifyStop, NotifyClip, JoinClip,
     BeginStop, Crash, MainGoto, clipVars, jobVars
<1>4. CASE UNCHANGED vars
  BY <1>0, <1>4 DEF vars, clipVars, jobVars
<1> QED BY <1>1, <1>2, <1>3, <1>4, StepCases

LEMMA SleeperStep ==
  ASSUME IInv, [Next]_vars
  PROVE  SleeperCovered'
<1> USE DEF SleeperCovered
<1>0. TypeOK /\ SleeperCovered /\ RunsOnlyFlagged /\ RequestsFresh
  BY DEF IInv
<1>1. ASSUME NEW c \in Clip, Worker(c) \/ FramesCome(c) PROVE SleeperCovered'
  <2>1. PICK pc \in WorkerPcs : Move(c, pc)
    BY <1>0, <1>1, WorkerMoves
  <2>2. \A d \in Clip : d # c => workerPc'[d] = workerPc[d]
    BY <1>0, <2>1 DEF Move, TypeOK, SavesTypeOK
  <2>3. CASE UNCHANGED clipVars /\ workerPc[c] \notin {"start", "notify"}
    BY <1>0, <2>2, <2>3 DEF clipVars
  <2>4. CASE PushClip(c) /\ Goto(c, "start")
    <3>1. workerPc'[c] = "start"
      BY <1>0, <2>4 DEF Goto, TypeOK, SavesTypeOK
    <3> QED BY <2>4, <3>1 DEF PushClip, ClipLocked
  <2>5. CASE StartClipThread /\ Goto(c, "notify")
    <3>1. workerPc'[c] = "notify"
      BY <1>0, <2>5 DEF Goto, TypeOK, SavesTypeOK
    <3> QED BY <1>0, <2>5, <3>1 DEF StartClipThread
  <2>6. CASE NotifyClip
    BY <1>0, <2>6 DEF NotifyClip
  <2> QED BY <1>1, <2>3, <2>4, <2>5, <2>6, UploadMoves
<1>2. CASE ClipThread
  BY <1>0, <1>2, ClipMoves DEF ClipThread, ClipStep, LoopTop, WaitParks, WaitBlocks,
     WaitBreaks, TakeClip, PostClip, PauseEnds, GiveUpClip, saveVars
<1>3. CASE MainActions
  <2> USE <1>0 DEF MainGoto, saveVars, clipVars
  <2>1. CASE Spawn
    <3>1. \A d \in Clip : workerPc[d] \in {"start", "notify"} => workerPc'[d] = workerPc[d]
      BY <2>1 DEF Spawn, SpawnWorker, Goto, RequestsFresh, TypeOK, SavesTypeOK
    <3> QED BY <2>1, <3>1 DEF Spawn
  <2>2. CASE NotifyStop
    BY <2>2 DEF NotifyStop, NotifyClip
  <2>3. CASE StopClip
    BY <2>3 DEF StopClip, StopClipFlag
  <2>4. CASE Crash
    BY <2>4 DEF Crash
  <2>5. CASE Request \/ Refuse \/ LookForThreads \/ Reap \/ JoinWorkers \/ JoinClip
             \/ BeginStop
    BY <2>5 DEF Request, ReserveSlot, Refuse, LookForThreads, Reap, JoinWorkers,
       JoinThreads, JoinClip, BeginStop, StopRunning
  <2> QED BY <1>3, <2>1, <2>2, <2>3, <2>4, <2>5 DEF MainActions, MainContinues
<1>4. CASE UNCHANGED vars
  BY <1>0, <1>4 DEF vars, saveVars, clipVars
<1> QED BY <1>1, <1>2, <1>3, <1>4, StepCases

LEMMA MissedStep ==
  ASSUME IInv, [Next]_vars
  PROVE  MissedInStop'
<1> USE DEF MissedInStop
<1>0. TypeOK /\ MissedInStop /\ NoUploadAfterStop
  BY DEF IInv
<1>1. ASSUME NEW c \in Clip, Worker(c) \/ FramesCome(c) PROVE MissedInStop'
  BY <1>0, <1>1 DEF Worker, FramesCome, mainVars
<1>2. CASE ClipThread
  BY <1>0, <1>2 DEF ClipThread, mainVars
<1>3. CASE MainActions /\ ~Crash
  BY <1>0, <1>3 DEF MainActions, MainContinues, Request, Refuse, LookForThreads, Reap,
     Spawn, JoinWorkers, StopClip, NotifyStop, JoinClip, BeginStop, MainGoto
<1>4. CASE Crash
  <2>1. ~missed
    BY <1>0, <1>4 DEF Crash, MaskerRace, NoUploadAfterStop
  <2> QED BY <1>4, <2>1 DEF Crash
<1>5. CASE UNCHANGED vars
  BY <1>0, <1>5 DEF vars, mainVars
<1> QED BY <1>1, <1>2, <1>3, <1>4, <1>5, StepCases
-----------------------------------------------------------------------------
LEMMA Start == Init => IInv
<1> SUFFICES ASSUME Init PROVE IInv
  OBVIOUS
<1> USE DEF Init, SavesInit, ClipInit
<1>1. TypeOK
  <2>1. <<>> \in Seq(Clip) /\ [c \in Clip |-> 0] \in [Clip -> Nat]
    OBVIOUS
  <2>2. SavesTypeOK
    BY DEF SavesTypeOK, WorkerPcs
  <2>3. ClipTypeOK
    BY <2>1 DEF ClipTypeOK, ClipPcs
  <2>4. requested \in 0..MaxClips
    BY ClipsOK
  <2>5. mainPc \in MainPcs /\ missed \in BOOLEAN
    BY DEF MainPcs
  <2> QED BY <2>2, <2>3, <2>4, <2>5 DEF TypeOK
<1>2. SlotsCounted
  <2>1. Savings = {}
    BY DEF Savings, Saving
  <2>2. Cardinality(Savings) = 0 /\ Requesting = 0
    BY <2>1, FS_EmptySet DEF Requesting
  <2> QED BY <2>2, SlotsAre, CapIsPositive
<1>3. RequestsFresh /\ ThreadsListed /\ ReapFindsFinished /\ RunsOnlyFlagged
      /\ NoUploadAfterStop /\ JobInHand /\ SleeperCovered /\ MissedInStop
  BY DEF RequestsFresh, ThreadsListed, ReapFindsFinished, RunsOnlyFlagged,
     NoUploadAfterStop, JobInHand, SleeperCovered, MissedInStop
<1> QED BY <1>1, <1>2, <1>3 DEF IInv

LEMMA Invariance == Spec => []IInv
<1>1. ASSUME IInv, [Next]_vars PROVE IInv'
  <2>1. TypeOK' /\ RequestsFresh' /\ SlotsCounted' /\ ThreadsListed' /\ ReapFindsFinished'
    BY <1>1, TypeStep, FreshStep, SlotsStep, ThreadsStep, ReapStep
  <2>2. RunsOnlyFlagged' /\ NoUploadAfterStop' /\ JobInHand' /\ SleeperCovered'
        /\ MissedInStop'
    BY <1>1, FlaggedStep, StopStep, JobStep, SleeperStep, MissedStep
  <2> QED BY <2>1, <2>2 DEF IInv
<1> QED BY <1>1, Start, PTL DEF Spec
-----------------------------------------------------------------------------
(* The variables of camera, clip thread and main thread keep their types; in *)
(* particular the unsigned save counter never goes below zero.               *)
THEOREM TypeCorrect == Spec => []TypeOK
<1>1. IInv => TypeOK
  BY DEF IInv
<1> QED BY <1>1, Invariance, PTL

(* blackbox_active_ counts the saves in progress and the request under way,  *)
(* and never exceeds the limit.                                              *)
THEOREM SlotCounterExact == Spec => []SlotsCounted
<1>1. IInv => SlotsCounted
  BY DEF IInv
<1> QED BY <1>1, Invariance, PTL

(* RequestBlackboxSave never joins a thread whose save is in progress.       *)
THEOREM ReapIsShort == Spec => []ReapFindsFinished
<1>1. IInv => ReapFindsFinished
  BY DEF IInv
<1> QED BY <1>1, Invariance, PTL

(* After camera.Stop() nobody is left to push a clip or to start the clip    *)
(* thread again, and the thread is gone when StopRetryThread returns.        *)
THEOREM StopIsFinal == Spec => []NoUploadAfterStop
<1>1. IInv => NoUploadAfterStop
  BY DEF IInv
<1> QED BY <1>1, Invariance, PTL

(* A stop that hangs because its notification was missed leaves no clip      *)
(* behind in the queue.                                                      *)
THEOREM HangLosesNoClip == Spec => []HangFindsNoClip
<1>1. ASSUME IInv PROVE HangFindsNoClip
  <2> SUFFICES ASSUME missed, clipPc \in {"park", "asleep"}
               PROVE  clipQueue = <<>> /\ job = NoClip
    BY DEF HangFindsNoClip
  <2>1. mainPc \in {"joinClip", "done"}
    BY <1>1 DEF IInv, MissedInStop
  <2>2. job = NoClip
    BY <1>1 DEF IInv, JobInHand
  <2>3. clipQueue = <<>>
    BY <1>1, <2>1 DEF IInv, SleeperCovered, NoUploadAfterStop
  <2> QED BY <2>2, <2>3
<1> QED BY <1>1, Invariance, PTL

(* With a limit of one save no two workers are in the face masker at once:   *)
(* the race of the shared masker comes with max_concurrent_saves >= 2.       *)
THEOREM OneSaveOneMasker ==
  ASSUME MaxConcurrentSaves <= 1
  PROVE  Spec => []MaskerNotShared
<1>1. ASSUME IInv PROVE MaskerNotShared
  <2>1. SaveCap = 1
    BY SavesOK DEF SaveCap
  <2>2. IsFiniteSet(Savings) /\ Cardinality(Savings) \in Nat
    BY ClipFinite DEF Savings
  <2>3. Cardinality(Savings) <= 1
    BY <1>1, <2>1, <2>2, SlotsAre DEF IInv, Requesting, TypeOK, SavesTypeOK
  <2>4. Savings = {} \/ \E c : Savings = {c}
    BY <2>2, <2>3, FS_EmptySet, FS_Singleton
  <2>5. \A c \in Clip : Applying(c) => c \in Savings
    BY DEF Applying, Savings, Saving, Through
  <2> QED BY <2>4, <2>5 DEF MaskerNotShared
<1> QED BY <1>1, Invariance, PTL
-----------------------------------------------------------------------------
(* --- where a saved clip is ----------------------------------------------- *)

(* A clip is saved by its worker's last write, and once. *)
SavedOnce ==
  ~Crashed => \A c \in Clip :
    /\ workerPc[c] \in {"idle", "wait", "mask", "make", "probe", "write"} =>
         c \notin saved
    /\ workerPc[c] = "upload" => c \in saved

(* The camera runs only before the stop. *)
RunsBeforeStop == running => ~Stopping

InHand == {job} \ {NoClip}
Distinct ==
  \A i, j \in 1..Len(clipQueue) : clipQueue[i] = clipQueue[j] => i = j

(* Every clip handed over has one place, and its failed posts are those of  *)
(* this place: none before its turn, the rounds of the loop in hand.        *)
Placed ==
  /\ HandedOver = Queued \cup uploaded \cup givenUp \cup InHand
  /\ Queued \cap (uploaded \cup givenUp \cup InHand) = {}
  /\ InHand \cap (uploaded \cup givenUp) = {}
  /\ givenUp \cap uploaded = {}
  /\ Distinct

Tried ==
  /\ \A c \in Clip : /\ failed[c] <= Attempts
                     /\ c \in Queued \/ c \notin HandedOver => failed[c] = 0
  /\ job # NoClip => failed[job] = attempt
  /\ running => \A c \in givenUp : failed[c] = Attempts

Account == clipUpload /\ ~Crashed => Placed /\ Tried

AInv == SavedOnce /\ RunsBeforeStop /\ Account

(* Pushing a clip that does not wait and taking the first one keep each     *)
(* waiting clip in the queue once.                                          *)
LEMMA QueuePushed ==
  ASSUME clipQueue \in Seq(Clip), Distinct, NEW c \in Clip, c \notin Queued,
         clipQueue' = Append(clipQueue, c)
  PROVE  Distinct' /\ Queued' = Queued \cup {c}
<1>1. /\ Len(clipQueue) \in Nat
      /\ Len(clipQueue') = Len(clipQueue) + 1
      /\ DOMAIN clipQueue = 1..Len(clipQueue)
      /\ DOMAIN clipQueue' = 1..(Len(clipQueue) + 1)
      /\ \A i \in 1..Len(clipQueue) : clipQueue'[i] = clipQueue[i]
      /\ clipQueue'[Len(clipQueue) + 1] = c
  OBVIOUS
<1>2. \A i \in 1..Len(clipQueue) : clipQueue[i] # c
  BY <1>1 DEF Queued
<1> QED BY <1>1, <1>2 DEF Distinct, Queued

LEMMA QueueTaken ==
  ASSUME clipQueue \in Seq(Clip), clipQueue # <<>>, Distinct,
         clipQueue' = Tail(clipQueue)
  PROVE  /\ Distinct'
         /\ Head(clipQueue) \in Clip
         /\ Head(clipQueue) \in Queued
         /\ Queued' = Queued \ {Head(clipQueue)}
<1>1. /\ Len(clipQueue) \in Nat /\ Len(clipQueue) > 0
      /\ DOMAIN clipQueue = 1..Len(clipQueue)
      /\ DOMAIN clipQueue' = 1..(Len(clipQueue) - 1)
      /\ Head(clipQueue) = clipQueue[1] /\ Head(clipQueue) \in Clip
  OBVIOUS
<1>2. /\ Len(clipQueue') = Len(clipQueue) - 1
      /\ \A i \in 1..Len(clipQueue) - 1 : clipQueue'[i] = clipQueue[i + 1]
  BY <1>1
<1>3. Distinct'
  BY <1>1, <1>2 DEF Distinct
<1>4. Head(clipQueue) \notin Queued'
  BY <1>1, <1>2 DEF Queued, Distinct
<1>5. \A i \in 2..Len(clipQueue) : i - 1 \in 1..(Len(clipQueue) - 1)
                                   /\ clipQueue[i] = clipQueue'[i - 1]
  BY <1>1, <1>2
<1>6. Queued = {Head(clipQueue)} \cup Queued'
  <2>1. \A i \in 1..Len(clipQueue) : i = 1 \/ i \in 2..Len(clipQueue)
    BY <1>1
  <2>2. Queued \subseteq {Head(clipQueue)} \cup Queued'
    BY <1>1, <1>5, <2>1 DEF Queued
  <2>3. \A i \in 1..(Len(clipQueue) - 1) : i + 1 \in 1..Len(clipQueue)
    BY <1>1
  <2>4. Queued' \subseteq Queued
    BY <1>1, <1>2, <2>3 DEF Queued
  <2>5. Head(clipQueue) \in Queued
    BY <1>1 DEF Queued
  <2> QED BY <2>2, <2>4, <2>5
<1> QED BY <1>1, <1>3, <1>4, <1>6

(* A queue that holds each clip once is as long as the set of its clips is  *)
(* large.                                                                   *)
LEMMA QueueCounted ==
  ASSUME clipQueue \in Seq(Clip), Distinct
  PROVE  Len(clipQueue) = Cardinality(Queued)
<1>1. Len(clipQueue) \in Nat /\ DOMAIN clipQueue = 1..Len(clipQueue)
  OBVIOUS
<1>2. clipQueue \in Bijection(1..Len(clipQueue), Queued)
  BY <1>1 DEF Distinct, Queued, Bijection, Injection, IsInjective, Surjection
<1>3. ExistsBijection(1..Len(clipQueue), Queued)
  BY <1>2 DEF ExistsBijection
<1> QED BY <1>1, <1>3, FS_CountingElements

(* Most steps leave every clip where it is. *)
LEMMA AccountKept ==
  ASSUME Account,
         UNCHANGED <<clipUpload, clipQueue, jobVars>>, running' => running,
         ~Crashed, HandedOver' = HandedOver
  PROVE  Account'
<1>1. Queued' = Queued /\ InHand' = InHand
  BY DEF Queued, InHand, jobVars
<1>2. Placed => Placed'
  BY <1>1 DEF Placed, Distinct, jobVars
<1>3. Tried => Tried'
  BY <1>1 DEF Tried, Attempts, jobVars
<1> QED BY <1>2, <1>3 DEF Account

(* A worker saves its clip in its last write and hands it over in           *)
(* UploadPush; no other step of it moves a clip.                            *)
LEMMA WorkerAccounts ==
  ASSUME IInv, AInv, ~Crashed, NEW c \in Clip, Worker(c) \/ FramesCome(c)
  PROVE  SavedOnce' /\ Account'
<1>1. /\ workerPc \in [Clip -> WorkerPcs] /\ saved \subseteq Clip
      /\ clipQueue \in Seq(Clip)
  BY DEF IInv, TypeOK, SavesTypeOK, ClipTypeOK
<1>2. UNCHANGED <<mainVars, running, clipUpload, jobVars>> /\ ~Crashed'
  BY DEF Worker, FramesCome, SaveStep, WaitFramesCame, WaitTimesOut,
     WaitStopped, EndWait, LookForMasker, MakeMasker, ProbeMasker, WriteFrames,
     CountDown, WorkerEnds, UploadOff, UploadPush, UploadStart, UploadNotify,
     SavedStep, PushClip, StartClipThread, NotifyClip, clipVars, mainVars,
     Crashed
<1>3. CASE UploadPush(c)
  <2>1. /\ workerPc[c] = "upload"
        /\ workerPc' = [workerPc EXCEPT ![c] = "start"]
        /\ saved' = saved /\ clipUpload /\ clipQueue' = Append(clipQueue, c)
    BY <1>3 DEF UploadPush, PushClip, SavedStep, Goto
  <2>2. SavedOnce'
    BY <1>1, <1>2, <2>1 DEF AInv, SavedOnce
  <2>3. c \in saved /\ c \notin HandedOver
    BY <2>1 DEF AInv, SavedOnce, HandedOver
  <2>4. HandedOver' = HandedOver \cup {c}
    BY <1>1, <2>1, <2>3 DEF HandedOver
  <2>5. Placed /\ Tried
    BY <2>1 DEF AInv, Account
  <2>6. /\ c \notin Queued /\ c \notin uploaded /\ c \notin givenUp
        /\ c \notin InHand
    BY <2>3, <2>5 DEF Placed
  <2>7. Distinct' /\ Queued' = Queued \cup {c}
    BY <1>1, <2>1, <2>5, <2>6, QueuePushed DEF Placed
  <2>8. UNCHANGED <<uploaded, givenUp, InHand, failed, job, attempt, running>>
    BY <1>2 DEF jobVars, InHand
  <2>9. Placed'
    BY <2>4, <2>5, <2>6, <2>7, <2>8 DEF Placed
  <2>10. failed[c] = 0
    BY <2>3, <2>5 DEF Tried
  <2>11. Tried'
    BY <2>4, <2>5, <2>7, <2>8, <2>10 DEF Tried, Attempts
  <2> QED BY <2>2, <2>9, <2>11 DEF Account
<1>4. CASE \E some \in BOOLEAN : WriteFrames(c, some)
  <2>1. PICK some \in BOOLEAN : WriteFrames(c, some)
    BY <1>4
  <2>2. /\ workerPc[c] = "write" /\ UNCHANGED clipVars
        /\ saved' = IF some THEN saved \cup {c} ELSE saved
        /\ workerPc' = [workerPc EXCEPT ![c] =
                           IF some THEN "upload" ELSE "count"]
    BY <2>1 DEF WriteFrames, Goto, Worker, UploadOff, UploadPush, UploadStart,
       UploadNotify, FramesCome, WaitFramesCame, EndWait
  <2>3. c \notin saved
    BY <2>2 DEF AInv, SavedOnce
  <2>4. SavedOnce'
    BY <1>1, <1>2, <2>2, <2>3 DEF AInv, SavedOnce
  <2>5. HandedOver' = HandedOver
    BY <1>1, <2>2, <2>3 DEF HandedOver
  <2> QED BY <1>2, <2>2, <2>4, <2>5, AccountKept DEF AInv, clipVars
<1>5. CASE ~UploadPush(c) /\ ~ \E some \in BOOLEAN : WriteFrames(c, some)
  <2>1. /\ saved' = saved /\ clipQueue' = clipQueue
        /\ \E pc \in WorkerPcs \ {"upload"} :
             workerPc' = [workerPc EXCEPT ![c] = pc]
             /\ (pc \in {"idle", "wait", "mask", "make", "probe", "write"} =>
                   workerPc[c] \in {"wait", "mask", "make", "probe"})
             /\ (workerPc[c] = "upload" => ~clipUpload)
    BY <1>5 DEF Worker, FramesCome, SaveStep, WaitFramesCame, WaitTimesOut,
       WaitStopped, EndWait, LookForMasker, MakeMasker, ProbeMasker, CountDown,
       WorkerEnds, UploadOff, UploadStart, UploadNotify, SavedStep,
       StartClipThread, NotifyClip, clipVars, Goto, FreeSlot, WorkerPcs
  <2>2. SavedOnce'
    BY <1>1, <1>2, <2>1 DEF AInv, SavedOnce
  <2>3. clipUpload => HandedOver' = HandedOver
    BY <1>1, <2>1 DEF HandedOver
  <2>4. Account'
    <3>1. CASE clipUpload
      BY <1>2, <2>1, <2>3, <3>1, AccountKept DEF AInv
    <3>2. CASE ~clipUpload
      BY <1>2, <3>2 DEF Account
    <3> QED BY <3>1, <3>2
  <2> QED BY <2>2, <2>4
<1> QED BY <1>3, <1>4, <1>5

(* The clip thread: a clip is taken, posted, or given up.                   *)
LEMMA ClipAccounts ==
  ASSUME IInv, AInv, ~Crashed, ClipThread
  PROVE  SavedOnce' /\ Account'
<1>1. /\ clipQueue \in Seq(Clip) /\ job \in Clip \cup {NoClip}
      /\ attempt \in Nat
      /\ failed \in [Clip -> Nat] /\ Attempts \in Nat /\ Attempts > 0
      /\ NoClip \notin Clip /\ uploaded \subseteq Clip /\ givenUp \subseteq Clip
  BY ClipFinite, RetriesOK DEF IInv, TypeOK, ClipTypeOK, Attempts
<1>2. UNCHANGED <<saveVars, mainVars>> /\ UNCHANGED clipUpload
  BY DEF ClipThread, ClipStep, LoopTop, WaitParks, WaitBlocks, WaitBreaks,
     TakeClip, PostClip, PauseEnds, GiveUpClip
<1>3. SavedOnce' /\ ~Crashed' /\ HandedOver' = HandedOver
  BY <1>2 DEF AInv, SavedOnce, Crashed, HandedOver, saveVars, mainVars
<1>4. SUFFICES ASSUME clipUpload, Placed, Tried
      PROVE  Account'
  BY <1>2, <1>3 DEF AInv, Account
<1>5. UNCHANGED running
  BY <1>2 DEF saveVars
<1>6. CASE TakeClip
  <2>1. /\ clipPc = "eval" /\ clipQueue # <<>> /\ clipQueue' = Tail(clipQueue)
        /\ job' = Head(clipQueue) /\ attempt' = 0
        /\ UNCHANGED <<failed, uploaded, givenUp>>
    BY <1>6 DEF TakeClip
  <2>2. job = NoClip
    BY <2>1 DEF IInv, JobInHand
  <2>3. /\ Distinct' /\ job' \in Clip /\ job' \in Queued
        /\ Queued' = Queued \ {job'}
    BY <1>1, <1>4, <2>1, QueueTaken DEF Placed
  <2>4. InHand = {} /\ InHand' = {job'}
    BY <1>1, <2>2, <2>3 DEF InHand
  <2>5. Placed'
    BY <1>3, <1>4, <2>1, <2>3, <2>4 DEF Placed
  <2>6. Tried'
    BY <1>3, <1>4, <1>5, <2>1, <2>3 DEF Tried, Attempts
  <2> QED BY <2>5, <2>6 DEF Account
<1>7. ASSUME NEW ok \in BOOLEAN, PostClip(ok)
      PROVE  Account'
  <2>1. /\ clipPc = "attempt" /\ attempt < Attempts
        /\ UNCHANGED <<clipQueue, givenUp>>
    BY <1>7 DEF PostClip, MayTry
  <2>2. job \in Clip /\ InHand = {job}
    BY <1>1, <2>1 DEF IInv, JobInHand, InHand
  <2>3. Queued' = Queued /\ Distinct' /\ job \in HandedOver
    BY <1>4, <2>1, <2>2 DEF Queued, Placed, Distinct
  <2>4. job \notin Queued /\ job \notin givenUp /\ job \notin uploaded
        /\ failed[job] = attempt
    BY <1>1, <1>4, <2>2 DEF Placed, Tried
  <2>5. CASE ok
    <3>1. /\ uploaded' = uploaded \cup {job} /\ job' = NoClip
          /\ failed' = [failed EXCEPT ![job] = 0]
      BY <1>7, <2>5 DEF PostClip
    <3>2. InHand' = {}
      BY <3>1 DEF InHand
    <3>3. Placed'
      BY <1>3, <1>4, <2>1, <2>2, <2>3, <2>4, <3>1, <3>2 DEF Placed
    <3>4. Tried'
      BY <1>1, <1>3, <1>4, <1>5, <2>1, <2>2, <2>3, <2>4, <3>1
         DEF Tried, Attempts
    <3> QED BY <3>3, <3>4 DEF Account
  <2>6. CASE ~ok
    <3>1. /\ failed' = [failed EXCEPT ![job] = @ + 1] /\ attempt' = attempt + 1
          /\ UNCHANGED <<uploaded, job>>
      BY <1>7, <2>6 DEF PostClip
    <3>2. InHand' = InHand
      BY <3>1 DEF InHand
    <3>3. Placed'
      BY <1>3, <1>4, <2>1, <2>3, <3>1, <3>2 DEF Placed
    <3>4. /\ failed'[job] = attempt' /\ attempt' <= Attempts
          /\ \A c \in Clip \ {job} : failed'[c] = failed[c]
      BY <1>1, <2>1, <2>2, <2>4, <3>1
    <3>5. Tried'
      BY <1>1, <1>3, <1>4, <1>5, <2>1, <2>2, <2>3, <2>4, <3>1, <3>4
         DEF Tried, Attempts
    <3> QED BY <3>3, <3>5 DEF Account
  <2> QED BY <2>5, <2>6
<1>8. CASE GiveUpClip
  <2>1. /\ clipPc = "attempt" /\ ~(attempt < Attempts /\ clipRunning)
        /\ givenUp' = givenUp \cup {job} /\ job' = NoClip
        /\ UNCHANGED <<clipQueue, attempt, failed, uploaded>>
    BY <1>8 DEF GiveUpClip, MayTry
  <2>2. job \in Clip /\ InHand = {job} /\ InHand' = {}
    BY <1>1, <2>1 DEF IInv, JobInHand, InHand
  <2>3. Queued' = Queued /\ Distinct' /\ failed[job] = attempt
    BY <1>1, <1>4, <2>1, <2>2 DEF Queued, Placed, Distinct, Tried
  <2>4. Placed'
    BY <1>3, <1>4, <2>1, <2>2, <2>3 DEF Placed
  <2>5. running => failed[job] = Attempts
    <3>1. running => clipRunning
      BY <2>1 DEF AInv, RunsBeforeStop, Stopping, IInv, RunsOnlyFlagged
    <3>2. failed[job] <= Attempts
      BY <1>4, <2>2 DEF Tried
    <3> QED BY <1>1, <2>1, <2>3, <3>1, <3>2
  <2>6. Tried'
    BY <1>3, <1>4, <1>5, <2>1, <2>3, <2>5 DEF Tried, Attempts
  <2> QED BY <2>4, <2>6 DEF Account
<1>9. CASE ~TakeClip /\ ~GiveUpClip /\ ~ \E ok \in BOOLEAN : PostClip(ok)
  <2>1. UNCHANGED <<clipQueue, jobVars>>
    BY <1>9 DEF ClipThread, ClipStep, LoopTop, WaitParks, WaitBlocks,
       WaitBreaks, PauseEnds
  <2> QED BY <1>2, <1>3, <1>5, <2>1, AccountKept DEF AInv
<1> QED BY <1>6, <1>7, <1>8, <1>9

(* The main thread moves no clip; a crash ends the account.                 *)
LEMMA MainAccounts ==
  ASSUME IInv, AInv, ~Crashed, MainActions
  PROVE  SavedOnce' /\ Account'
<1>1. CASE Crash
  BY <1>1 DEF Crash, Crashed, SavedOnce, Account
<1>2. CASE Spawn
  <2>1. /\ requested \in Clip /\ workerPc[requested] = "idle"
        /\ workerPc' = [workerPc EXCEPT ![requested] = "wait"]
        /\ workerPc \in [Clip -> WorkerPcs] /\ saved \subseteq Clip
    BY <1>2 DEF Spawn, SpawnWorker, Goto, IInv, RequestsFresh, TypeOK,
       SavesTypeOK
  <2>2. UNCHANGED <<saved, running, clipVars>>
    BY <1>2 DEF Spawn, SpawnWorker
  <2>3. SavedOnce' /\ HandedOver' = HandedOver
    BY <2>1, <2>2 DEF AInv, SavedOnce, HandedOver
  <2> QED BY <2>2, <2>3, AccountKept DEF AInv, clipVars
<1>3. CASE ~Crash /\ ~Spawn /\ MainActions
  <2>1. /\ UNCHANGED <<workerPc, saved, clipUpload, clipQueue, jobVars>>
        /\ running' => running
    BY <1>3 DEF MainActions, MainContinues, Request, Refuse, ReserveSlot,
       LookForThreads, Reap, JoinThreads, JoinWorkers, BeginStop, StopRunning,
       StopClip, StopClipFlag, NotifyStop, NotifyClip, JoinClip, clipVars,
       saveVars
  <2>2. SavedOnce' /\ HandedOver' = HandedOver
    BY <2>1 DEF AInv, SavedOnce, HandedOver
  <2> QED BY <2>1, <2>2, AccountKept DEF AInv
<1> QED BY <1>1, <1>2, <1>3

LEMMA AccountStep == IInv /\ AInv /\ [Next]_vars => AInv'
<1> SUFFICES ASSUME IInv, AInv, [Next]_vars
             PROVE  AInv'
  OBVIOUS
<1>1. CASE UNCHANGED vars
  <2>1. UNCHANGED <<workerPc, saved, running, clipUpload, clipQueue, jobVars,
                    mainPc>>
    BY <1>1 DEF vars, saveVars, clipVars, mainVars
  <2>2. SavedOnce' /\ RunsBeforeStop' /\ HandedOver' = HandedOver
    BY <2>1 DEF AInv, SavedOnce, RunsBeforeStop, Stopping, HandedOver, Crashed
  <2>3. Crashed => Account'
    BY <2>1 DEF Account, Crashed
  <2>4. ~Crashed => Account'
    BY <2>1, <2>2, AccountKept DEF AInv
  <2>5. Account'
    BY <2>3, <2>4
  <2> QED BY <2>2, <2>5 DEF AInv
<1>2. CASE Next
  <2>1. ~Crashed
    BY <1>2 DEF Next
  <2>2. RunsBeforeStop'
    <3>1. CASE MainActions
      BY <3>1 DEF AInv, RunsBeforeStop, Stopping, MainActions, MainContinues,
         Request, Refuse, ReserveSlot, LookForThreads, Reap, JoinThreads, Spawn,
         SpawnWorker, JoinWorkers, BeginStop, StopRunning, StopClip, NotifyStop,
         JoinClip, Crash, MainGoto, saveVars
    <3>2. CASE ClipThread
      BY <3>2 DEF AInv, RunsBeforeStop, Stopping, ClipThread, saveVars, mainVars
    <3>3. ASSUME NEW c \in Clip, Worker(c) \/ FramesCome(c)
          PROVE  RunsBeforeStop'
      <4>1. PICK pc \in WorkerPcs : Move(c, pc)
        BY <3>3, WorkerMoves DEF IInv
      <4> QED BY <4>1 DEF Move, AInv, RunsBeforeStop, Stopping, mainVars
    <3> QED BY <1>2, <3>1, <3>2, <3>3 DEF Next, MainActions
  <2>3. SavedOnce' /\ Account'
    BY <1>2, <2>1, WorkerAccounts, ClipAccounts, MainAccounts
       DEF Next, MainActions
  <2> QED BY <2>2, <2>3 DEF AInv
<1> QED BY <1>1, <1>2

LEMMA AccountStart == Init => AInv
<1> SUFFICES ASSUME Init PROVE AInv
  OBVIOUS
<1>1. /\ saved = {} /\ clipQueue = <<>> /\ job = NoClip /\ uploaded = {}
      /\ givenUp = {} /\ failed = [c \in Clip |-> 0] /\ mainPc = "loop"
      /\ workerPc = [c \in Clip |-> "idle"]
  BY DEF Init, SavesInit, ClipInit
<1>2. HandedOver = {} /\ Queued = {} /\ InHand = {} /\ Distinct
  BY <1>1 DEF HandedOver, Queued, InHand, Distinct
<1>3. Placed
  BY <1>1, <1>2 DEF Placed
<1>4. Tried
  BY <1>1, RetriesOK DEF Tried, Attempts
<1> QED BY <1>1, <1>3, <1>4
    DEF AInv, SavedOnce, RunsBeforeStop, Stopping, Account

(* Wherever the workers, the clip thread and the stop interleave, a clip    *)
(* that was handed over waits, is posted, is uploaded or is given up: it is *)
(* in one of these places only, is never posted more often than configured, *)
(* and while the camera runs is given up only after all its rounds.         *)
THEOREM ClipsAreAccounted == Spec => []ClipsAccounted
<1>1. IInv /\ AInv => ClipsAccounted
  <2> SUFFICES ASSUME IInv, AInv, clipUpload, ~Crashed
               PROVE  ClipsAccounted
    BY DEF ClipsAccounted
  <2>1. Placed /\ Tried
    BY DEF AInv, Account
  <2>2. Len(clipQueue) = Cardinality(Queued)
    BY <2>1, QueueCounted DEF Placed, IInv, TypeOK, ClipTypeOK
  <2>3. NoClip \notin Queued
    BY ClipFinite DEF Queued, IInv, TypeOK, ClipTypeOK
  <2>4. NoClip \notin uploaded \cup givenUp
    BY ClipFinite DEF IInv, TypeOK, ClipTypeOK
  <2> QED BY <2>1, <2>2, <2>3, <2>4 DEF ClipsAccounted, Placed, Tried, InHand
<1>2. Spec => []AInv
  BY AccountStart, AccountStep, Invariance, PTL DEF Spec
<1> QED BY <1>1, <1>2, Invariance, PTL
=============================================================================
