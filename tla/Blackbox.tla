------------------------------ MODULE Blackbox ------------------------------
(***************************************************************************)
(* The evidence clips from the request to the server: the main thread of   *)
(* main.cpp requests saves and shuts the program down, the save workers of *)
(* CameraModule (BlackboxSaves) call EventNotifier's UploadClip            *)
(* (ClipUpload) from their own threads.                                    *)
(*                                                                         *)
(* The workers use one FaceMasker without a lock.  What two of them do to  *)
(* it at once is undefined: here either nothing comes of it, or the        *)
(* process crashes (and nothing after the crash is modelled: clips on the  *)
(* disk are not looked at again by the next process).                      *)
(***************************************************************************)
EXTENDS BlackboxSaves, ClipUpload

VARIABLES
  mainPc,    \* where the main thread is, as far as clips are concerned
  requested, \* the requests made so far; the last one may be under way
  missed     \* history: the stop's notify fell between predicate and block

mainVars == <<mainPc, requested, missed>>
vars == <<saveVars, clipVars, mainVars>>

MainPcs == {"loop", "reserved", "reap", "spawn",
            "joinWorkers", "stopClip", "notifyClip", "joinClip", "done", "crashed"}

TypeOK ==
  /\ SavesTypeOK
  /\ ClipTypeOK
  /\ mainPc \in MainPcs
  /\ requested \in 0..MaxClips
  /\ missed \in BOOLEAN

Init ==
  /\ SavesInit
  /\ ClipInit
  /\ mainPc = "loop"
  /\ requested = 0
  /\ missed = FALSE

MainGoto(pc) == mainPc' = pc /\ UNCHANGED <<requested, missed>>

-----------------------------------------------------------------------------
(* Mutants: an operator named after a definition and a fault is that       *)
(* definition with the fault; no specification uses it.                    *)

(* Stop does not join the workers *)
JoinWorkersNever ==
  /\ mainPc = "joinWorkers"
  /\ MainGoto("stopClip")
  /\ UNCHANGED <<saveVars, clipVars>>

-----------------------------------------------------------------------------
(* The main loop: an intrusion or a dumping asks for a clip *)

Request ==
  /\ mainPc = "loop"
  /\ requested < MaxClips
  /\ requested' = requested + 1
  /\ ReserveSlot
  /\ mainPc' = "reserved"
  /\ UNCHANGED <<clipVars, missed>>

(* not running, or the limit is reached: return false *)
Refuse ==
  /\ mainPc = "loop"
  /\ requested < MaxClips
  /\ requested' = requested + 1
  /\ ~running \/ active >= SaveCap
  /\ UNCHANGED <<saveVars, clipVars, mainPc, missed>>

LookForThreads ==
  /\ mainPc = "reserved"
  /\ MainGoto(IF MustReap THEN "reap" ELSE "spawn")
  /\ UNCHANGED <<saveVars, clipVars>>

Reap ==
  /\ mainPc = "reap"
  /\ JoinThreads
  /\ MainGoto("spawn")
  /\ UNCHANGED clipVars

Spawn ==
  /\ mainPc = "spawn"
  /\ SpawnWorker(requested)
  /\ MainGoto("loop")
  /\ UNCHANGED clipVars

-----------------------------------------------------------------------------
(* The shutdown: camera.Stop(), then notifier.StopRetryThread() *)

BeginStop ==
  /\ mainPc = "loop"
  /\ StopRunning
  /\ MainGoto("joinWorkers")
  /\ UNCHANGED clipVars

JoinWorkers ==
  /\ mainPc = "joinWorkers"
  /\ JoinThreads
  /\ MainGoto("stopClip")
  /\ UNCHANGED clipVars

(* if (clip_running_) clip_running_ = false *)
StopClip ==
  /\ mainPc = "stopClip"
  /\ IF clipRunning
       THEN StopClipFlag /\ MainGoto("notifyClip")
       ELSE UNCHANGED clipVars /\ MainGoto("done")
  /\ UNCHANGED saveVars

NotifyStop ==
  /\ mainPc = "notifyClip"
  /\ NotifyClip
  /\ missed' = (clipPc = "park")
  /\ mainPc' = "joinClip"
  /\ UNCHANGED <<saveVars, requested>>

JoinClip ==
  /\ mainPc = "joinClip"
  /\ clipPc = "ended"
  /\ MainGoto("done")
  /\ UNCHANGED <<saveVars, clipVars>>

MainContinues ==
  \/ LookForThreads
  \/ Reap
  \/ Spawn
  \/ JoinWorkers
  \/ StopClip
  \/ NotifyStop
  \/ JoinClip

(* from running_ = false on *)
Stopping == mainPc \in {"joinWorkers", "stopClip", "notifyClip", "joinClip", "done"}

-----------------------------------------------------------------------------
(* The callback: UploadClip in the worker's thread *)

SavedStep(c, pc) == Goto(c, pc) /\ UNCHANGED <<running, active, threads, masker, saved>>

UploadOff(c) ==
  /\ workerPc[c] = "upload"
  /\ ~clipUpload
  /\ SavedStep(c, "count")
  /\ UNCHANGED clipVars

UploadPush(c) ==
  /\ workerPc[c] = "upload"
  /\ clipUpload
  /\ PushClip(c)
  /\ SavedStep(c, "start")

UploadStart(c) ==
  /\ workerPc[c] = "start"
  /\ StartClipThread
  /\ SavedStep(c, "notify")

UploadNotify(c) ==
  /\ workerPc[c] = "notify"
  /\ NotifyClip
  /\ SavedStep(c, "count")

Worker(c) ==
  /\ \/ SaveStep(c) /\ UNCHANGED clipVars
     \/ UploadOff(c)
     \/ UploadPush(c)
     \/ UploadStart(c)
     \/ UploadNotify(c)
  /\ UNCHANGED mainVars

FramesCome(c) == WaitFramesCame(c) /\ UNCHANGED <<clipVars, mainVars>>

-----------------------------------------------------------------------------
Crashed == mainPc = "crashed"

(* the process is gone, with its memory; what is on the disk and on the
   server stays *)
Crash ==
  /\ MaskerRace
  /\ mainPc' = "crashed"
  /\ workerPc' = [c \in Clip |-> "idle"]
  /\ clipPc' = "none"
  /\ running' = FALSE
  /\ clipRunning' = FALSE
  /\ masker' = FALSE
  /\ active' = 0
  /\ threads' = {}
  /\ clipQueue' = <<>>
  /\ job' = NoClip
  /\ attempt' = 0
  /\ failed' = [c \in Clip |-> 0]
  /\ UNCHANGED <<saved, clipUpload, uploaded, givenUp, requested,
                 missed>>

ClipThread == ClipStep /\ UNCHANGED <<saveVars, mainVars>>

Next ==
  /\ ~Crashed
  /\ \/ Request
     \/ Refuse
     \/ \E c \in Clip : Worker(c) \/ FramesCome(c)
     \/ MainContinues
     \/ BeginStop
     \/ ClipThread
     \/ Crash

Spec == Init /\ [][Next]_vars

(* Threads are scheduled, every wait of the worker ends three seconds after
   its window, posts end by their time-out.  Requests, the camera, the stop
   and the crash are not fair. *)
FairSpec ==
  /\ Spec
  /\ WF_vars(~Crashed /\ MainContinues)
  /\ WF_vars(~Crashed /\ ClipThread)
  /\ \A c \in Clip : WF_vars(~Crashed /\ Worker(c))

-----------------------------------------------------------------------------
(* Properties *)

(* The save counter is exact: it counts the workers before their decrement
   and the request being made, whatever exit each worker took, and it never
   exceeds the limit (camera_module.cpp:323-327 and the five decrements). *)
SlotsCounted ==
  /\ active = Cardinality({c \in Clip : Saving(c)})
              + (IF mainPc \in {"reserved", "reap", "spawn"} THEN 1 ELSE 0)
  /\ active <= SaveCap

(* When the main loop joins the threads of earlier saves, all of them are
   past their last statement: the frame loop never waits for a save in
   progress (camera_module.cpp:339-346). *)
ReapFindsFinished == mainPc = "reap" => \A c \in threads : Through(c)

(* Once StopRetryThread looks at the clip thread, no save worker is alive
   that could push a clip or start the thread again, and the thread has
   ended when the stop is over (main.cpp:714-715). *)
NoUploadAfterStop ==
  /\ mainPc \in {"stopClip", "notifyClip", "joinClip", "done"} =>
       \A c \in Clip : workerPc[c] \in {"idle", "ended"}
  /\ mainPc \in {"notifyClip", "joinClip", "done"} => ~clipRunning
  /\ mainPc = "done" => clipPc \in {"none", "ended"}

(* Every saved clip handed to the clip thread is in one place: waiting, in
   hand, uploaded or given up (event_notifier.cpp:418-445).  Before the stop
   it is given up only after it failed as often as the configuration says,
   and no clip is posted more often, however the clips follow one another
   (event_notifier.cpp:445-468). *)
Queued == {clipQueue[i] : i \in DOMAIN clipQueue}
HandedOver == {c \in saved : workerPc[c] # "upload"}
ClipsAccounted ==
  clipUpload /\ ~Crashed =>
    /\ HandedOver = Queued \cup uploaded \cup givenUp \cup ({job} \ {NoClip})
    /\ Len(clipQueue) = Cardinality(Queued)
    /\ Queued \cap (uploaded \cup givenUp \cup {job}) = {}
    /\ job \notin uploaded \cup givenUp
    /\ givenUp \cap uploaded = {}
    /\ \A c \in Clip : failed[c] <= Attempts
    /\ running => \A c \in givenUp : failed[c] = Attempts

(* When the stop's notify is missed and the program hangs in its last join,
   no clip is left in the queue: the hang costs the exit, not evidence
   (event_notifier.cpp:432-437, 796-799). *)
HangFindsNoClip ==
  missed /\ clipPc \in {"park", "asleep"} => clipQueue = <<>> /\ job = NoClip

(* The black box never refuses clips for good: a slot is free again and again,
   also when the camera freezes and the frames that the workers wait for
   never come (camera_module.cpp:367-374). *)
SlotFreeAgain == []<>(active < SaveCap \/ Crashed)

(* Every saved clip is uploaded or given up, unless the program stops or
   crashes before: no push goes unnoticed (event_notifier.cpp:418-427). *)
ClipsResolved ==
  \A c \in Clip :
    (c \in saved /\ clipUpload) ~>
       (c \in uploaded \cup givenUp \/ Stopping \/ Crashed)

(* The shutdown ends, unless its notify falls between the clip thread's
   predicate and its block (main.cpp:714-715, event_notifier.cpp:795-800). *)
StopEndsOrNotifyMissed ==
  mainPc = "joinWorkers" ~> (mainPc = "done" \/ missed \/ Crashed)

(* What the header says of the masker: "the detector is not thread-safe" and
   the save worker has one of its own (camera_module.h:176,
   camera_module.cpp:410-411): two workers are never in it at once. *)
MaskerNotShared ==
  \A c, d \in Clip : Applying(c) /\ Applying(d) => c = d
=============================================================================
