---------------------------- MODULE BlackboxSaves ----------------------------
(***************************************************************************)
(* The black box saves of CameraModule (camera_module.cpp): the main loop  *)
(* reserves one of a few save slots and starts a worker thread per clip;   *)
(* the worker waits for the frames after the event, masks faces with a     *)
(* masker that all workers share, writes the file, and calls back.         *)
(*                                                                         *)
(* The frame ring is the environment: frames may come or stay away, and a  *)
(* worker finds frames of its window or finds none.                        *)
(* The steps of a worker are cut where it touches what others see: the     *)
(* running flag, the masker, the slot counter.  blackbox_thread_mutex_ is  *)
(* taken by the main thread alone.                                         *)
(***************************************************************************)
EXTENDS Naturals, FiniteSets, Clips

CONSTANT
  MaxConcurrentSaves   \* blackbox_.max_concurrent_saves (default 2); 0 acts as 1

ASSUME SavesOK == MaxConcurrentSaves \in Nat

VARIABLES
  running,   \* running_
  active,    \* blackbox_active_
  threads,   \* blackbox_threads_: the clips of the threads not joined yet
  workerPc,  \* per clip, where its BlackboxSaveWorker is
  masker,    \* blackbox_masker_ has been created
  saved      \* history: the clips written with at least one frame

saveVars == <<running, active, threads, workerPc, masker, saved>>

(* "wait" .. "write" as in the code; "upload", "start", "notify": inside the
   callback; "count": before the last decrement; "leaving": after it *)
WorkerPcs == {"idle", "wait", "mask", "make", "probe", "write",
              "upload", "start", "notify", "count", "leaving", "ended"}

SavesTypeOK ==
  /\ running \in BOOLEAN
  /\ active \in Nat
  /\ threads \in SUBSET Clip
  /\ workerPc \in [Clip -> WorkerPcs]
  /\ masker \in BOOLEAN
  /\ saved \in SUBSET Clip

(* Start() may have failed: running_ stays false *)
SavesInit ==
  /\ running \in BOOLEAN
  /\ active = 0
  /\ threads = {}
  /\ workerPc = [c \in Clip |-> "idle"]
  /\ masker = FALSE
  /\ saved = {}

(* std::max(1u, blackbox_.max_concurrent_saves) *)
SaveCap == IF MaxConcurrentSaves > 1 THEN MaxConcurrentSaves ELSE 1

(* the thread function has run past its blackbox_active_-- *)
Through(c) == workerPc[c] \in {"leaving", "ended"}
Saving(c) == workerPc[c] # "idle" /\ ~Through(c)

Goto(c, pc) == workerPc' = [workerPc EXCEPT ![c] = pc]

-----------------------------------------------------------------------------
(* Mutants: an operator named after a definition and a fault is that       *)
(* definition with the fault; no specification uses it.                    *)

ReserveSlotUncounted ==
  /\ running
  /\ active < SaveCap
  /\ UNCHANGED saveVars

WaitTimesOutNever(c) == FALSE

(* the fail-closed return without its decrement *)
ProbeMaskerLeaks(c, ok) ==
  /\ workerPc[c] = "probe"
  /\ Goto(c, IF ok THEN "write" ELSE "leaving")
  /\ UNCHANGED <<running, active, threads, masker, saved>>

-----------------------------------------------------------------------------
(* RequestBlackboxSave, called by the main thread alone: only the workers
   change the counter besides, and they only lower it, so the CAS loop ends
   as one step *)

ReserveSlot ==
  /\ running
  /\ active < SaveCap
  /\ active' = active + 1
  /\ UNCHANGED <<running, threads, workerPc, masker, saved>>

(* no other save is active: the threads of the list are to be joined *)
MustReap == active <= 1 /\ threads # {}

ThreadsEnded == \A c \in threads : workerPc[c] = "ended"

JoinThreads ==
  /\ ThreadsEnded
  /\ threads' = {}
  /\ UNCHANGED <<running, active, workerPc, masker, saved>>

SpawnWorker(c) ==
  /\ threads' = threads \cup {c}
  /\ Goto(c, "wait")
  /\ UNCHANGED <<running, active, masker, saved>>

-----------------------------------------------------------------------------
(* BlackboxSaveWorker *)

(* blackbox_active_--, the last thing the worker does *)
FreeSlot(c) ==
  /\ active' = active - 1
  /\ Goto(c, "leaving")

(* the wait is over: leave, unless the ring has frames of the window and
   the first one decodes *)
EndWait(c) ==
  /\ workerPc[c] = "wait"
  /\ \/ Goto(c, "mask") /\ UNCHANGED active
     \/ FreeSlot(c)
  /\ UNCHANGED <<running, threads, masker, saved>>

(* the ring's newest frame is past the end of the window; the camera owes
   nobody a frame, so this may never happen *)
WaitFramesCame(c) == EndWait(c)

(* three seconds past the end *)
WaitTimesOut(c) == EndWait(c)

(* while (running_) *)
WaitStopped(c) == ~running /\ EndWait(c)

(* if (!blackbox_masker_) *)
LookForMasker(c) ==
  /\ workerPc[c] = "mask"
  /\ Goto(c, IF masker THEN "probe" ELSE "make")
  /\ UNCHANGED <<running, active, threads, masker, saved>>

(* blackbox_masker_ = make_unique: it replaces what another worker made *)
MakeMasker(c) ==
  /\ workerPc[c] = "make"
  /\ masker' = TRUE
  /\ Goto(c, "probe")
  /\ UNCHANGED <<running, active, threads, saved>>

(* Apply on the first frame: leave unless it is safe to emit (fail-closed)
   and the file opens *)
ProbeMasker(c, ok) ==
  /\ workerPc[c] = "probe"
  /\ IF ok THEN Goto(c, "write") /\ UNCHANGED active ELSE FreeSlot(c)
  /\ UNCHANGED <<running, threads, masker, saved>>

(* every frame masked and written; a frame that is not safe is left out *)
WriteFrames(c, some) ==
  /\ workerPc[c] = "write"
  /\ saved' = IF some THEN saved \cup {c} ELSE saved
  /\ Goto(c, IF some THEN "upload" ELSE "count")
  /\ UNCHANGED <<running, active, threads, masker>>

CountDown(c) ==
  /\ workerPc[c] = "count"
  /\ FreeSlot(c)
  /\ UNCHANGED <<running, threads, masker, saved>>

(* the thread function returns: the thread can be joined *)
WorkerEnds(c) ==
  /\ workerPc[c] = "leaving"
  /\ Goto(c, "ended")
  /\ UNCHANGED <<running, active, threads, masker, saved>>

(* all but WaitFramesCame: what happens without the camera *)
SaveStep(c) ==
  \/ WaitTimesOut(c)
  \/ WaitStopped(c)
  \/ LookForMasker(c)
  \/ MakeMasker(c)
  \/ \E ok \in BOOLEAN : ProbeMasker(c, ok)
  \/ \E some \in BOOLEAN : WriteFrames(c, some)
  \/ CountDown(c)
  \/ WorkerEnds(c)

-----------------------------------------------------------------------------
(* Stop: running_ = false *)
StopRunning ==
  /\ running' = FALSE
  /\ UNCHANGED <<active, threads, workerPc, masker, saved>>

(* the unsynchronised accesses to the shared masker: a worker inside Apply,
   and another inside Apply or replacing the masker *)
Applying(c) == workerPc[c] \in {"probe", "write"}
MaskerRace ==
  \E c, d \in Clip :
    /\ c # d
    /\ workerPc[c] \in {"make", "probe", "write"}
    /\ workerPc[d] \in {"make", "probe", "write"}
=============================================================================
