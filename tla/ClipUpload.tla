----------------------------- MODULE ClipUpload -----------------------------
(***************************************************************************)
(* The clip path of EventNotifier (event_notifier.cpp): save workers hand  *)
(* finished clips to UploadClip from their own threads; the clip thread,   *)
(* started by the first of them, posts the clips one after the other; the  *)
(* stop of StopRetryThread ends it.                                        *)
(*                                                                         *)
(* A region of clip_mutex_ is one step, and so is a call of HttpPostClip.  *)
(* "park" is the moment between the predicate of clip_cv_.wait and the     *)
(* block: the mutex is held, but the stop stores clip_running_ and         *)
(* notifies without it.  A spurious wakeup only evaluates the predicate   *)
(* again and is left out.  The callers' order is the business of the module  *)
(* that composes this one with the save workers (Blackbox).                *)
(***************************************************************************)
EXTENDS Naturals, Sequences, Clips

CONSTANT
  ClipMaxRetries   \* cfg_.clip_max_retries (default 3); 0 acts as 1

ASSUME RetriesOK == ClipMaxRetries \in Nat

VARIABLES
  clipUpload,      \* cfg_.clip_upload and an API key: fixed at the start
  clipQueue,       \* clip_queue_
  clipRunning,     \* clip_running_
  clipPc,          \* where ClipLoop is
  job,             \* its `job`
  attempt,         \* failed rounds of its for-loop
  failed,          \* history: per clip not uploaded, the posts that failed
  uploaded,        \* history: clips HttpPostClip returned true for
  givenUp          \* history: clips logged as given up

jobVars == <<job, attempt, failed, uploaded, givenUp>>
clipVars == <<clipUpload, clipQueue, clipRunning, clipPc, jobVars>>

ClipPcs == {"none", "top", "eval", "park", "asleep", "attempt", "pause", "ended"}

ClipTypeOK ==
  /\ clipUpload \in BOOLEAN
  /\ clipQueue \in Seq(Clip)
  /\ clipRunning \in BOOLEAN
  /\ clipPc \in ClipPcs
  /\ job \in Clip \cup {NoClip}
  /\ attempt \in Nat
  /\ failed \in [Clip -> Nat]
  /\ uploaded \in SUBSET Clip
  /\ givenUp \in SUBSET Clip

ClipInit ==
  /\ clipUpload \in BOOLEAN
  /\ clipQueue = <<>>
  /\ clipRunning = FALSE
  /\ clipPc = "none"
  /\ job = NoClip
  /\ attempt = 0
  /\ failed = [c \in Clip |-> 0]
  /\ uploaded = {}
  /\ givenUp = {}

(* for-loop bound: std::max(cfg_.clip_max_retries, 1u) *)
Attempts == IF ClipMaxRetries > 1 THEN ClipMaxRetries ELSE 1

ClipLocked == clipPc = "park"

-----------------------------------------------------------------------------
(* Mutants: an operator named after a definition and a fault is that       *)
(* definition with the fault; no specification uses it.                    *)

NotifyClipNever == UNCHANGED clipVars

(* the predicate of wait does not look at clip_running_ *)
WaitParksWhenStopped ==
  /\ clipPc = "eval"
  /\ clipQueue = <<>>
  /\ clipPc' = "park"
  /\ UNCHANGED <<clipUpload, clipQueue, clipRunning, jobVars>>

(* clip_queue_.pop() is missing *)
TakeClipStays ==
  /\ clipPc = "eval"
  /\ clipQueue # <<>>
  /\ job' = Head(clipQueue)
  /\ attempt' = 0
  /\ clipPc' = "attempt"
  /\ UNCHANGED <<clipUpload, clipQueue, clipRunning, failed, uploaded, givenUp>>

-----------------------------------------------------------------------------
(* UploadClip, called by save workers *)

(* clip_queue_.push under clip_mutex_ *)
PushClip(c) ==
  /\ ~ClipLocked
  /\ clipQueue' = Append(clipQueue, c)
  /\ UNCHANGED <<clipUpload, clipRunning, clipPc, jobVars>>

(* if (!clip_running_.exchange(true)) clip_thread_ = std::thread(...) *)
StartClipThread ==
  /\ clipRunning' = TRUE
  /\ clipPc' = IF clipRunning THEN clipPc ELSE "top"
  /\ UNCHANGED <<clipUpload, clipQueue, jobVars>>

(* notify: a sleeper evaluates its predicate again, anyone else misses it *)
NotifyClip ==
  /\ clipPc' = IF clipPc = "asleep" THEN "eval" ELSE clipPc
  /\ UNCHANGED <<clipUpload, clipQueue, clipRunning, jobVars>>

-----------------------------------------------------------------------------
(* ClipLoop *)

LoopTop ==
  /\ clipPc = "top"
  /\ clipPc' = IF clipRunning THEN "eval" ELSE "ended"
  /\ UNCHANGED <<clipUpload, clipQueue, clipRunning, jobVars>>

(* the predicate of wait is false: block *)
WaitParks ==
  /\ clipPc = "eval"
  /\ clipQueue = <<>>
  /\ clipRunning
  /\ clipPc' = "park"
  /\ UNCHANGED <<clipUpload, clipQueue, clipRunning, jobVars>>

WaitBlocks ==
  /\ clipPc = "park"
  /\ clipPc' = "asleep"
  /\ UNCHANGED <<clipUpload, clipQueue, clipRunning, jobVars>>

(* stopped with nothing left: break *)
WaitBreaks ==
  /\ clipPc = "eval"
  /\ clipQueue = <<>>
  /\ ~clipRunning
  /\ clipPc' = "ended"
  /\ UNCHANGED <<clipUpload, clipQueue, clipRunning, jobVars>>

TakeClip ==
  /\ clipPc = "eval"
  /\ clipQueue # <<>>
  /\ job' = Head(clipQueue)
  /\ clipQueue' = Tail(clipQueue)
  /\ attempt' = 0
  /\ clipPc' = "attempt"
  /\ UNCHANGED <<clipUpload, clipRunning, failed, uploaded, givenUp>>

MayTry == attempt < Attempts /\ clipRunning

PostClip(ok) ==
  /\ clipPc = "attempt"
  /\ MayTry
  /\ IF ok
       THEN /\ uploaded' = uploaded \cup {job}
            /\ clipPc' = "top"
            /\ job' = NoClip
            /\ failed' = [failed EXCEPT ![job] = 0]
            /\ UNCHANGED attempt
       ELSE /\ failed' = [failed EXCEPT ![job] = @ + 1]
            /\ attempt' = attempt + 1
            /\ clipPc' = "pause"
            /\ UNCHANGED <<uploaded, job>>
  /\ UNCHANGED <<clipUpload, clipQueue, clipRunning, givenUp>>

(* clip_cv_.wait_for: the interval is over, a stop's notify at the latest *)
PauseEnds ==
  /\ clipPc = "pause"
  /\ clipPc' = "attempt"
  /\ UNCHANGED <<clipUpload, clipQueue, clipRunning, jobVars>>

GiveUpClip ==
  /\ clipPc = "attempt"
  /\ ~MayTry
  /\ givenUp' = givenUp \cup {job}
  /\ job' = NoClip
  /\ clipPc' = "top"
  /\ UNCHANGED <<clipUpload, clipQueue, clipRunning, attempt, failed, uploaded>>

ClipStep ==
  \/ LoopTop
  \/ WaitParks
  \/ WaitBlocks
  \/ WaitBreaks
  \/ TakeClip
  \/ \E ok \in BOOLEAN : PostClip(ok)
  \/ PauseEnds
  \/ GiveUpClip

-----------------------------------------------------------------------------
(* StopRetryThread, the clip part: clip_running_ = false without the mutex *)
StopClipFlag ==
  /\ clipRunning' = FALSE
  /\ UNCHANGED <<clipUpload, clipQueue, clipPc, jobVars>>
=============================================================================
