---------------------------- MODULE EventNotifier ----------------------------
(***************************************************************************)
(* The HTTP event path of EcoWarden (event_notifier.cpp): the main loop    *)
(* enqueues event lines, the send thread posts them one by one and hands a *)
(* failed line to an in-memory queue AND to a queue file, and the retry    *)
(* thread periodically flushes both.  The queue file survives the process. *)
(*                                                                         *)
(* A line is a member of Event.  FlushQueue sorts and de-duplicates what   *)
(* it collects, so the order and the multiplicity of pending_queue_ and of *)
(* the file cannot be observed: both are sets.  One call of HttpPost, one  *)
(* mutex region and one file operation are one step each; WriteQueueFile   *)
(* is a truncation followed by one step per line.                          *)
(*                                                                         *)
(* A file operation may fail (no such directory, no permission, no space): *)
(* the notifier looks at none of the results.  AppendToFile then leaves    *)
(* the file as it was, ReadQueueFile finds no line, and WriteQueueFile     *)
(* leaves the old lines (the open failed) or only some of the new ones     *)
(* (a write failed).                                                       *)
(***************************************************************************)
EXTENDS Naturals, Sequences, FiniteSets

CONSTANTS
  Event,        \* the event lines the process may ever enqueue
  Timed,        \* the lines that carry "event_time" (departures do not)
  Rejected,     \* the lines whose endpoint answers 4xx for ever (404: :302)
  MaxRetries,   \* cfg_.max_retries: attempts per line and flush
  AgeLimit,     \* TRUE iff cfg_.queue_max_age_sec > 0
  MayStop,      \* TRUE iff the behaviours include StopRetryThread
  MaxAckLost,   \* bound: answers lost after the server accepted the line
  MaxCrashes,   \* bound: crashes (with the restart systemd makes of them)
  MaxFaults,    \* bound: operations on the queue file that fail
  None          \* no line

ASSUME ConstantsOK ==
  /\ Timed \subseteq Event
  /\ Rejected \subseteq Event
  /\ AgeLimit \in BOOLEAN
  /\ MayStop \in BOOLEAN
  /\ MaxRetries \in Nat \ {0}     \* nothing sets it to 0
  /\ MaxAckLost \in Nat
  /\ MaxCrashes \in Nat
  /\ MaxFaults \in Nat
  /\ None \notin Event

VARIABLES
  serverSet,    \* an API key is configured and dry_run is off
  (* shared between the threads *)
  sendQueue,    \* send_queue_
  sendRunning,  \* send_running_
  retryRunning, \* retry_running_
  pending,      \* pending_queue_
  file,         \* the lines of cfg_.queue_file_path
  (* thread-local *)
  mainPc, sendPc, retryPc,
  hand,         \* SendLoop's `line`
  batch,        \* FlushQueue's lines still to be posted (then: written)
  cur, tries,   \* the line FlushQueue is posting, and the attempts it failed
  failedBatch,  \* FlushQueue's still_failed
  (* the world *)
  serverUp,     \* the server accepts connections
  old,          \* lines whose event_time is more than the age limit ago
  ackLost, crashes,
  (* history *)
  accepted,     \* lines EnqueueJson took
  received,     \* how often the server accepted each line
  acked,        \* lines counted in sent_count_
  dropped,      \* lines counted in dropped_count_
  lost,         \* lines that only a process that has ended still knew
  faults,       \* failed operations on the queue file
  exposed,      \* lines such a failure hid from the flush, or did not write
  erased        \* those of them that are in no other place any more

flags    == <<serverSet, sendRunning, retryRunning>>
queues   == <<sendQueue, pending, file>>
pcs      == <<mainPc, sendPc, retryPc>>
flushing == <<batch, cur, tries, failedBatch>>
world    == <<serverUp, old, ackLost, crashes>>
counts   == <<received, acked, dropped>>
history  == <<accepted, lost, faults, exposed, erased>>
vars == <<flags, queues, pcs, hand, flushing, world, counts, history>>

SendPcs  == {"top", "wait", "park", "blocked", "post", "push", "append",
             "drain", "drainAppend", "done"}
RetryPcs == {"sleep", "read", "collect", "send", "truncate", "write", "done"}
MainPcs  == {"run", "notify", "joinSend", "stopRetry", "joinRetry", "stopped"}

Queued == {sendQueue[i] : i \in 1..Len(sendQueue)}
Hand   == {hand} \ {None}

(* The lines the running process or the queue file still holds. *)
Held == Queued \cup Hand \cup pending \cup batch \cup failedBatch \cup file

(* The exposed lines that are nowhere any more. *)
Unheld == exposed \ (Held \cup acked \cup dropped \cup lost)

Init ==
  /\ sendQueue = <<>> /\ pending = {}
  /\ serverSet \in BOOLEAN /\ sendRunning = TRUE /\ retryRunning = TRUE
  /\ file \in SUBSET Event        \* what an earlier run of the program left
  /\ mainPc = "run" /\ sendPc = "top" /\ retryPc = "sleep"
  /\ hand = None /\ batch = {} /\ cur = None /\ tries = 0 /\ failedBatch = {}
  /\ serverUp \in BOOLEAN /\ old = {} /\ ackLost = 0 /\ crashes = 0
  /\ accepted = file /\ acked = {} /\ dropped = {} /\ lost = {}
  /\ received = [e \in Event |-> 0]
  /\ faults = 0 /\ exposed = {} /\ erased = {}
-----------------------------------------------------------------------------
(* Mutants: an operator named after a definition and a fault is that       *)
(* definition with the fault; no specification uses it.                    *)

(* The stub of earlier versions: success without a network call. *)
HttpPostStub(e, ok) ==
  ok /\ serverSet /\ serverUp /\ UNCHANGED <<received, ackLost>>

(* One HttpPost(e) that returns ok.  Without a server it never touches the *)
(* network.  A post may fail after the server has accepted the line: the   *)
(* answer was lost or came after CURLOPT_TIMEOUT_MS.                       *)
HttpPost(e, ok) ==
  \/ /\ ok /\ serverSet /\ serverUp /\ e \notin Rejected
     /\ received' = [received EXCEPT ![e] = @ + 1]
     /\ UNCHANGED ackLost
  \/ /\ ~ok /\ (serverSet => ~serverUp \/ e \in Rejected)
     /\ UNCHANGED <<received, ackLost>>
  \/ /\ ~ok /\ serverSet /\ serverUp /\ e \notin Rejected
     /\ ackLost < MaxAckLost
     /\ ackLost' = ackLost + 1
     /\ received' = [received EXCEPT ![e] = @ + 1]

(* Does somebody other than the caller hold send_queue_mutex_ or           *)
(* fail_queue_mutex_ across steps?  Only the send thread ever does.        *)
SendMutexHeld == sendPc \in {"park", "drain", "drainAppend"}
FailMutexHeld == sendPc = "drainAppend"

(* An operation on the queue file succeeds, or fails unnoticed. *)
FileOp(ok) ==
  \/ ok /\ UNCHANGED faults
  \/ ~ok /\ faults < MaxFaults /\ faults' = faults + 1

(* --- main thread ------------------------------------------------------- *)

EnqueueWithoutNotify(e) ==
  /\ mainPc = "run" /\ e \notin accepted /\ ~SendMutexHeld
  /\ sendQueue' = Append(sendQueue, e)
  /\ accepted' = accepted \cup {e}
  /\ UNCHANGED <<flags, pending, file, pcs, hand, flushing, world, counts,
                 lost, faults, exposed, erased>>

(* EnqueueJson: push under the mutex, then notify_one. *)
Enqueue(e) ==
  /\ mainPc = "run" /\ e \notin accepted /\ ~SendMutexHeld
  /\ sendQueue' = Append(sendQueue, e)
  /\ accepted' = accepted \cup {e}
  /\ sendPc' = IF sendPc = "blocked" THEN "wait" ELSE sendPc
  /\ UNCHANGED <<flags, pending, file, mainPc, retryPc, hand, flushing, world,
                 counts, lost, faults, exposed, erased>>

(* StopRetryThread: send_running_ = false, without send_queue_mutex_. *)
StopSend ==
  /\ MayStop /\ mainPc = "run"
  /\ sendRunning' = FALSE /\ mainPc' = "notify"
  /\ UNCHANGED <<serverSet, retryRunning, queues, sendPc, retryPc, hand, flushing, world,
                 counts, history>>

(* send_queue_cv_.notify_all(): wakes the thread only if it is blocked. *)
StopNotify ==
  /\ mainPc = "notify" /\ mainPc' = "joinSend"
  /\ sendPc' = IF sendPc = "blocked" THEN "wait" ELSE sendPc
  /\ UNCHANGED <<flags, queues, retryPc, hand, flushing, world, counts,
                 history>>

StopJoinSend ==
  /\ mainPc = "joinSend" /\ sendPc = "done" /\ mainPc' = "stopRetry"
  /\ UNCHANGED <<flags, queues, sendPc, retryPc, hand, flushing, world,
                 counts, history>>

StopRetryFlagKept ==
  /\ mainPc = "stopRetry" /\ mainPc' = "joinRetry"
  /\ UNCHANGED <<flags, queues, sendPc, retryPc, hand, flushing, world,
                 counts, history>>

StopRetry ==
  /\ mainPc = "stopRetry" /\ mainPc' = "joinRetry" /\ retryRunning' = FALSE
  /\ UNCHANGED <<serverSet, sendRunning, queues, sendPc, retryPc, hand, flushing, world,
                 counts, history>>

(* The second join, then main returns: what only memory held is gone. *)
Exit ==
  /\ mainPc = "joinRetry" /\ retryPc = "done" /\ mainPc' = "stopped"
  /\ lost' = lost \cup (pending \ (file \cup acked \cup dropped))
  /\ pending' = {} /\ exposed' = {}
  /\ UNCHANGED <<flags, sendQueue, file, sendPc, retryPc, hand, flushing,
                 world, counts, accepted, faults, erased>>

(* --- send thread (SendLoop) -------------------------------------------- *)

SendTop ==
  /\ sendPc = "top"
  /\ sendPc' = IF sendRunning THEN "wait" ELSE "drain"
  /\ UNCHANGED <<flags, queues, mainPc, retryPc, hand, flushing, world,
                 counts, history>>

(* The wait predicate holds and the queue is not empty: pop one line. *)
SendTake ==
  /\ sendPc = "wait" /\ sendQueue # <<>>
  /\ hand' = Head(sendQueue) /\ sendQueue' = Tail(sendQueue)
  /\ sendPc' = "post"
  /\ UNCHANGED <<flags, pending, file, mainPc, retryPc, flushing, world,
                 counts, history>>

(* The wait predicate evaluated with an empty queue.  If it is false the   *)
(* thread is about to block ("park") and still holds the mutex.            *)
SendWait ==
  /\ sendPc = "wait" /\ sendQueue = <<>>
  /\ sendPc' = IF sendRunning THEN "park" ELSE "drain"
  /\ UNCHANGED <<flags, queues, mainPc, retryPc, hand, flushing, world,
                 counts, history>>

(* The atomic release-and-block of condition_variable::wait. *)
SendBlock ==
  /\ sendPc = "park" /\ sendPc' = "blocked"
  /\ UNCHANGED <<flags, queues, mainPc, retryPc, hand, flushing, world,
                 counts, history>>

(* sent_count_++, or dropped_count_++ when no server is configured. *)
SendSettled(e, ok) ==
  /\ acked'   = IF ok THEN acked \cup {e} ELSE acked
  /\ dropped' = IF ~ok /\ ~serverSet THEN dropped \cup {e} ELSE dropped

SendPostUseAfterMove(ok) ==
  /\ sendPc = "post"
  /\ HttpPost(hand, ok)
  /\ SendSettled(hand, ok)
  /\ sendPc' = (IF ok \/ ~serverSet THEN "top" ELSE "push") /\ hand' = None
  /\ UNCHANGED <<flags, queues, mainPc, retryPc, flushing, serverUp, old,
                 crashes, history>>

SendPost(ok) ==
  /\ sendPc = "post"
  /\ HttpPost(hand, ok)
  /\ SendSettled(hand, ok)
  /\ IF ok \/ ~serverSet THEN sendPc' = "top" /\ hand' = None
                         ELSE sendPc' = "push" /\ hand' = hand
  /\ UNCHANGED <<flags, queues, mainPc, retryPc, flushing, serverUp, old,
                 crashes, history>>

(* pending_queue_.push under fail_queue_mutex_ ... *)
SendPush ==
  /\ sendPc = "push" /\ sendPc' = "append"
  /\ pending' = pending \cup {hand}
  /\ UNCHANGED <<flags, sendQueue, file, mainPc, retryPc, hand, flushing,
                 world, counts, history>>

(* ... then AppendToFile, after the mutex has been released. *)
SendAppend(ok) ==
  /\ sendPc = "append" /\ sendPc' = "top"
  /\ FileOp(ok)
  /\ file' = (IF ok THEN file \cup {hand} ELSE file) /\ hand' = None
  /\ UNCHANGED <<flags, sendQueue, pending, mainPc, retryPc, flushing, world,
                 counts, accepted, lost, exposed>>
  /\ erased' = erased \cup Unheld'

(* The drain at the end of SendLoop: the front line is posted while        *)
(* send_queue_mutex_ is held and popped afterwards; a failed line is       *)
(* pushed and appended while fail_queue_mutex_ is held.                    *)
DrainPost(ok) ==
  /\ sendPc = "drain" /\ sendQueue # <<>>
  /\ HttpPost(Head(sendQueue), ok)
  /\ SendSettled(Head(sendQueue), ok)
  /\ IF ok \/ ~serverSet
     THEN sendQueue' = Tail(sendQueue) /\ UNCHANGED <<sendPc, pending>>
     ELSE /\ sendPc' = "drainAppend" /\ UNCHANGED sendQueue
          /\ pending' = pending \cup {Head(sendQueue)}
  /\ UNCHANGED <<flags, file, mainPc, retryPc, hand, flushing, serverUp, old,
                 crashes, history>>

DrainAppend(ok) ==
  /\ sendPc = "drainAppend" /\ sendPc' = "drain"
  /\ FileOp(ok)
  /\ file' = IF ok THEN file \cup {Head(sendQueue)} ELSE file
  /\ sendQueue' = Tail(sendQueue)
  /\ UNCHANGED <<flags, pending, mainPc, retryPc, hand, flushing, world,
                 counts, accepted, lost, exposed, erased>>

DrainDone ==
  /\ sendPc = "drain" /\ sendQueue = <<>> /\ sendPc' = "done"
  /\ UNCHANGED <<flags, queues, mainPc, retryPc, hand, flushing, world,
                 counts, history>>

(* --- retry thread (RetryLoop, FlushQueue) ------------------------------ *)

(* wait_for returns: retry_interval_sec elapsed, or retry_running_ fell. *)
RetryWake ==
  /\ retryPc = "sleep"
  /\ retryPc' = IF retryRunning THEN "read" ELSE "done"
  /\ UNCHANGED <<flags, queues, mainPc, sendPc, hand, flushing, world, counts,
                 history>>

(* ReadQueueFile: a file that cannot be opened reads as an empty one, and  *)
(* the lines in it are at the mercy of this flush's rewrite.  A read that  *)
(* succeeds covers every line but the one SendLoop has yet to append.      *)
FlushRead(ok) ==
  /\ retryPc = "read" /\ retryPc' = "collect"
  /\ FileOp(ok)
  /\ IF ok THEN batch' = file /\ exposed' = (exposed \cap Hand) \ file
           ELSE file # {} /\ batch' = {} /\ exposed' = exposed \cup file
  /\ UNCHANGED <<flags, queues, mainPc, sendPc, hand, cur, tries, failedBatch,
                 world, counts, accepted, lost, erased>>

(* What FlushQueue gives up without posting it. *)
Discard(lines) ==
  IF ~serverSet THEN lines ELSE IF AgeLimit THEN lines \cap old ELSE {}

FlushCollectForgetsPending ==
  /\ retryPc = "collect" /\ ~FailMutexHeld
  /\ batch' = batch \ Discard(batch)
  /\ dropped' = dropped \cup Discard(batch)
  /\ retryPc' = IF batch = {} THEN "sleep" ELSE "send"
  /\ pending' = {}
  /\ UNCHANGED <<flags, sendQueue, file, mainPc, sendPc, hand, cur, tries,
                 failedBatch, world, received, acked, history>>

(* Drain pending_queue_ under its mutex, drop what is too old (everything  *)
(* without a server), and choose between an early return, an emptied file  *)
(* and posting the rest.                                                   *)
FlushCollect ==
  /\ retryPc = "collect" /\ ~FailMutexHeld
  /\ LET lines == batch \cup pending
         fresh == lines \ Discard(lines)
     IN  /\ batch' = fresh
         /\ dropped' = dropped \cup Discard(lines)
         /\ retryPc' = IF lines = {} THEN "sleep"
                       ELSE IF fresh = {} THEN "truncate" ELSE "send"
  /\ pending' = {}
  /\ UNCHANGED <<flags, sendQueue, file, mainPc, sendPc, hand, cur, tries,
                 failedBatch, world, received, acked, history>>

(* The next line of the sorted batch, or the one being retried. *)
Posting == IF tries = 0 THEN batch ELSE {cur}

FlushPost(e, ok) ==
  /\ retryPc = "send" /\ e \in Posting
  /\ HttpPost(e, ok)
  /\ acked' = IF ok THEN acked \cup {e} ELSE acked
  /\ IF ok \/ tries + 1 = MaxRetries
     THEN /\ batch' = batch \ {e} /\ cur' = None /\ tries' = 0
          /\ failedBatch' = IF ok THEN failedBatch ELSE failedBatch \cup {e}
     ELSE /\ cur' = e /\ tries' = tries + 1
          /\ UNCHANGED <<batch, failedBatch>>
  /\ UNCHANGED <<flags, queues, pcs, hand, serverUp, old, crashes, dropped,
                 history>>

FlushPosted ==
  /\ retryPc = "send" /\ batch = {} /\ retryPc' = "truncate"
  /\ UNCHANGED <<flags, queues, mainPc, sendPc, hand, flushing, world, counts,
                 history>>

FlushTruncateInAppendMode(ok) ==
  /\ ok /\ retryPc = "truncate" /\ retryPc' = "write"
  /\ batch' = failedBatch
  /\ UNCHANGED <<flags, queues, mainPc, sendPc, hand, cur, tries, failedBatch,
                 world, counts, history>>

(* WriteQueueFile: ios::trunc empties the file, and `batch` becomes the    *)
(* lines still to be written; if the open fails the flush ends here, the   *)
(* file keeps what it had (lines that were sent, too), and the lines that  *)
(* failed are written nowhere ...                                          *)
FlushTruncate(ok) ==
  /\ retryPc = "truncate"
  /\ FileOp(ok)
  /\ IF ok THEN /\ retryPc' = "write" /\ file' = {} /\ batch' = failedBatch
                /\ UNCHANGED <<failedBatch, exposed>>
           ELSE /\ retryPc' = "sleep" /\ failedBatch' = {}
                /\ exposed' = exposed \cup (failedBatch \ file)
                /\ UNCHANGED <<file, batch>>
  /\ UNCHANGED <<flags, sendQueue, pending, mainPc, sendPc, hand, cur, tries,
                 world, counts, accepted, lost>>
  /\ erased' = erased \cup Unheld'

(* ... each written at the stream's own offset, over whatever the send     *)
(* thread appended there in the meantime: a stream opened without ios::app *)
(* does not move to the new end of the file.                               *)
FlushWrite(e) ==
  /\ retryPc = "write" /\ e \in batch
  /\ \E overwritten \in SUBSET (file \ (failedBatch \ batch)) :
       file' = (file \ overwritten) \cup {e}
  /\ batch' = batch \ {e}
  /\ UNCHANGED <<flags, sendQueue, pending, pcs, hand, cur, tries,
                 failedBatch, world, counts, accepted, lost, faults, exposed>>
  /\ erased' = erased \cup Unheld'

(* A write fails (the disk is full): nobody looks at the stream, and the   *)
(* lines that are still to be written are not.                             *)
FlushGiveUp ==
  /\ retryPc = "write" /\ batch # {} /\ retryPc' = "sleep"
  /\ FileOp(FALSE)
  /\ batch' = {} /\ failedBatch' = {}
  /\ exposed' = exposed \cup (batch \ file)
  /\ UNCHANGED <<flags, queues, mainPc, sendPc, hand, cur, tries, world,
                 counts, accepted, lost>>
  /\ erased' = erased \cup Unheld'

FlushDone ==
  /\ retryPc = "write" /\ batch = {} /\ retryPc' = "sleep"
  /\ failedBatch' = {}
  /\ UNCHANGED <<flags, queues, mainPc, sendPc, hand, batch, cur, tries,
                 world, counts, history>>

(* --- the world --------------------------------------------------------- *)

ServerFlip ==
  /\ serverUp' = ~serverUp
  /\ UNCHANGED <<flags, queues, pcs, hand, flushing, old, ackLost, crashes,
                 counts, history>>

(* The clock passes event_time + queue_max_age_sec of a line. *)
GrowOld(e) ==
  /\ e \in (accepted \cap Timed) \ old
  /\ old' = old \cup {e}
  /\ UNCHANGED <<flags, queues, pcs, hand, flushing, serverUp, ackLost,
                 crashes, counts, history>>

(* The process dies and systemd starts it again (Restart=on-failure): only *)
(* the queue file is left, and StartRetryThread starts both threads.       *)
Crash ==
  /\ mainPc # "stopped" /\ crashes < MaxCrashes
  /\ crashes' = crashes + 1
  /\ lost' = lost \cup (Held \ (file \cup acked \cup dropped))
  /\ sendQueue' = <<>> /\ pending' = {}
  /\ sendRunning' = TRUE /\ retryRunning' = TRUE
  /\ mainPc' = "run" /\ sendPc' = "top" /\ retryPc' = "sleep"
  /\ hand' = None /\ batch' = {} /\ cur' = None /\ tries' = 0
  /\ failedBatch' = {} /\ exposed' = {}
  /\ UNCHANGED <<serverSet, file, serverUp, old, ackLost, counts, accepted,
                 faults, erased>>
-----------------------------------------------------------------------------
SendStep ==
  \/ SendTop \/ SendTake \/ SendWait \/ SendBlock \/ SendPush \/ DrainDone
  \/ \E ok \in BOOLEAN : \/ SendPost(ok) \/ DrainPost(ok)
                         \/ SendAppend(ok) \/ DrainAppend(ok)

RetryStep ==
  \/ RetryWake \/ FlushCollect \/ FlushPosted \/ FlushGiveUp \/ FlushDone
  \/ \E ok \in BOOLEAN : FlushRead(ok) \/ FlushTruncate(ok)
  \/ \E e \in Event : FlushWrite(e)
  \/ \E e \in Event, ok \in BOOLEAN : FlushPost(e, ok)

StopStep == StopNotify \/ StopJoinSend \/ StopRetry \/ Exit

Next ==
  \/ \E e \in Event : Enqueue(e)
  \/ StopSend \/ StopStep
  \/ SendStep \/ RetryStep
  \/ ServerFlip \/ Crash
  \/ \E e \in Event : GrowOld(e)

Spec == Init /\ [][Next]_vars

(* Each thread is scheduled, and the clock runs.  Nothing obliges main to  *)
(* enqueue or to stop, the server to change, the process to crash, or a    *)
(* file operation to fail.                                                 *)
FairSpec ==
  /\ Spec
  /\ WF_vars(SendStep) /\ WF_vars(RetryStep) /\ WF_vars(StopStep)
  /\ \A e \in Timed : WF_vars(GrowOld(e))
-----------------------------------------------------------------------------
(* Types of every variable. *)
TypeOK ==
  /\ sendQueue \in Seq(Event)
  /\ serverSet \in BOOLEAN
  /\ sendRunning \in BOOLEAN /\ retryRunning \in BOOLEAN
  /\ pending \subseteq Event /\ file \subseteq Event
  /\ mainPc \in MainPcs /\ sendPc \in SendPcs /\ retryPc \in RetryPcs
  /\ hand \in Event \cup {None} /\ cur \in Event \cup {None}
  /\ batch \subseteq Event /\ failedBatch \subseteq Event
  /\ tries \in Nat
  /\ serverUp \in BOOLEAN /\ old \subseteq Event
  /\ ackLost \in 0..MaxAckLost /\ crashes \in 0..MaxCrashes
  /\ accepted \subseteq Event /\ acked \subseteq Event
  /\ dropped \subseteq Event /\ lost \subseteq Event
  /\ received \in [Event -> Nat]
  /\ faults \in 0..MaxFaults /\ exposed \subseteq Event /\ erased \subseteq Event

(* No interleaving of the main, send and retry threads makes an accepted   *)
(* line disappear: it is in a queue, in a thread's hands or in the queue   *)
(* file, or it was sent or dropped (counted in sent_count_ or              *)
(* dropped_count_), or a process that ended took it along, or an operation *)
(* on the file failed on this very line and it had no other copy.          *)
Custody == accepted \subseteq Held \cup acked \cup dropped \cup lost \cup erased

(* The copies of a line that do not live in the queue file. *)
Copies == batch \cup failedBatch \cup pending \cup acked \cup dropped

(* WriteQueueFile may truncate and overwrite: from ReadQueueFile until the *)
(* rewrite is complete each line in the file, also one that SendLoop       *)
(* appended in between, has another copy in the process, or is settled,    *)
(* unless a failed read or write exposed it.                               *)
TruncationSafe ==
  retryPc \in {"collect", "send", "truncate", "write"} =>
    file \subseteq Copies \cup exposed

(* One line reaches the server at most twice, plus once per lost answer,   *)
(* per crash and per failed file operation (a rewrite that could not open  *)
(* the file leaves it the lines the server took, so every such failure may *)
(* repeat them): the race of SendLoop's push-then-append with FlushQueue   *)
(* leaves at most one stale copy behind.                                   *)
DuplicatesBounded ==
  \A e \in Event : received[e] <= 2 + ackLost + crashes + faults

(* fail-closed: without an API key (or with dry_run) nothing ever reaches  *)
(* the network, and the lines are neither queued in memory nor appended to *)
(* the file; what an earlier run left there only shrinks.                  *)
NothingStoredWithoutServer ==
  [][~serverSet => pending' = {} /\ file' \subseteq file
                   /\ received' = received]_vars

(* --- liveness ---------------------------------------------------------- *)

(* Lines the retry thread will be rid of in the end. *)
Resolvable == (Event \ Rejected) \cup (IF AgeLimit THEN Timed ELSE {})

Resolved(e) == e \in acked \cup dropped \cup lost \cup erased

(* Once the server stays up every accepted line is sent or, if its         *)
(* endpoint never accepts it but it can age, dropped; one rejected line    *)
(* does not hold up the others.  Only a stop, or a failed file operation   *)
(* that erased the line, ends the duty early.                              *)
EventuallyResolved ==
  <>[]serverUp =>
    []<>(mainPc # "run" \/ \A e \in Resolvable \cap accepted : Resolved(e))

(* The send thread sleeps for ever: it checked its predicate before        *)
(* send_running_ fell and blocked after notify_all.                        *)
LostWakeup == mainPc = "joinSend" /\ sendPc = "blocked"

(* StopRetryThread returns unless the send thread missed the notification  *)
(* (or a crash ends the process meanwhile).                                *)
StopFinishesOrWakeupLost ==
  mainPc = "notify" ~> (mainPc \in {"stopped", "run"} \/ LostWakeup)

(* --- the abstract specification ---------------------------------------- *)

Phase(e) ==
  CASE e \notin accepted -> "new"
    [] e \in acked -> "confirmed"
    [] e \in dropped \ acked -> "discarded"
    [] e \in lost \ (acked \cup dropped) -> "lost"
    [] e \in erased \ (acked \cup dropped \cup lost) -> "erased"
    [] e \in accepted \ (acked \cup dropped \cup lost \cup erased) ->
         IF e \in Held THEN "held" ELSE "vanished"

Delivery == INSTANCE EventDelivery WITH
  refused <- IF serverSet THEN Rejected ELSE Event,
  phase   <- [e \in Event |-> Phase(e)],
  arrived <- {e \in Event : received[e] > 0},
  expired <- IF serverSet THEN IF AgeLimit THEN old ELSE {} ELSE Event,
  ended   <- crashes + IF mainPc = "stopped" THEN 1 ELSE 0

(* The threads and queues together implement the abstract delivery: no     *)
(* line vanishes, confirmations follow arrivals, discards follow the       *)
(* policy, and only the end of a process, or a failed operation on the     *)
(* queue file that exposed them, loses lines.                              *)
ImplementsDelivery == Delivery!Spec

(* --- what the repository says and the code does not do ------------------ *)

(* DETECTION_RULES.md:658-659: a failed line is stored in memory AND in    *)
(* the file, so a clean stop loses nothing.                                *)
CleanStopLosesNothing == crashes = 0 => lost = {}
=============================================================================
