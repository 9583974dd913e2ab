------------------------- MODULE EventNotifierProofs -------------------------
(***************************************************************************)
(* Theorems about EventNotifier for every set of lines, every number of    *)
(* retries, lost answers, crashes and failed file operations: its types,   *)
(* the custody of accepted lines, that the rewrite of the queue file       *)
(* destroys the only copy of a line only if a failure exposed it, the      *)
(* refinement of EventDelivery, and how often the server may be sent one   *)
(* line.                                                                   *)
(***************************************************************************)
EXTENDS EventNotifier, SequenceTheorems, TLAPS

(* Pushing a line adds exactly that line to the queued ones. *)
LEMMA AppendRange ==
  ASSUME NEW S, NEW s \in Seq(S), NEW e \in S
  PROVE  {Append(s, e)[i] : i \in 1..Len(Append(s, e))}
           = {s[i] : i \in 1..Len(s)} \cup {e}
OBVIOUS

(* Popping the front line takes exactly that line's first occurrence away. *)
LEMMA PopRange ==
  ASSUME NEW S, NEW s \in Seq(S), s # <<>>
  PROVE  /\ Head(s) \in S
         /\ Tail(s) \in Seq(S)
         /\ {s[i] : i \in 1..Len(s)}
              = {Head(s)} \cup {Tail(s)[i] : i \in 1..Len(Tail(s))}
<1>1. Len(s) \in Nat /\ Len(s) > 0 /\ Head(s) = s[1]
  OBVIOUS
<1>2. Len(Tail(s)) = Len(s) - 1 /\ \A i \in 1..Len(s)-1 : Tail(s)[i] = s[i+1]
  BY <1>1
<1>3. \A i \in 1..Len(s) : i = 1 \/ (i-1 \in 1..Len(s)-1 /\ s[i] = Tail(s)[i-1])
  BY <1>1, <1>2
<1>4. {s[i] : i \in 1..Len(s)} \subseteq
        {Head(s)} \cup {Tail(s)[i] : i \in 1..Len(Tail(s))}
  BY <1>1, <1>2, <1>3
<1>5. {Tail(s)[i] : i \in 1..Len(Tail(s))} \subseteq {s[i] : i \in 1..Len(s)}
  <2> SUFFICES ASSUME NEW i \in 1..Len(Tail(s))
               PROVE  \E j \in 1..Len(s) : Tail(s)[i] = s[j]
    OBVIOUS
  <2>1. i + 1 \in 1..Len(s)
    BY <1>1, <1>2
  <2> QED BY <2>1, <1>2
<1>6. Head(s) \in {s[i] : i \in 1..Len(s)}
  BY <1>1
<1> QED BY <1>1, <1>4, <1>5, <1>6
-----------------------------------------------------------------------------
(* The lines a thread is about to append to the file are covered by another *)
(* copy, the flush keeps its lines until they are back in the file, and     *)
(* main passes its first join only when the send thread is done.            *)

(* Between push and append SendLoop's line is held or settled elsewhere,   *)
(* or exposed.                                                             *)
HandCovered == sendPc = "append" => hand \in Copies \cup file \cup exposed

(* In the drain the same holds of the front of send_queue_. *)
DrainCovered == sendPc = "drainAppend" => Head(sendQueue) \in pending

(* The line SendLoop is working on exists: in hand, or at the front. *)
LineInWork ==
  /\ sendPc \in {"post", "push", "append"} <=> hand # None
  /\ sendPc = "drainAppend" => sendQueue # <<>>

(* What FlushQueue's locals are in each of its phases. *)
FlushShape ==
  /\ retryPc \in {"sleep", "read", "done"} => batch = {} /\ failedBatch = {}
  /\ retryPc = "collect"  => failedBatch = {}
  /\ retryPc = "truncate" => batch = {}
  /\ retryPc = "write" => batch \subseteq failedBatch
                          /\ failedBatch \ batch \subseteq file
  /\ retryPc # "send" => tries = 0
  /\ tries > 0 => cur \in batch /\ tries < MaxRetries

Joined == mainPc \in {"stopRetry", "joinRetry", "stopped"} => sendPc = "done"

Typed == TypeOK /\ LineInWork

IInv ==
  /\ Typed
  /\ Custody
  /\ TruncationSafe
  /\ HandCovered
  /\ DrainCovered
  /\ FlushShape
  /\ Joined
-----------------------------------------------------------------------------
(* A post keeps the delivery counters in their types. *)
LEMMA HttpPostTypes ==
  ASSUME TypeOK, NEW e \in Event, NEW ok \in BOOLEAN, HttpPost(e, ok)
  PROVE  received' \in [Event -> Nat] /\ ackLost' \in 0..MaxAckLost
BY ConstantsOK DEF TypeOK, HttpPost

(* A file operation keeps the count of the failed ones within its bound. *)
LEMMA FileOpTypes ==
  ASSUME TypeOK, NEW ok \in BOOLEAN, FileOp(ok)
  PROVE  /\ faults' \in 0..MaxFaults
         /\ ok => faults' = faults
         /\ ~ok => faults' = faults + 1
BY ConstantsOK DEF TypeOK, FileOp

(* Every step preserves the types. *)
LEMMA TypeInductive == Typed /\ [Next]_vars => Typed'
<1> SUFFICES ASSUME Typed, [Next]_vars PROVE Typed'
  OBVIOUS
<1> USE ConstantsOK DEF Typed, TypeOK, LineInWork, flags, queues, pcs,
          flushing, world, counts, history, SendPcs, RetryPcs, MainPcs
<1>pop. sendQueue # <<>> =>
          Head(sendQueue) \in Event /\ Tail(sendQueue) \in Seq(Event)
  BY PopRange
<1>1. ASSUME NEW e \in Event, Enqueue(e) PROVE Typed'
  BY <1>1 DEF Enqueue
<1>2. CASE StopSend
  <2>1. /\ serverSet' = serverSet /\ sendRunning' = FALSE
        /\ retryRunning' = retryRunning /\ mainPc' = "notify"
    BY <1>2 DEF StopSend
  <2>2. UNCHANGED <<queues, sendPc, retryPc, hand, flushing, world, counts,
                    history>>
    BY <1>2 DEF StopSend
  <2>3. serverSet' \in BOOLEAN /\ sendRunning' \in BOOLEAN
        /\ retryRunning' \in BOOLEAN
    BY <2>1, Zenon
  <2>4. mainPc' \in MainPcs
    BY <2>1
  <2> HIDE DEF MainPcs
  <2> QED BY <2>2, <2>3, <2>4
<1>3. CASE StopNotify
  BY <1>3 DEF StopNotify
<1>4. CASE StopJoinSend
  BY <1>4 DEF StopJoinSend
<1>5. CASE StopRetry
  <2>1. /\ serverSet' = serverSet /\ sendRunning' = sendRunning
        /\ retryRunning' = FALSE /\ mainPc' = "joinRetry"
    BY <1>5 DEF StopRetry
  <2>2. UNCHANGED <<queues, sendPc, retryPc, hand, flushing, world, counts,
                    history>>
    BY <1>5 DEF StopRetry
  <2>3. serverSet' \in BOOLEAN /\ sendRunning' \in BOOLEAN
        /\ retryRunning' \in BOOLEAN
    BY <2>1, Zenon
  <2>4. mainPc' \in MainPcs
    BY <2>1
  <2> HIDE DEF MainPcs
  <2> QED BY <2>2, <2>3, <2>4
<1>6. CASE Exit
  BY <1>6 DEF Exit
<1>7. CASE SendTop
  BY <1>7 DEF SendTop
<1>8. CASE SendTake
  BY <1>8, <1>pop DEF SendTake
<1>9. CASE SendWait
  BY <1>9 DEF SendWait
<1>10. CASE SendBlock
  BY <1>10 DEF SendBlock
<1>11. ASSUME NEW ok \in BOOLEAN, SendPost(ok) PROVE Typed'
  <2>1. hand \in Event
    BY <1>11 DEF SendPost
  <2>2. received' \in [Event -> Nat] /\ ackLost' \in 0..MaxAckLost
    BY <1>11, <2>1, HttpPostTypes DEF SendPost
  <2>3. acked' \subseteq Event /\ dropped' \subseteq Event
    BY <1>11, <2>1 DEF SendPost, SendSettled
  <2>4. /\ sendPc' \in {"top", "push"} /\ hand' \in Event \cup {None}
        /\ sendPc' = "push" => hand' \in Event
    <3>1. CASE ok \/ ~serverSet
      BY <1>11, <2>1, <3>1 DEF SendPost
    <3>2. CASE ~(ok \/ ~serverSet)
      BY <1>11, <2>1, <3>2 DEF SendPost
    <3> QED BY <3>1, <3>2
  <2> QED BY <1>11, <2>2, <2>3, <2>4 DEF SendPost
<1>12. CASE SendPush
  BY <1>12 DEF SendPush
<1>13. ASSUME NEW ok \in BOOLEAN, SendAppend(ok) PROVE Typed'
  <2>1. faults' \in 0..MaxFaults
    BY <1>13, FileOpTypes DEF SendAppend
  <2> QED BY <1>13, <2>1 DEF SendAppend, Unheld
<1>14. ASSUME NEW ok \in BOOLEAN, DrainPost(ok) PROVE Typed'
  <2>1. Head(sendQueue) \in Event /\ Tail(sendQueue) \in Seq(Event)
    BY <1>14, <1>pop DEF DrainPost
  <2>2. received' \in [Event -> Nat] /\ ackLost' \in 0..MaxAckLost
    BY <1>14, <2>1, HttpPostTypes DEF DrainPost
  <2>3. acked' \subseteq Event /\ dropped' \subseteq Event
    BY <1>14, <2>1 DEF DrainPost, SendSettled
  <2>4. /\ sendQueue' \in Seq(Event) /\ pending' \subseteq Event
        /\ sendPc' = "drain" \/ (sendPc' = "drainAppend" /\ sendQueue' # <<>>)
    <3>1. CASE ok \/ ~serverSet
      BY <1>14, <2>1, <3>1 DEF DrainPost
    <3>2. CASE ~(ok \/ ~serverSet)
      BY <1>14, <2>1, <3>2 DEF DrainPost
    <3> QED BY <3>1, <3>2
  <2>5. /\ UNCHANGED <<flags, file, mainPc, retryPc, hand, flushing, serverUp,
                       old, crashes, history>>
        /\ sendPc = "drain"
    BY <1>14 DEF DrainPost
  <2>6. serverSet' \in BOOLEAN /\ sendRunning' \in BOOLEAN
        /\ retryRunning' \in BOOLEAN
    BY <2>5, Zenon
  <2> QED BY <2>2, <2>3, <2>4, <2>5, <2>6
<1>15. ASSUME NEW ok \in BOOLEAN, DrainAppend(ok) PROVE Typed'
  <2>1. faults' \in 0..MaxFaults
    BY <1>15, FileOpTypes DEF DrainAppend
  <2> QED BY <1>15, <1>pop, <2>1 DEF DrainAppend
<1>16. CASE DrainDone
  BY <1>16 DEF DrainDone
<1>17. CASE RetryWake
  BY <1>17 DEF RetryWake
<1>18. ASSUME NEW ok \in BOOLEAN, FlushRead(ok) PROVE Typed'
  <2>1. faults' \in 0..MaxFaults
    BY <1>18, FileOpTypes DEF FlushRead
  <2> QED BY <1>18, <2>1 DEF FlushRead
<1>19. CASE FlushCollect
  BY <1>19 DEF FlushCollect, Discard
<1>20. ASSUME NEW e \in Event, NEW ok \in BOOLEAN, FlushPost(e, ok)
       PROVE  Typed'
  <2>1. received' \in [Event -> Nat] /\ ackLost' \in 0..MaxAckLost
    BY <1>20, HttpPostTypes DEF FlushPost
  <2>2. cur' \in Event \cup {None} /\ tries' \in Nat
    BY <1>20 DEF FlushPost
  <2>3. batch' \subseteq Event /\ failedBatch' \subseteq Event
        /\ acked' \subseteq Event
    BY <1>20 DEF FlushPost
  <2> QED BY <1>20, <2>1, <2>2, <2>3 DEF FlushPost
<1>22. CASE FlushPosted
  BY <1>22 DEF FlushPosted
<1>21. CASE FlushGiveUp
  <2>1. faults' \in 0..MaxFaults
    BY <1>21, FileOpTypes DEF FlushGiveUp
  <2> QED BY <1>21, <2>1 DEF FlushGiveUp, Unheld
<1>23. ASSUME NEW ok \in BOOLEAN, FlushTruncate(ok) PROVE Typed'
  <2>1. faults' \in 0..MaxFaults
    BY <1>23, FileOpTypes DEF FlushTruncate
  <2> QED BY <1>23, <2>1 DEF FlushTruncate, Unheld
<1>24. ASSUME NEW e \in Event, FlushWrite(e) PROVE Typed'
  BY <1>24 DEF FlushWrite, Unheld
<1>25. CASE FlushDone
  BY <1>25 DEF FlushDone
<1>26. CASE ServerFlip
  BY <1>26 DEF ServerFlip
<1>27. ASSUME NEW e \in Event, GrowOld(e) PROVE Typed'
  BY <1>27 DEF GrowOld
<1>28. CASE Crash
  BY <1>28 DEF Crash, Held, Queued, Hand
<1>29. CASE UNCHANGED vars
  BY <1>29 DEF vars
<1> QED BY <1>1, <1>2, <1>3, <1>4, <1>5, <1>6, <1>7, <1>8, <1>9, <1>10, <1>11,
           <1>12, <1>13, <1>14, <1>15, <1>16, <1>17, <1>18, <1>19, <1>20,
           <1>21, <1>22, <1>23, <1>24, <1>25, <1>26, <1>27, <1>28, <1>29
        DEF Next, SendStep, RetryStep, StopStep
-----------------------------------------------------------------------------
(* Queued is a function of send_queue_: it follows each push and pop. *)
LEMMA QueueUnchanged == sendQueue' = sendQueue => Queued' = Queued
BY DEF Queued

LEMMA QueuePushed ==
  ASSUME sendQueue \in Seq(Event), NEW e \in Event,
         sendQueue' = Append(sendQueue, e)
  PROVE  Queued' = Queued \cup {e}
BY AppendRange DEF Queued

LEMMA QueuePopped ==
  ASSUME sendQueue \in Seq(Event), sendQueue # <<>>,
         sendQueue' = Tail(sendQueue)
  PROVE  /\ Head(sendQueue) \in Event
         /\ Queued = {Head(sendQueue)} \cup Queued'
<1>1. /\ Head(sendQueue) \in Event
      /\ {sendQueue[i] : i \in 1..Len(sendQueue)}
           = {Head(sendQueue)} \cup
             {Tail(sendQueue)[i] : i \in 1..Len(Tail(sendQueue))}
  BY PopRange
<1>2. Queued' = {Tail(sendQueue)[i] : i \in 1..Len(Tail(sendQueue))}
  BY DEF Queued
<1> QED BY <1>1, <1>2 DEF Queued

(* Every step preserves the inductive invariant. *)
LEMMA InvInductive == IInv /\ [Next]_vars => IInv'
<1> SUFFICES ASSUME IInv, [Next]_vars
             PROVE  /\ Custody' /\ TruncationSafe' /\ HandCovered'
                    /\ DrainCovered' /\ FlushShape' /\ Joined'
  BY TypeInductive DEF IInv
<1> DEFINE Rest == /\ Custody /\ TruncationSafe /\ HandCovered
                   /\ DrainCovered /\ FlushShape /\ Joined
<1> USE ConstantsOK DEF IInv, Typed, TypeOK, LineInWork, Custody, TruncationSafe,
          HandCovered, DrainCovered, FlushShape, Joined, Copies, Held, Hand,
          flags, queues, pcs, flushing, world, counts, history
<1>same. sendQueue' = sendQueue => Queued' = Queued
  BY QueueUnchanged
<1>push. ASSUME NEW e \in Event, sendQueue' = Append(sendQueue, e)
         PROVE  Queued' = Queued \cup {e}
  BY <1>push, QueuePushed
<1>pop. ASSUME sendQueue # <<>>, sendQueue' = Tail(sendQueue)
        PROVE  /\ Head(sendQueue) \in Event
               /\ Queued = {Head(sendQueue)} \cup Queued'
  BY <1>pop, QueuePopped
<1>1. ASSUME NEW e \in Event, Enqueue(e) PROVE Rest'
  BY <1>1, <1>push DEF Enqueue, SendMutexHeld
<1>2. CASE StopSend
  BY <1>2, <1>same DEF StopSend
<1>3. CASE StopNotify
  BY <1>3, <1>same DEF StopNotify
<1>4. CASE StopJoinSend
  BY <1>4, <1>same DEF StopJoinSend
<1>5. CASE StopRetry
  BY <1>5, <1>same DEF StopRetry
<1>6. CASE Exit
  BY <1>6, <1>same DEF Exit
<1>7. CASE SendTop
  BY <1>7, <1>same DEF SendTop
<1>8. CASE SendTake
  <2>1. Head(sendQueue) \in Event /\ Queued = {Head(sendQueue)} \cup Queued'
    BY <1>8, <1>pop DEF SendTake
  <2>2. hand' = Head(sendQueue) /\ Head(sendQueue) # None
    BY <1>8, <2>1 DEF SendTake
  <2>3. Custody'
    <3>1. hand' \in Hand'
      BY <2>2
    <3>2. UNCHANGED <<pending, batch, failedBatch, file, accepted, acked,
                      dropped, lost, erased>>
      BY <1>8 DEF SendTake
    <3>3. Hand = {}
      BY <1>8 DEF SendTake
    <3> QED BY <2>1, <2>2, <3>1, <3>2, <3>3
  <2> QED BY <1>8, <2>3 DEF SendTake
<1>9. CASE SendWait
  BY <1>9, <1>same DEF SendWait
<1>10. CASE SendBlock
  BY <1>10, <1>same DEF SendBlock
<1>11. ASSUME NEW ok \in BOOLEAN, SendPost(ok) PROVE Rest'
  BY <1>11, <1>same DEF SendPost, SendSettled
<1>12. CASE SendPush
  <2>1. /\ sendPc = "push" /\ sendPc' = "append"
        /\ pending' = pending \cup {hand} /\ Queued' = Queued
        /\ UNCHANGED <<file, mainPc, retryPc, hand, batch, failedBatch, cur,
                       tries, counts, history>>
    BY <1>12, <1>same DEF SendPush
  <2>2. Custody'
    BY <2>1
  <2>3. TruncationSafe' /\ HandCovered' /\ DrainCovered'
    BY <2>1
  <2>4. FlushShape' /\ Joined'
    BY <2>1
  <2> QED BY <2>2, <2>3, <2>4
<1>13. ASSUME NEW ok \in BOOLEAN, SendAppend(ok) PROVE Rest'
  <2>1. /\ sendPc = "append" /\ sendPc' = "top" /\ hand # None
        /\ file' \subseteq file \cup {hand} /\ file \subseteq file'
        /\ Queued' = Queued
        /\ ok => hand \in file'
        /\ erased' = erased \cup Unheld'
        /\ UNCHANGED <<pending, mainPc, retryPc, flushing, counts, accepted,
                       lost, exposed>>
    BY <1>13, <1>same DEF SendAppend
  <2>2. hand \in Copies \cup file \cup exposed
    BY <2>1
  <2>3. Custody'
    BY <2>1, <2>2 DEF Unheld
  <2>4. TruncationSafe'
    BY <2>1, <2>2
  <2>5. HandCovered' /\ DrainCovered' /\ FlushShape' /\ Joined'
    BY <2>1
  <2> QED BY <2>3, <2>4, <2>5
<1>14. ASSUME NEW ok \in BOOLEAN, DrainPost(ok) PROVE Rest'
  BY <1>14, <1>same, <1>pop DEF DrainPost, SendSettled
<1>15. ASSUME NEW ok \in BOOLEAN, DrainAppend(ok) PROVE Rest'
  BY <1>15, <1>same, <1>pop DEF DrainAppend
<1>16. CASE DrainDone
  BY <1>16, <1>same DEF DrainDone
<1>17. CASE RetryWake
  BY <1>17, <1>same DEF RetryWake
<1>18. ASSUME NEW ok \in BOOLEAN, FlushRead(ok) PROVE Rest'
  BY <1>18, <1>same DEF FlushRead
<1>19. CASE FlushCollect
  BY <1>19, <1>same DEF FlushCollect, Discard, FailMutexHeld
<1>20. ASSUME NEW e \in Event, NEW ok \in BOOLEAN, FlushPost(e, ok)
       PROVE  Rest'
  <2>1. e \in batch
    BY <1>20 DEF FlushPost, Posting
  <2>2. CASE ok
    BY <1>20, <1>same, <2>1, <2>2 DEF FlushPost
  <2>3. CASE ~ok /\ tries + 1 = MaxRetries
    BY <1>20, <1>same, <2>1, <2>3 DEF FlushPost
  <2>4. CASE ~ok /\ tries + 1 # MaxRetries
    BY <1>20, <1>same, <2>1, <2>4 DEF FlushPost
  <2> QED BY <2>2, <2>3, <2>4
<1>22. CASE FlushPosted
  BY <1>22, <1>same DEF FlushPosted
<1>21. CASE FlushGiveUp
  BY <1>21, <1>same DEF FlushGiveUp, Unheld
<1>23. ASSUME NEW ok \in BOOLEAN, FlushTruncate(ok) PROVE Rest'
  BY <1>23, <1>same DEF FlushTruncate, Unheld
<1>24. ASSUME NEW e \in Event, FlushWrite(e) PROVE Rest'
  BY <1>24, <1>same DEF FlushWrite, Unheld
<1>25. CASE FlushDone
  BY <1>25, <1>same DEF FlushDone
<1>26. CASE ServerFlip
  BY <1>26, <1>same DEF ServerFlip
<1>27. ASSUME NEW e \in Event, GrowOld(e) PROVE Rest'
  BY <1>27, <1>same DEF GrowOld
<1>28. CASE Crash
  BY <1>28, <1>same DEF Crash, Queued
<1>29. CASE UNCHANGED vars
  BY <1>29, <1>same DEF vars
<1> QED BY <1>1, <1>2, <1>3, <1>4, <1>5, <1>6, <1>7, <1>8, <1>9, <1>10, <1>11,
           <1>12, <1>13, <1>14, <1>15, <1>16, <1>17, <1>18, <1>19, <1>20,
           <1>21, <1>22, <1>23, <1>24, <1>25, <1>26, <1>27, <1>28, <1>29
        DEF Next, SendStep, RetryStep, StopStep
-----------------------------------------------------------------------------
LEMMA InitInv == Init => IInv
BY ConstantsOK
   DEF Init, IInv, Typed, TypeOK, LineInWork, Custody, TruncationSafe,
       HandCovered, DrainCovered, FlushShape, Joined, Copies, Held, Queued,
       Hand, SendPcs, RetryPcs, MainPcs

THEOREM InvCorrect == Spec => []IInv
<1>1. Init => IInv
  BY InitInv
<1>2. IInv /\ [Next]_vars => IInv'
  BY InvInductive
<1> QED BY <1>1, <1>2, PTL DEF Spec

(* The types of the notifier's variables hold in every reachable state. *)
THEOREM TypeCorrect == Spec => []TypeOK
BY InvCorrect, PTL DEF IInv, Typed

(* No interleaving of the threads, no number of crashes, failed posts and  *)
(* failed file operations makes an accepted line vanish: it is held,       *)
(* settled, died with a process, or an operation on the queue file failed  *)
(* on it and the rewrite found it in no other place.                       *)
THEOREM CustodyHolds == Spec => []Custody
BY InvCorrect, PTL DEF IInv

(* Rewriting the queue file destroys the only copy of a line, also of one  *)
(* that the send thread appended behind the retry thread's back, only if a *)
(* failed read or write of the file exposed the line before.               *)
THEOREM RewriteIsSafe == Spec => []TruncationSafe
BY InvCorrect, PTL DEF IInv
-----------------------------------------------------------------------------
(* The configuration is read once: no step changes it. *)
LEMMA ServerSetFixed == [Next]_vars => serverSet' = serverSet
<1> USE DEF flags
<1>1. CASE SendStep
  BY <1>1 DEF SendStep, SendTop, SendTake, SendWait, SendBlock, SendPush,
     SendAppend, DrainAppend, DrainDone, SendPost, DrainPost
<1>2. CASE RetryStep
  BY <1>2 DEF RetryStep, RetryWake, FlushRead, FlushCollect,
     FlushPosted, FlushTruncate, FlushGiveUp, FlushDone, FlushWrite, FlushPost
<1>3. CASE StopSend \/ StopStep
  BY <1>3 DEF StopSend, StopStep, StopNotify, StopJoinSend, StopRetry, Exit
<1>4. ASSUME NEW e \in Event, Enqueue(e) \/ GrowOld(e)
      PROVE  serverSet' = serverSet
  BY <1>4 DEF Enqueue, GrowOld
<1>5. CASE ServerFlip \/ Crash
  BY <1>5 DEF ServerFlip, Crash
<1>6. CASE UNCHANGED vars
  BY <1>6 DEF vars
<1> QED BY <1>1, <1>2, <1>3, <1>4, <1>5, <1>6 DEF Next

(* Without a server no line ever takes the path into the queues. *)
Unstored ==
  ~serverSet => /\ pending = {}
                /\ sendPc \notin {"push", "append", "drainAppend"}
                /\ retryPc # "send" /\ failedBatch = {}

(* fail-closed: with no API key, or in dry_run, no step posts a line, puts *)
(* one into pending_queue_ or adds one to the queue file.                  *)
THEOREM FailClosed == Spec => NothingStoredWithoutServer
<1> DEFINE Stores == ~serverSet => pending' = {} /\ file' \subseteq file
                                  /\ received' = received
<1>1. Init => Unstored
  BY DEF Init, Unstored
<1>2. IInv /\ Unstored /\ [Next]_vars => Unstored' /\ [Stores]_vars
  <2> SUFFICES ASSUME IInv, Unstored, [Next]_vars, ~serverSet
               PROVE  Unstored' /\ [Stores]_vars
    BY ServerSetFixed DEF Unstored, vars
  <2> USE DEF Unstored, IInv, FlushShape, flags, queues, pcs, flushing, world,
              counts, history
  <2>1. CASE SendStep
    BY <2>1 DEF SendStep, SendTop, SendTake, SendWait, SendBlock, SendPush,
       SendAppend, DrainAppend, DrainDone, SendPost, DrainPost, HttpPost
  <2>2. CASE RetryStep
    BY <2>2 DEF RetryStep, RetryWake, FlushRead, FlushCollect,
       FlushPosted, FlushTruncate, FlushGiveUp, FlushDone, FlushWrite,
       FlushPost, Discard
  <2>3. CASE StopSend \/ StopStep
    BY <2>3 DEF StopSend, StopStep, StopNotify, StopJoinSend, StopRetry, Exit
  <2>4. ASSUME NEW e \in Event, Enqueue(e) \/ GrowOld(e)
        PROVE  Unstored' /\ [Stores]_vars
    BY <2>4 DEF Enqueue, GrowOld
  <2>5. CASE ServerFlip \/ Crash
    BY <2>5 DEF ServerFlip, Crash
  <2>6. CASE UNCHANGED vars
    BY <2>6 DEF vars
  <2> QED BY <2>1, <2>2, <2>3, <2>4, <2>5, <2>6 DEF Next
<1> QED
  BY <1>1, <1>2, InvCorrect, PTL DEF Spec, NothingStoredWithoutServer
-----------------------------------------------------------------------------
(* What the refinement of EventDelivery needs besides the custody: a line  *)
(* that send_queue_ or SendLoop still has to itself is nowhere else, so a  *)
(* line is confirmed before it is discarded or not at all.                 *)

Distinct ==
  \A i, j \in 1..Len(sendQueue) : sendQueue[i] = sendQueue[j] => i = j

EachOnce == Distinct /\ hand \notin Queued

(* The queued lines; the drain has handed the front one on already. *)
Waiting ==
  Queued \ (IF sendPc = "drainAppend" THEN {Head(sendQueue)} ELSE {})

(* The lines only the send thread has seen. *)
Untouched == Waiting \cup (IF sendPc \in {"post", "push"} THEN Hand ELSE {})

Copied == pending \cup batch \cup failedBatch

Fresh == Untouched \cap (file \cup Copied \cup acked \cup dropped) = {}

(* Everything the program knows was accepted. *)
Known ==
  /\ Held \cup acked \cup dropped \cup lost \subseteq accepted
  /\ exposed \cup erased \subseteq accepted
  /\ \A e \in Event : received[e] > 0 => e \in accepted
  /\ old \subseteq accepted

(* A lost or erased line does not come back. *)
LostIsGone ==
  /\ lost \cap (Held \cup acked \cup dropped) = {}
  /\ erased \cap (Held \cup acked \cup dropped \cup lost) = {}

AckedArrived == \A e \in acked : received[e] > 0

(* The lines the policy allows to discard. *)
Expirable == IF serverSet THEN IF AgeLimit THEN old ELSE {} ELSE Event

ByPolicy == dropped \subseteq Expirable

(* The send thread ends only in a stop, with an empty queue. *)
Stopping ==
  /\ sendPc \in {"drain", "drainAppend", "done"} => ~sendRunning
  /\ ~sendRunning => mainPc # "run"
  /\ sendPc = "done" => sendQueue = <<>>

(* A line being posted by the flush is in its batch only, and undecided. *)
InFlight ==
  retryPc = "send" => /\ serverSet
                      /\ batch \cap (pending \cup failedBatch \cup dropped) = {}

DInv ==
  /\ EachOnce /\ Fresh /\ Known /\ LostIsGone /\ AckedArrived /\ ByPolicy
  /\ Stopping /\ InFlight
-----------------------------------------------------------------------------
(* Pushing a new line and popping the front one keep the queue's lines     *)
(* distinct, and take a line that is not queued a second time.             *)
LEMMA PushDistinct ==
  ASSUME sendQueue \in Seq(Event), Distinct, NEW e \in Event, e \notin Queued,
         sendQueue' = Append(sendQueue, e)
  PROVE  Distinct'
<1>1. /\ Len(sendQueue) \in Nat
      /\ Len(sendQueue') = Len(sendQueue) + 1
      /\ \A i \in 1..Len(sendQueue) : sendQueue'[i] = sendQueue[i]
      /\ sendQueue'[Len(sendQueue) + 1] = e
  OBVIOUS
<1>2. \A i \in 1..Len(sendQueue) : sendQueue[i] # e
  BY DEF Queued
<1> QED BY <1>1, <1>2 DEF Distinct

LEMMA PopDistinct ==
  ASSUME sendQueue \in Seq(Event), sendQueue # <<>>, Distinct,
         sendQueue' = Tail(sendQueue)
  PROVE  /\ Distinct'
         /\ Head(sendQueue) \in Event
         /\ Head(sendQueue) \in Queued
         /\ Queued' = Queued \ {Head(sendQueue)}
<1>1. /\ Len(sendQueue) \in Nat /\ Len(sendQueue) > 0
      /\ Head(sendQueue) = sendQueue[1]
  OBVIOUS
<1>2. /\ Len(sendQueue') = Len(sendQueue) - 1
      /\ \A i \in 1..Len(sendQueue) - 1 : sendQueue'[i] = sendQueue[i + 1]
  BY <1>1
<1>3. Distinct'
  BY <1>1, <1>2 DEF Distinct
<1>4. /\ Head(sendQueue) \in Event
      /\ Queued = {Head(sendQueue)} \cup Queued'
  BY QueuePopped
<1>5. Head(sendQueue) \notin Queued'
  BY <1>1, <1>2 DEF Queued, Distinct
<1> QED BY <1>3, <1>4, <1>5

LEMMA DistinctUnchanged == sendQueue' = sendQueue => Distinct' = Distinct
BY DEF Distinct

(* A post makes only the posted line arrive, and makes it arrive if it     *)
(* succeeds.                                                               *)
LEMMA HttpPostArrives ==
  ASSUME TypeOK, NEW e \in Event, NEW ok \in BOOLEAN, HttpPost(e, ok)
  PROVE  /\ \A f \in Event \ {e} : received'[f] = received[f]
         /\ received'[e] \in {received[e], received[e] + 1}
         /\ received[e] \in Nat
         /\ ok => serverSet /\ received'[e] > 0
         /\ received'[e] # received[e] => serverSet /\ e \notin Rejected
BY DEF TypeOK, HttpPost
(* The three posts of a line *)
LEMMA SendPostDInv ==
  ASSUME IInv, IInv', DInv, NEW ok \in BOOLEAN, SendPost(ok)
  PROVE  DInv'
<1>1. /\ hand \in Event /\ sendPc = "post" /\ HttpPost(hand, ok)
      /\ SendSettled(hand, ok)
      /\ IF ok \/ ~serverSet THEN sendPc' = "top" /\ hand' = None
                             ELSE sendPc' = "push" /\ hand' = hand
      /\ UNCHANGED <<flags, queues, mainPc, retryPc, flushing, serverUp, old,
                     crashes, history>>
  BY DEF IInv, Typed, TypeOK, LineInWork, SendPost
<1>2. /\ \A f \in Event \ {hand} : received'[f] = received[f]
      /\ received'[hand] \in {received[hand], received[hand] + 1}
      /\ received[hand] \in Nat
      /\ ok => serverSet /\ received'[hand] > 0
  BY <1>1, HttpPostArrives DEF IInv, Typed
<1>3. Queued' = Queued /\ Distinct' = Distinct /\ Hand' \subseteq Hand
      /\ Hand = {hand}
  BY <1>1, QueueUnchanged, DistinctUnchanged, ConstantsOK DEF queues, Hand
<1>4. /\ acked' = IF ok THEN acked \cup {hand} ELSE acked
      /\ dropped' = IF ~ok /\ ~serverSet THEN dropped \cup {hand} ELSE dropped
  BY <1>1 DEF SendSettled
<1>held. hand \in Held
  BY <1>3 DEF Held
<1>5. hand \in accepted /\ hand \notin lost \cup erased
  BY <1>held DEF DInv, Known, LostIsGone
<1>6. EachOnce'
  <2>1. Queued \subseteq Event
    <3>1. sendQueue \in Seq(Event)
      BY DEF IInv, Typed, TypeOK
    <3> QED BY <3>1 DEF Queued
  <2>2. hand' = hand \/ hand' = None
    BY <1>1
  <2>3. hand \notin Queued /\ None \notin Queued /\ Distinct
    BY <2>1, ConstantsOK DEF DInv, EachOnce
  <2>4. hand' \notin Queued'
    BY <1>3, <2>2, <2>3
  <2> QED BY <1>3, <2>3, <2>4 DEF EachOnce
<1>7. Fresh'
  <2>1. Waiting' = Waiting
    BY <1>1, <1>3 DEF Waiting, queues
  <2>2. Untouched = Waiting \cup {hand} /\ hand \notin Waiting
    BY <1>1, <1>3 DEF Untouched, DInv, EachOnce, Waiting
  <2>3. CASE ok \/ ~serverSet
    BY <1>1, <1>4, <2>1, <2>2, <2>3
       DEF DInv, Fresh, Untouched, Copied, queues, flushing
  <2>4. CASE ~ok /\ serverSet
    BY <1>1, <1>3, <1>4, <2>1, <2>2, <2>4
       DEF DInv, Fresh, Untouched, Copied, queues, flushing
  <2> QED BY <2>3, <2>4
<1>8. Known'
  <2>1. Held' \subseteq Held
    BY <1>1, <1>3 DEF Held, queues, flushing
  <2> QED BY <1>1, <1>2, <1>4, <1>5, <2>1 DEF DInv, Known, history
<1>9. LostIsGone'
  <2>1. Held' \subseteq Held
    BY <1>1, <1>3 DEF Held, queues, flushing
  <2> QED BY <1>1, <1>4, <1>5, <2>1 DEF DInv, LostIsGone, history
<1>10. AckedArrived'
  BY <1>1, <1>2, <1>4 DEF DInv, AckedArrived, IInv, Typed, TypeOK
<1>11. ByPolicy'
  BY <1>1, <1>4 DEF DInv, ByPolicy, Expirable, IInv, Typed, TypeOK, flags
<1>12. Stopping' /\ InFlight'
  BY <1>1, <1>4 DEF DInv, Stopping, InFlight, flags, queues, flushing
<1> QED BY <1>6, <1>7, <1>8, <1>9, <1>10, <1>11, <1>12 DEF DInv

LEMMA DrainPostDInv ==
  ASSUME IInv, IInv', DInv, NEW ok \in BOOLEAN, DrainPost(ok)
  PROVE  DInv'
<1> DEFINE e == Head(sendQueue)
<1>1. /\ sendPc = "drain" /\ sendQueue # <<>> /\ HttpPost(e, ok)
      /\ SendSettled(e, ok)
      /\ IF ok \/ ~serverSet
         THEN sendQueue' = Tail(sendQueue) /\ UNCHANGED <<sendPc, pending>>
         ELSE /\ sendPc' = "drainAppend" /\ UNCHANGED sendQueue
              /\ pending' = pending \cup {e}
      /\ UNCHANGED <<flags, file, mainPc, retryPc, hand, flushing, serverUp,
                     old, crashes, history>>
  BY DEF DrainPost
<1>2. e \in Event /\ e \in Queued /\ hand = None
  BY <1>1, QueuePopped, PopRange
     DEF IInv, Typed, TypeOK, LineInWork, Queued
<1>3. /\ \A f \in Event \ {e} : received'[f] = received[f]
      /\ received'[e] \in {received[e], received[e] + 1}
      /\ received[e] \in Nat
      /\ ok => serverSet /\ received'[e] > 0
  BY <1>1, <1>2, HttpPostArrives DEF IInv, Typed
<1>4. /\ acked' = IF ok THEN acked \cup {e} ELSE acked
      /\ dropped' = IF ~ok /\ ~serverSet THEN dropped \cup {e} ELSE dropped
  BY <1>1 DEF SendSettled
<1>5. e \in Held /\ e \in accepted /\ e \notin lost
  BY <1>2 DEF DInv, Known, LostIsGone, Held
<1>6. /\ EachOnce' /\ Queued' \subseteq Queued
      /\ Waiting = Queued /\ Waiting' = Queued \ {e}
  <2>1. CASE ok \/ ~serverSet
    <3>1. Distinct' /\ Queued' = Queued \ {e}
      BY <1>1, <2>1, PopDistinct DEF IInv, Typed, TypeOK, DInv, EachOnce
    <3>2. sendPc' = "drain"
      BY <1>1, <2>1
    <3> QED BY <1>1, <3>1, <3>2 DEF EachOnce, DInv, Waiting
  <2>2. CASE ~(ok \/ ~serverSet)
    <3>1. sendQueue' = sendQueue /\ sendPc' = "drainAppend"
      BY <1>1, <2>2
    <3>2. Distinct' = Distinct /\ Queued' = Queued
      BY <3>1, QueueUnchanged, DistinctUnchanged
    <3> QED BY <1>1, <3>1, <3>2 DEF EachOnce, DInv, Waiting
  <2> QED BY <2>1, <2>2
<1>7. Fresh'
  <2>1. Untouched = Queued /\ Untouched' = Queued \ {e}
    BY <1>1, <1>6 DEF Untouched
  <2>2. /\ pending' \subseteq pending \cup {e} /\ acked' \subseteq acked \cup {e}
        /\ dropped' \subseteq dropped \cup {e}
        /\ UNCHANGED <<file, batch, failedBatch>>
    BY <1>1, <1>4 DEF flushing
  <2> QED BY <2>1, <2>2 DEF DInv, Fresh, Copied
<1>8. Held' \subseteq Held
  <2>1. pending' \subseteq pending \cup {e}
    BY <1>1
  <2> QED BY <2>1, <1>1, <1>5, <1>6 DEF Held, Hand, flushing
<1>9. Known'
  BY <1>1, <1>3, <1>4, <1>5, <1>8 DEF DInv, Known, history
<1>10. LostIsGone'
  BY <1>1, <1>4, <1>5, <1>8 DEF DInv, LostIsGone, history
<1>11. AckedArrived'
  BY <1>2, <1>3, <1>4 DEF DInv, AckedArrived, IInv, Typed, TypeOK
<1>12. ByPolicy'
  BY <1>1, <1>2, <1>4 DEF DInv, ByPolicy, Expirable, flags
<1>13. Stopping'
  BY <1>1 DEF DInv, Stopping, flags
<1>14. InFlight'
  <2>1. e \notin batch
    BY <1>1, <1>2, <1>6 DEF DInv, Fresh, Untouched, Copied
  <2> QED BY <1>1, <1>4, <2>1 DEF DInv, InFlight, flags, flushing
<1> QED BY <1>6, <1>7, <1>9, <1>10, <1>11, <1>12, <1>13, <1>14 DEF DInv

LEMMA FlushPostDInv ==
  ASSUME IInv, IInv', DInv, NEW e \in Event, NEW ok \in BOOLEAN,
         FlushPost(e, ok)
  PROVE  DInv'
<1>1. /\ retryPc = "send" /\ HttpPost(e, ok)
      /\ acked' = IF ok THEN acked \cup {e} ELSE acked
      /\ UNCHANGED <<flags, queues, pcs, hand, serverUp, old, crashes, dropped,
                     history>>
  BY DEF FlushPost
<1>2. e \in batch
  BY DEF FlushPost, Posting, IInv, FlushShape, Typed, TypeOK
<1>3. /\ batch' \subseteq batch /\ failedBatch' \subseteq failedBatch \cup {e}
      /\ batch' \cap failedBatch' \subseteq batch \cap failedBatch
  BY <1>2 DEF FlushPost, DInv, InFlight
<1>4. /\ \A f \in Event \ {e} : received'[f] = received[f]
      /\ received'[e] \in {received[e], received[e] + 1}
      /\ received[e] \in Nat
      /\ ok => serverSet /\ received'[e] > 0
  BY <1>1, HttpPostArrives DEF IInv, Typed
<1>5. Queued' = Queued /\ Distinct' = Distinct
  BY <1>1, QueueUnchanged, DistinctUnchanged DEF queues
<1>6. e \in Held /\ e \in accepted /\ e \notin lost
  BY <1>2 DEF DInv, Known, LostIsGone, Held
<1>7. Held' \subseteq Held
  BY <1>1, <1>2, <1>3, <1>5 DEF Held, Hand, queues
<1>8. EachOnce' /\ Untouched' = Untouched
  BY <1>1, <1>5 DEF EachOnce, DInv, Untouched, Waiting, Hand, queues, pcs
<1>9. Fresh'
  BY <1>1, <1>2, <1>3, <1>8 DEF DInv, Fresh, Copied, queues
<1>10. Known' /\ LostIsGone'
  BY <1>1, <1>4, <1>6, <1>7 DEF DInv, Known, LostIsGone, history
<1>11. AckedArrived'
  BY <1>1, <1>4 DEF DInv, AckedArrived, IInv, Typed, TypeOK
<1>12. ByPolicy' /\ Stopping' /\ InFlight'
  BY <1>1, <1>3 DEF DInv, ByPolicy, Expirable, Stopping, InFlight, flags,
                    queues, pcs
<1> QED BY <1>8, <1>9, <1>10, <1>11, <1>12 DEF DInv

(* The flush drops what the policy allows, and keeps only what it does not. *)
LEMMA FlushCollectDInv ==
  ASSUME IInv, IInv', DInv, FlushCollect
  PROVE  DInv'
<1> DEFINE lines == batch \cup pending
           fresh == lines \ Discard(lines)
<1>1. /\ retryPc = "collect" /\ pending' = {} /\ batch' = fresh
      /\ dropped' = dropped \cup Discard(lines)
      /\ retryPc' = IF lines = {} THEN "sleep"
                    ELSE IF fresh = {} THEN "truncate" ELSE "send"
      /\ UNCHANGED <<flags, sendQueue, file, mainPc, sendPc, hand, cur,
                     tries, failedBatch, world, received, acked, history>>
  BY DEF FlushCollect
<1>2. lines \subseteq Event /\ failedBatch = {}
  BY <1>1 DEF IInv, Typed, TypeOK, FlushShape
<1>3. Discard(lines) = lines \cap Expirable
  BY <1>2 DEF Discard, Expirable
<1>4. Expirable' = Expirable
  BY <1>1 DEF Expirable, flags, world
<1>5. Queued' = Queued /\ Distinct' = Distinct
  BY <1>1, QueueUnchanged, DistinctUnchanged
<1>6. EachOnce' /\ Untouched' = Untouched
  BY <1>1, <1>5 DEF EachOnce, DInv, Untouched, Waiting, Hand
<1>7. Fresh'
  BY <1>1, <1>2, <1>3, <1>6 DEF DInv, Fresh, Copied
<1>8. Held' \subseteq Held /\ lines \subseteq Held
  BY <1>1, <1>5 DEF Held, Hand
<1>9. Known' /\ LostIsGone'
  BY <1>1, <1>3, <1>8 DEF DInv, Known, LostIsGone, history, world
<1>10. AckedArrived' /\ Stopping'
  BY <1>1 DEF DInv, AckedArrived, Stopping, flags
<1>11. ByPolicy'
  BY <1>1, <1>3, <1>4 DEF DInv, ByPolicy
<1>12. InFlight'
  <2>1. SUFFICES ASSUME retryPc' = "send" PROVE InFlight'
    BY DEF InFlight
  <2>2. fresh # {}
    BY <1>1, <2>1
  <2>3. serverSet
    BY <1>2, <1>3, <2>2 DEF Expirable
  <2>4. fresh \cap (dropped \cup Discard(lines)) = {}
    BY <1>3 DEF DInv, ByPolicy
  <2> QED BY <1>1, <1>2, <2>3, <2>4 DEF InFlight, flags
<1> QED BY <1>6, <1>7, <1>9, <1>10, <1>11, <1>12 DEF DInv

(* Every step preserves it. *)
LEMMA DInvInductive == IInv /\ DInv /\ [Next]_vars => DInv'
<1> SUFFICES ASSUME IInv, IInv', DInv, [Next]_vars PROVE DInv'
  BY InvInductive
<1> USE ConstantsOK DEF IInv, Typed, TypeOK, LineInWork, FlushShape, Joined,
          DInv, EachOnce, Waiting, Untouched, Copied, Fresh, Known, LostIsGone,
          AckedArrived, Expirable, ByPolicy, Stopping, InFlight, Held, Hand,
          flags, queues, pcs, flushing, world, counts, history
<1>same. sendQueue' = sendQueue => Queued' = Queued /\ Distinct' = Distinct
  BY QueueUnchanged, DistinctUnchanged
<1>push. ASSUME NEW e \in Event, e \notin Queued,
                sendQueue' = Append(sendQueue, e)
         PROVE  Queued' = Queued \cup {e} /\ Distinct'
  BY <1>push, QueuePushed, PushDistinct
<1>pop. ASSUME sendQueue # <<>>, sendQueue' = Tail(sendQueue)
        PROVE  /\ Head(sendQueue) \in Event /\ Head(sendQueue) \in Queued
               /\ Queued' = Queued \ {Head(sendQueue)} /\ Distinct'
  BY <1>pop, PopDistinct
<1>head. sendQueue # <<>> => Head(sendQueue) \in Queued
  BY DEF Queued
<1>1. ASSUME NEW e \in Event, Enqueue(e) PROVE DInv'
  BY <1>1, <1>push DEF Enqueue, SendMutexHeld
<1>2. CASE StopSend
  BY <1>2, <1>same DEF StopSend
<1>3. CASE StopNotify
  BY <1>3, <1>same DEF StopNotify
<1>4. CASE StopJoinSend
  BY <1>4, <1>same DEF StopJoinSend
<1>5. CASE StopRetry
  BY <1>5, <1>same DEF StopRetry
<1>6. CASE Exit
  BY <1>6, <1>same DEF Exit, Queued
<1>7. CASE SendTop
  BY <1>7, <1>same DEF SendTop
<1>8. CASE SendTake
  BY <1>8, <1>pop DEF SendTake
<1>9. CASE SendWait
  BY <1>9, <1>same DEF SendWait
<1>10. CASE SendBlock
  BY <1>10, <1>same DEF SendBlock
<1>11. ASSUME NEW ok \in BOOLEAN, SendPost(ok) PROVE DInv'
  <2> HIDE DEF IInv, DInv
  <2> QED BY <1>11, SendPostDInv
<1>12. CASE SendPush
  BY <1>12, <1>same DEF SendPush
<1>13. ASSUME NEW ok \in BOOLEAN, SendAppend(ok) PROVE DInv'
  <2>1. /\ sendPc = "append" /\ sendPc' = "top" /\ hand' = None
        /\ file' \subseteq file \cup Hand /\ Hand' = {}
        /\ erased' = erased \cup Unheld'
        /\ UNCHANGED <<flags, sendQueue, pending, mainPc, retryPc, flushing,
                       world, counts, accepted, lost, exposed>>
    BY <1>13 DEF SendAppend
  <2> QED BY <2>1, <1>same DEF Unheld
<1>14. ASSUME NEW ok \in BOOLEAN, DrainPost(ok) PROVE DInv'
  <2> HIDE DEF IInv, DInv
  <2> QED BY <1>14, DrainPostDInv
<1>15. ASSUME NEW ok \in BOOLEAN, DrainAppend(ok) PROVE DInv'
  BY <1>15, <1>pop DEF DrainAppend
<1>16. CASE DrainDone
  BY <1>16, <1>same DEF DrainDone
<1>17. CASE RetryWake
  BY <1>17, <1>same DEF RetryWake
<1>18. ASSUME NEW ok \in BOOLEAN, FlushRead(ok) PROVE DInv'
  <2>1. /\ batch' \subseteq file /\ retryPc' = "collect"
        /\ exposed' \subseteq exposed \cup file
        /\ UNCHANGED <<flags, queues, mainPc, sendPc, hand, failedBatch, world,
                       counts, accepted, lost, erased>>
    BY <1>18 DEF FlushRead
  <2> QED BY <2>1, <1>same
<1>19. CASE FlushCollect
  <2> HIDE DEF IInv, DInv
  <2> QED BY <1>19, FlushCollectDInv
<1>20. ASSUME NEW e \in Event, NEW ok \in BOOLEAN, FlushPost(e, ok)
       PROVE  DInv'
  <2> HIDE DEF IInv, DInv
  <2> QED BY <1>20, FlushPostDInv
<1>22. CASE FlushPosted
  BY <1>22, <1>same DEF FlushPosted
<1>21. CASE FlushGiveUp
  <2>1. /\ batch' = {} /\ failedBatch' = {} /\ retryPc' = "sleep"
        /\ exposed' = exposed \cup (batch \ file)
        /\ erased' = erased \cup Unheld'
        /\ UNCHANGED <<flags, queues, mainPc, sendPc, hand, world, counts,
                       accepted, lost>>
    BY <1>21 DEF FlushGiveUp
  <2> QED BY <2>1, <1>same DEF Unheld
<1>23. ASSUME NEW ok \in BOOLEAN, FlushTruncate(ok) PROVE DInv'
  <2>1. /\ file' \subseteq file /\ batch' \subseteq batch \cup failedBatch
        /\ failedBatch' \subseteq failedBatch
        /\ retryPc' \in {"write", "sleep"}
        /\ exposed' \subseteq exposed \cup failedBatch
        /\ erased' = erased \cup Unheld'
        /\ UNCHANGED <<flags, sendQueue, pending, mainPc, sendPc, hand, world,
                       counts, accepted, lost>>
    BY <1>23 DEF FlushTruncate
  <2> QED BY <2>1, <1>same DEF Unheld
<1>24. ASSUME NEW e \in Event, FlushWrite(e) PROVE DInv'
  <2>1. /\ file' \subseteq file \cup {e} /\ e \in batch /\ batch' = batch \ {e}
        /\ retryPc = "write"
        /\ erased' = erased \cup Unheld'
        /\ UNCHANGED <<flags, sendQueue, pending, pcs, hand, cur, tries,
                       failedBatch, world, counts, accepted, lost, exposed>>
    BY <1>24 DEF FlushWrite
  <2> QED BY <2>1, <1>same DEF Unheld
<1>25. CASE FlushDone
  BY <1>25, <1>same DEF FlushDone
<1>26. CASE ServerFlip
  BY <1>26, <1>same DEF ServerFlip
<1>27. ASSUME NEW e \in Event, GrowOld(e) PROVE DInv'
  BY <1>27, <1>same DEF GrowOld
<1>28. CASE Crash
  BY <1>28 DEF Crash, Queued, Distinct
<1>29. CASE UNCHANGED vars
  BY <1>29, <1>same DEF vars
<1> HIDE DEF IInv, DInv
<1> QED BY <1>1, <1>2, <1>3, <1>4, <1>5, <1>6, <1>7, <1>8, <1>9, <1>10, <1>11,
           <1>12, <1>13, <1>14, <1>15, <1>16, <1>17, <1>18, <1>19, <1>20,
           <1>21, <1>22, <1>23, <1>24, <1>25, <1>26, <1>27, <1>28, <1>29
        DEF Next, SendStep, RetryStep, StopStep
LEMMA InitDInv == Init => DInv
BY ConstantsOK
   DEF Init, DInv, EachOnce, Distinct, Waiting, Untouched, Copied, Fresh,
       Known, LostIsGone, AckedArrived, Expirable, ByPolicy, Stopping,
       InFlight, Held, Queued, Hand

(* What the refinement and the bound on duplicates rest on: where the      *)
(* threads can hold a line at once, and what a line in each place has met. *)
THEOREM DInvCorrect == Spec => []DInv
<1>1. Init => DInv
  BY InitDInv
<1>2. IInv /\ DInv /\ [Next]_vars => DInv'
  BY DInvInductive
<1> QED BY <1>1, <1>2, InvCorrect, PTL DEF Spec
-----------------------------------------------------------------------------
(* The refinement.  By the custody the phase of a line follows from the    *)
(* counts alone: nothing has vanished.                                     *)
Where(e) ==
  IF e \notin accepted THEN "new"
  ELSE IF e \in acked THEN "confirmed"
  ELSE IF e \in dropped THEN "discarded"
  ELSE IF e \in lost THEN "lost"
  ELSE IF e \in erased THEN "erased" ELSE "held"

Refused == IF serverSet THEN Rejected ELSE Event
Arrived == {e \in Event : received[e] > 0}
Ended == crashes + IF mainPc = "stopped" THEN 1 ELSE 0
Phases == [e \in Event |-> Where(e)]

LEMMA NothingVanished == IInv /\ DInv => [e \in Event |-> Phase(e)] = Phases
<1> SUFFICES ASSUME IInv, DInv, NEW e \in Event PROVE Phase(e) = Where(e)
  BY DEF Phases
<1>1. e \in accepted => e \in Held \cup acked \cup dropped \cup lost \cup erased
  BY DEF IInv, Custody
<1>2. acked \cup dropped \cup lost \cup erased \subseteq accepted
  BY DEF DInv, Known
<1>3. CASE e \notin accepted
  BY <1>2, <1>3 DEF Phase, Where
<1>4. CASE e \in acked
  BY <1>2, <1>4 DEF Phase, Where
<1>5. CASE e \in dropped \ acked
  BY <1>2, <1>5 DEF Phase, Where
<1>6. CASE e \in lost \ (acked \cup dropped)
  BY <1>2, <1>6 DEF Phase, Where
<1>7. CASE e \in erased \ (acked \cup dropped \cup lost)
  BY <1>2, <1>7 DEF Phase, Where
<1>8. CASE e \in accepted \ (acked \cup dropped \cup lost \cup erased)
  BY <1>1, <1>2, <1>8 DEF Phase, Where
<1> QED BY <1>3, <1>4, <1>5, <1>6, <1>7, <1>8

LEMMA NothingVanishedNext ==
  (IInv /\ DInv)' => ([e \in Event |-> Phase(e)] = Phases)'
BY NothingVanished, PTL

(* A step of the abstract specification, in terms of the counts. *)
AbsNext ==
  \/ \E e \in Event :
       \/ /\ Where(e) = "new" /\ Phases' = [Phases EXCEPT ![e] = "held"]
          /\ UNCHANGED <<Refused, Arrived, Expirable, Ended, faults, exposed>>
       \/ /\ Where(e) # "new" /\ e \notin Refused
          /\ Arrived' = Arrived \cup {e}
          /\ \/ Phases' = Phases
             \/ /\ Where(e) = "held"
                /\ Phases' = [Phases EXCEPT ![e] = "confirmed"]
          /\ UNCHANGED <<Refused, Expirable, Ended, faults, exposed>>
       \/ /\ Where(e) # "new" /\ Expirable' = Expirable \cup {e}
          /\ UNCHANGED <<Refused, Phases, Arrived, Ended, faults, exposed>>
  \/ \E S \in SUBSET Event :
       \/ /\ S \subseteq {e \in Expirable : Where(e) = "held"}
          /\ Phases' = [e \in Event |-> IF e \in S THEN "discarded" ELSE Where(e)]
          /\ UNCHANGED <<Refused, Arrived, Expirable, Ended, faults, exposed>>
       \/ /\ S \subseteq {e \in Event : Where(e) = "held"}
          /\ Phases' = [e \in Event |-> IF e \in S THEN "lost" ELSE Where(e)]
          /\ Ended' = Ended + 1 /\ exposed' = {}
          /\ UNCHANGED <<Refused, Arrived, Expirable, faults>>
       \/ /\ S \subseteq {e \in exposed' : Where(e) = "held"}
          /\ Phases' = [e \in Event |-> IF e \in S THEN "erased" ELSE Where(e)]
          /\ \/ UNCHANGED <<faults, exposed>>
             \/ /\ faults' = faults + 1
                /\ exposed \subseteq exposed' /\ exposed' \subseteq Event
          /\ UNCHANGED <<Refused, Arrived, Expirable, Ended>>
  \/ /\ exposed' \subseteq exposed
     /\ UNCHANGED <<Refused, Phases, Arrived, Expirable, Ended, faults>>

AbsVars == <<Refused, Phases, Arrived, Expirable, Ended, faults, exposed>>

LEMMA AbsNextRefines ==
  ASSUME IInv, DInv, IInv', DInv', [AbsNext]_AbsVars
  PROVE  [Delivery!Next]_(Delivery!vars)
<1>1. [e \in Event |-> Phase(e)] = Phases
  BY NothingVanished
<1>2. [e \in Event |-> Phase(e)]' = Phases'
  BY NothingVanishedNext
<1>3. \A e \in Event : Phases[e] = Where(e)
  BY DEF Phases
<1>4. Expirable \subseteq Event
  BY DEF Expirable, IInv, Typed, TypeOK
<1>5. CASE UNCHANGED AbsVars
  BY <1>1, <1>2, <1>5
     DEF AbsVars, Delivery!vars, Refused, Arrived, Expirable, Ended
<1>6. CASE AbsNext
  <2> USE <1>1, <1>2, <1>3, <1>4 DEF Delivery!disk, Refused, Arrived, Expirable,
          Ended
  <2>1. ASSUME NEW e \in Event,
               \/ /\ Where(e) = "new" /\ Phases' = [Phases EXCEPT ![e] = "held"]
                  /\ UNCHANGED <<Refused, Arrived, Expirable, Ended, faults,
                                 exposed>>
               \/ /\ Where(e) # "new" /\ e \notin Refused
                  /\ Arrived' = Arrived \cup {e}
                  /\ \/ Phases' = Phases
                     \/ /\ Where(e) = "held"
                        /\ Phases' = [Phases EXCEPT ![e] = "confirmed"]
                  /\ UNCHANGED <<Refused, Expirable, Ended, faults, exposed>>
               \/ /\ Where(e) # "new" /\ Expirable' = Expirable \cup {e}
                  /\ UNCHANGED <<Refused, Phases, Arrived, Ended, faults, exposed>>
        PROVE  Delivery!Accept(e) \/ Delivery!Arrive(e) \/ Delivery!Expire(e)
    BY <2>1 DEF Delivery!Accept, Delivery!Arrive, Delivery!Expire
  <2>2. ASSUME NEW S \in SUBSET Event,
               S \subseteq {e \in Expirable : Where(e) = "held"},
               Phases' = [e \in Event |-> IF e \in S THEN "discarded" ELSE Where(e)],
               UNCHANGED <<Refused, Arrived, Expirable, Ended, faults, exposed>>
        PROVE  Delivery!Discard(S)
    BY <2>2 DEF Delivery!Discard
  <2>3. ASSUME NEW S \in SUBSET Event,
               S \subseteq {e \in Event : Where(e) = "held"},
               Phases' = [e \in Event |-> IF e \in S THEN "lost" ELSE Where(e)],
               Ended' = Ended + 1, exposed' = {},
               UNCHANGED <<Refused, Arrived, Expirable, faults>>
        PROVE  Delivery!End(S)
    BY <2>3 DEF Delivery!End
  <2>4. ASSUME NEW S \in SUBSET Event,
               S \subseteq {e \in exposed' : Where(e) = "held"},
               Phases' = [e \in Event |-> IF e \in S THEN "erased" ELSE Where(e)],
               UNCHANGED <<Refused, Arrived, Expirable, Ended>>,
               exposed' \subseteq Event
        PROVE  Delivery!Erase(S)
    BY <2>4 DEF Delivery!Erase
  <2>5. ASSUME exposed' \subseteq exposed,
               UNCHANGED <<Refused, Phases, Arrived, Expirable, Ended, faults>>
        PROVE  Delivery!Cover
    BY <2>5 DEF Delivery!Cover
  <2>6. exposed' \subseteq Event
    BY DEF IInv, Typed, TypeOK
  <2> QED BY <1>6, <2>1, <2>2, <2>3, <2>4, <2>5, <2>6
          DEF AbsNext, Delivery!Next, Delivery!Fault
<1> QED BY <1>5, <1>6
(* A step that leaves the counts alone is a stutter of the abstraction. *)
LEMMA Quiet ==
  ASSUME UNCHANGED <<serverSet, old, crashes, accepted, received, acked,
                     dropped, lost, faults, exposed, erased>>,
         mainPc' = "stopped" <=> mainPc = "stopped"
  PROVE  UNCHANGED AbsVars
BY DEF AbsVars, Refused, Phases, Where, Arrived, Expirable, Ended

(* A failed file operation exposes lines, and a rewrite of the file erases *)
(* of the exposed lines those that are nowhere else.                       *)
LEMMA FaultImplements ==
  ASSUME IInv, DInv, DInv',
         UNCHANGED <<serverSet, old, crashes, accepted, received, acked,
                     dropped, lost>>,
         mainPc' = "stopped" <=> mainPc = "stopped",
         erased \subseteq erased', erased' \subseteq erased \cup exposed',
         \/ UNCHANGED <<faults, exposed>>
         \/ faults' = faults + 1 /\ exposed \subseteq exposed'
  PROVE  AbsNext
<1> DEFINE S == erased' \ erased
<1>1. S \subseteq accepted /\ S \cap (lost \cup acked \cup dropped \cup erased) = {}
  BY DEF DInv, Known, LostIsGone
<1>2. exposed' \subseteq accepted /\ accepted \subseteq Event
  BY DEF IInv, DInv, Known, Typed, TypeOK
<1>3. S \in SUBSET Event /\ S \subseteq {e \in exposed' : Where(e) = "held"}
  BY <1>1, <1>2 DEF Where
<1>4. \A e \in Event : Where(e)' = IF e \in S THEN "erased" ELSE Where(e)
  BY <1>1 DEF Where
<1>5. Phases' = [e \in Event |-> IF e \in S THEN "erased" ELSE Where(e)]
  BY <1>4 DEF Phases
<1>6. UNCHANGED <<Refused, Arrived, Expirable, Ended>>
  BY DEF Refused, Arrived, Expirable, Ended
<1>7. exposed' \subseteq Event
  BY <1>2
<1> HIDE DEF S
<1> QED BY <1>3, <1>5, <1>6, <1>7 DEF AbsNext

(* One post, whoever makes it, is an arrival, a discard or a stutter. *)
LEMMA PostImplements ==
  ASSUME IInv, DInv, NEW e \in Event, NEW ok \in BOOLEAN, HttpPost(e, ok),
         UNCHANGED <<serverSet, old, crashes, accepted, lost, faults, exposed,
                     erased>>,
         mainPc' = "stopped" <=> mainPc = "stopped",
         e \in accepted, e \notin lost, e \notin erased, serverSet => e \notin dropped,
         acked' = IF ok THEN acked \cup {e} ELSE acked,
         \/ dropped' = dropped
         \/ ~ok /\ ~serverSet /\ dropped' = dropped \cup {e}
  PROVE  [AbsNext]_AbsVars
<1>1. UNCHANGED <<Refused, Expirable, Ended, faults, exposed>>
  BY DEF Refused, Expirable, Ended
<1>2. received \in [Event -> Nat]
  BY DEF IInv, Typed, TypeOK
<1>3. \A f \in Event \ {e} : Where(f)' = Where(f)
  BY DEF Where
<1>4. Where(e) # "new"
  BY DEF Where
<1>5. CASE received' = [received EXCEPT ![e] = @ + 1]
  <2>1. serverSet /\ e \notin Refused /\ e \notin dropped /\ dropped' = dropped
    BY <1>2, <1>5 DEF HttpPost, Refused
  <2>2. Arrived' = Arrived \cup {e}
    BY <1>2, <1>5 DEF Arrived
  <2>3. Where(e) \in {"held", "confirmed"}
    BY <2>1 DEF Where
  <2>4. CASE ok
    <3>1. Where(e)' = "confirmed"
      BY <2>4 DEF Where
    <3>2. Phases' = [Phases EXCEPT ![e] = "confirmed"]
      BY <1>3, <3>1 DEF Phases
    <3>3. Where(e) = "confirmed" => Phases' = Phases
      BY <1>3, <3>1 DEF Phases
    <3> QED BY <1>1, <1>4, <2>1, <2>2, <2>3, <3>2, <3>3 DEF AbsNext
  <2>5. CASE ~ok
    <3>1. Phases' = Phases
      BY <2>1, <2>5 DEF Phases, Where
    <3> QED BY <1>1, <1>4, <2>1, <2>2, <3>1 DEF AbsNext
  <2> QED BY <2>4, <2>5
<1>6. CASE received' = received
  <2>1. ~ok /\ acked' = acked /\ Arrived' = Arrived
    BY <1>2, <1>6 DEF HttpPost, Arrived
  <2>2. CASE Where(e)' = Where(e)
    BY <1>1, <1>3, <2>1, <2>2 DEF Phases, AbsVars
  <2>3. CASE Where(e)' # Where(e)
    <3>1. ~serverSet /\ dropped' = dropped \cup {e}
      BY <2>1, <2>3 DEF Where
    <3>2. Where(e) = "held" /\ Where(e)' = "discarded"
      BY <2>1, <2>3, <3>1 DEF Where
    <3>3. {e} \subseteq {f \in Expirable : Where(f) = "held"}
      BY <3>1, <3>2 DEF Expirable
    <3>4. Phases' = [f \in Event |-> IF f \in {e} THEN "discarded" ELSE Where(f)]
      BY <1>3, <3>2 DEF Phases
    <3> QED BY <1>1, <2>1, <3>3, <3>4 DEF AbsNext
  <2> QED BY <2>2, <2>3
<1> QED BY <1>5, <1>6 DEF HttpPost
LEMMA SendPostImplements ==
  ASSUME IInv, DInv, NEW ok \in BOOLEAN, SendPost(ok)
  PROVE  [AbsNext]_AbsVars
<1>1. /\ hand \in Event /\ HttpPost(hand, ok)
      /\ sendPc = "post" /\ SendSettled(hand, ok)
      /\ UNCHANGED <<serverSet, old, crashes, accepted, lost, faults, exposed,
                     erased, mainPc>>
  BY DEF IInv, Typed, TypeOK, LineInWork, SendPost, flags, history
<1>2. hand \in Hand
  BY <1>1, ConstantsOK DEF Hand
<1>3. hand \in Held /\ hand \in Untouched
  BY <1>1, <1>2 DEF Held, Untouched
<1>4. hand \in accepted /\ hand \notin lost \cup erased /\ hand \notin dropped
  BY <1>3 DEF DInv, Known, LostIsGone, Fresh
<1> QED BY <1>1, <1>4, PostImplements DEF SendSettled

LEMMA DrainPostImplements ==
  ASSUME IInv, DInv, NEW ok \in BOOLEAN, DrainPost(ok)
  PROVE  [AbsNext]_AbsVars
<1> DEFINE e == Head(sendQueue)
<1>1. /\ sendPc = "drain" /\ sendQueue # <<>> /\ HttpPost(e, ok)
      /\ SendSettled(e, ok)
      /\ UNCHANGED <<serverSet, old, crashes, accepted, lost, faults, exposed,
                     erased, mainPc>>
  BY DEF DrainPost, flags, history
<1>2. e \in Event /\ e \in Queued
  BY <1>1 DEF IInv, Typed, TypeOK, Queued
<1>3. e \in Held /\ e \in Untouched
  BY <1>1, <1>2 DEF Held, Untouched, Waiting
<1>4. e \in accepted /\ e \notin lost \cup erased /\ e \notin dropped
  BY <1>3 DEF DInv, Known, LostIsGone, Fresh
<1> HIDE DEF e
<1> QED BY <1>1, <1>2, <1>4, PostImplements DEF SendSettled

LEMMA FlushPostImplements ==
  ASSUME IInv, DInv, NEW e \in Event, NEW ok \in BOOLEAN, FlushPost(e, ok)
  PROVE  [AbsNext]_AbsVars
<1>1. /\ retryPc = "send" /\ HttpPost(e, ok)
      /\ acked' = IF ok THEN acked \cup {e} ELSE acked
      /\ UNCHANGED <<serverSet, old, crashes, accepted, lost, faults, exposed,
                     erased, mainPc, dropped>>
  BY DEF FlushPost, flags, pcs, history
<1>2. e \in batch
  BY DEF FlushPost, Posting, IInv, FlushShape, Typed, TypeOK
<1>3. e \in accepted /\ e \notin lost \cup erased /\ e \notin dropped
  BY <1>1, <1>2 DEF DInv, Known, LostIsGone, InFlight, Held
<1> QED BY <1>1, <1>3, PostImplements

(* The flush discards, and the end of a process loses, lines that were held. *)
LEMMA FlushCollectImplements ==
  ASSUME IInv, DInv, FlushCollect
  PROVE  [AbsNext]_AbsVars
<1> DEFINE gone == Discard(batch \cup pending)
           S == {e \in gone : Where(e) = "held"}
<1>1. /\ dropped' = dropped \cup gone
      /\ UNCHANGED <<serverSet, old, crashes, accepted, received, acked, lost,
                     mainPc, faults, exposed, erased>>
  BY DEF FlushCollect, flags, world, history
<1>2. gone \subseteq Expirable /\ gone \subseteq batch \cup pending
  BY DEF Discard, Expirable, IInv, Typed, TypeOK
<1>3. gone \subseteq accepted /\ gone \cap (lost \cup erased) = {}
  BY <1>2 DEF DInv, Known, LostIsGone, Held
<1>4. S \subseteq {e \in Expirable : Where(e) = "held"} /\ S \in SUBSET Event
  BY <1>2, <1>3 DEF IInv, Typed, TypeOK
<1>5. \A e \in Event : Where(e)' = IF e \in S THEN "discarded" ELSE Where(e)
  BY <1>1, <1>3 DEF Where
<1>6. Phases' = [e \in Event |-> IF e \in S THEN "discarded" ELSE Where(e)]
  BY <1>5 DEF Phases
<1>7. UNCHANGED <<Refused, Arrived, Expirable, Ended, faults, exposed>>
  BY <1>1 DEF Refused, Arrived, Expirable, Ended
<1> QED BY <1>4, <1>6, <1>7 DEF AbsNext

LEMMA EndImplements ==
  ASSUME IInv, DInv, NEW gone \in SUBSET Held,
         lost' = lost \cup (gone \ (file \cup acked \cup dropped)),
         UNCHANGED <<serverSet, old, accepted, received, acked, dropped,
                     faults, erased>>,
         Ended' = Ended + 1, exposed' = {}
  PROVE  AbsNext
<1> DEFINE S == gone \ (file \cup acked \cup dropped)
<1>1. S \subseteq accepted /\ S \cap (lost \cup acked \cup dropped \cup erased) = {}
  BY DEF DInv, Known, LostIsGone
<1>2. S \in SUBSET Event /\ S \subseteq {e \in Event : Where(e) = "held"}
  BY <1>1 DEF IInv, Typed, TypeOK, Where
<1>3. \A e \in Event : Where(e)' = IF e \in S THEN "lost" ELSE Where(e)
  BY <1>1 DEF Where
<1>4. Phases' = [e \in Event |-> IF e \in S THEN "lost" ELSE Where(e)]
  BY <1>3 DEF Phases
<1>5. UNCHANGED <<Refused, Arrived, Expirable, faults>>
  BY DEF Refused, Arrived, Expirable
<1> HIDE DEF S
<1> QED BY <1>2, <1>4, <1>5 DEF AbsNext

(* Every step of the program is a step of the abstraction or a stutter. *)
LEMMA StepImplements ==
  IInv /\ DInv /\ DInv' /\ [Next]_vars => [AbsNext]_AbsVars
<1> SUFFICES ASSUME IInv, DInv, DInv', [Next]_vars PROVE [AbsNext]_AbsVars
  OBVIOUS
<1> USE DEF flags, queues, pcs, flushing, world, counts, history
<1>1. ASSUME NEW e \in Event, Enqueue(e) PROVE AbsNext
  <2>1. /\ e \notin accepted /\ accepted' = accepted \cup {e}
        /\ UNCHANGED <<serverSet, old, crashes, received, acked, dropped, lost,
                       mainPc, faults, exposed, erased>>
    BY <1>1 DEF Enqueue
  <2>2. e \notin acked \cup dropped \cup lost \cup erased
    BY <2>1 DEF DInv, Known
  <2>3. Where(e) = "new" /\ Where(e)' = "held"
    BY <2>1, <2>2 DEF Where
  <2>4. \A f \in Event \ {e} : Where(f)' = Where(f)
    BY <2>1 DEF Where
  <2>5. Phases' = [Phases EXCEPT ![e] = "held"]
    BY <2>3, <2>4 DEF Phases
  <2>6. UNCHANGED <<Refused, Arrived, Expirable, Ended, faults, exposed>>
    BY <2>1 DEF Refused, Arrived, Expirable, Ended
  <2> QED BY <2>3, <2>5, <2>6 DEF AbsNext
<1>2. CASE StopSend
  BY <1>2, Quiet DEF StopSend
<1>3. CASE StopNotify
  BY <1>3, Quiet DEF StopNotify
<1>4. CASE StopJoinSend
  BY <1>4, Quiet DEF StopJoinSend
<1>5. CASE StopRetry
  BY <1>5, Quiet DEF StopRetry
<1>6. CASE Exit
  <2>1. pending \in SUBSET Held
    BY DEF Held
  <2>2. Ended' = Ended + 1
    BY <1>6, ConstantsOK DEF Exit, Ended, IInv, Typed, TypeOK
  <2> QED BY <1>6, <2>1, <2>2, EndImplements DEF Exit
<1>7. CASE SendTop
  BY <1>7, Quiet DEF SendTop
<1>8. CASE SendTake
  BY <1>8, Quiet DEF SendTake
<1>9. CASE SendWait
  BY <1>9, Quiet DEF SendWait
<1>10. CASE SendBlock
  BY <1>10, Quiet DEF SendBlock
<1>11. ASSUME NEW ok \in BOOLEAN, SendPost(ok) PROVE [AbsNext]_AbsVars
  BY <1>11, SendPostImplements
<1>12. CASE SendPush
  BY <1>12, Quiet DEF SendPush
<1>13. ASSUME NEW ok \in BOOLEAN, SendAppend(ok) PROVE AbsNext
  <2>1. /\ UNCHANGED <<serverSet, old, crashes, accepted, received, acked,
                       dropped, lost, mainPc, exposed>>
        /\ erased' = erased \cup Unheld' /\ Unheld' \subseteq exposed'
        /\ faults' = faults \/ faults' = faults + 1
    BY <1>13 DEF SendAppend, FileOp, Unheld
  <2> QED BY <2>1, FaultImplements
<1>14. ASSUME NEW ok \in BOOLEAN, DrainPost(ok) PROVE [AbsNext]_AbsVars
  BY <1>14, DrainPostImplements
<1>15. ASSUME NEW ok \in BOOLEAN, DrainAppend(ok) PROVE AbsNext
  <2>1. /\ UNCHANGED <<serverSet, old, crashes, accepted, received, acked,
                       dropped, lost, mainPc, exposed>>
        /\ erased' = erased
        /\ faults' = faults \/ faults' = faults + 1
    BY <1>15 DEF DrainAppend, FileOp
  <2> QED BY <2>1, FaultImplements
<1>16. CASE DrainDone
  BY <1>16, Quiet DEF DrainDone
<1>17. CASE RetryWake
  BY <1>17, Quiet DEF RetryWake
<1>18. ASSUME NEW ok \in BOOLEAN, FlushRead(ok) PROVE AbsNext
  <2>1. CASE ok
    <3>1. /\ exposed' \subseteq exposed
          /\ UNCHANGED <<serverSet, old, crashes, accepted, received, acked,
                         dropped, lost, faults, erased, mainPc>>
      BY <1>18, <2>1 DEF FlushRead, FileOp
    <3> QED BY <3>1 DEF AbsNext, Refused, Phases, Where, Arrived, Expirable,
                        Ended
  <2>2. CASE ~ok
    <3> QED BY <1>18, <2>2, FaultImplements DEF FlushRead, FileOp
  <2> QED BY <2>1, <2>2
<1>19. CASE FlushCollect
  BY <1>19, FlushCollectImplements
<1>20. ASSUME NEW e \in Event, NEW ok \in BOOLEAN, FlushPost(e, ok)
       PROVE  [AbsNext]_AbsVars
  BY <1>20, FlushPostImplements
<1>21. CASE FlushPosted
  BY <1>21, Quiet DEF FlushPosted
<1>22. ASSUME NEW ok \in BOOLEAN, FlushTruncate(ok) PROVE AbsNext
  <2>1. Unheld' \subseteq exposed' /\ erased' = erased \cup Unheld'
    BY <1>22 DEF FlushTruncate, Unheld
  <2>2. /\ UNCHANGED <<serverSet, old, crashes, accepted, received, acked,
                       dropped, lost, mainPc>>
        /\ \/ UNCHANGED <<faults, exposed>>
           \/ faults' = faults + 1 /\ exposed \subseteq exposed'
    BY <1>22 DEF FlushTruncate, FileOp
  <2> QED BY <2>1, <2>2, FaultImplements
<1>23. ASSUME NEW e \in Event, FlushWrite(e) PROVE AbsNext
  <2>1. Unheld' \subseteq exposed' /\ erased' = erased \cup Unheld'
    BY <1>23 DEF FlushWrite, Unheld
  <2>2. UNCHANGED <<serverSet, old, crashes, accepted, received, acked, dropped,
                    lost, mainPc, faults, exposed>>
    BY <1>23 DEF FlushWrite
  <2> QED BY <2>1, <2>2, FaultImplements
<1>29. CASE FlushGiveUp
  <2>1. Unheld' \subseteq exposed' /\ erased' = erased \cup Unheld'
    BY <1>29 DEF FlushGiveUp, Unheld
  <2>2. /\ UNCHANGED <<serverSet, old, crashes, accepted, received, acked,
                       dropped, lost, mainPc>>
        /\ faults' = faults + 1 /\ exposed \subseteq exposed'
    BY <1>29 DEF FlushGiveUp, FileOp
  <2> QED BY <2>1, <2>2, FaultImplements
<1>24. CASE FlushDone
  BY <1>24, Quiet DEF FlushDone
<1>25. CASE ServerFlip
  BY <1>25, Quiet DEF ServerFlip
<1>26. ASSUME NEW e \in Event, GrowOld(e) PROVE [AbsNext]_AbsVars
  <2>1. /\ e \in accepted /\ old' = old \cup {e}
        /\ UNCHANGED <<serverSet, crashes, accepted, received, acked, dropped,
                       lost, mainPc, faults, exposed, erased>>
    BY <1>26 DEF GrowOld
  <2>2. UNCHANGED <<Refused, Phases, Arrived, Ended, faults, exposed>>
    BY <2>1 DEF Refused, Phases, Where, Arrived, Ended
  <2>3. Expirable' = Expirable \cup {e} \/ Expirable' = Expirable
    BY <2>1 DEF Expirable
  <2>4. Where(e) # "new"
    BY <2>1 DEF Where
  <2> QED BY <2>2, <2>3, <2>4 DEF AbsNext, AbsVars
<1>27. CASE Crash
  <2>1. Ended' = Ended + 1
    BY <1>27, ConstantsOK DEF Crash, Ended, IInv, Typed, TypeOK
  <2> QED BY <1>27, <2>1, EndImplements DEF Crash
<1>28. CASE UNCHANGED vars
  BY <1>28, Quiet DEF vars
<1> QED BY <1>1, <1>2, <1>3, <1>4, <1>5, <1>6, <1>7, <1>8, <1>9, <1>10, <1>11,
           <1>12, <1>13, <1>14, <1>15, <1>16, <1>17, <1>18, <1>19, <1>20,
           <1>21, <1>22, <1>23, <1>24, <1>25, <1>26, <1>27, <1>28, <1>29
        DEF Next, SendStep, RetryStep, StopStep

LEMMA InitImplements == Init => Delivery!Init
<1> SUFFICES ASSUME Init PROVE Delivery!Init
  OBVIOUS
<1>1. \A e \in Event : Phase(e) \in {"new", "held"}
  BY DEF Init, Phase, Held
<1>2. [e \in Event |-> Phase(e)] \in [Event -> {"new", "held"}]
  BY <1>1
<1> QED BY <1>2, ConstantsOK DEF Init, Delivery!Init

(* The threads, the queues and the queue file implement EventDelivery: no  *)
(* interleaving, crash or stop makes a line vanish, confirm without having *)
(* arrived, or be given up but by the policy, and a line is erased only    *)
(* after a failed file operation exposed it (event_notifier.cpp).          *)
THEOREM DeliveryImplemented == Spec => ImplementsDelivery
<1>1. Init => Delivery!Init
  BY InitImplements
<1>2. IInv /\ DInv /\ (IInv /\ DInv)' /\ [Next]_vars
        => [Delivery!Next]_(Delivery!vars)
  BY StepImplements, AbsNextRefines
<1> QED BY <1>1, <1>2, InvCorrect, DInvCorrect, PTL
        DEF Spec, ImplementsDelivery, Delivery!Spec
-----------------------------------------------------------------------------
(* How often a line may still arrive if the server takes every post: twice *)
(* before the send thread gave it up, once for a copy the flush holds or   *)
(* will read, and once for a copy that is about to be appended.            *)

(* A copy a flush posts; the file as it is now will be overwritten.        *)
Readable(e) ==
  \/ e \in Copied
  \/ e \in file /\ retryPc \notin {"send", "truncate"}

Appending(e) ==
  \/ sendPc = "append" /\ e = hand
  \/ sendPc = "drainAppend" /\ e = Head(sendQueue)

ToArrive(e) ==
  IF e \in Untouched THEN 2
  ELSE (IF Readable(e) THEN 1 ELSE 0) + (IF Appending(e) THEN 1 ELSE 0)

Budget ==
  \A e \in Event : received[e] + ToArrive(e) <= 2 + ackLost + crashes + faults

LEMMA ToArriveBound ==
  ASSUME NEW e
  PROVE  /\ ToArrive(e) \in 0..2 /\ ToArrive(e)' \in 0..2
         /\ e \in Untouched => ToArrive(e) = 2
         /\ e \notin Untouched' /\ ~Readable(e)' /\ ~Appending(e)'
              => ToArrive(e)' = 0
BY DEF ToArrive

(* A line's budget does not grow when nobody gets a new copy of it. *)
LEMMA NoNewCopy ==
  ASSUME NEW e, e \in Untouched' => e \in Untouched,
         e \notin Untouched => (Readable(e)' => Readable(e))
                               /\ (Appending(e)' => Appending(e))
  PROVE  ToArrive(e)' <= ToArrive(e)
BY DEF ToArrive

LEMMA BudgetKept ==
  ASSUME TypeOK, Budget, UNCHANGED <<received, ackLost, crashes>>,
         faults' \in Nat, faults <= faults',
         \A e \in Event : ToArrive(e)' <= ToArrive(e)
  PROVE  Budget'
<1>1. received \in [Event -> Nat] /\ ackLost \in Nat /\ crashes \in Nat
      /\ faults \in Nat
  BY ConstantsOK DEF TypeOK
<1>2. \A f \in Event : ToArrive(f) \in 0..2 /\ ToArrive(f)' \in 0..2
  BY ToArriveBound
<1> QED BY <1>1, <1>2 DEF Budget

(* A rewrite that cannot open the file makes its lines readable again, and *)
(* the failure pays for it.                                                *)
LEMMA BudgetPaid ==
  ASSUME TypeOK, Budget, UNCHANGED <<received, ackLost, crashes>>,
         faults' = faults + 1,
         \A e \in Event : ToArrive(e)' <= ToArrive(e) + 1
  PROVE  Budget'
<1>1. received \in [Event -> Nat] /\ ackLost \in Nat /\ crashes \in Nat
      /\ faults \in Nat
  BY ConstantsOK DEF TypeOK
<1>2. \A f \in Event : ToArrive(f) \in 0..2 /\ ToArrive(f)' \in 0..2
  BY ToArriveBound
<1> QED BY <1>1, <1>2 DEF Budget

(* A post of e spends one arrival of e, or a lost answer pays for it. *)
LEMMA BudgetSpent ==
  ASSUME TypeOK, Budget, NEW e \in Event, NEW ok \in BOOLEAN, HttpPost(e, ok),
         UNCHANGED <<crashes, faults>>,
         \A f \in Event : ToArrive(f)' <= ToArrive(f),
         ok => ToArrive(e)' < ToArrive(e)
  PROVE  Budget'
<1>1. received \in [Event -> Nat] /\ ackLost \in Nat /\ crashes \in Nat
      /\ faults \in Nat
  BY ConstantsOK DEF TypeOK
<1>2. \A f \in Event : ToArrive(f) \in 0..2 /\ ToArrive(f)' \in 0..2
  BY ToArriveBound
<1>3. CASE ok
  <2>1. received' = [received EXCEPT ![e] = @ + 1] /\ ackLost' = ackLost
    BY <1>3 DEF HttpPost
  <2> QED BY <1>1, <1>2, <1>3, <2>1 DEF Budget
<1>4. CASE ~ok
  <2>1. \/ received' = received /\ ackLost' = ackLost
        \/ /\ received' = [received EXCEPT ![e] = @ + 1]
           /\ ackLost' = ackLost + 1
    BY <1>4 DEF HttpPost
  <2> QED BY <1>1, <1>2, <2>1 DEF Budget
<1> QED BY <1>3, <1>4
LEMMA SendPostBudget ==
  ASSUME IInv, DInv, Budget, NEW e \in Event, e = hand,
         NEW ok \in BOOLEAN, SendPost(ok)
  PROVE  Budget'
<1>1. /\ hand \in Event /\ sendPc = "post" /\ HttpPost(hand, ok)
      /\ IF ok \/ ~serverSet THEN sendPc' = "top" /\ hand' = None
                             ELSE sendPc' = "push" /\ hand' = hand
      /\ UNCHANGED <<flags, queues, mainPc, retryPc, flushing, crashes,
                     faults>>
  BY DEF IInv, Typed, TypeOK, LineInWork, SendPost, history
<1>2. Queued' = Queued
  BY <1>1, QueueUnchanged DEF queues
<1>3. e \in Untouched /\ e \notin file \cup Copied
  BY <1>1, ConstantsOK DEF Untouched, Hand, DInv, Fresh
<1>4. e \notin Waiting /\ Waiting' = Waiting
  BY <1>1, <1>2 DEF DInv, EachOnce, Waiting
<1>5. ok => e \notin Untouched' /\ ~Readable(e)' /\ ~Appending(e)'
  BY <1>1, <1>3, <1>4, ConstantsOK
     DEF Untouched, Hand, Readable, Appending, Copied, queues, flushing
<1>6. \A f \in Event : ToArrive(f)' <= ToArrive(f)
  <2> SUFFICES ASSUME NEW f \in Event PROVE ToArrive(f)' <= ToArrive(f)
    OBVIOUS
  <2>1. f \in Untouched' => f \in Untouched
    BY <1>1, <1>4 DEF Untouched, Hand
  <2>2. Readable(f)' => Readable(f)
    BY <1>1 DEF Readable, Copied, queues, flushing
  <2>3. ~Appending(f)'
    BY <1>1 DEF Appending
  <2> QED BY <2>1, <2>2, <2>3, NoNewCopy
<1>7. ok => ToArrive(e)' < ToArrive(e)
  BY <1>3, <1>5, ToArriveBound
<1> QED BY <1>1, <1>6, <1>7, BudgetSpent DEF IInv, Typed

LEMMA DrainPostBudget ==
  ASSUME IInv, DInv, Budget, NEW e \in Event, e = Head(sendQueue),
         NEW ok \in BOOLEAN, DrainPost(ok)
  PROVE  Budget'
<1>1. /\ sendPc = "drain" /\ sendQueue # <<>> /\ HttpPost(e, ok)
      /\ IF ok \/ ~serverSet
         THEN sendQueue' = Tail(sendQueue) /\ UNCHANGED <<sendPc, pending>>
         ELSE /\ sendPc' = "drainAppend" /\ UNCHANGED sendQueue
              /\ pending' = pending \cup {e}
      /\ UNCHANGED <<file, retryPc, flushing, crashes, faults>>
  BY DEF DrainPost, history
<1>2. /\ e \in Queued
      /\ sendQueue' = Tail(sendQueue) => Queued' = Queued \ {e}
      /\ sendQueue' = sendQueue => Queued' = Queued
  <2>0. TypeOK
    BY DEF IInv, Typed
  <2>1. sendQueue \in Seq(Event) /\ Distinct
    BY <2>0 DEF TypeOK, DInv, EachOnce
  <2>2. e \in Queued
    BY <1>1, <2>1 DEF Queued
  <2> QED BY <1>1, <2>1, <2>2, PopDistinct, QueueUnchanged
<1>3. /\ e \in Untouched /\ e \notin file \cup Copied
      /\ Untouched = Queued /\ Untouched' = Queued \ {e}
  BY <1>1, <1>2 DEF Untouched, Waiting, DInv, Fresh
<1>4. ok => ~Readable(e)' /\ ~Appending(e)'
  BY <1>1, <1>3 DEF Readable, Appending, Copied, flushing
<1>5. \A f \in Event : ToArrive(f)' <= ToArrive(f)
  <2> SUFFICES ASSUME NEW f \in Event PROVE ToArrive(f)' <= ToArrive(f)
    OBVIOUS
  <2>1. CASE f = e
    BY <1>3, <2>1, ToArriveBound
  <2>2. CASE f # e
    <3>1. Readable(f)' => Readable(f)
      BY <1>1, <2>2 DEF Readable, Copied, flushing
    <3>2. ~Appending(f)'
      BY <1>1, <2>2 DEF Appending
    <3> QED BY <1>3, <3>1, <3>2, NoNewCopy
  <2> QED BY <2>1, <2>2
<1>6. ok => ToArrive(e)' < ToArrive(e)
  BY <1>3, <1>4, ToArriveBound
<1> QED BY <1>1, <1>2, <1>5, <1>6, BudgetSpent DEF IInv, Typed

LEMMA FlushPostBudget ==
  ASSUME IInv, DInv, Budget, NEW e \in Event, NEW ok \in BOOLEAN,
         FlushPost(e, ok)
  PROVE  Budget'
<1>1. /\ retryPc = "send" /\ HttpPost(e, ok)
      /\ UNCHANGED <<queues, pcs, hand, crashes, faults>>
  BY DEF FlushPost, history
<1>2. e \in batch
  BY DEF FlushPost, Posting, IInv, FlushShape, Typed, TypeOK
<1>3. /\ batch' \subseteq batch /\ failedBatch' \subseteq failedBatch \cup {e}
      /\ ok => batch' = batch \ {e} /\ failedBatch' = failedBatch
  BY <1>2 DEF FlushPost
<1>4. Untouched' = Untouched
  BY <1>1, QueueUnchanged DEF Untouched, Waiting, Hand, queues, pcs
<1>5. e \notin Untouched /\ Readable(e)
  BY <1>2 DEF DInv, Fresh, Copied, Readable
<1>6. ok => ~Readable(e)'
  BY <1>1, <1>2, <1>3 DEF Readable, Copied, DInv, InFlight, queues, pcs
<1>7. \A f \in Event : /\ Readable(f)' => Readable(f)
                       /\ Appending(f)' = Appending(f)
  BY <1>1, <1>2, <1>3 DEF Readable, Appending, Copied, queues, pcs
<1>8. \A f \in Event : ToArrive(f)' <= ToArrive(f)
  BY <1>4, <1>7, NoNewCopy
<1>9. ok => ToArrive(e)' < ToArrive(e)
  <2>1. Appending(e)' = Appending(e)
    BY <1>7
  <2> QED BY <1>4, <1>5, <1>6, <2>1 DEF ToArrive
<1> QED BY <1>1, <1>8, <1>9, BudgetSpent DEF IInv, Typed

(* A crash leaves at most the copy in the file, and pays for it. *)
LEMMA CrashBudget ==
  ASSUME IInv, DInv, Budget, Crash
  PROVE  Budget'
<1>1. Untouched' = {} /\ Copied' = {} /\ \A e : ~Appending(e)'
  BY DEF Crash, Untouched, Waiting, Queued, Copied, Appending
<1>type. TypeOK
  BY DEF IInv, Typed
<1>2. /\ received \in [Event -> Nat] /\ ackLost \in Nat /\ crashes \in Nat
      /\ faults \in Nat
  BY <1>type, ConstantsOK DEF TypeOK
<1>5. UNCHANGED <<received, ackLost, faults>> /\ crashes' = crashes + 1
  BY DEF Crash, counts
<1>3. \A e \in Event : ToArrive(e)' <= 1 /\ ToArrive(e)' \in Nat
  BY <1>1 DEF ToArrive
<1>4. \A e \in Event : ToArrive(e) \in 0..2
  BY ToArriveBound
<1> QED BY <1>2, <1>3, <1>4, <1>5 DEF Budget

(* A line nobody knew has not arrived yet. *)
LEMMA EnqueueBudget ==
  ASSUME IInv, DInv, Budget, NEW e \in Event, Enqueue(e)
  PROVE  Budget'
<1>1. /\ e \notin accepted /\ sendQueue' = Append(sendQueue, e)
      /\ sendPc' = IF sendPc = "blocked" THEN "wait" ELSE sendPc
      /\ sendPc # "drainAppend"
      /\ UNCHANGED <<pending, file, retryPc, hand, flushing, received,
                     ackLost, crashes, faults>>
  BY DEF Enqueue, SendMutexHeld, world, counts
<1>type. TypeOK
  BY DEF IInv, Typed
<1>2. e \notin Queued
  BY <1>1 DEF DInv, Known, Held
<1>3. Queued' = Queued \cup {e}
  BY <1>1, <1>2, <1>type, QueuePushed DEF TypeOK
<1>4. received \in [Event -> Nat] /\ ackLost \in Nat /\ crashes \in Nat
      /\ faults \in Nat
  BY <1>type, ConstantsOK DEF TypeOK
<1>5. received[e] = 0
  BY <1>1, <1>4 DEF DInv, Known
<1>6. \A f \in Event \ {e} : ToArrive(f)' <= ToArrive(f)
  <2> SUFFICES ASSUME NEW f \in Event \ {e} PROVE ToArrive(f)' <= ToArrive(f)
    OBVIOUS
  <2>1. f \in Untouched' => f \in Untouched
    BY <1>1, <1>3 DEF Untouched, Waiting, Hand
  <2>2. Readable(f)' => Readable(f)
    BY <1>1 DEF Readable, Copied, flushing
  <2>3. Appending(f)' => Appending(f)
    BY <1>1 DEF Appending
  <2> QED BY <2>1, <2>2, <2>3, NoNewCopy
<1>7. \A f \in Event : ToArrive(f) \in 0..2 /\ ToArrive(f)' \in 0..2
  BY ToArriveBound
<1> QED BY <1>1, <1>4, <1>5, <1>6, <1>7 DEF Budget
(* Every other step hands a copy on; it makes none. *)
LEMMA BudgetInductive == IInv /\ DInv /\ Budget /\ [Next]_vars => Budget'
<1> SUFFICES ASSUME IInv, DInv, Budget, [Next]_vars PROVE Budget'
  OBVIOUS
<1>type. TypeOK /\ LineInWork
  BY DEF IInv, Typed
<1>fault. faults \in Nat
  BY <1>type, ConstantsOK DEF TypeOK
<1>ok. ASSUME NEW ok \in BOOLEAN, FileOp(ok)
       PROVE  /\ faults' \in Nat /\ faults <= faults'
              /\ ok => faults' = faults
              /\ ~ok => faults' = faults + 1
  BY <1>ok, <1>fault DEF FileOp
<1>kept. ASSUME UNCHANGED <<received, ackLost, crashes, faults>>,
                \A e \in Event :
                  /\ e \in Untouched' => e \in Untouched
                  /\ e \notin Untouched =>
                       (Readable(e)' => Readable(e))
                       /\ (Appending(e)' => Appending(e))
         PROVE  Budget'
  <2>1. \A e \in Event : ToArrive(e)' <= ToArrive(e)
    BY <1>kept, NoNewCopy
  <2> QED BY <1>type, <1>fault, <1>kept, <2>1, BudgetKept
<1>still. ASSUME UNCHANGED <<queues, hand, batch, failedBatch, received,
                             ackLost, crashes, faults>>,
                 sendPc' = sendPc \/ (sendPc' \notin {"append", "drainAppend"}
                   /\ sendPc \notin {"post", "push", "append", "drainAppend"}
                   /\ sendPc' \notin {"post", "push"}),
                 retryPc' \in {"send", "truncate"} <=>
                   retryPc \in {"send", "truncate"}
          PROVE  Budget'
  <2>1. Queued' = Queued
    BY <1>still, QueueUnchanged DEF queues
  <2>2. Untouched' = Untouched
    BY <1>still, <2>1 DEF Untouched, Waiting, Hand, queues
  <2>3. \A e \in Event : /\ Readable(e)' => Readable(e)
                         /\ Appending(e)' => Appending(e)
    BY <1>still DEF Readable, Appending, Copied, queues
  <2> QED BY <1>still, <1>kept, <2>2, <2>3
<1> USE DEF flags, pcs, flushing, world, counts, history
<1>1. ASSUME NEW e \in Event, Enqueue(e) PROVE Budget'
  BY <1>1, EnqueueBudget
<1>2. CASE StopSend
  BY <1>2, <1>still DEF StopSend
<1>3. CASE StopNotify
  BY <1>3, <1>still DEF StopNotify
<1>4. CASE StopJoinSend
  BY <1>4, <1>still DEF StopJoinSend
<1>5. CASE StopRetry
  BY <1>5, <1>still DEF StopRetry
<1>6. CASE Exit
  <2>1. /\ pending' = {} /\ mainPc' = "stopped"
        /\ UNCHANGED <<sendQueue, file, sendPc, retryPc, hand, batch,
                       failedBatch, received, ackLost, crashes, faults>>
    BY <1>6 DEF Exit
  <2>2. Untouched' = Untouched
    BY <2>1, QueueUnchanged DEF Untouched, Waiting, Hand
  <2> QED BY <1>kept, <2>1, <2>2 DEF Readable, Appending, Copied
<1>7. CASE SendTop
  BY <1>7, <1>still DEF SendTop
<1>8. CASE SendTake
  <2>1. /\ sendPc = "wait" /\ sendPc' = "post" /\ sendQueue # <<>>
        /\ hand' = Head(sendQueue) /\ sendQueue' = Tail(sendQueue)
        /\ UNCHANGED <<pending, file, retryPc, batch, failedBatch, received,
                       ackLost, crashes, faults>>
    BY <1>8 DEF SendTake
  <2>2. /\ Head(sendQueue) \in Queued
        /\ Queued' = Queued \ {Head(sendQueue)}
    BY <1>type, <2>1, PopDistinct DEF TypeOK, DInv, EachOnce
  <2>3. Untouched' \subseteq Untouched
    BY <2>1, <2>2 DEF Untouched, Waiting, Hand
  <2> QED BY <1>kept, <2>1, <2>3 DEF Readable, Appending, Copied
<1>9. CASE SendWait
  BY <1>9, <1>still DEF SendWait
<1>10. CASE SendBlock
  BY <1>10, <1>still DEF SendBlock
<1>11. ASSUME NEW ok \in BOOLEAN, SendPost(ok) PROVE Budget'
  <2>1. PICK e \in Event : e = hand
    BY <1>type, <1>11 DEF TypeOK, LineInWork, SendPost
  <2> QED BY <1>11, <2>1, SendPostBudget
<1>12. CASE SendPush
  <2>1. /\ sendPc = "push" /\ sendPc' = "append" /\ hand' = hand
        /\ pending' = pending \cup {hand}
        /\ UNCHANGED <<sendQueue, file, retryPc, batch, failedBatch, received,
                       ackLost, crashes, faults>>
    BY <1>12 DEF SendPush
  <2>2. Untouched = Waiting \cup Hand /\ Untouched' = Waiting
    BY <2>1, QueueUnchanged DEF Untouched, Waiting
  <2>3. \A e \in Event : e \notin Untouched =>
          (Readable(e)' => Readable(e)) /\ (Appending(e)' => Appending(e))
    BY <1>type, <2>1, <2>2
       DEF Readable, Appending, Copied, Hand, LineInWork
  <2> QED BY <1>kept, <2>1, <2>2, <2>3
<1>13. ASSUME NEW ok \in BOOLEAN, SendAppend(ok) PROVE Budget'
  <2>1. /\ sendPc = "append" /\ sendPc' = "top"
        /\ file' \subseteq file \cup {hand}
        /\ UNCHANGED <<sendQueue, pending, retryPc, batch, failedBatch,
                       received, ackLost, crashes>>
    BY <1>13 DEF SendAppend
  <2>2. Untouched' = Untouched /\ hand \notin Untouched
    BY <2>1, QueueUnchanged DEF Untouched, Waiting, DInv, EachOnce
  <2>3. \A e \in Event :
          /\ ~Appending(e)'
          /\ e # hand => (Readable(e)' => Readable(e))
          /\ Appending(e) <=> e = hand
    BY <2>1 DEF Readable, Appending, Copied
  <2>4. \A e \in Event : ToArrive(e)' <= ToArrive(e)
    BY <2>2, <2>3 DEF ToArrive
  <2>5. faults' \in Nat /\ faults <= faults'
    BY <1>13, <1>ok DEF SendAppend
  <2> QED BY <1>type, <2>1, <2>4, <2>5, BudgetKept
<1>14. ASSUME NEW ok \in BOOLEAN, DrainPost(ok) PROVE Budget'
  <2>1. PICK e \in Event : e = Head(sendQueue)
    BY <1>type, <1>14 DEF TypeOK, DrainPost
  <2> QED BY <1>14, <2>1, DrainPostBudget
<1>15. ASSUME NEW ok \in BOOLEAN, DrainAppend(ok) PROVE Budget'
  <2>1. /\ sendPc = "drainAppend" /\ sendPc' = "drain" /\ sendQueue # <<>>
        /\ sendQueue' = Tail(sendQueue)
        /\ file' \subseteq file \cup {Head(sendQueue)}
        /\ UNCHANGED <<pending, retryPc, hand, batch, failedBatch, received,
                       ackLost, crashes>>
    BY <1>type, <1>15 DEF DrainAppend, LineInWork
  <2>2. Queued' = Queued \ {Head(sendQueue)}
    BY <1>type, <2>1, PopDistinct DEF TypeOK, DInv, EachOnce
  <2>3. Untouched' = Untouched /\ Head(sendQueue) \notin Untouched
    BY <2>1, <2>2 DEF Untouched, Waiting
  <2>4. \A e \in Event :
          /\ ~Appending(e)'
          /\ e # Head(sendQueue) => (Readable(e)' => Readable(e))
          /\ Appending(e) <=> e = Head(sendQueue)
    BY <2>1 DEF Readable, Appending, Copied
  <2>5. \A e \in Event : ToArrive(e)' <= ToArrive(e)
    BY <2>3, <2>4 DEF ToArrive
  <2>6. faults' \in Nat /\ faults <= faults'
    BY <1>15, <1>ok DEF DrainAppend
  <2> QED BY <1>type, <2>1, <2>5, <2>6, BudgetKept
<1>16. CASE DrainDone
  BY <1>16, <1>still DEF DrainDone
<1>17. CASE RetryWake
  BY <1>17, <1>still DEF RetryWake
<1>18. ASSUME UNCHANGED <<sendQueue, sendPc, hand, received, ackLost, crashes>>,
              faults' \in Nat, faults <= faults',
              \A e \in Event : Readable(e)' => Readable(e)
       PROVE  Budget'
  <2>1. Untouched' = Untouched
    BY <1>18, QueueUnchanged DEF Untouched, Waiting, Hand
  <2>2. \A e \in Event : Appending(e)' = Appending(e)
    BY <1>18 DEF Appending
  <2>3. \A e \in Event : ToArrive(e)' <= ToArrive(e)
    BY <1>18, <2>1, <2>2, NoNewCopy
  <2> QED BY <1>type, <1>18, <2>3, BudgetKept
<1>19. ASSUME NEW ok \in BOOLEAN, FlushRead(ok) PROVE Budget'
  <2>1. /\ batch' \subseteq file /\ retryPc = "read" /\ retryPc' = "collect"
        /\ UNCHANGED <<queues, sendPc, hand, failedBatch, received, ackLost,
                       crashes>>
        /\ faults' \in Nat /\ faults <= faults'
    BY <1>19, <1>ok DEF FlushRead
  <2> QED BY <1>18, <2>1 DEF Readable, Copied, queues
<1>20. CASE FlushCollect
  BY <1>18, <1>20, <1>fault DEF FlushCollect, Readable, Copied
<1>21. ASSUME NEW e \in Event, NEW ok \in BOOLEAN, FlushPost(e, ok)
       PROVE  Budget'
  BY <1>21, FlushPostBudget
<1>22. CASE FlushPosted
  BY <1>22, <1>still DEF FlushPosted
<1>23. ASSUME NEW ok \in BOOLEAN, FlushTruncate(ok) PROVE Budget'
  <2>1. /\ retryPc = "truncate" /\ failedBatch' \subseteq failedBatch
        /\ batch' \subseteq batch \cup failedBatch
        /\ UNCHANGED <<sendQueue, pending, mainPc, sendPc, hand, received,
                       ackLost, crashes>>
    BY <1>23 DEF FlushTruncate
  <2>2. CASE ok
    <3>1. file' = {} /\ faults' = faults
      BY <1>23, <1>ok, <2>2 DEF FlushTruncate
    <3> QED BY <1>18, <1>fault, <2>1, <3>1 DEF Readable, Copied
  <2>3. CASE ~ok
    <3>1. UNCHANGED <<file, batch>> /\ faults' = faults + 1
      BY <1>23, <1>ok, <2>3 DEF FlushTruncate
    <3>2. Untouched' = Untouched
      BY <2>1, QueueUnchanged DEF Untouched, Waiting, Hand
    <3>3. \A e \in Event : Appending(e)' = Appending(e)
      BY <2>1 DEF Appending
    <3>4. \A e \in Event : ToArrive(e) \in 0..2 /\ ToArrive(e)' <= ToArrive(e) + 1
      BY <3>2, <3>3, ToArriveBound DEF ToArrive
    <3> QED BY <1>type, <1>fault, <2>1, <3>1, <3>4, ToArriveBound, BudgetPaid
  <2> QED BY <2>2, <2>3
<1>30. CASE FlushGiveUp
  <2>1. /\ batch' = {} /\ failedBatch' = {}
        /\ retryPc = "write" /\ retryPc' = "sleep"
        /\ UNCHANGED <<queues, sendPc, hand, received, ackLost, crashes>>
        /\ faults' \in Nat /\ faults <= faults'
    BY <1>30, <1>ok DEF FlushGiveUp
  <2> QED BY <1>18, <2>1 DEF Readable, Copied, queues
<1>24. ASSUME NEW e \in Event, FlushWrite(e) PROVE Budget'
  <2>1. /\ file' \subseteq file \cup {e} /\ e \in batch /\ batch' = batch \ {e}
        /\ UNCHANGED <<sendQueue, pending, pcs, hand, failedBatch, received,
                       ackLost, crashes, faults>>
    BY <1>24 DEF FlushWrite
  <2> QED BY <1>18, <1>fault, <2>1 DEF Readable, Copied
<1>25. CASE FlushDone
  BY <1>18, <1>25, <1>fault DEF FlushDone, Readable, Copied, queues
<1>26. CASE ServerFlip
  BY <1>26, <1>still DEF ServerFlip
<1>27. ASSUME NEW e \in Event, GrowOld(e) PROVE Budget'
  BY <1>27, <1>still DEF GrowOld
<1>28. CASE Crash
  BY <1>28, CrashBudget
<1>29. CASE UNCHANGED vars
  BY <1>29, <1>still DEF vars
<1> QED BY <1>1, <1>2, <1>3, <1>4, <1>5, <1>6, <1>7, <1>8, <1>9, <1>10, <1>11,
           <1>12, <1>13, <1>14, <1>15, <1>16, <1>17, <1>19, <1>20, <1>21,
           <1>22, <1>23, <1>24, <1>25, <1>26, <1>27, <1>28, <1>29, <1>30
        DEF Next, SendStep, RetryStep, StopStep

(* However the threads, crashes, lost answers and failed file operations   *)
(* interleave, a line gets to the server at most twice plus once for each  *)
(* lost answer, crash and failed operation: there is no bound without one  *)
(* on the failures, and each pays for one repetition.                      *)
THEOREM DuplicatesAreBounded == Spec => []DuplicatesBounded
<1>1. Init => Budget
  <2> SUFFICES ASSUME Init, NEW e \in Event
               PROVE  received[e] + ToArrive(e) <= 2 + ackLost + crashes + faults
    BY DEF Budget
  <2> QED BY ToArriveBound DEF Init
<1>2. IInv /\ DInv /\ Budget /\ [Next]_vars => Budget'
  BY BudgetInductive
<1>3. IInv /\ Budget => DuplicatesBounded
  <2> SUFFICES ASSUME IInv, Budget, NEW e \in Event
               PROVE  received[e] <= 2 + ackLost + crashes + faults
    BY DEF DuplicatesBounded
  <2>1. /\ received[e] \in Nat /\ ackLost \in Nat /\ crashes \in Nat
        /\ faults \in Nat
    BY ConstantsOK DEF IInv, Typed, TypeOK
  <2> QED BY <2>1, ToArriveBound DEF Budget
<1> QED BY <1>1, <1>2, <1>3, InvCorrect, DInvCorrect, PTL DEF Spec
=============================================================================
