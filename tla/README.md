# EcoWarden: a TLA+ verification development

EcoWarden watches a street corner with a rotating LiDAR, recognises people who
leave objects behind, photographs them with a servo-mounted camera, and reports
the dumping to a FastAPI server. This directory holds TLA+ models of the program
(`src/src/*.cpp`, `src/include/*.h`), the TLC configurations that check them on
small instances, and TLAPS proofs of the theorems that hold for every instance.

Paths below are relative to the repository; line numbers are in `PROJECT.json`,
which maps every definition to the code it stands for.

## 1. The system

### 1.1 Data flow

One main thread runs the frame loop at about 10 Hz (`main.cpp`):

    LiDAR scan -> ScanProcessor -> BackgroundFilter -> ClusterTracker
       -> persons:     ServoController (photo), ZonePolicy (intrusion alert)
       -> departures:  EventNotifier
       -> dumpings:    ServoController.Promote, CameraModule (photo + clip),
                       DumpValidator -> EventNotifier
       -> JSON / UDP to Unity and the visualiser

Around it run up to six kinds of further threads: the servo worker, the camera's
capture loop, one worker per black box clip, and EventNotifier's send, retry and
clip threads. They share the queues, maps and files that the modules model.

### 1.2 Inventory

For each component: its state, its operations, with whom it interacts, what is
hard about it, and what makes it correct.

**EventNotifier, event path** (`event_notifier.cpp`). State: `send_queue_`,
`pending_queue_`, the queue file, two running flags, counters. Operations:
`EnqueueJson` (main), `SendLoop`, `RetryLoop`/`FlushQueue`,
`StartRetryThread`/`StopRetryThread`. Hard: a failed line lives in memory and in
the file, under different locks; a flush reads the file, posts for seconds and
rewrites it; the process may crash at any step and the file outlives it; the
server may have accepted a post whose answer is lost; a file operation may fail
and nobody looks at its result; stop races the send thread's wait. Correct: no
accepted line vanishes while the process lives and the file can be used, nothing
is dropped but by policy, duplicates are bounded by the failures there were, every
line is resolved once the server stays up, nothing leaves the program without a
configured server.

**EventNotifier, clip path** (`UploadClip`, `ClipLoop`). State: `clip_queue_`,
`clip_running_`, a lazily started thread. Interacts with the black box workers,
which call it from their own threads. Hard: start and stop race; clips queued at
the stop. Correct: one thread, every clip is tried at most the configured number
of times, none is uploaded twice without a failed attempt.

**CameraModule** (`camera_module.cpp`). State: a ring of frames, the save
counter, the worker threads, one face masker. Operations: the capture loop,
`CaptureToFilePath`, `CaptureBase64`, `RequestBlackboxSave`,
`BlackboxSaveWorker`, `Stop`. Hard: the counter against the thread list, workers
that outlive the request, a clip whose stop comes first. Correct: never more
saves than the limit, the counter returns to zero, an unmasked frame is never
emitted.

**ServoController** (`servo_controller.cpp`). State: one pending job, the person
sessions, the suspect cache, photo directories on disk. Operations:
`OnSuspectDetected`, `OnPersonDetected`, `CleanupPersonSessions`,
`PromoteSuspectToDump` (main), `WorkerLoop` (worker), `Shutdown`. Hard: the worker
moves the servo and captures without the lock, while main erases or renames what it
works on, which may fail. Correct: every photo on disk belongs to a session, a
suspect or a bundle, or there is a known reason why not; suspects take precedence
over persons; evidence of a promoted dumping is in its bundle.

**DumpValidator** (`dump_validation.h`). State: the pending dumpings with their
counters. Operations: `OnDumpConfirmed`, `Update` (once per frame). Hard:
counting frames when some frames skip `Update`; a departure that is sticky; a
track id that reappears. Correct: a confirmed dumping is reported at most once,
only after it was present in the required share of its window, and every alert
gets its verdict, neither late nor early.

**ZonePolicy** (`zone_policy.h`). State: per person, consecutive
observations, last sighting, last alert. Operations: `OnPersonZone`,
`PruneStale`. Hard: the pruning forgets the alert; two tracks may answer to one
person id. Correct: no alert before the required observations, none within the
repeat interval, and one again as long as the person stays.

**JsonPacketSender** (`json_packet.cpp`). State: three lists of one-shot events
with the packets they still have to be in. Operation: `Send`, once per frame.
Hard: packets are lost, events come up in every frame, some frames send none.
Correct: an event is in exactly five packets, its own and the next four.

**EvidenceVault** (`evidence_vault.cpp`). State: encrypted originals on disk,
each with its time stamp in the header. Operations: `StoreOriginal` (several
threads), `SweepExpired` (main). Hard: files cut short by a crash, the clock,
names used twice. Correct: originals are purged after their retention and not
before.

**RplidarS2 and the loop around it** (`rplidar_s2.cpp`, `main.cpp`). State:
whether the LiDAR runs, the failed scans in a row, the frame counter. Operations:
`GetScanFrame`, the reconnect after five failures, the hourly sweep, the stop.
Hard: a sensor that goes and comes, a stop in the middle of reconnecting.
Correct: told to stop, the program leaves its loop and ends if the threads it
joins do; a sensor that returns is scanned again.

**ClusterTracker and DumpDetector** (`cluster_tracker.cpp`, `dump_detector.h`).
State: live tracks, lost tracks with their memory, the next id, the dump state
of each track, person-object links, the persons that tracks are grouped into.
Operations: `Update` (match, miss, create, recover, promote, confirm, group twice),
callbacks on suspects, `ClearDumpFlags`. Hard: a
long per-frame pipeline whose later stages see what earlier ones changed; an id
is copied on recovery; a group is kept for a while after its shape is gone.
Correct: an id names one live track, a dumping is
confirmed once per object and only after its person left, a person is sent, once.

**BackgroundFilter** (`background_filter.cpp`). State: short- and long-term
maps, learning counter, protected positions. Operations: `Apply` (learn, filter,
adapt), `SetProtectedForegroundPositions`, `Reset`. Hard: filtering decides what
the adaptation sees. Correct: protected things are neither filtered nor learnt;
what stays becomes background; what leaves is forgotten.

**PirSensor** (`pir_sensor.cpp`): debounce and hold-off counters per sensor.
**UdpSender**: stateless datagrams. **FaceMasker**: masking before
anything is stored; fail-closed. **ObjectClassifier**, **ScanProcessor**,
parameters, profiler: pure functions and constants. **pi_photo_server.py**,
`lidar_visualizer.py`: separate Python tools. `thirdparty/`: vendored SDK.

Every component and the state of its model is listed under `components` in
`PROJECT.json`; everything hard to test is listed under `hazards`, with the
properties that watch it, or the reason why none does yet.

## 2. Plan

The order puts what can lose evidence first.

| # | modules | component | abstract specification | proved |
|---|--------|-----------|------------------------|--------|
| 1 | `EventNotifier` | event path | `EventDelivery` | custody, rewrite safety, fail-closed, the refinement, the bound on duplicates |
| 2 | `DumpValidation` | DumpValidator with the flags of its tracks | - | reported at most once, on evidence; cancelled on evidence, in time |
| 3 | `ServoSessions` | ServoController, main and worker | - | custody of folders and photos, slot priority |
| 4 | `TrackLifecycle` | tracker and dump states | - | identity, who may be accused |
| 5 | `Blackbox`, of `BlackboxSaves` and `ClipUpload` | black box saves and the clip thread | - | save counter, where each clip is, nothing after the stop |
| 6 | `IntrusionAlerts`, of `ZonePolicy` and `EventResend` | intrusions from the track to the display | - | alert soundness, delivery |
| 7 | `BackgroundFilter` | adaptive background | - | forgetting, settling, nothing new hidden |
| 8 | `MainLoop`, with `EvidenceVault` | scan, reconnect, sweep, stop; originals on disk | - | retention and purge |
| 9 | `PersonGroups` | legs, persons, and who is sent for them | - | who is sent, and for how long nobody is |

All of it exists. Section 3 has a section for each row, section 4 what is left out
and why. Every row can be checked (`MC*.tla` with a `.cfg`; `PersonGroups` needs no
definitions for it) and is proved about in a `*Proofs.tla`; rows 4 and 9 share
`ClusterTrackerProofs`. No module uses a RECURSIVE operator. Where the type
invariant is proved it is not always checked by a run too.

## 3. The modules

### 3.1 EventNotifier: what happens to an event line

`EventNotifier.tla` models `event_notifier.cpp` from `EnqueueJson` to
`StopRetryThread`. An event line is an element of `Event`; its JSON is left out.
`FlushQueue` sorts and de-duplicates what it reads, so `pending_queue_` and the
file are sets; `send_queue_` is a sequence. Steps are as fine as the code's
locks: one `HttpPost`, one mutex region, one file operation each, and the rewrite
of the file is a truncation and one step per line.

Every file operation may fail, and the code looks at none of the results (`FileOp`):
`AppendToFile` then stores nothing, `ReadQueueFile` takes a file it cannot open for
an empty one, so that the rewrite erases what is in it, `WriteQueueFile` returns with
the old lines in place, sent ones included (`FlushTruncate`), or leaves out the lines
it could not write (`FlushGiveUp`). A line cut in two by a failed write, or by a
crash in the middle of it, is not modelled: a line is in the file or it is not.

| state | code |
|---|---|
| `sendQueue`, `sendRunning`, `pending`, `file` | `send_queue_`, `send_running_`, `pending_queue_`, the queue file |
| `sendPc`, `hand` | where `SendLoop` is and its `line`; `"park"` is the moment between the predicate of `wait` and the block |
| `retryPc`, `batch`, `cur`, `tries`, `failedBatch` | `FlushQueue`: lines still to post, the one it retries, its failures |
| `mainPc` | `run`, or where `StopRetryThread` is |
| `serverUp`, `old`, `ackLost`, `crashes` | the world: the server, the clock, lost answers, restarts by systemd (`Restart=on-failure`) |
| `accepted`, `received`, `acked`, `dropped`, `lost` | history: what entered, what the server took, the two counters of the code, what a process took with it |
| `faults`, `exposed`, `erased` | history: failed file operations, the lines they hid from the flush or did not write, those of them that are nowhere any more |

An idle thread between its steps is interleaved with everything else, so each
window the code leaves open (push then append, read then rewrite, predicate then
block) is explored. `SendMutexHeld` and `FailMutexHeld` say where the send thread
holds a mutex over several steps: it posts the final drain under its queue's
mutex, and `Enqueue` waits for it.

Runs (module `MCEventNotifier`):

| run | asks |
|---|---|
| `notifier` | a timed line that its endpoint rejects for ever and one without `event_time`, one lost answer, one crash, one failed file operation, a stop, with and without an API key: `Custody`, `DuplicatesBounded`, the refinement `ImplementsDelivery`; `EventuallyResolved`; and `StopFinishesOrWakeupLost`: does `StopRetryThread` return? yes, unless the send thread missed the notification |
| `notifier_clean_stop_loss` | violation: a clean stop loses a line |

`EventDelivery.tla` is the abstract specification: a line is new, held, confirmed,
discarded, lost or erased; confirmation follows arrival, discarding follows the
policy, the end of a process loses lines, and a failed file operation puts lines at
risk (`Fault`) that may be erased (`Erase`) until they are read or stored again
(`Cover`). Nothing else makes an end of a line: `ImplementsDelivery` maps the state
of all threads, queues and files onto it, and a line that nobody holds and that no
failure exposed maps to `"vanished"`, which no abstract step reaches. That lines are
dropped only by the policy (too old, or nowhere to send them) and that no line of a
program without a server counts as sent is part of what it says.

So there is no promise that survives every failure of the disk, and the properties
say which one is kept: `Custody` is about a line on which no operation failed, or
which had another copy; `DuplicatesBounded` pays for each failed operation with one
more post. A disk on which every truncation fails reposts the accepted lines in
every flush, without an end.

Bounds. Two lines are the fewest that can be in two places at once (one being posted
by each thread, one in the file while the other is appended); the races the runs
find need one or two. One crash, one lost answer and one failed file operation
(`MaxCrashes`, `MaxAckLost`, `MaxFaults`) are budgets of the environment; the bound
of `DuplicatesBounded` grows with all three, so more of them would not change the
question, and the proofs are for any number. `MaxRetries = 2` has a first, a
repeated and a last attempt; the program never sets it to 0.

Fairness. `SendStep`, `RetryStep` and `StopStep` are weakly fair: each is one thread
of the operating system, whose waits have timeouts or are notified. An operation on
the file that may fail need not. The clock moves (`GrowOld`). The server owes
nothing: liveness assumes `<>[]serverUp` where it needs it. `SendBlock` and a
sleeping send thread are not steps that fairness would end, so a lost notification
really blocks the thread.

The disagreement between the program and its documents with a `violation` run is
`notifier_clean_stop_loss`: a line that fails in the final drain while a flush is
between its collection and its rewrite is erased from the file and dies with the
process.

Four more follow from the same model and have no run of their own: the stop flag is
written without the mutex of the condition variable, so its notification may be
lost and `StopRetryThread`, which "stops all threads" (`event_notifier.h:149`),
never returns (`LostWakeup` in `StopFinishesOrWakeupLost`); without a key lines
are dropped where two comments and the service file promise to keep them
(`SendSettled`, `Discard`); a line can be appended to the file after it was
resent and goes out again (hence the 2 in `DuplicatesBounded`); "3 attempts per
event" are 3 attempts per flush, and a departure, which carries no `event_time`,
is retried for ever (hence `Resolvable`).

Proved (`EventNotifierProofs`, for all sets of lines, retry counts and budgets):
`TypeCorrect`, `CustodyHolds`, `RewriteIsSafe`, `FailClosed`, `DeliveryImplemented`,
`DuplicatesAreBounded`, the failing file operations included, of which there may be
any number. The first three follow from the inductive invariant `IInv`. `Custody`
and `TruncationSafe` are not inductive: a line between push and append must be
covered elsewhere (`HandCovered`), the same for the front of the queue in the drain
(`DrainCovered`), a thread that works on a line has one (`LineInWork`), the flush's
locals are what its phase says (`FlushShape`), and main passes its first join only
after the send thread is done (`Joined`), without which `Exit` could discard a line
the drain is about to append. `RewriteIsSafe` (the rewrite destroys no only copy of
a line but one that a failed operation exposed) and `FailClosed` (without a server
no step posts, queues or stores a line) have no run of their own.

`DeliveryImplemented` is the refinement: `Phase` maps what is known of a line to one
phase of `EventDelivery`, and each step to one of its steps or to a stutter. It needs
a second invariant, `DInv`, for what `IInv` does not care about: a line the queue
holds is in no other place and has not been decided (`EachOnce`, `Fresh`), a lost
line does not come back (`LostIsGone`), a confirmed one arrived (`AckedArrived`) and
a discarded one was the policy's to discard (`ByPolicy`); `Stopping` and `InFlight`
say the same of the places where two threads meet. With it no line is ever in the
phase that has no name (`NothingVanished`), and the posts, the flush, the stop and
the crash are one lemma each. `DuplicatesAreBounded` bounds a count over the whole
history by a budget: what the server has of a line, plus what may still get there
(`ToArrive`: two for an untouched line, one for a copy that will be read, one for an
append that is still to come), is at most 2 and one for each lost answer, crash and
failed operation; a step moves a unit from one side to the other or spends a failure
(a truncation that fails makes the file's lines readable again, `BudgetPaid`). Only
model-checked: liveness.

### 3.2 DumpValidation: which confirmed dumpings are reported

`DumpValidation.tla` models `DumpValidator` (`dump_validation.h`) together with
the three things its outcome depends on: what `ClusterTracker::Update` may do to
the two flags of an object track, the order in which the main loop calls them,
and the background filter, whose learning phase counts frames without tracking.
Geometry is reduced to what the validator asks: is the object at its place
(`"still"`), displaced (`"moved"`), lost or deleted, and is its source near.

| state | code |
|---|---|
| `frame`, `learning`, `resets` | `frame_count` (a `uint32_t`), the frames the filter still learns, SIGUSR1 |
| `sight`, `dumped`, `fired` | each object track, its `is_dumped_item` and `dump_alert_fired` |
| `pending` | `DumpValidator::pending_`: start frame, observed frames, departed |
| `sent`, `cancelled` | the reports main hands to the notifier; the objects it clears |
| `log` | history: what an observer saw of the object since its confirmation |

`TrackFrame` is one pass of the loop body: `Update` of the tracker,
`OnDumpConfirmed` for each event, `Update` of the validator, `ClearDumpFlags` for
each cancelled object. `TrackUpdate` is the abstract tracker: it allows
everything the tracker does to a track's flags (promotion by a suspect, recovery
of a lost track that forgets `dump_alert_fired`, confirmation) and leaves when it
does so open. `log` is not kept by the validator's rules, so the properties
compare two independent accounts: it counts the tracked frames in which the object
was there or missed and the frames skipped meanwhile, where the validator compares
frame numbers that wrap.

| run | asks |
|---|---|
| `validation` | every interleaving of sightings, losses, recoveries, confirmations and one relearning, over the wrap of `frame_count`: `ReportedOnce`, `ReportsAreBacked`, `CancelsAreBacked`, `DecidedOnTime` |

What the model shows of a relearning. `elapsed` counts the frames of main, also
those in which the background filter only learns and `Update` is skipped
(`main.cpp:410-425`). After a SIGUSR1 reset that takes longer than the window, the
first tracked frame finds the window over (`dump_validation.h:183`) and cancels a
dumping whose object was there in every frame anybody looked, although
`README.md:536` says that a cancelled one vanished or moved. `CancelsAreBacked`
names this case.

The frame of the confirmation is observed too, so a report may say 21 observed
frames of a window of 20, against `dump_validation.h:79-80`; the thresholds are
not affected.

Bounds. The validator decides each object on its own, and an id
names one track there (section 3.4 says when it does not), so one object shows
what there is; the proofs are for any set. A
window of 5 frames with thresholds of 50 and 80 percent separates all
combinations (3 and 4 observations, late by one, one too few). `FrameMod = 13` is
`2^32` scaled down: the counter wraps several times in a run, once in 13 years in
the program. One reset of 6 learning frames outlasts the window.

No fairness is assumed: `DecidedOnTime` says in frames, by the observer's count,
what a liveness property would say with fairness. No dumping waits for more than
`Window` tracked frames, deleted tracks, relearnings and the wrap included; an alert
that no longer waits has its report or its cancellation; and none gets it early,
unless the object moved. An unsigned difference taken without the wrap
(`ExpiredNoWrap`) breaks it.

Proved (`DumpValidationProofs`, for all sets of objects, windows and thresholds):
`TypeCorrect`, `NeverReportedTwice`, `ReportsRestOnEvidence`,
`DisplayIsConsistent`, from one inductive invariant. "At most once" is not
inductive: a cancelled object loses `is_dumped_item` and a recovered one its
`dump_alert_fired`, and a track with neither can be confirmed again. `Final` says
why this does not reach a reported one: it is a dumped item whose alert fired
(which the recovery excludes) or deleted. `Flagged` ties a pending dumping to its
flags, `CountersTrue` the validator's counters to the observer's.
`DisplayIsConsistent` (no cancelled dumping stays on the screen as one) has no run
of its own.

`CancelsRestOnEvidence` and `DecisionsAreTimely` add the clock. The frames the
observer counted for a pending dumping, seen, missed and skipped, are as many as have
passed since its confirmation, the first included (`EveryFrameCounted`), where
"passed" is counted on the ring of `frame_count` (`Later`); lemma `Elapsed` turns
this into the unsigned difference that the code takes, as long as the window and all
relearnings together are shorter than the ring (`WindowFits`, from the assumption on
`FrameMod`: without it a relearning of 13 years would make a dumping young again). A
dumping whose window is over without a relearning has then `Window + 1` observations,
so that too few sightings are too many misses. `CancelledIsOver`: what was cancelled
is not watched any more, so its log stays what the cancellation rested on. Nothing
about this module is left to TLC alone.

### 3.3 ServoSessions: who answers for each photo

`ServoSessions.tla` models `ServoController` with its two threads: main, which
leaves one job in the pending slot, cleans up sessions and promotes dumpings, and
the worker, which turns the camera and photographs. A mutex region is one step;
between `ProcessPerson`'s unlock and its second lock the worker takes four steps
of its own (move, make the folder, photograph, count), and `Promote` five, so
that each meets the other anywhere. Zones, angles, clocks and the serial protocol
are abstracted: whether a photo is due, a session has timed out, or the servo
obeyed is open at every turn.

| state | code |
|---|---|
| `job`, `stop` | `pending`, `stop` |
| `workerPc`, `cur` | where `WorkerLoop` is, `local` |
| `session` | `person_sessions`: absent, without photo, `photo_count > 0` |
| `cache` | the keys of `cache` |
| `aim` | the object the last successful move was for |
| `folder`, `loose`, `bundle` | `person_dir`, `suspect_dir`, `dump_dir` on disk |
| `mainPc`, `dump` | the place in the frame, `Promote`'s arguments and `has_entry` |
| `forgotten` | history: persons whose session ended, for a reason the model names, and may have left a folder |

| run | asks |
|---|---|
| `servo_sessions` | all interleavings with a crash and a stop: `FoldersAttended`, `ReferencesHavePhotos`, `SuspectServed`, `ShutdownReturns` |

What the model shows. `FoldersAttended` names every way in which a folder may be
left without a session: the process ended, `remove_all` failed (its error is cleared
and the session erased all the same, `servo_controller.cpp:503-506`; `Remains` is what
it may leave), the rename of a promotion failed, or the session ended while the
worker was at work for it. The last one contradicts `README.md:300`, by which the
folder of a person is deleted or moved with the dumping: a session that ends while
the worker aims for it is gone when the worker makes the folder again (442) and
finds no session to count the photo for (464), and nothing looks at the folder
afterwards. Cleanup does it when the worker is slow (the serial answer may take
1.5 s, the timeout is 3 s); a promotion during the aim does it at once and leaves
the photo outside the bundle. And `README.md:3` says that the camera is aimed at
the dumping when it is confirmed: `ConfirmPhoto` fires with any `aim`, for
`Promote` does not move the servo.

Not forbidden by a property, but in the model: a failed `MakeDumpDir` drops the
reference to the suspect photo; a suspect photo whose dumping is never confirmed
stays in `suspect_dir`; the confirm photo may fail and is still named.

Bounds. Persons do not meet in the code (one worker, and sessions are keyed), so
one is enough; two objects are the fewest that can compete for the slot and let
one be photographed while the other is promoted. `MaxSuspicions`, `MaxDumps` and
`MaxRestarts` bound the tracker and systemd. `DiskFails` switches failing renames,
copies and removals, and is on.

Fairness: the worker and the join, threads of the operating system. Main is not
fair: `SuspectServed` needs no further frame, only that no stop or crash comes
first.

Proved (`ServoSessionsProofs`, for all persons, objects and bounds):
`TypeCorrect`, `PhotosAreAttended`, `SessionsHavePhotos`, `PromotionsFindPhotos`
and the action property `SuspectsKeepTheSlot`; `SessionsHavePhotos` and
`SuspectsKeepTheSlot` have no run of their own. The custody of folders is not
inductive by itself: `EndedUnderWorker` (a session can be absent under a busy
worker only if it ended there, since only the worker creates sessions) and
`CountedIsThere` (before the count, session and photo are gone or there
together) carry it over the worker's unlocked steps, with a removal that fails and
leaves anything from nothing to all of the folder; `WorkerHasJob` and
`MainHasDump` say whose job the steps are about. Only model-checked: liveness.

### 3.4 TrackLifecycle: whom an id names, and who is accused

`TrackLifecycle.tla` models `ClusterTracker::Update` with the stages that it hands
to `DumpDetector`, on the one thread that runs them. `phase` is the stage that
comes next, so a stage sees what the earlier ones of the same frame changed; one
action is one stage, or one round of the loops that create tracks and accuse.

| state | code |
|---|---|
| `tracks` | `tracks_`: a slot holds a track or is free |
| `id`, `age`, `lost`, `still`, `dist` | `id`, `age`, `lost_count`, `stationary_count`, `cumulative_dist_mm` in units of `min_walk_dist_mm` |
| `run` | `consecutive_match_count`; at `ConfirmRun` it stays: `confirmed` |
| `mark`, `source`, `alert` | `is_dump_suspect` and `is_dumped_item`, `source_id`, `dump_alert_fired` |
| `next_id_`, `phase` | `next_id_`, the place in `Update` |
| `lineage` | history: whether another track took over the id, and was seen beside this one |

| action | stage |
|---|---|
| `Match` | 1 to 3: `AssociateGreedy`, the update of what was matched, the loss of the rest |
| `Judge` | 4 and 5: `EvaluateSuspects`, then the deletions |
| `DetectSeparation` | 6: a cluster that is a suspect from the start |
| `Appear`, `Recover` | 6: a new track, or one that takes over the identity of a lost one |
| `TrajectoryMatch` | 6.5: a resting track on somebody's path becomes a suspect |
| `CheckConfirmation` | 7: the alert |
| `Cancel` | main's `ClearDumpFlags` between two frames |

Geometry is a free choice: which track a cluster matches, which lost track is near,
whose path a track lies on, whether somebody stands by. So are the frames a suspect
is watched and the departure of its source, and which alerted id the validator
cancels (module `DumpValidation` has the rule; here any may be). The moment a walker
is deleted early depends on `was_moving` and is a choice (`WalkedOff`). Left out:
person groups (section 3.9), pending clusters (a cluster held back is one that does
not appear yet), departure events, the early photo, and the wrap of the 32-bit id.

| run | asks |
|---|---|
| `track_lifecycle` | `OneCurrentTrack`: whom an id names; `AccusedWalked`: who may be accused; `DumpsOutlastOcclusion`: how an accusation ends |
| `track_blame` | violation: an object is accused of having been left by somebody who came after it |

What the model shows of the recovery. It copies the identity of a lost track to a
new one and leaves the original in place, lost for so long that the next frame
deletes it (`SupersededGo`, "to be removed", `cluster_tracker.cpp:977`). But the
first pass of `AssociateGreedy` matches any track within its radius, however long
it was lost: if a cluster matches the original in that next frame, two tracks
live under one id, `lineage` says `"doubled"`, and both go on.
`AccusedWalked` is stated around these ids, for a doubled one names a person and
a thing at once; `ClearDumpFlags` clears the first of them only, and
`DumpValidator` looks at the last. `README.md:568` calls ids unique, and
`DumpValidation` assumes it.

`track_blame` is the disagreement with a run: stage 6.5 accuses a resting young
track that lies on the path of somebody who walked past it, without comparing who
was there first, and records `newly_created_after_source`.

Bounds. Three slots hold an object, its source and the source's successor, the
most that one property relates; three ids are two births and the id that a
recovery takes and does not use. The counters are scaled so that every
comparison of the code has both outcomes, in the order of the defaults:
`recovery_max_lost_frames` and `suspect_lost_frames_limit` 10 (here 1),
`lost_age_limit` 15 (1), `dumped_item_lost_age_limit` 200 (2),
`dump_candidate_birth_frames` 30 (2). `BirthAge = 2` lets a track be accused,
cancelled and still be young. `FirstAge =
{1}` leaves out, for the sake of the number of states, the tracks that start at
age 0 beside another; the proofs include them. The confirmation takes two
matches: with `tentative_confirm_frames` at 1 the code confirms at the second
match too, which `ConstantsOK` excludes rather than models.

No fairness is assumed: all properties are safety properties.

Proved (`ClusterTrackerProofs`, for any slots, ids and parameters within
`ConstantsOK`): all properties of the run (`TypeCorrect`, `IdentityKept`,
`OnlyWalkersAccused`, `DumpsLast`) and four more: the original of a recovery goes
in the next frame unless it is seen (`OriginalsRemoved`), flags and source of an
accusation go together (`SourceInStep`), a cancelled accusation is final
(`CancellationFinal`), and suspects are judged only while seen
(`JudgedWhileSeen`). One lemma
per action says what it does to each slot; one lemma per conjunct of `IInv` goes
through the actions. The invariant is needed mainly for `AccusedWalked`. An
accusation names an id, and another track under that id must not be a thing or
somebody who stood still: `DoubledTogether` makes a doubled id doubled for all,
`SupersededAlike` gives a superseded track the distance of its successor, and
`SupersededLost` says that a superseded track accused in the frame of its
recovery never walked and is dropped before stage 4 sees it. `IdsGiven` keeps new
ids fresh; `LostBound` says that stage 5 leaves no track lost beyond all
lifetimes, without which the counter has no bound.

### 3.5 Blackbox: evidence clips from the request to the server

Three modules. `BlackboxSaves` has the black box saves of `CameraModule`,
`ClipUpload` the clip path of `EventNotifier`, and `Blackbox` composes them with
the main thread, which requests clips and shuts both down: a save worker runs the
callback, so `UploadClip` is a part of the worker's program, and its steps
(`UploadPush`, `UploadStart`, `UploadNotify`) join an operation of each module.
`Clips` is what they share.

| state | code |
|---|---|
| `running`, `active` | `running_`, `blackbox_active_` |
| `threads` | `blackbox_threads_`: threads not joined yet |
| `workerPc` | per clip, where its `BlackboxSaveWorker` is |
| `masker` | whether `blackbox_masker_` exists |
| `clipUpload` | `cfg_.clip_upload` and an API key |
| `clipQueue`, `clipRunning` | `clip_queue_`, `clip_running_` |
| `clipPc`, `job`, `attempt` | where `ClipLoop` is, its `job`, the failed rounds of its loop |
| `mainPc`, `requested` | where main is between reservation and new thread, or in the shutdown; the requests made |
| `saved`, `uploaded`, `givenUp`, `failed`, `missed` | history |

A step ends where a thread touches what others see: the running flag, the masker
pointer, the detector, the slot counter, the queue. The frame ring is the
environment: frames may come or stay away, the window may be empty or broken, a
file may not open, a masking may not be safe, a post may fail. Clips are numbered
in the order of their requests, so no two states differ by a renaming only.

What two threads inside one detector do is undefined. The model lets it be
harmless or end the process (`Crash`); a clip that comes out badly masked is not
distinguished. After a crash nothing happens: the next process does not look for
clips on the disk.

| run | asks |
|---|---|
| `blackbox` | `SlotsCounted`: is the save counter exact over the five exits; `NoUploadAfterStop`: is the order of the shutdown sufficient; `ClipsAccounted`: is each saved clip in one place, and tried as often as configured before it is given up; `SlotFreeAgain`, `ClipsResolved`, `StopEndsOrNotifyMissed`: does it all end |
| `blackbox_shared_masker` | violation: two workers are in the one face masker |

What the model shows. The masker "of this worker's own" (`camera_module.cpp:410`)
is one member of `CameraModule`: with the default of two concurrent saves, two
workers may both find it missing, the second creation destroys what the first
uses, and both call `Apply`. With a limit of one it cannot happen
(`OneSaveOneMasker`). The stop of the clip thread has the lost notification of
section 3.1: `clip_running_` is cleared and notified without `clip_mutex_`. Then
the program hangs in its last join, but no clip is in the queue. A stop makes the
clip thread leave what is queued or in hand (`LoopTop`, `GiveUpClip`); the files
stay on the disk and nobody sends them later, which the comment above
`UploadClip` accepts. The list of threads is emptied only by a request that finds
no other save.

Bounds. Three requests on two slots reach the limit, refuse one, and reuse a slot
while the other is busy; two save workers are the fewest that share the masker.
With `ClipMaxRetries = 2` a clip fails, is tried again and is given up. The
violation run needs two clips and one attempt.

Fairness. The main thread once it is in a request or in the shutdown, the clip
thread and every save worker are weakly fair: threads of the operating system,
whose posts have timeouts and whose waits for frames end three seconds after the
window. Frames (`FramesCome`), requests, the stop and the crash are not fair.
`CHECK_DEADLOCK FALSE`: the program ends, or hangs in the join.

Proved (`BlackboxProofs`, for any number of requests, any limit, any number of
attempts): `TypeCorrect`, `SlotCounterExact`, `ReapIsShort`, `StopIsFinal`,
`HangLosesNoClip`, `ClipsAreAccounted`, and, for a limit of one, `OneSaveOneMasker`.
`SlotsCounted` is an equation between the counter and the cardinality of the saves
in progress, so each action is shown to move one clip in or out of that set
(`RequestsFresh`: the request under way has no worker yet). `ReapIsShort`, that the
main loop never waits for a save in progress when it joins threads, then follows
from the test of the counter: with the request itself counted, one is all there is.
`StopIsFinal` rests on `ThreadsListed` (every living worker is in the list that
`Stop` joins) and on `RunsOnlyFlagged`; `HangLosesNoClip` on `SleeperCovered` (a
clip thread asleep over a clip has a worker on its way to wake it) with
`MissedInStop`. `ClipsAreAccounted` follows from `AInv`: a worker saves its clip
once and then hands it over (`SavedOnce`), so that what `UploadPush` appends is in
no other place (`Placed`); a clip fails only while it is in hand, as often as the
loop has gone round (`Tried`); and since the camera runs only before the stop
(`RunsBeforeStop`), when `clip_running_` still holds, a clip given up then has
failed in every round. Only model-checked: liveness.

### 3.6 IntrusionAlerts: from a person in a zone to the display

Three modules. `ZonePolicy` has the class of that name, `EventResend` the three
lists of `JsonPacketSender`, and `IntrusionAlerts` composes them in the frames of
main, which may track, only learn the background, or fail.

| state | code |
|---|---|
| `states_` | `states_`: `consecutive` up to the threshold, and as ages `last_seen_ms`, `last_event_ms` |
| `remaining` | the `remaining` of a pending event |
| `phase`, `calls`, `raised` | the place in the frame, the calls for each pid, `intrusion_events` |
| `stay`, `unseen`, `quiet`, `away`, `last` | history: what an observer saw of each person |
| `packets`, `arrived`, `shown` | history: what became of the packets of each event |

Times are ages up to the first age that makes no difference. A person is a pid, as
`main` passes it: the id of the group, or of the track; two tracks may answer to
one pid in one frame (`Twins`), for a group keeps the id of a member that went its
own way, and one person may change its pid when a group forms. Where persons are
and what the classifier says of them is free. The two senders (Unity and the
visualiser) get the same events and are one.

| run | asks |
|---|---|
| `intrusion` | `AlertsJustified`: is nobody alerted too early or too often; `StayingIntruderAlerted`: is somebody who stays alerted again and again; `ShownIffOneArrives`: is an event in exactly its five packets |

What the model shows. `PruneStale` forgets with a person when it was last alerted:
somebody who hides for more than `forget_after_ms` (5 s) and comes back is alerted
again before `intrusion_repeat_ms` (10 s) are over, which `zone_policy.h:23` and
`README.md:332` exclude; the exception is `away` in `AlertsJustified`. The
sightings required "in a row" need not be in consecutive frames: a frame in which
the person is not seen does not reset the count, only one outside does. An alert
that the classifier then takes for noise has used up the interval. A packet that
fails, or is too large for a datagram, uses up a repetition, so what arrives is
decided by five packets and not by five successes.

Bounds. Persons do not meet in `ZonePolicy`, so one pid is enough; time passes in
steps of 1 and 3 against `Forget = 2` and `Repeat = 6`, so that it stops short of
each limit and jumps over it. Three events for two new ones per frame let them
overlap over the three repetitions; `Spare` keeps numbers of the pool for
intrusions, `Twins` bounds the calls of a frame. `now_ms` is the wall clock and
taken to be monotone.

Fairness: `WF_vars(Next)`, the main loop goes on. `StayingIntruderAlerted` assumes
besides that frames are tracked again and again and that the person is seen inside
in each of them.

Proved (`IntrusionAlertsProofs`, for all persons, times, events and repetitions):
`TypeCorrect`, `AlertsJustifiedHolds`, `ShownIffOneArrivesHolds`. The invariant
relates what the program remembers to what happened: `Remembered` says that the
policy may think a stay shorter than it was, and an alert older only if it forgot
the person in between; `Owed` that the packets sent and those still owed add up.
Only model-checked: `StayingIntruderAlerted`.

### 3.7 BackgroundFilter: what is hidden from the tracker

`BackgroundFilter.tla` models the class of that name. A place stands for the
positions within `match_radius_mm`, `Near` relates places within the larger radius
of the residual filter, and of a width only the residual filter's limit counts.
An action is one call of `Apply` (learning or in operation), with the protected
positions that main sets before the next one, or a reset.

| state | code |
|---|---|
| `frame_count_` | `frame_count_`, up to the end of the learning phase |
| `candidate`, `short` | `background_map_`: the unconfirmed entry of a place, and the `absent_count` of its oldest confirmed one |
| `long` | `long_term_map_` |
| `protected` | `protected_positions_` |
| `hidden` | what the last frame filtered out |
| `staying`, `gone`, `known` | history: what was to be seen at each place, and what of it was passed on |

| run | asks |
|---|---|
| `background` | `GoneIsForgotten`: does what left stop being background; `LargeObjectSettles`: does what stays become background, in how many frames; `NewObjectShown`: is nothing hidden before the tracker has seen it |

What the model shows. The `absent_count` of a candidate is never reset, though
`background_filter.cpp:201` says that an entry that is observed is reset, and
`background_filter.h:61` that the count is of frames in a row: a candidate is erased
`remove_after_absent` (500) frames after it came up, seen or not. An unprotected
object no wider than 350 mm is hidden by the residual filter from 40 sightings on,
and what is hidden is not counted, so it never reaches the 300 sightings of
`add_after_frames` (`background_filter.h:41`: "registered after 30 s"): it is hidden
as a candidate until the candidate is erased, is passed on for 40 frames, and hidden
again. A new narrow object within 140 mm of such a candidate is hidden at once,
which is why `NewObjectShown` speaks of what is around. A large object needs the
short-term and the long-term map to agree; `LargeObjectSettles` gives the bound.

Bounds. Two places that are near each other are the fewest that show the larger
radius. The parameters keep the order of the defaults (40, 300, 500, 1000, 3000
are 2, 3, 3, 4, 4): the residual filter before either map, adding not after
removing. The last frames of the learning phase confirm what was there in two of
seven. `AddAfter` and `LongAdd` are more than 1: a new entry is pushed unconfirmed and
tested from its second sighting on, so that a limit of 1 says the same as 2.

No fairness is assumed: the bounds are in frames.

Proved (`BackgroundFilterProofs`, for any places and neighbourhoods and all
parameters in the order of the defaults): all properties of the run (`TypeCorrect`,
`GoneIsForgottenHolds`, `LargeObjectSettlesHolds`, `NewObjectShownHolds`). None of
the three is inductive. `Absence` ties the absence counters to the frames since
something was seen, `Counts` the sightings of a candidate to what was passed on.
For `LargeObjectSettles` the invariant says where an object is on its way: in the
short-term map either the candidate has counted every frame of its stay
(`ShortSettling`, first case), or that one was erased on the way, less than
`AddAfter` frames into the stay, and its replacement has counted every frame since
(second case); as the replacement is confirmed before it could be erased, the
object starts again at most once, which is where `2 * AddAfter` comes from. `LongSettling`
is the same for the other map. `LearningFresh` says that nothing is noted while
the filter learns.

### 3.8 MainLoop: scans, the stop, and the originals on disk

`EvidenceVault` has the encrypted originals, a file being its age in days once its
header can be read, and the two threads that store them; `MainLoop` the loop that
scans, reconnects, sweeps and ends.

| state | code |
|---|---|
| `files`, `writing` | `vault_dir`; the file a thread is in `StoreOriginal` with |
| `pc` | where main is: in the loop, in one of the three joins of the end (`Joins`), `"hung"` in one, `"ended"`, or `"down"` after a crash |
| `g_running`, `frames`, `fails` | `g_running`, `frame_count` between two sweeps, `scan_fail_count` |
| `available`, `todo` | `available_`; the files the sweep has still to remove |
| `job` | the servo thread has a job |
| `lidar`, `answers` | `RplidarS2::running_`; the sensor |
| `due` | history: frames since a file expired |

| run | asks |
|---|---|
| `main_loop` | `RetentionKept`: is no original lost before its time; `PurgedInTime`: is none kept after it; `StopEndsLoop`: does a stop bring main out of its loop from wherever it is, and to its end or to a join that hangs; `LidarReturns`: does the reconnecting end |

What the model shows. The photo of a confirmed dumping is always named `confirm`
(`servo_controller.cpp:565`), so the original of one dumping is overwritten by
that of the next, whatever is left of its retention; `RetentionKept` names the
case. A sweep happens every 36,000 frames, not every hour: never while the LiDAR
is disconnected, nor in a program that restarts more often than that, nor without
a key, although originals of an earlier run may be there. A file cut off within its
header is never purged (`Stub`), for it cannot be judged. And a stop need not end the
program: `main.cpp:713-715` joins the servo worker, the camera's threads and the
notifier's, and the last two may miss their notification (sections 3.1 and 3.5) or,
for the capture thread, block in a read. Here such a join comes back or does not
(`Ended`); why, is in those sections. systemd has only `Restart=on-failure` for the
program, so nothing starts a hung one again.

Left out: what a frame is about (sections 3.2 to 3.7), so a frame is a photo or
none, and at most one photo (the code may take several, one after the other);
`ReadOriginal`; the masking that follows the storing. The clock is taken to be
right. `face_masker_`, which the header gives to the main thread
(`camera_module.h:175`), is also called by the servo thread
(`camera_module.cpp:153`); the detector is outside this model.

Bounds. One photo of each thread and the `confirm` photo exist beside an older
one: two names and `confirm`. `Retain = 2` has a day before the last. A sweep every
three frames and a reconnect after two failures are the smallest with a frame
between two sweeps and a failure that does not count.

Fairness: `WF_vars(Main)` and `WF_vars(JobDone)`. `GetScanFrame` and `Start`
return, with an error at worst; a job of the servo thread ends, for its serial
port has timeouts. The sensor owes nothing: `LidarReturns` assumes that it answers
from some time on.

Proved (`MainLoopProofs`, for any names, retention and intervals): `TypeCorrect`,
`PurgedInTimeHolds`, `RetentionKeptHolds`. `WritersAlone` says that a file in the
making belongs to one thread and has no header yet, `TodoExpired` that what the
sweep has listed is still expired when it comes to it, `DueThisRound` that a file
overdue has been so for no more frames than this round has had. Only
model-checked: `StopEndsLoop`, `LidarReturns`.

### 3.9 PersonGroups: which legs are a person, and who is sent for it

The sensor sees legs. `UpdatePersonGroups` makes a person of two of them, or of one
that is near a person remembered; one track of the group, the primary, is sent.
`PersonGroups.tla` models it with what it needs of `Update`: matching, deletion, new
and recovered tracks, and the second call at the end of the frame. A call is two
steps, the loops at its start (`Fade`) and the three passes (`Passes`).

| state | code |
|---|---|
| `members` | `tracks_`, in its order, which is the order of birth |
| `id`, `sight` | `id`; `lost_count` as far as grouping depends on it |
| `group`, `primary`, `last`, `hold` | `person_group_id`, `person_group_primary`, `last_person_group_id`, `person_group_hold_count` |
| `entity` | `person_entities_`: `lost_count` of each, or erased |
| `made`, `stage` | `next_id_`, the place in `Update` |
| `how`, `hidden` | history: the pass that grouped the track, and the frames it was in sight and not sent |

Geometry and the tests of a single track (`IsLegLikeForPerson`,
`IsPersonPairCandidate`) are free choices: any disjoint pairs of tracks in sight,
any attachment to a person that is remembered. An entity's `hold_count` is left
out: it is set with `lost_count` to 0 and counted down as that counts up, so it is
never positive once `lost_count` exceeds `person_group_hold_frames`.
`last_person_group_id` outlives the hold in the code; the passes do not look at it
then, and the model drops it.

| run | asks |
|---|---|
| `person_groups` | `EveryGroupShown`: what may keep a confirmed leg of a group from being sent as its person; `TwiceOnlyByHold`: when has it two; `HeldGroupKept`: is a person remembered for as long as a leg is held for it; `HiddenBriefly`: for how long is a held leg that has no group kept from the receivers |

What the model shows. A group may have two representatives, although the header
calls the primary the track that is sent for it (`cluster_tracker.h:120`) and
`README.md:510` says that only the representative of a group is sent. Two ways lead
there, and `TwiceOnlyByHold` names them. The hold pass gives a pair that lost its
shape its last group (`cluster_tracker.cpp:533`) without asking whether a new pair
has taken this id in the same call: two people close together, of whom one pairs
with a leg of the other, are sent as two objects with one id. And a recovered track
has the id of its original, so that each of the two takes the other for itself in
the test of line 572. 
A person may not be sent although one of its legs is confirmed. The sender asks for
`confirmed` before it asks for the primary (`json_packet.cpp:66`, `76`), and the
grouping asks for neither: a confirmed leg behind a primary that is not confirmed is
left out, and so is the primary. `EveryGroupShown` says that nothing else does that:
for every choice of the confirmed tracks (`Sent` is the sender's rule), a confirmed
leg of a group is sent as the person, or another one of its group is, or an
unconfirmed primary is in front of it, which leads a pair or is older. It does not
say how long that lasts: in the program until the primary has been matched in
`tentative_confirm_frames` frames in a row or is deleted as tentative, a part of
`TrackLifecycle` and not of this module.

The counters of the hold are in frames (`cluster_tracker.h:125`), and `README.md:509`
keeps a group for 18; but the function runs twice per frame
(`cluster_tracker.cpp:813`, `986`), so that the hold lasts nine. `HiddenBriefly` has
the 2 for this reason.

Bounds. Four legs are two persons, the fewest that can exchange a leg. One leg at a
time is out of sight, and a hold of two calls is one frame, with a call in which it
is still 1. Ids are those of the model's births: whose number a recovery uses up is
not distinguished from one that was never made.

No fairness is assumed: all properties are safety properties.

Proved (`ClusterTrackerProofs`, for any number of tracks, any number of them out of
sight, and every `HoldFrames`): all properties of the run, as `GroupsTypes`,
`GroupsAreShown`, `TwiceIsByHold`, `HeldAreRemembered` and `HidingIsBrief`. Most of
the argument is about one call of the passes. `PassesGroup` names what they choose
(`Grouping`: disjoint pairs, each with a lead, and the group of every track) and
`RegroupedMember` what becomes of one track; `PassesShow` and `PassesTwice` then
follow it by cases. A pair shows by its lead, which `LeadInPair` proves to exist, and
single legs by the oldest of them, if nobody in a pair is in their group; `PassesSight`
adds that whoever is grouped is in sight, so that the sender's other tests let a
confirmed primary through. These need
`NobodyGrouped`: the loops at the start of a call have cleared every group.
`HeldAreRemembered` is inductive, since the hold goes down where the entity's
`lost_count` goes up. `HidingIsBrief` is not: `HidingPaid` says, stage by stage, that
each frame a leg is hidden has cost its hold two, with one exception, the last
frame, which begins when one call is left of it.

## 4. Not modelled

- **The vendored RPLIDAR SDK** (`thirdparty/`), most of the repository by size, is
  third-party driver code. `RplidarS2` is modelled as its user.
- **Geometry.** `ScanProcessor`, `ObjectClassifier`, the Kalman filter and the
  gates of the tracker compute with floating point and keep no state that an
  interleaving could disturb; their outcomes are free choices in the models.
- **FaceMasker** is OpenCV; whether a frame is safe to emit is a free choice.
- **PirSensor** counts frames for one flag of a report, on one thread.
- **UdpSender** frames datagrams and keeps nothing; **JSON** is formatting.
- **Pending clusters and departure events** of the tracker: the first decide only when
  a track appears, the second are raised once when a walker has stood still for
  `departure_frame_count` frames, a counter of one track on one thread.
- **Parameters, profiler, time utilities**: constants and measurement.
- **`pi_photo_server.py`, `lidar_visualizer.py`, the sketch, the tests** are
  separate programs.

Of what is modelled, left to TLC alone: the liveness properties of the runs
(`EventuallyResolved`, `StopFinishesOrWakeupLost`, `StayingIntruderAlerted`,
`SuspectServed`, `ShutdownReturns`, `SlotFreeAgain`, `ClipsResolved`,
`StopEndsOrNotifyMissed`, `StopEndsLoop`, `LidarReturns`), because the prover does not
reason about ENABLED, and the three counterexamples. Every invariant and every
action property of a passing run is also a theorem.
Three hazards have no property: the shared `face_masker_`, the direction of the
confirm photo (3.3), which the model leaves open as the code does, and the originals
cut off within their header (3.8).
