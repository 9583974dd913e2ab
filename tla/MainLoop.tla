------------------------------ MODULE MainLoop ------------------------------
(***************************************************************************)
(* The loop of main.cpp around the LiDAR (RplidarS2) and the vault: scans, *)
(* reconnecting, the hourly purge of expired originals and the end of the  *)
(* program, with the servo thread as the other photographer.  A frame      *)
(* takes at most one photo here.  The signal to stop, a crash and a        *)
(* restart come at any time.  The sensor answers or does not; what the     *)
(* frame is about is in the other modules.                                 *)
(***************************************************************************)
EXTENDS EvidenceVault

CONSTANTS
  SweepEvery,  \* 36000 frames
  MaxFails     \* kScanFailReconnectThreshold

ASSUME LoopOK == SweepEvery \in Nat \ {0} /\ MaxFails \in Nat \ {0}

VARIABLES
  pc,          \* where the main thread is
  g_running,   \* cleared by SIGINT and SIGTERM
  frames,      \* frame_count, 1..SweepEvery over and over
  fails,       \* scan_fail_count
  available,   \* EvidenceVault::available_: there was a key at the start
  todo,        \* the expired files the sweep has still to remove
  job,         \* the servo thread has a job, and may take a photo
  lidar,       \* RplidarS2::running_
  answers,     \* the sensor is there and answers
  due          \* history: frames since each file expired, or since a sweep
               \* could not remove it, with the vault available

loopVars == <<pc, g_running, frames, fails, todo, lidar>>
vars == <<vaultVars, loopVars, available, job, answers, due>>

Up == pc \notin {"ended", "down"}

(* The loop has been left: what main waits for, in this order, or for ever.*)
Joins == {"servo", "camera", "notifier", "hung"}

(* RplidarS2: a scan comes if it runs and the sensor answers; Start        *)
(* refuses a LiDAR that was not stopped, and fails without an answer.      *)
GetScanFrame == lidar /\ answers
StartLidar == ~lidar /\ answers /\ lidar' = TRUE
StopLidar == lidar' = FALSE

TypeOK ==
  /\ VaultTypeOK
  /\ pc \in {"top", "sweep", "scan", "reconnect", "body", "photo", "ended", "down"} \cup Joins
  /\ g_running \in BOOLEAN
  /\ frames \in 0..SweepEvery
  /\ fails \in 0..MaxFails
  /\ available \in BOOLEAN
  /\ todo \in SUBSET Name
  /\ job \in BOOLEAN
  /\ lidar \in BOOLEAN
  /\ answers \in BOOLEAN
  /\ due \in [Name -> 0..SweepEvery + 1]

Init ==
  /\ VaultInit
  /\ pc = "top"
  /\ g_running = TRUE
  /\ frames = 0
  /\ fails = 0
  /\ available \in BOOLEAN
  /\ todo = {}
  /\ job = FALSE
  /\ lidar = TRUE
  /\ answers = TRUE
  /\ due = [n \in Name |-> 0]
-----------------------------------------------------------------------------
(* Mutants: an operator named after a definition and a fault is that       *)
(* definition with the fault; no specification uses it.                    *)

(* reconnecting goes on whatever the signal says *)
ReconnectForever ==
  /\ pc = "reconnect" /\ StartLidar
  /\ pc' = "top" /\ fails' = 0
  /\ UNCHANGED <<vaultVars, g_running, frames, available, todo, job, answers, due>>

(* reconnecting does not stop the LiDAR first, so Start refuses *)
ScanFailsUnstopped ==
  /\ pc = "scan" /\ ~GetScanFrame
  /\ fails' = fails + 1
  /\ pc' = IF fails + 1 >= MaxFails THEN "reconnect" ELSE "top"
  /\ UNCHANGED <<vaultVars, g_running, frames, available, todo, job, lidar, answers, due>>

-----------------------------------------------------------------------------
SweepDue == available /\ frames = SweepEvery

LoopHead ==
  /\ pc = "top"
  /\ pc' = IF ~g_running THEN "servo" ELSE IF SweepDue THEN "sweep" ELSE "scan"
  /\ todo' = IF g_running /\ SweepDue THEN {n \in Name : Expired(n)} ELSE {}
  /\ UNCHANGED <<vaultVars, g_running, frames, fails, available, job, lidar, answers, due>>

SweepFile ==
  /\ pc = "sweep"
  /\ \E n \in todo, removed \in BOOLEAN :
       /\ Purge(n, removed)
       /\ todo' = todo \ {n}
       /\ due' = [due EXCEPT ![n] = 0]
  /\ UNCHANGED <<pc, g_running, frames, fails, available, job, lidar, answers>>

SweepDone ==
  /\ pc = "sweep" /\ todo = {}
  /\ pc' = "scan"
  /\ UNCHANGED <<vaultVars, g_running, frames, fails, available, todo, job, lidar, answers, due>>

ScanFails ==
  /\ pc = "scan" /\ ~GetScanFrame
  /\ fails' = fails + 1
  /\ IF fails + 1 >= MaxFails
     THEN pc' = "reconnect" /\ StopLidar
     ELSE pc' = "top" /\ UNCHANGED lidar
  /\ UNCHANGED <<vaultVars, g_running, frames, available, todo, job, answers, due>>

(* No point in range.                                                      *)
ScanEmpty ==
  /\ pc = "scan" /\ GetScanFrame
  /\ pc' = "top"
  /\ fails' = 0
  /\ UNCHANGED <<vaultVars, g_running, frames, available, todo, job, lidar, answers, due>>

(* An original that should be gone by now.                                 *)
Overdue(n) == available /\ Retain > 0 /\ files[n] = Retain

ScanFrame ==
  /\ pc = "scan" /\ GetScanFrame
  /\ pc' = "body"
  /\ fails' = 0
  /\ frames' = IF frames = SweepEvery THEN 1 ELSE frames + 1
  /\ due' = [n \in Name |-> IF ~Overdue(n) THEN 0 ELSE IF due[n] > SweepEvery THEN due[n] ELSE due[n] + 1]
  /\ UNCHANGED <<vaultVars, g_running, available, todo, job, lidar, answers>>

(* Every 2 s, while g_running.                                             *)
Reconnect ==
  /\ pc = "reconnect"
  /\ \/ StartLidar
     \/ ~g_running /\ UNCHANGED lidar
  /\ pc' = "top"
  /\ fails' = 0
  /\ UNCHANGED <<vaultVars, g_running, frames, available, todo, job, answers, due>>

(* Fail-closed: without a key no original is stored.                       *)
Photo ==
  /\ pc = "body" /\ available
  /\ pc' = "photo"
  /\ \E n \in Name : Create("main", n)
  /\ UNCHANGED <<g_running, frames, fails, available, todo, job, lidar, answers, due>>

PhotoStored ==
  /\ pc = "photo"
  /\ pc' = "top"
  /\ Finish("main")
  /\ UNCHANGED <<g_running, frames, fails, available, todo, job, lidar, answers, due>>

NoPhoto ==
  /\ pc = "body"
  /\ pc' = "top"
  /\ UNCHANGED <<vaultVars, g_running, frames, fails, available, todo, job, lidar, answers, due>>

(* lidar.Stop, and servo.Shutdown, which joins the thread.                 *)
ServoJoined ==
  /\ pc = "servo" /\ ~job
  /\ pc' = "camera"
  /\ StopLidar
  /\ UNCHANGED <<vaultVars, g_running, frames, fails, available, todo, job, answers, due>>

(* camera.Stop and notifier.StopRetryThread join threads that may have     *)
(* missed the notify (runs blackbox and notifier): either join may hang.   *)
Ended ==
  /\ pc \in {"camera", "notifier"}
  /\ pc' \in {"hung", IF pc = "camera" THEN "notifier" ELSE "ended"}
  /\ UNCHANGED <<vaultVars, g_running, frames, fails, available, todo, job, lidar, answers, due>>

Main ==
  \/ LoopHead \/ SweepFile \/ SweepDone
  \/ ScanFails \/ ScanEmpty \/ ScanFrame \/ Reconnect
  \/ Photo \/ PhotoStored \/ NoPhoto
  \/ ServoJoined \/ Ended
-----------------------------------------------------------------------------
(* The servo thread: no job is taken once Shutdown has been called.        *)
TakeJob ==
  /\ Up /\ pc \notin Joins
  /\ ~job /\ job' = TRUE
  /\ UNCHANGED <<vaultVars, loopVars, available, answers, due>>

JobPhoto ==
  /\ job /\ available
  /\ \E n \in Shot : Create("servo", n)
  /\ UNCHANGED <<loopVars, available, job, answers, due>>

JobDone ==
  /\ job /\ job' = FALSE
  /\ IF writing["servo"] = None THEN UNCHANGED vaultVars ELSE Finish("servo")
  /\ UNCHANGED <<loopVars, available, answers, due>>

Servo == TakeJob \/ JobPhoto \/ JobDone
-----------------------------------------------------------------------------
Stop ==
  /\ Up /\ g_running /\ g_running' = FALSE
  /\ UNCHANGED <<vaultVars, pc, frames, fails, todo, lidar, available, job, answers, due>>

Crash ==
  /\ Up
  /\ Torn
  /\ pc' = "down"
  /\ job' = FALSE
  /\ todo' = {}
  /\ lidar' = FALSE
  /\ UNCHANGED <<g_running, frames, fails, available, answers, due>>

(* main gives up if the LiDAR does not start.                              *)
Restart ==
  /\ ~Up /\ answers
  /\ pc' = "top"
  /\ g_running' = TRUE
  /\ frames' = 0
  /\ fails' = 0
  /\ lidar' = TRUE
  /\ available' \in BOOLEAN
  /\ due' = [n \in Name |-> 0]
  /\ UNCHANGED <<vaultVars, todo, job, answers>>

(* The sensor is unplugged or plugged in.                                  *)
Sensor ==
  /\ answers' = ~answers
  /\ UNCHANGED <<vaultVars, loopVars, available, job, due>>

Day ==
  /\ NewDay
  /\ due' = [n \in Name |-> IF Overdue(n) THEN due[n] ELSE 0]
  /\ UNCHANGED <<loopVars, available, job, answers>>

Next == Main \/ Servo \/ Stop \/ Crash \/ Restart \/ Sensor \/ Day

Spec == Init /\ [][Next]_vars

(* Both threads go on: GetScanFrame and Start come back, jobs end.         *)
FairSpec == Spec /\ WF_vars(Main) /\ WF_vars(JobDone)
-----------------------------------------------------------------------------
(* An original whose header can be read stays as it is until Retain days   *)
(* have passed, over crashes, sweeps and photos of both threads; but that  *)
(* of a confirmed dumping is overwritten by the next one.                  *)
RetentionKept ==
  [][\A n \in Name : files[n] \in 0..Retain /\ files'[n] \notin {files[n], files[n] + 1} =>
       \/ files[n] = Retain /\ Retain > 0
       \/ n = Confirm /\ writing'["main"] = Confirm]_vars

(* An expired original is purged within SweepEvery frames ("about every    *)
(* hour", main.cpp:346), unless the program starts anew in between or the  *)
(* file cannot be removed; not in hours without a frame, nor without a key.*)
PurgedInTime == \A n \in Name : due[n] <= SweepEvery

(* The signal to stop ends the loop, from wherever it is, reconnecting     *)
(* included, and the servo thread; then the program ends, or hangs in the  *)
(* join of the camera's or the notifier's thread, and nowhere else.        *)
StopEndsLoop == (Up /\ ~g_running) ~> (~Up \/ pc = "hung")

(* A sensor that comes back is scanned again.                              *)
LidarReturns == <>[](answers /\ g_running /\ Up) => <>[](pc # "reconnect")
=============================================================================
