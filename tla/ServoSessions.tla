---------------------------- MODULE ServoSessions ----------------------------
(***************************************************************************)
(* ServoController (servo_controller.cpp): main leaves one pending job, a  *)
(* worker thread aims the camera and photographs, and both work on person  *)
(* sessions, suspect photos and folders on disk.  The worker moves the     *)
(* servo and captures without the mutex, while main may delete or promote  *)
(* the session the photo is for.                                           *)
(*                                                                         *)
(* A mutex region is one step, and so is each operation outside of it.     *)
(* Zones and times are left out: whether a photo is due (other zone, or    *)
(* the interval has passed) and whether a session has timed out is open.   *)
(***************************************************************************)
EXTENDS Naturals, FiniteSets

CONSTANTS
  Person,        \* person or person-group ids
  Object,        \* object track ids
  Nobody,        \* the source of a dumping without a person (id 0)
  MaxSuspicions, \* bound: suspect callbacks of the tracker
  MaxDumps,      \* bound: dump folders of one process
  MaxRestarts,   \* bound: crashes and restarts of the program
  DiskFails      \* whether renaming, copying and removing may fail

ASSUME ConstantsOK ==
  /\ Person \cap Object = {} /\ Nobody \notin Person \cup Object
  /\ MaxSuspicions \in Nat /\ MaxDumps \in Nat /\ MaxRestarts \in Nat
  /\ DiskFails \in BOOLEAN

VARIABLES
  job,        \* pending: the one slot between main and the worker
  stop,
  workerPc, cur,    \* the worker: where it is, and the job it took
  session,    \* person_sessions: "none", or with or without a photo_count
  cache,      \* the objects with an entry in the suspect photo cache
  aim,        \* the object the camera is turned to, if it is one
  folder,     \* the folders under person_dir
  loose,      \* how many photos of each object are in suspect_dir
  bundle,     \* each object's dump folder, and what its confirm photo shows
  mainPc, dump,     \* main: where it is, and the dumping it promotes
  suspected,  \* how often the tracker has reported a suspect
  restarts,
  forgotten   \* history: whose session ended and may leave a folder behind

slot  == <<job, stop>>
worker == <<workerPc, cur>>
disk  == <<folder, loose, bundle>>
main  == <<mainPc, dump>>
world == <<suspected, restarts>>
vars == <<slot, worker, session, cache, aim, disk, main, world, forgotten>>

NoJob == [kind |-> "none", id |-> Nobody]
Job == [kind : {"suspect"}, id : Object] \cup [kind : {"person"}, id : Person]
       \cup {NoJob}

NoDump == [object |-> Nobody, person |-> Nobody, photo |-> FALSE]
Dump == [object : Object, person : Person \cup {Nobody}, photo : BOOLEAN]

PersonPcs == {"move", "mkdir", "shoot", "count"}
SuspectPcs == {"aim", "snap", "store"}
WorkerPcs == {"wait", "session", "done"} \cup PersonPcs \cup SuspectPcs

MainPcs == {"track", "cleanup", "zones", "dumps", "mkdir", "suspect",
            "confirm", "person", "join", "stopped"}

Bundle == {"none", "made", "aimed", "unaimed"}
Folder == {"none", "empty", "photos"}

MayDump(o) ==
  /\ bundle[o] = "none"
  /\ Cardinality({d \in Object : bundle[d] # "none"}) < MaxDumps

(* The person the worker is photographing, or about to. *)
Busy(p) == workerPc \in PersonPcs /\ cur.id = p

Init ==
  /\ job = NoJob /\ stop = FALSE /\ workerPc = "wait" /\ cur = NoJob
  /\ session = [p \in Person |-> "none"] /\ cache = {} /\ aim = Nobody
  /\ folder = [p \in Person |-> "none"] /\ loose = [o \in Object |-> 0]
  /\ bundle = [o \in Object |-> "none"]
  /\ mainPc = "track" /\ dump = NoDump
  /\ suspected = 0 /\ restarts = 0 /\ forgotten = {}
-----------------------------------------------------------------------------
(* Mutants: an operator named after a definition and a fault is that       *)
(* definition with the fault; no specification uses it.                    *)

OnSuspectLatestWins(o) ==
  /\ mainPc = "track" /\ suspected < MaxSuspicions
  /\ suspected' = suspected + 1
  /\ job' = [kind |-> "suspect", id |-> o]
  /\ UNCHANGED <<stop, worker, session, cache, aim, disk, main, restarts,
                 forgotten>>

CleanupKeepsFolders(S, left) ==
  /\ mainPc = "cleanup" /\ mainPc' = "zones"
  /\ session' = [p \in Person |-> IF p \in S THEN "none" ELSE session[p]]
  /\ forgotten' = forgotten \cup {p \in S : Busy(p)}
  /\ UNCHANGED <<slot, worker, cache, aim, disk, dump, world>>

TakeEntryCopied(o, p) ==
  /\ mainPc \in {"zones", "dumps"} /\ mainPc' = "mkdir" /\ MayDump(o)
  /\ dump' = [object |-> o, person |-> p, photo |-> o \in cache]
  /\ UNCHANGED <<slot, worker, session, cache, aim, disk, world, forgotten>>

WorkerStopOnNextJob ==
  /\ workerPc = "wait" /\ stop /\ job # NoJob /\ workerPc' = "done"
  /\ UNCHANGED <<slot, cur, session, cache, aim, disk, main, world, forgotten>>

(* --- main: jobs for the worker ------------------------------------------ *)

(* OnPersonDetected: a pending suspect wins, another person is replaced. *)
WithPerson(p) == IF job.kind = "suspect" THEN job
                 ELSE [kind |-> "person", id |-> p]

(* OnSuspect, from the tracker's callback: the first suspect wins. *)
OnSuspect(o) ==
  /\ mainPc = "track" /\ suspected < MaxSuspicions
  /\ suspected' = suspected + 1
  /\ job' = IF job.kind = "suspect" THEN job
            ELSE [kind |-> "suspect", id |-> o]
  /\ UNCHANGED <<stop, worker, session, cache, aim, disk, main, restarts,
                 forgotten>>

(* RequestPersonZoneCapture, if a person is seen; whom it chooses is open. *)
RequestPersonZoneCapture(p) ==
  /\ mainPc = "track" /\ mainPc' = "cleanup"
  /\ job' = WithPerson(p)
  /\ UNCHANGED <<stop, worker, session, cache, aim, disk, dump, world,
                 forgotten>>

NobodySeen ==
  /\ mainPc = "track" /\ mainPc' = "cleanup"
  /\ UNCHANGED <<slot, worker, session, cache, aim, disk, dump, world,
                 forgotten>>

(* A restricted-zone intrusion asks for a photo at once. *)
Intrusion(p) ==
  /\ mainPc = "zones"
  /\ job' = WithPerson(p)
  /\ UNCHANGED <<stop, worker, session, cache, aim, disk, main, world,
                 forgotten>>

(* What remove_all may leave of a folder: nothing, or, when it fails, the  *)
(* folder with or without its photos.                                      *)
Remains(f) ==
  {"none"} \cup (IF DiskFails THEN {f} \ {"none"} ELSE {})
           \cup (IF DiskFails /\ f = "photos" THEN {"empty"} ELSE {})

(* CleanupPersonSessions: the sessions S have timed out; each goes, and    *)
(* its folder with it, also one the worker is about to write to.  left is  *)
(* what remains of the folders: an error of the removal is cleared.        *)
CleanupPersonSessions(S, left) ==
  /\ mainPc = "cleanup" /\ mainPc' = "zones"
  /\ \A p \in S : left[p] \in Remains(folder[p])
  /\ session' = [p \in Person |-> IF p \in S THEN "none" ELSE session[p]]
  /\ folder' = [p \in Person |-> IF p \in S THEN left[p] ELSE folder[p]]
  /\ forgotten' = forgotten \cup {p \in S : Busy(p) \/ left[p] # "none"}
  /\ UNCHANGED <<slot, worker, cache, aim, loose, bundle, dump, world>>

(* --- main: PromoteSuspectToDump ----------------------------------------- *)

(* The cache entry leaves the cache before anything else. *)
TakeEntry(o, p) ==
  /\ mainPc \in {"zones", "dumps"} /\ mainPc' = "mkdir" /\ MayDump(o)
  /\ dump' = [object |-> o, person |-> p, photo |-> o \in cache]
  /\ cache' = cache \ {o}
  /\ UNCHANGED <<slot, worker, session, aim, disk, world,
                 forgotten>>

(* Without a dump folder there is no bundle: nullopt. *)
MakeDumpDir(ok) ==
  /\ mainPc = "mkdir"
  /\ IF ok THEN /\ mainPc' = "suspect" /\ UNCHANGED dump
                /\ bundle' = [bundle EXCEPT ![dump.object] = "made"]
           ELSE mainPc' = "dumps" /\ dump' = NoDump /\ UNCHANGED bundle
  /\ UNCHANGED <<slot, worker, session, cache, aim, folder, loose, world,
                 forgotten>>

(* The suspect photo is renamed or copied into the bundle, or stays.       *)
MoveSuspectPhoto(ok) ==
  /\ mainPc = "suspect" /\ mainPc' = "confirm"
  /\ loose' = IF dump.photo /\ ok THEN [loose EXCEPT ![dump.object] = @ - 1]
              ELSE loose
  /\ UNCHANGED <<slot, worker, session, cache, aim, folder, bundle, dump,
                 world, forgotten>>

(* The confirm photo, if it succeeds, shows what the camera is turned to.  *)
ConfirmPhoto(ok) ==
  /\ mainPc = "confirm" /\ mainPc' = "person"
  /\ bundle' = [bundle EXCEPT ![dump.object] =
                  IF ~ok THEN @ ELSE IF aim = dump.object THEN "aimed"
                                     ELSE "unaimed"]
  /\ UNCHANGED <<slot, worker, session, cache, aim, folder, loose, dump,
                 world, forgotten>>

(* PromotePersonSession: the session ends, and its folder, if there is     *)
(* one, becomes part of the bundle.                                        *)
PromotePersonSession(ok) ==
  /\ mainPc = "person" /\ mainPc' = "dumps" /\ dump' = NoDump
  /\ LET ended == {p \in Person : p = dump.person /\ session[p] # "none"}
         stays == {p \in ended : Busy(p) \/ (~ok /\ folder[p] # "none")}
     IN  /\ session' = [p \in Person |-> IF p \in ended THEN "none"
                                        ELSE session[p]]
         /\ folder' = [p \in Person |-> IF p \in ended /\ ok THEN "none"
                                       ELSE folder[p]]
         /\ forgotten' = forgotten \cup stays
  /\ UNCHANGED <<slot, worker, cache, aim, loose, bundle, world>>

EndFrame ==
  /\ mainPc \in {"zones", "dumps"} /\ mainPc' = "track"
  /\ UNCHANGED <<slot, worker, session, cache, aim, disk, dump, world,
                 forgotten>>

(* --- main: Shutdown ----------------------------------------------------- *)

(* The flag is set under the mutex, so the worker cannot miss it. *)
Shutdown ==
  /\ mainPc = "track" /\ mainPc' = "join" /\ stop' = TRUE
  /\ UNCHANGED <<job, worker, session, cache, aim, disk, dump, world,
                 forgotten>>

(* The worker is joined, and the servo returns to 90 degrees. *)
Join ==
  /\ mainPc = "join" /\ workerPc = "done" /\ mainPc' = "stopped"
  /\ aim' = Nobody
  /\ UNCHANGED <<slot, worker, session, cache, disk, dump,
                 world, forgotten>>

(* --- worker ------------------------------------------------------------- *)

(* The wait ends for a stop or a job; a stop is looked at first, and a job *)
(* that is still pending is dropped.                                       *)
WorkerStop ==
  /\ workerPc = "wait" /\ stop /\ workerPc' = "done"
  /\ UNCHANGED <<slot, cur, session, cache, aim, disk, main, world,
                 forgotten>>

WorkerTake ==
  /\ workerPc = "wait" /\ ~stop /\ job # NoJob
  /\ cur' = job /\ job' = NoJob
  /\ workerPc' = IF job.kind = "suspect" THEN "aim" ELSE "session"
  /\ UNCHANGED <<stop, session, cache, aim, disk, main, world, forgotten>>

(* ProcessPerson, under the mutex: find or create the session; a person    *)
(* that has a photo is photographed again only when one is due.            *)
FindSession(due) ==
  /\ workerPc = "session"
  /\ session' = [session EXCEPT ![cur.id] = IF @ = "none" THEN "new" ELSE @]
  /\ IF session[cur.id] = "photographed" /\ ~due
     THEN workerPc' = "wait" /\ cur' = NoJob
     ELSE workerPc' = "move" /\ UNCHANGED cur
  /\ forgotten' = forgotten \ {cur.id}
  /\ UNCHANGED <<slot, cache, aim, disk, main, world>>

(* MoveToZoneBlocking, whose failure nobody asks for. *)
Aim(ok) ==
  /\ workerPc \in {"move", "aim"}
  /\ workerPc' = IF workerPc = "move" THEN "mkdir" ELSE "snap"
  /\ aim' = IF ~ok THEN aim ELSE IF workerPc = "aim" THEN cur.id ELSE Nobody
  /\ UNCHANGED <<slot, cur, session, cache, disk, main, world, forgotten>>

MakePersonDir(ok) ==
  /\ workerPc = "mkdir"
  /\ IF ok THEN /\ workerPc' = "shoot" /\ UNCHANGED cur
                /\ folder' = [folder EXCEPT ![cur.id] =
                                IF @ = "none" THEN "empty" ELSE @]
           ELSE workerPc' = "wait" /\ cur' = NoJob /\ UNCHANGED folder
  /\ UNCHANGED <<slot, session, cache, aim, loose, bundle, main, world,
                 forgotten>>

(* CaptureToFilePath, which makes the folder again if it has gone. *)
PersonPhoto(ok) ==
  /\ workerPc = "shoot"
  /\ IF ok THEN /\ workerPc' = "count" /\ UNCHANGED cur
                /\ folder' = [folder EXCEPT ![cur.id] = "photos"]
           ELSE workerPc' = "wait" /\ cur' = NoJob /\ UNCHANGED folder
  /\ UNCHANGED <<slot, session, cache, aim, loose, bundle, main, world,
                 forgotten>>

(* photo_count++, if the session still exists. *)
CountPhoto ==
  /\ workerPc = "count" /\ workerPc' = "wait" /\ cur' = NoJob
  /\ session' = [session EXCEPT ![cur.id] =
                   IF @ = "none" THEN "none" ELSE "photographed"]
  /\ UNCHANGED <<slot, cache, aim, disk, main, world, forgotten>>

SuspectPhoto(ok) ==
  /\ workerPc = "snap"
  /\ IF ok THEN /\ workerPc' = "store" /\ UNCHANGED cur
                /\ loose' = [loose EXCEPT ![cur.id] = @ + 1]
           ELSE workerPc' = "wait" /\ cur' = NoJob /\ UNCHANGED loose
  /\ UNCHANGED <<slot, session, cache, aim, folder, bundle, main, world,
                 forgotten>>

StoreEntry ==
  /\ workerPc = "store" /\ workerPc' = "wait" /\ cur' = NoJob
  /\ cache' = cache \cup {cur.id}
  /\ UNCHANGED <<slot, session, aim, disk, main, world, forgotten>>

(* The process ends at any moment and starts again with an empty memory;   *)
(* nothing looks at the folders an earlier process left behind.  Persons'  *)
(* folders are named after ids, which the new process counts from 1 again; *)
(* suspect photos and dump folders have their time in the name, and loose  *)
(* and bundle are about those of this process.                             *)
Restart ==
  /\ restarts < MaxRestarts /\ restarts' = restarts + 1
  /\ job' = NoJob /\ stop' = FALSE /\ workerPc' = "wait" /\ cur' = NoJob
  /\ session' = [p \in Person |-> "none"] /\ cache' = {} /\ aim' = Nobody
  /\ mainPc' = "track" /\ dump' = NoDump
  /\ forgotten' = {p \in Person : folder[p] # "none"}
  /\ loose' = [o \in Object |-> 0] /\ bundle' = [o \in Object |-> "none"]
  /\ UNCHANGED <<folder, suspected>>
-----------------------------------------------------------------------------
Worker ==
  \/ WorkerStop \/ WorkerTake \/ CountPhoto \/ StoreEntry
  \/ \E b \in BOOLEAN : \/ FindSession(b) \/ Aim(b) \/ MakePersonDir(b)
                        \/ PersonPhoto(b) \/ SuspectPhoto(b)

MainFrame ==
  \/ \E o \in Object : OnSuspect(o)
  \/ \E p \in Person : RequestPersonZoneCapture(p) \/ Intrusion(p)
  \/ NobodySeen
  \/ \E S \in SUBSET {p \in Person : session[p] # "none"} :
       \E left \in [S -> Folder] : CleanupPersonSessions(S, left)
  \/ EndFrame

Promote ==
  \/ \E o \in Object, p \in Person \cup {Nobody} : TakeEntry(o, p)
  \/ \E ok \in BOOLEAN : MakeDumpDir(ok) \/ ConfirmPhoto(ok)
  \/ \E ok \in {TRUE, ~DiskFails} :
       MoveSuspectPhoto(ok) \/ PromotePersonSession(ok)

Next == Worker \/ MainFrame \/ Promote \/ Shutdown \/ Join \/ Restart

Spec == Init /\ [][Next]_vars

(* Both threads are scheduled; main need not go on producing jobs. *)
FairSpec == Spec /\ WF_vars(Worker) /\ WF_vars(Join)
-----------------------------------------------------------------------------
(* Types of every variable. *)
TypeOK ==
  /\ job \in Job /\ stop \in BOOLEAN
  /\ workerPc \in WorkerPcs /\ cur \in Job
  /\ session \in [Person -> {"none", "new", "photographed"}]
  /\ cache \subseteq Object /\ aim \in Object \cup {Nobody}
  /\ folder \in [Person -> Folder]
  /\ loose \in [Object -> Nat] /\ bundle \in [Object -> Bundle]
  /\ mainPc \in MainPcs /\ dump \in Dump \cup {NoDump}
  /\ suspected \in 0..MaxSuspicions
  /\ restarts \in 0..MaxRestarts /\ forgotten \subseteq Person

(* No photo of a person stays on disk unattended: a folder belongs to a    *)
(* session that will delete or promote it, or the worker is writing to it, *)
(* or its session ended under the worker's hands, in a cleanup that could  *)
(* not remove or a promotion that could not move the folder, or with the   *)
(* process.                                                                *)
FoldersAttended ==
  \A p \in Person : folder[p] # "none" =>
    session[p] # "none" \/ Busy(p) \/ p \in forgotten

(* A session that counts a photo, and may therefore refuse the next one,   *)
(* has a photo on disk, however cleanup and promotion meet the worker.     *)
PhotographedMeansPhoto ==
  \A p \in Person : session[p] = "photographed" => folder[p] = "photos"

(* The photos of an object that somebody still refers to: the cache, the   *)
(* worker that is about to store one, main that is about to move one.      *)
References(o) ==
  (IF o \in cache THEN 1 ELSE 0)
  + (IF workerPc = "store" /\ cur.id = o THEN 1 ELSE 0)
  + (IF mainPc \in {"mkdir", "suspect"} /\ dump.object = o /\ dump.photo
     THEN 1 ELSE 0)

(* A promotion finds the photo it moves: each reference has a file of its  *)
(* own, also when the object is photographed again during the promotion.   *)
ReferencesHavePhotos == \A o \in Object : References(o) <= loose[o]

(* A suspect job, once pending, leaves the slot only because the worker    *)
(* takes it, or with the process: no stream of persons or of other         *)
(* suspects displaces it.                                                  *)
SuspectKeepsSlot ==
  [][job.kind = "suspect" /\ job' # job =>
       cur' = job \/ restarts' # restarts]_vars

(* A pending suspect is photographed, however many persons are seen,       *)
(* unless the program ends first.  (A restarted program is a new one.)     *)
SuspectServed ==
  \A o \in Object :
    job = [kind |-> "suspect", id |-> o] /\ restarts = 0 ~>
      stop \/ restarts > 0 \/ (workerPc = "snap" /\ cur.id = o)

(* Shutdown always returns. *)
ShutdownReturns == mainPc = "join" ~> (mainPc = "stopped" \/ mainPc = "track")
=============================================================================
