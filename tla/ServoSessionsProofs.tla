------------------------- MODULE ServoSessionsProofs -------------------------
(***************************************************************************)
(* Theorems about ServoSessions for every set of persons and objects and   *)
(* every bound.                                                            *)
(***************************************************************************)
EXTENDS ServoSessions, TLAPS

(* What the worker's place says about its job. *)
WorkerHasJob ==
  /\ workerPc \in {"session"} \cup PersonPcs => cur.id \in Person
  /\ workerPc \in SuspectPcs => cur.id \in Object

(* Main has a dumping in hand while it promotes. *)
MainHasDump == mainPc \in {"mkdir", "suspect", "confirm", "person"} => dump \in
   Dump

(* A session that ended while the worker was at it is remembered. *)
EndedUnderWorker ==
  \A p \in Person : Busy(p) /\ session[p] = "none" => p \in forgotten

(* The worker counts a photo that is on disk, if the session is. *)
CountedIsThere ==
  workerPc = "count" /\ session[cur.id] # "none" => folder[cur.id] = "photos"

Custody ==
  /\ FoldersAttended
  /\ PhotographedMeansPhoto
  /\ EndedUnderWorker
  /\ CountedIsThere

IInv ==
  /\ TypeOK
  /\ WorkerHasJob
  /\ MainHasDump
  /\ Custody
  /\ ReferencesHavePhotos
-----------------------------------------------------------------------------
(* Types are preserved. *)
LEMMA TypeStep == IInv /\ [Next]_vars => TypeOK'
<1> SUFFICES ASSUME IInv, [Next]_vars PROVE TypeOK'
  OBVIOUS
<1> USE ConstantsOK DEF IInv, TypeOK, WorkerHasJob, MainHasDump, slot, worker,
   disk, main, world, Job, NoJob, NoDump, Dump,
  PersonPcs, SuspectPcs, WorkerPcs, MainPcs, Bundle, Folder, WithPerson,
     ReferencesHavePhotos, References
<1>1. CASE WorkerStop
  BY <1>1 DEF WorkerStop
<1>2. CASE WorkerTake
  BY <1>2 DEF WorkerTake
<1>3. CASE CountPhoto
  BY <1>3 DEF CountPhoto
<1>4. CASE StoreEntry
  BY <1>4 DEF StoreEntry
<1>5. ASSUME NEW b \in BOOLEAN, FindSession(b) PROVE TypeOK'
  BY <1>5 DEF FindSession
<1>6. ASSUME NEW b \in BOOLEAN, Aim(b) PROVE TypeOK'
  BY <1>6 DEF Aim
<1>7. ASSUME NEW b \in BOOLEAN, MakePersonDir(b) PROVE TypeOK'
  BY <1>7 DEF MakePersonDir
<1>8. ASSUME NEW b \in BOOLEAN, PersonPhoto(b) PROVE TypeOK'
  BY <1>8 DEF PersonPhoto
<1>9. ASSUME NEW b \in BOOLEAN, SuspectPhoto(b) PROVE TypeOK'
  BY <1>9 DEF SuspectPhoto
<1>10. ASSUME NEW o \in Object, OnSuspect(o) PROVE TypeOK'
  BY <1>10 DEF OnSuspect
<1>11. ASSUME NEW p \in Person, RequestPersonZoneCapture(p) PROVE TypeOK'
  BY <1>11 DEF RequestPersonZoneCapture
<1>12. ASSUME NEW p \in Person, Intrusion(p) PROVE TypeOK'
  BY <1>12 DEF Intrusion
<1>13. CASE NobodySeen
  BY <1>13 DEF NobodySeen
<1>14. ASSUME NEW S \in SUBSET Person, NEW left \in [S -> Folder],
            CleanupPersonSessions(S, left)
     PROVE TypeOK'
  BY <1>14 DEF CleanupPersonSessions, Remains
<1>15. CASE EndFrame
  BY <1>15 DEF EndFrame
<1>16. ASSUME NEW o \in Object, NEW p \in Person \cup {Nobody}, TakeEntry(o, p)
     PROVE TypeOK'
  BY <1>16 DEF TakeEntry
<1>17. ASSUME NEW ok \in BOOLEAN, MakeDumpDir(ok) PROVE TypeOK'
  BY <1>17 DEF MakeDumpDir
<1>18. ASSUME NEW ok \in BOOLEAN, ConfirmPhoto(ok) PROVE TypeOK'
  BY <1>18 DEF ConfirmPhoto
<1>19. ASSUME NEW ok \in BOOLEAN, MoveSuspectPhoto(ok) PROVE TypeOK'
  BY <1>19 DEF MoveSuspectPhoto
<1>20. ASSUME NEW ok \in BOOLEAN, PromotePersonSession(ok) PROVE TypeOK'
  BY <1>20 DEF PromotePersonSession
<1>21. CASE Shutdown
  BY <1>21 DEF Shutdown
<1>22. CASE Join
  BY <1>22 DEF Join
<1>23. CASE Restart
  <2>1. stop' \in BOOLEAN
    BY <1>23 DEF Restart
  <2> QED BY <1>23, <2>1 DEF Restart
<1>24. CASE UNCHANGED vars
  BY <1>24 DEF vars
<1> HIDE DEF TypeOK, WorkerHasJob, MainHasDump, ReferencesHavePhotos
<1> QED
  BY <1>1, <1>2, <1>3, <1>4, <1>5, <1>6, <1>7, <1>8, <1>9, <1>10, <1>11, <1>12,
     <1>13, <1>14, <1>15, <1>16, <1>17, <1>18, <1>19, <1>20, <1>21, <1>22,
     <1>23, <1>24
     DEF Next, Worker, MainFrame, Promote

(* The worker keeps its job and main its dumping. *)
LEMMA ControlStep == IInv /\ [Next]_vars => (WorkerHasJob /\ MainHasDump)'
<1> SUFFICES ASSUME IInv, [Next]_vars PROVE (WorkerHasJob /\ MainHasDump)'
  OBVIOUS
<1> USE ConstantsOK DEF IInv, TypeOK, WorkerHasJob, MainHasDump, slot, worker,
   disk, main, world, Job, NoJob,
  PersonPcs, SuspectPcs, Dump
<1>1. CASE WorkerStop
  BY <1>1 DEF WorkerStop
<1>2. CASE WorkerTake
  BY <1>2 DEF WorkerTake
<1>3. CASE CountPhoto
  BY <1>3 DEF CountPhoto
<1>4. CASE StoreEntry
  BY <1>4 DEF StoreEntry
<1>5. ASSUME NEW b \in BOOLEAN, FindSession(b)
     PROVE (WorkerHasJob /\ MainHasDump)'
  BY <1>5 DEF FindSession
<1>6. ASSUME NEW b \in BOOLEAN, Aim(b) PROVE (WorkerHasJob /\ MainHasDump)'
  BY <1>6 DEF Aim
<1>7. ASSUME NEW b \in BOOLEAN, MakePersonDir(b)
     PROVE (WorkerHasJob /\ MainHasDump)'
  BY <1>7 DEF MakePersonDir
<1>8. ASSUME NEW b \in BOOLEAN, PersonPhoto(b)
     PROVE (WorkerHasJob /\ MainHasDump)'
  BY <1>8 DEF PersonPhoto
<1>9. ASSUME NEW b \in BOOLEAN, SuspectPhoto(b)
     PROVE (WorkerHasJob /\ MainHasDump)'
  BY <1>9 DEF SuspectPhoto
<1>10. ASSUME NEW o \in Object, OnSuspect(o)
     PROVE (WorkerHasJob /\ MainHasDump)'
  BY <1>10 DEF OnSuspect
<1>11. ASSUME NEW p \in Person, RequestPersonZoneCapture(p)
     PROVE (WorkerHasJob /\ MainHasDump)'
  BY <1>11 DEF RequestPersonZoneCapture
<1>12. ASSUME NEW p \in Person, Intrusion(p)
     PROVE (WorkerHasJob /\ MainHasDump)'
  BY <1>12 DEF Intrusion
<1>13. CASE NobodySeen
  BY <1>13 DEF NobodySeen
<1>14. ASSUME NEW S \in SUBSET Person, NEW left \in [S -> Folder],
            CleanupPersonSessions(S, left)
     PROVE (WorkerHasJob /\ MainHasDump)'
  BY <1>14 DEF CleanupPersonSessions, Remains
<1>15. CASE EndFrame
  BY <1>15 DEF EndFrame
<1>16. ASSUME NEW o \in Object, NEW p \in Person \cup {Nobody}, TakeEntry(o, p)
     PROVE (WorkerHasJob /\ MainHasDump)'
  BY <1>16 DEF TakeEntry
<1>17. ASSUME NEW ok \in BOOLEAN, MakeDumpDir(ok)
     PROVE (WorkerHasJob /\ MainHasDump)'
  BY <1>17 DEF MakeDumpDir
<1>18. ASSUME NEW ok \in BOOLEAN, ConfirmPhoto(ok)
     PROVE (WorkerHasJob /\ MainHasDump)'
  BY <1>18 DEF ConfirmPhoto
<1>19. ASSUME NEW ok \in BOOLEAN, MoveSuspectPhoto(ok)
     PROVE (WorkerHasJob /\ MainHasDump)'
  BY <1>19 DEF MoveSuspectPhoto
<1>20. ASSUME NEW ok \in BOOLEAN, PromotePersonSession(ok)
     PROVE (WorkerHasJob /\ MainHasDump)'
  BY <1>20 DEF PromotePersonSession
<1>21. CASE Shutdown
  BY <1>21 DEF Shutdown
<1>22. CASE Join
  BY <1>22 DEF Join
<1>23. CASE Restart
  BY <1>23 DEF Restart
<1>24. CASE UNCHANGED vars
  BY <1>24 DEF vars
<1> HIDE DEF TypeOK, WorkerHasJob, MainHasDump, IInv
<1> QED
  BY <1>1, <1>2, <1>3, <1>4, <1>5, <1>6, <1>7, <1>8, <1>9, <1>10, <1>11, <1>12,
     <1>13, <1>14, <1>15, <1>16, <1>17, <1>18, <1>19, <1>20, <1>21, <1>22,
     <1>23, <1>24
     DEF Next, Worker, MainFrame, Promote

(* Folders and sessions stay in step, whoever moves. *)
LEMMA CustodyStep == IInv /\ [Next]_vars => Custody'
<1> SUFFICES ASSUME IInv, [Next]_vars PROVE Custody'
  OBVIOUS
<1> USE ConstantsOK DEF IInv, TypeOK, Custody, FoldersAttended,
   PhotographedMeansPhoto,
  EndedUnderWorker, CountedIsThere, Busy, PersonPcs, SuspectPcs, WorkerHasJob,
     slot, worker, disk, main, world, Job, NoJob, Folder
<1>1. CASE WorkerStop
  BY <1>1 DEF WorkerStop
<1>2. CASE WorkerTake
  BY <1>2 DEF WorkerTake
<1>3. CASE CountPhoto
  BY <1>3 DEF CountPhoto
<1>4. CASE StoreEntry
  BY <1>4 DEF StoreEntry
<1>5. ASSUME NEW b \in BOOLEAN, FindSession(b) PROVE Custody'
  BY <1>5 DEF FindSession
<1>6. ASSUME NEW b \in BOOLEAN, Aim(b) PROVE Custody'
  BY <1>6 DEF Aim
<1>7. ASSUME NEW b \in BOOLEAN, MakePersonDir(b) PROVE Custody'
  BY <1>7 DEF MakePersonDir
<1>8. ASSUME NEW b \in BOOLEAN, PersonPhoto(b) PROVE Custody'
  BY <1>8 DEF PersonPhoto
<1>9. ASSUME NEW b \in BOOLEAN, SuspectPhoto(b) PROVE Custody'
  BY <1>9 DEF SuspectPhoto
<1>10. ASSUME NEW o \in Object, OnSuspect(o) PROVE Custody'
  BY <1>10 DEF OnSuspect
<1>11. ASSUME NEW p \in Person, RequestPersonZoneCapture(p) PROVE Custody'
  BY <1>11 DEF RequestPersonZoneCapture
<1>12. ASSUME NEW p \in Person, Intrusion(p) PROVE Custody'
  BY <1>12 DEF Intrusion
<1>13. CASE NobodySeen
  BY <1>13 DEF NobodySeen
<1>14. ASSUME NEW S \in SUBSET Person, NEW left \in [S -> Folder],
            CleanupPersonSessions(S, left)
     PROVE Custody'
  BY <1>14 DEF CleanupPersonSessions, Remains
<1>15. CASE EndFrame
  BY <1>15 DEF EndFrame
<1>16. ASSUME NEW o \in Object, NEW p \in Person \cup {Nobody}, TakeEntry(o, p)
     PROVE Custody'
  BY <1>16 DEF TakeEntry
<1>17. ASSUME NEW ok \in BOOLEAN, MakeDumpDir(ok) PROVE Custody'
  BY <1>17 DEF MakeDumpDir
<1>18. ASSUME NEW ok \in BOOLEAN, ConfirmPhoto(ok) PROVE Custody'
  BY <1>18 DEF ConfirmPhoto
<1>19. ASSUME NEW ok \in BOOLEAN, MoveSuspectPhoto(ok) PROVE Custody'
  BY <1>19 DEF MoveSuspectPhoto
<1>20. ASSUME NEW ok \in BOOLEAN, PromotePersonSession(ok) PROVE Custody'
  BY <1>20 DEF PromotePersonSession
<1>21. CASE Shutdown
  BY <1>21 DEF Shutdown
<1>22. CASE Join
  BY <1>22 DEF Join
<1>23. CASE Restart
  BY <1>23 DEF Restart
<1>24. CASE UNCHANGED vars
  BY <1>24 DEF vars
<1> QED
  BY <1>1, <1>2, <1>3, <1>4, <1>5, <1>6, <1>7, <1>8, <1>9, <1>10, <1>11, <1>12,
     <1>13, <1>14, <1>15, <1>16, <1>17, <1>18, <1>19, <1>20, <1>21, <1>22,
     <1>23, <1>24
     DEF Next, Worker, MainFrame, Promote

(* Every reference to a suspect photo keeps a file of its own. *)
LEMMA ReferenceStep == IInv /\ [Next]_vars => ReferencesHavePhotos'
<1> SUFFICES ASSUME IInv, [Next]_vars PROVE ReferencesHavePhotos'
  OBVIOUS
<1> USE ConstantsOK DEF IInv, TypeOK, ReferencesHavePhotos, References,
   WorkerHasJob, MainHasDump,
  slot, worker, disk, main, world, NoDump, Dump, SuspectPcs, Job, NoJob
<1>1. CASE WorkerStop
  BY <1>1 DEF WorkerStop
<1>2. CASE WorkerTake
  BY <1>2 DEF WorkerTake
<1>3. CASE CountPhoto
  BY <1>3 DEF CountPhoto
<1>4. CASE StoreEntry
  BY <1>4 DEF StoreEntry
<1>5. ASSUME NEW b \in BOOLEAN, FindSession(b) PROVE ReferencesHavePhotos'
  BY <1>5 DEF FindSession
<1>6. ASSUME NEW b \in BOOLEAN, Aim(b) PROVE ReferencesHavePhotos'
  BY <1>6 DEF Aim
<1>7. ASSUME NEW b \in BOOLEAN, MakePersonDir(b) PROVE ReferencesHavePhotos'
  BY <1>7 DEF MakePersonDir
<1>8. ASSUME NEW b \in BOOLEAN, PersonPhoto(b) PROVE ReferencesHavePhotos'
  BY <1>8 DEF PersonPhoto
<1>9. ASSUME NEW b \in BOOLEAN, SuspectPhoto(b) PROVE ReferencesHavePhotos'
  BY <1>9 DEF SuspectPhoto
<1>10. ASSUME NEW o \in Object, OnSuspect(o) PROVE ReferencesHavePhotos'
  BY <1>10 DEF OnSuspect
<1>11. ASSUME NEW p \in Person, RequestPersonZoneCapture(p)
     PROVE ReferencesHavePhotos'
  BY <1>11 DEF RequestPersonZoneCapture
<1>12. ASSUME NEW p \in Person, Intrusion(p) PROVE ReferencesHavePhotos'
  BY <1>12 DEF Intrusion
<1>13. CASE NobodySeen
  BY <1>13 DEF NobodySeen
<1>14. ASSUME NEW S \in SUBSET Person, NEW left \in [S -> Folder],
            CleanupPersonSessions(S, left)
     PROVE ReferencesHavePhotos'
  BY <1>14 DEF CleanupPersonSessions, Remains
<1>15. CASE EndFrame
  BY <1>15 DEF EndFrame
<1>16. ASSUME NEW o \in Object, NEW p \in Person \cup {Nobody}, TakeEntry(o, p)
     PROVE ReferencesHavePhotos'
  <2>1. CASE o \in cache
    <3>1. dump' = [object |-> o, person |-> p, photo |-> TRUE]
      BY <1>16, <2>1 DEF TakeEntry
    <3>2. dump'.object = o
      BY <3>1
    <3>3. UNCHANGED <<workerPc, cur, loose>> /\ cache' = cache \ {o}
      BY <1>16 DEF TakeEntry
    <3>4. mainPc \notin {"mkdir", "suspect"}
      BY <1>16 DEF TakeEntry
    <3>5. \A x \in Object : References(x)' <= References(x)
      BY <2>1, <3>2, <3>3, <3>4
    <3> QED BY <3>3, <3>5
  <2>2. CASE o \notin cache
    <3>1. dump' = [object |-> o, person |-> p, photo |-> o \in cache]
      BY <1>16 DEF TakeEntry
    <3>2. ~dump'.photo
      BY <2>2, <3>1, Zenon
    <3>3. UNCHANGED <<workerPc, cur, loose>> /\ cache' = cache \ {o}
      BY <1>16 DEF TakeEntry
    <3>4. \A x \in Object : References(x)' <= References(x)
      BY <3>2, <3>3
    <3> QED BY <3>3, <3>4
  <2> QED BY <2>1, <2>2
<1>17. ASSUME NEW ok \in BOOLEAN, MakeDumpDir(ok) PROVE ReferencesHavePhotos'
  BY <1>17 DEF MakeDumpDir
<1>18. ASSUME NEW ok \in BOOLEAN, ConfirmPhoto(ok) PROVE ReferencesHavePhotos'
  BY <1>18 DEF ConfirmPhoto
<1>19. ASSUME NEW ok \in BOOLEAN, MoveSuspectPhoto(ok)
     PROVE ReferencesHavePhotos'
  BY <1>19 DEF MoveSuspectPhoto
<1>20. ASSUME NEW ok \in BOOLEAN, PromotePersonSession(ok)
     PROVE ReferencesHavePhotos'
  BY <1>20 DEF PromotePersonSession
<1>21. CASE Shutdown
  BY <1>21 DEF Shutdown
<1>22. CASE Join
  BY <1>22 DEF Join
<1>23. CASE Restart
  BY <1>23 DEF Restart
<1>24. CASE UNCHANGED vars
  BY <1>24 DEF vars
<1> QED
  BY <1>1, <1>2, <1>3, <1>4, <1>5, <1>6, <1>7, <1>8, <1>9, <1>10, <1>11, <1>12,
     <1>13, <1>14, <1>15, <1>16, <1>17, <1>18, <1>19, <1>20, <1>21, <1>22,
     <1>23, <1>24
     DEF Next, Worker, MainFrame, Promote

(* The invariant holds at first. *)
LEMMA Initially == Init => IInv
<1> SUFFICES ASSUME Init PROVE IInv
  OBVIOUS
<1> USE DEF Init
<1>1. TypeOK
  <2>1. stop \in BOOLEAN
    OBVIOUS
  <2> QED BY <2>1, ConstantsOK DEF TypeOK, Job, NoJob, WorkerPcs, MainPcs,
     Bundle, Folder
<1>2. WorkerHasJob /\ MainHasDump
  BY DEF WorkerHasJob, MainHasDump, PersonPcs, SuspectPcs
<1>3. Custody
  BY DEF Custody, FoldersAttended, PhotographedMeansPhoto, EndedUnderWorker,
     CountedIsThere, Busy, PersonPcs
<1>4. ReferencesHavePhotos
  BY DEF ReferencesHavePhotos, References
<1> QED BY <1>1, <1>2, <1>3, <1>4 DEF IInv

(* IInv holds in every reachable state. *)
THEOREM Inductive == Spec => []IInv
<1>1. Init => IInv
  BY Initially
<1>2. IInv /\ [Next]_vars => IInv'
  BY TypeStep, ControlStep, CustodyStep, ReferenceStep DEF IInv
<1> QED BY <1>1, <1>2, PTL DEF Spec

(* Types, for all bounds: a queue slot, a photo count and a program counter *)
(* never leave their range, whatever the order of the two threads.         *)
THEOREM TypeCorrect == Spec => []TypeOK
BY Inductive, PTL DEF IInv

(* No photo stays on disk unattended, except behind a session that ended   *)
(* under the worker's hands, with a failed removal or move, or with the    *)
(* process.                                                                *)
THEOREM PhotosAreAttended == Spec => []FoldersAttended
BY Inductive, PTL DEF IInv, Custody

(* A session that may refuse a photo has one on disk. *)
THEOREM SessionsHavePhotos == Spec => []PhotographedMeansPhoto
BY Inductive, PTL DEF IInv, Custody

(* A promotion finds the suspect photo that it moves. *)
THEOREM PromotionsFindPhotos == Spec => []ReferencesHavePhotos
BY Inductive, PTL DEF IInv

(* A pending suspect leaves the slot only by the worker's hand. *)
LEMMA SlotStep ==
  ASSUME TypeOK, [Next]_vars, job.kind = "suspect", job' # job
  PROVE  cur' = job \/ restarts' # restarts
<1> DEFINE Goal == cur' = job \/ restarts' # restarts
<1> USE DEF slot, worker, disk, main, world, WithPerson
<1>1. CASE WorkerStop
  BY <1>1 DEF WorkerStop
<1>2. CASE WorkerTake
  BY <1>2 DEF WorkerTake
<1>3. CASE CountPhoto
  BY <1>3 DEF CountPhoto
<1>4. CASE StoreEntry
  BY <1>4 DEF StoreEntry
<1>5. ASSUME NEW b \in BOOLEAN, FindSession(b) PROVE Goal
  BY <1>5 DEF FindSession
<1>6. ASSUME NEW b \in BOOLEAN, Aim(b) PROVE Goal
  BY <1>6 DEF Aim
<1>7. ASSUME NEW b \in BOOLEAN, MakePersonDir(b) PROVE Goal
  BY <1>7 DEF MakePersonDir
<1>8. ASSUME NEW b \in BOOLEAN, PersonPhoto(b) PROVE Goal
  BY <1>8 DEF PersonPhoto
<1>9. ASSUME NEW b \in BOOLEAN, SuspectPhoto(b) PROVE Goal
  BY <1>9 DEF SuspectPhoto
<1>10. ASSUME NEW o \in Object, OnSuspect(o) PROVE Goal
  BY <1>10 DEF OnSuspect
<1>11. ASSUME NEW p \in Person, RequestPersonZoneCapture(p) PROVE Goal
  BY <1>11 DEF RequestPersonZoneCapture
<1>12. ASSUME NEW p \in Person, Intrusion(p) PROVE Goal
  BY <1>12 DEF Intrusion
<1>13. CASE NobodySeen
  BY <1>13 DEF NobodySeen
<1>14. ASSUME NEW S \in SUBSET Person, NEW left \in [S -> Folder],
            CleanupPersonSessions(S, left)
     PROVE Goal
  BY <1>14 DEF CleanupPersonSessions, Remains
<1>15. CASE EndFrame
  BY <1>15 DEF EndFrame
<1>16. ASSUME NEW o \in Object, NEW p \in Person \cup {Nobody}, TakeEntry(o, p)
     PROVE Goal
  BY <1>16 DEF TakeEntry
<1>17. ASSUME NEW ok \in BOOLEAN, MakeDumpDir(ok) PROVE Goal
  BY <1>17 DEF MakeDumpDir
<1>18. ASSUME NEW ok \in BOOLEAN, ConfirmPhoto(ok) PROVE Goal
  BY <1>18 DEF ConfirmPhoto
<1>19. ASSUME NEW ok \in BOOLEAN, MoveSuspectPhoto(ok) PROVE Goal
  BY <1>19 DEF MoveSuspectPhoto
<1>20. ASSUME NEW ok \in BOOLEAN, PromotePersonSession(ok) PROVE Goal
  BY <1>20 DEF PromotePersonSession
<1>21. CASE Shutdown
  BY <1>21 DEF Shutdown
<1>22. CASE Join
  BY <1>22 DEF Join
<1>23. CASE Restart
  BY <1>23, ConstantsOK DEF Restart, TypeOK
<1>24. CASE UNCHANGED vars
  BY <1>24 DEF vars
<1> QED
  BY <1>1, <1>2, <1>3, <1>4, <1>5, <1>6, <1>7, <1>8, <1>9, <1>10, <1>11, <1>12,
     <1>13, <1>14, <1>15, <1>16, <1>17, <1>18, <1>19, <1>20, <1>21, <1>22,
     <1>23, <1>24
     DEF Next, Worker, MainFrame, Promote

THEOREM SuspectsKeepTheSlot == Spec => SuspectKeepsSlot
<1>1. TypeOK /\ [Next]_vars =>
        (job.kind = "suspect" /\ job' # job =>
           cur' = job \/ restarts' # restarts)
  BY SlotStep
<1> QED BY <1>1, TypeCorrect, PTL DEF Spec, SuspectKeepsSlot
=============================================================================
