--------------------------- MODULE MainLoopProofs ---------------------------
(***************************************************************************)
(* Theorems about MainLoop for any names, any retention, any number of     *)
(* frames between sweeps and any number of failed scans: the types, that   *)
(* originals are kept for their time and that they are purged in time.     *)
(***************************************************************************)
EXTENDS MainLoop, TLAPS

(* --- the parts of the invariant ----------------------------------------- *)

(* A thread is alone with the file it writes, which cannot be read yet. *)
WritersAlone ==
  /\ \A w \in Writer : writing[w] # None => files[writing[w]] = Stub
  /\ writing["servo"] # Confirm
  /\ writing["main"] # None => writing["main"] # writing["servo"]

(* What the sweep has still to remove is expired. *)
TodoExpired ==
  /\ \A n \in todo : Expired(n)
  /\ todo # {} => pc = "sweep"

(* In a round of SweepEvery frames no file is due longer than the round has *)
(* lasted, and the scan that begins the next round finds none that is.      *)
DueThisRound ==
  /\ \A n \in Name : Overdue(n) => due[n] <= frames
  /\ pc = "scan" /\ frames = SweepEvery => \A n \in Name : Overdue(n) => due[n] = 0
  /\ pc = "sweep" => frames = SweepEvery /\ \A n \in Name \ todo : Overdue(n) => due[n] = 0

(* MaxFails failed scans in a row are over at once. *)
FailsCounted == fails = MaxFails => pc \in {"reconnect", "down"}

IInv ==
  TypeOK /\ FailsCounted /\ WritersAlone /\ TodoExpired /\ PurgedInTime /\ DueThisRound
-----------------------------------------------------------------------------
LEMMA NamesApart == /\ Confirm \in Name /\ Shot \subseteq Name
                    /\ Confirm \notin Shot /\ None \notin Name
BY VaultOK DEF Name

LEMMA Bounds == /\ SweepEvery \in Nat /\ SweepEvery >= 1
                /\ MaxFails \in Nat /\ MaxFails >= 1 /\ Retain \in Nat
BY LoopOK, VaultOK

(* --- what a step does to one original ----------------------------------- *)

(* It stays or gets older, the sweep removes it, or its writer gets on. *)
Moves(n) ==
  \/ files'[n] = files[n]
  \/ Day /\ files'[n] = Aged(n)
  \/ n \in todo /\ files'[n] = Gone
  \/ files[n] = Stub /\ files'[n] = 0
  \/ files'[n] = Stub /\ (files[n] = Gone \/ (n = Confirm /\ writing'["main"] = Confirm))

LEMMA CreateMoves ==
  ASSUME TypeOK, WritersAlone, NEW w \in Writer, NEW m \in Name, Create(w, m),
         m = Confirm => w = "main", NEW n \in Name
  PROVE  Moves(n)
<1> USE DEF TypeOK, VaultTypeOK, Moves, Writer
<1>1. CASE n = m
  BY <1>1 DEF Create
<1>2. CASE n # m
  BY <1>2 DEF Create
<1> QED BY <1>1, <1>2

LEMMA FinishMoves ==
  ASSUME TypeOK, WritersAlone, NEW w \in Writer, Finish(w), NEW n \in Name
  PROVE  Moves(n)
<1> USE DEF TypeOK, VaultTypeOK, Moves, Finish
<1>1. writing[w] \in Name /\ files[writing[w]] = Stub
  BY DEF WritersAlone
<1>2. CASE n = writing[w]
  BY <1>1, <1>2
<1>3. CASE n # writing[w]
  BY <1>3
<1> QED BY <1>2, <1>3

LEMMA TornMoves ==
  ASSUME TypeOK, WritersAlone, Torn, NEW n \in Name
  PROVE  Moves(n)
<1>1. PICK headed \in SUBSET {writing[w] : w \in Writer} :
        files' = [m \in Name |-> IF m \in headed THEN 0 ELSE files[m]]
  BY DEF Torn
<1>2. CASE n \in headed
  <2>1. PICK w \in Writer : writing[w] = n
    BY <1>2
  <2>2. files[n] = Stub /\ files'[n] = 0
    BY <1>1, <1>2, <2>1, NamesApart DEF WritersAlone
  <2> QED BY <2>2 DEF Moves
<1>3. CASE n \notin headed
  BY <1>1, <1>3 DEF Moves
<1> QED BY <1>2, <1>3

LEMMA FilesMove ==
  ASSUME IInv, Next, NEW n \in Name
  PROVE  Moves(n)
<1> USE DEF IInv
<1>1. CASE UNCHANGED files
  BY <1>1 DEF Moves
<1>2. CASE SweepFile
  <2>1. PICK m \in todo, removed \in BOOLEAN : Purge(m, removed)
    BY <1>2 DEF SweepFile
  <2>2. CASE removed /\ n = m
    BY <2>1, <2>2 DEF Purge, Moves, TypeOK, VaultTypeOK
  <2>3. CASE ~removed \/ n # m
    BY <2>1, <2>3 DEF Purge, Moves, TypeOK, VaultTypeOK
  <2> QED BY <2>2, <2>3
<1>3. CASE Photo
  BY <1>3, CreateMoves DEF Photo, Writer
<1>4. CASE PhotoStored
  BY <1>4, FinishMoves DEF PhotoStored, Writer
<1>5. CASE JobPhoto
  BY <1>5, CreateMoves, NamesApart DEF JobPhoto, Writer
<1>6. CASE JobDone
  <2>1. CASE writing["servo"] = None
    BY <1>6, <2>1, <1>1 DEF JobDone, vaultVars
  <2>2. CASE writing["servo"] # None
    BY <1>6, <2>2, FinishMoves DEF JobDone, Writer
  <2> QED BY <2>1, <2>2
<1>7. CASE Crash
  BY <1>7, TornMoves DEF Crash
<1>8. CASE Day
  BY <1>8 DEF Day, NewDay, Moves
<1> QED
  BY <1>1, <1>2, <1>3, <1>4, <1>5, <1>6, <1>7, <1>8
     DEF Next, Main, Servo, LoopHead, SweepDone, ScanFails, ScanEmpty, ScanFrame,
         Reconnect, NoPhoto, ServoJoined, Ended, TakeJob, Stop, Restart, Sensor, vaultVars
-----------------------------------------------------------------------------
LEMMA TypeStep == ASSUME TypeOK, FailsCounted, Next PROVE TypeOK' /\ FailsCounted'
<1> USE Bounds DEF TypeOK, VaultTypeOK, Writer
<1>1. files' \in [Name -> Gone..Retain] /\ writing' \in [Writer -> Name \cup {None}]
  <2> USE DEF Gone, Stub
  <2>1. CASE UNCHANGED vaultVars
    BY <2>1 DEF vaultVars
  <2>2. CASE SweepFile
    BY <2>2 DEF SweepFile, Purge
  <2>3. ASSUME NEW w \in Writer, NEW n \in Name, Create(w, n)
        PROVE  files' \in [Name -> Gone..Retain] /\ writing' \in [Writer -> Name \cup {None}]
    BY <2>3 DEF Create
  <2>4. ASSUME NEW w \in Writer, Finish(w)
        PROVE  files' \in [Name -> Gone..Retain] /\ writing' \in [Writer -> Name \cup {None}]
    <3>1. PICK outcome \in {Stub, 0} : files' = [files EXCEPT ![writing[w]] = outcome]
      BY <2>4 DEF Finish
    <3>2. outcome \in Gone..Retain
      OBVIOUS
    <3>3. writing' \in [Writer -> Name \cup {None}]
      BY <2>4 DEF Finish
    <3> QED BY <3>1, <3>2, <3>3
  <2>5. CASE Crash
    <3>1. PICK headed \in SUBSET {writing[w] : w \in Writer} :
            files' = [n \in Name |-> IF n \in headed THEN 0 ELSE files[n]]
      BY <2>5 DEF Crash, Torn
    <3>2. writing' \in [Writer -> Name \cup {None}]
      BY <2>5 DEF Crash, Torn
    <3> QED BY <3>1, <3>2
  <2>6. CASE Day
    BY <2>6 DEF Day, NewDay, Aged
  <2>7. CASE Photo \/ PhotoStored
    BY <2>7, <2>3, <2>4 DEF Photo, PhotoStored
  <2>8. CASE JobPhoto \/ JobDone
    BY <2>8, <2>1, <2>3, <2>4, NamesApart DEF JobPhoto, JobDone
  <2> QED
    BY <2>1, <2>2, <2>5, <2>6, <2>7, <2>8
       DEF Next, Main, Servo, LoopHead, SweepDone, ScanFails, ScanEmpty, ScanFrame,
           Reconnect, NoPhoto, ServoJoined, Ended, TakeJob, Stop, Restart, Sensor
<1>2. due' \in [Name -> 0..SweepEvery + 1]
  <2>1. CASE UNCHANGED due
    BY <2>1
  <2>2. CASE SweepFile \/ Restart \/ Day
    BY <2>2 DEF SweepFile, Restart, Day
  <2>3. CASE ScanFrame
    <3>1. ASSUME NEW n \in Name
          PROVE  (IF ~Overdue(n) THEN 0 ELSE IF due[n] > SweepEvery THEN due[n] ELSE due[n] + 1)
                   \in 0..SweepEvery + 1
      OBVIOUS
    <3> QED BY <2>3, <3>1 DEF ScanFrame
  <2> QED
    BY <2>1, <2>2, <2>3
       DEF Next, Main, Servo, LoopHead, SweepDone, ScanFails, ScanEmpty, Reconnect,
           Photo, PhotoStored, NoPhoto, ServoJoined, Ended, TakeJob, JobPhoto, JobDone, Stop, Crash, Sensor
<1>3. fails' \in 0..MaxFails /\ FailsCounted'
  <2> USE DEF FailsCounted
  <2>1. CASE ScanFails
    BY <2>1 DEF ScanFails
  <2>2. CASE Crash \/ Restart \/ Reconnect
    BY <2>2 DEF Crash, Restart, Reconnect, Up
  <2>3. CASE Day \/ Servo \/ Sensor \/ Stop
    BY <2>3 DEF Day, Servo, TakeJob, JobPhoto, JobDone, Sensor, Stop, loopVars
  <2>4. CASE ScanEmpty \/ ScanFrame
    BY <2>4 DEF ScanEmpty, ScanFrame
  <2>5. CASE LoopHead \/ SweepFile \/ SweepDone \/ Photo \/ PhotoStored \/ NoPhoto \/ ServoJoined \/ Ended
    BY <2>5 DEF LoopHead, SweepFile, SweepDone, Photo, PhotoStored, NoPhoto, ServoJoined, Ended
  <2> QED
    BY <2>1, <2>2, <2>3, <2>4, <2>5 DEF Next, Main
<1>4. /\ pc' \in {"top", "sweep", "scan", "reconnect", "body", "photo", "ended", "down"} \cup Joins
      /\ g_running' \in BOOLEAN /\ frames' \in 0..SweepEvery
  <2> USE DEF Joins
  <2>1. CASE ScanFrame \/ Restart
    <3>1. frames' \in 0..SweepEvery
      BY <2>1 DEF ScanFrame, Restart
    <3>2. pc' \in {"top", "body"} /\ g_running' \in BOOLEAN
      BY <2>1 DEF ScanFrame, Restart
    <3> QED BY <3>1, <3>2
  <2>2. CASE Day \/ Servo \/ Sensor \/ Stop \/ Crash
    BY <2>2 DEF Day, Servo, TakeJob, JobPhoto, JobDone, Sensor, Stop, Crash, loopVars
  <2>3. CASE ScanEmpty \/ ScanFails \/ Reconnect
    BY <2>3 DEF ScanEmpty, ScanFails, Reconnect
  <2>4. CASE LoopHead \/ SweepFile \/ SweepDone \/ Photo \/ PhotoStored \/ NoPhoto \/ ServoJoined \/ Ended
    BY <2>4 DEF LoopHead, SweepFile, SweepDone, Photo, PhotoStored, NoPhoto, ServoJoined, Ended
  <2> QED
    BY <2>1, <2>2, <2>3, <2>4 DEF Next, Main
<1>5. /\ available' \in BOOLEAN /\ todo' \in SUBSET Name
      /\ job' \in BOOLEAN /\ lidar' \in BOOLEAN /\ answers' \in BOOLEAN
  BY DEF Next, Main, Servo, LoopHead, SweepFile, SweepDone, ScanFails, ScanEmpty, ScanFrame,
         Reconnect, Photo, PhotoStored, NoPhoto, ServoJoined, Ended, TakeJob, JobPhoto, JobDone, Stop,
         Crash, Restart, Sensor, Day, loopVars, StartLidar, StopLidar
<1> QED BY <1>1, <1>2, <1>3, <1>4, <1>5

LEMMA WritersStep == ASSUME IInv, Next PROVE WritersAlone'
<1> USE DEF IInv, Writer, WritersAlone
<1>1. CASE UNCHANGED vaultVars
  BY <1>1 DEF vaultVars
<1>2. CASE SweepFile \/ Day
  <2>1. \A n \in Name : files[n] = Stub => files'[n] = Stub
    <3>1. ASSUME NEW n \in Name, files[n] = Stub PROVE files'[n] = Stub
      <4>1. n \notin todo /\ Aged(n) = Stub
        BY <3>1 DEF TodoExpired, Expired, Aged, Stub
      <4> QED
        BY <1>2, <3>1, <4>1 DEF SweepFile, Purge, Day, NewDay, TypeOK, VaultTypeOK
    <3> QED BY <3>1
  <2>2. UNCHANGED writing
    BY <1>2 DEF SweepFile, Purge, Day, NewDay
  <2> QED BY <2>1, <2>2, NamesApart DEF TypeOK, VaultTypeOK
<1>3. ASSUME NEW w \in Writer, NEW n \in Name, Create(w, n), n = Confirm => w = "main"
      PROVE  WritersAlone'
  <2>1. \A v \in Writer : writing[v] # n
    BY <1>3, NamesApart DEF Create, Gone, Stub
  <2> QED
    BY <1>3, <2>1, NamesApart DEF Create, TypeOK, VaultTypeOK
<1>4. ASSUME NEW w \in Writer, Finish(w) PROVE WritersAlone'
  <2>1. \A v \in Writer : v # w /\ writing[v] # None => writing[v] # writing[w]
    BY <1>4 DEF Finish
  <2> QED
    BY <1>4, <2>1, NamesApart DEF Finish, TypeOK, VaultTypeOK
<1>5. CASE Crash
  BY <1>5, NamesApart DEF Crash, Torn
<1>6. CASE Photo \/ PhotoStored
  BY <1>6, <1>3, <1>4 DEF Photo, PhotoStored
<1>7. CASE JobPhoto \/ JobDone
  BY <1>7, <1>1, <1>3, <1>4, NamesApart DEF JobPhoto, JobDone
<1> QED
  BY <1>1, <1>2, <1>5, <1>6, <1>7
     DEF Next, Main, Servo, LoopHead, SweepDone, ScanFails, ScanEmpty, ScanFrame,
         Reconnect, NoPhoto, ServoJoined, Ended, TakeJob, Stop, Restart, Sensor

(* What expired stays so until the sweep is done with it. *)
LEMMA TodoStep == ASSUME IInv, Next PROVE TodoExpired'
<1> USE Bounds DEF IInv, TodoExpired, Expired
<1>1. CASE LoopHead
  BY <1>1 DEF LoopHead, vaultVars
<1>2. CASE SweepFile
  BY <1>2 DEF SweepFile, Purge, TypeOK, VaultTypeOK
<1>3. CASE JobPhoto
  <2>1. PICK m \in Shot : Create("servo", m)
    BY <1>3 DEF JobPhoto
  <2>2. m \notin todo
    BY <2>1, NamesApart DEF Create, Gone
  <2> QED
    BY <1>3, <2>1, <2>2 DEF JobPhoto, Create, loopVars, TypeOK, VaultTypeOK
<1>4. CASE JobDone
  <2>1. CASE writing["servo"] = None
    BY <1>4, <2>1 DEF JobDone, loopVars, vaultVars
  <2>2. CASE writing["servo"] # None
    <3>1. writing["servo"] \notin todo
      BY <2>2 DEF WritersAlone, Writer, Stub
    <3> QED
      BY <1>4, <2>2, <3>1 DEF JobDone, Finish, loopVars, TypeOK, VaultTypeOK
  <2> QED BY <2>1, <2>2
<1>5. CASE Day
  <2>1. \A n \in todo : files'[n] = files[n]
    BY <1>5 DEF Day, NewDay, Aged, TypeOK, VaultTypeOK
  <2> QED BY <1>5, <2>1 DEF Day, loopVars
<1>6. CASE TakeJob \/ Stop \/ Sensor \/ SweepDone
  BY <1>6 DEF TakeJob, Stop, Sensor, SweepDone, loopVars, vaultVars
<1>7. CASE /\ pc # "sweep"
           /\ UNCHANGED todo
  BY <1>7
<1>8. CASE Crash
  BY <1>8 DEF Crash
<1> QED
  BY <1>1, <1>2, <1>3, <1>4, <1>5, <1>6, <1>7, <1>8
     DEF Next, Main, Servo, ScanFails, ScanEmpty, ScanFrame, Reconnect, Photo, PhotoStored,
         NoPhoto, ServoJoined, Ended, Restart, Up
(* A file becomes overdue only with the day. *)
LEMMA OverdueSince ==
  ASSUME IInv, Next, NEW n \in Name, Overdue(n)', UNCHANGED available
  PROVE  Overdue(n) \/ Day
<1>1. Moves(n)
  BY FilesMove
<1> QED
  BY <1>1, Bounds DEF Moves, Overdue, Gone, Stub

LEMMA DueStep == ASSUME IInv, Next PROVE PurgedInTime' /\ DueThisRound'
<1> USE Bounds DEF IInv, PurgedInTime, DueThisRound
<1> USE TypeStep DEF TypeOK
<1>1. CASE ScanFrame
  <2>1. \A n \in Name : Overdue(n)' <=> Overdue(n)
    BY <1>1 DEF ScanFrame, Overdue, vaultVars
  <2>2. ASSUME NEW n \in Name
        PROVE  due'[n] <= SweepEvery /\ (Overdue(n) => due'[n] <= frames')
    <3>1. CASE ~Overdue(n)
      BY <1>1, <3>1 DEF ScanFrame
    <3>2. CASE Overdue(n) /\ frames = SweepEvery
      BY <1>1, <3>2 DEF ScanFrame
    <3>3. CASE Overdue(n) /\ frames # SweepEvery
      BY <1>1, <3>3 DEF ScanFrame
    <3> QED BY <3>1, <3>2, <3>3
  <2> QED BY <1>1, <2>1, <2>2 DEF ScanFrame
<1>2. CASE Restart
  BY <1>2 DEF Restart
<1>3. CASE Day
  BY <1>3 DEF Day, loopVars
<1>4. CASE SweepFile
  <2>1. PICK m \in todo, removed \in BOOLEAN :
          /\ Purge(m, removed)
          /\ todo' = todo \ {m}
          /\ due' = [due EXCEPT ![m] = 0]
    BY <1>4 DEF SweepFile
  <2>2. \A n \in Name : Overdue(n)' => Overdue(n)
    BY <1>4, <2>1, OverdueSince DEF SweepFile, Day, loopVars
  <2> QED BY <1>4, <2>1, <2>2 DEF SweepFile
<1>5. CASE LoopHead
  <2>1. \A n \in Name : Overdue(n)' <=> Overdue(n)
    BY <1>5 DEF LoopHead, Overdue, vaultVars
  <2>2. \A n \in Name : Overdue(n) => Expired(n)
    BY DEF Overdue, Expired
  <2>3. CASE g_running /\ SweepDue
    BY <1>5, <2>1, <2>2, <2>3 DEF LoopHead, SweepDue
  <2>4. CASE ~(g_running /\ SweepDue)
    BY <1>5, <2>1, <2>4 DEF LoopHead, SweepDue, Overdue
  <2> QED BY <2>3, <2>4
<1>6. CASE /\ UNCHANGED <<due, frames, available>>
           /\ ~Day
           /\ (pc' = pc /\ UNCHANGED todo) \/ pc' \notin {"scan", "sweep"}
  <2>1. \A n \in Name : Overdue(n)' => Overdue(n)
    BY <1>6, OverdueSince
  <2> QED BY <1>6, <2>1
<1>7. CASE SweepDone
  <2>1. \A n \in Name : Overdue(n)' <=> Overdue(n)
    BY <1>7 DEF SweepDone, Overdue, vaultVars
  <2> QED BY <1>7, <2>1 DEF SweepDone
<1> QED
  BY <1>1, <1>2, <1>3, <1>4, <1>5, <1>6, <1>7
     DEF Next, Main, Servo, ScanFails, ScanEmpty, Reconnect, Photo, PhotoStored, NoPhoto,
         ServoJoined, Ended, TakeJob, JobPhoto, JobDone, Stop, Crash, Sensor, loopVars
-----------------------------------------------------------------------------
LEMMA InitInvariant == Init => IInv
<1> SUFFICES ASSUME Init PROVE IInv
  OBVIOUS
<1> USE Bounds DEF Init, VaultInit
<1>1. TypeOK
  <2>1. VaultTypeOK
    BY DEF VaultTypeOK, Gone
  <2>2. frames \in 0..SweepEvery /\ fails \in 0..MaxFails /\ 0 \in 0..SweepEvery + 1
    OBVIOUS
  <2>3. due \in [Name -> 0..SweepEvery + 1]
    BY <2>2
  <2> QED BY <2>1, <2>2, <2>3 DEF TypeOK
<1>2. FailsCounted /\ WritersAlone /\ TodoExpired /\ PurgedInTime /\ DueThisRound
  BY NamesApart DEF FailsCounted, WritersAlone, TodoExpired, PurgedInTime, DueThisRound, Writer
<1> QED BY <1>1, <1>2 DEF IInv

LEMMA NextInvariant == IInv /\ [Next]_vars => IInv'
<1> SUFFICES ASSUME IInv, [Next]_vars PROVE IInv'
  OBVIOUS
<1>1. CASE Next
  <2>1. TypeOK' /\ FailsCounted'
    BY <1>1, TypeStep DEF IInv
  <2> QED
    BY <1>1, <2>1, WritersStep, TodoStep, DueStep DEF IInv
<1>2. CASE UNCHANGED vars
  BY <1>2 DEF vars, vaultVars, loopVars, IInv, TypeOK, VaultTypeOK, FailsCounted,
     WritersAlone, TodoExpired, Expired, PurgedInTime, DueThisRound, Overdue
<1> QED BY <1>1, <1>2

LEMMA Invariance == Spec => []IInv
<1>1. Init => IInv
  BY InitInvariant
<1>2. IInv /\ [Next]_vars => IInv'
  BY NextInvariant
<1> QED BY <1>1, <1>2, PTL DEF Spec

(* MainLoop keeps to its types; in particular the program reconnects after *)
(* MaxFails failed scans, and never waits for one more.                    *)
THEOREM TypeCorrect == Spec => []TypeOK
<1>1. IInv => TypeOK
  BY DEF IInv
<1> QED BY <1>1, Invariance, PTL

(* Originals are purged within SweepEvery frames of their expiry. *)
THEOREM PurgedInTimeHolds == Spec => []PurgedInTime
<1>1. IInv => PurgedInTime
  BY DEF IInv
<1> QED BY <1>1, Invariance, PTL

(* Originals stay until they expire, but for the confirmed dumping's. *)
THEOREM RetentionKeptHolds == Spec => RetentionKept
<1> DEFINE Kept == \A n \in Name :
      files[n] \in 0..Retain /\ files'[n] \notin {files[n], files[n] + 1} =>
        \/ files[n] = Retain /\ Retain > 0
        \/ n = Confirm /\ writing'["main"] = Confirm
<1>1. ASSUME IInv, Next PROVE Kept
  <2> SUFFICES ASSUME NEW n \in Name, files[n] \in 0..Retain,
                      files'[n] \notin {files[n], files[n] + 1}
               PROVE  \/ files[n] = Retain /\ Retain > 0
                      \/ n = Confirm /\ writing'["main"] = Confirm
    OBVIOUS
  <2>1. Moves(n)
    BY <1>1, FilesMove
  <2>2. n \in todo => files[n] = Retain /\ Retain > 0
    BY <1>1, Bounds DEF IInv, TodoExpired, Expired
  <2> QED
    BY <2>1, <2>2, Bounds DEF Moves, Aged, Gone, Stub
<1>2. IInv /\ [Next]_vars => [Kept]_vars
  BY <1>1
<1> QED BY <1>2, Invariance, PTL DEF Spec, RetentionKept
=============================================================================
