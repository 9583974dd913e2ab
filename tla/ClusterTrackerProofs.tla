------------------------ MODULE ClusterTrackerProofs ------------------------
(***************************************************************************)
(* Theorems about the two models of ClusterTracker: TrackLifecycle, for    *)
(* every number of slots and ids and all values of the tracker's           *)
(* parameters, and PersonGroups, for every number of tracks and every      *)
(* HoldFrames.  The two specifications share no variable.                  *)
(***************************************************************************)
EXTENDS TrackLifecycle, PersonGroups, FiniteSetTheorems, WellFoundedInduction,
        TLAPS
-----------------------------------------------------------------------------
(* TrackLifecycle                                                          *)

(* Only a frame's matching lets a track be lost for longer than any        *)
(* lifetime; stage 5 of the same frame then deletes it.                    *)
LostBound ==
  phase # "judge" => \A s \in Live : tracks[s].lost <= DumpedLimit

(* The ids in use, as tracks and as sources, have been handed out.         *)
IdsGiven ==
  \A s \in Live : tracks[s].id < next_id_ /\ tracks[s].source < next_id_

(* Doubling strikes every track of an id.                                  *)
DoubledTogether ==
  \A s, r \in Live :
    tracks[s].id = tracks[r].id /\ tracks[s].lineage = "doubled" =>
      tracks[r].lineage = "doubled"

(* A superseded track is lost for good, and an accusation that it still    *)
(* meets in the frame of its recovery (it never walked then) is dropped    *)
(* before stage 4 looks at it.                                             *)
SupersededLost ==
  \A s \in Live : tracks[s].lineage = "superseded" =>
    /\ tracks[s].lost > LostLimit
    /\ tracks[s].mark # "plain" =>
         /\ tracks[s].mark = "suspect" /\ tracks[s].dist = Settled
         /\ phase # "judge"

(* Until the next frame a superseded track and its successor have walked   *)
(* the same distance.                                                      *)
SupersededAlike ==
  phase # "judge" => \A s, r \in Live :
    tracks[s].lineage = "superseded" /\ tracks[r].id = tracks[s].id =>
      tracks[r].dist = tracks[s].dist

IInv ==
  /\ TypeOK /\ LostBound /\ IdsGiven
  /\ OneCurrentTrack /\ DoubledTogether
  /\ SupersededLost /\ SupersededAlike /\ SupersededGo
  /\ SourceIffAccused /\ CancelledNotAccusedAgain /\ AccusedWalked
  /\ SuspectsSeenLately
-----------------------------------------------------------------------------
LEMMA ConstantsNat ==
  /\ MaxId \in Nat \ {0} /\ ConfirmRun \in Nat \ {0} /\ Walked \in Nat \ {0}
  /\ BirthAge \in Nat \ {0} /\ StillMin \in Nat \ {0}
  /\ RecoveryLost \in Nat \ {0} /\ SuspectLost \in Nat \ {0}
  /\ LostLimit \in Nat \ {0} /\ DumpedLimit \in Nat \ {0}
  /\ RecoveryLost <= LostLimit /\ SuspectLost <= LostLimit
  /\ LostLimit < DumpedLimit
BY ConstantsOK

LEMMA LiveTrack ==
  ASSUME TypeOK
  PROVE  /\ \A s \in Live : s \in Slot /\ tracks[s] \in Track
         /\ \A s \in Slot \ Live : tracks[s] = Free
         /\ \A s \in Slot : tracks[s].id # 0 => s \in Live
BY DEF TypeOK, Live, Free

LEMMA TrackNotFree == \A t \in Track : t # Free
BY DEF Track, Free

LEMMA DroppedType ==
  ASSUME NEW t \in Track
  PROVE  /\ Dropped(t) \in Track
         /\ Dropped(t).mark = "plain" /\ Dropped(t).source = NoSource
         /\ Dropped(t).id = t.id /\ Dropped(t).alert = t.alert
         /\ Dropped(t).lost = t.lost /\ Dropped(t).dist = t.dist
         /\ Dropped(t).lineage = t.lineage
<1>1. NoSource \in 0..MaxId /\ "plain" \in {"plain", "suspect", "dumped"}
  BY ConstantsNat DEF NoSource
<1>2. Dropped(t) \in Track
  BY <1>1, Zenon DEF Dropped, Track
<1>3. /\ Dropped(t).mark = "plain" /\ Dropped(t).source = NoSource
      /\ Dropped(t).id = t.id /\ Dropped(t).alert = t.alert
      /\ Dropped(t).lost = t.lost /\ Dropped(t).dist = t.dist
      /\ Dropped(t).lineage = t.lineage
  BY DEF Dropped, Track
<1> QED
  BY <1>2, <1>3

(* What a track is after a frame in which it was seen or missed.           *)
Follows(t, u, g) ==
  /\ u.id = t.id /\ u.alert = t.alert
  /\ \/ u.mark = t.mark /\ u.source = t.source
     \/ t.mark = "suspect" /\ u.mark = "plain" /\ u.source = NoSource
  /\ u.mark = "suspect" => u.lost <= SuspectLost
  /\ g.step = "missed" => u.lost = t.lost + 1 /\ u.dist = t.dist
  /\ g.step # "missed" => u.lost = 0 /\ u.dist >= t.dist

LEMMA FollowedFollows ==
  ASSUME NEW t \in Track, NEW g \in Sighting, MaySee(t, g), t.lost <= DumpedLimit
  PROVE  /\ Followed(t, g) \in Track /\ Follows(t, Followed(t, g), g)
         /\ Followed(t, g).lineage = t.lineage
<1> USE ConstantsNat
<1>1. CASE g.step = "missed"
  <2>1. Lost(t) \in Track
    <3>1. t.lost + 1 \in 0..DumpedLimit + 1
      BY DEF Track
    <3>2. (IF Confirmed(t) THEN t.run ELSE 0) \in 0..ConfirmRun
      BY DEF Track
    <3> QED
      BY <3>1, <3>2, Zenon DEF Lost, Track
  <2>2. /\ Lost(t).id = t.id /\ Lost(t).alert = t.alert /\ Lost(t).mark = t.mark
        /\ Lost(t).source = t.source /\ Lost(t).lost = t.lost + 1
        /\ Lost(t).dist = t.dist /\ Lost(t).lineage = t.lineage
    BY DEF Lost, Track
  <2>3. t.lost \in Nat /\ SuspectLost \in Nat
    BY DEF Track
  <2>4. CASE t.mark = "suspect" /\ t.lost + 1 > SuspectLost
    <3> DEFINE u == Dropped(Lost(t))
    <3>1. Followed(t, g) = u
      BY <1>1, <2>4 DEF Followed, Missed
    <3>2. u \in Track
      BY <2>1, DroppedType
    <3>3. /\ u.id = t.id /\ u.alert = t.alert /\ u.mark = "plain"
          /\ u.source = NoSource /\ u.lost = t.lost + 1
          /\ u.dist = t.dist /\ u.lineage = t.lineage
      BY <2>1, <2>2, DroppedType
    <3> HIDE DEF u
    <3> QED
      BY <1>1, <2>4, <3>1, <3>2, <3>3 DEF Follows
  <2>5. CASE ~(t.mark = "suspect" /\ t.lost + 1 > SuspectLost)
    <3> DEFINE u == Lost(t)
    <3>1. Followed(t, g) = u
      BY <1>1, <2>5 DEF Followed, Missed
    <3>2. u.mark = "suspect" => u.lost <= SuspectLost
      BY <2>2, <2>3, <2>5
    <3>3. Follows(t, u, g)
      BY <1>1, <2>2, <3>2 DEF Follows
    <3> QED
      BY <2>1, <2>2, <3>1, <3>3
  <2> QED
    BY <2>4, <2>5
<1>2. CASE g.step # "missed"
  <2> DEFINE u == Matched(t, g)
  <2>1. Followed(t, g) = u
    BY <1>2 DEF Followed
  <2>2. /\ UpTo(t.run + 1, ConfirmRun) \in 0..ConfirmRun
        /\ UpTo(t.age + 1, BirthAge + 1) \in 0..BirthAge + 1
        /\ UpTo(t.still + 1, StillMin) \in 0..StillMin
        /\ 0 \in 0..StillMin /\ 0 \in 0..DumpedLimit + 1
        /\ g.dist \in 0..Walked
    BY DEF Track, UpTo, Sighting
  <2>3. (IF g.step = "move" THEN 0 ELSE UpTo(t.still + 1, StillMin)) \in 0..StillMin
    BY <2>2
  <2>4. u \in Track
    BY <2>2, <2>3, Zenon DEF Matched, Track
  <2>5. /\ u.id = t.id /\ u.alert = t.alert /\ u.mark = t.mark
        /\ u.source = t.source /\ u.lost = 0
        /\ u.dist = g.dist /\ u.lineage = t.lineage
    BY DEF Matched, Track
  <2>6. g.dist >= t.dist
    BY <1>2 DEF MaySee
  <2> HIDE DEF u
  <2> QED
    BY <1>2, <2>1, <2>4, <2>5, <2>6 DEF Follows
<1> QED
  BY <1>1, <1>2

(* Match, slot by slot.                                                    *)
LEMMA MatchSlots ==
  ASSUME TypeOK, LostBound, Match
  PROVE  \E g \in [Live -> Sighting] :
           /\ \A s \in Slot \ Live : tracks'[s] = Free
           /\ \A s \in Live :
                /\ tracks'[s] \in Track /\ Follows(tracks[s], tracks'[s], g[s])
                /\ tracks'[s].lineage = Lineage(tracks[s], Resurfaced(g))
<1>1. PICK g \in [Live -> Sighting] :
        /\ \A s \in Live : MaySee(tracks[s], g[s])
        /\ tracks' = [s \in Slot |->
             IF s \in Live
             THEN [Followed(tracks[s], g[s]) EXCEPT
                     !.lineage = Lineage(tracks[s], Resurfaced(g))]
             ELSE Free]
  BY DEF Match
<1>2. ASSUME NEW s \in Live
      PROVE  /\ tracks'[s] \in Track /\ Follows(tracks[s], tracks'[s], g[s])
             /\ tracks'[s].lineage = Lineage(tracks[s], Resurfaced(g))
  <2> DEFINE t == tracks[s]
             u == Followed(t, g[s])
             l == Lineage(t, Resurfaced(g))
  <2>1. s \in Slot /\ t \in Track /\ g[s] \in Sighting /\ MaySee(t, g[s])
    BY <1>1, LiveTrack
  <2>2. t.lost <= DumpedLimit
    BY DEF LostBound, Match
  <2>3. u \in Track /\ Follows(t, u, g[s])
    BY <2>1, <2>2, FollowedFollows
  <2>4. l \in {"current", "superseded", "doubled"}
    BY <2>1 DEF Lineage, Track
  <2>5. tracks'[s] = [u EXCEPT !.lineage = l]
    BY <1>1, <2>1
  <2> HIDE DEF t, u, l
  <2>6. [u EXCEPT !.lineage = l] \in Track /\ [u EXCEPT !.lineage = l].lineage = l
    BY <2>3, <2>4 DEF Track
  <2>7. Follows(t, [u EXCEPT !.lineage = l], g[s])
    BY <2>3 DEF Follows, Track
  <2> QED
    BY <2>5, <2>6, <2>7 DEF t, l
<1>3. \A s \in Slot \ Live : tracks'[s] = Free
  BY <1>1
<1> QED
  BY <1>2, <1>3

(* What stages 4 and 5 make of a track they keep.                          *)
Judges(t, u) ==
  /\ u \in Track
  /\ u.id = t.id /\ u.alert = t.alert /\ u.lost = t.lost
  /\ u.dist = t.dist /\ u.lineage = t.lineage
  /\ \/ u.mark = t.mark /\ u.source = t.source
     \/ t.mark = "suspect" /\ u.mark = "plain" /\ u.source = NoSource
     \/ t.mark = "suspect" /\ u.mark = "dumped" /\ u.source = t.source

LEMMA JudgedJudges ==
  ASSUME NEW t \in Track, t.mark = "suspect", NEW v \in Verdict
  PROVE  Judges(t, Judged(t, v))
<1>1. CASE v = "hold"
  BY <1>1 DEF Judged, Judges
<1>2. CASE v = "reject"
  <2>1. Judged(t, v) = Dropped(t)
    BY <1>2 DEF Judged
  <2> QED
    BY <2>1, DroppedType DEF Judges
<1>3. CASE v = "promote"
  <2> DEFINE u == [t EXCEPT !.mark = "dumped"]
  <2>1. Judged(t, v) = u
    BY <1>3 DEF Judged
  <2>2. u \in Track
    BY Zenon DEF Track
  <2>3. /\ u.id = t.id /\ u.alert = t.alert /\ u.lost = t.lost
        /\ u.dist = t.dist /\ u.lineage = t.lineage
        /\ u.mark = "dumped" /\ u.source = t.source
    BY DEF Track
  <2> HIDE DEF u
  <2> QED
    BY <2>1, <2>2, <2>3 DEF Judges
<1> QED
  BY <1>1, <1>2, <1>3 DEF Verdict

(* Judge, slot by slot: what it frees has expired or walked off.           *)
LEMMA JudgeSlots ==
  ASSUME TypeOK, Judge
  PROVE  \A s \in Slot :
           \/ /\ tracks'[s] = Free
              /\ s \in Live /\ tracks[s].mark = "dumped" =>
                   tracks[s].lost > DumpedLimit
           \/ /\ s \in Live /\ Judges(tracks[s], tracks'[s])
              /\ tracks'[s].lost <= Lifetime(tracks'[s])
<1>1. PICK verdict \in [Marked("suspect") -> Verdict] :
        LET judged == [s \in Live |-> IF s \in Marked("suspect")
                         THEN Judged(tracks[s], verdict[s]) ELSE tracks[s]]
        IN \E early \in SUBSET {s \in Live : WalkedOff(judged[s])} :
             tracks' = [s \in Slot |-> IF s \in Live \ early
                          THEN Kept(judged[s]) ELSE Free]
  BY DEF Judge
<1> DEFINE judged == [s \in Live |-> IF s \in Marked("suspect")
                        THEN Judged(tracks[s], verdict[s]) ELSE tracks[s]]
<1>2. PICK early \in SUBSET {s \in Live : WalkedOff(judged[s])} :
        tracks' = [s \in Slot |-> IF s \in Live \ early
                     THEN Kept(judged[s]) ELSE Free]
  BY <1>1
<1>3. ASSUME NEW s \in Live PROVE Judges(tracks[s], judged[s])
  <2>1. tracks[s] \in Track
    BY LiveTrack
  <2>2. CASE s \in Marked("suspect")
    BY <2>1, <2>2, JudgedJudges DEF Marked
  <2>3. CASE s \notin Marked("suspect")
    BY <2>1, <2>3 DEF Judges
  <2> QED
    BY <2>2, <2>3
<1> HIDE DEF judged
<1> SUFFICES ASSUME NEW s \in Slot
             PROVE \/ /\ tracks'[s] = Free
                      /\ s \in Live /\ tracks[s].mark = "dumped" =>
                           tracks[s].lost > DumpedLimit
                   \/ /\ s \in Live /\ Judges(tracks[s], tracks'[s])
                      /\ tracks'[s].lost <= Lifetime(tracks'[s])
  OBVIOUS
<1>4. CASE s \notin Live
  BY <1>2, <1>4
<1>5. CASE s \in early
  <2>1. tracks'[s] = Free /\ WalkedOff(judged[s])
    BY <1>2, <1>5
  <2>2. Judges(tracks[s], judged[s])
    BY <1>2, <1>3, <1>5
  <2> QED
    BY <2>1, <2>2 DEF WalkedOff, Judges
<1>6. CASE s \in Live \ early
  <2>1. tracks'[s] = Kept(judged[s]) /\ Judges(tracks[s], judged[s])
    BY <1>2, <1>3, <1>6
  <2>2. CASE Expired(judged[s])
    BY <2>1, <2>2, <1>6 DEF Kept, Expired, Judges, Lifetime
  <2>3. CASE ~Expired(judged[s])
    <3>1. tracks'[s] = judged[s]
      BY <2>1, <2>3 DEF Kept
    <3>2. judged[s].lost <= Lifetime(judged[s])
      BY <2>1, <2>3, ConstantsNat DEF Expired, Lifetime, Judges, Track
    <3> QED
      BY <2>1, <3>1, <3>2, <1>6
  <2> QED
    BY <2>2, <2>3
<1> QED
  BY <1>4, <1>5, <1>6
-----------------------------------------------------------------------------
(* A track that got the next id.                                           *)
Newborn(u) ==
  /\ u \in Track /\ u.id = next_id_ /\ u.lost = 0 /\ u.dist = 0
  /\ u.alert = "silent" /\ u.lineage = "current"

LEMMA NewTrackType ==
  ASSUME NEW i \in 1..MaxId
  PROVE  /\ NewTrack(i) \in Track /\ NewTrack(i).id = i
         /\ NewTrack(i).lost = 0 /\ NewTrack(i).dist = 0
         /\ NewTrack(i).mark = "plain" /\ NewTrack(i).source = NoSource
         /\ NewTrack(i).alert = "silent" /\ NewTrack(i).lineage = "current"
<1>1. /\ UpTo(1, ConfirmRun) \in 0..ConfirmRun /\ 1 \in 0..BirthAge + 1
      /\ 0 \in 0..DumpedLimit + 1 /\ 0 \in 0..StillMin /\ 0 \in 0..Walked
      /\ NoSource \in 0..MaxId
  BY ConstantsNat DEF UpTo, NoSource
<1> QED
  BY <1>1 DEF NewTrack, Track

LEMMA NextId ==
  ASSUME TypeOK, AllocId
  PROVE  next_id_ \in 1..MaxId /\ next_id_' = next_id_ + 1 /\ next_id_' \in 1..MaxId + 1
BY ConstantsNat DEF TypeOK, AllocId

LEMMA SeparationSlots ==
  ASSUME TypeOK, NEW s \in Slot, NEW p \in Slot, DetectSeparation(s, p)
  PROVE  /\ s \notin Live /\ p \in Live
         /\ \A r \in Slot \ {s} : tracks'[r] = tracks[r]
         /\ Newborn(tracks'[s])
         /\ tracks'[s].mark = "suspect" /\ tracks'[s].source = tracks[p].id
<1> DEFINE i == tracks[p].id
           t == NewTrack(next_id_)
           u == [t EXCEPT !.run = ConfirmRun, !.mark = "suspect", !.source = i]
<1>1. p \in Live /\ i \in 0..MaxId
  BY LiveTrack, ConstantsNat DEF DetectSeparation, MaySeparate, Plain, Marked, Track
<1>2. /\ t \in Track /\ t.id = next_id_ /\ t.lost = 0 /\ t.dist = 0
      /\ t.alert = "silent" /\ t.lineage = "current"
  BY NextId, NewTrackType DEF DetectSeparation
<1>3. ConfirmRun \in 0..ConfirmRun /\ tracks' = [tracks EXCEPT ![s] = u]
  BY ConstantsNat DEF DetectSeparation
<1>4. s \notin Live
  BY DEF DetectSeparation, Vacant
<1> HIDE DEF i, t
<1>5. /\ u.id = next_id_ /\ u.lost = 0 /\ u.dist = 0
      /\ u.alert = "silent" /\ u.lineage = "current"
      /\ u.mark = "suspect" /\ u.source = i
  BY <1>2 DEF Track
<1>6. u \in Track
  BY <1>1, <1>2, <1>3, Zenon DEF Track
<1> HIDE DEF u
<1>7. tracks'[s] = u /\ \A r \in Slot \ {s} : tracks'[r] = tracks[r]
  BY <1>3 DEF TypeOK
<1> QED
  BY <1>1, <1>4, <1>5, <1>6, <1>7 DEF Newborn, i

LEMMA AppearSlots ==
  ASSUME TypeOK, NEW s \in Slot, Appear(s)
  PROVE  /\ s \notin Live
         /\ \A r \in Slot \ {s} : tracks'[r] = tracks[r]
         /\ Newborn(tracks'[s])
         /\ tracks'[s].mark = "plain" /\ tracks'[s].source = NoSource
<1> DEFINE t == NewTrack(next_id_)
<1>1. PICK a \in FirstAge : tracks' = [tracks EXCEPT ![s] = [t EXCEPT !.age = a]]
  BY DEF Appear
<1>2. /\ t \in Track /\ t.id = next_id_ /\ t.lost = 0 /\ t.dist = 0
      /\ t.alert = "silent" /\ t.lineage = "current"
      /\ t.mark = "plain" /\ t.source = NoSource
  BY NextId, NewTrackType DEF Appear
<1>3. a \in 0..BirthAge + 1
  BY ConstantsOK, ConstantsNat
<1>4. s \notin Live
  BY DEF Appear, Vacant
<1> HIDE DEF t
<1> DEFINE u == [t EXCEPT !.age = a]
<1>5. /\ u.id = next_id_ /\ u.lost = 0 /\ u.dist = 0
      /\ u.alert = "silent" /\ u.lineage = "current"
      /\ u.mark = "plain" /\ u.source = NoSource
  BY <1>2 DEF Track
<1>6. u \in Track
  BY <1>2, <1>3, Zenon DEF Track
<1>7. tracks' = [tracks EXCEPT ![s] = u]
  BY <1>1
<1> HIDE DEF u
<1>8. tracks'[s] = u /\ \A r \in Slot \ {s} : tracks'[r] = tracks[r]
  BY <1>7 DEF TypeOK
<1> QED
  BY <1>4, <1>5, <1>6, <1>8 DEF Newborn

LEMMA RecoverSlots ==
  ASSUME TypeOK, NEW s \in Slot, NEW l \in Slot, Recover(s, l)
  PROVE  /\ s \notin Live /\ l \in Live /\ Recoverable(tracks[l])
         /\ \A r \in Slot \ {s, l} : tracks'[r] = tracks[r]
         /\ LET n == tracks'[s] IN
              /\ n \in Track /\ n.id = tracks[l].id /\ n.dist = tracks[l].dist
              /\ n.lineage = tracks[l].lineage /\ n.lost = 0
              /\ n.mark = "plain" /\ n.source = NoSource /\ n.alert = "silent"
         /\ LET k == tracks'[l] IN
              /\ k \in Track /\ k.id = tracks[l].id /\ k.dist = tracks[l].dist
              /\ k.lineage = Handed(tracks[l].lineage) /\ k.lost = LostLimit + 1
              /\ k.mark = "plain" /\ k.source = tracks[l].source
              /\ k.alert = tracks[l].alert
<1> DEFINE t == tracks[l]
           b == NewTrack(t.id)
           n == [b EXCEPT !.dist = t.dist, !.age = t.age, !.run = t.run,
                          !.lineage = t.lineage]
           k == [t EXCEPT !.lost = LostLimit + 1, !.lineage = Handed(@)]
<1>1. s \notin Live /\ l \in Live /\ Recoverable(t)
  BY DEF Recover, Vacant
<1>2. s # l /\ t \in Track /\ t.mark = "plain"
  BY <1>1, LiveTrack DEF Recoverable
<1>3. /\ b \in Track /\ b.id = t.id /\ b.lost = 0 /\ b.mark = "plain"
      /\ b.source = NoSource /\ b.alert = "silent"
  BY <1>2, NewTrackType DEF Track
<1>4. tracks' = [tracks EXCEPT ![s] = n, ![l] = k]
  BY <1>2 DEF Recover, Successor, TypeOK
<1>5. /\ LostLimit + 1 \in 0..DumpedLimit + 1
      /\ Handed(t.lineage) \in {"current", "superseded", "doubled"}
  BY ConstantsNat DEF Handed
<1> HIDE DEF b, t
<1>6. n \in Track
  <2>1. /\ t.dist \in 0..Walked /\ t.age \in 0..BirthAge + 1
        /\ t.run \in 0..ConfirmRun /\ t.lineage \in {"current", "superseded", "doubled"}
    BY <1>2, Zenon DEF Track
  <2> QED
    BY <1>3, <2>1, Zenon DEF Track
<1>7. /\ n.id = t.id /\ n.dist = t.dist /\ n.lineage = t.lineage /\ n.lost = 0
      /\ n.mark = "plain" /\ n.source = NoSource /\ n.alert = "silent"
  BY <1>3 DEF Track
<1>8. k \in Track
  BY <1>2, <1>5, Zenon DEF Track
<1>9. /\ k.id = t.id /\ k.dist = t.dist /\ k.lineage = Handed(t.lineage)
      /\ k.lost = LostLimit + 1 /\ k.mark = "plain" /\ k.source = t.source
      /\ k.alert = t.alert
  BY <1>2 DEF Track
<1> HIDE DEF n, k
<1>10. /\ tracks'[s] = n /\ tracks'[l] = k
       /\ \A r \in Slot \ {s, l} : tracks'[r] = tracks[r]
  BY <1>2, <1>4 DEF TypeOK
<1> QED
  BY <1>1, <1>6, <1>7, <1>8, <1>9, <1>10 DEF t

(* A track of which only the accusation changed.                           *)
SameButAccused(t, u) ==
  /\ u \in Track /\ u.id = t.id /\ u.lost = t.lost /\ u.dist = t.dist
  /\ u.lineage = t.lineage /\ u.alert = t.alert

LEMMA AccuseSlots ==
  ASSUME TypeOK, NEW o \in Slot, NEW p \in Slot, TrajectoryMatch(o, p)
  PROVE  /\ o \in Live /\ p \in Live /\ tracks[p].id # tracks[o].id
         /\ MayBeObject(tracks[o]) /\ MayBeOwner(tracks[p])
         /\ \A r \in Slot \ {o} : tracks'[r] = tracks[r]
         /\ SameButAccused(tracks[o], tracks'[o])
         /\ tracks'[o].mark = "suspect" /\ tracks'[o].source = tracks[p].id
<1> DEFINE t == tracks[o]
           i == tracks[p].id
           u == [t EXCEPT !.mark = "suspect", !.source = i]
<1>1. /\ o \in Live /\ p \in Live /\ i # t.id
      /\ MayBeObject(t) /\ MayBeOwner(tracks[p])
  BY DEF TrajectoryMatch
<1>2. t \in Track /\ i \in 0..MaxId
  BY <1>1, LiveTrack, ConstantsNat DEF Track
<1>3. tracks' = [tracks EXCEPT ![o] = u]
  BY DEF TrajectoryMatch, TypeOK
<1> HIDE DEF t, i
<1>4. u \in Track
  BY <1>2, Zenon DEF Track
<1>5. /\ u.id = t.id /\ u.lost = t.lost /\ u.dist = t.dist
      /\ u.lineage = t.lineage /\ u.alert = t.alert
      /\ u.mark = "suspect" /\ u.source = i
  BY <1>2 DEF Track
<1> HIDE DEF u
<1>6. tracks'[o] = u /\ \A r \in Slot \ {o} : tracks'[r] = tracks[r]
  BY <1>3 DEF TypeOK
<1> QED
  BY <1>1, <1>4, <1>5, <1>6 DEF SameButAccused, t, i

LEMMA ConfirmationSlots ==
  ASSUME TypeOK, CheckConfirmation
  PROVE  \A s \in Slot :
           \/ tracks'[s] = tracks[s]
           \/ /\ s \in Live /\ tracks[s].mark = "dumped"
              /\ LET u == tracks'[s]  t == tracks[s] IN
                   /\ u \in Track /\ u.id = t.id /\ u.lost = t.lost
                   /\ u.dist = t.dist /\ u.lineage = t.lineage
                   /\ u.mark = t.mark /\ u.source = t.source
<1>1. PICK A \in SUBSET {s \in Live : MayAlert(tracks[s])} :
        tracks' = [s \in Slot |-> IF s \in A
                     THEN [tracks[s] EXCEPT !.alert = "fired"] ELSE tracks[s]]
  BY DEF CheckConfirmation
<1> SUFFICES ASSUME NEW s \in Slot, s \in A
             PROVE /\ s \in Live /\ tracks[s].mark = "dumped"
                   /\ LET u == tracks'[s]  t == tracks[s] IN
                        /\ u \in Track /\ u.id = t.id /\ u.lost = t.lost
                        /\ u.dist = t.dist /\ u.lineage = t.lineage
                        /\ u.mark = t.mark /\ u.source = t.source
  BY <1>1
<1> DEFINE t == tracks[s]
           u == [t EXCEPT !.alert = "fired"]
<1>2. s \in Live /\ t.mark = "dumped" /\ t \in Track /\ tracks'[s] = u
  BY <1>1, LiveTrack DEF MayAlert
<1> HIDE DEF t
<1>3. u \in Track
  BY <1>2, Zenon DEF Track
<1>4. /\ u.id = t.id /\ u.lost = t.lost /\ u.dist = t.dist
      /\ u.lineage = t.lineage /\ u.mark = t.mark /\ u.source = t.source
  BY <1>2 DEF Track
<1> HIDE DEF u
<1> QED
  BY <1>2, <1>3, <1>4 DEF t

LEMMA CancelSlots ==
  ASSUME TypeOK, NEW s \in Slot, Cancel(s)
  PROVE  /\ s \in Live /\ \A r \in Slot \ {s} : tracks'[r] = tracks[r]
         /\ tracks'[s] = Cleared(tracks[s])
         /\ SameButAccused(tracks[s], tracks'[s])
         /\ tracks'[s].mark = "plain" /\ tracks'[s].source = NoSource
<1>1. s \in Live /\ tracks[s] \in Track
  BY LiveTrack DEF Cancel
<1>2. /\ tracks'[s] = Cleared(tracks[s])
      /\ \A r \in Slot \ {s} : tracks'[r] = tracks[r]
  BY DEF Cancel, TypeOK
<1>3. Cleared(tracks[s]) = Dropped(tracks[s])
  BY DEF Cleared, Dropped
<1> QED
  BY <1>1, <1>2, <1>3, DroppedType DEF SameButAccused
-----------------------------------------------------------------------------
(* Every step keeps the types.                                             *)
LEMMA TypeOKStep ==
  ASSUME TypeOK, LostBound, [Next]_vars PROVE TypeOK'
<1>1. CASE Match
  <2>1. tracks' = [r \in Slot |-> tracks'[r]]
    BY <1>1 DEF Match, TypeOK
  <2>2. \A r \in Slot : tracks'[r] \in Track \cup {Free}
    BY <1>1, MatchSlots, LiveTrack
  <2>3. next_id_' \in 1..MaxId + 1 /\ phase' \in Phase
    BY <1>1 DEF Match, TypeOK, Phase
  <2> QED
    BY <2>1, <2>2, <2>3, Zenon DEF TypeOK
<1>2. CASE Judge
  <2>1. tracks' = [r \in Slot |-> tracks'[r]]
    BY <1>2 DEF Judge, TypeOK
  <2>2. \A r \in Slot : tracks'[r] \in Track \cup {Free}
    BY <1>2, JudgeSlots, LiveTrack DEF Judges
  <2>3. next_id_' \in 1..MaxId + 1 /\ phase' \in Phase
    BY <1>2 DEF Judge, TypeOK, Phase
  <2> QED
    BY <2>1, <2>2, <2>3, Zenon DEF TypeOK
<1>3. CASE CheckConfirmation
  <2>1. tracks' = [r \in Slot |-> tracks'[r]]
    BY <1>3 DEF CheckConfirmation, TypeOK
  <2>2. \A r \in Slot : tracks'[r] \in Track \cup {Free}
    BY <1>3, ConfirmationSlots, LiveTrack
  <2>3. next_id_' \in 1..MaxId + 1 /\ phase' \in Phase
    BY <1>3 DEF CheckConfirmation, TypeOK, Phase
  <2> QED
    BY <2>1, <2>2, <2>3, Zenon DEF TypeOK
<1>4. ASSUME NEW s \in Slot, Appear(s) PROVE TypeOK'
  <2>1. tracks' = [r \in Slot |-> tracks'[r]]
    BY <1>4 DEF Appear, TypeOK
  <2>2. \A r \in Slot : tracks'[r] \in Track \cup {Free}
    BY <1>4, AppearSlots, LiveTrack DEF Newborn
  <2>3. next_id_' \in 1..MaxId + 1 /\ phase' \in Phase
    BY <1>4, NextId DEF Appear, TypeOK, Phase
  <2> QED
    BY <2>1, <2>2, <2>3, Zenon DEF TypeOK
<1>5. ASSUME NEW s \in Slot, Cancel(s) PROVE TypeOK'
  <2>1. tracks' = [r \in Slot |-> tracks'[r]]
    BY <1>5 DEF Cancel, TypeOK
  <2>2. \A r \in Slot : tracks'[r] \in Track \cup {Free}
    BY <1>5, CancelSlots, LiveTrack DEF SameButAccused
  <2>3. next_id_' \in 1..MaxId + 1 /\ phase' \in Phase
    BY <1>5 DEF Cancel, TypeOK, Phase
  <2> QED
    BY <2>1, <2>2, <2>3, Zenon DEF TypeOK
<1>6. ASSUME NEW s \in Slot, NEW p \in Slot, DetectSeparation(s, p) PROVE TypeOK'
  <2>1. tracks' = [r \in Slot |-> tracks'[r]]
    BY <1>6 DEF DetectSeparation, TypeOK
  <2>2. \A r \in Slot : tracks'[r] \in Track \cup {Free}
    BY <1>6, SeparationSlots, LiveTrack DEF Newborn
  <2>3. next_id_' \in 1..MaxId + 1 /\ phase' \in Phase
    BY <1>6, NextId DEF DetectSeparation, TypeOK, Phase
  <2> QED
    BY <2>1, <2>2, <2>3, Zenon DEF TypeOK
<1>7. ASSUME NEW s \in Slot, NEW l \in Slot, Recover(s, l) PROVE TypeOK'
  <2>1. tracks' = [r \in Slot |-> tracks'[r]]
    BY <1>7 DEF Recover, TypeOK
  <2>2. \A r \in Slot : tracks'[r] \in Track \cup {Free}
    BY <1>7, RecoverSlots, LiveTrack
  <2>3. next_id_' \in 1..MaxId + 1 /\ phase' \in Phase
    BY <1>7, NextId DEF Recover, TypeOK, Phase
  <2> QED
    BY <2>1, <2>2, <2>3, Zenon DEF TypeOK
<1>8. ASSUME NEW o \in Slot, NEW p \in Slot, TrajectoryMatch(o, p) PROVE TypeOK'
  <2>1. tracks' = [r \in Slot |-> tracks'[r]]
    BY <1>8 DEF TrajectoryMatch, TypeOK
  <2>2. \A r \in Slot : tracks'[r] \in Track \cup {Free}
    BY <1>8, AccuseSlots, LiveTrack DEF SameButAccused
  <2>3. next_id_' \in 1..MaxId + 1 /\ phase' \in Phase
    BY <1>8 DEF TrajectoryMatch, TypeOK, Phase
  <2> QED
    BY <2>1, <2>2, <2>3, Zenon DEF TypeOK
<1>9. CASE UNCHANGED vars
  BY <1>9 DEF vars, TypeOK
<1> QED
  BY <1>1, <1>2, <1>3, <1>4, <1>5, <1>6, <1>7, <1>8, <1>9 DEF Next
LEMMA LostBoundStep ==
  ASSUME TypeOK, LostBound, [Next]_vars PROVE LostBound'
<1>1. CASE Match
  BY <1>1 DEF Match, LostBound
<1>2. CASE Judge
  <2> SUFFICES ASSUME NEW r \in Live' PROVE tracks'[r].lost <= DumpedLimit
    BY DEF LostBound
  <2>1. Judges(tracks[r], tracks'[r]) /\ tracks'[r].lost <= Lifetime(tracks'[r])
    BY <1>2, JudgeSlots DEF Live
  <2> QED
    BY <2>1, ConstantsNat DEF Lifetime, Judges, Track
<1>3. CASE CheckConfirmation
  <2>1. phase # "judge"
    BY <1>3 DEF CheckConfirmation
  <2> SUFFICES ASSUME NEW r \in Live' PROVE tracks'[r].lost <= DumpedLimit
    BY DEF LostBound
  <2>2. r \in Slot /\ tracks'[r] # Free
    BY DEF Live
  <2> QED
    BY <1>3, <2>1, <2>2, ConfirmationSlots, LiveTrack DEF LostBound, SameButAccused, Live
<1>4. ASSUME NEW s \in Slot, Appear(s) PROVE LostBound'
  <2>1. phase # "judge"
    BY <1>4 DEF Appear
  <2> SUFFICES ASSUME NEW r \in Live' PROVE tracks'[r].lost <= DumpedLimit
    BY DEF LostBound
  <2>2. r \in Slot /\ tracks'[r] # Free
    BY DEF Live
  <2> QED
    BY <1>4, <2>1, <2>2, AppearSlots, ConstantsNat DEF LostBound, Newborn, Live
<1>5. ASSUME NEW s \in Slot, Cancel(s) PROVE LostBound'
  <2>1. phase # "judge"
    BY <1>5 DEF Cancel
  <2> SUFFICES ASSUME NEW r \in Live' PROVE tracks'[r].lost <= DumpedLimit
    BY DEF LostBound
  <2>2. r \in Slot /\ tracks'[r] # Free
    BY DEF Live
  <2> QED
    BY <1>5, <2>1, <2>2, CancelSlots, LiveTrack DEF LostBound, SameButAccused, Live
<1>6. ASSUME NEW s \in Slot, NEW p \in Slot, DetectSeparation(s, p) PROVE LostBound'
  <2>1. phase # "judge"
    BY <1>6 DEF DetectSeparation
  <2> SUFFICES ASSUME NEW r \in Live' PROVE tracks'[r].lost <= DumpedLimit
    BY DEF LostBound
  <2>2. r \in Slot /\ tracks'[r] # Free
    BY DEF Live
  <2> QED
    BY <1>6, <2>1, <2>2, SeparationSlots, ConstantsNat DEF LostBound, Newborn, Live
<1>7. ASSUME NEW s \in Slot, NEW l \in Slot, Recover(s, l) PROVE LostBound'
  <2>1. phase # "judge"
    BY <1>7 DEF Recover
  <2> SUFFICES ASSUME NEW r \in Live' PROVE tracks'[r].lost <= DumpedLimit
    BY DEF LostBound
  <2>2. r \in Slot /\ tracks'[r] # Free
    BY DEF Live
  <2> QED
    BY <1>7, <2>1, <2>2, RecoverSlots, ConstantsNat DEF LostBound, Live
<1>8. ASSUME NEW o \in Slot, NEW p \in Slot, TrajectoryMatch(o, p) PROVE LostBound'
  <2>1. phase # "judge"
    BY <1>8 DEF TrajectoryMatch
  <2> SUFFICES ASSUME NEW r \in Live' PROVE tracks'[r].lost <= DumpedLimit
    BY DEF LostBound
  <2>2. r \in Slot /\ tracks'[r] # Free
    BY DEF Live
  <2> QED
    BY <1>8, <2>1, <2>2, AccuseSlots, LiveTrack DEF LostBound, SameButAccused, Live
<1>9. CASE UNCHANGED vars
  BY <1>9 DEF vars, LostBound, Live
<1> QED
  BY <1>1, <1>2, <1>3, <1>4, <1>5, <1>6, <1>7, <1>8, <1>9 DEF Next

LEMMA NextIdPositive == TypeOK => next_id_ \in Nat /\ next_id_ > 0
BY ConstantsNat DEF TypeOK

LEMMA IdsGivenStep ==
  ASSUME TypeOK, LostBound, IdsGiven, [Next]_vars PROVE IdsGiven'
<1>1. CASE Match
  <2> SUFFICES ASSUME NEW r \in Live'
               PROVE tracks'[r].id < next_id_' /\ tracks'[r].source < next_id_'
    BY DEF IdsGiven
  <2>1. r \in Slot /\ tracks'[r] # Free
    BY DEF Live
  <2>2. PICK g : /\ \A s \in Slot \ Live : tracks'[s] = Free
                 /\ \A s \in Live : Follows(tracks[s], tracks'[s], g[s])
    BY <1>1, MatchSlots
  <2>3. r \in Live /\ next_id_' = next_id_
    BY <1>1, <2>1, <2>2 DEF Match, Live
  <2> QED
    BY <2>2, <2>3, NextIdPositive DEF IdsGiven, Follows, NoSource
<1>2. CASE Judge
  <2> SUFFICES ASSUME NEW r \in Live'
               PROVE tracks'[r].id < next_id_' /\ tracks'[r].source < next_id_'
    BY DEF IdsGiven
  <2>1. r \in Slot /\ tracks'[r] # Free
    BY DEF Live
  <2>2. r \in Live /\ next_id_' = next_id_
    BY <1>2, <2>1, JudgeSlots DEF Judge, Live
  <2> QED
    BY <1>2, <2>1, <2>2, JudgeSlots, NextIdPositive DEF IdsGiven, Judges, NoSource
<1>3. CASE CheckConfirmation
  <2> SUFFICES ASSUME NEW r \in Live'
               PROVE tracks'[r].id < next_id_' /\ tracks'[r].source < next_id_'
    BY DEF IdsGiven
  <2>1. r \in Slot /\ tracks'[r] # Free
    BY DEF Live
  <2>2. r \in Live /\ next_id_' = next_id_
    BY <1>3, <2>1, ConfirmationSlots DEF CheckConfirmation, Live
  <2> QED
    BY <1>3, <2>1, <2>2, ConfirmationSlots, NextIdPositive DEF IdsGiven, Live
<1>4. ASSUME NEW s \in Slot, Appear(s) PROVE IdsGiven'
  <2> SUFFICES ASSUME NEW r \in Live'
               PROVE tracks'[r].id < next_id_' /\ tracks'[r].source < next_id_'
    BY DEF IdsGiven
  <2>1. r \in Slot /\ tracks'[r] # Free
    BY DEF Live
  <2>2. next_id_' = next_id_ + 1
    BY <1>4, NextId DEF Appear
  <2>3. CASE r = s
    BY <1>4, <2>2, <2>3, AppearSlots, NextIdPositive DEF Newborn, NoSource, IdsGiven, Track
  <2>4. CASE r # s
    <3>1. r \in Live /\ tracks'[r] = tracks[r]
      BY <1>4, <2>1, <2>4, AppearSlots DEF Live
    <3>2. tracks[r].id \in Nat /\ tracks[r].source \in Nat
      BY <3>1, LiveTrack DEF Track
    <3> QED
      BY <2>2, <3>1, <3>2, NextIdPositive DEF IdsGiven
  <2> QED
    BY <2>3, <2>4
<1>5. ASSUME NEW s \in Slot, Cancel(s) PROVE IdsGiven'
  <2> SUFFICES ASSUME NEW r \in Live'
               PROVE tracks'[r].id < next_id_' /\ tracks'[r].source < next_id_'
    BY DEF IdsGiven
  <2>1. r \in Slot /\ tracks'[r] # Free
    BY DEF Live
  <2>2. r \in Live /\ next_id_' = next_id_
    BY <1>5, <2>1, CancelSlots DEF Cancel, Live
  <2> QED
    BY <1>5, <2>1, <2>2, CancelSlots, NextIdPositive DEF IdsGiven, SameButAccused, NoSource
<1>6. ASSUME NEW s \in Slot, NEW p \in Slot, DetectSeparation(s, p) PROVE IdsGiven'
  <2> SUFFICES ASSUME NEW r \in Live'
               PROVE tracks'[r].id < next_id_' /\ tracks'[r].source < next_id_'
    BY DEF IdsGiven
  <2>1. r \in Slot /\ tracks'[r] # Free
    BY DEF Live
  <2>2. next_id_' = next_id_ + 1
    BY <1>6, NextId DEF DetectSeparation
  <2>3. CASE r = s
    <3>1. tracks[p].id \in Nat /\ tracks[p].id < next_id_
      BY <1>6, SeparationSlots, LiveTrack DEF IdsGiven, Track
    <3> QED
      BY <1>6, <2>2, <2>3, <3>1, SeparationSlots, NextIdPositive DEF Newborn
  <2>4. CASE r # s
    <3>1. r \in Live /\ tracks'[r] = tracks[r]
      BY <1>6, <2>1, <2>4, SeparationSlots DEF Live
    <3>2. tracks[r].id \in Nat /\ tracks[r].source \in Nat
      BY <3>1, LiveTrack DEF Track
    <3> QED
      BY <2>2, <3>1, <3>2, NextIdPositive DEF IdsGiven
  <2> QED
    BY <2>3, <2>4
<1>7. ASSUME NEW s \in Slot, NEW l \in Slot, Recover(s, l) PROVE IdsGiven'
  <2> SUFFICES ASSUME NEW r \in Live'
               PROVE tracks'[r].id < next_id_' /\ tracks'[r].source < next_id_'
    BY DEF IdsGiven
  <2>1. r \in Slot /\ tracks'[r] # Free
    BY DEF Live
  <2>2. next_id_' = next_id_ + 1
    BY <1>7, NextId DEF Recover
  <2>3. /\ tracks[l].id \in Nat /\ tracks[l].id < next_id_
        /\ tracks[l].source \in Nat /\ tracks[l].source < next_id_
    BY <1>7, RecoverSlots, LiveTrack DEF IdsGiven, Track
  <2>4. CASE r \in {s, l}
    BY <1>7, <2>2, <2>3, <2>4, RecoverSlots, NextIdPositive DEF NoSource
  <2>5. CASE r \notin {s, l}
    <3>1. r \in Live /\ tracks'[r] = tracks[r]
      BY <1>7, <2>1, <2>5, RecoverSlots DEF Live
    <3>2. tracks[r].id \in Nat /\ tracks[r].source \in Nat
      BY <3>1, LiveTrack DEF Track
    <3> QED
      BY <2>2, <3>1, <3>2, NextIdPositive DEF IdsGiven
  <2> QED
    BY <2>4, <2>5
<1>8. ASSUME NEW o \in Slot, NEW p \in Slot, TrajectoryMatch(o, p) PROVE IdsGiven'
  <2> SUFFICES ASSUME NEW r \in Live'
               PROVE tracks'[r].id < next_id_' /\ tracks'[r].source < next_id_'
    BY DEF IdsGiven
  <2>1. r \in Slot /\ tracks'[r] # Free
    BY DEF Live
  <2>2. r \in Live /\ next_id_' = next_id_
    BY <1>8, <2>1, AccuseSlots DEF TrajectoryMatch, Live
  <2> QED
    BY <1>8, <2>1, <2>2, AccuseSlots, NextIdPositive DEF IdsGiven, SameButAccused, NoSource
<1>9. CASE UNCHANGED vars
  BY <1>9 DEF vars, IdsGiven, Live
<1> QED
  BY <1>1, <1>2, <1>3, <1>4, <1>5, <1>6, <1>7, <1>8, <1>9 DEF Next
(* Each step that accuses or acquits sets the flag and the source.         *)
LEMMA SourceStep ==
  ASSUME TypeOK, LostBound, SourceIffAccused, [Next]_vars PROVE SourceIffAccused'
<1>1. CASE Match
  <2> SUFFICES ASSUME NEW r \in Live'
               PROVE tracks'[r].mark # "plain" <=> tracks'[r].source # NoSource
    BY DEF SourceIffAccused
  <2>1. r \in Slot /\ tracks'[r] # Free
    BY DEF Live
  <2>2. PICK g : /\ \A s \in Slot \ Live : tracks'[s] = Free
                 /\ \A s \in Live :
                      /\ tracks'[s] \in Track /\ Follows(tracks[s], tracks'[s], g[s])
                      /\ tracks'[s].lineage = Lineage(tracks[s], Resurfaced(g))
    BY <1>1, MatchSlots
  <2> QED
    BY <2>1, <2>2 DEF SourceIffAccused, Follows, Live
<1>2. CASE Judge
  <2> SUFFICES ASSUME NEW r \in Live'
               PROVE tracks'[r].mark # "plain" <=> tracks'[r].source # NoSource
    BY DEF SourceIffAccused
  <2>1. r \in Slot /\ tracks'[r] # Free
    BY DEF Live
  <2> QED
    BY <1>2, <2>1, JudgeSlots DEF SourceIffAccused, Judges
<1>3. CASE CheckConfirmation
  <2> SUFFICES ASSUME NEW r \in Live'
               PROVE tracks'[r].mark # "plain" <=> tracks'[r].source # NoSource
    BY DEF SourceIffAccused
  <2>1. r \in Slot /\ tracks'[r] # Free
    BY DEF Live
  <2> QED
    BY <1>3, <2>1, ConfirmationSlots DEF SourceIffAccused, Live
<1>4. ASSUME NEW s \in Slot, Appear(s) PROVE SourceIffAccused'
  <2> SUFFICES ASSUME NEW r \in Live'
               PROVE tracks'[r].mark # "plain" <=> tracks'[r].source # NoSource
    BY DEF SourceIffAccused
  <2>1. r \in Slot /\ tracks'[r] # Free
    BY DEF Live
  <2> QED
    BY <1>4, <2>1, AppearSlots DEF SourceIffAccused, Live
<1>5. ASSUME NEW s \in Slot, Cancel(s) PROVE SourceIffAccused'
  <2> SUFFICES ASSUME NEW r \in Live'
               PROVE tracks'[r].mark # "plain" <=> tracks'[r].source # NoSource
    BY DEF SourceIffAccused
  <2>1. r \in Slot /\ tracks'[r] # Free
    BY DEF Live
  <2> QED
    BY <1>5, <2>1, CancelSlots DEF SourceIffAccused, Live
<1>6. ASSUME NEW s \in Slot, NEW p \in Slot, DetectSeparation(s, p) PROVE SourceIffAccused'
  <2> SUFFICES ASSUME NEW r \in Live'
               PROVE tracks'[r].mark # "plain" <=> tracks'[r].source # NoSource
    BY DEF SourceIffAccused
  <2>1. r \in Slot /\ tracks'[r] # Free
    BY DEF Live
  <2>2. tracks[p].id # NoSource
    BY <1>6, SeparationSlots, LiveTrack DEF Track, NoSource
  <2> QED
    BY <1>6, <2>1, <2>2, SeparationSlots DEF SourceIffAccused, Live
<1>7. ASSUME NEW s \in Slot, NEW l \in Slot, Recover(s, l) PROVE SourceIffAccused'
  <2> SUFFICES ASSUME NEW r \in Live'
               PROVE tracks'[r].mark # "plain" <=> tracks'[r].source # NoSource
    BY DEF SourceIffAccused
  <2>1. r \in Slot /\ tracks'[r] # Free
    BY DEF Live
  <2> QED
    BY <1>7, <2>1, RecoverSlots DEF SourceIffAccused, Live, Recoverable
<1>8. ASSUME NEW o \in Slot, NEW p \in Slot, TrajectoryMatch(o, p) PROVE SourceIffAccused'
  <2> SUFFICES ASSUME NEW r \in Live'
               PROVE tracks'[r].mark # "plain" <=> tracks'[r].source # NoSource
    BY DEF SourceIffAccused
  <2>1. r \in Slot /\ tracks'[r] # Free
    BY DEF Live
  <2>2. tracks[p].id # NoSource
    BY <1>8, AccuseSlots, LiveTrack DEF Track, NoSource
  <2> QED
    BY <1>8, <2>1, <2>2, AccuseSlots DEF SourceIffAccused, Live
<1>9. CASE UNCHANGED vars
  BY <1>9 DEF vars, SourceIffAccused, Live
<1> QED
  BY <1>1, <1>2, <1>3, <1>4, <1>5, <1>6, <1>7, <1>8, <1>9 DEF Next

(* Only a silent track is accused, and only a dumped one fires.            *)
LEMMA CancelledStep ==
  ASSUME TypeOK, LostBound, CancelledNotAccusedAgain, [Next]_vars PROVE CancelledNotAccusedAgain'
<1>1. CASE Match
  <2> SUFFICES ASSUME NEW r \in Live', tracks'[r].mark = "suspect"
               PROVE tracks'[r].alert = "silent"
    BY DEF CancelledNotAccusedAgain, Marked
  <2>1. r \in Slot /\ tracks'[r] # Free
    BY DEF Live
  <2>2. PICK g : /\ \A s \in Slot \ Live : tracks'[s] = Free
                 /\ \A s \in Live :
                      /\ tracks'[s] \in Track /\ Follows(tracks[s], tracks'[s], g[s])
                      /\ tracks'[s].lineage = Lineage(tracks[s], Resurfaced(g))
    BY <1>1, MatchSlots
  <2> QED
    BY <2>1, <2>2 DEF CancelledNotAccusedAgain, Marked, Follows, Live
<1>2. CASE Judge
  <2> SUFFICES ASSUME NEW r \in Live', tracks'[r].mark = "suspect"
               PROVE tracks'[r].alert = "silent"
    BY DEF CancelledNotAccusedAgain, Marked
  <2>1. r \in Slot /\ tracks'[r] # Free
    BY DEF Live
  <2> QED
    BY <1>2, <2>1, JudgeSlots DEF CancelledNotAccusedAgain, Marked, Judges
<1>3. CASE CheckConfirmation
  <2> SUFFICES ASSUME NEW r \in Live', tracks'[r].mark = "suspect"
               PROVE tracks'[r].alert = "silent"
    BY DEF CancelledNotAccusedAgain, Marked
  <2>1. r \in Slot /\ tracks'[r] # Free
    BY DEF Live
  <2> QED
    BY <1>3, <2>1, ConfirmationSlots DEF CancelledNotAccusedAgain, Marked, Live
<1>4. ASSUME NEW s \in Slot, Appear(s) PROVE CancelledNotAccusedAgain'
  <2> SUFFICES ASSUME NEW r \in Live', tracks'[r].mark = "suspect"
               PROVE tracks'[r].alert = "silent"
    BY DEF CancelledNotAccusedAgain, Marked
  <2>1. r \in Slot /\ tracks'[r] # Free
    BY DEF Live
  <2> QED
    BY <1>4, <2>1, AppearSlots DEF CancelledNotAccusedAgain, Marked, Live
<1>5. ASSUME NEW s \in Slot, Cancel(s) PROVE CancelledNotAccusedAgain'
  <2> SUFFICES ASSUME NEW r \in Live', tracks'[r].mark = "suspect"
               PROVE tracks'[r].alert = "silent"
    BY DEF CancelledNotAccusedAgain, Marked
  <2>1. r \in Slot /\ tracks'[r] # Free
    BY DEF Live
  <2> QED
    BY <1>5, <2>1, CancelSlots DEF CancelledNotAccusedAgain, Marked, Live
<1>6. ASSUME NEW s \in Slot, NEW p \in Slot, DetectSeparation(s, p) PROVE CancelledNotAccusedAgain'
  <2> SUFFICES ASSUME NEW r \in Live', tracks'[r].mark = "suspect"
               PROVE tracks'[r].alert = "silent"
    BY DEF CancelledNotAccusedAgain, Marked
  <2>1. r \in Slot /\ tracks'[r] # Free
    BY DEF Live
  <2> QED
    BY <1>6, <2>1, SeparationSlots DEF CancelledNotAccusedAgain, Marked, Live, Newborn
<1>7. ASSUME NEW s \in Slot, NEW l \in Slot, Recover(s, l) PROVE CancelledNotAccusedAgain'
  <2> SUFFICES ASSUME NEW r \in Live', tracks'[r].mark = "suspect"
               PROVE tracks'[r].alert = "silent"
    BY DEF CancelledNotAccusedAgain, Marked
  <2>1. r \in Slot /\ tracks'[r] # Free
    BY DEF Live
  <2> QED
    BY <1>7, <2>1, RecoverSlots DEF CancelledNotAccusedAgain, Marked, Live
<1>8. ASSUME NEW o \in Slot, NEW p \in Slot, TrajectoryMatch(o, p) PROVE CancelledNotAccusedAgain'
  <2> SUFFICES ASSUME NEW r \in Live', tracks'[r].mark = "suspect"
               PROVE tracks'[r].alert = "silent"
    BY DEF CancelledNotAccusedAgain, Marked
  <2>1. r \in Slot /\ tracks'[r] # Free
    BY DEF Live
  <2> QED
    BY <1>8, <2>1, AccuseSlots DEF CancelledNotAccusedAgain, Marked, Live, MayBeObject, SameButAccused
<1>9. CASE UNCHANGED vars
  BY <1>9 DEF vars, CancelledNotAccusedAgain, Marked, Live
<1> QED
  BY <1>1, <1>2, <1>3, <1>4, <1>5, <1>6, <1>7, <1>8, <1>9 DEF Next

LEMMA SeenLatelyStep ==
  ASSUME TypeOK, LostBound, SuspectsSeenLately, [Next]_vars PROVE SuspectsSeenLately'
<1>1. CASE Match
  <2> SUFFICES ASSUME NEW r \in Live', tracks'[r].mark = "suspect"
               PROVE tracks'[r].lost <= SuspectLost
    BY DEF SuspectsSeenLately, Marked
  <2>1. r \in Slot /\ tracks'[r] # Free
    BY DEF Live
  <2>2. PICK g : /\ \A s \in Slot \ Live : tracks'[s] = Free
                 /\ \A s \in Live :
                      /\ tracks'[s] \in Track /\ Follows(tracks[s], tracks'[s], g[s])
                      /\ tracks'[s].lineage = Lineage(tracks[s], Resurfaced(g))
    BY <1>1, MatchSlots
  <2> QED
    BY <2>1, <2>2 DEF Follows, Live
<1>2. CASE Judge
  BY <1>2 DEF Judge, SuspectsSeenLately
<1>3. CASE CheckConfirmation
  BY <1>3 DEF CheckConfirmation, SuspectsSeenLately
<1>4. ASSUME NEW s \in Slot, Appear(s) PROVE SuspectsSeenLately'
  BY <1>4 DEF Appear, SuspectsSeenLately
<1>5. ASSUME NEW s \in Slot, Cancel(s) PROVE SuspectsSeenLately'
  BY <1>5 DEF Cancel, SuspectsSeenLately
<1>6. ASSUME NEW s \in Slot, NEW p \in Slot, DetectSeparation(s, p) PROVE SuspectsSeenLately'
  BY <1>6 DEF DetectSeparation, SuspectsSeenLately
<1>7. ASSUME NEW s \in Slot, NEW l \in Slot, Recover(s, l) PROVE SuspectsSeenLately'
  BY <1>7 DEF Recover, SuspectsSeenLately
<1>8. ASSUME NEW o \in Slot, NEW p \in Slot, TrajectoryMatch(o, p) PROVE SuspectsSeenLately'
  BY <1>8 DEF TrajectoryMatch, SuspectsSeenLately
<1>9. CASE UNCHANGED vars
  BY <1>9 DEF vars, SuspectsSeenLately, Marked, Live
<1> QED
  BY <1>1, <1>2, <1>3, <1>4, <1>5, <1>6, <1>7, <1>8, <1>9 DEF Next

(* Stage 5 deletes a superseded track: it is plain and lost for too long.  *)
LEMMA SupersededGoStep ==
  ASSUME TypeOK, LostBound, SupersededLost, SupersededGo, [Next]_vars PROVE SupersededGo'
<1>1. CASE Match
  BY <1>1 DEF Match, SupersededGo
<1>2. CASE Judge
  <2> SUFFICES ASSUME NEW r \in Live', tracks'[r].lineage = "superseded"
               PROVE FALSE
    BY DEF SupersededGo
  <2>1. /\ r \in Live /\ Judges(tracks[r], tracks'[r])
        /\ tracks'[r].lost <= Lifetime(tracks'[r])
    BY <1>2, JudgeSlots DEF Live
  <2>2. tracks[r].mark = "plain" /\ tracks[r].lost > LostLimit
    BY <1>2, <2>1 DEF Judge, Judges, SupersededLost
  <2>3. tracks'[r].lost = tracks[r].lost /\ tracks'[r].mark = "plain"
    BY <2>1, <2>2 DEF Judges
  <2>4. tracks[r].lost \in Nat
    BY <2>1, LiveTrack DEF Track
  <2> QED
    BY <2>1, <2>2, <2>3, <2>4, ConstantsNat DEF Lifetime
<1>3. CASE CheckConfirmation
  BY <1>3 DEF CheckConfirmation, SupersededGo
<1>4. ASSUME NEW s \in Slot, Appear(s) PROVE SupersededGo'
  BY <1>4 DEF Appear, SupersededGo
<1>5. ASSUME NEW s \in Slot, Cancel(s) PROVE SupersededGo'
  BY <1>5 DEF Cancel, SupersededGo
<1>6. ASSUME NEW s \in Slot, NEW p \in Slot, DetectSeparation(s, p) PROVE SupersededGo'
  <2>1. phase = "separate"
    BY <1>6 DEF DetectSeparation
  <2> QED
    BY <1>6, <2>1, SeparationSlots DEF SupersededGo, Live, Newborn
<1>7. ASSUME NEW s \in Slot, NEW l \in Slot, Recover(s, l) PROVE SupersededGo'
  BY <1>7 DEF Recover, SupersededGo
<1>8. ASSUME NEW o \in Slot, NEW p \in Slot, TrajectoryMatch(o, p) PROVE SupersededGo'
  BY <1>8 DEF TrajectoryMatch, SupersededGo
<1>9. CASE UNCHANGED vars
  BY <1>9 DEF vars, SupersededGo, Live
<1> QED
  BY <1>1, <1>2, <1>3, <1>4, <1>5, <1>6, <1>7, <1>8, <1>9 DEF Next

LEMMA SupersededLostStep ==
  ASSUME TypeOK, LostBound, SupersededLost, [Next]_vars PROVE SupersededLost'
<1>1. CASE Match
  <2> SUFFICES ASSUME NEW r \in Live', tracks'[r].lineage = "superseded"
               PROVE /\ tracks'[r].lost > LostLimit
                     /\ tracks'[r].mark # "plain" =>
                          /\ tracks'[r].mark = "suspect" /\ tracks'[r].dist = Settled
                          /\ phase' # "judge"
    BY DEF SupersededLost
  <2>1. r \in Slot /\ tracks'[r] # Free
    BY DEF Live
  <2>2. PICK g : /\ \A s \in Slot \ Live : tracks'[s] = Free
                 /\ \A s \in Live :
                      /\ tracks'[s] \in Track /\ Follows(tracks[s], tracks'[s], g[s])
                      /\ tracks'[s].lineage = Lineage(tracks[s], Resurfaced(g))
    BY <1>1, MatchSlots
  <2>3. r \in Live /\ tracks[r] \in Track
    BY <2>1, <2>2, LiveTrack
  <2>4. tracks[r].lineage = "superseded" /\ tracks[r].id \notin Resurfaced(g)
    BY <2>2, <2>3 DEF Lineage
  <2>5. g[r].step = "missed"
    BY <2>3, <2>4 DEF Resurfaced
  <2>6. tracks[r].lost \in Nat /\ tracks[r].lost > LostLimit
    BY <2>3, <2>4 DEF SupersededLost, Track
  <2>7. tracks'[r].lost = tracks[r].lost + 1 /\ Follows(tracks[r], tracks'[r], g[r])
    BY <2>2, <2>3, <2>5 DEF Follows
  <2>8. tracks'[r].mark # "suspect"
    BY <2>6, <2>7, ConstantsNat DEF Follows
  <2>9. tracks[r].mark \in {"plain", "suspect"}
    BY <2>3, <2>4 DEF SupersededLost
  <2> QED
    BY <2>6, <2>7, <2>8, <2>9, ConstantsNat DEF Follows
<1>2. CASE Judge
  <2> SUFFICES ASSUME NEW r \in Live', tracks'[r].lineage = "superseded"
               PROVE /\ tracks'[r].lost > LostLimit
                     /\ tracks'[r].mark # "plain" =>
                          /\ tracks'[r].mark = "suspect" /\ tracks'[r].dist = Settled
                          /\ phase' # "judge"
    BY DEF SupersededLost
  <2>1. r \in Slot /\ tracks'[r] # Free
    BY DEF Live
  <2> QED
    BY <1>2, <2>1, JudgeSlots DEF SupersededLost, Judges, Judge
<1>3. CASE CheckConfirmation
  <2> SUFFICES ASSUME NEW r \in Live', tracks'[r].lineage = "superseded"
               PROVE /\ tracks'[r].lost > LostLimit
                     /\ tracks'[r].mark # "plain" =>
                          /\ tracks'[r].mark = "suspect" /\ tracks'[r].dist = Settled
                          /\ phase' # "judge"
    BY DEF SupersededLost
  <2>1. r \in Slot /\ tracks'[r] # Free
    BY DEF Live
  <2>2. phase # "judge" /\ phase' # "judge"
    BY <1>3 DEF CheckConfirmation
  <2> QED
    BY <1>3, <2>1, <2>2, ConfirmationSlots DEF SupersededLost, Live
<1>4. ASSUME NEW s \in Slot, Appear(s) PROVE SupersededLost'
  <2> SUFFICES ASSUME NEW r \in Live', tracks'[r].lineage = "superseded"
               PROVE /\ tracks'[r].lost > LostLimit
                     /\ tracks'[r].mark # "plain" =>
                          /\ tracks'[r].mark = "suspect" /\ tracks'[r].dist = Settled
                          /\ phase' # "judge"
    BY DEF SupersededLost
  <2>1. r \in Slot /\ tracks'[r] # Free
    BY DEF Live
  <2>2. phase # "judge" /\ phase' # "judge"
    BY <1>4 DEF Appear
  <2> QED
    BY <1>4, <2>1, <2>2, AppearSlots DEF SupersededLost, Live, Newborn
<1>5. ASSUME NEW s \in Slot, Cancel(s) PROVE SupersededLost'
  <2> SUFFICES ASSUME NEW r \in Live', tracks'[r].lineage = "superseded"
               PROVE /\ tracks'[r].lost > LostLimit
                     /\ tracks'[r].mark # "plain" =>
                          /\ tracks'[r].mark = "suspect" /\ tracks'[r].dist = Settled
                          /\ phase' # "judge"
    BY DEF SupersededLost
  <2>1. r \in Slot /\ tracks'[r] # Free
    BY DEF Live
  <2>2. phase # "judge" /\ phase' # "judge"
    BY <1>5 DEF Cancel
  <2> QED
    BY <1>5, <2>1, <2>2, CancelSlots DEF SupersededLost, Live, SameButAccused
<1>6. ASSUME NEW s \in Slot, NEW p \in Slot, DetectSeparation(s, p) PROVE SupersededLost'
  <2> SUFFICES ASSUME NEW r \in Live', tracks'[r].lineage = "superseded"
               PROVE /\ tracks'[r].lost > LostLimit
                     /\ tracks'[r].mark # "plain" =>
                          /\ tracks'[r].mark = "suspect" /\ tracks'[r].dist = Settled
                          /\ phase' # "judge"
    BY DEF SupersededLost
  <2>1. r \in Slot /\ tracks'[r] # Free
    BY DEF Live
  <2>2. phase # "judge" /\ phase' # "judge"
    BY <1>6 DEF DetectSeparation
  <2> QED
    BY <1>6, <2>1, <2>2, SeparationSlots DEF SupersededLost, Live, Newborn
<1>7. ASSUME NEW s \in Slot, NEW l \in Slot, Recover(s, l) PROVE SupersededLost'
  <2> SUFFICES ASSUME NEW r \in Live', tracks'[r].lineage = "superseded"
               PROVE /\ tracks'[r].lost > LostLimit
                     /\ tracks'[r].mark # "plain" =>
                          /\ tracks'[r].mark = "suspect" /\ tracks'[r].dist = Settled
                          /\ phase' # "judge"
    BY DEF SupersededLost
  <2>1. r \in Slot /\ tracks'[r] # Free
    BY DEF Live
  <2>0. phase # "judge" /\ phase' # "judge"
    BY <1>7 DEF Recover
  <2>2. tracks[l].lineage # "superseded"
    BY <1>7, RecoverSlots, ConstantsNat DEF SupersededLost, Recoverable
  <2>3. r # s
    BY <1>7, <2>2, RecoverSlots
  <2>4. CASE r = l
    BY <1>7, <2>4, RecoverSlots, ConstantsNat
  <2>5. CASE r # l
    BY <1>7, <2>0, <2>1, <2>3, <2>5, RecoverSlots DEF SupersededLost, Live
  <2> QED
    BY <2>4, <2>5
<1>8. ASSUME NEW o \in Slot, NEW p \in Slot, TrajectoryMatch(o, p) PROVE SupersededLost'
  <2> SUFFICES ASSUME NEW r \in Live', tracks'[r].lineage = "superseded"
               PROVE /\ tracks'[r].lost > LostLimit
                     /\ tracks'[r].mark # "plain" =>
                          /\ tracks'[r].mark = "suspect" /\ tracks'[r].dist = Settled
                          /\ phase' # "judge"
    BY DEF SupersededLost
  <2>1. r \in Slot /\ tracks'[r] # Free
    BY DEF Live
  <2>2. phase # "judge" /\ phase' # "judge"
    BY <1>8 DEF TrajectoryMatch
  <2> QED
    BY <1>8, <2>1, <2>2, AccuseSlots DEF SupersededLost, Live, SameButAccused, MayBeObject
<1>9. CASE UNCHANGED vars
  BY <1>9 DEF vars, SupersededLost, Live
<1> QED
  BY <1>1, <1>2, <1>3, <1>4, <1>5, <1>6, <1>7, <1>8, <1>9 DEF Next
(* Births take fresh ids; a recovery hands over one that was current.      *)
LEMMA OneCurrentStep ==
  ASSUME TypeOK, LostBound, IdsGiven, OneCurrentTrack, [Next]_vars PROVE OneCurrentTrack'
<1>1. CASE Match
  <2> SUFFICES ASSUME NEW q \in Live', NEW r \in Live', q # r,
                      tracks'[q].id = tracks'[r].id,
                      tracks'[q].lineage = "current", tracks'[r].lineage = "current"
               PROVE FALSE
    BY DEF OneCurrentTrack
  <2>1. /\ q \in Slot /\ tracks'[q] # Free
        /\ r \in Slot /\ tracks'[r] # Free
    BY DEF Live
  <2>2. PICK g : /\ \A s \in Slot \ Live : tracks'[s] = Free
                 /\ \A s \in Live :
                      /\ tracks'[s] \in Track /\ Follows(tracks[s], tracks'[s], g[s])
                      /\ tracks'[s].lineage = Lineage(tracks[s], Resurfaced(g))
    BY <1>1, MatchSlots
  <2> QED
    BY <2>1, <2>2 DEF OneCurrentTrack, Follows, Lineage
<1>2. CASE Judge
  <2> SUFFICES ASSUME NEW q \in Live', NEW r \in Live', q # r,
                      tracks'[q].id = tracks'[r].id,
                      tracks'[q].lineage = "current", tracks'[r].lineage = "current"
               PROVE FALSE
    BY DEF OneCurrentTrack
  <2>1. /\ q \in Slot /\ tracks'[q] # Free
        /\ r \in Slot /\ tracks'[r] # Free
    BY DEF Live
  <2> QED
    BY <1>2, <2>1, JudgeSlots DEF OneCurrentTrack, Judges
<1>3. CASE CheckConfirmation
  <2> SUFFICES ASSUME NEW q \in Live', NEW r \in Live', q # r,
                      tracks'[q].id = tracks'[r].id,
                      tracks'[q].lineage = "current", tracks'[r].lineage = "current"
               PROVE FALSE
    BY DEF OneCurrentTrack
  <2>1. /\ q \in Slot /\ tracks'[q] # Free
        /\ r \in Slot /\ tracks'[r] # Free
    BY DEF Live
  <2> QED
    BY <1>3, <2>1, ConfirmationSlots DEF OneCurrentTrack, Live
<1>4. ASSUME NEW s \in Slot, Appear(s) PROVE OneCurrentTrack'
  <2> SUFFICES ASSUME NEW q \in Live', NEW r \in Live', q # r,
                      tracks'[q].id = tracks'[r].id,
                      tracks'[q].lineage = "current", tracks'[r].lineage = "current"
               PROVE FALSE
    BY DEF OneCurrentTrack
  <2>1. /\ q \in Slot /\ tracks'[q] # Free
        /\ r \in Slot /\ tracks'[r] # Free
    BY DEF Live
  <2>2. /\ tracks'[s].id = next_id_ /\ tracks'[s].lineage = "current"
        /\ \A x \in Live : tracks[x].id # next_id_
    BY <1>4, AppearSlots, LiveTrack, NextIdPositive DEF Newborn, IdsGiven, Track
  <2>3. \A x \in {q, r} \ {s} : x \in Live /\ tracks'[x] = tracks[x]
    BY <1>4, <2>1, AppearSlots DEF Live
  <2> QED
    BY <2>2, <2>3 DEF OneCurrentTrack
<1>5. ASSUME NEW s \in Slot, Cancel(s) PROVE OneCurrentTrack'
  <2> SUFFICES ASSUME NEW q \in Live', NEW r \in Live', q # r,
                      tracks'[q].id = tracks'[r].id,
                      tracks'[q].lineage = "current", tracks'[r].lineage = "current"
               PROVE FALSE
    BY DEF OneCurrentTrack
  <2>1. /\ q \in Slot /\ tracks'[q] # Free
        /\ r \in Slot /\ tracks'[r] # Free
    BY DEF Live
  <2> QED
    BY <1>5, <2>1, CancelSlots DEF OneCurrentTrack, Live, SameButAccused
<1>6. ASSUME NEW s \in Slot, NEW p \in Slot, DetectSeparation(s, p) PROVE OneCurrentTrack'
  <2> SUFFICES ASSUME NEW q \in Live', NEW r \in Live', q # r,
                      tracks'[q].id = tracks'[r].id,
                      tracks'[q].lineage = "current", tracks'[r].lineage = "current"
               PROVE FALSE
    BY DEF OneCurrentTrack
  <2>1. /\ q \in Slot /\ tracks'[q] # Free
        /\ r \in Slot /\ tracks'[r] # Free
    BY DEF Live
  <2>2. /\ tracks'[s].id = next_id_ /\ tracks'[s].lineage = "current"
        /\ \A x \in Live : tracks[x].id # next_id_
    BY <1>6, SeparationSlots, LiveTrack, NextIdPositive DEF Newborn, IdsGiven, Track
  <2>3. \A x \in {q, r} \ {s} : x \in Live /\ tracks'[x] = tracks[x]
    BY <1>6, <2>1, SeparationSlots DEF Live
  <2> QED
    BY <2>2, <2>3 DEF OneCurrentTrack
<1>7. ASSUME NEW s \in Slot, NEW l \in Slot, Recover(s, l) PROVE OneCurrentTrack'
  <2> SUFFICES ASSUME NEW q \in Live', NEW r \in Live', q # r,
                      tracks'[q].id = tracks'[r].id,
                      tracks'[q].lineage = "current", tracks'[r].lineage = "current"
               PROVE FALSE
    BY DEF OneCurrentTrack
  <2>1. /\ q \in Slot /\ tracks'[q] # Free
        /\ r \in Slot /\ tracks'[r] # Free
    BY DEF Live
  <2>2. l \notin {q, r}
    BY <1>7, RecoverSlots DEF Handed
  <2>3. \A x \in {q, r} \ {s} : x \in Live /\ tracks'[x] = tracks[x]
    BY <1>7, <2>1, <2>2, RecoverSlots DEF Live
  <2>4. CASE s \notin {q, r}
    BY <2>3, <2>4 DEF OneCurrentTrack
  <2>5. CASE s \in {q, r}
    <3>1. PICK x \in {q, r} \ {s} : TRUE
      OBVIOUS
    <3>2. /\ x \in Live /\ x # l /\ tracks[x].id = tracks[l].id
          /\ tracks[x].lineage = "current" /\ tracks[l].lineage = "current"
      BY <1>7, <2>2, <2>3, <2>5, <3>1, RecoverSlots
    <3> QED
      BY <1>7, <3>2, RecoverSlots DEF OneCurrentTrack
  <2> QED
    BY <2>4, <2>5
<1>8. ASSUME NEW o \in Slot, NEW p \in Slot, TrajectoryMatch(o, p) PROVE OneCurrentTrack'
  <2> SUFFICES ASSUME NEW q \in Live', NEW r \in Live', q # r,
                      tracks'[q].id = tracks'[r].id,
                      tracks'[q].lineage = "current", tracks'[r].lineage = "current"
               PROVE FALSE
    BY DEF OneCurrentTrack
  <2>1. /\ q \in Slot /\ tracks'[q] # Free
        /\ r \in Slot /\ tracks'[r] # Free
    BY DEF Live
  <2> QED
    BY <1>8, <2>1, AccuseSlots DEF OneCurrentTrack, Live, SameButAccused
<1>9. CASE UNCHANGED vars
  BY <1>9 DEF vars, OneCurrentTrack, Live
<1> QED
  BY <1>1, <1>2, <1>3, <1>4, <1>5, <1>6, <1>7, <1>8, <1>9 DEF Next

LEMMA DoubledStep ==
  ASSUME TypeOK, LostBound, IdsGiven, DoubledTogether, [Next]_vars PROVE DoubledTogether'
<1>1. CASE Match
  <2> SUFFICES ASSUME NEW q \in Live', NEW r \in Live',
                      tracks'[q].id = tracks'[r].id, tracks'[q].lineage = "doubled"
               PROVE tracks'[r].lineage = "doubled"
    BY DEF DoubledTogether
  <2>1. /\ q \in Slot /\ tracks'[q] # Free
        /\ r \in Slot /\ tracks'[r] # Free
    BY DEF Live
  <2>2. PICK g : /\ \A s \in Slot \ Live : tracks'[s] = Free
                 /\ \A s \in Live :
                      /\ tracks'[s] \in Track /\ Follows(tracks[s], tracks'[s], g[s])
                      /\ tracks'[s].lineage = Lineage(tracks[s], Resurfaced(g))
    BY <1>1, MatchSlots
  <2> QED
    BY <2>1, <2>2 DEF DoubledTogether, Follows, Lineage
<1>2. CASE Judge
  <2> SUFFICES ASSUME NEW q \in Live', NEW r \in Live',
                      tracks'[q].id = tracks'[r].id, tracks'[q].lineage = "doubled"
               PROVE tracks'[r].lineage = "doubled"
    BY DEF DoubledTogether
  <2>1. /\ q \in Slot /\ tracks'[q] # Free
        /\ r \in Slot /\ tracks'[r] # Free
    BY DEF Live
  <2> QED
    BY <1>2, <2>1, JudgeSlots DEF DoubledTogether, Judges
<1>3. CASE CheckConfirmation
  <2> SUFFICES ASSUME NEW q \in Live', NEW r \in Live',
                      tracks'[q].id = tracks'[r].id, tracks'[q].lineage = "doubled"
               PROVE tracks'[r].lineage = "doubled"
    BY DEF DoubledTogether
  <2>1. /\ q \in Slot /\ tracks'[q] # Free
        /\ r \in Slot /\ tracks'[r] # Free
    BY DEF Live
  <2> QED
    BY <1>3, <2>1, ConfirmationSlots DEF DoubledTogether, Live
<1>4. ASSUME NEW s \in Slot, Appear(s) PROVE DoubledTogether'
  <2> SUFFICES ASSUME NEW q \in Live', NEW r \in Live',
                      tracks'[q].id = tracks'[r].id, tracks'[q].lineage = "doubled"
               PROVE tracks'[r].lineage = "doubled"
    BY DEF DoubledTogether
  <2>1. /\ q \in Slot /\ tracks'[q] # Free
        /\ r \in Slot /\ tracks'[r] # Free
    BY DEF Live
  <2>2. /\ tracks'[s].id = next_id_ /\ tracks'[s].lineage = "current"
        /\ \A x \in Live : tracks[x].id # next_id_
    BY <1>4, AppearSlots, LiveTrack, NextIdPositive DEF Newborn, IdsGiven, Track
  <2>3. \A x \in {q, r} \ {s} : x \in Live /\ tracks'[x] = tracks[x]
    BY <1>4, <2>1, AppearSlots DEF Live
  <2> QED
    BY <2>2, <2>3 DEF DoubledTogether
<1>5. ASSUME NEW s \in Slot, Cancel(s) PROVE DoubledTogether'
  <2> SUFFICES ASSUME NEW q \in Live', NEW r \in Live',
                      tracks'[q].id = tracks'[r].id, tracks'[q].lineage = "doubled"
               PROVE tracks'[r].lineage = "doubled"
    BY DEF DoubledTogether
  <2>1. /\ q \in Slot /\ tracks'[q] # Free
        /\ r \in Slot /\ tracks'[r] # Free
    BY DEF Live
  <2> QED
    BY <1>5, <2>1, CancelSlots DEF DoubledTogether, Live, SameButAccused
<1>6. ASSUME NEW s \in Slot, NEW p \in Slot, DetectSeparation(s, p) PROVE DoubledTogether'
  <2> SUFFICES ASSUME NEW q \in Live', NEW r \in Live',
                      tracks'[q].id = tracks'[r].id, tracks'[q].lineage = "doubled"
               PROVE tracks'[r].lineage = "doubled"
    BY DEF DoubledTogether
  <2>1. /\ q \in Slot /\ tracks'[q] # Free
        /\ r \in Slot /\ tracks'[r] # Free
    BY DEF Live
  <2>2. /\ tracks'[s].id = next_id_ /\ tracks'[s].lineage = "current"
        /\ \A x \in Live : tracks[x].id # next_id_
    BY <1>6, SeparationSlots, LiveTrack, NextIdPositive DEF Newborn, IdsGiven, Track
  <2>3. \A x \in {q, r} \ {s} : x \in Live /\ tracks'[x] = tracks[x]
    BY <1>6, <2>1, SeparationSlots DEF Live
  <2> QED
    BY <2>2, <2>3 DEF DoubledTogether
<1>7. ASSUME NEW s \in Slot, NEW l \in Slot, Recover(s, l) PROVE DoubledTogether'
  <2> SUFFICES ASSUME NEW q \in Live', NEW r \in Live',
                      tracks'[q].id = tracks'[r].id, tracks'[q].lineage = "doubled"
               PROVE tracks'[r].lineage = "doubled"
    BY DEF DoubledTogether
  <2>1. /\ q \in Slot /\ tracks'[q] # Free
        /\ r \in Slot /\ tracks'[r] # Free
    BY DEF Live
  <2>2. \A x \in {q, r} : \E y \in Live :
          /\ tracks'[x].id = tracks[y].id
          /\ tracks'[x].lineage = "doubled" <=> tracks[y].lineage = "doubled"
    <3> TAKE x \in {q, r}
    <3>1. CASE x \in {s, l}
      BY <1>7, <3>1, RecoverSlots DEF Handed
    <3>2. CASE x \notin {s, l}
      BY <1>7, <2>1, <3>2, RecoverSlots DEF Live
    <3> QED
      BY <3>1, <3>2
  <2> QED
    BY <2>2 DEF DoubledTogether
<1>8. ASSUME NEW o \in Slot, NEW p \in Slot, TrajectoryMatch(o, p) PROVE DoubledTogether'
  <2> SUFFICES ASSUME NEW q \in Live', NEW r \in Live',
                      tracks'[q].id = tracks'[r].id, tracks'[q].lineage = "doubled"
               PROVE tracks'[r].lineage = "doubled"
    BY DEF DoubledTogether
  <2>1. /\ q \in Slot /\ tracks'[q] # Free
        /\ r \in Slot /\ tracks'[r] # Free
    BY DEF Live
  <2> QED
    BY <1>8, <2>1, AccuseSlots DEF DoubledTogether, Live, SameButAccused
<1>9. CASE UNCHANGED vars
  BY <1>9 DEF vars, DoubledTogether, Live
<1> QED
  BY <1>1, <1>2, <1>3, <1>4, <1>5, <1>6, <1>7, <1>8, <1>9 DEF Next

(* A recovery copies the distance, and nothing else is both new and old.   *)
LEMMA AlikeStep ==
  ASSUME TypeOK, LostBound, IdsGiven, OneCurrentTrack, DoubledTogether,
         SupersededLost, SupersededAlike, SupersededGo', [Next]_vars PROVE SupersededAlike'
<1>1. CASE Match
  BY <1>1 DEF Match, SupersededAlike
<1>2. CASE Judge
  BY <1>2 DEF Judge, SupersededGo, SupersededAlike
<1>3. CASE CheckConfirmation
  <2> SUFFICES ASSUME NEW q \in Live', NEW r \in Live',
                      tracks'[q].lineage = "superseded", tracks'[r].id = tracks'[q].id
               PROVE tracks'[r].dist = tracks'[q].dist
    BY DEF SupersededAlike
  <2>1. /\ q \in Slot /\ tracks'[q] # Free
        /\ r \in Slot /\ tracks'[r] # Free
    BY DEF Live
  <2>0. phase # "judge"
    BY <1>3 DEF CheckConfirmation
  <2> QED
    BY <1>3, <2>0, <2>1, ConfirmationSlots DEF SupersededAlike, Live
<1>4. ASSUME NEW s \in Slot, Appear(s) PROVE SupersededAlike'
  <2> SUFFICES ASSUME NEW q \in Live', NEW r \in Live',
                      tracks'[q].lineage = "superseded", tracks'[r].id = tracks'[q].id
               PROVE tracks'[r].dist = tracks'[q].dist
    BY DEF SupersededAlike
  <2>1. /\ q \in Slot /\ tracks'[q] # Free
        /\ r \in Slot /\ tracks'[r] # Free
    BY DEF Live
  <2>0. phase # "judge"
    BY <1>4 DEF Appear
  <2>2. /\ tracks'[s].id = next_id_ /\ tracks'[s].lineage = "current"
        /\ \A x \in Live : tracks[x].id # next_id_
    BY <1>4, AppearSlots, LiveTrack, NextIdPositive DEF Newborn, IdsGiven, Track
  <2>3. \A x \in {q, r} \ {s} : x \in Live /\ tracks'[x] = tracks[x]
    BY <1>4, <2>1, AppearSlots DEF Live
  <2> QED
    BY <2>0, <2>2, <2>3 DEF SupersededAlike
<1>5. ASSUME NEW s \in Slot, Cancel(s) PROVE SupersededAlike'
  <2> SUFFICES ASSUME NEW q \in Live', NEW r \in Live',
                      tracks'[q].lineage = "superseded", tracks'[r].id = tracks'[q].id
               PROVE tracks'[r].dist = tracks'[q].dist
    BY DEF SupersededAlike
  <2>1. /\ q \in Slot /\ tracks'[q] # Free
        /\ r \in Slot /\ tracks'[r] # Free
    BY DEF Live
  <2>0. phase # "judge"
    BY <1>5 DEF Cancel
  <2> QED
    BY <1>5, <2>0, <2>1, CancelSlots DEF SupersededAlike, Live, SameButAccused
<1>6. ASSUME NEW s \in Slot, NEW p \in Slot, DetectSeparation(s, p) PROVE SupersededAlike'
  <2> SUFFICES ASSUME NEW q \in Live', NEW r \in Live',
                      tracks'[q].lineage = "superseded", tracks'[r].id = tracks'[q].id
               PROVE tracks'[r].dist = tracks'[q].dist
    BY DEF SupersededAlike
  <2>1. /\ q \in Slot /\ tracks'[q] # Free
        /\ r \in Slot /\ tracks'[r] # Free
    BY DEF Live
  <2>0. phase # "judge"
    BY <1>6 DEF DetectSeparation
  <2>2. /\ tracks'[s].id = next_id_ /\ tracks'[s].lineage = "current"
        /\ \A x \in Live : tracks[x].id # next_id_
    BY <1>6, SeparationSlots, LiveTrack, NextIdPositive DEF Newborn, IdsGiven, Track
  <2>3. \A x \in {q, r} \ {s} : x \in Live /\ tracks'[x] = tracks[x]
    BY <1>6, <2>1, SeparationSlots DEF Live
  <2> QED
    BY <2>0, <2>2, <2>3 DEF SupersededAlike
<1>7. ASSUME NEW s \in Slot, NEW l \in Slot, Recover(s, l) PROVE SupersededAlike'
  <2> SUFFICES ASSUME NEW q \in Live', NEW r \in Live',
                      tracks'[q].lineage = "superseded", tracks'[r].id = tracks'[q].id
               PROVE tracks'[r].dist = tracks'[q].dist
    BY DEF SupersededAlike
  <2>1. /\ q \in Slot /\ tracks'[q] # Free
        /\ r \in Slot /\ tracks'[r] # Free
    BY DEF Live
  <2>0. phase # "judge"
    BY <1>7 DEF Recover
  <2>2. tracks[l].lineage # "superseded"
    BY <1>7, RecoverSlots, ConstantsNat DEF SupersededLost, Recoverable
  <2>3. \A x \in {q, r} \ {s, l} : x \in Live /\ tracks'[x] = tracks[x]
    BY <1>7, <2>1, RecoverSlots DEF Live
  <2>4. q # s
    BY <1>7, <2>2, RecoverSlots
  <2>5. CASE q = l
    <3>1. CASE r \in {s, l}
      BY <1>7, <2>5, <3>1, RecoverSlots
    <3>2. CASE r \notin {s, l}
      <4>1. /\ r \in Live /\ tracks'[r] = tracks[r] /\ tracks[r].id = tracks[l].id
            /\ tracks[l].lineage # "doubled" /\ tracks'[q].dist = tracks[l].dist
        BY <1>7, <2>3, <2>5, <3>2, RecoverSlots DEF Handed
      <4>2. tracks[l].lineage = "current" /\ l \in Live
        BY <1>7, <2>2, <4>1, RecoverSlots, LiveTrack DEF Track
      <4>3. tracks[r].lineage = "superseded"
        BY <2>5, <3>2, <4>1, <4>2, LiveTrack DEF Track, OneCurrentTrack, DoubledTogether
      <4> QED
        BY <2>0, <4>1, <4>2, <4>3 DEF SupersededAlike
    <3> QED
      BY <3>1, <3>2
  <2>6. CASE q # l
    <3>1. q \in Live /\ tracks'[q] = tracks[q]
      BY <2>3, <2>4, <2>6
    <3>2. \E y \in Live : tracks'[r].id = tracks[y].id /\ tracks'[r].dist = tracks[y].dist
      BY <1>7, <2>3, RecoverSlots
    <3> QED
      BY <2>0, <3>1, <3>2 DEF SupersededAlike
  <2> QED
    BY <2>5, <2>6
<1>8. ASSUME NEW o \in Slot, NEW p \in Slot, TrajectoryMatch(o, p) PROVE SupersededAlike'
  <2> SUFFICES ASSUME NEW q \in Live', NEW r \in Live',
                      tracks'[q].lineage = "superseded", tracks'[r].id = tracks'[q].id
               PROVE tracks'[r].dist = tracks'[q].dist
    BY DEF SupersededAlike
  <2>1. /\ q \in Slot /\ tracks'[q] # Free
        /\ r \in Slot /\ tracks'[r] # Free
    BY DEF Live
  <2>0. phase # "judge"
    BY <1>8 DEF TrajectoryMatch
  <2> QED
    BY <1>8, <2>0, <2>1, AccuseSlots DEF SupersededAlike, Live, SameButAccused
<1>9. CASE UNCHANGED vars
  BY <1>9 DEF vars, SupersededAlike, Live
<1> QED
  BY <1>1, <1>2, <1>3, <1>4, <1>5, <1>6, <1>7, <1>8, <1>9 DEF Next
(* The steps that accuse check the person they found; a namesake of that   *)
(* person has either walked as far or names two people.                    *)
LEMMA AccusedWalkedStep ==
  ASSUME TypeOK, LostBound, IdsGiven, OneCurrentTrack, DoubledTogether,
         SupersededLost, SupersededAlike, SupersededGo, AccusedWalked, [Next]_vars PROVE AccusedWalked'
<1>1. CASE Match
  <2> SUFFICES ASSUME NEW a \in Live', tracks'[a].mark # "plain",
                      NEW q \in Live', tracks'[q].id = tracks'[a].source,
                      tracks'[q].lineage # "doubled"
               PROVE tracks'[q].mark = "plain" /\ tracks'[q].dist >= Walked
    BY DEF AccusedWalked, Plain, Marked
  <2>1. /\ a \in Slot /\ tracks'[a] # Free
        /\ q \in Slot /\ tracks'[q] # Free
    BY DEF Live
  <2>2. PICK g : /\ \A s \in Slot \ Live : tracks'[s] = Free
                 /\ \A s \in Live :
                      /\ tracks'[s] \in Track /\ Follows(tracks[s], tracks'[s], g[s])
                      /\ tracks'[s].lineage = Lineage(tracks[s], Resurfaced(g))
    BY <1>1, MatchSlots
  <2>3. /\ a \in Live /\ tracks[a].mark # "plain" /\ tracks'[a].source = tracks[a].source
        /\ q \in Live /\ tracks'[q].id = tracks[q].id
    BY <2>1, <2>2 DEF Follows
  <2>4. tracks[q].lineage # "doubled"
    BY <2>2, <2>3 DEF Lineage
  <2>5. tracks[q].mark = "plain" /\ tracks[q].dist >= Walked
    BY <2>3, <2>4 DEF AccusedWalked, Plain, Marked
  <2>6. tracks'[q].mark = "plain"
    BY <2>2, <2>3, <2>5 DEF Follows
  <2>7. tracks'[q].dist \in Nat /\ tracks[q].dist \in Nat /\ tracks'[q].dist >= tracks[q].dist
    <3>1. tracks'[q].dist \in Nat /\ tracks[q].dist \in Nat
      BY <2>2, <2>3, LiveTrack, ConstantsNat DEF Track
    <3> QED
      BY <2>2, <2>3, <3>1 DEF Follows
  <2> QED
    BY <2>5, <2>6, <2>7, ConstantsNat
<1>2. CASE Judge
  <2> SUFFICES ASSUME NEW a \in Live', tracks'[a].mark # "plain",
                      NEW q \in Live', tracks'[q].id = tracks'[a].source,
                      tracks'[q].lineage # "doubled"
               PROVE tracks'[q].mark = "plain" /\ tracks'[q].dist >= Walked
    BY DEF AccusedWalked, Plain, Marked
  <2>1. /\ a \in Slot /\ tracks'[a] # Free
        /\ q \in Slot /\ tracks'[q] # Free
    BY DEF Live
  <2>2. /\ a \in Live /\ tracks[a].mark # "plain" /\ tracks'[a].source = tracks[a].source
        /\ q \in Live /\ Judges(tracks[q], tracks'[q])
    BY <1>2, <2>1, JudgeSlots DEF Judges
  <2>3. tracks[q].mark = "plain" /\ tracks[q].dist >= Walked
    BY <2>2 DEF AccusedWalked, Plain, Marked, Judges
  <2> QED
    BY <2>2, <2>3 DEF Judges
<1>3. CASE CheckConfirmation
  <2> SUFFICES ASSUME NEW a \in Live', tracks'[a].mark # "plain",
                      NEW q \in Live', tracks'[q].id = tracks'[a].source,
                      tracks'[q].lineage # "doubled"
               PROVE tracks'[q].mark = "plain" /\ tracks'[q].dist >= Walked
    BY DEF AccusedWalked, Plain, Marked
  <2>1. /\ a \in Slot /\ tracks'[a] # Free
        /\ q \in Slot /\ tracks'[q] # Free
    BY DEF Live
  <2> QED
    BY <1>3, <2>1, ConfirmationSlots DEF AccusedWalked, Plain, Marked, Live
<1>4. ASSUME NEW s \in Slot, Appear(s) PROVE AccusedWalked'
  <2> SUFFICES ASSUME NEW a \in Live', tracks'[a].mark # "plain",
                      NEW q \in Live', tracks'[q].id = tracks'[a].source,
                      tracks'[q].lineage # "doubled"
               PROVE tracks'[q].mark = "plain" /\ tracks'[q].dist >= Walked
    BY DEF AccusedWalked, Plain, Marked
  <2>1. /\ a \in Slot /\ tracks'[a] # Free
        /\ q \in Slot /\ tracks'[q] # Free
    BY DEF Live
  <2>2. /\ tracks'[s].id = next_id_ /\ tracks'[s].mark = "plain"
        /\ \A x \in Live : tracks[x].source # next_id_
    BY <1>4, AppearSlots, LiveTrack, NextIdPositive DEF Newborn, IdsGiven, Track
  <2>3. \A x \in {a, q} \ {s} : x \in Live /\ tracks'[x] = tracks[x]
    BY <1>4, <2>1, AppearSlots DEF Live
  <2>4. a # s /\ q # s
    BY <2>2, <2>3
  <2> QED
    BY <2>3, <2>4 DEF AccusedWalked, Plain, Marked
<1>5. ASSUME NEW s \in Slot, Cancel(s) PROVE AccusedWalked'
  <2> SUFFICES ASSUME NEW a \in Live', tracks'[a].mark # "plain",
                      NEW q \in Live', tracks'[q].id = tracks'[a].source,
                      tracks'[q].lineage # "doubled"
               PROVE tracks'[q].mark = "plain" /\ tracks'[q].dist >= Walked
    BY DEF AccusedWalked, Plain, Marked
  <2>1. /\ a \in Slot /\ tracks'[a] # Free
        /\ q \in Slot /\ tracks'[q] # Free
    BY DEF Live
  <2>2. /\ a \in Live /\ tracks'[a] = tracks[a] /\ q \in Live
        /\ tracks'[q].id = tracks[q].id /\ tracks'[q].dist = tracks[q].dist
        /\ tracks'[q].lineage = tracks[q].lineage
        /\ tracks[q].mark = "plain" => tracks'[q].mark = "plain"
    BY <1>5, <2>1, CancelSlots DEF Live, SameButAccused
  <2> QED
    BY <2>2 DEF AccusedWalked, Plain, Marked
<1>6. ASSUME NEW s \in Slot, NEW p \in Slot, DetectSeparation(s, p) PROVE AccusedWalked'
  <2> SUFFICES ASSUME NEW a \in Live', tracks'[a].mark # "plain",
                      NEW q \in Live', tracks'[q].id = tracks'[a].source,
                      tracks'[q].lineage # "doubled"
               PROVE tracks'[q].mark = "plain" /\ tracks'[q].dist >= Walked
    BY DEF AccusedWalked, Plain, Marked
  <2>1. /\ a \in Slot /\ tracks'[a] # Free
        /\ q \in Slot /\ tracks'[q] # Free
    BY DEF Live
  <2>2. /\ tracks'[s].id = next_id_ /\ tracks'[s].source = tracks[p].id
        /\ \A x \in Live : tracks[x].source # next_id_ /\ tracks[x].id # next_id_
    BY <1>6, SeparationSlots, LiveTrack, NextIdPositive DEF Newborn, IdsGiven, Track
  <2>3. \A x \in {a, q} \ {s} : x \in Live /\ tracks'[x] = tracks[x]
    BY <1>6, <2>1, SeparationSlots DEF Live
  <2>4. /\ phase = "separate" /\ p \in Live
        /\ tracks[p].mark = "plain" /\ tracks[p].dist >= Walked
    BY <1>6 DEF DetectSeparation, MaySeparate, Plain, Marked
  <2>5. q # s
    BY <1>6, <2>2, <2>3, SeparationSlots
  <2>6. CASE a = s
    <3>1. /\ q \in Live /\ tracks'[q] = tracks[q] /\ tracks[q].id = tracks[p].id
          /\ tracks[q].lineage # "doubled" /\ tracks[p].lineage # "doubled"
      BY <2>2, <2>3, <2>4, <2>5, <2>6 DEF DoubledTogether
    <3>2. tracks[q].lineage = "current" /\ tracks[p].lineage = "current"
      BY <2>4, <3>1, LiveTrack DEF SupersededGo, Track
    <3>3. q = p
      BY <2>4, <3>1, <3>2 DEF OneCurrentTrack
    <3> QED
      BY <2>4, <3>1, <3>3
  <2>7. CASE a # s
    BY <2>3, <2>5, <2>7 DEF AccusedWalked, Plain, Marked
  <2> QED
    BY <2>6, <2>7
<1>7. ASSUME NEW s \in Slot, NEW l \in Slot, Recover(s, l) PROVE AccusedWalked'
  <2> SUFFICES ASSUME NEW a \in Live', tracks'[a].mark # "plain",
                      NEW q \in Live', tracks'[q].id = tracks'[a].source,
                      tracks'[q].lineage # "doubled"
               PROVE tracks'[q].mark = "plain" /\ tracks'[q].dist >= Walked
    BY DEF AccusedWalked, Plain, Marked
  <2>1. /\ a \in Slot /\ tracks'[a] # Free
        /\ q \in Slot /\ tracks'[q] # Free
    BY DEF Live
  <2>2. l \in Live /\ tracks[l].mark = "plain"
    BY <1>7, RecoverSlots DEF Recoverable
  <2>3. a \notin {s, l} /\ a \in Live /\ tracks'[a] = tracks[a]
    BY <1>7, <2>1, RecoverSlots DEF Live
  <2>4. CASE q \in {s, l}
    <3>1. /\ tracks'[q].id = tracks[l].id /\ tracks'[q].dist = tracks[l].dist
          /\ tracks'[q].mark = "plain" /\ tracks[l].lineage # "doubled"
      BY <1>7, <2>4, RecoverSlots DEF Handed
    <3>2. tracks[l].dist >= Walked
      BY <2>2, <2>3, <3>1 DEF AccusedWalked, Plain, Marked
    <3> QED
      BY <3>1, <3>2
  <2>5. CASE q \notin {s, l}
    <3>1. q \in Live /\ tracks'[q] = tracks[q]
      BY <1>7, <2>1, <2>5, RecoverSlots DEF Live
    <3> QED
      BY <2>3, <3>1 DEF AccusedWalked, Plain, Marked
  <2> QED
    BY <2>4, <2>5
<1>8. ASSUME NEW o \in Slot, NEW p \in Slot, TrajectoryMatch(o, p) PROVE AccusedWalked'
  <2> SUFFICES ASSUME NEW a \in Live', tracks'[a].mark # "plain",
                      NEW q \in Live', tracks'[q].id = tracks'[a].source,
                      tracks'[q].lineage # "doubled"
               PROVE tracks'[q].mark = "plain" /\ tracks'[q].dist >= Walked
    BY DEF AccusedWalked, Plain, Marked
  <2>1. /\ a \in Slot /\ tracks'[a] # Free
        /\ q \in Slot /\ tracks'[q] # Free
    BY DEF Live
  <2>2. /\ o \in Live /\ p \in Live /\ tracks[o] \in Track /\ tracks[p] \in Track
        /\ tracks[o].dist = Settled /\ tracks[o].mark = "plain"
        /\ tracks[p].dist >= Walked /\ tracks[p].mark = "plain"
        /\ tracks[p].lost <= RecoveryLost /\ tracks[p].id # tracks[o].id
    BY <1>8, AccuseSlots, LiveTrack DEF MayBeObject, MayBeOwner
  <2>3. phase # "judge"
    BY <1>8 DEF TrajectoryMatch
  <2>4. /\ a \in Live /\ q \in Live /\ tracks'[q].id = tracks[q].id
        /\ tracks'[q].lineage = tracks[q].lineage
        /\ a # o => tracks'[a] = tracks[a]
        /\ q # o => tracks'[q] = tracks[q]
        /\ tracks'[o].source = tracks[p].id
    BY <1>8, <2>1, AccuseSlots DEF SameButAccused, Live
  <2>5. CASE a = o
    <3>1. /\ q # o /\ q \in Live /\ tracks'[q] = tracks[q]
          /\ tracks[q].id = tracks[p].id
          /\ tracks[q].lineage # "doubled" /\ tracks[p].lineage # "doubled"
      BY <2>2, <2>4, <2>5 DEF DoubledTogether
    <3>2. tracks[p].lineage # "superseded"
      BY <2>2, ConstantsNat DEF SupersededLost, Track
    <3>3. CASE q = p
      BY <2>2, <3>1, <3>3
    <3>4. CASE q # p
      <4>1. tracks[q].lineage = "superseded"
        BY <2>2, <3>1, <3>2, <3>4, LiveTrack DEF OneCurrentTrack, Track
      <4>2. tracks[q].dist = tracks[p].dist
        BY <2>2, <2>3, <3>1, <4>1 DEF SupersededAlike
      <4>3. tracks[q].mark = "plain"
        BY <2>2, <3>1, <4>1, <4>2, ConstantsNat DEF SupersededLost, Settled
      <4> QED
        BY <2>2, <3>1, <4>2, <4>3
    <3> QED
      BY <3>3, <3>4
  <2>6. CASE a # o
    <3>1. tracks[a].mark # "plain" /\ tracks'[a].source = tracks[a].source
      BY <2>4, <2>6
    <3>2. tracks[q].mark = "plain" /\ tracks[q].dist >= Walked
      BY <2>4, <2>6, <3>1 DEF AccusedWalked, Plain, Marked
    <3>3. q # o
      BY <2>2, <3>2, ConstantsNat DEF Settled
    <3> QED
      BY <2>4, <3>2, <3>3
  <2> QED
    BY <2>5, <2>6
<1>9. CASE UNCHANGED vars
  BY <1>9 DEF vars, AccusedWalked, Plain, Marked, Live
<1> QED
  BY <1>1, <1>2, <1>3, <1>4, <1>5, <1>6, <1>7, <1>8, <1>9 DEF Next

-----------------------------------------------------------------------------
LEMMA InitIInv == Init => IInv
<1> SUFFICES ASSUME Init PROVE IInv
  OBVIOUS
<1>1. Live = {} /\ phase = "idle"
  BY DEF Init, Live
<1>2. TypeOK
  BY ConstantsNat DEF Init, TypeOK, Phase
<1>3. LostBound /\ IdsGiven /\ OneCurrentTrack /\ DoubledTogether
  BY <1>1 DEF LostBound, IdsGiven, OneCurrentTrack, DoubledTogether
<1>4. SupersededLost /\ SupersededAlike /\ SupersededGo
  BY <1>1 DEF SupersededLost, SupersededAlike, SupersededGo
<1>5. SourceIffAccused /\ CancelledNotAccusedAgain /\ AccusedWalked
  BY <1>1 DEF SourceIffAccused, CancelledNotAccusedAgain, AccusedWalked, Marked
<1>6. SuspectsSeenLately
  BY <1>1 DEF SuspectsSeenLately
<1> QED
  BY <1>2, <1>3, <1>4, <1>5, <1>6 DEF IInv

LEMMA StepIInv == IInv /\ [Next]_vars => IInv'
<1> SUFFICES ASSUME IInv, [Next]_vars PROVE IInv'
  OBVIOUS
<1>1. /\ TypeOK /\ LostBound /\ IdsGiven /\ OneCurrentTrack /\ DoubledTogether
      /\ SupersededLost /\ SupersededAlike /\ SupersededGo /\ SourceIffAccused
      /\ CancelledNotAccusedAgain /\ AccusedWalked /\ SuspectsSeenLately
  BY DEF IInv
<1>2. TypeOK' /\ LostBound' /\ IdsGiven'
  BY <1>1, TypeOKStep, LostBoundStep, IdsGivenStep
<1>3. OneCurrentTrack' /\ DoubledTogether'
  BY <1>1, OneCurrentStep, DoubledStep
<1>4. SupersededLost' /\ SupersededGo'
  BY <1>1, SupersededLostStep, SupersededGoStep
<1>5. SupersededAlike'
  BY <1>1, <1>4, AlikeStep
<1>6. SourceIffAccused' /\ CancelledNotAccusedAgain' /\ SuspectsSeenLately'
  BY <1>1, SourceStep, CancelledStep, SeenLatelyStep
<1>7. AccusedWalked'
  BY <1>1, AccusedWalkedStep
<1> QED
  BY <1>2, <1>3, <1>4, <1>5, <1>6, <1>7 DEF IInv

LEMMA Invariance == Spec => []IInv
BY InitIInv, StepIInv, PTL DEF Spec

(* Every variable keeps its type: no counter of a track passes its bound,  *)
(* so stage 5 lets no track outlive its lifetime.                          *)
THEOREM TypeCorrect == Spec => []TypeOK
<1>1. IInv => TypeOK
  BY DEF IInv
<1> QED
  BY <1>1, Invariance, PTL

(* A track has a source exactly while it is a suspect or a dumped item.    *)
THEOREM SourceInStep == Spec => []SourceIffAccused
<1>1. IInv => SourceIffAccused
  BY DEF IInv
<1> QED
  BY <1>1, Invariance, PTL

(* Of the tracks that share an id, one at most was not superseded.         *)
THEOREM IdentityKept == Spec => []OneCurrentTrack
<1>1. IInv => OneCurrentTrack
  BY DEF IInv
<1> QED
  BY <1>1, Invariance, PTL

(* Stage 5 deletes the original of a recovery unless a cluster matches it. *)
THEOREM OriginalsRemoved == Spec => []SupersededGo
<1>1. IInv => SupersededGo
  BY DEF IInv
<1> QED
  BY <1>1, Invariance, PTL

(* The source of an accusation has walked and is not accused itself, for   *)
(* as long as its id is its own.                                           *)
THEOREM OnlyWalkersAccused == Spec => []AccusedWalked
<1>1. IInv => AccusedWalked
  BY DEF IInv
<1> QED
  BY <1>1, Invariance, PTL

(* A cancelled dumping is never taken up again for the same track.         *)
THEOREM CancellationFinal == Spec => []CancelledNotAccusedAgain
<1>1. IInv => CancelledNotAccusedAgain
  BY DEF IInv
<1> QED
  BY <1>1, Invariance, PTL

(* Stage 4 judges only suspects that were seen in the last frames.         *)
THEOREM JudgedWhileSeen == Spec => []SuspectsSeenLately
<1>1. IInv => SuspectsSeenLately
  BY DEF IInv
<1> QED
  BY <1>1, Invariance, PTL

(* What may become of a dumped item in one step.                           *)
Outlasts(r) ==
  \/ tracks'[r].id = tracks[r].id /\ tracks'[r].mark = "dumped"
  \/ tracks'[r] = Free /\ tracks[r].lost > DumpedLimit
  \/ /\ phase = "idle" /\ tracks[r].id \in Alerted
     /\ tracks'[r] = Cleared(tracks[r])

LEMMA DumpedStep ==
  ASSUME TypeOK, LostBound, [Next]_vars, NEW r \in Slot,
         r \in Live, tracks[r].mark = "dumped"
  PROVE  Outlasts(r)
<1>1. CASE Match
  <2>1. PICK g : \A s \in Live : Follows(tracks[s], tracks'[s], g[s])
    BY <1>1, MatchSlots
  <2> QED
    BY <2>1 DEF Follows, Outlasts
<1>2. CASE Judge
  BY <1>2, JudgeSlots DEF Judges, Outlasts
<1>3. CASE CheckConfirmation
  BY <1>3, ConfirmationSlots DEF Outlasts
<1>4. ASSUME NEW s \in Slot, Appear(s) PROVE Outlasts(r)
  BY <1>4, AppearSlots DEF Outlasts
<1>5. ASSUME NEW s \in Slot, Cancel(s) PROVE Outlasts(r)
  <2>1. phase = "idle" /\ tracks[s].id \in Alerted
    BY <1>5 DEF Cancel
  <2> QED
    BY <1>5, <2>1, CancelSlots DEF Outlasts
<1>6. ASSUME NEW s \in Slot, NEW p \in Slot, DetectSeparation(s, p) PROVE Outlasts(r)
  BY <1>6, SeparationSlots DEF Outlasts
<1>7. ASSUME NEW s \in Slot, NEW l \in Slot, Recover(s, l) PROVE Outlasts(r)
  BY <1>7, RecoverSlots DEF Outlasts, Recoverable
<1>8. ASSUME NEW o \in Slot, NEW p \in Slot, TrajectoryMatch(o, p) PROVE Outlasts(r)
  BY <1>8, AccuseSlots DEF Outlasts, MayBeObject
<1>9. CASE UNCHANGED vars
  BY <1>9 DEF vars, Outlasts
<1> QED
  BY <1>1, <1>2, <1>3, <1>4, <1>5, <1>6, <1>7, <1>8, <1>9 DEF Next

(* A dumped item ends by a cancellation or by DumpedLimit missed frames.   *)
THEOREM DumpsLast == Spec => DumpsOutlastOcclusion
<1>1. IInv /\ [Next]_vars =>
        [\A s \in Marked("dumped") :
           \/ tracks'[s].id = tracks[s].id /\ tracks'[s].mark = "dumped"
           \/ tracks'[s] = Free /\ tracks[s].lost > DumpedLimit
           \/ phase = "idle" /\ tracks[s].id \in Alerted
                /\ tracks'[s] = Cleared(tracks[s])]_vars
  <2> SUFFICES ASSUME IInv, [Next]_vars, NEW s \in Marked("dumped")
               PROVE Outlasts(s)
    BY DEF Outlasts
  <2> QED
    BY DumpedStep DEF IInv, Marked, Live
<1> QED
  BY <1>1, Invariance, PTL DEF Spec, DumpsOutlastOcclusion
-----------------------------------------------------------------------------
(* PersonGroups                                                            *)

(* Every set of births has an oldest one.                                  *)
LEMMA OldestOf ==
  ASSUME NEW S \in SUBSET Nat, S # {}
  PROVE  \E m \in S : \A k \in S : m <= k
<1> DEFINE R == OpToRel(<, Nat)
<1>1. \A x, y \in Nat : x < y => <<x, y>> \in R
  BY DEF OpToRel
<1>2. IsWellFoundedOn(R, Nat)
  BY NatLessThanWellFounded
<1> HIDE DEF R
<1>3. PICK m \in S : \A k \in S : ~ (<<k, m>> \in R)
  BY <1>2, WFMin
<1>4. \A k \in S : k \in Nat /\ m \in Nat /\ ~(k < m)
  BY <1>1, <1>3
<1> QED BY <1>4

(* A pair has two tracks and one of them is its lead.                      *)
LEMMA LeadInPair ==
  ASSUME GroupsTypeOK, NEW p \in SUBSET Present, Cardinality(p) = 2
  PROVE  Lead(p) \in p
<1>1. IsFiniteSet(Birth) /\ Birth \subseteq Nat
  BY GroupsOK, FS_Interval DEF Birth
<1>2. IsFiniteSet(p) /\ p \subseteq Birth
  BY <1>1, FS_Subset DEF Present
<1>3. PICK x \in p : TRUE
  BY <1>2, FS_EmptySet
<1>4. Cardinality(p \ {x}) = 1 /\ IsFiniteSet(p \ {x})
  BY <1>2, <1>3, FS_RemoveElement
<1>5. PICK y : p \ {x} = {y}
  BY <1>4, FS_Singleton
<1>6. p = {x, y}
  BY <1>3, <1>5
<1>7. \A b \in p : b \in Nat /\ members[b].id \in Nat
  BY <1>1, <1>2, GroupsOK DEF GroupsTypeOK, Present, Member, Absent, Id, Birth
<1>8. \E b \in p : \A c \in p : \/ members[b].id < members[c].id
                                \/ members[b].id = members[c].id /\ b <= c
  BY <1>6, <1>7
<1> QED BY <1>8 DEF Lead

(* What the passes agree on: the pairs of the first and the second pass,   *)
(* the tracks in a pair, and the group of every track.                     *)
Grouping(paired, held, joined, group) ==
  /\ paired \subseteq SUBSET Legs /\ held \subseteq SUBSET Legs
  /\ (UNION paired) \cap (UNION held) = {}
  /\ DOMAIN joined = UNION (paired \cup held)
  /\ group \in [Present -> 0..Births]
  /\ \A b \in Present : group[b] # NoGroup => b \in Legs
  /\ \A p \in paired : /\ Lead(p) \in p
                       /\ \A b \in p : group[b] = members[Lead(p)].id
  /\ \A p \in held : /\ Lead(p) \in p
                     /\ \A b \in p : /\ IsHeld(members[b])
                                     /\ group[b] = members[b].last
                                     /\ group[b] = group[Lead(p)]

LEMMA PassesGroup ==
  ASSUME GroupsTypeOK, Passes
  PROVE  \E paired, held, joined, group :
           /\ Grouping(paired, held, joined, group)
           /\ members' = [b \in Birth |->
                            Regrouped(paired, held, joined, group, b)]
           /\ entity' = [g \in Id |-> IF \E b \in Present : group[b] = g
                                      THEN 0 ELSE entity[g]]
<1>1. PICK paired \in NewPairs : \E held \in HeldPairs(paired) :
        \E joined \in {PairGroups(paired, held)} :
        \E a \in Attachments(joined) :
          /\ members' = [b \in Birth |-> Regrouped(paired, held, joined,
                                           GroupOf(joined, a), b)]
          /\ entity' = [g \in Id |->
               IF \E b \in Present : GroupOf(joined, a)[b] = g
               THEN 0 ELSE entity[g]]
  BY DEF Passes
<1>2. PICK held \in HeldPairs(paired) :
        \E joined \in {PairGroups(paired, held)} :
        \E a \in Attachments(joined) :
          /\ members' = [b \in Birth |-> Regrouped(paired, held, joined,
                                           GroupOf(joined, a), b)]
          /\ entity' = [g \in Id |->
               IF \E b \in Present : GroupOf(joined, a)[b] = g
               THEN 0 ELSE entity[g]]
  BY <1>1
<1> DEFINE joined == PairGroups(paired, held)
<1>3. PICK a \in Attachments(joined) :
        /\ members' = [b \in Birth |-> Regrouped(paired, held, joined,
                                         GroupOf(joined, a), b)]
        /\ entity' = [g \in Id |->
             IF \E b \in Present : GroupOf(joined, a)[b] = g
             THEN 0 ELSE entity[g]]
  BY <1>2
<1> DEFINE group == GroupOf(joined, a)
<1>4. /\ \A p \in paired : Cardinality(p) = 2 /\ p \subseteq Legs
      /\ \A p, q \in paired : p # q => p \cap q = {}
  BY DEF NewPairs, Pairings
<1>5. /\ \A p \in held : Cardinality(p) = 2 /\ p \subseteq Legs \ UNION paired
      /\ \A p \in held : \A b, c \in p :
           IsHeld(members[b]) /\ members[b].last = members[c].last
  BY DEF HeldPairs, Pairings
<1>6. Legs \subseteq Present
  BY DEF Legs
<1>7. \A p \in paired \cup held : Lead(p) \in p
  BY <1>4, <1>5, <1>6, LeadInPair
<1>8. DOMAIN joined = UNION (paired \cup held)
  BY DEF PairGroups
<1>9. \A p \in paired : \A b \in p : joined[b] = members[Lead(p)].id
  <2> SUFFICES ASSUME NEW p \in paired, NEW b \in p
               PROVE  joined[b] = members[Lead(p)].id
    OBVIOUS
  <2>1. b \notin UNION held
    BY <1>5
  <2>2. (CHOOSE q \in paired : b \in q) = p
    BY <1>4
  <2> QED BY <2>1, <2>2 DEF PairGroups
<1>10. \A p \in held : \A b \in p : joined[b] = members[b].last
  BY DEF PairGroups
<1>11. \A b \in DOMAIN joined : b \in Present /\ group[b] = joined[b]
  <2>1. UNION (paired \cup held) \subseteq Present
    BY <1>4, <1>5, <1>6
  <2> QED BY <1>8, <2>1 DEF GroupOf
<1>12. \A b \in Present : members[b].id \in 0..Births
                          /\ members[b].last \in 0..Births
  BY GroupsOK DEF GroupsTypeOK, Present, Member, Absent, Id, Birth
<1>13. \A b \in DOMAIN joined : joined[b] \in 0..Births
  <2> SUFFICES ASSUME NEW p \in paired \cup held, NEW b \in p
               PROVE  joined[b] \in 0..Births
    BY <1>8
  <2>1. Lead(p) \in Present /\ b \in Present
    BY <1>4, <1>5, <1>6, <1>7
  <2> HIDE DEF joined
  <2>2. joined[b] \in {members[Lead(p)].id, members[b].last}
    BY <1>9, <1>10
  <2> QED BY <1>12, <2>1, <2>2
<1>14. \A b \in DOMAIN a : a[b] \in 0..Births
  BY GroupsOK DEF Attachments, Id, Birth, NoGroup
<1>15. group \in [Present -> 0..Births]
  BY <1>13, <1>14, GroupsOK DEF GroupOf, NoGroup
<1>leg. \A b \in Present : group[b] # NoGroup => b \in Legs
  <2>1. DOMAIN joined \subseteq Legs
    BY <1>4, <1>5, <1>8
  <2>2. DOMAIN a = Legs \ DOMAIN joined
    BY DEF Attachments
  <2> HIDE DEF joined
  <2> QED BY <2>1, <2>2 DEF GroupOf
<1> HIDE DEF joined, group
<1>16. \A p \in paired : \A b \in p : group[b] = members[Lead(p)].id
  BY <1>8, <1>9, <1>11
<1>17. \A p \in held : \A b \in p : /\ group[b] = members[b].last
                                    /\ group[b] = group[Lead(p)]
  BY <1>5, <1>7, <1>8, <1>10, <1>11
<1>18. Grouping(paired, held, joined, group)
  <2>1. (UNION paired) \cap (UNION held) = {}
    BY <1>5
  <2> QED BY <2>1, <1>4, <1>5, <1>7, <1>8, <1>15, <1>leg, <1>16, <1>17
          DEF Grouping
<1> USE DEF joined, group
<1> QED BY <1>3, <1>18

(* Between the loops at its start and the passes nobody is in a group.     *)
NobodyGrouped ==
  stage \in {"group", "regroup"} =>
    \A b \in Present : members[b].group = NoGroup /\ ~members[b].primary

(* Each frame out of sight of the receivers costs two calls of the hold.   *)
Paid(t) ==
  /\ stage = "fade" =>
       \/ t.hidden = 0
       \/ t.hold > 0 /\ 2 * t.hidden + t.hold <= HoldFrames + 1
  /\ stage \in {"group", "erase", "create"} =>
       2 * t.hidden + t.hold <= HoldFrames
  /\ stage \in {"regroup", "match"} =>
       \/ 2 * t.hidden + t.hold < HoldFrames
       \/ t.hold = 0 /\ 2 * t.hidden <= HoldFrames
       \/ t.group # NoGroup /\ t.hidden = 0

HidingPaid == \A b \in Present : Paid(members[b])

GroupsInv == GroupsTypeOK /\ NobodyGrouped /\ HidingPaid /\ HeldGroupKept

(* The fields of a track, and of what a stage makes of one.                *)
LEMMA MemberTypes ==
  ASSUME NEW t \in Member
  PROVE  /\ t.id \in Id /\ t.group \in 0..Births /\ t.last \in 0..Births
         /\ t.hold \in 0..HoldFrames /\ t.hidden \in 0..HoldFrames
         /\ t.primary \in BOOLEAN /\ t # Absent
<1>1. t.id \in Id /\ 0 \notin Id /\ Absent.id = 0
  BY GroupsOK DEF Member, Id, Birth, Absent
<1> QED BY <1>1 DEF Member

LEMMA FadedMember ==
  ASSUME NEW t \in Member
  PROVE  /\ Faded(t) \in Member
         /\ Faded(t).group = NoGroup /\ ~Faded(t).primary
         /\ Faded(t).hidden = t.hidden
         /\ Faded(t).hold = IF t.hold > 0 THEN t.hold - 1 ELSE 0
         /\ t.hold > 1 => Faded(t).last = t.last
<1>1. /\ NoGroup \in 0..Births /\ FALSE \in BOOLEAN
      /\ "none" \in {"none", "paired", "held", "attached"}
      /\ (IF t.hold > 1 THEN t.last ELSE NoGroup) \in 0..Births
      /\ (IF t.hold > 0 THEN t.hold - 1 ELSE 0) \in 0..HoldFrames
  BY MemberTypes, GroupsOK DEF NoGroup
<1>2. Faded(t) \in Member
  BY <1>1, Zenon DEF Faded, Member
<1>3. /\ Faded(t).group = NoGroup /\ ~Faded(t).primary
      /\ Faded(t).hidden = t.hidden
      /\ Faded(t).hold = IF t.hold > 0 THEN t.hold - 1 ELSE 0
      /\ t.hold > 1 => Faded(t).last = t.last
  BY DEF Faded, Member
<1> QED BY <1>2, <1>3

LEMMA JoinedMember ==
  \A t \in Member, g \in 0..Births, primary \in BOOLEAN,
     hold \in 0..HoldFrames, how \in {"paired", "held", "attached"} :
    /\ Joined(t, g, primary, hold, how) \in Member
    /\ Joined(t, g, primary, hold, how).id = t.id
    /\ Joined(t, g, primary, hold, how).sight = t.sight
    /\ Joined(t, g, primary, hold, how).group = g
    /\ Joined(t, g, primary, hold, how).last = g
    /\ Joined(t, g, primary, hold, how).primary = primary
    /\ Joined(t, g, primary, hold, how).hold = hold
    /\ Joined(t, g, primary, hold, how).how = how
    /\ Joined(t, g, primary, hold, how).hidden = 0
<1> TAKE t \in Member, g \in 0..Births, primary \in BOOLEAN,
         hold \in 0..HoldFrames, how \in {"paired", "held", "attached"}
<1>1. 0 \in 0..HoldFrames /\ how \in {"none", "paired", "held", "attached"}
  BY GroupsOK
<1>2. Joined(t, g, primary, hold, how) \in Member
  BY <1>1, Zenon DEF Joined, Member
<1> QED BY <1>2 DEF Joined, Member

LEMMA BornMember ==
  ASSUME NEW id \in Id
  PROVE  /\ Born(id) \in Member /\ Born(id).group = NoGroup
         /\ ~Born(id).primary /\ Born(id).hold = 0 /\ Born(id).hidden = 0
BY GroupsOK DEF Member, Born, NoGroup

(* A birth holds a track or nothing.                                       *)
LEMMA PresentMembers ==
  ASSUME GroupsTypeOK
  PROVE  /\ \A b \in Present : members[b] \in Member
         /\ \A b \in Birth \ Present : members[b] = Absent
BY DEF GroupsTypeOK, Present

(* What the passes make of one track.                                      *)
LEMMA RegroupedMember ==
  ASSUME GroupsTypeOK, NEW paired, NEW held, NEW joined, NEW group,
         Grouping(paired, held, joined, group), NEW b \in Present,
         NEW u, u = Regrouped(paired, held, joined, group, b)
  PROVE  /\ group[b] = NoGroup => u = members[b]
         /\ group[b] # NoGroup =>
              /\ u \in Member /\ u.id = members[b].id
              /\ u.sight = members[b].sight
              /\ u.group = group[b] /\ u.last = group[b] /\ u.hidden = 0
              /\ b \in UNION paired =>
                   u.how = "paired" /\ u.primary = IsLead(paired, held, b)
              /\ b \in UNION held =>
                   u.how = "held" /\ u.primary = IsLead(paired, held, b)
              /\ b \notin DOMAIN joined =>
                   u.primary = ~Represented(joined, group, b)
<1>1. /\ members[b] \in Member /\ group[b] \in 0..Births
      /\ HoldFrames \in 0..HoldFrames /\ members[b].hold \in 0..HoldFrames
  BY PresentMembers, MemberTypes, GroupsOK DEF Grouping
<1>2. /\ b \in UNION held => b \notin UNION paired
      /\ b \in DOMAIN joined <=> b \in UNION paired \/ b \in UNION held
  BY DEF Grouping
<1>3. group[b] = NoGroup => u = members[b]
  BY DEF Regrouped
<1>4. SUFFICES ASSUME group[b] # NoGroup
      PROVE  /\ u \in Member /\ u.id = members[b].id
             /\ u.sight = members[b].sight
             /\ u.group = group[b] /\ u.last = group[b] /\ u.hidden = 0
             /\ b \in UNION paired =>
                  u.how = "paired" /\ u.primary = IsLead(paired, held, b)
             /\ b \in UNION held =>
                  u.how = "held" /\ u.primary = IsLead(paired, held, b)
             /\ b \notin DOMAIN joined =>
                  u.primary = ~Represented(joined, group, b)
  BY <1>3
<1>5. PICK primary \in BOOLEAN, hold \in 0..HoldFrames,
           how \in {"paired", "held", "attached"} :
        /\ u = Joined(members[b], group[b], primary, hold, how)
        /\ b \in UNION paired =>
             how = "paired" /\ primary = IsLead(paired, held, b)
        /\ b \in UNION held =>
             how = "held" /\ primary = IsLead(paired, held, b)
        /\ b \notin DOMAIN joined => primary = ~Represented(joined, group, b)
  <2>1. /\ IsLead(paired, held, b) \in BOOLEAN
        /\ (~Represented(joined, group, b)) \in BOOLEAN
    BY DEF IsLead, Represented
  <2>2. CASE b \in UNION paired
    BY <1>1, <1>2, <1>4, <2>1, <2>2 DEF Regrouped
  <2>3. CASE b \in UNION held
    BY <1>1, <1>2, <1>4, <2>1, <2>3 DEF Regrouped
  <2>4. CASE b \notin DOMAIN joined
    BY <1>1, <1>2, <1>4, <2>1, <2>4 DEF Regrouped
  <2> QED BY <1>2, <2>2, <2>3, <2>4
<1>6. u \in Member
  BY <1>1, <1>5, JoinedMember
<1>7. u.id = members[b].id /\ u.group = group[b]
  BY <1>1, <1>5, JoinedMember
<1>8. u.last = group[b]
  BY <1>1, <1>5, JoinedMember
<1>9. u.hidden = 0
  BY <1>1, <1>5, JoinedMember
<1>10. u.how = how
  BY <1>1, <1>5, JoinedMember
<1>11. u.primary = primary
  BY <1>1, <1>5, JoinedMember
<1>12. u.sight = members[b].sight
  BY <1>1, <1>5 DEF Joined, Member
<1>13. b \in UNION paired =>
         u.how = "paired" /\ u.primary = IsLead(paired, held, b)
  BY <1>5, <1>10, <1>11
<1>14. b \in UNION held =>
         u.how = "held" /\ u.primary = IsLead(paired, held, b)
  BY <1>5, <1>10, <1>11
<1>15. b \notin DOMAIN joined => u.primary = ~Represented(joined, group, b)
  BY <1>5, <1>10, <1>11
<1> QED BY <1>6, <1>7, <1>8, <1>9, <1>12, <1>13, <1>14, <1>15

(* The passes make and delete no track; they leave one alone or group it.  *)
LEMMA PassesTypes ==
  ASSUME GroupsTypeOK, Passes
  PROVE  /\ members' \in [Birth -> Member \cup {Absent}]
         /\ entity' \in [Id -> 0..Forgotten]
         /\ Present' = Present
         /\ \A b \in Present :
              \/ members'[b] = members[b]
              \/ members'[b].group # NoGroup /\ members'[b].hidden = 0
<1>1. PICK paired, held, joined, group :
        /\ Grouping(paired, held, joined, group)
        /\ members' = [b \in Birth |->
                         Regrouped(paired, held, joined, group, b)]
        /\ entity' = [g \in Id |-> IF \E b \in Present : group[b] = g
                                   THEN 0 ELSE entity[g]]
  BY PassesGroup
<1>2. \A b \in Birth : members'[b] = Regrouped(paired, held, joined, group, b)
  BY <1>1
<1>3. ASSUME NEW b \in Present
      PROVE  /\ members'[b] \in Member
             /\ \/ members'[b] = members[b]
                \/ members'[b].group # NoGroup /\ members'[b].hidden = 0
  <2>1. members'[b] = Regrouped(paired, held, joined, group, b)
    BY <1>2 DEF Present
  <2>2. members[b] \in Member
    BY PresentMembers
  <2> QED BY <1>1, <2>1, <2>2, RegroupedMember
<1>4. \A b \in Birth \ Present : members'[b] = Absent
  BY <1>2, PresentMembers DEF Regrouped
<1>5. members' \in [Birth -> Member \cup {Absent}]
  BY <1>1, <1>3, <1>4
<1>6. Absent \notin Member
  BY MemberTypes
<1>7. Present' = Present
  BY <1>3, <1>4, <1>6 DEF Present
<1>8. entity' \in [Id -> 0..Forgotten]
  BY <1>1, GroupsOK DEF GroupsTypeOK, Forgotten
<1> QED BY <1>3, <1>5, <1>7, <1>8

(* The passes renew the person they hold a leg for.                        *)
LEMMA PassesKeepHolds ==
  ASSUME GroupsTypeOK, HeldGroupKept, Passes
  PROVE  HeldGroupKept'
<1>1. PICK paired, held, joined, group :
        /\ Grouping(paired, held, joined, group)
        /\ members' = [b \in Birth |->
                         Regrouped(paired, held, joined, group, b)]
        /\ entity' = [g \in Id |-> IF \E b \in Present : group[b] = g
                                   THEN 0 ELSE entity[g]]
  BY PassesGroup
<1> SUFFICES ASSUME NEW b \in Present, members'[b].hold > 0
             PROVE  /\ members'[b].last # NoGroup
                    /\ entity'[members'[b].last] + members'[b].hold
                         <= HoldFrames
  BY PassesTypes DEF HeldGroupKept
<1>2. /\ b \in Birth /\ members[b] \in Member
      /\ members'[b] = Regrouped(paired, held, joined, group, b)
  BY <1>1, PresentMembers DEF Present
<1>3. CASE group[b] = NoGroup
  <2>1. members'[b] = members[b]
    BY <1>1, <1>2, <1>3, RegroupedMember
  <2>2. /\ members[b].last # NoGroup /\ members[b].hold \in Nat
        /\ entity[members[b].last] + members[b].hold <= HoldFrames
    BY <1>2, <2>1, MemberTypes, GroupsOK DEF HeldGroupKept
  <2>3. members[b].last \in Id
    BY <1>2, <2>2, MemberTypes, GroupsOK DEF Id, Birth, NoGroup
  <2>4. /\ entity[members[b].last] \in Nat
        /\ entity'[members[b].last] \in {0, entity[members[b].last]}
    BY <1>1, <2>3, GroupsOK DEF GroupsTypeOK, Forgotten
  <2> QED BY <2>1, <2>2, <2>4, GroupsOK
<1>4. CASE group[b] # NoGroup
  <2>1. /\ members'[b] \in Member /\ members'[b].last = group[b]
    BY <1>1, <1>2, <1>4, RegroupedMember
  <2>2. group[b] \in Id
    BY <1>1, <1>4, GroupsOK DEF Grouping, Id, Birth, NoGroup
  <2>3. entity'[group[b]] = 0
    BY <1>1, <2>2
  <2>4. members'[b].hold \in 0..HoldFrames
    BY <2>1, MemberTypes
  <2> QED BY <1>4, <2>1, <2>3, <2>4, GroupsOK
<1> QED BY <1>3, <1>4

(* A grouped leg is its group's primary, or has one in front of it: the    *)
(* lead of a pair, or else the oldest of the single legs.                  *)
LEMMA PassesShow ==
  ASSUME GroupsTypeOK, Passes, NEW b \in Present, members'[b].group # NoGroup,
         \A c \in Present : members[c].group = NoGroup
  PROVE  \/ members'[b].primary
         \/ \E c \in Present :
              /\ members'[c].group = members'[b].group /\ members'[c].primary
              /\ members'[c].how # "attached" \/ c < b
<1>1. PICK paired, held, joined, group :
        /\ Grouping(paired, held, joined, group)
        /\ members' = [c \in Birth |->
                         Regrouped(paired, held, joined, group, c)]
        /\ entity' = [g \in Id |-> IF \E c \in Present : group[c] = g
                                   THEN 0 ELSE entity[g]]
  BY PassesGroup
<1>2. \A c \in Present :
        members'[c] = Regrouped(paired, held, joined, group, c)
  BY <1>1 DEF Present
<1>3. \A c \in Present : members'[c].group = group[c]
  <2> TAKE c \in Present
  <2>1. CASE group[c] = NoGroup
    BY <1>1, <1>2, <2>1, RegroupedMember
  <2>2. CASE group[c] # NoGroup
    BY <1>1, <1>2, <2>2, RegroupedMember
  <2> QED BY <2>1, <2>2
<1>4. group[b] # NoGroup
  BY <1>3
<1>5. ASSUME NEW c \in Present, group[c] = group[b], c \in DOMAIN joined
      PROVE  \E d \in Present : /\ group[d] = group[b] /\ members'[d].primary
                                /\ members'[d].how # "attached"
  <2>1. PICK p \in paired \cup held : c \in p
    BY <1>1, <1>5 DEF Grouping
  <2>2. /\ Lead(p) \in p /\ Lead(p) \in Present
        /\ group[Lead(p)] = group[c]
    BY <1>1, <2>1 DEF Grouping, Legs
  <2>3. IsLead(paired, held, Lead(p))
    BY <2>1 DEF IsLead
  <2>4. Lead(p) \in UNION paired \/ Lead(p) \in UNION held
    BY <2>1, <2>2
  <2>5. /\ members'[Lead(p)].primary = IsLead(paired, held, Lead(p))
        /\ members'[Lead(p)].how \in {"paired", "held"}
    BY <1>1, <1>2, <1>4, <1>5, <2>2, <2>4, RegroupedMember
  <2> QED BY <1>5, <2>2, <2>3, <2>5
<1>6. CASE \A c \in Present : group[c] = group[b] => c \notin DOMAIN joined
  <2> DEFINE S == {c \in Present : group[c] = group[b]}
  <2>1. S \subseteq Nat /\ b \in S
    BY GroupsOK DEF Present, Birth
  <2>2. PICK m \in S : \A k \in S : m <= k
    BY <2>1, OldestOf
  <2>3. ~Represented(joined, group, m)
    <3> SUFFICES ASSUME NEW c \in Present, group[c] = group[m], c < m
                 PROVE  FALSE
      BY <1>6 DEF Represented
    <3>1. c \in S /\ c \in Nat /\ m \in Nat
      BY <2>1
    <3> QED BY <2>2, <3>1
  <2>4. members'[m].primary = ~Represented(joined, group, m)
    BY <1>1, <1>2, <1>4, <1>6, RegroupedMember
  <2>5. m = b \/ m < b
    BY <2>1, <2>2
  <2> QED BY <1>3, <2>3, <2>4, <2>5
<1>7. CASE \E c \in Present : group[c] = group[b] /\ c \in DOMAIN joined
  BY <1>3, <1>5, <1>7
<1> QED BY <1>6, <1>7

(* Whoever is grouped is in sight, before and after the passes.            *)
LEMMA PassesSight ==
  ASSUME GroupsTypeOK, Passes, NEW b \in Present, members'[b].group # NoGroup,
         \A c \in Present : members[c].group = NoGroup
  PROVE  members'[b].sight = "seen"
<1>1. PICK paired, held, joined, group :
        /\ Grouping(paired, held, joined, group)
        /\ members' = [c \in Birth |->
                         Regrouped(paired, held, joined, group, c)]
        /\ entity' = [g \in Id |-> IF \E c \in Present : group[c] = g
                                   THEN 0 ELSE entity[g]]
  BY PassesGroup
<1>2. members'[b] = Regrouped(paired, held, joined, group, b)
  BY <1>1 DEF Present
<1>3. group[b] # NoGroup
  BY <1>2 DEF Regrouped
<1>4. members[b].sight = "seen"
  BY <1>1, <1>3 DEF Grouping, Legs
<1>5. members'[b].sight = members[b].sight
  BY <1>1, <1>2, <1>3, RegroupedMember
<1> QED BY <1>4, <1>5

(* Two leads of one group bear one id, and a single leg that shows met     *)
(* nobody of another id in its group.                                      *)
LEMMA PassesTwice ==
  ASSUME GroupsTypeOK, Passes, \A b \in Present : ~members[b].primary
  PROVE  TwiceOnlyByHold'
<1>1. PICK paired, held, joined, group :
        /\ Grouping(paired, held, joined, group)
        /\ members' = [b \in Birth |->
                         Regrouped(paired, held, joined, group, b)]
        /\ entity' = [g \in Id |-> IF \E b \in Present : group[b] = g
                                   THEN 0 ELSE entity[g]]
  BY PassesGroup
<1>2. \A b \in Present :
        members'[b] = Regrouped(paired, held, joined, group, b)
  BY <1>1 DEF Present
<1> SUFFICES ASSUME NEW b \in Present, NEW c \in Present, b # c,
                    members'[b].primary, members'[c].primary,
                    members'[b].group = members'[c].group,
                    "held" \notin {members'[b].how, members'[c].how}
             PROVE  members'[b].id = members'[c].id
  BY PassesTypes DEF TwiceOnlyByHold
<1>3. ASSUME NEW e \in Present, members'[e].primary
      PROVE  /\ group[e] # NoGroup /\ members'[e].group = group[e]
             /\ members'[e].id = members[e].id
  <2>1. group[e] # NoGroup
    BY <1>1, <1>2, <1>3, RegroupedMember
  <2> QED BY <1>1, <1>2, <2>1, RegroupedMember
<1>4. ASSUME NEW e \in Present, members'[e].primary, members'[e].how # "held",
             e \in DOMAIN joined
      PROVE  members'[e].id = group[e]
  <2>1. group[e] # NoGroup /\ members'[e].id = members[e].id
    BY <1>3, <1>4
  <2>2. e \notin UNION held
    BY <1>1, <1>2, <1>4, <2>1, RegroupedMember
  <2>3. e \in UNION paired
    BY <1>1, <1>4, <2>2 DEF Grouping
  <2>4. IsLead(paired, held, e)
    BY <1>1, <1>2, <1>4, <2>1, <2>3, RegroupedMember
  <2>5. PICK p \in paired \cup held : e = Lead(p)
    BY <2>4 DEF IsLead
  <2>6. e \in p /\ p \in paired
    BY <1>1, <2>2, <2>5 DEF Grouping
  <2> QED BY <1>1, <2>1, <2>5, <2>6 DEF Grouping
<1>5. ASSUME NEW e \in Present, NEW d \in Present, members'[e].primary,
             members'[d].primary, group[e] = group[d],
             e \notin DOMAIN joined, d \in DOMAIN joined \/ d < e
      PROVE  members'[e].id = members'[d].id
  <2>1. group[e] # NoGroup /\ members'[e].id = members[e].id
        /\ members'[d].id = members[d].id
    BY <1>3, <1>5
  <2>2. members'[e].primary = ~Represented(joined, group, e)
    BY <1>1, <1>2, <1>5, <2>1, RegroupedMember
  <2> QED BY <1>5, <2>1, <2>2 DEF Represented
<1>6. group[b] = group[c]
  BY <1>3
<1>7. CASE b \in DOMAIN joined /\ c \in DOMAIN joined
  BY <1>4, <1>6, <1>7
<1>8. CASE b \notin DOMAIN joined /\ c \in DOMAIN joined
  BY <1>5, <1>6, <1>8
<1>9. CASE b \in DOMAIN joined /\ c \notin DOMAIN joined
  <2>1. members'[c].id = members'[b].id
    BY <1>5, <1>6, <1>9
  <2> QED BY <2>1
<1>10. CASE b \notin DOMAIN joined /\ c \notin DOMAIN joined
  <2>1. b < c \/ c < b
    BY GroupsOK DEF Present, Birth
  <2>2. CASE b < c
    <3>1. members'[c].id = members'[b].id
      BY <1>5, <1>6, <1>10, <2>2
    <3> QED BY <3>1
  <2>3. CASE c < b
    BY <1>5, <1>6, <1>10, <2>3
  <2> QED BY <2>1, <2>2, <2>3
<1> QED BY <1>7, <1>8, <1>9, <1>10

(* The same track for all that grouping is about. *)
Alike(u, t) ==
  /\ u.id = t.id /\ u.group = t.group /\ u.primary = t.primary
  /\ u.last = t.last /\ u.hold = t.hold /\ u.how = t.how

Sighted(t, s, h) == [t EXCEPT !.sight = s, !.hidden = h]

LEMMA SightedMember ==
  \A t \in Member, s \in {"seen", "lost", "replaced"}, h \in 0..HoldFrames :
    /\ Sighted(t, s, h) \in Member
    /\ Alike(Sighted(t, s, h), t) /\ Sighted(t, s, h).hidden = h
<1> TAKE t \in Member, s \in {"seen", "lost", "replaced"}, h \in 0..HoldFrames
<1>1. Sighted(t, s, h) \in Member
  BY Zenon DEF Member, Sighted
<1>2. Alike(Sighted(t, s, h), t) /\ Sighted(t, s, h).hidden = h
  BY DEF Member, Alike, Sighted
<1> QED BY <1>1, <1>2

LEMMA ReplacedMember ==
  ASSUME NEW t \in Member, NEW u, u = [t EXCEPT !.sight = "replaced"]
  PROVE  u \in Member /\ Alike(u, t) /\ u.hidden = t.hidden
<1>1. u \in Member
  BY Zenon DEF Member
<1>2. Alike(u, t) /\ u.hidden = t.hidden
  BY DEF Member, Alike
<1> QED BY <1>1, <1>2

(* What each stage but the passes makes of the tracks.                     *)
LEMMA SightMembers ==
  ASSUME GroupsInv, Sight
  PROVE  /\ members' \in [Birth -> Member \cup {Absent}]
         /\ Present' = Present
         /\ \A b \in Present :
              /\ Alike(members'[b], members[b])
              /\ \/ members'[b].hidden = 0
                 \/ /\ members'[b].hidden = members[b].hidden + 1
                    /\ members[b].group = NoGroup /\ members[b].hold > 0
<1>1. PICK seen \in SUBSET Present :
        members' = [b \in Birth |->
          IF b \notin Present THEN Absent
          ELSE [members[b] EXCEPT
                  !.sight = IF b \in seen THEN "seen"
                            ELSE IF @ = "replaced" THEN @ ELSE "lost",
                  !.hidden = IF IsHeldPersonLeg(members[b]) THEN @ + 1 ELSE 0]]
  BY DEF Sight
<1>2. ASSUME NEW b \in Present
      PROVE  /\ members'[b] \in Member
             /\ Alike(members'[b], members[b])
             /\ \/ members'[b].hidden = 0
                \/ /\ members'[b].hidden = members[b].hidden + 1
                   /\ members[b].group = NoGroup /\ members[b].hold > 0
  <2>1. members[b] \in Member /\ b \in Birth /\ stage = "match"
    BY PresentMembers DEF GroupsInv, Sight, Present
  <2>2. PICK s \in {"seen", "lost", "replaced"},
             h \in {0, members[b].hidden + 1} :
          /\ members'[b] = Sighted(members[b], s, h)
          /\ h = 0 \/ (members[b].group = NoGroup /\ members[b].hold > 0)
    <3> DEFINE t == members[b]
               s == IF b \in seen THEN "seen"
                    ELSE IF t.sight = "replaced" THEN t.sight ELSE "lost"
               h == IF IsHeldPersonLeg(t) THEN t.hidden + 1 ELSE 0
    <3>1. members'[b] = Sighted(t, s, h)
      BY <1>1, <2>1 DEF Sighted
    <3>2. /\ s \in {"seen", "lost", "replaced"} /\ h \in {0, t.hidden + 1}
          /\ h = 0 \/ (t.group = NoGroup /\ t.hold > 0)
      BY DEF IsHeldPersonLeg, IsHeld
    <3> QED BY <3>1, <3>2
  <2>3. h \in 0..HoldFrames
    <3>1. Paid(members[b])
      BY DEF GroupsInv, HidingPaid
    <3>2. /\ members[b].hidden \in 0..HoldFrames
          /\ members[b].hold \in 0..HoldFrames
      BY <2>1, MemberTypes
    <3>3. h = 0 \/ 2 * members[b].hidden + members[b].hold < HoldFrames
      BY <2>1, <2>2, <3>1, <3>2 DEF Paid
    <3>4. CASE h = 0
      BY <3>4, GroupsOK
    <3>5. CASE h = members[b].hidden + 1 /\ h # 0
      BY <3>2, <3>3, <3>5, GroupsOK
    <3> QED BY <3>4, <3>5
  <2>4. /\ Sighted(members[b], s, h) \in Member
        /\ Alike(Sighted(members[b], s, h), members[b])
        /\ Sighted(members[b], s, h).hidden = h
    BY <2>1, <2>3, SightedMember
  <2>5. /\ members'[b] \in Member /\ Alike(members'[b], members[b])
        /\ members'[b].hidden = h
    BY <2>2, <2>4
  <2> QED BY <2>2, <2>5
<1>3. \A b \in Birth \ Present : members'[b] = Absent
  BY <1>1
<1>4. members' \in [Birth -> Member \cup {Absent}]
  BY <1>1, <1>2, <1>3
<1>5. Absent \notin Member
  BY MemberTypes
<1>6. Present' = Present
  BY <1>2, <1>3, <1>5 DEF Present
<1> QED BY <1>2, <1>4, <1>6

LEMMA FadeMembers ==
  ASSUME GroupsTypeOK, Fade
  PROVE  /\ members' \in [Birth -> Member \cup {Absent}]
         /\ Present' = Present
         /\ \A b \in Present : members'[b] = Faded(members[b])
<1>1. members' = [b \in Birth |->
                    IF b \in Present THEN Faded(members[b]) ELSE Absent]
  BY DEF Fade
<1>2. \A b \in Present : /\ members'[b] = Faded(members[b])
                         /\ members'[b] \in Member
  BY <1>1, PresentMembers, FadedMember DEF Present
<1>3. \A b \in Birth \ Present : members'[b] = Absent
  BY <1>1
<1>4. members' \in [Birth -> Member \cup {Absent}]
  BY <1>1, <1>2, <1>3
<1>5. Absent \notin Member
  BY MemberTypes
<1>6. Present' = Present
  BY <1>2, <1>3, <1>5 DEF Present
<1> QED BY <1>2, <1>4, <1>6

LEMMA EraseMembers ==
  ASSUME GroupsTypeOK, Erase
  PROVE  /\ members' \in [Birth -> Member \cup {Absent}]
         /\ Present' \subseteq Present
         /\ \A b \in Present' : members'[b] = members[b]
<1>1. PICK gone \in SUBSET Present :
        members' = [b \in Birth |-> IF b \in gone THEN Absent ELSE members[b]]
  BY DEF Erase
<1> QED BY <1>1 DEF Present, GroupsTypeOK

(* Stage 6 adds one track in no group; a recovery touches the sight of     *)
(* another one only.                                                       *)
LEMMA NewMembers ==
  ASSUME GroupsTypeOK, Create \/ \E r \in Birth : TakeOver(r)
  PROVE  /\ members' \in [Birth -> Member \cup {Absent}]
         /\ stage = "create" /\ stage' = stage /\ entity' = entity
         /\ made' \in 0..Births
         /\ \A b \in Present' :
              \/ /\ b \in Present /\ Alike(members'[b], members[b])
                 /\ members'[b].hidden = members[b].hidden
              \/ /\ ~members'[b].primary /\ members'[b].hold = 0
                 /\ members'[b].hidden = 0
<1> DEFINE new == made + 1
<1>1. /\ stage = "create" /\ stage' = stage /\ entity' = entity
      /\ made < Births /\ made' = made + 1
  BY DEF Create, TakeOver
<1>2. new \in Birth /\ made' \in 0..Births
  BY <1>1, GroupsOK DEF GroupsTypeOK, Birth
<1>3. CASE Create
  <2>1. members' = [members EXCEPT ![new] = Born(new)]
    BY <1>3 DEF Create
  <2>2. Born(new) \in Member /\ ~Born(new).primary /\ Born(new).hold = 0
        /\ Born(new).hidden = 0
    BY <1>2, BornMember DEF Id
  <2> HIDE DEF new
  <2> QED BY <1>1, <1>2, <2>1, <2>2 DEF GroupsTypeOK, Present, Alike
<1>4. ASSUME NEW r \in Birth, TakeOver(r)
      PROVE  /\ members' \in [Birth -> Member \cup {Absent}]
             /\ \A b \in Present' :
                  \/ /\ b \in Present /\ Alike(members'[b], members[b])
                     /\ members'[b].hidden = members[b].hidden
                  \/ /\ ~members'[b].primary /\ members'[b].hold = 0
                     /\ members'[b].hidden = 0
  <2> DEFINE born == Born(members[r].id)
             old == [members[r] EXCEPT !.sight = "replaced"]
  <2>1. /\ r \in Present
        /\ members' = [members EXCEPT ![r].sight = "replaced", ![new] = born]
    BY <1>4 DEF TakeOver
  <2>2. members[r] \in Member /\ members \in [Birth -> Member \cup {Absent}]
    BY <2>1, PresentMembers DEF GroupsTypeOK
  <2>3. /\ born \in Member /\ ~born.primary /\ born.hold = 0
        /\ born.hidden = 0
    BY <2>2, MemberTypes, BornMember
  <2>4. old \in Member /\ Alike(old, members[r])
        /\ old.hidden = members[r].hidden
    BY <2>2, ReplacedMember
  <2>5. members' = [members EXCEPT ![r] = old, ![new] = born]
    BY <2>1
  <2> HIDE DEF new, born, old
  <2>6. \A b \in Birth : members'[b] = IF b = new THEN born
                                       ELSE IF b = r THEN old ELSE members[b]
    BY <2>2, <2>5
  <2>7. members' \in [Birth -> Member \cup {Absent}]
    BY <2>2, <2>3, <2>4, <2>5
  <2>8. ASSUME NEW b \in Present'
        PROVE  \/ /\ b \in Present /\ Alike(members'[b], members[b])
                  /\ members'[b].hidden = members[b].hidden
               \/ /\ ~members'[b].primary /\ members'[b].hold = 0
                  /\ members'[b].hidden = 0
    <3>1. b \in Birth /\ members'[b] # Absent
      BY DEF Present
    <3>2. CASE b = new
      BY <2>3, <2>6, <3>1, <3>2
    <3>3. CASE b # new /\ b = r
      BY <2>1, <2>4, <2>6, <3>1, <3>3
    <3>4. CASE b # new /\ b # r
      BY <2>6, <3>1, <3>4 DEF Present, Alike
    <3> QED BY <3>2, <3>3, <3>4
  <2> QED BY <2>7, <2>8
<1> QED BY <1>1, <1>2, <1>3, <1>4
(* The stages a frame goes through, for all that the invariant needs.      *)
LEMMA SightKeeps ==
  ASSUME GroupsInv, Sight
  PROVE  GroupsInv'
<1>1. /\ stage = "match" /\ stage' = "fade"
      /\ entity' = entity /\ made' = made
  BY DEF Sight
<1>2. GroupsTypeOK'
  BY <1>1, SightMembers DEF GroupsInv, GroupsTypeOK
<1>3. NobodyGrouped'
  BY <1>1 DEF NobodyGrouped
<1>4. ASSUME NEW b \in Present
      PROVE  /\ Paid(members[b])'
             /\ members'[b].hold = members[b].hold
             /\ members'[b].last = members[b].last
  <2>1. /\ members[b].hold \in 0..HoldFrames
        /\ members[b].hidden \in 0..HoldFrames
    BY PresentMembers, MemberTypes DEF GroupsInv
  <2>2. /\ members'[b].hold = members[b].hold
        /\ members'[b].last = members[b].last
    BY SightMembers DEF Alike
  <2>3. \/ members'[b].hidden = 0
        \/ /\ members'[b].hidden = members[b].hidden + 1
           /\ members[b].group = NoGroup /\ members[b].hold > 0
    BY SightMembers
  <2>4. Paid(members[b])
    BY DEF GroupsInv, HidingPaid
  <2>5. CASE members'[b].hidden = 0
    BY <1>1, <2>2, <2>5 DEF Paid
  <2>6. CASE /\ members'[b].hidden = members[b].hidden + 1
             /\ members[b].group = NoGroup /\ members[b].hold > 0
    <3>1. 2 * members[b].hidden + members[b].hold < HoldFrames
      BY <1>1, <2>1, <2>4, <2>6, GroupsOK DEF Paid
    <3>2. 2 * members'[b].hidden + members'[b].hold <= HoldFrames + 1
      BY <2>1, <2>2, <2>6, <3>1, GroupsOK
    <3>3. members'[b].hold > 0
      BY <2>2, <2>6
    <3> QED BY <1>1, <2>2, <3>2, <3>3 DEF Paid
  <2> QED BY <2>2, <2>3, <2>5, <2>6
<1>5. HidingPaid'
  BY <1>4, SightMembers DEF HidingPaid
<1>6. HeldGroupKept'
  BY <1>1, <1>4, SightMembers DEF HeldGroupKept, GroupsInv
<1> QED BY <1>2, <1>3, <1>5, <1>6 DEF GroupsInv

LEMMA FadeKeeps ==
  ASSUME GroupsInv, Fade
  PROVE  GroupsInv'
<1>1. /\ \/ stage = "fade" /\ stage' = "group"
         \/ stage = "create" /\ stage' = "regroup"
      /\ made' = made /\ entity' = [g \in Id |-> Aged(entity[g])]
  BY DEF Fade
<1>2. \A g \in Id : /\ entity[g] \in 0..Forgotten
                    /\ entity'[g] = Aged(entity[g])
                    /\ Aged(entity[g]) \in 0..Forgotten
  BY <1>1, GroupsOK DEF GroupsInv, GroupsTypeOK, Forgotten, Aged
<1>3. GroupsTypeOK'
  BY <1>1, <1>2, FadeMembers DEF GroupsInv, GroupsTypeOK
<1>4. ASSUME NEW b \in Present
      PROVE  /\ members'[b].group = NoGroup /\ ~members'[b].primary
             /\ members'[b].hidden = members[b].hidden
             /\ members'[b].hold = IF members[b].hold > 0
                                   THEN members[b].hold - 1 ELSE 0
             /\ members[b].hold > 1 => members'[b].last = members[b].last
             /\ members[b].hold \in 0..HoldFrames
             /\ members[b].hidden \in 0..HoldFrames
             /\ members[b].last \in 0..Births
  <2>1. members[b] \in Member /\ members'[b] = Faded(members[b])
    BY FadeMembers, PresentMembers DEF GroupsInv
  <2>2. /\ Faded(members[b]).group = NoGroup /\ ~Faded(members[b]).primary
        /\ Faded(members[b]).hidden = members[b].hidden
        /\ Faded(members[b]).hold = IF members[b].hold > 0
                                    THEN members[b].hold - 1 ELSE 0
        /\ members[b].hold > 1 => Faded(members[b]).last = members[b].last
    BY <2>1, FadedMember
  <2>3. /\ members[b].hold \in 0..HoldFrames
        /\ members[b].hidden \in 0..HoldFrames
        /\ members[b].last \in 0..Births
    BY <2>1, MemberTypes
  <2> QED BY <2>1, <2>2, <2>3
<1>5. NobodyGrouped'
  BY <1>4, FadeMembers DEF NobodyGrouped, GroupsInv
<1>6. HidingPaid'
  <2> SUFFICES ASSUME NEW b \in Present
               PROVE  Paid(members[b])'
    BY FadeMembers DEF HidingPaid, GroupsInv
  <2>1. Paid(members[b])
    BY DEF GroupsInv, HidingPaid
  <2> QED BY <1>1, <1>4, <2>1, GroupsOK DEF Paid
<1>7. HeldGroupKept'
  <2> SUFFICES ASSUME NEW b \in Present, members'[b].hold > 0
               PROVE  /\ members'[b].last # NoGroup
                      /\ entity'[members'[b].last] + members'[b].hold
                           <= HoldFrames
    BY FadeMembers DEF HeldGroupKept, GroupsInv
  <2>1. /\ members[b].hold > 1 /\ members[b].hold \in 0..HoldFrames
        /\ members'[b].hold = members[b].hold - 1
        /\ members'[b].last = members[b].last
    BY <1>4, GroupsOK
  <2>2. /\ members[b].last # NoGroup
        /\ entity[members[b].last] + members[b].hold <= HoldFrames
    BY <2>1, GroupsOK DEF GroupsInv, HeldGroupKept
  <2>3. members[b].last \in Id
    BY <1>4, <2>2, GroupsOK DEF Id, Birth, NoGroup
  <2>4. /\ entity[members[b].last] \in 0..Forgotten
        /\ entity'[members[b].last] = Aged(entity[members[b].last])
    BY <1>2, <2>3
  <2> QED BY <2>1, <2>2, <2>4, GroupsOK DEF Aged, Forgotten
<1> QED BY <1>3, <1>5, <1>6, <1>7 DEF GroupsInv

LEMMA PassesKeep ==
  ASSUME GroupsInv, Group \/ Regroup
  PROVE  GroupsInv'
<1>1. /\ \/ stage = "group" /\ stage' = "erase"
         \/ stage = "regroup" /\ stage' = "match"
      /\ made' = made /\ Passes /\ GroupsTypeOK /\ HeldGroupKept
  BY DEF Group, Regroup, GroupsInv
<1>2. GroupsTypeOK'
  BY <1>1, PassesTypes DEF GroupsTypeOK
<1>3. NobodyGrouped'
  BY <1>1 DEF NobodyGrouped
<1>4. HidingPaid'
  <2> SUFFICES ASSUME NEW b \in Present
               PROVE  Paid(members[b])'
    BY <1>1, PassesTypes DEF HidingPaid
  <2>1. Paid(members[b])
    BY DEF GroupsInv, HidingPaid
  <2>2. CASE members'[b] = members[b]
    BY <1>1, <2>1, <2>2 DEF Paid
  <2>3. CASE members'[b].group # NoGroup /\ members'[b].hidden = 0
    <3>1. members'[b] \in Member
      BY <1>1, <1>2, PassesTypes, PresentMembers DEF GroupsTypeOK, Present
    <3>2. members'[b].hold \in 0..HoldFrames
      BY <3>1, MemberTypes
    <3> QED BY <1>1, <2>3, <3>2, GroupsOK DEF Paid
  <2> QED BY <1>1, <2>2, <2>3, PassesTypes
<1>5. HeldGroupKept'
  BY <1>1, PassesKeepHolds
<1> QED BY <1>2, <1>3, <1>4, <1>5 DEF GroupsInv

LEMMA EraseKeeps ==
  ASSUME GroupsInv, Erase
  PROVE  GroupsInv'
<1>1. /\ stage = "erase" /\ stage' = "create"
      /\ entity' = entity /\ made' = made
  BY DEF Erase
<1>2. GroupsTypeOK'
  BY <1>1, EraseMembers DEF GroupsInv, GroupsTypeOK
<1>3. NobodyGrouped'
  BY <1>1 DEF NobodyGrouped
<1>4. HidingPaid'
  BY <1>1, EraseMembers DEF GroupsInv, HidingPaid, Paid
<1>5. HeldGroupKept'
  BY <1>1, EraseMembers DEF GroupsInv, HeldGroupKept
<1> QED BY <1>2, <1>3, <1>4, <1>5 DEF GroupsInv

LEMMA NewKeeps ==
  ASSUME GroupsInv, Create \/ \E r \in Birth : TakeOver(r)
  PROVE  GroupsInv'
<1>1. /\ stage = "create" /\ stage' = stage /\ entity' = entity
      /\ members' \in [Birth -> Member \cup {Absent}]
      /\ made' \in 0..Births
  BY NewMembers DEF GroupsInv
<1>2. GroupsTypeOK'
  BY <1>1 DEF GroupsInv, GroupsTypeOK
<1>3. NobodyGrouped'
  BY <1>1 DEF NobodyGrouped
<1>4. ASSUME NEW b \in Present'
      PROVE  /\ Paid(members[b])'
             /\ \/ /\ b \in Present /\ members'[b].hold = members[b].hold
                   /\ members'[b].last = members[b].last
                \/ members'[b].hold = 0
  <2>1. CASE /\ b \in Present /\ Alike(members'[b], members[b])
             /\ members'[b].hidden = members[b].hidden
    <3>1. Paid(members[b])
      BY <2>1 DEF GroupsInv, HidingPaid
    <3> QED BY <1>1, <2>1, <3>1 DEF Paid, Alike
  <2>2. CASE members'[b].hold = 0 /\ members'[b].hidden = 0
    BY <1>1, <2>2, GroupsOK DEF Paid
  <2> QED BY <2>1, <2>2, NewMembers DEF GroupsInv
<1>5. HidingPaid'
  BY <1>4 DEF HidingPaid
<1>6. HeldGroupKept'
  BY <1>1, <1>4 DEF GroupsInv, HeldGroupKept
<1> QED BY <1>2, <1>3, <1>5, <1>6 DEF GroupsInv

(* The invariant that the five below rest on: at each stage of Update, what a   *)
(* track may have spent of its hold while no receiver was sent it.         *)
THEOREM GroupsInvCorrect == GroupsSpec => []GroupsInv
<1>1. GroupsInit => GroupsInv
  BY GroupsOK DEF GroupsInit, GroupsInv, GroupsTypeOK, NobodyGrouped, HidingPaid,
     HeldGroupKept, Present, Id, Birth, Forgotten
<1>2. GroupsInv /\ [GroupsNext]_groupsVars => GroupsInv'
  <2> SUFFICES ASSUME GroupsInv, [GroupsNext]_groupsVars
               PROVE  GroupsInv'
    OBVIOUS
  <2>1. CASE Sight
    BY <2>1, SightKeeps
  <2>2. CASE Fade
    BY <2>2, FadeKeeps
  <2>3. CASE Group \/ Regroup
    BY <2>3, PassesKeep
  <2>4. CASE Erase
    BY <2>4, EraseKeeps
  <2>5. CASE Create \/ \E r \in Birth : TakeOver(r)
    BY <2>5, NewKeeps
  <2>6. CASE UNCHANGED groupsVars
    BY <2>6 DEF groupsVars, GroupsInv, GroupsTypeOK, NobodyGrouped, HidingPaid,
       Paid, HeldGroupKept, Present
  <2> QED BY <2>1, <2>2, <2>3, <2>4, <2>5, <2>6 DEF GroupsNext
<1> QED BY <1>1, <1>2, PTL DEF GroupsSpec

(* The variables of PersonGroups have their types: a hold or a time hidden *)
(* never leaves its range, no entity outlives Forgotten.                   *)
THEOREM GroupsTypes == GroupsSpec => []GroupsTypeOK
<1>1. GroupsInv => GroupsTypeOK
  BY DEF GroupsInv
<1> QED BY <1>1, GroupsInvCorrect, PTL

(* UpdatePersonGroups never erases the person a leg is still held for.     *)
THEOREM HeldAreRemembered == GroupsSpec => []HeldGroupKept
<1>1. GroupsInv => HeldGroupKept
  BY DEF GroupsInv
<1> QED BY <1>1, GroupsInvCorrect, PTL

(* IsHeldPersonLeg keeps a leg in sight from the receivers for at most half *)
(* of HoldFrames in a row: both calls of a frame count its hold down.      *)
THEOREM HidingIsBrief == GroupsSpec => []HiddenBriefly
<1>1. GroupsInv => HiddenBriefly
  <2> SUFFICES ASSUME GroupsInv, NEW b \in Present
               PROVE  2 * members[b].hidden <= HoldFrames
    BY DEF HiddenBriefly
  <2>1. Paid(members[b])
    BY DEF GroupsInv, HidingPaid
  <2>2. /\ members[b].hold \in 0..HoldFrames
        /\ members[b].hidden \in 0..HoldFrames
    BY PresentMembers, MemberTypes DEF GroupsInv
  <2>3. stage \in {"match", "fade", "group", "erase", "create", "regroup"}
    BY DEF GroupsInv, GroupsTypeOK
  <2> QED BY <2>1, <2>2, <2>3, GroupsOK DEF Paid
<1> QED BY <1>1, GroupsInvCorrect, PTL

(* At the end of a frame a confirmed leg of a group has a track that is    *)
(* sent for its group, or a primary in front of it that is not confirmed,  *)
(* whichever tracks are confirmed and whichever the passes paired, held or *)
(* attached.                                                               *)
THEOREM GroupsAreShown == GroupsSpec => []EveryGroupShown
<1>1. GroupsInit => EveryGroupShown
  BY DEF GroupsInit, EveryGroupShown, Legs, Present
<1>2. EveryGroupShown /\ GroupsInv /\ [GroupsNext]_groupsVars
        => EveryGroupShown'
  <2> SUFFICES ASSUME EveryGroupShown, GroupsInv, [GroupsNext]_groupsVars,
                      stage' = "match"
               PROVE  EveryGroupShown'
    BY DEF EveryGroupShown
  <2>1. CASE Regroup
    <3>1. /\ Passes /\ GroupsTypeOK
          /\ \A c \in Present : members[c].group = NoGroup
      BY <2>1 DEF Regroup, GroupsInv, NobodyGrouped
    <3>2. Present' = Present
      BY <3>1, PassesTypes
    <3> SUFFICES ASSUME NEW confirmed \in SUBSET Legs', NEW b \in confirmed,
                        members'[b].group # NoGroup
                 PROVE  \E c \in Legs' :
                          /\ members'[c].group = members'[b].group
                          /\ \/ c \in Sent(confirmed)'
                             \/ /\ c \notin confirmed /\ members'[c].primary
                                /\ members'[c].how # "attached" \/ c < b
      BY DEF EveryGroupShown
    <3>3. b \in Present
      BY <3>2 DEF Legs
    <3>4. PICK c \in Present :
            /\ members'[c].group = members'[b].group /\ members'[c].primary
            /\ c = b \/ members'[c].how # "attached" \/ c < b
      BY <3>1, <3>3, PassesShow
    <3>5. c \in Legs'
      BY <3>1, <3>2, <3>4, PassesSight DEF Legs
    <3>6. c \in confirmed => c \in Sent(confirmed)'
      BY <3>4, <3>5 DEF Sent, IsHeldPersonLeg, Legs
    <3> QED BY <3>4, <3>5, <3>6
  <2>2. CASE UNCHANGED groupsVars
    BY <2>2 DEF groupsVars, EveryGroupShown, Sent, IsHeldPersonLeg, IsHeld,
       Legs, Present
  <2> QED BY <2>1, <2>2 DEF GroupsNext, Sight, Fade, Group, Erase, Create,
                            TakeOver
<1> QED BY <1>1, <1>2, GroupsInvCorrect, PTL DEF GroupsSpec

(* A person is sent twice only where a held pair took its last group back  *)
(* unasked, or where two tracks bear one id.                               *)
THEOREM TwiceIsByHold == GroupsSpec => []TwiceOnlyByHold
<1>1. GroupsInit => TwiceOnlyByHold
  BY DEF GroupsInit, TwiceOnlyByHold, Present
<1>2. TwiceOnlyByHold /\ GroupsInv /\ [GroupsNext]_groupsVars
        => TwiceOnlyByHold'
  <2> SUFFICES ASSUME TwiceOnlyByHold, GroupsInv, [GroupsNext]_groupsVars
               PROVE  TwiceOnlyByHold'
    OBVIOUS
  <2>1. CASE Group \/ Regroup
    <3>1. Passes /\ GroupsTypeOK /\ \A b \in Present : ~members[b].primary
      BY <2>1 DEF Group, Regroup, GroupsInv, NobodyGrouped
    <3> QED BY <3>1, PassesTwice
  <2>2. SUFFICES ASSUME \A b \in Present' :
                          \/ ~members'[b].primary
                          \/ b \in Present /\ Alike(members'[b], members[b])
                 PROVE  TwiceOnlyByHold'
    <3>1. CASE Sight
      BY <2>2, <3>1, SightMembers
    <3>2. CASE Fade
      <4>1. \A b \in Present' : b \in Present /\ members[b] \in Member
                                /\ members'[b] = Faded(members[b])
        BY <3>2, FadeMembers, PresentMembers DEF GroupsInv
      <4>2. \A b \in Present' : ~members'[b].primary
        BY <4>1, FadedMember
      <4> QED BY <2>2, <4>2
    <3>3. CASE Erase
      BY <2>2, <3>3, EraseMembers DEF Alike, GroupsInv
    <3>4. CASE Create \/ \E r \in Birth : TakeOver(r)
      BY <2>2, <3>4, NewMembers DEF GroupsInv
    <3>5. CASE UNCHANGED groupsVars
      BY <2>2, <3>5 DEF groupsVars, Present, Alike
    <3> QED BY <2>1, <3>1, <3>2, <3>3, <3>4, <3>5 DEF GroupsNext
  <2> QED BY <2>2 DEF TwiceOnlyByHold, Alike
<1> QED BY <1>1, <1>2, GroupsInvCorrect, PTL DEF GroupsSpec
=============================================================================
