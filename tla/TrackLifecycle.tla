---------------------------- MODULE TrackLifecycle ----------------------------
(***************************************************************************)
(* ClusterTracker::Update: the life of a track (born, confirmed, lost,     *)
(* recovered, deleted) and of the accusation it may carry (suspect,        *)
(* dumped item, alert, cancelled).  One action per stage of Update; the    *)
(* stages run in the order phase imposes, on one thread.                   *)
(*                                                                         *)
(* Geometry is a free choice: which track a cluster matches, which lost    *)
(* track it recovers, whose path it lies on, who is near it; so is for how *)
(* many frames a suspect is watched.  Distances walked are in coarse       *)
(* units.  Person groups, departure events and the early photo of a        *)
(* suspect are left out.                                                   *)
(***************************************************************************)
EXTENDS Integers, FiniteSets

CONSTANTS
  Slot,          \* positions of tracks_ (the program has no limit)
  MaxId,         \* bound: ids that AllocId hands out
  LastBirth,     \* bound: ids above it go to recoveries and separations only
  ConfirmRun,    \* tentative_confirm_frames
  TentMaxAge,    \* tentative_max_age
  Walked,        \* min_walk_dist_mm; stationary_track_max_cum_dist_mm is 0
  MinAge,        \* min_age_for_dump
  BirthAge,      \* dump_candidate_birth_frames
  FirstAge,      \* ages tracks start at: 1, and 0 beside another track
  StillMin,      \* frames a track must rest before it can be an object
  RecoveryLost,  \* recovery_max_lost_frames
  SuspectLost,   \* suspect_lost_frames_limit
  LostLimit,     \* lost_age_limit
  DumpedLimit    \* dumped_item_lost_age_limit

ASSUME ConstantsOK ==
  /\ Slot \subseteq Nat
  /\ {MaxId, LastBirth, ConfirmRun, TentMaxAge, Walked, MinAge, BirthAge,
      StillMin, RecoveryLost, SuspectLost, LostLimit, DumpedLimit}
       \subseteq Nat \ {0}
  /\ FirstAge \subseteq {0, 1} /\ ConfirmRun > 1
  /\ RecoveryLost <= LostLimit /\ SuspectLost <= LostLimit
  /\ LostLimit < DumpedLimit
  /\ TentMaxAge <= BirthAge + 1 /\ MinAge <= BirthAge + 1

VARIABLES
  tracks,   \* what each slot holds: a Track, or Free
  next_id_,
  phase     \* the stage of Update that comes next; "idle" between frames

vars == <<tracks, next_id_, phase>>

Free == [id |-> 0]     \* no track has id 0
NoSource == 0          \* source_id -1
Settled == 0           \* stationary_track_max_cum_dist_mm

(* Counters stop where no guard tells their values apart.  lineage is      *)
(* history: a track is superseded when another takes over its id, and if   *)
(* it is seen again after that, all tracks of the id are doubled.          *)
Track ==
  [id : 1..MaxId, run : 0..ConfirmRun, age : 0..BirthAge + 1,
   lost : 0..DumpedLimit + 1, still : 0..StillMin, dist : 0..Walked,
   mark : {"plain", "suspect", "dumped"}, source : 0..MaxId,
   alert : {"silent", "fired"},
   lineage : {"current", "superseded", "doubled"}]

Phase == {"idle", "judge", "separate", "create", "accuse"}

UpTo(n, bound) == IF n < bound THEN n ELSE bound

Live == {s \in Slot : tracks[s] # Free}
Marked(m) == {s \in Live : tracks[s].mark = m}
Plain == Marked("plain")

Confirmed(t) == t.run = ConfirmRun

Init ==
  /\ tracks = [s \in Slot |-> Free] /\ next_id_ = 1 /\ phase = "idle"
-----------------------------------------------------------------------------
(* Mutants: an operator named after a definition and a fault is that       *)
(* definition with the fault; no specification uses it.                    *)
AllocIdReused == next_id_ <= MaxId /\ UNCHANGED next_id_

LifetimeOfAll(t) == LostLimit

(* Stages 1 to 3: every track is matched by a cluster or missed.  A track  *)
(* is matched at any lost count: AssociateGreedy's first pass looks at the *)
(* distance only.                                                          *)
Sighting == [step : {"rest", "move", "missed"}, dist : 0..Walked]

(* The distance a track has walked only grows.                             *)
MaySee(t, g) == IF g.step = "missed" THEN g.dist = t.dist ELSE g.dist >= t.dist

Matched(t, g) ==
  [t EXCEPT
     !.lost = 0, !.run = UpTo(@ + 1, ConfirmRun), !.age = UpTo(@ + 1, BirthAge + 1),
     !.still = IF g.step = "move" THEN 0 ELSE UpTo(@ + 1, StillMin),
     !.dist = g.dist]

(* No longer under suspicion: what every rejection of a suspect resets.    *)
Dropped(t) == [t EXCEPT !.mark = "plain", !.source = NoSource]

Lost(t) ==
  [t EXCEPT !.lost = @ + 1, !.run = IF Confirmed(t) THEN @ ELSE 0]

Missed(t) ==
  IF t.mark = "suspect" /\ t.lost + 1 > SuspectLost THEN Dropped(Lost(t))
  ELSE Lost(t)

Followed(t, g) == IF g.step = "missed" THEN Missed(t) ELSE Matched(t, g)

(* The ids of superseded tracks that are seen again.                       *)
Resurfaced(sighting) ==
  {tracks[s].id : s \in {r \in Live : /\ tracks[r].lineage = "superseded"
                                     /\ sighting[r].step # "missed"}}

Lineage(t, twins) == IF t.id \in twins THEN "doubled" ELSE t.lineage

Match ==
  /\ phase = "idle" /\ phase' = "judge"
  /\ \E sighting \in [Live -> Sighting] :
       /\ \A s \in Live : MaySee(tracks[s], sighting[s])
       /\ LET twins == Resurfaced(sighting)
          IN tracks' = [s \in Slot |-> IF s \in Live
               THEN [Followed(tracks[s], sighting[s]) EXCEPT
                       !.lineage = Lineage(tracks[s], twins)]
               ELSE Free]
  /\ UNCHANGED next_id_
-----------------------------------------------------------------------------
(* Stage 4: a suspect is held back (somebody is near it, or it was not     *)
(* watched for long enough), rejected (its size, or the spread of its      *)
(* width), or promoted, once its source has departed.                      *)
Verdict == {"hold", "reject", "promote"}

Judged(t, v) ==
  CASE v = "hold" -> t
    [] v = "reject" -> Dropped(t)
    [] v = "promote" -> [t EXCEPT !.mark = "dumped"]

(* Stage 5: the lifetime a track has without being seen.  One that has     *)
(* walked, and moved (was_moving), goes when it can no longer be recovered.*)
Lifetime(t) == IF t.mark = "plain" THEN LostLimit ELSE DumpedLimit

Expired(t) ==
  \/ t.mark = "plain" /\ ~Confirmed(t) /\ t.age + t.lost >= TentMaxAge
  \/ t.lost > Lifetime(t)

WalkedOff(t) == t.mark = "plain" /\ t.dist >= Walked /\ t.lost > RecoveryLost

Kept(t) == IF Expired(t) THEN Free ELSE t

Judge ==
  /\ phase = "judge" /\ phase' = "separate"
  /\ \E verdict \in [Marked("suspect") -> Verdict] :
       LET judged == [s \in Live |-> IF s \in Marked("suspect")
                        THEN Judged(tracks[s], verdict[s]) ELSE tracks[s]]
       IN \E early \in SUBSET {s \in Live : WalkedOff(judged[s])} :
            tracks' = [s \in Slot |-> IF s \in Live \ early
                         THEN Kept(judged[s]) ELSE Free]
  /\ UNCHANGED next_id_
-----------------------------------------------------------------------------
(* Stage 6: unmatched clusters.  An id is taken before a recovery is       *)
(* looked for, so a recovery uses one up.  2^32 ids do not wrap here.      *)
AllocId == next_id_ <= MaxId /\ next_id_' = next_id_ + 1

NewTrack(i) ==
  [id |-> i, run |-> UpTo(1, ConfirmRun), age |-> 1, lost |-> 0, still |-> 0,
   dist |-> 0, mark |-> "plain", source |-> NoSource,
   alert |-> "silent", lineage |-> "current"]

(* Slots are alike: a new track takes the first free one.                  *)
Vacant(s) == s \notin Live /\ \A r \in Slot \ Live : s <= r

(* Somebody who may have left the object: the tests of DetectSeparation    *)
(* that are not geometric (age is tested on one of its three paths only).  *)
MaySeparate(p) == p \in Plain /\ tracks[p].lost <= 1 /\ tracks[p].dist >= Walked

DetectSeparation(s, p) ==
  /\ phase = "separate" /\ UNCHANGED phase
  /\ Vacant(s) /\ MaySeparate(p) /\ AllocId
  /\ tracks' = [tracks EXCEPT ![s] =
                  [NewTrack(next_id_) EXCEPT !.run = ConfirmRun,
                     !.mark = "suspect", !.source = tracks[p].id]]

(* A new track; beside an established one it may be a leg: age 0.           *)
Appear(s) ==
  /\ phase \in {"separate", "create"} /\ phase' = "create"
  /\ Vacant(s) /\ next_id_ <= LastBirth /\ AllocId
  /\ \E a \in FirstAge :
       tracks' = [tracks EXCEPT ![s] = [NewTrack(next_id_) EXCEPT !.age = a]]

Recoverable(t) == t.mark = "plain" /\ t.lost \in 1..RecoveryLost

SuccessorUnwalked(t) ==
  [NewTrack(t.id) EXCEPT !.age = t.age, !.run = t.run, !.lineage = t.lineage]

(* A new track takes over what was known of a lost one, but not whether    *)
(* its alert fired; the lost one stays, to be deleted in the next frame.   *)
Successor(t) ==
  [NewTrack(t.id) EXCEPT !.dist = t.dist, !.age = t.age, !.run = t.run,
     !.lineage = t.lineage]

Handed(l) == IF l = "doubled" THEN "doubled" ELSE "superseded"

Recover(s, l) ==
  /\ phase \in {"separate", "create"} /\ phase' = "create"
  /\ Vacant(s) /\ l \in Live /\ Recoverable(tracks[l]) /\ AllocId
  /\ tracks' = [tracks EXCEPT ![s] = Successor(tracks[l]),
                              ![l].lost = LostLimit + 1,
                              ![l].lineage = Handed(@)]
-----------------------------------------------------------------------------
(* Stage 6.5: a young track at rest, lost or not, is an object that a      *)
(* person left if it lies on the person's path.                            *)
MayBeObject(t) ==
  /\ t.mark = "plain" /\ t.alert = "silent"
  /\ t.still >= StillMin /\ t.age <= BirthAge /\ t.dist = Settled

MayBeOwner(t) ==
  /\ t.mark = "plain" /\ t.lost <= RecoveryLost
  /\ t.dist >= Walked /\ t.age >= MinAge

TrajectoryMatch(o, p) ==
  /\ phase \in {"separate", "create", "accuse"} /\ phase' = "accuse"
  /\ o \in Live /\ p \in Live /\ tracks[p].id # tracks[o].id
  /\ MayBeObject(tracks[o]) /\ MayBeOwner(tracks[p])
  /\ tracks' = [tracks EXCEPT ![o].mark = "suspect", ![o].source = tracks[p].id]
  /\ UNCHANGED next_id_

(* Stage 7: some of the dumped items at rest, from which the source has    *)
(* departed, raise their alert: DumpValidator watches them from now on.    *)
MayAlert(t) == t.mark = "dumped" /\ t.alert = "silent"

CheckConfirmation ==
  /\ phase \in {"separate", "create", "accuse"} /\ phase' = "idle"
  /\ \E A \in SUBSET {s \in Live : MayAlert(tracks[s])} :
       tracks' = [s \in Slot |-> IF s \in A
                    THEN [tracks[s] EXCEPT !.alert = "fired"] ELSE tracks[s]]
  /\ UNCHANGED next_id_

(* Between frames main may pass an id whose alert fired to ClearDumpFlags  *)
(* (module DumpValidation says when).  It clears one track of that id, and *)
(* keeps its alert.                                                        *)
Cleared(t) == [t EXCEPT !.mark = "plain", !.source = NoSource]

Alerted == {tracks[s].id : s \in {r \in Live : tracks[r].alert = "fired"}}

Cancel(s) ==
  /\ phase = "idle" /\ s \in Live /\ tracks[s].id \in Alerted
  /\ tracks' = [tracks EXCEPT ![s] = Cleared(@)]
  /\ UNCHANGED <<next_id_, phase>>

Next ==
  \/ Match \/ Judge \/ CheckConfirmation
  \/ \E s \in Slot : Appear(s) \/ Cancel(s)
  \/ \E s, t \in Slot :
       DetectSeparation(s, t) \/ Recover(s, t) \/ TrajectoryMatch(s, t)

Spec == Init /\ [][Next]_vars
-----------------------------------------------------------------------------
(* Every variable keeps its type; no counter passes its bound.             *)
TypeOK ==
  /\ tracks \in [Slot -> Track \cup {Free}]
  /\ next_id_ \in 1..MaxId + 1
  /\ phase \in Phase

(* A track has a source exactly while it is accused: the six places that   *)
(* accuse, promote, drop and clear keep the flags and source_id in step    *)
(* (IsBackgroundResidualTrack relies on it, cluster_tracker.h:403).        *)
SourceIffAccused ==
  \A s \in Live : tracks[s].mark # "plain" <=> tracks[s].source # NoSource

(* An id means one track: of two tracks that share it, through recoveries  *)
(* of recoveries, one was superseded.                                      *)
OneCurrentTrack ==
  \A s, r \in Live :
    s # r /\ tracks[s].id = tracks[r].id =>
      tracks[s].lineage # "current" \/ tracks[r].lineage # "current"

(* Nobody is accused who has not walked: as long as the source of a        *)
(* suspect or dumped item lives, also through occlusion and recovery, it   *)
(* has covered min_walk_dist_mm and is not an accused object itself.  An   *)
(* id under which two tracks were seen is excepted: it names both.         *)
AccusedWalked ==
  \A s \in Live \ Plain, p \in Live :
    tracks[p].id = tracks[s].source /\ tracks[p].lineage # "doubled" =>
      tracks[p].mark = "plain" /\ tracks[p].dist >= Walked

(* A track whose dumping DumpValidator cancelled does not become a suspect *)
(* again: its alert stays fired.                                           *)
CancelledNotAccusedAgain ==
  \A s \in Marked("suspect") : tracks[s].alert = "silent"

(* A superseded track that is not seen in the next frame is gone after     *)
(* it: the original is to be removed (cluster_tracker.cpp:977).            *)
SupersededGo ==
  phase = "separate" => \A s \in Live : tracks[s].lineage # "superseded"

(* Nothing is promoted on the strength of an object that is out of sight:  *)
(* whatever stage 4 judges was seen in the last SuspectLost frames, also   *)
(* an object that was lost for longer when stage 6.5 accused it.           *)
SuspectsSeenLately ==
  phase = "judge" => \A s \in Marked("suspect") : tracks[s].lost <= SuspectLost

(* A dumped item ends only by a cancellation or after DumpedLimit missed   *)
(* frames, however often it is occluded.                                   *)
DumpsOutlastOcclusion ==
  [][\A s \in Marked("dumped") :
       \/ tracks'[s].id = tracks[s].id /\ tracks'[s].mark = "dumped"
       \/ tracks'[s] = Free /\ tracks[s].lost > DumpedLimit
       \/ phase = "idle" /\ tracks[s].id \in Alerted
            /\ tracks'[s] = Cleared(tracks[s])]_vars

(* What newly_created_after_source says (cluster_tracker.h:149) and the    *)
(* birth gate promises (README.md:130): an accused object came after its   *)
(* source.  Ids are given out in the order of birth.                       *)
BlamedWasFirst ==
  \A s \in Live \ Plain : tracks[s].source < tracks[s].id
=============================================================================
