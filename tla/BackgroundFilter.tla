-------------------------- MODULE BackgroundFilter --------------------------
(***************************************************************************)
(* BackgroundFilter (background_filter.cpp): which clusters are taken for  *)
(* background.  A place stands for the positions within match_radius_mm of *)
(* each other and shows at most one cluster per frame; Near relates places *)
(* that are further apart, but within residual_filter_radius_mm.  Of a     *)
(* width only the limit of the residual filter counts: clusters too tiny   *)
(* to be learnt are none while the filter learns, and the slack of 30 mm   *)
(* for them is left out.  Both enable_ parameters are on, as in            *)
(* production.  What the tracker protects is free; ages are frames.        *)
(***************************************************************************)
EXTENDS Integers

CONSTANTS
  Place,         \* positions
  Near,          \* pairs of places
  LearnFrames,   \* learning_frames
  ResidualAfter, \* residual_filter_after_frames
  AddAfter,      \* add_after_frames
  RemoveAfter,   \* remove_after_absent
  LongAdd,       \* long_term_add_frames
  LongRemove     \* long_term_remove_after

(* An entry is confirmed at its second sighting at the earliest, whatever  *)
(* AddAfter and LongAdd say.                                               *)
ASSUME ParamsOK ==
  /\ Near \subseteq Place \X Place
  /\ AddAfter > 1 /\ LongAdd > 1
  /\ {LearnFrames, ResidualAfter, AddAfter, RemoveAfter, LongAdd, LongRemove}
       \subseteq Nat \ {0}
  /\ ResidualAfter <= AddAfter /\ ResidualAfter <= LongAdd
  /\ AddAfter <= RemoveAfter /\ RemoveAfter <= LongRemove

VARIABLES
  frame_count_, \* frames of the learning phase, up to LearnFrames
  candidate,    \* background_map_: the unconfirmed entry of each place
  short,        \* background_map_: absent_count of its oldest confirmed entry
  long,         \* long_term_map_: its entry
  protected,    \* protected_positions_
  hidden,       \* the places whose cluster the last frame filtered out
  staying,      \* history: frames in a row with a large, unprotected cluster
  gone,         \* history: empty frames since the last cluster, in operation
  known         \* history: frames that passed one on since RemoveAfter empty ones

mapVars == <<candidate, short, long>>
history == <<staying, gone, known>>
vars == <<frame_count_, mapVars, protected, hidden, history>>

(* Younger confirmed entries of a place are left out: the loops stop at    *)
(* the oldest, whose absent_count is never larger than theirs.             *)
None == [seen |-> -1]
Absent == -1

Sight == {"none", "medium", "large"}  \* by residual_filter_max_width_mm

(* By then a large object must be background.                              *)
Settled == IF 2 * AddAfter > LongAdd + 1 THEN 2 * AddAfter ELSE LongAdd + 1

UpTo(n, bound) == IF n < bound THEN n ELSE bound

(* seen is 0 if a place was protected when it was to be confirmed.         *)
Candidate == [seen : Nat, absent : 0..RemoveAfter]
LongEntry == [seen : 1..LongAdd, absent : 0..LongRemove, confirmed : BOOLEAN]

Learning == frame_count_ < LearnFrames

(* What lies within residual_filter_radius_mm of a place.                  *)
Around(p) == {q \in Place : q = p \/ <<p, q>> \in Near}

TypeOK ==
  /\ frame_count_ \in 0..LearnFrames
  /\ candidate \in [Place -> Candidate \cup {None}]
  /\ \A p \in Place : candidate[p].seen < (IF Learning THEN LearnFrames ELSE AddAfter)
  /\ short \in [Place -> Absent..RemoveAfter]
  /\ long \in [Place -> LongEntry \cup {None}]
  /\ protected \in SUBSET Place
  /\ hidden \in SUBSET Place
  /\ staying \in [Place -> 0..Settled]
  /\ gone \in [Place -> 0..LongRemove + 1]
  /\ known \in [Place -> 0..ResidualAfter]

Init ==
  /\ frame_count_ = 0
  /\ candidate = [p \in Place |-> None]
  /\ short = [p \in Place |-> Absent]
  /\ long = [p \in Place |-> None]
  /\ protected = {}
  /\ hidden = {}
  /\ staying = [p \in Place |-> 0]
  /\ gone = [p \in Place |-> 0]
  /\ known = [p \in Place |-> 0]
-----------------------------------------------------------------------------
(* The learning phase: clusters are counted, and the last frame confirms   *)
(* what was there in 30% of the frames.                                    *)
MinSeen == LET n == (LearnFrames * 3) \div 10 IN IF n > 1 THEN n ELSE 1

Learnt(p, w) ==
  IF w = "none" THEN candidate[p]
  ELSE IF candidate[p] = None THEN [seen |-> 1, absent |-> 0]
  ELSE [candidate[p] EXCEPT !.seen = @ + 1]

Stable(p, w) == Learnt(p, w) # None /\ Learnt(p, w).seen >= MinSeen

LearnFrame(look) ==
  /\ Learning
  /\ frame_count_' = frame_count_ + 1
  /\ IF frame_count_ + 1 < LearnFrames
     THEN /\ candidate' = [p \in Place |-> Learnt(p, look[p])]
          /\ UNCHANGED <<short, long, known>>
     ELSE /\ candidate' = [p \in Place |-> None]
          /\ short' = [p \in Place |-> IF Stable(p, look[p]) THEN 0 ELSE Absent]
          /\ long' = [p \in Place |->
               IF Stable(p, look[p])
               THEN [seen |-> UpTo(Learnt(p, look[p]).seen, LongAdd),
                     absent |-> 0, confirmed |-> TRUE]
               ELSE None]
          /\ known' = [p \in Place |-> IF Stable(p, look[p]) THEN ResidualAfter ELSE 0]
  /\ UNCHANGED <<protected, hidden, staying, gone>>
-----------------------------------------------------------------------------
(* Mutants: an operator named after a definition and a fault is that       *)
(* definition with the fault; no specification uses it.                    *)

(* residual_filter_after_frames is off by one *)
ResidualEarly(p, w) ==
  /\ w = "medium"
  /\ \E q \in Around(p) : candidate[q] # None /\ candidate[q].seen >= ResidualAfter - 1

(* sightings do not reset a confirmed entry, as they do not a candidate *)
ShortAgedBlind(p, seen) ==
  IF short[p] = Absent \/ short[p] + 1 > RemoveAfter THEN Absent ELSE short[p] + 1

(* what the long-term map has confirmed stays *)
LongAgedForever(p, seen) ==
  IF long[p] = None \/ long[p].confirmed THEN long[p]
  ELSE IF long[p].absent + 1 > LongRemove THEN None
  ELSE [long[p] EXCEPT !.absent = @ + 1]

-----------------------------------------------------------------------------
(* FilterBackground: a cluster at a protected place stays; a narrow one at *)
(* a candidate seen long enough goes; one that both maps know goes.        *)
Residual(p, w) ==
  /\ w = "medium"
  /\ \E q \in Around(p) : candidate[q] # None /\ candidate[q].seen >= ResidualAfter

Guarded(p) == Around(p) \cap protected # {}

Background(p) == short[p] # Absent /\ long[p] # None /\ long[p].confirmed

Filtered(p, w) == ~Guarded(p) /\ (Residual(p, w) \/ Background(p))

(* AdaptiveUpdate.  A candidate's absent_count is never reset: it is       *)
(* erased RemoveAfter frames after it came up, whether it is seen or not.  *)
Aged(p) ==
  IF candidate[p] = None \/ candidate[p].absent + 1 > RemoveAfter THEN None
  ELSE [candidate[p] EXCEPT !.absent = @ + 1]

Counted(p) ==
  IF Aged(p) = None THEN [seen |-> 1, absent |-> 0] ELSE [Aged(p) EXCEPT !.seen = @ + 1]

(* A new entry is not asked: it is pushed unconfirmed.                     *)
Ripe(p) == Aged(p) # None /\ Counted(p).seen >= AddAfter

(* The candidate at a place where a cluster passed the filter.             *)
Raised(p) ==
  IF ~Ripe(p) THEN Counted(p)
  ELSE IF p \in protected THEN [Counted(p) EXCEPT !.seen = 0] ELSE None

ShortAged(p, seen) ==
  IF short[p] = Absent THEN Absent
  ELSE IF seen THEN 0
  ELSE IF short[p] + 1 > RemoveAfter THEN Absent ELSE short[p] + 1

ShortRaised(p) ==
  IF short[p] = Absent /\ Ripe(p) /\ p \notin protected THEN Counted(p).absent
  ELSE ShortAged(p, TRUE)

LongAged(p, seen) ==
  IF long[p] = None THEN None
  ELSE IF long[p].confirmed /\ seen THEN [long[p] EXCEPT !.absent = 0]
  ELSE IF long[p].absent + 1 > LongRemove THEN None
  ELSE [long[p] EXCEPT !.absent = @ + 1]

LongCounted(e) ==
  LET n == UpTo(e.seen + 1, LongAdd)
  IN [seen |-> n, absent |-> 0, confirmed |-> e.confirmed \/ n >= LongAdd]

LongRaised(p) ==
  IF LongAged(p, TRUE) = None THEN [seen |-> 1, absent |-> 0, confirmed |-> FALSE]
  ELSE LongCounted(LongAged(p, TRUE))

(* observed are the places with a cluster, fore those where it remains.    *)
AdaptiveUpdate(observed, fore) ==
  /\ candidate' = [p \in Place |-> IF p \in fore THEN Raised(p) ELSE Aged(p)]
  /\ short' = [p \in Place |->
       IF p \in fore THEN ShortRaised(p) ELSE ShortAged(p, p \in observed)]
  /\ long' = [p \in Place |->
       IF p \in fore THEN LongRaised(p) ELSE LongAged(p, p \in observed)]

(* What an observer of the places and of the tracker's input notes.        *)
Note(look, observed, fore) ==
  /\ staying' = [p \in Place |->
       IF look[p] = "large" /\ ~Guarded(p) THEN UpTo(staying[p] + 1, Settled) ELSE 0]
  /\ gone' = [p \in Place |-> IF p \in observed THEN 0 ELSE UpTo(gone[p] + 1, LongRemove + 1)]
  /\ known' = [p \in Place |->
       IF p \in fore THEN UpTo(known[p] + 1, ResidualAfter)
       ELSE IF gone'[p] > RemoveAfter THEN 0 ELSE known[p]]

(* Apply in operation, and what main protects for the next frame.          *)
TrackFrame(look) ==
  LET observed == {p \in Place : look[p] # "none"}
      dropped == {p \in observed : Filtered(p, look[p])}
  IN /\ ~Learning
     /\ AdaptiveUpdate(observed, observed \ dropped)
     /\ protected' \in SUBSET Place
     /\ hidden' = dropped
     /\ Note(look, observed, observed \ dropped)
     /\ UNCHANGED frame_count_

(* Reset, on SIGUSR1, between two frames.                                  *)
Reset ==
  /\ frame_count_' = 0
  /\ candidate' = [p \in Place |-> None]
  /\ short' = [p \in Place |-> Absent]
  /\ long' = [p \in Place |-> None]
  /\ protected' = {}
  /\ hidden' = {}
  /\ known' = [p \in Place |-> 0]
  /\ gone' = [p \in Place |-> 0]
  /\ staying' = [p \in Place |-> 0]

Next ==
  \/ \E look \in [Place -> Sight] : LearnFrame(look) \/ TrackFrame(look)
  \/ Reset

Spec == Init /\ [][Next]_vars
-----------------------------------------------------------------------------
(* What left is forgotten: after RemoveAfter empty frames nothing is       *)
(* filtered on the strength of the short-term map, after LongRemove not    *)
(* even the long-term map knows the place.                                 *)
GoneIsForgotten ==
  \A p \in Place :
    /\ gone[p] > RemoveAfter => short[p] = Absent /\ candidate[p] = None
    /\ gone[p] > LongRemove => long[p] = None

(* An object put down where everything around was empty is passed on to    *)
(* the tracker in ResidualAfter frames before anything filters it, however *)
(* it is seen, missed and protected in between; or it was learnt.          *)
NewObjectShown ==
  [][\A p \in hidden' : \E q \in Around(p) : known[q] >= ResidualAfter]_vars

(* A large object that nobody protects and that stays is filtered after at *)
(* most 2 * AddAfter or LongAdd + 1 frames, whatever the maps held of its  *)
(* place before, and from then on: the short-term map, which may have to   *)
(* start again once, and the long-term map settle at rates of their own.   *)
LargeObjectSettles == \A p \in Place : staying[p] = Settled => p \in hidden
=============================================================================
