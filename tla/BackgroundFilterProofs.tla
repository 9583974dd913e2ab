----------------------- MODULE BackgroundFilterProofs -----------------------
(***************************************************************************)
(* Theorems about BackgroundFilter for any places and any parameters that  *)
(* the assumptions allow: the types, that what left is forgotten, that a   *)
(* new object is shown before it is filtered, and that a large one that    *)
(* stays is filtered in time.                                              *)
(***************************************************************************)
EXTENDS BackgroundFilter, TLAPS

(* --- the parts of the invariant ----------------------------------------- *)

(* While the filter learns nothing is filtered or known, and the candidates *)
(* are counted by the frames.                                               *)
LearningFresh ==
  Learning =>
    /\ hidden = {}
    /\ \A p \in Place :
         /\ candidate[p] # None => candidate[p].seen \in 1..frame_count_
         /\ short[p] = Absent /\ long[p] = None
         /\ gone[p] = 0 /\ staying[p] = 0

(* No entry is younger than the absence of what it stands for. *)
Absence(p) ==
  /\ candidate[p] # None => gone[p] <= candidate[p].absent
  /\ short[p] # Absent => gone[p] <= short[p]
  /\ long[p] # None => gone[p] <= long[p].absent

(* What the short-term map has counted was passed on. *)
Counts(p) ==
  ~Learning =>
    /\ candidate[p] # None => candidate[p].seen <= known[p] \/ known[p] = ResidualAfter
    /\ short[p] # Absent => known[p] = ResidualAfter

(* After staying[p] frames with a large object: the short-term map has      *)
(* confirmed it, or counts it with a candidate that was there already, or   *)
(* with one that replaced it since; the long-term map has confirmed or      *)
(* counted it.                                                              *)
ShortSettling(p) ==
  staying[p] > 0 /\ short[p] = Absent =>
    /\ candidate[p] # None
    /\ \/ candidate[p].seen >= staying[p]
       \/ /\ candidate[p].seen = candidate[p].absent + 1
          /\ staying[p] < candidate[p].seen + AddAfter

LongSettling(p) ==
  /\ long[p] # None /\ ~long[p].confirmed => long[p].seen < LongAdd
  /\ staying[p] > 0 =>
       /\ long[p] # None
       /\ long[p].confirmed \/ (long[p].seen >= staying[p] /\ long[p].absent = 0)

IInv ==
  /\ TypeOK
  /\ LearningFresh
  /\ \A p \in Place :
       Absence(p) /\ Counts(p) /\ ShortSettling(p) /\ LongSettling(p)
  /\ LargeObjectSettles
-----------------------------------------------------------------------------
LEMMA Bounds ==
  /\ LearnFrames \in Nat /\ LearnFrames >= 1 /\ ResidualAfter \in Nat /\ ResidualAfter >= 1
  /\ AddAfter \in Nat /\ RemoveAfter \in Nat /\ LongAdd \in Nat /\ LongRemove \in Nat
  /\ ResidualAfter <= AddAfter /\ ResidualAfter <= LongAdd
  /\ AddAfter <= RemoveAfter /\ RemoveAfter <= LongRemove
  /\ Settled \in Nat /\ Settled >= 2 * AddAfter /\ Settled >= LongAdd + 1
  /\ Settled = 2 * AddAfter \/ Settled = LongAdd + 1
BY ParamsOK DEF Settled

LEMMA CandidateApart == None \notin Candidate /\ None \notin LongEntry
<1>1. None.seen = -1
  BY DEF None
<1>2. ASSUME NEW c \in Candidate PROVE c # None
  BY <1>1, Bounds DEF Candidate
<1>3. ASSUME NEW c \in LongEntry PROVE c # None
  <2>1. c.seen \in 1..LongAdd
    BY DEF LongEntry
  <2> QED BY <1>1, <2>1
<1> QED BY <1>2, <1>3

LEMMA CandidateFields ==
  ASSUME TypeOK, NEW p \in Place, candidate[p] # None
  PROVE  /\ candidate[p] \in Candidate
         /\ candidate[p].seen \in Nat /\ candidate[p].absent \in 0..RemoveAfter
BY DEF TypeOK, Candidate

LEMMA LongFields ==
  ASSUME TypeOK, NEW p \in Place, long[p] # None
  PROVE  /\ long[p] \in LongEntry
         /\ long[p].seen \in 1..LongAdd /\ long[p].absent \in 0..LongRemove
         /\ long[p].confirmed \in BOOLEAN
BY DEF TypeOK, LongEntry

(* --- the entries a frame leaves ----------------------------------------- *)

LEMMA AgedEntry ==
  ASSUME TypeOK, NEW p \in Place
  PROVE  \/ Aged(p) = None /\ (candidate[p] = None \/ candidate[p].absent = RemoveAfter)
         \/ /\ candidate[p] # None /\ candidate[p].absent < RemoveAfter
            /\ Aged(p) \in Candidate
            /\ Aged(p).seen = candidate[p].seen
            /\ Aged(p).absent = candidate[p].absent + 1
<1> USE Bounds
<1>1. CASE candidate[p] = None
  BY <1>1 DEF Aged
<1>2. CASE candidate[p] # None
  <2>1. candidate[p] \in Candidate /\ candidate[p].absent \in 0..RemoveAfter
    BY <1>2, CandidateFields
  <2>2. CASE candidate[p].absent = RemoveAfter
    BY <2>1, <2>2 DEF Aged
  <2>3. CASE candidate[p].absent < RemoveAfter
    <3>1. Aged(p) = [candidate[p] EXCEPT !.absent = @ + 1]
      BY <1>2, <2>1, <2>3 DEF Aged
    <3>2. candidate[p].absent + 1 \in 0..RemoveAfter
      BY <2>1, <2>3
    <3> QED BY <1>2, <2>1, <2>3, <3>1, <3>2 DEF Candidate
  <2> QED BY <2>1, <2>2, <2>3
<1> QED BY <1>1, <1>2

LEMMA CountedEntry ==
  ASSUME TypeOK, NEW p \in Place
  PROVE  /\ Counted(p) \in Candidate
         /\ Aged(p) = None => Counted(p).seen = 1 /\ Counted(p).absent = 0
         /\ Aged(p) # None => /\ Counted(p).seen = candidate[p].seen + 1
                              /\ Counted(p).absent = candidate[p].absent + 1
<1> USE Bounds
<1>1. CASE Aged(p) = None
  BY <1>1 DEF Counted, Candidate
<1>2. CASE Aged(p) # None
  <2>1. /\ Aged(p) \in Candidate
        /\ Aged(p).seen = candidate[p].seen /\ Aged(p).absent = candidate[p].absent + 1
    BY <1>2, AgedEntry
  <2>2. Counted(p) = [Aged(p) EXCEPT !.seen = @ + 1]
    BY <1>2 DEF Counted
  <2> QED BY <1>2, <2>1, <2>2 DEF Candidate
<1> QED BY <1>1, <1>2

LEMMA RaisedEntry ==
  ASSUME TypeOK, NEW p \in Place
  PROVE  /\ ~Ripe(p) => Raised(p) = Counted(p) /\ Counted(p).seen < AddAfter
         /\ Ripe(p) /\ p \notin protected => Raised(p) = None
         /\ Ripe(p) /\ p \in protected =>
              /\ Raised(p) \in Candidate
              /\ Raised(p).seen = 0 /\ Raised(p).absent = Counted(p).absent
<1> USE Bounds
<1>1. Counted(p) \in Candidate /\ Counted(p).seen \in Nat
  BY CountedEntry DEF Candidate
<1>2. ~Ripe(p) => Raised(p) = Counted(p) /\ Counted(p).seen < AddAfter
  <2>1. Aged(p) = None => Counted(p).seen < AddAfter
    BY CountedEntry, ParamsOK
  <2> QED BY <1>1, <2>1 DEF Raised, Ripe
<1>3. Ripe(p) /\ p \notin protected => Raised(p) = None
  BY DEF Raised
<1>4. ASSUME Ripe(p), p \in protected
      PROVE  /\ Raised(p) \in Candidate
             /\ Raised(p).seen = 0 /\ Raised(p).absent = Counted(p).absent
  <2>1. Raised(p) = [Counted(p) EXCEPT !.seen = 0]
    BY <1>4 DEF Raised
  <2> QED BY <1>1, <2>1 DEF Candidate
<1> QED BY <1>2, <1>3, <1>4

LEMMA LongAgedEntry ==
  ASSUME TypeOK, NEW p \in Place, NEW seen \in BOOLEAN
  PROVE  \/ /\ LongAged(p, seen) = None
            /\ long[p] = None \/ (long[p].absent = LongRemove /\ ~(long[p].confirmed /\ seen))
         \/ /\ long[p] # None
            /\ LongAged(p, seen) \in LongEntry
            /\ LongAged(p, seen).seen = long[p].seen
            /\ LongAged(p, seen).confirmed = long[p].confirmed
            /\ LongAged(p, seen).absent =
                 IF long[p].confirmed /\ seen THEN 0 ELSE long[p].absent + 1
<1> USE Bounds
<1>1. CASE long[p] = None
  BY <1>1 DEF LongAged
<1>2. CASE long[p] # None
  <2>1. /\ long[p] \in LongEntry /\ long[p].seen \in 1..LongAdd
        /\ long[p].absent \in 0..LongRemove /\ long[p].confirmed \in BOOLEAN
    BY <1>2, LongFields
  <2>2. CASE long[p].confirmed /\ seen
    <3>1. LongAged(p, seen) = [long[p] EXCEPT !.absent = 0]
      BY <1>2, <2>2 DEF LongAged
    <3>2. 0 \in 0..LongRemove
      BY Bounds
    <3>3. LongAged(p, seen) \in LongEntry
      BY <2>1, <3>1, <3>2 DEF LongEntry
    <3>4. /\ LongAged(p, seen).seen = long[p].seen
          /\ LongAged(p, seen).confirmed = long[p].confirmed
          /\ LongAged(p, seen).absent = 0
      BY <2>1, <3>1 DEF LongEntry
    <3> QED BY <1>2, <2>2, <3>3, <3>4
  <2>3. CASE ~(long[p].confirmed /\ seen) /\ long[p].absent = LongRemove
    BY <1>2, <2>1, <2>3 DEF LongAged
  <2>4. CASE ~(long[p].confirmed /\ seen) /\ long[p].absent < LongRemove
    <3>1. LongAged(p, seen) = [long[p] EXCEPT !.absent = @ + 1]
      BY <1>2, <2>1, <2>4 DEF LongAged
    <3>2. long[p].absent + 1 \in 0..LongRemove
      BY <2>1, <2>4
    <3> QED BY <1>2, <2>1, <2>4, <3>1, <3>2 DEF LongEntry
  <2> QED BY <2>1, <2>2, <2>3, <2>4
<1> QED BY <1>1, <1>2

LEMMA LongRaisedEntry ==
  ASSUME TypeOK, NEW p \in Place
  PROVE  /\ LongRaised(p) \in LongEntry
         /\ LongRaised(p).absent = 0
         /\ ~LongRaised(p).confirmed => LongRaised(p).seen < LongAdd
         /\ LongAged(p, TRUE) # None =>
              /\ long[p].confirmed => LongRaised(p).confirmed
              /\ ~LongRaised(p).confirmed => LongRaised(p).seen = long[p].seen + 1
         /\ LongAged(p, TRUE) = None => LongRaised(p).confirmed \/ LongRaised(p).seen = 1
<1> USE Bounds
<1>1. ASSUME NEW e, e.seen \in Nat, e.confirmed \in BOOLEAN
      PROVE  /\ LongCounted(e) \in LongEntry
             /\ LongCounted(e).absent = 0
             /\ ~LongCounted(e).confirmed => /\ LongCounted(e).seen < LongAdd
                                             /\ LongCounted(e).seen = e.seen + 1
             /\ e.confirmed => LongCounted(e).confirmed
  <2> DEFINE k == UpTo(e.seen + 1, LongAdd)
             b == e.confirmed \/ k >= LongAdd
  <2>1. k \in 1..LongAdd /\ (k < LongAdd => k = e.seen + 1) /\ 0 \in 0..LongRemove
    BY <1>1, Bounds DEF UpTo
  <2>2. b \in BOOLEAN /\ (~b => k < LongAdd) /\ (e.confirmed => b)
    BY <1>1, <2>1, Bounds
  <2>3. LongCounted(e) = [seen |-> k, absent |-> 0, confirmed |-> b]
    BY <1>1 DEF LongCounted
  <2> HIDE DEF k, b
  <2>4. LongCounted(e) \in LongEntry
    BY <2>1, <2>2, <2>3 DEF LongEntry
  <2> QED BY <2>1, <2>2, <2>3, <2>4
<1>2. CASE LongAged(p, TRUE) = None
  <2>1. LongRaised(p) = [seen |-> 1, absent |-> 0, confirmed |-> FALSE]
    BY <1>2 DEF LongRaised
  <2>2. 1 \in 1..LongAdd /\ 1 < LongAdd /\ 0 \in 0..LongRemove
    BY ParamsOK
  <2>3. LongRaised(p) \in LongEntry
    BY <2>1, <2>2 DEF LongEntry
  <2>4. LongRaised(p).absent = 0 /\ LongRaised(p).seen = 1
    BY <2>1
  <2> QED BY <1>2, <2>2, <2>3, <2>4
<1>3. CASE LongAged(p, TRUE) # None
  <2> DEFINE e == LongAged(p, TRUE)
  <2>1. /\ long[p] # None
        /\ e.seen = long[p].seen /\ e.confirmed = long[p].confirmed
    BY <1>3, LongAgedEntry, TRUE \in BOOLEAN
  <2>2. e.seen \in Nat /\ e.confirmed \in BOOLEAN
    <3>1. long[p].seen \in Nat /\ long[p].confirmed \in BOOLEAN
      BY <2>1, LongFields
    <3> HIDE DEF e
    <3> QED BY <2>1, <3>1
  <2>3. LongRaised(p) = LongCounted(e)
    BY <1>3 DEF LongRaised
  <2> HIDE DEF e
  <2>4. /\ LongCounted(e) \in LongEntry
        /\ LongCounted(e).absent = 0
        /\ ~LongCounted(e).confirmed => /\ LongCounted(e).seen < LongAdd
                                        /\ LongCounted(e).seen = e.seen + 1
        /\ e.confirmed => LongCounted(e).confirmed
    BY <1>1, <2>2
  <2> QED BY <1>3, <2>1, <2>3, <2>4
<1> QED BY <1>2, <1>3

LEMMA ShortAgedEntry ==
  ASSUME TypeOK, NEW p \in Place, NEW seen \in BOOLEAN
  PROVE  \/ ShortAged(p, seen) = Absent /\ (short[p] = Absent \/ ~seen)
         \/ /\ short[p] # Absent
            /\ ShortAged(p, seen) \in 0..RemoveAfter
            /\ ShortAged(p, seen) = IF seen THEN 0 ELSE short[p] + 1
<1> USE Bounds
<1>1. short[p] \in Absent..RemoveAfter
  BY DEF TypeOK
<1> QED BY <1>1 DEF ShortAged, Absent
-----------------------------------------------------------------------------
(* --- what a frame in operation does to a place -------------------------- *)

LEMMA EmptyPlace ==
  ASSUME NEW look \in [Place -> Sight], TrackFrame(look), NEW p \in Place, look[p] = "none"
  PROVE  /\ candidate'[p] = Aged(p)
         /\ short'[p] = ShortAged(p, FALSE)
         /\ long'[p] = LongAged(p, FALSE)
         /\ p \notin hidden' /\ staying'[p] = 0
         /\ gone'[p] = UpTo(gone[p] + 1, LongRemove + 1)
         /\ known'[p] = IF gone'[p] > RemoveAfter THEN 0 ELSE known[p]
<1> DEFINE observed == {q \in Place : look[q] # "none"}
           dropped == {q \in observed : Filtered(q, look[q])}
           fore == observed \ dropped
<1>1. AdaptiveUpdate(observed, fore) /\ Note(look, observed, fore) /\ hidden' = dropped
  BY DEF TrackFrame
<1>2. p \notin observed /\ p \notin fore /\ p \notin dropped
  OBVIOUS
<1> HIDE DEF observed, dropped, fore
<1>3. (p \in observed) = FALSE
  BY <1>2
<1>4. candidate'[p] = Aged(p) /\ short'[p] = ShortAged(p, FALSE) /\ long'[p] = LongAged(p, FALSE)
  BY <1>1, <1>2, <1>3 DEF AdaptiveUpdate
<1>5. /\ staying'[p] = 0
      /\ gone'[p] = UpTo(gone[p] + 1, LongRemove + 1)
      /\ known'[p] = IF gone'[p] > RemoveAfter THEN 0 ELSE known[p]
  BY <1>1, <1>2 DEF Note
<1> QED BY <1>1, <1>2, <1>4, <1>5

LEMMA FilteredPlace ==
  ASSUME NEW look \in [Place -> Sight], TrackFrame(look), NEW p \in Place,
         look[p] # "none", Filtered(p, look[p])
  PROVE  /\ candidate'[p] = Aged(p)
         /\ short'[p] = ShortAged(p, TRUE)
         /\ long'[p] = LongAged(p, TRUE)
         /\ p \in hidden'
         /\ staying'[p] = (IF look[p] = "large" /\ ~Guarded(p)
                           THEN UpTo(staying[p] + 1, Settled) ELSE 0)
         /\ gone'[p] = 0 /\ known'[p] = known[p]
<1> DEFINE observed == {q \in Place : look[q] # "none"}
           dropped == {q \in observed : Filtered(q, look[q])}
           fore == observed \ dropped
<1>1. AdaptiveUpdate(observed, fore) /\ Note(look, observed, fore) /\ hidden' = dropped
  BY DEF TrackFrame
<1>2. p \in observed /\ p \notin fore /\ p \in dropped
  OBVIOUS
<1> HIDE DEF observed, dropped, fore
<1>3. (p \in observed) = TRUE
  BY <1>2
<1>4. candidate'[p] = Aged(p) /\ short'[p] = ShortAged(p, TRUE) /\ long'[p] = LongAged(p, TRUE)
  BY <1>1, <1>2, <1>3 DEF AdaptiveUpdate
<1>5. /\ staying'[p] = (IF look[p] = "large" /\ ~Guarded(p)
                        THEN UpTo(staying[p] + 1, Settled) ELSE 0)
      /\ gone'[p] = 0
      /\ known'[p] = IF gone'[p] > RemoveAfter THEN 0 ELSE known[p]
  BY <1>1, <1>2 DEF Note
<1> QED BY <1>1, <1>2, <1>4, <1>5, Bounds

LEMMA ShownPlace ==
  ASSUME NEW look \in [Place -> Sight], TrackFrame(look), NEW p \in Place,
         look[p] # "none", ~Filtered(p, look[p])
  PROVE  /\ candidate'[p] = Raised(p)
         /\ short'[p] = ShortRaised(p)
         /\ long'[p] = LongRaised(p)
         /\ p \notin hidden'
         /\ staying'[p] = (IF look[p] = "large" /\ ~Guarded(p)
                           THEN UpTo(staying[p] + 1, Settled) ELSE 0)
         /\ gone'[p] = 0 /\ known'[p] = UpTo(known[p] + 1, ResidualAfter)
<1> DEFINE observed == {q \in Place : look[q] # "none"}
           dropped == {q \in observed : Filtered(q, look[q])}
           fore == observed \ dropped
<1>1. AdaptiveUpdate(observed, fore) /\ Note(look, observed, fore) /\ hidden' = dropped
  BY DEF TrackFrame
<1>2. p \in observed /\ p \in fore /\ p \notin dropped
  OBVIOUS
<1> HIDE DEF observed, dropped, fore
<1>4. candidate'[p] = Raised(p) /\ short'[p] = ShortRaised(p) /\ long'[p] = LongRaised(p)
  BY <1>1, <1>2 DEF AdaptiveUpdate
<1>5. /\ staying'[p] = (IF look[p] = "large" /\ ~Guarded(p)
                        THEN UpTo(staying[p] + 1, Settled) ELSE 0)
      /\ gone'[p] = 0
      /\ known'[p] = UpTo(known[p] + 1, ResidualAfter)
  BY <1>1, <1>2 DEF Note
<1> QED BY <1>1, <1>2, <1>4, <1>5

LEMMA FrameShape ==
  ASSUME NEW look \in [Place -> Sight], TrackFrame(look)
  PROVE  /\ frame_count_' = frame_count_ /\ ~Learning
         /\ candidate' = [p \in Place |-> candidate'[p]]
         /\ short' = [p \in Place |-> short'[p]]
         /\ long' = [p \in Place |-> long'[p]]
         /\ protected' \in SUBSET Place /\ hidden' \in SUBSET Place
         /\ staying' = [p \in Place |-> staying'[p]]
         /\ gone' = [p \in Place |-> gone'[p]]
         /\ known' = [p \in Place |-> known'[p]]
BY DEF TrackFrame, AdaptiveUpdate, Note

LEMMA Here ==
  ASSUME NEW p \in Place, ~Guarded(p)
  PROVE  p \notin protected
BY DEF Guarded, Around

(* A large object is filtered as known background only. *)
LEMMA LargeFiltered ==
  ASSUME NEW p \in Place, Filtered(p, "large")
  PROVE  ~Guarded(p) /\ short[p] # Absent /\ long[p] # None /\ long[p].confirmed
BY DEF Filtered, Residual, Background

LEMMA StayingPlace ==
  ASSUME TypeOK, NEW look \in [Place -> Sight], TrackFrame(look), NEW p \in Place,
         staying'[p] > 0
  PROVE  /\ look[p] # "none" /\ look[p] = "large" /\ ~Guarded(p)
         /\ staying'[p] = UpTo(staying[p] + 1, Settled)
         /\ staying'[p] <= staying[p] + 1 /\ staying'[p] \in Nat
<1> USE Bounds
<1>1. ASSUME look[p] = "none" PROVE FALSE
  <2>1. staying'[p] = 0
    BY <1>1, EmptyPlace
  <2> QED BY <2>1
<1>2. staying'[p] = (IF look[p] = "large" /\ ~Guarded(p)
                     THEN UpTo(staying[p] + 1, Settled) ELSE 0)
  <2>1. CASE Filtered(p, look[p])
    BY <1>1, <2>1, FilteredPlace
  <2>2. CASE ~Filtered(p, look[p])
    BY <1>1, <2>2, ShownPlace
  <2> QED BY <2>1, <2>2
<1>3. look[p] = "large" /\ ~Guarded(p) /\ staying'[p] = UpTo(staying[p] + 1, Settled)
  BY <1>2
<1>4. staying[p] \in Nat
  BY DEF TypeOK
<1>5. staying'[p] <= staying[p] + 1 /\ staying'[p] \in Nat
  BY <1>3, <1>4 DEF UpTo
<1> QED BY <1>1, <1>3, <1>5

(* --- a frame in operation preserves the invariant ----------------------- *)

LEMMA ShortRaisedEntry ==
  ASSUME TypeOK, NEW p \in Place
  PROVE  /\ ShortRaised(p) \in Absent..RemoveAfter
         /\ short[p] # Absent => ShortRaised(p) = 0
         /\ short[p] = Absent /\ Ripe(p) /\ p \notin protected => ShortRaised(p) # Absent
         /\ short[p] = Absent /\ ~Ripe(p) => ShortRaised(p) = Absent
<1> USE Bounds
<1>1. short[p] \in Absent..RemoveAfter
  BY DEF TypeOK
<1>2. Counted(p).absent \in 0..RemoveAfter
  BY CountedEntry DEF Candidate
<1>3. CASE short[p] = Absent /\ Ripe(p) /\ p \notin protected
  <2>1. ShortRaised(p) = Counted(p).absent
    BY <1>3 DEF ShortRaised
  <2> QED BY <1>2, <1>3, <2>1 DEF Absent
<1>4. CASE ~(short[p] = Absent /\ Ripe(p) /\ p \notin protected)
  <2>1. ShortRaised(p) = ShortAged(p, TRUE)
    BY <1>4 DEF ShortRaised
  <2>2. short[p] = Absent => ShortAged(p, TRUE) = Absent
    BY DEF ShortAged
  <2>3. short[p] # Absent => ShortAged(p, TRUE) = 0
    BY DEF ShortAged
  <2>4. Absent \in Absent..RemoveAfter /\ 0 \in Absent..RemoveAfter
    BY DEF Absent
  <2>5. ShortRaised(p) \in Absent..RemoveAfter
    BY <2>1, <2>2, <2>3, <2>4
  <2> QED BY <1>4, <2>1, <2>2, <2>3, <2>5
<1> QED BY <1>3, <1>4

LEMMA PlaceTyped ==
  ASSUME TypeOK, NEW look \in [Place -> Sight], TrackFrame(look), NEW p \in Place
  PROVE  /\ candidate'[p] \in Candidate \cup {None} /\ candidate'[p].seen < AddAfter
         /\ short'[p] \in Absent..RemoveAfter
         /\ long'[p] \in LongEntry \cup {None}
         /\ staying'[p] \in 0..Settled
         /\ gone'[p] \in 0..LongRemove + 1
         /\ known'[p] \in 0..ResidualAfter
<1> USE Bounds
<1>1. /\ staying[p] \in 0..Settled /\ gone[p] \in 0..LongRemove + 1
      /\ known[p] \in 0..ResidualAfter
      /\ candidate[p].seen < AddAfter
  BY DEF TypeOK, TrackFrame
<1>2. None.seen < AddAfter
  BY DEF None
<1>3. Aged(p) \in Candidate \cup {None} /\ Aged(p).seen < AddAfter
  BY <1>1, <1>2, AgedEntry
<1>4. Raised(p) \in Candidate \cup {None} /\ Raised(p).seen < AddAfter
  <2>1. CASE ~Ripe(p)
    BY <2>1, RaisedEntry, CountedEntry
  <2>2. CASE Ripe(p)
    BY <1>2, <2>2, RaisedEntry
  <2> QED BY <2>1, <2>2
<1>5. ASSUME NEW b \in BOOLEAN
      PROVE  ShortAged(p, b) \in Absent..RemoveAfter /\ LongAged(p, b) \in LongEntry \cup {None}
  <2>1. ShortAged(p, b) \in Absent..RemoveAfter
    BY ShortAgedEntry DEF Absent
  <2>2. LongAged(p, b) \in LongEntry \cup {None}
    BY LongAgedEntry
  <2> QED BY <2>1, <2>2
<1>6. /\ ShortRaised(p) \in Absent..RemoveAfter /\ LongRaised(p) \in LongEntry
  BY ShortRaisedEntry, LongRaisedEntry
<1>7. /\ UpTo(staying[p] + 1, Settled) \in 0..Settled
      /\ UpTo(gone[p] + 1, LongRemove + 1) \in 0..LongRemove + 1
      /\ UpTo(known[p] + 1, ResidualAfter) \in 0..ResidualAfter
      /\ 0 \in 0..Settled /\ 0 \in 0..LongRemove + 1 /\ 0 \in 0..ResidualAfter
  BY <1>1 DEF UpTo
<1>8. CASE look[p] = "none"
  BY <1>1, <1>3, <1>5, <1>7, <1>8, EmptyPlace
<1>9. CASE look[p] # "none" /\ Filtered(p, look[p])
  BY <1>1, <1>3, <1>5, <1>7, <1>9, FilteredPlace
<1>10. CASE look[p] # "none" /\ ~Filtered(p, look[p])
  BY <1>4, <1>6, <1>7, <1>10, ShownPlace
<1> QED BY <1>8, <1>9, <1>10

LEMMA TrackTyped ==
  ASSUME TypeOK, NEW look \in [Place -> Sight], TrackFrame(look)
  PROVE  TypeOK'
<1>1. frame_count_' \in 0..LearnFrames /\ protected' \in SUBSET Place /\ hidden' \in SUBSET Place
  BY FrameShape DEF TypeOK
<1>2. candidate' \in [Place -> Candidate \cup {None}]
  BY FrameShape, PlaceTyped
<1>3. \A p \in Place : candidate'[p].seen < (IF Learning' THEN LearnFrames ELSE AddAfter)
  <2>1. ~Learning'
    BY FrameShape DEF Learning
  <2> QED BY <2>1, PlaceTyped
<1>4. short' \in [Place -> Absent..RemoveAfter]
  BY FrameShape, PlaceTyped
<1>5. long' \in [Place -> LongEntry \cup {None}]
  BY FrameShape, PlaceTyped
<1>6. staying' \in [Place -> 0..Settled]
  BY FrameShape, PlaceTyped
<1>7. gone' \in [Place -> 0..LongRemove + 1]
  BY FrameShape, PlaceTyped
<1>8. known' \in [Place -> 0..ResidualAfter]
  BY FrameShape, PlaceTyped
<1> QED BY <1>1, <1>2, <1>3, <1>4, <1>5, <1>6, <1>7, <1>8 DEF TypeOK

LEMMA TrackAbsence ==
  ASSUME TypeOK, NEW look \in [Place -> Sight], TrackFrame(look), NEW p \in Place, Absence(p)
  PROVE  Absence(p)'
<1> USE Bounds
<1>1. gone[p] \in Nat /\ short'[p] \in Absent..RemoveAfter
  BY PlaceTyped DEF TypeOK
<1>2. candidate'[p] # None => candidate'[p].absent \in Nat
  BY PlaceTyped DEF Candidate
<1>3. long'[p] # None => long'[p].absent \in Nat
  BY PlaceTyped DEF LongEntry
<1>4. CASE look[p] = "none"
  <2>1. /\ candidate'[p] = Aged(p) /\ short'[p] = ShortAged(p, FALSE)
        /\ long'[p] = LongAged(p, FALSE)
        /\ gone'[p] = UpTo(gone[p] + 1, LongRemove + 1)
    BY <1>4, EmptyPlace
  <2>2. gone'[p] <= gone[p] + 1 /\ gone'[p] \in Nat
    BY <1>1, <2>1 DEF UpTo
  <2>3. candidate'[p] # None => gone'[p] <= candidate'[p].absent
    <3>1. ASSUME candidate'[p] # None
          PROVE  candidate[p] # None /\ candidate'[p].absent = candidate[p].absent + 1
      BY <2>1, <3>1, AgedEntry
    <3>2. candidate[p] # None => candidate[p].absent \in Nat
      BY CandidateFields
    <3> QED BY <1>1, <2>2, <3>1, <3>2 DEF Absence
  <2>4. short'[p] # Absent => gone'[p] <= short'[p]
    <3>1. ASSUME short'[p] # Absent
          PROVE  short[p] # Absent /\ short'[p] = short[p] + 1
      BY <2>1, <3>1, ShortAgedEntry
    <3>2. short[p] \in Absent..RemoveAfter
      BY DEF TypeOK
    <3> QED BY <1>1, <2>2, <3>1, <3>2 DEF Absence, Absent
  <2>5. long'[p] # None => gone'[p] <= long'[p].absent
    <3>1. ASSUME long'[p] # None
          PROVE  long[p] # None /\ long'[p].absent = long[p].absent + 1
      BY <2>1, <3>1, LongAgedEntry
    <3>2. long[p] # None => long[p].absent \in Nat
      BY LongFields
    <3> QED BY <1>1, <2>2, <3>1, <3>2 DEF Absence
  <2> QED BY <2>3, <2>4, <2>5 DEF Absence
<1>5. CASE look[p] # "none"
  <2>1. gone'[p] = 0
    BY <1>5, FilteredPlace, ShownPlace
  <2> QED BY <1>1, <1>2, <1>3, <2>1 DEF Absence, Absent
<1> QED BY <1>4, <1>5

LEMMA TrackCounts ==
  ASSUME TypeOK, NEW look \in [Place -> Sight], TrackFrame(look), NEW p \in Place,
         Counts(p), Absence(p)'
  PROVE  Counts(p)'
<1> USE Bounds
<1>1. /\ known[p] \in 0..ResidualAfter /\ ~Learning
      /\ known'[p] \in 0..ResidualAfter /\ gone'[p] \in Nat
      /\ short[p] \in Absent..RemoveAfter /\ short'[p] \in Absent..RemoveAfter
  BY PlaceTyped, FrameShape DEF TypeOK
<1>2. candidate[p] # None => candidate[p].seen <= known[p] \/ known[p] = ResidualAfter
  BY <1>1 DEF Counts
<1>3. short[p] # Absent => known[p] = ResidualAfter
  BY <1>1 DEF Counts
<1>4. Aged(p) # None => candidate[p] # None /\ Aged(p).seen = candidate[p].seen
  BY AgedEntry
<1>5. CASE look[p] = "none"
  <2>1. /\ candidate'[p] = Aged(p) /\ short'[p] = ShortAged(p, FALSE)
        /\ known'[p] = IF gone'[p] > RemoveAfter THEN 0 ELSE known[p]
    BY <1>5, EmptyPlace
  <2>2. candidate'[p] # None => known'[p] = known[p]
    <3>1. candidate'[p] # None => candidate'[p].absent \in 0..RemoveAfter
      BY PlaceTyped DEF Candidate
    <3> QED BY <1>1, <2>1, <3>1 DEF Absence
  <2>3. short'[p] # Absent => known'[p] = known[p] /\ short[p] # Absent
    <3>1. short'[p] # Absent => short[p] # Absent
      BY <2>1, ShortAgedEntry
    <3>2. short'[p] # Absent => gone'[p] <= short'[p]
      BY DEF Absence
    <3>3. short'[p] <= RemoveAfter /\ short'[p] \in Int
      BY <1>1 DEF Absent
    <3>4. short'[p] # Absent => ~(gone'[p] > RemoveAfter)
      BY <1>1, <3>2, <3>3
    <3> QED BY <2>1, <3>1, <3>4
  <2> QED BY <1>2, <1>3, <1>4, <2>1, <2>2, <2>3 DEF Counts
<1>6. CASE look[p] # "none" /\ Filtered(p, look[p])
  <2>1. /\ candidate'[p] = Aged(p) /\ short'[p] = ShortAged(p, TRUE)
        /\ known'[p] = known[p]
    BY <1>6, FilteredPlace
  <2>2. short'[p] # Absent => short[p] # Absent
    BY <2>1, ShortAgedEntry
  <2> QED BY <1>2, <1>3, <1>4, <2>1, <2>2 DEF Counts
<1>7. CASE look[p] # "none" /\ ~Filtered(p, look[p])
  <2>1. /\ candidate'[p] = Raised(p) /\ short'[p] = ShortRaised(p)
        /\ known'[p] = UpTo(known[p] + 1, ResidualAfter)
    BY <1>7, ShownPlace
  <2>2. known'[p] = ResidualAfter \/ known'[p] = known[p] + 1
    BY <1>1, <2>1 DEF UpTo
  <2>3. known[p] = ResidualAfter => known'[p] = ResidualAfter
    BY <1>1, <2>1 DEF UpTo
  <2>4. Counted(p).seen \in Nat /\ (Counted(p).seen <= known[p] + 1 \/ known[p] = ResidualAfter)
    <3>1. CASE Aged(p) = None
      BY <1>1, <3>1, CountedEntry
    <3>2. CASE Aged(p) # None
      <4>1. Counted(p).seen = candidate[p].seen + 1 /\ candidate[p] # None
        BY <1>4, <3>2, CountedEntry
      <4>2. candidate[p].seen \in Nat
        BY <4>1, CandidateFields
      <4> QED BY <1>1, <1>2, <4>1, <4>2
    <3> QED BY <3>1, <3>2
  <2>5. candidate'[p] # None =>
          candidate'[p].seen = 0 \/ candidate'[p].seen = Counted(p).seen
    BY <2>1, RaisedEntry
  <2>6. candidate'[p] # None => candidate'[p].seen <= known'[p] \/ known'[p] = ResidualAfter
    BY <1>1, <2>2, <2>3, <2>4, <2>5
  <2>7. short'[p] # Absent => known'[p] = ResidualAfter
    <3>1. CASE short[p] # Absent
      BY <1>3, <2>3, <3>1
    <3>2. CASE short[p] = Absent /\ Ripe(p)
      <4>1. Counted(p).seen >= AddAfter
        BY <3>2 DEF Ripe
      <4> QED BY <1>1, <2>2, <2>3, <2>4, <4>1
    <3>3. CASE short[p] = Absent /\ ~Ripe(p)
      BY <2>1, <3>3, ShortRaisedEntry
    <3> QED BY <3>1, <3>2, <3>3
  <2> QED BY <2>6, <2>7 DEF Counts
<1> QED BY <1>5, <1>6, <1>7

LEMMA TrackShortSettling ==
  ASSUME TypeOK, NEW look \in [Place -> Sight], TrackFrame(look), NEW p \in Place,
         ShortSettling(p)
  PROVE  ShortSettling(p)'
<1> USE Bounds
<1>1. staying[p] \in 0..Settled /\ candidate[p].seen < AddAfter
  BY FrameShape DEF TypeOK
<1> SUFFICES ASSUME staying'[p] > 0, short'[p] = Absent
             PROVE  /\ candidate'[p] # None
                    /\ \/ candidate'[p].seen >= staying'[p]
                       \/ /\ candidate'[p].seen = candidate'[p].absent + 1
                          /\ staying'[p] < candidate'[p].seen + AddAfter
  BY DEF ShortSettling
<1>2. look[p] # "none"
  BY StayingPlace
<1>3. look[p] = "large" /\ ~Guarded(p)
  BY StayingPlace
<1>4. ~Filtered(p, look[p])
  <2>1. ASSUME Filtered(p, look[p]) PROVE FALSE
    <3>1. short[p] # Absent /\ short'[p] = ShortAged(p, TRUE)
      BY <1>2, <1>3, <2>1, LargeFiltered, FilteredPlace
    <3>2. short'[p] = 0
      BY <3>1 DEF ShortAged
    <3> QED BY <3>2 DEF Absent
  <2> QED BY <2>1
<1>5. /\ candidate'[p] = Raised(p) /\ short'[p] = ShortRaised(p)
      /\ p \notin protected
  BY <1>2, <1>3, <1>4, ShownPlace, Here
<1>6. short[p] = Absent /\ ~Ripe(p)
  <2>1. short[p] # Absent => ShortRaised(p) = 0
    BY ShortRaisedEntry
  <2>2. short[p] = Absent
    BY <1>5, <2>1 DEF Absent
  <2> QED BY <1>5, <2>2, ShortRaisedEntry
<1>7. candidate'[p] = Counted(p) /\ Counted(p).seen \in Nat
  BY <1>5, <1>6, RaisedEntry, CountedEntry DEF Candidate
<1>8. candidate'[p] # None
  BY <1>7, CountedEntry, CandidateApart
<1>9. staying'[p] <= staying[p] + 1 /\ staying'[p] \in Nat
  BY StayingPlace
<1>10. CASE staying[p] = 0
  <2>1. Counted(p).seen >= 1
    <3>1. CASE Aged(p) = None
      BY <3>1, CountedEntry
    <3>2. CASE Aged(p) # None
      <4>1. candidate[p] # None
        BY <3>2, AgedEntry
      <4> QED BY <3>2, <4>1, CountedEntry, CandidateFields
    <3> QED BY <3>1, <3>2
  <2> QED BY <1>7, <1>8, <1>9, <1>10, <2>1
<1>11. CASE staying[p] > 0
  <2>1. /\ candidate[p] # None
        /\ \/ candidate[p].seen >= staying[p]
           \/ /\ candidate[p].seen = candidate[p].absent + 1
              /\ staying[p] < candidate[p].seen + AddAfter
    BY <1>6, <1>11 DEF ShortSettling
  <2>2. candidate[p].seen \in Nat /\ candidate[p].absent \in 0..RemoveAfter
    BY <2>1, CandidateFields
  <2>3. CASE Aged(p) = None
    <3>1. Counted(p).seen = 1 /\ Counted(p).absent = 0 /\ candidate[p].absent = RemoveAfter
      BY <2>1, <2>3, CountedEntry, AgedEntry, CandidateApart
    <3> QED BY <1>1, <1>7, <1>8, <1>9, <2>1, <2>2, <3>1
  <2>4. CASE Aged(p) # None
    <3>1. Counted(p).seen = candidate[p].seen + 1 /\ Counted(p).absent = candidate[p].absent + 1
      BY <2>4, CountedEntry
    <3> QED BY <1>1, <1>7, <1>8, <1>9, <2>1, <2>2, <3>1
  <2> QED BY <2>3, <2>4
<1> QED BY <1>1, <1>10, <1>11

LEMMA TrackLongSettling ==
  ASSUME TypeOK, NEW look \in [Place -> Sight], TrackFrame(look), NEW p \in Place,
         LongSettling(p)
  PROVE  LongSettling(p)'
<1> USE Bounds
<1>1. staying[p] \in 0..Settled
  BY DEF TypeOK
<1>2. long[p] # None => /\ long[p].seen \in 1..LongAdd /\ long[p].absent \in 0..LongRemove
                        /\ long[p].confirmed \in BOOLEAN
  BY LongFields
<1>3. long[p] # None /\ ~long[p].confirmed => long[p].seen < LongAdd
  BY DEF LongSettling
<1>4. ASSUME long'[p] # None, ~long'[p].confirmed
      PROVE  long'[p].seen < LongAdd
  <2>1. CASE look[p] = "none"
    BY <1>3, <1>4, <2>1, EmptyPlace, LongAgedEntry, FALSE \in BOOLEAN
  <2>2. CASE look[p] # "none" /\ Filtered(p, look[p])
    BY <1>3, <1>4, <2>2, FilteredPlace, LongAgedEntry, TRUE \in BOOLEAN
  <2>3. CASE look[p] # "none" /\ ~Filtered(p, look[p])
    BY <1>4, <2>3, ShownPlace, LongRaisedEntry
  <2> QED BY <2>1, <2>2, <2>3
<1>5. ASSUME staying'[p] > 0
      PROVE  /\ long'[p] # None
             /\ long'[p].confirmed \/ (long'[p].seen >= staying'[p] /\ long'[p].absent = 0)
  <2>1. look[p] # "none"
    BY <1>5, StayingPlace
  <2>2. look[p] = "large" /\ ~Guarded(p)
    BY <1>5, StayingPlace
  <2>3. CASE Filtered(p, look[p])
    <3>1. long'[p] = LongAged(p, TRUE) /\ long[p] # None /\ long[p].confirmed
      BY <2>1, <2>2, <2>3, FilteredPlace, LargeFiltered
    <3>2. LongAged(p, TRUE) \in LongEntry /\ LongAged(p, TRUE).confirmed
      BY <3>1, LongAgedEntry, TRUE \in BOOLEAN
    <3> QED BY <3>1, <3>2, CandidateApart
  <2>4. CASE ~Filtered(p, look[p])
    <3>1. long'[p] = LongRaised(p)
      BY <2>1, <2>4, ShownPlace
    <3>2. LongRaised(p) \in LongEntry /\ LongRaised(p).absent = 0
      BY LongRaisedEntry
    <3>3. LongRaised(p) # None /\ LongRaised(p).seen \in 1..LongAdd
      BY <3>2, CandidateApart DEF LongEntry
    <3>4. staying'[p] <= staying[p] + 1 /\ staying'[p] \in Nat
      BY <1>5, StayingPlace
    <3>5. CASE staying[p] = 0
      BY <3>1, <3>2, <3>3, <3>4, <3>5
    <3>6. CASE staying[p] > 0
      <4>1. /\ long[p] # None
            /\ long[p].confirmed \/ (long[p].seen >= staying[p] /\ long[p].absent = 0)
        BY <3>6 DEF LongSettling
      <4>2. LongAged(p, TRUE) # None
        <5>1. ASSUME long[p].confirmed PROVE LongAged(p, TRUE) # None
          BY <4>1, <5>1, LongAgedEntry, CandidateApart, TRUE \in BOOLEAN
        <5>2. ASSUME ~long[p].confirmed PROVE LongAged(p, TRUE) # None
          <6>1. long[p].absent # LongRemove
            BY <4>1, <5>2
          <6> QED BY <4>1, <6>1, LongAgedEntry, CandidateApart, TRUE \in BOOLEAN
        <5> QED BY <5>1, <5>2
      <4>3. /\ long[p].confirmed => LongRaised(p).confirmed
            /\ ~LongRaised(p).confirmed => LongRaised(p).seen = long[p].seen + 1
        BY <4>2, LongRaisedEntry
      <4>4. CASE LongRaised(p).confirmed
        BY <3>1, <3>3, <4>4
      <4>5. CASE ~LongRaised(p).confirmed
        BY <1>1, <1>2, <3>1, <3>2, <3>3, <3>4, <4>1, <4>3, <4>5
      <4> QED BY <4>4, <4>5
    <3> QED BY <1>1, <3>5, <3>6
  <2> QED BY <2>3, <2>4
<1> QED BY <1>4, <1>5 DEF LongSettling

LEMMA TrackSettles ==
  ASSUME TypeOK, NEW look \in [Place -> Sight], TrackFrame(look), NEW p \in Place,
         ShortSettling(p), LongSettling(p), staying'[p] = Settled
  PROVE  p \in hidden'
<1> USE Bounds
<1>1. staying[p] \in 0..Settled /\ candidate[p].seen < AddAfter
  BY FrameShape DEF TypeOK
<1>2. staying'[p] > 0
  OBVIOUS
<1>3. look[p] # "none" /\ look[p] = "large" /\ ~Guarded(p)
  BY <1>2, StayingPlace
<1>4. staying[p] + 1 >= Settled
  <2>1. staying'[p] <= staying[p] + 1
    BY <1>2, StayingPlace
  <2> QED BY <1>1, <2>1
<1>5. AddAfter >= 1 /\ LongAdd >= 1
  OBVIOUS
<1>6. short[p] # Absent
  <2>1. ASSUME short[p] = Absent PROVE FALSE
    <3>1. staying[p] > 0
      BY <1>1, <1>4, <1>5
    <3>2. /\ candidate[p] # None
          /\ \/ candidate[p].seen >= staying[p]
             \/ staying[p] < candidate[p].seen + AddAfter
      BY <2>1, <3>1 DEF ShortSettling
    <3>3. candidate[p].seen \in Nat
      BY <3>2, CandidateFields
    <3> QED BY <1>1, <1>4, <1>5, <3>2, <3>3
  <2> QED BY <2>1
<1>7. long[p] # None /\ long[p].confirmed
  <2>1. staying[p] > 0 /\ staying[p] >= LongAdd
    BY <1>1, <1>4, <1>5
  <2>2. /\ long[p] # None
        /\ long[p].confirmed \/ long[p].seen >= staying[p]
        /\ ~long[p].confirmed => long[p].seen < LongAdd
    BY <2>1 DEF LongSettling
  <2>3. long[p].seen \in 1..LongAdd
    BY <2>2, LongFields
  <2>4. ~long[p].confirmed => FALSE
    BY <1>1, <2>1, <2>2, <2>3
  <2> QED BY <2>2, <2>4
<1>8. Filtered(p, look[p])
  BY <1>3, <1>6, <1>7 DEF Filtered, Background
<1> QED BY <1>3, <1>8, FilteredPlace

LEMMA TrackKeeps ==
  ASSUME IInv, NEW look \in [Place -> Sight], TrackFrame(look)
  PROVE  IInv'
<1>1. TypeOK'
  BY TrackTyped DEF IInv
<1>2. LearningFresh'
  BY FrameShape DEF LearningFresh, Learning
<1>3. ASSUME NEW p \in Place
      PROVE  (Absence(p) /\ Counts(p) /\ ShortSettling(p) /\ LongSettling(p))'
  <2>1. TypeOK /\ Absence(p) /\ Counts(p) /\ ShortSettling(p) /\ LongSettling(p)
    BY DEF IInv
  <2>2. Absence(p)'
    BY <2>1, TrackAbsence
  <2>3. Counts(p)'
    BY <2>1, <2>2, TrackCounts
  <2>4. ShortSettling(p)'
    BY <2>1, TrackShortSettling
  <2>5. LongSettling(p)'
    BY <2>1, TrackLongSettling
  <2> QED BY <2>2, <2>3, <2>4, <2>5
<1>4. LargeObjectSettles'
  <2>1. ASSUME NEW p \in Place, staying'[p] = Settled
        PROVE  p \in hidden'
    <3>1. TypeOK /\ ShortSettling(p) /\ LongSettling(p)
      BY DEF IInv
    <3> QED BY <2>1, <3>1, TrackSettles
  <2>2. Settled' = Settled
    BY DEF Settled
  <2> QED BY <2>1, <2>2 DEF LargeObjectSettles
<1> QED BY <1>1, <1>2, <1>3, <1>4 DEF IInv
-----------------------------------------------------------------------------
(* --- the learning phase and the reset ----------------------------------- *)

LEMMA LearntEntry ==
  ASSUME TypeOK, LearningFresh, Learning, NEW p \in Place, NEW w
  PROVE  /\ Learnt(p, w) \in Candidate \cup {None}
         /\ Learnt(p, w) # None => Learnt(p, w).seen \in 1..frame_count_ + 1
<1> USE Bounds
<1>1. frame_count_ \in Nat
  BY DEF TypeOK
<1>2. candidate[p] # None =>
        /\ candidate[p] \in Candidate /\ candidate[p].seen \in 1..frame_count_
  BY CandidateFields DEF LearningFresh
<1>3. CASE w = "none"
  BY <1>1, <1>2, <1>3 DEF Learnt
<1>4. CASE w # "none" /\ candidate[p] = None
  <2>1. Learnt(p, w) = [seen |-> 1, absent |-> 0]
    BY <1>4 DEF Learnt
  <2>2. 0 \in 0..RemoveAfter
    OBVIOUS
  <2> QED BY <1>1, <2>1, <2>2 DEF Candidate
<1>5. CASE w # "none" /\ candidate[p] # None
  <2>1. Learnt(p, w) = [candidate[p] EXCEPT !.seen = @ + 1]
    BY <1>5 DEF Learnt
  <2> QED BY <1>1, <1>2, <1>5, <2>1 DEF Candidate
<1> QED BY <1>3, <1>4, <1>5

(* The state at the start, in the learning phase, and right after it. *)
FreshState ==
  /\ frame_count_ \in 0..LearnFrames /\ hidden = {} /\ protected \in SUBSET Place
  /\ candidate \in [Place -> Candidate \cup {None}]
  /\ \A p \in Place : candidate[p].seen < (IF Learning THEN LearnFrames ELSE AddAfter)
  /\ short \in [Place -> {Absent, 0}]
  /\ long \in [Place -> LongEntry \cup {None}]
  /\ \A p \in Place : long[p] # None => long[p].confirmed
  /\ staying = [p \in Place |-> 0] /\ gone = [p \in Place |-> 0]
  /\ known \in [Place -> 0..ResidualAfter]
  /\ Learning =>
       \A p \in Place :
         /\ candidate[p] # None => candidate[p].seen \in 1..frame_count_
         /\ short[p] = Absent /\ long[p] = None
  /\ ~Learning => \A p \in Place : /\ candidate[p] = None
                                   /\ short[p] # Absent => known[p] = ResidualAfter

LEMMA Fresh == FreshState => IInv
<1> SUFFICES ASSUME FreshState PROVE IInv
  OBVIOUS
<1> USE Bounds
<1>1. /\ short \in [Place -> Absent..RemoveAfter]
      /\ staying \in [Place -> 0..Settled] /\ gone \in [Place -> 0..LongRemove + 1]
  BY DEF FreshState, Absent
<1>2. TypeOK
  BY <1>1 DEF FreshState, TypeOK
<1>3. LearningFresh
  BY DEF FreshState, LearningFresh
<1>4. ASSUME NEW p \in Place
      PROVE  Absence(p) /\ Counts(p) /\ ShortSettling(p) /\ LongSettling(p)
  <2>1. staying[p] = 0 /\ gone[p] = 0 /\ ~(staying[p] > 0)
    BY DEF FreshState
  <2>2. candidate[p] # None => candidate[p].absent \in Nat
    BY <1>2, CandidateFields
  <2>3. long[p] # None => long[p].absent \in Nat
    BY <1>2, LongFields
  <2>4. short[p] # Absent => short[p] = 0
    BY DEF FreshState, Absent
  <2>5. Absence(p)
    BY <2>1, <2>2, <2>3, <2>4 DEF Absence
  <2>6. Counts(p)
    BY DEF FreshState, Counts
  <2>7. ShortSettling(p)
    BY <2>1 DEF ShortSettling
  <2>8. LongSettling(p)
    BY <2>1 DEF FreshState, LongSettling
  <2> QED BY <2>5, <2>6, <2>7, <2>8
<1>5. LargeObjectSettles
  BY DEF FreshState, LargeObjectSettles
<1> QED BY <1>2, <1>3, <1>4, <1>5 DEF IInv

LEMMA FreshNext == FreshState' => IInv'
BY Fresh, PTL

LEMMA InitKeeps == Init => IInv
<1> SUFFICES ASSUME Init PROVE IInv
  OBVIOUS
<1> USE Bounds
<1>1. Learning /\ frame_count_ \in 0..LearnFrames
  BY DEF Init, Learning
<1>2. None.seen < LearnFrames
  BY DEF None
<1>3. /\ candidate \in [Place -> Candidate \cup {None}]
      /\ \A p \in Place : candidate[p] = None /\ candidate[p].seen < LearnFrames
  BY <1>2 DEF Init
<1>4. /\ long \in [Place -> LongEntry \cup {None}] /\ \A p \in Place : long[p] = None /\ short[p] = Absent
      /\ short \in [Place -> {Absent, 0}] /\ known \in [Place -> 0..ResidualAfter]
  BY DEF Init
<1>5. /\ hidden = {} /\ protected \in SUBSET Place
      /\ staying = [p \in Place |-> 0] /\ gone = [p \in Place |-> 0]
  BY DEF Init
<1>6. FreshState
  BY <1>1, <1>3, <1>4, <1>5 DEF FreshState
<1> QED BY <1>6, Fresh

LEMMA ResetKeeps == Reset => IInv'
<1> SUFFICES ASSUME Reset PROVE IInv'
  OBVIOUS
<1> USE Bounds
<1>1. Learning' /\ frame_count_' \in 0..LearnFrames
  BY DEF Reset, Learning
<1>2. None.seen < LearnFrames
  BY DEF None
<1>3. /\ candidate' \in [Place -> Candidate \cup {None}]
      /\ \A p \in Place : candidate'[p] = None /\ candidate'[p].seen < LearnFrames
  BY <1>2 DEF Reset
<1>4. /\ long' \in [Place -> LongEntry \cup {None}] /\ \A p \in Place : long'[p] = None /\ short'[p] = Absent
      /\ short' \in [Place -> {Absent, 0}] /\ known' \in [Place -> 0..ResidualAfter]
  BY DEF Reset
<1>5. /\ hidden' = {} /\ protected' \in SUBSET Place
      /\ staying' = [p \in Place |-> 0] /\ gone' = [p \in Place |-> 0]
  BY DEF Reset
<1>6. FreshState'
  BY <1>1, <1>3, <1>4, <1>5 DEF FreshState
<1> QED BY <1>6, FreshNext

LEMMA LearnKeeps ==
  ASSUME IInv, NEW look \in [Place -> Sight], LearnFrame(look)
  PROVE  IInv'
<1> USE Bounds
<1>1. /\ TypeOK /\ LearningFresh /\ Learning
      /\ frame_count_ \in Nat /\ frame_count_ < LearnFrames
      /\ frame_count_' = frame_count_ + 1
  BY DEF IInv, TypeOK, LearnFrame, Learning
<1>2. /\ frame_count_' \in 0..LearnFrames
      /\ hidden' = {} /\ protected' \in SUBSET Place
      /\ staying' = [p \in Place |-> 0] /\ gone' = [p \in Place |-> 0]
  <2>1. UNCHANGED <<protected, hidden, staying, gone>>
    BY DEF LearnFrame
  <2>2. /\ staying = [p \in Place |-> 0] /\ gone = [p \in Place |-> 0] /\ hidden = {}
    BY <1>1 DEF LearningFresh, TypeOK
  <2> QED BY <1>1, <2>1, <2>2 DEF TypeOK
<1>3. CASE frame_count_ + 1 < LearnFrames
  <2>1. /\ candidate' = [p \in Place |-> Learnt(p, look[p])]
        /\ UNCHANGED <<short, long, known>>
    BY <1>3 DEF LearnFrame
  <2>2. ASSUME NEW p \in Place
        PROVE  /\ candidate'[p] \in Candidate \cup {None}
               /\ candidate'[p] # None => candidate'[p].seen \in 1..frame_count_'
    BY <1>1, <2>1, LearntEntry
  <2>3. candidate' \in [Place -> Candidate \cup {None}]
    BY <2>1, <2>2
  <2>4. Learning'
    BY <1>1, <1>3 DEF Learning
  <2>5. \A p \in Place : candidate'[p].seen < (IF Learning' THEN LearnFrames ELSE AddAfter)
    <3>1. None.seen < LearnFrames
      BY DEF None
    <3> QED BY <1>1, <1>3, <2>2, <2>4, <3>1
  <2>6. ASSUME NEW p \in Place
        PROVE  short'[p] = Absent /\ long'[p] = None
    BY <1>1, <2>1 DEF LearningFresh
  <2>7. /\ short' \in [Place -> {Absent, 0}]
        /\ long' \in [Place -> LongEntry \cup {None}]
        /\ known' \in [Place -> 0..ResidualAfter]
    BY <1>1, <2>1, <2>6 DEF TypeOK
  <2>8. FreshState'
    BY <1>2, <2>2, <2>3, <2>4, <2>5, <2>6, <2>7 DEF FreshState
  <2> QED BY <2>8, FreshNext
<1>4. CASE ~(frame_count_ + 1 < LearnFrames)
  <2>1. /\ candidate' = [p \in Place |-> None]
        /\ short' = [p \in Place |-> IF Stable(p, look[p]) THEN 0 ELSE Absent]
        /\ long' = [p \in Place |->
             IF Stable(p, look[p])
             THEN [seen |-> UpTo(Learnt(p, look[p]).seen, LongAdd),
                   absent |-> 0, confirmed |-> TRUE]
             ELSE None]
        /\ known' = [p \in Place |-> IF Stable(p, look[p]) THEN ResidualAfter ELSE 0]
    BY <1>4 DEF LearnFrame
  <2>2. ~Learning'
    BY <1>1, <1>4 DEF Learning
  <2>3. /\ candidate' \in [Place -> Candidate \cup {None}]
        /\ \A p \in Place : candidate'[p] = None /\ candidate'[p].seen < AddAfter
    <3>1. None.seen < AddAfter
      BY DEF None
    <3> QED BY <2>1, <3>1
  <2>4. ASSUME NEW p \in Place
        PROVE  /\ short'[p] \in {Absent, 0}
               /\ known'[p] \in 0..ResidualAfter
               /\ short'[p] # Absent => known'[p] = ResidualAfter
    BY <2>1
  <2>5. ASSUME NEW p \in Place
        PROVE  /\ long'[p] \in LongEntry \cup {None}
               /\ long'[p] # None => long'[p].confirmed
    <3>1. CASE Stable(p, look[p])
      <4> DEFINE k == UpTo(Learnt(p, look[p]).seen, LongAdd)
      <4>1. Learnt(p, look[p]).seen \in 1..frame_count_ + 1
        BY <1>1, <3>1, LearntEntry DEF Stable
      <4>2. k \in 1..LongAdd /\ 0 \in 0..LongRemove
        BY <1>1, <4>1 DEF UpTo
      <4>3. long'[p] = [seen |-> k, absent |-> 0, confirmed |-> TRUE]
        BY <2>1, <3>1
      <4> HIDE DEF k
      <4> QED BY <4>2, <4>3 DEF LongEntry
    <3>2. CASE ~Stable(p, look[p])
      BY <2>1, <3>2
    <3> QED BY <3>1, <3>2
  <2>6. /\ short' \in [Place -> {Absent, 0}]
        /\ long' \in [Place -> LongEntry \cup {None}]
        /\ known' \in [Place -> 0..ResidualAfter]
    BY <2>1, <2>4, <2>5
  <2>7. FreshState'
    BY <1>2, <2>2, <2>3, <2>4, <2>5, <2>6 DEF FreshState
  <2> QED BY <2>7, FreshNext
<1> QED BY <1>3, <1>4

(* An idle step changes nothing. *)
LEMMA IdleKeeps == IInv /\ UNCHANGED vars => IInv'
<1> SUFFICES ASSUME IInv, UNCHANGED vars PROVE IInv'
  OBVIOUS
<1>1. UNCHANGED <<frame_count_, candidate, short, long, protected, hidden, staying, gone, known>>
  BY DEF vars, mapVars, history
<1>2. TypeOK' /\ LearningFresh'
  BY <1>1 DEF IInv, TypeOK, LearningFresh, Learning
<1>3. ASSUME NEW p \in Place
      PROVE  (Absence(p) /\ Counts(p) /\ ShortSettling(p) /\ LongSettling(p))'
  BY <1>1 DEF IInv, Absence, Counts, ShortSettling, LongSettling, Learning
<1>4. LargeObjectSettles'
  BY <1>1 DEF IInv, LargeObjectSettles
<1> QED BY <1>2, <1>3, <1>4 DEF IInv

LEMMA Invariance == Spec => []IInv
<1>1. IInv /\ [Next]_vars => IInv'
  <2> SUFFICES ASSUME IInv, [Next]_vars PROVE IInv'
    OBVIOUS
  <2>1. ASSUME NEW look \in [Place -> Sight], LearnFrame(look) \/ TrackFrame(look)
        PROVE  IInv'
    BY <2>1, LearnKeeps, TrackKeeps
  <2>2. CASE Reset
    BY <2>2, ResetKeeps
  <2>3. CASE UNCHANGED vars
    BY <2>3, IdleKeeps
  <2> QED BY <2>1, <2>2, <2>3 DEF Next
<1> QED BY <1>1, InitKeeps, PTL DEF Spec
-----------------------------------------------------------------------------
(* --- the theorems ------------------------------------------------------- *)

(* The maps and the counters stay within their bounds: no candidate is     *)
(* counted up to add_after_frames, and no entry ages past its limit.       *)
THEOREM TypeCorrect == Spec => []TypeOK
<1>1. IInv => TypeOK
  BY DEF IInv
<1> QED BY <1>1, Invariance, PTL

(* What left is forgotten, by the limits of both maps (AdaptiveUpdate).    *)
THEOREM GoneIsForgottenHolds == Spec => []GoneIsForgotten
<1>1. IInv => GoneIsForgotten
  <2> SUFFICES ASSUME IInv, NEW p \in Place
               PROVE  /\ gone[p] > RemoveAfter => short[p] = Absent /\ candidate[p] = None
                      /\ gone[p] > LongRemove => long[p] = None
    BY DEF GoneIsForgotten
  <2>1. TypeOK /\ Absence(p)
    BY DEF IInv
  <2>2. gone[p] \in Nat /\ short[p] \in Absent..RemoveAfter
    BY <2>1, Bounds DEF TypeOK
  <2>3. candidate[p] # None => candidate[p].absent \in 0..RemoveAfter
    BY <2>1, CandidateFields
  <2>4. long[p] # None => long[p].absent \in 0..LongRemove
    BY <2>1, LongFields
  <2> QED BY <2>1, <2>2, <2>3, <2>4, Bounds DEF Absence, Absent
<1> QED BY <1>1, Invariance, PTL

(* A large object that stays unprotected is background in time, whatever   *)
(* the maps held of its place (FilterBackground and AdaptiveUpdate).       *)
THEOREM LargeObjectSettlesHolds == Spec => []LargeObjectSettles
<1>1. IInv => LargeObjectSettles
  BY DEF IInv
<1> QED BY <1>1, Invariance, PTL

(* Nothing is filtered before the tracker was given what is there in      *)
(* residual_filter_after_frames frames, or the learning phase has seen it. *)
THEOREM NewObjectShownHolds == Spec => NewObjectShown
<1>1. IInv /\ [Next]_vars => [\A p \in hidden' : \E q \in Around(p) : known[q] >= ResidualAfter]_vars
  <2> SUFFICES ASSUME IInv, Next, NEW p \in hidden'
               PROVE  \E q \in Around(p) : known[q] >= ResidualAfter
    OBVIOUS
  <2>1. ASSUME NEW look \in [Place -> Sight], LearnFrame(look) PROVE FALSE
    BY <2>1 DEF LearnFrame, IInv, LearningFresh
  <2>2. ~Reset
    BY DEF Reset
  <2>3. ASSUME NEW look \in [Place -> Sight], TrackFrame(look)
        PROVE  \E q \in Around(p) : known[q] >= ResidualAfter
    <3>1. p \in Place /\ Filtered(p, look[p]) /\ ~Learning
      BY <2>3 DEF TrackFrame
    <3>2. ASSUME NEW q \in Place
          PROVE  known[q] \in 0..ResidualAfter /\ Counts(q) /\ TypeOK
      BY DEF IInv, TypeOK
    <3>3. CASE Residual(p, look[p])
      <4>1. PICK q \in Around(p) : candidate[q] # None /\ candidate[q].seen >= ResidualAfter
        BY <3>3 DEF Residual
      <4>2. q \in Place
        BY DEF Around
      <4>3. candidate[q].seen \in Nat
        BY <3>2, <4>1, <4>2, CandidateFields
      <4>4. candidate[q].seen <= known[q] \/ known[q] = ResidualAfter
        BY <3>1, <3>2, <4>1, <4>2 DEF Counts
      <4>5. known[q] >= ResidualAfter
        BY <3>2, <4>1, <4>2, <4>3, <4>4, Bounds
      <4> QED BY <4>5
    <3>4. CASE Background(p)
      <4>1. known[p] = ResidualAfter
        BY <3>1, <3>2, <3>4 DEF Counts, Background
      <4>2. p \in Around(p)
        BY <3>1 DEF Around
      <4> QED BY <4>1, <4>2, Bounds
    <3> QED BY <3>1, <3>3, <3>4 DEF Filtered
  <2> QED BY <2>1, <2>2, <2>3 DEF Next
<1> QED BY <1>1, Invariance, PTL DEF Spec, NewObjectShown
=============================================================================
