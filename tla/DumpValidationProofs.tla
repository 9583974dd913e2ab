------------------------- MODULE DumpValidationProofs -------------------------
(***************************************************************************)
(* Theorems about DumpValidation for every set of objects and all window,  *)
(* ratio, frame-counter and relearning parameters.                         *)
(***************************************************************************)
EXTENDS DumpValidation, TLAPS

(* A pending dumping keeps its track's flags and has not been reported. *)
Flagged ==
  \A o \in Object : pending[o].pending =>
    o \in dumped /\ o \in fired /\ sent[o] = <<>>

(* A report is final: its track is never shown as anything else again. *)
Final ==
  \A o \in Object : sent[o] # <<>> =>
    /\ Len(sent[o]) = 1
    /\ o \in dumped /\ o \in fired /\ ~pending[o].pending

(* The validator's counters agree with what the observer saw. *)
Agrees(p, l) == p.seen = l.present /\ ~l.moved /\ (p.departed => l.left)

CountersTrue ==
  \A o \in Object : pending[o].pending => Agrees(pending[o], log[o])

IInv ==
  /\ TypeOK
  /\ Flagged
  /\ Final
  /\ CountersTrue
  /\ ReportsAreBacked
  /\ DisplayMatchesVerdict

Pending == [pending : BOOLEAN, start : Nat, seen : Nat, departed : BOOLEAN]
-----------------------------------------------------------------------------
(* One observation keeps record and log in their types and in agreement,   *)
(* unless the object moved.                                                *)
LEMMA ObserveAgrees ==
  ASSUME NEW p \in Pending, NEW l \in Log, NEW s \in Sight,
         NEW near \in BOOLEAN
  PROVE  /\ Observe(p, s, near) \in Pending
         /\ Observe(p, s, near).pending = p.pending
         /\ Witness(l, s, near) \in Log
         /\ Agrees(p, l) /\ s # "moved" =>
              Agrees(Observe(p, s, near), Witness(l, s, near))
BY DEF Pending, Log, Sight, Visible, Observe, Witness, Agrees

LEMMA NextFrameType == frame \in Nat => NextFrame \in Nat
BY ConstantsOK DEF NextFrame

(* What a tracked frame learns of one waiting object: a pending record and *)
(* a log that agree, if the object has not moved.                          *)
LEMMA ObservedAgrees ==
  ASSUME TypeOK, CountersTrue, NEW o \in Object,
         NEW s \in [Object -> Sight], NEW f, NEW near, o \in Waiting(f)
  PROVE  /\ Observed(o, s, f, near) \in Pending
         /\ Observed(o, s, f, near).pending
         /\ Watch(o, s, f, near) \in Log
         /\ s[o] # "moved" =>
              Agrees(Observed(o, s, f, near), Watch(o, s, f, near))
<1> DEFINE p == IF o \in Confirmed(f) THEN OnDumpConfirmed(o, NextFrame)
                ELSE pending[o]
           l == IF pending[o].pending THEN log[o] ELSE Empty
<1>1. NextFrame \in Nat
  BY NextFrameType DEF TypeOK
<1>2. p \in Pending /\ p.pending
  BY <1>1 DEF Waiting, OnDumpConfirmed, Pending, TypeOK
<1>3. l \in Log
  BY DEF Empty, Log, TypeOK
<1>4. Agrees(p, l)
  BY DEF Waiting, OnDumpConfirmed, Agrees, Empty, CountersTrue
<1>5. Observed(o, s, f, near) = Observe(p, s[o], o \in near)
  BY DEF Observed
<1>6. Watch(o, s, f, near) = Witness(l, s[o], o \in near)
  BY DEF Watch
<1>7. (o \in near) \in BOOLEAN /\ s[o] \in Sight
  OBVIOUS
<1> HIDE DEF p, l
<1>8. /\ Observe(p, s[o], o \in near) \in Pending
      /\ Observe(p, s[o], o \in near).pending = p.pending
      /\ Witness(l, s[o], o \in near) \in Log
      /\ s[o] # "moved" => Agrees(Observe(p, s[o], o \in near),
                                  Witness(l, s[o], o \in near))
  BY <1>2, <1>3, <1>4, <1>7, ObserveAgrees
<1> QED BY <1>2, <1>5, <1>6, <1>8

(* A verdict is one of three, and a report is made only of a dumping that  *)
(* did not move and was present in the required share.                     *)
LEMMA VerdictCases ==
  ASSUME NEW p \in Pending, NEW s, NEW n
  PROVE  /\ Verdict(p, s, n) \in {"wait", "report", "cancel"}
         /\ Verdict(p, s, n) # "cancel" => s # "moved"
         /\ Verdict(p, s, n) = "report" => p.seen * 100 >= MinPct * Window
BY DEF Verdict, Present, AtLeast

LEMMA ReportBacked ==
  ASSUME TypeOK, CountersTrue, NEW o \in Object,
         NEW s \in [Object -> Sight], NEW f, NEW near,
         o \in Decided("report", s, f, near)
  PROVE  /\ Report(o, s, f, near) \in
              [confidence : {"high", "medium"}, observed : Nat, log : Log]
         /\ Backed(Report(o, s, f, near))
<1> DEFINE p == Observed(o, s, f, near)
           l == Watch(o, s, f, near)
<1>1. o \in Waiting(f) /\ Verdict(p, s[o], NextFrame) = "report"
  BY DEF Decided
<1>2. p \in Pending /\ l \in Log /\ (s[o] # "moved" => Agrees(p, l))
  BY <1>1, ObservedAgrees
<1>3. Report(o, s, f, near)
        = [confidence |-> Confidence(p), observed |-> p.seen, log |-> l]
  BY DEF Report
<1> HIDE DEF p, l
<1>4. Agrees(p, l) /\ p.seen * 100 >= MinPct * Window
  BY <1>1, <1>2, VerdictCases
<1>5. Confidence(p) \in {"high", "medium"} /\
        (Confidence(p) = "high" => p.departed /\ p.seen * 100 >= HighPct * Window)
  BY DEF Confidence, AtLeast
<1> QED BY <1>2, <1>3, <1>4, <1>5 DEF Agrees, Backed, Pending
-----------------------------------------------------------------------------
(* The flags of a track that is not waiting for a verdict, or is already   *)
(* being watched, can only have been there before.                         *)
LEMMA FlagsKept ==
  ASSUME NEW o \in Object, NEW s, NEW d, NEW f,
         TrackUpdate(o, s, o \in d, o \in f)
  PROVE  /\ o \in dumped /\ o \in fired => o \in d /\ o \in f
         /\ o \in d /\ o \in f /\ o \notin Confirmed(f) =>
              o \in dumped /\ o \in fired
         /\ o \in Confirmed(f) => o \in d /\ o \in f /\ o \notin fired
         /\ sight[o] = "deleted" => s = "deleted"
<1> DEFINE dd == o \in d
           ff == o \in f
           od == o \in dumped
           of == o \in fired
<1>1. CASE sight[o] = "deleted"
  BY <1>1 DEF TrackUpdate, Confirmed
<1>2. CASE sight[o] # "deleted"
  <2>1. \/ (dd <=> od) /\ (ff <=> of)
        \/ ~of /\ dd /\ ~ff
        \/ ~od /\ ~dd /\ ~ff
        \/ ~of /\ dd /\ ff
    BY <1>2 DEF TrackUpdate, Promotion, Recovery, Confirmation
  <2> QED BY <1>2, <2>1 DEF Confirmed
<1> QED BY <1>1, <1>2

(* The tracked frame preserves every part of the invariant. *)
LEMMA TrackFrameInductive ==
  ASSUME IInv, NEW s \in [Object -> Sight],
         NEW d \in SUBSET Object, NEW f \in SUBSET Object,
         NEW near \in SUBSET Object, TrackFrame(s, d, f, near)
  PROVE  IInv'
<1> DEFINE waits(o) == o \in Decided("wait", s, f, near)
           reports(o) == o \in Decided("report", s, f, near)
           cancels(o) == o \in Decided("cancel", s, f, near)
           p(o) == Observed(o, s, f, near)
           l(o) == Watch(o, s, f, near)
           r(o) == Report(o, s, f, near)
<1>upd. \A o \in Object :
          /\ pending'[o] = IF waits(o) THEN p(o) ELSE NotPending
          /\ sent'[o] = IF reports(o) THEN Append(sent[o], r(o)) ELSE sent[o]
          /\ log'[o] = l(o)
  BY DEF TrackFrame
<1>set. /\ dumped' = d \ Cleared(Decided("cancel", s, f, near), s)
        /\ cancelled' = (cancelled \ Confirmed(f))
                          \cup Decided("cancel", s, f, near)
        /\ fired' = f /\ sight' = s /\ frame' = NextFrame
        /\ UNCHANGED <<learning, resets>>
  BY DEF TrackFrame
<1>fun. /\ DOMAIN pending' = Object /\ DOMAIN sent' = Object
        /\ DOMAIN log' = Object
        /\ pending' = [o \in Object |-> pending'[o]]
        /\ sent' = [o \in Object |-> sent'[o]]
        /\ log' = [o \in Object |-> log'[o]]
  BY DEF TrackFrame
<1>old. TypeOK /\ Flagged /\ Final /\ CountersTrue /\ ReportsAreBacked
        /\ DisplayMatchesVerdict
  BY DEF IInv
<1>obs. \A o \in Object : o \in Waiting(f) =>
          /\ p(o) \in Pending /\ p(o).pending /\ l(o) \in Log
          /\ s[o] # "moved" => Agrees(p(o), l(o))
  BY <1>old, ObservedAgrees
<1>log. \A o \in Object : l(o) \in Log
  BY <1>old, <1>obs DEF Watch, TypeOK
<1>ver. \A o \in Object :
          /\ waits(o) \/ reports(o) \/ cancels(o) <=> o \in Waiting(f)
          /\ ~(waits(o) /\ reports(o)) /\ ~(waits(o) /\ cancels(o))
          /\ ~(reports(o) /\ cancels(o))
          /\ waits(o) => s[o] # "moved"
  BY <1>obs, VerdictCases DEF Decided
<1>rep. \A o \in Object : reports(o) =>
          /\ r(o) \in [confidence : {"high", "medium"}, observed : Nat,
                       log : Log]
          /\ Backed(r(o))
  BY <1>old, ReportBacked
<1>flg. \A o \in Object :
          /\ o \in dumped /\ o \in fired => o \in d /\ o \in f
          /\ o \in d /\ o \in f /\ o \notin Confirmed(f) =>
               o \in dumped /\ o \in fired
          /\ o \in Confirmed(f) => o \in d /\ o \in f /\ o \notin fired
          /\ sight[o] = "deleted" => s[o] = "deleted"
  <2> SUFFICES ASSUME NEW o \in Object
               PROVE  TrackUpdate(o, s[o], o \in d, o \in f)
    BY FlagsKept
  <2> QED BY DEF TrackFrame
<1>new. \A o \in Object : o \in Waiting(f) =>
          sent[o] = <<>> /\ o \in d /\ o \in f
  BY <1>old, <1>flg DEF Waiting, Flagged, Final
<1>idle. \A o \in Object : o \notin Waiting(f) => ~pending[o].pending
  BY DEF Waiting
<1> HIDE DEF waits, reports, cancels, p, l, r
<1>1. TypeOK'
  <2>1. \A o \in Object : pending'[o] \in Pending
    <3>1. NotPending \in Pending
      BY DEF NotPending, Pending
    <3>2. \A o \in Object : waits(o) => p(o) \in Pending
      BY <1>obs, <1>ver
    <3> QED BY <3>1, <3>2, <1>upd
  <2>2. \A o \in Object : sent'[o] \in
          Seq([confidence : {"high", "medium"}, observed : Nat, log : Log])
    <3> DEFINE R == [confidence : {"high", "medium"}, observed : Nat,
                     log : Log]
    <3>1. \A o \in Object : sent[o] \in Seq(R)
      BY <1>old DEF TypeOK
    <3>2. \A o \in Object : reports(o) => r(o) \in R
      BY <1>rep
    <3> HIDE DEF R
    <3>3. \A o \in Object : sent'[o] \in Seq(R)
      <4> SUFFICES ASSUME NEW o \in Object PROVE sent'[o] \in Seq(R)
        OBVIOUS
      <4>1. CASE reports(o)
        <5>1. sent'[o] = Append(sent[o], r(o))
          BY <4>1, <1>upd
        <5>2. sent[o] \in Seq(R) /\ r(o) \in R
          BY <4>1, <3>1, <3>2
        <5> QED BY <5>1, <5>2
      <4>2. CASE ~reports(o)
        BY <4>2, <3>1, <1>upd
      <4> QED BY <4>1, <4>2
    <3> QED BY <3>3 DEF R
  <2>3. \A o \in Object : log'[o] \in Log
    BY <1>upd, <1>log
  <2>4. /\ pending' \in [Object -> Pending] /\ log' \in [Object -> Log]
        /\ sent' \in [Object -> Seq([confidence : {"high", "medium"},
                                     observed : Nat, log : Log])]
    BY <2>1, <2>2, <2>3, <1>fun
  <2>5. frame' \in Nat
    BY <1>set, <1>old, NextFrameType DEF TypeOK
  <2>6. cancelled' \subseteq Object /\ dumped' \subseteq Object
    BY <1>set, <1>old DEF TypeOK, Decided, Waiting, Confirmed
  <2> QED BY <2>4, <2>5, <2>6, <1>set, <1>old DEF TypeOK, Pending
<1>2. Flagged'
  <2> SUFFICES ASSUME NEW o \in Object, pending'[o].pending
               PROVE  o \in dumped' /\ o \in fired' /\ sent'[o] = <<>>
    BY DEF Flagged
  <2>1. waits(o)
    BY <1>upd DEF NotPending
  <2>2. o \notin Decided("cancel", s, f, near)
    BY <2>1, <1>ver DEF cancels
  <2> QED BY <2>1, <2>2, <1>upd, <1>set, <1>ver, <1>new DEF Cleared
<1>3. Final'
  <2> SUFFICES ASSUME NEW o \in Object, sent'[o] # <<>>
               PROVE  /\ Len(sent'[o]) = 1 /\ o \in dumped' /\ o \in fired'
                      /\ ~pending'[o].pending
    BY DEF Final
  <2>1. CASE reports(o)
    <3>1. sent'[o] = Append(<<>>, r(o)) /\ ~waits(o)
          /\ o \notin Decided("cancel", s, f, near)
      BY <2>1, <1>upd, <1>ver, <1>new DEF cancels
    <3>2. Len(sent'[o]) = 1
      BY <3>1
    <3> QED BY <2>1, <3>1, <3>2, <1>upd, <1>set, <1>ver, <1>new
            DEF Cleared, NotPending
  <2>2. CASE ~reports(o)
    <3>1. sent'[o] = sent[o]
      BY <2>2, <1>upd
    <3>2. o \notin Waiting(f) /\ o \in d /\ o \in f
      BY <3>1, <1>old, <1>new, <1>flg DEF Final
    <3>3. ~waits(o) /\ o \notin Decided("cancel", s, f, near)
      BY <3>2, <1>ver DEF cancels
    <3> QED BY <3>1, <3>2, <3>3, <1>old, <1>upd, <1>set
            DEF Final, Cleared, NotPending
  <2> QED BY <2>1, <2>2
<1>4. CountersTrue'
  <2> SUFFICES ASSUME NEW o \in Object, pending'[o].pending
               PROVE  Agrees(pending'[o], log'[o])
    BY DEF CountersTrue
  <2>1. waits(o)
    BY <1>upd DEF NotPending
  <2> QED BY <2>1, <1>upd, <1>obs, <1>ver
<1>5. ReportsAreBacked'
  <2> SUFFICES ASSUME NEW o \in Object, NEW i \in 1..Len(sent'[o])
               PROVE  Backed(sent'[o][i])
    BY DEF ReportsAreBacked
  <2>1. CASE reports(o)
    <3>1. sent'[o] = Append(<<>>, r(o))
      BY <2>1, <1>upd, <1>ver, <1>new
    <3>2. i = 1 /\ sent'[o][1] = r(o)
      BY <3>1
    <3> QED BY <2>1, <3>2, <1>rep
  <2>2. CASE ~reports(o)
    BY <2>2, <1>upd, <1>old DEF ReportsAreBacked
  <2> QED BY <2>1, <2>2
<1>6. DisplayMatchesVerdict'
  <2> SUFFICES ASSUME NEW o \in dumped' \cap fired'
               PROVE  pending'[o].pending \/ sent'[o] # <<>>
                      \/ sight'[o] = "deleted"
    BY DEF DisplayMatchesVerdict
  <2>1. o \in Object /\ o \in d /\ o \in f
    BY <1>set
  <2>2. CASE waits(o)
    BY <2>1, <2>2, <1>upd, <1>obs, <1>ver
  <2>3. CASE reports(o)
    <3>1. sent'[o] = Append(<<>>, r(o))
      BY <2>1, <2>3, <1>upd, <1>ver, <1>new
    <3> QED BY <3>1
  <2>4. CASE cancels(o)
    BY <2>1, <2>4, <1>set DEF Cleared, cancels
  <2>5. CASE o \notin Waiting(f)
    <3>1. o \in dumped /\ o \in fired
      BY <2>1, <2>5, <1>flg DEF Waiting
    <3>2. sent'[o] = sent[o]
      BY <2>1, <2>5, <1>upd, <1>ver
    <3>3. sight'[o] = s[o]
      BY <1>set
    <3> QED BY <2>1, <2>5, <3>1, <3>2, <3>3, <1>idle, <1>old, <1>flg
            DEF DisplayMatchesVerdict
  <2> QED BY <2>1, <2>2, <2>3, <2>4, <2>5, <1>ver
<1> QED BY <1>1, <1>2, <1>3, <1>4, <1>5, <1>6 DEF IInv
-----------------------------------------------------------------------------
LEMMA InitInv == Init => IInv
<1> SUFFICES ASSUME Init PROVE IInv
  OBVIOUS
<1>1. TypeOK
  BY ConstantsOK DEF Init, TypeOK, Sight, NotPending, Empty, Log
<1> QED BY <1>1 DEF Init, IInv, Flagged, Final, CountersTrue, ReportsAreBacked,
           DisplayMatchesVerdict, NotPending

(* Every step preserves the inductive invariant. *)
LEMMA InvInductive == IInv /\ [Next]_vars => IInv'
<1> SUFFICES ASSUME IInv, [Next]_vars PROVE IInv'
  OBVIOUS
<1>1. ASSUME NEW s \in [Object -> Sight], NEW d \in SUBSET Object,
             NEW f \in SUBSET Object, NEW near \in SUBSET Object,
             TrackFrame(s, d, f, near)
      PROVE  IInv'
  BY <1>1, TrackFrameInductive
<1>2. CASE LearnFrame
  <2> DEFINE W(o) == IF pending[o].pending
                     THEN [log[o] EXCEPT !.skipped = @ + 1] ELSE log[o]
  <2>old. \A o \in Object : log[o] \in Log /\ W(o) \in Log
    <3>1. \A o \in Object : log[o] \in Log
      BY DEF IInv, TypeOK
    <3>2. \A k \in Log : [k EXCEPT !.skipped = @ + 1] \in Log
      BY DEF Log
    <3> QED BY <3>1, <3>2
  <2>upd. log' = [o \in Object |-> W(o)]
    BY <1>2 DEF LearnFrame
  <2>typ. log' \in [Object -> Log]
    BY <2>old, <2>upd
  <2>1. /\ UNCHANGED <<resets, tracks, pending, verdict>>
        /\ frame' = NextFrame /\ learning' = learning - 1 /\ learning > 0
    BY <1>2 DEF LearnFrame
  <2>2. \A o \in Object : /\ log'[o].present = log[o].present
                          /\ log'[o].moved = log[o].moved
                          /\ log'[o].left = log[o].left
    BY <2>old, <2>upd DEF Log
  <2>3. TypeOK'
    <3>1. learning' \in 0..LearnFrames /\ frame' \in Nat
      BY <2>1, NextFrameType, ConstantsOK DEF IInv, TypeOK
    <3> QED BY <2>1, <2>typ, <3>1 DEF IInv, TypeOK, tracks, verdict
  <2>4. CountersTrue'
    BY <2>1, <2>2 DEF IInv, CountersTrue, Agrees
  <2> QED BY <2>1, <2>3, <2>4 DEF IInv, Flagged, Final, ReportsAreBacked,
             DisplayMatchesVerdict, tracks, verdict
<1>3. CASE Reset \/ UNCHANGED vars
  <2>1. UNCHANGED <<frame, tracks, pending, verdict, log>>
    BY <1>3 DEF Reset, vars
  <2>2. resets' \in 0..MaxResets /\ learning' \in 0..LearnFrames
    BY <1>3, ConstantsOK DEF Reset, vars, IInv, TypeOK
  <2> QED BY <2>1, <2>2 DEF IInv, TypeOK, Flagged, Final, CountersTrue,
             ReportsAreBacked, DisplayMatchesVerdict, tracks, verdict
<1> QED BY <1>1, <1>2, <1>3 DEF Next, Frame

LEMMA InvCorrect == Spec => []IInv
BY InitInv, InvInductive, PTL DEF Spec

(* The validator's variables keep their types. *)
THEOREM TypeCorrect == Spec => []TypeOK
<1>1. IInv => TypeOK
  BY DEF IInv
<1> QED BY <1>1, InvCorrect, PTL

(* An object is reported at most once, however often its track is lost,    *)
(* recovered and confirmed again.                                          *)
THEOREM NeverReportedTwice == Spec => []ReportedOnce
<1>1. IInv => ReportedOnce
  <2> SUFFICES ASSUME IInv, NEW o \in Object PROVE Len(sent[o]) <= 1
    BY DEF ReportedOnce
  <2>1. CASE sent[o] = <<>>
    BY <2>1
  <2>2. CASE sent[o] # <<>>
    <3>1. Len(sent[o]) = 1
      BY <2>2 DEF IInv, Final
    <3> QED BY <3>1
  <2> QED BY <2>1, <2>2
<1> QED BY <1>1, InvCorrect, PTL

(* Each report rests on what was observed after the confirmation. *)
THEOREM ReportsRestOnEvidence == Spec => []ReportsAreBacked
<1>1. IInv => ReportsAreBacked
  BY DEF IInv
<1> QED BY <1>1, InvCorrect, PTL

(* A cancelled dumping is never left on the screen. *)
THEOREM DisplayIsConsistent == Spec => []DisplayMatchesVerdict
<1>1. IInv => DisplayMatchesVerdict
  BY DEF IInv
<1> QED BY <1>1, InvCorrect, PTL
-----------------------------------------------------------------------------
(* Counting frames modulo FrameMod: n is e frames later than start. *)
Later(n, start, e) ==
  n = IF start + e < FrameMod THEN start + e ELSE start + e - FrameMod

Tick == 0..(FrameMod - 1)

(* frame_count is a tick, also when it wraps. *)
FrameCounts == frame \in Tick

(* Each frame since the confirmation was observed or skipped, so together   *)
(* they tell how long ago it was; what can still be skipped is bounded by   *)
(* the resets.                                                              *)
EveryFrameCounted ==
  \A o \in Object : pending[o].pending =>
    /\ pending[o].start \in Tick
    /\ Waits(log[o]) \in 1..Window
    /\ log[o].skipped + learning <= resets * LearnFrames
    /\ Later(frame, pending[o].start, Waits(log[o]) - 1 + log[o].skipped)

(* A cancelled dumping is no longer watched. *)
CancelledIsOver == \A o \in cancelled : ~pending[o].pending

CInv ==
  /\ FrameCounts /\ EveryFrameCounted /\ CancelledIsOver
  /\ DecidedOnTime /\ CancelsAreBacked

(* A window and all the learning there can be are shorter than the range   *)
(* of frame_count.                                                          *)
LEMMA WindowFits ==
  /\ FrameMod \in Nat \ {0} /\ Window \in Nat \ {0}
  /\ Window < FrameMod
  /\ \A r \in 0..MaxResets : /\ r * LearnFrames \in Nat
                             /\ Window + r * LearnFrames < FrameMod
<1>1. MaxResets * LearnFrames \in Nat
  BY ConstantsOK
<1>2. ASSUME NEW r \in 0..MaxResets
      PROVE  r * LearnFrames \in Nat /\ Window + r * LearnFrames < FrameMod
  <2>1. r * LearnFrames \in Nat /\ (MaxResets - r) * LearnFrames \in Nat
    BY ConstantsOK
  <2>2. (MaxResets - r) * LearnFrames
          = MaxResets * LearnFrames - r * LearnFrames
    BY ConstantsOK
  <2>3. r * LearnFrames <= MaxResets * LearnFrames
    BY <1>1, <2>1, <2>2
  <2> QED BY <1>1, <2>1, <2>3, ConstantsOK
<1> QED BY <1>1, <1>2, ConstantsOK

LEMMA NextTick ==
  frame \in Tick => NextFrame \in Tick /\ Later(NextFrame, frame, 1)
<1> SUFFICES ASSUME frame \in Tick
             PROVE  NextFrame \in Tick /\ Later(NextFrame, frame, 1)
  OBVIOUS
<1>1. CASE frame + 1 < FrameMod
  <2>1. frame + 1 \in 0..(FrameMod - 1)
    BY <1>1, WindowFits DEF Tick
  <2>2. (frame + 1) % FrameMod = frame + 1
    BY <2>1, WindowFits
  <2> QED BY <1>1, <2>1, <2>2 DEF NextFrame, Tick, Later
<1>2. CASE frame + 1 = FrameMod
  <2>1. FrameMod % FrameMod = 0
    BY WindowFits
  <2> QED BY <1>2, <2>1, WindowFits DEF NextFrame, Tick, Later
<1> QED BY <1>1, <1>2, WindowFits DEF Tick

(* The unsigned difference of two frame counts is the time between them.    *)
LEMMA Elapsed ==
  ASSUME NEW start \in Tick, NEW e \in Tick, NEW n, Later(n, start, e)
  PROVE  n \in Tick /\ (n - start) % FrameMod = e
<1>1. e \in 0..(FrameMod - 1)
  BY DEF Tick
<1>2. CASE start + e < FrameMod
  <2>1. n - start = e /\ n \in Tick
    BY <1>1, <1>2, WindowFits DEF Later, Tick
  <2>2. e % FrameMod = e
    BY <1>1, WindowFits
  <2> QED BY <2>1, <2>2
<1>3. CASE start + e >= FrameMod
  <2>1. n - start = e - FrameMod /\ n \in Tick
    BY <1>1, <1>3, WindowFits DEF Later, Tick
  <2>2. (e - FrameMod) % FrameMod = e
    BY <1>1, WindowFits
  <2> QED BY <2>1, <2>2
<1> QED BY <1>2, <1>3, WindowFits DEF Tick

(* The observation of one frame: how long ago the confirmation was, and     *)
(* hence whether the window is over.                                        *)
LEMMA WaitingCounts ==
  ASSUME IInv, CInv, learning = 0, NEW o \in Object,
         NEW s \in [Object -> Sight], NEW f, NEW near, o \in Waiting(f),
         NEW p, p = Observed(o, s, f, near),
         NEW l, l = Watch(o, s, f, near), s[o] # "moved"
  PROVE  /\ p.start \in Tick
         /\ Waits(l) \in 1..(Window + 1)
         /\ l.skipped \in Nat /\ l.skipped <= resets * LearnFrames
         /\ Later(NextFrame, p.start, Waits(l) - 1 + l.skipped)
         /\ Expired(p, NextFrame) <=> Waits(l) + l.skipped > Window
<1> DEFINE bp == IF o \in Confirmed(f) THEN OnDumpConfirmed(o, NextFrame)
                 ELSE pending[o]
           bl == IF pending[o].pending THEN log[o] ELSE Empty
           e == Waits(bl) + bl.skipped
<1>1. /\ frame \in Tick /\ NextFrame \in Tick /\ Later(NextFrame, frame, 1)
  BY NextTick DEF CInv, FrameCounts
<1>2. TypeOK /\ EveryFrameCounted
  BY DEF IInv, CInv
<1>3. /\ log[o] \in Log /\ Empty \in Log /\ s[o] \in Sight
      /\ resets \in 0..MaxResets
  BY <1>2 DEF TypeOK, Log, Empty
<1>4. /\ resets * LearnFrames \in Nat
      /\ Window + resets * LearnFrames < FrameMod
  BY <1>3, WindowFits
<1>5. bl \in Log
  BY <1>3
<1>6. p.start = bp.start /\ l = Witness(bl, s[o], o \in near)
  BY DEF Observed, Observe, Watch
<1>7. /\ bp.start \in Tick /\ Waits(bl) \in 0..Window
      /\ bl.skipped <= resets * LearnFrames
      /\ Later(NextFrame, bp.start, e)
  <2>1. CASE pending[o].pending
    <3>1. bp = pending[o] /\ bl = log[o]
      BY <2>1 DEF OnDumpConfirmed
    <3>2. /\ pending[o].start \in Tick /\ Waits(log[o]) \in 1..Window
          /\ log[o].skipped <= resets * LearnFrames
          /\ Later(frame, pending[o].start, Waits(log[o]) - 1 + log[o].skipped)
      BY <1>2, <1>3, <2>1, learning = 0 DEF EveryFrameCounted, Log
    <3>3. Waits(log[o]) + log[o].skipped < FrameMod
          /\ log[o].skipped \in Nat /\ Waits(log[o]) \in Nat
      BY <1>3, <1>4, <3>2, WindowFits DEF Log
    <3>4. Later(NextFrame, pending[o].start, Waits(log[o]) + log[o].skipped)
      BY <1>1, <3>2, <3>3, WindowFits DEF Later, Tick
    <3>5. e = Waits(log[o]) + log[o].skipped
      BY <3>1
    <3> QED BY <3>1, <3>2, <3>4, <3>5, WindowFits
  <2>2. CASE ~pending[o].pending
    <3>1. bp.start = NextFrame /\ bl = Empty
      BY <2>2 DEF OnDumpConfirmed, Waiting
    <3> QED BY <1>1, <1>4, <3>1, WindowFits DEF Later, Tick, Waits, Empty
  <2> QED BY <2>1, <2>2
<1> HIDE DEF bp, bl
<1>8. /\ bl.missed \in Nat /\ bl.present \in Nat /\ bl.skipped \in Nat
  BY <1>5 DEF Log
<1>9. Waits(l) = Waits(bl) + 1 /\ l.skipped = bl.skipped
  BY <1>3, <1>6, <1>8 DEF Waits, Witness, Sight, Visible
<1>10. /\ Waits(l) \in 1..(Window + 1) /\ Waits(l) - 1 + l.skipped = e
       /\ e \in Tick
  BY <1>4, <1>7, <1>8, <1>9, WindowFits DEF Tick
<1>11. (NextFrame - p.start) % FrameMod = e
  BY <1>6, <1>7, <1>10, Elapsed
<1>12. Expired(p, NextFrame) <=> e >= Window
  BY <1>11 DEF Expired
<1>13. e >= Window <=> Waits(l) + l.skipped > Window
  BY <1>7, <1>8, <1>9, WindowFits
<1> QED BY <1>6, <1>7, <1>8, <1>9, <1>10, <1>12, <1>13

(* A frame that sees the object moved says so in its log. *)
LEMMA MoveIsLogged ==
  ASSUME NEW o \in Object, NEW s, NEW f, NEW near, o \in Waiting(f),
         s[o] = "moved"
  PROVE  Watch(o, s, f, near).moved
BY DEF Watch, Witness

LEMMA TrackFrameCounts ==
  ASSUME IInv, CInv, NEW s \in [Object -> Sight],
         NEW d \in SUBSET Object, NEW f \in SUBSET Object,
         NEW near \in SUBSET Object, TrackFrame(s, d, f, near)
  PROVE  CInv'
<1>1. /\ frame' = NextFrame /\ learning = 0 /\ fired' = f
      /\ UNCHANGED <<learning, resets>>
      /\ cancelled' = (cancelled \ Confirmed(f))
                        \cup Decided("cancel", s, f, near)
      /\ \A o \in Object :
           /\ pending'[o] = IF o \in Decided("wait", s, f, near)
                            THEN Observed(o, s, f, near) ELSE NotPending
           /\ sent'[o] = IF o \in Decided("report", s, f, near)
                         THEN Append(sent[o], Report(o, s, f, near))
                         ELSE sent[o]
           /\ log'[o] = Watch(o, s, f, near)
  BY DEF TrackFrame
<1>2. NextFrame \in Tick
  BY NextTick DEF CInv, FrameCounts
<1>3. FrameCounts'
  BY <1>1, <1>2 DEF FrameCounts, Tick
<1>4. ASSUME NEW o \in Object, o \in Waiting(f), s[o] # "moved"
      PROVE  LET p == Observed(o, s, f, near)
             IN  /\ p.start \in Tick
                 /\ Waits(log'[o]) \in 1..(Window + 1)
                 /\ log'[o].skipped \in Nat
                 /\ log'[o].skipped <= resets * LearnFrames
                 /\ Later(NextFrame, p.start, Waits(log'[o]) - 1 + log'[o].skipped)
                 /\ Expired(p, NextFrame) <=>
                      Waits(log'[o]) + log'[o].skipped > Window
  BY <1>1, <1>4, WaitingCounts
<1>5. EveryFrameCounted' /\
      \A o \in Object : pending'[o].pending => Waits(log'[o]) <= Window
  <2> SUFFICES ASSUME NEW o \in Object, pending'[o].pending
               PROVE  /\ pending'[o].start \in Tick
                      /\ Waits(log'[o]) \in 1..Window
                      /\ log'[o].skipped + learning' <= resets' * LearnFrames
                      /\ Later(frame', pending'[o].start,
                               Waits(log'[o]) - 1 + log'[o].skipped)
    BY WindowFits DEF EveryFrameCounted, Tick, Later, Waits
  <2>1. /\ o \in Decided("wait", s, f, near)
        /\ pending'[o] = Observed(o, s, f, near)
    BY <1>1 DEF NotPending
  <2>2. /\ o \in Waiting(f) /\ s[o] # "moved"
        /\ ~Expired(pending'[o], NextFrame)
    BY <2>1 DEF Decided, Verdict
  <2>3. /\ pending'[o].start \in Tick
        /\ Waits(log'[o]) \in 1..(Window + 1) /\ log'[o].skipped \in Nat
        /\ log'[o].skipped <= resets * LearnFrames
        /\ Later(NextFrame, pending'[o].start,
                 Waits(log'[o]) - 1 + log'[o].skipped)
        /\ ~(Waits(log'[o]) + log'[o].skipped > Window)
    BY <1>4, <2>1, <2>2
  <2>4. Waits(log'[o]) \in 1..Window
    BY <2>3, WindowFits
  <2>5. log'[o].skipped + learning' <= resets' * LearnFrames
    BY <1>1, <2>3
  <2> QED BY <1>1, <2>3, <2>4, <2>5
<1>6. CancelledIsOver'
  <2> SUFFICES ASSUME NEW o \in cancelled', pending'[o].pending
               PROVE  FALSE
    BY DEF CancelledIsOver
  <2>1. o \in Object
    BY <1>1 DEF IInv, TypeOK, Decided, Waiting, Confirmed
  <2>2. o \in Decided("wait", s, f, near)
    BY <1>1, <2>1 DEF NotPending
  <2>3. o \in cancelled /\ o \notin Confirmed(f)
    BY <1>1, <2>2 DEF Decided
  <2> QED BY <2>2, <2>3 DEF CInv, CancelledIsOver, Decided, Waiting
<1>7. \A o \in Object : o \in Waiting(f) =>
        o \in Decided("wait", s, f, near) \/ o \in Decided("report", s, f, near)
          \/ o \in Decided("cancel", s, f, near)
  BY DEF Decided, Verdict
<1>8. \A o \in fired' :
        pending'[o].pending \/ sent'[o] # <<>> \/ o \in cancelled'
  <2> SUFFICES ASSUME NEW o \in f
               PROVE  pending'[o].pending \/ sent'[o] # <<>>
                      \/ o \in cancelled'
    BY <1>1
  <2>1. o \in Object
    OBVIOUS
  <2>2. CASE o \in Waiting(f)
    <3>1. CASE o \in Decided("wait", s, f, near)
      <4>1. Observed(o, s, f, near).pending
        BY <2>1, <2>2, ObservedAgrees DEF IInv
      <4> QED BY <1>1, <2>1, <3>1, <4>1
    <3>2. CASE o \in Decided("report", s, f, near)
      <4>1. sent'[o] = Append(sent[o], Report(o, s, f, near))
        BY <1>1, <2>1, <3>2
      <4>2. sent[o] \in Seq([confidence : {"high", "medium"},
                             observed : Nat, log : Log])
        BY <2>1 DEF IInv, TypeOK
      <4> HIDE DEF IInv
      <4>3. Append(sent[o], Report(o, s, f, near)) # <<>>
        BY <4>2
      <4> QED BY <4>1, <4>3
    <3>3. CASE o \in Decided("cancel", s, f, near)
      BY <1>1, <3>3
    <3> QED BY <1>7, <2>1, <2>2, <3>1, <3>2, <3>3
  <2>3. CASE o \notin Waiting(f)
    <3>1. o \in fired /\ ~pending[o].pending /\ o \notin Confirmed(f)
      BY <2>1, <2>3 DEF Waiting, Confirmed
    <3>2. sent[o] # <<>> \/ o \in cancelled
      BY <2>1, <3>1 DEF CInv, DecidedOnTime
    <3>3. sent'[o] = sent[o]
      BY <1>1, <2>1, <2>3 DEF Decided
    <3> QED BY <1>1, <3>1, <3>2, <3>3
  <2> QED BY <2>2, <2>3
<1>9. \A o \in Object : sent'[o] # <<>> \/ o \in cancelled' =>
        log'[o].moved \/ Waits(log'[o]) + log'[o].skipped > Window
  <2> SUFFICES ASSUME NEW o \in Object, sent'[o] # <<>> \/ o \in cancelled',
                      ~log'[o].moved
               PROVE  Waits(log'[o]) + log'[o].skipped > Window
    OBVIOUS
  <2>1. CASE o \in Waiting(f)
    <3>1. s[o] # "moved"
      BY <1>1, <2>1, MoveIsLogged
    <3>2. sent[o] = <<>>
      <4>1. CASE pending[o].pending
        BY <4>1 DEF IInv, Flagged
      <4>2. CASE o \in Confirmed(f)
        BY <4>2 DEF IInv, Final, Confirmed
      <4> QED BY <2>1, <4>1, <4>2 DEF Waiting
    <3>3. o \notin cancelled \ Confirmed(f)
      BY <2>1 DEF CInv, CancelledIsOver, Waiting
    <3>4. \/ o \in Decided("report", s, f, near)
          \/ o \in Decided("cancel", s, f, near)
      BY <1>1, <3>2, <3>3
    <3>5. Expired(Observed(o, s, f, near), NextFrame)
      BY <3>1, <3>4 DEF Decided, Verdict
    <3> QED BY <1>4, <2>1, <3>1, <3>5
  <2>2. CASE o \notin Waiting(f)
    <3>1. log'[o] = log[o] /\ sent'[o] = sent[o]
      BY <1>1, <2>2 DEF Watch, Decided
    <3>2. o \in cancelled' => o \in cancelled
      BY <1>1, <2>2 DEF Decided
    <3> QED BY <3>1, <3>2 DEF CInv, DecidedOnTime
  <2> QED BY <2>1, <2>2
<1>10. DecidedOnTime'
  <2>1. \A o \in Object : pending'[o].pending => Waits(log'[o]) <= Window
    BY <1>5
  <2> QED BY <1>8, <1>9, <2>1 DEF DecidedOnTime, Waits
<1>11. CancelsAreBacked'
  <2> SUFFICES ASSUME NEW o \in cancelled', ~log'[o].moved,
                      ~(log'[o].skipped > 0)
               PROVE  log'[o].missed * 100 > (100 - MinPct) * Window
    BY DEF CancelsAreBacked
  <2>1. o \in Object
    BY <1>1 DEF IInv, TypeOK, Decided, Waiting, Confirmed
  <2>2. CASE o \notin Decided("cancel", s, f, near)
    <3>1. o \in cancelled /\ o \notin Waiting(f)
      BY <1>1, <2>2 DEF CInv, CancelledIsOver, Waiting
    <3>2. log'[o] = log[o]
      BY <1>1, <2>1, <3>1 DEF Watch
    <3> QED BY <3>1, <3>2 DEF CInv, CancelsAreBacked
  <2>3. CASE o \in Decided("cancel", s, f, near)
    <3> DEFINE p == Observed(o, s, f, near)
    <3>1. o \in Waiting(f) /\ Verdict(p, s[o], NextFrame) = "cancel"
      BY <2>3 DEF Decided
    <3>2. s[o] # "moved"
      BY <1>1, <2>1, <3>1, MoveIsLogged
    <3>3. Expired(p, NextFrame) /\ ~(p.seen * 100 >= MinPct * Window)
      BY <3>1, <3>2 DEF Verdict, Present, AtLeast
    <3>4. /\ log'[o] \in Log /\ p \in Pending /\ p.seen = log'[o].present
      BY <1>1, <2>1, <3>1, <3>2, ObservedAgrees DEF Agrees, IInv
    <3>5. Waits(log'[o]) > Window
      <4>1. /\ Waits(log'[o]) + log'[o].skipped > Window
            /\ log'[o].skipped \in Nat /\ Waits(log'[o]) \in Int
        BY <1>4, <2>1, <3>1, <3>2, <3>3
      <4> QED BY <4>1
    <3>6. /\ log'[o].present \in Nat /\ log'[o].missed \in Nat
          /\ ~(log'[o].present * 100 >= MinPct * Window)
      BY <3>3, <3>4 DEF Log
    <3>7. /\ MinPct * Window \in Nat
          /\ (100 - MinPct) * Window = 100 * Window - MinPct * Window
      BY ConstantsOK
    <3> QED BY <3>5, <3>6, <3>7, WindowFits DEF Waits
  <2> QED BY <2>2, <2>3
<1> QED BY <1>3, <1>5, <1>6, <1>10, <1>11 DEF CInv

(* A skipped frame is counted for the dumpings that wait, and only them. *)
LEMMA LearnFrameCounts == IInv /\ CInv /\ LearnFrame => CInv'
<1> SUFFICES ASSUME IInv, CInv, LearnFrame PROVE CInv'
  OBVIOUS
<1>1. TypeOK /\ Flagged /\ Final
  BY DEF IInv
<1>2. /\ UNCHANGED <<pending, sent, cancelled, fired, resets>>
      /\ frame' = NextFrame /\ learning' = learning - 1 /\ learning > 0
      /\ \A o \in Object :
           log'[o] = IF pending[o].pending
                     THEN [log[o] EXCEPT !.skipped = @ + 1] ELSE log[o]
  BY DEF LearnFrame, verdict, tracks
<1>3. \A o \in Object : log[o] \in Log
  BY <1>1 DEF TypeOK
<1>4. \A o \in Object :
        /\ log'[o].moved = log[o].moved /\ log'[o].missed = log[o].missed
        /\ log'[o].present = log[o].present
        /\ log'[o].skipped = IF pending[o].pending THEN log[o].skipped + 1
                             ELSE log[o].skipped
        /\ Waits(log'[o]) = Waits(log[o])
  BY <1>2, <1>3 DEF Log, Waits
<1>5. frame \in Tick /\ NextFrame \in Tick /\ Later(NextFrame, frame, 1)
  BY NextTick DEF CInv, FrameCounts
<1>6. FrameCounts'
  BY <1>2, <1>5 DEF FrameCounts, Tick
<1>7. EveryFrameCounted'
  <2> SUFFICES ASSUME NEW o \in Object, pending'[o].pending
               PROVE  /\ pending'[o].start \in Tick
                      /\ Waits(log'[o]) \in 1..Window
                      /\ log'[o].skipped + learning' <= resets' * LearnFrames
                      /\ Later(frame', pending'[o].start,
                               Waits(log'[o]) - 1 + log'[o].skipped)
    BY DEF EveryFrameCounted, Tick, Later, Waits
  <2>1. /\ pending[o].pending /\ pending[o].start \in Tick
        /\ Waits(log[o]) \in 1..Window
        /\ log[o].skipped + learning <= resets * LearnFrames
        /\ Later(frame, pending[o].start, Waits(log[o]) - 1 + log[o].skipped)
    BY <1>2 DEF CInv, EveryFrameCounted
  <2>2. /\ resets \in 0..MaxResets /\ learning \in Nat
        /\ log[o].skipped \in Nat
    BY <1>1, <1>3, ConstantsOK DEF TypeOK, Log
  <2>3. /\ resets * LearnFrames \in Nat
        /\ Window + resets * LearnFrames < FrameMod
    BY <2>2, WindowFits
  <2>4. log'[o].skipped = log[o].skipped + 1 /\ Waits(log'[o]) = Waits(log[o])
    BY <1>4, <2>1
  <2>5. log'[o].skipped + learning' = log[o].skipped + learning
    BY <1>2, <2>2, <2>4
  <2>6. Waits(log[o]) + log[o].skipped < FrameMod
    BY <1>2, <2>1, <2>2, <2>3, WindowFits
  <2>7. Later(NextFrame, pending[o].start, Waits(log[o]) + log[o].skipped)
    BY <1>5, <2>1, <2>2, <2>6, WindowFits DEF Later, Tick
  <2>8. Waits(log'[o]) - 1 + log'[o].skipped = Waits(log[o]) + log[o].skipped
    BY <2>1, <2>2, <2>4
  <2> QED BY <1>2, <2>1, <2>4, <2>5, <2>7, <2>8
<1>8. CancelledIsOver' /\ CancelsAreBacked'
  BY <1>1, <1>2, <1>4 DEF CInv, CancelledIsOver, CancelsAreBacked, TypeOK
<1>9. DecidedOnTime'
  <2>1. \A o \in Object : sent[o] # <<>> \/ o \in cancelled =>
          ~pending[o].pending
    BY <1>1 DEF CInv, CancelledIsOver, Final
  <2> QED BY <1>2, <1>4, <2>1 DEF CInv, DecidedOnTime
<1> QED BY <1>6, <1>7, <1>8, <1>9 DEF CInv

(* A reset adds one learning to what may be skipped. *)
LEMMA ResetCounts == IInv /\ CInv /\ Reset => CInv'
<1> SUFFICES ASSUME IInv, CInv, Reset PROVE CInv'
  OBVIOUS
<1>1. /\ UNCHANGED <<frame, pending, sent, cancelled, fired, log>>
      /\ resets' = resets + 1 /\ learning' = LearnFrames
  BY DEF Reset, tracks, verdict
<1>2. TypeOK
  BY DEF IInv
<1>3. resets \in 0..MaxResets /\ learning \in Nat /\ LearnFrames \in Nat
  BY <1>2, ConstantsOK DEF TypeOK
<1>4. resets' * LearnFrames = resets * LearnFrames + LearnFrames
      /\ resets * LearnFrames \in Nat
  BY <1>1, <1>3
<1>5. EveryFrameCounted'
  <2> SUFFICES ASSUME NEW o \in Object, pending[o].pending
               PROVE  /\ pending[o].start \in Tick
                      /\ Waits(log[o]) \in 1..Window
                      /\ log[o].skipped + learning' <= resets' * LearnFrames
                      /\ Later(frame, pending[o].start,
                               Waits(log[o]) - 1 + log[o].skipped)
    BY <1>1 DEF EveryFrameCounted, Tick, Later, Waits
  <2>1. /\ pending[o].start \in Tick /\ Waits(log[o]) \in 1..Window
        /\ log[o].skipped + learning <= resets * LearnFrames
        /\ Later(frame, pending[o].start, Waits(log[o]) - 1 + log[o].skipped)
    BY DEF CInv, EveryFrameCounted
  <2>2. log[o].skipped \in Nat
    BY <1>2 DEF TypeOK, Log
  <2> QED BY <1>1, <1>3, <1>4, <2>1, <2>2
<1> QED BY <1>1, <1>5 DEF CInv, FrameCounts, Tick, CancelledIsOver,
           DecidedOnTime, CancelsAreBacked

LEMMA CountsInductive == IInv /\ CInv /\ [Next]_vars => CInv'
<1> SUFFICES ASSUME IInv, CInv, [Next]_vars PROVE CInv'
  OBVIOUS
<1>1. ASSUME NEW s \in [Object -> Sight], NEW d \in SUBSET Object,
             NEW f \in SUBSET Object, NEW near \in SUBSET Object,
             TrackFrame(s, d, f, near)
      PROVE  CInv'
  BY <1>1, TrackFrameCounts
<1>2. CASE LearnFrame
  BY <1>2, LearnFrameCounts
<1>3. CASE Reset
  BY <1>3, ResetCounts
<1>4. CASE UNCHANGED vars
  BY <1>4 DEF vars, tracks, verdict, CInv, FrameCounts, Tick,
     EveryFrameCounted, Later, Waits, CancelledIsOver, DecidedOnTime,
     CancelsAreBacked
<1> QED BY <1>1, <1>2, <1>3, <1>4 DEF Next, Frame

LEMMA CountsCorrect == Spec => [](IInv /\ CInv)
<1>1. Init => CInv
  BY WindowFits DEF Init, CInv, FrameCounts, Tick, EveryFrameCounted,
     CancelledIsOver, DecidedOnTime, CancelsAreBacked, NotPending
<1> QED BY <1>1, InitInv, InvInductive, CountsInductive, PTL DEF Spec

(* A dumping that stayed where it was is cancelled only if it was missed    *)
(* for more than the tolerated share of the window, however frame_count     *)
(* wraps, unless the background was relearnt meanwhile.                     *)
THEOREM CancelsRestOnEvidence == Spec => []CancelsAreBacked
<1>1. CInv => CancelsAreBacked
  BY DEF CInv
<1> QED BY <1>1, CountsCorrect, PTL

(* Every alert gets its verdict after no more than a window of tracked      *)
(* frames, and not before the window is over unless its object moved.       *)
THEOREM DecisionsAreTimely == Spec => []DecidedOnTime
<1>1. CInv => DecidedOnTime
  BY DEF CInv
<1> QED BY <1>1, CountsCorrect, PTL
=============================================================================
