---------------------------- MODULE DumpValidation ----------------------------
(***************************************************************************)
(* Re-validation of confirmed dumpings (dump_validation.h) together with   *)
(* what it interacts with: the flags of the tracker's object tracks, the   *)
(* main loop that calls it once per tracked frame, and the background      *)
(* filter, which suspends tracking and validation while it learns.         *)
(*                                                                         *)
(* Geometry is abstracted to where an object track is with respect to the  *)
(* place of its confirmation, and to whether its source is still near.     *)
(***************************************************************************)
EXTENDS Integers, Sequences

CONSTANTS
  Object,       \* object track ids
  Window,       \* validate_frames
  MinPct,       \* 100 * min_present_ratio
  HighPct,      \* 100 * high_present_ratio
  FrameMod,     \* frame_count is a uint32_t: 2^32 in the program
  LearnFrames,  \* learning_frames of the background filter
  MaxResets     \* bound: SIGUSR1 resets of the background

ASSUME ConstantsOK ==
  /\ Window \in Nat \ {0} /\ LearnFrames \in Nat \ {0} /\ MaxResets \in Nat
  /\ MinPct \in 0..100 /\ HighPct \in MinPct..100
  /\ FrameMod \in Nat \ {0}
  /\ Window + MaxResets * LearnFrames < FrameMod  \* 13 years of frames

VARIABLES
  frame,      \* main's frame_count
  learning,   \* frames until the background filter is ready
  resets,
  sight,      \* each object track: seen at its place, moved, lost or deleted
  dumped,     \* tracks with is_dumped_item
  fired,      \* tracks with dump_alert_fired
  pending,    \* DumpValidator::pending_, by object
  sent,       \* per object: the reports handed to SendDumping
  cancelled,  \* objects that DumpValidator cancelled (latest verdict)
  log         \* history: what was observed of each object since its latest
              \* confirmation

tracks  == <<sight, dumped, fired>>
verdict == <<sent, cancelled>>
vars == <<frame, learning, resets, tracks, pending, verdict, log>>

Sight == {"still", "moved", "lost", "deleted"}
Visible == {"still", "moved"}

NotPending == [pending |-> FALSE, start |-> 0, seen |-> 0, departed |-> FALSE]
Empty == [present |-> 0, missed |-> 0, moved |-> FALSE, left |-> FALSE,
          skipped |-> 0]

Log == [present : Nat, missed : Nat, moved : BOOLEAN, left : BOOLEAN,
        skipped : Nat]

Init ==
  /\ frame = 0 /\ learning = LearnFrames /\ resets = 0
  /\ sight \in [Object -> {"still", "lost"}]
  /\ dumped = {} /\ fired = {}
  /\ pending = [o \in Object |-> NotPending]
  /\ sent = [o \in Object |-> <<>>] /\ cancelled = {}
  /\ log = [o \in Object |-> Empty]
-----------------------------------------------------------------------------
(* Mutants: an operator named after a definition and a fault is that       *)
(* definition with the fault; no specification uses it.                    *)
RecoveryOfDumpedToo(o, s, d, f) ==
  sight[o] = "lost" /\ s \in Visible /\ ~d /\ ~f

ExpiredNoWrap(p, n) == n >= p.start + Window

AtLeastIntegral(p, pct) == (p.seen \div Window) * 100 >= pct

(* What ClusterTracker::Update may do to the flags of an object track.  s, *)
(* d and f are its new sight, is_dumped_item and dump_alert_fired.  A      *)
(* track that was lost and is not a dumped item may be recovered: a new    *)
(* Track takes over its id, but not its dump_alert_fired.  A suspect is    *)
(* promoted only if its alert has not fired.                               *)
Promotion(o, d, f) ==
  \/ d = (o \in dumped) /\ f = (o \in fired)
  \/ o \notin fired /\ d /\ ~f

Recovery(o, s, d, f) ==
  /\ sight[o] = "lost" /\ o \notin dumped
  /\ s \in Visible /\ ~d /\ ~f

Confirmation(o, s, d, f) == o \notin fired /\ s # "moved" /\ d /\ f

(* A deleted track's id is not used again; only lost tracks are deleted.   *)
TrackUpdate(o, s, d, f) ==
  IF sight[o] = "deleted" THEN s = "deleted" /\ d = (o \in dumped)
                               /\ f = (o \in fired)
  ELSE /\ s = "deleted" => sight[o] = "lost" /\ f = (o \in fired)
       /\ s = "moved" => pending[o].pending
       /\ Promotion(o, d, f) \/ Recovery(o, s, d, f) \/ Confirmation(o, s, d, f)

(* The objects whose alert fires in this frame: the dump events.           *)
Confirmed(f) == {o \in Object : o \in f \ fired}

(* OnDumpConfirmed: an object that is already pending is left alone.       *)
OnDumpConfirmed(o, n) ==
  IF pending[o].pending THEN pending[o]
  ELSE [pending |-> TRUE, start |-> n, seen |-> 0, departed |-> FALSE]

(* One observation of a pending dumping: sighting of its object, and is    *)
(* its source visible and near?  A departure is remembered.                *)
Observe(p, s, near) ==
  [pending |-> p.pending, start |-> p.start,
   seen |-> IF s = "still" THEN p.seen + 1 ELSE p.seen,
   departed |-> p.departed \/ ~near]

Expired(p, n) == (n - p.start) % FrameMod >= Window

(* Ratio tests on the observed share of the window (in double in the code) *)
AtLeast(p, pct) == p.seen * 100 >= pct * Window

Present(p) == AtLeast(p, MinPct)
Confidence(p) ==
  IF AtLeast(p, HighPct) /\ p.departed THEN "high" ELSE "medium"

VerdictIgnoringMoves(p, s, n) ==
  IF ~Expired(p, n) THEN "wait" ELSE IF Present(p) THEN "report" ELSE "cancel"

(* What Update decides about a pending dumping after this observation.     *)
Verdict(p, s, n) ==
  IF s = "moved" THEN "cancel"
  ELSE IF ~Expired(p, n) THEN "wait"
  ELSE IF Present(p) THEN "report" ELSE "cancel"

NextFrame == (frame + 1) % FrameMod

(* The objects the main loop passes to ClearDumpFlags.                     *)
Cleared(C, s) == {o \in C : s[o] # "deleted"}

(* The log is kept by an observer that knows nothing of the validator's    *)
(* clock: it counts the tracked frames the object was seen at its place in *)
(* or not seen in, and the frames skipped by learning.                     *)
Witness(l, s, near) ==
  [present |-> IF s = "still" THEN l.present + 1 ELSE l.present,
   missed |-> IF s \in Visible THEN l.missed ELSE l.missed + 1,
   moved |-> l.moved \/ s = "moved",
   left |-> l.left \/ ~near,
   skipped |-> l.skipped]

(* The dumpings Update looks at, what it then knows of one, and those with *)
(* a given verdict.                                                        *)
Waiting(f) == {o \in Object : pending[o].pending} \cup Confirmed(f)

Observed(o, s, f, near) ==
  Observe(IF o \in Confirmed(f) THEN OnDumpConfirmed(o, NextFrame)
          ELSE pending[o],
          s[o], o \in near)

Decided(v, s, f, near) ==
  {o \in Waiting(f) : Verdict(Observed(o, s, f, near), s[o], NextFrame) = v}

Watch(o, s, f, near) ==
  IF o \notin Waiting(f) THEN log[o]
  ELSE Witness(IF pending[o].pending THEN log[o] ELSE Empty,
               s[o], o \in near)

(* ValidatedDump, with what the observer saw. *)
Report(o, s, f, near) ==
  [confidence |-> Confidence(Observed(o, s, f, near)),
   observed   |-> Observed(o, s, f, near).seen,
   log        |-> Watch(o, s, f, near)]

(* A frame the program tracks in: ClusterTracker::Update, OnDumpConfirmed  *)
(* for each dump event, DumpValidator::Update, and ClearDumpFlags for each *)
(* cancelled object, in the order of main.cpp.                             *)
TrackFrame(s, d, f, near) ==
  /\ learning = 0
  /\ \A o \in Object : TrackUpdate(o, s[o], o \in d, o \in f)
  /\ frame' = NextFrame /\ sight' = s /\ fired' = f
  /\ LET reported == Decided("report", s, f, near)
         gone == Decided("cancel", s, f, near)
     IN  /\ sent' = [o \in Object |->
                       IF o \notin reported THEN sent[o]
                       ELSE Append(sent[o], Report(o, s, f, near))]
         /\ cancelled' = (cancelled \ Confirmed(f)) \cup gone
         /\ dumped' = d \ Cleared(gone, s)
  /\ pending' = [o \in Object |->
                   IF o \in Decided("wait", s, f, near)
                   THEN Observed(o, s, f, near) ELSE NotPending]
  /\ log' = [o \in Object |-> Watch(o, s, f, near)]
  /\ UNCHANGED <<learning, resets>>

(* A frame the background filter learns from: main counts it and goes on   *)
(* to the next one before the tracker and the validator are called.        *)
LearnFrame ==
  /\ learning > 0
  /\ frame' = NextFrame /\ learning' = learning - 1
  /\ log' = [o \in Object |->
               IF pending[o].pending THEN [log[o] EXCEPT !.skipped = @ + 1]
               ELSE log[o]]
  /\ UNCHANGED <<resets, tracks, pending, verdict>>

(* SIGUSR1: BackgroundFilter::Reset at the top of the loop. *)
Reset ==
  /\ resets < MaxResets
  /\ resets' = resets + 1 /\ learning' = LearnFrames
  /\ UNCHANGED <<frame, tracks, pending, verdict, log>>

Frame ==
  \/ LearnFrame
  \/ \E s \in [Object -> Sight], d, f, near \in SUBSET Object :
       TrackFrame(s, d, f, near)

Next == Frame \/ Reset

Spec == Init /\ [][Next]_vars

-----------------------------------------------------------------------------
(* Types of every variable. *)
TypeOK ==
  /\ frame \in Nat /\ learning \in 0..LearnFrames /\ resets \in 0..MaxResets
  /\ sight \in [Object -> Sight]
  /\ dumped \subseteq Object /\ fired \subseteq Object
  /\ pending \in [Object -> [pending : BOOLEAN, start : Nat, seen : Nat,
                             departed : BOOLEAN]]
  /\ sent \in [Object -> Seq([confidence : {"high", "medium"},
                              observed : Nat, log : Log])]
  /\ cancelled \subseteq Object
  /\ log \in [Object -> Log]

(* An object is reported to the server at most once in its life, although  *)
(* a cancelled object loses its flags and a recovered track forgets that   *)
(* its alert has fired.                                                    *)
ReportedOnce == \A o \in Object : Len(sent[o]) <= 1

Backed(r) ==
  /\ ~r.log.moved
  /\ r.log.present * 100 >= MinPct * Window
  /\ r.confidence = "high" =>
       r.log.left /\ r.log.present * 100 >= HighPct * Window

(* Every report is backed by what was really seen since the confirmation:  *)
(* the object never moved away, it was there in the required share of the  *)
(* window, and "high" means the source was seen to leave.                  *)
ReportsAreBacked ==
  \A o \in Object : \A i \in 1..Len(sent[o]) : Backed(sent[o][i])

(* No real dumping is cancelled: an object that stayed at its place and    *)
(* was missed in no more than the tolerated share of the window is         *)
(* reported, unless the background was relearnt in between.                *)
CancelsAreBacked ==
  \A o \in cancelled :
    \/ log[o].moved \/ log[o].skipped > 0
    \/ log[o].missed * 100 > (100 - MinPct) * Window

(* A cancelled dumping does not stay on Unity's screen: a track whose      *)
(* alert has fired is shown as dumped only while it is being validated or  *)
(* after it has been reported.                                             *)
DisplayMatchesVerdict ==
  \A o \in dumped \cap fired :
    pending[o].pending \/ sent[o] # <<>> \/ sight[o] = "deleted"

(* Every alert gets its verdict, in time and not too early.  By the        *)
(* observer's own count a dumping waits for no more than Window tracked    *)
(* frames, whether its track is seen, lost or deleted, after a relearning  *)
(* longer than the window, and when frame_count wraps; an alert that is no *)
(* longer waiting was reported or cancelled; and unless the object moved,  *)
(* a verdict waited for more than Window frames, skipped ones included.    *)
Waits(l) == l.present + l.missed

DecidedOnTime ==
  \A o \in Object :
    /\ pending[o].pending => Waits(log[o]) <= Window
    /\ o \in fired =>
         pending[o].pending \/ sent[o] # <<>> \/ o \in cancelled
    /\ sent[o] # <<>> \/ o \in cancelled =>
         log[o].moved \/ Waits(log[o]) + log[o].skipped > Window

=============================================================================
