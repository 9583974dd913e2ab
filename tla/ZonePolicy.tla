----------------------------- MODULE ZonePolicy -----------------------------
(***************************************************************************)
(* ZonePolicy (zone_policy.h): who is alerted for standing in a restricted *)
(* zone.  A pid is what main passes as person_id: the id of a track, or of *)
(* the group it is the primary of.  Times are ages: how long ago a pid was *)
(* seen, and alerted, up to the first age at which no test cares any more. *)
(***************************************************************************)
EXTENDS Integers

CONSTANTS
  Pid,       \* person ids
  MinFrames, \* intrusion_min_frames
  Repeat,    \* intrusion_repeat_ms
  Forget     \* forget_after_ms

ASSUME ZoneOK == MinFrames \in Nat \ {0} /\ Repeat \in Nat /\ Forget \in Nat

VARIABLES
  states_,   \* what the policy knows of each pid: a State, or Unknown
  stay,      \* history: calls inside since the last one outside
  unseen,    \* history: how long ago the pid was seen
  quiet,     \* history: how long ago it was alerted
  away       \* history: it was gone for more than Forget since its alert

zoneVars == <<states_, stay, unseen, quiet, away>>

Zone == {"inside", "outside"}     \* what IsRestricted tells apart

UpTo(n, bound) == IF n < bound THEN n ELSE bound

Unknown == [seen |-> -1]

(* event = Repeat: alerted that long ago, or never (last_event_ms = 0).    *)
State == [consecutive : 0..MinFrames, seen : 0..Forget + 1, event : 0..Repeat]

(* states_[person_id] makes an entry for a pid it does not know.           *)
Entry(p) ==
  IF states_[p] = Unknown THEN [consecutive |-> 0, seen |-> 0, event |-> Repeat]
  ELSE [states_[p] EXCEPT !.seen = 0]

ZoneTypeOK ==
  /\ states_ \in [Pid -> State \cup {Unknown}]
  /\ stay \in [Pid -> 0..MinFrames]
  /\ unseen \in [Pid -> 0..Forget + 1]
  /\ quiet \in [Pid -> 0..Repeat]
  /\ away \in [Pid -> BOOLEAN]

ZoneInit ==
  /\ states_ = [p \in Pid |-> Unknown]
  /\ stay = [p \in Pid |-> 0]
  /\ unseen = [p \in Pid |-> Forget + 1]
  /\ quiet = [p \in Pid |-> Repeat]
  /\ away = [p \in Pid |-> TRUE]
-----------------------------------------------------------------------------
(* Mutants: an operator named after a definition and a fault is that       *)
(* definition with the fault; no specification uses it.                    *)

(* the repeat interval counts from the last sighting in the zone           *)
CountedSliding(p) ==
  [Entry(p) EXCEPT !.consecutive = UpTo(@ + 1, MinFrames), !.event = 0]

(* leaving the zone does not end a stay                                    *)
LeftKeepsCount(p) == Entry(p)

-----------------------------------------------------------------------------
(* now_ms moves on by d between two frames that reach the policy.          *)
Older(age, d, bound) == UpTo(age + d, bound)

Elapse(d) ==
  /\ states_' = [p \in Pid |->
       IF states_[p] = Unknown THEN Unknown
       ELSE [states_[p] EXCEPT !.seen = Older(@, d, Forget + 1),
                               !.event = Older(@, d, Repeat)]]
  /\ unseen' = [p \in Pid |-> Older(unseen[p], d, Forget + 1)]
  /\ quiet' = [p \in Pid |-> Older(quiet[p], d, Repeat)]
  /\ UNCHANGED <<stay, away>>

(* OnPersonZone: is an observation inside an intrusion?                    *)
Confirms(p) ==
  /\ Entry(p).consecutive + 1 >= MinFrames
  /\ Entry(p).event >= Repeat

(* The entry of p after a call inside, and after one outside.              *)
Counted(p) ==
  [Entry(p) EXCEPT !.consecutive = UpTo(@ + 1, MinFrames),
                   !.event = IF Confirms(p) THEN 0 ELSE @]

Left(p) == [Entry(p) EXCEPT !.consecutive = 0]

OnPersonZone(p, zone) ==
  /\ states_' = [states_ EXCEPT ![p] = IF zone = "inside" THEN Counted(p) ELSE Left(p)]
  /\ stay' = [stay EXCEPT ![p] =
                IF zone = "inside" THEN UpTo(@ + 1, MinFrames) ELSE 0]
  /\ unseen' = [unseen EXCEPT ![p] = 0]
  /\ IF zone = "inside" /\ Confirms(p)
     THEN quiet' = [quiet EXCEPT ![p] = 0] /\ away' = [away EXCEPT ![p] = FALSE]
     ELSE UNCHANGED <<quiet, away>>

Stale(p) == states_[p] # Unknown /\ states_[p].seen > Forget

PruneStale ==
  /\ states_' = [p \in Pid |-> IF Stale(p) THEN Unknown ELSE states_[p]]
  /\ stay' = [p \in Pid |-> IF unseen[p] > Forget THEN 0 ELSE stay[p]]
  /\ away' = [p \in Pid |-> away[p] \/ unseen[p] > Forget]
  /\ UNCHANGED <<unseen, quiet>>
-----------------------------------------------------------------------------
(* Whoever would be alerted by the next sighting inside has been seen      *)
(* there MinFrames times in a row, and was not alerted within the repeat   *)
(* interval, unless it was gone for longer than Forget since then: that    *)
(* PruneStale forgets the alert with the person is the one exception to    *)
(* the interval that zone_policy.h:23 and README.md:332 promise.           *)
AlertsJustified ==
  \A p \in Pid : Confirms(p) =>
    /\ stay[p] + 1 >= MinFrames
    /\ quiet[p] >= Repeat \/ away[p]
=============================================================================
