-------------------------- MODULE IntrusionAlerts --------------------------
(***************************************************************************)
(* Intrusions from the track to the display: the frames of main.cpp, in    *)
(* which ZonePolicy judges each person and JsonPacketSender sends what     *)
(* came up.  A frame may fail (no scan, or reconnecting), only learn the   *)
(* background, or track.  Which persons the tracker sees, where, and what  *)
(* the classifier says of them is free.                                    *)
(***************************************************************************)
EXTENDS ZonePolicy, EventResend, FiniteSets

CONSTANTS
  Step,     \* bound: the times that may pass between two frames
  Twins,    \* bound: calls for one pid in one frame
  Spare     \* bound: numbers of the pool that are left to intrusions

ASSUME FramesOK == Step \subseteq Nat \ {0} /\ Twins \in Nat \ {0} /\ Spare \in Nat

VARIABLES
  phase,    \* "idle" between frames, "zones" in the loop over the tracks
  calls,    \* the calls for each pid in this frame
  raised,   \* intrusion_events of this frame
  last      \* history: where the last tracking frame saw each pid

frameVars == <<phase, calls, raised, last>>
vars == <<zoneVars, resendVars, frameVars>>

Sight == Zone \cup {"unseen"}

TypeOK ==
  /\ ZoneTypeOK
  /\ ResendTypeOK
  /\ phase \in {"idle", "zones"}
  /\ calls \in [Pid -> 0..Twins]
  /\ raised \in SUBSET Event
  /\ last \in [Pid -> Sight]

Init ==
  /\ ZoneInit
  /\ ResendInit
  /\ phase = "idle"
  /\ calls = [p \in Pid |-> 0]
  /\ raised = {}
  /\ last = [p \in Pid |-> "unseen"]

(* An event that came up is the first number not in use.                   *)
Unused == Event \ (Pending \cup raised)
Fresh(e) == e \in Unused /\ \A f \in Unused : e <= f
-----------------------------------------------------------------------------
(* No scan, an empty one, or the reconnect loop: nothing is sent.          *)
MissedFrame ==
  /\ phase = "idle"
  /\ \E d \in Step : Elapse(d)
  /\ UNCHANGED <<resendVars, frameVars>>

(* The background filter learns: the packet has no new event.              *)
LearningFrame ==
  /\ phase = "idle"
  /\ \E d \in Step : Elapse(d)
  /\ Send({})
  /\ UNCHANGED frameVars

BeginFrame ==
  /\ phase = "idle" /\ phase' = "zones"
  /\ \E d \in Step : Elapse(d)
  /\ UNCHANGED <<resendVars, calls, raised, last>>

(* An intrusion is an event, unless the classifier takes the track for     *)
(* noise (kIgnore): the policy has counted it as an alert by then.         *)
Raise(p) ==
  \/ UNCHANGED raised
  \/ \E e \in Event : Fresh(e) /\ raised' = raised \cup {e}

(* A person track.  Two tracks may answer to one pid: a group keeps the id *)
(* of a member that went its own way.                                      *)
SeePerson(p, zone) ==
  /\ phase = "zones" /\ UNCHANGED phase
  /\ calls[p] < Twins
  /\ calls' = [calls EXCEPT ![p] = @ + 1]
  /\ last' = [last EXCEPT ![p] =
                IF calls[p] > 0 /\ @ = "outside" THEN "outside" ELSE zone]
  /\ IF zone = "inside" /\ Confirms(p) THEN Raise(p) ELSE UNCHANGED raised
  /\ OnPersonZone(p, zone)
  /\ UNCHANGED resendVars

(* PruneStale and the packet, with the departures and dumpings of the frame.*)
EndFrame ==
  /\ phase = "zones" /\ phase' = "idle"
  /\ PruneStale
  /\ \E others \in SUBSET Unused :
       /\ others # {} => Cardinality(others) = 1 /\ Cardinality(Unused) > Spare
       /\ Send(raised \cup others)
  /\ raised' = {}
  /\ calls' = [p \in Pid |-> 0]
  /\ last' = [p \in Pid |-> IF calls[p] = 0 THEN "unseen" ELSE last[p]]

Next ==
  \/ MissedFrame \/ LearningFrame \/ BeginFrame \/ EndFrame
  \/ \E p \in Pid, zone \in Zone : SeePerson(p, zone)

Spec == Init /\ [][Next]_vars

(* The main loop goes on, whatever the frames bring.                       *)
FairSpec == Spec /\ WF_vars(Next)
-----------------------------------------------------------------------------
(* A person who is seen inside, and never outside or not at all, is        *)
(* alerted again and again as long as frames are tracked: the throttle     *)
(* delays an alert and never ends it.                                      *)
StayingIntruderAlerted ==
  \A p \in Pid :
    ([]<>(phase = "zones") /\ <>[](last[p] = "inside")) => []<>(quiet[p] = 0)
=============================================================================
