----------------------- MODULE IntrusionAlertsProofs -----------------------
(***************************************************************************)
(* Theorems about IntrusionAlerts for any pids, events, frame rates and    *)
(* thresholds: the types, that an alert is justified by a stay and by the  *)
(* repeat interval, and that an event is shown exactly if one of its       *)
(* packets arrives.                                                        *)
(***************************************************************************)
EXTENDS IntrusionAlerts, TLAPS

(* What the policy remembers of p, against what really happened: it may    *)
(* think a stay shorter, and an alert older only if it forgot it.          *)
Remembered(p) ==
  IF states_[p] = Unknown THEN quiet[p] >= Repeat \/ away[p]
  ELSE /\ states_[p].consecutive <= stay[p]
       /\ states_[p].seen = unseen[p]
       /\ states_[p].event <= quiet[p] \/ away[p]

(* remaining counts the packets that event e is still owed.                *)
Owed(e) ==
  remaining[e] = IF packets[e] \in 1..Resend THEN Resend - packets[e] ELSE 0

IInv ==
  /\ TypeOK
  /\ \A p \in Pid : Remembered(p)
  /\ \A e \in Event : Owed(e)
  /\ ShownIffOneArrives
-----------------------------------------------------------------------------
LEMMA Bounds == /\ MinFrames \in Nat /\ MinFrames >= 1 /\ Repeat \in Nat /\ Forget \in Nat
                /\ Resend \in Nat /\ Resend >= 1 /\ Twins \in Nat /\ Step \subseteq Nat
BY ZoneOK, ResendOK, FramesOK

LEMMA UnknownApart == Unknown \notin State
<1>1. ASSUME NEW s \in State PROVE s # Unknown
  <2>1. s.seen \in 0..Forget + 1
    BY DEF State
  <2>2. Unknown.seen = -1
    BY DEF Unknown
  <2> QED BY <2>1, <2>2, Bounds
<1> QED BY <1>1

(* What is known of a pid is a State. *)
LEMMA Known ==
  ASSUME ZoneTypeOK, NEW p \in Pid, states_[p] # Unknown
  PROVE  /\ states_[p] \in State
         /\ states_[p].consecutive \in 0..MinFrames
         /\ states_[p].seen \in 0..Forget + 1
         /\ states_[p].event \in 0..Repeat
<1>1. states_[p] \in State
  BY DEF ZoneTypeOK
<1> QED BY <1>1 DEF State

LEMMA EntryIsState ==
  ASSUME ZoneTypeOK, NEW p \in Pid
  PROVE  /\ Entry(p) \in State
         /\ Entry(p).seen = 0
         /\ states_[p] = Unknown => Entry(p).consecutive = 0 /\ Entry(p).event = Repeat
         /\ states_[p] # Unknown => /\ Entry(p).consecutive = states_[p].consecutive
                                    /\ Entry(p).event = states_[p].event
<1> USE Bounds
<1>1. CASE states_[p] = Unknown
  BY <1>1 DEF Entry, State
<1>2. CASE states_[p] # Unknown
  BY <1>2, Known DEF Entry, State
<1> QED BY <1>1, <1>2

(* The entries that a call leaves. *)
LEMMA CallEntries ==
  ASSUME ZoneTypeOK, NEW p \in Pid
  PROVE  /\ Counted(p) \in State
         /\ Counted(p).seen = 0
         /\ Counted(p).consecutive = UpTo(Entry(p).consecutive + 1, MinFrames)
         /\ Counted(p).event = IF Confirms(p) THEN 0 ELSE Entry(p).event
         /\ Left(p) \in State
         /\ Left(p).seen = 0 /\ Left(p).consecutive = 0 /\ Left(p).event = Entry(p).event
<1> USE Bounds
<1>1. Entry(p) \in State
  BY EntryIsState
<1>2. UpTo(Entry(p).consecutive + 1, MinFrames) \in 0..MinFrames
  BY <1>1 DEF UpTo, State
<1>3. (IF Confirms(p) THEN 0 ELSE Entry(p).event) \in 0..Repeat
  BY <1>1 DEF State
<1>4. /\ Counted(p) \in State /\ Counted(p).seen = Entry(p).seen
      /\ Counted(p).consecutive = UpTo(Entry(p).consecutive + 1, MinFrames)
      /\ Counted(p).event = IF Confirms(p) THEN 0 ELSE Entry(p).event
  <2> DEFINE e == Entry(p)
             c == UpTo(Entry(p).consecutive + 1, MinFrames)
             t == IF Confirms(p) THEN 0 ELSE Entry(p).event
  <2>1. e \in State /\ c \in 0..MinFrames /\ t \in 0..Repeat
    BY <1>1, <1>2, <1>3
  <2>2. Counted(p) = [e EXCEPT !.consecutive = c, !.event = t]
    BY <2>1 DEF Counted, State
  <2> HIDE DEF e, c, t
  <2>3. /\ Counted(p) \in State /\ Counted(p).seen = e.seen
        /\ Counted(p).consecutive = c /\ Counted(p).event = t
    BY <2>1, <2>2 DEF State
  <2> QED BY <2>3 DEF e, c, t
<1>5. /\ Left(p) \in State /\ Left(p).seen = Entry(p).seen
      /\ Left(p).consecutive = 0 /\ Left(p).event = Entry(p).event
  BY <1>1 DEF Left, State
<1> QED BY <1>4, <1>5, EntryIsState
-----------------------------------------------------------------------------
(* --- ZonePolicy --------------------------------------------------------- *)

LEMMA ElapseKeeps ==
  ASSUME ZoneTypeOK, \A p \in Pid : Remembered(p), NEW d \in Nat, Elapse(d)
  PROVE  ZoneTypeOK' /\ \A p \in Pid : Remembered(p)'
<1> USE Bounds
<1>1. ASSUME NEW p \in Pid
      PROVE  /\ states_'[p] \in State \cup {Unknown}
             /\ unseen'[p] \in 0..Forget + 1 /\ quiet'[p] \in 0..Repeat
             /\ Remembered(p)'
  <2> DEFINE old == states_[p]
  <2>1. /\ unseen'[p] = Older(unseen[p], d, Forget + 1) /\ quiet'[p] = Older(quiet[p], d, Repeat)
        /\ unseen[p] \in 0..Forget + 1 /\ quiet[p] \in 0..Repeat
        /\ stay'[p] = stay[p] /\ away'[p] = away[p]
    BY DEF Elapse, ZoneTypeOK
  <2>2. unseen'[p] \in 0..Forget + 1 /\ quiet'[p] \in 0..Repeat /\ quiet'[p] >= quiet[p]
    BY <2>1 DEF Older, UpTo
  <2>3. CASE old = Unknown
    <3>1. states_'[p] = Unknown
      BY <2>3 DEF Elapse
    <3> QED BY <2>1, <2>2, <2>3, <3>1 DEF Remembered
  <2>4. CASE old # Unknown
    <3>1. states_'[p] = [old EXCEPT !.seen = Older(@, d, Forget + 1),
                                    !.event = Older(@, d, Repeat)]
      BY <2>4 DEF Elapse
    <3>2. /\ old \in State /\ old.consecutive \in 0..MinFrames
          /\ old.seen \in 0..Forget + 1 /\ old.event \in 0..Repeat
      BY <2>4, Known
    <3>3. /\ Older(old.seen, d, Forget + 1) \in 0..Forget + 1
          /\ Older(old.event, d, Repeat) \in 0..Repeat
      BY <3>2 DEF Older, UpTo
    <3>4. /\ states_'[p] \in State
          /\ states_'[p].consecutive = old.consecutive
          /\ states_'[p].seen = Older(old.seen, d, Forget + 1)
          /\ states_'[p].event = Older(old.event, d, Repeat)
      BY <3>1, <3>2, <3>3 DEF State
    <3>5. old.event <= quiet[p] => states_'[p].event <= quiet'[p]
      BY <2>1, <3>2, <3>4 DEF Older, UpTo
    <3>6. /\ old.consecutive <= stay[p] /\ old.seen = unseen[p]
          /\ old.event <= quiet[p] \/ away[p]
      BY <2>4 DEF Remembered
    <3>7. states_'[p] # Unknown
      BY <3>4, UnknownApart
    <3> HIDE DEF old
    <3> QED BY <2>1, <2>2, <3>4, <3>5, <3>6, <3>7 DEF Remembered
  <2> QED BY <2>3, <2>4
<1>2. ZoneTypeOK'
  BY <1>1 DEF Elapse, ZoneTypeOK
<1> QED BY <1>1, <1>2

LEMMA CallKeeps ==
  ASSUME ZoneTypeOK, \A p \in Pid : Remembered(p),
         NEW q \in Pid, NEW zone \in Zone, OnPersonZone(q, zone)
  PROVE  ZoneTypeOK' /\ \A p \in Pid : Remembered(p)'
<1> USE Bounds
<1>1. /\ stay'[q] = IF zone = "inside" THEN UpTo(stay[q] + 1, MinFrames) ELSE 0
      /\ stay[q] \in 0..MinFrames /\ quiet[q] \in 0..Repeat
      /\ unseen'[q] = 0
      /\ states_'[q] = IF zone = "inside" THEN Counted(q) ELSE Left(q)
  BY DEF OnPersonZone, ZoneTypeOK
<1>2. states_'[q] \in State /\ states_'[q] # Unknown
  BY <1>1, CallEntries, UnknownApart
<1>3. ZoneTypeOK'
  <2>1. states_' \in [Pid -> State \cup {Unknown}]
    BY <1>2, <1>1 DEF OnPersonZone, ZoneTypeOK
  <2>2. stay' \in [Pid -> 0..MinFrames]
    BY DEF OnPersonZone, ZoneTypeOK, UpTo
  <2>3. unseen' \in [Pid -> 0..Forget + 1]
    BY DEF OnPersonZone, ZoneTypeOK
  <2>4. quiet' \in [Pid -> 0..Repeat] /\ away' \in [Pid -> BOOLEAN]
    <3>1. CASE zone = "inside" /\ Confirms(q)
      <4>1. quiet' = [quiet EXCEPT ![q] = 0] /\ away' = [away EXCEPT ![q] = FALSE]
        BY <3>1, Zenon DEF OnPersonZone
      <4>2. quiet' \in [Pid -> 0..Repeat]
        BY <4>1 DEF ZoneTypeOK
      <4>3. away' \in [Pid -> BOOLEAN]
        BY <4>1 DEF ZoneTypeOK
      <4> QED BY <4>2, <4>3
    <3>2. CASE ~(zone = "inside" /\ Confirms(q))
      BY <3>2 DEF OnPersonZone, ZoneTypeOK
    <3> QED BY <3>1, <3>2
  <2> QED BY <2>1, <2>2, <2>3, <2>4 DEF ZoneTypeOK
<1>4. Entry(q).consecutive \in 0..MinFrames /\ Entry(q).event \in 0..Repeat
  BY EntryIsState DEF State
<1>5. Entry(q).consecutive <= stay[q]
  BY <1>1, EntryIsState DEF Remembered
<1>6. Entry(q).event <= quiet[q] \/ away[q]
  <2>1. CASE states_[q] = Unknown
    BY <1>1, <2>1, EntryIsState DEF Remembered
  <2>2. CASE states_[q] # Unknown
    BY <2>2, EntryIsState DEF Remembered
  <2> QED BY <2>1, <2>2
<1>7. Remembered(q)'
  <2>1. states_'[q].consecutive <= stay'[q] /\ states_'[q].seen = unseen'[q]
    BY <1>1, <1>4, <1>5, CallEntries DEF UpTo
  <2>2. states_'[q].event <= quiet'[q] \/ away'[q]
    <3>1. CASE zone = "inside" /\ Confirms(q)
      BY <1>1, <3>1, CallEntries DEF OnPersonZone, ZoneTypeOK
    <3>2. CASE ~(zone = "inside" /\ Confirms(q))
      BY <1>1, <1>6, <3>2, CallEntries DEF OnPersonZone
    <3> QED BY <3>1, <3>2
  <2> QED BY <1>2, <2>1, <2>2 DEF Remembered
<1>8. ASSUME NEW p \in Pid, p # q PROVE Remembered(p)'
  <2>1. /\ states_'[p] = states_[p] /\ stay'[p] = stay[p] /\ unseen'[p] = unseen[p]
        /\ quiet'[p] = quiet[p] /\ away'[p] = away[p]
    BY <1>8 DEF OnPersonZone, ZoneTypeOK
  <2> QED BY <2>1 DEF Remembered
<1> QED BY <1>3, <1>7, <1>8

LEMMA PruneKeeps ==
  ASSUME ZoneTypeOK, \A p \in Pid : Remembered(p), PruneStale
  PROVE  ZoneTypeOK' /\ \A p \in Pid : Remembered(p)'
<1> USE Bounds
<1>1. ZoneTypeOK'
  BY DEF PruneStale, ZoneTypeOK
<1>2. ASSUME NEW p \in Pid PROVE Remembered(p)'
  <2>1. /\ states_'[p] = IF Stale(p) THEN Unknown ELSE states_[p]
        /\ stay'[p] = IF unseen[p] > Forget THEN 0 ELSE stay[p]
        /\ away'[p] = (away[p] \/ unseen[p] > Forget)
        /\ unseen'[p] = unseen[p] /\ quiet'[p] = quiet[p]
    BY DEF PruneStale
  <2>2. CASE Stale(p)
    <3>1. unseen[p] > Forget
      BY <2>2 DEF Stale, Remembered
    <3> QED BY <2>1, <2>2, <3>1 DEF Remembered
  <2>3. CASE ~Stale(p)
    BY <2>1, <2>3 DEF Stale, Remembered
  <2> QED BY <2>2, <2>3
<1> QED BY <1>1, <1>2
-----------------------------------------------------------------------------
(* --- EventResend -------------------------------------------------------- *)

LEMMA SendKeeps ==
  ASSUME ResendTypeOK, \A e \in Event : Owed(e), ShownIffOneArrives,
         NEW new \in SUBSET Event, Send(new)
  PROVE  ResendTypeOK' /\ (\A e \in Event : Owed(e)') /\ ShownIffOneArrives'
<1> USE Bounds
<1>1. PICK lost \in BOOLEAN :
        /\ remaining' = [e \in Event |-> LeftToSend(new, e)]
        /\ shown' = (shown \ new) \cup (IF lost THEN {} ELSE new \cup Pending)
        /\ packets' = [e \in Event |->
             IF e \in new THEN 1
             ELSE IF packets[e] \in 1..Resend - 1 THEN packets[e] + 1 ELSE packets[e]]
        /\ arrived' = [e \in Event |->
             IF e \in new THEN ~lost
             ELSE arrived[e] \/ (~lost /\ packets[e] \in 1..Resend - 1)]
  BY DEF Send
<1>2. ASSUME NEW e \in Event
      PROVE  /\ remaining'[e] \in 0..Resend - 1 /\ packets'[e] \in 0..Resend
             /\ Owed(e)'
             /\ remaining[e] > 0 <=> packets[e] \in 1..Resend - 1
  <2>1. /\ remaining[e] \in 0..Resend - 1 /\ packets[e] \in 0..Resend /\ Owed(e)
        /\ remaining'[e] = LeftToSend(new, e)
        /\ packets'[e] = IF e \in new THEN 1
             ELSE IF packets[e] \in 1..Resend - 1 THEN packets[e] + 1 ELSE packets[e]
    BY <1>1 DEF ResendTypeOK
  <2> QED BY <2>1 DEF Owed, LeftToSend
<1>3. ResendTypeOK'
  <2>1. arrived' \in [Event -> BOOLEAN]
    BY <1>1 DEF ResendTypeOK
  <2>2. shown' \in SUBSET Event
    BY <1>1 DEF ResendTypeOK, Pending
  <2>3. remaining' \in [Event -> 0..Resend - 1] /\ packets' \in [Event -> 0..Resend]
    BY <1>1, <1>2
  <2> QED BY <2>1, <2>2, <2>3 DEF ResendTypeOK
<1>4. ASSUME NEW e \in Event PROVE e \in shown' <=> arrived'[e]
  <2>1. e \in shown <=> arrived[e]
    BY DEF ShownIffOneArrives
  <2>2. e \in Pending <=> packets[e] \in 1..Resend - 1
    BY <1>2 DEF Pending
  <2>3. arrived'[e] = IF e \in new THEN ~lost
          ELSE arrived[e] \/ (~lost /\ packets[e] \in 1..Resend - 1)
    BY <1>1
  <2>4. e \in shown' <=> (e \in shown /\ e \notin new) \/ (~lost /\ (e \in new \/ e \in Pending))
    BY <1>1
  <2> QED BY <2>1, <2>2, <2>3, <2>4, Zenon
<1> QED BY <1>2, <1>3, <1>4 DEF ShownIffOneArrives
-----------------------------------------------------------------------------
LEMMA InitInvariant == Init => IInv
<1> SUFFICES ASSUME Init PROVE IInv
  OBVIOUS
<1> USE Bounds DEF Init, ZoneInit, ResendInit
<1>1. ZoneTypeOK /\ ResendTypeOK
  BY DEF ZoneTypeOK, ResendTypeOK
<1>2. \A p \in Pid : Remembered(p)
  BY DEF Remembered
<1>3. (\A e \in Event : Owed(e)) /\ ShownIffOneArrives
  BY DEF Owed, ShownIffOneArrives
<1>4. TypeOK
  BY <1>1 DEF TypeOK, Sight
<1> QED BY <1>2, <1>3, <1>4 DEF IInv

(* What no step of a part disturbs. *)
LEMMA ZoneUnchanged ==
  ASSUME ZoneTypeOK, \A p \in Pid : Remembered(p), UNCHANGED zoneVars
  PROVE  ZoneTypeOK' /\ \A p \in Pid : Remembered(p)'
BY DEF zoneVars, ZoneTypeOK, Remembered

LEMMA ResendUnchanged ==
  ASSUME ResendTypeOK, \A e \in Event : Owed(e), ShownIffOneArrives, UNCHANGED resendVars
  PROVE  ResendTypeOK' /\ (\A e \in Event : Owed(e)') /\ ShownIffOneArrives'
BY DEF resendVars, ResendTypeOK, Owed, ShownIffOneArrives

LEMMA ZoneStep ==
  ASSUME IInv, Next PROVE ZoneTypeOK' /\ \A p \in Pid : Remembered(p)'
<1> USE DEF IInv, TypeOK
<1>1. CASE \E d \in Step : Elapse(d)
  BY <1>1, ElapseKeeps, Bounds
<1>2. ASSUME NEW p \in Pid, NEW zone \in Zone, SeePerson(p, zone)
      PROVE  ZoneTypeOK' /\ \A q \in Pid : Remembered(q)'
  BY <1>2, CallKeeps DEF SeePerson
<1>3. CASE EndFrame
  BY <1>3, PruneKeeps DEF EndFrame
<1> QED
  BY <1>1, <1>2, <1>3 DEF Next, MissedFrame, LearningFrame, BeginFrame

LEMMA ResendStep ==
  ASSUME IInv, Next
  PROVE  ResendTypeOK' /\ (\A e \in Event : Owed(e)') /\ ShownIffOneArrives'
<1> USE DEF IInv, TypeOK
<1>1. CASE UNCHANGED resendVars
  BY <1>1, ResendUnchanged
<1>2. CASE LearningFrame
  BY <1>2, SendKeeps DEF LearningFrame
<1>3. CASE EndFrame
  <2>1. PICK others \in SUBSET Unused : Send(raised \cup others)
    BY <1>3 DEF EndFrame
  <2>2. raised \cup others \in SUBSET Event
    BY DEF Unused
  <2> QED BY <2>1, <2>2, SendKeeps
<1> QED
  BY <1>1, <1>2, <1>3 DEF Next, MissedFrame, BeginFrame, SeePerson

LEMMA FrameStep ==
  ASSUME IInv, Next
  PROVE  /\ phase' \in {"idle", "zones"} /\ raised' \in SUBSET Event
         /\ calls' \in [Pid -> 0..Twins] /\ last' \in [Pid -> Sight]
<1> USE Bounds DEF IInv, TypeOK
<1>1. CASE MissedFrame \/ LearningFrame \/ BeginFrame
  BY <1>1 DEF MissedFrame, LearningFrame, BeginFrame, frameVars
<1>2. ASSUME NEW p \in Pid, NEW zone \in Zone, SeePerson(p, zone)
      PROVE  /\ phase' \in {"idle", "zones"} /\ raised' \in SUBSET Event
             /\ calls' \in [Pid -> 0..Twins] /\ last' \in [Pid -> Sight]
  <2>1. raised' \in SUBSET Event
    BY <1>2 DEF SeePerson, Raise
  <2>2. calls' \in [Pid -> 0..Twins]
    BY <1>2 DEF SeePerson
  <2>3. last' \in [Pid -> Sight]
    BY <1>2 DEF SeePerson, Sight, Zone
  <2> QED BY <1>2, <2>1, <2>2, <2>3 DEF SeePerson
<1>3. CASE EndFrame
  <2>1. 0 \in 0..Twins /\ "unseen" \in Sight
    BY DEF Sight
  <2> QED BY <1>3, <2>1 DEF EndFrame
<1> QED BY <1>1, <1>2, <1>3 DEF Next

LEMMA NextInvariant == IInv /\ [Next]_vars => IInv'
<1> SUFFICES ASSUME IInv, [Next]_vars PROVE IInv'
  OBVIOUS
<1>1. CASE Next
  <2>1. TypeOK'
    BY <1>1, ZoneStep, ResendStep, FrameStep DEF TypeOK
  <2> QED BY <1>1, <2>1, ZoneStep, ResendStep DEF IInv
<1>2. CASE UNCHANGED vars
  BY <1>2, ZoneUnchanged, ResendUnchanged DEF vars, frameVars, IInv, TypeOK
<1> QED BY <1>1, <1>2

LEMMA Invariance == Spec => []IInv
<1>1. Init => IInv
  BY InitInvariant
<1>2. IInv /\ [Next]_vars => IInv'
  BY NextInvariant
<1> QED BY <1>1, <1>2, PTL DEF Spec

(* IntrusionAlerts keeps to its types. *)
THEOREM TypeCorrect == Spec => []TypeOK
<1>1. IInv => TypeOK
  BY DEF IInv
<1> QED BY <1>1, Invariance, PTL

(* Who is about to be alerted has stayed in the zone, and was not alerted  *)
(* within the repeat interval unless it was forgotten since.               *)
THEOREM AlertsJustifiedHolds == Spec => []AlertsJustified
<1>1. ASSUME IInv PROVE AlertsJustified
  <2> SUFFICES ASSUME NEW p \in Pid, Confirms(p)
               PROVE  stay[p] + 1 >= MinFrames /\ (quiet[p] >= Repeat \/ away[p])
    BY DEF AlertsJustified
  <2> USE Bounds
  <2>1. ZoneTypeOK /\ Remembered(p) /\ stay[p] \in 0..MinFrames /\ quiet[p] \in 0..Repeat
    BY <1>1 DEF IInv, TypeOK, ZoneTypeOK
  <2>2. Entry(p).consecutive + 1 >= MinFrames /\ Entry(p).event >= Repeat
    BY DEF Confirms
  <2>3. CASE states_[p] = Unknown
    BY <2>1, <2>2, <2>3, EntryIsState DEF Remembered
  <2>4. CASE states_[p] # Unknown
    <3>1. states_[p].consecutive \in 0..MinFrames /\ states_[p].event \in 0..Repeat
      BY <2>1, <2>4, Known
    <3> QED BY <2>1, <2>2, <2>4, <3>1, EntryIsState DEF Remembered
  <2> QED BY <2>3, <2>4
<1> QED BY <1>1, Invariance, PTL

(* An event reaches the display exactly if one of its packets does. *)
THEOREM ShownIffOneArrivesHolds == Spec => []ShownIffOneArrives
<1>1. IInv => ShownIffOneArrives
  BY DEF IInv
<1> QED BY <1>1, Invariance, PTL
=============================================================================
