---------------------------- MODULE PersonGroups ----------------------------
(***************************************************************************)
(* ClusterTracker::UpdatePersonGroups and what it needs of Update: legs    *)
(* seen by the sensor are tracks, and the tracks of one person form a      *)
(* group, of which one track, the primary, is sent as the person.          *)
(*                                                                         *)
(* A frame is one call of Update, on one thread: tracks are matched or     *)
(* missed, grouped, deleted and created, and grouped a second time.        *)
(* tracks_ keeps the order in which its tracks were made, so a track is    *)
(* named by its birth.  Geometry is a free choice: which tracks look like  *)
(* legs, which are near enough to be a pair or to join an entity; so is    *)
(* when a track is deleted (lost_count and age are left out).  confirmed   *)
(* has no say in the grouping, which takes any track matched once; the     *)
(* sender asks for it, and EveryGroupShown is about any set of confirmed   *)
(* tracks.                                                                 *)
(***************************************************************************)
EXTENDS Naturals, FiniteSets

CONSTANTS
  Births,      \* bound: tracks that are ever made
  Out,         \* bound: tracks out of sight at once
  HoldFrames   \* person_group_hold_frames

ASSUME GroupsOK ==
  Births \in Nat \ {0} /\ Out \in Nat /\ HoldFrames \in Nat \ {0}

VARIABLES
  members,     \* tracks_: per birth a Member, or Absent
  entity,      \* person_entities_: per id its lost_count, or Forgotten
  made,        \* tracks made so far; AllocId hands out the same numbers
  stage        \* the stage of Update that comes next; "match" between frames

groupsVars == <<members, entity, made, stage>>

Birth == 1..Births
Id == Birth
NoGroup == 0
Absent == [id |-> 0]            \* no track has id 0
Forgotten == HoldFrames + 1     \* erased: lost_count > HoldFrames

(* sight: "replaced" is the track whose id a recovery took over.           *)
(* how, hidden: history; the pass that grouped the track in the last call, *)
(* and the frames since then that ended with it in sight and not sent.     *)
Member ==
  [id : Id, sight : {"seen", "lost", "replaced"}, group : 0..Births,
   primary : BOOLEAN, last : 0..Births, hold : 0..HoldFrames,
   how : {"none", "paired", "held", "attached"}, hidden : 0..HoldFrames]

GroupsTypeOK ==
  /\ members \in [Birth -> Member \cup {Absent}]
  /\ entity \in [Id -> 0..Forgotten]
  /\ made \in 0..Births
  /\ stage \in {"match", "fade", "group", "erase", "create", "regroup"}

Present == {b \in Birth : members[b] # Absent}

GroupsInit ==
  /\ members = [b \in Birth |-> Absent]
  /\ entity = [g \in Id |-> Forgotten]
  /\ made = 0
  /\ stage = "match"
-----------------------------------------------------------------------------
(* One call of UpdatePersonGroups                                          *)

FadedHoldKept(t) ==              \* mutant: the hold is not counted down
  [t EXCEPT !.group = NoGroup, !.primary = FALSE, !.how = "none"]

(* The loops at its start.  Once the hold is over, the last group has no   *)
(* say in the passes: it is dropped.                                       *)
Faded(t) ==
  [t EXCEPT !.group = NoGroup, !.primary = FALSE, !.how = "none",
            !.hold = IF @ > 0 THEN @ - 1 ELSE 0,
            !.last = IF t.hold > 1 THEN @ ELSE NoGroup]

AgedForever(lost) == lost + 1     \* mutant: nobody is forgotten
Aged(lost) == IF lost < Forgotten THEN lost + 1 ELSE Forgotten

FadeOncePerFrame ==              \* mutant: the second call counts no hold
  /\ \/ stage = "fade" /\ stage' = "group"
     \/ stage = "create" /\ stage' = "regroup"
  /\ members' = [b \in Birth |->
       IF b \notin Present THEN Absent
       ELSE IF stage = "fade" THEN Faded(members[b])
       ELSE [members[b] EXCEPT !.group = NoGroup, !.primary = FALSE,
                               !.how = "none"]]
  /\ entity' = [g \in Id |->
       IF stage = "fade" THEN Aged(entity[g]) ELSE entity[g]]
  /\ UNCHANGED made

Fade ==
  /\ \/ stage = "fade" /\ stage' = "group"
     \/ stage = "create" /\ stage' = "regroup"
  /\ members' = [b \in Birth |->
       IF b \in Present THEN Faded(members[b]) ELSE Absent]
  /\ entity' = [g \in Id |-> Aged(entity[g])]
  /\ UNCHANGED made

(* Held to its last group: it joins no other one before the hold is over.  *)
IsHeld(t) == t.hold > 0

(* Only tracks in sight are candidates of any pass.                        *)
Legs == {b \in Present : members[b].sight = "seen"}

(* Disjoint pairs of tracks                                                *)
Pairings ==
  {m \in SUBSET {p \in SUBSET Birth : Cardinality(p) = 2} :
     \A p, q \in m : p # q => p \cap q = {}}

(* The primary of a pair: the track with the lower id, at a tie the older. *)
Lead(p) ==
  CHOOSE b \in p :
    \A c \in p : \/ members[b].id < members[c].id
                 \/ members[b].id = members[c].id /\ b <= c

(* First pass: a new pair, any two legs, is named by its lead.             *)
NewPairs == {m \in Pairings : UNION m \subseteq Legs}

(* Second pass: a pair that lost its shape is kept while both legs are     *)
(* held to it.                                                             *)
HeldPairs(paired) ==
  {m \in Pairings :
     /\ UNION m \subseteq Legs \ UNION paired
     /\ \A p \in m : \A b, c \in p :
          IsHeld(members[b]) /\ members[b].last = members[c].last}

(* The groups the two passes give.                                         *)
PairGroups(paired, held) ==
  [b \in UNION (paired \cup held) |->
     IF b \in UNION held THEN members[b].last
     ELSE members[Lead(CHOOSE p \in paired : b \in p)].id]

(* Third pass: a single leg may join a person remembered, in sight or not; *)
(* a held leg its own person only.                                         *)
Attachments(joined) ==
  LET known == {g \in Id : \/ entity[g] < Forgotten
                           \/ \E c \in DOMAIN joined : joined[c] = g}
  IN {a \in [Legs \ DOMAIN joined -> known \cup {NoGroup}] :
        \A b \in DOMAIN a :
          IsHeld(members[b]) => a[b] \in {members[b].last, NoGroup}}

RepresentedByItself(joined, group, b) ==   \* mutant: a leg counts itself
  \E c \in Present : group[c] = group[b] /\ (c \in DOMAIN joined \/ c <= b)
RepresentedByPairs(joined, group, b) ==   \* mutant: single legs do not count
  \E c \in Present :
    /\ members[c].id # members[b].id /\ group[c] = group[b]
    /\ c \in DOMAIN joined

(* already_represented: a track of another id is in the group.  Legs are   *)
(* attached in the order of tracks_.                                       *)
Represented(joined, group, b) ==
  \E c \in Present :
    /\ members[c].id # members[b].id /\ group[c] = group[b]
    /\ c \in DOMAIN joined \/ c < b

Joined(t, g, primary, hold, how) ==
  [t EXCEPT !.group = g, !.primary = primary, !.last = g, !.hold = hold,
            !.how = how, !.hidden = 0]

(* The group of each track once the three passes are over.                 *)
GroupOf(joined, a) ==
  [b \in Present |-> IF b \in DOMAIN joined THEN joined[b]
                    ELSE IF b \in DOMAIN a THEN a[b] ELSE NoGroup]

IsLead(paired, held, b) == \E p \in paired \cup held : b = Lead(p)

(* What the pass that grouped track b makes of it.                         *)
Regrouped(paired, held, joined, group, b) ==
  LET t == members[b]
  IN  IF b \notin Present \/ group[b] = NoGroup THEN t
      ELSE IF b \in UNION paired
        THEN Joined(t, group[b], IsLead(paired, held, b), HoldFrames, "paired")
      ELSE IF b \in UNION held
        THEN Joined(t, group[b], IsLead(paired, held, b), t.hold, "held")
      ELSE Joined(t, group[b], ~Represented(joined, group, b), HoldFrames,
                  "attached")

(* The passes, and the end: entities not in sight for long are erased.     *)
Passes ==
  \E paired \in NewPairs : \E held \in HeldPairs(paired) :
  \E joined \in {PairGroups(paired, held)} : \E a \in Attachments(joined) :
    LET group == GroupOf(joined, a)
    IN /\ members' = [b \in Birth |->
                        Regrouped(paired, held, joined, group, b)]
       /\ entity' = [g \in Id |->
            IF \E b \in Present : group[b] = g THEN 0 ELSE entity[g]]
-----------------------------------------------------------------------------
(* IsHeldPersonLeg keeps a leg that is held and in no group from all       *)
(* receivers of the frame.                                                 *)
IsHeldPersonLeg(t) == t.sight = "seen" /\ t.group = NoGroup /\ IsHeld(t)

(* What the sender lets through, if these tracks are confirmed.  (Residual *)
(* and candidate tracks it keeps back are in no group; dumpings are other  *)
(* tracks.)                                                                *)
Sent(confirmed) ==
  {b \in Legs \cap confirmed :
     /\ ~IsHeldPersonLeg(members[b])
     /\ members[b].group # NoGroup => members[b].primary}

(* Stages 1 to 3: every track is seen or missed.                           *)
Sight ==
  /\ stage = "match" /\ stage' = "fade"
  /\ \E seen \in SUBSET Present :
       /\ Cardinality(Present \ seen) <= Out
       /\ members' = [b \in Birth |->
            IF b \notin Present THEN Absent
            ELSE [members[b] EXCEPT
                    !.sight = IF b \in seen THEN "seen"
                              ELSE IF @ = "replaced" THEN @ ELSE "lost",
                    !.hidden = IF IsHeldPersonLeg(members[b])
                               THEN @ + 1 ELSE 0]]
  /\ UNCHANGED <<entity, made>>

Group ==
  /\ stage = "group" /\ stage' = "erase"
  /\ Passes
  /\ UNCHANGED made

(* Stage 5: some tracks are deleted, a replaced one that was not seen      *)
(* again for certain: its lost_count is beyond every limit.                *)
Erase ==
  /\ stage = "erase" /\ stage' = "create"
  /\ \E gone \in SUBSET Present :
       /\ {b \in Present : members[b].sight = "replaced"} \subseteq gone
       /\ members' = [b \in Birth |->
                        IF b \in gone THEN Absent ELSE members[b]]
  /\ UNCHANGED <<entity, made>>

Born(id) ==
  [id |-> id, sight |-> "seen", group |-> NoGroup, primary |-> FALSE,
   last |-> NoGroup, hold |-> 0, how |-> "none", hidden |-> 0]

(* Stage 6: a cluster nothing matched is a new track.                      *)
Create ==
  /\ stage = "create" /\ UNCHANGED stage
  /\ made < Births
  /\ made' = made + 1
  /\ members' = [members EXCEPT ![made + 1] = Born(made + 1)]
  /\ UNCHANGED entity

(* A new track may take over the id of one lost a short while ago, but not *)
(* its group.                                                              *)
TakeOver(b) ==
  /\ stage = "create" /\ UNCHANGED stage
  /\ b \in Present /\ members[b].sight = "lost"
  /\ made < Births /\ made' = made + 1
  /\ members' = [members EXCEPT ![b].sight = "replaced",
                                ![made + 1] = Born(members[b].id)]
  /\ UNCHANGED entity

Regroup ==
  /\ stage = "regroup" /\ stage' = "match"
  /\ Passes
  /\ UNCHANGED made

GroupsNext ==
  \/ Sight \/ Fade \/ Group \/ Erase \/ Create \/ Regroup
  \/ \E b \in Birth : TakeOver(b)

GroupsSpec == GroupsInit /\ [][GroupsNext]_groupsVars
-----------------------------------------------------------------------------
(* No confirmed leg of a group is dropped for nothing.  The sender asks    *)
(* for confirmed first and for primary then (json_packet.cpp:66, 76), so   *)
(* a confirmed leg that is not the primary depends on another one: at the  *)
(* end of a frame, whichever tracks are confirmed, a track is sent for its *)
(* group, or a primary not yet confirmed stands in front of it, one of a   *)
(* pair or older than itself.  In that case the person is not sent.        *)
EveryGroupShown ==
  stage = "match" =>
    \A confirmed \in SUBSET Legs :
      \A b \in {d \in confirmed : members[d].group # NoGroup} :
        \E c \in Legs :
          /\ members[c].group = members[b].group
          /\ \/ c \in Sent(confirmed)
             \/ /\ c \notin confirmed /\ members[c].primary
                /\ members[c].how # "attached" \/ c < b

(* One person is sent twice only when a pair was kept by its hold although *)
(* its group was in use again, or when two tracks bear one id.             *)
TwiceOnlyByHold ==
  \A b, c \in Present :
    (/\ b # c /\ members[b].primary /\ members[c].primary
     /\ members[b].group = members[c].group)
    => \/ "held" \in {members[b].how, members[c].how}
       \/ members[b].id = members[c].id

(* The person a leg is held for is remembered at least as long as the hold.*)
HeldGroupKept ==
  \A b \in Present : members[b].hold > 0 =>
    /\ members[b].last # NoGroup
    /\ entity[members[b].last] + members[b].hold <= HoldFrames

(* A leg in sight that no pass groups is kept from the receivers for no    *)
(* more than half of HoldFrames: the hold counts calls, two in a frame.    *)
HiddenBriefly ==
  \A b \in Present : 2 * members[b].hidden <= HoldFrames
=============================================================================
