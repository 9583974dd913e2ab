---------------------------- MODULE EventResend ----------------------------
(***************************************************************************)
(* JsonPacketSender::Send (json_packet.cpp): departures, intrusions and    *)
(* dumpings go out in the packet of their frame and in the next            *)
(* Resend - 1 packets, over UDP.  The three queues are alike and here one; *)
(* an event is a number from a pool, free again when it is not sent any    *)
(* more.  What else a packet carries (tracks, points) is left out.         *)
(***************************************************************************)
EXTENDS Integers

CONSTANTS
  Event,    \* pool of one-shot events
  Resend    \* kDepartureResendFrames, kIntrusionResendFrames, kDumpingResendFrames

ASSUME ResendOK == Event \subseteq Nat /\ Resend \in Nat \ {0}

VARIABLES
  remaining, \* the packets each pending event will still be in
  packets,   \* history: packets sent since the event came up, 0 if it never did
  arrived,   \* history: one of the first Resend of them arrived
  shown      \* events the receiver got

resendVars == <<remaining, packets, arrived, shown>>

Pending == {e \in Event : remaining[e] > 0}

ResendTypeOK ==
  /\ remaining \in [Event -> 0..Resend - 1]
  /\ packets \in [Event -> 0..Resend]
  /\ arrived \in [Event -> BOOLEAN]
  /\ shown \in SUBSET Event

ResendInit ==
  /\ remaining = [e \in Event |-> 0]
  /\ packets = [e \in Event |-> 0]
  /\ arrived = [e \in Event |-> FALSE]
  /\ shown = {}
-----------------------------------------------------------------------------
(* Mutants: an operator named after a definition and a fault is that       *)
(* definition with the fault; no specification uses it.                    *)

(* a new event is queued before the round that counts down                 *)
LeftToSendEager(new, e) ==
  IF e \in new THEN IF Resend > 1 THEN Resend - 2 ELSE 0
  ELSE IF remaining[e] > 0 THEN remaining[e] - 1 ELSE 0

(* what is used up is not erased *)
LeftToSendForever(new, e) ==
  IF e \in new THEN Resend - 1 ELSE remaining[e] - 1

-----------------------------------------------------------------------------
(* remaining-- for what was pending, erased at 0; then what is new.        *)
LeftToSend(new, e) ==
  IF e \in new THEN Resend - 1
  ELSE IF remaining[e] > 0 THEN remaining[e] - 1 ELSE 0

(* One packet.  It is lost if the network loses it, if SendBuffer fails or *)
(* if it is larger than a datagram; its events are counted down all the    *)
(* same.                                                                   *)
Send(new) ==
  \E lost \in BOOLEAN :
    /\ remaining' = [e \in Event |-> LeftToSend(new, e)]
    /\ shown' = (shown \ new) \cup (IF lost THEN {} ELSE new \cup Pending)
    /\ packets' = [e \in Event |->
         IF e \in new THEN 1
         ELSE IF packets[e] \in 1..Resend - 1 THEN packets[e] + 1 ELSE packets[e]]
    /\ arrived' = [e \in Event |->
         IF e \in new THEN ~lost
         ELSE arrived[e] \/ (~lost /\ packets[e] \in 1..Resend - 1)]
-----------------------------------------------------------------------------
(* An event is shown exactly if one of the Resend packets from its own on  *)
(* arrives: it takes that many losses in a row to miss it                  *)
(* (json_packet.h:117), also over a relearning, and it does not come up    *)
(* again later.                                                            *)
ShownIffOneArrives == \A e \in Event : e \in shown <=> arrived[e]
=============================================================================
