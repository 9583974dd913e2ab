---------------------------- MODULE EventDelivery ----------------------------
(***************************************************************************)
(* What the notifier promises about an event line, without threads, queues *)
(* or a file's layout: an accepted line is held until the server confirmed *)
(* it or the policy discards it; the end of a process may lose it, and a   *)
(* failed operation on the queue file may erase the lines it exposed.      *)
(***************************************************************************)
EXTENDS Naturals

CONSTANT Event

VARIABLES
  refused,      \* lines the server will never confirm
  phase,        \* where each line is in its life
  arrived,      \* the lines the server has accepted at least once
  expired,      \* the lines the policy allows to discard
  ended,        \* how many processes have ended so far
  faults,       \* how many file operations have failed so far
  exposed       \* the lines such a failure has put at risk

vars == <<refused, phase, arrived, expired, ended, faults, exposed>>
disk == <<faults, exposed>>

Phase == {"new", "held", "confirmed", "discarded", "lost", "erased"}

Init ==
  /\ refused \subseteq Event /\ phase \in [Event -> {"new", "held"}]
  /\ arrived = {} /\ ended = 0
  /\ expired \in {{}, Event}
  /\ faults = 0 /\ exposed = {}

Accept(e) ==
  /\ phase[e] = "new" /\ phase' = [phase EXCEPT ![e] = "held"]
  /\ UNCHANGED <<refused, arrived, expired, ended, disk>>

(* The server takes a line; the device may or may not learn of it. *)
Arrive(e) ==
  /\ phase[e] # "new" /\ e \notin refused
  /\ arrived' = arrived \cup {e}
  /\ \/ UNCHANGED phase
     \/ phase[e] = "held" /\ phase' = [phase EXCEPT ![e] = "confirmed"]
  /\ UNCHANGED <<refused, expired, ended, disk>>

Expire(e) ==
  /\ phase[e] # "new" /\ expired' = expired \cup {e}
  /\ UNCHANGED <<refused, phase, arrived, ended, disk>>

(* Lines are discarded in bulk, and only ones the policy gave up. *)
Discard(S) ==
  /\ S \subseteq {e \in expired : phase[e] = "held"}
  /\ phase' = [e \in Event |-> IF e \in S THEN "discarded" ELSE phase[e]]
  /\ UNCHANGED <<refused, arrived, expired, ended, disk>>

(* A process ends; some of what it held dies with it, and what is left is  *)
(* in the file.                                                            *)
End(S) ==
  /\ S \subseteq {e \in Event : phase[e] = "held"}
  /\ phase' = [e \in Event |-> IF e \in S THEN "lost" ELSE phase[e]]
  /\ ended' = ended + 1 /\ exposed' = {}
  /\ UNCHANGED <<refused, arrived, expired, faults>>

(* The queue file is rewritten without exposed lines. *)
Erase(S) ==
  /\ S \subseteq {e \in exposed' : phase[e] = "held"}
  /\ phase' = [e \in Event |-> IF e \in S THEN "erased" ELSE phase[e]]
  /\ UNCHANGED <<refused, arrived, expired, ended>>

(* An operation on the file fails: lines come to be at risk. *)
Fault(S) ==
  /\ faults' = faults + 1
  /\ exposed \subseteq exposed' /\ exposed' \subseteq Event
  /\ Erase(S)

(* Lines at risk have been read, or stored, again. *)
Cover ==
  /\ exposed' \subseteq exposed
  /\ UNCHANGED <<refused, phase, arrived, expired, ended, faults>>

Next ==
  \/ \E e \in Event : Accept(e) \/ Arrive(e) \/ Expire(e)
  \/ \E S \in SUBSET Event : Discard(S) \/ End(S) \/ Fault(S)
  \/ \E S \in SUBSET Event : Erase(S) /\ UNCHANGED disk
  \/ Cover

Spec == Init /\ [][Next]_vars
=============================================================================
