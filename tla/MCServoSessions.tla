--------------------------- MODULE MCServoSessions ---------------------------
(* TLC instance of ServoSessions. *)
EXTENDS ServoSessions, TLC

Persons == {"p1", "p2"}
OnePerson == {"p1"}
Objects == {"o1", "o2"}
OneObject == {"o1"}
=============================================================================
