-------------------------- MODULE MCIntrusionAlerts --------------------------
(* TLC instance of IntrusionAlerts. *)
EXTENDS IntrusionAlerts

OnePid == {"p"}
Events == 1..3
Steps == {1, 3}
=============================================================================
