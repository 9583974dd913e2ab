--------------------------- MODULE MCEventNotifier ---------------------------
(* TLC instance of EventNotifier: d1 and d2 are dumping lines (they carry  *)
(* event_time), x1 is a departure line (it does not).                      *)
EXTENDS EventNotifier, TLC

MixedLines == {"d1", "x1"}
OneLine == {"d1"}
NoLine == {}
=============================================================================
