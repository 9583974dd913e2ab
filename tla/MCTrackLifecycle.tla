--------------------------- MODULE MCTrackLifecycle ---------------------------
(* TLC instance of TrackLifecycle.                                         *)
EXTENDS TrackLifecycle

Slots == 1..3
=============================================================================
