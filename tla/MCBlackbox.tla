----------------------------- MODULE MCBlackbox -----------------------------
(* TLC instance of Blackbox. *)
EXTENDS Blackbox, TLC
=============================================================================
