----------------------------- MODULE MCMainLoop -----------------------------
(* TLC instance of MainLoop. *)
EXTENDS MainLoop

Shots == {"shot1", "shot2"}
ConfirmName == "confirm"
NoName == "none"
=============================================================================
