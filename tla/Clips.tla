------------------------------- MODULE Clips -------------------------------
(* The clips that BlackboxSaves and ClipUpload pass on, numbered by their   *)
(* requests: a clip stands for its file path and its meta data, and no path *)
(* is requested twice (it holds the event's time or its bundle directory).  *)
EXTENDS Naturals

CONSTANT MaxClips   \* bound: requests of the main loop

ASSUME ClipsOK == MaxClips \in Nat

Clip == 1..MaxClips
NoClip == 0
=============================================================================
