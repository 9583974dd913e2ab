--------------------------- MODULE MCDumpValidation ---------------------------
(* TLC instance of DumpValidation: a window of five frames, half and four  *)
(* fifths of which are wanted, and a relearning longer than the window.    *)
EXTENDS DumpValidation, TLC

OneObject == {"o1"}
=============================================================================
