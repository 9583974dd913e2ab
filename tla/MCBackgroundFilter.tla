-------------------------- MODULE MCBackgroundFilter --------------------------
(* TLC instance of BackgroundFilter. *)
EXTENDS BackgroundFilter

Places == {"here", "beside"}
Neighbours == {<<"here", "beside">>, <<"beside", "here">>}
=============================================================================
