------------------------------ MODULE MCViewer ------------------------------
(* The event stream and its shutdown, on a small instance for TLC.          *)
EXTENDS Viewer

\* No filter, or one.
Lists == {<<>>, <<{"e1"}>>}
Listeners == <<"broadcaster", "handler", "dropper">>

=============================================================================
