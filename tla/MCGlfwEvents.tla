--------------------------- MODULE MCGlfwEvents ---------------------------
(* Two producers: the UI thread pushes two events, the gamepad callback one *)
EXTENDS GlfwEvents

CONSTANTS ui, pad

Posts == [p \in Producers |-> IF p = ui THEN 2 ELSE 1]
===========================================================================
