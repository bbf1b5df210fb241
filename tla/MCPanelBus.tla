----------------------------- MODULE MCPanelBus -----------------------------
(***************************************************************************)
(* A key with two bindings, a knob with one and a key with none; two       *)
(* statuses, and an event queue with room for two frames.                  *)
(***************************************************************************)
EXTENDS PanelBus

MCType == [f \in Frames |-> IF f = "knob" THEN "KNOB" ELSE "KEY"]
MCMatches == [f \in Frames |-> CASE f = "key" -> 2 [] f = "knob" -> 1 [] OTHER -> 0]
=============================================================================
