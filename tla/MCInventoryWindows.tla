-------------------------- MODULE MCInventoryWindows --------------------------
(* Two matches of a space: today's, with both phases, and the next one, of *)
(* which the pre-event is what the cycle starts after a delivery.          *)
EXTENDS InventoryWindows

CONSTANTS e1, e2

MCEvent == {e1, e2}
MCWindow == {<<e1, "pre">>, <<e1, "post">>, <<e2, "pre">>}
==============================================================================
