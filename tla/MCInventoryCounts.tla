--------------------------- MODULE MCInventoryCounts ---------------------------
(* One article; a request is about another point of sale. *)
EXTENDS InventoryCounts

MCAsked == {{}}
==============================================================================
