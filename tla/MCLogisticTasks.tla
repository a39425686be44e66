--------------------------- MODULE MCLogisticTasks ---------------------------
EXTENDS LogisticTasks, TLC

CONSTANTS shop, store, k1, k2, w1, w2, clerk

Pack == [packed |-> 1, loose |-> 0]

(* Two packs of two in the store.  The shop holds one: it can send it back. *)
MCOpening ==
  (shop :> [found |-> TRUE, packed |-> 1, loose |-> 0, upp |-> 2])
  @@ (store :> [found |-> TRUE, packed |-> 2, loose |-> 0, upp |-> 2])

MCQuantities == {Zero, Pack}
MCSource == (k1 :> store) @@ (k2 :> shop)
MCTarget == (k1 :> shop) @@ (k2 :> store)
MCLoad   == (k1 :> Pack) @@ (k2 :> Pack)

(* Each task has its assignee; the clerk has none.                         *)
MCWithClerk == (w1 :> {k1}) @@ (w2 :> {k2}) @@ (clerk :> {})
==============================================================================
