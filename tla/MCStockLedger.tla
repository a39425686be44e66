---------------------------- MODULE MCStockLedger ----------------------------
EXTENDS StockLedgerCustody, TLC

CONSTANTS shop, store

Pack == [packed |-> 1, loose |-> 0]
Unit == [packed |-> 0, loose |-> 1]

(* The store holds two packs of two; nothing was ever posted on the shop.  *)
MCOpening ==
  (shop :> NoLevel) @@ (store :> [found |-> TRUE, packed |-> 2, loose |-> 0, upp |-> 2])

MCQuantities == {Zero, Pack, Unit}

MCPackSizes == {NoPack, 2}
==============================================================================
