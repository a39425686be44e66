-------------------------- MODULE StockLedgerCustody --------------------------
(***************************************************************************)
(* The ledger implements StockCustody as long as requests do not overlap.  *)
(***************************************************************************)
EXTENDS StockLedger

(* The pack size in force for the article.                                 *)
PackSize == CHOOSE u \in PackSizes : Breaks(u)

WayOf(x) ==
  [stage |-> CASE x.state = "free" -> "none" [] x.state = "PENDING" -> "moving"
               [] x.state = "CONFIRMED" -> "arrived" [] x.state = "deleted" -> "back",
   from |-> x.src, to |-> x.dst, n |-> Units(x.qty, PackSize)]

Custody == INSTANCE StockCustody WITH
  held <- [e \in Elements |-> Units(level[e], PackSize)],
  way  <- [t \in Transfers |-> WayOf(transfer[t])]

(* Every step of the ledger is a step of the goods, or none: the strict    *)
(* check, the pack breaking, the PENDING status and the loss bookkeeping   *)
(* together never create, lose or deliver twice what a transfer carries.   *)
ImplementsCustody == Custody!Spec
==============================================================================
