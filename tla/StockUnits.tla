------------------------------ MODULE StockUnits ------------------------------
(***************************************************************************)
(* Quantities of one article on one element (shop or storage), counted in  *)
(* packs and loose units, and the arithmetic the stock ledger applies to   *)
(* them (StockItemIdentityService).  Loose quantities are integers here:   *)
(* the code rounds them to two decimals and compares with a 1e-9 margin.   *)
(***************************************************************************)
EXTENDS Integers

(* `unitsPerPack` is null.  A size of 0 is a value (`??` keeps it) but, as  *)
(* NoPack, it never breaks a pack: the code tests `upp && upp > 0`.        *)
NoPack == -1

Size     == Nat \cup {NoPack}
Quantity == [packed : Nat, loose : Nat]
Delta    == [packed : Int, loose : Int]
Zero     == [packed |-> 0, loose |-> 0]

(* A StockLevel row; a row that does not exist reads as 0/0/null.          *)
Level   == [found : BOOLEAN, packed : Nat, loose : Nat, upp : Size]
NoLevel == [found |-> FALSE, packed |-> 0, loose |-> 0, upp |-> NoPack]

Breaks(upp) == upp > 0

Plus(q, d)  == [packed |-> q.packed + d.packed, loose |-> q.loose + d.loose]
Minus(q, d) == [packed |-> q.packed - d.packed, loose |-> q.loose - d.loose]
Negated(q)  == [packed |-> -q.packed, loose |-> -q.loose]

(* Math.ceil(missing / upp); mutant: Math.floor                            *)
PacksToBreakFloor(missing, upp) == missing \div upp
PacksToBreak(missing, upp) == (missing + upp - 1) \div upp

Borrowed(q, upp) ==
  IF Breaks(upp) /\ q.loose < 0 /\ q.packed > 0
  THEN LET needed == PacksToBreak(-q.loose, upp)
       IN  IF q.packed < needed THEN q.packed ELSE needed
  ELSE 0

AtLeastZero(n) == IF n < 0 THEN 0 ELSE n

(* A negative loose quantity breaks packs while there are any; what is     *)
(* still negative afterwards is clamped at zero.                           *)
NormalizeLevel(q, upp) ==
  LET b == Borrowed(q, upp)
  IN  [packed |-> AtLeastZero(q.packed - b),
       loose  |-> AtLeastZero(q.loose + (IF Breaks(upp) THEN b * upp ELSE 0))]

(* The `strict` refusal of applyLevelDelta, on the level after the delta;  *)
(* mutant: packs alone are looked at.                                      *)
InsufficientPacksOnly(raw, d, upp) == d.packed < 0 /\ raw.packed < 0

Insufficient(raw, d, upp) ==
  /\ d.packed < 0 \/ d.loose < 0
  /\ \/ raw.packed < 0
     \/ IF Breaks(upp) THEN raw.packed * upp + raw.loose < 0 ELSE raw.loose < 0

(* The pack size a delta is applied with: `unitsPerPack ?? existing`.      *)
SizeFor(upp, lv) == IF upp = NoPack THEN lv.upp ELSE upp

(* The row applyLevelDelta writes over (or instead of) the row it read.    *)
LevelAfter(lv, d, upp) ==
  LET size == SizeFor(upp, lv)
      n    == NormalizeLevel(Plus(lv, d), size)
  IN  [found |-> TRUE, packed |-> n.packed, loose |-> n.loose, upp |-> size]

(* What a quantity is worth in loose units, packs counted at u.            *)
Units(q, u) == q.packed * u + q.loose
=============================================================================
