--------------------------- MODULE StockLedger_proofs ---------------------------
(***************************************************************************)
(* The ledger of one article is well-typed, settles every transfer in full *)
(* and reverses a deposit once, for every set of elements, requests and    *)
(* resets; and its levels agree with its movements wherever no level was   *)
(* computed from a stale read.  First come the facts about the stock       *)
(* arithmetic, for every quantity and pack size, and last the restocking   *)
(* tasks that ship, confirm and reverse on this ledger.                    *)
(***************************************************************************)
EXTENDS StockLedgerCustody, LogisticTasks, FiniteSetTheorems, TLAPS

(* Breaking Math.ceil(missing / upp) packs covers what is missing, and one *)
(* pack less would not.                                                    *)
LEMMA PacksToBreakCovers ==
  ASSUME NEW missing \in Nat \ {0}, NEW upp \in Nat \ {0}
  PROVE  /\ PacksToBreak(missing, upp) \in Nat
         /\ PacksToBreak(missing, upp) * upp >= missing
         /\ (PacksToBreak(missing, upp) - 1) * upp < missing
BY Z3 DEF PacksToBreak

(* normalizeLevel returns a quantity, never a negative one, whatever the   *)
(* level it is given.                                                      *)
LEMMA NormalizeType ==
  ASSUME NEW q \in Delta, NEW upp \in Size
  PROVE  NormalizeLevel(q, upp) \in Quantity
<1>1. Borrowed(q, upp) \in Nat
  <2>1. CASE Breaks(upp) /\ q.loose < 0 /\ q.packed > 0
    <3>1. PacksToBreak(-q.loose, upp) \in Nat
      BY <2>1, PacksToBreakCovers DEF Breaks, Size, NoPack, Delta
    <3>2. QED  BY <2>1, <3>1 DEF Borrowed, Delta
  <2>2. QED  BY <2>1 DEF Borrowed
<1>2. DEFINE p == q.packed - Borrowed(q, upp)
             l == q.loose + (IF Breaks(upp) THEN Borrowed(q, upp) * upp ELSE 0)
<1>3. p \in Int /\ l \in Int
  BY <1>1 DEF Breaks, Size, NoPack, Delta
<1>4. AtLeastZero(p) \in Nat /\ AtLeastZero(l) \in Nat
  BY <1>3 DEF AtLeastZero
<1>5. QED  BY <1>4 DEF NormalizeLevel, Quantity

(* A level that is worth at least nothing keeps its worth when packs are   *)
(* broken: the clamp at zero never fires.                                  *)
LEMMA NormalizeKeepsUnits ==
  ASSUME NEW q \in Delta, NEW u \in Nat \ {0}, q.packed >= 0, Units(q, u) >= 0
  PROVE  Units(NormalizeLevel(q, u), u) = Units(q, u)
<1> DEFINE n == PacksToBreak(-q.loose, u)
<1>1. CASE q.loose >= 0
  BY <1>1, Z3 DEF NormalizeLevel, Borrowed, AtLeastZero, Units, Breaks, Delta
<1>2. CASE q.loose < 0
  <2> DEFINE missing == -q.loose
  <2>0. missing \in Nat \ {0}
    BY <1>2 DEF Delta
  <2>1. n \in Nat /\ n * u >= -q.loose /\ (n - 1) * u < -q.loose
    <3> HIDE DEF missing
    <3>1. /\ PacksToBreak(missing, u) \in Nat
          /\ PacksToBreak(missing, u) * u >= missing
          /\ (PacksToBreak(missing, u) - 1) * u < missing
      BY <2>0, PacksToBreakCovers
    <3>2. QED  BY <3>1 DEF missing
  <2>2. q.packed * u >= -q.loose
    BY <1>2 DEF Units, Delta
  <2>3. (n - 1) * u < q.packed * u
    BY <2>1, <2>2, Z3 DEF Delta
  <2>4. n <= q.packed
    BY <2>1, <2>3, Z3 DEF Delta
  <2>5. q.packed > 0
    BY <1>2, <2>2, Z3 DEF Delta
  <2>6. Borrowed(q, u) = n
    BY <1>2, <2>4, <2>5, <2>1 DEF Borrowed, Breaks, Delta
  <2>7. NormalizeLevel(q, u) = [packed |-> q.packed - n, loose |-> q.loose + n * u]
    BY <2>1, <2>4, <2>6 DEF NormalizeLevel, AtLeastZero, Breaks, Delta
  <2>8. QED  BY <2>1, <2>7, Z3 DEF Units, Delta
<1>3. QED  BY <1>1, <1>2 DEF Delta

(* Without a pack size, a level that is not negative is left as it is.     *)
LEMMA NormalizeKeepsLevel ==
  ASSUME NEW q \in Delta, NEW upp \in Size, q.packed >= 0, q.loose >= 0
  PROVE  NormalizeLevel(q, upp) = [packed |-> q.packed, loose |-> q.loose]
<1>1. Borrowed(q, upp) = 0
  BY DEF Borrowed, Delta
<1>2. QED  BY <1>1 DEF NormalizeLevel, AtLeastZero, Delta, Breaks, Size, NoPack

(* Adding a delta to a level gives a signed quantity.                      *)
LEMMA PlusType ==
  ASSUME NEW q, q.packed \in Int, q.loose \in Int, NEW d \in Delta
  PROVE  Plus(q, d) \in Delta
BY DEF Plus, Delta

(* applyLevelDelta writes a well-formed row, with a size it was given.     *)
LEMMA LevelAfterType ==
  ASSUME NEW lv \in Level, NEW d \in Delta, NEW upp \in Size
  PROVE  /\ LevelAfter(lv, d, upp) \in Level
         /\ LevelAfter(lv, d, upp).upp = SizeFor(upp, lv)
<1>1. Plus(lv, d) \in Delta
  BY PlusType DEF Level
<1>2. SizeFor(upp, lv) \in Size
  BY DEF SizeFor, Level
<1>3. NormalizeLevel(Plus(lv, d), SizeFor(upp, lv)) \in Quantity
  BY <1>1, <1>2, NormalizeType
<1>4. QED  BY <1>2, <1>3 DEF LevelAfter, Level, Quantity

(* A delta that the strict check lets through, or that only adds, moves    *)
(* the level by exactly its worth: nothing is created by the clamp, and    *)
(* breaking packs is neutral.  u is the pack size in force, if any.        *)
THEOREM StrictDeltaIsExact ==
  ASSUME NEW lv \in Level, NEW d \in Delta, NEW upp \in Size, NEW u \in Nat \ {0},
         SizeFor(upp, lv) = u \/ ~Breaks(SizeFor(upp, lv)),
         \/ ~Insufficient(Plus(lv, d), d, SizeFor(upp, lv))
         \/ d.packed >= 0 /\ d.loose >= 0
  PROVE  Units(LevelAfter(lv, d, upp), u) = Units(lv, u) + Units(d, u)
<1> DEFINE size == SizeFor(upp, lv)
           raw  == Plus(lv, d)
<1>1. raw \in Delta /\ size \in Size
  BY PlusType DEF SizeFor, Level
<1>2. Units(raw, u) = Units(lv, u) + Units(d, u)
  BY Z3 DEF Units, Plus, Level, Delta
<1>3. Units(LevelAfter(lv, d, upp), u) = Units(NormalizeLevel(raw, size), u)
  BY DEF LevelAfter, Units
<1>4. CASE raw.packed >= 0 /\ raw.loose >= 0
  <2>1. NormalizeLevel(raw, size) = [packed |-> raw.packed, loose |-> raw.loose]
    BY <1>1, <1>4, NormalizeKeepsLevel
  <2>2. QED  BY <1>2, <1>3, <2>1 DEF Units
<1>5. CASE ~(raw.packed >= 0 /\ raw.loose >= 0)
  <2>1. d.packed < 0 \/ d.loose < 0
    BY <1>5 DEF Plus, Level, Delta
  <2>2. ~Insufficient(raw, d, size)
    BY <2>1 DEF Delta
  <2>3. /\ raw.packed >= 0
        /\ IF Breaks(size) THEN raw.packed * size + raw.loose >= 0 ELSE raw.loose >= 0
    BY <1>1, <2>1, <2>2 DEF Insufficient, Delta, Size, NoPack, Breaks
  <2>4. Breaks(size) /\ size = u /\ Units(raw, u) >= 0
    BY <1>5, <2>3, <1>1 DEF Units, Delta
  <2>5. QED  BY <1>1, <1>2, <1>3, <2>3, <2>4, NormalizeKeepsUnits
<1>6. QED  BY <1>4, <1>5

------------------------------------------------------------------------------
(* What a request in flight refers to.                                     *)
RequestKnown(r) ==
  /\ r.pc # "idle" => r.elt \in Elements
  /\ r.pc = "ship" => r.dst \in Elements
  /\ r.pc \in {"confirmRead", "confirm"} =>
       /\ r.target \in Transfers
       /\ transfer[r.target].state # "free"
       /\ r.qty.packed <= transfer[r.target].qty.packed
       /\ r.qty.loose <= transfer[r.target].qty.loose
  /\ r.pc = "reverse" => r.target \in Transfers /\ transfer[r.target].state # "free"
  /\ r.pc = "cancel" => r.target \in Deposits

Known ==
  /\ \A t \in Transfers : transfer[t].state # "free" =>
       transfer[t].src \in Elements /\ transfer[t].dst \in Elements
  /\ \A w \in Workers : RequestKnown(req[w])

TypeInv == TypeOK /\ Known

------------------------------------------------------------------------------
(* Negating a quantity gives a delta.                                      *)
LEMMA NegatedType == \A q \in Quantity : q \in Delta /\ Negated(q) \in Delta
BY DEF Quantity, Delta, Negated

(* Deltas add up and subtract.                                             *)
LEMMA DeltaType ==
  ASSUME NEW x \in Delta, NEW y \in Delta
  PROVE  Plus(x, y) \in Delta /\ Minus(x, y) \in Delta
BY DEF Plus, Minus, Delta

(* The quantity of a level is a delta like any other.                      *)
LEMMA LevelDelta ==
  ASSUME NEW lv \in Level, NEW y \in Delta
  PROVE  /\ Plus(lv, y) \in Delta /\ Minus(y, lv) \in Delta /\ Minus(lv, y) \in Delta
BY DEF Plus, Minus, Delta, Level

(* A read leaves a well-formed request behind and nothing else.            *)
LEMMA ReadLevelType ==
  ASSUME TypeOK, NEW w \in Workers,
         NEW kind \in {"add", "remove", "deposit", "ship", "confirm", "reverse", "cancel"},
         NEW e \in Elements, NEW dst \in Elements \cup {None},
         NEW target \in Transfers \cup Deposits \cup {None},
         NEW q \in Quantity, NEW d \in Delta, NEW upp \in PackSizes \cup {NoPack},
         NEW strict, ReadLevel(w, kind, e, dst, target, q, d, upp, strict)
  PROVE  /\ req' \in [Workers -> Request]
         /\ \E n \in Level : req' = [req EXCEPT ![w] =
              [pc |-> kind, elt |-> e, dst |-> dst, target |-> target, qty |-> q,
               delta |-> d, read |-> level[e], next |-> n]]
         /\ UNCHANGED <<level, posted, transfer, deposit, sold, recount, absorbed, raced>>
<1>1. level[e] \in Level /\ upp \in Size
  BY LedgerAssumption DEF TypeOK, Size
<1>2. LevelAfter(level[e], d, upp) \in Level
  BY <1>1, LevelAfterType
<1>3. [pc |-> kind, elt |-> e, dst |-> dst, target |-> target, qty |-> q,
       delta |-> d, read |-> level[e], next |-> LevelAfter(level[e], d, upp)] \in Request
  BY <1>1, <1>2 DEF Request
<1>4. req' = [req EXCEPT ![w] =
       [pc |-> kind, elt |-> e, dst |-> dst, target |-> target, qty |-> q,
        delta |-> d, read |-> level[e], next |-> LevelAfter(level[e], d, upp)]]
  BY DEF ReadLevel
<1>5. req' \in [Workers -> Request]
  BY <1>3, <1>4 DEF TypeOK
<1>6. UNCHANGED <<level, posted, transfer, deposit, sold, recount, absorbed, raced>>
  BY DEF ReadLevel, storeVars
<1>7. QED  BY <1>2, <1>4, <1>5, <1>6

(* A commit writes a well-formed level and frees the worker.               *)
LEMMA WriteLevelType ==
  ASSUME TypeOK, NEW w \in Workers, req[w].elt \in Elements, WriteLevel(w),
         Post(req[w].elt, req[w].delta)
  PROVE  /\ level' \in [Elements -> Level]
         /\ posted' \in [Elements -> Delta]
         /\ raced' \subseteq Elements
         /\ req' \in [Workers -> Request]
         /\ req' = [req EXCEPT ![w] = Idle]
         /\ UNCHANGED <<sold, recount, spent, absorbed>>
<1>1. Idle \in Request
  BY DEF Idle, Request, Zero, NoLevel, Quantity, Delta, Level, Size, NoPack
<1>2. req[w] \in Request /\ req[w].next \in Level /\ req[w].delta \in Delta
  BY DEF TypeOK, Request
<1>3. Plus(posted[req[w].elt], req[w].delta) \in Delta
  BY <1>2, DeltaType DEF TypeOK
<1>4. QED  BY <1>1, <1>2, <1>3 DEF WriteLevel, Post, TypeOK

(* Expected quantities are quantities.                                     *)
LEMMA ExpectedType ==
  ASSUME NEW r \in Recount, NEW e \in Elements
  PROVE  ExpectedBy(r, e) \in Quantity /\ Correction(r, e) \in Delta
<1> DEFINE u == IF e \in r.lines THEN SizeFor(r.upp, r.seen[e]) ELSE r.seen[e].upp
           raw == [packed |-> r.seen[e].packed, loose |-> r.seen[e].loose - r.seenSold[e]]
<1>1. r.seen[e] \in Level /\ r.seenSold[e] \in Nat /\ r.counted[e] \in Quantity /\ r.upp \in Size
  BY DEF Recount
<1>2. u \in Size /\ raw \in Delta
  BY <1>1 DEF SizeFor, Level, Delta
<1>3. NormalizeLevel(raw, u) \in Quantity
  BY <1>2, NormalizeType
<1>4. ExpectedBy(r, e) \in Quantity
  BY <1>3 DEF ExpectedBy, ExpectedOf
<1>5. QED  BY <1>1, <1>4 DEF Correction, Minus, Quantity, Delta, Level

------------------------------------------------------------------------------
(* The initial state is well-typed.                                        *)
LEMMA TypeInit == Init => TypeInv
<1> SUFFICES ASSUME Init PROVE TypeInv
  OBVIOUS
<1>1. Zero \in Quantity /\ Zero \in Delta
  BY DEF Zero, Quantity, Delta
<1>2. Idle \in Request /\ FreeTransfer \in TransferRow /\ FreeDeposit \in DepositRow
  BY <1>1 DEF Idle, Request, NoLevel, Level, Size, NoPack,
              FreeTransfer, TransferRow, FreeDeposit, DepositRow
<1>3. NoRecount \in Recount
  BY <1>1 DEF NoRecount, Recount, NoLevel, Level, Size, NoPack
<1>4. \A e \in Elements : Plus(Opening[e], Zero) \in Delta
  BY <1>1, LedgerAssumption, LevelDelta
<1>5. TypeOK
  BY <1>1, <1>2, <1>3, <1>4, LedgerAssumption DEF Init, TypeOK
<1>6. Known
  BY DEF Init, Known, RequestKnown, Idle, FreeTransfer
<1>7. QED  BY <1>5, <1>6 DEF TypeInv

(* A read that leaves every row alone keeps the invariant, as long as what *)
(* it refers to is known.                                                  *)
LEMMA ReadKeepsKnown ==
  ASSUME TypeInv, NEW w \in Workers, NEW r \in Request, RequestKnown(r),
         req' = [req EXCEPT ![w] = r], UNCHANGED transfer
  PROVE  Known'
BY DEF TypeInv, TypeOK, Known, RequestKnown

(* The requests that settle a transfer can be counted.                     *)
LEMMA SettlersFinite ==
  ASSUME NEW t
  PROVE  IsFiniteSet(Settlers(t)) /\ Cardinality(Settlers(t)) \in Nat
<1>1. IsFiniteSet(Workers) /\ Settlers(t) \subseteq Workers
  BY LedgerAssumption DEF Settlers
<1>. QED  BY <1>1, FS_Subset, FS_CardinalityType

LEMMA SettlersNat ==
  ASSUME NEW t, transfer[t] \in TransferRow
  PROVE  SettlersOf(t) \in Nat
BY SettlersFinite DEF SettlersOf, TransferRow

(* A confirmation credits its transfer once more, and no other.            *)
LEMMA ConfirmCredits ==
  ASSUME TypeInv, NEW w \in Workers, NEW t \in Transfers, ConfirmCommit(w), req[w].target = t
  PROVE  /\ transfer'[t].state = "CONFIRMED"
         /\ transfer'[t].credits = transfer[t].credits + 1
         /\ \A u \in Transfers \ {t} : transfer'[u] = transfer[u]
<1>1. \E c, l, n : transfer' = [transfer EXCEPT ![t].state = "CONFIRMED", ![t].credits = @ + 1,
                                  ![t].credited = c, ![t].lost = l, ![t].atOnce = n]
  BY DEF ConfirmCommit
<1>2. transfer \in [Transfers -> TransferRow] /\ transfer[t] \in TransferRow
  BY DEF TypeInv, TypeOK
<1>. QED  BY <1>1, <1>2 DEF TransferRow

(* Every step of a request keeps the types and what requests know.         *)
LEMMA TypeWorker ==
  ASSUME TypeInv, NEW w \in Workers, WorkerStep(w)
  PROVE  TypeInv'
<1> USE DEF TypeInv
<1>0. /\ req[w] \in Request /\ RequestKnown(req[w])
      /\ Quantities \subseteq Quantity /\ PackSizes \subseteq Size
      /\ \A t \in Transfers : transfer[t] \in TransferRow
      /\ None \in Elements \cup {None} /\ None \in Transfers \cup Deposits \cup {None}
  BY LedgerAssumption DEF TypeOK, Known
<1>1. ASSUME NEW e \in Elements, NEW q \in Quantities, NEW upp \in PackSizes,
             Add(w, e, q, upp) \/ Remove(w, e, q, upp) \/ Deposit(w, e, q, upp)
      PROVE  TypeInv'
  <2>1. PICK kind \in {"add", "remove", "deposit"}, d \in Delta :
          ReadLevel(w, kind, e, None, None, q, d, upp, TRUE) /\ spent' = spent + 1
    BY <1>0, <1>1, NegatedType DEF Add, Remove, Deposit
  <2>a. /\ kind \in {"add", "remove", "deposit", "ship", "confirm", "reverse", "cancel"}
        /\ q \in Quantity /\ upp \in PackSizes \cup {NoPack}
    BY <1>0
  <2>2. /\ req' \in [Workers -> Request]
        /\ \E n \in Level : req' = [req EXCEPT ![w] =
             [pc |-> kind, elt |-> e, dst |-> None, target |-> None, qty |-> q,
              delta |-> d, read |-> level[e], next |-> n]]
        /\ UNCHANGED <<level, posted, transfer, deposit, sold, recount, absorbed, raced>>
    BY <1>0, <2>1, <2>a, ReadLevelType
  <2>3. TypeOK'
    BY <2>1, <2>2 DEF TypeOK
  <2>4. Known'
    BY <2>2 DEF TypeOK, Known, RequestKnown
  <2>5. QED  BY <2>3, <2>4
<1>2. ASSUME NEW e \in Elements, NEW q \in Quantities, NEW upp \in PackSizes,
             NEW dst \in Elements, Ship(w, e, dst, q, upp)
      PROVE  TypeInv'
  <2>1. ReadLevel(w, "ship", e, dst, None, q, Negated(q), upp, TRUE) /\ spent' = spent + 1
    BY <1>2 DEF Ship
  <2>2. /\ req' \in [Workers -> Request]
        /\ \E n \in Level : req' = [req EXCEPT ![w] =
             [pc |-> "ship", elt |-> e, dst |-> dst, target |-> None, qty |-> q,
              delta |-> Negated(q), read |-> level[e], next |-> n]]
        /\ UNCHANGED <<level, posted, transfer, deposit, sold, recount, absorbed, raced>>
    BY <1>0, <2>1, ReadLevelType, NegatedType
  <2>3. TypeOK'
    BY <2>1, <2>2 DEF TypeOK
  <2>4. Known'
    BY <2>2 DEF TypeOK, Known, RequestKnown
  <2>5. QED  BY <2>3, <2>4
<1>3. CASE CommitPlain(w)
  <2>1. /\ level' \in [Elements -> Level] /\ posted' \in [Elements -> Delta]
        /\ raced' \subseteq Elements /\ req' \in [Workers -> Request]
        /\ req' = [req EXCEPT ![w] = Idle] /\ UNCHANGED <<sold, recount, spent, absorbed>>
    BY <1>0, <1>3, WriteLevelType DEF CommitPlain, RequestKnown
  <2>2. UNCHANGED <<transfer, deposit>>
    BY <1>3 DEF CommitPlain
  <2>3. QED  BY <2>1, <2>2 DEF TypeOK, Known, RequestKnown, Idle
<1>4. ASSUME NEW d \in Deposits, CommitDeposit(w, d) PROVE TypeInv'
  <2>1. /\ level' \in [Elements -> Level] /\ posted' \in [Elements -> Delta]
        /\ raced' \subseteq Elements /\ req' \in [Workers -> Request]
        /\ req' = [req EXCEPT ![w] = Idle] /\ UNCHANGED <<sold, recount, spent, absorbed>>
    BY <1>0, <1>4, WriteLevelType DEF CommitDeposit, RequestKnown
  <2>2. [elt |-> req[w].elt, qty |-> req[w].qty, reversals |-> 0] \in DepositRow
    BY <1>0 DEF Request, DepositRow
  <2>3. UNCHANGED transfer /\ deposit' \in [Deposits -> DepositRow]
    BY <1>4, <2>2 DEF CommitDeposit, TypeOK
  <2>4. QED  BY <2>1, <2>3 DEF TypeOK, Known, RequestKnown, Idle
<1>5. ASSUME NEW d \in Deposits, CancelBegin(w, d) PROVE TypeInv'
  <2>1. deposit[d] \in DepositRow /\ deposit[d].elt \in Elements
    BY <1>5 DEF CancelBegin, TypeOK, DepositRow
  <2>2. deposit[d].qty \in Quantity /\ Negated(deposit[d].qty) \in Delta
    BY <2>1, NegatedType DEF DepositRow
  <2>3. UNCHANGED spent
        /\ ReadLevel(w, "cancel", deposit[d].elt, None, d, deposit[d].qty,
                     Negated(deposit[d].qty), NoPack, TRUE)
    BY <1>5 DEF CancelBegin
  <2>4. /\ req' \in [Workers -> Request]
        /\ \E n \in Level : req' = [req EXCEPT ![w] =
             [pc |-> "cancel", elt |-> deposit[d].elt, dst |-> None, target |-> d,
              qty |-> deposit[d].qty, delta |-> Negated(deposit[d].qty),
              read |-> level[deposit[d].elt], next |-> n]]
        /\ UNCHANGED <<level, posted, transfer, deposit, sold, recount, absorbed, raced>>
    BY <1>0, <2>1, <2>2, <2>3, ReadLevelType
  <2>5. TypeOK'
    BY <2>3, <2>4 DEF TypeOK
  <2>6. Known'
    BY <2>1, <2>4 DEF TypeOK, Known, RequestKnown
  <2>7. QED  BY <2>5, <2>6
<1>6. ASSUME NEW t \in Transfers, CommitShip(w, t) PROVE TypeInv'
  <2>1. /\ level' \in [Elements -> Level] /\ posted' \in [Elements -> Delta]
        /\ raced' \subseteq Elements /\ req' \in [Workers -> Request]
        /\ req' = [req EXCEPT ![w] = Idle] /\ UNCHANGED <<sold, recount, spent, absorbed>>
    BY <1>0, <1>6, WriteLevelType DEF CommitShip, RequestKnown
  <2> DEFINE x == [FreeTransfer EXCEPT !.state = "PENDING", !.src = req[w].elt,
                                       !.dst = req[w].dst, !.qty = req[w].qty]
  <2>2. x \in TransferRow /\ x.src \in Elements /\ x.dst \in Elements
    BY <1>0, <1>6 DEF Request, TransferRow, FreeTransfer, Zero, Quantity, CommitShip,
                      RequestKnown
  <2>3. transfer' = [transfer EXCEPT ![t] = x] /\ UNCHANGED deposit
        /\ transfer[t].state = "free"
    BY <1>6 DEF CommitShip
  <2>4. TypeOK'
    BY <2>1, <2>2, <2>3 DEF TypeOK
  <2>5. Known'
    BY <2>1, <2>2, <2>3 DEF TypeOK, Known, RequestKnown, Idle
  <2>6. QED  BY <2>4, <2>5
<1>7. ASSUME NEW t \in Transfers, ReverseBegin(w, t) PROVE TypeInv'
  <2>1. transfer[t].state = "PENDING" /\ transfer[t].src \in Elements
    BY <1>7 DEF ReverseBegin, Known
  <2>2. transfer[t].qty \in Quantity /\ transfer[t].qty \in Delta
    BY <1>0, NegatedType DEF TransferRow
  <2>3. UNCHANGED spent
        /\ ReadLevel(w, "reverse", transfer[t].src, None, t, transfer[t].qty,
                     transfer[t].qty, NoPack, FALSE)
    BY <1>7 DEF ReverseBegin
  <2>4. /\ req' \in [Workers -> Request]
        /\ \E n \in Level : req' = [req EXCEPT ![w] =
             [pc |-> "reverse", elt |-> transfer[t].src, dst |-> None, target |-> t,
              qty |-> transfer[t].qty, delta |-> transfer[t].qty,
              read |-> level[transfer[t].src], next |-> n]]
        /\ UNCHANGED <<level, posted, transfer, deposit, sold, recount, absorbed, raced>>
    BY <1>0, <2>1, <2>2, <2>3, ReadLevelType
  <2>5. TypeOK'
    BY <2>3, <2>4 DEF TypeOK
  <2>6. Known'
    BY <2>1, <2>4 DEF TypeOK, Known, RequestKnown
  <2>7. QED  BY <2>5, <2>6
<1>8. ASSUME NEW t \in Transfers, NEW q \in Quantities, ConfirmRead(w, t, q) PROVE TypeInv'
  <2> DEFINE r == Confirming(t, q)
  <2>1. transfer[t].state = "PENDING" /\ transfer[t].dst \in Elements
    BY <1>8 DEF ConfirmRead, Known
  <2>2. r \in Request
    <3>1. NoLevel \in Level /\ Zero \in Delta
      BY DEF Zero, NoLevel, Delta, Level, Size, NoPack
    <3>2. QED  BY <1>0, <2>1, <3>1 DEF Request, Confirming
  <2>3. RequestKnown(r)
    BY <1>8, <2>1 DEF ConfirmRead, RequestKnown, Confirming
  <2>4. req' = [req EXCEPT ![w] = r]
        /\ UNCHANGED <<level, posted, transfer, deposit, sold, recount, spent, absorbed, raced>>
    BY <1>8 DEF ConfirmRead, storeVars
  <2>5. TypeOK'
    BY <2>2, <2>4 DEF TypeOK
  <2>6. Known'
    BY <2>2, <2>3, <2>4, ReadKeepsKnown
  <2>7. QED  BY <2>5, <2>6
<1>9. ASSUME NEW upp \in PackSizes, ConfirmBegin(w, upp) PROVE TypeInv'
  <2>1. req[w].pc = "confirmRead" /\ req[w].elt \in Elements /\ req[w].target \in Transfers
    BY <1>0, <1>9 DEF ConfirmBegin, RequestKnown
  <2>2. req[w].qty \in Quantity /\ req[w].qty \in Delta
    BY <1>0, NegatedType DEF Request
  <2>3. UNCHANGED spent
        /\ ReadLevel(w, "confirm", req[w].elt, None, req[w].target, req[w].qty,
                     req[w].qty, upp, TRUE)
    BY <1>9 DEF ConfirmBegin
  <2>4. /\ req' \in [Workers -> Request]
        /\ \E n \in Level : req' = [req EXCEPT ![w] =
             [pc |-> "confirm", elt |-> req[w].elt, dst |-> None, target |-> req[w].target,
              qty |-> req[w].qty, delta |-> req[w].qty,
              read |-> level[req[w].elt], next |-> n]]
        /\ UNCHANGED <<level, posted, transfer, deposit, sold, recount, absorbed, raced>>
    BY <1>0, <2>1, <2>2, <2>3, ReadLevelType
  <2>5. TypeOK'
    BY <2>3, <2>4 DEF TypeOK
  <2>6. Known'
    <3>1. PICK r : RequestKnown(r) /\ req' = [req EXCEPT ![w] = r] /\ r \in Request
      BY <1>0, <2>1, <2>4 DEF TypeOK, RequestKnown
    <3>2. QED  BY <2>4, <3>1, ReadKeepsKnown
  <2>7. QED  BY <2>5, <2>6
<1>10. CASE ConfirmCommit(w)
  <2> DEFINE r == req[w]
             t == r.target
             x == [transfer[t] EXCEPT
                     !.state = "CONFIRMED", !.credits = @ + 1,
                     !.credited = Plus(@, r.qty),
                     !.lost = Plus(@, Missing(transfer[t], r.qty)),
                     !.atOnce = SettlersOf(t)]
  <2>1. /\ level' \in [Elements -> Level] /\ posted' \in [Elements -> Delta]
        /\ raced' \subseteq Elements /\ req' \in [Workers -> Request]
        /\ req' = [req EXCEPT ![w] = Idle] /\ UNCHANGED <<sold, recount, spent, absorbed>>
    BY <1>0, <1>10, WriteLevelType DEF ConfirmCommit, RequestKnown
  <2>2. t \in Transfers /\ transfer[t] \in TransferRow /\ transfer[t].state # "free"
        /\ r.qty.packed <= transfer[t].qty.packed /\ r.qty.loose <= transfer[t].qty.loose
        /\ r.qty \in Quantity
    BY <1>0, <1>10 DEF ConfirmCommit, RequestKnown, Request
  <2>3. Plus(transfer[t].credited, r.qty) \in Quantity
        /\ Plus(transfer[t].lost, Missing(transfer[t], r.qty)) \in Quantity
    BY <2>2 DEF Plus, Missing, Minus, TransferRow, Quantity
  <2>9. SettlersOf(t) \in Nat
    BY <2>2, SettlersNat
  <2>4. x \in TransferRow /\ x.src = transfer[t].src /\ x.dst = transfer[t].dst
        /\ x.qty = transfer[t].qty /\ x.state = "CONFIRMED"
    <3>1. ASSUME NEW c \in Quantity, NEW l \in Quantity, NEW m \in Nat, NEW row \in TransferRow
          PROVE  [row EXCEPT !.state = "CONFIRMED", !.credits = @ + 1,
                             !.credited = c, !.lost = l, !.atOnce = m] \in TransferRow
      <4>1. row.credits + 1 \in Nat
        BY DEF TransferRow
      <4> DEFINE n == row.credits + 1
      <4>2. n \in Nat
        BY <4>1
      <4> HIDE DEF n
      <4>3. [row EXCEPT !.state = "CONFIRMED", !.credits = n,
                        !.credited = c, !.lost = l, !.atOnce = m] \in TransferRow
        BY <4>2 DEF TransferRow
      <4>4. QED  BY <4>3 DEF n
    <3>2. x \in TransferRow
      BY <2>2, <2>3, <2>9, <3>1
    <3>3. x.src = transfer[t].src /\ x.dst = transfer[t].dst
          /\ x.qty = transfer[t].qty /\ x.state = "CONFIRMED"
      BY <2>2 DEF TransferRow
    <3>4. QED  BY <3>2, <3>3
  <2>5. transfer' = [transfer EXCEPT ![t] = x] /\ UNCHANGED deposit
    BY <1>10, <2>2 DEF ConfirmCommit, TypeOK
  <2>6. TypeOK'
    BY <2>1, <2>4, <2>5 DEF TypeOK
  <2>7. Known'
    BY <2>1, <2>2, <2>4, <2>5 DEF TypeOK, Known, RequestKnown, Idle
  <2>8. QED  BY <2>6, <2>7
<1>11. CASE ReverseCommit(w)
  <2> DEFINE t == req[w].target
             x == [transfer[t] EXCEPT !.state = "deleted", !.atOnce = SettlersOf(t)]
  <2>1. /\ level' \in [Elements -> Level] /\ posted' \in [Elements -> Delta]
        /\ raced' \subseteq Elements /\ req' \in [Workers -> Request]
        /\ req' = [req EXCEPT ![w] = Idle] /\ UNCHANGED <<sold, recount, spent, absorbed>>
    BY <1>0, <1>11, WriteLevelType DEF ReverseCommit, RequestKnown
  <2>2. t \in Transfers /\ transfer[t] \in TransferRow /\ transfer[t].state # "free"
    BY <1>0, <1>11 DEF ReverseCommit, RequestKnown
  <2>3. x \in TransferRow /\ x.src = transfer[t].src /\ x.dst = transfer[t].dst
        /\ x.qty = transfer[t].qty /\ x.state = "deleted"
    BY <2>2, SettlersNat DEF TransferRow
  <2>4. transfer' = [transfer EXCEPT ![t] = x] /\ UNCHANGED deposit
    BY <1>11, <2>2 DEF ReverseCommit, TypeOK
  <2>5. TypeOK'
    BY <2>1, <2>3, <2>4 DEF TypeOK
  <2>6. Known'
    BY <2>1, <2>2, <2>3, <2>4 DEF TypeOK, Known, RequestKnown, Idle
  <2>7. QED  BY <2>5, <2>6
<1>12. CASE CancelCommit(w)
  <2> DEFINE d == req[w].target
             x == [deposit[d] EXCEPT !.reversals = @ + 1]
  <2>1. /\ level' \in [Elements -> Level] /\ posted' \in [Elements -> Delta]
        /\ raced' \subseteq Elements /\ req' \in [Workers -> Request]
        /\ req' = [req EXCEPT ![w] = Idle] /\ UNCHANGED <<sold, recount, spent, absorbed>>
    BY <1>0, <1>12, WriteLevelType DEF CancelCommit, RequestKnown
  <2>2. d \in Deposits /\ deposit[d] \in DepositRow
    BY <1>0, <1>12 DEF CancelCommit, RequestKnown, TypeOK
  <2>3. x \in DepositRow
    BY <2>2 DEF DepositRow
  <2>4. deposit' = [deposit EXCEPT ![d] = x] /\ UNCHANGED transfer
    BY <1>12, <2>2 DEF CancelCommit, TypeOK
  <2>5. QED  BY <2>1, <2>3, <2>4 DEF TypeOK, Known, RequestKnown, Idle
<1>13. CASE Rollback(w)
  <2>1. Idle \in Request /\ RequestKnown(Idle)
    BY DEF Idle, Request, Zero, NoLevel, Quantity, Delta, Level, Size, NoPack, RequestKnown
  <2>2. req' = [req EXCEPT ![w] = Idle]
        /\ UNCHANGED <<level, posted, transfer, deposit, sold, recount, spent, absorbed, raced>>
    BY <1>13 DEF Rollback, storeVars
  <2>3. QED  BY <2>1, <2>2, ReadKeepsKnown DEF TypeOK
<1>14. QED
  BY <1>1, <1>2, <1>3, <1>4, <1>5, <1>6, <1>7, <1>8, <1>9, <1>10, <1>11, <1>12, <1>13
  DEF WorkerStep

(* So does every step of a reset.                                          *)
LEMMA TypeCounter ==
  ASSUME TypeInv, NEW c \in Counters, CounterStep(c)
  PROVE  TypeInv'
<1> USE DEF TypeInv
<1>1. ASSUME NEW lines \in SUBSET Elements, NEW counted \in [Elements -> Quantities],
             NEW upp \in PackSizes, ResetRead(c, lines, counted, upp)
      PROVE  TypeInv'
  <2>1. counted \in [Elements -> Quantity] /\ upp \in Size
    BY LedgerAssumption
  <2>2. [on |-> TRUE, lines |-> lines, counted |-> counted, upp |-> upp,
         seen |-> level, seenSold |-> sold] \in Recount
    BY <2>1 DEF Recount, TypeOK
  <2>3. QED  BY <1>1, <2>2 DEF ResetRead, storeVars, TypeOK, Known, RequestKnown
<1>2. CASE ResetCommit(c)
  <2> DEFINE r == recount[c]
             written == r.lines \cup Carried(r)
  <2>1. r \in Recount
    BY DEF TypeOK
  <2>2. NoRecount \in Recount
    BY DEF NoRecount, Recount, NoLevel, Level, Size, NoPack, Zero, Quantity
  <2>3. ASSUME NEW e \in Elements PROVE ExpectedBy(r, e) \in Quantity /\ Correction(r, e) \in Delta
    BY <2>1, ExpectedType
  <2>4. level' \in [Elements -> Level]
    <3> DEFINE after(e) ==
          IF e \in r.lines
          THEN [found |-> TRUE, packed |-> r.counted[e].packed,
                loose |-> r.counted[e].loose,
                upp |-> SizeFor(SizeFor(r.upp, r.seen[e]), level[e])]
          ELSE [level[e] EXCEPT !.packed = ExpectedBy(r, e).packed,
                                !.loose = ExpectedBy(r, e).loose]
    <3>1. ASSUME NEW e \in Elements PROVE after(e) \in Level
      <4>1. level[e] \in Level /\ r.seen[e] \in Level /\ r.counted[e] \in Quantity /\ r.upp \in Size
        BY <2>1 DEF TypeOK, Recount
      <4>2. SizeFor(SizeFor(r.upp, r.seen[e]), level[e]) \in Size
        BY <4>1 DEF SizeFor, Level
      <4>3. ExpectedBy(r, e).packed \in Nat /\ ExpectedBy(r, e).loose \in Nat
        BY <2>3 DEF Quantity
      <4>4. [level[e] EXCEPT !.packed = ExpectedBy(r, e).packed,
                             !.loose = ExpectedBy(r, e).loose] \in Level
        BY <4>1, <4>3 DEF Level
      <4>5. QED  BY <4>1, <4>2, <4>4 DEF Level, Quantity
    <3>2. level' = [e \in Elements |-> IF e \in written THEN after(e) ELSE level[e]]
      BY <1>2 DEF ResetCommit
    <3> HIDE DEF after
    <3>3. QED  BY <3>1, <3>2 DEF TypeOK
  <2>5. posted' \in [Elements -> Delta]
    <3>1. \A e \in Elements : Plus(posted[e], Correction(r, e)) \in Delta
      BY <2>3, DeltaType DEF TypeOK
    <3>2. posted' = [e \in Elements |-> IF e \in written THEN Plus(posted[e], Correction(r, e))
                                                          ELSE posted[e]]
      BY <1>2 DEF ResetCommit
    <3>3. QED  BY <3>1, <3>2 DEF TypeOK
  <2>6. absorbed' \in [Elements -> Delta]
    <3>1. ASSUME NEW e \in Elements
          PROVE  Plus(absorbed[e], Minus(r.seen[e], ExpectedBy(r, e))) \in Delta
      <4>1. ExpectedBy(r, e) \in Delta /\ r.seen[e] \in Level
        BY <2>1, <2>3, NegatedType DEF Recount
      <4>2. Minus(r.seen[e], ExpectedBy(r, e)) \in Delta
        BY <4>1, LevelDelta
      <4>3. QED  BY <4>2, DeltaType DEF TypeOK
    <3>2. absorbed' = [e \in Elements |-> IF e \in r.lines
             THEN Plus(absorbed[e], Minus(r.seen[e], ExpectedBy(r, e))) ELSE absorbed[e]]
      BY <1>2 DEF ResetCommit
    <3>3. QED  BY <3>1, <3>2 DEF TypeOK
  <2>7. /\ sold' = [e \in Elements |-> 0] /\ recount' = [recount EXCEPT ![c] = NoRecount]
        /\ raced' \subseteq Elements /\ UNCHANGED <<transfer, deposit, req, spent>>
    BY <1>2, <2>1 DEF ResetCommit, Carried, Recount, TypeOK
  <2>8. QED  BY <2>2, <2>4, <2>5, <2>6, <2>7 DEF TypeOK, Known, RequestKnown
<1>3. CASE ResetAbort(c)
  <2>1. NoRecount \in Recount
    BY DEF NoRecount, Recount, NoLevel, Level, Size, NoPack, Zero, Quantity
  <2>2. QED  BY <1>3, <2>1 DEF ResetAbort, storeVars, TypeOK, Known, RequestKnown
<1>4. QED  BY <1>1, <1>2, <1>3 DEF CounterStep

(* The type invariant, with what the requests in flight know, is inductive. *)
LEMMA TypeStep == TypeInv /\ [Next]_vars => TypeInv'
<1> SUFFICES ASSUME TypeInv, [Next]_vars PROVE TypeInv'
  OBVIOUS
<1>1. ASSUME NEW e \in Elements, Sell(e) PROVE TypeInv'
  BY <1>1 DEF Sell, TypeInv, TypeOK, Known, RequestKnown
<1>2. CASE UNCHANGED vars
  BY <1>2 DEF vars, storeVars, TypeInv, TypeOK, Known, RequestKnown
<1>3. QED  BY <1>1, <1>2, TypeWorker, TypeCounter DEF Next

(* Every variable keeps its type: quantities and levels never go below     *)
(* zero, in the code's rows as in its requests.                            *)
THEOREM TypeCorrect == Spec => []TypeOK
<1>1. TypeInv => TypeOK
  BY DEF TypeInv
<1>2. QED  BY <1>1, TypeInit, TypeStep, PTL DEF Spec

------------------------------------------------------------------------------
(* What a request may do to the transfers and to the deposits.             *)
LEMMA WorkerChangesRows ==
  ASSUME NEW w \in Workers, WorkerStep(w)
  PROVE  \/ UNCHANGED <<transfer, deposit>>
         \/ \E t \in Transfers : CommitShip(w, t)
         \/ ConfirmCommit(w) \/ ReverseCommit(w) \/ CancelCommit(w)
         \/ \E d \in Deposits : CommitDeposit(w, d)
BY DEF WorkerStep, Add, Remove, Deposit, Ship, ReadLevel, CommitPlain, CancelBegin,
       ReverseBegin, ConfirmRead, ConfirmBegin, Rollback, storeVars

(* Nothing else changes them.                                              *)
LEMMA WhoChangesRows ==
  ASSUME [Next]_vars
  PROVE  \/ UNCHANGED <<transfer, deposit>>
         \/ \E w \in Workers, t \in Transfers : CommitShip(w, t)
         \/ \E w \in Workers : ConfirmCommit(w) \/ ReverseCommit(w) \/ CancelCommit(w)
         \/ \E w \in Workers, d \in Deposits : CommitDeposit(w, d)
<1>1. ASSUME NEW c \in Counters, CounterStep(c) PROVE UNCHANGED <<transfer, deposit>>
  BY <1>1 DEF CounterStep, ResetRead, ResetCommit, ResetAbort, storeVars
<1>2. ASSUME NEW e \in Elements, Sell(e) PROVE UNCHANGED <<transfer, deposit>>
  BY <1>2 DEF Sell
<1>3. CASE UNCHANGED vars
  BY <1>3 DEF vars, storeVars
<1>4. QED  BY <1>1, <1>2, <1>3, WorkerChangesRows DEF Next

(* The books of one transfer balance.                                      *)
Balanced(x) ==
  /\ x.state = "PENDING" => x.credits = 0
  /\ x.state = "CONFIRMED" => x.credits > 0
  /\ x.credited.packed + x.lost.packed = x.credits * x.qty.packed
  /\ x.credited.loose + x.lost.loose = x.credits * x.qty.loose

(* One more confirmation of what was declared keeps the books balanced.    *)
LEMMA ConfirmBalances ==
  ASSUME NEW x \in TransferRow, NEW q \in Quantity, NEW m, Balanced(x)
  PROVE  Balanced([x EXCEPT !.state = "CONFIRMED", !.credits = @ + 1, !.credited = Plus(@, q),
                            !.lost = Plus(@, Missing(x, q)), !.atOnce = m])
<1> DEFINE y == [x EXCEPT !.state = "CONFIRMED", !.credits = @ + 1, !.credited = Plus(@, q),
                          !.lost = Plus(@, Missing(x, q)), !.atOnce = m]
<1>1. /\ x.credits \in Nat /\ x.qty.packed \in Nat /\ x.qty.loose \in Nat
      /\ x.credited.packed \in Nat /\ x.credited.loose \in Nat
      /\ x.lost.packed \in Nat /\ x.lost.loose \in Nat
      /\ q.packed \in Nat /\ q.loose \in Nat
  BY DEF TransferRow, Quantity
<1>2. /\ y.state = "CONFIRMED" /\ y.credits = x.credits + 1 /\ y.qty = x.qty
      /\ y.credited = Plus(x.credited, q) /\ y.lost = Plus(x.lost, Missing(x, q))
  BY DEF TransferRow
<1>3. /\ y.credited.packed = x.credited.packed + q.packed
      /\ y.credited.loose = x.credited.loose + q.loose
      /\ y.lost.packed = x.lost.packed + (x.qty.packed - q.packed)
      /\ y.lost.loose = x.lost.loose + (x.qty.loose - q.loose)
  BY <1>2 DEF Plus, Missing, Minus
<1> HIDE DEF y
<1>4. /\ (x.credits + 1) * x.qty.packed = x.credits * x.qty.packed + x.qty.packed
      /\ (x.credits + 1) * x.qty.loose = x.credits * x.qty.loose + x.qty.loose
  <2>1. \A a, b \in Nat : (a + 1) * b = a * b + b
    BY Z3
  <2>2. QED  BY <1>1, <2>1
<1>5. /\ y.credited.packed + y.lost.packed = y.credits * y.qty.packed
      /\ y.credited.loose + y.lost.loose = y.credits * y.qty.loose
  BY <1>1, <1>2, <1>3, <1>4 DEF Balanced
<1>6. Balanced(y)
  BY <1>1, <1>2, <1>5 DEF Balanced
<1>7. QED  BY <1>6 DEF y

(* No step unbalances a transfer.                                          *)
LEMMA SettledStep == TypeInv /\ TransferSettled /\ [Next]_vars => TransferSettled'
<1> SUFFICES ASSUME TypeInv, TransferSettled, [Next]_vars PROVE TransferSettled'
  OBVIOUS
<1>1. TransferSettled = (\A t \in Transfers : Balanced(transfer[t]))
  BY DEF TransferSettled, Balanced
<1>2. TransferSettled' = (\A t \in Transfers : Balanced(transfer'[t]))
  BY DEF TransferSettled, Balanced
<1>3. ASSUME NEW w \in Workers, NEW t \in Transfers, CommitShip(w, t) PROVE TransferSettled'
  <2> DEFINE x == [FreeTransfer EXCEPT !.state = "PENDING", !.src = req[w].elt,
                                       !.dst = req[w].dst, !.qty = req[w].qty]
  <2>1. req[w].qty.packed \in Nat /\ req[w].qty.loose \in Nat
    BY DEF TypeInv, TypeOK, Request, Quantity
  <2>2. Balanced(x)
    BY <2>1 DEF Balanced, FreeTransfer, Zero
  <2>3. transfer' = [transfer EXCEPT ![t] = x]
    BY <1>3 DEF CommitShip
  <2> HIDE DEF x
  <2>4. QED  BY <1>1, <1>2, <2>2, <2>3 DEF TypeInv, TypeOK
<1>4. ASSUME NEW w \in Workers, ConfirmCommit(w) PROVE TransferSettled'
  <2> DEFINE r == req[w]
             t == r.target
             x == [transfer[t] EXCEPT
                     !.state = "CONFIRMED", !.credits = @ + 1,
                     !.credited = Plus(@, r.qty),
                     !.lost = Plus(@, Missing(transfer[t], r.qty)),
                     !.atOnce = SettlersOf(t)]
  <2>1. t \in Transfers /\ transfer[t] \in TransferRow /\ r.qty \in Quantity
    BY <1>4 DEF TypeInv, TypeOK, Known, RequestKnown, ConfirmCommit, Request
  <2>2. Balanced(x)
    BY <1>1, <2>1, ConfirmBalances
  <2>3. transfer' = [transfer EXCEPT ![t] = x]
    BY <1>4, <2>1 DEF ConfirmCommit, TypeInv, TypeOK
  <2> HIDE DEF x
  <2>4. QED  BY <1>1, <1>2, <2>1, <2>2, <2>3 DEF TypeInv, TypeOK
<1>5. ASSUME NEW w \in Workers, ReverseCommit(w) PROVE TransferSettled'
  <2> DEFINE t == req[w].target
             x == [transfer[t] EXCEPT !.state = "deleted", !.atOnce = SettlersOf(t)]
  <2>1. t \in Transfers /\ transfer[t] \in TransferRow
    BY <1>5 DEF TypeInv, TypeOK, Known, RequestKnown, ReverseCommit
  <2>2. Balanced(x)
    BY <1>1, <2>1 DEF Balanced, TransferRow
  <2>3. transfer' = [transfer EXCEPT ![t] = x]
    BY <1>5, <2>1 DEF ReverseCommit, TypeInv, TypeOK
  <2> HIDE DEF x
  <2>4. QED  BY <1>1, <1>2, <2>1, <2>2, <2>3 DEF TypeInv, TypeOK
<1>6. ASSUME UNCHANGED transfer PROVE TransferSettled'
  BY <1>6, <1>1, <1>2
<1>7. ASSUME NEW w \in Workers, NEW d \in Deposits, CommitDeposit(w, d) PROVE UNCHANGED transfer
  BY <1>7 DEF CommitDeposit
<1>8. ASSUME NEW w \in Workers, CancelCommit(w) PROVE UNCHANGED transfer
  BY <1>8 DEF CancelCommit
<1>9. QED  BY <1>3, <1>4, <1>5, <1>6, <1>7, <1>8, WhoChangesRows

(* A transfer waits or is settled in full, whoever confirms it, however    *)
(* often and with whatever quantities.                                     *)
THEOREM TransferSettledAlways == Spec => []TransferSettled
<1>1. Init => TransferSettled
  BY DEF Init, TransferSettled, FreeTransfer, Zero
<1>2. QED  BY <1>1, TypeInit, TypeStep, SettledStep, PTL DEF Spec

------------------------------------------------------------------------------
(* Two cancellations of one deposit never run together, and none runs on a *)
(* deposit already reversed.                                               *)
CancelsExclude ==
  /\ \A w \in Workers : req[w].pc = "cancel" => deposit[req[w].target].reversals = 0
  /\ \A v, w \in Workers :
       (req[v].pc = "cancel" /\ req[w].pc = "cancel" /\ req[v].target = req[w].target)
         => v = w

(* Only CancelBegin starts a cancellation; a request changes only itself.  *)
LEMMA WhoCancels ==
  ASSUME TypeInv, NEW w \in Workers, WorkerStep(w)
  PROVE  /\ \A v \in Workers \ {w} : req'[v] = req[v]
         /\ req'[w].pc # "cancel" \/ \E d \in Deposits : CancelBegin(w, d)
<1> DEFINE Others == \A v \in Workers \ {w} : req'[v] = req[v]
<1>0. req \in [Workers -> Request]
  BY DEF TypeInv, TypeOK
<1>1. ASSUME NEW r, req' = [req EXCEPT ![w] = r] PROVE Others /\ req'[w] = r
  BY <1>0, <1>1
<1> HIDE DEF Others
<1>2. ASSUME WriteLevel(w) PROVE Others /\ req'[w].pc # "cancel"
  <2>1. Others /\ req'[w] = Idle
    BY <1>1, <1>2 DEF WriteLevel
  <2>2. QED  BY <2>1 DEF Idle
<1>4. ASSUME NEW e \in Elements, NEW q \in Quantities, NEW upp \in PackSizes,
             \/ Add(w, e, q, upp) \/ Remove(w, e, q, upp) \/ Deposit(w, e, q, upp)
             \/ \E dst \in Elements : Ship(w, e, dst, q, upp)
      PROVE  Others /\ req'[w].pc # "cancel"
  <2>1. CASE Add(w, e, q, upp)     BY <1>1, <2>1 DEF Add, ReadLevel
  <2>2. CASE Remove(w, e, q, upp)  BY <1>1, <2>2 DEF Remove, ReadLevel
  <2>3. CASE Deposit(w, e, q, upp) BY <1>1, <2>3 DEF Deposit, ReadLevel
  <2>4. ASSUME NEW dst \in Elements, Ship(w, e, dst, q, upp)
        PROVE  Others /\ req'[w].pc # "cancel"
    BY <1>1, <2>4 DEF Ship, ReadLevel
  <2>5. QED  BY <1>4, <2>1, <2>2, <2>3, <2>4
<1>5. ASSUME \/ CommitPlain(w) \/ \E d \in Deposits : CommitDeposit(w, d)
             \/ \E t \in Transfers : CommitShip(w, t)
             \/ ConfirmCommit(w) \/ ReverseCommit(w) \/ CancelCommit(w)
      PROVE  Others /\ req'[w].pc # "cancel"
  BY <1>2, <1>5 DEF CommitPlain, CommitDeposit, CommitShip, ConfirmCommit, ReverseCommit,
                    CancelCommit
<1>6. ASSUME NEW t \in Transfers, ReverseBegin(w, t) PROVE Others /\ req'[w].pc # "cancel"
  BY <1>1, <1>6 DEF ReverseBegin, ReadLevel
<1>7. ASSUME NEW t \in Transfers, NEW q \in Quantities, ConfirmRead(w, t, q)
      PROVE  Others /\ req'[w].pc # "cancel"
  BY <1>1, <1>7 DEF ConfirmRead, Confirming
<1>8. ASSUME NEW upp \in PackSizes, ConfirmBegin(w, upp) PROVE Others /\ req'[w].pc # "cancel"
  BY <1>1, <1>8 DEF ConfirmBegin, ReadLevel
<1>9. ASSUME Rollback(w) PROVE Others /\ req'[w].pc # "cancel"
  BY <1>1, <1>9 DEF Rollback, Idle
<1>10. ASSUME NEW d \in Deposits, CancelBegin(w, d) PROVE Others
  BY <1>1, <1>10 DEF CancelBegin, ReadLevel
<1>11. Others /\ (req'[w].pc # "cancel" \/ \E d \in Deposits : CancelBegin(w, d))
  BY <1>4, <1>5, <1>6, <1>7, <1>8, <1>9, <1>10 DEF WorkerStep
<1>12. QED  BY <1>11 DEF Others

(* No step lets two cancellations of one deposit through.                  *)
LEMMA ReversedStep ==
  TypeInv /\ CancelsExclude /\ DepositReversedOnce /\ [Next]_vars
    => CancelsExclude' /\ DepositReversedOnce'
<1> SUFFICES ASSUME TypeInv, CancelsExclude, DepositReversedOnce, [Next]_vars
             PROVE  CancelsExclude' /\ DepositReversedOnce'
  OBVIOUS
<1>0. /\ deposit \in [Deposits -> DepositRow]
      /\ \A v \in Workers : req[v].pc = "cancel" => req[v].target \in Deposits
  BY DEF TypeInv, TypeOK, Known, RequestKnown
<1>1. ASSUME NEW w \in Workers, WorkerStep(w) PROVE CancelsExclude' /\ DepositReversedOnce'
  <2>1. \A v \in Workers \ {w} : req'[v] = req[v]
    BY <1>1, WhoCancels
  <2>2. ASSUME NEW d \in Deposits, CancelBegin(w, d) PROVE CancelsExclude' /\ DepositReversedOnce'
    <3>1. deposit' = deposit /\ req'[w].pc = "cancel" /\ req'[w].target = d
          /\ deposit[d].reversals = 0 /\ ~Cancelling(d)
      BY <2>2 DEF CancelBegin, ReadLevel, storeVars, TypeInv, TypeOK
    <3>2. QED  BY <2>1, <3>1 DEF CancelsExclude, DepositReversedOnce, Cancelling
  <2>3. ASSUME req'[w].pc # "cancel", UNCHANGED deposit
        PROVE  CancelsExclude' /\ DepositReversedOnce'
    BY <2>1, <2>3 DEF CancelsExclude, DepositReversedOnce
  <2>4. ASSUME NEW d \in Deposits, CommitDeposit(w, d), req'[w].pc # "cancel"
        PROVE  CancelsExclude' /\ DepositReversedOnce'
    <3>1. deposit'[d].reversals = 0 /\ \A x \in Deposits \ {d} : deposit'[x] = deposit[x]
      BY <1>0, <2>4 DEF CommitDeposit
    <3>2. QED  BY <1>0, <2>1, <2>4, <3>1 DEF CancelsExclude, DepositReversedOnce
  <2>5. ASSUME CancelCommit(w), req'[w].pc # "cancel"
        PROVE  CancelsExclude' /\ DepositReversedOnce'
    <3> DEFINE d == req[w].target
    <3>1. req[w].pc = "cancel" /\ d \in Deposits
      BY <1>0, <2>5 DEF CancelCommit
    <3>2. deposit[d].reversals = 0
      BY <3>1 DEF CancelsExclude
    <3>3. deposit'[d].reversals = 1 /\ \A x \in Deposits \ {d} : deposit'[x] = deposit[x]
      BY <1>0, <2>5, <3>1, <3>2 DEF CancelCommit, DepositRow
    <3>4. \A v \in Workers \ {w} : req[v].pc = "cancel" => req[v].target # d
      BY <3>1 DEF CancelsExclude
    <3>5. QED  BY <1>0, <2>1, <2>5, <3>3, <3>4 DEF CancelsExclude, DepositReversedOnce
  <2>6. \/ \E d \in Deposits : CancelBegin(w, d)
        \/ /\ req'[w].pc # "cancel"
           /\ \/ UNCHANGED deposit
              \/ \E d \in Deposits : CommitDeposit(w, d)
              \/ CancelCommit(w)
    <3>1. \/ UNCHANGED deposit
          \/ \E d \in Deposits : CommitDeposit(w, d)
          \/ CancelCommit(w)
      BY <1>1, WorkerChangesRows DEF CommitShip, ConfirmCommit, ReverseCommit
    <3>2. QED  BY <1>1, <3>1, WhoCancels
  <2>7. QED  BY <2>2, <2>3, <2>4, <2>5, <2>6
<1>2. ASSUME UNCHANGED <<deposit, req>> PROVE CancelsExclude' /\ DepositReversedOnce'
  BY <1>2 DEF CancelsExclude, DepositReversedOnce
<1>3. ASSUME NEW c \in Counters, CounterStep(c) PROVE UNCHANGED <<deposit, req>>
  BY <1>3 DEF CounterStep, ResetRead, ResetCommit, ResetAbort, storeVars
<1>4. ASSUME NEW e \in Elements, Sell(e) PROVE UNCHANGED <<deposit, req>>
  BY <1>4 DEF Sell
<1>5. CASE UNCHANGED vars
  BY <1>2, <1>5 DEF vars, storeVars
<1>6. QED  BY <1>1, <1>2, <1>3, <1>4, <1>5 DEF Next

(* A deposit is reversed at most once, by however many requests at a time. *)
THEOREM DepositReversedOnceAlways == Spec => []DepositReversedOnce
<1>1. Init => CancelsExclude /\ DepositReversedOnce
  BY DEF Init, CancelsExclude, DepositReversedOnce, Idle, FreeDeposit
<1>2. QED  BY <1>1, TypeInit, TypeStep, ReversedStep, PTL DEF Spec

------------------------------------------------------------------------------
(* The pack size of a row is one the article has, or none.                 *)
SizeKnown(lv) == lv.upp \in PackSizes \cup {NoPack}

(* What a request will write is worth what it read plus its delta.         *)
Exact(r) ==
  /\ SizeKnown(r.read) /\ SizeKnown(r.next)
  /\ \A u \in PackSizes : Breaks(u) =>
       Units(r.next, u) = Units(r.read, u) + Units(r.delta, u)

Worth ==
  /\ \A e \in Elements : SizeKnown(level[e])
  /\ \A c \in Counters :
       /\ recount[c].upp \in PackSizes \cup {NoPack}
       /\ \A e \in Elements : SizeKnown(recount[c].seen[e])
  /\ \A w \in Workers : Exact(req[w])

(* Worth is additive.                                                      *)
LEMMA UnitsPlus ==
  ASSUME NEW x, NEW y, NEW u \in Nat, x.packed \in Int, x.loose \in Int,
         y.packed \in Int, y.loose \in Int
  PROVE  /\ Units(Plus(x, y), u) = Units(x, u) + Units(y, u)
         /\ Units(Minus(x, y), u) = Units(x, u) - Units(y, u)
         /\ Units(x, u) \in Int /\ Units(y, u) \in Int
<1>1. \A a, b \in Int : (a + b) * u = a * u + b * u /\ (a - b) * u = a * u - b * u
                       /\ a * u \in Int
  BY Z3
<1>2. QED  BY <1>1 DEF Units, Plus, Minus

(* Worth is an integer.                                                    *)
LEMMA UnitsInt ==
  ASSUME NEW x, NEW u \in Nat, x.packed \in Int, x.loose \in Int
  PROVE  Units(x, u) \in Int
<1>1. \A a \in Int : a * u \in Int
  BY Z3
<1>2. QED  BY <1>1 DEF Units

(* What applyLevelDelta computes is exact, for the pack size in force.     *)
LEMMA ReadIsExact ==
  ASSUME TypeInv, Worth, NEW e \in Elements, NEW d \in Delta,
         NEW upp \in PackSizes \cup {NoPack},
         \/ ~Insufficient(Plus(level[e], d), d, SizeFor(upp, level[e]))
         \/ d.packed >= 0 /\ d.loose >= 0
  PROVE  /\ SizeKnown(level[e]) /\ SizeKnown(LevelAfter(level[e], d, upp))
         /\ \A u \in PackSizes : Breaks(u) =>
              Units(LevelAfter(level[e], d, upp), u) = Units(level[e], u) + Units(d, u)
<1>1. level[e] \in Level /\ SizeKnown(level[e]) /\ upp \in Size
  BY LedgerAssumption DEF TypeInv, TypeOK, Worth, Size
<1>2. SizeFor(upp, level[e]) \in PackSizes \cup {NoPack}
  BY <1>1 DEF SizeFor, SizeKnown
<1>3. SizeKnown(LevelAfter(level[e], d, upp))
  BY <1>1, <1>2, LevelAfterType DEF SizeKnown
<1>4. ASSUME NEW u \in PackSizes, Breaks(u)
      PROVE  Units(LevelAfter(level[e], d, upp), u) = Units(level[e], u) + Units(d, u)
  <2>1. u \in Nat \ {0}
    BY <1>4, LedgerAssumption DEF Breaks, Size, NoPack
  <2>2. SizeFor(upp, level[e]) = u \/ ~Breaks(SizeFor(upp, level[e]))
    BY <1>2, <1>4, OnePackSize DEF Breaks, NoPack
  <2>3. QED  BY <1>1, <2>1, <2>2, StrictDeltaIsExact
<1>5. QED  BY <1>1, <1>3, <1>4

(* An idle request would write what it read: nothing.                      *)
LEMMA IdleExact == Exact(Idle)
<1>1. ASSUME NEW u \in PackSizes, Breaks(u) PROVE Units(NoLevel, u) = 0 /\ Units(Zero, u) = 0
  <2>1. u \in Nat
    BY <1>1, LedgerAssumption DEF Breaks, Size, NoPack
  <2>2. QED  BY <2>1, Z3 DEF Units, NoLevel, Zero
<1>2. Idle.read = NoLevel /\ Idle.next = NoLevel /\ Idle.delta = Zero /\ NoLevel.upp = NoPack
  BY DEF Idle, NoLevel
<1>3. QED  BY <1>1, <1>2 DEF Exact, SizeKnown

(* A request reads, or commits, or only changes what it waits for; what it *)
(* then intends to write is exact.                                         *)
LEMMA WorkerReadsOrCommits ==
  ASSUME TypeInv, Worth, NEW w \in Workers, WorkerStep(w)
  PROVE  \/ /\ \E r : Exact(r) /\ req' = [req EXCEPT ![w] = r]
            /\ UNCHANGED <<level, posted, absorbed, raced, recount>>
         \/ /\ req[w].elt \in Elements
            /\ WriteLevel(w) /\ Post(req[w].elt, req[w].delta)
<1> DEFINE Reads == /\ \E r : Exact(r) /\ req' = [req EXCEPT ![w] = r]
                    /\ UNCHANGED <<level, posted, absorbed, raced, recount>>
           Commits == /\ req[w].elt \in Elements
                      /\ WriteLevel(w) /\ Post(req[w].elt, req[w].delta)
<1>1. ASSUME NEW r, req' = [req EXCEPT ![w] = r], Exact(r),
             UNCHANGED <<level, posted, absorbed, raced, recount>>
      PROVE  Reads
  BY <1>1
<1> HIDE DEF Reads
<1>2. ASSUME NEW r, SizeKnown(r.read), r.next = r.read, r.delta = Zero,
             r.read.packed \in Int, r.read.loose \in Int
      PROVE  Exact(r)
  <2>1. ASSUME NEW u \in PackSizes, Breaks(u)
        PROVE  Units(r.next, u) = Units(r.read, u) + Units(r.delta, u)
    <3>1. u \in Nat
      BY <2>1, LedgerAssumption DEF Breaks, Size, NoPack
    <3>2. Units(Zero, u) = 0 /\ Units(r.read, u) \in Int
      <4>1. 0 * u = 0 /\ \A a \in Int : a * u \in Int
        BY <3>1, Z3
      <4>2. QED  BY <1>2, <4>1 DEF Units, Zero
    <3>3. QED  BY <1>2, <3>2
  <2>2. QED  BY <1>2, <2>1 DEF Exact
<1>3. Exact(Idle) /\ \A t \in Transfers, q \in Quantities : Exact(Confirming(t, q))
  <2>1. SizeKnown(NoLevel) /\ NoLevel.packed \in Int /\ NoLevel.loose \in Int
    BY DEF NoLevel, SizeKnown
  <2>2. Idle.read = NoLevel /\ Idle.next = NoLevel /\ Idle.delta = Zero
    BY DEF Idle
  <2>3. ASSUME NEW t \in Transfers, NEW q \in Quantities PROVE Exact(Confirming(t, q))
    <3> DEFINE r == Confirming(t, q)
    <3>1. r.read = NoLevel /\ r.next = NoLevel /\ r.delta = Zero
      BY DEF Confirming
    <3> HIDE DEF r
    <3>2. Exact(r)
      BY <1>2, <2>1, <3>1
    <3>3. QED  BY <3>2 DEF r
  <2>4. QED  BY <1>2, <2>1, <2>2, <2>3
<1>4. ASSUME NEW kind, NEW e \in Elements, NEW dst, NEW target, NEW q, NEW d \in Delta,
             NEW upp \in PackSizes \cup {NoPack},
             \/ ~Insufficient(Plus(level[e], d), d, SizeFor(upp, level[e]))
             \/ d.packed >= 0 /\ d.loose >= 0
      PROVE  Exact([pc |-> kind, elt |-> e, dst |-> dst, target |-> target, qty |-> q,
                    delta |-> d, read |-> level[e], next |-> LevelAfter(level[e], d, upp)])
  BY <1>4, ReadIsExact DEF Exact
<1> DEFINE Asked(kind, e, dst, target, q, d, upp) ==
      [pc |-> kind, elt |-> e, dst |-> dst, target |-> target, qty |-> q,
       delta |-> d, read |-> level[e], next |-> LevelAfter(level[e], d, upp)]
<1>5. ASSUME NEW kind, NEW e \in Elements, NEW dst, NEW target, NEW q, NEW d \in Delta,
             NEW upp \in PackSizes \cup {NoPack},
             ReadLevel(w, kind, e, dst, target, q, d, upp, TRUE)
      PROVE  Reads
  <2>1. ~Insufficient(Plus(level[e], d), d, SizeFor(upp, level[e]))
    BY <1>5 DEF ReadLevel
  <2>2. Exact(Asked(kind, e, dst, target, q, d, upp))
    BY <1>4, <2>1
  <2>3. req' = [req EXCEPT ![w] = Asked(kind, e, dst, target, q, d, upp)]
        /\ UNCHANGED <<level, posted, absorbed, raced, recount>>
    BY <1>5 DEF ReadLevel, storeVars
  <2> HIDE DEF Asked
  <2>4. QED  BY <1>1, <2>2, <2>3
<1>6. ASSUME NEW e \in Elements, NEW q \in Quantities, NEW upp \in PackSizes
      PROVE  /\ Add(w, e, q, upp) => Reads
             /\ Remove(w, e, q, upp) => Reads
             /\ Deposit(w, e, q, upp) => Reads
             /\ \A dst \in Elements : Ship(w, e, dst, q, upp) => Reads
  <2>1. q \in Delta /\ Negated(q) \in Delta
    BY LedgerAssumption, NegatedType
  <2>2. Add(w, e, q, upp) => Reads
    BY <2>1, <1>5 DEF Add
  <2>3. Remove(w, e, q, upp) => Reads
    BY <2>1, <1>5 DEF Remove
  <2>4. Deposit(w, e, q, upp) => Reads
    BY <2>1, <1>5 DEF Deposit
  <2>5. ASSUME NEW dst \in Elements, Ship(w, e, dst, q, upp) PROVE Reads
    BY <2>1, <2>5, <1>5 DEF Ship
  <2>6. QED  BY <2>2, <2>3, <2>4, <2>5
<1>7. ASSUME NEW d \in Deposits, CancelBegin(w, d) PROVE Reads
  <2>1. deposit[d] \in DepositRow /\ deposit[d].elt \in Elements
    BY <1>7 DEF CancelBegin, TypeInv, TypeOK, DepositRow
  <2>2. Negated(deposit[d].qty) \in Delta
    BY <2>1, NegatedType DEF DepositRow
  <2>3. ReadLevel(w, "cancel", deposit[d].elt, None, d, deposit[d].qty,
                  Negated(deposit[d].qty), NoPack, TRUE)
    BY <1>7 DEF CancelBegin
  <2>4. QED  BY <1>5, <2>1, <2>2, <2>3
<1>8. ASSUME NEW t \in Transfers, ReverseBegin(w, t) PROVE Reads
  <2> DEFINE e == transfer[t].src
             q == transfer[t].qty
  <2>1. e \in Elements /\ q \in Quantity
    BY <1>8 DEF ReverseBegin, TypeInv, TypeOK, Known, TransferRow
  <2>2. q \in Delta /\ q.packed >= 0 /\ q.loose >= 0
    BY <2>1 DEF Quantity, Delta
  <2>3. Exact(Asked("reverse", e, None, t, q, q, NoPack))
    BY <1>4, <2>1, <2>2
  <2>4. req' = [req EXCEPT ![w] = Asked("reverse", e, None, t, q, q, NoPack)]
        /\ UNCHANGED <<level, posted, absorbed, raced, recount>>
    BY <1>8 DEF ReverseBegin, ReadLevel, storeVars
  <2> HIDE DEF Asked
  <2>5. QED  BY <1>1, <2>3, <2>4
<1>9. ASSUME NEW upp \in PackSizes, ConfirmBegin(w, upp) PROVE Reads
  <2>1. req[w].elt \in Elements /\ req[w].qty \in Delta
    BY <1>9, NegatedType DEF ConfirmBegin, TypeInv, TypeOK, Known, RequestKnown, Request
  <2>2. ReadLevel(w, "confirm", req[w].elt, None, req[w].target, req[w].qty,
                  req[w].qty, upp, TRUE)
    BY <1>9 DEF ConfirmBegin
  <2>3. QED  BY <1>5, <2>1, <2>2
<1>10. ASSUME NEW t \in Transfers, NEW q \in Quantities, ConfirmRead(w, t, q) PROVE Reads
  BY <1>1, <1>3, <1>10 DEF ConfirmRead, storeVars
<1>11. ASSUME Rollback(w) PROVE Reads
  BY <1>1, <1>3, <1>11 DEF Rollback, storeVars
<1>12. ASSUME \/ CommitPlain(w) \/ \E d \in Deposits : CommitDeposit(w, d)
              \/ \E t \in Transfers : CommitShip(w, t)
              \/ ConfirmCommit(w) \/ ReverseCommit(w) \/ CancelCommit(w)
       PROVE  Commits
  BY <1>12 DEF CommitPlain, CommitDeposit, CommitShip, ConfirmCommit, ReverseCommit,
               CancelCommit, TypeInv, Known, RequestKnown
<1> HIDE DEF Commits
<1>13. Reads \/ Commits
  BY <1>6, <1>7, <1>8, <1>9, <1>10, <1>11, <1>12 DEF WorkerStep
<1>14. QED  BY <1>13 DEF Reads, Commits

(* The agreement, spelled out for one element and one pack size.           *)
Agrees(e, u) == Units(level[e], u) = Units(posted[e], u) - Units(absorbed[e], u)

(* A commit keeps the agreement unless the row changed under it.           *)
LEMMA CommitAgrees ==
  ASSUME TypeInv, Worth, LedgerAgrees, NEW w \in Workers, req[w].elt \in Elements,
         WriteLevel(w), Post(req[w].elt, req[w].delta)
  PROVE  Worth' /\ LedgerAgrees'
<1> DEFINE r == req[w]
           x == r.elt
<1>1. /\ level \in [Elements -> Level] /\ posted \in [Elements -> Delta]
      /\ absorbed \in [Elements -> Delta] /\ req \in [Workers -> Request]
      /\ r.delta \in Delta /\ r.read \in Level /\ r.next \in Level
  BY DEF TypeInv, TypeOK, Request
<1>2. /\ level' = [level EXCEPT ![x] = r.next] /\ req' = [req EXCEPT ![w] = Idle]
      /\ posted' = [posted EXCEPT ![x] = Plus(@, r.delta)]
      /\ UNCHANGED <<absorbed, recount>>
      /\ raced' = IF level[x] = r.read THEN raced ELSE raced \cup {x}
  BY DEF WriteLevel, Post
<1>3. Worth'
  BY <1>1, <1>2, IdleExact DEF Worth, Exact, SizeKnown
<1>4. ASSUME NEW e \in Elements, e \notin raced', NEW u \in PackSizes, Breaks(u)
      PROVE  Agrees(e, u)'
  <2>1. e \notin raced /\ Agrees(e, u)
    BY <1>2, <1>4 DEF LedgerAgrees, Agrees
  <2>2. CASE e # x
    BY <1>1, <1>2, <2>1, <2>2 DEF Agrees
  <2>3. CASE e = x
    <3>1. level[x] = r.read
      BY <1>2, <1>4, <2>3
    <3>2. u \in Nat
      BY <1>4, LedgerAssumption DEF Breaks, Size, NoPack
    <3>3. Units(r.next, u) = Units(level[x], u) + Units(r.delta, u)
      BY <1>4, <3>1 DEF Worth, Exact
    <3>4. /\ Units(Plus(posted[x], r.delta), u) = Units(posted[x], u) + Units(r.delta, u)
          /\ Units(posted[x], u) \in Int /\ Units(r.delta, u) \in Int
      BY <1>1, <3>2, UnitsPlus DEF Delta
    <3>5. Units(absorbed[x], u) \in Int
      BY <1>1, <3>2, UnitsPlus DEF Delta
    <3>6. level'[x] = r.next /\ posted'[x] = Plus(posted[x], r.delta) /\ absorbed'[x] = absorbed[x]
      BY <1>1, <1>2
    <3>7. QED  BY <2>1, <2>3, <3>3, <3>4, <3>5, <3>6 DEF Agrees
  <2>4. QED  BY <2>2, <2>3
<1>5. QED  BY <1>3, <1>4 DEF LedgerAgrees, Agrees

(* A reset keeps the agreement on every row it sets from a fresh read.     *)
LEMMA ResetAgrees ==
  ASSUME TypeInv, Worth, LedgerAgrees, NEW c \in Counters, ResetCommit(c)
  PROVE  Worth' /\ LedgerAgrees'
<1> DEFINE r == recount[c]
           written == r.lines \cup Carried(r)
           size(e) == SizeFor(SizeFor(r.upp, r.seen[e]), level[e])
           after(e) ==
             IF e \in r.lines
             THEN [found |-> TRUE, packed |-> r.counted[e].packed,
                   loose |-> r.counted[e].loose, upp |-> size(e)]
             ELSE [level[e] EXCEPT !.packed = ExpectedBy(r, e).packed,
                                   !.loose = ExpectedBy(r, e).loose]
<1>1. /\ level \in [Elements -> Level] /\ posted \in [Elements -> Delta]
      /\ absorbed \in [Elements -> Delta] /\ recount \in [Counters -> Recount] /\ r \in Recount
  BY DEF TypeInv, TypeOK
<1>2. /\ level' = [e \in Elements |-> IF e \in written THEN after(e) ELSE level[e]]
      /\ posted' = [e \in Elements |-> IF e \in written THEN Plus(posted[e], Correction(r, e))
                                                        ELSE posted[e]]
      /\ absorbed' = [e \in Elements |-> IF e \in r.lines
           THEN Plus(absorbed[e], Minus(r.seen[e], ExpectedBy(r, e))) ELSE absorbed[e]]
      /\ raced' = raced \cup {e \in written : level[e] # r.seen[e]}
      /\ recount' = [recount EXCEPT ![c] = NoRecount] /\ req' = req
  BY DEF ResetCommit
<1>3. ASSUME NEW e \in Elements
      PROVE  /\ r.seen[e] \in Level /\ r.counted[e] \in Quantity /\ ExpectedBy(r, e) \in Quantity
             /\ Correction(r, e) \in Delta /\ Minus(r.seen[e], ExpectedBy(r, e)) \in Delta
             /\ after(e).upp \in PackSizes \cup {NoPack}
             /\ after(e).packed = (IF e \in r.lines THEN r.counted[e] ELSE ExpectedBy(r, e)).packed
             /\ after(e).loose = (IF e \in r.lines THEN r.counted[e] ELSE ExpectedBy(r, e)).loose
  <2>1. r.seen[e] \in Level /\ r.counted[e] \in Quantity /\ level[e] \in Level
    BY <1>1 DEF Recount
  <2>2. ExpectedBy(r, e) \in Quantity /\ Correction(r, e) \in Delta
    BY <1>1, ExpectedType
  <2>3. Minus(r.seen[e], ExpectedBy(r, e)) \in Delta
    BY <2>1, <2>2, NegatedType, LevelDelta
  <2>4. size(e) \in PackSizes \cup {NoPack} /\ level[e].upp \in PackSizes \cup {NoPack}
    BY DEF SizeFor, Worth, SizeKnown
  <2> HIDE DEF size
  <2>5. after(e).upp \in PackSizes \cup {NoPack}
    BY <2>1, <2>4 DEF Level
  <2>6. /\ after(e).packed = (IF e \in r.lines THEN r.counted[e] ELSE ExpectedBy(r, e)).packed
        /\ after(e).loose = (IF e \in r.lines THEN r.counted[e] ELSE ExpectedBy(r, e)).loose
    BY <2>1 DEF Level
  <2>7. QED  BY <2>1, <2>2, <2>3, <2>5, <2>6
<1> HIDE DEF after, size
<1>4. Worth'
  <2>1. \A e \in Elements : SizeKnown(level'[e])
    BY <1>1, <1>2, <1>3 DEF Worth, SizeKnown
  <2>2. \A d \in Counters : /\ recount'[d].upp \in PackSizes \cup {NoPack}
                            /\ \A e \in Elements : SizeKnown(recount'[d].seen[e])
    BY <1>1, <1>2 DEF Worth, SizeKnown, NoRecount, NoLevel
  <2>3. \A w \in Workers : Exact(req'[w])
    BY <1>2 DEF Worth
  <2>4. QED  BY <2>1, <2>2, <2>3 DEF Worth, SizeKnown, Exact
<1>5. ASSUME NEW e \in Elements, e \notin raced', NEW u \in PackSizes, Breaks(u)
      PROVE  Agrees(e, u)'
  <2>0. Carried(r) \cap r.lines = {}
    BY DEF Carried
  <2>1. e \notin raced /\ Agrees(e, u) /\ u \in Nat
    BY <1>2, <1>5, LedgerAssumption DEF LedgerAgrees, Agrees, Breaks, Size, NoPack
  <2> DEFINE x == ExpectedBy(r, e)
             new == IF e \in r.lines THEN r.counted[e] ELSE x
  <2>2. Units(level[e], u) \in Int /\ Units(posted[e], u) \in Int /\ Units(absorbed[e], u) \in Int
    BY <1>1, <2>1, UnitsInt DEF Level, Delta
  <2>3. Units(x, u) \in Int /\ Units(r.seen[e], u) \in Int /\ Units(r.counted[e], u) \in Int
    BY <1>3, <2>1, UnitsInt DEF Level, Quantity
  <2>4. CASE e \in written
    <3>1. level[e] = r.seen[e]
      BY <1>2, <1>5, <2>4
    <3>2. Units(level'[e], u) = Units(new, u)
      <4>1. level'[e] = after(e)
        BY <1>2, <2>4
      <4>2. after(e).packed = new.packed /\ after(e).loose = new.loose
        BY <1>3
      <4>3. QED  BY <4>1, <4>2 DEF Units
    <3>3. Units(posted'[e], u) = Units(posted[e], u) + Units(Correction(r, e), u)
      <4>1. posted'[e] = Plus(posted[e], Correction(r, e))
        BY <1>2, <2>4
      <4>2. QED  BY <1>1, <1>3, <2>1, <4>1, UnitsPlus DEF Delta
    <3>4. CASE e \in r.lines
      <4>1. Units(Correction(r, e), u) = Units(r.counted[e], u) - Units(x, u)
        BY <1>3, <2>1, <3>4, UnitsPlus DEF Correction, Quantity
      <4>2. Units(absorbed'[e], u) = Units(absorbed[e], u) + (Units(r.seen[e], u) - Units(x, u))
        <5>1. absorbed'[e] = Plus(absorbed[e], Minus(r.seen[e], x))
          BY <1>2, <3>4
        <5>2. Units(Minus(r.seen[e], x), u) = Units(r.seen[e], u) - Units(x, u)
          BY <1>3, <2>1, UnitsPlus DEF Level, Quantity
        <5>3. QED  BY <1>1, <1>3, <2>1, <5>1, <5>2, UnitsPlus DEF Delta
      <4> HIDE DEF x
      <4>3. QED  BY <2>1, <2>2, <2>3, <3>1, <3>2, <3>3, <3>4, <4>1, <4>2 DEF Agrees
    <3>5. CASE e \notin r.lines
      <4>1. Units(Correction(r, e), u) = Units(x, u) - Units(r.seen[e], u)
        BY <1>3, <2>1, <3>5, UnitsPlus DEF Correction, Quantity, Level
      <4>2. absorbed'[e] = absorbed[e]
        BY <1>2, <3>5
      <4> HIDE DEF x
      <4>3. QED  BY <2>1, <2>2, <2>3, <3>1, <3>2, <3>3, <3>5, <4>1, <4>2 DEF Agrees
    <3>6. QED  BY <3>4, <3>5
  <2>5. CASE e \notin written
    BY <1>2, <2>1, <2>5 DEF Agrees
  <2>6. QED  BY <2>4, <2>5
<1>6. QED  BY <1>4, <1>5 DEF LedgerAgrees, Agrees

(* The agreement, with the worth of what is in flight, is inductive.       *)
LEMMA AgreesStep ==
  TypeInv /\ Worth /\ LedgerAgrees /\ [Next]_vars => Worth' /\ LedgerAgrees'
<1> SUFFICES ASSUME TypeInv, Worth, LedgerAgrees, [Next]_vars PROVE Worth' /\ LedgerAgrees'
  OBVIOUS
<1>0. recount \in [Counters -> Recount] /\ req \in [Workers -> Request]
  BY DEF TypeInv, TypeOK
<1>1. ASSUME NEW w \in Workers, NEW r, Exact(r), req' = [req EXCEPT ![w] = r],
             UNCHANGED <<level, posted, absorbed, raced, recount>>
      PROVE  Worth' /\ LedgerAgrees'
  <2>1. \A v \in Workers : Exact(req'[v])
    BY <1>0, <1>1 DEF Worth
  <2>2. QED  BY <1>1, <2>1 DEF Worth, LedgerAgrees, Exact, SizeKnown
<1>2. ASSUME NEW w \in Workers, WorkerStep(w) PROVE Worth' /\ LedgerAgrees'
  BY <1>1, <1>2, WorkerReadsOrCommits, CommitAgrees
<1>3. ASSUME NEW c \in Counters, CounterStep(c) PROVE Worth' /\ LedgerAgrees'
  <2>1. ASSUME NEW lines \in SUBSET Elements, NEW counted \in [Elements -> Quantities],
               NEW upp \in PackSizes, ResetRead(c, lines, counted, upp)
        PROVE  Worth' /\ LedgerAgrees'
    BY <1>0, <2>1 DEF ResetRead, storeVars, Worth, LedgerAgrees, SizeKnown, Exact
  <2>2. ASSUME ResetAbort(c) PROVE Worth' /\ LedgerAgrees'
    BY <1>0, <2>2 DEF ResetAbort, storeVars, Worth, LedgerAgrees, SizeKnown, Exact,
                      NoRecount, NoLevel
  <2>3. QED  BY <1>3, <2>1, <2>2, ResetAgrees DEF CounterStep
<1>4. ASSUME NEW e \in Elements, Sell(e) PROVE Worth' /\ LedgerAgrees'
  BY <1>4 DEF Sell, Worth, LedgerAgrees, SizeKnown, Exact
<1>5. CASE UNCHANGED vars
  BY <1>5 DEF vars, storeVars, Worth, LedgerAgrees, SizeKnown, Exact
<1>6. QED  BY <1>2, <1>3, <1>4, <1>5 DEF Next

(* At the start, levels and movements agree.                               *)
LEMMA AgreesInit == Init => Worth /\ LedgerAgrees
<1> SUFFICES ASSUME Init PROVE Worth /\ LedgerAgrees
  OBVIOUS
<1>1. Worth
  BY LedgerAssumption, IdleExact
  DEF Init, Worth, SizeKnown, NoRecount, NoLevel
<1>2. ASSUME NEW e \in Elements, NEW u \in PackSizes, Breaks(u) PROVE Agrees(e, u)
  <2>1. u \in Nat /\ Opening[e] \in Level
    BY <1>2, LedgerAssumption DEF Breaks, Size, NoPack
  <2>2. Units(Zero, u) = 0
    BY <2>1, Z3 DEF Units, Zero
  <2>3. Units(Plus(Opening[e], Zero), u) = Units(Opening[e], u) + Units(Zero, u)
        /\ Units(Opening[e], u) \in Int
    BY <2>1, UnitsPlus DEF Level, Zero
  <2>4. QED  BY <2>2, <2>3 DEF Agrees, Init
<1>3. QED  BY <1>1, <1>2 DEF LedgerAgrees, Agrees

(* Wherever no level was computed from a stale read, the level is worth    *)
(* the sum of its movements minus the sales an anchor has passed: for any  *)
(* number of elements, requests and resets, through pack breaking, partial *)
(* confirmations, reversals and resets.                                    *)
THEOREM LedgerAgreesAlways == Spec => []LedgerAgrees
BY AgreesInit, TypeInit, TypeStep, AgreesStep, PTL DEF Spec

------------------------------------------------------------------------------
(* What a request is about to write, and to whom.                          *)
Writing(r) == r.pc \notin {"idle", "confirmRead"}

Intent(r) ==
  /\ Writing(r) => r.next.found
  /\ r.pc \in {"add", "deposit", "confirm"} => r.delta = r.qty
  /\ r.pc \in {"remove", "ship", "cancel"} => r.delta = Negated(r.qty)
  /\ r.pc \in {"add", "deposit", "ship"} => r.qty # Zero
  /\ r.pc = "ship" => r.dst # r.elt
  /\ r.pc \in {"confirmRead", "confirm"} => r.elt = transfer[r.target].dst
  /\ r.pc = "reverse" => r.elt = transfer[r.target].src /\ r.delta = transfer[r.target].qty

(* What a read makes of a request: it knows the level as it is, and settles *)
(* a transfer that waits, or one it was settling already.                  *)
Asks(w, r) ==
  /\ Intent(r) /\ req' = [req EXCEPT ![w] = r]
  /\ Writing(r) => r.read = level[r.elt]
  /\ Settling(r) => \/ transfer[r.target].state = "PENDING"
                    \/ Settling(req[w]) /\ r.target = req[w].target
  /\ UNCHANGED <<storeVars, recount>>

Commits(w) ==
  \/ CommitPlain(w) \/ \E d \in Deposits : CommitDeposit(w, d)
  \/ \E t \in Transfers : CommitShip(w, t)
  \/ ConfirmCommit(w) \/ ReverseCommit(w) \/ CancelCommit(w)

LEMMA WorkerAsksOrCommits ==
  ASSUME TypeInv, \A v \in Workers : Intent(req[v]), NEW w \in Workers, WorkerStep(w)
  PROVE  (\E r : Asks(w, r)) \/ Commits(w)
<1>. DEFINE Read(kind, e, dst, target, q, d, upp) ==
       [pc |-> kind, elt |-> e, dst |-> dst, target |-> target, qty |-> q,
        delta |-> d, read |-> level[e], next |-> LevelAfter(level[e], d, upp)]
<1>1. ASSUME NEW e \in Elements, NEW q \in Quantities, NEW upp \in PackSizes,
             \/ Add(w, e, q, upp) \/ Remove(w, e, q, upp) \/ Deposit(w, e, q, upp)
             \/ \E dst \in Elements : Ship(w, e, dst, q, upp)
      PROVE  \E r : Asks(w, r)
  <2>1. CASE Add(w, e, q, upp)
    <3>. DEFINE r == Read("add", e, None, None, q, q, upp)
    <3>1. /\ r.pc = "add" /\ r.elt = e /\ r.dst = None /\ r.qty = q /\ r.delta = q
          /\ r.read = level[e] /\ r.next.found
      BY DEF LevelAfter
    <3>2. req' = [req EXCEPT ![w] = r] /\ UNCHANGED <<storeVars, recount>> /\ q # Zero
      BY <2>1 DEF Add, ReadLevel
    <3>. HIDE DEF r
    <3>3. Asks(w, r)
      BY <3>1, <3>2 DEF Asks, Intent, Writing, Settling
    <3>. QED  BY <3>3
  <2>2. CASE Remove(w, e, q, upp)
    <3>. DEFINE r == Read("remove", e, None, None, q, Negated(q), upp)
    <3>1. /\ r.pc = "remove" /\ r.elt = e /\ r.dst = None /\ r.qty = q /\ r.delta = Negated(q)
          /\ r.read = level[e] /\ r.next.found
      BY DEF LevelAfter
    <3>2. req' = [req EXCEPT ![w] = r] /\ UNCHANGED <<storeVars, recount>> /\ q # Zero
      BY <2>2 DEF Remove, ReadLevel
    <3>. HIDE DEF r
    <3>3. Asks(w, r)
      BY <3>1, <3>2 DEF Asks, Intent, Writing, Settling
    <3>. QED  BY <3>3
  <2>3. CASE Deposit(w, e, q, upp)
    <3>. DEFINE r == Read("deposit", e, None, None, q, q, upp)
    <3>1. /\ r.pc = "deposit" /\ r.elt = e /\ r.dst = None /\ r.qty = q /\ r.delta = q
          /\ r.read = level[e] /\ r.next.found
      BY DEF LevelAfter
    <3>2. req' = [req EXCEPT ![w] = r] /\ UNCHANGED <<storeVars, recount>> /\ q # Zero
      BY <2>3 DEF Deposit, ReadLevel
    <3>. HIDE DEF r
    <3>3. Asks(w, r)
      BY <3>1, <3>2 DEF Asks, Intent, Writing, Settling
    <3>. QED  BY <3>3
  <2>4. ASSUME NEW dst \in Elements, Ship(w, e, dst, q, upp) PROVE \E r : Asks(w, r)
    <3>. DEFINE r == Read("ship", e, dst, None, q, Negated(q), upp)
    <3>1. /\ r.pc = "ship" /\ r.elt = e /\ r.dst = dst /\ r.qty = q /\ r.delta = Negated(q)
          /\ r.read = level[e] /\ r.next.found
      BY DEF LevelAfter
    <3>2. req' = [req EXCEPT ![w] = r] /\ UNCHANGED <<storeVars, recount>> /\ q # Zero /\ dst # e
      BY <2>4 DEF Ship, ReadLevel
    <3>. HIDE DEF r
    <3>3. Asks(w, r)
      BY <3>1, <3>2 DEF Asks, Intent, Writing, Settling
    <3>. QED  BY <3>3
  <2>. QED  BY <1>1, <2>1, <2>2, <2>3, <2>4
<1>2. ASSUME NEW d \in Deposits, CancelBegin(w, d) PROVE \E r : Asks(w, r)
  <2>. DEFINE x == deposit[d]
              r == Read("cancel", x.elt, None, d, x.qty, Negated(x.qty), NoPack)
  <2>1. /\ r.pc = "cancel" /\ r.elt = x.elt /\ r.dst = None /\ r.qty = x.qty /\ r.delta = Negated(x.qty)
        /\ r.read = level[x.elt] /\ r.next.found
    BY DEF LevelAfter
  <2>2. req' = [req EXCEPT ![w] = r] /\ UNCHANGED <<storeVars, recount>>
    BY <1>2 DEF CancelBegin, ReadLevel
  <2>. HIDE DEF r
  <2>3. Asks(w, r)
    BY <2>1, <2>2 DEF Asks, Intent, Writing, Settling
  <2>. QED  BY <2>3
<1>3. ASSUME NEW t \in Transfers, ReverseBegin(w, t) PROVE \E r : Asks(w, r)
  <2>. DEFINE x == transfer[t]
              r == Read("reverse", x.src, None, t, x.qty, x.qty, NoPack)
  <2>1. /\ r.pc = "reverse" /\ r.elt = x.src /\ r.target = t /\ r.delta = x.qty
        /\ r.read = level[x.src] /\ r.next.found
    BY DEF LevelAfter
  <2>2. req' = [req EXCEPT ![w] = r] /\ UNCHANGED <<storeVars, recount>> /\ x.state = "PENDING"
    BY <1>3 DEF ReverseBegin, ReadLevel
  <2>. HIDE DEF r
  <2>3. Asks(w, r)
    BY <2>1, <2>2 DEF Asks, Intent, Writing, Settling
  <2>. QED  BY <2>3
<1>4. ASSUME NEW upp \in PackSizes, ConfirmBegin(w, upp) PROVE \E r : Asks(w, r)
  <2>. DEFINE k == req[w]
              r == Read("confirm", k.elt, None, k.target, k.qty, k.qty, upp)
  <2>1. /\ r.pc = "confirm" /\ r.elt = k.elt /\ r.target = k.target /\ r.qty = k.qty /\ r.delta = k.qty
        /\ r.read = level[k.elt] /\ r.next.found
    BY DEF LevelAfter
  <2>2. req' = [req EXCEPT ![w] = r] /\ UNCHANGED <<storeVars, recount>> /\ k.pc = "confirmRead"
    BY <1>4 DEF ConfirmBegin, ReadLevel
  <2>3. k.elt = transfer[k.target].dst
    BY <2>2 DEF Intent
  <2>. HIDE DEF r
  <2>4. Asks(w, r)
    BY <2>1, <2>2, <2>3 DEF Asks, Intent, Writing, Settling
  <2>. QED  BY <2>4
<1>5. ASSUME NEW t \in Transfers, NEW q \in Quantities, ConfirmRead(w, t, q) PROVE \E r : Asks(w, r)
  <2>. DEFINE r == Confirming(t, q)
  <2>1. r.pc = "confirmRead" /\ r.elt = transfer[t].dst /\ r.target = t
    BY DEF Confirming
  <2>2. /\ req' = [req EXCEPT ![w] = r] /\ UNCHANGED <<storeVars, recount>>
        /\ transfer[t].state = "PENDING"
    BY <1>5 DEF ConfirmRead
  <2>. HIDE DEF r
  <2>3. Asks(w, r)
    BY <2>1, <2>2 DEF Asks, Intent, Writing, Settling
  <2>. QED  BY <2>3
<1>6. ASSUME Rollback(w) PROVE \E r : Asks(w, r)
  <2>1. Asks(w, Idle)
    BY <1>6 DEF Rollback, Asks, Intent, Writing, Settling, Idle
  <2>. QED  BY <2>1
<1>. QED
  BY <1>1, <1>2, <1>3, <1>4, <1>5, <1>6 DEF WorkerStep, Commits

(* A commit writes the level of a busy request, which is then over; it may *)
(* ship or settle a transfer, of which it changes the state only.          *)
LEMMA CommitWrites ==
  ASSUME TypeInv, NEW w \in Workers, Commits(w)
  PROVE  /\ WriteLevel(w) /\ Writing(req[w]) /\ req[w].elt \in Elements /\ UNCHANGED <<sold, recount>>
         /\ req'[w] = Idle /\ \A v \in Workers \ {w} : req'[v] = req[v]
         /\ level'[req[w].elt] = req[w].next
         /\ \A e \in Elements \ {req[w].elt} : level'[e] = level[e]
<1>1. WriteLevel(w) /\ Writing(req[w]) /\ req[w].elt \in Elements
  BY DEF Commits, CommitPlain, CommitDeposit, CommitShip, ConfirmCommit, ReverseCommit, CancelCommit,
         Writing, TypeInv, Known, RequestKnown
<1>2. req \in [Workers -> Request] /\ level \in [Elements -> Level]
  BY DEF TypeInv, TypeOK
<1>. QED  BY <1>1, <1>2 DEF WriteLevel

(* Only the state and the books of a shipped transfer change.              *)
LEMMA RowsStay ==
  ASSUME TypeInv, [Next]_vars, NEW t \in Transfers, transfer[t].state # "free"
  PROVE  /\ transfer'[t].src = transfer[t].src /\ transfer'[t].dst = transfer[t].dst
         /\ transfer'[t].qty = transfer[t].qty /\ transfer'[t].state # "free"
<1>1. transfer \in [Transfers -> TransferRow]
  BY DEF TypeInv, TypeOK
<1>2. ASSUME NEW w \in Workers, NEW x \in Transfers, CommitShip(w, x) PROVE transfer'[t] = transfer[t]
  BY <1>1, <1>2 DEF CommitShip
<1>3. ASSUME NEW w \in Workers, ConfirmCommit(w) \/ ReverseCommit(w)
      PROVE  /\ transfer'[t].src = transfer[t].src /\ transfer'[t].dst = transfer[t].dst
             /\ transfer'[t].qty = transfer[t].qty /\ transfer'[t].state # "free"
  <2>1. transfer[t] \in TransferRow
    BY <1>1
  <2>2. CASE ConfirmCommit(w)
    BY <1>1, <2>1, <2>2 DEF ConfirmCommit, TransferRow
  <2>3. CASE ReverseCommit(w)
    BY <1>1, <2>1, <2>3 DEF ReverseCommit, TransferRow
  <2>. QED  BY <1>3, <2>2, <2>3
<1>4. ASSUME NEW w \in Workers, CancelCommit(w) \/ \E d \in Deposits : CommitDeposit(w, d)
      PROVE  UNCHANGED transfer
  BY <1>4 DEF CancelCommit, CommitDeposit
<1>. QED  BY <1>2, <1>3, <1>4, WhoChangesRows

Intents == \A w \in Workers : Intent(req[w])

(* What a request is about to write stays what it asked for.               *)
LEMMA IntentStep == TypeInv /\ Intents /\ [Next]_vars => Intents'
<1>. SUFFICES ASSUME TypeInv, Intents, [Next]_vars PROVE Intents'
  OBVIOUS
<1>1. ASSUME NEW w \in Workers, req'[w] = req[w] PROVE Intent(req[w])'
  <2>1. Settling(req[w]) => req[w].target \in Transfers /\ transfer[req[w].target].state # "free"
    BY DEF TypeInv, Known, RequestKnown, Settling
  <2>2. Settling(req[w]) =>
          /\ transfer'[req[w].target].src = transfer[req[w].target].src
          /\ transfer'[req[w].target].dst = transfer[req[w].target].dst
          /\ transfer'[req[w].target].qty = transfer[req[w].target].qty
    BY <2>1, RowsStay
  <2>. QED  BY <1>1, <2>2 DEF Intents, Intent, Settling, Writing
<1>2. ASSUME NEW w \in Workers, WorkerStep(w) PROVE Intents'
  <2>1. CASE \E r : Asks(w, r)
    <3>1. PICK r : Asks(w, r)
      BY <2>1
    <3>2. req'[w] = r /\ (\A v \in Workers \ {w} : req'[v] = req[v]) /\ transfer' = transfer /\ Intent(r)
      BY <3>1 DEF Asks, TypeInv, TypeOK, storeVars
    <3>3. Intent(req[w])'
      BY <3>2 DEF Intent, Writing
    <3>. QED  BY <1>1, <3>2, <3>3 DEF Intents
  <2>2. CASE Commits(w)
    <3>1. req'[w] = Idle /\ \A v \in Workers \ {w} : req'[v] = req[v]
      BY <2>2, CommitWrites
    <3>2. Intent(req[w])'
      BY <3>1 DEF Intent, Writing, Idle
    <3>. QED  BY <1>1, <3>1, <3>2 DEF Intents
  <2>. QED  BY <1>2, <2>1, <2>2, WorkerAsksOrCommits DEF Intents
<1>3. CASE (\E c \in Counters : CounterStep(c)) \/ (\E e \in Elements : Sell(e)) \/ UNCHANGED vars
  <2>1. UNCHANGED req
    BY <1>3 DEF CounterStep, ResetRead, ResetCommit, ResetAbort, Sell, vars
  <2>. QED  BY <1>1, <2>1 DEF Intents
<1>. QED  BY <1>2, <1>3 DEF Next

LEMMA IntentInit == Init => Intents
BY DEF Init, Intents, Intent, Writing, Idle

------------------------------------------------------------------------------
(* Sales are made from a level that is there.                              *)
SoldFromLevel == \A e \in Elements : sold[e] # 0 => level[e].found

LEMMA SoldStep == TypeInv /\ Intents /\ SoldFromLevel /\ [Next]_vars => SoldFromLevel'
<1>. SUFFICES ASSUME TypeInv, Intents, SoldFromLevel, [Next]_vars PROVE SoldFromLevel'
  OBVIOUS
<1>1. ASSUME NEW w \in Workers, WorkerStep(w) PROVE SoldFromLevel'
  <2>1. CASE \E r : Asks(w, r)
    BY <2>1 DEF Asks, storeVars, SoldFromLevel
  <2>2. CASE Commits(w)
    <3>1. req[w].next.found
      BY <2>2, CommitWrites DEF Intents, Intent
    <3>. QED  BY <2>2, <3>1, CommitWrites DEF SoldFromLevel
  <2>. QED  BY <1>1, <2>1, <2>2, WorkerAsksOrCommits DEF Intents
<1>2. ASSUME NEW c \in Counters, CounterStep(c) PROVE SoldFromLevel'
  <2>1. CASE ResetCommit(c)
    BY <2>1 DEF ResetCommit, SoldFromLevel
  <2>2. CASE ~ ResetCommit(c)
    BY <1>2, <2>2 DEF CounterStep, ResetRead, ResetAbort, storeVars, SoldFromLevel
  <2>. QED  BY <2>1, <2>2
<1>3. ASSUME NEW e \in Elements, Sell(e) PROVE SoldFromLevel'
  BY <1>3 DEF Sell, SoldFromLevel, TypeInv, TypeOK
<1>4. CASE UNCHANGED vars
  BY <1>4 DEF vars, storeVars, SoldFromLevel
<1>. QED  BY <1>1, <1>2, <1>3, <1>4 DEF Next

(* A reset pays the sales of the levels it does not count: what a screen   *)
(* shows of them stays the same (StockReconciliationService.reset).        *)
THEOREM PartialResetKeeps == Spec => PartialResetKeepsExpected
<1>1. Init => SoldFromLevel
  BY DEF Init, SoldFromLevel
<1>2. ASSUME TypeInv, SoldFromLevel, NEW c \in Counters, NEW e \in Elements,
             ResetCommit(c), e \notin recount[c].lines,
             recount[c].seen[e] = level[e], recount[c].seenSold[e] = sold[e]
      PROVE  Expected(e)' = Expected(e)
  <2>. DEFINE r == recount[c]
              was == ExpectedBy(r, e)
  <2>1. /\ level \in [Elements -> Level] /\ sold[e] \in Nat /\ level[e] \in Level /\ r \in Recount
        /\ sold'[e] = 0
    BY <1>2 DEF TypeInv, TypeOK, ResetCommit
  <2>2. was = Expected(e) /\ was \in Quantity
    BY <1>2, <2>1, ExpectedType DEF ExpectedBy, Expected
  <2>3. CASE e \in Carried(r)
    <3>1. level'[e] = [level[e] EXCEPT !.packed = was.packed, !.loose = was.loose]
      BY <1>2, <2>3 DEF ResetCommit
    <3>2. /\ level'[e].packed = was.packed /\ level'[e].loose = was.loose /\ level'[e].upp = level[e].upp
          /\ level[e].upp \in Size /\ was.packed \in Nat /\ was.loose \in Nat
      BY <2>1, <2>2, <3>1 DEF Level, Quantity
    <3>. HIDE DEF was
    <3>3. Expected(e)' = NormalizeLevel([packed |-> was.packed, loose |-> was.loose - 0], level[e].upp)
      BY <2>1, <3>2 DEF Expected, ExpectedOf
    <3>4. [packed |-> was.packed, loose |-> was.loose - 0] = was
      BY <2>2, <3>2 DEF Quantity
    <3>5. NormalizeLevel(was, level[e].upp) = was
      BY <2>2, <3>2, NormalizeKeepsLevel DEF Quantity, Delta
    <3>. QED  BY <2>2, <3>3, <3>4, <3>5
  <2>4. CASE e \notin Carried(r)
    <3>1. level'[e] = level[e]
      BY <1>2, <2>4 DEF ResetCommit
    <3>2. sold[e] = 0
      BY <1>2, <2>1, <2>4 DEF Carried, SoldFromLevel
    <3>. QED  BY <2>1, <3>1, <3>2 DEF Expected
  <2>. QED  BY <2>3, <2>4
<1>3. ASSUME TypeInv, SoldFromLevel
      PROVE  \A c \in Counters, e \in Elements :
               /\ ResetCommit(c) /\ e \notin recount[c].lines
               /\ recount[c].seen[e] = level[e] /\ recount[c].seenSold[e] = sold[e]
               => Expected(e)' = Expected(e)
  BY <1>2, <1>3
<1>. QED
  BY <1>1, <1>3, TypeInit, TypeStep, IntentInit, IntentStep, SoldStep, PTL
     DEF Spec, PartialResetKeepsExpected

------------------------------------------------------------------------------
(* No two requests are settling the same transfer.                         *)
Apart ==
  \A v, w \in Workers :
    Settling(req[v]) /\ Settling(req[w]) /\ req[v].target = req[w].target => v = w

(* What a request is settling still waits.                                 *)
StillWaiting ==
  \A w \in Workers : Settling(req[w]) => transfer[req[w].target].state = "PENDING"

(* Apart, what a request is settling still waits.                          *)
LEMMA WaitingStep ==
  TypeInv /\ Intents /\ Apart /\ StillWaiting /\ [Next]_vars => StillWaiting'
<1>. SUFFICES ASSUME TypeInv, Intents, Apart, StillWaiting, [Next]_vars
     PROVE  StillWaiting'
  OBVIOUS
<1>0. /\ transfer \in [Transfers -> TransferRow] /\ req \in [Workers -> Request]
      /\ \A w \in Workers : Settling(req[w]) => req[w].target \in Transfers
  BY DEF TypeInv, TypeOK, Known, RequestKnown, Settling
<1>1. ASSUME NEW w \in Workers, NEW r, Asks(w, r) PROVE StillWaiting'
  <2>1. transfer' = transfer /\ req' = [req EXCEPT ![w] = r]
    BY <1>1 DEF Asks, storeVars
  <2>2. Settling(r) => transfer[r.target].state = "PENDING"
    BY <1>1 DEF Asks, StillWaiting
  <2>. QED  BY <1>0, <2>1, <2>2 DEF StillWaiting
<1>2. ASSUME NEW w \in Workers, Commits(w) PROVE StillWaiting'
  <2>1. ~ Settling(req'[w]) /\ \A v \in Workers \ {w} : req'[v] = req[v]
    BY <1>2, CommitWrites DEF Settling, Idle
  <2>2. ASSUME NEW t \in Transfers, CommitShip(w, t) PROVE StillWaiting'
    <3>1. transfer'[t].state = "PENDING"
      BY <1>0, <2>2 DEF CommitShip, FreeTransfer
    <3>2. \A x \in Transfers \ {t} : transfer'[x] = transfer[x]
      BY <1>0, <2>2 DEF CommitShip
    <3>. QED  BY <1>0, <2>1, <3>1, <3>2 DEF StillWaiting
  <2>3. ASSUME ConfirmCommit(w) \/ ReverseCommit(w) PROVE StillWaiting'
    <3>1. Settling(req[w])
      BY <2>3 DEF ConfirmCommit, ReverseCommit, Settling
    <3>2. \A x \in Transfers \ {req[w].target} : transfer'[x] = transfer[x]
      BY <1>0, <2>3 DEF ConfirmCommit, ReverseCommit
    <3>3. \A v \in Workers \ {w} : Settling(req[v]) => req[v].target # req[w].target
      BY <3>1 DEF Apart
    <3>. QED  BY <1>0, <2>1, <3>2, <3>3 DEF StillWaiting
  <2>4. CASE UNCHANGED transfer
    BY <2>1, <2>4 DEF StillWaiting
  <2>. QED
    BY <1>2, <2>2, <2>3, <2>4 DEF Commits, CommitPlain, CommitDeposit, CancelCommit
<1>3. CASE (\E c \in Counters : CounterStep(c)) \/ (\E e \in Elements : Sell(e)) \/ UNCHANGED vars
  <2>1. UNCHANGED <<req, transfer>>
    BY <1>3 DEF CounterStep, ResetRead, ResetCommit, ResetAbort, Sell, vars, storeVars
  <2>. QED  BY <2>1 DEF StillWaiting
<1>. QED  BY <1>1, <1>2, <1>3, WorkerAsksOrCommits DEF Next, Intents

LEMMA ApartWaits == Spec /\ []Apart => []StillWaiting
<1>1. Init => StillWaiting
  BY DEF Init, StillWaiting, Settling, Idle
<1>. QED
  BY <1>1, TypeInit, TypeStep, IntentInit, IntentStep, WaitingStep, PTL DEF Spec

------------------------------------------------------------------------------
(* What was written to settle a transfer, and what still can be.           *)
Settled(x) == x.state \in {"CONFIRMED", "deleted"}
Writes(x) == x.credits + (IF x.state = "deleted" THEN 1 ELSE 0)

(* Once a transfer is settled, the requests that are still settling it use *)
(* up what remains of those that were there at its first commit.           *)
UsedUp ==
  \A t \in Transfers :
    /\ Settled(transfer[t]) => Writes(transfer[t]) + Cardinality(Settlers(t)) <= transfer[t].atOnce
    /\ ~ Settled(transfer[t]) => transfer[t].credits = 0

(* A request begins to settle a PENDING transfer only: nobody joins those  *)
(* of a settled one.                                                       *)
LEMMA NobodyJoins ==
  ASSUME TypeInv, UsedUp, UNCHANGED transfer, NEW w \in Workers, NEW r, req' = [req EXCEPT ![w] = r],
         Settling(r) => \/ transfer[r.target].state = "PENDING"
                        \/ Settling(req[w]) /\ r.target = req[w].target
  PROVE  UsedUp'
<1>. SUFFICES ASSUME NEW t \in Transfers, Settled(transfer[t])
     PROVE  Writes(transfer[t]) + Cardinality(Settlers(t)') <= transfer[t].atOnce
  BY DEF UsedUp
<1>1. /\ Settlers(t)' \subseteq Settlers(t)
  BY DEF Settlers, Settled, TypeInv, TypeOK
<1>2. /\ IsFiniteSet(Settlers(t)') /\ Cardinality(Settlers(t)') \in Nat
      /\ Cardinality(Settlers(t)) \in Nat /\ Cardinality(Settlers(t)') <= Cardinality(Settlers(t))
  BY <1>1, SettlersFinite, FS_Subset, FS_CardinalityType
<1>3. Writes(transfer[t]) \in Nat /\ transfer[t].atOnce \in Nat
  BY DEF Writes, TypeInv, TypeOK, TransferRow
<1>. QED  BY <1>2, <1>3 DEF UsedUp

(* A commit that settles a transfer is one of them, and no longer is.      *)
LEMMA SettlerLeaves ==
  ASSUME TypeInv, UsedUp, TransferSettled, NEW w \in Workers, NEW t \in Transfers,
         Settling(req[w]), req[w].target = t, transfer[t].state # "deleted",
         req'[w] = Idle, \A v \in Workers \ {w} : req'[v] = req[v],
         \A x \in Transfers \ {t} : transfer'[x] = transfer[x],
         Settled(transfer'[t]), transfer'[t].atOnce = SettlersOf(t),
         Writes(transfer'[t]) = transfer[t].credits + 1
  PROVE  UsedUp'
<1>1. /\ transfer[t] \in TransferRow /\ transfer[t].credits \in Nat /\ transfer[t].atOnce \in Nat
      /\ transfer[t].state # "free"
  BY DEF TypeInv, TypeOK, Known, RequestKnown, Settling, TransferRow
<1>2. Settlers(t)' = Settlers(t) \ {w} /\ w \in Settlers(t)
  BY DEF Settlers, Settling, Idle
<1>3. /\ Cardinality(Settlers(t)') = Cardinality(Settlers(t)) - 1
      /\ Cardinality(Settlers(t)) \in Nat
  BY <1>2, SettlersFinite, FS_RemoveElement
<1>4. Writes(transfer'[t]) + Cardinality(Settlers(t)') <= transfer'[t].atOnce
  <2>1. CASE transfer[t].state = "PENDING"
    <3>1. transfer[t].credits = 0 /\ SettlersOf(t) = Cardinality(Settlers(t))
      BY <2>1 DEF TransferSettled, SettlersOf
    <3>. QED  BY <1>1, <1>3, <3>1
  <2>2. CASE transfer[t].state = "CONFIRMED"
    <3>1. /\ transfer[t].credits + Cardinality(Settlers(t)) <= transfer[t].atOnce
          /\ SettlersOf(t) = transfer[t].atOnce
      BY <1>1, <2>2 DEF UsedUp, Settled, Writes, SettlersOf
    <3>. QED  BY <1>1, <1>3, <3>1
  <2>. QED  BY <1>1, <2>1, <2>2 DEF TransferRow
<1>5. ASSUME NEW x \in Transfers \ {t} PROVE Settlers(x)' = Settlers(x)
  BY DEF Settlers, Settling, Idle
<1>. QED  BY <1>4, <1>5 DEF UsedUp

LEMMA UsedUpStep == TypeInv /\ Intents /\ TransferSettled /\ UsedUp /\ [Next]_vars => UsedUp'
<1>. SUFFICES ASSUME TypeInv, Intents, TransferSettled, UsedUp, [Next]_vars PROVE UsedUp'
  OBVIOUS
<1>0. transfer \in [Transfers -> TransferRow] /\ \A t \in Transfers : transfer[t] \in TransferRow
  BY DEF TypeInv, TypeOK
<1>1. ASSUME NEW w \in Workers, NEW r, Asks(w, r) PROVE UsedUp'
  BY <1>1, NobodyJoins DEF Asks, storeVars
<1>2. ASSUME NEW w \in Workers, Commits(w) PROVE UsedUp'
  <2>1. req'[w] = Idle /\ \A v \in Workers \ {w} : req'[v] = req[v]
    BY <1>2, CommitWrites
  <2>2. ASSUME NEW t \in Transfers, CommitShip(w, t) PROVE UsedUp'
    <3>1. ~ Settled(transfer'[t]) /\ transfer'[t].credits = 0 /\ \A x \in Transfers \ {t} : transfer'[x] = transfer[x]
      BY <1>0, <2>2 DEF CommitShip, FreeTransfer, Settled
    <3>2. ~ Settling(req[w])
      BY <2>2 DEF CommitShip, Settling
    <3>3. \A x \in Transfers : Settlers(x)' = Settlers(x)
      BY <2>1, <3>2 DEF Settlers, Settling, Idle
    <3>. QED  BY <3>1, <3>3 DEF UsedUp
  <2>3. CASE ConfirmCommit(w)
    <3>. DEFINE t == req[w].target
    <3>1. t \in Transfers /\ Settling(req[w]) /\ transfer[t].state # "deleted"
      BY <2>3 DEF ConfirmCommit, Settling, TypeInv, Known, RequestKnown
    <3>2. /\ transfer'[t].state = "CONFIRMED" /\ transfer'[t].credits = transfer[t].credits + 1
          /\ transfer'[t].atOnce = SettlersOf(t) /\ \A x \in Transfers \ {t} : transfer'[x] = transfer[x]
      <4>. DEFINE y == [transfer[t] EXCEPT
                          !.state = "CONFIRMED", !.credits = @ + 1,
                          !.credited = Plus(@, req[w].qty),
                          !.lost = Plus(@, Missing(transfer[t], req[w].qty)),
                          !.atOnce = SettlersOf(t)]
      <4>1. transfer' = [transfer EXCEPT ![t] = y]
        BY <1>0, <2>3, <3>1 DEF ConfirmCommit
      <4>2. y.state = "CONFIRMED" /\ y.credits = transfer[t].credits + 1 /\ y.atOnce = SettlersOf(t)
        BY <1>0, <3>1 DEF TransferRow
      <4>. HIDE DEF y
      <4>. QED  BY <1>0, <3>1, <4>1, <4>2
    <3>3. Settled(transfer'[t]) /\ Writes(transfer'[t]) = transfer[t].credits + 1
      BY <1>0, <3>1, <3>2 DEF Settled, Writes, TransferRow
    <3>4. req[w].target = t
      OBVIOUS
    <3>. HIDE DEF t
    <3>. QED  BY <2>1, <3>1, <3>2, <3>3, <3>4, SettlerLeaves
  <2>4. CASE ReverseCommit(w)
    <3>. DEFINE t == req[w].target
    <3>1. t \in Transfers /\ Settling(req[w]) /\ transfer[t].state # "deleted"
      BY <2>4 DEF ReverseCommit, Settling, TypeInv, Known, RequestKnown
    <3>2. /\ transfer'[t].state = "deleted" /\ transfer'[t].credits = transfer[t].credits
          /\ transfer'[t].atOnce = SettlersOf(t) /\ \A x \in Transfers \ {t} : transfer'[x] = transfer[x]
      BY <1>0, <2>4, <3>1 DEF ReverseCommit, TransferRow
    <3>3. Settled(transfer'[t]) /\ Writes(transfer'[t]) = transfer[t].credits + 1
      BY <3>2 DEF Settled, Writes
    <3>4. req[w].target = t
      OBVIOUS
    <3>. HIDE DEF t
    <3>. QED  BY <2>1, <3>1, <3>2, <3>3, <3>4, SettlerLeaves
  <2>5. CASE UNCHANGED transfer
    <3>1. req' = [req EXCEPT ![w] = Idle] /\ ~ Settling(Idle)
      BY <1>2, CommitWrites DEF WriteLevel, Settling, Idle
    <3>. QED  BY <2>5, <3>1, NobodyJoins
  <2>. QED
    BY <1>2, <2>2, <2>3, <2>4, <2>5 DEF Commits, CommitPlain, CommitDeposit, CancelCommit
<1>3. CASE (\E c \in Counters : CounterStep(c)) \/ (\E e \in Elements : Sell(e)) \/ UNCHANGED vars
  <2>1. UNCHANGED <<req, transfer>>
    BY <1>3 DEF CounterStep, ResetRead, ResetCommit, ResetAbort, Sell, vars, storeVars
  <2>2. \A t \in Transfers : Settlers(t)' = Settlers(t)
    BY <2>1 DEF Settlers
  <2>. QED  BY <2>1, <2>2 DEF UsedUp
<1>. QED  BY <1>1, <1>2, <1>3, WorkerAsksOrCommits DEF Next, Intents

(* A transfer is credited or taken back at most once by each of the        *)
(* requests that were settling it when the first of them committed, and by *)
(* nobody else: for any number of overlapping confirmations and reversals  *)
(* (confirmTransfer, reverseMovement), and once where there was one.       *)
THEOREM SettledOncePerRequestAlways == Spec => []SettledOncePerRequest
<1>1. Init => UsedUp
  BY DEF Init, UsedUp, Settled, FreeTransfer
<1>2. TypeInv /\ UsedUp => SettledOncePerRequest
  <2>. SUFFICES ASSUME TypeInv, UsedUp, NEW t \in Transfers
       PROVE  Writes(transfer[t]) <= transfer[t].atOnce
    BY DEF SettledOncePerRequest, Writes
  <2>1. transfer[t] \in TransferRow /\ transfer[t].credits \in Nat /\ transfer[t].atOnce \in Nat
    BY DEF TypeInv, TypeOK, TransferRow
  <2>2. Cardinality(Settlers(t)) \in Nat
    BY SettlersFinite
  <2>3. CASE Settled(transfer[t])
    BY <2>1, <2>2, <2>3 DEF UsedUp, Writes
  <2>4. CASE ~ Settled(transfer[t])
    BY <2>1, <2>4 DEF UsedUp, Writes, Settled
  <2>. QED  BY <2>3, <2>4
<1>. QED
  BY <1>1, <1>2, TypeInit, TypeStep, IntentInit, IntentStep, TransferSettledAlways, UsedUpStep, PTL DEF Spec

------------------------------------------------------------------------------
(* One request at a time, and no reset.                                    *)
Alone ==
  /\ \A v, w \in Workers : req[v].pc # "idle" /\ req[w].pc # "idle" => v = w
  /\ \A c \in Counters : ~ recount[c].on

(* Alone, a request has read the level as it is.                           *)
Fresh == \A w \in Workers : Writing(req[w]) => req[w].read = level[req[w].elt]

LEMMA FreshStep == TypeInv /\ Intents /\ Fresh /\ Alone /\ [Next]_vars => Fresh'
<1>. SUFFICES ASSUME TypeInv, Intents, Fresh, Alone, [Next]_vars PROVE Fresh'
  OBVIOUS
<1>1. ASSUME NEW w \in Workers, NEW r, Asks(w, r) PROVE Fresh'
  BY <1>1 DEF Asks, Fresh, TypeInv, TypeOK, storeVars
<1>2. ASSUME NEW w \in Workers, Commits(w) PROVE Fresh'
  <2>1. \A v \in Workers \ {w} : req'[v] = req[v] /\ ~ Writing(req[v])
    BY <1>2, CommitWrites DEF Alone, Writing
  <2>2. ~ Writing(req'[w])
    BY <1>2, CommitWrites DEF Writing, Idle
  <2>. QED  BY <2>1, <2>2 DEF Fresh
<1>3. CASE (\E c \in Counters : CounterStep(c)) \/ (\E e \in Elements : Sell(e)) \/ UNCHANGED vars
  <2>1. UNCHANGED <<req, level>>
    BY <1>3 DEF Alone, CounterStep, ResetRead, ResetCommit, ResetAbort, Sell, vars, storeVars
  <2>. QED  BY <2>1 DEF Fresh
<1>. QED  BY <1>1, <1>2, <1>3, WorkerAsksOrCommits DEF Next, Intents

Held(e) == Units(level[e], PackSize)

(* The invariant of the refinement.                                        *)
Serial == TypeInv /\ Worth /\ Intents /\ StillWaiting /\ Fresh

(* What a quantity is worth is a number of units, none only if it is none. *)
LEMMA UnitsNat ==
  ASSUME NEW u \in Nat \ {0}, NEW q, q.packed \in Nat, q.loose \in Nat
  PROVE  Units(q, u) \in Nat /\ (q \in Quantity /\ q # Zero => Units(q, u) > 0)
<1>1. \A a \in Nat : a * u \in Nat /\ (a > 0 => a * u > 0)
  BY Z3
<1>2. Units(q, u) \in Nat
  BY <1>1 DEF Units
<1>3. q \in Quantity /\ q # Zero => q.packed # 0 \/ q.loose # 0
  BY DEF Quantity, Zero
<1>. QED  BY <1>1, <1>2, <1>3 DEF Units

(* Quantities are worth the more the larger they are.                      *)
LEMMA UnitsMonotonic ==
  ASSUME NEW u \in Nat \ {0}, NEW q \in Quantity, NEW x \in Quantity,
         q.packed <= x.packed, q.loose <= x.loose
  PROVE  Units(q, u) <= Units(x, u)
<1>1. \A a, b \in Nat : a <= b => a * u <= b * u /\ a * u \in Nat /\ b * u \in Nat
  BY Z3
<1>. QED  BY <1>1 DEF Units, Quantity

LEMMA UnitsNegated ==
  ASSUME NEW u \in Nat \ {0}, NEW q \in Quantity
  PROVE  Units(Negated(q), u) = - Units(q, u)
<1>1. \A a \in Nat : (-a) * u = -(a * u) /\ a * u \in Nat
  BY Z3
<1>. QED  BY <1>1 DEF Units, Negated, Quantity

LEMMA PackSizeBreaks ==
  ASSUME \E u \in PackSizes : Breaks(u)
  PROVE  PackSize \in PackSizes /\ Breaks(PackSize) /\ PackSize \in Nat \ {0}
<1>1. PackSize \in PackSizes /\ Breaks(PackSize)
  BY DEF PackSize
<1>. QED  BY <1>1, LedgerAssumption DEF Breaks, Size, NoPack

(* A commit moves what its element holds by the worth of its delta, and    *)
(* nobody else's.                                                          *)
LEMMA CommitHolds ==
  ASSUME Serial, TypeInv', \E u \in PackSizes : Breaks(u), NEW w \in Workers, Commits(w)
  PROVE  LET e == req[w].elt IN
         /\ e \in Elements
         /\ Units(level'[e], PackSize) = Units(level[e], PackSize) + Units(req[w].delta, PackSize)
         /\ \A x \in Elements : Held(x) \in Nat /\ Held(x)' \in Nat
         /\ \A x \in Elements \ {e} : Held(x)' = Held(x)
<1>. DEFINE e == req[w].elt
<1>1. /\ Writing(req[w]) /\ e \in Elements /\ level'[e] = req[w].next
      /\ \A x \in Elements \ {e} : level'[x] = level[x]
  BY CommitWrites DEF Serial
<1>2. Units(req[w].next, PackSize) = Units(req[w].read, PackSize) + Units(req[w].delta, PackSize)
  BY PackSizeBreaks DEF Serial, Worth, Exact
<1>3. req[w].read = level[e]
  BY <1>1 DEF Serial, Fresh
<1>4. \A x \in Elements : level[x] \in Level /\ level'[x] \in Level
  BY DEF Serial, TypeInv, TypeOK
<1>5. \A x \in Elements : Held(x) \in Nat /\ Held(x)' \in Nat
  BY <1>4, PackSizeBreaks, UnitsNat DEF Held, Level
<1>6. Units(level'[e], PackSize) = Units(level[e], PackSize) + Units(req[w].delta, PackSize)
  BY <1>1, <1>2, <1>3
<1>7. \A x \in Elements \ {e} : Held(x)' = Held(x)
  BY <1>1 DEF Held
<1>. QED  BY <1>1, <1>5, <1>6, <1>7

HeldOf == [e \in Elements |-> Units(level[e], PackSize)]
WaysOf == [t \in Transfers |-> WayOf(transfer[t])]

(* A commit is a step of the goods.                                        *)
LEMMA CommitRefines ==
  ASSUME Serial, TypeInv', \E u \in PackSizes : Breaks(u), NEW w \in Workers, Commits(w)
  PROVE  Custody!Next
<1>. DEFINE r == req[w]
            e == r.elt
            t == r.target
            n(q) == Units(q, PackSize)
<1>0. /\ transfer \in [Transfers -> TransferRow] /\ r \in Request /\ r.qty \in Quantity
      /\ PackSize \in Nat \ {0} /\ Intent(r)
  <2>1. TypeInv /\ (\A v \in Workers : Intent(req[v]))
    BY DEF Serial, Intents
  <2>2. r \in Request /\ transfer \in [Transfers -> TransferRow]
    BY <2>1 DEF TypeInv, TypeOK
  <2>. QED  BY <2>1, <2>2, PackSizeBreaks DEF Request
<1>1. /\ e \in Elements /\ HeldOf'[e] = HeldOf[e] + n(r.delta)
      /\ \A x \in Elements : HeldOf[x] \in Nat /\ HeldOf'[x] \in Nat
      /\ \A x \in Elements \ {e} : HeldOf'[x] = HeldOf[x]
  BY CommitHolds DEF Held, HeldOf
<1>2. HeldOf' = [HeldOf EXCEPT ![e] = HeldOf'[e]]
  BY <1>1 DEF HeldOf
<1>3. r.delta = r.qty => HeldOf'[e] = HeldOf[e] + n(r.qty)
  BY <1>1
<1>4. r.delta = Negated(r.qty) => HeldOf'[e] = HeldOf[e] - n(r.qty)
  BY <1>0, <1>1, UnitsNegated, UnitsNat DEF Quantity
<1>5. n(r.qty) \in Nat /\ (r.qty # Zero => n(r.qty) > 0)
  BY <1>0, UnitsNat DEF Quantity
<1>6. CASE CommitPlain(w) \/ (\E d \in Deposits : CommitDeposit(w, d)) \/ CancelCommit(w)
  <2>1. UNCHANGED WaysOf
    BY <1>6 DEF CommitPlain, CommitDeposit, CancelCommit, WaysOf
  <2>2. CASE r.pc \in {"add", "deposit"}
    <3>1. HeldOf'[e] > HeldOf[e]
      BY <1>0, <1>1, <1>3, <1>5, <2>2 DEF Intent
    <3>. QED  BY <1>1, <1>2, <2>1, <3>1 DEF Custody!Next, Custody!Receive, Custody!OnlyAt, HeldOf, WaysOf
  <2>3. CASE r.pc \in {"remove", "cancel"}
    <3>1. HeldOf'[e] \in 0 .. HeldOf[e]
      BY <1>0, <1>1, <1>4, <1>5, <2>3 DEF Intent
    <3>. QED  BY <1>1, <1>2, <2>1, <3>1 DEF Custody!Next, Custody!Issue, Custody!OnlyAt, HeldOf, WaysOf
  <2>. QED  BY <1>6, <2>2, <2>3 DEF CommitPlain, CommitDeposit, CancelCommit
<1>7. ASSUME NEW x \in Transfers, CommitShip(w, x) PROVE Custody!Next
  <2>1. /\ r.pc = "ship" /\ transfer[x].state = "free" /\ r.dst # e /\ r.qty # Zero
        /\ r.delta = Negated(r.qty)
    BY <1>0, <1>7 DEF CommitShip, Intent
  <2>2. /\ transfer'[x].state = "PENDING" /\ transfer'[x].src = e /\ transfer'[x].dst = r.dst
        /\ transfer'[x].qty = r.qty /\ \A y \in Transfers \ {x} : transfer'[y] = transfer[y]
    BY <1>0, <1>7 DEF CommitShip, FreeTransfer
  <2>3. WaysOf[x].stage = "none"
    BY <2>1 DEF WaysOf, WayOf
  <2>4. /\ WaysOf'[x].stage = "moving" /\ WaysOf'[x].from = e /\ WaysOf'[x].to = r.dst
        /\ WaysOf'[x].n = n(r.qty)
    BY <2>2 DEF WaysOf, WayOf
  <2>5. WaysOf' = [WaysOf EXCEPT ![x] = WaysOf'[x]]
    BY <2>2 DEF WaysOf
  <2>6. n(r.qty) \in 1 .. HeldOf[e] /\ HeldOf' = [HeldOf EXCEPT ![e] = @ - n(r.qty)]
    BY <1>1, <1>2, <1>4, <1>5, <2>1
  <2>7. Custody!Depart(x)
    BY <2>1, <2>3, <2>4, <2>5, <2>6 DEF Custody!Depart, HeldOf, WaysOf
  <2>. QED  BY <2>7 DEF Custody!Next
<1>8. CASE ConfirmCommit(w)
  <2>1. /\ r.pc = "confirm" /\ t \in Transfers /\ transfer[t].state = "PENDING"
        /\ e = transfer[t].dst /\ r.delta = r.qty
        /\ r.qty.packed <= transfer[t].qty.packed /\ r.qty.loose <= transfer[t].qty.loose
    BY <1>0, <1>8 DEF ConfirmCommit, Serial, TypeInv, Known, RequestKnown, StillWaiting, Settling, Intent
  <2>2. /\ transfer'[t].state = "CONFIRMED" /\ transfer'[t].src = transfer[t].src
        /\ transfer'[t].dst = transfer[t].dst /\ transfer'[t].qty = transfer[t].qty
        /\ \A y \in Transfers \ {t} : transfer'[y] = transfer[y]
    <3>1. transfer[t] \in TransferRow
      BY <1>0, <2>1
    <3>. QED  BY <1>0, <1>8, <2>1, <3>1 DEF ConfirmCommit, TransferRow
  <2>3. WaysOf[t].stage = "moving" /\ WaysOf[t].to = e /\ WaysOf[t].n = n(transfer[t].qty)
    BY <2>1 DEF WaysOf, WayOf
  <2>4. WaysOf' = [WaysOf EXCEPT ![t].stage = "arrived"]
    BY <2>1, <2>2 DEF WaysOf, WayOf
  <2>5. HeldOf'[e] - HeldOf[e] \in 0 .. n(transfer[t].qty)
    <3>1. transfer[t].qty \in Quantity
      BY <1>0, <2>1 DEF TransferRow
    <3>2. n(r.qty) <= n(transfer[t].qty) /\ n(transfer[t].qty) \in Nat
      BY <1>0, <2>1, <3>1, UnitsMonotonic, UnitsNat DEF Quantity
    <3>. QED  BY <1>1, <1>3, <1>5, <2>1, <3>2
  <2>6. Custody!Arrive(t)
    BY <1>2, <2>3, <2>4, <2>5 DEF Custody!Arrive, Custody!OnlyAt, HeldOf, WaysOf
  <2>. QED  BY <2>1, <2>6 DEF Custody!Next
<1>9. CASE ReverseCommit(w)
  <2>1. /\ r.pc = "reverse" /\ t \in Transfers /\ transfer[t].state = "PENDING"
        /\ e = transfer[t].src /\ r.delta = transfer[t].qty
    BY <1>0, <1>9 DEF ReverseCommit, Serial, TypeInv, Known, RequestKnown, StillWaiting, Settling, Intent
  <2>2. /\ transfer'[t].state = "deleted" /\ transfer'[t].src = transfer[t].src
        /\ transfer'[t].dst = transfer[t].dst /\ transfer'[t].qty = transfer[t].qty
        /\ \A y \in Transfers \ {t} : transfer'[y] = transfer[y]
    <3>1. transfer[t] \in TransferRow
      BY <1>0, <2>1
    <3>. QED  BY <1>0, <1>9, <2>1, <3>1 DEF ReverseCommit, TransferRow
  <2>3. WaysOf[t].stage = "moving" /\ WaysOf[t].from = e /\ WaysOf[t].n = n(transfer[t].qty)
    BY <2>1 DEF WaysOf, WayOf
  <2>4. WaysOf' = [WaysOf EXCEPT ![t].stage = "back"]
    BY <2>1, <2>2 DEF WaysOf, WayOf
  <2>5. HeldOf' = [HeldOf EXCEPT ![e] = @ + n(transfer[t].qty)]
    BY <1>1, <1>2, <2>1
  <2>6. Custody!GoBack(t)
    BY <2>3, <2>4, <2>5 DEF Custody!GoBack, HeldOf, WaysOf
  <2>. QED  BY <2>1, <2>6 DEF Custody!Next
<1>. QED  BY <1>6, <1>7, <1>8, <1>9 DEF Commits

LEMMA CustodyStep ==
  ASSUME \E u \in PackSizes : Breaks(u)
  PROVE  Serial /\ TypeInv' /\ Alone /\ [Next]_vars => [Custody!Next]_<<HeldOf, WaysOf>>
<1>. SUFFICES ASSUME Serial, TypeInv', Alone, [Next]_vars PROVE [Custody!Next]_<<HeldOf, WaysOf>>
  OBVIOUS
<1>1. ASSUME NEW w \in Workers, NEW r, Asks(w, r) PROVE UNCHANGED <<level, transfer>>
  BY <1>1 DEF Asks, storeVars
<1>2. UNCHANGED <<level, transfer>> => UNCHANGED <<HeldOf, WaysOf>>
  BY DEF HeldOf, WaysOf
<1>3. ASSUME NEW w \in Workers, Commits(w) PROVE Custody!Next
  BY <1>3, CommitRefines
<1>4. UNCHANGED <<level, transfer>> \/ Custody!Next
  <2>1. ASSUME NEW w \in Workers, WorkerStep(w) PROVE UNCHANGED <<level, transfer>> \/ Custody!Next
    BY <2>1, <1>1, <1>3, WorkerAsksOrCommits DEF Serial, Intents
  <2>2. (\E c \in Counters : CounterStep(c)) \/ (\E e \in Elements : Sell(e)) \/ UNCHANGED vars
           => UNCHANGED <<level, transfer>>
    BY DEF Alone, CounterStep, ResetRead, ResetCommit, ResetAbort, Sell, vars, storeVars
  <2>. QED  BY <2>1, <2>2 DEF Next
<1>. QED  BY <1>2, <1>4

(* The ledger keeps custody of the goods, for any number of elements,      *)
(* transfers, deposits and quantities, while requests come one at a time:  *)
(* an element never gives what it does not hold, what is on its way        *)
(* arrives once, or goes back where it came from.                          *)
THEOREM LedgerKeepsCustody ==
  ASSUME \E u \in PackSizes : Breaks(u)
  PROVE  Spec /\ []Alone => ImplementsCustody
<1>1. Init => Custody!Init
  <2>. SUFFICES ASSUME Init PROVE Custody!Init
    OBVIOUS
  <2>1. PackSize \in Nat \ {0}
    BY PackSizeBreaks
  <2>2. \A e \in Elements : Units(level[e], PackSize) \in Nat
    BY <2>1, LedgerAssumption, UnitsNat DEF Init, Level
  <2>3. \A t \in Transfers : WayOf(transfer[t]) = [stage |-> "none", from |-> None, to |-> None, n |-> 0]
    <3>1. Units(Zero, PackSize) = 0
      BY <2>1, Z3 DEF Units, Zero
    <3>. QED  BY <3>1 DEF Init, WayOf, FreeTransfer
  <2>. QED  BY <2>2, <2>3 DEF Custody!Init
<1>2. Alone => Apart
  BY DEF Alone, Apart, Settling
<1>3. Init => Fresh
  BY DEF Init, Fresh, Writing, Idle
<1>4. Init => Worth /\ LedgerAgrees
  BY AgreesInit
<1>5. Spec /\ []Alone => []Serial
  BY <1>2, <1>3, <1>4, ApartWaits, TypeInit, TypeStep, IntentInit, IntentStep, FreshStep, AgreesStep, PTL
     DEF Spec, Serial
<1>6. Serial /\ TypeInv' /\ Alone /\ [Next]_vars
        => [Custody!Next]_<<[e \in Elements |-> Units(level[e], PackSize)],
                            [t \in Transfers |-> WayOf(transfer[t])]>>
  BY CustodyStep DEF HeldOf, WaysOf
<1>7. Spec => []TypeInv
  BY TypeInit, TypeStep, PTL DEF Spec
<1>. QED
  BY <1>1, <1>5, <1>6, <1>7, PTL DEF Spec, ImplementsCustody, Custody!Spec

-----------------------------------------------------------------------------
(***************************************************************************)
(* Restocking tasks, for every set of tasks, workers, clerks and stocks: a *)
(* task is COMPLETED only after its own transfer credited the destination, *)
(* and until a call is cut short or the Logistic screen comes in it says   *)
(* where its goods are.  Both hold as long as no two calls work on the     *)
(* same task at the same time, which the service does not enforce: the     *)
(* status is checked in a statement of its own, the row updated in another.*)
(*                                                                         *)
(* Progress (per call: OnTask, Asking; per task: TaskFits; Told) is        *)
(* inductive whatever dies or interferes; Goods, on top of it, while       *)
(* nothing did.                                                            *)
(***************************************************************************)


(* The ledger's own invariant, and the rows of the tasks.                  *)
Rows ==
  /\ TypeInv /\ TransferSettled
  /\ \A t \in Transfers : transfer[t].state = "free" => transfer[t].credits = 0

TasksTyped ==
  /\ task \in [Tasks -> TaskRow] /\ call \in [Workers -> Call] /\ notified \in Nat

(* A request touches its own row in req.                                   *)
LEMMA OwnRequest ==
  ASSUME TypeInv, NEW w \in Workers, WorkerStep(w)
  PROVE  \A v \in Workers \ {w} : req'[v] = req[v]
<1>0. req \in [Workers -> Request]
  BY DEF TypeInv, TypeOK
<1>1. CASE \E e \in Elements, q \in Quantities, upp \in PackSizes :
             \/ Add(w, e, q, upp) \/ Remove(w, e, q, upp) \/ Deposit(w, e, q, upp)
             \/ \E dst \in Elements : Ship(w, e, dst, q, upp)
  BY <1>0, <1>1 DEF Add, Remove, Deposit, Ship, ReadLevel
<1>2. CASE \/ \E d \in Deposits : CancelBegin(w, d)
           \/ \E t \in Transfers : ReverseBegin(w, t)
           \/ \E t \in Transfers, q \in Quantities : ConfirmRead(w, t, q)
           \/ \E upp \in PackSizes : ConfirmBegin(w, upp)
           \/ Rollback(w)
  BY <1>0, <1>2 DEF CancelBegin, ReverseBegin, ConfirmRead, ConfirmBegin, ReadLevel, Rollback
<1>3. CASE Commits(w)
  BY <1>3, CommitWrites
<1>. QED  BY <1>1, <1>2, <1>3 DEF WorkerStep, Commits

(* What any step of the ledger does to a transfer that left its source: it *)
(* never goes back to being free, nor does it lose a credit.               *)
LEMMA CreditsStay ==
  ASSUME Rows, [Next]_vars, NEW t \in Transfers
  PROVE  /\ transfer[t].state # "free" =>
              transfer'[t].state # "free" /\ transfer'[t].credits >= transfer[t].credits
         /\ transfer'[t].state = "free" => transfer'[t].credits = 0
<1>0. /\ transfer \in [Transfers -> TransferRow] /\ transfer[t] \in TransferRow
      /\ transfer[t].credits \in Nat
  BY DEF Rows, TypeInv, TypeOK, TransferRow
<1>1. ASSUME NEW w \in Workers, NEW x \in Transfers, CommitShip(w, x)
      PROVE  x # t \/ (transfer[t].state = "free" /\ transfer'[t].state = "PENDING")
  BY <1>0, <1>1 DEF CommitShip, FreeTransfer
<1>2. ASSUME NEW w \in Workers, NEW x \in Transfers, CommitShip(w, x), x # t
      PROVE  transfer'[t] = transfer[t]
  BY <1>0, <1>2 DEF CommitShip
<1>3. ASSUME NEW w \in Workers, ConfirmCommit(w)
      PROVE  \/ transfer'[t] = transfer[t]
             \/ transfer'[t].state = "CONFIRMED" /\ transfer'[t].credits = transfer[t].credits + 1
  BY <1>0, <1>3 DEF ConfirmCommit, TransferRow
<1>4. ASSUME NEW w \in Workers, ReverseCommit(w)
      PROVE  \/ transfer'[t] = transfer[t]
             \/ transfer'[t].state = "deleted" /\ transfer'[t].credits = transfer[t].credits
  BY <1>0, <1>4 DEF ReverseCommit, TransferRow
<1>5. ASSUME NEW w \in Workers, CancelCommit(w) \/ \E d \in Deposits : CommitDeposit(w, d)
      PROVE  UNCHANGED transfer
  BY <1>5 DEF CancelCommit, CommitDeposit
<1>6. transfer[t].state = "free" => transfer[t].credits = 0
  BY DEF Rows
<1>. QED  BY <1>0, <1>1, <1>2, <1>3, <1>4, <1>5, <1>6, WhoChangesRows

(* So the ledger keeps its invariant.                                      *)
LEMMA LedgerKeepsRows == Rows /\ [Next]_vars => Rows'
BY TypeStep, SettledStep, CreditsStay DEF Rows

(* Forgetting requests keeps it too: a refused call, a crash.              *)
LEMMA ForgetKeepsRows ==
  ASSUME Rows, req' \in [Workers -> Request],
         \A w \in Workers : req'[w] = req[w] \/ req'[w] = Idle,
         UNCHANGED <<storeVars, recount, spent, absorbed, raced>>
  PROVE  Rows'
<1>1. TypeOK'
  BY DEF Rows, TypeInv, TypeOK, storeVars
<1>2. ASSUME NEW w \in Workers PROVE RequestKnown(req[w])'
  <2>1. RequestKnown(req[w]) /\ UNCHANGED transfer
    BY DEF Rows, TypeInv, Known, storeVars
  <2>2. CASE req'[w] = Idle
    BY <2>2 DEF RequestKnown, Idle
  <2>. QED  BY <2>1, <2>2 DEF RequestKnown
<1>3. Known'
  BY <1>2 DEF Rows, TypeInv, Known, storeVars
<1>4. TransferSettled'
  BY DEF Rows, TransferSettled, storeVars
<1>. QED  BY <1>1, <1>3, <1>4 DEF Rows, TypeInv, storeVars

(* drop asks for the whole load: confirmRead of it is a request like any   *)
(* other.                                                                  *)
LEMMA WholeLoadKeepsRows ==
  ASSUME Rows, NEW w \in Workers, NEW t \in Transfers, ConfirmRead(w, t, transfer[t].qty)
  PROVE  Rows'
<1>. DEFINE r == Confirming(t, transfer[t].qty)
<1>1. transfer[t] \in TransferRow /\ transfer[t].state = "PENDING" /\ transfer[t].dst \in Elements
  BY DEF ConfirmRead, Rows, TypeInv, TypeOK, Known
<1>2. r \in Request
  BY <1>1 DEF Confirming, Request, TransferRow, Zero, Delta, Quantity, NoLevel, Level, Size, NoPack
<1>3. RequestKnown(r)
  <2>1. transfer[t].qty.packed \in Nat /\ transfer[t].qty.loose \in Nat
    BY <1>1 DEF TransferRow, Quantity
  <2>. QED  BY <1>1, <2>1 DEF RequestKnown, Confirming
<1>4. req' = [req EXCEPT ![w] = r] /\ UNCHANGED <<storeVars, recount, spent, absorbed, raced>>
  BY DEF ConfirmRead
<1>. HIDE DEF r
<1>5. Known'
  BY <1>2, <1>3, <1>4, ReadKeepsKnown DEF Rows, storeVars
<1>6. TypeOK'
  BY <1>2, <1>4 DEF Rows, TypeInv, TypeOK, storeVars
<1>. QED  BY <1>4, <1>5, <1>6 DEF Rows, TypeInv, TransferSettled, storeVars
------------------------------------------------------------------------------
(* The status a task has while a call works on it.                         *)
Due(pc) == CASE pc \in {"pickup", "picked"} -> "PENDING"
             [] pc = "count" -> "COMPLETED"
             [] OTHER -> "PICKED_UP"

(* A call works on a task whose row has not moved since it looked at it,   *)
(* and knows the transfer that row names.                                  *)
OnTask(w) ==
  LET c == call[w] IN
  /\ c.pc = "idle" => c = NoCall
  /\ c.pc # "idle" => c.k \in Handles[w] /\ w \notin Clerks /\ task[c.k].status = Due(c.pc)
  /\ c.pc \notin {"idle", "pickup"} => c.mv \in Transfers /\ transfer[c.mv].state # "free"
  /\ c.pc \notin {"idle", "pickup", "picked"} => task[c.k].mv = c.mv
  /\ c.pc \in {"dropped", "count"} => transfer[c.mv].credits > 0

(* What the call has asked of the ledger.                                  *)
Asking(w) ==
  w \notin Clerks =>
    \/ req[w].pc = "idle"
    \/ At(w, "pickup") /\ req[w].pc = "ship"
    \/ At(w, "drop") /\ req[w].pc \in {"confirmRead", "confirm"} /\ req[w].target = call[w].mv
    \/ At(w, "undo") /\ req[w].pc = "reverse" /\ req[w].target = call[w].mv

TaskFits(k) ==
  /\ task[k].mv # None => transfer[task[k].mv].state # "free"
  /\ task[k].status = "COMPLETED" => task[k].mv # None /\ transfer[task[k].mv].credits > 0

Told == notified > 0 => Remaining = {}

Progress ==
  /\ \A w \in Workers : OnTask(w) /\ Asking(w)
  /\ \A k \in Tasks : TaskFits(k)
  /\ Told

(* No two calls work on the same task.                                     *)
OneCall ==
  \A v, w \in Workers :
    ~At(v, "idle") /\ ~At(w, "idle") /\ call[v].k = call[w].k => v = w

(* Transfers only move on.                                                 *)
MovesOn ==
  \A t \in Transfers : transfer[t].state # "free" =>
    transfer'[t].state # "free" /\ transfer'[t].credits >= transfer[t].credits

(* What a step of one worker leaves alone.                                 *)
OnlyWorker(w) ==
  /\ \A v \in Workers \ {w} : call'[v] = call[v] /\ req'[v] = req[v]
  /\ \A k \in Tasks : task'[k] = task[k] \/ (~At(w, "idle") /\ k = call[w].k)

LEMMA OthersKeepOn ==
  ASSUME Rows, Rows', TasksTyped, Progress, OneCall, MovesOn, NEW w \in Workers, OnlyWorker(w)
  PROVE  /\ \A v \in Workers \ {w} : (OnTask(v) /\ Asking(v))'
         /\ \A k \in Tasks : task'[k] = task[k] => TaskFits(k)'
<1>1. ASSUME NEW t \in Transfers
      PROVE  /\ transfer[t].credits \in Nat /\ transfer'[t].credits \in Nat
             /\ transfer[t].state # "free" => transfer'[t].credits >= transfer[t].credits
  BY DEF MovesOn, Rows, TypeInv, TypeOK, TransferRow
<1>2. ASSUME NEW v \in Workers \ {w} PROVE (OnTask(v) /\ Asking(v))'
  <2>1. OnTask(v) /\ Asking(v) /\ call'[v] = call[v] /\ req'[v] = req[v]
    BY DEF Progress, OnlyWorker
  <2>2. call[v] \in Call /\ Handles[v] \subseteq Tasks
    BY TaskAssumption DEF TasksTyped
  <2>3. call[v].pc # "idle" => task'[call[v].k] = task[call[v].k]
    BY <2>1, <2>2 DEF OnlyWorker, OneCall, At, OnTask
  <2>4. call[v].pc \notin {"idle", "pickup"} =>
          call[v].mv \in Transfers /\ transfer'[call[v].mv].state # "free"
    BY <2>1 DEF OnTask, MovesOn
  <2>5. call[v].pc \in {"dropped", "count"} => transfer'[call[v].mv].credits > 0
    <3>1. SUFFICES ASSUME call[v].pc \in {"dropped", "count"}
                   PROVE  transfer'[call[v].mv].credits > 0
      OBVIOUS
    <3>2. call[v].mv \in Transfers /\ transfer[call[v].mv].state # "free" /\ transfer[call[v].mv].credits > 0
      BY <2>1, <3>1 DEF OnTask
    <3>3. /\ transfer'[call[v].mv].credits >= transfer[call[v].mv].credits
          /\ transfer[call[v].mv].credits \in Nat /\ transfer'[call[v].mv].credits \in Nat
      BY <1>1, <3>2
    <3>. QED  BY <3>2, <3>3
  <2>6. OnTask(v)'
    BY <2>1, <2>3, <2>4, <2>5 DEF OnTask
  <2>7. Asking(v)'
    BY <2>1 DEF Asking, At
  <2>. QED  BY <2>6, <2>7
<1>3. ASSUME NEW k \in Tasks, task'[k] = task[k] PROVE TaskFits(k)'
  <2>1. TaskFits(k) /\ task[k].mv \in Transfers \cup {None}
    BY DEF Progress, TasksTyped, TaskRow
  <2>2. task[k].mv # None => transfer'[task[k].mv].state # "free"
    BY <2>1 DEF TaskFits, MovesOn
  <2>3. task[k].status = "COMPLETED" => task[k].mv # None /\ transfer'[task[k].mv].credits > 0
    BY <1>1, <2>1 DEF TaskFits
  <2>. QED  BY <1>3, <2>2, <2>3 DEF TaskFits
<1>. QED  BY <1>2, <1>3

(* What every step of a call has to keep.                                  *)
Proceeds(w) ==
  /\ Rows' /\ TasksTyped' /\ MovesOn /\ OnlyWorker(w)
  /\ OnTask(w)' /\ Asking(w)' /\ Told'
  /\ \A k \in Tasks : task'[k] = task[k] \/ TaskFits(k)'

(* A step of the ledger only moves transfers on.                           *)
LEMMA LedgerMovesOn == Rows /\ [Next]_vars => Rows' /\ MovesOn
BY LedgerKeepsRows, CreditsStay DEF MovesOn

LEMMA RowsStayed == Rows /\ UNCHANGED vars => Rows' /\ MovesOn
BY LedgerMovesOn

(* A call begins: on a task with the status it wants.                      *)
LEMMA BeginProceeds ==
  ASSUME Rows, TasksTyped, Progress, NEW w \in Workers, NEW k \in Tasks,
         Pickup(w, k) \/ Drop(w, k) \/ UndoPickup(w, k)
  PROVE  Proceeds(w) /\ transfer' = transfer
<1>1. PICK pc \in {"pickup", "drop", "undo"} :
        Begin(w, k, IF pc = "pickup" THEN "PENDING" ELSE "PICKED_UP", pc)
  BY DEF Pickup, Drop, UndoPickup
<1>2. /\ call[w].pc = "idle" /\ w \notin Clerks /\ k \in Handles[w]
      /\ task[k].status = (IF pc = "pickup" THEN "PENDING" ELSE "PICKED_UP")
      /\ pc # "pickup" => task[k].mv # None
      /\ call' = [call EXCEPT ![w] = [pc |-> pc, k |-> k, mv |-> task[k].mv]]
      /\ UNCHANGED <<vars, task, notified, mishaps>> /\ req[w] = Idle
  BY <1>1 DEF Begin, At, Unchanged3
<1>3. /\ task[k] \in TaskRow /\ call \in [Workers -> Call] /\ TaskFits(k)
      /\ task[k].mv \in Transfers \cup {None}
  BY DEF TasksTyped, Progress, TaskRow
<1>4. TasksTyped'
  BY <1>2, <1>3 DEF TasksTyped, Call
<1>5. call'[w].pc = pc /\ call'[w].k = k /\ call'[w].mv = task[k].mv
  BY <1>2, <1>3
<1>6. /\ \A v \in Workers \ {w} : call'[v] = call[v]
      /\ task' = task /\ notified' = notified /\ req' = req /\ transfer' = transfer
  BY <1>2, <1>3 DEF vars, storeVars
<1>7. OnTask(w)'
  BY <1>2, <1>3, <1>5, <1>6 DEF OnTask, Due, TaskFits
<1>8. Asking(w)'
  BY <1>2, <1>6 DEF Asking, Idle
<1>9. OnlyWorker(w) /\ Told'
  BY <1>6 DEF OnlyWorker, Progress, Told, Remaining
<1>. QED  BY <1>2, <1>4, <1>6, <1>7, <1>8, <1>9, RowsStayed DEF Proceeds

(* The call asks the ledger: the tasks and the transfers stay.             *)
LEMMA AskProceeds ==
  ASSUME Rows, TasksTyped, Progress, NEW w \in Workers,
         \/ \E upp \in PackSizes : PickupShip(w, upp) \/ DropConfirm(w, upp)
         \/ DropRead(w) \/ UndoReverse(w)
  PROVE  Proceeds(w) /\ transfer' = transfer /\ UNCHANGED taskVars
<1>1. OnTask(w) /\ Asking(w) /\ call[w] \in Call /\ Handles[w] \subseteq Tasks
  BY TaskAssumption DEF Progress, TasksTyped
<1>2. call[w].pc \in {"pickup", "drop", "undo"} /\ UNCHANGED taskVars
  BY DEF PickupShip, DropConfirm, DropRead, UndoReverse, At
<1>3. call[w].k \in Tasks /\ w \notin Clerks
  BY <1>1, <1>2 DEF OnTask
<1>4. call[w].pc # "pickup" => call[w].mv \in Transfers
  BY <1>1, <1>2 DEF OnTask
<1>. DEFINE Asked ==
       /\ Rows' /\ \A v \in Workers \ {w} : req'[v] = req[v]
       /\ transfer' = transfer /\ Asking(w)'
<1>5. Asked
  <2>0. req \in [Workers -> Request]
    BY DEF Rows, TypeInv, TypeOK
  <2>1. ASSUME NEW upp \in PackSizes, PickupShip(w, upp)
        PROVE  Asked
    <3>1. At(w, "pickup") /\ Ship(w, Source[call[w].k], Target[call[w].k], Load[call[w].k], upp)
      BY <2>1 DEF PickupShip
    <3>2. /\ Source[call[w].k] \in Elements /\ Target[call[w].k] \in Elements
          /\ Load[call[w].k] \in Quantities
      BY <1>3, TaskAssumption
    <3>3. WorkerStep(w)
      BY <3>1, <3>2, <2>1 DEF WorkerStep
    <3>4. Rows'
      BY <3>3, LedgerKeepsRows DEF Next
    <3>5. \A v \in Workers \ {w} : req'[v] = req[v]
      BY <3>3, OwnRequest DEF Rows
    <3>6. transfer' = transfer /\ req'[w].pc = "ship"
      BY <2>0, <3>1 DEF Ship, ReadLevel, storeVars
    <3>7. Asking(w)'
      BY <1>2, <3>1, <3>6 DEF Asking, At, taskVars
    <3>. QED  BY <3>4, <3>5, <3>6, <3>7
  <2>2. ASSUME NEW upp \in PackSizes, DropConfirm(w, upp)
        PROVE  Asked
    <3>1. At(w, "drop") /\ ConfirmBegin(w, upp)
      BY <2>2 DEF DropConfirm
    <3>2. WorkerStep(w)
      BY <3>1 DEF WorkerStep
    <3>3. Rows'
      BY <3>2, LedgerKeepsRows DEF Next
    <3>4. \A v \in Workers \ {w} : req'[v] = req[v]
      BY <3>2, OwnRequest DEF Rows
    <3>5. transfer' = transfer /\ req'[w].pc = "confirm" /\ req'[w].target = req[w].target
      BY <2>0, <3>1 DEF ConfirmBegin, ReadLevel, storeVars
    <3>6. req[w].target = call[w].mv
      BY <1>1, <1>3, <3>1 DEF Asking, At, ConfirmBegin
    <3>7. Asking(w)'
      BY <1>2, <3>1, <3>5, <3>6 DEF Asking, At, taskVars
    <3>. QED  BY <3>3, <3>4, <3>5, <3>7
  <2>3. CASE DropRead(w)
    <3>1. At(w, "drop") /\ ConfirmRead(w, call[w].mv, transfer[call[w].mv].qty)
      BY <2>3 DEF DropRead
    <3>2. call[w].mv \in Transfers
      BY <1>4, <3>1 DEF At
    <3>3. Rows'
      BY <3>1, <3>2, WholeLoadKeepsRows
    <3>4. req' = [req EXCEPT ![w] = Confirming(call[w].mv, transfer[call[w].mv].qty)] /\ transfer' = transfer
      BY <3>1 DEF ConfirmRead, storeVars
    <3>5. req'[w].pc = "confirmRead" /\ req'[w].target = call[w].mv
          /\ \A v \in Workers \ {w} : req'[v] = req[v]
      BY <2>0, <3>4 DEF Confirming
    <3>6. Asking(w)'
      BY <1>2, <3>1, <3>5 DEF Asking, At, taskVars
    <3>. QED  BY <3>3, <3>4, <3>5, <3>6
  <2>4. CASE UndoReverse(w)
    <3>1. At(w, "undo") /\ ReverseBegin(w, call[w].mv)
      BY <2>4 DEF UndoReverse
    <3>2. call[w].mv \in Transfers
      BY <1>4, <3>1 DEF At
    <3>3. WorkerStep(w)
      BY <3>1, <3>2 DEF WorkerStep
    <3>4. Rows'
      BY <3>3, LedgerKeepsRows DEF Next
    <3>5. \A v \in Workers \ {w} : req'[v] = req[v]
      BY <3>3, OwnRequest DEF Rows
    <3>6. transfer' = transfer /\ req'[w].pc = "reverse" /\ req'[w].target = call[w].mv
      BY <2>0, <3>1 DEF ReverseBegin, ReadLevel, storeVars
    <3>7. Asking(w)'
      BY <1>2, <3>1, <3>6 DEF Asking, At, taskVars
    <3>. QED  BY <3>4, <3>5, <3>6, <3>7
  <2>. QED  BY <2>1, <2>2, <2>3, <2>4
<1>6. call' = call /\ task' = task /\ notified' = notified
  BY <1>2 DEF taskVars
<1>7. MovesOn
  <2>1. \A t \in Transfers : transfer[t].credits \in Nat
    BY DEF Rows, TypeInv, TypeOK, TransferRow
  <2>. QED  BY <1>5, <2>1 DEF MovesOn
<1>8. TasksTyped' /\ OnTask(w)' /\ Told' /\ OnlyWorker(w)
  BY <1>1, <1>5, <1>6 DEF TasksTyped, OnTask, Told, Remaining, OnlyWorker, Progress
<1>. QED  BY <1>2, <1>5, <1>6, <1>7, <1>8 DEF Proceeds

(* The transaction of the ledger commits, and the call goes on.            *)
LEMMA CommitProceeds ==
  ASSUME Rows, TasksTyped, Progress, NEW w \in Workers,
         \/ \E t \in Transfers : PickupCommit(w, t)
         \/ DropCommit(w) \/ UndoCommit(w)
  PROVE  Proceeds(w) /\ task' = task
<1>0. /\ req \in [Workers -> Request] /\ call \in [Workers -> Call]
      /\ transfer \in [Transfers -> TransferRow]
      /\ \A t \in Transfers : transfer[t].credits \in Nat
  BY DEF Rows, TypeInv, TypeOK, TasksTyped, TransferRow
<1>1. OnTask(w) /\ Asking(w) /\ call[w] \in Call /\ Handles[w] \subseteq Tasks
  BY <1>0, TaskAssumption DEF Progress
<1>2. /\ call[w].pc \in {"pickup", "drop", "undo"} /\ UNCHANGED <<task, notified, mishaps>>
      /\ Commits(w) /\ WorkerStep(w)
  BY DEF PickupCommit, DropCommit, UndoCommit, At, Unchanged3, Commits, WorkerStep
<1>3. Rows' /\ MovesOn
  BY <1>2, LedgerMovesOn DEF Next
<1>4. req'[w] = Idle /\ \A v \in Workers \ {w} : req'[v] = req[v]
  BY <1>2, CommitWrites DEF Rows
<1>5. w \notin Clerks /\ (call[w].pc # "pickup" => call[w].mv \in Transfers)
  BY <1>1, <1>2 DEF OnTask
<1>. DEFINE Gone ==
       /\ call' \in [Workers -> Call] /\ OnTask(w)'
       /\ \A v \in Workers \ {w} : call'[v] = call[v]
<1>6. ASSUME NEW t \in Transfers, PickupCommit(w, t) PROVE Gone
  <2>1. /\ call' = [call EXCEPT ![w].pc = "picked", ![w].mv = t] /\ CommitShip(w, t)
        /\ call[w].pc = "pickup"
    BY <1>6 DEF PickupCommit, At
  <2>2. /\ call'[w] = [call[w] EXCEPT !.pc = "picked", !.mv = t]
        /\ \A v \in Workers \ {w} : call'[v] = call[v]
        /\ DOMAIN call' = Workers
    BY <1>0, <2>1
  <2>3. call' \in [Workers -> Call]
    BY <1>0, <2>1 DEF Call
  <2>4. call'[w].pc = "picked" /\ call'[w].mv = t /\ call'[w].k = call[w].k
    BY <1>1, <2>2 DEF Call
  <2>5. transfer'[t].state = "PENDING"
    BY <1>0, <2>1 DEF CommitShip, FreeTransfer
  <2>6. OnTask(w)'
    BY <1>1, <1>2, <2>1, <2>4, <2>5 DEF OnTask, Due
  <2>. QED  BY <2>2, <2>3, <2>6
<1>7. ASSUME DropCommit(w) PROVE Gone
  <2>1. call' = [call EXCEPT ![w].pc = "dropped"] /\ ConfirmCommit(w) /\ call[w].pc = "drop"
    BY <1>7 DEF DropCommit, At, Goes
  <2>2. /\ call'[w].pc = "dropped" /\ call'[w].mv = call[w].mv /\ call'[w].k = call[w].k
        /\ \A v \in Workers \ {w} : call'[v] = call[v]
        /\ call' \in [Workers -> Call]
    BY <1>0, <1>1, <2>1 DEF Call
  <2>3. req[w].target = call[w].mv /\ call[w].mv \in Transfers
    BY <1>1, <1>5, <2>1 DEF Asking, At, ConfirmCommit
  <2>4. transfer'[call[w].mv].state = "CONFIRMED"
        /\ transfer'[call[w].mv].credits = transfer[call[w].mv].credits + 1
    BY <1>0, <2>1, <2>3, ConfirmCredits DEF Rows
  <2>5. transfer'[call[w].mv].credits > 0
    BY <1>0, <2>3, <2>4
  <2>6. OnTask(w)'
    BY <1>1, <1>2, <2>1, <2>2, <2>3, <2>4, <2>5 DEF OnTask, Due
  <2>. QED  BY <2>2, <2>6
<1>8. ASSUME UndoCommit(w) PROVE Gone
  <2>1. call' = [call EXCEPT ![w].pc = "undone"] /\ ReverseCommit(w) /\ call[w].pc = "undo"
    BY <1>8 DEF UndoCommit, At, Goes
  <2>2. /\ call'[w].pc = "undone" /\ call'[w].mv = call[w].mv /\ call'[w].k = call[w].k
        /\ \A v \in Workers \ {w} : call'[v] = call[v]
        /\ call' \in [Workers -> Call]
    BY <1>0, <1>1, <2>1 DEF Call
  <2>3. call[w].mv \in Transfers /\ transfer'[call[w].mv].state # "free"
    BY <1>1, <1>3, <1>5, <2>1 DEF OnTask, MovesOn
  <2>4. OnTask(w)'
    BY <1>1, <1>2, <2>1, <2>2, <2>3 DEF OnTask, Due
  <2>. QED  BY <2>2, <2>4
<1>9. Gone
  BY <1>6, <1>7, <1>8
<1>10. Asking(w)'
  BY <1>4 DEF Asking, Idle
<1>. QED
  BY <1>2, <1>3, <1>4, <1>9, <1>10 DEF Proceeds, TasksTyped, OnlyWorker, Progress, Told, Remaining

(* The end of a drop, whether the creator is told or not.                  *)
Tells(w) == NotifyBatchCompletedIfDone(w) \/ NotifyFails(w)

(* The call writes the row of its task, or ends.                           *)
LEMMA UpdateProceeds ==
  ASSUME Rows, TasksTyped, Progress, NEW w \in Workers,
         PickupUpdate(w) \/ DropUpdate(w) \/ Tells(w) \/ UndoUpdate(w)
  PROVE  Proceeds(w) /\ transfer' = transfer
<1>0. /\ call \in [Workers -> Call] /\ task \in [Tasks -> TaskRow] /\ notified \in Nat
  BY DEF TasksTyped
<1>. DEFINE c == call[w]
            k == call[w].k
<1>1. OnTask(w) /\ Asking(w) /\ c \in Call /\ Handles[w] \subseteq Tasks
  BY <1>0, TaskAssumption DEF Progress
<1>2. c.pc \in {"picked", "dropped", "count", "undone"} /\ UNCHANGED vars
  BY DEF PickupUpdate, DropUpdate, Tells, NotifyBatchCompletedIfDone, NotifyFails, UndoUpdate, At
<1>3. /\ k \in Tasks /\ w \notin Clerks /\ c.mv \in Transfers /\ transfer[c.mv].state # "free"
      /\ task[k].status = Due(c.pc) /\ task[k] \in TaskRow /\ None \notin Transfers
  BY <1>0, <1>1, <1>2, LedgerAssumption DEF OnTask
<1>4. Rows' /\ MovesOn
  BY <1>2, RowsStayed
<1>5. req' = req /\ transfer' = transfer
  BY <1>2 DEF vars, storeVars
<1>6. Asking(w)'
  BY <1>1, <1>2, <1>3, <1>5 DEF Asking, At
<1>. DEFINE Row ==
       /\ TasksTyped' /\ OnTask(w)' /\ Told'
       /\ \A v \in Workers \ {w} : call'[v] = call[v]
       /\ \A x \in Tasks : task'[x] = task[x] \/ (x = k /\ TaskFits(x)')
<1>7. ASSUME notified > 0 PROVE c.pc = "count"
  <2>1. task[k].status = "COMPLETED"
    BY <1>3, <1>7 DEF Progress, Told, Remaining
  <2>. QED  BY <1>2, <1>3, <2>1 DEF Due
<1>8. NoCall \in Call
  BY DEF NoCall, Call
<1>9. ASSUME PickupUpdate(w) PROVE Row
  <2>1. /\ task' = [task EXCEPT ![k] = [status |-> "PICKED_UP", mv |-> c.mv]]
        /\ call' = [call EXCEPT ![w] = NoCall] /\ c.pc = "picked" /\ notified' = notified
    BY <1>9 DEF PickupUpdate, At
  <2>2. task'[k].status = "PICKED_UP" /\ task'[k].mv = c.mv
    BY <1>0, <1>3, <2>1
  <2>3. TasksTyped' /\ (\A v \in Workers \ {w} : call'[v] = call[v]) /\ call'[w] = NoCall
        /\ \A x \in Tasks : task'[x] = task[x] \/ x = k
    BY <1>0, <1>3, <1>8, <2>1 DEF TasksTyped, TaskRow
  <2>4. \A x \in Tasks : x = k => TaskFits(x)'
    BY <1>3, <1>5, <2>2 DEF TaskFits
  <2>5. OnTask(w)' /\ Told'
    BY <1>0, <1>7, <2>1, <2>3 DEF OnTask, Told, NoCall
  <2>. QED  BY <2>3, <2>4, <2>5
<1>10. ASSUME DropUpdate(w) PROVE Row
  <2>1. /\ task' = [task EXCEPT ![k].status = "COMPLETED"]
        /\ call' = [call EXCEPT ![w].pc = "count"] /\ c.pc = "dropped" /\ notified' = notified
    BY <1>10 DEF DropUpdate, At, Goes
  <2>2. task'[k].status = "COMPLETED" /\ task'[k].mv = task[k].mv /\ task[k].mv = c.mv
    BY <1>0, <1>1, <1>3, <2>1 DEF TaskRow, OnTask
  <2>3. TasksTyped' /\ (\A v \in Workers \ {w} : call'[v] = call[v])
        /\ \A x \in Tasks : task'[x] = task[x] \/ x = k
    <3>1. task' \in [Tasks -> TaskRow] /\ \A x \in Tasks : task'[x] = task[x] \/ x = k
      BY <1>0, <1>3, <2>1 DEF TaskRow
    <3>2. call' \in [Workers -> Call] /\ \A v \in Workers \ {w} : call'[v] = call[v]
      BY <1>0, <2>1 DEF Call
    <3>. QED  BY <1>0, <2>1, <3>1, <3>2 DEF TasksTyped
  <2>4. call'[w].pc = "count" /\ call'[w].mv = c.mv /\ call'[w].k = k
    BY <1>0, <1>1, <2>1 DEF Call
  <2>5. transfer[c.mv].credits > 0
    BY <1>1, <2>1 DEF OnTask
  <2>6. \A x \in Tasks : x = k => TaskFits(x)'
    BY <1>3, <1>5, <2>2, <2>5 DEF TaskFits
  <2>7. OnTask(w)'
    BY <1>1, <1>3, <1>5, <2>1, <2>2, <2>4, <2>5 DEF OnTask, Due
  <2>8. Told'
    BY <1>0, <1>7, <2>1 DEF Told
  <2>. QED  BY <2>3, <2>6, <2>7, <2>8
<1>11. ASSUME Tells(w) PROVE Row
  <2>1. /\ task' = task /\ call' = [call EXCEPT ![w] = NoCall]
        /\ notified' = notified \/ (Remaining = {} /\ notified' = notified + 1)
    BY <1>11 DEF Tells, NotifyBatchCompletedIfDone, NotifyFails
  <2>2. Remaining' = Remaining
    BY <2>1 DEF Remaining
  <2>3. Told' /\ notified' \in Nat
    BY <1>0, <2>1, <2>2 DEF Told, Progress
  <2>4. TasksTyped' /\ (\A v \in Workers \ {w} : call'[v] = call[v]) /\ call'[w] = NoCall
    BY <1>0, <1>8, <2>1, <2>3 DEF TasksTyped
  <2>5. OnTask(w)'
    BY <2>4 DEF OnTask, NoCall
  <2>. QED  BY <2>1, <2>3, <2>4, <2>5
<1>12. ASSUME UndoUpdate(w) PROVE Row
  <2>1. /\ task' = [task EXCEPT ![k] = [status |-> "PENDING", mv |-> None]]
        /\ call' = [call EXCEPT ![w] = NoCall] /\ c.pc = "undone" /\ notified' = notified
    BY <1>12 DEF UndoUpdate, At
  <2>2. task'[k].status = "PENDING" /\ task'[k].mv = None
    BY <1>0, <1>3, <2>1
  <2>3. TasksTyped' /\ (\A v \in Workers \ {w} : call'[v] = call[v]) /\ call'[w] = NoCall
        /\ \A x \in Tasks : task'[x] = task[x] \/ x = k
    BY <1>0, <1>3, <1>8, <2>1 DEF TasksTyped, TaskRow
  <2>4. \A x \in Tasks : x = k => TaskFits(x)'
    BY <2>2 DEF TaskFits
  <2>5. OnTask(w)' /\ Told'
    BY <1>0, <1>7, <2>1, <2>3 DEF OnTask, Told, NoCall
  <2>. QED  BY <2>3, <2>4, <2>5
<1>13. Row
  BY <1>9, <1>10, <1>11, <1>12
<1>. QED  BY <1>2, <1>4, <1>5, <1>6, <1>13 DEF Proceeds, OnlyWorker, At

(* A refused call ends and leaves its task and the goods as they are.      *)
LEMMA ThrowProceeds ==
  ASSUME Rows, TasksTyped, Progress, NEW w \in Workers, Throw(w)
  PROVE  /\ Proceeds(w) /\ transfer' = transfer /\ UNCHANGED <<task, mishaps>>
         /\ call[w].pc \in {"pickup", "drop", "undo"} /\ call'[w] = NoCall
<1>0. req \in [Workers -> Request] /\ call \in [Workers -> Call]
  BY DEF Rows, TypeInv, TypeOK, TasksTyped
<1>1. /\ call' = [call EXCEPT ![w] = NoCall] /\ req' = [req EXCEPT ![w] = Idle]
      /\ UNCHANGED <<storeVars, recount, spent, absorbed, raced>>
      /\ UNCHANGED <<task, notified, mishaps>>
  BY DEF Throw, Unchanged3
<1>2. call[w].pc \in {"pickup", "drop", "undo"}
  BY DEF Throw, Refused
<1>3. Idle \in Request /\ NoCall \in Call
  BY DEF Idle, Request, Zero, NoLevel, Quantity, Delta, Level, Size, NoPack, NoCall, Call
<1>4. /\ req' \in [Workers -> Request] /\ req'[w] = Idle /\ call'[w] = NoCall
      /\ \A v \in Workers \ {w} : req'[v] = req[v] /\ call'[v] = call[v]
  BY <1>0, <1>1, <1>3
<1>5. Rows' /\ transfer' = transfer
  BY <1>1, <1>4, ForgetKeepsRows DEF storeVars
<1>6. MovesOn
  <2>1. \A t \in Transfers : transfer[t].credits \in Nat
    BY DEF Rows, TypeInv, TypeOK, TransferRow
  <2>. QED  BY <1>5, <2>1 DEF MovesOn
<1>7. TasksTyped' /\ OnTask(w)' /\ Asking(w)' /\ Told' /\ OnlyWorker(w)
  BY <1>0, <1>1, <1>3, <1>4
     DEF TasksTyped, OnTask, Asking, Told, Remaining, OnlyWorker, Progress, NoCall, Idle
<1>. QED  BY <1>1, <1>2, <1>4, <1>5, <1>6, <1>7 DEF Proceeds

(* A step of any call.                                                     *)
LEMMA CallProceeds ==
  ASSUME Rows, TasksTyped, Progress, NEW w \in Workers, TaskStep(w)
  PROVE  Proceeds(w)
BY BeginProceeds, AskProceeds, CommitProceeds, UpdateProceeds, ThrowProceeds DEF TaskStep, Tells

(* The Logistic screen moves goods, and knows nothing of the calls.        *)
LEMMA ClerkProceeds ==
  ASSUME Rows, TasksTyped, Progress, OneCall, NEW w \in Clerks,
         WorkerStep(w), UNCHANGED <<task, call, notified>>
  PROVE  (Rows /\ TasksTyped /\ Progress)'
<1>1. w \in Workers
  BY TaskAssumption
<1>2. Rows' /\ MovesOn
  BY <1>1, LedgerMovesOn DEF Next
<1>3. OnlyWorker(w)
  BY <1>1, OwnRequest DEF Rows, OnlyWorker
<1>4. OnTask(w) /\ call[w].pc = "idle"
  BY <1>1 DEF Progress, OnTask
<1>5. OnTask(w)' /\ Asking(w)'
  BY <1>4 DEF OnTask, Asking, NoCall
<1>6. (\A v \in Workers \ {w} : (OnTask(v) /\ Asking(v))') /\ \A k \in Tasks : TaskFits(k)'
  BY <1>1, <1>2, <1>3, OthersKeepOn
<1>7. TasksTyped' /\ Told'
  BY DEF TasksTyped, Told, Remaining, Progress
<1>. QED  BY <1>2, <1>5, <1>6, <1>7 DEF Progress

(* A crash forgets every call, and the transactions under way.             *)
LEMMA CrashProceeds ==
  ASSUME Rows, TasksTyped, Progress, Crash
  PROVE  (Rows /\ TasksTyped /\ Progress)'
<1>1. /\ call' = [w \in Workers |-> NoCall] /\ req' = [w \in Workers |-> Idle]
      /\ UNCHANGED <<storeVars, recount, spent, absorbed, raced, task, notified>>
  BY DEF Crash
<1>2. Idle \in Request /\ NoCall \in Call
  BY DEF Idle, Request, Zero, NoLevel, Quantity, Delta, Level, Size, NoPack, NoCall, Call
<1>3. Rows'
  BY <1>1, <1>2, ForgetKeepsRows
<1>4. \A w \in Workers : call'[w] = NoCall /\ req'[w] = Idle
  BY <1>1
<1>5. \A w \in Workers : OnTask(w)' /\ Asking(w)'
  BY <1>4 DEF OnTask, Asking, NoCall, Idle
<1>6. TasksTyped' /\ Told' /\ \A k \in Tasks : TaskFits(k)'
  BY <1>1, <1>2 DEF TasksTyped, Told, Remaining, TaskFits, Progress, storeVars
<1>. QED  BY <1>3, <1>5, <1>6 DEF Progress

LEMMA ProgressInit == TasksInit => Rows /\ TasksTyped /\ Progress
<1>. SUFFICES ASSUME TasksInit PROVE Rows /\ TasksTyped /\ Progress
  OBVIOUS
<1>1. Rows
  <2>1. Init
    BY DEF TasksInit
  <2>2. TypeInv
    BY <2>1, TypeInit
  <2>3. TransferSettled /\ \A t \in Transfers : transfer[t].credits = 0
    BY <2>1 DEF Init, TransferSettled, FreeTransfer, Zero
  <2>. QED  BY <2>2, <2>3 DEF Rows
<1>2. TasksTyped
  BY DEF TasksInit, TasksTyped, TaskRow, Call, NoCall
<1>3. \A w \in Workers : OnTask(w) /\ Asking(w)
  BY DEF TasksInit, Init, OnTask, Asking, NoCall, Idle
<1>4. Told /\ \A k \in Tasks : TaskFits(k)
  BY DEF TasksInit, Told, TaskFits
<1>. QED  BY <1>1, <1>2, <1>3, <1>4 DEF Progress

(* With one call per task, no step takes a call by surprise.               *)
LEMMA ProgressStep ==
  Rows /\ TasksTyped /\ Progress /\ OneCall /\ [TasksNext]_allVars
    => (Rows /\ TasksTyped /\ Progress)'
<1>. SUFFICES ASSUME Rows, TasksTyped, Progress, OneCall, [TasksNext]_allVars
     PROVE  (Rows /\ TasksTyped /\ Progress)'
  OBVIOUS
<1>1. ASSUME NEW w \in Workers, TaskStep(w) PROVE (Rows /\ TasksTyped /\ Progress)'
  <2>1. Proceeds(w)
    BY <1>1, CallProceeds
  <2>2. /\ \A v \in Workers \ {w} : (OnTask(v) /\ Asking(v))'
        /\ \A k \in Tasks : task'[k] = task[k] => TaskFits(k)'
    BY <2>1, OthersKeepOn DEF Proceeds
  <2>. QED  BY <2>1, <2>2 DEF Proceeds, Progress
<1>2. CASE UNCHANGED allVars
  <2>1. Rows'
    BY <1>2, RowsStayed DEF allVars
  <2>2. UNCHANGED <<task, call, notified, req, transfer>>
    BY <1>2 DEF allVars, taskVars, vars, storeVars
  <2>. QED
    BY <2>1, <2>2 DEF TasksTyped, Progress, OnTask, Asking, At, Told, Remaining, TaskFits
<1>. QED  BY <1>1, <1>2, ClerkProceeds, CrashProceeds DEF TasksNext

(* As long as no two calls work on one task at the same time, a task is    *)
(* COMPLETED only once its own transfer credited the destination, and the  *)
(* creator of the batch is told only once all of it is delivered: whoever  *)
(* dies half-way, and whatever the Logistic screen confirms or reverses.   *)
THEOREM CompletedWasCreditedAlways ==
  TasksSpec /\ []OneCall => []CompletedWasCredited
<1>1. Progress => CompletedWasCredited
  BY DEF Progress, TaskFits, Told, CompletedWasCredited
<1>. QED  BY <1>1, ProgressInit, ProgressStep, PTL DEF TasksSpec

------------------------------------------------------------------------------
(* Where the goods of a task are, as long as nothing was cut short.        *)

(* A transfer is known to a task by its row, or by the call at work on it. *)
Knows(k, t) ==
  \/ task[k].mv = t
  \/ \E w \in Workers : ~At(w, "idle") /\ call[w].k = k /\ call[w].mv = t

(* Two tasks never share a transfer.                                       *)
Own == \A k, l \in Tasks, t \in Transfers : Knows(k, t) /\ Knows(l, t) => k = l

Stage(w) ==
  LET c == call[w] IN
  /\ c.pc = "pickup" => c.mv = None
  /\ c.pc \in {"pickup", "picked"} => task[c.k].mv = None
  /\ c.pc \in {"picked", "drop", "undo"} => transfer[c.mv].state = "PENDING"
  /\ c.pc \in {"dropped", "count"} => transfer[c.mv].state = "CONFIRMED" /\ transfer[c.mv].credits = 1
  /\ c.pc = "undone" => transfer[c.mv].state = "deleted"

(* Between two calls.                                                      *)
Rest(k) ==
  LET r == task[k] IN
  /\ r.status = "PICKED_UP" => r.mv # None /\ transfer[r.mv].state = "PENDING"
  /\ r.status = "COMPLETED" =>
       r.mv # None /\ transfer[r.mv].state = "CONFIRMED" /\ transfer[r.mv].credits = 1
  /\ r.status = "PENDING" => r.mv = None

Located ==
  \A t \in Transfers : transfer[t].state = "PENDING" =>
    \/ \E k \in Tasks : task[k].mv = t /\ task[k].status = "PICKED_UP"
    \/ \E w \in Workers : call[w].mv = t

Goods ==
  /\ Own
  /\ \A w \in Workers : Stage(w)
  /\ \A k \in Tasks : ~Busy(k) => Rest(k)
  /\ Located

(* A step of w leaves aside the transfers that others know.                *)
Aside(w) ==
  /\ \A v \in Workers \ {w} : call[v].mv \in Transfers =>
       transfer'[call[v].mv] = transfer[call[v].mv]
  /\ \A l \in Tasks : (At(w, "idle") \/ l # call[w].k) /\ task[l].mv \in Transfers =>
       transfer'[task[l].mv] = transfer[task[l].mv]

LEMMA OthersKeepGoods ==
  ASSUME TasksTyped, Progress, Goods, OneCall, NEW w \in Workers, OnlyWorker(w), Aside(w)
  PROVE  /\ \A v \in Workers \ {w} : Stage(v)'
         /\ \A l \in Tasks : Rest(l) /\ (At(w, "idle") \/ l # call[w].k) => Rest(l)'
<1>1. ASSUME NEW v \in Workers \ {w} PROVE Stage(v)'
  <2>1. Stage(v) /\ OnTask(v) /\ call'[v] = call[v] /\ call[v] \in Call /\ Handles[v] \subseteq Tasks
    BY TaskAssumption DEF Goods, Progress, OnlyWorker, TasksTyped
  <2>2. call[v].pc # "idle" => task'[call[v].k] = task[call[v].k]
    BY <2>1 DEF OnlyWorker, OneCall, At, OnTask
  <2>3. call[v].pc \notin {"idle", "pickup"} => transfer'[call[v].mv] = transfer[call[v].mv]
    BY <2>1 DEF OnTask, Aside
  <2>. QED  BY <2>1, <2>2, <2>3 DEF Stage
<1>2. ASSUME NEW l \in Tasks, Rest(l), At(w, "idle") \/ l # call[w].k PROVE Rest(l)'
  <2>1. task'[l] = task[l] /\ task[l].mv \in Transfers \cup {None}
    BY <1>2 DEF OnlyWorker, TasksTyped, TaskRow
  <2>2. task[l].mv # None => transfer'[task[l].mv] = transfer[task[l].mv]
    BY <1>2, <2>1 DEF Aside
  <2>. QED  BY <1>2, <2>1, <2>2 DEF Rest
<1>. QED  BY <1>1, <1>2

(* The transfers a task knows have left their source.                      *)
LEMMA KnownLeft ==
  ASSUME TasksTyped, Progress, Goods, NEW t \in Transfers
  PROVE  /\ \A k \in Tasks : Knows(k, t) => transfer[t].state # "free"
         /\ \A v \in Workers : call[v].mv = t => Knows(call[v].k, t) /\ call[v].k \in Tasks
<1>1. None \notin Transfers
  BY LedgerAssumption
<1>2. ASSUME NEW v \in Workers, call[v].mv = t
      PROVE  /\ ~At(v, "idle") /\ transfer[t].state # "free" /\ call[v].k \in Tasks
             /\ Knows(call[v].k, t)
  <2>1. OnTask(v) /\ Stage(v) /\ call[v] \in Call /\ Handles[v] \subseteq Tasks
    BY TaskAssumption DEF Progress, Goods, TasksTyped
  <2>2. call[v].pc \notin {"idle", "pickup"}
    BY <1>1, <1>2, <2>1 DEF OnTask, NoCall, Stage
  <2>. QED  BY <1>2, <2>1, <2>2 DEF OnTask, Knows, At
<1>. QED  BY <1>1, <1>2 DEF Knows, Progress, TaskFits

LEMMA StayedAside == ASSUME TasksTyped, NEW w \in Workers, transfer' = transfer PROVE Aside(w)
BY DEF Aside

(* What a task gets to know, it knew: then no two tasks share a transfer.  *)
LEMMA OwnKept ==
  ASSUME Own, \A k \in Tasks, t \in Transfers : Knows(k, t)' => Knows(k, t)
  PROVE  Own'
BY DEF Own

LEMMA BeginGoods ==
  ASSUME Rows, TasksTyped, Progress, Goods, OneCall, OneCall', NEW w \in Workers, NEW k \in Tasks,
         Pickup(w, k) \/ Drop(w, k) \/ UndoPickup(w, k)
  PROVE  Goods'
<1>0. Proceeds(w) /\ transfer' = transfer
  BY BeginProceeds
<1>1. PICK pc \in {"pickup", "drop", "undo"} :
        Begin(w, k, IF pc = "pickup" THEN "PENDING" ELSE "PICKED_UP", pc)
  BY DEF Pickup, Drop, UndoPickup
<1>2. /\ call[w].pc = "idle" /\ task' = task
      /\ task[k].status = (IF pc = "pickup" THEN "PENDING" ELSE "PICKED_UP")
      /\ call' = [call EXCEPT ![w] = [pc |-> pc, k |-> k, mv |-> task[k].mv]]
  BY <1>1 DEF Begin, At, Unchanged3
<1>3. /\ call'[w].pc = pc /\ call'[w].k = k /\ call'[w].mv = task[k].mv
      /\ \A v \in Workers \ {w} : call'[v] = call[v]
  BY <1>2 DEF TasksTyped
<1>4. call[w] = NoCall /\ None \notin Transfers \cup Tasks
  BY <1>2, LedgerAssumption, TaskAssumption DEF Progress, OnTask
<1>5. ~Busy(k)
  <2>1. ASSUME NEW v \in Workers, call[v].k = k PROVE FALSE
    <3>1. v # w /\ call[v].pc # "idle"
      BY <1>4, <2>1 DEF NoCall, Progress, OnTask
    <3>. QED  BY <1>3, <2>1, <3>1 DEF OneCall, At
  <2>. QED  BY <2>1 DEF Busy
<1>6. Rest(k)
  BY <1>5 DEF Goods
<1>7. Stage(w)'
  BY <1>0, <1>2, <1>3, <1>6 DEF Stage, Rest
<1>8. (\A v \in Workers \ {w} : Stage(v)') /\ \A l \in Tasks : Rest(l) => Rest(l)'
  BY <1>0, <1>2, OthersKeepGoods, StayedAside DEF Proceeds, At
<1>9. \A l \in Tasks : Busy(l) => Busy(l)'
  BY <1>3, <1>4 DEF Busy, NoCall
<1>10. Own'
  <2>1. ASSUME NEW x \in Tasks, NEW t \in Transfers, Knows(x, t)' PROVE Knows(x, t)
    BY <1>2, <1>3, <2>1 DEF Knows, At
  <2>. QED  BY <2>1, OwnKept DEF Goods
<1>11. Located'
  <2>1. ASSUME NEW t \in Transfers, transfer[t].state = "PENDING",
               \E v \in Workers : call[v].mv = t
        PROVE  \E v \in Workers : call'[v].mv = t
    BY <1>3, <1>4, <2>1 DEF NoCall
  <2>. QED  BY <1>0, <1>2, <2>1 DEF Goods, Located
<1>. QED  BY <1>7, <1>8, <1>9, <1>10, <1>11 DEF Goods

LEMMA StayGoods ==
  ASSUME Goods, UNCHANGED <<task, call, transfer>>
  PROVE  Goods'
BY DEF Goods, Own, Knows, At, Stage, Rest, Busy, Located

LEMMA CommitGoods ==
  ASSUME Rows, TasksTyped, Progress, Goods, OneCall, NEW w \in Workers,
         \/ \E t \in Transfers : PickupCommit(w, t)
         \/ DropCommit(w) \/ UndoCommit(w)
  PROVE  Goods'
<1>0. /\ call \in [Workers -> Call] /\ transfer \in [Transfers -> TransferRow]
      /\ OnTask(w) /\ Asking(w) /\ Stage(w) /\ call[w] \in Call /\ Handles[w] \subseteq Tasks
      /\ None \notin Transfers \cup Tasks
  BY LedgerAssumption, TaskAssumption DEF Rows, TypeInv, TypeOK, TasksTyped, Progress, Goods
<1>1. Proceeds(w) /\ task' = task
  BY CommitProceeds
<1>2. call[w].pc \in {"pickup", "drop", "undo"} /\ call[w].k \in Tasks /\ w \notin Clerks
  BY <1>0 DEF PickupCommit, DropCommit, UndoCommit, At, OnTask
<1>. DEFINE k == call[w].k
<1>3. ASSUME NEW t \in Transfers, PickupCommit(w, t) PROVE Goods'
  <2>1. /\ call' = [call EXCEPT ![w].pc = "picked", ![w].mv = t] /\ CommitShip(w, t)
        /\ call[w].pc = "pickup" /\ call[w].mv = None /\ task[k].mv = None
    BY <1>0, <1>3 DEF PickupCommit, At, Stage
  <2>2. call'[w] = [call[w] EXCEPT !.pc = "picked", !.mv = t]
    BY <1>0, <2>1
  <2>3. /\ call'[w].pc = "picked" /\ call'[w].mv = t /\ call'[w].k = k
        /\ \A v \in Workers \ {w} : call'[v] = call[v]
    BY <1>0, <2>1, <2>2 DEF Call
  <2>4. /\ transfer[t].state = "free" /\ transfer'[t].state = "PENDING"
        /\ \A u \in Transfers \ {t} : transfer'[u] = transfer[u]
    BY <1>0, <2>1 DEF CommitShip, FreeTransfer
  <2>5. \A x \in Tasks : ~Knows(x, t)
    BY <2>4, KnownLeft
  <2>6. Aside(w)
    <3>1. \A v \in Workers : call[v].mv # t
      BY <2>5, KnownLeft
    <3>2. \A l \in Tasks : task[l].mv # t
      BY <2>5 DEF Knows
    <3>. QED  BY <2>4, <3>1, <3>2 DEF Aside
  <2>7. /\ \A v \in Workers \ {w} : Stage(v)'
        /\ \A l \in Tasks \ {k} : Rest(l) => Rest(l)'
    BY <1>1, <2>6, OthersKeepGoods DEF Proceeds
  <2>8. Stage(w)'
    BY <1>1, <2>1, <2>3, <2>4 DEF Stage
  <2>9. ASSUME NEW l \in Tasks, ~Busy(l)' PROVE ~Busy(l) /\ l # k
    BY <2>3, <2>9 DEF Busy
  <2>10. ASSUME NEW x \in Tasks, NEW u \in Transfers, Knows(x, u)'
         PROVE  Knows(x, u) \/ (x = k /\ u = t)
    BY <1>1, <2>3, <2>10 DEF Knows, At
  <2>11. Own'
    BY <2>5, <2>10 DEF Goods, Own
  <2>12. Located'
    <3>1. ASSUME NEW u \in Transfers, transfer'[u].state = "PENDING", u # t
          PROVE  \/ \E x \in Tasks : task[x].mv = u /\ task[x].status = "PICKED_UP"
                 \/ \E v \in Workers \ {w} : call[v].mv = u
      BY <1>0, <2>1, <2>4, <3>1 DEF Goods, Located
    <3>. QED  BY <1>1, <2>3, <3>1 DEF Located
  <2>. QED  BY <2>7, <2>8, <2>9, <2>11, <2>12 DEF Goods
<1>. DEFINE t == call[w].mv
<1>4. ASSUME call[w].pc \in {"drop", "undo"}, call' = [call EXCEPT ![w].pc = call'[w].pc],
             call'[w].pc \in {"dropped", "undone"},
             \A u \in Transfers \ {t} : transfer'[u] = transfer[u],
             call'[w].pc = "dropped" => transfer'[t].state = "CONFIRMED" /\ transfer'[t].credits = 1,
             call'[w].pc = "undone" => transfer'[t].state = "deleted"
      PROVE  Goods'
  <2>0. t \in Transfers /\ Knows(k, t)
    BY <1>0, <1>2, <1>4 DEF OnTask, Knows
  <2>1. call'[w].mv = t /\ call'[w].k = k /\ \A v \in Workers \ {w} : call'[v] = call[v]
    BY <1>0, <1>4 DEF Call
  <2>2. Aside(w)
    <3>1. ASSUME NEW v \in Workers \ {w}, call[v].mv = t PROVE FALSE
      <4>1. Knows(call[v].k, t) /\ call[v].k \in Tasks
        BY <2>0, <3>1, KnownLeft
      <4>2. call[v].k = k
        BY <1>2, <2>0, <4>1 DEF Goods, Own
      <4>3. call[v].pc # "idle"
        BY <1>0, <4>1 DEF Progress, OnTask, NoCall
      <4>. QED  BY <1>4, <3>1, <4>2, <4>3 DEF OneCall, At
    <3>2. ASSUME NEW l \in Tasks, task[l].mv = t PROVE l = k
      BY <1>2, <2>0, <3>2 DEF Goods, Own, Knows
    <3>3. ~At(w, "idle")
      BY <1>4 DEF At
    <3>. QED  BY <1>4, <3>1, <3>2, <3>3 DEF Aside
  <2>3. /\ \A v \in Workers \ {w} : Stage(v)'
        /\ \A l \in Tasks \ {k} : Rest(l) => Rest(l)'
    BY <1>1, <2>2, OthersKeepGoods DEF Proceeds
  <2>4. Stage(w)'
    BY <1>4, <2>1 DEF Stage
  <2>5. ASSUME NEW l \in Tasks, ~Busy(l)' PROVE ~Busy(l) /\ l # k
    BY <2>1, <2>5 DEF Busy
  <2>6. ASSUME NEW x \in Tasks, NEW u \in Transfers, Knows(x, u)' PROVE Knows(x, u)
    <3>1. ~At(w, "idle")
      BY <1>4 DEF At
    <3>. QED  BY <1>1, <2>1, <2>6, <3>1 DEF Knows, At
  <2>7. Own'
    BY <2>6, OwnKept DEF Goods
  <2>8. Located'
    <3>1. ASSUME NEW u \in Transfers, transfer'[u].state = "PENDING"
          PROVE  u # t /\ transfer[u].state = "PENDING"
      BY <1>4, <3>1
    <3>. QED  BY <1>1, <2>1, <3>1 DEF Goods, Located
  <2>. QED  BY <2>3, <2>4, <2>5, <2>7, <2>8 DEF Goods
<1>5. ASSUME DropCommit(w) PROVE Goods'
  <2>1. call' = [call EXCEPT ![w].pc = "dropped"] /\ ConfirmCommit(w) /\ call[w].pc = "drop"
    BY <1>5 DEF DropCommit, At, Goes
  <2>2. req[w].target = t /\ t \in Transfers
    BY <1>0, <1>2, <2>1 DEF Asking, At, ConfirmCommit, OnTask
  <2>3. transfer[t].state = "PENDING" /\ transfer[t].credits = 0
    BY <1>0, <2>1, <2>2 DEF Stage, Rows, TransferSettled
  <2>4. /\ transfer'[t].state = "CONFIRMED" /\ transfer'[t].credits = 1
        /\ \A u \in Transfers \ {t} : transfer'[u] = transfer[u]
    BY <1>0, <2>1, <2>2, <2>3, ConfirmCredits DEF Rows
  <2>5. call'[w].pc = "dropped"
    BY <1>0, <2>1 DEF Call
  <2>. QED  BY <1>4, <2>1, <2>4, <2>5
<1>6. ASSUME UndoCommit(w) PROVE Goods'
  <2>1. call' = [call EXCEPT ![w].pc = "undone"] /\ ReverseCommit(w) /\ call[w].pc = "undo"
    BY <1>6 DEF UndoCommit, At, Goes
  <2>2. req[w].target = t /\ t \in Transfers
    BY <1>0, <1>2, <2>1 DEF Asking, At, ReverseCommit, OnTask
  <2>3. transfer'[t].state = "deleted" /\ \A u \in Transfers \ {t} : transfer'[u] = transfer[u]
    BY <1>0, <2>1, <2>2 DEF ReverseCommit, TransferRow
  <2>4. call'[w].pc = "undone"
    BY <1>0, <2>1 DEF Call
  <2>. QED  BY <1>4, <2>1, <2>3, <2>4
<1>. QED  BY <1>3, <1>5, <1>6

(* What the task knows of its transfer is written to its row, or the call  *)
(* ends.                                                                   *)
LEMMA UpdateGoods ==
  ASSUME Rows, TasksTyped, Progress, Goods, OneCall, NEW w \in Workers,
         PickupUpdate(w) \/ DropUpdate(w) \/ Tells(w) \/ UndoUpdate(w)
  PROVE  Goods'
<1>. DEFINE k == call[w].k
            t == call[w].mv
<1>0. /\ call \in [Workers -> Call] /\ task \in [Tasks -> TaskRow]
      /\ OnTask(w) /\ Stage(w) /\ call[w] \in Call /\ Handles[w] \subseteq Tasks
      /\ None \notin Transfers \cup Tasks
  BY LedgerAssumption, TaskAssumption DEF TasksTyped, Progress, Goods
<1>1. Proceeds(w) /\ transfer' = transfer
  BY UpdateProceeds
<1>2. /\ call[w].pc \in {"picked", "dropped", "count", "undone"}
      /\ k \in Tasks /\ t \in Transfers /\ Knows(k, t) /\ task[k] \in TaskRow
      /\ task[k].status = Due(call[w].pc)
  BY <1>0 DEF PickupUpdate, DropUpdate, Tells, NotifyBatchCompletedIfDone, NotifyFails, UndoUpdate,
             At, OnTask, Knows
<1>3. /\ \A v \in Workers \ {w} : Stage(v)'
      /\ \A l \in Tasks \ {k} : Rest(l) => Rest(l)'
  BY <1>1, OthersKeepGoods, StayedAside DEF Proceeds
<1>4. ASSUME \A x \in Tasks \ {k} : task'[x] = task[x],
             task'[k].mv \in {task[k].mv, t, None},
             \A v \in Workers \ {w} : call'[v] = call[v],
             call'[w] = NoCall \/ (call'[w].k = k /\ call'[w].mv = t)
      PROVE  Own' /\ \A l \in Tasks : ~Busy(l)' => ~Busy(l) \/ l = k
  <2>1. ASSUME NEW x \in Tasks, NEW u \in Transfers, Knows(x, u)' PROVE Knows(x, u)
    <3>1. CASE task'[x].mv = u
      BY <1>0, <1>2, <1>4, <3>1 DEF Knows
    <3>2. CASE task'[x].mv # u
      <4>1. PICK v \in Workers : call'[v].pc # "idle" /\ call'[v].k = x /\ call'[v].mv = u
        BY <2>1, <3>2 DEF Knows, At
      <4>2. CASE v = w
        BY <1>2, <1>4, <4>1, <4>2 DEF NoCall
      <4>. QED  BY <1>4, <4>1, <4>2 DEF Knows, At
    <3>. QED  BY <3>1, <3>2
  <2>. QED  BY <1>4, <2>1, OwnKept DEF Goods, Busy
<1>5. ASSUME PickupUpdate(w) PROVE Goods'
  <2>1. /\ task' = [task EXCEPT ![k] = [status |-> "PICKED_UP", mv |-> t]]
        /\ call' = [call EXCEPT ![w] = NoCall] /\ call[w].pc = "picked"
    BY <1>5 DEF PickupUpdate, At
  <2>2. /\ task'[k].status = "PICKED_UP" /\ task'[k].mv = t /\ transfer[t].state = "PENDING"
        /\ \A x \in Tasks \ {k} : task'[x] = task[x]
        /\ call'[w] = NoCall /\ \A v \in Workers \ {w} : call'[v] = call[v]
    BY <1>0, <1>2, <2>1 DEF Stage
  <2>3. Own' /\ \A l \in Tasks : ~Busy(l)' => ~Busy(l) \/ l = k
    BY <1>4, <2>2
  <2>4. Stage(w)' /\ \A x \in Tasks : x = k => Rest(x)'
    BY <1>0, <1>1, <1>2, <2>2 DEF Rest, Stage, NoCall
  <2>5. task[k].status = "PENDING"
    BY <1>2, <2>1 DEF Due
  <2>6. Located'
    <3>1. ASSUME NEW u \in Transfers, transfer[u].state = "PENDING"
          PROVE  \/ u = t
                 \/ \E x \in Tasks \ {k} : task[x].mv = u /\ task[x].status = "PICKED_UP"
                 \/ \E v \in Workers \ {w} : call[v].mv = u
      BY <2>5, <3>1 DEF Goods, Located
    <3>. QED  BY <1>1, <1>2, <2>2, <3>1 DEF Located
  <2>. QED  BY <1>3, <2>3, <2>4, <2>6 DEF Goods
<1>6. ASSUME DropUpdate(w) PROVE Goods'
  <2>1. /\ task' = [task EXCEPT ![k].status = "COMPLETED"]
        /\ call' = [call EXCEPT ![w].pc = "count"] /\ call[w].pc = "dropped"
    BY <1>6 DEF DropUpdate, At, Goes
  <2>2. /\ task'[k].status = "COMPLETED" /\ task'[k].mv = task[k].mv /\ task[k].mv = t
        /\ transfer[t].state = "CONFIRMED" /\ transfer[t].credits = 1
        /\ \A x \in Tasks \ {k} : task'[x] = task[x]
        /\ call'[w].pc = "count" /\ call'[w].k = k /\ call'[w].mv = t
        /\ \A v \in Workers \ {w} : call'[v] = call[v]
    BY <1>0, <1>2, <2>1 DEF Stage, OnTask, TaskRow, Call
  <2>3. Own' /\ \A l \in Tasks : ~Busy(l)' => ~Busy(l) \/ l = k
    BY <1>4, <2>2
  <2>4. Stage(w)' /\ \A x \in Tasks : x = k => Rest(x)'
    BY <1>0, <1>1, <1>2, <2>2 DEF Rest, Stage
  <2>5. Located'
    <3>1. ASSUME NEW u \in Transfers, transfer[u].state = "PENDING"
          PROVE  \/ \E x \in Tasks \ {k} : task[x].mv = u /\ task[x].status = "PICKED_UP"
                 \/ \E v \in Workers \ {w} : call[v].mv = u
      BY <2>2, <3>1 DEF Goods, Located
    <3>. QED  BY <1>1, <2>2, <3>1 DEF Located
  <2>. QED  BY <1>3, <2>3, <2>4, <2>5 DEF Goods
<1>7. ASSUME Tells(w) PROVE Goods'
  <2>1. task' = task /\ call' = [call EXCEPT ![w] = NoCall] /\ call[w].pc = "count"
    BY <1>7 DEF Tells, NotifyBatchCompletedIfDone, NotifyFails, At
  <2>2. /\ task[k].status = "COMPLETED" /\ task[k].mv = t
        /\ transfer[t].state = "CONFIRMED" /\ transfer[t].credits = 1
        /\ call'[w] = NoCall /\ \A v \in Workers \ {w} : call'[v] = call[v]
    BY <1>0, <1>2, <2>1 DEF Stage, OnTask, Due
  <2>3. Own' /\ \A l \in Tasks : ~Busy(l)' => ~Busy(l) \/ l = k
    BY <1>4, <2>1, <2>2
  <2>4. Stage(w)' /\ \A x \in Tasks : x = k => Rest(x)'
    BY <1>0, <1>1, <1>2, <2>1, <2>2 DEF Rest, Stage, NoCall
  <2>5. Located'
    <3>1. ASSUME NEW u \in Transfers, transfer[u].state = "PENDING"
          PROVE  \/ \E x \in Tasks : task[x].mv = u /\ task[x].status = "PICKED_UP"
                 \/ \E v \in Workers \ {w} : call[v].mv = u
      BY <2>2, <3>1 DEF Goods, Located
    <3>. QED  BY <1>1, <2>1, <2>2, <3>1 DEF Located
  <2>. QED  BY <1>3, <2>3, <2>4, <2>5 DEF Goods
<1>8. ASSUME UndoUpdate(w) PROVE Goods'
  <2>1. /\ task' = [task EXCEPT ![k] = [status |-> "PENDING", mv |-> None]]
        /\ call' = [call EXCEPT ![w] = NoCall] /\ call[w].pc = "undone"
    BY <1>8 DEF UndoUpdate, At
  <2>2. /\ task'[k].status = "PENDING" /\ task'[k].mv = None
        /\ task[k].mv = t /\ transfer[t].state = "deleted"
        /\ \A x \in Tasks \ {k} : task'[x] = task[x]
        /\ call'[w] = NoCall /\ \A v \in Workers \ {w} : call'[v] = call[v]
    BY <1>0, <1>2, <2>1 DEF Stage, OnTask
  <2>3. Own' /\ \A l \in Tasks : ~Busy(l)' => ~Busy(l) \/ l = k
    BY <1>4, <2>2
  <2>4. Stage(w)' /\ \A x \in Tasks : x = k => Rest(x)'
    BY <2>2 DEF Rest, Stage, NoCall
  <2>5. Located'
    <3>1. ASSUME NEW u \in Transfers, transfer[u].state = "PENDING"
          PROVE  \/ \E x \in Tasks \ {k} : task[x].mv = u /\ task[x].status = "PICKED_UP"
                 \/ \E v \in Workers \ {w} : call[v].mv = u
      BY <2>2, <3>1 DEF Goods, Located
    <3>. QED  BY <1>1, <2>2, <3>1 DEF Located
  <2>. QED  BY <1>3, <2>3, <2>4, <2>5 DEF Goods
<1>. QED  BY <1>5, <1>6, <1>7, <1>8

(* A refused call leaves the goods where the row says they are.            *)
LEMMA ThrowGoods ==
  ASSUME Rows, TasksTyped, Progress, Goods, OneCall, NEW w \in Workers, Throw(w)
  PROVE  Goods'
<1>. DEFINE k == call[w].k
            t == call[w].mv
<1>0. /\ OnTask(w) /\ Stage(w) /\ Handles[w] \subseteq Tasks /\ None \notin Transfers \cup Tasks
  BY LedgerAssumption, TaskAssumption DEF Progress, Goods
<1>1. /\ Proceeds(w) /\ transfer' = transfer /\ task' = task /\ call'[w] = NoCall
      /\ call[w].pc \in {"pickup", "drop", "undo"}
  BY ThrowProceeds
<1>2. \A v \in Workers \ {w} : call'[v] = call[v]
  BY <1>1 DEF Proceeds, OnlyWorker
<1>3. k \in Tasks /\ task[k].status = Due(call[w].pc)
  BY <1>0, <1>1 DEF OnTask
<1>4. /\ \A v \in Workers \ {w} : Stage(v)'
      /\ \A l \in Tasks \ {k} : Rest(l) => Rest(l)'
  BY <1>1, OthersKeepGoods, StayedAside DEF Proceeds
<1>5. /\ call[w].pc = "pickup" => t = None /\ task[k].mv = None
      /\ call[w].pc # "pickup" =>
           /\ t \in Transfers /\ task[k].mv = t /\ transfer[t].state = "PENDING"
           /\ task[k].status = "PICKED_UP"
  BY <1>0, <1>1, <1>3 DEF OnTask, Stage, Due
<1>6. Stage(w)' /\ \A x \in Tasks : x = k => Rest(x)'
  BY <1>0, <1>1, <1>3, <1>5 DEF Rest, Stage, NoCall, Due
<1>7. Own'
  <2>1. ASSUME NEW x \in Tasks, NEW u \in Transfers, Knows(x, u)' PROVE Knows(x, u)
    BY <1>1, <1>2, <2>1 DEF Knows, At, NoCall
  <2>. QED  BY <2>1, OwnKept DEF Goods
<1>8. \A l \in Tasks : ~Busy(l)' => ~Busy(l) \/ l = k
  BY <1>2 DEF Busy
<1>9. Located'
  <2>1. ASSUME NEW u \in Transfers, transfer[u].state = "PENDING"
        PROVE  \/ \E x \in Tasks : task[x].mv = u /\ task[x].status = "PICKED_UP"
               \/ \E v \in Workers \ {w} : call[v].mv = u
    BY <1>0, <1>3, <1>5, <2>1 DEF Goods, Located
  <2>. QED  BY <1>1, <1>2, <2>1 DEF Located
<1>. QED  BY <1>4, <1>6, <1>7, <1>8, <1>9 DEF Goods

LEMMA GoodsInit == TasksInit => Goods
<1>. SUFFICES ASSUME TasksInit PROVE Goods
  OBVIOUS
<1>1. None \notin Transfers
  BY LedgerAssumption
<1>2. /\ \A k \in Tasks : task[k].status = "PENDING" /\ task[k].mv = None
      /\ \A w \in Workers : call[w].pc = "idle"
      /\ \A t \in Transfers : transfer[t].state = "free"
  BY DEF TasksInit, Init, NoCall, FreeTransfer
<1>. QED  BY <1>1, <1>2 DEF Goods, Own, Knows, At, Stage, Rest, Located

(* Until a call is cut short or the Logistic screen comes in, the goods    *)
(* are where the tasks say.                                                *)
LEMMA GoodsStep ==
  Rows /\ TasksTyped /\ Progress /\ OneCall /\ OneCall' /\ (~disturbed => Goods)
    /\ [TasksNext]_allVars => (~disturbed => Goods)'
<1>. SUFFICES ASSUME Rows, TasksTyped, Progress, OneCall, OneCall', ~disturbed => Goods,
                     [TasksNext]_allVars, ~disturbed'
              PROVE  Goods'
  OBVIOUS
<1>1. ASSUME NEW w \in Workers, TaskStep(w) PROVE Goods'
  <2>1. disturbed' = disturbed
    BY <1>1 DEF TaskStep, Pickup, Drop, UndoPickup, Begin, PickupShip, DropConfirm, PickupCommit,
               PickupUpdate, DropRead, DropCommit, DropUpdate, NotifyBatchCompletedIfDone,
               NotifyFails, UndoReverse, UndoCommit, UndoUpdate, Throw, Unchanged3, taskVars, mishaps
  <2>2. Goods
    BY <2>1
  <2>3. ASSUME NEW k \in Tasks, Pickup(w, k) \/ Drop(w, k) \/ UndoPickup(w, k) PROVE Goods'
    BY <2>2, <2>3, BeginGoods
  <2>4. CASE \/ \E upp \in PackSizes : PickupShip(w, upp) \/ DropConfirm(w, upp)
             \/ DropRead(w) \/ UndoReverse(w)
    BY <2>2, <2>4, AskProceeds, StayGoods DEF taskVars
  <2>5. CASE (\E t \in Transfers : PickupCommit(w, t)) \/ DropCommit(w) \/ UndoCommit(w)
    BY <2>2, <2>5, CommitGoods
  <2>6. CASE PickupUpdate(w) \/ DropUpdate(w) \/ Tells(w) \/ UndoUpdate(w)
    BY <2>2, <2>6, UpdateGoods
  <2>7. CASE Throw(w)
    BY <2>2, <2>7, ThrowGoods
  <2>. QED  BY <1>1, <2>3, <2>4, <2>5, <2>6, <2>7 DEF TaskStep, Tells
<1>2. ~(\E w \in Clerks : WorkerStep(w) /\ disturbed' = TRUE) /\ ~Crash
  BY DEF Crash
<1>3. CASE UNCHANGED allVars
  <2>1. Goods
    BY <1>3 DEF allVars, taskVars, mishaps
  <2>. QED  BY <1>3, <2>1, StayGoods DEF allVars, taskVars, vars, storeVars
<1>. QED  BY <1>1, <1>2, <1>3 DEF TasksNext

(* As long as no call was cut short, the Logistic screen was not used and  *)
(* no two calls worked on one task, a task says between two calls where    *)
(* its goods are, and no goods are on the way without a task that knows    *)
(* them.                                                                   *)
THEOREM TaskMatchesGoodsAlways ==
  TasksSpec /\ []OneCall => []TaskMatchesGoods
<1>1. (~disturbed => Goods) => TaskMatchesGoods
  BY DEF Goods, Rest, Located, TaskMatchesGoods
<1>2. TasksInit => (~disturbed => Goods)
  BY GoodsInit
<1>. QED  BY <1>1, <1>2, ProgressInit, ProgressStep, GoodsStep, PTL DEF TasksSpec
=============================================================================
