----------------------------- MODULE StockLedger -----------------------------
(***************************************************************************)
(* The logistics stock ledger of one article: what each element holds      *)
(* (StockLevel), what has been registered (StockMovement), transfers that  *)
(* wait for their destination, ventilation deposits and their reversal,    *)
(* and inventory resets.  Every HTTP request is a worker.  A request runs  *)
(* one database transaction at READ COMMITTED: it reads the level row,     *)
(* computes an ABSOLUTE new level, and writes level and movement together  *)
(* at commit.  Row locks order two commits but do not refresh what the     *)
(* second one has read, so a request is two steps, a read and a commit.    *)
(***************************************************************************)
EXTENDS StockUnits, FiniteSets

CONSTANTS
  Elements,      \* shops and storages of the space
  Workers,       \* requests that may be in flight together
  Counters,      \* inventory resets that may be in flight together
  Transfers,     \* ids of transfers (a TRANSFER_* movement and its credits)
  Deposits,      \* ids of VENTILATION deposits
  Opening,       \* levels when the observation starts
  PackSizes,     \* what resolving the article's pack size may return
  Quantities,    \* quantities a request may carry
  MaxRequests,   \* bound on movements created, sales and resets
  None           \* no element, transfer or deposit

ASSUME LedgerAssumption ==
  /\ PackSizes \subseteq Size
  /\ Quantities \subseteq Quantity
  /\ MaxRequests \in Nat
  /\ Opening \in [Elements -> Level]
  /\ \A e \in Elements : Opening[e].upp \in PackSizes \cup {NoPack}
  /\ None \notin Elements \cup Transfers \cup Deposits
  /\ IsFiniteSet(Workers)

(* The pack size of the article does not change under way: its resolution  *)
(* finds it, or nothing (NoPack), or a size that breaks no pack (0).       *)
ASSUME OnePackSize ==
  \A u, v \in PackSizes : Breaks(u) /\ Breaks(v) => u = v

VARIABLES
  level,      \* StockLevel rows
  posted,     \* sum of the deltas of the StockMovement rows of each element
  transfer,   \* TRANSFER_* movements, with what their confirmations wrote
  deposit,    \* VENTILATION movements, with their reversals
  sold,       \* sales derived since the anchor (last reset)
  req,        \* request of each worker
  recount,    \* inventory reset of each counter
  spent,      \* requests that count against MaxRequests
  absorbed,   \* history: sales an anchor has passed without a SALE movement
  raced       \* history: elements whose level was computed from a stale read

storeVars == <<level, posted, transfer, deposit, sold>>
vars == <<storeVars, req, recount, spent, absorbed, raced>>

------------------------------------------------------------------------------
TransferRow == [state : {"free", "PENDING", "CONFIRMED", "deleted"},
                src : Elements \cup {None}, dst : Elements \cup {None},
                qty : Quantity,         \* declared
                credits : Nat,          \* credit movements written
                credited : Quantity,    \* their sum
                lost : Quantity,        \* sum of the StockTransferLoss rows
                atOnce : Nat]           \* history: see SettlersOf
FreeTransfer == [state |-> "free", src |-> None, dst |-> None, qty |-> Zero,
                 credits |-> 0, credited |-> Zero, lost |-> Zero, atOnce |-> 0]

DepositRow == [elt : Elements \cup {None}, qty : Quantity, reversals : Nat]
FreeDeposit == [elt |-> None, qty |-> Zero, reversals |-> 0]

Request == [pc : {"idle", "add", "remove", "deposit", "ship", "confirmRead",
                  "confirm", "reverse", "cancel"},
            elt : Elements \cup {None},      \* element whose level is written
            dst : Elements \cup {None},      \* counterparty of a transfer
            target : Transfers \cup Deposits \cup {None},
            qty : Quantity, delta : Delta,
            read : Level, next : Level]
Idle == [pc |-> "idle", elt |-> None, dst |-> None, target |-> None,
         qty |-> Zero, delta |-> Zero, read |-> NoLevel, next |-> NoLevel]

Recount == [on : BOOLEAN, lines : SUBSET Elements,
            counted : [Elements -> Quantity], upp : Size,
            seen : [Elements -> Level], seenSold : [Elements -> Nat]]
NoRecount == [on |-> FALSE, lines |-> {},
              counted |-> [e \in Elements |-> Zero], upp |-> NoPack,
              seen |-> [e \in Elements |-> NoLevel],
              seenSold |-> [e \in Elements |-> 0]]

Init ==
  /\ level = Opening
  /\ posted = [e \in Elements |-> Plus(Opening[e], Zero)]
  /\ transfer = [t \in Transfers |-> FreeTransfer]
  /\ deposit = [d \in Deposits |-> FreeDeposit]
  /\ sold = [e \in Elements |-> 0]
  /\ req = [w \in Workers |-> Idle]
  /\ recount = [c \in Counters |-> NoRecount]
  /\ spent = 0
  /\ absorbed = [e \in Elements |-> Zero]
  /\ raced = {}

------------------------------------------------------------------------------
(* applyLevelDelta: read the row, refuse what strict refuses, compute the  *)
(* absolute level.  A refusal rolls the transaction back.                  *)

ReadLevel(w, kind, e, dst, target, q, d, upp, strict) ==
  LET lv == level[e]
  IN  /\ strict => ~Insufficient(Plus(lv, d), d, SizeFor(upp, lv))
      /\ req' = [req EXCEPT ![w] =
           [pc |-> kind, elt |-> e, dst |-> dst, target |-> target, qty |-> q,
            delta |-> d, read |-> lv, next |-> LevelAfter(lv, d, upp)]]
      /\ UNCHANGED <<storeVars, recount, absorbed, raced>>

(* Two transactions that both found no row insert it: the second violates  *)
(* uniq_stock_level and is rolled back.                                    *)
NoInsertConflict(r) == r.read.found \/ ~level[r.elt].found

WriteLevel(w) ==
  LET r == req[w]
  IN  /\ NoInsertConflict(r)
      /\ level' = [level EXCEPT ![r.elt] = r.next]
      /\ raced' = IF level[r.elt] = r.read THEN raced ELSE raced \cup {r.elt}
      /\ req' = [req EXCEPT ![w] = Idle]
      /\ UNCHANGED <<sold, recount, spent, absorbed>>

Post(e, d) == posted' = [posted EXCEPT ![e] = Plus(@, d)]

(* createMovement: null quantities are refused.                            *)
Add(w, e, q, upp) ==
  /\ req[w].pc = "idle" /\ q # Zero
  /\ spent < MaxRequests /\ spent' = spent + 1
  /\ ReadLevel(w, "add", e, None, None, q, q, upp, TRUE)

Remove(w, e, q, upp) ==
  /\ req[w].pc = "idle" /\ q # Zero
  /\ spent < MaxRequests /\ spent' = spent + 1
  /\ ReadLevel(w, "remove", e, None, None, q, Negated(q), upp, TRUE)

Deposit(w, e, q, upp) ==
  /\ req[w].pc = "idle" /\ q # Zero
  /\ ReadLevel(w, "deposit", e, None, None, q, q, upp, TRUE)
  /\ spent < MaxRequests /\ spent' = spent + 1

(* A transfer is issued by its source, which is debited at once; its       *)
(* counterparty is another element and gets nothing until it confirms.     *)
Ship(w, e, dst, q, upp) ==
  /\ req[w].pc = "idle" /\ q # Zero /\ dst # e
  /\ ReadLevel(w, "ship", e, dst, None, q, Negated(q), upp, TRUE)
  /\ spent < MaxRequests /\ spent' = spent + 1

CommitPlain(w) ==
  /\ req[w].pc \in {"add", "remove"}
  /\ WriteLevel(w)
  /\ Post(req[w].elt, req[w].delta)
  /\ UNCHANGED <<transfer, deposit>>

CommitDeposit(w, d) ==
  /\ req[w].pc = "deposit" /\ deposit[d] = FreeDeposit
  /\ WriteLevel(w)
  /\ Post(req[w].elt, req[w].delta)
  /\ deposit' = [deposit EXCEPT ![d] = [elt |-> req[w].elt, qty |-> req[w].qty,
                                        reversals |-> 0]]
  /\ UNCHANGED transfer

CommitShip(w, t) ==
  /\ req[w].pc = "ship" /\ transfer[t].state = "free"
  /\ WriteLevel(w)
  /\ Post(req[w].elt, req[w].delta)
  /\ transfer' = [transfer EXCEPT ![t] =
       [FreeTransfer EXCEPT !.state = "PENDING", !.src = req[w].elt,
                            !.dst = req[w].dst, !.qty = req[w].qty]]
  /\ UNCHANGED deposit

------------------------------------------------------------------------------
(* confirmTransfer: the source movement is read and checked BEFORE the     *)
(* transaction; inside it the credit, the level and the status are written *)
(* without looking at the status again.                                    *)

Confirming(t, q) ==
  [pc |-> "confirmRead", elt |-> transfer[t].dst, dst |-> None, target |-> t,
   qty |-> q, delta |-> Zero, read |-> NoLevel, next |-> NoLevel]

(* Mutants: a settled transfer, or more than was declared, is accepted.    *)
ConfirmReadSettled(w, t, q) ==
  /\ req[w].pc = "idle" /\ transfer[t].state # "free"
  /\ q.packed <= transfer[t].qty.packed /\ q.loose <= transfer[t].qty.loose
  /\ req' = [req EXCEPT ![w] = Confirming(t, q)]
  /\ UNCHANGED <<storeVars, recount, spent, absorbed, raced>>

ConfirmReadUnbounded(w, t, q) ==
  /\ req[w].pc = "idle" /\ transfer[t].state = "PENDING"
  /\ req' = [req EXCEPT ![w] = Confirming(t, q)]
  /\ UNCHANGED <<storeVars, recount, spent, absorbed, raced>>

ConfirmRead(w, t, q) ==
  /\ req[w].pc = "idle"
  /\ transfer[t].state = "PENDING"
  /\ q.packed <= transfer[t].qty.packed /\ q.loose <= transfer[t].qty.loose
  /\ req' = [req EXCEPT ![w] = Confirming(t, q)]
  /\ UNCHANGED <<storeVars, recount, spent, absorbed, raced>>

ConfirmBegin(w, upp) ==
  /\ req[w].pc = "confirmRead"
  /\ ReadLevel(w, "confirm", req[w].elt, None, req[w].target, req[w].qty,
               req[w].qty, upp, TRUE)
  /\ UNCHANGED spent

(* The requests that found the transfer PENDING and have not committed; a  *)
(* row remembers how many they were when the first of them did.            *)
Settling(r) == r.pc \in {"confirmRead", "confirm", "reverse"}
Settlers(t) == {w \in Workers : Settling(req[w]) /\ req[w].target = t}
SettlersOf(t) ==
  IF transfer[t].state = "PENDING" THEN Cardinality(Settlers(t)) ELSE transfer[t].atOnce

(* What the StockTransferLoss row records; mutant: missing packs only.     *)
MissingPacks(x, q) == [packed |-> x.qty.packed - q.packed, loose |-> 0]
Missing(x, q) == Minus(x.qty, q)

(* Updating a source row that was deleted fails (P2025) and rolls back.    *)
ConfirmCommit(w) ==
  LET r == req[w]
      t == r.target
  IN  /\ r.pc = "confirm" /\ transfer[t].state # "deleted"
      /\ WriteLevel(w)
      /\ Post(r.elt, r.delta)
      /\ transfer' = [transfer EXCEPT
           ![t].state = "CONFIRMED",
           ![t].credits = @ + 1,
           ![t].credited = Plus(@, r.qty),
           ![t].lost = Plus(@, Missing(transfer[t], r.qty)),
           ![t].atOnce = SettlersOf(t)]
      /\ UNCHANGED deposit

(* reverseMovement: the transaction reads the PENDING row and the level,   *)
(* gives the quantity back to the source and deletes the row by its id.    *)
(* Mutant: the status is not looked at.                                    *)
ReverseBeginSettled(w, t) ==
  /\ req[w].pc = "idle" /\ transfer[t].state \in {"PENDING", "CONFIRMED"}
  /\ ReadLevel(w, "reverse", transfer[t].src, None, t, transfer[t].qty,
               transfer[t].qty, NoPack, FALSE)
  /\ UNCHANGED spent

ReverseBegin(w, t) ==
  /\ req[w].pc = "idle"
  /\ transfer[t].state = "PENDING"
  /\ ReadLevel(w, "reverse", transfer[t].src, None, t, transfer[t].qty,
               transfer[t].qty, NoPack, FALSE)
  /\ UNCHANGED spent

ReverseCommit(w) ==
  LET r == req[w]
  IN  /\ r.pc = "reverse" /\ transfer[r.target].state # "deleted"
      /\ WriteLevel(w)
      /\ Post(r.elt, r.delta)
      /\ transfer' = [transfer EXCEPT ![r.target].state = "deleted",
                                      ![r.target].atOnce = SettlersOf(r.target)]
      /\ UNCHANGED deposit

(* VentilationDepositsService.cancel, then writeReversal.  The inverse     *)
(* movement is inserted first and reversesMovementId is unique: a second   *)
(* reversal waits for the first transaction and fails if it committed.     *)
(* Mutant: the column is not unique.                                       *)
NeverCancelling(d) == FALSE
Cancelling(d) == \E w \in Workers : req[w].pc = "cancel" /\ req[w].target = d

CancelBegin(w, d) ==
  /\ req[w].pc = "idle"
  /\ deposit[d].elt # None /\ deposit[d].reversals = 0 /\ ~Cancelling(d)
  /\ ReadLevel(w, "cancel", deposit[d].elt, None, d, deposit[d].qty,
               Negated(deposit[d].qty), NoPack, TRUE)
  /\ UNCHANGED spent

CancelCommit(w) ==
  LET r == req[w]
  IN  /\ r.pc = "cancel"
      /\ WriteLevel(w)
      /\ Post(r.elt, r.delta)
      /\ deposit' = [deposit EXCEPT ![r.target].reversals = @ + 1]
      /\ UNCHANGED transfer

(* A constraint violation, a timeout or a crash rolls the transaction back. *)
Rollback(w) ==
  /\ req[w].pc # "idle"
  /\ req' = [req EXCEPT ![w] = Idle]
  /\ UNCHANGED <<storeVars, recount, spent, absorbed, raced>>

------------------------------------------------------------------------------
(* Sales never write a level: they are derived from the transactions that  *)
(* follow the anchor.  What a screen shows is the level minus those sales. *)

ExpectedOf(lv, sales, upp) ==
  NormalizeLevel([packed |-> lv.packed, loose |-> lv.loose - sales], upp)

Expected(e) == ExpectedOf(level[e], sold[e], level[e].upp)

Sell(e) ==
  /\ level[e].found
  /\ spent < MaxRequests /\ spent' = spent + 1
  /\ sold' = [sold EXCEPT ![e] = @ + 1]
  /\ UNCHANGED <<level, posted, transfer, deposit, req, recount, absorbed, raced>>

(* reset: levels and sales are read before the transaction.                *)
ResetRead(c, lines, counted, upp) ==
  /\ ~recount[c].on /\ lines # {}
  /\ spent < MaxRequests /\ spent' = spent + 1
  /\ recount' = [recount EXCEPT ![c] =
       [on |-> TRUE, lines |-> lines, counted |-> counted, upp |-> upp,
        seen |-> level, seenSold |-> sold]]
  /\ UNCHANGED <<storeVars, req, absorbed, raced>>

(* Uncovered levels whose sales are materialised as SALE movements; mutant: *)
(* the anchor moves without them.                                          *)
CarriedNone(r) == {}
Carried(r) == {e \in Elements \ r.lines : r.seen[e].found /\ r.seenSold[e] > 0}

ExpectedBy(r, e) ==
  ExpectedOf(r.seen[e], r.seenSold[e],
             IF e \in r.lines THEN SizeFor(r.upp, r.seen[e]) ELSE r.seen[e].upp)

(* What the reset registers on an element: a counted line is corrected     *)
(* from its expected stock, a carried one pays its sales.                  *)
Correction(r, e) ==
  IF e \in r.lines THEN Minus(r.counted[e], ExpectedBy(r, e))
                   ELSE Minus(ExpectedBy(r, e), r.seen[e])

(* Counted lines are SET to the count and post counted - expected; carried *)
(* levels are SET to their expected quantity and post the difference.  The *)
(* anchor moves for the whole space.                                       *)
ResetCommit(c) ==
  LET r == recount[c]
      written == r.lines \cup Carried(r)
      after(e) ==
        IF e \in r.lines
        THEN [found |-> TRUE, packed |-> r.counted[e].packed,
              loose |-> r.counted[e].loose,
              upp |-> SizeFor(SizeFor(r.upp, r.seen[e]), level[e])]
        ELSE [level[e] EXCEPT !.packed = ExpectedBy(r, e).packed,
                              !.loose = ExpectedBy(r, e).loose]
  IN  /\ r.on
      /\ level' = [e \in Elements |-> IF e \in written THEN after(e) ELSE level[e]]
      /\ posted' = [e \in Elements |-> IF e \in written THEN Plus(posted[e], Correction(r, e))
                                                        ELSE posted[e]]
      /\ sold' = [e \in Elements |-> 0]
      /\ absorbed' = [e \in Elements |-> IF e \in r.lines
           THEN Plus(absorbed[e], Minus(r.seen[e], ExpectedBy(r, e))) ELSE absorbed[e]]
      /\ raced' = raced \cup {e \in written : level[e] # r.seen[e]}
      /\ recount' = [recount EXCEPT ![c] = NoRecount]
      /\ UNCHANGED <<transfer, deposit, req, spent>>

ResetAbort(c) ==
  /\ recount[c].on
  /\ recount' = [recount EXCEPT ![c] = NoRecount]
  /\ UNCHANGED <<storeVars, req, spent, absorbed, raced>>

------------------------------------------------------------------------------
WorkerStep(w) ==
  \/ \E e \in Elements, q \in Quantities, upp \in PackSizes :
       \/ Add(w, e, q, upp) \/ Remove(w, e, q, upp) \/ Deposit(w, e, q, upp)
       \/ \E dst \in Elements : Ship(w, e, dst, q, upp)
  \/ CommitPlain(w)
  \/ \E d \in Deposits : CommitDeposit(w, d) \/ CancelBegin(w, d)
  \/ \E t \in Transfers : CommitShip(w, t) \/ ReverseBegin(w, t)
  \/ \E t \in Transfers, q \in Quantities : ConfirmRead(w, t, q)
  \/ \E upp \in PackSizes : ConfirmBegin(w, upp)
  \/ ConfirmCommit(w) \/ ReverseCommit(w) \/ CancelCommit(w) \/ Rollback(w)

CounterStep(c) ==
  \/ \E lines \in SUBSET Elements, counted \in [Elements -> Quantities],
        upp \in PackSizes : ResetRead(c, lines, counted, upp)
  \/ ResetCommit(c) \/ ResetAbort(c)

Next ==
  \/ \E w \in Workers : WorkerStep(w)
  \/ \E c \in Counters : CounterStep(c)
  \/ \E e \in Elements : Sell(e)

Spec == Init /\ [][Next]_vars
------------------------------------------------------------------------------
(* The type of every variable.                                            *)
TypeOK ==
  /\ level \in [Elements -> Level]
  /\ posted \in [Elements -> Delta]
  /\ transfer \in [Transfers -> TransferRow]
  /\ deposit \in [Deposits -> DepositRow]
  /\ sold \in [Elements -> Nat]
  /\ req \in [Workers -> Request]
  /\ recount \in [Counters -> Recount]
  /\ spent \in Nat
  /\ absorbed \in [Elements -> Delta]
  /\ raced \subseteq Elements

(* The ledger and the level tell the same story: on an element no writer   *)
(* computed from a stale row, the level is worth the sum of its movements, *)
(* minus the sales a reset's anchor has passed.  Whatever the order of     *)
(* additions, transfers, reversals and resets, packs broken on the way     *)
(* included.                                                               *)
LedgerAgrees ==
  \A e \in Elements \ raced, u \in PackSizes : Breaks(u) =>
     Units(level[e], u) = Units(posted[e], u) - Units(absorbed[e], u)

(* A transfer waits, or is settled in full: a PENDING one has credited     *)
(* nobody, and each confirmation splits the declared quantity between the  *)
(* credit it writes and the loss it records, so that nothing is created    *)
(* and no shortage goes unrecorded.                                        *)
TransferSettled ==
  \A t \in Transfers :
    LET x == transfer[t]
    IN  /\ x.state = "PENDING" => x.credits = 0
        /\ x.state = "CONFIRMED" => x.credits > 0
        /\ x.credited.packed + x.lost.packed = x.credits * x.qty.packed
        /\ x.credited.loose + x.lost.loose = x.credits * x.qty.loose

(* A deposit is cancelled at most once, even by simultaneous requests.     *)
DepositReversedOnce == \A d \in Deposits : deposit[d].reversals <= 1

(* confirmTransfer and reverseMovement look at the status before they      *)
(* write, so requests that overlap may settle one transfer several times:  *)
(* credit it twice, or credit it and take it back.  Never more often than  *)
(* there were requests settling it when the first of them committed: each  *)
(* of those commits once, whatever retries, refusals and rollbacks come in *)
(* between, and no later one does.  A request that was alone is the only   *)
(* one to credit the transfer or to take it back, for ever.                *)
SettledOncePerRequest ==
  \A t \in Transfers :
    LET x == transfer[t]
    IN  x.credits + (IF x.state = "deleted" THEN 1 ELSE 0) <= x.atOnce

(* A reset moves the sales anchor of the whole space, yet the stock shown  *)
(* for an element it did not count stays what it was: its sales have been  *)
(* materialised, none comes back as phantom stock.  (When neither the      *)
(* level nor the sales moved while the reset was computing.)               *)
PartialResetKeepsExpected ==
  [][\A c \in Counters, e \in Elements :
       /\ ResetCommit(c) /\ e \notin recount[c].lines
       /\ recount[c].seen[e] = level[e] /\ recount[c].seenSold[e] = sold[e]
       => Expected(e)' = Expected(e)]_vars
==============================================================================
