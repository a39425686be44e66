------------------------------ MODULE SalesWriter ------------------------------
(***************************************************************************)
(* The two writers of Weezevent transactions.  A batch                     *)
(* (WeezeventTransactionBatchWriterService) makes the missing rows of a    *)
(* page, then the lines of the rows that have none; a single               *)
(* synchronisation (TransactionSyncService) makes or updates one row, then *)
(* replaces its lines.  Both write in statements of their own.  The rows   *)
(* have a unique key, the lines have not.                                  *)
(*                                                                         *)
(* A sale stands for a validated transaction (status V) with its lines,    *)
(* which are inserted together.                                            *)
(***************************************************************************)
EXTENDS Integers, FiniteSets

CONSTANTS
  Sale,     \* transactions of one integration
  Writer,   \* executions of processBatchTransactions that may overlap
  Caller    \* executions of syncSingleTransaction that may overlap

VARIABLES
  row,      \* sales that have a SalesTransaction
  lines,    \* lines[x]: times the lines of x are in the database
  batch,    \* batch[w]: the statement w makes next, its page, and the sales it
            \* found without a row or without lines
  single,   \* single[h]: the statement h makes next, and its sale
  crossed   \* history: two writers had the sale in hand together

writerVars == <<row, lines, batch, single, crossed>>

Batch == [step : {"off", "rows", "bare", "lines"}, page : SUBSET Sale,
          todo : SUBSET Sale]
NoBatch == [step |-> "off", page |-> {}, todo |-> {}]
Single == [step : {"off", "upsert", "wipe", "lines"}, of : SUBSET Sale]
NoSingle == [step |-> "off", of |-> {}]

WriterTypeOK ==
  /\ row \subseteq Sale
  /\ lines \in [Sale -> Nat]
  /\ batch \in [Writer -> Batch]
  /\ single \in [Caller -> Single]
  /\ crossed \subseteq Sale

WriterInit ==
  /\ row = {}
  /\ lines = [x \in Sale |-> 0]
  /\ batch = [w \in Writer |-> NoBatch]
  /\ single = [h \in Caller |-> NoSingle]
  /\ crossed = {}

InHand ==
  (UNION {batch[w].page : w \in Writer}) \cup (UNION {single[h].of : h \in Caller})

AddLines(sales) == lines' = [x \in Sale |-> IF x \in sales THEN lines[x] + 1 ELSE lines[x]]

------------------------------------------------------------------------------
(* A batch.                                                                *)

\* existingTransactionIds, read before the first write of the page.
ReadKnown(w, page) ==
  /\ batch[w].step = "off"
  /\ batch' = [batch EXCEPT ![w] = [step |-> "rows", page |-> page, todo |-> page \ row]]
  /\ crossed' = crossed \cup (page \cap InHand)
  /\ UNCHANGED <<row, lines, single>>

\* createMany, skipDuplicates: the unique key drops the rows made meanwhile.
CreateRows(w) ==
  /\ batch[w].step = "rows"
  /\ row' = row \cup batch[w].todo
  /\ batch' = [batch EXCEPT ![w].step = "bare"]
  /\ UNCHANGED <<lines, single, crossed>>

\* Plausible bug: only the rows this batch has just made are given lines.
ReadBareOfNew(w) ==
  /\ batch[w].step = "bare"
  /\ batch' = [batch EXCEPT ![w].step = "lines"]
  /\ UNCHANGED <<row, lines, single, crossed>>

\* The rows of the page that have no line yet, new or old.
ReadBare(w) ==
  /\ batch[w].step = "bare"
  /\ batch' = [batch EXCEPT ![w].step = "lines",
                 ![w].todo = {x \in batch[w].page \cap row : lines[x] = 0}]
  /\ UNCHANGED <<row, lines, single, crossed>>

\* Plausible bug: the lines of the whole page are inserted.
InsertLinesOfPage(w) ==
  /\ batch[w].step = "lines"
  /\ AddLines(batch[w].page)
  /\ batch' = [batch EXCEPT ![w] = NoBatch]
  /\ UNCHANGED <<row, single, crossed>>

\* createMany of the lines, which ends the batch.
InsertLines(w) ==
  /\ batch[w].step = "lines"
  /\ AddLines(batch[w].todo)
  /\ batch' = [batch EXCEPT ![w] = NoBatch]
  /\ UNCHANGED <<row, single, crossed>>

\* A statement fails: what the former ones wrote stays.
DropBatch(w) ==
  /\ batch[w].step # "off"
  /\ batch' = [batch EXCEPT ![w] = NoBatch]
  /\ UNCHANGED <<row, lines, single, crossed>>

------------------------------------------------------------------------------
(* A single synchronisation.                                               *)

\* The transaction as the API shows it is in hand.
HoldSale(h, x) ==
  /\ single[h].step = "off"
  /\ single' = [single EXCEPT ![h] = [step |-> "upsert", of |-> {x}]]
  /\ crossed' = crossed \cup ({x} \cap InHand)
  /\ UNCHANGED <<row, lines, batch>>

\* The upsert of the row.
UpsertRow(h) ==
  /\ single[h].step = "upsert"
  /\ row' = row \cup single[h].of
  /\ single' = [single EXCEPT ![h].step = "wipe"]
  /\ UNCHANGED <<lines, batch, crossed>>

\* deleteMany of the lines, then createMany, without a transaction.
WipeLines(h) ==
  /\ single[h].step = "wipe"
  /\ lines' = [x \in Sale |-> IF x \in single[h].of THEN 0 ELSE lines[x]]
  /\ single' = [single EXCEPT ![h].step = "lines"]
  /\ UNCHANGED <<row, batch, crossed>>

RecreateLines(h) ==
  /\ single[h].step = "lines"
  /\ AddLines(single[h].of)
  /\ single' = [single EXCEPT ![h] = NoSingle]
  /\ UNCHANGED <<row, batch, crossed>>

DropSingle(h) ==
  /\ single[h].step # "off"
  /\ single' = [single EXCEPT ![h] = NoSingle]
  /\ UNCHANGED <<row, lines, batch, crossed>>

------------------------------------------------------------------------------
\* A process dies with its writers.
DropAll(writers, callers) ==
  /\ batch' = [w \in Writer |-> IF w \in writers THEN NoBatch ELSE batch[w]]
  /\ single' = [h \in Caller |-> IF h \in callers THEN NoSingle ELSE single[h]]
  /\ UNCHANGED <<row, lines, crossed>>
==============================================================================
