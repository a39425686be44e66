-------------------------- MODULE SalesWriter_proofs --------------------------
(***************************************************************************)
(* What any set of writers keeps, whoever starts them and whenever they    *)
(* are dropped: a transaction that one writer at a time has in hand has    *)
(* its lines at most once, and a batch that reads it bare gives them back. *)
(***************************************************************************)
EXTENDS SalesWriter, TLAPS

(* A statement of a writer, its death, or nothing at all.                  *)
WriterStep ==
  \/ \E w \in Writer :
       \/ \E page \in SUBSET Sale : ReadKnown(w, page)
       \/ CreateRows(w) \/ ReadBare(w) \/ InsertLines(w) \/ DropBatch(w)
  \/ \E h \in Caller :
       \/ \E x \in Sale : HoldSale(h, x)
       \/ UpsertRow(h) \/ WipeLines(h) \/ RecreateLines(h) \/ DropSingle(h)
  \/ \E writers \in SUBSET Writer, callers \in SUBSET Caller : DropAll(writers, callers)
  \/ UNCHANGED writerVars

(* A batch holds its page from its first read, and has made the rows of it *)
(* before it looks for lines.                                              *)
PageInHand ==
  \A w \in Writer :
    /\ batch[w].todo \subseteq batch[w].page
    /\ batch[w].step = "off" => batch[w].page = {}
    /\ batch[w].step = "rows" => batch[w].page \subseteq row \cup batch[w].todo
    /\ batch[w].step \in {"bare", "lines"} => batch[w].page \subseteq row

SaleInHand == \A h \in Caller : single[h].step = "off" => single[h].of = {}

(* Two writers that hold one sale have crossed.                            *)
HeldOnce ==
  /\ \A v, w \in Writer : v # w => batch[v].page \cap batch[w].page \subseteq crossed
  /\ \A w \in Writer, h \in Caller : batch[w].page \cap single[h].of \subseteq crossed
  /\ \A g, h \in Caller : g # h => single[g].of \cap single[h].of \subseteq crossed

(* What a writer has read of the lines still holds when it writes them.    *)
StillBare ==
  /\ \A w \in Writer : batch[w].step = "lines" =>
       \A x \in batch[w].page \ crossed : x \in batch[w].todo <=> lines[x] = 0
  /\ \A h \in Caller : single[h].step = "lines" =>
       \A x \in single[h].of \ crossed : lines[x] = 0

LinesOfOne == \A x \in Sale : lines[x] > 1 => x \in crossed

WriterInv ==
  /\ WriterTypeOK /\ PageInHand /\ SaleInHand
  /\ HeldOnce /\ StillBare /\ LinesOfOne

------------------------------------------------------------------------------
LEMMA WriterInitInv == WriterInit => WriterInv
<1> SUFFICES ASSUME WriterInit PROVE WriterInv
  OBVIOUS
<1>1. WriterTypeOK
  BY DEF WriterInit, WriterTypeOK, Batch, NoBatch, Single, NoSingle
<1>2. PageInHand /\ SaleInHand /\ HeldOnce
  BY DEF WriterInit, PageInHand, SaleInHand, HeldOnce, NoBatch, NoSingle
<1>3. StillBare /\ LinesOfOne
  BY DEF WriterInit, StillBare, LinesOfOne, NoBatch, NoSingle
<1> QED
  BY <1>1, <1>2, <1>3 DEF WriterInv

(* What one writer holds, the hands of all hold.                           *)
LEMMA HandsHold ==
  /\ \A w \in Writer : batch[w].page \subseteq InHand
  /\ \A h \in Caller : single[h].of \subseteq InHand
BY DEF InHand

(* Lines are added to sales, once.                                         *)
LEMMA AddLinesType ==
  ASSUME lines \in [Sale -> Nat], NEW sales, AddLines(sales)
  PROVE  /\ lines' \in [Sale -> Nat]
         /\ \A x \in Sale : lines'[x] = IF x \in sales THEN lines[x] + 1 ELSE lines[x]
BY DEF AddLines

LEMMA ReadKnownKeeps ==
  ASSUME WriterInv, NEW w \in Writer, NEW page \in SUBSET Sale, ReadKnown(w, page)
  PROVE  WriterInv'
<1> USE DEF WriterInv, ReadKnown
<1>1. batch' \in [Writer -> Batch] /\ crossed' \subseteq Sale
  BY DEF WriterTypeOK, Batch
<1>2. WriterTypeOK'
  BY <1>1 DEF WriterTypeOK
<1>3. /\ batch'[w] = [step |-> "rows", page |-> page, todo |-> page \ row]
      /\ \A v \in Writer : v # w => batch'[v] = batch[v]
  BY DEF WriterTypeOK
<1>4. PageInHand'
  BY <1>3 DEF PageInHand
<1>5. SaleInHand'
  BY DEF SaleInHand
<1>6. HeldOnce'
  BY <1>3, HandsHold DEF HeldOnce
<1>7. StillBare'
  BY <1>3 DEF StillBare
<1>8. LinesOfOne'
  BY DEF LinesOfOne
<1> QED
  BY <1>2, <1>4, <1>5, <1>6, <1>7, <1>8

LEMMA CreateRowsKeeps ==
  ASSUME WriterInv, NEW w \in Writer, CreateRows(w)
  PROVE  WriterInv'
<1> USE DEF WriterInv, CreateRows
<1>1. batch[w] \in Batch /\ batch' = [batch EXCEPT ![w] = [batch[w] EXCEPT !.step = "bare"]]
  BY DEF WriterTypeOK
<1>2. /\ batch'[w].page = batch[w].page /\ batch'[w].todo = batch[w].todo
      /\ batch'[w].step = "bare" /\ batch'[w] \in Batch
      /\ \A v \in Writer : v # w => batch'[v] = batch[v]
  BY <1>1 DEF WriterTypeOK, Batch
<1>3. WriterTypeOK'
  BY <1>1, <1>2 DEF WriterTypeOK, Batch
<1>4. PageInHand'
  BY <1>2 DEF PageInHand
<1>5. SaleInHand' /\ HeldOnce' /\ LinesOfOne'
  BY <1>2 DEF SaleInHand, HeldOnce, LinesOfOne
<1>6. StillBare'
  BY <1>2 DEF StillBare
<1> QED
  BY <1>3, <1>4, <1>5, <1>6

(* The record of a batch that has read its bare rows.                      *)
LEMMA ReadBareRecord ==
  ASSUME NEW b \in Batch, NEW bare \in SUBSET Sale
  PROVE  LET next == [b EXCEPT !.step = "lines", !.todo = bare]
         IN /\ next.page = b.page /\ next.todo = bare /\ next.step = "lines"
            /\ next \in Batch
BY DEF Batch

LEMMA ReadBareKeeps ==
  ASSUME WriterInv, NEW w \in Writer, ReadBare(w)
  PROVE  WriterInv'
<1> USE DEF WriterInv, ReadBare
<1> DEFINE bare == {x \in batch[w].page \cap row : lines[x] = 0}
<1>1. /\ batch[w] \in Batch
      /\ batch' = [batch EXCEPT ![w] = [batch[w] EXCEPT !.step = "lines", !.todo = bare]]
  BY DEF WriterTypeOK
<1>2. /\ batch'[w].page = batch[w].page /\ batch'[w].todo = bare
      /\ batch'[w].step = "lines" /\ batch'[w] \in Batch
      /\ \A v \in Writer : v # w => batch'[v] = batch[v]
  <2> DEFINE next == [batch[w] EXCEPT !.step = "lines", !.todo = bare]
  <2>1. bare \in SUBSET Sale
    BY <1>1 DEF Batch
  <2>2. /\ next.page = batch[w].page /\ next.todo = bare /\ next.step = "lines"
        /\ next \in Batch
    BY ReadBareRecord, <1>1, <2>1
  <2>3. batch'[w] = next /\ \A v \in Writer : v # w => batch'[v] = batch[v]
    <3> HIDE DEF next, ReadBare
    <3>1. batch' = [batch EXCEPT ![w] = next]
      BY <1>1 DEF next
    <3> QED
      BY <3>1 DEF WriterTypeOK
  <2> QED
    BY <2>2, <2>3
<1>3. WriterTypeOK'
  BY <1>1, <1>2 DEF WriterTypeOK
<1>4. PageInHand'
  BY <1>2 DEF PageInHand
<1>5. SaleInHand' /\ HeldOnce' /\ LinesOfOne'
  <2>1. /\ \A v \in Writer : batch'[v].page = batch[v].page
        /\ single' = single /\ lines' = lines /\ crossed' = crossed
    BY <1>2
  <2> HIDE DEF ReadBare
  <2>2. HeldOnce'
    BY <2>1 DEF HeldOnce
  <2>3. SaleInHand' /\ LinesOfOne'
    BY <2>1 DEF SaleInHand, LinesOfOne
  <2> QED
    BY <2>2, <2>3
<1>6. batch[w].page \subseteq row
  BY DEF PageInHand
<1>7. StillBare'
  BY <1>2, <1>6 DEF StillBare
<1> QED
  BY <1>3, <1>4, <1>5, <1>7

LEMMA InsertLinesKeeps ==
  ASSUME WriterInv, NEW w \in Writer, InsertLines(w)
  PROVE  /\ WriterInv'
         /\ \A x \in batch[w].page : lines'[x] > 0 \/ x \in crossed
<1> USE DEF WriterInv, InsertLines
<1>1. /\ batch'[w] = NoBatch /\ batch' \in [Writer -> Batch]
      /\ \A v \in Writer : v # w => batch'[v] = batch[v]
  BY DEF WriterTypeOK, Batch, NoBatch
<1>2. /\ lines' \in [Sale -> Nat]
      /\ \A x \in Sale : lines'[x] = IF x \in batch[w].todo THEN lines[x] + 1 ELSE lines[x]
  BY AddLinesType DEF WriterTypeOK
<1>3. batch[w].page \subseteq Sale /\ batch[w].todo \subseteq batch[w].page
  BY DEF WriterTypeOK, Batch, PageInHand
<1>4. \A x \in batch[w].page \ crossed : x \in batch[w].todo <=> lines[x] = 0
  BY DEF StillBare
<1>5. WriterTypeOK'
  BY <1>1, <1>2 DEF WriterTypeOK
<1>6. PageInHand' /\ SaleInHand' /\ HeldOnce'
  BY <1>1 DEF PageInHand, SaleInHand, HeldOnce, NoBatch
<1>7. StillBare'
  <2>1. ASSUME NEW v \in Writer, batch'[v].step = "lines", NEW x \in batch'[v].page \ crossed'
        PROVE  x \in batch'[v].todo <=> lines'[x] = 0
    <3>1. v # w /\ batch'[v] = batch[v] /\ x \notin batch[w].page
      BY <1>1, <2>1 DEF NoBatch, HeldOnce
    <3>2. x \in Sale /\ lines'[x] = lines[x]
      BY <1>2, <1>3, <2>1, <3>1 DEF WriterTypeOK, Batch
    <3> QED
      BY <2>1, <3>1, <3>2 DEF StillBare
  <2>2. ASSUME NEW h \in Caller, single'[h].step = "lines", NEW x \in single'[h].of \ crossed'
        PROVE  lines'[x] = 0
    <3>1. x \notin batch[w].page /\ x \in Sale /\ lines[x] = 0
      BY <2>2 DEF HeldOnce, StillBare, WriterTypeOK, Single
    <3> QED
      BY <1>2, <1>3, <3>1
  <2> QED
    BY <2>1, <2>2 DEF StillBare
<1>8. LinesOfOne'
  BY <1>2, <1>3, <1>4 DEF LinesOfOne, WriterTypeOK
<1>9. \A x \in batch[w].page : lines'[x] > 0 \/ x \in crossed
  BY <1>2, <1>3, <1>4 DEF WriterTypeOK
<1> QED
  BY <1>5, <1>6, <1>7, <1>8, <1>9

LEMMA DropBatchKeeps ==
  ASSUME WriterInv, NEW w \in Writer, DropBatch(w)
  PROVE  WriterInv'
<1> USE DEF WriterInv, DropBatch
<1>1. /\ batch'[w] = NoBatch /\ batch' \in [Writer -> Batch]
      /\ \A v \in Writer : v # w => batch'[v] = batch[v]
  BY DEF WriterTypeOK, Batch, NoBatch
<1>2. WriterTypeOK'
  BY <1>1 DEF WriterTypeOK
<1>3. PageInHand' /\ SaleInHand' /\ HeldOnce' /\ StillBare' /\ LinesOfOne'
  BY <1>1 DEF PageInHand, SaleInHand, HeldOnce, StillBare, LinesOfOne, NoBatch
<1> QED
  BY <1>2, <1>3

------------------------------------------------------------------------------
LEMMA HoldSaleKeeps ==
  ASSUME WriterInv, NEW h \in Caller, NEW x \in Sale, HoldSale(h, x)
  PROVE  WriterInv'
<1> USE DEF WriterInv, HoldSale
<1>1. single' \in [Caller -> Single] /\ crossed' \subseteq Sale
  BY DEF WriterTypeOK, Single
<1>2. WriterTypeOK'
  BY <1>1 DEF WriterTypeOK
<1>3. /\ single'[h] = [step |-> "upsert", of |-> {x}]
      /\ \A g \in Caller : g # h => single'[g] = single[g]
  BY DEF WriterTypeOK
<1>4. PageInHand' /\ SaleInHand' /\ LinesOfOne'
  BY <1>3 DEF PageInHand, SaleInHand, LinesOfOne
<1>5. HeldOnce'
  BY <1>3, HandsHold DEF HeldOnce
<1>6. StillBare'
  BY <1>3 DEF StillBare
<1> QED
  BY <1>2, <1>4, <1>5, <1>6

(* A single synchronisation makes the row or empties the lines of its sale.*)
LEMMA SinglePass ==
  ASSUME WriterInv, NEW h \in Caller, UpsertRow(h) \/ WipeLines(h)
  PROVE  /\ single' \in [Caller -> Single] /\ single'[h].of = single[h].of
         /\ \/ UpsertRow(h) /\ single'[h].step = "wipe"
            \/ WipeLines(h) /\ single'[h].step = "lines"
         /\ \A g \in Caller : g # h => single'[g] = single[g]
<1>1. single[h] \in Single
  BY DEF WriterInv, WriterTypeOK
<1>2. CASE UpsertRow(h)
  <2>1. single' = [single EXCEPT ![h] = [single[h] EXCEPT !.step = "wipe"]]
    BY <1>2 DEF UpsertRow, WriterInv, WriterTypeOK
  <2> QED
    BY <1>1, <1>2, <2>1 DEF WriterInv, WriterTypeOK, Single
<1>3. CASE WipeLines(h)
  <2>1. single' = [single EXCEPT ![h] = [single[h] EXCEPT !.step = "lines"]]
    BY <1>3 DEF WipeLines, WriterInv, WriterTypeOK
  <2> QED
    BY <1>1, <1>3, <2>1 DEF WriterInv, WriterTypeOK, Single
<1> QED
  BY <1>2, <1>3

LEMMA UpsertRowKeeps ==
  ASSUME WriterInv, NEW h \in Caller, UpsertRow(h)
  PROVE  WriterInv'
<1> USE DEF WriterInv, UpsertRow
<1>1. /\ single' \in [Caller -> Single] /\ single'[h].of = single[h].of
      /\ single'[h].step = "wipe"
      /\ \A g \in Caller : g # h => single'[g] = single[g]
  BY SinglePass DEF WipeLines
<1>2. WriterTypeOK'
  BY <1>1 DEF WriterTypeOK, Single
<1>3. PageInHand' /\ SaleInHand' /\ LinesOfOne'
  BY <1>1 DEF PageInHand, SaleInHand, LinesOfOne
<1>4. HeldOnce' /\ StillBare'
  BY <1>1 DEF HeldOnce, StillBare
<1> QED
  BY <1>2, <1>3, <1>4

LEMMA WipeLinesKeeps ==
  ASSUME WriterInv, NEW h \in Caller, WipeLines(h)
  PROVE  WriterInv'
<1> USE DEF WriterInv, WipeLines
<1>1. /\ single' \in [Caller -> Single] /\ single'[h].of = single[h].of
      /\ single'[h].step = "lines"
      /\ \A g \in Caller : g # h => single'[g] = single[g]
  BY SinglePass DEF UpsertRow
<1>2. /\ lines' \in [Sale -> Nat]
      /\ \A x \in Sale : lines'[x] = IF x \in single[h].of THEN 0 ELSE lines[x]
  BY DEF WriterTypeOK
<1>3. WriterTypeOK'
  BY <1>1, <1>2 DEF WriterTypeOK
<1>4. PageInHand' /\ SaleInHand' /\ HeldOnce'
  BY <1>1 DEF PageInHand, SaleInHand, HeldOnce
<1>5. LinesOfOne'
  BY <1>2 DEF LinesOfOne
<1>6. StillBare'
  <2>1. ASSUME NEW w \in Writer, batch[w].step = "lines", NEW x \in batch[w].page \ crossed
        PROVE  x \in batch[w].todo <=> lines'[x] = 0
    BY <1>2, <2>1 DEF StillBare, HeldOnce, WriterTypeOK, Batch
  <2>2. ASSUME NEW g \in Caller, single'[g].step = "lines", NEW x \in single'[g].of \ crossed
        PROVE  lines'[x] = 0
    BY <1>1, <1>2, <2>2 DEF StillBare, WriterTypeOK, Single
  <2> QED
    BY <2>1, <2>2 DEF StillBare
<1> QED
  BY <1>3, <1>4, <1>5, <1>6

LEMMA RecreateLinesKeeps ==
  ASSUME WriterInv, NEW h \in Caller, RecreateLines(h)
  PROVE  WriterInv'
<1> USE DEF WriterInv, RecreateLines
<1>1. /\ single'[h] = NoSingle /\ single' \in [Caller -> Single]
      /\ \A g \in Caller : g # h => single'[g] = single[g]
  BY DEF WriterTypeOK, Single, NoSingle
<1>2. /\ lines' \in [Sale -> Nat]
      /\ \A x \in Sale : lines'[x] = IF x \in single[h].of THEN lines[x] + 1 ELSE lines[x]
  BY AddLinesType DEF WriterTypeOK
<1>3. single[h].of \subseteq Sale /\ \A x \in single[h].of \ crossed : lines[x] = 0
  BY DEF WriterTypeOK, Single, StillBare
<1>4. WriterTypeOK'
  BY <1>1, <1>2 DEF WriterTypeOK
<1>5. PageInHand' /\ SaleInHand' /\ HeldOnce'
  BY <1>1 DEF PageInHand, SaleInHand, HeldOnce, NoSingle
<1>6. LinesOfOne'
  BY <1>2, <1>3 DEF LinesOfOne, WriterTypeOK
<1>7. StillBare'
  <2>1. ASSUME NEW w \in Writer, batch[w].step = "lines", NEW x \in batch[w].page \ crossed
        PROVE  x \in batch[w].todo <=> lines'[x] = 0
    BY <1>2, <2>1 DEF StillBare, HeldOnce, WriterTypeOK, Batch
  <2>2. ASSUME NEW g \in Caller, single'[g].step = "lines", NEW x \in single'[g].of \ crossed
        PROVE  lines'[x] = 0
    <3>1. g # h /\ single'[g] = single[g] /\ x \notin single[h].of /\ x \in Sale
      BY <1>1, <2>2 DEF NoSingle, HeldOnce, WriterTypeOK, Single
    <3> QED
      BY <1>2, <2>2, <3>1 DEF StillBare
  <2> QED
    BY <2>1, <2>2 DEF StillBare
<1> QED
  BY <1>4, <1>5, <1>6, <1>7

LEMMA DropSingleKeeps ==
  ASSUME WriterInv, NEW h \in Caller, DropSingle(h)
  PROVE  WriterInv'
<1> USE DEF WriterInv, DropSingle
<1>1. /\ single'[h] = NoSingle /\ single' \in [Caller -> Single]
      /\ \A g \in Caller : g # h => single'[g] = single[g]
  BY DEF WriterTypeOK, Single, NoSingle
<1>2. WriterTypeOK'
  BY <1>1 DEF WriterTypeOK
<1>3. PageInHand' /\ SaleInHand' /\ HeldOnce' /\ StillBare' /\ LinesOfOne'
  BY <1>1 DEF PageInHand, SaleInHand, HeldOnce, StillBare, LinesOfOne, NoSingle
<1> QED
  BY <1>2, <1>3

LEMMA DropAllKeeps ==
  ASSUME WriterInv, NEW writers \in SUBSET Writer, NEW callers \in SUBSET Caller,
         DropAll(writers, callers)
  PROVE  WriterInv'
<1> USE DEF WriterInv, DropAll
<1>1. /\ batch' \in [Writer -> Batch] /\ single' \in [Caller -> Single]
      /\ \A w \in Writer : batch'[w] = batch[w] \/ batch'[w] = NoBatch
      /\ \A h \in Caller : single'[h] = single[h] \/ single'[h] = NoSingle
  BY DEF WriterTypeOK, Batch, NoBatch, Single, NoSingle
<1>2. WriterTypeOK'
  BY <1>1 DEF WriterTypeOK
<1>3. PageInHand' /\ SaleInHand' /\ StillBare' /\ LinesOfOne'
  BY <1>1 DEF PageInHand, SaleInHand, StillBare, LinesOfOne, NoBatch, NoSingle
<1>4. HeldOnce'
  BY <1>1 DEF HeldOnce, NoBatch, NoSingle
<1> QED
  BY <1>2, <1>3, <1>4

(* Whatever the writers do, they keep their invariant.                     *)
LEMMA WriterStepKeeps ==
  ASSUME WriterInv, WriterStep
  PROVE  WriterInv'
<1>1. CASE UNCHANGED writerVars
  BY <1>1 DEF writerVars, WriterInv, WriterTypeOK, PageInHand, SaleInHand, HeldOnce,
              StillBare, LinesOfOne
<1> QED
  BY <1>1, ReadKnownKeeps, CreateRowsKeeps, ReadBareKeeps, InsertLinesKeeps, DropBatchKeeps,
     HoldSaleKeeps, UpsertRowKeeps, WipeLinesKeeps, RecreateLinesKeeps, DropSingleKeeps,
     DropAllKeeps DEF WriterStep
==============================================================================
