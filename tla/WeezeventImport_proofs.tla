------------------------- MODULE WeezeventImport_proofs -------------------------
(***************************************************************************)
(* For every set of sales, passes, chunks and webhooks: the rows are       *)
(* well-typed, lines are doubled only where two writers crossed, a page    *)
(* written to its end heals what it reads, a withdrawn sale stays counted  *)
(* only where its deletion overtook somebody who held it, and the cursor   *)
(* leaves nothing behind where every pass may read to the end.             *)
(***************************************************************************)
EXTENDS WeezeventImport, SalesWriter_proofs, FiniteSetTheorems

(* The types of all that the writers do not own.                           *)
RestTypeOK ==
  /\ sold \subseteq Sale /\ collecting \in BOOLEAN /\ held \in [Inserter -> SUBSET Sale]
  /\ gone \subseteq Sale /\ below \subseteq Sale /\ synced \in BOOLEAN
  /\ runner \in [Runner -> Pass]
  /\ event \in [Delivery -> Stage]
  /\ deleted \subseteq row /\ missed \subseteq Sale
  /\ faults \in 0..MaxFaults

(* A webhook being written has a writer of its own; a deletion is sent     *)
(* only for a sale that is gone for good.                                  *)
SentForCause ==
  /\ gone \cap sold = {}
  /\ \A d \in Delivery : event[d] = "busy" => d \in Caller
  /\ \A d \in Delivery : d[2] = "delete" /\ event[d] # "none" => d[1] \in gone

(* Once its deletion is done, a sale with a row, or that somebody holds,   *)
(* is marked or was missed.                                                *)
MarkedOrMissed ==
  \A d \in Delivery :
    d[2] = "delete" /\ event[d] = "processed" /\ d[1] \in row \cup Holding
      => d[1] \in deleted \cup missed

ImportInv == WriterInv /\ RestTypeOK /\ SentForCause /\ MarkedOrMissed

------------------------------------------------------------------------------
(* A delivery is a pair, and the webhooks that write are the callers.      *)
LEMMA DeliveryIsPair ==
  ASSUME NEW d \in Delivery
  PROVE  d[1] \in Sale /\ d = <<d[1], d[2]>> /\ (d \in Caller <=> d[2] # "delete")
BY ImportAssumption

LEMMA InHolding ==
  ASSUME NEW x
  PROVE  x \in Holding <=>
           \/ \E w \in Writer : x \in batch[w].page
           \/ \E h \in Caller : x \in single[h].of
           \/ \E w \in Inserter : x \in held[w]
           \/ \E u \in Runner : x \in runner[u].page
BY DEF Holding, InHand

LEMMA RowsStay == ASSUME WriterStep PROVE row \subseteq row'
BY DEF WriterStep, ReadKnown, CreateRows, ReadBare, InsertLines, DropBatch, HoldSale, UpsertRow,
       WipeLines, RecreateLines, DropSingle, DropAll, writerVars

(* A row is made by somebody who held its sale.                            *)
LEMMA RowsOfHeld ==
  ASSUME WriterInv, WriterStep
  PROVE  row' \subseteq row \cup InHand
<1>1. \A w \in Writer : batch[w].todo \subseteq InHand
  BY HandsHold DEF WriterInv, PageInHand
<1> QED
  BY <1>1, HandsHold DEF WriterStep, ReadKnown, CreateRows, ReadBare, InsertLines, DropBatch,
     HoldSale, UpsertRow, WipeLines, RecreateLines, DropSingle, DropAll, writerVars

------------------------------------------------------------------------------
(* The actions of the system are statements of writers.                    *)

LEMMA WeezeventOnly ==
  ASSUME NEW x \in Sale, Sell(x) \/ Update(x) \/ Withdraw(x)
  PROVE  WriterStep
BY DEF Sell, Update, Withdraw, WriterStep

LEMMA PassWrites ==
  ASSUME ImportInv, NEW u \in Runner, RunStart(u) \/ Run(u) \/ RunFails(u)
  PROVE  WriterStep
<1>1. u \in Writer
  BY ImportAssumption
<1>2. runner[u].page \subseteq Sale
  BY DEF ImportInv, RestTypeOK, Pass
<1>3. CASE RunFilter(u)
  BY <1>1, <1>2, <1>3 DEF RunFilter, WriterStep
<1>4. CASE RunWrite(u)
  BY <1>1, <1>4 DEF RunWrite, WriterStep
<1>5. CASE RunFails(u)
  BY <1>1, <1>5 DEF RunFails, WriterStep
<1>6. CASE RunStart(u) \/ RunFetch(u) \/ RunEnd(u)
  BY <1>6 DEF RunStart, RunFetch, RunEnd, WriterStep
<1> QED
  BY <1>3, <1>4, <1>5, <1>6 DEF Run

LEMMA WebhookWrites ==
  ASSUME ImportInv, NEW d \in Delivery, Receive(d) \/ Handle(d) \/ Left(d)
  PROVE  WriterStep
<1>1. d[1] \in Sale /\ (event[d] = "busy" => d \in Caller) /\ (d[2] # "delete" => d \in Caller)
  BY DeliveryIsPair DEF ImportInv, SentForCause
<1>2. CASE SyncById(d)
  BY <1>1, <1>2 DEF SyncById, WriterStep
<1>3. CASE HookWrites(d)
  BY <1>1, <1>3 DEF HookWrites, WriterStep
<1>4. CASE Left(d)
  BY <1>1, <1>4 DEF Left, WriterStep
<1>5. CASE Receive(d) \/ MarkDeleted(d)
  BY <1>5 DEF Receive, MarkDeleted, WriterStep
<1> QED
  BY <1>2, <1>3, <1>4, <1>5 DEF Handle

LEMMA JobWrites ==
  ASSUME ImportInv, Job \/ JobFails \/ ApiDies
  PROVE  WriterStep
<1>1. Inserter \subseteq Writer /\ \A w \in Inserter : held[w] \in SUBSET Sale
  BY InserterAssumption DEF ImportInv, RestTypeOK
<1>2. CASE Job
  BY <1>1, <1>2 DEF Job, CollectingTurns, ChunkAnswered, ChunkBegins, ChunkGoesOn, WriterStep
<1>3. CASE JobFails
  BY <1>1, <1>3 DEF JobFails, ChunkDropped, WriterStep
<1>4. CASE ApiDies
  BY <1>1, <1>4 DEF ApiDies, ProcessDies, WriterStep
<1> QED
  BY <1>2, <1>3, <1>4

LEMMA StepWrites ==
  ASSUME ImportInv, [ImportNext]_importVars
  PROVE  WriterStep
<1>1. CASE UNCHANGED importVars
  BY <1>1 DEF importVars, WriterStep
<1> QED
  BY <1>1, WeezeventOnly, PassWrites, WebhookWrites, JobWrites DEF ImportNext

------------------------------------------------------------------------------
(* Types.                                                                  *)

(* A webhook moves to another stage.                                       *)
LEMMA StagesType ==
  ASSUME event \in [Delivery -> Stage], NEW d \in Delivery, NEW stage \in Stage, Stages(d, stage)
  PROVE  /\ event' \in [Delivery -> Stage] /\ event'[d] = stage
         /\ \A e \in Delivery : e # d => event'[e] = event[e]
BY DEF Stages

LEMMA SendsType ==
  ASSUME event \in [Delivery -> Stage], NEW x \in Sale, NEW method, Sends(x, method)
  PROVE  /\ event' \in [Delivery -> Stage]
         /\ \A e \in Delivery : e # <<x, method>> => event'[e] = event[e]
         /\ \A e \in Delivery : event'[e] \in {event[e], "sent"}
BY StagesType DEF Sends, Stages, Stage

LEMMA WeezeventTypes ==
  ASSUME ImportInv, NEW x \in Sale, Sell(x) \/ Update(x) \/ Withdraw(x)
  PROVE  RestTypeOK' /\ SentForCause'
<1> USE DEF ImportInv, RestTypeOK
<1>1. event \in [Delivery -> Stage]
  OBVIOUS
<1>2. CASE Sell(x)
  <2>1. /\ event' \in [Delivery -> Stage]
        /\ \A e \in Delivery : e # <<x, "create">> => event'[e] = event[e]
        /\ \A e \in Delivery : event'[e] \in {event[e], "sent"}
    BY <1>1, <1>2, SendsType DEF Sell
  <2>2. RestTypeOK'
    BY <1>2, <2>1 DEF Sell, writerVars, chunkVars, runVars
  <2>3. SentForCause'
    BY <1>2, <2>1, DeliveryIsPair DEF Sell, SentForCause
  <2> QED
    BY <2>2, <2>3
<1>3. CASE Update(x)
  <2>1. /\ event' \in [Delivery -> Stage]
        /\ \A e \in Delivery : e # <<x, "update">> => event'[e] = event[e]
        /\ \A e \in Delivery : event'[e] \in {event[e], "sent"}
    BY <1>1, <1>3, SendsType DEF Update
  <2>2. RestTypeOK'
    BY <1>3, <2>1 DEF Update, writerVars, chunkVars, runVars
  <2>3. SentForCause'
    BY <1>3, <2>1, DeliveryIsPair DEF Update, SentForCause
  <2> QED
    BY <2>2, <2>3
<1>4. CASE Withdraw(x)
  <2>1. /\ event' \in [Delivery -> Stage]
        /\ \A e \in Delivery : e # <<x, "delete">> => event'[e] = event[e]
        /\ \A e \in Delivery : event'[e] \in {event[e], "sent"}
    BY <1>1, <1>4, SendsType DEF Withdraw
  <2>2. RestTypeOK'
    BY <1>4, <2>1 DEF Withdraw, writerVars, chunkVars, runVars
  <2>3. SentForCause'
    BY <1>4, <2>1, DeliveryIsPair DEF Withdraw, SentForCause
  <2> QED
    BY <2>2, <2>3
<1> QED
  BY <1>2, <1>3, <1>4

(* A pass that begins, moves on or takes a page is a pass.                 *)
LEMMA PassType ==
  ASSUME RestTypeOK, NEW u \in Runner
  PROVE  /\ \A first \in BOOLEAN : Begins(u, first) => runner' \in [Runner -> Pass]
         /\ \A pc \in {"off", "fetch", "filter", "write", "end"} :
              Goes(u, pc) => runner' \in [Runner -> Pass]
         /\ runner' = [runner EXCEPT ![u] = NoPass] => runner' \in [Runner -> Pass]
         /\ \A page \in SUBSET Sale, more \in BOOLEAN :
              runner' = [runner EXCEPT ![u].pc = "filter", ![u].page = page,
                           ![u].seen = @ \cup page, ![u].more = more]
                => runner' \in [Runner -> Pass]
<1>1. runner[u] \in Pass /\ below \in SUBSET Sale /\ sold \in SUBSET Sale
  BY DEF RestTypeOK
<1>2. NoPass \in Pass
  BY DEF NoPass, Pass
<1>3. ASSUME NEW first \in BOOLEAN, Begins(u, first) PROVE runner' \in [Runner -> Pass]
  <2>1. [NoPass EXCEPT !.pc = "fetch", !.first = first, !.passed = below, !.asOf = sold] \in Pass
    BY <1>1 DEF NoPass, Pass
  <2> QED
    BY <1>3, <2>1 DEF Begins, RestTypeOK
<1>4. ASSUME NEW pc \in {"off", "fetch", "filter", "write", "end"}, Goes(u, pc)
      PROVE  runner' \in [Runner -> Pass]
  <2>1. [runner[u] EXCEPT !.pc = pc, !.page = {}] \in Pass
    BY <1>1 DEF Pass
  <2>2. runner' = [runner EXCEPT ![u] = [runner[u] EXCEPT !.pc = pc, !.page = {}]]
    BY <1>4 DEF Goes, RestTypeOK
  <2> QED
    BY <2>1, <2>2 DEF RestTypeOK
<1>5. ASSUME NEW page \in SUBSET Sale, NEW more \in BOOLEAN,
             runner' = [runner EXCEPT ![u].pc = "filter", ![u].page = page,
                          ![u].seen = @ \cup page, ![u].more = more]
      PROVE  runner' \in [Runner -> Pass]
  <2> DEFINE next == [runner[u] EXCEPT !.pc = "filter", !.page = page,
                        !.seen = @ \cup page, !.more = more]
  <2>1. next \in Pass
    BY <1>1 DEF Pass
  <2>2. runner' = [runner EXCEPT ![u] = next]
    BY <1>5 DEF RestTypeOK
  <2> QED
    BY <2>1, <2>2 DEF RestTypeOK
<1> QED
  BY <1>2, <1>3, <1>4, <1>5 DEF RestTypeOK

LEMMA PassTypes ==
  ASSUME ImportInv, NEW u \in Runner, RunStart(u) \/ Run(u) \/ RunFails(u)
  PROVE  RestTypeOK' /\ SentForCause'
<1> USE DEF ImportInv
<1>1. row \subseteq row'
  BY PassWrites, RowsStay
<1>2. /\ runner[u] \in Pass /\ Paged \in BOOLEAN /\ MaxFaults \in Nat
      /\ sold \subseteq Sale /\ below \subseteq Sale /\ runner[u].asOf \subseteq Sale
  BY ImportAssumption DEF RestTypeOK, Pass
<1>3. /\ runner' \in [Runner -> Pass] /\ faults' \in 0..MaxFaults
      /\ below' \subseteq Sale /\ synced' \in BOOLEAN
  <2>1. CASE RunStart(u)
    BY <2>1, <1>2, PassType DEF RunStart, RestTypeOK
  <2>2. CASE RunFetch(u)
    <3> DEFINE rest == sold \ (runner[u].passed \cup runner[u].seen)
    <3>1. CASE Goes(u, "end")
      BY <2>2, <3>1, PassType DEF RunFetch, RestTypeOK
    <3>2. CASE \E page \in SUBSET rest :
                 runner' = [runner EXCEPT ![u].pc = "filter", ![u].page = page,
                              ![u].seen = @ \cup page, ![u].more = Paged /\ page # rest]
      BY <2>2, <3>2, <1>2, PassType DEF RunFetch, RestTypeOK
    <3> QED
      BY <2>2, <3>1, <3>2 DEF RunFetch
  <2>3. GoesOn(u) \in {"off", "fetch", "filter", "write", "end"}
    BY DEF GoesOn
  <2>4. CASE RunFilter(u)
    BY <2>3, <2>4, PassType DEF RunFilter, RestTypeOK
  <2>5. CASE RunWrite(u)
    BY <2>3, <2>5, PassType DEF RunWrite, RestTypeOK
  <2>6. CASE RunEnd(u)
    BY <2>6, <1>2, PassType DEF RunEnd, RestTypeOK
  <2>7. CASE RunFails(u)
    <3>1. runner' \in [Runner -> Pass]
      BY <2>7, PassType DEF RunFails
    <3>2. faults' \in 0..MaxFaults
      BY <2>7, <1>2 DEF RunFails, Fault, RestTypeOK
    <3> QED
      BY <2>7, <3>1, <3>2 DEF RunFails, RestTypeOK
  <2> QED
    BY <2>1, <2>2, <2>4, <2>5, <2>6, <2>7 DEF Run
<1>4. UNCHANGED <<sold, collecting, held, gone, event, deleted, missed>>
  BY DEF Run, RunStart, RunFetch, RunFilter, RunWrite, RunEnd, RunFails, chunkVars, hookVars
<1>5. RestTypeOK'
  BY <1>1, <1>3, <1>4 DEF RestTypeOK
<1>6. SentForCause'
  BY <1>4 DEF SentForCause
<1> QED
  BY <1>5, <1>6

LEMMA WebhookTypes ==
  ASSUME ImportInv, NEW d \in Delivery, Receive(d) \/ Handle(d) \/ Left(d)
  PROVE  RestTypeOK' /\ SentForCause'
<1> USE DEF ImportInv
<1>1. row \subseteq row' /\ d[1] \in Sale /\ (d \in Caller <=> d[2] # "delete")
  BY WebhookWrites, RowsStay, DeliveryIsPair
<1>2. event \in [Delivery -> Stage] /\ event[d] # "none"
  BY DEF RestTypeOK, Receive, Handle, SyncById, HookWrites, MarkDeleted, Left
<1>3. /\ event' \in [Delivery -> Stage]
      /\ \A e \in Delivery : e # d => event'[e] = event[e]
      /\ event'[d] = "busy" => event[d] = "busy" \/ d \in Caller
  <2>1. CASE Receive(d)
    BY <2>1, <1>2, StagesType DEF Receive, Stage
  <2>2. CASE SyncById(d)
    BY <2>2, <1>1, <1>2, StagesType DEF SyncById, Stage
  <2>3. CASE HookWrites(d)
    BY <2>3, <1>2, StagesType DEF HookWrites, Stage
  <2>4. CASE MarkDeleted(d)
    BY <2>4, <1>2, StagesType DEF MarkDeleted, Stage
  <2>5. CASE Left(d)
    BY <2>5, <1>2, StagesType DEF Left, Stage
  <2> QED
    BY <2>1, <2>2, <2>3, <2>4, <2>5 DEF Handle
<1>4. deleted' \subseteq row' /\ missed' \subseteq Sale /\ faults' \in 0..MaxFaults
  <2>1. CASE MarkDeleted(d)
    BY <2>1, <1>1 DEF MarkDeleted, RestTypeOK
  <2>2. CASE Left(d)
    BY <2>2, <1>1, ImportAssumption DEF Left, Fault, RestTypeOK
  <2>3. CASE Receive(d) \/ SyncById(d) \/ HookWrites(d)
    BY <2>3, <1>1 DEF Receive, SyncById, HookWrites, RestTypeOK
  <2> QED
    BY <2>1, <2>2, <2>3 DEF Handle
<1>5. UNCHANGED <<sold, collecting, held, gone, below, synced, runner>>
  BY DEF Receive, Handle, SyncById, HookWrites, MarkDeleted, Left, chunkVars, runVars
<1>6. RestTypeOK'
  BY <1>3, <1>4, <1>5 DEF RestTypeOK
<1>7. SentForCause'
  BY <1>1, <1>2, <1>3, <1>5 DEF SentForCause
<1> QED
  BY <1>6, <1>7

LEMMA JobTypes ==
  ASSUME ImportInv, Job \/ JobFails \/ ApiDies
  PROVE  RestTypeOK' /\ SentForCause'
<1> USE DEF ImportInv
<1>1. row \subseteq row'
  BY JobWrites, RowsStay
<1>2. collecting' \in BOOLEAN /\ held' \in [Inserter -> SUBSET Sale] /\ sold' = sold
  BY InserterAssumption DEF Job, JobFails, ApiDies, CollectingTurns, ChunkAnswered, ChunkBegins,
     ChunkGoesOn, ChunkDropped, ProcessDies, chunkVars, RestTypeOK
<1>3. faults' \in 0..MaxFaults
  BY ImportAssumption DEF Job, JobFails, ApiDies, Fault, RestTypeOK
<1>4. /\ event' \in [Delivery -> Stage]
      /\ \A d \in Delivery : /\ event'[d] = "busy" => event[d] = "busy"
                             /\ event'[d] # "none" => event[d] # "none"
  <2>1. CASE Job \/ JobFails
    BY <2>1 DEF Job, JobFails, elsewhere, hookVars, RestTypeOK
  <2>2. CASE ApiDies
    BY <2>2 DEF ApiDies, RestTypeOK, Stage
  <2> QED
    BY <2>1, <2>2
<1>5. UNCHANGED <<gone, below, synced, runner, deleted, missed>>
  BY DEF Job, JobFails, ApiDies, elsewhere, hookVars, runVars
<1>6. RestTypeOK'
  BY <1>1, <1>2, <1>3, <1>4, <1>5 DEF RestTypeOK
<1>7. SentForCause'
  BY <1>2, <1>4, <1>5 DEF SentForCause
<1> QED
  BY <1>6, <1>7

LEMMA StepTypes ==
  ASSUME ImportInv, [ImportNext]_importVars
  PROVE  RestTypeOK' /\ SentForCause'
<1>1. CASE UNCHANGED importVars
  BY <1>1 DEF importVars, ImportInv, RestTypeOK, SentForCause, writerVars, chunkVars, runVars,
     hookVars
<1> QED
  BY <1>1, WeezeventTypes, PassTypes, WebhookTypes, JobTypes DEF ImportNext

------------------------------------------------------------------------------
(* Deletions.                                                              *)

(* A deletion that is done stays marked or missed as long as nobody takes  *)
(* up a sale that Weezevent does not show.                                 *)
LEMMA StaysMarked ==
  ASSUME ImportInv, WriterStep,
         Holding' \subseteq Holding \cup sold,
         deleted \cup missed \subseteq deleted' \cup missed',
         \A d \in Delivery : d[2] = "delete" /\ event'[d] = "processed" => event[d] = "processed"
  PROVE  MarkedOrMissed'
<1> SUFFICES ASSUME NEW d \in Delivery, d[2] = "delete", event'[d] = "processed",
                    d[1] \in row' \cup Holding'
             PROVE  d[1] \in deleted \cup missed
  BY DEF MarkedOrMissed
<1>1. event[d] = "processed" /\ d[1] \in gone /\ d[1] \notin sold
  BY DEF ImportInv, SentForCause
<1>2. d[1] \in row \cup Holding
  BY <1>1, RowsOfHeld DEF ImportInv, Holding
<1> QED
  BY <1>1, <1>2 DEF ImportInv, MarkedOrMissed

(* A writer that goes on or is dropped holds nothing new.                  *)
LEMMA BatchHolds ==
  ASSUME WriterInv, NEW w \in Writer,
         CreateRows(w) \/ ReadBare(w) \/ InsertLines(w) \/ DropBatch(w)
  PROVE  InHand' \subseteq InHand
<1>1. \A v \in Writer : batch'[v].page \subseteq batch[v].page
  <2>1. batch \in [Writer -> Batch]
    BY DEF WriterInv, WriterTypeOK
  <2>2. CASE CreateRows(w)
    <3>1. batch' = [batch EXCEPT ![w] = [batch[w] EXCEPT !.step = "bare"]]
      BY <2>1, <2>2 DEF CreateRows
    <3> QED
      BY <2>1, <3>1 DEF Batch
  <2>3. CASE ReadBare(w)
    <3>1. PICK bare : batch' = [batch EXCEPT ![w] = [batch[w] EXCEPT !.step = "lines", !.todo = bare]]
      BY <2>1, <2>3 DEF ReadBare
    <3> QED
      BY <2>1, <3>1 DEF Batch
  <2>4. CASE InsertLines(w) \/ DropBatch(w)
    BY <2>1, <2>4 DEF InsertLines, DropBatch, NoBatch
  <2> QED
    BY <2>2, <2>3, <2>4
<1>2. single' = single
  BY DEF CreateRows, ReadBare, InsertLines, DropBatch
<1> QED
  BY <1>1, <1>2 DEF InHand

LEMMA SingleHolds ==
  ASSUME WriterInv, NEW h \in Caller,
         UpsertRow(h) \/ WipeLines(h) \/ RecreateLines(h) \/ DropSingle(h)
  PROVE  InHand' \subseteq InHand
<1>1. \A g \in Caller : single'[g].of \subseteq single[g].of
  <2>1. single \in [Caller -> Single]
    BY DEF WriterInv, WriterTypeOK
  <2>2. CASE UpsertRow(h) \/ WipeLines(h)
    BY <2>2, SinglePass
  <2>3. CASE RecreateLines(h) \/ DropSingle(h)
    BY <2>1, <2>3 DEF RecreateLines, DropSingle, NoSingle
  <2> QED
    BY <2>2, <2>3
<1>2. batch' = batch
  BY DEF UpsertRow, WipeLines, RecreateLines, DropSingle
<1> QED
  BY <1>1, <1>2 DEF InHand

(* One that begins holds its page, or its sale.                            *)
LEMMA BeginsHolding ==
  ASSUME WriterInv
  PROVE  /\ \A w \in Writer, page \in SUBSET Sale :
              ReadKnown(w, page) => InHand' \subseteq InHand \cup page
         /\ \A h \in Caller, x \in Sale : HoldSale(h, x) => InHand' \subseteq InHand \cup {x}
<1>1. batch \in [Writer -> Batch] /\ single \in [Caller -> Single]
  BY DEF WriterInv, WriterTypeOK
<1>2. ASSUME NEW w \in Writer, NEW page \in SUBSET Sale, ReadKnown(w, page)
      PROVE  InHand' \subseteq InHand \cup page
  <2>1. single' = single /\ \A v \in Writer : batch'[v].page \subseteq batch[v].page \cup page
    BY <1>1, <1>2 DEF ReadKnown
  <2> QED
    BY <2>1 DEF InHand
<1>3. ASSUME NEW h \in Caller, NEW x \in Sale, HoldSale(h, x)
      PROVE  InHand' \subseteq InHand \cup {x}
  <2>1. batch' = batch /\ \A g \in Caller : single'[g].of \subseteq single[g].of \cup {x}
    BY <1>1, <1>3 DEF HoldSale
  <2> QED
    BY <2>1 DEF InHand
<1> QED
  BY <1>2, <1>3

LEMMA DroppedHoldLess ==
  ASSUME WriterInv, NEW writers, NEW callers, DropAll(writers, callers)
  PROVE  InHand' \subseteq InHand
<1>1. /\ \A w \in Writer : batch'[w].page \subseteq batch[w].page
      /\ \A h \in Caller : single'[h].of \subseteq single[h].of
  BY DEF DropAll, NoBatch, NoSingle, WriterInv, WriterTypeOK
<1> QED
  BY <1>1 DEF InHand

LEMMA SameHands == ASSUME UNCHANGED writerVars PROVE InHand' = InHand
BY DEF writerVars, InHand

(* What passes and chunks have in store.                                   *)
LEMMA HoldingAfter ==
  ASSUME InHand' \subseteq Holding \cup sold,
         \A w \in Inserter : held'[w] \subseteq held[w] \cup sold,
         \A u \in Runner : runner'[u].page \subseteq runner[u].page \cup sold
  PROVE  Holding' \subseteq Holding \cup sold
BY DEF Holding

LEMMA WeezeventMarks ==
  ASSUME ImportInv, NEW x \in Sale, Sell(x) \/ Update(x) \/ Withdraw(x)
  PROVE  MarkedOrMissed'
<1>1. /\ UNCHANGED <<writerVars, chunkVars, runVars, deleted, missed>>
      /\ \E method : Sends(x, method)
  BY DEF Sell, Update, Withdraw
<1>2. Holding' \subseteq Holding \cup sold
  <2>1. InHand' = InHand
    BY <1>1, SameHands
  <2> QED
    BY <1>1, <2>1 DEF Holding, chunkVars, runVars
<1>3. \A d \in Delivery : event'[d] = "processed" => event[d] = "processed"
  BY <1>1, SendsType DEF ImportInv, RestTypeOK
<1> QED
  BY <1>1, <1>2, <1>3, StaysMarked, WeezeventOnly

LEMMA PassMarks ==
  ASSUME ImportInv, NEW u \in Runner, RunStart(u) \/ Run(u) \/ RunFails(u)
  PROVE  MarkedOrMissed'
<1> USE DEF ImportInv
<1>1. /\ u \in Writer /\ runner \in [Runner -> Pass] /\ runner[u] \in Pass
      /\ runner[u].page \subseteq Sale
  BY ImportAssumption DEF RestTypeOK, Pass
<1>2. UNCHANGED <<sold, held, event, deleted, missed>>
  BY DEF Run, RunStart, RunFetch, RunFilter, RunWrite, RunEnd, RunFails, chunkVars, hookVars
<1>3. \A pc : Goes(u, pc) => \A v \in Runner : runner'[v].page \subseteq runner[v].page
  <2> SUFFICES ASSUME NEW pc, Goes(u, pc)
               PROVE  \A v \in Runner : runner'[v].page \subseteq runner[v].page
    OBVIOUS
  <2>1. runner' = [runner EXCEPT ![u] = [runner[u] EXCEPT !.pc = pc, !.page = {}]]
    BY <1>1 DEF Goes
  <2> QED
    BY <1>1, <2>1 DEF Pass
<1>4. /\ InHand' \subseteq Holding \cup sold
      /\ \A v \in Runner : runner'[v].page \subseteq runner[v].page \cup sold
  <2>0. InHand \subseteq Holding /\ runner[u].page \subseteq Holding
    BY DEF Holding
  <2>1. CASE RunStart(u)
    <3>1. \A v \in Runner : runner'[v].page \subseteq runner[v].page
      BY <2>1, <1>1 DEF RunStart, Begins, NoPass
    <3> QED
      BY <2>0, <2>1, <3>1, SameHands DEF RunStart
  <2>2. CASE RunFetch(u)
    <3> DEFINE rest == sold \ (runner[u].passed \cup runner[u].seen)
    <3>1. CASE Goes(u, "end")
      BY <2>0, <2>2, <3>1, <1>3, SameHands DEF RunFetch
    <3>2. ASSUME NEW page \in SUBSET rest,
                 runner' = [runner EXCEPT ![u].pc = "filter", ![u].page = page,
                              ![u].seen = @ \cup page, ![u].more = Paged /\ page # rest]
          PROVE  \A v \in Runner : runner'[v].page \subseteq runner[v].page \cup sold
      <4> DEFINE next == [runner[u] EXCEPT !.pc = "filter", !.page = page,
                            !.seen = @ \cup page, !.more = Paged /\ page # rest]
      <4>1. next.page = page
        BY <1>1 DEF Pass
      <4>2. runner' = [runner EXCEPT ![u] = next]
        BY <1>1, <3>2
      <4> QED
        BY <1>1, <4>1, <4>2
    <3> QED
      BY <2>0, <2>2, <3>1, <3>2, SameHands DEF RunFetch
  <2>3. CASE RunFilter(u)
    <3> DEFINE new == IF runner[u].first THEN runner[u].page ELSE runner[u].page \ row
    <3>1. new \subseteq Holding /\ new \in SUBSET Sale
      BY <2>0, <1>1
    <3>2. InHand' \subseteq InHand \cup new
      BY <2>3, <1>1, <3>1, SameHands, BeginsHolding DEF RunFilter
    <3>3. \A v \in Runner : runner'[v].page \subseteq runner[v].page
      BY <2>3, <1>3 DEF RunFilter
    <3> QED
      BY <2>0, <3>1, <3>2, <3>3
  <2>4. CASE RunWrite(u)
    BY <2>0, <2>4, <1>1, <1>3, BatchHolds DEF RunWrite
  <2>5. CASE RunEnd(u)
    BY <2>0, <2>5, <1>1, SameHands DEF RunEnd, NoPass
  <2>6. CASE RunFails(u)
    BY <2>0, <2>6, <1>1, SameHands, BatchHolds DEF RunFails, NoPass
  <2> QED
    BY <2>1, <2>2, <2>3, <2>4, <2>5, <2>6 DEF Run
<1>5. Holding' \subseteq Holding \cup sold
  BY <1>2, <1>4, HoldingAfter
<1> QED
  BY <1>2, <1>5, PassWrites, StaysMarked

(* A deletion that comes now marks the row, or misses whoever holds it.    *)
LEMMA DeletionMarks ==
  ASSUME ImportInv, NEW d \in Delivery, MarkDeleted(d)
  PROVE  MarkedOrMissed'
<1>1. /\ row' = row /\ Holding' = Holding
      /\ deleted' = deleted \cup ({d[1]} \cap row)
      /\ missed' = missed \cup (({d[1]} \cap Holding) \ row)
  BY SameHands DEF MarkDeleted, Holding, writerVars, chunkVars, runVars
<1>2. \A e \in Delivery : e # d => event'[e] = event[e]
  BY DEF MarkDeleted, Stages, ImportInv, RestTypeOK
<1> QED
  BY <1>1, <1>2 DEF ImportInv, MarkedOrMissed

LEMMA WebhookMarks ==
  ASSUME ImportInv, NEW d \in Delivery, Receive(d) \/ Handle(d) \/ Left(d)
  PROVE  MarkedOrMissed'
<1> USE DEF ImportInv
<1>1. CASE MarkDeleted(d)
  BY <1>1, DeletionMarks
<1>2. CASE ~ MarkDeleted(d)
  <2>1. /\ d[1] \in Sale /\ (d \in Caller <=> d[2] # "delete")
        /\ event[d] = "busy" => d \in Caller
    BY DeliveryIsPair DEF SentForCause
  <2>2. UNCHANGED <<sold, held, runner, deleted, missed>>
    BY <1>2 DEF Receive, Handle, SyncById, HookWrites, Left, chunkVars, runVars
  <2>3. InHand' \subseteq InHand \cup sold
    <3>1. CASE SyncById(d)
      BY <2>1, <3>1, BeginsHolding, SameHands DEF SyncById
    <3>2. CASE HookWrites(d)
      BY <2>1, <3>2, SingleHolds DEF HookWrites
    <3>3. CASE Left(d)
      BY <2>1, <3>3, SingleHolds, SameHands DEF Left
    <3>4. CASE Receive(d)
      BY <3>4, SameHands DEF Receive
    <3> QED
      BY <1>2, <3>1, <3>2, <3>3, <3>4 DEF Handle
  <2>4. Holding' \subseteq Holding \cup sold
    BY <2>2, <2>3, HoldingAfter DEF Holding
  <2>5. \A e \in Delivery : e[2] = "delete" /\ event'[e] = "processed" => event[e] = "processed"
    BY <1>2, <2>1 DEF Receive, Handle, SyncById, HookWrites, Left, Stages, RestTypeOK
  <2> QED
    BY <2>2, <2>4, <2>5, WebhookWrites, StaysMarked
<1> QED
  BY <1>1, <1>2

LEMMA JobMarks ==
  ASSUME ImportInv, Job \/ JobFails \/ ApiDies
  PROVE  MarkedOrMissed'
<1> USE DEF ImportInv
<1>1. Inserter \subseteq Writer /\ held \in [Inserter -> SUBSET Sale]
  BY InserterAssumption DEF RestTypeOK
<1>2. UNCHANGED <<runner, deleted, missed>>
  BY DEF Job, JobFails, ApiDies, elsewhere, hookVars, runVars
<1>3. \A d \in Delivery : event'[d] = "processed" => event[d] = "processed"
  BY DEF Job, JobFails, ApiDies, elsewhere, hookVars, RestTypeOK
<1>4. \A w \in Inserter : held'[w] \subseteq held[w] \cup sold
  BY <1>1 DEF Job, JobFails, ApiDies, CollectingTurns, ChunkAnswered, ChunkBegins, ChunkGoesOn,
     ChunkDropped, ProcessDies, chunkVars
<1>5. InHand' \subseteq Holding
  <2>1. InHand \subseteq Holding /\ \A w \in Inserter : held[w] \subseteq Holding
    BY DEF Holding
  <2>2. CASE CollectingTurns \/ \E w \in Inserter : ChunkAnswered(w)
    BY <2>1, <2>2, SameHands DEF CollectingTurns, ChunkAnswered
  <2>3. ASSUME NEW w \in Inserter, ChunkBegins(w) PROVE InHand' \subseteq Holding
    <3>1. w \in Writer /\ held[w] \in SUBSET Sale /\ ReadKnown(w, held[w])
      BY <1>1, <2>3 DEF ChunkBegins
    <3> QED
      BY <2>1, <3>1, BeginsHolding
  <2>4. ASSUME NEW w \in Inserter, ChunkGoesOn(w) \/ ChunkDropped(w)
        PROVE  InHand' \subseteq Holding
    BY <1>1, <2>1, <2>4, BatchHolds DEF ChunkGoesOn, ChunkDropped
  <2>5. CASE ApiDies
    BY <2>1, <2>5, DroppedHoldLess DEF ApiDies, ProcessDies
  <2> QED
    BY <2>2, <2>3, <2>4, <2>5 DEF Job, JobFails
<1>6. Holding' \subseteq Holding \cup sold
  BY <1>2, <1>4, <1>5, HoldingAfter
<1> QED
  BY <1>2, <1>3, <1>6, JobWrites, StaysMarked

LEMMA StepMarks ==
  ASSUME ImportInv, [ImportNext]_importVars
  PROVE  MarkedOrMissed'
<1>1. CASE UNCHANGED importVars
  <2>1. InHand' = InHand
    BY <1>1, SameHands DEF importVars
  <2> QED
    BY <1>1, <2>1 DEF importVars, ImportInv, MarkedOrMissed, Holding, writerVars, chunkVars,
       runVars, hookVars
<1> QED
  BY <1>1, WeezeventMarks, PassMarks, WebhookMarks, JobMarks DEF ImportNext

------------------------------------------------------------------------------
(* The theorems.                                                           *)

LEMMA ImportInitInv == ImportInit => ImportInv
<1> SUFFICES ASSUME ImportInit PROVE ImportInv
  OBVIOUS
<1>1. WriterInv
  BY WriterInitInv DEF ImportInit, ChunksInit
<1>2. NoPass \in Pass
  BY DEF NoPass, Pass
<1>3. RestTypeOK
  <2>1. runner \in [Runner -> Pass] /\ event \in [Delivery -> Stage]
    BY <1>2 DEF ImportInit, Stage
  <2>2. held \in [Inserter -> SUBSET Sale] /\ collecting \in BOOLEAN
    BY DEF ImportInit, ChunksInit
  <2>3. faults \in 0..MaxFaults /\ sold \subseteq Sale
    BY ImportAssumption DEF ImportInit
  <2> QED
    BY <2>1, <2>2, <2>3 DEF ImportInit, RestTypeOK
<1>4. SentForCause /\ MarkedOrMissed
  BY DEF ImportInit, SentForCause, MarkedOrMissed
<1> QED
  BY <1>1, <1>3, <1>4 DEF ImportInv

LEMMA ImportStepInv == ImportInv /\ [ImportNext]_importVars => ImportInv'
BY StepWrites, WriterStepKeeps, StepTypes, StepMarks DEF ImportInv

(* The inductive invariant of the three ways side by side: writers, types, *)
(* deletions.                                                              *)
THEOREM ImportInvariant == ImportSpec => []ImportInv
BY ImportInitInv, ImportStepInv, PTL DEF ImportSpec

(* Type correctness of rows, passes, chunks and webhooks.                  *)
THEOREM ImportTypeCorrect == ImportSpec => []ImportTypeOK
<1>1. ImportInv => ImportTypeOK
  BY DEF ImportInv, WriterInv, RestTypeOK, ImportTypeOK, ChunksTypeOK
<1> QED
  BY <1>1, ImportInvariant, PTL

(* The lines of a transaction are inserted twice only if two writers had   *)
(* it in hand together: jobs, passes and webhooks alone never do it.       *)
THEOREM LinesAreOnce == ImportSpec => []LinesOnce
<1>1. ImportInv => LinesOnce
  BY DEF ImportInv, WriterInv, LinesOfOne, LinesOnce
<1> QED
  BY <1>1, ImportInvariant, PTL

(* A page written to its end leaves no transaction of it without lines.    *)
THEOREM PassesHeal == ImportSpec => PassHeals
<1>1. ImportInv => \A w \in Writer : batch[w].step = "lines" /\ InsertLines(w) =>
                     \A x \in batch[w].page : lines'[x] > 0 \/ x \in crossed
  BY InsertLinesKeeps DEF ImportInv
<1> QED
  BY <1>1, ImportInvariant, PTL DEF PassHeals

(* A withdrawn sale is counted after its deletion is done only if that     *)
(* deletion overtook somebody who held the sale.                           *)
THEOREM GhostsNeedOverlap == ImportSpec => []GhostNeedsOverlap
<1>1. ImportInv => GhostNeedsOverlap
  <2> SUFFICES ASSUME ImportInv, NEW x \in gone \cap (row \ deleted),
                      <<x, "delete">> \in Delivery, event[<<x, "delete">>] = "processed"
               PROVE  x \in missed
    BY DEF GhostNeedsOverlap
  <2> QED
    BY DEF ImportInv, MarkedOrMissed
<1> QED
  BY <1>1, ImportInvariant, PTL

------------------------------------------------------------------------------
(* What a pass has read has its row before the cursor passes it, as long   *)
(* as every pass may read to the end: the answers say how many pages there *)
(* are, and maxItems is not below what there is to read.                   *)

ReadsToTheEnd == Paged /\ IsFiniteSet(Sale) /\ Cardinality(Sale) <= MaxItems

PassReads(u) ==
  LET p == runner[u] IN
  /\ p.pc # "off" => p.asOf \cup p.passed \subseteq sold \cup gone /\ p.passed \cap sold \subseteq row
  /\ p.pc = "fetch" => p.seen \subseteq row
  /\ p.pc = "filter" => p.seen \subseteq row \cup p.page
  /\ p.pc = "write" => batch[u].step # "off" /\ p.seen \subseteq row \cup batch[u].page
  /\ p.pc \in {"filter", "write"} =>
       (p.more /\ p.seen # Sale) \/ p.asOf \cap sold \subseteq p.passed \cup p.seen
  /\ p.pc = "end" => p.asOf \cap sold \subseteq row

(* What is sold is sold once, and stays known.                             *)
Reached ==
  /\ below \subseteq sold \cup gone
  /\ NothingLeftBehind
  /\ \A u \in Runner : PassReads(u)

(* The steps of everybody but the passes.                                  *)
LEMMA OthersReach ==
  ASSUME Reached, row \subseteq row', UNCHANGED <<below, runner>>,
         \A u \in Runner : batch'[u] = batch[u],
         sold \cup gone \subseteq sold' \cup gone', sold' \cap (sold \cup gone) \subseteq sold
  PROVE  Reached'
<1>1. below' \subseteq sold' \cup gone' /\ NothingLeftBehind'
  BY DEF Reached, NothingLeftBehind
<1>2. ASSUME NEW u \in Runner PROVE PassReads(u)'
  <2>1. runner'[u] = runner[u] /\ batch'[u] = batch[u] /\ PassReads(u)
    BY DEF Reached
  <2>2. \A A : A \subseteq sold \cup gone => A \cap sold' \subseteq A \cap sold
    OBVIOUS
  <2>3. runner[u].pc # "off" =>
          /\ runner[u].asOf \cup runner[u].passed \subseteq sold' \cup gone'
          /\ runner[u].passed \cap sold' \subseteq row'
          /\ runner[u].asOf \cap sold' \subseteq runner[u].asOf \cap sold
    BY <2>1, <2>2 DEF PassReads
  <2> QED
    BY <2>1, <2>3 DEF PassReads
<1> QED
  BY <1>1, <1>2 DEF Reached

(* A pass leaves the others alone, and the cursor, until its end.          *)
LEMMA OtherPasses ==
  ASSUME ImportInv, NEW u \in Runner, NEW v \in Runner \ {u}, RunStart(u) \/ Run(u) \/ RunFails(u)
  PROVE  runner'[v] = runner[v] /\ batch'[v] = batch[v]
<1> USE DEF writerVars, Begins, Goes
<1>1. runner \in [Runner -> Pass] /\ batch \in [Writer -> Batch] /\ u \in Writer /\ v \in Writer
  BY ImportAssumption DEF ImportInv, RestTypeOK, WriterInv, WriterTypeOK
<1>2. CASE RunStart(u) \/ RunFetch(u) \/ RunEnd(u)
  BY <1>1, <1>2 DEF RunStart, RunFetch, RunEnd
<1>3. CASE RunFilter(u)
  BY <1>1, <1>3 DEF RunFilter, ReadKnown
<1>4. CASE RunWrite(u) \/ RunFails(u)
  BY <1>1, <1>4 DEF RunWrite, RunFails, CreateRows, ReadBare, InsertLines, DropBatch
<1> QED
  BY <1>2, <1>3, <1>4 DEF Run

(* Where a pass stops for good, it has read what there was.                *)
LEMMA ReadAll ==
  ASSUME ImportInv, ReadsToTheEnd, NEW u \in Runner, PassReads(u),
         runner[u].pc \in {"filter", "write"}
  PROVE  \/ GoesOn(u) = "fetch"
         \/ GoesOn(u) = "end" /\ runner[u].asOf \cap sold \subseteq runner[u].passed \cup runner[u].seen
<1>1. runner[u].seen \subseteq Sale
  BY DEF ImportInv, RestTypeOK, Pass
<1>2. CASE runner[u].more /\ runner[u].seen # Sale
  <2>1. Cardinality(runner[u].seen) < Cardinality(Sale)
    <3>1. IsFiniteSet(runner[u].seen) /\ Cardinality(runner[u].seen) <= Cardinality(Sale)
          /\ Cardinality(runner[u].seen) # Cardinality(Sale)
      BY <1>1, <1>2, FS_Subset DEF ReadsToTheEnd
    <3>2. Cardinality(runner[u].seen) \in Nat /\ Cardinality(Sale) \in Nat
      BY <3>1, FS_CardinalityType DEF ReadsToTheEnd
    <3> QED
      BY <3>1, <3>2
  <2>2. Cardinality(runner[u].seen) \in Nat /\ Cardinality(Sale) \in Nat /\ MaxItems \in Nat
    BY <1>1, FS_Subset, FS_CardinalityType, ImportAssumption DEF ReadsToTheEnd
  <2>3. Cardinality(runner[u].seen) < MaxItems
    BY <2>1, <2>2 DEF ReadsToTheEnd
  <2> QED
    BY <1>2, <2>3 DEF GoesOn
<1>3. CASE runner[u].asOf \cap sold \subseteq runner[u].passed \cup runner[u].seen
  BY <1>3 DEF GoesOn
<1> QED
  BY <1>2, <1>3 DEF PassReads

(* The pass goes on once all it has seen has its row.                      *)
LEMMA PassGoesOn ==
  ASSUME ImportInv, ReadsToTheEnd, NEW u \in Runner, PassReads(u), row \subseteq row',
         runner[u].pc \in {"filter", "write"}, Goes(u, GoesOn(u)), runner[u].seen \subseteq row',
         UNCHANGED <<sold, gone>>
  PROVE  PassReads(u)'
<1>1. runner \in [Runner -> Pass] /\ runner[u] \in Pass
  BY DEF ImportInv, RestTypeOK
<1>2. /\ runner'[u].pc = GoesOn(u)
      /\ runner'[u].passed = runner[u].passed /\ runner'[u].asOf = runner[u].asOf
      /\ runner'[u].seen = runner[u].seen
  BY <1>1 DEF Goes, Pass
<1>3. /\ runner'[u].asOf \cup runner'[u].passed \subseteq sold' \cup gone'
      /\ runner'[u].passed \cap sold' \subseteq row'
  BY <1>2 DEF PassReads
<1>4. CASE GoesOn(u) = "fetch"
  BY <1>2, <1>3, <1>4 DEF PassReads
<1>5. CASE GoesOn(u) = "end" /\ runner[u].asOf \cap sold \subseteq runner[u].passed \cup runner[u].seen
  <2>1. runner'[u].asOf \cap sold' \subseteq row'
    BY <1>2, <1>3, <1>5
  <2> QED
    BY <1>2, <1>3, <1>5, <2>1 DEF PassReads
<1> QED
  BY <1>4, <1>5, ReadAll

LEMMA OwnPass ==
  ASSUME ImportInv, ReadsToTheEnd, Reached, NEW u \in Runner, RunStart(u) \/ Run(u) \/ RunFails(u),
         row \subseteq row'
  PROVE  PassReads(u)'
<1> DEFINE p == runner[u]
<1>1. /\ runner \in [Runner -> Pass] /\ p \in Pass /\ u \in Writer
      /\ batch \in [Writer -> Batch] /\ batch[u] \in Batch
      /\ sold \subseteq Sale /\ PassReads(u)
  BY ImportAssumption DEF ImportInv, RestTypeOK, WriterInv, WriterTypeOK, Reached
<1>2. sold' = sold /\ gone' = gone
  BY DEF Run, RunStart, RunFetch, RunFilter, RunWrite, RunEnd, RunFails
<1>3. CASE RunStart(u)
  <2>1. /\ runner'[u].pc = "fetch" /\ runner'[u].passed = below /\ runner'[u].asOf = sold
        /\ runner'[u].seen = {}
    <3>1. \E first \in BOOLEAN : Begins(u, first)
      BY <1>3 DEF RunStart, ImportInv, RestTypeOK
    <3> QED
      BY <1>1, <3>1 DEF Begins, NoPass
  <2> QED
    BY <1>2, <1>3, <2>1 DEF PassReads, Reached, NothingLeftBehind
<1>4. CASE RunFetch(u)
  <2> DEFINE rest == sold \ (p.passed \cup p.seen)
  <2>1. CASE rest = {} /\ Goes(u, "end")
    <3>1. /\ runner'[u].pc = "end" /\ runner'[u].passed = p.passed /\ runner'[u].asOf = p.asOf
          /\ runner'[u].seen = p.seen
      BY <1>1, <2>1 DEF Goes, Pass
    <3>2. runner'[u].asOf \cap sold' \subseteq row'
      BY <1>1, <1>2, <1>4, <2>1, <3>1 DEF PassReads, RunFetch
    <3> QED
      BY <1>1, <1>2, <1>4, <3>1, <3>2 DEF PassReads, RunFetch
  <2>2. ASSUME NEW page \in SUBSET rest,
               runner' = [runner EXCEPT ![u].pc = "filter", ![u].page = page,
                            ![u].seen = @ \cup page, ![u].more = Paged /\ page # rest]
        PROVE  PassReads(u)'
    <3>1. /\ runner'[u].pc = "filter" /\ runner'[u].passed = p.passed /\ runner'[u].asOf = p.asOf
          /\ runner'[u].seen = p.seen \cup page /\ runner'[u].page = page
      BY <1>1, <2>2 DEF Pass
    <3>2. CASE page = rest
      <4>1. runner'[u].asOf \cap sold' \subseteq runner'[u].passed \cup runner'[u].seen
        BY <1>2, <3>1, <3>2
      <4> QED
        BY <1>1, <1>2, <1>4, <3>1, <4>1 DEF PassReads, RunFetch
    <3>3. CASE page # rest
      <4>1. runner'[u].more
        BY <1>1, <2>2, <3>3 DEF Pass, ReadsToTheEnd
      <4>2. runner'[u].seen # Sale
        BY <1>1, <3>1, <3>3
      <4> QED
        BY <1>1, <1>2, <1>4, <3>1, <4>1, <4>2 DEF PassReads, RunFetch
    <3> QED
      BY <3>2, <3>3
  <2> QED
    BY <1>4, <2>1, <2>2 DEF RunFetch
<1>5. CASE RunFilter(u)
  <2>1. p.pc = "filter" /\ p.seen \subseteq row \cup p.page
    BY <1>1, <1>5 DEF RunFilter, PassReads
  <2> DEFINE new == IF p.first THEN p.page ELSE p.page \ row
  <2>2. CASE new = {} /\ Goes(u, GoesOn(u))
    <3>1. p.seen \subseteq row
      BY <2>1, <2>2
    <3> QED
      BY <1>1, <1>2, <2>1, <2>2, <3>1, PassGoesOn
  <2>3. CASE Goes(u, "write") /\ ReadKnown(u, new)
    <3>1. /\ runner'[u].pc = "write" /\ runner'[u].passed = p.passed /\ runner'[u].asOf = p.asOf
          /\ runner'[u].seen = p.seen /\ runner'[u].more = p.more
      BY <1>1, <2>3 DEF Goes, Pass
    <3>2. batch'[u].step = "rows" /\ batch'[u].page = new /\ row' = row
      BY <1>1, <2>3 DEF ReadKnown
    <3>3. p.seen \subseteq row' \cup batch'[u].page
      BY <2>1, <3>2
    <3> QED
      BY <1>1, <1>2, <2>1, <3>1, <3>2, <3>3 DEF PassReads
  <2> QED
    BY <1>5, <2>2, <2>3 DEF RunFilter
<1>6. CASE RunWrite(u)
  <2>1. p.pc = "write" /\ p.seen \subseteq row \cup batch[u].page
    BY <1>1, <1>6 DEF RunWrite, PassReads
  <2>2. CASE (CreateRows(u) \/ ReadBare(u)) /\ UNCHANGED runner
    <3>1. batch'[u].step # "off" /\ batch'[u].page = batch[u].page
      <4>1. CASE CreateRows(u)
        BY <1>1, <4>1 DEF CreateRows, Batch
      <4>2. CASE ReadBare(u)
        BY <1>1, <4>2 DEF ReadBare, Batch
      <4> QED
        BY <2>2, <4>1, <4>2
    <3> QED
      BY <1>1, <1>2, <2>1, <2>2, <3>1 DEF PassReads
  <2>3. CASE InsertLines(u) /\ Goes(u, GoesOn(u))
    <3>1. batch[u].page \subseteq row
      BY <1>1, <2>3 DEF InsertLines, ImportInv, WriterInv, PageInHand
    <3> QED
      BY <1>1, <1>2, <2>1, <2>3, <3>1, PassGoesOn
  <2> QED
    BY <1>6, <2>2, <2>3 DEF RunWrite
<1>7. CASE RunEnd(u) \/ RunFails(u)
  <2>1. runner'[u].pc = "off"
    BY <1>1, <1>7 DEF RunEnd, RunFails, NoPass
  <2> QED
    BY <2>1 DEF PassReads
<1> QED
  BY <1>3, <1>4, <1>5, <1>6, <1>7 DEF Run

LEMMA PassReaches ==
  ASSUME ImportInv, ReadsToTheEnd, Reached, NEW u \in Runner, RunStart(u) \/ Run(u) \/ RunFails(u)
  PROVE  Reached'
<1>1. row \subseteq row'
  BY PassWrites, RowsStay
<1>2. sold' = sold /\ gone' = gone
  BY DEF Run, RunStart, RunFetch, RunFilter, RunWrite, RunEnd, RunFails
<1>3. PassReads(u)'
  BY <1>1, OwnPass
<1>4. ASSUME NEW v \in Runner \ {u} PROVE PassReads(v)'
  <2>1. runner'[v] = runner[v] /\ batch'[v] = batch[v] /\ PassReads(v)
    BY OtherPasses DEF Reached
  <2> QED
    BY <1>1, <1>2, <2>1 DEF PassReads
<1>5. below' \subseteq below \/ (below' \subseteq below \cup runner[u].asOf /\ runner[u].pc = "end")
  BY DEF Run, RunStart, RunFetch, RunFilter, RunWrite, RunEnd, RunFails
<1>6. below' \subseteq sold' \cup gone' /\ NothingLeftBehind'
  <2>1. PassReads(u)
    BY DEF Reached
  <2> QED
    BY <1>1, <1>2, <1>5, <2>1 DEF Reached, NothingLeftBehind, PassReads
<1> QED
  BY <1>3, <1>4, <1>6 DEF Reached

LEMMA ReachedStep ==
  ASSUME ImportInv, ReadsToTheEnd, Reached, [ImportNext]_importVars
  PROVE  Reached'
<1>1. row \subseteq row'
  BY StepWrites, RowsStay
<1>2. ASSUME NEW x \in Sale, Sell(x) \/ Update(x) \/ Withdraw(x) PROVE Reached'
  <2>1. UNCHANGED <<below, runner, batch>>
    BY <1>2 DEF Sell, Update, Withdraw, writerVars, runVars
  <2>2. sold \cup gone \subseteq sold' \cup gone' /\ sold' \cap (sold \cup gone) \subseteq sold
    BY <1>2 DEF Sell, Update, Withdraw
  <2> QED
    BY <1>1, <2>1, <2>2, OthersReach
<1>3. ASSUME NEW d \in Delivery, Receive(d) \/ Handle(d) \/ Left(d) PROVE Reached'
  <2>1. UNCHANGED <<below, runner, batch, sold, gone>>
    BY <1>3 DEF Receive, Handle, SyncById, HookWrites, MarkDeleted, Left, HoldSale, UpsertRow,
       WipeLines, RecreateLines, DropSingle, writerVars, runVars
  <2> QED
    BY <1>1, <2>1, OthersReach
<1>4. CASE Job \/ JobFails \/ ApiDies
  <2>1. UNCHANGED <<below, runner, sold, gone>>
    BY <1>4 DEF Job, JobFails, ApiDies, CollectingTurns, ChunkAnswered, ChunkBegins, ChunkGoesOn,
       ChunkDropped, ProcessDies, elsewhere, runVars
  <2>2. ASSUME NEW u \in Runner PROVE batch'[u] = batch[u]
    <3>1. u \in Writer /\ u \notin Inserter /\ batch \in [Writer -> Batch]
      BY ImportAssumption DEF ImportInv, WriterInv, WriterTypeOK
    <3> QED
      BY <1>4, <3>1 DEF Job, JobFails, ApiDies, CollectingTurns, ChunkAnswered, ChunkBegins,
         ChunkGoesOn, ChunkDropped, ProcessDies, ReadKnown, CreateRows, ReadBare, InsertLines,
         DropBatch, DropAll, writerVars
  <2> QED
    BY <1>1, <2>1, <2>2, OthersReach
<1>5. CASE UNCHANGED importVars
  <2>1. UNCHANGED <<below, runner, sold, gone, batch>>
    BY <1>5 DEF importVars, writerVars, runVars
  <2> QED
    BY <1>1, <2>1, OthersReach
<1> QED
  BY <1>2, <1>3, <1>4, <1>5, PassReaches DEF ImportNext

(* Where every pass may read to the end, the cursor never passes by a sale *)
(* that has no row: passes overlap, are cut off or race with a job and the *)
(* webhooks, and still none moves the cursor over what nobody has written. *)
(* Past maxItems, or an answer without its number of pages, it does.       *)
THEOREM CursorLeavesNothing ==
  ASSUME ReadsToTheEnd
  PROVE  ImportSpec => []NothingLeftBehind
<1> DEFINE Inv == ImportInv /\ Reached
<1>1. ImportInit => Inv
  <2>1. ImportInit => Reached
    BY DEF ImportInit, Reached, NothingLeftBehind, PassReads, NoPass
  <2> QED
    BY <2>1, ImportInitInv
<1>2. Inv /\ [ImportNext]_importVars => Inv'
  BY ReachedStep, ImportStepInv
<1>3. Inv => NothingLeftBehind
  BY DEF Reached
<1> QED
  BY <1>1, <1>2, <1>3, PTL DEF ImportSpec
==============================================================================
