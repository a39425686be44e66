---------------------------- MODULE WeezeventImport ----------------------------
(***************************************************************************)
(* The three ways a Weezevent sale is written, side by side: the chunks of *)
(* a manual job (ChunkedImport), the incremental passes of the live        *)
(* scheduler (LiveSyncRunnerService), and the webhooks, each handled in    *)
(* the background after its answer.  Weezevent sells, updates and          *)
(* withdraws; what it sends arrives in any order, or not.                  *)
(***************************************************************************)
EXTENDS ChunkedImport

CONSTANTS
  Runner,     \* passes of syncTransactionsIncremental that may overlap
  Delivery,   \* webhooks: <<sale, "create" or "update" or "delete">>
  Opening,    \* the sales there are at first
  PageSize, MaxItems,   \* batchSize and maxItems of a pass
  Paged,      \* the API's answer says how many pages there are
  MaxFaults   \* bound: statements, calls or deliveries that fail, deaths

ASSUME ImportAssumption ==
  /\ Runner \subseteq Writer /\ Runner \cap Inserter = {}
  /\ Delivery \subseteq Sale \X {"create", "update", "delete"}
  /\ Caller = {d \in Delivery : d[2] # "delete"}
  /\ Opening \subseteq Sale
  /\ {PageSize, MaxItems} \subseteq Nat \ {0}
  /\ Paged \in BOOLEAN /\ MaxFaults \in Nat

VARIABLES
  gone,      \* sales Weezevent has withdrawn
  below,     \* sales the cursor of the integration has passed
  synced,    \* the cursor is set
  runner,    \* runner[u]: a pass
  event,     \* event[d]: the webhook, from Weezevent to its processing
  deleted,   \* rows with a deletedAt
  missed,    \* history: deletions that found no row while somebody held the sale
  faults

runVars == <<below, synced, runner>>
hookVars == <<event, deleted, missed>>
importVars == <<writerVars, sold, chunkVars, gone, runVars, hookVars, faults>>

Pass == [pc : {"off", "fetch", "filter", "write", "end"}, first : BOOLEAN,
         passed : SUBSET Sale, asOf : SUBSET Sale, seen : SUBSET Sale,
         page : SUBSET Sale, more : BOOLEAN]
NoPass == [pc |-> "off", first |-> FALSE, passed |-> {}, asOf |-> {}, seen |-> {},
           page |-> {}, more |-> FALSE]
Stage == {"none", "sent", "recorded", "busy", "processed", "left"}

ImportTypeOK ==
  /\ ChunksTypeOK
  /\ gone \subseteq Sale /\ below \subseteq Sale /\ synced \in BOOLEAN
  /\ runner \in [Runner -> Pass]
  /\ event \in [Delivery -> Stage]
  /\ deleted \subseteq row /\ missed \subseteq Sale
  /\ faults \in 0..MaxFaults

ImportInit ==
  /\ ChunksInit /\ sold = Opening
  /\ gone = {} /\ below = {} /\ synced = FALSE
  /\ runner = [u \in Runner |-> NoPass]
  /\ event = [d \in Delivery |-> "none"]
  /\ deleted = {} /\ missed = {}
  /\ faults = 0

Fault == faults < MaxFaults /\ faults' = faults + 1

Stages(d, stage) == event' = [event EXCEPT ![d] = stage]
Sends(x, method) ==
  IF <<x, method>> \in Delivery THEN Stages(<<x, method>>, "sent") ELSE UNCHANGED event

------------------------------------------------------------------------------
(* Weezevent.                                                              *)

Sell(x) ==
  /\ x \notin sold \cup gone
  /\ sold' = sold \cup {x}
  /\ Sends(x, "create")
  /\ UNCHANGED <<writerVars, chunkVars, gone, runVars, deleted, missed, faults>>

Update(x) ==
  /\ x \in sold /\ <<x, "update">> \in Delivery /\ event[<<x, "update">>] = "none"
  /\ Sends(x, "update")
  /\ UNCHANGED <<writerVars, sold, chunkVars, gone, runVars, deleted, missed, faults>>

Withdraw(x) ==
  /\ x \in sold /\ <<x, "delete">> \in Delivery
  /\ sold' = sold \ {x}
  /\ gone' = gone \cup {x}
  /\ Sends(x, "delete")
  /\ UNCHANGED <<writerVars, chunkVars, runVars, deleted, missed, faults>>

------------------------------------------------------------------------------
(* An incremental pass.                                                    *)

Begins(u, first) ==
  runner' = [runner EXCEPT ![u] = [NoPass EXCEPT !.pc = "fetch", !.first = first,
                                     !.passed = below, !.asOf = sold]]
Goes(u, pc) == runner' = [runner EXCEPT ![u].pc = pc, ![u].page = {}]

\* Plausible bug: once the cursor is set, only webhooks are relied on.
RunStartFirst(u) ==
  /\ runner[u].pc = "off"
  /\ ~ collecting /\ ~ synced
  /\ Begins(u, TRUE)
  /\ UNCHANGED <<writerVars, sold, chunkVars, gone, below, synced, hookVars, faults>>

\* A COLLECTING job keeps it away; the cursor is read once, and without one
\* the pass takes everything.
RunStart(u) ==
  /\ runner[u].pc = "off"
  /\ ~ collecting
  /\ Begins(u, ~ synced)
  /\ UNCHANGED <<writerVars, sold, chunkVars, gone, below, synced, hookVars, faults>>

\* The next page.  An answer that does not say how many pages there are is
\* taken for the last one.
RunFetch(u) ==
  LET rest == sold \ (runner[u].passed \cup runner[u].seen)
  IN /\ runner[u].pc = "fetch"
     /\ IF rest = {} THEN Goes(u, "end")
        ELSE \E page \in SUBSET rest :
               /\ Cardinality(page) = IF Cardinality(rest) < PageSize THEN Cardinality(rest)
                                      ELSE PageSize
               /\ runner' = [runner EXCEPT ![u].pc = "filter", ![u].page = page,
                                 ![u].seen = @ \cup page, ![u].more = Paged /\ page # rest]
     /\ UNCHANGED <<writerVars, sold, chunkVars, gone, below, synced, hookVars, faults>>

GoesOn(u) == IF runner[u].more /\ Cardinality(runner[u].seen) < MaxItems THEN "fetch" ELSE "end"

\* An incremental pass writes the transactions that have no row, a first one all.
RunFilter(u) ==
  LET new == IF runner[u].first THEN runner[u].page ELSE runner[u].page \ row
  IN /\ runner[u].pc = "filter"
     /\ IF new = {} THEN Goes(u, GoesOn(u)) /\ UNCHANGED writerVars
        ELSE Goes(u, "write") /\ ReadKnown(u, new)
     /\ UNCHANGED <<sold, chunkVars, gone, below, synced, hookVars, faults>>

RunWrite(u) ==
  /\ runner[u].pc = "write"
  /\ \/ (CreateRows(u) \/ ReadBare(u)) /\ UNCHANGED runner
     \/ InsertLines(u) /\ Goes(u, GoesOn(u))
  /\ UNCHANGED <<sold, chunkVars, gone, below, synced, hookVars, faults>>

\* Plausible bug: the overlap is forgotten.
RunEndNoOverlap(u) ==
  /\ runner[u].pc = "end"
  /\ synced' = TRUE
  /\ below' = below \cup sold
  /\ runner' = [runner EXCEPT ![u] = NoPass]
  /\ UNCHANGED <<writerVars, sold, chunkVars, gone, hookVars, faults>>

\* The cursor becomes the present time.  The overlap, longer than a pass, keeps
\* what was sold during the pass within reach; what was there before may be past.
RunEnd(u) ==
  /\ runner[u].pc = "end"
  /\ synced' = TRUE
  /\ below' \in {below, below \cup runner[u].asOf}
  /\ runner' = [runner EXCEPT ![u] = NoPass]
  /\ UNCHANGED <<writerVars, sold, chunkVars, gone, hookVars, faults>>

\* A call or a statement fails, or the worker dies: the cursor stays.
RunFails(u) ==
  /\ runner[u].pc # "off"
  /\ Fault
  /\ runner' = [runner EXCEPT ![u] = NoPass]
  /\ IF batch[u] = NoBatch THEN UNCHANGED writerVars ELSE DropBatch(u)
  /\ UNCHANGED <<sold, chunkVars, gone, below, synced, hookVars>>

------------------------------------------------------------------------------
(* A webhook.                                                              *)

\* Recorded once, answered, and processed in the background.
Receive(d) ==
  /\ event[d] = "sent"
  /\ Stages(d, "recorded")
  /\ UNCHANGED <<writerVars, sold, chunkVars, gone, runVars, deleted, missed, faults>>

\* It never arrives, or its processing fails: nobody tries again.
Left(d) ==
  /\ event[d] \in {"sent", "recorded", "busy"}
  /\ Fault
  /\ Stages(d, "left")
  /\ IF event[d] = "busy" THEN DropSingle(d) ELSE UNCHANGED writerVars
  /\ UNCHANGED <<sold, chunkVars, gone, runVars, deleted, missed>>

\* Plausible bug: the transaction is taken from the webhook.
SyncPayload(d) ==
  /\ d[2] # "delete" /\ event[d] = "recorded"
  /\ HoldSale(d, d[1]) /\ Stages(d, "busy")
  /\ UNCHANGED <<sold, chunkVars, gone, runVars, deleted, missed, faults>>

\* The transaction is asked of the API afresh, and is unknown once withdrawn.
SyncById(d) ==
  /\ d[2] # "delete" /\ event[d] = "recorded"
  /\ IF d[1] \in sold THEN HoldSale(d, d[1]) /\ Stages(d, "busy")
     ELSE Stages(d, "left") /\ UNCHANGED writerVars
  /\ UNCHANGED <<sold, chunkVars, gone, runVars, deleted, missed, faults>>

HookWrites(d) ==
  /\ event[d] = "busy"
  /\ \/ (UpsertRow(d) \/ WipeLines(d)) /\ UNCHANGED event
     \/ RecreateLines(d) /\ Stages(d, "processed")
  /\ UNCHANGED <<sold, chunkVars, gone, runVars, deleted, missed, faults>>

\* Whoever may write the sale later from what the API once answered.
Holding ==
  InHand \cup (UNION {held[w] : w \in Inserter}) \cup (UNION {runner[u].page : u \in Runner})

\* Plausible bug: the deletion is noted even for a sale without a row.
MarkDeletedAlways(d) ==
  /\ d[2] = "delete" /\ event[d] = "recorded"
  /\ Stages(d, "processed")
  /\ deleted' = deleted \cup {d[1]}
  /\ UNCHANGED <<writerVars, sold, chunkVars, gone, runVars, missed, faults>>

\* markTransactionAsDeleted: a row that is not there yet is not marked.
MarkDeleted(d) ==
  /\ d[2] = "delete" /\ event[d] = "recorded"
  /\ Stages(d, "processed")
  /\ deleted' = deleted \cup ({d[1]} \cap row)
  /\ missed' = missed \cup (({d[1]} \cap Holding) \ row)
  /\ UNCHANGED <<writerVars, sold, chunkVars, gone, runVars, faults>>

------------------------------------------------------------------------------
(* The job, and the process it shares with the webhooks.                   *)

elsewhere == <<gone, runVars, hookVars>>

Job == (CollectingTurns \/ \E w \in Inserter : ChunkAnswered(w) \/ ChunkBegins(w) \/ ChunkGoesOn(w))
       /\ UNCHANGED <<elsewhere, faults>>

JobFails == (\E w \in Inserter : ChunkDropped(w)) /\ Fault /\ UNCHANGED elsewhere

ApiDies ==
  /\ ProcessDies
  /\ Fault
  /\ event' = [d \in Delivery |-> IF event[d] \in {"recorded", "busy"} THEN "left"
                                  ELSE event[d]]
  /\ UNCHANGED <<gone, runVars, deleted, missed>>

------------------------------------------------------------------------------
Run(u) == RunFetch(u) \/ RunFilter(u) \/ RunWrite(u) \/ RunEnd(u)
Handle(d) == SyncById(d) \/ HookWrites(d) \/ MarkDeleted(d)

ImportNext ==
  \/ \E x \in Sale : Sell(x) \/ Update(x) \/ Withdraw(x)
  \/ \E u \in Runner : RunStart(u) \/ Run(u) \/ RunFails(u)
  \/ \E d \in Delivery : Receive(d) \/ Handle(d) \/ Left(d)
  \/ Job \/ JobFails \/ ApiDies

ImportSpec == ImportInit /\ [][ImportNext]_importVars

\* The scheduler ticks again and again, and a job does not collect for ever
\* (EveryCollectionEnds of SyncJob); a delivery may stay on its way.
ImportFairness ==
  /\ \A u \in Runner : SF_importVars(RunStart(u)) /\ WF_importVars(Run(u))
  /\ \A d \in Delivery : WF_importVars(Handle(d))
  /\ \A w \in Inserter : WF_importVars(ChunkGoesOn(w) /\ UNCHANGED <<elsewhere, faults>>)
  /\ WF_importVars(collecting /\ CollectingTurns /\ UNCHANGED <<elsewhere, faults>>)

ImportFairSpec == ImportSpec /\ ImportFairness

------------------------------------------------------------------------------
(* Properties.                                                             *)

\* Lines are counted once: a transaction has them twice only if two writers
\* had it in hand together.
LinesOnce == \A x \in Sale : lines[x] > 1 => x \in crossed

\* A cursor that has passed a sale has not passed it by: the sale has its row,
\* unless Weezevent has withdrawn it.
NothingLeftBehind == below \cap sold \subseteq row

\* A withdrawn sale whose deletion is done stays counted only if, at that time,
\* somebody held it who had not yet made its row.
GhostNeedsOverlap ==
  \A x \in gone \cap (row \ deleted) :
    <<x, "delete">> \in Delivery /\ event[<<x, "delete">>] = "processed"
      => x \in missed

\* Whoever writes a page to its end leaves no transaction of it without lines,
\* those whose lines a former run has lost included, unless another had it too.
PassHeals ==
  [][\A w \in Writer : batch[w].step = "lines" /\ InsertLines(w) =>
       \A x \in batch[w].page : lines'[x] > 0 \/ x \in crossed]_importVars

\* Without a failure, the database catches up with Weezevent again and again:
\* every sale that is not withdrawn has its lines.
CatchesUp == []<>(faults > 0 \/ \A x \in sold : lines[x] > 0)
==============================================================================
