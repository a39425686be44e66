-------------------------------- MODULE SyncJob --------------------------------
(***************************************************************************)
(* The manual synchronisation of an integration (WeezeventSyncJobService). *)
(* A job is a row of WeezeventSyncJob and two workers of the same process: *)
(* the collector cuts the date range in two until the API's answer is      *)
(* below its cap, and saves each answer as a chunk; the inserter watches   *)
(* the chunks and writes their transactions.  They meet only through the   *)
(* rows of the job and of its chunks, and anyone may cancel or delete the  *)
(* job under their feet.                                                   *)
(***************************************************************************)
EXTENDS SalesWriter

CONSTANTS
  Job,          \* jobs of the integration, in the order they may be started
  Span,        \* ranges of dates the bisection visits
  Root,         \* the range of a job
  Halves,       \* Halves[r]: the two halves of r, {} below one second
  SoldIn,       \* SoldIn[r]: the transactions of r
  MaxCalls,     \* collectConcurrency
  MaxParallel,  \* PARALLEL_CHUNKS
  MaxFaults     \* bound: statements or API calls that fail, deaths of the process

ASSUME SyncAssumption ==
  /\ Root \in Span
  /\ Halves \in [Span -> SUBSET Span]
  /\ SoldIn \in [Span -> SUBSET Sale]
  /\ Job \X Span \subseteq Writer
  /\ {MaxCalls, MaxParallel} \subseteq Nat \ {0}
  /\ MaxFaults \in Nat

\* The bisection is a tree: a range is cut at a millisecond of its own, so that
\* its halves share its transactions, and no other range has them for halves.
ASSUME BisectionAssumption ==
  /\ IsFiniteSet(Span)
  /\ \A r \in Span : Root \notin Halves[r]
  /\ \A q, r \in Span : q # r => Halves[q] \cap Halves[r] = {}
  /\ \A r \in Span : Halves[r] # {} => SoldIn[r] = UNION {SoldIn[q] : q \in Halves[r]}
  /\ \A r \in Span : \A p, q \in Halves[r] : p # q => SoldIn[p] \cap SoldIn[q] = {}

VARIABLES
  sold,     \* transactions Weezevent shows as validated
  job,      \* job[j]: the row of the job; "none" before it is created
  chunk,    \* chunk[j][r]: status of the chunk saved for r
  start,    \* start[j]: startSyncJob, then the collector's own statements
  node,     \* node[j][r]: fetchChunk of r
  got,      \* got[j][r]: the transactions the API answered for r
  watch,    \* watch[j]: the inserter
  task,     \* task[j][r]: processChunk of the chunk of r
  cancel,   \* cancel[j]: a cancellation has read the job as active
  faults, crashed

rowVars == <<job, chunk>>
collectVars == <<start, node, got>>
insertVars == <<watch, task>>
boundVars == <<faults, crashed>>
vars == <<writerVars, sold, rowVars, collectVars, insertVars, cancel, boundVars>>

Ended == {"COMPLETED", "FAILED", "CANCELLED"}
Active == {"PENDING", "COLLECTING"}
JobRow == [status : {"none", "deleted"} \cup Active \cup Ended,
           collectDone : BOOLEAN, total : Nat, processed : Nat]
NoJob == [status |-> "none", collectDone |-> FALSE, total |-> 0, processed |-> 0]
Chunk == {"none", "PENDING", "PROCESSING", "DONE", "FAILED"}

TypeOK ==
  /\ WriterTypeOK
  /\ sold \subseteq Sale
  /\ got \in [Job -> [Span -> SUBSET Sale]]
  /\ \A j \in Job, r \in Span : got[j][r] \subseteq SoldIn[r] \cap sold
  /\ job \in [Job -> JobRow]
  /\ chunk \in [Job -> [Span -> Chunk]]
  /\ start \in [Job -> {"idle", "create", "begin", "fetch", "fail", "over"}]
  /\ node \in [Job -> [Span -> {"none", "check", "slot", "call", "chunk", "count",
                                 "over", "failed"}]]
  /\ watch \in [Job -> {"idle", "take", "process", "read", "complete", "failures",
                        "giveUp", "fatal", "over"}]
  /\ task \in [Job -> [Span -> {"none", "claim", "insert", "done", "count", "fail"}]]
  /\ cancel \in [Job -> BOOLEAN]
  /\ faults \in 0..MaxFaults /\ crashed \in BOOLEAN

Init ==
  /\ WriterInit
  /\ sold = SoldIn[Root]
  /\ got = [j \in Job |-> [r \in Span |-> {}]]
  /\ job = [j \in Job |-> NoJob]
  /\ chunk = [j \in Job |-> [r \in Span |-> "none"]]
  /\ start = [j \in Job |-> "idle"]
  /\ node = [j \in Job |-> [r \in Span |-> "none"]]
  /\ watch = [j \in Job |-> "idle"]
  /\ task = [j \in Job |-> [r \in Span |-> "none"]]
  /\ cancel = [j \in Job |-> FALSE]
  /\ faults = 0 /\ crashed = FALSE

------------------------------------------------------------------------------
Exists(j) == job[j].status \notin {"none", "deleted"}

Running(j) == start[j] \notin {"idle", "over"} \/ watch[j] \notin {"idle", "over"}

Starts(j, pc) == start' = [start EXCEPT ![j] = pc]
Node(j, r, pc) == node' = [node EXCEPT ![j][r] = pc]
Watch(j, pc) == watch' = [watch EXCEPT ![j] = pc]
Task(j, r, pc) == task' = [task EXCEPT ![j][r] = pc]
SetStatus(j, status) == job' = [job EXCEPT ![j].status = status]

Fault == faults < MaxFaults /\ faults' = faults + 1 /\ UNCHANGED crashed

\* An update of the job's row throws on its own when the row is gone.
UpdateThrows(j) == (~ Exists(j) /\ UNCHANGED boundVars) \/ Fault

------------------------------------------------------------------------------
(* startSyncJob, cancelSyncJob, deleteSyncJob.                             *)

\* Only a COLLECTING job is looked for: one that is PENDING still is not seen.
CheckRunning(j) ==
  /\ start[j] = "idle"
  /\ \A i \in Job : job[i].status # "COLLECTING"
  /\ Starts(j, "create")
  /\ UNCHANGED <<writerVars, sold, rowVars, node, got, insertVars, cancel, boundVars>>

CreateJob(j) ==
  /\ start[j] = "create"
  /\ SetStatus(j, "PENDING")
  /\ Starts(j, "begin")
  /\ Watch(j, "take")
  /\ UNCHANGED <<writerVars, sold, chunk, node, got, task, cancel, boundVars>>

CancelRead(j) ==
  /\ job[j].status \in Active
  /\ ~ cancel[j]
  /\ cancel' = [cancel EXCEPT ![j] = TRUE]
  /\ UNCHANGED <<writerVars, sold, rowVars, collectVars, insertVars, boundVars>>

\* The update does not look at the status again.
CancelWrite(j) ==
  /\ cancel[j]
  /\ cancel' = [cancel EXCEPT ![j] = FALSE]
  /\ IF Exists(j) THEN SetStatus(j, "CANCELLED") ELSE UNCHANGED job
  /\ UNCHANGED <<writerVars, sold, chunk, collectVars, insertVars, boundVars>>

\* A COLLECTING job must be two minutes old: here it may always be.  The chunks
\* go with the job.
DeleteJob(j) ==
  /\ Exists(j)
  /\ job' = [job EXCEPT ![j] = [NoJob EXCEPT !.status = "deleted"]]
  /\ chunk' = [chunk EXCEPT ![j] = [r \in Span |-> "none"]]
  /\ UNCHANGED <<writerVars, sold, collectVars, insertVars, cancel, boundVars>>

------------------------------------------------------------------------------
(* The collector.                                                          *)

\* Unconditional too: it takes back a cancellation that came first.
CollectBegin(j) ==
  /\ start[j] = "begin"
  /\ \/ /\ Exists(j)
        /\ SetStatus(j, "COLLECTING")
        /\ Starts(j, "fetch")
        /\ Node(j, Root, "check")
        /\ UNCHANGED boundVars
     \/ /\ UpdateThrows(j)
        /\ Starts(j, "fail")
        /\ UNCHANGED <<job, node>>
  /\ UNCHANGED <<writerVars, sold, chunk, got, insertVars, cancel>>

Check(j, r) ==
  /\ node[j][r] = "check"
  /\ \/ Node(j, r, IF job[j].status = "CANCELLED" THEN "over" ELSE "slot") /\ UNCHANGED boundVars
     \/ Fault /\ Node(j, r, "failed")
  /\ UNCHANGED <<writerVars, sold, rowVars, start, got, insertVars, cancel>>

Calling == {w \in Job \X Span : node[w[1]][w[2]] = "call"}

\* Plausible bug: a slot is kept until both halves are fetched.
AcquireSlotNested(j, r) ==
  /\ node[j][r] = "slot"
  /\ Cardinality(Calling \cup {w \in Job \X Span : /\ node[w[1]][w[2]] = "over"
                                   /\ \E q \in Halves[w[2]] : node[w[1]][q] \in {"check", "slot"}})
       < MaxCalls
  /\ Node(j, r, "call")
  /\ UNCHANGED <<writerVars, sold, rowVars, start, got, insertVars, cancel, boundVars>>

\* A slot is taken while fewer than MaxCalls are.  The code hands a freed slot over in two
\* steps, so that whoever comes in between raises the number by one: a larger MaxCalls.
AcquireSlot(j, r) ==
  /\ node[j][r] = "slot"
  /\ Cardinality(Calling) < MaxCalls
  /\ Node(j, r, "call")
  /\ UNCHANGED <<writerVars, sold, rowVars, start, got, insertVars, cancel, boundVars>>

\* Plausible bug: the dates are not sent with the request.
AllSold(r) == sold

\* What the API answers for a range of dates.
SoldOf(r) == SoldIn[r] \cap sold

\* The API's answer frees the slot.  Below its cap, or for less than a second,
\* the answer is saved; else the two halves are fetched, side by side.
Answer(j, r) ==
  /\ node[j][r] = "call"
  /\ \/ /\ Node(j, r, "chunk")
        /\ got' = [got EXCEPT ![j][r] = SoldOf(r)]
        /\ UNCHANGED boundVars
     \/ /\ Halves[r] # {}
        /\ node' = [node EXCEPT ![j] = [q \in Span |->
             IF q = r THEN "over" ELSE IF q \in Halves[r] THEN "check" ELSE node[j][q]]]
        /\ UNCHANGED <<got, boundVars>>
     \/ Fault /\ Node(j, r, "failed") /\ UNCHANGED got
  /\ UNCHANGED <<writerVars, sold, rowVars, start, insertVars, cancel>>

\* saveChunk: the chunk, then the counter of the job.
CreateChunk(j, r) ==
  /\ node[j][r] = "chunk"
  /\ \/ /\ Exists(j)
        /\ chunk' = [chunk EXCEPT ![j][r] = "PENDING"]
        /\ Node(j, r, "count")
        /\ UNCHANGED boundVars
     \/ UpdateThrows(j) /\ Node(j, r, "failed") /\ UNCHANGED chunk
  /\ UNCHANGED <<writerVars, sold, job, start, got, insertVars, cancel>>

CountChunk(j, r) ==
  /\ node[j][r] = "count"
  /\ \/ /\ Exists(j)
        /\ job' = [job EXCEPT ![j].total = @ + 1]
        /\ Node(j, r, "over")
        /\ UNCHANGED boundVars
     \/ UpdateThrows(j) /\ Node(j, r, "failed") /\ UNCHANGED job
  /\ UNCHANGED <<writerVars, sold, chunk, start, got, insertVars, cancel>>

Fetching(j) == {r \in Span : node[j][r] \notin {"none", "over", "failed"}}
Failed(j) == {r \in Span : node[j][r] = "failed"}

\* Every branch has returned, those that saw a cancellation included.
CollectDone(j) ==
  /\ start[j] = "fetch" /\ Fetching(j) = {} /\ Failed(j) = {}
  /\ \/ /\ Exists(j)
        /\ job' = [job EXCEPT ![j].collectDone = TRUE]
        /\ Starts(j, "over")
        /\ UNCHANGED boundVars
     \/ UpdateThrows(j) /\ Starts(j, "fail") /\ UNCHANGED job
  /\ UNCHANGED <<writerVars, sold, chunk, node, got, insertVars, cancel>>

\* The first branch that throws rejects the whole; the others go on.
CollectRejected(j) ==
  /\ start[j] = "fetch" /\ Failed(j) # {}
  /\ Starts(j, "fail")
  /\ UNCHANGED <<writerVars, sold, rowVars, node, got, insertVars, cancel, boundVars>>

\* The failure of this update is swallowed.
CollectFail(j) ==
  /\ start[j] = "fail"
  /\ \/ Exists(j) /\ SetStatus(j, "FAILED") /\ UNCHANGED boundVars
     \/ UpdateThrows(j) /\ UNCHANGED job
  /\ Starts(j, "over")
  /\ UNCHANGED <<writerVars, sold, chunk, node, got, insertVars, cancel>>

------------------------------------------------------------------------------
(* The inserter: watch, and processChunk for each chunk it takes.          *)

PendingChunks(j) == {r \in Span : chunk[j][r] = "PENDING"}

\* findMany with a limit, the oldest first: which ones is left open.
Take(j) ==
  /\ watch[j] = "take"
  /\ \/ /\ PendingChunks(j) # {}
        /\ \E taken \in SUBSET PendingChunks(j) :
             /\ IF Cardinality(PendingChunks(j)) <= MaxParallel
                  THEN taken = PendingChunks(j)
                  ELSE Cardinality(taken) = MaxParallel
             /\ task' = [task EXCEPT ![j] = [r \in Span |-> IF r \in taken THEN "claim" ELSE "none"]]
        /\ Watch(j, "process")
        /\ UNCHANGED boundVars
     \/ PendingChunks(j) = {} /\ Watch(j, "read") /\ UNCHANGED <<task, boundVars>>
     \/ Fault /\ Watch(j, "fatal") /\ UNCHANGED task
  /\ UNCHANGED <<writerVars, sold, rowVars, collectVars, cancel>>

\* PENDING to PROCESSING; a chunk that is gone is left alone.
Claim(j, r) ==
  /\ task[j][r] = "claim"
  /\ \/ /\ chunk[j][r] = "PENDING"
        /\ chunk' = [chunk EXCEPT ![j][r] = "PROCESSING"]
        /\ Task(j, r, "insert")
        /\ UNCHANGED boundVars
     \/ chunk[j][r] # "PENDING" /\ Task(j, r, "none") /\ UNCHANGED <<chunk, boundVars>>
     \/ Fault /\ Task(j, r, "fail") /\ UNCHANGED chunk
  /\ UNCHANGED <<writerVars, sold, job, collectVars, watch, cancel>>

\* Plausible bug: each chunk inserts what was collected so far.
InsertBeginAll(j, r) ==
  /\ task[j][r] = "insert" /\ batch[<<j, r>>] = NoBatch
  /\ ReadKnown(<<j, r>>, UNION {got[j][q] : q \in Span})
  /\ UNCHANGED <<sold, rowVars, collectVars, insertVars, cancel, boundVars>>

\* insertTransactionBatch; the rows and the lines have no tie with the job.
InsertBegin(j, r) ==
  /\ task[j][r] = "insert" /\ batch[<<j, r>>] = NoBatch
  /\ \/ /\ Exists(j)
        /\ ReadKnown(<<j, r>>, got[j][r])
        /\ UNCHANGED <<task, boundVars>>
     \/ UpdateThrows(j) /\ Task(j, r, "fail") /\ UNCHANGED writerVars
  /\ UNCHANGED <<sold, rowVars, collectVars, watch, cancel>>

InsertGoesOn(j, r) ==
  /\ CreateRows(<<j, r>>) \/ ReadBare(<<j, r>>)
  /\ UNCHANGED <<sold, rowVars, collectVars, insertVars, cancel, boundVars>>

InsertEnds(j, r) ==
  /\ InsertLines(<<j, r>>)
  /\ Task(j, r, "done")
  /\ UNCHANGED <<sold, rowVars, collectVars, watch, cancel, boundVars>>

InsertThrows(j, r) ==
  /\ DropBatch(<<j, r>>)
  /\ Fault
  /\ Task(j, r, "fail")
  /\ UNCHANGED <<sold, rowVars, collectVars, watch, cancel>>

ChunkDone(j, r) ==
  /\ task[j][r] = "done"
  /\ \/ /\ chunk[j][r] # "none"
        /\ chunk' = [chunk EXCEPT ![j][r] = "DONE"]
        /\ Task(j, r, "count")
        /\ UNCHANGED boundVars
     \/ UpdateThrows(j) /\ Task(j, r, "fail") /\ UNCHANGED chunk
  /\ UNCHANGED <<writerVars, sold, job, collectVars, watch, cancel>>

ChunkCounted(j, r) ==
  /\ task[j][r] = "count"
  /\ \/ /\ Exists(j)
        /\ job' = [job EXCEPT ![j].processed = @ + 1]
        /\ Task(j, r, "none")
        /\ UNCHANGED boundVars
     \/ UpdateThrows(j) /\ Task(j, r, "fail") /\ UNCHANGED job
  /\ UNCHANGED <<writerVars, sold, chunk, collectVars, watch, cancel>>

\* The failure of this update is swallowed: the chunk stays as it is.
ChunkFailed(j, r) ==
  /\ task[j][r] = "fail"
  /\ \/ /\ chunk[j][r] # "none"
        /\ chunk' = [chunk EXCEPT ![j][r] = "FAILED"]
        /\ UNCHANGED boundVars
     \/ UpdateThrows(j) /\ UNCHANGED chunk
  /\ Task(j, r, "none")
  /\ UNCHANGED <<writerVars, sold, job, collectVars, watch, cancel>>

\* The chunks of a round are all awaited.
RoundOver(j) ==
  /\ watch[j] = "process"
  /\ \A r \in Span : task[j][r] = "none"
  /\ Watch(j, "take")
  /\ UNCHANGED <<writerVars, sold, rowVars, collectVars, task, cancel, boundVars>>

\* Plausible bug: what was counted is compared before the collection ended.
VerdictOnCounts(j) ==
  IF ~ Exists(j) \/ job[j].status \in {"FAILED", "CANCELLED"} THEN "over"
  ELSE IF job[j].total > 0 /\ job[j].processed >= job[j].total THEN "complete"
  ELSE IF job[j].collectDone THEN "failures" ELSE "take"

Verdict(j) ==
  IF ~ Exists(j) \/ job[j].status \in {"FAILED", "CANCELLED"} THEN "over"
  ELSE IF job[j].collectDone /\ job[j].processed >= job[j].total THEN "complete"
  ELSE IF job[j].collectDone THEN "failures" ELSE "take"

\* One read of the job's row decides; after a pause the inserter looks again.
ReadJob(j) ==
  /\ watch[j] = "read"
  /\ \/ Watch(j, Verdict(j)) /\ UNCHANGED boundVars
     \/ Fault /\ Watch(j, "fatal")
  /\ UNCHANGED <<writerVars, sold, rowVars, collectVars, task, cancel>>

\* The update does not look at the status again.
Complete(j) ==
  /\ watch[j] = "complete"
  /\ \/ Exists(j) /\ SetStatus(j, "COMPLETED") /\ Watch(j, "over") /\ UNCHANGED boundVars
     \/ UpdateThrows(j) /\ Watch(j, "fatal") /\ UNCHANGED job
  /\ UNCHANGED <<writerVars, sold, chunk, collectVars, task, cancel>>

CountFailures(j) ==
  /\ watch[j] = "failures"
  /\ \/ /\ Watch(j, IF \E r \in Span : chunk[j][r] = "FAILED" THEN "giveUp" ELSE "take")
        /\ UNCHANGED boundVars
     \/ Fault /\ Watch(j, "fatal")
  /\ UNCHANGED <<writerVars, sold, rowVars, collectVars, task, cancel>>

GiveUp(j) ==
  /\ watch[j] = "giveUp"
  /\ \/ Exists(j) /\ SetStatus(j, "FAILED") /\ Watch(j, "over") /\ UNCHANGED boundVars
     \/ UpdateThrows(j) /\ Watch(j, "fatal") /\ UNCHANGED job
  /\ UNCHANGED <<writerVars, sold, chunk, collectVars, task, cancel>>

\* The failure of this update is swallowed.
Fatal(j) ==
  /\ watch[j] = "fatal"
  /\ \/ Exists(j) /\ SetStatus(j, "FAILED") /\ UNCHANGED boundVars
     \/ UpdateThrows(j) /\ UNCHANGED job
  /\ Watch(j, "over")
  /\ UNCHANGED <<writerVars, sold, chunk, collectVars, task, cancel>>

------------------------------------------------------------------------------
\* The process dies; the rows stay as they are and nobody takes the job up.
Crash ==
  /\ faults < MaxFaults /\ faults' = faults + 1
  /\ crashed' = TRUE
  /\ DropAll(Job \X Span, Caller)
  /\ start' = [j \in Job |-> IF start[j] \in {"idle", "create"} THEN "idle" ELSE "over"]
  /\ node' = [j \in Job |-> [r \in Span |-> "none"]]
  /\ watch' = [j \in Job |-> IF watch[j] = "idle" THEN "idle" ELSE "over"]
  /\ task' = [j \in Job |-> [r \in Span |-> "none"]]
  /\ cancel' = [j \in Job |-> FALSE]
  /\ UNCHANGED <<sold, rowVars, got>>

Collect(j) ==
  \/ CollectBegin(j) \/ CollectDone(j) \/ CollectRejected(j) \/ CollectFail(j)
  \/ \E r \in Span : Check(j, r) \/ AcquireSlot(j, r) \/ Answer(j, r)
                         \/ CreateChunk(j, r) \/ CountChunk(j, r)

Process(j, r) ==
  \/ Claim(j, r) \/ InsertBegin(j, r) \/ InsertGoesOn(j, r) \/ InsertEnds(j, r)
  \/ InsertThrows(j, r) \/ ChunkDone(j, r) \/ ChunkCounted(j, r) \/ ChunkFailed(j, r)

Insert(j) ==
  \/ Take(j) \/ RoundOver(j) \/ ReadJob(j) \/ Complete(j)
  \/ CountFailures(j) \/ GiveUp(j) \/ Fatal(j)

Console(j) == CheckRunning(j) \/ CreateJob(j) \/ CancelRead(j) \/ CancelWrite(j) \/ DeleteJob(j)

Next ==
  \/ \E j \in Job : Console(j) \/ Collect(j) \/ Insert(j)
  \/ \E j \in Job, r \in Span : Process(j, r)
  \/ Crash

Spec == Init /\ [][Next]_vars

\* The event loop resumes whoever was answered, and the API answers.  Between
\* the branches of a bisection, or the chunks of a round, nothing is promised.
Fairness ==
  \A j \in Job : /\ WF_vars(Insert(j))
                 /\ WF_vars(Collect(j))
                 /\ WF_vars(\E r \in Span : Process(j, r))

FairSpec == Spec /\ Fairness

------------------------------------------------------------------------------
(* Properties.                                                             *)

\* Each moment of the range of a job is in exactly one of the given ranges.
Tiles(ranges) ==
  /\ SoldIn[Root] \subseteq UNION {SoldIn[r] : r \in ranges}
  /\ \A q, r \in ranges : q # r => SoldIn[q] \cap SoldIn[r] = {}

Saved(j) == {r \in Span : chunk[j][r] # "none"}

\* A COMPLETED job has kept its word: its chunks cover its dates, none is left,
\* and each of their transactions has its row and its lines, whatever was
\* cancelled, failed or raced on the way.
CompletedIsComplete ==
  \A j \in Job : job[j].status = "COMPLETED" =>
    /\ Tiles(Saved(j))
    /\ \A r \in Saved(j) : chunk[j][r] = "DONE"
    /\ \A r \in Saved(j), x \in Sale : x \in got[j][r] => x \in row /\ lines[x] > 0

\* To the other writers a job is what ChunkedImport says: its workers, however
\* they are cancelled, deleted or killed, write only what the API has answered.
Chunks == INSTANCE ChunkedImport WITH
  Inserter <- Job \X Span,
  DatesOf <- [w \in Job \X Span |-> SoldIn[w[2]]],
  collecting <- \E j \in Job : job[j].status = "COLLECTING",
  held <- [w \in Job \X Span |-> got[w[1]][w[2]]]

WritesAnswersOnly == Chunks!ChunksSpec

\* One failure never leaves a collected job without an end, or a worker that
\* polls for ever: once the collector has begun with its inserter at work, both
\* stop and the job has ended, unless the process died.
EveryCollectionEnds ==
  \A j \in Job :
    (job[j].status = "COLLECTING" /\ watch[j] # "over") ~>
      (~ Running(j) /\ job[j].status # "COLLECTING") \/ crashed

\* What the comment of watch wants: no job stays in progress for ever.
EveryJobEnds ==
  \A j \in Job : (job[j].status \in Active) ~> job[j].status \notin Active \/ crashed
==============================================================================
