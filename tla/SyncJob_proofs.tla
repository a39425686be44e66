---------------------------- MODULE SyncJob_proofs ----------------------------
(***************************************************************************)
(* For every number of jobs, every tree of ranges and every set of         *)
(* transactions: a synchronisation job is well-typed, its two workers,     *)
(* with all that cancels, deletes or kills them, implement ChunkedImport,  *)
(* and a job that says COMPLETED is complete.                              *)
(***************************************************************************)
EXTENDS SyncJob, SalesWriter_proofs, FiniteSetTheorems

(* The types of all that the writers do not own.                           *)
RestTypeOK ==
  /\ sold \subseteq Sale
  /\ got \in [Job -> [Span -> SUBSET Sale]]
  /\ job \in [Job -> JobRow]
  /\ chunk \in [Job -> [Span -> Chunk]]
  /\ start \in [Job -> {"idle", "create", "begin", "fetch", "fail", "over"}]
  /\ node \in [Job -> [Span -> {"none", "check", "slot", "call", "chunk", "count",
                                 "over", "failed"}]]
  /\ watch \in [Job -> {"idle", "take", "process", "read", "complete", "failures",
                        "giveUp", "fatal", "over"}]
  /\ task \in [Job -> [Span -> {"none", "claim", "insert", "done", "count", "fail"}]]
  /\ cancel \in [Job -> BOOLEAN]
  /\ faults \in 0..MaxFaults /\ crashed \in BOOLEAN

(* A range has been answered or not; its answer never changes.             *)
Answered == \A j \in Job, r \in Span : got[j][r] \in {{}, SoldIn[r] \cap sold}

JobInv == WriterInv /\ RestTypeOK /\ Answered

------------------------------------------------------------------------------
LEMMA InvGivesTypes == JobInv => TypeOK
BY DEF JobInv, WriterInv, RestTypeOK, Answered, TypeOK

LEMMA JobInitInv == Init => JobInv
<1> SUFFICES ASSUME Init PROVE JobInv
  OBVIOUS
<1>1. WriterInv
  BY WriterInitInv DEF Init
<1>2. NoJob \in JobRow
  BY DEF NoJob, JobRow
<1>3. sold \subseteq Sale /\ faults \in 0..MaxFaults
  BY SyncAssumption DEF Init
<1>4. RestTypeOK
  BY <1>2, <1>3 DEF Init, RestTypeOK, Chunk
<1>5. Answered
  BY DEF Init, Answered
<1> QED
  BY <1>1, <1>4, <1>5 DEF JobInv

------------------------------------------------------------------------------
(* A table with a new cell, or a new row, is a table.                      *)
LEMMA NewCell ==
  ASSUME NEW A, NEW B, NEW T, NEW f \in [A -> [B -> T]], NEW a \in A, NEW b \in B, NEW t \in T
  PROVE  [f EXCEPT ![a][b] = t] \in [A -> [B -> T]]
OBVIOUS

LEMMA NewRow ==
  ASSUME NEW A, NEW B, NEW T, NEW f \in [A -> [B -> T]], NEW a \in A, NEW g \in [B -> T]
  PROVE  [f EXCEPT ![a] = g] \in [A -> [B -> T]]
OBVIOUS

(* The updates the actions are made of keep the types.                     *)

LEMMA BoundsType ==
  ASSUME RestTypeOK, UNCHANGED boundVars \/ Fault
  PROVE  faults' \in 0..MaxFaults /\ crashed' \in BOOLEAN
BY SyncAssumption DEF RestTypeOK, Fault, boundVars

LEMMA ThrowsType ==
  ASSUME RestTypeOK, NEW j \in Job, UpdateThrows(j)
  PROVE  faults' \in 0..MaxFaults /\ crashed' \in BOOLEAN
BY BoundsType DEF UpdateThrows

LEMMA StatusType ==
  ASSUME RestTypeOK, NEW j \in Job, NEW status \in Active \cup Ended, SetStatus(j, status)
  PROVE  job' \in [Job -> JobRow]
<1>1. job' = [job EXCEPT ![j] = [job[j] EXCEPT !.status = status]]
  BY DEF SetStatus, RestTypeOK
<1>2. job[j] \in JobRow
  BY DEF RestTypeOK
<1>3. [job[j] EXCEPT !.status = status] \in JobRow
  BY <1>2 DEF JobRow
<1> QED
  BY <1>1, <1>3 DEF RestTypeOK

LEMMA CountersType ==
  ASSUME RestTypeOK, NEW j \in Job,
         \/ job' = [job EXCEPT ![j].total = @ + 1]
         \/ job' = [job EXCEPT ![j].processed = @ + 1]
         \/ job' = [job EXCEPT ![j].collectDone = TRUE]
         \/ job' = [job EXCEPT ![j] = [NoJob EXCEPT !.status = "deleted"]]
  PROVE  job' \in [Job -> JobRow]
<1>1. job[j] \in JobRow
  BY DEF RestTypeOK
<1>2. /\ [job[j] EXCEPT !.total = @ + 1] \in JobRow
      /\ [job[j] EXCEPT !.processed = @ + 1] \in JobRow
      /\ [job[j] EXCEPT !.collectDone = TRUE] \in JobRow
  <2>1. job[j].total + 1 \in Nat /\ job[j].processed + 1 \in Nat
    BY <1>1 DEF JobRow
  <2>2. [job[j] EXCEPT !.total = @ + 1] \in JobRow
    BY <1>1, <2>1, Zenon DEF JobRow
  <2>3. [job[j] EXCEPT !.processed = @ + 1] \in JobRow
    BY <1>1, <2>1, Zenon DEF JobRow
  <2>4. [job[j] EXCEPT !.collectDone = TRUE] \in JobRow
    BY <1>1 DEF JobRow
  <2> QED
    BY <2>2, <2>3, <2>4
<1>3. [NoJob EXCEPT !.status = "deleted"] \in JobRow
  BY DEF NoJob, JobRow
<1> QED
  BY <1>2, <1>3 DEF RestTypeOK

LEMMA StartType ==
  ASSUME RestTypeOK, NEW j \in Job,
         NEW pc \in {"idle", "create", "begin", "fetch", "fail", "over"}, Starts(j, pc)
  PROVE  start' \in [Job -> {"idle", "create", "begin", "fetch", "fail", "over"}]
BY DEF RestTypeOK, Starts

LEMMA NodeType ==
  ASSUME RestTypeOK, NEW j \in Job, NEW r \in Span,
         NEW pc \in {"none", "check", "slot", "call", "chunk", "count", "over", "failed"},
         Node(j, r, pc)
  PROVE  node' \in [Job -> [Span -> {"none", "check", "slot", "call", "chunk", "count",
                                      "over", "failed"}]]
BY DEF RestTypeOK, Node

LEMMA WatchType ==
  ASSUME RestTypeOK, NEW j \in Job,
         NEW pc \in {"idle", "take", "process", "read", "complete", "failures", "giveUp",
                     "fatal", "over"},
         Watch(j, pc)
  PROVE  watch' \in [Job -> {"idle", "take", "process", "read", "complete", "failures",
                             "giveUp", "fatal", "over"}]
BY DEF RestTypeOK, Watch

LEMMA TaskType ==
  ASSUME RestTypeOK, NEW j \in Job, NEW r \in Span,
         NEW pc \in {"none", "claim", "insert", "done", "count", "fail"}, Task(j, r, pc)
  PROVE  task' \in [Job -> [Span -> {"none", "claim", "insert", "done", "count", "fail"}]]
BY DEF RestTypeOK, Task

LEMMA ChunkType ==
  ASSUME RestTypeOK, NEW j \in Job, NEW r \in Span, NEW status \in Chunk,
         chunk' = [chunk EXCEPT ![j][r] = status]
  PROVE  chunk' \in [Job -> [Span -> Chunk]]
BY DEF RestTypeOK

------------------------------------------------------------------------------
(* Each action keeps them.                                                 *)

LEMMA ConsoleTypes ==
  ASSUME RestTypeOK, NEW j \in Job, Console(j)
  PROVE  RestTypeOK'
<1> USE DEF rowVars, collectVars, insertVars, boundVars
<1>1. CASE CheckRunning(j)
  BY <1>1, StartType DEF CheckRunning, RestTypeOK
<1>2. CASE CreateJob(j)
  <2>1. job' \in [Job -> JobRow]
    BY <1>2, StatusType DEF CreateJob, Active
  <2> QED
    BY <1>2, <2>1, StartType, WatchType DEF CreateJob, RestTypeOK
<1>3. CASE CancelRead(j)
  BY <1>3 DEF CancelRead, RestTypeOK
<1>4. CASE CancelWrite(j)
  <2>1. job' \in [Job -> JobRow]
    BY <1>4, StatusType DEF CancelWrite, Ended, RestTypeOK
  <2> QED
    BY <1>4, <2>1 DEF CancelWrite, RestTypeOK
<1>5. CASE DeleteJob(j)
  <2>1. job' \in [Job -> JobRow] /\ chunk' \in [Job -> [Span -> Chunk]]
    BY <1>5, CountersType DEF DeleteJob, RestTypeOK, Chunk
  <2> QED
    BY <1>5, <2>1 DEF DeleteJob, RestTypeOK
<1> QED
  BY <1>1, <1>2, <1>3, <1>4, <1>5 DEF Console

LEMMA FetchTypes ==
  ASSUME RestTypeOK, NEW j \in Job, NEW r \in Span,
         \/ Check(j, r) \/ AcquireSlot(j, r) \/ Answer(j, r)
         \/ CreateChunk(j, r) \/ CountChunk(j, r)
  PROVE  RestTypeOK'
<1> USE DEF rowVars, collectVars, insertVars
<1>1. CASE Check(j, r)
  BY <1>1, NodeType, BoundsType DEF Check, RestTypeOK
<1>2. CASE AcquireSlot(j, r)
  BY <1>2, NodeType DEF AcquireSlot, RestTypeOK, boundVars
<1>3. CASE Answer(j, r)
  <2>1. faults' \in 0..MaxFaults /\ crashed' \in BOOLEAN
    BY <1>3, BoundsType DEF Answer
  <2>2. node' \in [Job -> [Span -> {"none", "check", "slot", "call", "chunk", "count",
                                     "over", "failed"}]]
    <3>1. CASE Node(j, r, "chunk") \/ Node(j, r, "failed")
      BY <3>1, NodeType
    <3>2. CASE node' = [node EXCEPT ![j] = [q \in Span |->
             IF q = r THEN "over" ELSE IF q \in Halves[r] THEN "check" ELSE node[j][q]]]
      BY <3>2 DEF RestTypeOK
    <3> QED
      BY <1>3, <3>1, <3>2 DEF Answer
  <2>3. got' \in [Job -> [Span -> SUBSET Sale]]
    <3>1. SoldOf(r) \in SUBSET Sale
      BY DEF SoldOf, RestTypeOK
    <3>2. got' = [got EXCEPT ![j][r] = SoldOf(r)] \/ got' = got
      BY <1>3 DEF Answer
    <3>3. got \in [Job -> [Span -> SUBSET Sale]]
      BY DEF RestTypeOK
    <3> QED
      BY <3>1, <3>2, <3>3, NewCell
  <2> QED
    BY <1>3, <2>1, <2>2, <2>3 DEF Answer, RestTypeOK
<1>4. CASE CreateChunk(j, r)
  <2>1. faults' \in 0..MaxFaults /\ crashed' \in BOOLEAN
    BY <1>4, BoundsType, ThrowsType DEF CreateChunk
  <2>2. chunk' \in [Job -> [Span -> Chunk]]
    BY <1>4, ChunkType DEF CreateChunk, Chunk, RestTypeOK
  <2> QED
    BY <1>4, <2>1, <2>2, NodeType DEF CreateChunk, RestTypeOK
<1>5. CASE CountChunk(j, r)
  <2>1. faults' \in 0..MaxFaults /\ crashed' \in BOOLEAN
    BY <1>5, BoundsType, ThrowsType DEF CountChunk
  <2>2. job' \in [Job -> JobRow]
    BY <1>5, CountersType DEF CountChunk, RestTypeOK
  <2> QED
    BY <1>5, <2>1, <2>2, NodeType DEF CountChunk, RestTypeOK
<1> QED
  BY <1>1, <1>2, <1>3, <1>4, <1>5

LEMMA CollectTypes ==
  ASSUME RestTypeOK, NEW j \in Job, Collect(j)
  PROVE  RestTypeOK'
<1> USE DEF rowVars, collectVars, insertVars
<1>1. CASE CollectBegin(j)
  <2>1. faults' \in 0..MaxFaults /\ crashed' \in BOOLEAN
    BY <1>1, BoundsType, ThrowsType DEF CollectBegin
  <2>2. job' \in [Job -> JobRow]
    BY <1>1, StatusType DEF CollectBegin, Active, RestTypeOK
  <2> QED
    BY <1>1, <2>1, <2>2, StartType, NodeType, SyncAssumption DEF CollectBegin, RestTypeOK
<1>2. CASE CollectDone(j)
  <2>1. faults' \in 0..MaxFaults /\ crashed' \in BOOLEAN
    BY <1>2, BoundsType, ThrowsType DEF CollectDone
  <2>2. job' \in [Job -> JobRow]
    BY <1>2, CountersType DEF CollectDone, RestTypeOK
  <2> QED
    BY <1>2, <2>1, <2>2, StartType DEF CollectDone, RestTypeOK
<1>3. CASE CollectRejected(j)
  BY <1>3, StartType DEF CollectRejected, RestTypeOK, boundVars
<1>4. CASE CollectFail(j)
  <2>1. faults' \in 0..MaxFaults /\ crashed' \in BOOLEAN
    BY <1>4, BoundsType, ThrowsType DEF CollectFail
  <2>2. job' \in [Job -> JobRow]
    BY <1>4, StatusType DEF CollectFail, Ended, RestTypeOK
  <2> QED
    BY <1>4, <2>1, <2>2, StartType DEF CollectFail, RestTypeOK
<1> QED
  BY <1>1, <1>2, <1>3, <1>4, FetchTypes DEF Collect

LEMMA ProcessTypes ==
  ASSUME RestTypeOK, NEW j \in Job, NEW r \in Span, Process(j, r)
  PROVE  RestTypeOK'
<1> USE DEF rowVars, collectVars, insertVars
<1>1. faults' \in 0..MaxFaults /\ crashed' \in BOOLEAN
  BY BoundsType, ThrowsType DEF Process, Claim, InsertBegin, InsertGoesOn, InsertEnds,
     InsertThrows, ChunkDone, ChunkCounted, ChunkFailed
<1>2. CASE Claim(j, r)
  <2>1. chunk' \in [Job -> [Span -> Chunk]]
    BY <1>2, ChunkType DEF Claim, Chunk, RestTypeOK
  <2> QED
    BY <1>1, <1>2, <2>1, TaskType DEF Claim, RestTypeOK
<1>3. CASE InsertBegin(j, r)
  BY <1>1, <1>3, TaskType DEF InsertBegin, RestTypeOK
<1>4. CASE InsertGoesOn(j, r) \/ InsertEnds(j, r) \/ InsertThrows(j, r)
  BY <1>1, <1>4, TaskType DEF InsertGoesOn, InsertEnds, InsertThrows, RestTypeOK
<1>5. CASE ChunkDone(j, r)
  <2>1. chunk' \in [Job -> [Span -> Chunk]]
    BY <1>5, ChunkType DEF ChunkDone, Chunk, RestTypeOK
  <2> QED
    BY <1>1, <1>5, <2>1, TaskType DEF ChunkDone, RestTypeOK
<1>6. CASE ChunkCounted(j, r)
  <2>1. job' \in [Job -> JobRow]
    BY <1>6, CountersType DEF ChunkCounted, RestTypeOK
  <2> QED
    BY <1>1, <1>6, <2>1, TaskType DEF ChunkCounted, RestTypeOK
<1>7. CASE ChunkFailed(j, r)
  <2>1. chunk' \in [Job -> [Span -> Chunk]]
    BY <1>7, ChunkType DEF ChunkFailed, Chunk, RestTypeOK
  <2> QED
    BY <1>1, <1>7, <2>1, TaskType DEF ChunkFailed, RestTypeOK
<1> QED
  BY <1>2, <1>3, <1>4, <1>5, <1>6, <1>7 DEF Process

LEMMA InsertTypes ==
  ASSUME RestTypeOK, NEW j \in Job, Insert(j)
  PROVE  RestTypeOK'
<1> USE DEF rowVars, collectVars, insertVars
<1>1. faults' \in 0..MaxFaults /\ crashed' \in BOOLEAN
  BY BoundsType, ThrowsType DEF Insert, Take, RoundOver, ReadJob, Complete, CountFailures,
     GiveUp, Fatal
<1>2. CASE Take(j)
  <2>1. task' \in [Job -> [Span -> {"none", "claim", "insert", "done", "count", "fail"}]]
    <3>1. \/ task' = task
          \/ \E taken : task' = [task EXCEPT ![j] =
                            [r \in Span |-> IF r \in taken THEN "claim" ELSE "none"]]
      BY <1>2 DEF Take
    <3>2. \A taken : [r \in Span |-> IF r \in taken THEN "claim" ELSE "none"]
                       \in [Span -> {"none", "claim", "insert", "done", "count", "fail"}]
      OBVIOUS
    <3>3. task \in [Job -> [Span -> {"none", "claim", "insert", "done", "count", "fail"}]]
      BY DEF RestTypeOK
    <3> QED
      BY <3>1, <3>2, <3>3, NewRow
  <2> QED
    BY <1>1, <1>2, <2>1, WatchType DEF Take, RestTypeOK
<1>3. CASE RoundOver(j)
  BY <1>1, <1>3, WatchType DEF RoundOver, RestTypeOK
<1>4. CASE ReadJob(j)
  <2>1. Verdict(j) \in {"over", "complete", "failures", "take"}
    BY DEF Verdict
  <2> QED
    BY <1>1, <1>4, <2>1, WatchType DEF ReadJob, RestTypeOK
<1>5. CASE CountFailures(j)
  BY <1>1, <1>5, WatchType DEF CountFailures, RestTypeOK
<1>6. CASE Complete(j) \/ GiveUp(j) \/ Fatal(j)
  <2>1. job' \in [Job -> JobRow]
    BY <1>6, StatusType DEF Complete, GiveUp, Fatal, Ended, RestTypeOK
  <2> QED
    BY <1>1, <1>6, <2>1, WatchType DEF Complete, GiveUp, Fatal, RestTypeOK
<1> QED
  BY <1>2, <1>3, <1>4, <1>5, <1>6 DEF Insert

LEMMA CrashTypes ==
  ASSUME RestTypeOK, Crash
  PROVE  RestTypeOK'
<1>1. faults' \in 0..MaxFaults
  BY SyncAssumption DEF Crash, RestTypeOK
<1> QED
  BY <1>1 DEF Crash, RestTypeOK, rowVars

LEMMA StepTypes ==
  ASSUME RestTypeOK, [Next]_vars
  PROVE  RestTypeOK'
<1>1. CASE UNCHANGED vars
  BY <1>1 DEF vars, rowVars, collectVars, insertVars, boundVars, RestTypeOK
<1> QED
  BY <1>1, ConsoleTypes, CollectTypes, InsertTypes, ProcessTypes, CrashTypes DEF Next

------------------------------------------------------------------------------
(* The steps of a job are statements of its writers, or none.              *)

(* What a step does to the sales: nothing at all, an answer of the API, or *)
(* a statement of one writer, or the death of all.                         *)
Idles == UNCHANGED <<writerVars, sold, got>>
Answers(j, r) ==
  UNCHANGED <<writerVars, sold, job>> /\ got' = [got EXCEPT ![j][r] = SoldIn[r] \cap sold]
Writes(j, r) ==
  /\ \/ ReadKnown(<<j, r>>, got[j][r]) \/ CreateRows(<<j, r>>) \/ ReadBare(<<j, r>>)
     \/ InsertLines(<<j, r>>) \/ DropBatch(<<j, r>>)
  /\ UNCHANGED <<sold, got, job>>
Dies == DropAll(Job \X Span, Caller) /\ UNCHANGED <<sold, got, job>>

LEMMA StepKinds ==
  ASSUME [Next]_vars
  PROVE  \/ Idles \/ Dies
         \/ \E j \in Job, r \in Span : Answers(j, r) \/ Writes(j, r)
<1> USE DEF rowVars, collectVars, insertVars, boundVars, Idles
<1>1. CASE UNCHANGED vars
  BY <1>1 DEF vars
<1>2. ASSUME NEW j \in Job, Console(j) PROVE Idles
  BY <1>2 DEF Console, CheckRunning, CreateJob, CancelRead, CancelWrite, DeleteJob
<1>3. ASSUME NEW j \in Job, CollectBegin(j) \/ CollectDone(j) \/ CollectRejected(j) \/ CollectFail(j)
      PROVE  Idles
  BY <1>3 DEF CollectBegin, CollectDone, CollectRejected, CollectFail
<1>4. ASSUME NEW j \in Job, NEW r \in Span,
             Check(j, r) \/ AcquireSlot(j, r) \/ CreateChunk(j, r) \/ CountChunk(j, r)
      PROVE  Idles
  BY <1>4 DEF Check, AcquireSlot, CreateChunk, CountChunk
<1>5. ASSUME NEW j \in Job, NEW r \in Span, Answer(j, r) PROVE Idles \/ Answers(j, r)
  BY <1>5 DEF Answer, Answers, SoldOf
<1>6. ASSUME NEW j \in Job, Insert(j) PROVE Idles
  BY <1>6 DEF Insert, Take, RoundOver, ReadJob, Complete, CountFailures, GiveUp, Fatal
<1>7. ASSUME NEW j \in Job, NEW r \in Span, Process(j, r) PROVE Idles \/ Writes(j, r)
  BY <1>7 DEF Process, Claim, InsertBegin, InsertGoesOn, InsertEnds, InsertThrows, ChunkDone,
     ChunkCounted, ChunkFailed, Writes
<1>8. CASE Crash
  BY <1>8 DEF Crash, Dies
<1> QED
  BY <1>1, <1>2, <1>3, <1>4, <1>5, <1>6, <1>7, <1>8 DEF Next, Collect

LEMMA StepWrites ==
  ASSUME JobInv, [Next]_vars
  PROVE  WriterStep
<1>1. CASE Idles
  BY <1>1 DEF Idles, WriterStep
<1>2. CASE Dies
  BY <1>2, SyncAssumption DEF Dies, WriterStep
<1>3. ASSUME NEW j \in Job, NEW r \in Span, Answers(j, r) PROVE WriterStep
  BY <1>3 DEF Answers, WriterStep
<1>4. ASSUME NEW j \in Job, NEW r \in Span, Writes(j, r) PROVE WriterStep
  <2>1. <<j, r>> \in Writer /\ got[j][r] \in SUBSET Sale
    BY SyncAssumption DEF JobInv, RestTypeOK
  <2> QED
    BY <1>4, <2>1 DEF Writes, WriterStep
<1> QED
  BY <1>1, <1>2, <1>3, <1>4, StepKinds

LEMMA StepAnswered ==
  ASSUME JobInv, [Next]_vars
  PROVE  Answered'
<1>1. CASE Idles \/ Dies \/ \E j \in Job, r \in Span : Writes(j, r)
  BY <1>1 DEF Idles, Dies, Writes, JobInv, Answered
<1>2. ASSUME NEW j \in Job, NEW r \in Span, Answers(j, r) PROVE Answered'
  <2>1. got \in [Job -> [Span -> SUBSET Sale]]
    BY DEF JobInv, RestTypeOK
  <2> QED
    BY <1>2, <2>1 DEF Answers, JobInv, Answered
<1> QED
  BY <1>1, <1>2, StepKinds

LEMMA JobStepInv == JobInv /\ [Next]_vars => JobInv'
BY StepWrites, WriterStepKeeps, StepTypes, StepAnswered DEF JobInv

------------------------------------------------------------------------------
(* Type correctness.                                                       *)

(* The rows, the workers and the writers of a job are well-typed, and no   *)
(* chunk holds what the API has not answered for its dates.                *)
THEOREM JobTypeCorrect == Spec => []TypeOK
<1>1. Spec => []JobInv
  BY JobInitInv, JobStepInv, PTL DEF Spec
<1> QED
  BY <1>1, InvGivesTypes, PTL

------------------------------------------------------------------------------
(* The job implements ChunkedImport.                                       *)

DatesOfChunk == [w \in Job \X Span |-> SoldIn[w[2]]]
SeenCollecting == \E j \in Job : job[j].status = "COLLECTING"
HeldByChunk == [w \in Job \X Span |-> got[w[1]][w[2]]]

LEMMA JobInitChunks == ASSUME Init PROVE Chunks!ChunksInit
<1>1. Chunks!WriterInit
  BY DEF Init, WriterInit, Chunks!WriterInit, NoBatch, NoSingle, Chunks!NoBatch, Chunks!NoSingle
<1>2. sold \in SUBSET Sale
  BY SyncAssumption DEF Init
<1>3. ~ SeenCollecting
  BY DEF Init, NoJob, SeenCollecting
<1>4. HeldByChunk = [w \in Job \X Span |-> {}]
  BY DEF Init, HeldByChunk
<1> QED
  BY <1>1, <1>2, <1>3, <1>4 DEF Chunks!ChunksInit, SeenCollecting, HeldByChunk

(* An answer that comes a second time changes nothing.                     *)
LEMMA AnswerHeld ==
  ASSUME JobInv, NEW j \in Job, NEW r \in Span, Answers(j, r)
  PROVE  \/ HeldByChunk' = HeldByChunk
         \/ /\ HeldByChunk[<<j, r>>] = {}
            /\ HeldByChunk' = [HeldByChunk EXCEPT ![<<j, r>>] = DatesOfChunk[<<j, r>>] \cap sold]
<1>1. got \in [Job -> [Span -> SUBSET Sale]] /\ got[j][r] \in {{}, SoldIn[r] \cap sold}
  BY DEF JobInv, RestTypeOK, Answered
<1>2. \A w \in Job \X Span :
        got'[w[1]][w[2]] = IF w = <<j, r>> THEN SoldIn[r] \cap sold ELSE got[w[1]][w[2]]
  BY <1>1 DEF Answers
<1>3. DatesOfChunk[<<j, r>>] = SoldIn[r] /\ HeldByChunk[<<j, r>>] = got[j][r]
  BY DEF DatesOfChunk, HeldByChunk
<1>4. CASE got[j][r] = {}
  <2>1. HeldByChunk' = [HeldByChunk EXCEPT ![<<j, r>>] = SoldIn[r] \cap sold]
    BY <1>2 DEF HeldByChunk
  <2> QED
    BY <1>3, <1>4, <2>1
<1>5. CASE got[j][r] = SoldIn[r] \cap sold
  <2>1. ASSUME NEW w \in Job \X Span PROVE got'[w[1]][w[2]] = got[w[1]][w[2]]
    <3>1. CASE w = <<j, r>>
      <4>1. got'[w[1]][w[2]] = SoldIn[r] \cap sold
        BY <1>2, <3>1
      <4>2. w[1] = j /\ w[2] = r
        BY <3>1
      <4> QED
        BY <1>5, <4>1, <4>2
    <3>2. CASE w # <<j, r>>
      BY <1>2, <3>2
    <3> QED
      BY <3>1, <3>2
  <2>2. HeldByChunk' = HeldByChunk
    BY <2>1, Zenon DEF HeldByChunk
  <2> QED
    BY <2>2
<1> QED
  BY <1>1, <1>4, <1>5

(* What others see, in the variables of ChunkedImport.                     *)
seenVars == <<Chunks!writerVars, sold, Chunks!chunkVars>>

LEMMA SeenUnchanged ==
  ASSUME UNCHANGED <<writerVars, sold>>, SeenCollecting' = SeenCollecting,
         HeldByChunk' = HeldByChunk
  PROVE  UNCHANGED seenVars
BY DEF seenVars, writerVars, Chunks!writerVars, Chunks!chunkVars, SeenCollecting, HeldByChunk

(* A chunk's writer makes its statements on the transactions it holds.     *)
LEMMA WritesIsChunk ==
  ASSUME JobInv, NEW j \in Job, NEW r \in Span, Writes(j, r)
  PROVE  Chunks!ChunksNext
<1> USE DEF NoBatch, Chunks!NoBatch, Chunks!AddLines, AddLines, Chunks!InHand, InHand
<1>1. <<j, r>> \in Job \X Span /\ HeldByChunk[<<j, r>>] = got[j][r]
  BY DEF HeldByChunk
<1>2. UNCHANGED Chunks!chunkVars /\ UNCHANGED sold
  BY DEF Writes, Chunks!chunkVars
<1>3. CASE ReadKnown(<<j, r>>, got[j][r])
  <2>1. Chunks!ReadKnown(<<j, r>>, HeldByChunk[<<j, r>>])
    BY <1>1, <1>3 DEF ReadKnown, Chunks!ReadKnown
  <2> QED
    BY <1>1, <1>2, <2>1 DEF Chunks!ChunksNext, Chunks!ChunkBegins, HeldByChunk
<1>4. CASE CreateRows(<<j, r>>) \/ ReadBare(<<j, r>>) \/ InsertLines(<<j, r>>)
  <2>1. Chunks!CreateRows(<<j, r>>) \/ Chunks!ReadBare(<<j, r>>) \/ Chunks!InsertLines(<<j, r>>)
    BY <1>4 DEF CreateRows, ReadBare, InsertLines,
       Chunks!CreateRows, Chunks!ReadBare, Chunks!InsertLines
  <2> QED
    BY <1>1, <1>2, <2>1 DEF Chunks!ChunksNext, Chunks!ChunkGoesOn
<1>5. CASE DropBatch(<<j, r>>)
  <2>1. Chunks!DropBatch(<<j, r>>)
    BY <1>5 DEF DropBatch, Chunks!DropBatch
  <2> QED
    BY <1>1, <1>2, <2>1 DEF Chunks!ChunksNext, Chunks!ChunkDropped
<1> QED
  BY <1>3, <1>4, <1>5 DEF Writes

LEMMA JobStepChunks ==
  ASSUME JobInv, [Next]_vars
  PROVE  [Chunks!ChunksNext]_seenVars
<1>1. CASE Idles
  <2>1. HeldByChunk' = HeldByChunk
    BY <1>1 DEF Idles, HeldByChunk
  <2>2. SeenCollecting' = SeenCollecting \/ SeenCollecting' = ~ SeenCollecting
    BY DEF SeenCollecting
  <2>3. CASE SeenCollecting' = SeenCollecting
    BY <1>1, <2>1, <2>3, SeenUnchanged DEF Idles
  <2>4. CASE SeenCollecting' = ~ SeenCollecting
    <3>1. Chunks!CollectingTurns
      BY <1>1, <2>1, <2>4 DEF Idles, Chunks!CollectingTurns, SeenCollecting, HeldByChunk,
         writerVars, Chunks!writerVars
    <3> QED
      BY <3>1 DEF Chunks!ChunksNext
  <2> QED
    BY <2>2, <2>3, <2>4
<1>2. CASE Dies
  <2>1. Chunks!ProcessDies
    BY <1>2 DEF Dies, Chunks!ProcessDies, DropAll, Chunks!DropAll, NoBatch, NoSingle,
       Chunks!NoBatch, Chunks!NoSingle, Chunks!chunkVars
  <2> QED
    BY <2>1 DEF Chunks!ChunksNext
<1>3. ASSUME NEW j \in Job, NEW r \in Span, Answers(j, r)
      PROVE  [Chunks!ChunksNext]_seenVars
  <2>1. SeenCollecting' = SeenCollecting
    BY <1>3 DEF Answers, SeenCollecting
  <2>2. CASE HeldByChunk' = HeldByChunk
    BY <1>3, <2>1, <2>2, SeenUnchanged DEF Answers
  <2>3. CASE /\ HeldByChunk[<<j, r>>] = {}
             /\ HeldByChunk' = [HeldByChunk EXCEPT ![<<j, r>>] = DatesOfChunk[<<j, r>>] \cap sold]
    <3>1. Chunks!ChunkAnswered(<<j, r>>)
      BY <1>3, <2>1, <2>3 DEF Answers, Chunks!ChunkAnswered, SeenCollecting, HeldByChunk,
         DatesOfChunk, writerVars, Chunks!writerVars
    <3>2. <<j, r>> \in Job \X Span
      OBVIOUS
    <3> QED
      BY <3>1, <3>2 DEF Chunks!ChunksNext
  <2> QED
    BY <1>3, <2>2, <2>3, AnswerHeld
<1>4. ASSUME NEW j \in Job, NEW r \in Span, Writes(j, r)
      PROVE  [Chunks!ChunksNext]_seenVars
  BY <1>4, WritesIsChunk
<1> QED
  BY <1>1, <1>2, <1>3, <1>4, StepKinds

(* Whatever the two workers of a job do, and whoever cancels, deletes or   *)
(* kills it, other writers see only what ChunkedImport allows.             *)
THEOREM JobImplementsChunks == Spec => WritesAnswersOnly
<1>1. Spec => []JobInv
  BY JobInitInv, JobStepInv, PTL DEF Spec
<1>2. Init => Chunks!ChunksInit
  BY JobInitChunks
<1>3. JobInv /\ [Next]_vars => [Chunks!ChunksNext]_<<Chunks!writerVars, sold, Chunks!chunkVars>>
  BY JobStepChunks DEF seenVars
<1> QED
  BY <1>1, <1>2, <1>3, PTL DEF Spec, WritesAnswersOnly, Chunks!ChunksSpec

------------------------------------------------------------------------------
(* Why a COMPLETED job is complete.  The facts of one job, part by part.   *)

(* A range has its chunk, or has ended without one.                        *)
Past == {"count", "over", "failed"}

(* The statuses a job never comes back from to be collected.               *)
Lost == {"CANCELLED", "FAILED", "deleted"}

Asleep(j) == \A r \in Span : node[j][r] = "none"

(* The ranges the bisection has reached and not cut.                       *)
Front(j) == {r \in Span : node[j][r] # "none" /\ \A q \in Halves[r] : node[j][q] = "none"}

(* The chunks the counters of the row have seen, or could have.            *)
Counted(j) == {r \in Span : chunk[j][r] # "none" /\ node[j][r] = "over"}
Finished(j) == {r \in Span : chunk[j][r] = "DONE" /\ task[j][r] \notin {"count", "fail"}}

Whole(j) == Tiles(Saved(j)) /\ \A r \in Saved(j) : chunk[j][r] = "DONE"
WithLines == {x \in row : lines[x] > 0}

(* What the workers of the job are about.                                  *)
Life(j) ==
  /\ start[j] \in {"idle", "create"} <=> job[j].status = "none"
  /\ start[j] \in {"idle", "create"} <=> watch[j] = "idle"
  /\ start[j] \in {"idle", "create", "begin"} => Asleep(j)
  /\ start[j] = "fetch" => node[j][Root] # "none"
  /\ job[j].collectDone => start[j] = "over" /\ Fetching(j) = {}

(* The uncut ranges tile the range of the job; one that is over has its    *)
(* chunk, or the job is lost.                                              *)
Tree(j) ==
  /\ \A r \in Span : \A q \in Halves[r] :
       node[j][q] # "none" => node[j][r] = "over" /\ chunk[j][r] = "none"
  /\ start[j] = "fetch" => Tiles(Front(j))
  /\ start[j] = "fetch" /\ job[j].status \notin Lost =>
       \A r \in Front(j) : node[j][r] = "over" => chunk[j][r] # "none"

(* The status of a chunk follows its collector, then its inserter.         *)
Cells(j) ==
  /\ \A r \in Span : chunk[j][r] # "none" =>
       /\ Exists(j) /\ start[j] # "begin"
       /\ node[j][r] \in Past \/ (Asleep(j) /\ watch[j] = "over")
  /\ \A r \in Span : node[j][r] = "count" /\ Exists(j) => chunk[j][r] # "none"
  /\ \A r \in Span : task[j][r] # "none" => watch[j] = "process" /\ node[j][r] \in Past
  /\ Exists(j) => \A r \in Span :
       /\ task[j][r] = "claim" => chunk[j][r] = "PENDING"
       /\ task[j][r] \in {"insert", "done"} => chunk[j][r] = "PROCESSING"
       /\ task[j][r] = "count" => chunk[j][r] = "DONE"

(* Once collected, no chunk is left out of the total, and none is counted  *)
(* as processed before it is done.                                         *)
Counters(j) ==
  /\ start[j] = "fetch" => Cardinality(Counted(j)) <= job[j].total
  /\ job[j].collectDone => Cardinality(Saved(j)) <= job[j].total
  /\ job[j].processed <= Cardinality(Finished(j))

(* A batch writes the answer of its chunk, and a done chunk is written.    *)
Batches(j) == \A r \in Span :
  LET b == batch[<<j, r>>] IN
  /\ b.step # "off" => task[j][r] = "insert" /\ b.page = got[j][r]
  /\ b.step = "rows" => b.page \subseteq row \cup b.todo
  /\ b.step \in {"bare", "lines"} => b.page \subseteq row
  /\ b.step = "lines" => b.page \subseteq b.todo \cup WithLines
Written(j) == \A r \in Span :
  chunk[j][r] = "DONE" \/ task[j][r] \in {"done", "count"} => got[j][r] \subseteq WithLines

(* The verdict, and what it is worth when it is written.                   *)
Ends(j) ==
  /\ job[j].collectDone /\ job[j].status \notin Lost => Tiles(Saved(j))
  /\ watch[j] = "complete" /\ Exists(j) => job[j].collectDone /\ Whole(j)
  /\ job[j].status = "COMPLETED" => job[j].collectDone /\ watch[j] = "over" /\ Whole(j)

Facts(j) ==
  Life(j) /\ Tree(j) /\ Cells(j) /\ Counters(j) /\ Batches(j) /\ Written(j) /\ Ends(j)

------------------------------------------------------------------------------
(* The steps of a job leave the others alone, and no row or line is lost.  *)

JobStep(j) == Console(j) \/ Collect(j) \/ Insert(j) \/ \E r \in Span : Process(j, r)

SameJob(i) ==
  /\ UNCHANGED <<job[i], chunk[i], start[i], node[i], got[i], watch[i], task[i]>>
  /\ \A r \in Span : batch'[<<i, r>>] = batch[<<i, r>>]

LEMMA NothingUnwritten ==
  ASSUME JobInv, [Next]_vars
  PROVE  row \subseteq row' /\ WithLines \subseteq WithLines'
<1>1. CASE Idles
  BY <1>1 DEF Idles, writerVars, WithLines
<1>2. CASE Dies
  BY <1>2 DEF Dies, DropAll, WithLines
<1>3. ASSUME NEW j \in Job, NEW r \in Span, Answers(j, r)
      PROVE  row \subseteq row' /\ WithLines \subseteq WithLines'
  BY <1>3 DEF Answers, writerVars, WithLines
<1>4. ASSUME NEW j \in Job, NEW r \in Span, Writes(j, r)
      PROVE  row \subseteq row' /\ WithLines \subseteq WithLines'
  <2>1. row \subseteq Sale /\ lines \in [Sale -> Nat]
    BY DEF JobInv, WriterInv, WriterTypeOK
  <2>2. \A x \in Sale : lines'[x] >= lines[x]
    BY <1>4, <2>1 DEF Writes, ReadKnown, CreateRows, ReadBare, InsertLines, DropBatch, AddLines
  <2>3. row \subseteq row'
    BY <1>4 DEF Writes, ReadKnown, CreateRows, ReadBare, InsertLines, DropBatch
  <2>4. ASSUME NEW x \in WithLines PROVE x \in WithLines'
    <3>1. x \in row /\ x \in Sale /\ lines[x] > 0 /\ lines[x] \in Nat
      BY <2>1 DEF WithLines
    <3>2. lines'[x] >= lines[x] /\ lines'[x] \in Nat
      BY <1>4, <2>1, <2>2, <3>1 DEF Writes, ReadKnown, CreateRows, ReadBare, InsertLines, DropBatch, AddLines
    <3> QED
      BY <2>3, <3>1, <3>2 DEF WithLines
  <2> QED
    BY <2>3, <2>4
<1> QED
  BY <1>1, <1>2, <1>3, <1>4, StepKinds

LEMMA OthersStay ==
  ASSUME JobInv, NEW j \in Job, NEW i \in Job \ {j}, JobStep(j)
  PROVE  SameJob(i)
<1> USE DEF rowVars, collectVars, insertVars, boundVars, writerVars, SameJob
<1> USE DEF Starts, Node, Watch, Task, SetStatus
<1>0. RestTypeOK /\ batch \in [Writer -> Batch] /\ \A k \in Job, r \in Span : <<k, r>> \in Writer
  BY SyncAssumption DEF JobInv, WriterInv, WriterTypeOK
<1>1. CASE Console(j)
  BY <1>0, <1>1 DEF Console, CheckRunning, CreateJob, CancelRead, CancelWrite, DeleteJob, RestTypeOK
<1>2. CASE CollectBegin(j) \/ CollectDone(j) \/ CollectRejected(j) \/ CollectFail(j)
  BY <1>0, <1>2 DEF CollectBegin, CollectDone, CollectRejected, CollectFail, RestTypeOK
<1>3. ASSUME NEW r \in Span, Check(j, r) \/ AcquireSlot(j, r) \/ Answer(j, r)
      PROVE  SameJob(i)
  BY <1>0, <1>3 DEF Check, AcquireSlot, Answer, RestTypeOK
<1>4. ASSUME NEW r \in Span, CreateChunk(j, r) \/ CountChunk(j, r)
      PROVE  SameJob(i)
  BY <1>0, <1>4 DEF CreateChunk, CountChunk, RestTypeOK
<1>5. CASE Insert(j)
  BY <1>0, <1>5 DEF Insert, Take, RoundOver, ReadJob, Complete, CountFailures, GiveUp, Fatal, RestTypeOK
<1>6. ASSUME NEW r \in Span, Claim(j, r) \/ ChunkDone(j, r) \/ ChunkCounted(j, r) \/ ChunkFailed(j, r)
      PROVE  SameJob(i)
  BY <1>0, <1>6 DEF Claim, ChunkDone, ChunkCounted, ChunkFailed, RestTypeOK
<1>7. ASSUME NEW r \in Span,
             InsertBegin(j, r) \/ InsertGoesOn(j, r) \/ InsertEnds(j, r) \/ InsertThrows(j, r)
      PROVE  SameJob(i)
  <2>1. UNCHANGED <<job[i], chunk[i], start[i], node[i], got[i], watch[i], task[i]>>
    BY <1>0, <1>7 DEF InsertBegin, InsertGoesOn, InsertEnds, InsertThrows, RestTypeOK
  <2>2. \A q \in Span : <<i, q>> # <<j, r>>
    OBVIOUS
  <2>3. \A q \in Span : batch'[<<i, q>>] = batch[<<i, q>>]
    BY <1>0, <1>7, <2>2 DEF InsertBegin, InsertGoesOn, InsertEnds, InsertThrows,
       ReadKnown, CreateRows, ReadBare, InsertLines, DropBatch
  <2> QED
    BY <2>1, <2>3
<1> QED
  BY <1>1, <1>2, <1>3, <1>4, <1>5, <1>6, <1>7 DEF JobStep, Collect, Process

LEMMA SameKeeps ==
  ASSUME NEW i \in Job, Facts(i), SameJob(i), row \subseteq row', WithLines \subseteq WithLines'
  PROVE  Facts(i)'
<1> USE DEF SameJob, Exists
<1>1. Life(i)'
  BY DEF Facts, Life, Asleep, Fetching
<1>2. Tree(i)'
  BY DEF Facts, Tree, Front, Tiles
<1>3. Cells(i)'
  BY DEF Facts, Cells, Asleep
<1>4. Counters(i)'
  BY DEF Facts, Counters, Counted, Saved, Finished
<1>5. Batches(i)' /\ Written(i)'
  BY DEF Facts, Batches, Written
<1>6. Ends(i)'
  BY DEF Facts, Ends, Whole, Tiles, Saved
<1> QED
  BY <1>1, <1>2, <1>3, <1>4, <1>5, <1>6 DEF Facts
------------------------------------------------------------------------------
(* What each update leaves in the cells of its job.                        *)

RowIs(j, status, done, total, processed) ==
  /\ job'[j].status = status /\ job'[j].collectDone = done
  /\ job'[j].total = total /\ job'[j].processed = processed

LEMMA RowChanges ==
  ASSUME RestTypeOK, NEW j \in Job
  PROVE  /\ job' = job => RowIs(j, job[j].status, job[j].collectDone, job[j].total, job[j].processed)
         /\ \A s : SetStatus(j, s) =>
              RowIs(j, s, job[j].collectDone, job[j].total, job[j].processed)
         /\ job' = [job EXCEPT ![j].total = @ + 1] =>
              RowIs(j, job[j].status, job[j].collectDone, job[j].total + 1, job[j].processed)
         /\ job' = [job EXCEPT ![j].processed = @ + 1] =>
              RowIs(j, job[j].status, job[j].collectDone, job[j].total, job[j].processed + 1)
         /\ job' = [job EXCEPT ![j].collectDone = TRUE] =>
              RowIs(j, job[j].status, TRUE, job[j].total, job[j].processed)
         /\ job' = [job EXCEPT ![j] = [NoJob EXCEPT !.status = "deleted"]] =>
              RowIs(j, "deleted", FALSE, 0, 0)
<1>1. job \in [Job -> JobRow] /\ job[j] \in JobRow
  BY DEF RestTypeOK
<1>2. ASSUME NEW s, SetStatus(j, s)
      PROVE  RowIs(j, s, job[j].collectDone, job[j].total, job[j].processed)
  BY <1>1, <1>2 DEF SetStatus, RowIs, JobRow
<1>5. job' = [job EXCEPT ![j].collectDone = TRUE] =>
        RowIs(j, job[j].status, TRUE, job[j].total, job[j].processed)
  BY <1>1 DEF RowIs, JobRow
<1>6. job' = [job EXCEPT ![j] = [NoJob EXCEPT !.status = "deleted"]] => RowIs(j, "deleted", FALSE, 0, 0)
  BY <1>1 DEF RowIs, NoJob
<1>7. job' = job => RowIs(j, job[j].status, job[j].collectDone, job[j].total, job[j].processed)
  BY DEF RowIs
<1>8. job' = [job EXCEPT ![j].total = @ + 1] =>
        RowIs(j, job[j].status, job[j].collectDone, job[j].total + 1, job[j].processed)
  BY <1>1 DEF RowIs, JobRow
<1>9. job' = [job EXCEPT ![j].processed = @ + 1] =>
        RowIs(j, job[j].status, job[j].collectDone, job[j].total, job[j].processed + 1)
  BY <1>1 DEF RowIs, JobRow
<1> QED
  BY <1>2, <1>5, <1>6, <1>7, <1>8, <1>9

LEMMA CellChanges ==
  ASSUME RestTypeOK, NEW j \in Job, NEW r \in Span
  PROVE  /\ \A pc : Node(j, r, pc) =>
              node'[j][r] = pc /\ \A q \in Span \ {r} : node'[j][q] = node[j][q]
         /\ \A pc : Task(j, r, pc) =>
              task'[j][r] = pc /\ \A q \in Span \ {r} : task'[j][q] = task[j][q]
         /\ \A s : chunk' = [chunk EXCEPT ![j][r] = s] =>
              chunk'[j][r] = s /\ \A q \in Span \ {r} : chunk'[j][q] = chunk[j][q]
BY DEF RestTypeOK, Node, Task

LEMMA TurnChanges ==
  ASSUME RestTypeOK, NEW j \in Job
  PROVE  /\ \A pc : Starts(j, pc) => start'[j] = pc
         /\ \A pc : Watch(j, pc) => watch'[j] = pc
BY DEF RestTypeOK, Starts, Watch

------------------------------------------------------------------------------
(* The steps of a job, cell by cell.                                       *)

StatusTo(j, s) == RowIs(j, s, job[j].collectDone, job[j].total, job[j].processed)
SameRow(j) == StatusTo(j, job[j].status)
SameChunks(j) == \A q \in Span : chunk'[j][q] = chunk[j][q]
SameNodes(j) == \A q \in Span : node'[j][q] = node[j][q] /\ got'[j][q] = got[j][q]
SameTasks(j) == \A q \in Span : task'[j][q] = task[j][q]
SameBatches(j) == \A q \in Span : batch'[<<j, q>>] = batch[<<j, q>>]
ChunkTo(j, r, s) == chunk'[j][r] = s /\ \A q \in Span \ {r} : chunk'[j][q] = chunk[j][q]
NodeTo(j, r, pc) == node'[j][r] = pc /\ \A q \in Span \ {r} : node'[j][q] = node[j][q]
SameGot(j) == \A q \in Span : got'[j][q] = got[j][q]
TaskTo(j, r, pc) == task'[j][r] = pc /\ \A q \in Span \ {r} : task'[j][q] = task[j][q]

Creates(j) ==
  /\ start[j] = "create" /\ start'[j] = "begin" /\ watch'[j] = "take"
  /\ StatusTo(j, "PENDING") /\ SameChunks(j)
Cancels(j) ==
  /\ Exists(j) /\ StatusTo(j, "CANCELLED") /\ UNCHANGED <<start[j], watch[j]>> /\ SameChunks(j)
Deletes(j) ==
  /\ Exists(j) /\ RowIs(j, "deleted", FALSE, 0, 0) /\ UNCHANGED <<start[j], watch[j]>>
  /\ \A q \in Span : chunk'[j][q] = "none"
Looks(j) ==
  /\ SameRow(j) /\ SameChunks(j) /\ UNCHANGED watch[j]
  /\ start'[j] = start[j] \/ (start[j] = "idle" /\ start'[j] = "create")

ConsoleMoves(j) ==
  /\ SameNodes(j) /\ SameTasks(j) /\ SameBatches(j)
  /\ Looks(j) \/ Creates(j) \/ Cancels(j) \/ Deletes(j)

Begins(j) ==
  /\ start[j] = "begin" /\ start'[j] = "fetch" /\ Exists(j) /\ StatusTo(j, "COLLECTING")
  /\ NodeTo(j, Root, "check") /\ SameGot(j)
Collects(j) ==
  /\ start[j] = "fetch" /\ start'[j] = "over" /\ Fetching(j) = {} /\ Failed(j) = {} /\ Exists(j)
  /\ RowIs(j, job[j].status, TRUE, job[j].total, job[j].processed) /\ SameNodes(j)
Stops(j) ==
  /\ start[j] \in {"begin", "fetch", "fail"} /\ start'[j] \in {"fail", "over"}
  /\ SameRow(j) \/ (Exists(j) /\ StatusTo(j, "FAILED"))
  /\ SameNodes(j)

CollectMoves(j) ==
  /\ SameTasks(j) /\ SameBatches(j) /\ SameChunks(j) /\ UNCHANGED watch[j]
  /\ Begins(j) \/ Collects(j) \/ Stops(j)

Goes(j, r) ==
  /\ SameRow(j) /\ SameChunks(j) /\ SameGot(j)
  /\ \/ node[j][r] = "check" /\ job[j].status = "CANCELLED" /\ NodeTo(j, r, "over")
     \/ node[j][r] = "check" /\ NodeTo(j, r, "slot")
     \/ node[j][r] = "slot" /\ NodeTo(j, r, "call")
     \/ node[j][r] \in {"check", "call", "chunk", "count"} /\ NodeTo(j, r, "failed")
IsAnswered(j, r) ==
  /\ node[j][r] = "call" /\ NodeTo(j, r, "chunk") /\ SameRow(j) /\ SameChunks(j)
  /\ \A q \in Span \ {r} : got'[j][q] = got[j][q]
Cuts(j, r) ==
  /\ node[j][r] = "call" /\ Halves[r] # {} /\ SameRow(j) /\ SameChunks(j) /\ SameGot(j)
  /\ \A q \in Span :
       node'[j][q] = IF q = r THEN "over" ELSE IF q \in Halves[r] THEN "check" ELSE node[j][q]
Saves(j, r) ==
  /\ node[j][r] = "chunk" /\ NodeTo(j, r, "count") /\ Exists(j)
  /\ ChunkTo(j, r, "PENDING") /\ SameRow(j) /\ SameGot(j)
Counts(j, r) ==
  /\ node[j][r] = "count" /\ NodeTo(j, r, "over") /\ Exists(j)
  /\ RowIs(j, job[j].status, job[j].collectDone, job[j].total + 1, job[j].processed)
  /\ SameChunks(j) /\ SameGot(j)

FetchMoves(j, r) ==
  /\ SameTasks(j) /\ SameBatches(j) /\ UNCHANGED <<start[j], watch[j]>>
  /\ Goes(j, r) \/ IsAnswered(j, r) \/ Cuts(j, r) \/ Saves(j, r) \/ Counts(j, r)

Takes(j) ==
  /\ watch[j] = "take" /\ watch'[j] = "process" /\ SameRow(j)
  /\ \A q \in Span : \/ task'[j][q] = "none"
                     \/ task'[j][q] = "claim" /\ chunk[j][q] = "PENDING"
Watches(j) ==
  /\ SameRow(j) /\ SameTasks(j) /\ watch[j] \notin {"idle", "over"} /\ watch'[j] \notin {"idle", "process"}
  /\ watch[j] = "process" => \A q \in Span : task[j][q] = "none"
  /\ watch'[j] = "complete" => /\ watch[j] = "read" /\ job[j].status \notin Lost
                               /\ job[j].collectDone /\ job[j].processed >= job[j].total
Completes(j) ==
  /\ watch[j] = "complete" /\ watch'[j] = "over" /\ Exists(j) /\ StatusTo(j, "COMPLETED")
  /\ SameTasks(j)
Fails(j) ==
  /\ watch[j] \in {"giveUp", "fatal"} /\ watch'[j] = "over" /\ Exists(j) /\ StatusTo(j, "FAILED")
  /\ SameTasks(j)

InsertMoves(j) ==
  /\ SameNodes(j) /\ SameChunks(j) /\ SameBatches(j) /\ UNCHANGED start[j]
  /\ Takes(j) \/ Watches(j) \/ Completes(j) \/ Fails(j)

Claims(j, r) ==
  /\ task[j][r] = "claim" /\ chunk[j][r] = "PENDING"
  /\ ChunkTo(j, r, "PROCESSING") /\ TaskTo(j, r, "insert") /\ SameRow(j)
Leaves(j, r) ==
  /\ SameRow(j) /\ SameChunks(j)
  /\ \/ task[j][r] = "claim" /\ chunk[j][r] # "PENDING" /\ TaskTo(j, r, "none")
     \/ task[j][r] \in {"claim", "done", "count"} /\ TaskTo(j, r, "fail")
     \/ task[j][r] = "insert" /\ batch[<<j, r>>].step = "off" /\ TaskTo(j, r, "fail")
     \/ task[j][r] = "fail" /\ TaskTo(j, r, "none")
MarksFailed(j, r) ==
  /\ task[j][r] = "fail" /\ chunk[j][r] # "none"
  /\ ChunkTo(j, r, "FAILED") /\ TaskTo(j, r, "none") /\ SameRow(j)
MarksDone(j, r) ==
  /\ task[j][r] = "done" /\ chunk[j][r] # "none"
  /\ ChunkTo(j, r, "DONE") /\ TaskTo(j, r, "count") /\ SameRow(j)
CountsDone(j, r) ==
  /\ task[j][r] = "count" /\ TaskTo(j, r, "none") /\ Exists(j) /\ SameChunks(j)
  /\ RowIs(j, job[j].status, job[j].collectDone, job[j].total, job[j].processed + 1)

WriteMoves(j, r) ==
  /\ SameRow(j) /\ SameChunks(j)
  /\ \/ task[j][r] = "insert" /\ ReadKnown(<<j, r>>, got[j][r]) /\ SameTasks(j)
     \/ (CreateRows(<<j, r>>) \/ ReadBare(<<j, r>>)) /\ SameTasks(j)
     \/ InsertLines(<<j, r>>) /\ TaskTo(j, r, "done")
     \/ DropBatch(<<j, r>>) /\ TaskTo(j, r, "fail")

ProcessMoves(j, r) ==
  /\ SameNodes(j) /\ UNCHANGED <<start[j], watch[j]>>
  /\ \/ WriteMoves(j, r)
     \/ /\ SameBatches(j)
        /\ \/ Claims(j, r) \/ Leaves(j, r) \/ MarksFailed(j, r)
           \/ MarksDone(j, r) \/ CountsDone(j, r)

LEMMA SameCells ==
  ASSUME NEW j \in Job
  PROVE  /\ UNCHANGED job => SameRow(j)
         /\ UNCHANGED chunk => SameChunks(j)
         /\ UNCHANGED <<node, got>> => SameNodes(j)
         /\ UNCHANGED got => SameGot(j)
         /\ UNCHANGED task => SameTasks(j)
         /\ UNCHANGED writerVars => SameBatches(j)
BY DEF SameRow, StatusTo, RowIs, SameChunks, SameNodes, SameGot, SameTasks, SameBatches, writerVars

LEMMA ConsoleKinds ==
  ASSUME RestTypeOK, NEW j \in Job, Console(j)
  PROVE  ConsoleMoves(j)
<1> USE DEF rowVars, collectVars, insertVars
<1>0. SameNodes(j) /\ SameTasks(j) /\ SameBatches(j)
  BY SameCells DEF Console, CheckRunning, CreateJob, CancelRead, CancelWrite, DeleteJob
<1>1. CASE CheckRunning(j) \/ CancelRead(j)
  <2>1. /\ UNCHANGED <<job, chunk, watch>>
        /\ start' = start \/ (start[j] = "idle" /\ Starts(j, "create"))
    BY <1>1 DEF CheckRunning, CancelRead
  <2>2. start'[j] = start[j] \/ (start[j] = "idle" /\ start'[j] = "create")
    BY <2>1, TurnChanges, Zenon
  <2>3. Looks(j)
    BY <2>1, <2>2, SameCells DEF Looks
  <2> QED
    BY <1>0, <2>3 DEF ConsoleMoves
<1>2. CASE CreateJob(j)
  <2>1. /\ start[j] = "create" /\ Starts(j, "begin") /\ Watch(j, "take")
        /\ SetStatus(j, "PENDING") /\ UNCHANGED chunk
    BY <1>2 DEF CreateJob
  <2>2. start'[j] = "begin" /\ watch'[j] = "take" /\ StatusTo(j, "PENDING")
    BY <2>1, TurnChanges, RowChanges, Zenon DEF StatusTo
  <2>3. Creates(j)
    BY <2>1, <2>2, SameCells DEF Creates
  <2> QED
    BY <1>0, <2>3 DEF ConsoleMoves
<1>3. CASE CancelWrite(j)
  <2>1. UNCHANGED <<start, watch, chunk>> /\ (job' = job \/ (Exists(j) /\ SetStatus(j, "CANCELLED")))
    BY <1>3 DEF CancelWrite
  <2>2. SameRow(j) \/ (Exists(j) /\ StatusTo(j, "CANCELLED"))
    BY <2>1, SameCells, RowChanges, Zenon DEF StatusTo
  <2>3. Looks(j) \/ Cancels(j)
    BY <2>1, <2>2, SameCells DEF Looks, Cancels
  <2> QED
    BY <1>0, <2>3 DEF ConsoleMoves
<1>4. CASE DeleteJob(j)
  <2>1. RowIs(j, "deleted", FALSE, 0, 0)
    BY <1>4, RowChanges DEF DeleteJob
  <2>2. \A q \in Span : chunk'[j][q] = "none"
    BY <1>4 DEF DeleteJob, RestTypeOK
  <2>3. Deletes(j)
    BY <1>4, <2>1, <2>2 DEF DeleteJob, Deletes
  <2> QED
    BY <1>0, <2>3 DEF ConsoleMoves
<1> QED
  BY <1>1, <1>2, <1>3, <1>4 DEF Console

LEMMA CollectKinds ==
  ASSUME RestTypeOK, NEW j \in Job,
         CollectBegin(j) \/ CollectDone(j) \/ CollectRejected(j) \/ CollectFail(j)
  PROVE  CollectMoves(j)
<1> USE DEF rowVars, collectVars, insertVars
<1>0. SameTasks(j) /\ SameBatches(j) /\ SameChunks(j) /\ UNCHANGED watch[j]
  BY SameCells DEF CollectBegin, CollectDone, CollectRejected, CollectFail
<1>1. Begins(j) \/ Collects(j) \/ Stops(j)
  <2>1. CASE /\ start[j] = "begin" /\ Exists(j) /\ SetStatus(j, "COLLECTING") /\ Starts(j, "fetch")
             /\ Node(j, Root, "check") /\ UNCHANGED got
    <3>1. StatusTo(j, "COLLECTING")
      BY <2>1, RowChanges, Zenon DEF StatusTo
    <3>2. start'[j] = "fetch" /\ NodeTo(j, Root, "check") /\ SameGot(j)
      BY <2>1, SyncAssumption, CellChanges, TurnChanges, SameCells DEF NodeTo
    <3> QED
      BY <2>1, <3>1, <3>2 DEF Begins
  <2>2. CASE /\ start[j] = "fetch" /\ Fetching(j) = {} /\ Failed(j) = {} /\ Exists(j)
             /\ job' = [job EXCEPT ![j].collectDone = TRUE] /\ Starts(j, "over")
             /\ UNCHANGED <<node, got>>
    <3>1. RowIs(j, job[j].status, TRUE, job[j].total, job[j].processed)
      BY <2>2, RowChanges, Zenon
    <3>2. start'[j] = "over" /\ SameNodes(j)
      BY <2>2, TurnChanges, SameCells, Zenon
    <3> QED
      BY <2>2, <3>1, <3>2 DEF Collects
  <2>3. CASE /\ start[j] \in {"begin", "fetch", "fail"}
             /\ Starts(j, "fail") \/ Starts(j, "over")
             /\ UNCHANGED job \/ (Exists(j) /\ SetStatus(j, "FAILED"))
             /\ UNCHANGED <<node, got>>
    <3>1. SameRow(j) \/ (Exists(j) /\ StatusTo(j, "FAILED"))
      BY <2>3, SameCells, RowChanges, Zenon DEF StatusTo
    <3>2. start'[j] = "fail" \/ start'[j] = "over"
      BY <2>3, TurnChanges, Zenon
    <3>3. SameNodes(j)
      BY <2>3, SameCells
    <3> QED
      BY <2>3, <3>1, <3>2, <3>3 DEF Stops
  <2>4. CASE CollectBegin(j)
    BY <2>1, <2>3, <2>4 DEF CollectBegin
  <2>5. CASE CollectDone(j)
    BY <2>2, <2>3, <2>5 DEF CollectDone
  <2>6. CASE CollectRejected(j) \/ CollectFail(j)
    BY <2>3, <2>6 DEF CollectRejected, CollectFail
  <2> QED
    BY <2>4, <2>5, <2>6
<1> QED
  BY <1>0, <1>1 DEF CollectMoves

LEMMA FetchKinds ==
  ASSUME RestTypeOK, NEW j \in Job, NEW r \in Span,
         Check(j, r) \/ AcquireSlot(j, r) \/ Answer(j, r) \/ CreateChunk(j, r) \/ CountChunk(j, r)
  PROVE  FetchMoves(j, r)
<1> USE DEF rowVars, collectVars, insertVars
<1>0. SameTasks(j) /\ SameBatches(j) /\ UNCHANGED <<start[j], watch[j]>>
  BY SameCells DEF Check, AcquireSlot, Answer, CreateChunk, CountChunk
<1>1. \/ /\ node[j][r] = "check" /\ UNCHANGED <<job, chunk, got>>
         /\ Node(j, r, "slot") \/ Node(j, r, "failed")
              \/ (job[j].status = "CANCELLED" /\ Node(j, r, "over"))
      \/ /\ node[j][r] = "slot" /\ UNCHANGED <<job, chunk, got>> /\ Node(j, r, "call")
      \/ /\ node[j][r] \in {"call", "chunk", "count"} /\ UNCHANGED <<job, chunk, got>>
         /\ Node(j, r, "failed")
      \/ /\ node[j][r] = "call" /\ UNCHANGED <<job, chunk>> /\ Node(j, r, "chunk")
         /\ got' = [got EXCEPT ![j][r] = SoldOf(r)]
      \/ /\ node[j][r] = "call" /\ Halves[r] # {} /\ UNCHANGED <<job, chunk, got>>
         /\ node' = [node EXCEPT ![j] = [q \in Span |->
              IF q = r THEN "over" ELSE IF q \in Halves[r] THEN "check" ELSE node[j][q]]]
      \/ /\ node[j][r] = "chunk" /\ UNCHANGED <<job, got>> /\ Exists(j) /\ Node(j, r, "count")
         /\ chunk' = [chunk EXCEPT ![j][r] = "PENDING"]
      \/ /\ node[j][r] = "count" /\ UNCHANGED <<chunk, got>> /\ Exists(j) /\ Node(j, r, "over")
         /\ job' = [job EXCEPT ![j].total = @ + 1]
  BY DEF Check, AcquireSlot, Answer, CreateChunk, CountChunk
<1>2. /\ \A pc : Node(j, r, pc) => NodeTo(j, r, pc)
      /\ chunk' = [chunk EXCEPT ![j][r] = "PENDING"] => ChunkTo(j, r, "PENDING")
  BY CellChanges DEF NodeTo, ChunkTo
<1>3. CASE /\ UNCHANGED <<job, chunk, got>>
           /\ \/ /\ node[j][r] = "call" /\ Halves[r] # {}
                 /\ node' = [node EXCEPT ![j] = [q \in Span |->
                      IF q = r THEN "over" ELSE IF q \in Halves[r] THEN "check" ELSE node[j][q]]]
              \/ /\ node[j][r] = "check"
                 /\ Node(j, r, "slot") \/ Node(j, r, "failed")
                      \/ (job[j].status = "CANCELLED" /\ Node(j, r, "over"))
              \/ node[j][r] = "slot" /\ Node(j, r, "call")
              \/ node[j][r] \in {"call", "chunk", "count"} /\ Node(j, r, "failed")
  <2>1. SameRow(j) /\ SameChunks(j) /\ SameGot(j)
    BY <1>3, SameCells
  <2>2. node' = [node EXCEPT ![j] = [q \in Span |->
              IF q = r THEN "over" ELSE IF q \in Halves[r] THEN "check" ELSE node[j][q]]]
        => \A q \in Span : node'[j][q] =
              IF q = r THEN "over" ELSE IF q \in Halves[r] THEN "check" ELSE node[j][q]
    BY DEF RestTypeOK
  <2>3. CASE /\ node[j][r] = "call" /\ Halves[r] # {}
             /\ node' = [node EXCEPT ![j] = [q \in Span |->
                  IF q = r THEN "over" ELSE IF q \in Halves[r] THEN "check" ELSE node[j][q]]]
    BY <1>0, <2>1, <2>2, <2>3 DEF FetchMoves, Cuts
  <2>4. CASE \/ /\ node[j][r] = "check"
                /\ Node(j, r, "slot") \/ Node(j, r, "failed")
                     \/ (job[j].status = "CANCELLED" /\ Node(j, r, "over"))
             \/ node[j][r] = "slot" /\ Node(j, r, "call")
             \/ node[j][r] \in {"call", "chunk", "count"} /\ Node(j, r, "failed")
    <3>1. Goes(j, r)
      BY <1>2, <2>1, <2>4 DEF Goes
    <3> QED
      BY <1>0, <3>1 DEF FetchMoves
  <2> QED
    BY <1>3, <2>3, <2>4
<1>4. CASE /\ node[j][r] = "call" /\ UNCHANGED <<job, chunk>> /\ Node(j, r, "chunk")
           /\ got' = [got EXCEPT ![j][r] = SoldOf(r)]
  <2>1. \A q \in Span \ {r} : got'[j][q] = got[j][q]
    BY <1>4 DEF RestTypeOK
  <2>2. IsAnswered(j, r)
    BY <1>2, <1>4, <2>1, SameCells DEF IsAnswered
  <2> QED
    BY <1>0, <2>2 DEF FetchMoves
<1>5. CASE /\ node[j][r] = "chunk" /\ UNCHANGED <<job, got>> /\ Exists(j) /\ Node(j, r, "count")
           /\ chunk' = [chunk EXCEPT ![j][r] = "PENDING"]
  <2>1. Saves(j, r)
    BY <1>2, <1>5, SameCells DEF Saves
  <2> QED
    BY <1>0, <2>1 DEF FetchMoves
<1>6. CASE /\ node[j][r] = "count" /\ UNCHANGED <<chunk, got>> /\ Exists(j) /\ Node(j, r, "over")
           /\ job' = [job EXCEPT ![j].total = @ + 1]
  <2>1. RowIs(j, job[j].status, job[j].collectDone, job[j].total + 1, job[j].processed)
    BY <1>6, RowChanges
  <2>2. Counts(j, r)
    BY <1>2, <1>6, <2>1, SameCells DEF Counts
  <2> QED
    BY <1>0, <2>2 DEF FetchMoves
<1> QED
  BY <1>1, <1>3, <1>4, <1>5, <1>6

LEMMA InsertKinds ==
  ASSUME RestTypeOK, NEW j \in Job, Insert(j)
  PROVE  InsertMoves(j)
<1> USE DEF rowVars, collectVars, insertVars
<1>0. SameNodes(j) /\ SameChunks(j) /\ SameBatches(j) /\ UNCHANGED start[j]
  BY SameCells DEF Insert, Take, RoundOver, ReadJob, Complete, CountFailures, GiveUp, Fatal
<1>1. ASSUME NEW pc, Watch(j, pc), UNCHANGED <<job, task>>, watch[j] \notin {"idle", "over"},
             pc \notin {"idle", "process"}, watch[j] = "process" => \A q \in Span : task[j][q] = "none",
             pc = "complete" => /\ watch[j] = "read" /\ job[j].status \notin Lost
                                /\ job[j].collectDone /\ job[j].processed >= job[j].total
      PROVE  InsertMoves(j)
  <2>1. watch'[j] = pc
    BY <1>1, TurnChanges, Zenon
  <2>2. SameRow(j) /\ SameTasks(j)
    BY <1>1, SameCells
  <2>3. Watches(j)
    BY <1>1, <2>1, <2>2 DEF Watches
  <2> QED
    BY <1>0, <2>3 DEF InsertMoves
<1>2. ASSUME NEW s \in {"COMPLETED", "FAILED"}, Exists(j), SetStatus(j, s), Watch(j, "over"),
             UNCHANGED task,
             watch[j] = IF s = "COMPLETED" THEN "complete" ELSE watch[j],
             s = "FAILED" => watch[j] \in {"giveUp", "fatal"}
      PROVE  InsertMoves(j)
  <2>1. watch'[j] = "over" /\ StatusTo(j, s)
    BY <1>2, TurnChanges, RowChanges, Zenon DEF StatusTo
  <2>2. Completes(j) \/ Fails(j)
    BY <1>2, <2>1, SameCells DEF Completes, Fails
  <2> QED
    BY <1>0, <2>2 DEF InsertMoves
<1>3. CASE Take(j)
  <2>1. CASE Watch(j, "read") /\ UNCHANGED task
    BY <1>1, <1>3, <2>1 DEF Take
  <2>2. CASE Watch(j, "fatal") /\ UNCHANGED task
    BY <1>1, <1>3, <2>2 DEF Take
  <2>3. ASSUME NEW taken \in SUBSET PendingChunks(j), Watch(j, "process"),
               task' = [task EXCEPT ![j] = [r \in Span |-> IF r \in taken THEN "claim" ELSE "none"]]
        PROVE  InsertMoves(j)
    <3>1. watch'[j] = "process"
      BY <2>3, TurnChanges, Zenon
    <3>2. \A q \in Span : task'[j][q] = IF q \in taken THEN "claim" ELSE "none"
      BY <2>3 DEF RestTypeOK
    <3>3. \A q \in taken : chunk[j][q] = "PENDING"
      BY DEF PendingChunks
    <3>4. Takes(j)
      BY <1>3, <3>1, <3>2, <3>3, SameCells DEF Take, Takes
    <3> QED
      BY <1>0, <3>4 DEF InsertMoves
  <2> QED
    BY <1>3, <2>1, <2>2, <2>3 DEF Take
<1>4. CASE RoundOver(j)
  BY <1>1, <1>4 DEF RoundOver
<1>5. CASE ReadJob(j)
  <2>1. CASE Watch(j, "fatal")
    BY <1>1, <1>5, <2>1 DEF ReadJob
  <2>2. CASE Watch(j, Verdict(j))
    <3>1. Verdict(j) \in {"over", "complete", "failures", "take"}
      BY DEF Verdict
    <3>2. Verdict(j) = "complete" => /\ job[j].status \notin Lost
                                     /\ job[j].collectDone /\ job[j].processed >= job[j].total
      BY DEF Verdict, Exists, Lost
    <3> QED
      BY <1>1, <1>5, <2>2, <3>1, <3>2 DEF ReadJob
  <2> QED
    BY <1>5, <2>1, <2>2 DEF ReadJob
<1>6. CASE CountFailures(j)
  <2>1. PICK pc \in {"giveUp", "take", "fatal"} : Watch(j, pc)
    BY <1>6 DEF CountFailures
  <2> QED
    BY <1>1, <1>6, <2>1 DEF CountFailures
<1>7. CASE Complete(j)
  BY <1>1, <1>2, <1>7 DEF Complete
<1>8. CASE GiveUp(j)
  BY <1>1, <1>2, <1>8 DEF GiveUp
<1>9. CASE Fatal(j)
  BY <1>1, <1>2, <1>9 DEF Fatal
<1> QED
  BY <1>3, <1>4, <1>5, <1>6, <1>7, <1>8, <1>9 DEF Insert

LEMMA ProcessKinds ==
  ASSUME RestTypeOK, NEW j \in Job, NEW r \in Span, Process(j, r)
  PROVE  ProcessMoves(j, r)
<1> USE DEF rowVars, collectVars, insertVars
<1>0. SameNodes(j) /\ UNCHANGED <<start[j], watch[j]>>
  BY SameCells DEF Process, Claim, InsertBegin, InsertGoesOn, InsertEnds, InsertThrows, ChunkDone,
     ChunkCounted, ChunkFailed
<1>1. CASE Claim(j, r)
  <2>1. CASE chunk' = [chunk EXCEPT ![j][r] = "PROCESSING"] /\ Task(j, r, "insert") /\ chunk[j][r] = "PENDING"
    <3>0. TaskTo(j, r, "insert")
      BY <2>1, CellChanges, Zenon DEF TaskTo
    <3>1. ChunkTo(j, r, "PROCESSING")
      BY <2>1, CellChanges, Zenon DEF ChunkTo
    <3> QED
      BY <1>0, <1>1, <2>1, <3>0, <3>1, SameCells DEF Claim, Claims, ProcessMoves
  <2>2. CASE UNCHANGED chunk /\ (Task(j, r, "fail") \/ (chunk[j][r] # "PENDING" /\ Task(j, r, "none")))
    <3>0. \A pc : Task(j, r, pc) => TaskTo(j, r, pc)
      BY CellChanges DEF TaskTo
    <3>1. TaskTo(j, r, "fail") \/ (chunk[j][r] # "PENDING" /\ TaskTo(j, r, "none"))
      BY <2>2, <3>0, Zenon
    <3> QED
      BY <1>0, <1>1, <2>2, <3>1, SameCells DEF Claim, Leaves, ProcessMoves
  <2> QED
    BY <1>1, <2>1, <2>2 DEF Claim
<1>2. CASE InsertBegin(j, r)
  <2>1. CASE ReadKnown(<<j, r>>, got[j][r]) /\ UNCHANGED task
    BY <1>0, <1>2, <2>1, SameCells DEF InsertBegin, WriteMoves, ProcessMoves
  <2>2. CASE Task(j, r, "fail") /\ UNCHANGED writerVars
    <3>1. TaskTo(j, r, "fail")
      BY <2>2, CellChanges, Zenon DEF TaskTo
    <3>2. batch[<<j, r>>].step = "off"
      BY <1>2 DEF InsertBegin, NoBatch
    <3> QED
      BY <1>0, <1>2, <2>2, <3>1, <3>2, SameCells DEF InsertBegin, Leaves, ProcessMoves
  <2> QED
    BY <1>2, <2>1, <2>2 DEF InsertBegin
<1>3. CASE InsertGoesOn(j, r)
  BY <1>0, <1>3, SameCells DEF InsertGoesOn, WriteMoves, ProcessMoves
<1>4. CASE InsertEnds(j, r)
  <2>1. TaskTo(j, r, "done")
    BY <1>4, CellChanges, Zenon DEF InsertEnds, TaskTo
  <2> QED
    BY <1>0, <1>4, <2>1, SameCells DEF InsertEnds, WriteMoves, ProcessMoves
<1>5. CASE InsertThrows(j, r)
  <2>1. TaskTo(j, r, "fail")
    BY <1>5, CellChanges, Zenon DEF InsertThrows, TaskTo
  <2> QED
    BY <1>0, <1>5, <2>1, SameCells DEF InsertThrows, WriteMoves, ProcessMoves
<1>6. CASE ChunkDone(j, r)
  <2>1. CASE chunk' = [chunk EXCEPT ![j][r] = "DONE"] /\ Task(j, r, "count") /\ chunk[j][r] # "none"
    <3>0. TaskTo(j, r, "count")
      BY <2>1, CellChanges, Zenon DEF TaskTo
    <3>1. ChunkTo(j, r, "DONE")
      BY <2>1, CellChanges, Zenon DEF ChunkTo
    <3> QED
      BY <1>0, <1>6, <2>1, <3>0, <3>1, SameCells DEF ChunkDone, MarksDone, ProcessMoves
  <2>2. CASE UNCHANGED chunk /\ Task(j, r, "fail")
    <3>1. TaskTo(j, r, "fail")
      BY <2>2, CellChanges, Zenon DEF TaskTo
    <3> QED
      BY <1>0, <1>6, <2>2, <3>1, SameCells DEF ChunkDone, Leaves, ProcessMoves
  <2> QED
    BY <1>6, <2>1, <2>2 DEF ChunkDone
<1>7. CASE ChunkCounted(j, r)
  <2>1. CASE Exists(j) /\ job' = [job EXCEPT ![j].processed = @ + 1] /\ Task(j, r, "none")
    <3>1. TaskTo(j, r, "none")
      BY <2>1, CellChanges, Zenon DEF TaskTo
    <3>2. RowIs(j, job[j].status, job[j].collectDone, job[j].total, job[j].processed + 1)
      BY <2>1, RowChanges
    <3> QED
      BY <1>0, <1>7, <2>1, <3>1, <3>2, SameCells DEF ChunkCounted, CountsDone, ProcessMoves
  <2>2. CASE UNCHANGED job /\ Task(j, r, "fail")
    <3>1. TaskTo(j, r, "fail")
      BY <2>2, CellChanges, Zenon DEF TaskTo
    <3> QED
      BY <1>0, <1>7, <2>2, <3>1, SameCells DEF ChunkCounted, Leaves, ProcessMoves
  <2> QED
    BY <1>7, <2>1, <2>2 DEF ChunkCounted
<1>8. CASE ChunkFailed(j, r)
  <2>0. TaskTo(j, r, "none")
    BY <1>8, CellChanges, Zenon DEF ChunkFailed, TaskTo
  <2>1. CASE chunk' = [chunk EXCEPT ![j][r] = "FAILED"] /\ chunk[j][r] # "none"
    <3>1. ChunkTo(j, r, "FAILED")
      BY <2>1, CellChanges, Zenon DEF ChunkTo
    <3> QED
      BY <1>0, <1>8, <2>0, <2>1, <3>1, SameCells DEF ChunkFailed, MarksFailed, ProcessMoves
  <2>2. CASE UNCHANGED chunk
    BY <1>0, <1>8, <2>0, <2>2, SameCells DEF ChunkFailed, Leaves, ProcessMoves
  <2> QED
    BY <1>8, <2>1, <2>2 DEF ChunkFailed
<1> QED
  BY <1>1, <1>2, <1>3, <1>4, <1>5, <1>6, <1>7, <1>8 DEF Process

Moves(j) ==
  \/ ConsoleMoves(j) \/ CollectMoves(j) \/ InsertMoves(j)
  \/ \E r \in Span : FetchMoves(j, r) \/ ProcessMoves(j, r)

LEMMA JobKinds ==
  ASSUME RestTypeOK, NEW j \in Job, JobStep(j)
  PROVE  Moves(j)
BY ConsoleKinds, CollectKinds, FetchKinds, InsertKinds, ProcessKinds DEF JobStep, Collect, Moves

------------------------------------------------------------------------------
(* Each step of the job keeps each part.                                   *)

LEMMA LifeStep ==
  ASSUME NEW j \in Job, RestTypeOK, Life(j), Moves(j)
  PROVE  Life(j)'
<1> USE DEF RowIs, StatusTo, SameRow, SameNodes, Exists
<1>0. Root \in Span
  BY SyncAssumption
<1>1. CASE ConsoleMoves(j)
  <2>0. \A q \in Span : node'[j][q] = node[j][q]
    BY <1>1 DEF ConsoleMoves
  <2>1. CASE Looks(j) \/ Cancels(j) \/ Deletes(j)
    BY <1>0, <2>0, <2>1 DEF Looks, Cancels, Deletes, Life, Asleep, Fetching
  <2>2. CASE Creates(j)
    BY <1>0, <2>0, <2>2 DEF Creates, Life, Asleep, Fetching
  <2> QED
    BY <1>1, <2>1, <2>2 DEF ConsoleMoves
<1>2. CASE CollectMoves(j)
  <2>1. CASE Begins(j)
    BY <1>0, <1>2, <2>1 DEF CollectMoves, Begins, NodeTo, Life
  <2>2. CASE Collects(j)
    BY <1>0, <1>2, <2>2 DEF CollectMoves, Collects, Life, Asleep, Fetching
  <2>3. CASE Stops(j)
    BY <1>0, <1>2, <2>3 DEF CollectMoves, Stops, Life, Asleep, Fetching
  <2> QED
    BY <1>2, <2>1, <2>2, <2>3 DEF CollectMoves
<1>3. CASE InsertMoves(j)
  BY <1>0, <1>3 DEF InsertMoves, Takes, Watches, Completes, Fails, Life, Asleep, Fetching
<1>4. ASSUME NEW r \in Span, FetchMoves(j, r) PROVE Life(j)'
  <2>1. node[j][r] \in {"check", "slot", "call", "chunk", "count"}
    BY <1>4 DEF FetchMoves, Goes, IsAnswered, Cuts, Saves, Counts
  <2>2. \A q \in Span : node[j][q] # "none" => node'[j][q] # "none"
    BY <1>4 DEF FetchMoves, Goes, IsAnswered, Cuts, Saves, Counts, NodeTo
  <2>3. job'[j].status = job[j].status /\ job'[j].collectDone = job[j].collectDone
    BY <1>4 DEF FetchMoves, Goes, IsAnswered, Cuts, Saves, Counts
  <2> QED
    BY <1>0, <1>4, <2>1, <2>2, <2>3 DEF FetchMoves, Life, Asleep, Fetching
<1>5. ASSUME NEW r \in Span, ProcessMoves(j, r) PROVE Life(j)'
  <2>1. job'[j].status = job[j].status /\ job'[j].collectDone = job[j].collectDone
    BY <1>5 DEF ProcessMoves, WriteMoves, Claims, Leaves, MarksFailed, MarksDone, CountsDone
  <2> QED
    BY <1>0, <1>5, <2>1 DEF ProcessMoves, Life, Asleep, Fetching
<1> QED
  BY <1>1, <1>2, <1>3, <1>4, <1>5 DEF Moves

(* The halves of a range take its place.                                   *)
LEMMA TilesCut ==
  ASSUME NEW F \in SUBSET Span, NEW r \in F, Halves[r] # {}, Tiles(F)
  PROVE  Tiles((F \ {r}) \cup Halves[r])
<1> DEFINE G == (F \ {r}) \cup Halves[r]
<1>1. Halves[r] \subseteq Span /\ SoldIn[r] = UNION {SoldIn[q] : q \in Halves[r]}
  BY SyncAssumption, BisectionAssumption
<1>2. \A q \in Halves[r] : SoldIn[q] \subseteq SoldIn[r]
  BY <1>1
<1>3. SoldIn[Root] \subseteq UNION {SoldIn[q] : q \in G}
  <2>1. ASSUME NEW x \in SoldIn[Root] PROVE \E q \in G : x \in SoldIn[q]
    <3>1. PICK q \in F : x \in SoldIn[q]
      BY <2>1 DEF Tiles
    <3>2. CASE q = r
      <4>1. PICK h \in Halves[r] : x \in SoldIn[h]
        BY <1>1, <3>1, <3>2
      <4> QED
        BY <4>1
    <3> QED
      BY <3>1, <3>2
  <2> QED
    BY <2>1
<1>4. ASSUME NEW p \in G, NEW q \in G, p # q PROVE SoldIn[p] \cap SoldIn[q] = {}
  <2>1. CASE p \in Halves[r] /\ q \in Halves[r]
    BY <1>4, <2>1, BisectionAssumption
  <2>2. CASE p \in F \ {r} /\ q \in F \ {r}
    BY <1>4, <2>2 DEF Tiles
  <2>3. CASE p \in Halves[r] /\ q \in F \ {r}
    <3>1. SoldIn[r] \cap SoldIn[q] = {}
      BY <2>3 DEF Tiles
    <3> QED
      BY <1>2, <2>3, <3>1
  <2>4. CASE q \in Halves[r] /\ p \in F \ {r}
    <3>1. SoldIn[r] \cap SoldIn[p] = {}
      BY <2>4 DEF Tiles
    <3> QED
      BY <1>2, <2>4, <3>1
  <2> QED
    BY <2>1, <2>2, <2>3, <2>4
<1> QED
  BY <1>3, <1>4 DEF Tiles

(* The front stays, and so do the two other parts.                         *)
CutOnly(j) == \A r \in Span : \A q \in Halves[r] :
  node[j][q] # "none" => node[j][r] = "over" /\ chunk[j][r] = "none"
Stored(j) == start[j] = "fetch" /\ job[j].status \notin Lost =>
  \A r \in Front(j) : node[j][r] = "over" => chunk[j][r] # "none"

LEMMA FrontTiles ==
  ASSUME NEW j \in Job, Front(j)' = Front(j), Tiles(Front(j))
  PROVE  Tiles(Front(j))'
BY DEF Tiles

LEMMA TreeKept ==
  ASSUME NEW j \in Job, Tree(j), Front(j)' = Front(j), start'[j] = "fetch" => start[j] = "fetch",
         CutOnly(j)', Stored(j)'
  PROVE  Tree(j)'
BY FrontTiles DEF Tree, CutOnly, Stored

LEMMA TreeStep ==
  ASSUME NEW j \in Job, RestTypeOK, Life(j), Tree(j), Cells(j), Ends(j), Moves(j)
  PROVE  Tree(j)'
<1> USE DEF RowIs, StatusTo, SameRow, SameNodes, SameChunks, SameGot, Exists
<1>0. /\ Root \in Span /\ \A q \in Span : Halves[q] \subseteq Span /\ Root \notin Halves[q]
      /\ Front(j) \subseteq Span
  BY SyncAssumption, BisectionAssumption DEF Front
<1>1. ASSUME \A q \in Span : node'[j][q] = node[j][q] PROVE Front(j)' = Front(j)
  BY <1>0, <1>1 DEF Front
<1>2. CASE ConsoleMoves(j)
  <2>0. \A q \in Span : node'[j][q] = node[j][q]
    BY <1>2 DEF ConsoleMoves
  <2>1. Front(j)' = Front(j)
    BY <1>1, <2>0
  <2>2. CASE Looks(j) \/ Creates(j)
    <3>1. CutOnly(j)' /\ Stored(j)' /\ (start'[j] = "fetch" => start[j] = "fetch")
      BY <1>0, <2>0, <2>1, <2>2 DEF Looks, Creates, Tree, CutOnly, Stored
    <3> QED
      BY <2>1, <3>1, TreeKept
  <2>3. CASE Cancels(j)
    <3>1. CutOnly(j)' /\ Stored(j)' /\ start'[j] = start[j]
      BY <1>0, <2>0, <2>1, <2>3 DEF Cancels, Tree, Lost, CutOnly, Stored
    <3> QED
      BY <2>1, <3>1, TreeKept
  <2>4. CASE Deletes(j)
    <3>1. CutOnly(j)' /\ Stored(j)' /\ start'[j] = start[j]
      BY <1>0, <2>0, <2>1, <2>4 DEF Deletes, Tree, Lost, CutOnly, Stored
    <3> QED
      BY <2>1, <3>1, TreeKept
  <2> QED
    BY <1>2, <2>2, <2>3, <2>4 DEF ConsoleMoves
<1>3. CASE CollectMoves(j)
  <2>0. \A q \in Span : chunk'[j][q] = chunk[j][q]
    BY <1>3 DEF CollectMoves
  <2>1. CASE Begins(j)
    <3>1. \A q \in Span : node'[j][q] = IF q = Root THEN "check" ELSE "none"
      BY <2>1 DEF Begins, Life, Asleep, NodeTo
    <3>2. Front(j)' = {Root}
      BY <1>0, <3>1 DEF Front
    <3>3. Tiles({Root})
      BY DEF Tiles
    <3>4. \A r \in Span : \A q \in Halves[r] : node'[j][q] = "none"
      BY <1>0, <3>1
    <3> QED
      BY <1>0, <3>1, <3>2, <3>3, <3>4 DEF Tree
  <2>2. CASE Collects(j) \/ Stops(j)
    <3>1. start'[j] # "fetch" /\ \A q \in Span : node'[j][q] = node[j][q]
      BY <2>2 DEF Collects, Stops
    <3> QED
      BY <1>0, <2>0, <3>1 DEF Tree
  <2> QED
    BY <1>3, <2>1, <2>2 DEF CollectMoves
<1>4. CASE InsertMoves(j)
  <2>0. /\ \A q \in Span : node'[j][q] = node[j][q] /\ chunk'[j][q] = chunk[j][q]
        /\ start'[j] = start[j]
    BY <1>4 DEF InsertMoves
  <2>1. Front(j)' = Front(j)
    BY <1>1, <2>0
  <2>2. start[j] = "fetch" /\ job'[j].status \notin Lost => job[j].status \notin Lost
    BY <1>4 DEF InsertMoves, Takes, Watches, Completes, Fails, Ends, Life, Lost
  <2> QED
    <3>1. CutOnly(j)'
      BY <1>0, <2>0 DEF Tree, CutOnly
    <3>2. Stored(j)'
      BY <1>0, <2>0, <2>1, <2>2 DEF Tree, Stored
    <3> QED
      BY <2>0, <2>1, <3>1, <3>2, TreeKept
<1>5. ASSUME NEW r \in Span, FetchMoves(j, r) PROVE Tree(j)'
  <2>0. start'[j] = start[j] /\ job'[j].status = job[j].status
    BY <1>5 DEF FetchMoves, Goes, IsAnswered, Cuts, Saves, Counts
  <2>1. ASSUME NEW pc, pc # "none", node[j][r] # "none", NodeTo(j, r, pc) PROVE Front(j)' = Front(j)
    BY <1>0, <2>1 DEF Front, NodeTo
  <2>2. CASE Goes(j, r)
    <3>1. node[j][r] \in {"check", "slot", "call", "chunk", "count"}
      BY <2>2 DEF Goes
    <3>2. PICK pc \in {"over", "slot", "call", "failed"} :
            /\ NodeTo(j, r, pc)
            /\ pc = "over" => job[j].status = "CANCELLED"
      BY <2>2 DEF Goes
    <3>3. Front(j)' = Front(j)
      BY <2>1, <3>1, <3>2
    <3>4. \A q \in Span : chunk'[j][q] = chunk[j][q]
      BY <2>2 DEF Goes
    <3>5. CutOnly(j)'
      BY <1>0, <3>1, <3>2, <3>4 DEF Tree, NodeTo, CutOnly
    <3>6. Stored(j)'
      BY <1>0, <2>0, <3>1, <3>2, <3>3, <3>4 DEF Tree, NodeTo, Lost, Stored
    <3> QED
      BY <2>0, <3>3, <3>5, <3>6, TreeKept
  <2>3. CASE IsAnswered(j, r)
    <3>1. node[j][r] = "call" /\ NodeTo(j, r, "chunk") /\ SameChunks(j)
      BY <2>3 DEF IsAnswered
    <3>2. Front(j)' = Front(j)
      BY <2>1, <3>1
    <3>3. CutOnly(j)'
      BY <1>0, <3>1 DEF Tree, NodeTo, CutOnly
    <3>4. Stored(j)'
      BY <1>0, <2>0, <3>1, <3>2 DEF Tree, NodeTo, Stored
    <3> QED
      BY <2>0, <3>2, <3>3, <3>4, TreeKept
  <2>4. CASE Cuts(j, r)
    <3>1. /\ node[j][r] = "call" /\ Halves[r] # {} /\ SameChunks(j)
          /\ \A q \in Span : node'[j][q] =
               IF q = r THEN "over" ELSE IF q \in Halves[r] THEN "check" ELSE node[j][q]
      BY <2>4 DEF Cuts
    <3>2. \A q \in Halves[r] : node[j][q] = "none"
      BY <1>0, <3>1 DEF Tree
    <3>3. \A q \in Halves[r] : \A p \in Halves[q] : node[j][p] = "none" /\ p # r
      BY <1>0, <3>1, <3>2 DEF Tree
    <3>4. r \in Front(j) /\ r \notin Halves[r]
      BY <3>1, <3>2 DEF Front
    <3>5. \A q \in Span \ {r} : Halves[q] \cap Halves[r] = {}
      BY BisectionAssumption
    <3>6. Front(j)' = (Front(j) \ {r}) \cup Halves[r]
      <4>1. ASSUME NEW q \in Span PROVE q \in Front(j)' <=> q \in (Front(j) \ {r}) \cup Halves[r]
        <5>1. CASE q = r
          BY <1>0, <3>1, <3>4, <5>1 DEF Front
        <5>2. CASE q \in Halves[r]
          <6>1. \A p \in Halves[q] : p \notin Halves[r]
            BY <1>0, <3>4, <3>5, <5>2
          <6>2. \A p \in Halves[q] : node'[j][p] = "none"
            BY <1>0, <3>1, <3>3, <5>2, <6>1
          <6> QED
            BY <1>0, <3>1, <3>4, <5>2, <6>2 DEF Front
        <5>3. CASE q # r /\ q \notin Halves[r]
          <6>1. node'[j][q] = node[j][q]
            BY <3>1, <5>3
          <6>2. ASSUME \A p \in Halves[q] : node[j][p] = "none"
                PROVE  \A p \in Halves[q] : node'[j][p] = "none"
            BY <1>0, <3>1, <3>5, <5>3, <6>2
          <6>3. ASSUME \A p \in Halves[q] : node'[j][p] = "none"
                PROVE  \A p \in Halves[q] : node[j][p] = "none"
            BY <1>0, <3>1, <3>5, <5>3, <6>3
          <6> QED
            BY <5>3, <6>1, <6>2, <6>3 DEF Front
        <5> QED
          BY <5>1, <5>2, <5>3
      <4> QED
        BY <1>0, <4>1 DEF Front
    <3>7. start'[j] = "fetch" => Tiles(Front(j))'
      <4>1. start'[j] = "fetch" => Tiles((Front(j) \ {r}) \cup Halves[r])
        <5>1. Front(j) \in SUBSET Span
          BY DEF Front
        <5> QED
          BY <2>0, <3>1, <3>4, <5>1, TilesCut DEF Tree
      <4> QED
        BY <3>6, <4>1 DEF Tiles
    <3>8. \A q \in Span : \A p \in Halves[q] : node'[j][p] # "none" => node'[j][q] = "over" /\ chunk'[j][q] = "none"
      <4>1. ASSUME NEW q \in Span, NEW p \in Halves[q], node'[j][p] # "none"
            PROVE  node'[j][q] = "over" /\ chunk'[j][q] = "none"
        <5>1. CASE q = r
          <6>1. chunk[j][r] = "none"
            <7>1. ~ Asleep(j) /\ node[j][r] \notin Past
              BY <3>1 DEF Asleep, Past
            <7> QED
              BY <7>1 DEF Cells
          <6> QED
            BY <3>1, <5>1, <6>1
        <5>2. CASE q # r
          <6>1. p \in Span /\ p \notin Halves[r]
            BY <1>0, <3>5, <4>1, <5>2
          <6>2. CASE p = r
            BY <1>0, <3>1, <5>2, <6>2, <4>1 DEF Tree
          <6>3. CASE p # r
            BY <1>0, <3>1, <5>2, <6>1, <6>3, <4>1 DEF Tree
          <6> QED
            BY <6>2, <6>3
        <5> QED
          BY <5>1, <5>2
      <4> QED
        BY <4>1
    <3>9. start[j] = "fetch" /\ job[j].status \notin Lost =>
            \A q \in Front(j)' : node'[j][q] = "over" => chunk'[j][q] # "none"
      BY <1>0, <3>1, <3>4, <3>6 DEF Tree, Front
    <3> QED
      BY <2>0, <3>7, <3>8, <3>9 DEF Tree
  <2>5. CASE Saves(j, r)
    <3>1. node[j][r] = "chunk" /\ NodeTo(j, r, "count") /\ ChunkTo(j, r, "PENDING")
      BY <2>5 DEF Saves
    <3>2. Front(j)' = Front(j)
      BY <2>1, <3>1
    <3>3. \A q \in Halves[r] : node'[j][q] = "none"
      BY <1>0, <3>1 DEF Tree, NodeTo
    <3>4. CutOnly(j)'
      BY <1>0, <3>1, <3>3 DEF Tree, NodeTo, ChunkTo, CutOnly
    <3>5. Stored(j)'
      BY <1>0, <2>0, <3>1, <3>2 DEF Tree, NodeTo, ChunkTo, Stored
    <3> QED
      BY <2>0, <3>2, <3>4, <3>5, TreeKept
  <2>6. CASE Counts(j, r)
    <3>1. node[j][r] = "count" /\ NodeTo(j, r, "over") /\ SameChunks(j) /\ chunk[j][r] # "none"
      BY <2>6 DEF Counts, Cells
    <3>2. Front(j)' = Front(j)
      BY <2>1, <3>1
    <3>3. CutOnly(j)'
      BY <1>0, <3>1 DEF Tree, NodeTo, CutOnly
    <3>4. Stored(j)'
      BY <1>0, <2>0, <3>1, <3>2 DEF Tree, NodeTo, Stored
    <3> QED
      BY <2>0, <3>2, <3>3, <3>4, TreeKept
  <2> QED
    BY <1>5, <2>2, <2>3, <2>4, <2>5, <2>6 DEF FetchMoves
<1>6. ASSUME NEW r \in Span, ProcessMoves(j, r) PROVE Tree(j)'
  <2>0. /\ \A q \in Span : node'[j][q] = node[j][q]
        /\ start'[j] = start[j] /\ job'[j].status = job[j].status
    BY <1>6 DEF ProcessMoves, WriteMoves, Claims, Leaves, MarksFailed, MarksDone, CountsDone
  <2>1. Front(j)' = Front(j)
    BY <1>1, <2>0
  <2>2. \A q \in Span : chunk'[j][q] = "none" <=> chunk[j][q] = "none"
    BY <1>6 DEF ProcessMoves, WriteMoves, Claims, Leaves, MarksFailed, MarksDone, CountsDone, ChunkTo
  <2> QED
    BY <1>0, <2>0, <2>1, <2>2 DEF Tree, Tiles, Front
<1> QED
  BY <1>2, <1>3, <1>4, <1>5, <1>6 DEF Moves

LEMMA CellsStep ==
  ASSUME NEW j \in Job, RestTypeOK, Life(j), Tree(j), Cells(j), Batches(j), Moves(j)
  PROVE  Cells(j)'
<1> USE DEF RowIs, StatusTo, SameRow, SameNodes, SameChunks, SameTasks, SameGot, Exists, Past
<1>0. Root \in Span /\ \A q \in Span : Halves[q] \subseteq Span
  BY SyncAssumption
<1>1. CASE ConsoleMoves(j)
  <2>1. CASE Looks(j) \/ Cancels(j)
    BY <1>1, <2>1 DEF ConsoleMoves, Looks, Cancels, Cells, Asleep
  <2>2. CASE Creates(j)
    <3>1. \A q \in Span : chunk[j][q] = "none" /\ task[j][q] = "none" /\ node[j][q] = "none"
      BY <2>2 DEF Creates, Life, Cells, Asleep
    <3> QED
      BY <1>1, <2>2, <3>1 DEF ConsoleMoves, Creates, Cells
  <2>3. CASE Deletes(j)
    BY <1>1, <2>3 DEF ConsoleMoves, Deletes, Cells
  <2> QED
    BY <1>1, <2>1, <2>2, <2>3 DEF ConsoleMoves
<1>2. CASE CollectMoves(j)
  <2>1. CASE Begins(j)
    <3>1. \A q \in Span : chunk[j][q] = "none" /\ task[j][q] = "none" /\ node[j][q] = "none"
      BY <2>1 DEF Begins, Life, Cells, Asleep
    <3>2. \A q \in Span : chunk'[j][q] = "none" /\ task'[j][q] = "none" /\ node'[j][q] # "count"
      BY <1>2, <2>1, <3>1 DEF CollectMoves, Begins, NodeTo
    <3> QED
      BY <3>2 DEF Cells
  <2>2. CASE Collects(j) \/ Stops(j)
    BY <1>2, <2>2 DEF CollectMoves, Collects, Stops, Cells, Asleep
  <2> QED
    BY <1>2, <2>1, <2>2 DEF CollectMoves
<1>3. CASE InsertMoves(j)
  <2>1. CASE Takes(j)
    BY <1>3, <2>1 DEF InsertMoves, Takes, Cells, Asleep
  <2>2. CASE Watches(j) \/ Completes(j) \/ Fails(j)
    <3>1. \A q \in Span : task'[j][q] = "none"
      BY <2>2 DEF Watches, Completes, Fails, Cells
    <3>2. job'[j].status \notin {"none", "deleted"} <=> Exists(j)
      BY <2>2 DEF Watches, Completes, Fails
    <3>3. watch[j] # "over"
      BY <2>2 DEF Watches, Completes, Fails
    <3> QED
      BY <1>3, <3>1, <3>2, <3>3 DEF InsertMoves, Cells
  <2> QED
    BY <1>3, <2>1, <2>2 DEF InsertMoves
<1>4. ASSUME NEW r \in Span, FetchMoves(j, r) PROVE Cells(j)'
  <2>0. /\ start'[j] = start[j] /\ watch'[j] = watch[j] /\ job'[j].status = job[j].status
        /\ \A q \in Span : task'[j][q] = task[j][q]
    BY <1>4 DEF FetchMoves, Goes, IsAnswered, Cuts, Saves, Counts
  <2>1. node[j][r] \in {"check", "slot", "call", "chunk", "count"}
    BY <1>4 DEF FetchMoves, Goes, IsAnswered, Cuts, Saves, Counts
  <2>2. ~ Asleep(j) /\ start[j] # "begin"
    BY <2>1 DEF Asleep, Life
  <2>3. CASE Goes(j, r)
    BY <2>0, <2>1, <2>2, <2>3 DEF Goes, NodeTo, Cells
  <2>4. CASE IsAnswered(j, r)
    BY <2>0, <2>1, <2>2, <2>4 DEF IsAnswered, NodeTo, Cells
  <2>5. CASE Cuts(j, r)
    <3>1. /\ node[j][r] = "call"
          /\ \A q \in Span : /\ chunk'[j][q] = chunk[j][q]
                             /\ node'[j][q] = IF q = r THEN "over" ELSE IF q \in Halves[r] THEN "check" ELSE node[j][q]
      BY <2>5 DEF Cuts
    <3>2. \A q \in Halves[r] : node[j][q] = "none"
      BY <1>0, <3>1 DEF Tree
    <3>3. \A q \in Halves[r] \cup {r} : chunk[j][q] = "none" /\ task[j][q] = "none"
      BY <1>0, <2>2, <3>1, <3>2 DEF Cells
    <3> QED
      BY <1>0, <2>0, <2>2, <3>1, <3>3 DEF Cells
  <2>6. CASE Saves(j, r)
    BY <2>0, <2>1, <2>2, <2>6 DEF Saves, NodeTo, ChunkTo, Cells
  <2>7. CASE Counts(j, r)
    BY <2>0, <2>1, <2>2, <2>7 DEF Counts, NodeTo, Cells
  <2> QED
    BY <1>4, <2>3, <2>4, <2>5, <2>6, <2>7 DEF FetchMoves
<1>5. ASSUME NEW r \in Span, ProcessMoves(j, r) PROVE Cells(j)'
  <2>0. /\ start'[j] = start[j] /\ watch'[j] = watch[j] /\ job'[j].status = job[j].status
        /\ \A q \in Span : node'[j][q] = node[j][q]
    BY <1>5 DEF ProcessMoves, WriteMoves, Claims, Leaves, MarksFailed, MarksDone, CountsDone
  <2>1. task[j][r] # "none" => watch[j] = "process" /\ node[j][r] \in Past
    BY DEF Cells
  <2>2. CASE WriteMoves(j, r)
    <3>1. \A q \in Span : /\ chunk'[j][q] = chunk[j][q]
                          /\ \/ task'[j][q] = task[j][q]
                             \/ q = r /\ task[j][r] = "insert" /\ task'[j][r] \in {"done", "fail"}
      BY <2>2 DEF WriteMoves, TaskTo, Batches, InsertLines, DropBatch
    <3> QED
      BY <2>0, <2>1, <3>1 DEF Cells, Asleep
  <2>3. CASE Claims(j, r)
    BY <2>0, <2>1, <2>3 DEF Claims, TaskTo, ChunkTo, Cells, Asleep
  <2>4. CASE Leaves(j, r)
    BY <2>0, <2>1, <2>4 DEF Leaves, TaskTo, Cells, Asleep
  <2>5. CASE MarksFailed(j, r)
    BY <2>0, <2>1, <2>5 DEF MarksFailed, TaskTo, ChunkTo, Cells, Asleep
  <2>6. CASE MarksDone(j, r)
    BY <2>0, <2>1, <2>6 DEF MarksDone, TaskTo, ChunkTo, Cells, Asleep
  <2>7. CASE CountsDone(j, r)
    BY <2>0, <2>1, <2>7 DEF CountsDone, TaskTo, Cells, Asleep
  <2> QED
    BY <1>5, <2>2, <2>3, <2>4, <2>5, <2>6, <2>7 DEF ProcessMoves
<1> QED
  BY <1>1, <1>2, <1>3, <1>4, <1>5 DEF Moves

------------------------------------------------------------------------------
(* The counters.                                                           *)

LEMMA Counting ==
  ASSUME NEW A \in SUBSET Span, NEW B \in SUBSET Span
  PROVE  /\ Cardinality(A) \in Nat /\ IsFiniteSet(A)
         /\ A \subseteq B => Cardinality(A) <= Cardinality(B)
         /\ A \subseteq B /\ Cardinality(A) = Cardinality(B) => A = B
         /\ \A r \in Span : r \notin A => Cardinality(A \cup {r}) = Cardinality(A) + 1
<1>1. IsFiniteSet(A) /\ IsFiniteSet(B)
  BY FS_Subset, BisectionAssumption
<1> QED
  BY <1>1, FS_Subset, FS_AddElement, FS_CardinalityType

LEMMA CountersKept ==
  ASSUME NEW j \in Job, RestTypeOK, RestTypeOK', Counters(j),
         start'[j] = "fetch" => start[j] = "fetch" /\ Counted(j)' \subseteq Counted(j),
         job'[j].collectDone => job[j].collectDone /\ Saved(j)' \subseteq Saved(j),
         Finished(j) \subseteq Finished(j)',
         job'[j].total = job[j].total, job'[j].processed = job[j].processed
  PROVE  Counters(j)'
<1>1. job[j].total \in Nat /\ job[j].processed \in Nat
  BY DEF RestTypeOK, JobRow
<1>2. /\ Counted(j) \in SUBSET Span /\ Counted(j)' \in SUBSET Span
      /\ Saved(j) \in SUBSET Span /\ Saved(j)' \in SUBSET Span
      /\ Finished(j) \in SUBSET Span /\ Finished(j)' \in SUBSET Span
  BY DEF Counted, Saved, Finished
<1>3. \A A, B \in SUBSET Span : /\ Cardinality(A) \in Nat
                                /\ A \subseteq B => Cardinality(A) <= Cardinality(B)
  BY Counting
<1>4. start'[j] = "fetch" => Cardinality(Counted(j)') <= job'[j].total
  BY <1>1, <1>2, <1>3 DEF Counters
<1>5. job'[j].collectDone => Cardinality(Saved(j)') <= job'[j].total
  BY <1>1, <1>2, <1>3 DEF Counters
<1>6. job'[j].processed <= Cardinality(Finished(j)')
  BY <1>1, <1>2, <1>3 DEF Counters
<1> QED
  BY <1>4, <1>5, <1>6 DEF Counters

LEMMA CountersStep ==
  ASSUME NEW j \in Job, RestTypeOK, RestTypeOK', Life(j), Tree(j), Cells(j), Counters(j), Batches(j),
         Moves(j)
  PROVE  Counters(j)'
<1> USE DEF RowIs, StatusTo, SameRow, SameNodes, SameChunks, SameTasks, SameGot, Exists
<1>0. /\ Root \in Span /\ \A q \in Span : Halves[q] \subseteq Span
      /\ job[j].total \in Nat /\ job[j].processed \in Nat
  BY SyncAssumption DEF RestTypeOK, JobRow
<1>1. CASE ConsoleMoves(j)
  <2>1. CASE Looks(j) \/ Creates(j) \/ Cancels(j)
    <3>1. /\ Counted(j)' = Counted(j) /\ Saved(j)' = Saved(j) /\ Finished(j)' = Finished(j)
      BY <1>1, <2>1 DEF ConsoleMoves, Looks, Creates, Cancels, Counted, Saved, Finished
    <3>2. /\ start'[j] = "fetch" => start[j] = "fetch"
          /\ job'[j].collectDone = job[j].collectDone
          /\ job'[j].total = job[j].total /\ job'[j].processed = job[j].processed
      BY <2>1 DEF Looks, Creates, Cancels
    <3> QED
      BY <3>1, <3>2, CountersKept
  <2>2. CASE Deletes(j)
    <3>1. Counted(j)' = {} /\ Finished(j)' = {}
      BY <2>2 DEF Deletes, Counted, Finished
    <3>2. Cardinality({}) = 0
      BY FS_EmptySet
    <3> QED
      BY <2>2, <3>1, <3>2 DEF Deletes, Counters
  <2> QED
    BY <1>1, <2>1, <2>2 DEF ConsoleMoves
<1>2. CASE CollectMoves(j)
  <2>0. Saved(j)' = Saved(j) /\ Finished(j)' = Finished(j)
    BY <1>2 DEF CollectMoves, Saved, Finished
  <2>1. CASE Begins(j)
    <3>1. Counted(j)' = {}
      BY <1>2, <2>1 DEF CollectMoves, Begins, Cells, Counted
    <3>2. Cardinality({}) = 0
      BY FS_EmptySet
    <3>3. /\ ~ job[j].collectDone /\ job'[j].collectDone = job[j].collectDone
          /\ job'[j].total = job[j].total /\ job'[j].processed = job[j].processed
      BY <2>1 DEF Begins, Life
    <3> QED
      BY <1>0, <2>0, <3>1, <3>2, <3>3 DEF Counters
  <2>2. CASE Collects(j)
    <3>1. ASSUME NEW q \in Saved(j) PROVE q \in Counted(j)
      <4>1. ~ Asleep(j)
        BY <1>0, <2>2 DEF Collects, Life, Asleep
      <4>2. node[j][q] \in Past
        BY <4>1 DEF Cells, Saved
      <4>3. node[j][q] = "over"
        BY <2>2, <4>2 DEF Collects, Fetching, Failed, Past, Saved
      <4> QED
        BY <4>3 DEF Counted, Saved
    <3>2. Saved(j) \in SUBSET Span /\ Counted(j) \in SUBSET Span
      BY DEF Saved, Counted
    <3>3. Cardinality(Saved(j)) <= job[j].total
      <4>1. Cardinality(Saved(j)) <= Cardinality(Counted(j))
        BY <3>1, <3>2, Counting
      <4>2. Cardinality(Counted(j)) <= job[j].total
        BY <2>2 DEF Collects, Counters
      <4>3. Cardinality(Saved(j)) \in Nat /\ Cardinality(Counted(j)) \in Nat
        BY <3>2, Counting
      <4> QED
        BY <1>0, <4>1, <4>2, <4>3
    <3>4. /\ start'[j] # "fetch"
          /\ job'[j].total = job[j].total /\ job'[j].processed = job[j].processed
      BY <2>2 DEF Collects
    <3> QED
      BY <2>0, <3>3, <3>4 DEF Counters
  <2>3. CASE Stops(j)
    <3>1. /\ start'[j] # "fetch" /\ job'[j].collectDone = job[j].collectDone
          /\ job'[j].total = job[j].total /\ job'[j].processed = job[j].processed
      BY <2>3 DEF Stops
    <3> QED
      BY <2>0, <3>1, CountersKept
  <2> QED
    BY <1>2, <2>1, <2>2, <2>3 DEF CollectMoves
<1>3. CASE InsertMoves(j)
  <2>1. Counted(j)' = Counted(j) /\ Saved(j)' = Saved(j)
    BY <1>3 DEF InsertMoves, Counted, Saved
  <2>2. Finished(j) \subseteq Finished(j)'
    BY <1>3 DEF InsertMoves, Takes, Watches, Completes, Fails, Finished
  <2>3. /\ start'[j] = start[j] /\ job'[j].collectDone = job[j].collectDone
        /\ job'[j].total = job[j].total /\ job'[j].processed = job[j].processed
    BY <1>3 DEF InsertMoves, Takes, Watches, Completes, Fails
  <2> QED
    BY <2>1, <2>2, <2>3, CountersKept
<1>4. ASSUME NEW r \in Span, FetchMoves(j, r) PROVE Counters(j)'
  <2>0. /\ start'[j] = start[j] /\ job'[j].collectDone = job[j].collectDone
        /\ job'[j].processed = job[j].processed
        /\ \A q \in Span : task'[j][q] = task[j][q]
    BY <1>4 DEF FetchMoves, Goes, IsAnswered, Cuts, Saves, Counts
  <2>1. node[j][r] \in {"check", "slot", "call", "chunk", "count"}
    BY <1>4 DEF FetchMoves, Goes, IsAnswered, Cuts, Saves, Counts
  <2>2. ~ Asleep(j) /\ ~ job[j].collectDone
    BY <2>1 DEF Asleep, Life, Fetching
  <2>3. node[j][r] # "count" => chunk[j][r] = "none"
    BY <2>1, <2>2 DEF Cells, Past
  <2>4. CASE Goes(j, r) \/ IsAnswered(j, r)
    <3>1. Counted(j)' \subseteq Counted(j)
      BY <2>3, <2>4 DEF Goes, IsAnswered, NodeTo, Counted
    <3>2. Finished(j)' = Finished(j) /\ Saved(j)' = Saved(j)
      BY <2>0, <2>4 DEF Goes, IsAnswered, Finished, Saved
    <3>3. job'[j].total = job[j].total
      BY <2>4 DEF Goes, IsAnswered
    <3> QED
      BY <2>0, <3>1, <3>2, <3>3, CountersKept
  <2>5. CASE Cuts(j, r)
    <3>1. Counted(j)' \subseteq Counted(j)
      BY <2>3, <2>5 DEF Cuts, Counted
    <3>2. Finished(j)' = Finished(j) /\ Saved(j)' = Saved(j)
      BY <2>0, <2>5 DEF Cuts, Finished, Saved
    <3>3. job'[j].total = job[j].total
      BY <2>5 DEF Cuts
    <3> QED
      BY <2>0, <3>1, <3>2, <3>3, CountersKept
  <2>6. CASE Saves(j, r)
    <3>1. Counted(j)' \subseteq Counted(j)
      BY <2>6 DEF Saves, NodeTo, ChunkTo, Counted
    <3>2. Finished(j) \subseteq Finished(j)'
      <4>1. chunk[j][r] = "none"
        BY <2>3, <2>6 DEF Saves
      <4> QED
        BY <2>0, <2>6, <4>1 DEF Saves, ChunkTo, Finished
    <3>3. job'[j].total = job[j].total
      BY <2>6 DEF Saves
    <3> QED
      BY <2>0, <2>2, <3>1, <3>2, <3>3, CountersKept
  <2>7. CASE Counts(j, r)
    <3>1. Counted(j)' \subseteq Counted(j) \cup {r} /\ r \notin Counted(j)
      BY <2>7 DEF Counts, NodeTo, Counted
    <3>2. Finished(j)' = Finished(j)
      BY <2>0, <2>7 DEF Counts, Finished
    <3>3. job'[j].total = job[j].total + 1
      BY <2>7 DEF Counts
    <3>4. /\ Counted(j) \in SUBSET Span /\ Counted(j)' \in SUBSET Span
          /\ Counted(j) \cup {r} \in SUBSET Span
      BY DEF Counted
    <3>5. Cardinality(Counted(j)') <= Cardinality(Counted(j)) + 1
      <4>1. Cardinality(Counted(j)') <= Cardinality(Counted(j) \cup {r})
        BY <3>1, <3>4, Counting
      <4>2. Cardinality(Counted(j) \cup {r}) = Cardinality(Counted(j)) + 1
        BY <3>1, <3>4, Counting
      <4> QED
        BY <4>1, <4>2
    <3>6. Cardinality(Counted(j)') \in Nat /\ Cardinality(Counted(j)) \in Nat
      BY <3>4, Counting
    <3>7. start'[j] = "fetch" => Cardinality(Counted(j)') <= job'[j].total
      BY <1>0, <2>0, <3>3, <3>5, <3>6 DEF Counters
    <3> QED
      BY <2>0, <2>2, <3>2, <3>7 DEF Counters
  <2> QED
    BY <1>4, <2>4, <2>5, <2>6, <2>7 DEF FetchMoves
<1>5. ASSUME NEW r \in Span, ProcessMoves(j, r) PROVE Counters(j)'
  <2>0. /\ start'[j] = start[j] /\ job'[j].collectDone = job[j].collectDone
        /\ job'[j].total = job[j].total
        /\ \A q \in Span : node'[j][q] = node[j][q]
    BY <1>5 DEF ProcessMoves, WriteMoves, Claims, Leaves, MarksFailed, MarksDone, CountsDone
  <2>1. Counted(j)' = Counted(j) /\ Saved(j)' = Saved(j)
    <3>1. \A q \in Span : chunk'[j][q] = "none" <=> chunk[j][q] = "none"
      BY <1>5 DEF ProcessMoves, WriteMoves, Claims, Leaves, MarksFailed, MarksDone, CountsDone, ChunkTo
    <3> QED
      BY <2>0, <3>1 DEF Counted, Saved
  <2>2. CASE ~ CountsDone(j, r)
    <3>1. job'[j].processed = job[j].processed
      BY <1>5, <2>2 DEF ProcessMoves, WriteMoves, Claims, Leaves, MarksFailed, MarksDone
    <3>2. ASSUME NEW q \in Finished(j) PROVE q \in Finished(j)'
      <4>1. q \in Span /\ chunk[j][q] = "DONE" /\ task[j][q] \notin {"count", "fail"}
        BY DEF Finished
      <4>2. task[j][q] = "none"
        <5>1. task[j][q] \in {"none", "claim", "insert", "done", "count", "fail"}
          BY <4>1 DEF RestTypeOK
        <5>2. Exists(j)
          BY <4>1 DEF Cells
        <5> QED
          BY <4>1, <5>1, <5>2 DEF Cells
      <4>3. chunk'[j][q] = "DONE" /\ task'[j][q] = "none"
        <5>1. CASE q = r
          <6>1. ~ WriteMoves(j, r) \/ (SameChunks(j) /\ SameTasks(j))
            BY <4>2, <5>1 DEF WriteMoves, Batches, InsertLines, DropBatch
          <6> QED
            BY <1>5, <2>2, <4>1, <4>2, <5>1, <6>1 DEF ProcessMoves, Claims, Leaves, MarksFailed, MarksDone
        <5>2. CASE q # r
          BY <1>5, <2>2, <4>1, <4>2, <5>2 DEF ProcessMoves, WriteMoves, Claims, Leaves, MarksFailed, MarksDone,
             TaskTo, ChunkTo
        <5> QED
          BY <5>1, <5>2
      <4> QED
        BY <4>1, <4>3 DEF Finished
    <3> QED
      BY <2>0, <2>1, <3>1, <3>2, CountersKept
  <2>3. CASE CountsDone(j, r)
    <3>1. chunk[j][r] = "DONE"
      BY <2>3 DEF CountsDone, Cells
    <3>2. r \notin Finished(j) /\ Finished(j) \cup {r} \subseteq Finished(j)'
      BY <2>3, <3>1 DEF CountsDone, TaskTo, Finished
    <3>3. /\ Finished(j) \in SUBSET Span /\ Finished(j)' \in SUBSET Span
          /\ Finished(j) \cup {r} \in SUBSET Span
      BY DEF Finished
    <3>4. Cardinality(Finished(j)) + 1 <= Cardinality(Finished(j)')
      <4>1. Cardinality(Finished(j) \cup {r}) <= Cardinality(Finished(j)')
        BY <3>2, <3>3, Counting
      <4>2. Cardinality(Finished(j) \cup {r}) = Cardinality(Finished(j)) + 1
        BY <3>2, <3>3, Counting
      <4> QED
        BY <4>1, <4>2
    <3>5. Cardinality(Finished(j)') \in Nat /\ Cardinality(Finished(j)) \in Nat
      BY <3>3, Counting
    <3>6. job'[j].processed = job[j].processed + 1
      BY <2>3 DEF CountsDone
    <3>7. job'[j].processed <= Cardinality(Finished(j)')
      BY <1>0, <3>4, <3>5, <3>6 DEF Counters
    <3> QED
      BY <2>0, <2>1, <3>7 DEF Counters
  <2> QED
    BY <2>2, <2>3
<1> QED
  BY <1>1, <1>2, <1>3, <1>4, <1>5 DEF Moves

------------------------------------------------------------------------------
(* What the batches write.                                                 *)

WritesAt(j, r) ==
  \/ ReadKnown(<<j, r>>, got[j][r]) \/ CreateRows(<<j, r>>) \/ ReadBare(<<j, r>>)
  \/ InsertLines(<<j, r>>) \/ DropBatch(<<j, r>>)

LEMMA OtherBatches ==
  ASSUME WriterTypeOK, NEW j \in Job, NEW r \in Span, WritesAt(j, r), NEW q \in Span \ {r}
  PROVE  batch'[<<j, q>>] = batch[<<j, q>>]
<1>1. <<j, q>> # <<j, r>> /\ <<j, q>> \in Writer /\ batch \in [Writer -> Batch]
  BY SyncAssumption DEF WriterTypeOK
<1> QED
  BY <1>1 DEF WritesAt, ReadKnown, CreateRows, ReadBare, InsertLines, DropBatch

(* A batch keeps to its page, and what it leaves has its lines.            *)
OfBatch(b) ==
  /\ b.step = "rows" => b.page \subseteq row \cup b.todo
  /\ b.step \in {"bare", "lines"} => b.page \subseteq row
  /\ b.step = "lines" => b.page \subseteq b.todo \cup WithLines

LEMMA BatchGoesOn ==
  ASSUME WriterTypeOK, NEW j \in Job, NEW r \in Span, WritesAt(j, r),
         OfBatch(batch[<<j, r>>]), row \subseteq row', WithLines \subseteq WithLines'
  PROVE  OfBatch(batch[<<j, r>>])'
<1> DEFINE w == <<j, r>>
           b == batch[w]
<1>0. w \in Writer /\ batch \in [Writer -> Batch] /\ row \subseteq Sale /\ lines \in [Sale -> Nat] /\ b \in Batch
  BY SyncAssumption DEF WriterTypeOK
<1>1. CASE ReadKnown(w, got[j][r])
  <2>1. batch'[w].step = "rows" /\ batch'[w].page = got[j][r] /\ batch'[w].todo = got[j][r] \ row
    BY <1>0, <1>1 DEF ReadKnown
  <2> QED
    BY <1>1, <2>1 DEF ReadKnown, OfBatch
<1>2. CASE CreateRows(w)
  <2>1. batch'[w].step = "bare" /\ batch'[w].page = b.page
    BY <1>0, <1>2 DEF CreateRows, Batch
  <2>2. b.page \subseteq row'
    BY <1>2 DEF CreateRows, OfBatch
  <2> QED
    BY <2>1, <2>2 DEF OfBatch
<1>3. CASE ReadBare(w)
  <2>1. /\ batch'[w].step = "lines" /\ batch'[w].page = b.page
        /\ batch'[w].todo = {x \in b.page \cap row : lines[x] = 0}
    BY <1>0, <1>3 DEF ReadBare, Batch
  <2>2. b.page \subseteq row /\ b.step = "bare" /\ row' = row /\ lines' = lines
    BY <1>3 DEF ReadBare, OfBatch
  <2>3. b.page \subseteq batch'[w].todo \cup WithLines
    BY <1>0, <2>1, <2>2 DEF WithLines
  <2> QED
    BY <2>1, <2>2, <2>3 DEF OfBatch, WithLines
<1>4. CASE InsertLines(w) \/ DropBatch(w)
  <2>1. batch'[w].step = "off"
    BY <1>0, <1>4 DEF InsertLines, DropBatch, NoBatch
  <2> QED
    BY <2>1 DEF OfBatch
<1> QED
  BY <1>1, <1>2, <1>3, <1>4 DEF WritesAt

LEMMA LinesInserted ==
  ASSUME WriterTypeOK, NEW j \in Job, NEW r \in Span, InsertLines(<<j, r>>),
         OfBatch(batch[<<j, r>>]), WithLines \subseteq WithLines'
  PROVE  batch[<<j, r>>].page \subseteq WithLines'
<1> DEFINE b == batch[<<j, r>>]
<1>0. b \in Batch /\ row \subseteq Sale /\ lines \in [Sale -> Nat]
  BY SyncAssumption DEF WriterTypeOK
<1>1. b.page \subseteq row /\ b.page \subseteq b.todo \cup WithLines /\ row' = row
  BY DEF InsertLines, OfBatch
<1>2. \A x \in Sale : x \in b.todo => lines'[x] = lines[x] + 1
  BY DEF InsertLines, AddLines
<1>3. ASSUME NEW x \in b.page, x \in b.todo PROVE x \in WithLines'
  <2>1. x \in Sale /\ x \in row /\ lines[x] \in Nat
    BY <1>0, <1>1
  <2>2. lines'[x] > 0
    BY <1>2, <1>3, <2>1
  <2> QED
    BY <1>1, <2>1, <2>2 DEF WithLines
<1> QED
  BY <1>1, <1>3

LEMMA WritesStep ==
  ASSUME NEW j \in Job, JobInv, Life(j), Tree(j), Cells(j), Batches(j), Written(j), Moves(j),
         row \subseteq row', WithLines \subseteq WithLines'
  PROVE  Batches(j)' /\ Written(j)'
<1> USE DEF SameNodes, SameChunks, SameTasks, SameGot
<1>0. WriterTypeOK /\ RestTypeOK
  BY DEF JobInv, WriterInv
<1>1. ASSUME SameBatches(j),
             \A q \in Span : task[j][q] = "insert" /\ batch[<<j, q>>].step # "off" => task'[j][q] = "insert",
             \A q \in Span : got'[j][q] = got[j][q] \/ (chunk[j][q] = "none" /\ task[j][q] = "none"),
             \A q \in Span : chunk'[j][q] = "DONE" => chunk[j][q] = "DONE" \/ task[j][q] = "done",
             \A q \in Span : task'[j][q] \in {"done", "count"} => task[j][q] \in {"done", "count"}
      PROVE  Batches(j)' /\ Written(j)'
  <2>1. ASSUME NEW q \in Span, batch[<<j, q>>].step # "off"
        PROVE  task'[j][q] = "insert" /\ got'[j][q] = got[j][q]
    BY <1>1, <2>1 DEF Batches
  <2>2. Batches(j)'
    BY <1>1, <2>1 DEF Batches, SameBatches
  <2>3. ASSUME NEW q \in Span, chunk'[j][q] = "DONE" \/ task'[j][q] \in {"done", "count"}
        PROVE  got'[j][q] \subseteq WithLines'
    BY <1>1, <2>3 DEF Written
  <2> QED
    BY <2>2, <2>3 DEF Written
<1>2. CASE ConsoleMoves(j)
  BY <1>1, <1>2 DEF ConsoleMoves, Looks, Creates, Cancels, Deletes
<1>3. CASE CollectMoves(j)
  BY <1>1, <1>3 DEF CollectMoves, Begins, Collects, Stops
<1>4. CASE InsertMoves(j)
  <2>1. Takes(j) => \A q \in Span : task[j][q] = "none"
    BY DEF Takes, Cells
  <2> QED
    BY <1>1, <1>4, <2>1 DEF InsertMoves, Takes, Watches, Completes, Fails
<1>5. ASSUME NEW r \in Span, FetchMoves(j, r) PROVE Batches(j)' /\ Written(j)'
  <2>1. SameBatches(j) /\ SameTasks(j)
    BY <1>5 DEF FetchMoves
  <2>2. \A q \in Span : got'[j][q] = got[j][q] \/ (chunk[j][q] = "none" /\ task[j][q] = "none")
    <3>1. CASE IsAnswered(j, r)
      <4>1. chunk[j][r] = "none" /\ task[j][r] = "none"
        BY <3>1 DEF IsAnswered, Cells, Past, Asleep
      <4> QED
        BY <3>1, <4>1 DEF IsAnswered
    <3> QED
      BY <1>5, <3>1 DEF FetchMoves, Goes, Cuts, Saves, Counts
  <2>3. \A q \in Span : chunk'[j][q] = "DONE" => chunk[j][q] = "DONE"
    BY <1>5 DEF FetchMoves, Goes, IsAnswered, Cuts, Saves, Counts, ChunkTo
  <2> QED
    BY <1>1, <2>1, <2>2, <2>3
<1>6. ASSUME NEW r \in Span, ProcessMoves(j, r), ~ WriteMoves(j, r) PROVE Batches(j)' /\ Written(j)'
  <2>1. SameBatches(j) /\ \A q \in Span : got'[j][q] = got[j][q]
    BY <1>6 DEF ProcessMoves
  <2>2. Claims(j, r) \/ Leaves(j, r) \/ MarksFailed(j, r) \/ MarksDone(j, r) \/ CountsDone(j, r)
    BY <1>6 DEF ProcessMoves
  <2>3. \A q \in Span : task[j][q] = "insert" /\ batch[<<j, q>>].step # "off" => task'[j][q] = "insert"
    BY <2>2 DEF Claims, Leaves, MarksFailed, MarksDone, CountsDone, TaskTo
  <2>4. \A q \in Span : chunk'[j][q] = "DONE" => chunk[j][q] = "DONE" \/ task[j][q] = "done"
    BY <2>2 DEF Claims, Leaves, MarksFailed, MarksDone, CountsDone, ChunkTo
  <2>5. \A q \in Span : task'[j][q] \in {"done", "count"} => task[j][q] \in {"done", "count"}
    BY <2>2 DEF Claims, Leaves, MarksFailed, MarksDone, CountsDone, TaskTo
  <2> QED
    BY <1>1, <2>1, <2>3, <2>4, <2>5
<1>7. ASSUME NEW r \in Span, ProcessMoves(j, r), WriteMoves(j, r) PROVE Batches(j)' /\ Written(j)'
  <2>1. /\ WritesAt(j, r)
        /\ \A q \in Span : got'[j][q] = got[j][q] /\ chunk'[j][q] = chunk[j][q]
        /\ \A q \in Span \ {r} : task'[j][q] = task[j][q]
    BY <1>7 DEF ProcessMoves, WriteMoves, WritesAt, TaskTo
  <2>2. ASSUME NEW q \in Span \ {r} PROVE batch'[<<j, q>>] = batch[<<j, q>>]
    BY <1>0, <2>1, OtherBatches
  <2>3. OfBatch(batch[<<j, r>>])'
    BY <1>0, <2>1, BatchGoesOn DEF Batches, OfBatch
  <2>4. batch'[<<j, r>>].step # "off" => task'[j][r] = "insert" /\ batch'[<<j, r>>].page = got[j][r]
    <3>1. <<j, r>> \in Writer /\ batch \in [Writer -> Batch] /\ batch[<<j, r>>] \in Batch
      BY <1>0, SyncAssumption DEF WriterTypeOK
    <3>2. CASE ReadKnown(<<j, r>>, got[j][r]) /\ task[j][r] = "insert" /\ SameTasks(j)
      BY <3>1, <3>2 DEF ReadKnown
    <3>3. CASE (CreateRows(<<j, r>>) \/ ReadBare(<<j, r>>)) /\ SameTasks(j)
      <4>1. batch[<<j, r>>].step # "off" /\ batch'[<<j, r>>].page = batch[<<j, r>>].page
        <5>1. CASE CreateRows(<<j, r>>)
          BY <3>1, <5>1 DEF CreateRows, Batch
        <5>2. CASE ReadBare(<<j, r>>)
          BY <3>1, <5>2 DEF ReadBare, Batch
        <5> QED
          BY <3>3, <5>1, <5>2
      <4>2. task[j][r] = "insert" /\ batch[<<j, r>>].page = got[j][r]
        BY <4>1 DEF Batches
      <4> QED
        BY <3>3, <4>1, <4>2
    <3>4. CASE InsertLines(<<j, r>>) \/ DropBatch(<<j, r>>)
      BY <3>1, <3>4 DEF InsertLines, DropBatch, NoBatch
    <3> QED
      BY <1>7, <3>2, <3>3, <3>4 DEF WriteMoves
  <2>5. Batches(j)'
    <3>1. ASSUME NEW q \in Span \ {r}
          PROVE  /\ batch'[<<j, q>>].step # "off" => task'[j][q] = "insert" /\ batch'[<<j, q>>].page = got'[j][q]
                 /\ OfBatch(batch[<<j, q>>])'
      BY <2>1, <2>2, <3>1 DEF Batches, OfBatch
    <3> QED
      BY <2>1, <2>3, <2>4, <3>1 DEF Batches, OfBatch
  <2>6. ASSUME task'[j][r] \in {"done", "count"}, chunk[j][r] # "DONE"
        PROVE  got[j][r] \subseteq WithLines'
    <3>1. CASE SameTasks(j)
      BY <2>6, <3>1 DEF Written
    <3>2. CASE InsertLines(<<j, r>>)
      <4>1. batch[<<j, r>>].page = got[j][r]
        BY <3>2 DEF InsertLines, Batches
      <4> QED
        BY <1>0, <3>2, <4>1, LinesInserted DEF Batches, OfBatch
    <3>3. CASE TaskTo(j, r, "fail")
      BY <2>6, <3>3 DEF TaskTo
    <3> QED
      BY <1>7, <3>1, <3>2, <3>3 DEF WriteMoves
  <2>7. Written(j)'
    BY <2>1, <2>6 DEF Written
  <2> QED
    BY <2>5, <2>7
<1> QED
  BY <1>2, <1>3, <1>4, <1>5, <1>6, <1>7 DEF Moves

------------------------------------------------------------------------------
(* The end of a job.                                                       *)

(* A row that is collected, a verdict that is out: no worker is left.      *)
LEMMA EndsStep ==
  ASSUME NEW j \in Job, RestTypeOK, Life(j), Tree(j), Cells(j), Counters(j), Batches(j),
         Ends(j), Moves(j)
  PROVE  Ends(j)'
<1> USE DEF RowIs, StatusTo, SameRow, SameNodes, SameChunks, SameTasks, SameGot, Exists
<1>0. /\ Root \in Span /\ job[j].total \in Nat /\ job[j].processed \in Nat
      /\ Saved(j) \in SUBSET Span /\ Finished(j) \in SUBSET Span
  BY SyncAssumption DEF RestTypeOK, JobRow, Saved, Finished
<1>1. ASSUME SameChunks(j)
      PROVE  Saved(j)' = Saved(j) /\ (Tiles(Saved(j)) => Tiles(Saved(j))') /\ (Whole(j) => Whole(j)')
  <2>1. Saved(j)' = Saved(j)
    BY <1>1 DEF Saved
  <2>2. Tiles(Saved(j)) => Tiles(Saved(j))'
    BY <2>1 DEF Tiles
  <2>3. Whole(j) => Whole(j)'
    BY <1>1, <2>1, <2>2 DEF Whole, Saved
  <2> QED
    BY <2>1, <2>2, <2>3
<1>2. ASSUME SameChunks(j),
             job'[j].collectDone /\ job'[j].status \notin Lost =>
               job[j].collectDone /\ job[j].status \notin Lost,
             watch'[j] = "complete" /\ Exists(j)' => watch[j] = "complete" /\ Exists(j) /\ job'[j].collectDone,
             job'[j].status = "COMPLETED" =>
               job[j].status = "COMPLETED" /\ job'[j].collectDone /\ watch'[j] = "over"
      PROVE  Ends(j)'
  <2>1. job'[j].collectDone /\ job'[j].status \notin Lost => Tiles(Saved(j))'
    BY <1>1, <1>2 DEF Ends
  <2>2. watch'[j] = "complete" /\ Exists(j)' => job'[j].collectDone /\ Whole(j)'
    BY <1>1, <1>2 DEF Ends
  <2>3. job'[j].status = "COMPLETED" => job'[j].collectDone /\ watch'[j] = "over" /\ Whole(j)'
    BY <1>1, <1>2 DEF Ends
  <2> QED
    BY <2>1, <2>2, <2>3 DEF Ends
<1>3. CASE ConsoleMoves(j)
  <2>1. CASE Looks(j)
    BY <1>2, <2>1 DEF Looks, Ends
  <2>2. CASE Creates(j)
    BY <1>2, <2>2 DEF Creates, Life, Lost
  <2>3. CASE Cancels(j)
    BY <1>2, <2>3 DEF Cancels, Lost, Ends
  <2>4. CASE Deletes(j)
    BY <2>4 DEF Deletes, Ends
  <2> QED
    BY <1>3, <2>1, <2>2, <2>3, <2>4 DEF ConsoleMoves
<1>4. CASE CollectMoves(j)
  <2>0. SameChunks(j) /\ watch'[j] = watch[j]
    BY <1>4 DEF CollectMoves
  <2>1. CASE Begins(j)
    BY <1>2, <2>0, <2>1 DEF Begins, Life, Ends
  <2>2. CASE Collects(j)
    <3>1. ~ job[j].collectDone
      BY <2>2 DEF Collects, Life
    <3>2. job[j].status \notin Lost => Tiles(Saved(j))
      <4>1. ASSUME job[j].status \notin Lost PROVE Saved(j) = Front(j)
        <5>1. ~ Asleep(j)
          BY <1>0, <2>2 DEF Collects, Life, Asleep
        <5>2. ASSUME NEW q \in Saved(j) PROVE q \in Front(j)
          BY <5>1, SyncAssumption DEF Saved, Cells, Past, Tree, Front
        <5>3. ASSUME NEW q \in Front(j) PROVE q \in Saved(j)
          <6>1. node[j][q] = "over"
            BY <2>2 DEF Collects, Front, Fetching, Failed
          <6> QED
            BY <2>2, <4>1, <6>1 DEF Collects, Tree, Saved, Front
        <5> QED
          BY <5>2, <5>3
      <4> QED
        BY <2>2, <4>1 DEF Collects, Tree
    <3>3. job'[j].collectDone /\ job'[j].status \notin Lost => Tiles(Saved(j))'
      BY <1>1, <2>0, <2>2, <3>2 DEF Collects
    <3>4. watch[j] # "complete" /\ job[j].status # "COMPLETED"
      BY <2>2, <3>1 DEF Collects, Ends
    <3> QED
      BY <2>0, <2>2, <3>3, <3>4 DEF Collects, Ends
  <2>3. CASE Stops(j)
    BY <1>2, <2>0, <2>3 DEF Stops, Lost, Ends
  <2> QED
    BY <1>4, <2>1, <2>2, <2>3 DEF CollectMoves
<1>5. CASE InsertMoves(j)
  <2>0. SameChunks(j)
    BY <1>5 DEF InsertMoves
  <2>1. CASE Takes(j)
    BY <1>2, <2>0, <2>1 DEF Takes, Ends
  <2>2. CASE Watches(j)
    <3>1. CASE watch'[j] # "complete"
      BY <1>2, <2>0, <2>2, <3>1 DEF Watches, Ends
    <3>2. CASE watch'[j] = "complete"
      <4>1. /\ job[j].status \notin Lost /\ job[j].collectDone /\ job[j].processed >= job[j].total
            /\ job[j].status # "COMPLETED"
        BY <2>2, <3>2 DEF Watches, Ends
      <4>2. Finished(j) \subseteq Saved(j)
        BY DEF Finished, Saved
      <4>3. /\ Cardinality(Saved(j)) \in Nat /\ Cardinality(Finished(j)) \in Nat
            /\ Cardinality(Finished(j)) <= Cardinality(Saved(j))
        BY <1>0, <4>2, Counting
      <4>4. Cardinality(Finished(j)) = Cardinality(Saved(j))
        BY <1>0, <4>1, <4>3 DEF Counters
      <4>5. Finished(j) = Saved(j)
        BY <1>0, <4>2, <4>4, Counting
      <4>6. Whole(j)
        BY <4>1, <4>5 DEF Ends, Whole, Finished
      <4>7. Tiles(Saved(j))' /\ Whole(j)'
        BY <1>1, <2>0, <4>6 DEF Whole
      <4> QED
        BY <2>2, <4>1, <4>7 DEF Watches, Ends
    <3> QED
      BY <3>1, <3>2
  <2>3. CASE Completes(j)
    <3>1. job[j].collectDone /\ Whole(j)
      BY <2>3 DEF Completes, Ends
    <3>2. Whole(j)' /\ Tiles(Saved(j))'
      BY <1>1, <2>0, <3>1 DEF Whole
    <3> QED
      BY <2>3, <3>1, <3>2 DEF Completes, Ends
  <2>4. CASE Fails(j)
    BY <1>2, <2>0, <2>4 DEF Fails, Lost, Ends
  <2> QED
    BY <1>5, <2>1, <2>2, <2>3, <2>4 DEF InsertMoves
<1>6. ASSUME NEW r \in Span, FetchMoves(j, r) PROVE Ends(j)'
  <2>0. /\ start'[j] = start[j] /\ watch'[j] = watch[j] /\ job'[j].status = job[j].status
        /\ job'[j].collectDone = job[j].collectDone
    BY <1>6 DEF FetchMoves, Goes, IsAnswered, Cuts, Saves, Counts
  <2>1. node[j][r] \in {"check", "slot", "call", "chunk", "count"}
    BY <1>6 DEF FetchMoves, Goes, IsAnswered, Cuts, Saves, Counts
  <2>2. ~ job[j].collectDone
    BY <2>1 DEF Life, Fetching
  <2> QED
    BY <2>0, <2>2 DEF Ends
<1>7. ASSUME NEW r \in Span, ProcessMoves(j, r) PROVE Ends(j)'
  <2>0. /\ watch'[j] = watch[j] /\ job'[j].status = job[j].status
        /\ job'[j].collectDone = job[j].collectDone
    BY <1>7 DEF ProcessMoves, WriteMoves, Claims, Leaves, MarksFailed, MarksDone, CountsDone
  <2>1. task[j][r] # "none"
    <3>1. CASE WriteMoves(j, r)
      <4>1. CASE task[j][r] # "insert"
        BY <3>1, <4>1 DEF WriteMoves, CreateRows, ReadBare, InsertLines, DropBatch, Batches
      <4> QED
        BY <4>1
    <3> QED
      BY <1>7, <3>1 DEF ProcessMoves, Claims, Leaves, MarksFailed, MarksDone, CountsDone
  <2>2. watch[j] = "process"
    BY <2>1 DEF Cells
  <2>3. \A q \in Span : chunk'[j][q] = "none" <=> chunk[j][q] = "none"
    BY <1>7 DEF ProcessMoves, WriteMoves, Claims, Leaves, MarksFailed, MarksDone, CountsDone, ChunkTo
  <2>4. Saved(j)' = Saved(j)
    BY <2>3 DEF Saved
  <2>5. Tiles(Saved(j)) => Tiles(Saved(j))'
    BY <2>4 DEF Tiles
  <2> QED
    BY <2>0, <2>2, <2>5 DEF Ends
<1> QED
  BY <1>3, <1>4, <1>5, <1>6, <1>7 DEF Moves

(* The rows survive the process; its workers do not.                       *)
LEMMA CrashFacts ==
  ASSUME NEW j \in Job, JobInv, Facts(j), Crash
  PROVE  Facts(j)'
<1>0. /\ job'[j] = job[j] /\ row' = row /\ lines' = lines
      /\ \A q \in Span : /\ chunk'[j][q] = chunk[j][q] /\ got'[j][q] = got[j][q]
                         /\ node'[j][q] = "none" /\ task'[j][q] = "none"
  BY DEF Crash, DropAll, rowVars
<1>1. /\ start'[j] = (IF start[j] \in {"idle", "create"} THEN "idle" ELSE "over")
      /\ watch'[j] = (IF watch[j] = "idle" THEN "idle" ELSE "over")
  BY DEF Crash
<1>2. \A q \in Span : batch'[<<j, q>>].step = "off"
  <2>1. \A q \in Span : <<j, q>> \in Writer
    BY SyncAssumption
  <2> QED
    BY <2>1 DEF Crash, DropAll, NoBatch
<1>3. Life(j)'
  BY <1>0, <1>1 DEF Facts, Life, Asleep, Fetching
<1>4. Tree(j)'
  BY <1>0, <1>1, SyncAssumption DEF Tree
<1>5. Cells(j)'
  BY <1>0, <1>1 DEF Facts, Life, Cells, Asleep, Exists
<1>6. Counters(j)'
  <2>1. RestTypeOK /\ RestTypeOK'
    BY CrashTypes DEF JobInv
  <2>2. Saved(j)' = Saved(j) /\ Finished(j) \subseteq Finished(j)'
    BY <1>0 DEF Saved, Finished
  <2> QED
    BY <1>0, <1>1, <2>1, <2>2, CountersKept DEF Facts
<1>7. Batches(j)' /\ Written(j)'
  BY <1>0, <1>2 DEF Facts, Batches, Written, WithLines
<1>8. Ends(j)'
  <2>1. Saved(j)' = Saved(j)
    BY <1>0 DEF Saved
  <2>2. (Tiles(Saved(j)) => Tiles(Saved(j))') /\ (Whole(j) => Whole(j)')
    BY <1>0, <2>1 DEF Tiles, Whole, Saved
  <2> QED
    BY <1>0, <1>1, <2>1, <2>2 DEF Facts, Ends, Exists
<1> QED
  BY <1>3, <1>4, <1>5, <1>6, <1>7, <1>8 DEF Facts

LEMMA JobStepFacts ==
  ASSUME NEW j \in Job, JobInv, JobInv', Facts(j), JobStep(j),
         row \subseteq row', WithLines \subseteq WithLines'
  PROVE  Facts(j)'
<1>1. RestTypeOK /\ RestTypeOK' /\ Moves(j)
  BY JobKinds DEF JobInv
<1>2. Life(j) /\ Tree(j) /\ Cells(j) /\ Counters(j) /\ Batches(j) /\ Written(j) /\ Ends(j)
  BY DEF Facts
<1>3. Life(j)'
  BY <1>1, <1>2, LifeStep
<1>4. Tree(j)'
  BY <1>1, <1>2, TreeStep
<1>5. Cells(j)'
  BY <1>1, <1>2, CellsStep
<1>6. Counters(j)'
  BY <1>1, <1>2, CountersStep
<1>7. Batches(j)' /\ Written(j)'
  BY <1>1, <1>2, WritesStep
<1>8. Ends(j)'
  BY <1>1, <1>2, EndsStep
<1> QED
  BY <1>3, <1>4, <1>5, <1>6, <1>7, <1>8 DEF Facts

LEMMA InitFacts ==
  ASSUME Init, NEW j \in Job
  PROVE  Facts(j)
<1>0. /\ job[j] = NoJob /\ start[j] = "idle" /\ watch[j] = "idle"
      /\ \A q \in Span : /\ chunk[j][q] = "none" /\ node[j][q] = "none" /\ task[j][q] = "none"
                         /\ batch[<<j, q>>].step = "off"
  BY SyncAssumption DEF Init, WriterInit, NoBatch
<1>1. /\ job[j].status = "none" /\ ~ job[j].collectDone /\ job[j].processed = 0 /\ ~ Exists(j)
  BY <1>0 DEF NoJob, Exists
<1>2. Life(j) /\ Tree(j) /\ Cells(j)
  BY <1>0, <1>1, SyncAssumption DEF Life, Asleep, Tree, Cells
<1>3. Counters(j)
  <2>1. Finished(j) = {} /\ Cardinality({}) = 0
    BY <1>0, FS_EmptySet DEF Finished
  <2> QED
    BY <1>0, <1>1, <2>1 DEF Counters
<1>4. Batches(j) /\ Written(j) /\ Ends(j)
  BY <1>0, <1>1 DEF Batches, Written, Ends
<1> QED
  BY <1>2, <1>3, <1>4 DEF Facts

LEMMA FactsStep ==
  ASSUME JobInv, JobInv', \A i \in Job : Facts(i), [Next]_vars
  PROVE  \A i \in Job : Facts(i)'
<1>0. row \subseteq row' /\ WithLines \subseteq WithLines'
  BY NothingUnwritten
<1>1. ASSUME NEW j \in Job, JobStep(j), NEW i \in Job PROVE Facts(i)'
  <2>1. CASE i = j
    BY <1>0, <1>1, <2>1, JobStepFacts
  <2>2. CASE i # j
    BY <1>0, <1>1, <2>2, OthersStay, SameKeeps
  <2> QED
    BY <2>1, <2>2
<1>2. CASE Crash
  BY <1>2, CrashFacts
<1>3. CASE UNCHANGED vars
  <2>1. \A i \in Job : SameJob(i)
    BY <1>3 DEF vars, writerVars, rowVars, collectVars, insertVars, SameJob
  <2> QED
    BY <1>0, <2>1, SameKeeps
<1> QED
  BY <1>1, <1>2, <1>3 DEF Next, JobStep

(* COMPLETED is a promise kept, for any bisection, any number of jobs and  *)
(* of calls at once, and however the job was cancelled, deleted, killed or *)
(* failed on its way: watch's verdict rests on the counters alone, and the *)
(* chunks they stand for tile the dates, are done, and are written.        *)
THEOREM CompletedJobsAreComplete == Spec => []CompletedIsComplete
<1> DEFINE Inv == JobInv /\ \A j \in Job : Facts(j)
<1>1. Init => Inv
  BY JobInitInv, InitFacts
<1>2. Inv /\ [Next]_vars => Inv'
  <2> SUFFICES ASSUME Inv, [Next]_vars PROVE Inv'
    OBVIOUS
  <2>1. JobInv'
    BY JobStepInv
  <2>2. \A j \in Job : Facts(j)'
    BY <2>1, FactsStep
  <2> QED
    BY <2>1, <2>2
<1>3. Inv => CompletedIsComplete
  <2> SUFFICES ASSUME Inv, NEW j \in Job, job[j].status = "COMPLETED"
               PROVE  /\ Tiles(Saved(j))
                      /\ \A r \in Saved(j) : chunk[j][r] = "DONE"
                      /\ \A r \in Saved(j), x \in Sale : x \in got[j][r] => x \in row /\ lines[x] > 0
    BY DEF CompletedIsComplete
  <2>1. Whole(j) /\ Written(j)
    BY DEF Facts, Ends
  <2>2. \A r \in Saved(j) : r \in Span /\ got[j][r] \subseteq WithLines
    BY <2>1 DEF Whole, Written, Saved
  <2> QED
    BY <2>1, <2>2 DEF Whole, WithLines
<1> QED
  BY <1>1, <1>2, <1>3, PTL DEF Spec
==============================================================================
