--------------------------- MODULE LiveAggregation ---------------------------
(***************************************************************************)
(* The live view of the sales: rows change, a trigger puts at most one job *)
(* in the queue for a (space, integration), and the worker recomputes the  *)
(* minutes touched since a watermark; from time to time a full rebuild     *)
(* recomputes an event and resets its watermark.                           *)
(*                                                                         *)
(* One space and one integration.  A cell is a minute of one event in      *)
(* SpaceRevenueMinuteAgg; a view of a cell is the set of sales it counts.  *)
(* Time is counted in ticks; updatedAt is the tick at which a change was   *)
(* sent to the database, and the change commits up to CommitLag later.     *)
(***************************************************************************)
EXTENDS Integers, FiniteSets, Sequences, SequencesExt, FiniteSetsExt

CONSTANTS
  Sale, Cell, Event,
  CellOf,       \* CellOf[s]: the cell of sale s, from its transaction date
  EventOf,      \* EventOf[c]: the event of cell c
  Grouped,      \* BOOLEAN: a job carries every event of the group (Weezevent
                \* triggers) or only the event of its sale (POS trigger)
  Overlap,      \* OVERLAP_MS
  CommitLag,    \* bound: ticks between updatedAt and the commit
  JobTime,      \* bound: ticks the worker spends on one event
  MaxTime,      \* bound: the last tick
  MaxChanges,   \* bound: changes of rows
  MaxRebuilds,  \* bound: rebuilds that are queued
  Faults,       \* what may fail: "trigger", "redis", "key", "watermark",
                \* "worker", "minutes" (an event of a minute job), "rebuild"
  MaxFaults     \* bound: faults

ASSUME LiveAssumption ==
  /\ IsFiniteSet(Sale) /\ CellOf \in [Sale -> Cell]
  /\ EventOf \in [Cell -> Event]
  /\ \A e \in Event : \E c \in Cell : EventOf[c] = e
  /\ Grouped \in BOOLEAN
  /\ {CommitLag, JobTime, MaxTime, MaxChanges, MaxRebuilds, MaxFaults} \subseteq Nat
  /\ Overlap \in Nat /\ CommitLag + JobTime < Overlap

VARIABLES
  now,
  row,          \* row[s]: the committed state of sale s and its updatedAt
  change,       \* change[s]: the row of a change not committed yet
  trig,         \* trig[s]: the next call of the trigger that follows a change
  pending,      \* the pending key of the (space, integration) exists
  queue,        \* jobs that wait, minute jobs before rebuilds
  worker,       \* the job the worker runs: its step, the events left, the cells
                \* and the mark of the current one, and when that one began
  view,         \* view[c]: the sales counted in cell c
  revenue,      \* revenue[e]: Event.revenue, the sum of the view at a rollup
  calculatedAt, \* calculatedAt[e]: Event.calculatedAt, -1 before the first
  watermark,    \* watermark[e]: the Redis watermark, -1 when there is none
  changes, rebuilds, faults   \* counters of the bounds

rowVars == <<row, change, changes>>
jobVars == <<pending, queue, trig, rebuilds>>
viewVars == <<view, revenue, calculatedAt, watermark>>
vars == <<now, row, change, trig, pending, queue, worker, view, revenue,
          calculatedAt, watermark, changes, rebuilds, faults>>

Times == 0..MaxTime
Row == [state : {"absent", "active", "deleted"}, at : Times]
Job == [kind : {"minutes", "rebuild"}, events : SUBSET Event]
Absent == [state |-> "absent", at |-> 0]
Off == [step |-> "off", job |-> [kind |-> "minutes", events |-> {}], left |-> {},
        cells |-> {}, mark |-> 0, since |-> 0]

Working == worker.step # "off"

EventOfSale(s) == EventOf[CellOf[s]]

CellsOf(e) == {c \in Cell : EventOf[c] = e}

TypeOK ==
  /\ now \in Times
  /\ row \in [Sale -> Row]
  /\ change \in [Sale -> Row]
  /\ trig \in [Sale -> {"none", "has", "set", "enqueue"}]
  /\ pending \in BOOLEAN
  /\ queue \in Seq(Job)
  /\ worker.step \in {"off", "lift", "read", "delete", "insert", "rollup", "mark"}
  /\ worker.job \in Job /\ worker.left \subseteq worker.job.events
  /\ worker.cells \subseteq Cell
  /\ view \in [Cell -> SUBSET Sale]
  /\ revenue \in [Event -> 0..Cardinality(Sale)]
  /\ calculatedAt \in [Event -> -1..now]
  /\ watermark \in [Event -> -1..now]

Init ==
  /\ now = 0
  /\ row = [s \in Sale |-> Absent]
  /\ change = [s \in Sale |-> Absent]
  /\ trig = [s \in Sale |-> "none"]
  /\ pending = FALSE
  /\ queue = <<>>
  /\ worker = Off
  /\ view = [c \in Cell |-> {}]
  /\ revenue = [e \in Event |-> 0]
  /\ calculatedAt = [e \in Event |-> -1]
  /\ watermark = [e \in Event |-> -1]
  /\ changes = 0 /\ rebuilds = 0 /\ faults = 0

Fault(kind) == kind \in Faults /\ faults < MaxFaults /\ faults' = faults + 1

-----------------------------------------------------------------------------
(* Time, and the changes of the rows.                                      *)

Tick ==
  /\ now < MaxTime
  /\ \A s \in Sale : change[s] # Absent => now < change[s].at + CommitLag
  /\ worker.step \notin {"off", "lift"} => now < worker.since + JobTime
  /\ now' = now + 1
  /\ UNCHANGED <<rowVars, jobVars, worker, viewVars, faults>>

\* A sale is written, cancelled (deletedAt) or restored.
Change(s) ==
  /\ changes < MaxChanges
  /\ change[s] = Absent /\ trig[s] = "none"
  /\ change' = [change EXCEPT ![s] =
       [state |-> IF row[s].state = "active" THEN "deleted" ELSE "active", at |-> now]]
  /\ changes' = changes + 1
  /\ UNCHANGED <<now, row, jobVars, worker, viewVars, faults>>

\* The commit, after which the trigger runs.
Commit(s) ==
  /\ change[s] # Absent
  /\ row' = [row EXCEPT ![s] = change[s]]
  /\ change' = [change EXCEPT ![s] = Absent]
  /\ trig' = [trig EXCEPT ![s] = "has"]
  /\ UNCHANGED <<now, changes, pending, queue, rebuilds, worker, viewVars, faults>>

-----------------------------------------------------------------------------
(* The trigger: has, set, enqueue.                                         *)

TriggerVars == <<now, rowVars, rebuilds, worker, viewVars>>

Coalesce(s) ==
  /\ trig[s] = "has"
  /\ pending
  /\ trig' = [trig EXCEPT ![s] = "none"]
  /\ UNCHANGED <<TriggerVars, pending, queue, faults>>

TriggerHas(s) ==
  /\ trig[s] = "has"
  /\ ~ pending
  /\ trig' = [trig EXCEPT ![s] = "set"]
  /\ UNCHANGED <<TriggerVars, pending, queue, faults>>

TriggerSet(s) ==
  /\ trig[s] = "set"
  /\ pending' = TRUE
  /\ trig' = [trig EXCEPT ![s] = "enqueue"]
  /\ UNCHANGED <<TriggerVars, queue, faults>>

JobEvents(s) == IF Grouped THEN Event ELSE {EventOfSale(s)}

IsMinutes(j) == j.kind = "minutes"

\* Minute jobs have the higher priority: they wait before the rebuilds.
Enqueue(j) ==
  \E i \in 0..Len(queue) :
    /\ IF IsMinutes(j)
         THEN /\ i > 0 => IsMinutes(queue[i])
              /\ \A n \in i+1..Len(queue) : ~ IsMinutes(queue[n])
         ELSE i = Len(queue)
    /\ queue' = InsertAt(queue, i + 1, j)

TriggerEnqueue(s) ==
  /\ trig[s] = "enqueue"
  /\ Enqueue([kind |-> "minutes", events |-> JobEvents(s)])
  /\ trig' = [trig EXCEPT ![s] = "none"]
  /\ UNCHANGED <<TriggerVars, pending, faults>>

\* The job log or the queue refuses: the key is deleted, the error swallowed.
TriggerFails(s) ==
  /\ Fault("trigger")
  /\ trig[s] = "enqueue"
  /\ pending' = FALSE
  /\ trig' = [trig EXCEPT ![s] = "none"]
  /\ UNCHANGED <<TriggerVars, queue>>

\* RedisService swallows its errors: a has that fails answers FALSE, a set that
\* fails leaves no key, and the trigger goes on.
TriggerBlind(s) ==
  /\ Fault("redis")
  /\ \/ trig[s] = "has" /\ trig' = [trig EXCEPT ![s] = "set"]
     \/ trig[s] = "set" /\ trig' = [trig EXCEPT ![s] = "enqueue"]
  /\ UNCHANGED <<TriggerVars, pending, queue>>

\* The process dies: no job, maybe a stuck key.
TriggerLost(s) ==
  /\ Fault("trigger")
  /\ trig[s] # "none"
  /\ trig' = [trig EXCEPT ![s] = "none"]
  /\ UNCHANGED <<TriggerVars, pending, queue>>

\* LIVE_PENDING_TTL_SEC: the key outlives no job for ever.
PendingExpires ==
  /\ Fault("key")
  /\ pending
  /\ pending' = FALSE
  /\ UNCHANGED <<TriggerVars, trig, queue>>

\* The reconciliation cron queues a rebuild of the group.
QueueRebuild ==
  /\ rebuilds < MaxRebuilds
  /\ rebuilds' = rebuilds + 1
  /\ Enqueue([kind |-> "rebuild", events |-> Event])
  /\ UNCHANGED <<now, rowVars, pending, trig, worker, viewVars, faults>>

-----------------------------------------------------------------------------
(* The worker: one job at a time, its events one by one.                   *)

WorkVars == <<now, rowVars, trig, rebuilds>>

Take ==
  /\ ~ Working /\ queue # <<>>
  /\ worker' = [Off EXCEPT !.step = "lift", !.job = Head(queue),
                             !.left = Head(queue).events]
  /\ queue' = Tail(queue)
  /\ UNCHANGED <<WorkVars, pending, viewVars, faults>>

\* Plausible bug: the key is left in place when the job starts.
LiftKeepingKey ==
  /\ worker.step = "lift"
  /\ worker' = [worker EXCEPT !.step = "read", !.since = now]
  /\ UNCHANGED <<WorkVars, pending, viewVars, queue, faults>>

\* A minute job deletes the key when it starts, not when it ends.
Lift ==
  /\ worker.step = "lift"
  /\ pending' = (pending /\ ~ IsMinutes(worker.job))
  /\ worker' = [worker EXCEPT !.step = "read", !.since = now]
  /\ UNCHANGED <<WorkVars, viewVars, queue, faults>>

\* A delete that fails: the key stays, and the job runs.
LiftBlind ==
  /\ Fault("redis")
  /\ worker.step = "lift"
  /\ worker' = [worker EXCEPT !.step = "read", !.since = now]
  /\ UNCHANGED <<WorkVars, pending, viewVars, queue>>

\* readWatermark: the Redis key, or else Event.calculatedAt.
ReadWatermark(e) == IF watermark[e] >= 0 THEN watermark[e] ELSE calculatedAt[e]

\* Plausible bug: no overlap below the watermark.
TouchesAfterWatermark(s, e, mark) ==
  /\ EventOfSale(s) = e
  /\ row[s].state # "absent"
  /\ mark >= 0 => row[s].at > mark

\* Plausible bug: the deleted rows are filtered out.
TouchesActive(s, e, mark) ==
  /\ EventOfSale(s) = e
  /\ row[s].state = "active"
  /\ mark >= 0 => row[s].at > mark - Overlap

\* touchedMinutes of an event: the rows written since the watermark, less the
\* overlap; the deleted ones count too.
Touches(s, e, mark) ==
  /\ EventOfSale(s) = e
  /\ row[s].state # "absent"
  /\ mark >= 0 => row[s].at > mark - Overlap

TouchedSince(e, mark) == {s \in Sale : Touches(s, e, mark)}

Touched(e) == TouchedSince(e, ReadWatermark(e))

\* The events of the job are taken in some order; the last one ends it.
Leave(e) ==
  worker' = IF worker.left = {e}
              THEN Off
              ELSE [Off EXCEPT !.step = "read", !.job = worker.job,
                               !.left = worker.left \ {e}, !.since = now]

Current == {e \in worker.left : worker.cells \cap CellsOf(e) # {}}

ReadSince(e, mark) ==
  /\ worker.step = "read" /\ worker.job.kind = "minutes" /\ e \in worker.left
  /\ \/ /\ TouchedSince(e, mark) = {}
        /\ Leave(e)
     \/ /\ TouchedSince(e, mark) # {}
        /\ worker' = [worker EXCEPT !.step = "delete",
                        !.cells = {CellOf[s] : s \in TouchedSince(e, mark)},
                        !.mark = Max({row[s].at : s \in TouchedSince(e, mark)})]
  /\ UNCHANGED <<WorkVars, viewVars, pending, queue>>

ReadTouched(e) == ReadSince(e, ReadWatermark(e)) /\ UNCHANGED faults

\* A get that fails answers null, as if Redis had no watermark.
ReadBlind(e) == Fault("redis") /\ ReadSince(e, calculatedAt[e])

StartRebuild(e) ==
  /\ worker.step = "read" /\ worker.job.kind = "rebuild" /\ e \in worker.left
  /\ worker' = [worker EXCEPT !.step = "delete", !.cells = CellsOf(e)]
  /\ UNCHANGED <<WorkVars, viewVars, pending, queue, faults>>

DeleteCells ==
  /\ worker.step = "delete"
  /\ view' = [c \in Cell |-> IF c \in worker.cells THEN {} ELSE view[c]]
  /\ worker' = [worker EXCEPT !.step = "insert"]
  /\ UNCHANGED <<WorkVars, revenue, calculatedAt, watermark, pending, queue, faults>>

Counted(c) == {s \in Sale : CellOf[s] = c /\ row[s].state = "active"}

InsertCells ==
  /\ worker.step = "insert"
  /\ view' = [c \in Cell |-> IF c \in worker.cells THEN Counted(c) ELSE view[c]]
  /\ worker' = [worker EXCEPT !.step = "rollup"]
  /\ UNCHANGED <<WorkVars, revenue, calculatedAt, watermark, pending, queue, faults>>

RevenueOf(e) == Cardinality(UNION {view[c] : c \in CellsOf(e)})

Rollup(e) ==
  /\ worker.step = "rollup" /\ e \in Current
  /\ revenue' = [revenue EXCEPT ![e] = RevenueOf(e)]
  /\ calculatedAt' = [calculatedAt EXCEPT ![e] = now]
  /\ worker' = [worker EXCEPT !.step = "mark"]
  /\ UNCHANGED <<WorkVars, view, watermark, pending, queue, faults>>

\* Plausible bug: the overlap is added to the mark instead of taken off.
NewWatermarkAhead == IF IsMinutes(worker.job) THEN worker.mark + Overlap ELSE now

\* A minute job marks the last change it read, a rebuild the present.
NewWatermark == IF IsMinutes(worker.job) THEN worker.mark ELSE now

Mark(e) ==
  /\ worker.step = "mark" /\ e \in Current
  /\ watermark' = [watermark EXCEPT ![e] = NewWatermark]
  /\ Leave(e)
  /\ UNCHANGED <<WorkVars, view, revenue, calculatedAt, pending, queue, faults>>

\* A set that fails: the former watermark stays.
MarkBlind(e) ==
  /\ Fault("redis")
  /\ worker.step = "mark" /\ e \in Current
  /\ Leave(e)
  /\ UNCHANGED <<WorkVars, viewVars, pending, queue>>

\* A query of one event fails: the error is noted, the job goes on with the
\* next event and ends as completed, so the queue does not retry it.
EventFails(e) ==
  /\ Fault(worker.job.kind)
  /\ worker.step \in {"delete", "insert", "rollup", "mark"} /\ e \in Current
  /\ Leave(e)
  /\ UNCHANGED <<WorkVars, viewVars, pending, queue>>

\* The worker dies: the queue gives the job again, from its first event.
WorkerDies ==
  /\ Fault("worker")
  /\ Working
  /\ worker' = Off
  /\ queue' = <<worker.job>> \o queue
  /\ UNCHANGED <<WorkVars, viewVars, pending>>

\* Redis forgets a watermark (its time to live, an eviction, a flush).
WatermarkLost(e) ==
  /\ Fault("watermark")
  /\ watermark[e] >= 0
  /\ watermark' = [watermark EXCEPT ![e] = -1]
  /\ UNCHANGED <<WorkVars, view, revenue, calculatedAt, pending, queue, worker>>

Trigger(s) == Coalesce(s) \/ TriggerHas(s) \/ TriggerSet(s) \/ TriggerEnqueue(s)

Work ==
  \/ Take \/ Lift \/ DeleteCells \/ InsertCells
  \/ \E e \in Event : ReadTouched(e) \/ StartRebuild(e) \/ Rollup(e) \/ Mark(e)

Faulty ==
  \/ \E s \in Sale : TriggerFails(s) \/ TriggerLost(s) \/ TriggerBlind(s)
  \/ \E e \in Event : EventFails(e) \/ WatermarkLost(e) \/ ReadBlind(e) \/ MarkBlind(e)
  \/ PendingExpires \/ WorkerDies \/ LiftBlind

Next ==
  \/ Tick \/ QueueRebuild \/ Work \/ Faulty
  \/ \E s \in Sale : Change(s) \/ Commit(s) \/ Trigger(s)

\* Transactions end, the event loop resumes a trigger, the worker runs.
Fairness ==
  /\ \A s \in Sale : WF_vars(Commit(s)) /\ WF_vars(Trigger(s))
  /\ WF_vars(Work)

Spec == Init /\ [][Next]_vars

FairSpec == Spec /\ Fairness

-----------------------------------------------------------------------------
(* Properties.                                                             *)

Shown(s) == (s \in view[CellOf[s]]) <=> (row[s].state = "active")

NextRunReads(c) == \E s \in Touched(EventOf[c]) : CellOf[s] = c

BeingRecomputed(c) == worker.step \in {"delete", "insert"} /\ c \in worker.cells

RebuildComes(e) ==
  \/ \E j \in ToSet(queue) : j.kind = "rebuild" /\ e \in j.events
  \/ worker.job.kind = "rebuild" /\ e \in worker.left \ Current

\* Whichever of these is lost, late or interrupted, a cell that does not show
\* its sales is one that the next minute job of its event would recompute: the
\* watermark never passes a change it has not taken in.  It takes two faults of
\* two kinds to break it: a job that reads from an older mark, and is cut short
\* between the delete and the insert.
Recoverable ==
  \A s \in Sale :
    \/ Shown(s)
    \/ NextRunReads(CellOf[s])
    \/ BeingRecomputed(CellOf[s])
    \/ RebuildComes(EventOfSale(s))

\* Once the changes end, the view and the revenue settle on the rows: no sale
\* is left out because its trigger found a job waiting.
EventuallyShown ==
  <>[](/\ \A s \in Sale : Shown(s)
       /\ \A e \in Event : revenue[e] = Cardinality({s \in Sale : EventOfSale(s) = e
                                                       /\ row[s].state = "active"}))

WaitingFor(e) ==
  \/ \E j \in ToSet(queue) : IsMinutes(j) /\ e \in j.events
  \/ worker.step = "lift" /\ IsMinutes(worker.job) /\ e \in worker.left
  \/ \E s \in Sale : trig[s] = "enqueue" /\ e \in JobEvents(s)

\* What the comment of the triggers says: a sale whose trigger finds the key is
\* covered by the job that waits.
CoalescedIsCovered ==
  [][\A s \in Sale : Coalesce(s) => WaitingFor(EventOfSale(s))]_vars
=============================================================================
