----------------------------- MODULE LogisticTasks -----------------------------
(***************************************************************************)
(* Restocking tasks on top of the stock ledger (LogisticTasksService).  A  *)
(* task is one row of a batch: PENDING, then PICKED_UP once the source was *)
(* debited, then COMPLETED once the destination was credited.  The service *)
(* calls the ledger and updates the task row in separate statements, so a  *)
(* worker's call is a chain of steps that others interleave with, and that *)
(* a crash cuts between the ledger's commit and the update of the task.    *)
(***************************************************************************)
EXTENDS StockLedger

CONSTANTS
  Tasks,          \* the tasks of one batch
  Source, Target, \* elements of each task
  Load,           \* quantity of each task
  Handles,        \* tasks each worker may act on
  Clerks,         \* workers who use the Logistic screen, not the tasks
  CreatedBy,      \* who created the batch, None if the rows do not say
  MaxCrashes      \* bound on crashes of the server process

ASSUME TaskAssumption ==
  /\ Source \in [Tasks -> Elements] /\ Target \in [Tasks -> Elements]
  /\ Load \in [Tasks -> Quantities \ {Zero}]
  /\ \A k \in Tasks : Source[k] # Target[k]
  /\ Handles \in [Workers -> SUBSET Tasks]
  /\ Clerks \subseteq Workers /\ MaxCrashes \in Nat /\ None \notin Tasks

VARIABLES
  task,       \* LogisticTask rows: status and pickupMovementId
  call,       \* task call of each worker
  notified,   \* "Restockage terminé" notifications sent to the creator
  crashes,
  missed,     \* history: the last call to tell the creator was cut or failed
  disturbed   \* history: a call was cut short, or the Logistic screen was used

mishaps == <<crashes, missed, disturbed>>
taskVars == <<task, call, notified, mishaps>>
allVars == <<vars, taskVars>>

TaskRow == [status : {"PENDING", "PICKED_UP", "COMPLETED"}, mv : Transfers \cup {None}]
Call == [pc : {"idle", "pickup", "picked", "drop", "dropped", "count", "undo", "undone"},
         k : Tasks \cup {None}, mv : Transfers \cup {None}]
NoCall == [pc |-> "idle", k |-> None, mv |-> None]

(* createBatch has created every row of the batch in one transaction.      *)
TasksInit ==
  /\ Init
  /\ task = [k \in Tasks |-> [status |-> "PENDING", mv |-> None]]
  /\ call = [w \in Workers |-> NoCall]
  /\ notified = 0
  /\ crashes = 0 /\ missed = FALSE /\ disturbed = FALSE

------------------------------------------------------------------------------
Goes(w, pc) == call' = [call EXCEPT ![w].pc = pc]
At(w, pc) == call[w].pc = pc
Unchanged3 == UNCHANGED <<task, notified, mishaps>>

(* getTaskOrThrow and the status check, in a statement of their own;       *)
(* mutant: no status check.                                                *)
BeginUnchecked(w, k, status, pc) ==
  /\ At(w, "idle") /\ req[w] = Idle /\ w \notin Clerks /\ k \in Handles[w]
  /\ status = "PICKED_UP" => task[k].mv # None
  /\ call' = [call EXCEPT ![w] = [pc |-> pc, k |-> k, mv |-> task[k].mv]]
  /\ Unchanged3 /\ UNCHANGED vars

Begin(w, k, status, pc) ==
  /\ At(w, "idle") /\ req[w] = Idle /\ w \notin Clerks /\ k \in Handles[w]
  /\ task[k].status = status
  /\ status = "PICKED_UP" => task[k].mv # None
  /\ call' = [call EXCEPT ![w] = [pc |-> pc, k |-> k, mv |-> task[k].mv]]
  /\ Unchanged3 /\ UNCHANGED vars

(* pickup: createMovement of a transfer, then the update of the task row,  *)
(* which does not look at the status again.                                *)
Pickup(w, k) == Begin(w, k, "PENDING", "pickup")

PickupShip(w, upp) ==
  /\ At(w, "pickup") /\ req[w] = Idle
  /\ LET k == call[w].k IN Ship(w, Source[k], Target[k], Load[k], upp)
  /\ UNCHANGED taskVars

PickupCommit(w, t) ==
  /\ At(w, "pickup")
  /\ CommitShip(w, t)
  /\ call' = [call EXCEPT ![w].pc = "picked", ![w].mv = t]
  /\ Unchanged3

PickupUpdate(w) ==
  /\ At(w, "picked")
  /\ task' = [task EXCEPT ![call[w].k] = [status |-> "PICKED_UP", mv |-> call[w].mv]]
  /\ call' = [call EXCEPT ![w] = NoCall]
  /\ UNCHANGED <<vars, notified, mishaps>>

(* drop: confirmTransfer of the whole load, the update of the task row,    *)
(* then the count of what remains of the batch.                            *)
Drop(w, k) == Begin(w, k, "PICKED_UP", "drop")

DropRead(w) ==
  /\ At(w, "drop")
  /\ ConfirmRead(w, call[w].mv, transfer[call[w].mv].qty)
  /\ UNCHANGED taskVars

DropConfirm(w, upp) == At(w, "drop") /\ ConfirmBegin(w, upp) /\ UNCHANGED taskVars

DropCommit(w) == At(w, "drop") /\ ConfirmCommit(w) /\ Goes(w, "dropped") /\ Unchanged3

(* Mutant of Remaining: tasks under way are forgotten.                     *)
RemainingPending == {k \in Tasks : task[k].status = "PENDING"}
Remaining == {k \in Tasks : task[k].status # "COMPLETED"}

(* Mutant of DropUpdate: what remains is counted before the update.        *)
DropUpdateCountsFirst(w) ==
  /\ At(w, "dropped")
  /\ task' = [task EXCEPT ![call[w].k].status = "COMPLETED"]
  /\ notified' = IF Remaining = {} THEN notified + 1 ELSE notified
  /\ call' = [call EXCEPT ![w] = NoCall]
  /\ UNCHANGED <<vars, mishaps>>

DropUpdate(w) ==
  /\ At(w, "dropped")
  /\ task' = [task EXCEPT ![call[w].k].status = "COMPLETED"]
  /\ Goes(w, "count")
  /\ UNCHANGED <<vars, notified, mishaps>>

(* Without a createdBy nobody is told; else what remains is counted and    *)
(* the notification inserted.                                              *)
NotifyBatchCompletedIfDone(w) ==
  /\ At(w, "count")
  /\ notified' = IF CreatedBy # None /\ Remaining = {} THEN notified + 1 ELSE notified
  /\ call' = [call EXCEPT ![w] = NoCall]
  /\ UNCHANGED <<vars, task, mishaps>>

(* The calls that have yet to count what remains.                          *)
ToTell == {w \in Workers : call[w].pc \in {"dropped", "count"}}

(* Best-effort: a count or an insert that fails is caught and logged, and  *)
(* the drop answers as if nothing had happened.                            *)
NotifyFails(w) ==
  /\ At(w, "count") /\ CreatedBy # None
  /\ missed' = (missed \/ (Remaining = {} /\ ToTell = {w}))
  /\ call' = [call EXCEPT ![w] = NoCall]
  /\ UNCHANGED <<vars, task, notified, crashes, disturbed>>

(* undoPickup: reverseMovement, then the task is PENDING again.            *)
UndoPickup(w, k) == Begin(w, k, "PICKED_UP", "undo")

UndoReverse(w) == At(w, "undo") /\ ReverseBegin(w, call[w].mv) /\ UNCHANGED taskVars

UndoCommit(w) == At(w, "undo") /\ ReverseCommit(w) /\ Goes(w, "undone") /\ Unchanged3

(* Mutant: the movement is not forgotten.                                  *)
UndoUpdateKeepsMovement(w) ==
  /\ At(w, "undone")
  /\ task' = [task EXCEPT ![call[w].k].status = "PENDING"]
  /\ call' = [call EXCEPT ![w] = NoCall]
  /\ UNCHANGED <<vars, notified, mishaps>>

UndoUpdate(w) ==
  /\ At(w, "undone")
  /\ task' = [task EXCEPT ![call[w].k] = [status |-> "PENDING", mv |-> None]]
  /\ call' = [call EXCEPT ![w] = NoCall]
  /\ UNCHANGED <<vars, notified, mishaps>>

(* The ledger refuses the call (not enough stock, transfer no longer       *)
(* PENDING or gone): the exception leaves the task row as it is.           *)
Refused(w) ==
  LET c == call[w] IN
  \/ /\ c.pc = "pickup" /\ req[w] = Idle
     /\ LET d == Negated(Load[c.k])
            lv == level[Source[c.k]]
        IN  \E upp \in PackSizes : Insufficient(Plus(lv, d), d, SizeFor(upp, lv))
  \/ /\ c.pc \in {"drop", "undo"} /\ req[w] = Idle
     /\ transfer[c.mv].state # "PENDING"
  \/ /\ c.pc \in {"drop", "undo"} /\ req[w].pc \in {"confirm", "reverse"}
     /\ transfer[c.mv].state = "deleted"
  \/ c.pc \in {"pickup", "drop", "undo"} /\ req[w] # Idle /\ ~NoInsertConflict(req[w])

(* Mutant: a refused drop is logged and the call goes on.                  *)
ThrowSwallowed(w) ==
  /\ Refused(w)
  /\ call' = [call EXCEPT ![w] = IF call[w].pc = "drop" THEN [call[w] EXCEPT !.pc = "dropped"]
                                 ELSE NoCall]
  /\ req' = [req EXCEPT ![w] = Idle]
  /\ UNCHANGED <<storeVars, recount, spent, absorbed, raced>> /\ Unchanged3

Throw(w) ==
  /\ Refused(w)
  /\ call' = [call EXCEPT ![w] = NoCall]
  /\ req' = [req EXCEPT ![w] = Idle]
  /\ UNCHANGED <<storeVars, recount, spent, absorbed, raced>> /\ Unchanged3

(* The process dies: open transactions roll back, calls are not resumed.   *)
Crash ==
  /\ crashes < MaxCrashes /\ crashes' = crashes + 1 /\ disturbed' = TRUE
  /\ missed' = (missed \/ (Remaining = {} /\ ToTell # {}))
  /\ call' = [w \in Workers |-> NoCall]
  /\ req' = [w \in Workers |-> Idle]
  /\ UNCHANGED <<storeVars, recount, spent, absorbed, raced, task, notified>>

TaskStep(w) ==
  \/ \E k \in Tasks : Pickup(w, k) \/ Drop(w, k) \/ UndoPickup(w, k)
  \/ \E upp \in PackSizes : PickupShip(w, upp) \/ DropConfirm(w, upp)
  \/ \E t \in Transfers : PickupCommit(w, t)
  \/ PickupUpdate(w) \/ DropRead(w) \/ DropCommit(w) \/ DropUpdate(w)
  \/ NotifyBatchCompletedIfDone(w) \/ NotifyFails(w) \/ UndoReverse(w) \/ UndoCommit(w) \/ UndoUpdate(w)
  \/ Throw(w)

TasksNext ==
  \/ \E w \in Workers : TaskStep(w)
  \/ \E w \in Clerks : /\ WorkerStep(w) /\ disturbed' = TRUE
                       /\ UNCHANGED <<task, call, notified, crashes, missed>>
  \/ Crash

TasksSpec == TasksInit /\ [][TasksNext]_allVars

(* A started call runs on until it returns: the event loop keeps resuming  *)
(* a request whose query has been answered.  Nobody is obliged to start.   *)
Continue(w) ==
  \/ \E upp \in PackSizes : PickupShip(w, upp) \/ DropConfirm(w, upp)
  \/ \E t \in Transfers : PickupCommit(w, t)
  \/ PickupUpdate(w) \/ DropRead(w) \/ DropCommit(w) \/ DropUpdate(w)
  \/ NotifyBatchCompletedIfDone(w) \/ NotifyFails(w) \/ UndoReverse(w) \/ UndoCommit(w) \/ UndoUpdate(w)
  \/ Throw(w)

TasksFairSpec == TasksSpec /\ \A w \in Workers : WF_allVars(Continue(w))

------------------------------------------------------------------------------
Busy(k) == \E w \in Workers : call[w].k = k

(* As long as no call was cut short and the Logistic screen was not used,  *)
(* a task says between two calls where its goods are: a PENDING task has   *)
(* none on the way, a PICKED_UP one has a transfer that its drop or its    *)
(* undo will find PENDING, a COMPLETED one was delivered exactly once; and *)
(* no goods are on the way without a task that knows their transfer.       *)
TaskMatchesGoods ==
  ~disturbed =>
    /\ \A k \in Tasks : ~Busy(k) =>
         LET r == task[k] IN
         /\ r.status = "PICKED_UP" => transfer[r.mv].state = "PENDING"
         /\ r.status = "COMPLETED" => transfer[r.mv].state = "CONFIRMED" /\ transfer[r.mv].credits = 1
         /\ r.status = "PENDING" => r.mv = None
    /\ \A t \in Transfers : transfer[t].state = "PENDING" =>
         \/ \E k \in Tasks : task[k].mv = t /\ task[k].status = "PICKED_UP"
         \/ \E w \in Workers : call[w].mv = t

(* Whatever dies half-way and whatever is done from the Logistic screen, a *)
(* task is COMPLETED only after its own transfer credited the destination, *)
(* and the creator of the batch is told it is delivered only once it is.   *)
CompletedWasCredited ==
  /\ \A k \in Tasks : task[k].status = "COMPLETED" =>
       task[k].mv # None /\ transfer[task[k].mv].credits > 0
  /\ notified > 0 => Remaining = {}

(* The creator, where the rows name one, is told that the batch is         *)
(* delivered: whichever drop is the last to update its row, it or a later  *)
(* one counts nothing left.  The service tells him once, best-effort: he   *)
(* is not told if the last call that was to tell him died, or if its count *)
(* or its insert failed.  A failure of an earlier call, or a crash before  *)
(* the last task was delivered, does not keep the news from him.           *)
BatchEventuallyNotified ==
  (CreatedBy # None /\ Remaining = {}) ~> (notified > 0 \/ missed)
==============================================================================
