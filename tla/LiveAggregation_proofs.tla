------------------------ MODULE LiveAggregation_proofs ------------------------
(***************************************************************************)
(* The live view recovers, for every set of sales, minutes and events, any *)
(* number of changes and of rebuilds, and any timing where a commit and an *)
(* event of a job together take less than the overlap of the watermarks.   *)
(*                                                                         *)
(* The types hold whatever fails.  That a cell which misses a sale will be *)
(* recomputed (Recoverable) is proved for faults of one kind: either they  *)
(* leave a minute job half done, or they make the next one start from      *)
(* another mark.  TLC shows that both together do lose a sale.             *)
(*                                                                         *)
(* Recoverable is not inductive: it does not say why the next job reads a  *)
(* sale.  Covered does (it is younger than both marks), Taken relates the  *)
(* run in hand to the mark it is going to set, and Emptied keeps what a    *)
(* job cut short has deleted within the reach of the next one.             *)
(*                                                                         *)
(* Last, the pending key stands for a job still to come, as long as no     *)
(* trigger dies on its way and no call to Redis fails.                     *)
(***************************************************************************)
EXTENDS LiveAggregation, SequenceTheorems, FiniteSetTheorems, TLAPS

(* The kinds of faults that leave a minute job half done, and those that   *)
(* make the next one start from another mark.                              *)
Interrupting == {"minutes", "worker"}
Forgetting == {"watermark", "redis"}

(* The rebuilds of an event do not fail half-way, and of the two kinds of  *)
(* faults at most one occurs, or a single fault.                           *)
OneHarm ==
  /\ "rebuild" \notin Faults
  /\ MaxFaults <= 1 \/ Faults \cap Interrupting = {} \/ Faults \cap Forgetting = {}

MayInterrupt == Faults \cap Interrupting # {} /\ faults < MaxFaults
MayForget == Faults \cap Forgetting # {} /\ faults < MaxFaults

InRun == worker.step \in {"delete", "insert", "rollup", "mark"}

(* The rest of the types: the record of the worker, and no change is ahead *)
(* of its time.                                                            *)
Worker == [step : {"off", "lift", "read", "delete", "insert", "rollup", "mark"},
           job : Job, left : SUBSET Event, cells : SUBSET Cell, mark : Times, since : Times]

Typed ==
  /\ TypeOK
  /\ worker \in Worker /\ worker.mark <= now /\ worker.since <= now
  /\ {changes, rebuilds, faults} \subseteq Nat
  /\ \A s \in Sale : row[s].at <= now /\ change[s].at <= now
  /\ \A s \in Sale : change[s] # Absent => change[s].state # "absent"
  /\ \A c \in Cell : \A s \in view[c] : CellOf[s] = c /\ row[s].state # "absent"

(* A change commits in time, an event is done in time.                     *)
Timely ==
  /\ \A s \in Sale : change[s] # Absent => now <= change[s].at + CommitLag
  /\ worker.step \notin {"off", "lift"} => now <= worker.since + JobTime

(* The worker is on the cells of one event of its job.                     *)
OnOneEvent ==
  /\ worker.step = "off" => worker = Off
  /\ worker.step \in {"lift", "read"} => worker.cells = {}
  /\ InRun => \E e \in worker.left :
       /\ worker.cells \subseteq CellsOf(e)
       /\ worker.job.kind = "rebuild" => worker.cells = CellsOf(e)

(* A change that neither mark has passed, the overlap taken off.           *)
Ahead(s) ==
  /\ row[s].at > watermark[EventOfSale(s)] - Overlap
  /\ row[s].at > calculatedAt[EventOfSale(s)] - Overlap

Covered(s) ==
  \/ Shown(s)
  \/ BeingRecomputed(CellOf[s])
  \/ RebuildComes(EventOfSale(s))
  \/ Ahead(s)
  \/ ~MayForget /\ NextRunReads(CellOf[s])

(* While the worker is on an event, what it will not show of it is younger *)
(* than its reading.                                                       *)
Taken(s) ==
  InRun /\ EventOfSale(s) \in Current =>
    \/ Shown(s)
    \/ BeingRecomputed(CellOf[s])
    \/ RebuildComes(EventOfSale(s))
    \/ row[s].at >= worker.since - CommitLag

(* What a minute job has emptied, the next one would read again.           *)
Emptied ==
  worker.step \in {"delete", "insert"} /\ IsMinutes(worker.job) /\ MayInterrupt =>
    \A c \in worker.cells : NextRunReads(c)

LiveInv ==
  /\ Typed /\ Timely /\ OnOneEvent
  /\ \A s \in Sale : Covered(s) /\ Taken(s)
  /\ Emptied

------------------------------------------------------------------------------
(* A set of times has a last one.                                          *)
LEMMA LastTime ==
  ASSUME NEW n \in Nat, NEW S \in SUBSET (0..n), S # {}
  PROVE  Max(S) \in S /\ \A x \in S : x <= Max(S)
<1>. DEFINE R == OpToRel(<, Nat)
            T == {m \in Nat : n - m \in S}
<1>1. IsWellFoundedOn(R, Nat)
  BY NatLessThanWellFounded
<1>2. \A i, j \in Nat : i < j => <<i, j>> \in R
  BY DEF OpToRel
<1>. HIDE DEF R
<1>3. T \subseteq Nat /\ T # {}
  <2>1. PICK x \in S : TRUE
    OBVIOUS
  <2>2. n - x \in Nat /\ n - (n - x) = x
    OBVIOUS
  <2>. QED  BY <2>2
<1>4. PICK m \in T : \A k \in T : ~ (<<k, m>> \in R)
  <2>. HIDE DEF T
  <2>. QED  BY <1>1, <1>3, WFMin
<1>5. n - m \in S /\ m \in Nat
  OBVIOUS
<1>6. ASSUME NEW x \in S PROVE x <= n - m
  <2>1. n - x \in Nat /\ n - (n - x) = x
    OBVIOUS
  <2>2. n - x \in T
    BY <2>1
  <2>3. ~ (n - x < m)
    BY <1>2, <1>4, <1>5, <2>1, <2>2
  <2>. QED  BY <1>5, <2>1, <2>3
<1>7. \E x \in S : \A y \in S : x >= y
  BY <1>5, <1>6
<1>8. Max(S) \in S /\ \A y \in S : Max(S) >= y
  BY <1>7 DEF Max
<1>. QED  BY <1>8

(* A job in the queue stays there when others come.                        *)
LEMMA Inserted ==
  ASSUME NEW q \in Seq(Job), NEW i \in 0..Len(q), NEW j \in Job
  PROVE  /\ InsertAt(q, i + 1, j) \in Seq(Job)
         /\ ToSet(InsertAt(q, i + 1, j)) = ToSet(q) \cup {j}
<1>. DEFINE a == SubSeq(q, 1, i)
            b == SubSeq(q, i + 1, Len(q))
            r == (a \o <<j>>) \o b
<1>1. Len(q) \in Nat /\ \A n \in 1..Len(q) : q[n] \in Job
  OBVIOUS
<1>2. /\ a \in Seq(Job) /\ Len(a) = i /\ \A n \in 1..i : a[n] = q[n]
  BY <1>1, SubSeqProperties
<1>3. /\ b \in Seq(Job) /\ Len(b) = Len(q) - i /\ \A n \in 1..(Len(q) - i) : b[n] = q[i + n]
  BY <1>1, SubSeqProperties
<1>. HIDE DEF a, b
<1>4. /\ r \in Seq(Job) /\ Len(r) = Len(q) + 1
      /\ \A n \in 1..i : r[n] = q[n]
      /\ r[i + 1] = j
      /\ \A n \in (i + 2)..(Len(q) + 1) : r[n] = q[n - 1]
  <2>. DEFINE c == a \o <<j>>
  <2>1. /\ <<j>> \in Seq(Job) /\ Len(<<j>>) = 1 /\ <<j>>[1] = j
    OBVIOUS
  <2>2. /\ c \in Seq(Job) /\ Len(c) = i + 1 /\ c[i + 1] = j
        /\ \A n \in 1..i : c[n] = q[n]
    BY <1>2, <2>1, ConcatProperties
  <2>. HIDE DEF c
  <2>3. /\ c \o b \in Seq(Job) /\ Len(c \o b) = Len(q) + 1
        /\ \A n \in 1..(Len(q) + 1) :
             (c \o b)[n] = IF n <= i + 1 THEN c[n] ELSE b[n - (i + 1)]
    <3>1. /\ c \o b \in Seq(Job) /\ Len(c \o b) = Len(c) + Len(b)
          /\ \A n \in 1..(Len(c) + Len(b)) :
               (c \o b)[n] = IF n <= Len(c) THEN c[n] ELSE b[n - Len(c)]
      BY <1>3, <2>2, ConcatProperties
    <3>2. Len(c) = i + 1 /\ Len(b) = Len(q) - i /\ Len(c) + Len(b) = Len(q) + 1
      BY <1>1, <1>3, <2>2
    <3>. QED  BY <3>1, <3>2
  <2>4. ASSUME NEW n \in (i + 2)..(Len(q) + 1) PROVE (c \o b)[n] = q[n - 1]
    <3>1. n \in 1..(Len(q) + 1) /\ ~(n <= i + 1) /\ n - (i + 1) \in 1..(Len(q) - i)
          /\ i + (n - (i + 1)) = n - 1
      BY <1>1
    <3>2. (c \o b)[n] = b[n - (i + 1)]
      BY <2>3, <3>1
    <3>. QED  BY <1>3, <3>1, <3>2
  <2>5. \A n \in 1..i : (c \o b)[n] = q[n]
    BY <1>1, <2>2, <2>3
  <2>6. (c \o b)[i + 1] = j
    BY <1>1, <2>2, <2>3
  <2>7. r = c \o b
    BY DEF c
  <2>. HIDE DEF r
  <2>. QED  BY <2>3, <2>4, <2>5, <2>6, <2>7
<1>5. InsertAt(q, i + 1, j) = r
  <2>1. (i + 1) - 1 = i
    OBVIOUS
  <2>. QED  BY <2>1 DEF InsertAt, a, b
<1>. HIDE DEF r
<1>6. ToSet(r) = {r[n] : n \in 1..(Len(q) + 1)} /\ ToSet(q) = {q[n] : n \in 1..Len(q)}
  <2>1. DOMAIN r = 1..(Len(q) + 1) /\ DOMAIN q = 1..Len(q)
    BY <1>1, <1>4
  <2>. QED  BY <2>1 DEF ToSet
<1>7. ASSUME NEW n \in 1..(Len(q) + 1) PROVE r[n] \in ToSet(q) \cup {j}
  <2>1. CASE n <= i
    BY <1>1, <1>4, <1>6, <2>1
  <2>2. CASE n = i + 1
    BY <1>4, <2>2
  <2>3. CASE n > i + 1
    <3>1. n \in (i + 2)..(Len(q) + 1) /\ n - 1 \in 1..Len(q)
      BY <1>1, <2>3
    <3>. QED  BY <1>4, <1>6, <3>1
  <2>. QED  BY <1>1, <2>1, <2>2, <2>3
<1>8. ASSUME NEW n \in 1..Len(q) PROVE q[n] \in ToSet(r)
  <2>1. CASE n <= i
    <3>1. n \in 1..i /\ n \in 1..(Len(q) + 1)
      BY <1>1, <2>1
    <3>. QED  BY <1>4, <1>6, <3>1
  <2>2. CASE n > i
    <3>1. n + 1 \in (i + 2)..(Len(q) + 1) /\ (n + 1) - 1 = n /\ n + 1 \in 1..(Len(q) + 1)
      BY <1>1, <2>2
    <3>2. r[n + 1] = q[n]
      BY <1>4, <3>1
    <3>. QED  BY <1>6, <3>1, <3>2
  <2>. QED  BY <1>1, <2>1, <2>2
<1>9. j \in ToSet(r)
  BY <1>1, <1>4, <1>6
<1>. QED  BY <1>4, <1>5, <1>6, <1>7, <1>8, <1>9

(* A job that returns to the head of the queue.                            *)
LEMMA Returned ==
  ASSUME NEW q \in Seq(Job), NEW j \in Job
  PROVE  <<j>> \o q \in Seq(Job) /\ ToSet(<<j>> \o q) = ToSet(q) \cup {j}
<1>0. Len(q) \in Nat /\ DOMAIN q = 1..Len(q) /\ \A n \in 1..Len(q) : q[n] \in Job
  OBVIOUS
<1>. DEFINE r == <<j>> \o q
<1>1. /\ r \in Seq(Job) /\ Len(r) = Len(q) + 1 /\ r[1] = j
      /\ \A n \in 1..Len(q) : r[n + 1] = q[n]
  BY <1>0
<1>. HIDE DEF r
<1>2. DOMAIN r = 1..(Len(q) + 1)
  BY <1>0, <1>1
<1>3. ASSUME NEW n \in 1..(Len(q) + 1) PROVE r[n] \in ToSet(q) \cup {j}
  <2>1. CASE n = 1
    BY <1>1, <2>1
  <2>2. CASE n # 1
    <3>1. n - 1 \in 1..Len(q) /\ (n - 1) + 1 = n
      BY <1>0, <2>2
    <3>2. r[n] = q[n - 1]
      BY <1>1, <3>1
    <3>. QED  BY <1>0, <3>1, <3>2 DEF ToSet
  <2>. QED  BY <2>1, <2>2
<1>4. ASSUME NEW n \in 1..Len(q) PROVE q[n] \in ToSet(r)
  <2>1. n + 1 \in 1..(Len(q) + 1)
    BY <1>0
  <2>. QED  BY <1>1, <1>2, <2>1 DEF ToSet
<1>5. j \in ToSet(r)
  <2>1. 1 \in DOMAIN r
    BY <1>0, <1>2
  <2>. QED  BY <1>1, <2>1 DEF ToSet
<1>6. ToSet(r) = {r[n] : n \in 1..(Len(q) + 1)} /\ ToSet(q) = {q[n] : n \in 1..Len(q)}
  BY <1>0, <1>2 DEF ToSet
<1>7. ToSet(r) = ToSet(q) \cup {j}
  BY <1>3, <1>4, <1>5, <1>6
<1>. QED  BY <1>1, <1>7 DEF r

(* A job that is taken.                                                    *)
LEMMA HeadTaken ==
  ASSUME NEW q \in Seq(Job), q # <<>>
  PROVE  /\ Head(q) \in Job /\ Tail(q) \in Seq(Job)
         /\ ToSet(q) = ToSet(Tail(q)) \cup {Head(q)}
<1>1. Head(q) \in Job /\ Tail(q) \in Seq(Job) /\ q = <<Head(q)>> \o Tail(q)
  OBVIOUS
<1>2. ToSet(<<Head(q)>> \o Tail(q)) = ToSet(Tail(q)) \cup {Head(q)}
  BY <1>1, Returned
<1>. QED  BY <1>1, <1>2
------------------------------------------------------------------------------
(* What the steps of the trigger and of the clock leave alone.             *)
LEMMA InitTyped == Init => Typed /\ Timely /\ OnOneEvent
<1>. SUFFICES ASSUME Init PROVE Typed /\ Timely /\ OnOneEvent
  OBVIOUS
<1>. USE LiveAssumption
<1>1. 0 \in Times /\ Off \in Worker /\ Absent \in Row
  BY DEF Times, Off, Worker, Job, Absent, Row
<1>2. 0 \in 0..Cardinality(Sale)
  BY FS_CardinalityType
<1>3. TypeOK
  <2>1. /\ now \in Times /\ row \in [Sale -> Row] /\ change \in [Sale -> Row]
        /\ trig \in [Sale -> {"none", "has", "set", "enqueue"}]
    BY <1>1 DEF Init
  <2>2. pending \in BOOLEAN /\ queue \in Seq(Job) /\ view \in [Cell -> SUBSET Sale]
    <3>1. pending \in BOOLEAN
      BY DEF Init
    <3>2. queue \in Seq(Job)
      BY DEF Init
    <3>3. view \in [Cell -> SUBSET Sale]
      BY DEF Init
    <3>. QED  BY <3>1, <3>2, <3>3
  <2>3. /\ worker.step \in {"off", "lift", "read", "delete", "insert", "rollup", "mark"}
        /\ worker.job \in Job /\ worker.left \subseteq worker.job.events
        /\ worker.cells \subseteq Cell
    BY DEF Init, Off, Job
  <2>4. /\ revenue \in [Event -> 0..Cardinality(Sale)]
        /\ calculatedAt \in [Event -> -1..now]
        /\ watermark \in [Event -> -1..now]
    BY <1>2 DEF Init
  <2>. QED  BY <2>1, <2>2, <2>3, <2>4 DEF TypeOK
<1>4. Typed
  BY <1>1, <1>3 DEF Init, Typed, Off, Absent
<1>5. Timely /\ OnOneEvent
  BY DEF Init, Timely, OnOneEvent, Off, InRun
<1>. QED  BY <1>4, <1>5

(* The worker leaves an event.                                             *)
LEMMA LeaveRecord ==
  ASSUME Typed, NEW e \in Event, Leave(e)
  PROVE  /\ worker' \in Worker /\ worker'.mark <= now /\ worker'.since <= now
         /\ worker'.left \subseteq worker'.job.events
         /\ worker'.cells = {} /\ worker'.step \in {"off", "read"}
         /\ worker'.step = "off" => worker' = Off /\ worker.left = {e}
         /\ worker'.step = "read" => /\ worker'.job = worker.job
                                     /\ worker'.left = worker.left \ {e}
                                     /\ worker'.since = now
<1>. USE LiveAssumption
<1>1. now \in Times /\ now \in Nat /\ 0 \in Times /\ worker \in Worker
      /\ worker.left \subseteq worker.job.events
  BY DEF Typed, TypeOK, Times
<1>2. Off \in Worker /\ Off.mark = 0 /\ Off.since = 0 /\ Off.left = {} /\ Off.cells = {}
      /\ Off.step = "off"
  BY <1>1 DEF Off, Worker, Job
<1>3. CASE worker.left = {e}
  <2>1. worker' = Off
    BY <1>3 DEF Leave
  <2>. QED  BY <1>1, <1>2, <1>3, <2>1
<1>4. CASE worker.left # {e}
  <2>1. worker' = [Off EXCEPT !.step = "read", !.job = worker.job,
                              !.left = worker.left \ {e}, !.since = now]
    BY <1>4 DEF Leave
  <2>2. worker' = [step |-> "read", job |-> worker.job, left |-> worker.left \ {e},
                   cells |-> {}, mark |-> 0, since |-> now]
    BY <2>1 DEF Off
  <2>. QED  BY <1>1, <2>2 DEF Worker
<1>. QED  BY <1>3, <1>4

(* The worker reads the minutes to recompute.                              *)
LEMMA ReadRecord ==
  ASSUME Typed, NEW e \in Event, NEW m, worker.step = "read",
         TouchedSince(e, m) # {},
         worker' = [worker EXCEPT !.step = "delete",
                        !.cells = {CellOf[s] : s \in TouchedSince(e, m)},
                        !.mark = Max({row[s].at : s \in TouchedSince(e, m)})]
  PROVE  /\ worker' \in Worker /\ worker'.mark <= now /\ worker'.since <= now
         /\ worker'.left = worker.left /\ worker'.job = worker.job
         /\ worker'.since = worker.since /\ worker'.step = "delete"
         /\ worker'.cells = {CellOf[s] : s \in TouchedSince(e, m)}
         /\ worker'.cells \subseteq CellsOf(e)
<1>. USE LiveAssumption
<1>. DEFINE S == {row[s].at : s \in TouchedSince(e, m)}
            C == {CellOf[s] : s \in TouchedSince(e, m)}
<1>1. now \in Nat /\ now \in Times /\ worker \in Worker /\ row \in [Sale -> Row]
      /\ worker.since <= now
  BY DEF Typed, TypeOK, Times
<1>2. S \in SUBSET (0..now) /\ S # {}
  <2>1. \A s \in Sale : row[s].at \in 0..now
    BY <1>1 DEF Typed, Row, Times
  <2>. QED  BY <2>1 DEF TouchedSince
<1>3. Max(S) \in 0..now
  BY <1>1, <1>2, LastTime
<1>4. C \subseteq Cell /\ C \subseteq CellsOf(e)
  BY DEF TouchedSince, Touches, CellsOf, EventOfSale
<1>. HIDE DEF S, C
<1>5. worker' = [worker EXCEPT !.step = "delete", !.cells = C, !.mark = Max(S)]
  BY DEF S, C
<1>6. Max(S) \in Times /\ Max(S) <= now
  BY <1>1, <1>3 DEF Times
<1>7. worker'.step = "delete" /\ worker'.cells = C /\ worker'.mark = Max(S)
      /\ worker'.job = worker.job /\ worker'.left = worker.left /\ worker'.since = worker.since
      /\ worker' \in Worker
  BY <1>1, <1>4, <1>5, <1>6 DEF Worker
<1>. QED  BY <1>1, <1>4, <1>6, <1>7 DEF C

(* The sum of a view is at most the sales there are.                       *)
LEMMA RevenueType ==
  ASSUME Typed, NEW e \in Event
  PROVE  RevenueOf(e) \in 0..Cardinality(Sale)
<1>1. UNION {view[c] : c \in CellsOf(e)} \subseteq Sale
  BY DEF Typed, TypeOK, CellsOf
<1>2. IsFiniteSet(Sale)
  BY LiveAssumption
<1>. QED  BY <1>1, <1>2, FS_Subset, FS_CardinalityType DEF RevenueOf

(* A job that comes is put in the queue.                                   *)
LEMMA Enqueued ==
  ASSUME Typed, NEW j \in Job, Enqueue(j)
  PROVE  queue' \in Seq(Job) /\ ToSet(queue)' = ToSet(queue) \cup {j}
<1>1. queue \in Seq(Job)
  BY DEF Typed, TypeOK
<1>2. PICK i \in 0..Len(queue) : queue' = InsertAt(queue, i + 1, j)
  BY DEF Enqueue
<1>. QED  BY <1>1, <1>2, Inserted
------------------------------------------------------------------------------
(* Every step keeps the types.                                             *)
LEMMA RowsTyped ==
  ASSUME Typed, Tick \/ (\E s \in Sale : Change(s) \/ Commit(s))
  PROVE  Typed'
<1>. USE LiveAssumption
<1>0. /\ now \in Nat /\ MaxTime \in Nat /\ now <= MaxTime /\ now \in Times /\ row \in [Sale -> Row]
      /\ change \in [Sale -> Row]
  BY DEF Typed, TypeOK, Times
<1>1. CASE Tick
  <2>1. now' = now + 1 /\ now' \in Times /\ now' \in Nat
    BY <1>0, <1>1 DEF Tick, Times
  <2>2. UNCHANGED <<row, change, changes, pending, queue, trig, rebuilds, worker, view,
                    revenue, calculatedAt, watermark, faults>>
    BY <1>1 DEF Tick, rowVars, jobVars, viewVars
  <2>3. calculatedAt \in [Event -> -1..now'] /\ watermark \in [Event -> -1..now']
    <3>1. calculatedAt \in [Event -> -1..now] /\ watermark \in [Event -> -1..now]
      BY DEF Typed, TypeOK
    <3>2. \A x \in -1..now : x \in -1..(now + 1)
      BY <1>0
    <3>. QED  BY <2>1, <3>1, <3>2
  <2>4. TypeOK'
    BY <2>1, <2>2, <2>3 DEF Typed, TypeOK
  <2>5. /\ \A s \in Sale : row[s].at <= now' /\ change[s].at <= now'
        /\ worker.mark <= now' /\ worker.since <= now'
    BY <1>0, <2>1 DEF Typed, Row, Worker, Times
  <2>. QED  BY <2>2, <2>4, <2>5 DEF Typed
<1>2. ASSUME NEW s \in Sale, Change(s) PROVE Typed'
  <2>1. UNCHANGED <<now, row, pending, queue, trig, rebuilds, worker, view,
                    revenue, calculatedAt, watermark, faults>>
    BY <1>2 DEF Change, jobVars, viewVars
  <2>. DEFINE r == [state |-> IF row[s].state = "active" THEN "deleted" ELSE "active",
                    at |-> now]
  <2>2. r \in Row /\ r.at <= now /\ r.state # "absent"
    BY <1>0 DEF Row
  <2>. HIDE DEF r
  <2>3. change' = [change EXCEPT ![s] = r]
    BY <1>2 DEF Change, r
  <2>4. r # Absent
    BY <2>2 DEF Absent
  <2>5. change' \in [Sale -> Row]
    BY <1>0, <2>2, <2>3
  <2>6. \A x \in Sale : change'[x].at <= now /\ (change'[x] # Absent => change'[x].state # "absent")
    BY <1>0, <2>2, <2>3 DEF Typed
  <2>7. changes' \in Nat
    BY <1>2 DEF Change, Typed
  <2>8. TypeOK'
    BY <2>1, <2>5 DEF Typed, TypeOK
  <2>. QED  BY <2>1, <2>6, <2>7, <2>8 DEF Typed
<1>3. ASSUME NEW s \in Sale, Commit(s) PROVE Typed'
  <2>1. UNCHANGED <<now, changes, pending, queue, rebuilds, worker, view,
                    revenue, calculatedAt, watermark, faults>>
    BY <1>3 DEF Commit, viewVars
  <2>2. /\ row' = [row EXCEPT ![s] = change[s]] /\ change' = [change EXCEPT ![s] = Absent]
        /\ trig' = [trig EXCEPT ![s] = "has"] /\ change[s] # Absent
    BY <1>3 DEF Commit
  <2>3. Absent \in Row /\ Absent.at <= now
    BY <1>0 DEF Absent, Row, Times
  <2>4. row' \in [Sale -> Row] /\ change' \in [Sale -> Row]
    BY <1>0, <2>2, <2>3
  <2>5. trig' \in [Sale -> {"none", "has", "set", "enqueue"}]
    BY <2>2 DEF Typed, TypeOK
  <2>6. TypeOK'
    BY <2>1, <2>4, <2>5 DEF Typed, TypeOK
  <2>7. \A x \in Sale : /\ row'[x].at <= now /\ change'[x].at <= now
                        /\ change'[x] # Absent => change'[x].state # "absent"
    BY <1>0, <2>2, <2>3 DEF Typed
  <2>8. \A x \in Sale : row[x].state # "absent" => row'[x].state # "absent"
    BY <1>0, <2>2 DEF Typed
  <2>9. \A c \in Cell : \A x \in view[c] : CellOf[x] = c /\ row'[x].state # "absent"
    <3>1. \A c \in Cell : view[c] \subseteq Sale
      BY DEF Typed, TypeOK
    <3>. QED  BY <2>8, <3>1 DEF Typed
  <2>. QED  BY <2>1, <2>6, <2>7, <2>9 DEF Typed
<1>. QED  BY <1>1, <1>2, <1>3

LEMMA TriggerTyped ==
  ASSUME Typed,
         \/ \E s \in Sale : Trigger(s) \/ TriggerFails(s) \/ TriggerLost(s) \/ TriggerBlind(s)
         \/ PendingExpires \/ QueueRebuild
  PROVE  /\ Typed'
         /\ UNCHANGED <<now, row, change, worker, view, calculatedAt, watermark>>
         /\ ToSet(queue) \subseteq ToSet(queue)'
         /\ faults' \in {faults, faults + 1}
<1>. USE LiveAssumption
<1>0. faults \in Nat /\ trig \in [Sale -> {"none", "has", "set", "enqueue"}] /\ pending \in BOOLEAN
      /\ queue \in Seq(Job)
  BY DEF Typed, TypeOK
<1>1. ASSUME UNCHANGED <<now, row, change, changes, worker, view, revenue, calculatedAt, watermark>>,
             faults' \in {faults, faults + 1}, rebuilds' \in Nat, queue' \in Seq(Job),
             trig' \in [Sale -> {"none", "has", "set", "enqueue"}], pending' \in BOOLEAN
      PROVE  Typed'
  <2>1. TypeOK'
    BY <1>1 DEF Typed, TypeOK
  <2>2. faults' \in Nat
    BY <1>0, <1>1
  <2>. QED  BY <1>1, <2>1, <2>2 DEF Typed
<1>. DEFINE Same == UNCHANGED <<now, row, change, changes, worker, view, revenue, calculatedAt, watermark>>
<1>2. ASSUME NEW s \in Sale,
             \/ Coalesce(s) \/ TriggerHas(s) \/ TriggerSet(s)
             \/ TriggerFails(s) \/ TriggerLost(s) \/ TriggerBlind(s)
      PROVE  /\ Same /\ queue' = queue /\ rebuilds' = rebuilds /\ faults' \in {faults, faults + 1}
             /\ trig' \in [Sale -> {"none", "has", "set", "enqueue"}] /\ pending' \in BOOLEAN
  <2>1. Same /\ queue' = queue /\ rebuilds' = rebuilds
    BY <1>2 DEF Coalesce, TriggerHas, TriggerSet, TriggerFails, TriggerLost, TriggerBlind,
                TriggerVars, rowVars, viewVars
  <2>2. faults' \in {faults, faults + 1}
    BY <1>2 DEF Coalesce, TriggerHas, TriggerSet, TriggerFails, TriggerLost, TriggerBlind, Fault
  <2>3. trig' \in [Sale -> {"none", "has", "set", "enqueue"}]
    BY <1>0, <1>2 DEF Coalesce, TriggerHas, TriggerSet, TriggerFails, TriggerLost, TriggerBlind
  <2>4. pending' = pending \/ pending' = TRUE \/ pending' = FALSE
    BY <1>2 DEF Coalesce, TriggerHas, TriggerSet, TriggerFails, TriggerLost, TriggerBlind
  <2>5. pending' \in BOOLEAN
    BY <1>0, <2>4
  <2>. QED  BY <2>1, <2>2, <2>3, <2>5
<1>3. ASSUME NEW s \in Sale, TriggerEnqueue(s)
      PROVE  /\ Same /\ queue' \in Seq(Job) /\ ToSet(queue) \subseteq ToSet(queue)'
             /\ rebuilds' = rebuilds /\ faults' = faults /\ pending' = pending
             /\ trig' \in [Sale -> {"none", "has", "set", "enqueue"}]
  <2>1. [kind |-> "minutes", events |-> JobEvents(s)] \in Job
    BY DEF Job, JobEvents, EventOfSale
  <2>2. Same /\ rebuilds' = rebuilds /\ faults' = faults /\ pending' = pending
    BY <1>3 DEF TriggerEnqueue, TriggerVars, rowVars, viewVars
  <2>3. trig' \in [Sale -> {"none", "has", "set", "enqueue"}]
    BY <1>0, <1>3 DEF TriggerEnqueue
  <2>4. Enqueue([kind |-> "minutes", events |-> JobEvents(s)])
    BY <1>3 DEF TriggerEnqueue
  <2>. QED  BY <2>1, <2>2, <2>3, <2>4, Enqueued
<1>4. ASSUME PendingExpires
      PROVE  /\ Same /\ queue' = queue /\ rebuilds' = rebuilds /\ faults' \in {faults, faults + 1}
             /\ trig' = trig /\ pending' \in BOOLEAN
  <2>1. Same /\ queue' = queue /\ rebuilds' = rebuilds /\ trig' = trig
    BY <1>4 DEF PendingExpires, TriggerVars, rowVars, viewVars
  <2>2. faults' \in {faults, faults + 1}
    BY <1>4 DEF PendingExpires, Fault
  <2>3. pending' = FALSE
    BY <1>4 DEF PendingExpires
  <2>. QED  BY <2>1, <2>2, <2>3
<1>5. ASSUME QueueRebuild
      PROVE  /\ Same /\ queue' \in Seq(Job) /\ ToSet(queue) \subseteq ToSet(queue)'
             /\ rebuilds' \in Nat /\ faults' = faults /\ trig' = trig /\ pending' = pending
  <2>1. [kind |-> "rebuild", events |-> Event] \in Job
    BY DEF Job
  <2>2. Same /\ faults' = faults /\ trig' = trig /\ pending' = pending
    BY <1>5 DEF QueueRebuild, rowVars, viewVars
  <2>3. rebuilds' \in Nat
    BY <1>5 DEF QueueRebuild, Typed
  <2>4. Enqueue([kind |-> "rebuild", events |-> Event])
    BY <1>5 DEF QueueRebuild
  <2>. QED  BY <2>1, <2>2, <2>3, <2>4, Enqueued
<1>6. rebuilds \in Nat
  BY DEF Typed
<1>7. ASSUME NEW s \in Sale, Trigger(s) \/ TriggerFails(s) \/ TriggerLost(s) \/ TriggerBlind(s)
      PROVE  \/ TriggerEnqueue(s)
             \/ \/ Coalesce(s) \/ TriggerHas(s) \/ TriggerSet(s)
                \/ TriggerFails(s) \/ TriggerLost(s) \/ TriggerBlind(s)
  BY <1>7 DEF Trigger
<1>8. \/ QueueRebuild \/ PendingExpires
      \/ \E s \in Sale : TriggerEnqueue(s)
      \/ \E s \in Sale : \/ Coalesce(s) \/ TriggerHas(s) \/ TriggerSet(s)
                         \/ TriggerFails(s) \/ TriggerLost(s) \/ TriggerBlind(s)
  BY <1>7
<1>9. /\ Same /\ queue' \in Seq(Job) /\ ToSet(queue) \subseteq ToSet(queue)'
      /\ rebuilds' \in Nat /\ faults' \in {faults, faults + 1} /\ pending' \in BOOLEAN
      /\ trig' \in [Sale -> {"none", "has", "set", "enqueue"}]
  <2>1. CASE QueueRebuild
    BY <1>0, <1>5, <2>1, Zenon
  <2>2. CASE PendingExpires
    <3>. HIDE DEF Same
    <3>1. ToSet(queue)' = ToSet(queue)
      BY <1>4, <2>2 DEF ToSet
    <3>. QED  BY <1>0, <1>4, <1>6, <2>2, <3>1, Zenon
  <2>3. CASE \E s \in Sale : TriggerEnqueue(s)
    <3>. HIDE DEF Same
    <3>1. faults' \in {faults, faults + 1}
      BY <1>3, <2>3
    <3>. QED  BY <1>0, <1>3, <1>6, <2>3, <3>1, Zenon
  <2>4. CASE \E s \in Sale : \/ Coalesce(s) \/ TriggerHas(s) \/ TriggerSet(s)
                         \/ TriggerFails(s) \/ TriggerLost(s) \/ TriggerBlind(s)
    <3>. HIDE DEF Same
    <3>1. PICK s \in Sale : \/ Coalesce(s) \/ TriggerHas(s) \/ TriggerSet(s)
                         \/ TriggerFails(s) \/ TriggerLost(s) \/ TriggerBlind(s)
      BY <2>4
    <3>2. /\ Same /\ queue' = queue /\ rebuilds' = rebuilds /\ faults' \in {faults, faults + 1}
             /\ trig' \in [Sale -> {"none", "has", "set", "enqueue"}] /\ pending' \in BOOLEAN
      BY <1>2, <3>1, Zenon
    <3>3. ToSet(queue)' = ToSet(queue)
      BY <3>2 DEF ToSet
    <3>. QED  BY <1>0, <1>6, <3>2, <3>3, Zenon
  <2>. QED  BY <1>8, <2>1, <2>2, <2>3, <2>4, Zenon
<1>. QED  BY <1>1, <1>9
(* The job in hand goes from the queue to the worker and back.             *)
LEMMA JobTyped ==
  ASSUME Typed, Take \/ Lift \/ LiftBlind \/ WorkerDies
  PROVE  /\ Typed'
         /\ UNCHANGED <<now, row, change, view, calculatedAt, watermark>>
<1>. USE LiveAssumption
<1>0. /\ now \in Nat /\ now \in Times /\ 0 \in Times /\ faults \in Nat /\ pending \in BOOLEAN /\ queue \in Seq(Job)
      /\ worker \in Worker /\ worker.mark <= now /\ worker.since <= now
      /\ worker.left \subseteq worker.job.events /\ worker.job \in Job
  BY DEF Typed, TypeOK, Times
<1>1. ASSUME UNCHANGED <<now, row, change, changes, trig, rebuilds, view, revenue, calculatedAt, watermark>>,
             faults' \in {faults, faults + 1}, queue' \in Seq(Job), pending' \in BOOLEAN,
             worker' \in Worker, worker'.mark <= now, worker'.since <= now,
             worker'.left \subseteq worker'.job.events
      PROVE  Typed'
  <2>1. TypeOK'
    BY <1>1 DEF Typed, TypeOK, Worker
  <2>2. faults' \in Nat
    BY <1>0, <1>1
  <2>. QED  BY <1>1, <2>1, <2>2 DEF Typed
<1>2. UNCHANGED <<now, row, change, changes, trig, rebuilds, view, revenue, calculatedAt, watermark>>
  BY DEF Take, Lift, LiftBlind, WorkerDies, WorkVars, rowVars, viewVars
<1>3. faults' \in {faults, faults + 1}
  BY DEF Take, Lift, LiftBlind, WorkerDies, Fault
<1>4. Off \in Worker /\ Off.mark = 0 /\ Off.since = 0 /\ Off.left = {} /\ Off.job.events = {}
  BY <1>0 DEF Off, Worker, Job
<1>5. CASE Take
  <2>1. Head(queue) \in Job /\ Tail(queue) \in Seq(Job)
    BY <1>0, <1>5, HeadTaken DEF Take
  <2>. DEFINE j == Head(queue)
  <2>2. worker' = [Off EXCEPT !.step = "lift", !.job = j, !.left = j.events]
    BY <1>5 DEF Take
  <2>3. j \in Job /\ j.events \subseteq Event
    BY <2>1 DEF Job
  <2>. HIDE DEF j
  <2>4. worker' = [step |-> "lift", job |-> j, left |-> j.events, cells |-> {}, mark |-> 0, since |-> 0]
    BY <2>2 DEF Off
  <2>5. worker' \in Worker /\ worker'.mark <= now /\ worker'.since <= now
        /\ worker'.left \subseteq worker'.job.events
    BY <1>0, <2>3, <2>4 DEF Worker
  <2>6. queue' \in Seq(Job) /\ pending' = pending
    BY <1>5, <2>1 DEF Take
  <2>. QED  BY <1>0, <1>1, <1>2, <1>3, <2>5, <2>6
<1>6. CASE Lift \/ LiftBlind
  <2>1. worker' = [worker EXCEPT !.step = "read", !.since = now] /\ queue' = queue
    BY <1>6 DEF Lift, LiftBlind
  <2>2. worker' \in Worker /\ worker'.mark <= now /\ worker'.since <= now
        /\ worker'.left \subseteq worker'.job.events
    <3>1. worker' \in Worker
      BY <1>0, <2>1 DEF Worker
    <3>2. /\ worker'.mark = worker.mark /\ worker'.since = now
          /\ worker'.left = worker.left /\ worker'.job = worker.job
      BY <1>0, <2>1 DEF Worker
    <3>. QED  BY <1>0, <3>1, <3>2
  <2>3. pending' \in BOOLEAN
    <3>1. pending' = (pending /\ ~ IsMinutes(worker.job)) \/ pending' = pending
      BY <1>6, Zenon DEF Lift, LiftBlind
    <3>. QED  BY <1>0, <3>1, Zenon
  <2>. QED  BY <1>0, <1>1, <1>2, <1>3, <2>1, <2>2, <2>3
<1>7. CASE WorkerDies
  <2>1. worker' = Off /\ queue' = <<worker.job>> \o queue /\ pending' = pending
    BY <1>7 DEF WorkerDies
  <2>2. queue' \in Seq(Job)
    BY <1>0, <2>1, Returned
  <2>3. worker' \in Worker /\ worker'.mark <= now /\ worker'.since <= now
        /\ worker'.left \subseteq worker'.job.events
    BY <1>0, <1>4, <2>1
  <2>. QED  BY <1>0, <1>1, <1>2, <1>3, <2>1, <2>2, <2>3
<1>. QED  BY <1>2, <1>5, <1>6, <1>7

(* The steps on the cells of an event.                                     *)
LEMMA EventTyped ==
  ASSUME Typed,
         \/ DeleteCells \/ InsertCells
         \/ \E e \in Event : \/ ReadTouched(e) \/ StartRebuild(e) \/ Rollup(e) \/ Mark(e)
                             \/ EventFails(e) \/ ReadBlind(e) \/ MarkBlind(e)
  PROVE  Typed' /\ UNCHANGED <<now, row, change, queue>>
<1>. USE LiveAssumption
<1>0. /\ now \in Nat /\ now \in Times /\ faults \in Nat
      /\ worker \in Worker /\ worker.mark \in Times /\ worker.mark <= now /\ worker.since <= now
      /\ worker.left \subseteq worker.job.events /\ worker.job \in Job
      /\ view \in [Cell -> SUBSET Sale]
      /\ revenue \in [Event -> 0..Cardinality(Sale)]
      /\ calculatedAt \in [Event -> -1..now] /\ watermark \in [Event -> -1..now]
  <2>1. worker \in Worker /\ worker.mark \in Times
    BY DEF Typed, Worker
  <2>2. now \in Times /\ now \in Nat
    BY DEF Typed, TypeOK, Times
  <2>. QED  BY <2>1, <2>2 DEF Typed, TypeOK
<1>. DEFINE InView == \A c \in Cell : \A s \in view[c] : CellOf[s] = c /\ row[s].state # "absent"
<1>1. ASSUME UNCHANGED <<now, row, change, changes, trig, rebuilds, pending, queue>>,
             faults' \in {faults, faults + 1},
             worker' \in Worker, worker'.mark <= now, worker'.since <= now,
             worker'.left \subseteq worker'.job.events,
             view' \in [Cell -> SUBSET Sale], InView',
             revenue' \in [Event -> 0..Cardinality(Sale)],
             calculatedAt' \in [Event -> -1..now], watermark' \in [Event -> -1..now]
      PROVE  Typed'
  <2>1. TypeOK'
    BY <1>1 DEF Typed, TypeOK, Worker
  <2>2. faults' \in Nat
    BY <1>0, <1>1
  <2>. QED  BY <1>1, <2>1, <2>2 DEF Typed
<1>2. UNCHANGED <<now, row, change, changes, trig, rebuilds, pending, queue>>
  BY DEF DeleteCells, InsertCells, ReadTouched, ReadBlind, ReadSince, StartRebuild, Rollup, Mark,
         EventFails, MarkBlind, WorkVars, rowVars
<1>3. faults' \in {faults, faults + 1}
  BY DEF DeleteCells, InsertCells, ReadTouched, ReadBlind, ReadSince, StartRebuild, Rollup, Mark,
         EventFails, MarkBlind, Fault
<1>4. InView /\ (UNCHANGED <<row, view>> => InView')
  BY DEF Typed
<1>. HIDE DEF InView
<1>5. CASE DeleteCells \/ InsertCells
  <2>1. PICK t \in {"insert", "rollup"} : worker' = [worker EXCEPT !.step = t]
    BY <1>5 DEF DeleteCells, InsertCells
  <2>2. worker' \in Worker /\ worker'.mark <= now /\ worker'.since <= now
        /\ worker'.left \subseteq worker'.job.events
    BY <1>0, <2>1 DEF Worker
  <2>3. UNCHANGED <<revenue, calculatedAt, watermark>>
    BY <1>5 DEF DeleteCells, InsertCells
  <2>4. \A c \in Cell : view'[c] = {} \/ view'[c] = Counted(c) \/ view'[c] = view[c]
    BY <1>5 DEF DeleteCells, InsertCells
  <2>5. view' \in [Cell -> SUBSET Sale]
    BY <1>0, <1>5 DEF DeleteCells, InsertCells, Counted
  <2>6. \A c \in Cell : \A s \in Counted(c) : CellOf[s] = c /\ row[s].state # "absent"
    BY DEF Counted
  <2>7. InView'
    BY <1>2, <1>4, <2>4, <2>6 DEF InView
  <2>. QED  BY <1>0, <1>1, <1>2, <1>3, <2>2, <2>3, <2>5, <2>7
<1>6. ASSUME NEW e \in Event, NEW m, ReadSince(e, m) PROVE Typed'
  <2>1. UNCHANGED <<view, revenue, calculatedAt, watermark>>
    BY <1>6 DEF ReadSince, viewVars
  <2>2. CASE Leave(e)
    BY <1>0, <1>1, <1>2, <1>3, <1>4, <2>1, <2>2, LeaveRecord
  <2>3. CASE /\ TouchedSince(e, m) # {}
             /\ worker' = [worker EXCEPT !.step = "delete",
                        !.cells = {CellOf[s] : s \in TouchedSince(e, m)},
                        !.mark = Max({row[s].at : s \in TouchedSince(e, m)})]
    <3>1. worker.step = "read"
      BY <1>6 DEF ReadSince
    <3>2. /\ worker' \in Worker /\ worker'.mark <= now /\ worker'.since <= now
          /\ worker'.left = worker.left /\ worker'.job = worker.job
      BY <2>3, <3>1, ReadRecord
    <3>. QED  BY <1>0, <1>1, <1>2, <1>3, <1>4, <2>1, <3>2
  <2>. QED  BY <1>6, <2>2, <2>3 DEF ReadSince
<1>7. ASSUME NEW e \in Event, StartRebuild(e) PROVE Typed'
  <2>1. UNCHANGED <<view, revenue, calculatedAt, watermark>>
    BY <1>7 DEF StartRebuild, viewVars
  <2>2. worker' = [worker EXCEPT !.step = "delete", !.cells = CellsOf(e)]
    BY <1>7 DEF StartRebuild
  <2>3. CellsOf(e) \subseteq Cell
    BY DEF CellsOf
  <2>4. worker' \in Worker /\ worker'.mark <= now /\ worker'.since <= now
        /\ worker'.left \subseteq worker'.job.events
    BY <1>0, <2>2, <2>3 DEF Worker
  <2>. QED  BY <1>0, <1>1, <1>2, <1>3, <1>4, <2>1, <2>4
<1>8. ASSUME NEW e \in Event, Rollup(e) PROVE Typed'
  <2>1. UNCHANGED <<view, watermark>>
    BY <1>8 DEF Rollup
  <2>2. worker' = [worker EXCEPT !.step = "mark"]
    BY <1>8 DEF Rollup
  <2>3. worker' \in Worker /\ worker'.mark <= now /\ worker'.since <= now
        /\ worker'.left \subseteq worker'.job.events
    BY <1>0, <2>2 DEF Worker
  <2>4. revenue' \in [Event -> 0..Cardinality(Sale)]
    BY <1>0, <1>8, RevenueType DEF Rollup
  <2>5. calculatedAt' \in [Event -> -1..now]
    BY <1>0, <1>8 DEF Rollup
  <2>. QED  BY <1>0, <1>1, <1>2, <1>3, <1>4, <2>1, <2>3, <2>4, <2>5
<1>9. ASSUME NEW e \in Event, Mark(e) PROVE Typed'
  <2>1. UNCHANGED <<view, revenue, calculatedAt>>
    BY <1>9 DEF Mark
  <2>2. NewWatermark \in -1..now
    BY <1>0 DEF NewWatermark, Times
  <2>3. watermark' \in [Event -> -1..now]
    BY <1>0, <1>9, <2>2 DEF Mark
  <2>4. Leave(e)
    BY <1>9 DEF Mark
  <2>. QED  BY <1>0, <1>1, <1>2, <1>3, <1>4, <2>1, <2>3, <2>4, LeaveRecord
<1>10. ASSUME NEW e \in Event, EventFails(e) \/ MarkBlind(e) PROVE Typed'
  <2>1. UNCHANGED <<view, revenue, calculatedAt, watermark>> /\ Leave(e)
    BY <1>10 DEF EventFails, MarkBlind, viewVars
  <2>. QED  BY <1>0, <1>1, <1>2, <1>3, <1>4, <2>1, LeaveRecord
<1>. QED  BY <1>2, <1>5, <1>6, <1>7, <1>8, <1>9, <1>10 DEF ReadTouched, ReadBlind
LEMMA LostTyped ==
  ASSUME Typed, NEW e \in Event, WatermarkLost(e)
  PROVE  /\ Typed'
         /\ UNCHANGED <<now, row, change, worker, view, calculatedAt, queue>>
<1>1. UNCHANGED <<now, row, change, changes, trig, rebuilds, worker, view, revenue, calculatedAt,
                  pending, queue>>
  BY DEF WatermarkLost, WorkVars, rowVars
<1>2. faults' = faults + 1 /\ faults \in Nat /\ now \in Nat
  BY DEF WatermarkLost, Fault, Typed, TypeOK, Times
<1>3. watermark' \in [Event -> -1..now]
  BY <1>2 DEF WatermarkLost, Typed, TypeOK
<1>4. TypeOK'
  BY <1>1, <1>3 DEF Typed, TypeOK
<1>. QED  BY <1>1, <1>2, <1>4 DEF Typed

(* The steps of the worker on an event keep it on that event.              *)
LEMMA WorkTimely ==
  ASSUME Typed, Timely, OnOneEvent,
         \/ DeleteCells \/ InsertCells
         \/ \E e \in Event : \/ ReadTouched(e) \/ StartRebuild(e) \/ Rollup(e) \/ Mark(e)
                             \/ EventFails(e) \/ ReadBlind(e) \/ MarkBlind(e)
  PROVE  Timely' /\ OnOneEvent'
<1>. USE LiveAssumption
<1>0. /\ now \in Nat /\ worker \in Worker /\ worker.since \in Nat
      /\ worker.left \subseteq worker.job.events
      /\ UNCHANGED <<now, row, change, queue>>
  <2>1. UNCHANGED <<now, row, change, queue>>
    BY EventTyped
  <2>2. worker \in Worker /\ worker.left \subseteq worker.job.events /\ now \in Nat
    BY DEF Typed, TypeOK, Times
  <2>. QED  BY <2>1, <2>2 DEF Worker, Times
<1>1. ASSUME worker'.step \in {"off", "lift"} \/ now <= worker'.since + JobTime PROVE Timely'
  BY <1>0, <1>1 DEF Timely
<1>2. CASE DeleteCells \/ InsertCells
  <2>1. PICK t \in {"insert", "rollup"} :
          worker' = [worker EXCEPT !.step = t] /\ worker.step \in {"delete", "insert"}
    BY <1>2 DEF DeleteCells, InsertCells
  <2>2. /\ worker'.step = t /\ worker'.job = worker.job /\ worker'.left = worker.left
        /\ worker'.cells = worker.cells /\ worker'.since = worker.since
    BY <1>0, <2>1 DEF Worker
  <2>3. now <= worker.since + JobTime
    BY <2>1 DEF Timely
  <2>4. OnOneEvent'
    BY <2>1, <2>2 DEF OnOneEvent, InRun, CellsOf
  <2>. QED  BY <1>1, <2>2, <2>3, <2>4
<1>3. ASSUME NEW e \in Event, Leave(e) PROVE Timely' /\ OnOneEvent'
  <2>1. /\ worker'.cells = {} /\ worker'.step \in {"off", "read"}
        /\ (worker'.step = "off" => worker' = Off)
        /\ (worker'.step = "read" => worker'.since = now)
    BY <1>3, LeaveRecord
  <2>2. worker'.step \in {"off", "lift"} \/ now <= worker'.since + JobTime
    BY <1>0, <2>1
  <2>3. OnOneEvent'
    BY <2>1 DEF OnOneEvent, InRun
  <2>. QED  BY <1>1, <2>2, <2>3
<1>4. ASSUME NEW e \in Event, NEW m, ReadSince(e, m) PROVE Timely' /\ OnOneEvent'
  <2>1. CASE /\ TouchedSince(e, m) # {}
             /\ worker' = [worker EXCEPT !.step = "delete",
                        !.cells = {CellOf[s] : s \in TouchedSince(e, m)},
                        !.mark = Max({row[s].at : s \in TouchedSince(e, m)})]
    <3>1. worker.step = "read" /\ worker.job.kind = "minutes" /\ e \in worker.left
      BY <1>4 DEF ReadSince
    <3>2. /\ worker'.left = worker.left /\ worker'.job = worker.job
          /\ worker'.since = worker.since /\ worker'.step = "delete"
          /\ worker'.cells \subseteq CellsOf(e)
      BY <2>1, <3>1, ReadRecord
    <3>3. now <= worker.since + JobTime
      BY <3>1 DEF Timely
    <3>4. OnOneEvent'
      BY <3>1, <3>2 DEF OnOneEvent, InRun, CellsOf
    <3>. QED  BY <1>1, <3>2, <3>3, <3>4
  <2>. QED  BY <1>3, <1>4, <2>1 DEF ReadSince
<1>5. ASSUME NEW e \in Event, StartRebuild(e) PROVE Timely' /\ OnOneEvent'
  <2>1. /\ worker' = [worker EXCEPT !.step = "delete", !.cells = CellsOf(e)]
        /\ worker.step = "read" /\ e \in worker.left
    BY <1>5 DEF StartRebuild
  <2>2. /\ worker'.left = worker.left /\ worker'.job = worker.job
        /\ worker'.since = worker.since /\ worker'.step = "delete"
        /\ worker'.cells = CellsOf(e)
    BY <1>0, <2>1 DEF Worker
  <2>3. now <= worker.since + JobTime
    BY <2>1 DEF Timely
  <2>4. OnOneEvent'
    BY <2>1, <2>2 DEF OnOneEvent, InRun, CellsOf
  <2>. QED  BY <1>1, <2>2, <2>3, <2>4
<1>6. ASSUME NEW e \in Event, Rollup(e) PROVE Timely' /\ OnOneEvent'
  <2>1. worker' = [worker EXCEPT !.step = "mark"] /\ worker.step = "rollup"
    BY <1>6 DEF Rollup
  <2>2. /\ worker'.step = "mark" /\ worker'.job = worker.job /\ worker'.left = worker.left
        /\ worker'.cells = worker.cells /\ worker'.since = worker.since
    BY <1>0, <2>1 DEF Worker
  <2>3. now <= worker.since + JobTime
    BY <2>1 DEF Timely
  <2>4. OnOneEvent'
    BY <2>1, <2>2 DEF OnOneEvent, InRun, CellsOf
  <2>. QED  BY <1>1, <2>2, <2>3, <2>4
<1>7. ASSUME NEW e \in Event, Mark(e) \/ EventFails(e) \/ MarkBlind(e) PROVE Leave(e)
  BY <1>7 DEF Mark, EventFails, MarkBlind
<1>. QED  BY <1>2, <1>3, <1>4, <1>5, <1>6, <1>7 DEF ReadTouched, ReadBlind

LEMMA StepTimely == Typed /\ Timely /\ OnOneEvent /\ [Next]_vars => (Typed /\ Timely /\ OnOneEvent)'
<1>. SUFFICES ASSUME Typed, Timely, OnOneEvent, [Next]_vars PROVE (Typed /\ Timely /\ OnOneEvent)'
  OBVIOUS
<1>. USE LiveAssumption
<1>0. /\ now \in Nat /\ worker \in Worker /\ worker.since \in Nat
      /\ CommitLag \in Nat /\ JobTime \in Nat
  BY DEF Typed, TypeOK, Times, Worker
<1>1. ASSUME UNCHANGED worker PROVE OnOneEvent'
  BY <1>1 DEF OnOneEvent, InRun, CellsOf
<1>2. ASSUME UNCHANGED <<now, change, worker>> PROVE Timely'
  BY <1>2 DEF Timely
<1>3. CASE Tick
  <2>1. now' = now + 1 /\ UNCHANGED <<change, worker>>
        /\ (\A s \in Sale : change[s] # Absent => now < change[s].at + CommitLag)
        /\ (worker.step \notin {"off", "lift"} => now < worker.since + JobTime)
    BY <1>3 DEF Tick, rowVars
  <2>2. \A s \in Sale : change[s].at \in Nat
    BY DEF Typed, TypeOK, Row, Times
  <2>3. Timely'
    BY <1>0, <2>1, <2>2 DEF Timely
  <2>. QED  BY <1>1, <1>3, <2>1, <2>3, RowsTyped
<1>4. ASSUME NEW s \in Sale, Change(s) \/ Commit(s) PROVE (Typed /\ Timely /\ OnOneEvent)'
  <2>1. UNCHANGED <<now, worker>>
    BY <1>4 DEF Change, Commit
  <2>2. \A x \in Sale : change'[x] = change[x] \/ change'[x] = Absent \/ change'[x].at = now
    <3>. DEFINE r == [state |-> IF row[s].state = "active" THEN "deleted" ELSE "active",
                      at |-> now]
    <3>1. change' = [change EXCEPT ![s] = r] \/ change' = [change EXCEPT ![s] = Absent]
      BY <1>4 DEF Change, Commit
    <3>2. change \in [Sale -> Row] /\ r.at = now
      BY DEF Typed, TypeOK
    <3>. HIDE DEF r
    <3>. QED  BY <3>1, <3>2
  <2>3. Timely'
    BY <1>0, <2>1, <2>2 DEF Timely
  <2>. QED  BY <1>1, <1>4, <2>1, <2>3, RowsTyped
<1>5. CASE \/ \E s \in Sale : Trigger(s) \/ TriggerFails(s) \/ TriggerLost(s) \/ TriggerBlind(s)
           \/ PendingExpires \/ QueueRebuild
  BY <1>1, <1>2, <1>5, TriggerTyped
<1>6. CASE Take \/ Lift \/ LiftBlind \/ WorkerDies
  <2>1. Typed' /\ UNCHANGED <<now, change>>
    BY <1>6, JobTyped
  <2>2. \/ worker'.step \in {"off", "lift"} /\ (worker'.step = "off" => worker' = Off)
           /\ (worker'.step = "lift" => worker'.cells = {})
        \/ worker'.step = "read" /\ worker'.cells = {} /\ worker'.since = now
    <3>1. CASE Take
      <4>1. worker' = [Off EXCEPT !.step = "lift", !.job = Head(queue), !.left = Head(queue).events]
        BY <3>1 DEF Take
      <4>2. worker'.step = "lift" /\ worker'.cells = {}
        BY <4>1 DEF Off
      <4>. QED  BY <4>2
    <3>2. CASE Lift \/ LiftBlind
      <4>1. worker' = [worker EXCEPT !.step = "read", !.since = now] /\ worker.step = "lift"
        BY <3>2 DEF Lift, LiftBlind
      <4>2. worker.cells = {}
        BY <4>1 DEF OnOneEvent
      <4>. QED  BY <1>0, <4>1, <4>2 DEF Worker
    <3>3. CASE WorkerDies
      BY <3>3 DEF WorkerDies, Off
    <3>. QED  BY <1>6, <3>1, <3>2, <3>3
  <2>3. Timely'
    BY <1>0, <2>1, <2>2 DEF Timely
  <2>4. OnOneEvent'
    BY <2>2 DEF OnOneEvent, InRun
  <2>. QED  BY <2>1, <2>3, <2>4
<1>7. CASE \/ DeleteCells \/ InsertCells
         \/ \E e \in Event : \/ ReadTouched(e) \/ StartRebuild(e) \/ Rollup(e) \/ Mark(e)
                             \/ EventFails(e) \/ ReadBlind(e) \/ MarkBlind(e)
  BY <1>7, WorkTimely, EventTyped
<1>8. ASSUME NEW e \in Event, WatermarkLost(e) PROVE (Typed /\ Timely /\ OnOneEvent)'
  BY <1>1, <1>2, <1>8, LostTyped
<1>9. CASE UNCHANGED vars
  <2>1. UNCHANGED <<now, row, change, trig, pending, queue, worker, view, revenue,
          calculatedAt, watermark, changes, rebuilds, faults>>
    BY <1>9 DEF vars
  <2>2. TypeOK'
    BY <2>1 DEF Typed, TypeOK
  <2>3. Typed'
    BY <2>1, <2>2 DEF Typed
  <2>. QED  BY <1>1, <1>2, <2>1, <2>3
<1>. QED
  <2>1. \/ Tick \/ (\E s \in Sale : Change(s) \/ Commit(s)) \/ (\E e \in Event : WatermarkLost(e))
        \/ Take \/ Lift \/ LiftBlind \/ WorkerDies
        \/ \E s \in Sale : Trigger(s) \/ TriggerFails(s) \/ TriggerLost(s) \/ TriggerBlind(s)
        \/ PendingExpires \/ QueueRebuild
        \/ DeleteCells \/ InsertCells
        \/ \E e \in Event : \/ ReadTouched(e) \/ StartRebuild(e) \/ Rollup(e) \/ Mark(e)
                             \/ EventFails(e) \/ ReadBlind(e) \/ MarkBlind(e)
        \/ UNCHANGED vars
    BY DEF Next, Work, Faulty
  <2>. QED  BY <1>3, <1>4, <1>5, <1>6, <1>7, <1>8, <1>9, <2>1

(* The types of the live view always hold, whatever fails.                 *)
THEOREM LiveTypeOKAlways == Spec => []TypeOK
<1>1. Typed /\ Timely /\ OnOneEvent => TypeOK
  BY DEF Typed
<1>. QED  BY <1>1, InitTyped, StepTimely, PTL DEF Spec
------------------------------------------------------------------------------
(* What keeps a sale in the view, in the hands of the worker, or to be     *)
(* read.                                                                   *)
Safe == \A s \in Sale : Covered(s) /\ Taken(s)

(* The bound on the faults of the two kinds.                               *)
LEMMA AfterFault ==
  ASSUME OneHarm, Typed, faults < MaxFaults, faults' = faults + 1
  PROVE  /\ Faults \cap Forgetting # {} => ~ MayInterrupt'
         /\ Faults \cap Interrupting # {} => ~ MayForget'
<1>1. faults \in Nat /\ MaxFaults \in Nat
  BY LiveAssumption DEF Typed
<1>. QED  BY <1>1 DEF OneHarm, MayInterrupt, MayForget

LEMMA FewerFaults ==
  ASSUME Typed, faults' \in {faults, faults + 1}
  PROVE  (MayInterrupt' => MayInterrupt) /\ (MayForget' => MayForget)
<1>1. faults \in Nat /\ MaxFaults \in Nat
  BY LiveAssumption DEF Typed
<1>. QED  BY <1>1 DEF MayInterrupt, MayForget

(* What is to be read stays to be read when no mark moves, whatever a      *)
(* change that commits in time brings.                                     *)
LEMMA ReadsKept ==
  ASSUME Typed, Timely, NEW c \in Cell, NextRunReads(c),
         UNCHANGED <<calculatedAt, watermark>>,
         UNCHANGED row \/ \E s \in Sale : Commit(s)
  PROVE  NextRunReads(c)'
<1>. USE LiveAssumption
<1>. DEFINE m == ReadWatermark(EventOf[c])
<1>1. m \in Int /\ m <= now /\ now \in Nat /\ Overlap \in Nat /\ EventOf[c] \in Event
      /\ CommitLag \in Nat /\ CommitLag < Overlap /\ JobTime \in Nat
  <2>1. watermark[EventOf[c]] \in -1..now /\ calculatedAt[EventOf[c]] \in -1..now /\ now \in Nat
    BY DEF Typed, TypeOK, Times
  <2>. QED  BY <2>1 DEF ReadWatermark
<1>2. PICK x \in Sale : CellOf[x] = c /\ Touches(x, EventOf[c], m)
  BY DEF NextRunReads, Touched, TouchedSince
<1>3. m' = m
  BY DEF ReadWatermark
<1>. HIDE DEF m
<1>4. row'[x].state # "absent" /\ (m >= 0 => row'[x].at > m - Overlap)
  <2>1. CASE row'[x] = row[x]
    BY <1>2, <2>1 DEF Touches
  <2>2. CASE row'[x] # row[x]
    <3>1. PICK s \in Sale : Commit(s)
      BY <2>2
    <3>2. row' = [row EXCEPT ![s] = change[s]] /\ change[s] # Absent /\ row \in [Sale -> Row]
      BY <3>1 DEF Commit, Typed, TypeOK
    <3>3. s = x /\ row'[x] = change[x]
      BY <2>2, <3>2
    <3>4. change[x].state # "absent" /\ change[x].at \in Nat /\ now <= change[x].at + CommitLag
      <4>1. change[x] # Absent /\ x \in Sale
        BY <3>2, <3>3
      <4>2. change[x].state # "absent" /\ now <= change[x].at + CommitLag
        BY <4>1 DEF Typed, Timely
      <4>3. change[x] \in Row
        BY DEF Typed, TypeOK
      <4>. QED  BY <4>2, <4>3 DEF Row, Times
    <3>. QED  BY <1>1, <3>3, <3>4
  <2>. QED  BY <2>1, <2>2
<1>5. Touches(x, EventOf[c], m)'
  <2>1. EventOfSale(x) = EventOf[c]
    BY <1>2 DEF EventOfSale
  <2>. QED  BY <1>3, <1>4, <2>1 DEF Touches, EventOfSale
<1>. QED  BY <1>2, <1>5 DEF NextRunReads, Touched, TouchedSince, m

(* The queue and the worker as they are, or with one more job: a rebuild   *)
(* still comes.                                                            *)
LEMMA RebuildKept ==
  ASSUME UNCHANGED worker, ToSet(queue) \subseteq ToSet(queue)', NEW e \in Event, RebuildComes(e)
  PROVE  RebuildComes(e)'
BY DEF RebuildComes, Current, CellsOf

(* The clock, the triggers, the crons, and the changes on their way.       *)
LEMMA OutsideKeeps ==
  ASSUME LiveInv, UNCHANGED <<row, view, calculatedAt, watermark, worker>>,
         ToSet(queue) \subseteq ToSet(queue)', faults' \in {faults, faults + 1}
  PROVE  Safe' /\ Emptied'
<1>. USE LiveAssumption
<1>1. (MayInterrupt' => MayInterrupt) /\ (MayForget' => MayForget)
  BY FewerFaults DEF LiveInv
<1>2. \A c \in Cell : NextRunReads(c) => NextRunReads(c)'
  BY ReadsKept DEF LiveInv
<1>3. \A e \in Event : RebuildComes(e) => RebuildComes(e)'
  BY RebuildKept
<1>4. ASSUME NEW s \in Sale PROVE Covered(s)' /\ Taken(s)'
  <2>0. CellOf[s] \in Cell /\ EventOfSale(s) \in Event
    BY DEF EventOfSale
  <2>1. Covered(s) /\ Taken(s)
    BY DEF LiveInv
  <2>2. /\ Shown(s)' <=> Shown(s) 
        /\ BeingRecomputed(CellOf[s])' <=> BeingRecomputed(CellOf[s])
        /\ Ahead(s)' <=> Ahead(s)
        /\ EventOfSale(s)' = EventOfSale(s) /\ Current' = Current /\ (InRun' <=> InRun)
    BY DEF Shown, BeingRecomputed, Ahead, EventOfSale, Current, CellsOf, InRun
  <2>3. Covered(s)'
    BY <1>1, <1>2, <1>3, <2>0, <2>1, <2>2 DEF Covered
  <2>4. Taken(s)'
    BY <1>3, <2>0, <2>1, <2>2 DEF Taken
  <2>. QED  BY <2>3, <2>4
<1>5. Emptied'
  <2>1. worker.cells \subseteq Cell
    BY DEF LiveInv, Typed, TypeOK
  <2>. QED  BY <1>1, <1>2, <2>1 DEF LiveInv, Emptied, IsMinutes
<1>. QED  BY <1>4, <1>5 DEF Safe

(* A change commits.                                                       *)
LEMMA CommitKeeps ==
  ASSUME LiveInv, NEW s \in Sale, Commit(s), Typed'
  PROVE  Safe' /\ Emptied'
<1>. USE LiveAssumption
<1>0. /\ UNCHANGED <<now, view, calculatedAt, watermark, worker, queue, faults>>
      /\ row' = [row EXCEPT ![s] = change[s]] /\ change[s] # Absent
      /\ row \in [Sale -> Row]
  BY DEF Commit, viewVars, LiveInv, Typed, TypeOK
<1>1. (MayInterrupt' <=> MayInterrupt) /\ (MayForget' <=> MayForget)
  BY <1>0 DEF MayInterrupt, MayForget
<1>2. \A c \in Cell : NextRunReads(c) => NextRunReads(c)'
  BY <1>0, ReadsKept DEF LiveInv
<1>3. \A e \in Event : RebuildComes(e) => RebuildComes(e)'
  BY <1>0, RebuildKept
<1>4. ASSUME NEW x \in Sale PROVE Covered(x)' /\ Taken(x)'
  <2>0. CellOf[x] \in Cell /\ EventOfSale(x) \in Event
    BY DEF EventOfSale
  <2>1. Covered(x) /\ Taken(x)
    BY DEF LiveInv
  <2>2. CASE x # s
    <3>1. row'[x] = row[x]
      BY <1>0, <2>2
    <3>2. /\ Shown(x)' <=> Shown(x) 
          /\ BeingRecomputed(CellOf[x])' <=> BeingRecomputed(CellOf[x])
          /\ Ahead(x)' <=> Ahead(x)
          /\ EventOfSale(x)' = EventOfSale(x) /\ Current' = Current /\ (InRun' <=> InRun)
      BY <1>0, <3>1 DEF Shown, BeingRecomputed, Ahead, EventOfSale, Current, CellsOf, InRun
    <3>3. Covered(x)'
      BY <1>1, <1>2, <1>3, <2>0, <2>1, <3>2 DEF Covered
    <3>4. Taken(x)'
      BY <1>0, <1>3, <2>0, <2>1, <3>1, <3>2 DEF Taken
    <3>. QED  BY <3>3, <3>4
  <2>3. CASE x = s
    <3>1. row'[x] = change[x] /\ now <= change[x].at + CommitLag /\ change[x].at \in Nat
      BY <1>0, <2>3 DEF LiveInv, Timely, Typed, TypeOK, Row, Times
    <3>2. /\ now \in Nat /\ watermark[EventOfSale(x)] \in -1..now
          /\ calculatedAt[EventOfSale(x)] \in -1..now
          /\ worker.since \in Nat /\ worker.since <= now
      BY <2>0 DEF LiveInv, Typed, TypeOK, Times, Worker
    <3>3. CommitLag \in Nat /\ Overlap \in Nat /\ JobTime \in Nat /\ CommitLag + JobTime < Overlap
      OBVIOUS
    <3>4. /\ change[x].at > watermark[EventOfSale(x)] - Overlap
          /\ change[x].at > calculatedAt[EventOfSale(x)] - Overlap
          /\ change[x].at >= worker.since - CommitLag
      BY <3>1, <3>2, <3>3
    <3>5. Ahead(x)'
      BY <1>0, <3>1, <3>4 DEF Ahead, EventOfSale
    <3>6. Taken(x)'
      BY <1>0, <3>1, <3>4 DEF Taken
    <3>. QED  BY <3>5, <3>6 DEF Covered
  <2>. QED  BY <2>2, <2>3
<1>5. Emptied'
  <2>1. worker.cells \subseteq Cell
    BY DEF LiveInv, Typed, TypeOK
  <2>. QED  BY <1>0, <1>1, <1>2, <2>1 DEF LiveInv, Emptied, IsMinutes
<1>. QED  BY <1>4, <1>5 DEF Safe
------------------------------------------------------------------------------
(* The worker takes a job, and begins it.                                  *)
LEMMA TakeKeeps ==
  ASSUME LiveInv, Take \/ Lift \/ LiftBlind
  PROVE  Safe' /\ Emptied'
<1>. USE LiveAssumption
<1>0. /\ UNCHANGED <<now, row, view, calculatedAt, watermark>>
      /\ faults' \in {faults, faults + 1} /\ worker \in Worker /\ queue \in Seq(Job)
      /\ ~ InRun
  BY DEF Take, Lift, LiftBlind, Fault, WorkVars, rowVars, viewVars, LiveInv, Typed, TypeOK, InRun,
         Working
<1>1. (MayInterrupt' => MayInterrupt) /\ (MayForget' => MayForget)
  BY <1>0, FewerFaults DEF LiveInv
<1>2. \A c \in Cell : NextRunReads(c) => NextRunReads(c)'
  BY <1>0, ReadsKept DEF LiveInv
<1>3. /\ worker'.step \in {"lift", "read"} /\ worker'.cells = {}
      /\ \A e \in Event : RebuildComes(e) => RebuildComes(e)'
  <2>1. CASE Take
    <3>0. /\ worker.step = "off" /\ queue # <<>> /\ queue' = Tail(queue)
          /\ worker' = [Off EXCEPT !.step = "lift", !.job = Head(queue), !.left = Head(queue).events]
      BY <2>1 DEF Take, Working
    <3>1. worker = Off
      BY <3>0 DEF LiveInv, OnOneEvent
    <3>2. worker'.step = "lift" /\ worker'.cells = {} /\ worker'.job = Head(queue)
          /\ worker'.left = Head(queue).events
      BY <3>0 DEF Off
    <3>3. Current' = {}
      BY <3>2 DEF Current
    <3>4. ToSet(queue) = ToSet(queue') \cup {Head(queue)}
      BY <1>0, <3>0, HeadTaken
    <3>5. ASSUME NEW e \in Event, RebuildComes(e) PROVE RebuildComes(e)'
      <4>1. worker.job.kind # "rebuild"
        BY <3>1 DEF Off
      <4>2. PICK j \in ToSet(queue) : j.kind = "rebuild" /\ e \in j.events
        BY <3>5, <4>1 DEF RebuildComes
      <4>3. CASE j = Head(queue)
        BY <3>2, <3>3, <4>2, <4>3 DEF RebuildComes
      <4>4. CASE j \in ToSet(queue')
        BY <4>2, <4>4 DEF RebuildComes
      <4>. QED  BY <3>4, <4>2, <4>3, <4>4
    <3>. QED  BY <3>2, <3>5
  <2>2. CASE Lift \/ LiftBlind
    <3>0. /\ worker.step = "lift" /\ worker' = [worker EXCEPT !.step = "read", !.since = now]
          /\ queue' = queue
      BY <2>2 DEF Lift, LiftBlind
    <3>1. worker.cells = {}
      BY <3>0 DEF LiveInv, OnOneEvent
    <3>2. worker'.step = "read" /\ worker'.cells = {} /\ worker'.job = worker.job
          /\ worker'.left = worker.left
      BY <1>0, <3>0, <3>1 DEF Worker
    <3>3. Current' = Current
      BY <3>1, <3>2 DEF Current
    <3>4. \A e \in Event : RebuildComes(e) => RebuildComes(e)'
      BY <3>0, <3>2, <3>3 DEF RebuildComes
    <3>. QED  BY <3>2, <3>4
  <2>. QED  BY <2>1, <2>2
<1>4. ASSUME NEW s \in Sale PROVE Covered(s)' /\ Taken(s)'
  <2>0. CellOf[s] \in Cell /\ EventOfSale(s) \in Event
    BY DEF EventOfSale
  <2>1. Covered(s)
    BY DEF LiveInv
  <2>2. /\ Shown(s)' <=> Shown(s) 
        /\ ~ BeingRecomputed(CellOf[s])
        /\ Ahead(s)' <=> Ahead(s)
        /\ EventOfSale(s)' = EventOfSale(s)
    BY <1>0 DEF Shown, BeingRecomputed, Ahead, EventOfSale, InRun
  <2>3. Covered(s)'
    BY <1>1, <1>2, <1>3, <2>0, <2>1, <2>2 DEF Covered
  <2>4. Taken(s)'
    BY <1>3 DEF Taken, InRun
  <2>. QED  BY <2>3, <2>4
<1>5. Emptied'
  BY <1>3 DEF Emptied
<1>. QED  BY <1>4, <1>5 DEF Safe

(* A rebuild in hand, or the minutes that a job has emptied: where the     *)
(* worker stops, they come back.                                           *)
LEMMA LeftBehind ==
  ASSUME LiveInv, NEW s \in Sale, BeingRecomputed(CellOf[s]), MayInterrupt,
         IsMinutes(worker.job)
  PROVE  NextRunReads(CellOf[s])
BY DEF LiveInv, Emptied, BeingRecomputed

(* The worker leaves an event, its rebuilds still to come.                 *)
LEMMA LeaveRebuilds ==
  ASSUME LiveInv, NEW e \in Event, Leave(e), UNCHANGED queue,
         e \in Current \/ IsMinutes(worker.job)
  PROVE  /\ ~ InRun' /\ worker'.step \in {"off", "read"}
         /\ \A f \in Event : RebuildComes(f) => RebuildComes(f)'
<1>1. /\ worker'.cells = {} /\ worker'.step \in {"off", "read"}
      /\ worker'.step = "off" => worker.left = {e}
      /\ worker'.step = "read" => worker'.job = worker.job /\ worker'.left = worker.left \ {e}
  BY LeaveRecord DEF LiveInv
<1>2. ASSUME NEW f \in Event, RebuildComes(f) PROVE RebuildComes(f)'
  <2>1. CASE \E j \in ToSet(queue) : j.kind = "rebuild" /\ f \in j.events
    BY <2>1 DEF RebuildComes
  <2>2. CASE worker.job.kind = "rebuild" /\ f \in worker.left \ Current
    <3>1. e \in Current /\ f # e
      BY <2>2 DEF IsMinutes
    <3>2. worker'.step = "read" /\ f \in worker'.left /\ worker'.job.kind = "rebuild"
      BY <1>1, <2>2, <3>1
    <3>3. f \notin Current'
      BY <1>1 DEF Current
    <3>. QED  BY <3>2, <3>3 DEF RebuildComes
  <2>. QED  BY <1>2, <2>1, <2>2 DEF RebuildComes
<1>. QED  BY <1>1, <1>2 DEF InRun

(* Where neither the rows, the view nor the marks change, a step that ends *)
(* no recomputation loses nothing.                                         *)
LEMMA LeaveKeeps ==
  ASSUME LiveInv, NEW e \in Event, Leave(e), UNCHANGED <<queue, row, view, calculatedAt, watermark>>,
         e \in Current \/ IsMinutes(worker.job),
         faults' \in {faults, faults + 1},
         \A s \in Sale : BeingRecomputed(CellOf[s]) => ~ MayForget' /\ NextRunReads(CellOf[s])
  PROVE  Safe' /\ Emptied'
<1>. USE LiveAssumption
<1>1. /\ ~ InRun' /\ worker'.step \in {"off", "read"}
      /\ \A f \in Event : RebuildComes(f) => RebuildComes(f)'
  BY LeaveRebuilds
<1>2. MayForget' => MayForget
  BY FewerFaults DEF LiveInv
<1>3. \A c \in Cell : NextRunReads(c) => NextRunReads(c)'
  BY ReadsKept DEF LiveInv
<1>4. ASSUME NEW s \in Sale PROVE Covered(s)' /\ Taken(s)'
  <2>0. CellOf[s] \in Cell /\ EventOfSale(s) \in Event
    BY DEF EventOfSale
  <2>1. Covered(s)
    BY DEF LiveInv
  <2>2. /\ Shown(s)' <=> Shown(s)
        /\ Ahead(s)' <=> Ahead(s)
        /\ EventOfSale(s)' = EventOfSale(s)
    BY DEF Shown, Ahead, EventOfSale
  <2>3. Covered(s)'
    BY <1>1, <1>2, <1>3, <2>0, <2>1, <2>2 DEF Covered
  <2>4. Taken(s)'
    BY <1>1 DEF Taken
  <2>. QED  BY <2>3, <2>4
<1>5. Emptied'
  BY <1>1 DEF Emptied
<1>. QED  BY <1>4, <1>5 DEF Safe

LEMMA InterruptedKeeps ==
  ASSUME OneHarm, LiveInv, NEW e \in Event, EventFails(e) \/ MarkBlind(e)
  PROVE  Safe' /\ Emptied'
<1>1. /\ Leave(e) /\ UNCHANGED <<queue, row, view, calculatedAt, watermark>> /\ e \in Current
      /\ faults < MaxFaults /\ faults' = faults + 1
  BY DEF EventFails, MarkBlind, Fault, WorkVars, rowVars, viewVars
<1>2. ASSUME NEW s \in Sale, BeingRecomputed(CellOf[s])
      PROVE  ~ MayForget' /\ NextRunReads(CellOf[s])
  <2>1. worker.step # "mark"
    BY <1>2 DEF BeingRecomputed
  <2>2. EventFails(e)
    BY <2>1 DEF MarkBlind
  <2>3. worker.job.kind \in Faults /\ worker.job \in Job
    BY <2>2 DEF EventFails, Fault, LiveInv, Typed, TypeOK
  <2>4. worker.job.kind = "minutes" /\ "minutes" \in Faults
    BY <2>3 DEF OneHarm, Job
  <2>5. MayInterrupt /\ Faults \cap Interrupting # {}
    BY <1>1, <2>4 DEF MayInterrupt, Interrupting
  <2>. QED  BY <1>1, <1>2, <2>4, <2>5, AfterFault, LeftBehind DEF IsMinutes, LiveInv
<1>. QED  BY <1>1, <1>2, LeaveKeeps

(* The worker dies: the job returns to the queue.                          *)
LEMMA WorkerDiesKeeps ==
  ASSUME OneHarm, LiveInv, WorkerDies
  PROVE  Safe' /\ Emptied'
<1>. USE LiveAssumption
<1>0. /\ UNCHANGED <<row, view, calculatedAt, watermark>>
      /\ worker' = Off /\ queue' = <<worker.job>> \o queue /\ "worker" \in Faults
      /\ faults < MaxFaults /\ faults' = faults + 1
      /\ queue \in Seq(Job) /\ worker.job \in Job /\ worker.left \subseteq worker.job.events
  BY DEF WorkerDies, Fault, WorkVars, rowVars, viewVars, LiveInv, Typed, TypeOK
<1>1. MayInterrupt /\ ~ MayForget'
  <2>1. Faults \cap Interrupting # {}
    BY <1>0 DEF Interrupting
  <2>. QED  BY <1>0, <2>1, AfterFault DEF MayInterrupt, LiveInv
<1>2. \A c \in Cell : NextRunReads(c) => NextRunReads(c)'
  BY <1>0, ReadsKept DEF LiveInv
<1>3. ToSet(queue') = ToSet(queue) \cup {worker.job}
  BY <1>0, Returned
<1>4. ASSUME NEW f \in Event, RebuildComes(f) PROVE RebuildComes(f)'
  BY <1>0, <1>3, <1>4 DEF RebuildComes
<1>5. ASSUME NEW s \in Sale, BeingRecomputed(CellOf[s])
      PROVE  NextRunReads(CellOf[s])' \/ RebuildComes(EventOfSale(s))'
  <2>0. CellOf[s] \in Cell
    OBVIOUS
  <2>1. CASE IsMinutes(worker.job)
    BY <1>1, <1>2, <1>5, <2>0, <2>1, LeftBehind
  <2>2. CASE ~ IsMinutes(worker.job)
    <3>1. worker.job.kind = "rebuild"
      BY <1>0, <2>2 DEF IsMinutes, Job
    <3>2. PICK e \in worker.left : worker.cells \subseteq CellsOf(e)
      BY <1>5 DEF LiveInv, OnOneEvent, InRun, BeingRecomputed
    <3>3. EventOfSale(s) = e
      BY <1>5, <3>2 DEF BeingRecomputed, CellsOf, EventOfSale
    <3>4. RebuildComes(EventOfSale(s))'
      BY <1>0, <1>3, <3>1, <3>2, <3>3 DEF RebuildComes, EventOfSale
    <3>. QED  BY <3>4
  <2>. QED  BY <2>1, <2>2
<1>6. ASSUME NEW s \in Sale PROVE Covered(s)' /\ Taken(s)'
  <2>0. CellOf[s] \in Cell /\ EventOfSale(s) \in Event
    BY DEF EventOfSale
  <2>1. Covered(s)
    BY DEF LiveInv
  <2>2. /\ Shown(s)' <=> Shown(s)
        /\ Ahead(s)' <=> Ahead(s)
        /\ EventOfSale(s)' = EventOfSale(s)
    BY <1>0 DEF Shown, Ahead, EventOfSale
  <2>3. Covered(s)'
    BY <1>1, <1>2, <1>4, <1>5, <2>0, <2>1, <2>2 DEF Covered
  <2>4. Taken(s)'
    BY <1>0 DEF Taken, InRun, Off
  <2>. QED  BY <2>3, <2>4
<1>7. Emptied'
  BY <1>0 DEF Emptied, Off
<1>. QED  BY <1>6, <1>7 DEF Safe

(* Redis forgets a watermark.                                              *)
LEMMA LostKeeps ==
  ASSUME OneHarm, LiveInv, NEW e \in Event, WatermarkLost(e)
  PROVE  Safe' /\ Emptied'
<1>. USE LiveAssumption
<1>0. /\ UNCHANGED <<row, view, calculatedAt, worker, queue>>
      /\ watermark' = [watermark EXCEPT ![e] = -1] /\ "watermark" \in Faults
      /\ faults < MaxFaults /\ faults' = faults + 1 /\ now \in Nat
      /\ watermark \in [Event -> -1..now] /\ calculatedAt \in [Event -> -1..now]
  <2>1. now \in Nat
    BY DEF LiveInv, Typed, TypeOK, Times
  <2>2. watermark \in [Event -> -1..now] /\ calculatedAt \in [Event -> -1..now]
    BY DEF LiveInv, Typed, TypeOK
  <2>. QED  BY <2>1, <2>2 DEF WatermarkLost, Fault, WorkVars, rowVars
<1>1. MayForget /\ ~ MayInterrupt'
  <2>1. Faults \cap Forgetting # {}
    BY <1>0 DEF Forgetting
  <2>. QED  BY <1>0, <2>1, AfterFault DEF MayForget, LiveInv
<1>2. \A f \in Event : RebuildComes(f) => RebuildComes(f)'
  BY <1>0, RebuildKept
<1>3. ASSUME NEW s \in Sale PROVE Covered(s)' /\ Taken(s)'
  <2>0. CellOf[s] \in Cell /\ EventOfSale(s) \in Event
    BY DEF EventOfSale
  <2>1. Covered(s) /\ Taken(s)
    BY DEF LiveInv
  <2>2. /\ Shown(s)' <=> Shown(s)
        /\ BeingRecomputed(CellOf[s])' <=> BeingRecomputed(CellOf[s])
        /\ EventOfSale(s)' = EventOfSale(s) /\ Current' = Current /\ (InRun' <=> InRun)
    BY <1>0 DEF Shown, BeingRecomputed, EventOfSale, Current, CellsOf, InRun
  <2>3. Ahead(s) => Ahead(s)'
    <3>1. row[s].at \in Nat /\ Overlap \in Nat /\ CommitLag \in Nat /\ JobTime \in Nat
          /\ CommitLag + JobTime < Overlap
      BY DEF LiveInv, Typed, TypeOK, Row, Times
    <3>2. watermark'[EventOfSale(s)] = -1 \/ watermark'[EventOfSale(s)] = watermark[EventOfSale(s)]
      BY <1>0, <2>0
    <3>3. row[s].at > -1 - Overlap
      BY <3>1
    <3>. QED  BY <1>0, <3>2, <3>3 DEF Ahead, EventOfSale
  <2>4. Covered(s)'
    BY <1>1, <1>2, <2>0, <2>1, <2>2, <2>3 DEF Covered
  <2>5. Taken(s)'
    BY <1>0, <1>2, <2>0, <2>1, <2>2 DEF Taken
  <2>. QED  BY <2>4, <2>5
<1>4. Emptied'
  BY <1>1 DEF Emptied
<1>. QED  BY <1>3, <1>4 DEF Safe
------------------------------------------------------------------------------
(* The minutes that a job is to recompute: each sale the view misses is in  *)
(* them, or younger than the reading.                                      *)
LEMMA ReadKeeps ==
  ASSUME OneHarm, LiveInv, NEW e \in Event, ReadTouched(e) \/ ReadBlind(e)
  PROVE  Safe' /\ Emptied'
<1>. USE LiveAssumption
<1>. DEFINE m == IF ReadTouched(e) THEN ReadWatermark(e) ELSE calculatedAt[e]
<1>0. /\ ReadSince(e, m) /\ UNCHANGED <<row, view, calculatedAt, watermark, queue>>
      /\ faults' \in {faults, faults + 1}
      /\ worker.step = "read" /\ worker.job.kind = "minutes" /\ e \in worker.left
      /\ now \in Nat
  <2>1. ReadSince(e, m)
    BY DEF ReadTouched, ReadBlind
  <2>2. now \in Nat
    BY DEF LiveInv, Typed, TypeOK, Times
  <2>. QED  BY <2>1, <2>2 DEF ReadTouched, ReadBlind, ReadSince, Fault, WorkVars, rowVars, viewVars
<1>1. \/ m = ReadWatermark(e) /\ faults' = faults
      \/ m = calculatedAt[e] /\ MayForget /\ ~ MayInterrupt'
  <2>1. CASE ReadTouched(e)
    BY <2>1 DEF ReadTouched
  <2>2. CASE ~ ReadTouched(e)
    <3>1. "redis" \in Faults /\ faults < MaxFaults /\ faults' = faults + 1
      BY <2>2 DEF ReadBlind, Fault
    <3>2. Faults \cap Forgetting # {}
      BY <3>1 DEF Forgetting
    <3>. QED  BY <2>2, <3>1, <3>2, AfterFault DEF MayForget, LiveInv
  <2>. QED  BY <2>1, <2>2
<1>2. (MayInterrupt' => MayInterrupt) /\ (MayForget' => MayForget)
  BY <1>0, FewerFaults DEF LiveInv
<1>3. m = watermark[e] \/ m = calculatedAt[e]
  BY <1>1 DEF ReadWatermark
<1>. HIDE DEF m
<1>4. CASE Leave(e)
  <2>1. \A s \in Sale : ~ BeingRecomputed(CellOf[s])
    BY <1>0 DEF BeingRecomputed
  <2>. QED  BY <1>0, <1>4, <2>1, LeaveKeeps DEF IsMinutes
<1>5. CASE /\ TouchedSince(e, m) # {}
           /\ worker' = [worker EXCEPT !.step = "delete",
                        !.cells = {CellOf[s] : s \in TouchedSince(e, m)},
                        !.mark = Max({row[s].at : s \in TouchedSince(e, m)})]
  <2>1. /\ worker'.left = worker.left /\ worker'.job = worker.job
        /\ worker'.since = worker.since /\ worker'.step = "delete"
        /\ worker'.cells = {CellOf[s] : s \in TouchedSince(e, m)}
        /\ worker'.cells \subseteq CellsOf(e)
    BY <1>0, <1>5, ReadRecord DEF LiveInv
  <2>2. \A c \in Cell : NextRunReads(c) <=> NextRunReads(c)'
    BY <1>0 DEF NextRunReads, Touched, TouchedSince, Touches, EventOfSale, ReadWatermark
  <2>3. \A f \in Event : RebuildComes(f) => RebuildComes(f)'
    BY <1>0 DEF RebuildComes
  <2>4. \A f \in Current' : f = e
    BY <2>1 DEF Current, CellsOf
  <2>5. ASSUME NEW s \in Sale PROVE Covered(s)' /\ Taken(s)'
    <3>0. CellOf[s] \in Cell /\ EventOfSale(s) \in Event
      BY DEF EventOfSale
    <3>1. Covered(s)
      BY DEF LiveInv
    <3>2. /\ Shown(s)' <=> Shown(s)
          /\ ~ BeingRecomputed(CellOf[s])
          /\ Ahead(s)' <=> Ahead(s)
          /\ EventOfSale(s)' = EventOfSale(s)
      BY <1>0 DEF Shown, Ahead, EventOfSale, BeingRecomputed
    <3>3. Covered(s)'
      BY <1>2, <2>2, <2>3, <3>0, <3>1, <3>2 DEF Covered
    <3>4. ASSUME EventOfSale(s) = e, ~ Shown(s), ~ RebuildComes(e)
          PROVE  CellOf[s] \in worker'.cells
      <4>1. row[s].state # "absent"
        BY <3>4 DEF Shown, LiveInv, Typed
      <4>2. CASE Ahead(s)
        <5>1. Touches(s, e, m)
          BY <1>3, <3>4, <4>1, <4>2 DEF Ahead, Touches
        <5>. QED  BY <2>1, <5>1 DEF TouchedSince
      <4>3. CASE ~ MayForget /\ NextRunReads(CellOf[s])
        <5>1. m = ReadWatermark(e)
          BY <1>1, <4>3
        <5>2. PICK x \in TouchedSince(e, m) : CellOf[x] = CellOf[s]
          BY <3>4, <4>3, <5>1 DEF NextRunReads, Touched, EventOfSale
        <5>. QED  BY <2>1, <5>2
      <4>. QED  BY <3>1, <3>2, <3>4, <4>2, <4>3 DEF Covered
    <3>5. Taken(s)'
      <4>1. CASE EventOfSale(s) \in Current' /\ ~ Shown(s) /\ ~ RebuildComes(e)
        <5>1. CellOf[s] \in worker'.cells
          BY <2>4, <3>4, <4>1
        <5>2. BeingRecomputed(CellOf[s])'
          BY <2>1, <5>1 DEF BeingRecomputed
        <5>. QED  BY <5>2 DEF Taken
      <4>2. CASE EventOfSale(s) \in Current' /\ RebuildComes(e)
        <5>1. EventOfSale(s) = e /\ RebuildComes(e)'
          BY <2>3, <2>4, <4>2
        <5>2. RebuildComes(EventOfSale(s))'
          BY <3>2, <5>1
        <5>. QED  BY <5>2 DEF Taken
      <4>3. CASE EventOfSale(s) \in Current' /\ Shown(s)
        BY <3>2, <4>3 DEF Taken
      <4>4. CASE EventOfSale(s) \notin Current'
        BY <3>2, <4>4 DEF Taken
      <4>. QED  BY <4>1, <4>2, <4>3, <4>4
    <3>. QED  BY <3>3, <3>5
  <2>6. Emptied'
    <3>1. ASSUME MayInterrupt', NEW c \in worker'.cells PROVE NextRunReads(c)'
      <4>1. m = ReadWatermark(e)
        BY <1>1, <3>1
      <4>2. PICK s \in TouchedSince(e, m) : c = CellOf[s]
        BY <2>1
      <4>3. c \in Cell /\ EventOf[c] = e
        BY <4>2 DEF TouchedSince, Touches, EventOfSale
      <4>4. NextRunReads(c)
        BY <4>1, <4>2, <4>3 DEF NextRunReads, Touched
      <4>. QED  BY <2>2, <4>3, <4>4
    <3>. QED  BY <3>1 DEF Emptied
  <2>. QED  BY <2>5, <2>6 DEF Safe
<1>. QED  BY <1>0, <1>4, <1>5 DEF ReadSince

(* A rebuild takes up an event: all its cells.                             *)
LEMMA StartRebuildKeeps ==
  ASSUME LiveInv, NEW e \in Event, StartRebuild(e)
  PROVE  Safe' /\ Emptied'
<1>. USE LiveAssumption
<1>0. /\ UNCHANGED <<row, view, calculatedAt, watermark, queue, faults>>
      /\ worker.step = "read" /\ worker.job.kind = "rebuild" /\ e \in worker.left
      /\ worker' = [worker EXCEPT !.step = "delete", !.cells = CellsOf(e)]
      /\ worker \in Worker
  BY DEF StartRebuild, WorkVars, rowVars, viewVars, LiveInv, Typed
<1>1. /\ worker'.left = worker.left /\ worker'.job = worker.job /\ worker'.step = "delete"
      /\ worker'.cells = CellsOf(e)
  BY <1>0 DEF Worker
<1>2. \A c \in Cell : NextRunReads(c) <=> NextRunReads(c)'
  BY <1>0 DEF NextRunReads, Touched, TouchedSince, Touches, EventOfSale, ReadWatermark
<1>3. \A f \in Current' : f = e
  BY <1>1 DEF Current, CellsOf
<1>4. \A f \in Event : RebuildComes(f) => f = e \/ RebuildComes(f)'
  BY <1>0, <1>1, <1>3 DEF RebuildComes
<1>5. MayForget' <=> MayForget
  BY <1>0 DEF MayForget
<1>6. ASSUME NEW s \in Sale PROVE Covered(s)' /\ Taken(s)'
  <2>0. CellOf[s] \in Cell /\ EventOfSale(s) \in Event
    BY DEF EventOfSale
  <2>1. Covered(s)
    BY DEF LiveInv
  <2>2. /\ Shown(s)' <=> Shown(s)
        /\ ~ BeingRecomputed(CellOf[s])
        /\ Ahead(s)' <=> Ahead(s)
        /\ EventOfSale(s)' = EventOfSale(s)
    BY <1>0 DEF Shown, Ahead, EventOfSale, BeingRecomputed
  <2>3. EventOfSale(s) = e => BeingRecomputed(CellOf[s])'
    BY <1>1, <2>0 DEF BeingRecomputed, CellsOf, EventOfSale
  <2>4. Covered(s)'
    BY <1>2, <1>4, <1>5, <2>0, <2>1, <2>2, <2>3 DEF Covered
  <2>5. Taken(s)'
    BY <1>3, <2>2, <2>3 DEF Taken
  <2>. QED  BY <2>4, <2>5
<1>7. Emptied'
  BY <1>0, <1>1 DEF Emptied, IsMinutes
<1>. QED  BY <1>6, <1>7 DEF Safe

(* The cells are deleted, then inserted from the rows.                     *)
LEMMA CellsKeep ==
  ASSUME LiveInv, DeleteCells \/ InsertCells
  PROVE  Safe' /\ Emptied'
<1>. USE LiveAssumption
<1>0. /\ UNCHANGED <<row, calculatedAt, watermark, queue, faults>>
      /\ worker.step \in {"delete", "insert"} /\ worker \in Worker
      /\ view \in [Cell -> SUBSET Sale] /\ worker.cells \subseteq Cell
  BY DEF DeleteCells, InsertCells, WorkVars, rowVars, LiveInv, Typed, TypeOK
<1>1. /\ worker'.left = worker.left /\ worker'.job = worker.job /\ worker'.cells = worker.cells
      /\ worker'.since = worker.since
      /\ DeleteCells => worker'.step = "insert"
      /\ InsertCells => worker'.step = "rollup"
  BY <1>0 DEF DeleteCells, InsertCells, Worker
<1>2. \A c \in Cell : NextRunReads(c) <=> NextRunReads(c)'
  BY <1>0 DEF NextRunReads, Touched, TouchedSince, Touches, EventOfSale, ReadWatermark
<1>3. Current' = Current
  BY <1>1 DEF Current, CellsOf
<1>4. \A f \in Event : RebuildComes(f) <=> RebuildComes(f)'
  BY <1>0, <1>1, <1>3 DEF RebuildComes
<1>5. (MayForget' <=> MayForget) /\ (MayInterrupt' <=> MayInterrupt)
  BY <1>0 DEF MayForget, MayInterrupt
<1>6. ASSUME NEW s \in Sale PROVE Covered(s)' /\ Taken(s)'
  <2>0. CellOf[s] \in Cell /\ EventOfSale(s) \in Event
    BY DEF EventOfSale
  <2>1. Covered(s) /\ Taken(s)
    BY DEF LiveInv
  <2>2. Ahead(s)' <=> Ahead(s)
    BY <1>0 DEF Ahead, EventOfSale
  <2>3. CASE CellOf[s] \in worker.cells
    <3>1. Shown(s)' \/ BeingRecomputed(CellOf[s])'
      <4>1. CASE DeleteCells
        BY <1>1, <2>3, <4>1 DEF BeingRecomputed
      <4>2. CASE InsertCells
        <5>1. view'[CellOf[s]] = Counted(CellOf[s])
          BY <2>0, <2>3, <4>2 DEF InsertCells
        <5>. QED  BY <1>0, <5>1 DEF Shown, Counted
      <4>. QED  BY <4>1, <4>2
    <3>. QED  BY <3>1 DEF Covered, Taken
  <2>4. CASE CellOf[s] \notin worker.cells
    <3>1. view'[CellOf[s]] = view[CellOf[s]]
      BY <2>0, <2>4 DEF DeleteCells, InsertCells
    <3>2. (Shown(s)' <=> Shown(s)) /\ ~ BeingRecomputed(CellOf[s])
      BY <1>0, <2>4, <3>1 DEF Shown, BeingRecomputed
    <3>3. Covered(s)'
      BY <1>2, <1>4, <1>5, <2>0, <2>1, <2>2, <3>2 DEF Covered
    <3>4. InRun /\ EventOfSale(s)' = EventOfSale(s)
      BY <1>0 DEF InRun, EventOfSale
    <3>5. Taken(s)'
      BY <1>0, <1>1, <1>3, <1>4, <2>0, <2>1, <3>2, <3>4 DEF Taken
    <3>. QED  BY <3>3, <3>5
  <2>. QED  BY <2>3, <2>4
<1>7. Emptied'
  BY <1>0, <1>1, <1>2, <1>5 DEF LiveInv, Emptied, IsMinutes
<1>. QED  BY <1>6, <1>7 DEF Safe

(* A change that an event run did not take in is younger than any mark the *)
(* run can set.                                                            *)
LEMMA Younger ==
  ASSUME LiveInv, NEW s \in Sale, worker.step \in {"rollup", "mark"},
         row[s].at >= worker.since - CommitLag, NEW m \in -1..now
  PROVE  row[s].at > m - Overlap
<1>. USE LiveAssumption
<1>1. /\ row[s].at \in Nat /\ Overlap \in Nat /\ CommitLag \in Nat /\ JobTime \in Nat
      /\ CommitLag + JobTime < Overlap /\ now \in Nat /\ worker.since \in Nat
  BY DEF LiveInv, Typed, TypeOK, Row, Times, Worker
<1>2. now <= worker.since + JobTime
  BY DEF LiveInv, Timely
<1>. QED  BY <1>1, <1>2

(* The revenue is summed and calculatedAt moves.                           *)
LEMMA RollupKeeps ==
  ASSUME LiveInv, NEW e \in Event, Rollup(e)
  PROVE  Safe' /\ Emptied'
<1>. USE LiveAssumption
<1>0. /\ UNCHANGED <<row, view, watermark, queue, faults>> /\ now \in Nat
      /\ worker.step = "rollup" /\ e \in Current /\ worker \in Worker
      /\ worker' = [worker EXCEPT !.step = "mark"]
      /\ calculatedAt' = [calculatedAt EXCEPT ![e] = now]
      /\ calculatedAt \in [Event -> -1..now] /\ watermark \in [Event -> -1..now]
  <2>1. now \in Nat
    BY DEF LiveInv, Typed, TypeOK, Times
  <2>. QED  BY <2>1 DEF Rollup, WorkVars, rowVars, LiveInv, Typed, TypeOK
<1>1. /\ worker'.left = worker.left /\ worker'.job = worker.job /\ worker'.cells = worker.cells
      /\ worker'.since = worker.since /\ worker'.step = "mark"
  BY <1>0 DEF Worker
<1>2. \A c \in Cell : EventOf[c] # e => (NextRunReads(c) <=> NextRunReads(c)')
  BY <1>0 DEF NextRunReads, Touched, TouchedSince, Touches, EventOfSale, ReadWatermark
<1>3. Current' = Current
  BY <1>1 DEF Current, CellsOf
<1>4. \A f \in Event : RebuildComes(f) <=> RebuildComes(f)'
  BY <1>0, <1>1, <1>3 DEF RebuildComes
<1>5. MayForget' <=> MayForget
  BY <1>0 DEF MayForget
<1>6. ASSUME NEW s \in Sale PROVE Covered(s)' /\ Taken(s)'
  <2>0. CellOf[s] \in Cell /\ EventOfSale(s) \in Event /\ EventOfSale(s) = EventOf[CellOf[s]]
    BY DEF EventOfSale
  <2>1. Covered(s) /\ Taken(s)
    BY DEF LiveInv
  <2>2. /\ Shown(s)' <=> Shown(s)
        /\ ~ BeingRecomputed(CellOf[s])
        /\ EventOfSale(s)' = EventOfSale(s) /\ InRun
    BY <1>0 DEF Shown, EventOfSale, BeingRecomputed, InRun
  <2>3. Taken(s)'
    BY <1>0, <1>1, <1>3, <1>4, <2>0, <2>1, <2>2 DEF Taken
  <2>4. CASE EventOfSale(s) = e
    <3>1. Shown(s) \/ RebuildComes(e) \/ row[s].at >= worker.since - CommitLag
      BY <1>0, <2>1, <2>2, <2>4 DEF Taken
    <3>2. CASE row[s].at >= worker.since - CommitLag
      <4>1. row[s].at > now - Overlap /\ row[s].at > watermark[e] - Overlap
        BY <1>0, <3>2, Younger
      <4>2. Ahead(s)'
        BY <1>0, <2>2, <2>4, <4>1 DEF Ahead
      <4>. QED  BY <2>3, <4>2 DEF Covered
    <3>3. CASE Shown(s) \/ RebuildComes(e)
      BY <1>4, <2>0, <2>2, <2>3, <2>4, <3>3 DEF Covered
    <3>. QED  BY <3>1, <3>2, <3>3
  <2>5. CASE EventOfSale(s) # e
    <3>1. Ahead(s)' <=> Ahead(s)
      BY <1>0, <2>0, <2>2, <2>5 DEF Ahead
    <3>. QED  BY <1>2, <1>4, <1>5, <2>0, <2>1, <2>2, <2>3, <2>5, <3>1 DEF Covered
  <2>. QED  BY <2>4, <2>5
<1>7. Emptied'
  BY <1>1 DEF Emptied
<1>. QED  BY <1>6, <1>7 DEF Safe

(* The watermark moves.                                                    *)
LEMMA MarkKeeps ==
  ASSUME LiveInv, NEW e \in Event, Mark(e)
  PROVE  Safe' /\ Emptied'
<1>. USE LiveAssumption
<1>0. /\ UNCHANGED <<row, view, calculatedAt, queue, faults>> /\ now \in Nat
      /\ worker.step = "mark" /\ e \in Current /\ Leave(e)
      /\ watermark' = [watermark EXCEPT ![e] = NewWatermark]
      /\ calculatedAt \in [Event -> -1..now] /\ watermark \in [Event -> -1..now]
  <2>1. now \in Nat
    BY DEF LiveInv, Typed, TypeOK, Times
  <2>. QED  BY <2>1 DEF Mark, WorkVars, rowVars, LiveInv, Typed, TypeOK
<1>1. NewWatermark \in -1..now
  <2>1. worker.mark \in Nat /\ worker.mark <= now
    BY DEF LiveInv, Typed, Worker, Times
  <2>. QED  BY <1>0, <2>1 DEF NewWatermark
<1>2. \A c \in Cell : EventOf[c] # e => (NextRunReads(c) <=> NextRunReads(c)')
  BY <1>0 DEF NextRunReads, Touched, TouchedSince, Touches, EventOfSale, ReadWatermark
<1>3. /\ ~ InRun' /\ worker'.step \in {"off", "read"}
      /\ \A f \in Event : RebuildComes(f) => RebuildComes(f)'
  BY <1>0, LeaveRebuilds
<1>5. MayForget' <=> MayForget
  BY <1>0 DEF MayForget
<1>6. ASSUME NEW s \in Sale PROVE Covered(s)' /\ Taken(s)'
  <2>0. CellOf[s] \in Cell /\ EventOfSale(s) \in Event /\ EventOfSale(s) = EventOf[CellOf[s]]
    BY DEF EventOfSale
  <2>1. Covered(s) /\ Taken(s)
    BY DEF LiveInv
  <2>2. /\ Shown(s)' <=> Shown(s)
        /\ ~ BeingRecomputed(CellOf[s])
        /\ EventOfSale(s)' = EventOfSale(s) /\ InRun
    BY <1>0 DEF Shown, EventOfSale, BeingRecomputed, InRun
  <2>3. Taken(s)'
    BY <1>3 DEF Taken
  <2>4. CASE EventOfSale(s) = e
    <3>1. Shown(s) \/ RebuildComes(e) \/ row[s].at >= worker.since - CommitLag
      BY <1>0, <2>1, <2>2, <2>4 DEF Taken
    <3>2. CASE row[s].at >= worker.since - CommitLag
      <4>1. row[s].at > NewWatermark - Overlap /\ row[s].at > calculatedAt[e] - Overlap
        BY <1>0, <1>1, <3>2, Younger
      <4>2. Ahead(s)'
        BY <1>0, <2>2, <2>4, <4>1 DEF Ahead
      <4>. QED  BY <2>3, <4>2 DEF Covered
    <3>3. CASE Shown(s) \/ RebuildComes(e)
      BY <1>3, <2>0, <2>2, <2>3, <2>4, <3>3 DEF Covered
    <3>. QED  BY <3>1, <3>2, <3>3
  <2>5. CASE EventOfSale(s) # e
    <3>1. Ahead(s)' <=> Ahead(s)
      BY <1>0, <2>0, <2>2, <2>5 DEF Ahead
    <3>. QED  BY <1>2, <1>3, <1>5, <2>0, <2>1, <2>2, <2>3, <2>5, <3>1 DEF Covered
  <2>. QED  BY <2>4, <2>5
<1>7. Emptied'
  BY <1>3 DEF Emptied
<1>. QED  BY <1>6, <1>7 DEF Safe
------------------------------------------------------------------------------
LEMMA InitSafe == Init => LiveInv
<1>. SUFFICES ASSUME Init PROVE LiveInv
  OBVIOUS
<1>1. ASSUME NEW s \in Sale PROVE Shown(s)
  <2>1. CellOf[s] \in Cell
    BY LiveAssumption
  <2>. QED  BY <2>1 DEF Init, Shown, Absent
<1>2. ~ InRun
  BY DEF Init, InRun, Off
<1>3. Emptied
  BY DEF Init, Emptied, Off
<1>. QED  BY <1>1, <1>2, <1>3, InitTyped DEF LiveInv, Covered, Taken

LEMMA StepSafe == OneHarm /\ LiveInv /\ [Next]_vars => LiveInv'
<1>. SUFFICES ASSUME OneHarm, LiveInv, [Next]_vars PROVE LiveInv'
  OBVIOUS
<1>1. Typed' /\ Timely' /\ OnOneEvent'
  BY StepTimely DEF LiveInv
<1>2. Typed
  BY DEF LiveInv
<1>3. Safe' /\ Emptied'
  <2>1. CASE Tick
    <3>1. UNCHANGED <<row, view, calculatedAt, watermark, worker, queue, faults>>
      BY <2>1 DEF Tick, rowVars, jobVars, viewVars
    <3>2. ToSet(queue) \subseteq ToSet(queue)'
      BY <3>1 DEF ToSet
    <3>. QED  BY <3>1, <3>2, OutsideKeeps
  <2>2. ASSUME NEW s \in Sale, Change(s) PROVE Safe' /\ Emptied'
    <3>1. UNCHANGED <<row, view, calculatedAt, watermark, worker, queue, faults>>
      BY <2>2 DEF Change, jobVars, viewVars
    <3>2. ToSet(queue) \subseteq ToSet(queue)'
      BY <3>1 DEF ToSet
    <3>. QED  BY <3>1, <3>2, OutsideKeeps
  <2>3. ASSUME NEW s \in Sale, Commit(s) PROVE Safe' /\ Emptied'
    BY <1>1, <2>3, CommitKeeps
  <2>4. CASE \/ \E s \in Sale : Trigger(s) \/ TriggerFails(s) \/ TriggerLost(s) \/ TriggerBlind(s)
             \/ PendingExpires \/ QueueRebuild
    BY <1>2, <2>4, TriggerTyped, OutsideKeeps
  <2>5. CASE Take \/ Lift \/ LiftBlind
    BY <2>5, TakeKeeps
  <2>6. CASE WorkerDies
    BY <2>6, WorkerDiesKeeps
  <2>7. CASE DeleteCells \/ InsertCells
    BY <2>7, CellsKeep
  <2>8. ASSUME NEW e \in Event,
               \/ ReadTouched(e) \/ StartRebuild(e) \/ Rollup(e) \/ Mark(e)
               \/ EventFails(e) \/ ReadBlind(e) \/ MarkBlind(e) \/ WatermarkLost(e)
        PROVE  Safe' /\ Emptied'
    BY <2>8, ReadKeeps, StartRebuildKeeps, RollupKeeps, MarkKeeps, InterruptedKeeps, LostKeeps
  <2>9. CASE UNCHANGED vars
    <3>1. UNCHANGED <<row, view, calculatedAt, watermark, worker, queue, faults>>
      BY <2>9 DEF vars
    <3>2. ToSet(queue) \subseteq ToSet(queue)'
      BY <3>1 DEF ToSet
    <3>. QED  BY <3>1, <3>2, OutsideKeeps
  <2>. QED
    <3>1. \/ Tick \/ (\E s \in Sale : Change(s) \/ Commit(s))
          \/ Take \/ Lift \/ LiftBlind \/ WorkerDies
          \/ \E s \in Sale : Trigger(s) \/ TriggerFails(s) \/ TriggerLost(s) \/ TriggerBlind(s)
          \/ PendingExpires \/ QueueRebuild
          \/ DeleteCells \/ InsertCells
          \/ \E e \in Event : \/ ReadTouched(e) \/ StartRebuild(e) \/ Rollup(e) \/ Mark(e)
                             \/ EventFails(e) \/ ReadBlind(e) \/ MarkBlind(e) \/ WatermarkLost(e)
          \/ UNCHANGED vars
      BY DEF Next, Work, Faulty
    <3>. QED  BY <2>1, <2>2, <2>3, <2>4, <2>5, <2>6, <2>7, <2>8, <2>9, <3>1
<1>. QED  BY <1>1, <1>3 DEF LiveInv, Safe

(* An active mark that has passed no change: what is not shown is read     *)
(* again.                                                                  *)
LEMMA CoveredIsRecoverable ==
  ASSUME LiveInv
  PROVE  Recoverable
<1>. USE LiveAssumption
<1>1. ASSUME NEW s \in Sale, Ahead(s), ~ Shown(s) PROVE NextRunReads(CellOf[s])
  <2>1. row[s].state # "absent" /\ CellOf[s] \in Cell
    BY <1>1 DEF LiveInv, Typed, Shown
  <2>2. Touches(s, EventOfSale(s), ReadWatermark(EventOfSale(s)))
    BY <1>1, <2>1 DEF Ahead, Touches, ReadWatermark
  <2>3. s \in Touched(EventOf[CellOf[s]])
    BY <2>2 DEF Touched, TouchedSince, EventOfSale
  <2>. QED  BY <2>3 DEF NextRunReads
<1>. QED  BY <1>1 DEF LiveInv, Covered, Recoverable

(* Recoverable, where faults of one kind at most occur: a sale that its    *)
(* cell does not show is one that the next minute job reads, that the      *)
(* worker is at, or that a rebuild still takes up.                         *)
THEOREM RecoverableAlways ==
  ASSUME OneHarm
  PROVE  Spec => []Recoverable
<1>1. Init => LiveInv
  BY InitSafe
<1>2. LiveInv /\ [Next]_vars => LiveInv'
  BY StepSafe
<1>3. LiveInv => Recoverable
  BY CoveredIsRecoverable
<1>. QED  BY <1>1, <1>2, <1>3, PTL DEF Spec

------------------------------------------------------------------------------
(* The pending key: where the jobs of a group carry all its events and no  *)
(* key is left behind by a trigger that dies or a delete that fails, it    *)
(* stands for a minute job that waits or that a trigger is about to queue.  *)
KeyHolds == Grouped /\ Faults \cap {"trigger", "redis"} = {}

GroupJob(j) == IsMinutes(j) => j.events = Event

GroupJobs ==
  /\ \A j \in ToSet(queue) : GroupJob(j)
  /\ worker.step # "off" => GroupJob(worker.job)
  /\ worker.step = "lift" => worker.left = worker.job.events

KeyStands ==
  pending =>
    \/ \E j \in ToSet(queue) : IsMinutes(j)
    \/ worker.step = "lift" /\ IsMinutes(worker.job)
    \/ \E s \in Sale : trig[s] = "enqueue"

Quiet == \A s \in Sale : change[s] # Absent => trig[s] = "none"

KeyInv == GroupJobs /\ KeyStands

(* The queue as it is, or with another job of the group.                   *)
LEMMA QueueSame ==
  ASSUME UNCHANGED queue
  PROVE  ToSet(queue)' = ToSet(queue)
BY DEF ToSet

LEMMA TriggerKey ==
  ASSUME KeyHolds, Typed, KeyInv,
         \/ \E s \in Sale : Trigger(s) \/ TriggerFails(s) \/ TriggerLost(s) \/ TriggerBlind(s)
         \/ PendingExpires \/ QueueRebuild
  PROVE  KeyInv'
<1>0. /\ UNCHANGED worker /\ trig \in [Sale -> {"none", "has", "set", "enqueue"}]
      /\ pending \in BOOLEAN
  BY TriggerTyped DEF Typed, TypeOK
<1>1. ASSUME NEW s \in Sale PROVE ~ TriggerFails(s) /\ ~ TriggerLost(s) /\ ~ TriggerBlind(s)
  BY DEF TriggerFails, TriggerLost, TriggerBlind, Fault, KeyHolds
<1>2. CASE \E s \in Sale : Coalesce(s) \/ TriggerHas(s)
  <2>1. PICK s \in Sale : Coalesce(s) \/ TriggerHas(s)
    BY <1>2
  <2>2. /\ UNCHANGED <<queue, pending>> /\ trig[s] = "has"
        /\ \E t \in {"none", "set"} : trig' = [trig EXCEPT ![s] = t]
    BY <2>1 DEF Coalesce, TriggerHas
  <2>3. \A x \in Sale : trig[x] = "enqueue" => trig'[x] = "enqueue"
    BY <1>0, <2>2
  <2>4. ToSet(queue)' = ToSet(queue)
    BY <2>2, QueueSame
  <2>5. GroupJobs'
    BY <1>0, <2>4 DEF KeyInv, GroupJobs, GroupJob, IsMinutes
  <2>6. KeyStands'
    BY <1>0, <2>2, <2>3, <2>4 DEF KeyInv, KeyStands, IsMinutes
  <2>. QED  BY <2>5, <2>6 DEF KeyInv
<1>3. CASE \E s \in Sale : TriggerSet(s)
  <2>1. PICK s \in Sale : TriggerSet(s)
    BY <1>3
  <2>2. UNCHANGED queue /\ trig'[s] = "enqueue"
    BY <1>0, <2>1 DEF TriggerSet
  <2>3. ToSet(queue)' = ToSet(queue)
    BY <2>2, QueueSame
  <2>4. GroupJobs'
    BY <1>0, <2>3 DEF KeyInv, GroupJobs, GroupJob, IsMinutes
  <2>. QED  BY <2>2, <2>4 DEF KeyInv, KeyStands
<1>4. CASE \E s \in Sale : TriggerEnqueue(s)
  <2>1. PICK s \in Sale : TriggerEnqueue(s)
    BY <1>4
  <2>. DEFINE j == [kind |-> "minutes", events |-> JobEvents(s)]
  <2>2. j \in Job /\ IsMinutes(j) /\ GroupJob(j) /\ Enqueue(j)
    <3>1. JobEvents(s) = Event
      BY DEF KeyHolds, JobEvents
    <3>. QED  BY <2>1, <3>1 DEF TriggerEnqueue, Job, IsMinutes, GroupJob
  <2>. HIDE DEF j
  <2>3. ToSet(queue)' = ToSet(queue) \cup {j}
    BY <2>2, Enqueued
  <2>4. GroupJobs'
    BY <1>0, <2>2, <2>3 DEF KeyInv, GroupJobs, GroupJob, IsMinutes
  <2>5. KeyStands'
    BY <2>2, <2>3 DEF KeyStands, IsMinutes
  <2>. QED  BY <2>4, <2>5 DEF KeyInv
<1>5. CASE PendingExpires
  <2>1. ~ pending' /\ UNCHANGED queue
    BY <1>5 DEF PendingExpires
  <2>2. ToSet(queue)' = ToSet(queue)
    BY <2>1, QueueSame
  <2>3. GroupJobs'
    BY <1>0, <2>2 DEF KeyInv, GroupJobs, GroupJob, IsMinutes
  <2>. QED  BY <2>1, <2>3 DEF KeyInv, KeyStands
<1>6. CASE QueueRebuild
  <2>. DEFINE j == [kind |-> "rebuild", events |-> Event]
  <2>1. j \in Job /\ GroupJob(j) /\ Enqueue(j)
    BY <1>6 DEF QueueRebuild, Job, IsMinutes, GroupJob
  <2>. HIDE DEF j
  <2>2. ToSet(queue)' = ToSet(queue) \cup {j}
    BY <2>1, Enqueued
  <2>3. UNCHANGED <<pending, trig>>
    BY <1>6 DEF QueueRebuild
  <2>4. GroupJobs'
    BY <1>0, <2>1, <2>2 DEF KeyInv, GroupJobs, GroupJob, IsMinutes
  <2>5. KeyStands'
    BY <1>0, <2>2, <2>3 DEF KeyInv, KeyStands, IsMinutes
  <2>. QED  BY <2>4, <2>5 DEF KeyInv
<1>. QED  BY <1>1, <1>2, <1>3, <1>4, <1>5, <1>6 DEF Trigger

LEMMA WorkerKey ==
  ASSUME KeyHolds, Typed, OnOneEvent, KeyInv, Take \/ Lift \/ LiftBlind \/ WorkerDies
  PROVE  KeyInv'
<1>0. UNCHANGED trig /\ worker \in Worker /\ queue \in Seq(Job) /\ worker.job \in Job
      /\ pending \in BOOLEAN
  BY DEF Take, Lift, LiftBlind, WorkerDies, WorkVars, Typed, TypeOK
<1>1. CASE Take
  <2>1. /\ worker.step = "off" /\ queue # <<>> /\ queue' = Tail(queue) /\ pending' = pending
        /\ worker' = [Off EXCEPT !.step = "lift", !.job = Head(queue), !.left = Head(queue).events]
    BY <1>1 DEF Take, Working
  <2>2. ToSet(queue) = ToSet(queue') \cup {Head(queue)}
    BY <1>0, <2>1, HeadTaken
  <2>3. worker'.step = "lift" /\ worker'.job = Head(queue) /\ worker'.left = Head(queue).events
    BY <2>1 DEF Off
  <2>4. GroupJobs'
    BY <2>2, <2>3 DEF KeyInv, GroupJobs, GroupJob, IsMinutes
  <2>5. KeyStands'
    BY <1>0, <2>1, <2>2, <2>3 DEF KeyInv, KeyStands, IsMinutes
  <2>. QED  BY <2>4, <2>5 DEF KeyInv
<1>2. CASE Lift \/ LiftBlind
  <2>0. Lift
    BY <1>2 DEF LiftBlind, Fault, KeyHolds
  <2>1. /\ worker.step = "lift" /\ worker' = [worker EXCEPT !.step = "read", !.since = now]
        /\ UNCHANGED queue
    BY <2>0 DEF Lift
  <2>2. pending' => pending /\ ~ IsMinutes(worker.job)
    BY <2>0, Zenon DEF Lift
  <2>3. worker'.step = "read" /\ worker'.job = worker.job
    BY <1>0, <2>1 DEF Worker
  <2>4. ToSet(queue)' = ToSet(queue)
    BY <2>1, QueueSame
  <2>5. GroupJobs'
    BY <2>1, <2>3, <2>4 DEF KeyInv, GroupJobs, GroupJob, IsMinutes
  <2>6. KeyStands'
    BY <1>0, <2>2, <2>4 DEF KeyInv, KeyStands, IsMinutes
  <2>. QED  BY <2>5, <2>6 DEF KeyInv
<1>3. CASE WorkerDies
  <2>1. /\ worker.step # "off" /\ worker' = Off /\ queue' = <<worker.job>> \o queue
        /\ pending' = pending
    BY <1>3 DEF WorkerDies, Working
  <2>2. ToSet(queue') = ToSet(queue) \cup {worker.job}
    BY <1>0, <2>1, Returned
  <2>3. GroupJobs'
    BY <2>1, <2>2 DEF KeyInv, GroupJobs, GroupJob, IsMinutes, Off
  <2>4. KeyStands'
    BY <1>0, <2>1, <2>2 DEF KeyInv, KeyStands, IsMinutes
  <2>. QED  BY <2>3, <2>4 DEF KeyInv
<1>. QED  BY <1>1, <1>2, <1>3

LEMMA EventKey ==
  ASSUME Typed, OnOneEvent, KeyInv,
         \/ DeleteCells \/ InsertCells
         \/ \E e \in Event : \/ ReadTouched(e) \/ StartRebuild(e) \/ Rollup(e) \/ Mark(e)
                             \/ EventFails(e) \/ ReadBlind(e) \/ MarkBlind(e)
  PROVE  KeyInv'
<1>0. worker \in Worker /\ UNCHANGED <<queue, trig, pending>>
  BY DEF Typed, DeleteCells, InsertCells, ReadTouched, ReadBlind, ReadSince, StartRebuild, Rollup, Mark,
         EventFails, MarkBlind, WorkVars
<1>1. worker.step \notin {"off", "lift"}
  BY DEF DeleteCells, InsertCells, ReadTouched, ReadBlind, ReadSince, StartRebuild, Rollup, Mark,
         EventFails, MarkBlind
<1>2. worker'.step # "lift" /\ (worker'.step # "off" => worker'.job = worker.job)
  <2>1. ASSUME NEW e \in Event, Leave(e) PROVE worker'.step # "lift" /\ (worker'.step # "off" => worker'.job = worker.job)
    BY <2>1, LeaveRecord
  <2>2. ASSUME NEW e \in Event, NEW m, ReadSince(e, m) PROVE worker'.step # "lift" /\ (worker'.step # "off" => worker'.job = worker.job)
    BY <1>0, <2>1, <2>2, ReadRecord DEF ReadSince
  <2>3. CASE DeleteCells \/ InsertCells \/ \E e \in Event : StartRebuild(e) \/ Rollup(e)
    BY <1>0, <2>3 DEF DeleteCells, InsertCells, StartRebuild, Rollup, Worker
  <2>. QED  BY <2>1, <2>2, <2>3 DEF ReadTouched, ReadBlind, Mark, EventFails, MarkBlind
<1>3. ToSet(queue)' = ToSet(queue)
  BY <1>0, QueueSame
<1>4. GroupJobs'
  BY <1>1, <1>2, <1>3 DEF KeyInv, GroupJobs, GroupJob, IsMinutes
<1>5. KeyStands'
  BY <1>0, <1>1, <1>3 DEF KeyInv, KeyStands, IsMinutes
<1>. QED  BY <1>4, <1>5 DEF KeyInv

LEMMA AsideKey ==
  ASSUME KeyInv, UNCHANGED <<queue, worker, pending>>,
         \A s \in Sale : trig[s] = "enqueue" => trig'[s] = "enqueue"
  PROVE  KeyInv'
<1>1. ToSet(queue)' = ToSet(queue)
  BY QueueSame
<1>. QED  BY <1>1 DEF KeyInv, GroupJobs, GroupJob, KeyStands, IsMinutes

(* A change on its way has no trigger yet.                                 *)
LEMMA StepQuiet ==
  ASSUME Typed, Quiet, [Next]_vars
  PROVE  Quiet'
<1>0. trig \in [Sale -> {"none", "has", "set", "enqueue"}] /\ change \in [Sale -> Row]
  BY DEF Typed, TypeOK
<1>1. ASSUME NEW s \in Sale, Change(s) PROVE Quiet'
  <2>1. /\ trig[s] = "none" /\ UNCHANGED trig
        /\ \A x \in Sale \ {s} : change'[x] = change[x]
    BY <1>0, <1>1 DEF Change, jobVars
  <2>. QED  BY <2>1 DEF Quiet
<1>2. ASSUME NEW s \in Sale, Commit(s) PROVE Quiet'
  <2>1. /\ change' = [change EXCEPT ![s] = Absent] /\ trig' = [trig EXCEPT ![s] = "has"]
    BY <1>2 DEF Commit
  <2>. QED  BY <1>0, <2>1 DEF Quiet
<1>3. ASSUME NEW s \in Sale, Trigger(s) \/ TriggerFails(s) \/ TriggerLost(s) \/ TriggerBlind(s)
      PROVE  Quiet'
  <2>1. UNCHANGED change /\ trig[s] # "none" /\ \A x \in Sale \ {s} : trig'[x] = trig[x]
    BY <1>0, <1>3 DEF Trigger, Coalesce, TriggerHas, TriggerSet, TriggerEnqueue, TriggerFails,
                      TriggerLost, TriggerBlind, TriggerVars, rowVars
  <2>. QED  BY <2>1 DEF Quiet
<1>4. ASSUME UNCHANGED <<change, trig>> PROVE Quiet'
  BY <1>4 DEF Quiet
<1>5. CASE Tick \/ PendingExpires \/ QueueRebuild \/ UNCHANGED vars
  BY <1>4, <1>5 DEF Tick, PendingExpires, QueueRebuild, TriggerVars, rowVars, jobVars, vars
<1>6. CASE Take \/ Lift \/ LiftBlind \/ WorkerDies \/ DeleteCells \/ InsertCells
  BY <1>4, <1>6 DEF Take, Lift, LiftBlind, WorkerDies, DeleteCells, InsertCells, WorkVars, rowVars
<1>7. ASSUME NEW e \in Event,
             \/ ReadTouched(e) \/ StartRebuild(e) \/ Rollup(e) \/ Mark(e)
             \/ EventFails(e) \/ ReadBlind(e) \/ MarkBlind(e) \/ WatermarkLost(e)
      PROVE  Quiet'
  BY <1>4, <1>7 DEF ReadTouched, ReadBlind, ReadSince, StartRebuild, Rollup, Mark, EventFails, MarkBlind,
                    WatermarkLost, WorkVars, rowVars
<1>. QED  BY <1>1, <1>2, <1>3, <1>5, <1>6, <1>7 DEF Next, Work, Faulty

LEMMA StepKey ==
  ASSUME KeyHolds, Typed, OnOneEvent, Quiet, KeyInv, [Next]_vars
  PROVE  KeyInv'
<1>1. ASSUME NEW s \in Sale, Commit(s) PROVE KeyInv'
  <2>1. UNCHANGED <<queue, worker, pending>>
    BY <1>1 DEF Commit
  <2>2. trig[s] # "enqueue" /\ trig' = [trig EXCEPT ![s] = "has"]
    BY <1>1 DEF Commit, Quiet
  <2>3. \A x \in Sale : trig[x] = "enqueue" => trig'[x] = "enqueue"
    BY <2>2 DEF Typed, TypeOK
  <2>. QED  BY <2>1, <2>3, AsideKey
<1>2. CASE Tick \/ (\E s \in Sale : Change(s)) \/ UNCHANGED vars
  <2>1. UNCHANGED <<queue, worker, pending, trig>>
    BY <1>2 DEF Tick, Change, jobVars, vars
  <2>. QED  BY <2>1, AsideKey
<1>3. ASSUME NEW e \in Event, WatermarkLost(e) PROVE KeyInv'
  <2>1. UNCHANGED <<queue, worker, pending, trig>>
    BY <1>3 DEF WatermarkLost, WorkVars
  <2>. QED  BY <2>1, AsideKey
<1>4. CASE \/ \E s \in Sale : Trigger(s) \/ TriggerFails(s) \/ TriggerLost(s) \/ TriggerBlind(s)
           \/ PendingExpires \/ QueueRebuild
  BY <1>4, TriggerKey
<1>5. CASE Take \/ Lift \/ LiftBlind \/ WorkerDies
  BY <1>5, WorkerKey
<1>6. CASE \/ DeleteCells \/ InsertCells
           \/ \E e \in Event : \/ ReadTouched(e) \/ StartRebuild(e) \/ Rollup(e) \/ Mark(e)
                             \/ EventFails(e) \/ ReadBlind(e) \/ MarkBlind(e)
  BY <1>6, EventKey
<1>. QED  BY <1>1, <1>2, <1>3, <1>4, <1>5, <1>6 DEF Next, Work, Faulty

(* A sale whose trigger finds the key is covered by a minute job still to  *)
(* come, where the jobs of a group carry all its events (the triggers of   *)
(* Weezevent) and no key is left behind without its job.                   *)
THEOREM CoalescedIsCoveredAlways ==
  ASSUME KeyHolds
  PROVE  Spec => CoalescedIsCovered
<1>. DEFINE Inv == Typed /\ Timely /\ OnOneEvent /\ Quiet /\ KeyInv
            Joins == \A s \in Sale : Coalesce(s) => WaitingFor(EventOfSale(s))
<1>1. Init => Inv
  <2>. SUFFICES ASSUME Init PROVE Inv
    OBVIOUS
  <2>1. ToSet(queue) = {}
    BY DEF Init, ToSet
  <2>2. GroupJobs /\ KeyStands
    BY <2>1 DEF Init, GroupJobs, KeyStands, Off
  <2>3. Quiet
    BY DEF Init, Quiet
  <2>. QED  BY <2>2, <2>3, InitTyped DEF KeyInv
<1>2. Inv /\ [Next]_vars => Inv'
  BY StepTimely, StepQuiet, StepKey
<1>3. Inv => Joins
  <2>. SUFFICES ASSUME Inv, NEW s \in Sale, Coalesce(s) PROVE WaitingFor(EventOfSale(s))
    OBVIOUS
  <2>1. pending
    BY DEF Coalesce
  <2>2. EventOfSale(s) \in Event
    BY LiveAssumption DEF EventOfSale
  <2>3. CASE \E j \in ToSet(queue) : IsMinutes(j)
    BY <2>2, <2>3 DEF WaitingFor, KeyInv, GroupJobs, GroupJob
  <2>4. CASE worker.step = "lift" /\ IsMinutes(worker.job)
    BY <2>2, <2>4 DEF WaitingFor, KeyInv, GroupJobs, GroupJob
  <2>5. CASE \E x \in Sale : trig[x] = "enqueue"
    <3>1. \A x \in Sale : JobEvents(x) = Event
      BY DEF KeyHolds, JobEvents
    <3>. QED  BY <2>2, <2>5, <3>1 DEF WaitingFor
  <2>. QED  BY <2>1, <2>3, <2>4, <2>5 DEF KeyInv, KeyStands
<1>. QED  BY <1>1, <1>2, <1>3, PTL DEF Spec, CoalescedIsCovered
==============================================================================
