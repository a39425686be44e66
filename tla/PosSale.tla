------------------------------ MODULE PosSale -------------------------------
(***************************************************************************)
(* The sales of the tills: features/pos/sales/.  A tablet posts a sale     *)
(* under an identifier of its own (clientTicketId) and posts it again when *)
(* the answer is lost; it cancels and restores the tickets of its point of *)
(* sale.  Requests interleave at their database calls: every action below  *)
(* is one call, and a transaction is the calls between the advisory lock   *)
(* and the commit.                                                         *)
(*                                                                         *)
(* One integration, one event: a point of sale stands for its pair         *)
(* (location, sales event), the scope of the lock and of the numbering.  A *)
(* sale has one line, so it weighs one in the price aggregate of its point *)
(* of sale.                                                                *)
(***************************************************************************)
EXTENDS Integers, FiniteSets

CONSTANTS
  Request,     \* HTTP requests that may be in flight together
  Pdv,         \* points of sale
  Ticket,      \* identifiers made by the tablets
  MaxFlips,    \* bound: requests to cancel or restore a sale
  Faults,      \* what may fail: "abort" (a transaction), "crash", "delta"
  None         \* no request, no job, no outcome

ASSUME PosAssumption ==
  /\ None \notin Request \cup {"created", "replayed"}
  /\ MaxFlips \in Nat
  /\ Faults \subseteq {"abort", "crash", "delta"}

VARIABLES
  sales,    \* committed rows of SalesTransaction, provider POS, status V
  lock,     \* lock[p]: who holds pg_advisory_xact_lock of p
  open,     \* open[p]: p has an open inventory window of phase "pos"
  pc,       \* pc[r]: the call request r makes next
  job,      \* job[r]: what r was asked
  number,   \* number[r]: the ticket number r reserved or was told
  told,     \* told[r]: the outcome r answers
  delta,    \* delta[r]: the applyDeltaSafe that r left running
  agg,      \* agg[p]: SalesPriceAgg.salesCount of p, 0 without a row
  flips     \* requests to cancel or restore so far (bounds the model)

rowVars == <<sales, lock, flips>>
aggVars == <<delta, agg>>
reqVars == <<pc, job, number, told>>
vars == <<sales, lock, open, pc, job, number, told, delta, agg, flips>>

Sale == [ticket : Ticket, pdv : Pdv, number : Nat \ {0}, cancelled : BOOLEAN]
Job == [op : {"sell", "cancel", "restore"}, pdv : Pdv, ticket : Ticket]
Stage == {"idle", "find", "open", "lock", "count", "reread", "write", "race",
          "read", "flip", "answered"}
Outcome == {"created", "replayed", "conflict", "flipped", "unchanged", "stopped",
            "refused", "notFound", "failed"}

TypeOK ==
  /\ sales \subseteq Sale
  /\ IsFiniteSet(sales)
  /\ lock \in [Pdv -> Request \cup {None}]
  /\ open \in [Pdv -> BOOLEAN]
  /\ pc \in [Request -> Stage]
  /\ job \in [Request -> Job \cup {None}]
  /\ number \in [Request -> Nat]
  /\ told \in [Request -> Outcome \cup {None}]
  /\ delta \in [Request -> {"none", "upsert", "purge"}]
  /\ agg \in [Pdv -> Int]
  /\ flips \in 0..MaxFlips
  /\ \A r \in Request : pc[r] # "idle" => job[r] \in Job

Init ==
  /\ sales = {}
  /\ lock = [p \in Pdv |-> None]
  /\ open = [p \in Pdv |-> TRUE]
  /\ pc = [r \in Request |-> "idle"]
  /\ job = [r \in Request |-> None]
  /\ number = [r \in Request |-> 0]
  /\ told = [r \in Request |-> None]
  /\ delta = [r \in Request |-> "none"]
  /\ agg = [p \in Pdv |-> 0]
  /\ flips = 0

-----------------------------------------------------------------------------
(* What the calls read.                                                    *)

SalesOf(p) == {s \in sales : s.pdv = p}

Sold(t) == {s \in sales : s.ticket = t}

\* Plausible bugs: the count leaves cancelled sales out, or is not incremented.
NextNumberSkippingCancelled(p) == Cardinality({s \in SalesOf(p) : ~ s.cancelled}) + 1

NextNumberOfLast(p) == Cardinality(SalesOf(p))

\* reserveTicketNumber counts the rows of status V, the cancelled ones included.
NextNumber(p) == Cardinality(SalesOf(p)) + 1

Goto(r, stage) == pc' = [pc EXCEPT ![r] = stage]

Answer(r, outcome) ==
  /\ Goto(r, "answered")
  /\ told' = [told EXCEPT ![r] = outcome]

Unlock(r) == lock' = [lock EXCEPT ![job[r].pdv] = None]

\* Plausible bug: findExisting forgets to compare the points of sale.
ReplayAnySale(r, s) ==
  /\ number' = [number EXCEPT ![r] = s.number]
  /\ Answer(r, "replayed")

\* findExisting: the sale of another point of sale is a conflict, never a replay.
Replay(r, s) ==
  /\ number' = [number EXCEPT ![r] = s.number]
  /\ Answer(r, IF s.pdv = job[r].pdv THEN "replayed" ELSE "conflict")

-----------------------------------------------------------------------------
(* Creating a sale.                                                        *)

\* The guest token of an open till authenticates the request.
StartSale(r, p, t) ==
  /\ pc[r] = "idle"
  /\ open[p]
  /\ job' = [job EXCEPT ![r] = [op |-> "sell", pdv |-> p, ticket |-> t]]
  /\ Goto(r, "find")
  /\ UNCHANGED <<rowVars, aggVars, open, number, told>>

FindExisting(r) ==
  /\ pc[r] = "find"
  /\ \/ \E s \in Sold(job[r].ticket) : Replay(r, s)
     \/ /\ Sold(job[r].ticket) = {}
        /\ Goto(r, "open")
        /\ UNCHANGED <<number, told>>
  /\ UNCHANGED <<rowVars, aggVars, open, job>>

\* assertCashOpen re-reads the window, for a sale as for a flip.
AssertCashOpen(r) ==
  /\ pc[r] = "open"
  /\ \/ /\ open[job[r].pdv]
        /\ Goto(r, IF job[r].op = "sell" THEN "lock" ELSE "read")
        /\ UNCHANGED told
     \/ /\ ~ open[job[r].pdv]
        /\ Answer(r, "stopped")
  /\ UNCHANGED <<rowVars, aggVars, open, job, number>>

\* Every other check before the first write: shape, catalogue, payments,
\* event no longer sellable, cancellation disabled.
Refuse(r) ==
  /\ pc[r] \in {"open", "lock", "read"}
  /\ Answer(r, "refused")
  /\ UNCHANGED <<rowVars, aggVars, open, job, number>>

\* Plausible bug: the transaction counts without waiting for the lock.
LockAtOnce(r) ==
  /\ pc[r] = "lock"
  /\ lock' = [lock EXCEPT ![job[r].pdv] = r]
  /\ Goto(r, "count")
  /\ UNCHANGED <<sales, flips, aggVars, open, job, number, told>>

Lock(r) ==
  /\ pc[r] = "lock"
  /\ lock[job[r].pdv] = None
  /\ lock' = [lock EXCEPT ![job[r].pdv] = r]
  /\ Goto(r, "count")
  /\ UNCHANGED <<sales, flips, aggVars, open, job, number, told>>

CountTickets(r) ==
  /\ pc[r] = "count"
  /\ number' = [number EXCEPT ![r] = NextNumber(job[r].pdv)]
  /\ Goto(r, "reread")
  /\ UNCHANGED <<rowVars, aggVars, open, job, told>>

\* Plausible bug: a lock of the session, which the rollback does not release.
RereadKeepsLock(r) ==
  /\ pc[r] = "reread"
  /\ Goto(r, IF Sold(job[r].ticket) = {} THEN "write" ELSE "race")
  /\ UNCHANGED <<rowVars, aggVars, open, job, number, told>>

\* The re-read under the lock: ReplayRace rolls the transaction back.
Reread(r) ==
  /\ pc[r] = "reread"
  /\ \/ /\ Sold(job[r].ticket) = {}
        /\ Goto(r, "write")
        /\ UNCHANGED lock
     \/ /\ Sold(job[r].ticket) # {}
        /\ Goto(r, "race")
        /\ Unlock(r)
  /\ UNCHANGED <<sales, flips, aggVars, open, job, number, told>>

\* The insert and the commit, which end the transaction and its lock.  A
\* competing insert of the same ticket waits on the unique index until the
\* first transaction ends, so the two calls are one step here.
Write(r) ==
  /\ pc[r] = "write"
  /\ Unlock(r)
  /\ \/ /\ Sold(job[r].ticket) = {}
        /\ sales' = sales \cup {[ticket |-> job[r].ticket, pdv |-> job[r].pdv,
                                 number |-> number[r], cancelled |-> FALSE]}
        /\ Answer(r, "created")
        /\ delta' = [delta EXCEPT ![r] = "upsert"]
     \/ /\ Sold(job[r].ticket) # {}        \* P2002
        /\ Goto(r, "race")
        /\ UNCHANGED <<sales, told, delta>>
  /\ UNCHANGED <<flips, agg, open, job, number>>

\* findExisting again, after the transaction was rolled back by a race: rows
\* are never removed, so the sale is there.
AnswerRace(r) ==
  /\ pc[r] = "race"
  /\ \E s \in Sold(job[r].ticket) : Replay(r, s)
  /\ UNCHANGED <<rowVars, aggVars, open, job>>

\* A transaction that times out or errs is rolled back, and its lock with it.
Abort(r) ==
  /\ "abort" \in Faults
  /\ pc[r] \in {"lock", "count", "reread", "write"}
  /\ lock' = [p \in Pdv |-> IF lock[p] = r THEN None ELSE lock[p]]
  /\ Answer(r, "failed")
  /\ UNCHANGED <<sales, flips, aggVars, open, job, number>>

-----------------------------------------------------------------------------
(* Cancelling and restoring: flip.                                         *)

StartFlip(r, p, t, direction) ==
  /\ pc[r] = "idle"
  /\ open[p]
  /\ flips < MaxFlips
  /\ flips' = flips + 1
  /\ job' = [job EXCEPT ![r] = [op |-> direction, pdv |-> p, ticket |-> t]]
  /\ Goto(r, "open")
  /\ UNCHANGED <<sales, lock, aggVars, open, number, told>>

WantCancelled(r) == job[r].op = "cancel"

\* Only a sale of the token's own point of sale is visible.
ReadSale(r) ==
  /\ pc[r] = "read"
  /\ \/ \E s \in Sold(job[r].ticket) \cap SalesOf(job[r].pdv) :
          IF s.cancelled = WantCancelled(r)
            THEN Answer(r, "unchanged")
            ELSE Goto(r, "flip") /\ UNCHANGED told
     \/ /\ Sold(job[r].ticket) \cap SalesOf(job[r].pdv) = {}
        /\ Answer(r, "notFound")
  /\ UNCHANGED <<rowVars, aggVars, open, job, number>>

\* Plausible bug: the update does not re-check the state it read.
FlipUnconditional(r) ==
  /\ pc[r] = "flip"
  /\ \E s \in Sold(job[r].ticket) :
       sales' = (sales \ {s}) \cup {[s EXCEPT !.cancelled = WantCancelled(r)]}
  /\ delta' = [delta EXCEPT ![r] = "upsert"]
  /\ Answer(r, "flipped")
  /\ UNCHANGED <<lock, flips, agg, open, job, number>>

\* The conditional update: one statement, which matches the row only while it
\* still has the other state, and the delta only when it matched.
Flip(r) ==
  /\ pc[r] = "flip"
  /\ \E s \in Sold(job[r].ticket) :
       \/ /\ s.cancelled # WantCancelled(r)
          /\ sales' = (sales \ {s}) \cup {[s EXCEPT !.cancelled = WantCancelled(r)]}
          /\ delta' = [delta EXCEPT ![r] = "upsert"]
          /\ Answer(r, "flipped")
       \/ /\ s.cancelled = WantCancelled(r)
          /\ Answer(r, "unchanged")
          /\ UNCHANGED <<sales, delta>>
  /\ UNCHANGED <<lock, flips, agg, open, job, number>>

-----------------------------------------------------------------------------
(* The delta a request leaves running once it has written: one upsert of   *)
(* +1 or -1, then, after a -1, a purge of the rows at or below zero.       *)

Weight(r) == IF job[r].op = "cancel" THEN -1 ELSE 1

UpsertDelta(r) ==
  /\ delta[r] = "upsert"
  /\ agg' = [agg EXCEPT ![job[r].pdv] = @ + Weight(r)]
  /\ delta' = [delta EXCEPT ![r] = IF Weight(r) < 0 THEN "purge" ELSE "none"]
  /\ UNCHANGED <<rowVars, reqVars, open>>

PurgeEmpty(r) ==
  /\ delta[r] = "purge"
  /\ agg' = [agg EXCEPT ![job[r].pdv] = IF @ <= 0 THEN 0 ELSE @]
  /\ delta' = [delta EXCEPT ![r] = "none"]
  /\ UNCHANGED <<rowVars, reqVars, open>>

\* applyDeltaSafe swallows the error.
LoseDelta(r) ==
  /\ "delta" \in Faults
  /\ delta[r] # "none"
  /\ delta' = [delta EXCEPT ![r] = "none"]
  /\ UNCHANGED <<rowVars, reqVars, open, agg>>

\* A slot serves the next request once the answer is out and the delta ended.
Finish(r) ==
  /\ pc[r] = "answered"
  /\ delta[r] = "none"
  /\ Goto(r, "idle")
  /\ job' = [job EXCEPT ![r] = None]
  /\ number' = [number EXCEPT ![r] = 0]
  /\ told' = [told EXCEPT ![r] = None]
  /\ UNCHANGED <<rowVars, aggVars, open>>

-----------------------------------------------------------------------------
(* The surroundings.                                                       *)

\* The manager stops or starts the till: its window closes or opens.
SwitchTill(p) ==
  /\ open' = [open EXCEPT ![p] = ~ @]
  /\ UNCHANGED <<rowVars, aggVars, reqVars>>

\* The process dies: requests and deltas vanish, transactions roll back.
Crash ==
  /\ "crash" \in Faults
  /\ lock' = [p \in Pdv |-> None]
  /\ pc' = [r \in Request |-> "idle"]
  /\ job' = [r \in Request |-> None]
  /\ number' = [r \in Request |-> 0]
  /\ told' = [r \in Request |-> None]
  /\ delta' = [r \in Request |-> "none"]
  /\ UNCHANGED <<sales, flips, agg, open>>

\* A sale exists before anybody knows its id and can cancel it.
Begin(r) ==
  \/ \E p \in Pdv, t \in Ticket : StartSale(r, p, t)
  \/ \E p \in Pdv, s \in sales, d \in {"cancel", "restore"} : StartFlip(r, p, s.ticket, d)

Continue(r) ==
  \/ FindExisting(r) \/ AssertCashOpen(r) \/ Lock(r) \/ CountTickets(r)
  \/ Reread(r) \/ Write(r) \/ AnswerRace(r) \/ ReadSale(r) \/ Flip(r)
  \/ UpsertDelta(r) \/ PurgeEmpty(r)

Step(r) == Begin(r) \/ Continue(r) \/ Refuse(r) \/ Abort(r) \/ LoseDelta(r) \/ Finish(r)

Next ==
  \/ \E r \in Request : Step(r)
  \/ \E p \in Pdv : SwitchTill(p)
  \/ Crash

\* The event loop resumes every request whose call was answered; the queue of
\* the advisory lock is first in, first out, so nobody is passed over for ever.
Fairness == \A r \in Request : WF_vars(Continue(r)) /\ SF_vars(Lock(r))

Spec == Init /\ [][Next]_vars

FairSpec == Spec /\ Fairness

-----------------------------------------------------------------------------
(* Properties.                                                             *)

\* The tickets of a point of sale are numbered 1, 2, 3... without a gap or a
\* duplicate, whatever is cancelled, restored, retried or rolled back.
TicketsNumbered ==
  \A p \in Pdv :
    /\ {s.number : s \in SalesOf(p)} = 1..Cardinality(SalesOf(p))
    /\ \A s, u \in SalesOf(p) : s.number = u.number => s = u

Sells(r) == told[r] \in {"created", "replayed"}

\* Tablets that retry agree on what was sold: whoever is told its ticket is
\* sold holds the number of the one sale written under that identifier, at
\* its own point of sale, and at most one request was the one to write it.
AnswersAgree ==
  \A r \in Request :
    Sells(r) =>
      /\ \E s \in sales : Sold(job[r].ticket) = {s} /\ s.pdv = job[r].pdv
                                                    /\ s.number = number[r]
      /\ \A q \in Request \ {r} :
           (told[r] = "created" /\ Sells(q) /\ job[q].ticket = job[r].ticket)
             => told[q] = "replayed"

\* The deltas of p that are still to be added.
Outstanding(p, op) ==
  Cardinality({r \in Request : delta[r] = "upsert" /\ job[r].pdv = p /\ job[r].op \in op})

Active(p) == {s \in SalesOf(p) : ~ s.cancelled}

\* As long as no delta is lost, what the aggregate shows plus what is on its
\* way never falls short of the active sales: no flip is counted out twice.
NeverUndercounts ==
  \A p \in Pdv :
    agg[p] + Outstanding(p, {"sell", "restore"}) - Outstanding(p, {"cancel"})
      >= Cardinality(Active(p))

\* Every request is answered: no path keeps the lock of a till.
EveryRequestAnswered ==
  \A r \in Request : pc[r] # "idle" ~> pc[r] \in {"answered", "idle"}

\* The rolls of the abstract specification, read off the rows; a number that
\* no sale bears is a hole.
TicketAt(p, n) ==
  IF \E s \in SalesOf(p) : s.number = n
    THEN (CHOOSE s \in SalesOf(p) : s.number = n).ticket
    ELSE None

RollOf(p) == [n \in 1..Cardinality(SalesOf(p)) |-> TicketAt(p, n)]

Roll == INSTANCE TicketRoll
  WITH roll <- [p \in Pdv |-> RollOf(p)],
       cancelled <- {s.ticket : s \in {u \in sales : u.cancelled}}

\* The tills implement the rolls: each committed sale tears off the next
\* ticket, of an identifier never sold before, each flip cancels or restores
\* one, and whatever else a request does leaves the rolls alone.
ImplementsRoll == Roll!Spec
=============================================================================
