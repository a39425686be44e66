--------------------------- MODULE PosSale_proofs ---------------------------
(***************************************************************************)
(* The tickets of every till are numbered 1, 2, 3... for any number of     *)
(* requests, points of sale and tickets.  The numbering alone is not       *)
(* inductive: it needs the lock to cover the count and the insert, the     *)
(* reserved number to stay the next one while the lock is held, and one    *)
(* row per identifier, so that a flip replaces exactly one row.            *)
(* The same invariant places every row on its roll, and the tills          *)
(* implement the rolls of TicketRoll: a step either leaves every place as  *)
(* it was, or adds one place behind the last, or marks one ticket.         *)
(* Where no delta is lost, the price aggregate of a till and what is on    *)
(* its way to it cover its active sales.                                   *)
(***************************************************************************)
EXTENDS PosSale, FiniteSetTheorems, SequenceTheorems, TLAPS

InTransaction(r) == pc[r] \in {"count", "reread", "write"}

\* A request in its transaction holds the lock of its till.
LockHeld == \A r \in Request : InTransaction(r) => lock[job[r].pdv] = r

\* The number it reserved is the next one of the till until it commits.
NumberReserved ==
  \A r \in Request : pc[r] \in {"reread", "write"} => number[r] = NextNumber(job[r].pdv)

OneRowPerTicket == \A s, u \in sales : s.ticket = u.ticket => s = u

Inv == TypeOK /\ LockHeld /\ NumberReserved /\ OneRowPerTicket /\ TicketsNumbered

-----------------------------------------------------------------------------
(* Facts about the rows of one till.                                       *)

LEMMA SalesOfFinite ==
  ASSUME TypeOK, NEW p
  PROVE  IsFiniteSet(SalesOf(p)) /\ Cardinality(SalesOf(p)) \in Nat
<1>1. SalesOf(p) \subseteq sales
  BY DEF SalesOf
<1>2. IsFiniteSet(sales)
  BY DEF TypeOK
<1>. QED
  BY <1>1, <1>2, FS_Subset, FS_CardinalityType

\* One more row, numbered next, keeps a till numbered without gap or duplicate.
LEMMA Numbered ==
  ASSUME NEW R, IsFiniteSet(R), NEW x, x \notin R,
         {s.number : s \in R} = 1..Cardinality(R),
         \A s, u \in R : s.number = u.number => s = u,
         x.number = Cardinality(R) + 1, NEW Q, Q = R \cup {x}
  PROVE  /\ Cardinality(Q) = Cardinality(R) + 1
         /\ {s.number : s \in Q} = 1..Cardinality(Q)
         /\ \A s, u \in Q : s.number = u.number => s = u
<1>1. Cardinality(R \cup {x}) = Cardinality(R) + 1 /\ Cardinality(R) \in Nat
  BY FS_AddElement, FS_CardinalityType
<1>2. {s.number : s \in R \cup {x}} = {s.number : s \in R} \cup {x.number}
  OBVIOUS
<1>3. 1..(Cardinality(R) + 1) = (1..Cardinality(R)) \cup {Cardinality(R) + 1}
  BY <1>1
<1>4. \A s \in R : s.number \in 1..Cardinality(R)
  OBVIOUS
<1>5. \A s \in R : s.number # x.number
  BY <1>1, <1>4
<1>6. \A s, u \in R \cup {x} : s.number = u.number => s = u
  BY <1>5
<1>. QED
  BY <1>1, <1>2, <1>3, <1>6

\* A row replaced by one with the same number changes neither.
LEMMA Replaced ==
  ASSUME NEW R, IsFiniteSet(R), NEW x \in R, NEW y, y \notin R, y.number = x.number,
         {s.number : s \in R} = 1..Cardinality(R),
         \A s, u \in R : s.number = u.number => s = u,
         NEW Q, Q = (R \ {x}) \cup {y}
  PROVE  /\ Cardinality(Q) = Cardinality(R)
         /\ {s.number : s \in Q} = 1..Cardinality(Q)
         /\ \A s, u \in Q : s.number = u.number => s = u
<1>1. IsFiniteSet(R \ {x}) /\ Cardinality(R \ {x}) = Cardinality(R) - 1
  BY FS_RemoveElement
<1>2. Cardinality(R) \in Nat /\ Cardinality(R \ {x}) \in Nat
  BY <1>1, FS_CardinalityType
<1>3. Cardinality(Q) = Cardinality(R \ {x}) + 1
  BY <1>1, FS_AddElement
<1>4. Cardinality(Q) = Cardinality(R)
  BY <1>1, <1>2, <1>3
<1>5. {s.number : s \in Q} = {s.number : s \in R}
  OBVIOUS
<1>6. \A s, u \in Q : s.number = u.number => s = u
  OBVIOUS
<1>. QED
  BY <1>4, <1>5, <1>6

-----------------------------------------------------------------------------
(* Initially.                                                              *)

LEMMA InitInv ==
  ASSUME PosAssumption, Init
  PROVE  Inv
<1>1. IsFiniteSet({}) /\ Cardinality({}) = 0
  BY FS_EmptySet
<1>2. TypeOK
  BY <1>1 DEF Init, TypeOK, PosAssumption, Stage
<1>3. LockHeld /\ NumberReserved /\ OneRowPerTicket
  BY DEF Init, LockHeld, InTransaction, NumberReserved, OneRowPerTicket
<1>4. \A p \in Pdv : SalesOf(p) = {}
  BY DEF Init, SalesOf
<1>5. 1..0 = {}
  OBVIOUS
<1>6. TicketsNumbered
  BY <1>1, <1>4, <1>5 DEF TicketsNumbered
<1>. QED
  BY <1>2, <1>3, <1>6 DEF Inv

-----------------------------------------------------------------------------
(* Types.                                                                  *)

LEMMA FlippedSale ==
  ASSUME NEW u \in Sale, NEW b \in BOOLEAN
  PROVE  [u EXCEPT !.cancelled = b] \in Sale
BY DEF Sale

LEMMA TypeStep ==
  ASSUME PosAssumption, TypeOK, NumberReserved, [Next]_vars
  PROVE  TypeOK'
<1>. USE DEF TypeOK
<1>1. ASSUME NEW r \in Request, NEW p \in Pdv, NEW t \in Ticket, StartSale(r, p, t)
      PROVE  TypeOK'
  BY <1>1 DEF StartSale, Goto, Job, Stage, rowVars, aggVars
<1>2. ASSUME NEW r \in Request, FindExisting(r)
      PROVE  TypeOK'
  BY <1>2 DEF FindExisting, Replay, Answer, Goto, Sold, Sale, Stage, Outcome, rowVars, aggVars
<1>3. ASSUME NEW r \in Request, AssertCashOpen(r)
      PROVE  TypeOK'
  BY <1>3 DEF AssertCashOpen, Answer, Goto, Stage, Outcome, rowVars, aggVars
<1>4. ASSUME NEW r \in Request, Refuse(r)
      PROVE  TypeOK'
  BY <1>4 DEF Refuse, Answer, Goto, Stage, Outcome, rowVars, aggVars
<1>5. ASSUME NEW r \in Request, Lock(r)
      PROVE  TypeOK'
  BY <1>5 DEF Lock, Goto, Stage, aggVars
<1>6. ASSUME NEW r \in Request, CountTickets(r)
      PROVE  TypeOK'
  <2>1. NextNumber(job[r].pdv) \in Nat
    BY SalesOfFinite DEF NextNumber
  <2>. QED
    BY <1>6, <2>1 DEF CountTickets, Goto, Stage, rowVars, aggVars
<1>7. ASSUME NEW r \in Request, Reread(r)
      PROVE  TypeOK'
  BY <1>7 DEF Reread, Unlock, Goto, Stage, aggVars
<1>8. ASSUME NEW r \in Request, Write(r)
      PROVE  TypeOK'
  <2>. DEFINE new == [ticket |-> job[r].ticket, pdv |-> job[r].pdv,
                      number |-> number[r], cancelled |-> FALSE]
  <2>1. number[r] \in Nat \ {0}
    BY <1>8, SalesOfFinite DEF Write, NumberReserved, NextNumber
  <2>2. job[r] \in Job
    BY <1>8 DEF Write
  <2>3. new \in Sale
    BY <2>1, <2>2 DEF Sale, Job
  <2>4. IsFiniteSet(sales \cup {new})
    BY FS_AddElement
  <2>. QED
    BY <1>8, <2>3, <2>4 DEF Write, Unlock, Answer, Goto, Stage, Outcome
<1>9. ASSUME NEW r \in Request, AnswerRace(r)
      PROVE  TypeOK'
  BY <1>9 DEF AnswerRace, Replay, Answer, Goto, Sold, Sale, Stage, Outcome, rowVars, aggVars
<1>10. ASSUME NEW r \in Request, Abort(r)
       PROVE  TypeOK'
  BY <1>10 DEF Abort, Answer, Goto, Stage, Outcome, aggVars
<1>11. ASSUME NEW r \in Request, NEW p \in Pdv, NEW u \in sales,
              NEW d \in {"cancel", "restore"}, StartFlip(r, p, u.ticket, d)
       PROVE  TypeOK'
  <2>1. [op |-> d, pdv |-> p, ticket |-> u.ticket] \in Job
    BY DEF Job, Sale
  <2>2. flips' \in 0..MaxFlips
    BY <1>11 DEF StartFlip, PosAssumption
  <2>. QED
    BY <1>11, <2>1, <2>2 DEF StartFlip, Goto, Stage, aggVars
<1>12. ASSUME NEW r \in Request, ReadSale(r)
       PROVE  TypeOK'
  BY <1>12 DEF ReadSale, Answer, Goto, Stage, Outcome, rowVars, aggVars
<1>13. ASSUME NEW r \in Request, Flip(r)
       PROVE  TypeOK'
  <2>1. PICK u \in Sold(job[r].ticket) :
          \/ /\ sales' = (sales \ {u}) \cup {[u EXCEPT !.cancelled = WantCancelled(r)]}
             /\ delta' = [delta EXCEPT ![r] = "upsert"]
             /\ Answer(r, "flipped")
          \/ Answer(r, "unchanged") /\ UNCHANGED <<sales, delta>>
    BY <1>13 DEF Flip
  <2>2. [u EXCEPT !.cancelled = WantCancelled(r)] \in Sale
    <3>1. u \in Sale
      BY DEF Sold
    <3>2. WantCancelled(r) \in BOOLEAN
      BY DEF WantCancelled
    <3>. QED
      BY <3>1, <3>2, FlippedSale
  <2>3. IsFiniteSet((sales \ {u}) \cup {[u EXCEPT !.cancelled = WantCancelled(r)]})
    BY FS_AddElement, FS_RemoveElement
  <2>. QED
    BY <1>13, <2>1, <2>2, <2>3 DEF Flip, Answer, Goto, Stage, Outcome
<1>14. ASSUME NEW r \in Request, UpsertDelta(r) \/ PurgeEmpty(r) \/ LoseDelta(r)
       PROVE  TypeOK'
  BY <1>14 DEF UpsertDelta, PurgeEmpty, LoseDelta, Weight, rowVars, reqVars
<1>15. ASSUME NEW r \in Request, Finish(r)
       PROVE  TypeOK'
  BY <1>15 DEF Finish, Goto, Stage, rowVars, aggVars
<1>16. ASSUME NEW p \in Pdv, SwitchTill(p)
       PROVE  TypeOK'
  BY <1>16 DEF SwitchTill, rowVars, aggVars, reqVars
<1>17. CASE Crash
  BY <1>17 DEF Crash, Stage
<1>18. CASE UNCHANGED vars
  BY <1>18 DEF vars
<1>. QED
  BY <1>1, <1>2, <1>3, <1>4, <1>5, <1>6, <1>7, <1>8, <1>9, <1>10, <1>11, <1>12,
     <1>13, <1>14, <1>15, <1>16, <1>17, <1>18
  DEF Next, Step, Begin, Continue

-----------------------------------------------------------------------------
(* The lock, the reserved number and the rows.                             *)

LEMMA LockStep ==
  ASSUME PosAssumption, TypeOK, LockHeld, [Next]_vars
  PROVE  LockHeld'
<1>. USE DEF TypeOK, LockHeld, InTransaction
<1>1. ASSUME NEW r \in Request, NEW p \in Pdv, NEW t, NEW d,
             StartSale(r, p, t) \/ StartFlip(r, p, t, d)
      PROVE  LockHeld'
  BY <1>1 DEF StartSale, StartFlip, Goto, rowVars, aggVars
<1>2. ASSUME NEW r \in Request, FindExisting(r) \/ AnswerRace(r)
      PROVE  LockHeld'
  BY <1>2 DEF FindExisting, AnswerRace, Replay, Answer, Goto, rowVars, aggVars
<1>3. ASSUME NEW r \in Request, AssertCashOpen(r) \/ Refuse(r) \/ ReadSale(r)
      PROVE  LockHeld'
  BY <1>3 DEF AssertCashOpen, Refuse, ReadSale, Answer, Goto, rowVars, aggVars
<1>4. ASSUME NEW r \in Request, Lock(r)
      PROVE  LockHeld'
  BY <1>4 DEF Lock, Goto, aggVars, PosAssumption, Job
<1>5. ASSUME NEW r \in Request, CountTickets(r)
      PROVE  LockHeld'
  BY <1>5 DEF CountTickets, Goto, rowVars, aggVars
<1>6. ASSUME NEW r \in Request, Reread(r) \/ Write(r)
      PROVE  LockHeld'
  <2>1. pc[r] \in {"reread", "write"} /\ lock[job[r].pdv] = r
    BY <1>6 DEF Reread, Write
  <2>2. ~ InTransaction(r)' \/ UNCHANGED lock
    BY <1>6 DEF Reread, Write, Answer, Goto
  <2>3. job' = job /\ \A q \in Request \ {r} : pc'[q] = pc[q]
    BY <1>6 DEF Reread, Write, Answer, Goto
  <2>4. \A q \in Request \ {r} : InTransaction(q) => lock'[job[q].pdv] = q
    <3>1. \A q \in Request : InTransaction(q) => job[q].pdv \in Pdv
      BY DEF Job
    <3>2. ASSUME NEW q \in Request \ {r}, InTransaction(q)
          PROVE  lock'[job[q].pdv] = lock[job[q].pdv]
      <4>1. job[q].pdv # job[r].pdv
        BY <3>2, <2>1
      <4>. QED
        BY <1>6, <3>1, <3>2, <4>1 DEF Reread, Write, Unlock
    <3>. QED
      BY <3>2
  <2>. QED
    BY <2>1, <2>2, <2>3, <2>4, <1>6 DEF Reread, Write
<1>7. ASSUME NEW r \in Request, Abort(r)
      PROVE  LockHeld'
  BY <1>7 DEF Abort, Answer, Goto, aggVars, Job
<1>8. ASSUME NEW r \in Request, Flip(r)
      PROVE  LockHeld'
  BY <1>8 DEF Flip, Answer, Goto
<1>9. ASSUME NEW r \in Request, UpsertDelta(r) \/ PurgeEmpty(r) \/ LoseDelta(r)
      PROVE  LockHeld'
  BY <1>9 DEF UpsertDelta, PurgeEmpty, LoseDelta, rowVars, reqVars
<1>10. ASSUME NEW r \in Request, Finish(r)
      PROVE  LockHeld'
  BY <1>10 DEF Finish, Goto, rowVars, aggVars
<1>11. ASSUME NEW p \in Pdv, SwitchTill(p)
       PROVE  LockHeld'
  BY <1>11 DEF SwitchTill, rowVars, aggVars, reqVars
<1>12. CASE Crash
  BY <1>12 DEF Crash
<1>13. CASE UNCHANGED vars
  BY <1>13 DEF vars
<1>. QED
  BY <1>1, <1>2, <1>3, <1>4, <1>5, <1>6, <1>7, <1>8, <1>9, <1>10, <1>11, <1>12, <1>13
  DEF Next, Step, Begin, Continue

\* What the rows owe to a step that writes none.
Quiet ==
  /\ sales' = sales
  /\ \A q \in Request :
       pc'[q] \in {"reread", "write"} => number'[q] = NextNumber(job'[q].pdv)

Rows == NumberReserved /\ OneRowPerTicket /\ TicketsNumbered

LEMMA QuietRows ==
  ASSUME Rows, Quiet
  PROVE  Rows'
<1>1. \A p : SalesOf(p)' = SalesOf(p)
  BY DEF Quiet, SalesOf
<1>2. NumberReserved'
  BY <1>1 DEF Quiet, NumberReserved, NextNumber
<1>3. OneRowPerTicket'
  BY DEF Quiet, Rows, OneRowPerTicket
<1>4. TicketsNumbered'
  BY <1>1 DEF Rows, TicketsNumbered
<1>. QED
  BY <1>2, <1>3, <1>4 DEF Rows

\* A committed sale takes the next number; nobody else is in the transaction of
\* its till.
LEMMA WriteRows ==
  ASSUME Inv, NEW r \in Request, Write(r)
  PROVE  Rows'
<1>. PICK p : p = job[r].pdv
  OBVIOUS
<1>. DEFINE x == [ticket |-> job[r].ticket, pdv |-> p,
                  number |-> number[r], cancelled |-> FALSE]
<1>0. UNCHANGED <<job, number>> /\ \A q \in Request \ {r} : pc'[q] = pc[q]
  BY DEF Write, Answer, Goto, Inv, TypeOK
<1>1. pc[r] = "write" /\ pc'[r] \notin {"reread", "write"}
  BY DEF Write, Answer, Goto, Inv, TypeOK
<1>2. CASE sales' = sales
  <2>1. Quiet
    BY <1>0, <1>1, <1>2 DEF Quiet, Inv, NumberReserved
  <2>. QED
    BY <2>1, QuietRows DEF Inv, Rows
<1>3. CASE sales' = sales \cup {x} /\ Sold(job[r].ticket) = {}
  <2>1. x \notin sales /\ \A s \in sales : s.ticket # x.ticket
    BY <1>3 DEF Sold
  <2>2. OneRowPerTicket'
    BY <1>3, <2>1 DEF OneRowPerTicket, Inv
  <2>3. SalesOf(p)' = SalesOf(p) \cup {x} /\ x \notin SalesOf(p)
    BY <1>3, <2>1, <1>0 DEF SalesOf
  <2>4. \A o : o # p => SalesOf(o)' = SalesOf(o)
    BY <1>3 DEF SalesOf
  <2>5. p \in Pdv /\ x.number = Cardinality(SalesOf(p)) + 1
    BY <1>1 DEF Inv, TypeOK, Job, NumberReserved, NextNumber
  <2>6. IsFiniteSet(SalesOf(p))
    BY SalesOfFinite DEF Inv
  <2>7. /\ {s.number : s \in SalesOf(p)'} = 1..Cardinality(SalesOf(p)')
        /\ \A s, u \in SalesOf(p)' : s.number = u.number => s = u
    <3>1. /\ {s.number : s \in SalesOf(p)} = 1..Cardinality(SalesOf(p))
          /\ \A s, u \in SalesOf(p) : s.number = u.number => s = u
      BY <2>5 DEF Inv, TicketsNumbered
    <3>2. x.number = Cardinality(SalesOf(p)) + 1
      BY <2>5
    <3>. HIDE DEF x
    <3>. QED
      BY <3>1, <3>2, <2>3, <2>6, Numbered
  <2>8. TicketsNumbered'
    <3>1. ASSUME NEW o \in Pdv
          PROVE  /\ {s.number : s \in SalesOf(o)'} = 1..Cardinality(SalesOf(o)')
                 /\ \A s, u \in SalesOf(o)' : s.number = u.number => s = u
      <4>1. CASE o = p
        BY <4>1, <2>7
      <4>2. CASE o # p
        BY <4>2, <2>4 DEF Inv, TicketsNumbered
      <4>. QED
        BY <4>1, <4>2
    <3>. QED
      BY <3>1 DEF TicketsNumbered
  <2>9. NumberReserved'
    <3>1. ASSUME NEW q \in Request, pc'[q] \in {"reread", "write"},
                 NEW o, o = job[q].pdv
          PROVE  number'[q] = Cardinality(SalesOf(o)') + 1
      <4>1. q # r /\ pc[q] \in {"reread", "write"}
        BY <3>1, <1>0, <1>1
      <4>2. o # p
        BY <3>1, <4>1, <1>1 DEF Inv, LockHeld, InTransaction
      <4>3. SalesOf(o)' = SalesOf(o)
        BY <4>2, <2>4
      <4>. QED
        BY <3>1, <4>1, <4>3, <1>0 DEF Inv, NumberReserved, NextNumber
    <3>. QED
      BY <3>1, <1>0 DEF NumberReserved, NextNumber, SalesOf
  <2>. QED
    BY <2>2, <2>8, <2>9 DEF Rows
<1>. QED
  BY <1>2, <1>3 DEF Write

\* A flip replaces the one row of its ticket by one with the same number.
LEMMA FlipRows ==
  ASSUME Inv, NEW r \in Request, Flip(r)
  PROVE  Rows'
<1>0. UNCHANGED <<job, number>> /\ \A q \in Request \ {r} : pc'[q] = pc[q]
  BY DEF Flip, Answer, Goto, Inv, TypeOK
<1>1. pc'[r] \notin {"reread", "write"}
  BY DEF Flip, Answer, Goto, Inv, TypeOK
<1>2. CASE sales' = sales
  <2>1. Quiet
    BY <1>0, <1>1, <1>2 DEF Quiet, Inv, NumberReserved
  <2>. QED
    BY <2>1, QuietRows DEF Inv, Rows
<1>3. ASSUME NEW x \in sales, x.cancelled # WantCancelled(r),
             sales' = (sales \ {x}) \cup {[x EXCEPT !.cancelled = WantCancelled(r)]}
      PROVE  Rows'
  <2>. DEFINE y == [x EXCEPT !.cancelled = WantCancelled(r)]
  <2>1. x \in Sale
    BY DEF Inv, TypeOK
  <2>2. /\ y.ticket = x.ticket /\ y.pdv = x.pdv /\ y.number = x.number
        /\ y.cancelled # x.cancelled
    BY <2>1, <1>3 DEF Sale
  <2>. sales' = (sales \ {x}) \cup {y}
    BY <1>3
  <2>. HIDE DEF y
  <2>3. y \notin sales
    BY <2>2 DEF Inv, OneRowPerTicket
  <2>4. OneRowPerTicket'
    BY <1>3, <2>2 DEF Inv, OneRowPerTicket
  <2>5. /\ SalesOf(x.pdv)' = (SalesOf(x.pdv) \ {x}) \cup {y}
        /\ x \in SalesOf(x.pdv) /\ y \notin SalesOf(x.pdv)
    BY <1>3, <2>2, <2>3 DEF SalesOf
  <2>6. \A o : o # x.pdv => SalesOf(o)' = SalesOf(o)
    BY <1>3, <2>2 DEF SalesOf
  <2>7. /\ Cardinality(SalesOf(x.pdv)') = Cardinality(SalesOf(x.pdv))
        /\ {s.number : s \in SalesOf(x.pdv)'} = 1..Cardinality(SalesOf(x.pdv)')
        /\ \A s, u \in SalesOf(x.pdv)' : s.number = u.number => s = u
    <3>1. x.pdv \in Pdv
      BY <2>1 DEF Sale
    <3>2. /\ {s.number : s \in SalesOf(x.pdv)} = 1..Cardinality(SalesOf(x.pdv))
          /\ \A s, u \in SalesOf(x.pdv) : s.number = u.number => s = u
      BY <3>1 DEF Inv, TicketsNumbered
    <3>3. IsFiniteSet(SalesOf(x.pdv))
      BY SalesOfFinite DEF Inv
    <3>. QED
      BY <3>2, <3>3, <2>2, <2>5, Replaced
  <2>8. \A o : Cardinality(SalesOf(o)') = Cardinality(SalesOf(o))
    BY <2>6, <2>7
  <2>9. TicketsNumbered'
    <3>1. ASSUME NEW o \in Pdv
          PROVE  /\ {s.number : s \in SalesOf(o)'} = 1..Cardinality(SalesOf(o)')
                 /\ \A s, u \in SalesOf(o)' : s.number = u.number => s = u
      <4>1. CASE o = x.pdv
        BY <4>1, <2>7
      <4>2. CASE o # x.pdv
        BY <4>2, <2>6 DEF Inv, TicketsNumbered
      <4>. QED
        BY <4>1, <4>2
    <3>. QED
      BY <3>1 DEF TicketsNumbered
  <2>10. NumberReserved'
    BY <2>8, <1>0, <1>1 DEF Inv, NumberReserved, NextNumber
  <2>. QED
    BY <2>4, <2>9, <2>10 DEF Rows
<1>. QED
  BY <1>2, <1>3 DEF Flip, Sold

\* Every other step writes no row, and only the count reserves a number.
LEMMA RowStep ==
  ASSUME PosAssumption, Inv, [Next]_vars
  PROVE  Rows'
<1>. SUFFICES ASSUME \A r \in Request : ~ Write(r) /\ ~ Flip(r)
     PROVE  Quiet
  BY WriteRows, FlipRows, QuietRows DEF Inv, Rows
<1>. USE DEF Inv, TypeOK, NumberReserved, Quiet
<1>1. ASSUME NEW r \in Request, NEW p \in Pdv, NEW t, NEW d,
             StartSale(r, p, t) \/ StartFlip(r, p, t, d)
      PROVE  Quiet
  BY <1>1 DEF StartSale, StartFlip, Goto, rowVars, aggVars
<1>2. ASSUME NEW r \in Request, FindExisting(r) \/ AnswerRace(r)
      PROVE  Quiet
  BY <1>2 DEF FindExisting, AnswerRace, Replay, Answer, Goto, rowVars, aggVars
<1>3. ASSUME NEW r \in Request, AssertCashOpen(r) \/ Refuse(r) \/ ReadSale(r)
      PROVE  Quiet
  BY <1>3 DEF AssertCashOpen, Refuse, ReadSale, Answer, Goto, rowVars, aggVars
<1>4. ASSUME NEW r \in Request, Lock(r)
      PROVE  Quiet
  BY <1>4 DEF Lock, Goto, aggVars
<1>5. ASSUME NEW r \in Request, CountTickets(r)
      PROVE  Quiet
  BY <1>5 DEF CountTickets, Goto, rowVars, aggVars
<1>6. ASSUME NEW r \in Request, Reread(r)
      PROVE  Quiet
  BY <1>6 DEF Reread, Goto, aggVars
<1>7. ASSUME NEW r \in Request, Abort(r)
      PROVE  Quiet
  BY <1>7 DEF Abort, Answer, Goto, aggVars
<1>8. ASSUME NEW r \in Request, UpsertDelta(r) \/ PurgeEmpty(r) \/ LoseDelta(r)
      PROVE  Quiet
  BY <1>8 DEF UpsertDelta, PurgeEmpty, LoseDelta, rowVars, reqVars
<1>9. ASSUME NEW r \in Request, Finish(r)
      PROVE  Quiet
  BY <1>9 DEF Finish, Goto, rowVars, aggVars
<1>10. ASSUME NEW p \in Pdv, SwitchTill(p)
       PROVE  Quiet
  BY <1>10 DEF SwitchTill, rowVars, aggVars, reqVars
<1>11. CASE Crash
  BY <1>11 DEF Crash
<1>12. CASE UNCHANGED vars
  BY <1>12 DEF vars
<1>. HIDE DEF Inv, TypeOK, NumberReserved, Quiet
<1>. QED
  BY <1>1, <1>2, <1>3, <1>4, <1>5, <1>6, <1>7, <1>8, <1>9, <1>10, <1>11, <1>12
  DEF Next, Step, Begin, Continue

-----------------------------------------------------------------------------

LEMMA InvAlways == Spec => []Inv
<1>1. Init => Inv
  BY PosAssumption, InitInv
<1>2. Inv /\ [Next]_vars => Inv'
  BY PosAssumption, TypeStep, LockStep, RowStep DEF Inv, Rows
<1>. QED
  BY <1>1, <1>2, PTL DEF Spec

\* What the requests and the database keep has its type, whatever the
\* number of requests, points of sale and tickets.
THEOREM SaleTypesAlways == Spec => []TypeOK
BY InvAlways, PTL DEF Inv

\* For any number of requests, points of sale and tickets, with crashes, retries,
\* failed transactions, cancellations and restorations: the tickets of a point of
\* sale are numbered 1, 2, 3... without a gap or a duplicate.
THEOREM TicketsNumberedAlways == Spec => []TicketsNumbered
BY InvAlways, PTL DEF Inv

-----------------------------------------------------------------------------
(* The answers.  An answer is kept until the slot is freed, and the row it *)
(* tells of is there with its ticket, its till and its number; two         *)
(* requests that wrote a sale did so under two identifiers.                *)

TellsOf(r, s) ==
  s.ticket = job[r].ticket /\ s.pdv = job[r].pdv /\ s.number = number[r]

AnswersKept ==
  /\ \A r \in Request : Sells(r) => pc[r] = "answered" /\ \E s \in sales : TellsOf(r, s)
  /\ \A r, q \in Request :
       (told[r] = "created" /\ told[q] = "created" /\ job[r].ticket = job[q].ticket)
         => r = q

LEMMA KeptAgrees ==
  ASSUME Inv, AnswersKept
  PROVE  AnswersAgree
<1>1. ASSUME NEW r \in Request, Sells(r)
      PROVE  \E s \in sales : Sold(job[r].ticket) = {s} /\ s.pdv = job[r].pdv
                                                    /\ s.number = number[r]
  <2>1. PICK s \in sales : TellsOf(r, s)
    BY <1>1 DEF AnswersKept
  <2>2. Sold(job[r].ticket) = {s}
    BY <2>1 DEF TellsOf, Sold, Inv, OneRowPerTicket
  <2>. QED
    BY <2>1, <2>2 DEF TellsOf
<1>2. ASSUME NEW r \in Request, NEW q \in Request \ {r}, told[r] = "created",
             Sells(q), job[q].ticket = job[r].ticket
      PROVE  told[q] = "replayed"
  BY <1>2 DEF AnswersKept, Sells
<1>. QED
  BY <1>1, <1>2 DEF AnswersAgree

\* Rows are only written by the insert of a sale and by a flip.
LEMMA OnlyWritesAndFlips ==
  ASSUME [Next]_vars, \A r \in Request : ~ Write(r) /\ ~ Flip(r)
  PROVE  sales' = sales
BY DEF Next, Step, Begin, Continue, StartSale, StartFlip, FindExisting, AssertCashOpen, Refuse,
   Lock, CountTickets, Reread, AnswerRace, Abort, ReadSale, UpsertDelta, PurgeEmpty, LoseDelta,
   Finish, SwitchTill, Crash, rowVars, vars

\* No step removes a sale or changes its ticket, its till or its number.
LEMMA SalesKept ==
  ASSUME PosAssumption, Inv, [Next]_vars, NEW s \in sales
  PROVE  \E u \in sales' : u.ticket = s.ticket /\ u.pdv = s.pdv /\ u.number = s.number
<1>1. ASSUME NEW r \in Request, Write(r)
      PROVE  s \in sales'
  BY <1>1 DEF Write
<1>2. ASSUME NEW r \in Request, NEW x \in sales, NEW b \in BOOLEAN,
             sales' = (sales \ {x}) \cup {[x EXCEPT !.cancelled = b]}
      PROVE  \E u \in sales' : u.ticket = s.ticket /\ u.pdv = s.pdv /\ u.number = s.number
  <2>. DEFINE y == [x EXCEPT !.cancelled = b]
  <2>1. y \in sales' /\ (s # x => s \in sales')
    BY <1>2
  <2>2. x \in Sale
    BY DEF Inv, TypeOK
  <2>3. y.ticket = x.ticket /\ y.pdv = x.pdv /\ y.number = x.number
    BY <2>2 DEF Sale
  <2>. HIDE DEF y
  <2>. QED
    BY <2>1, <2>3
<1>3. ASSUME NEW r \in Request, Flip(r), sales' # sales
      PROVE  \E u \in sales' : u.ticket = s.ticket /\ u.pdv = s.pdv /\ u.number = s.number
  BY <1>2, <1>3 DEF Flip, WantCancelled, Sold
<1>. QED
  BY <1>1, <1>3, OnlyWritesAndFlips

\* What a step that writes no sale does to the answer of q.
Kept(q) == told'[q] = told[q] /\ job'[q] = job[q] /\ number'[q] = number[q] /\ pc'[q] = pc[q]

Replayed(q) ==
  /\ told'[q] = "replayed" /\ pc'[q] = "answered"
  /\ \E s \in sales : s.ticket = job'[q].ticket /\ s.pdv = job'[q].pdv /\ s.number = number'[q]

Fate(q) == Sells(q)' => Kept(q) \/ Replayed(q)

LEMMA FateStep ==
  ASSUME PosAssumption, Inv, AnswersKept, [Next]_vars,
         \A r \in Request : ~ Write(r), NEW q \in Request
  PROVE  Fate(q)
<1>. USE DEF Fate, Kept, Sells
<1>. told \in [Request -> Outcome \cup {None}] /\ pc \in [Request -> Stage]
     /\ job \in [Request -> Job \cup {None}] /\ number \in [Request -> Nat]
  BY DEF Inv, TypeOK
<1>. Sells(q) => pc[q] = "answered"
  BY DEF AnswersKept
<1>1. ASSUME NEW r \in Request, NEW p \in Pdv, NEW t, NEW d,
             StartSale(r, p, t) \/ StartFlip(r, p, t, d)
      PROVE  Fate(q)
  BY <1>1 DEF StartSale, StartFlip, Goto
<1>2. ASSUME NEW r \in Request, FindExisting(r) \/ AnswerRace(r)
      PROVE  Fate(q)
  <2>1. CASE UNCHANGED <<number, told>>
    BY <1>2, <2>1 DEF FindExisting, AnswerRace, Replay, Answer, Goto
  <2>2. ASSUME NEW s \in Sold(job[r].ticket), Replay(r, s), UNCHANGED job
        PROVE  Fate(q)
    <3>1. CASE q = r
      BY <2>2, <3>1 DEF Replayed, Replay, Answer, Goto, Sold
    <3>2. CASE q # r
      BY <2>2, <3>2 DEF Replay, Answer, Goto
    <3>. QED
      BY <3>1, <3>2
  <2>. QED
    BY <1>2, <2>1, <2>2 DEF FindExisting, AnswerRace
<1>3. ASSUME NEW r \in Request, AssertCashOpen(r) \/ Refuse(r) \/ ReadSale(r)
      PROVE  Fate(q)
  BY <1>3 DEF AssertCashOpen, Refuse, ReadSale, Answer, Goto
<1>4. ASSUME NEW r \in Request, Lock(r) \/ CountTickets(r) \/ Reread(r) \/ Abort(r)
      PROVE  Fate(q)
  BY <1>4 DEF Lock, CountTickets, Reread, Abort, Answer, Goto
<1>5. ASSUME NEW r \in Request, Flip(r)
      PROVE  Fate(q)
  BY <1>5 DEF Flip, Answer, Goto
<1>6. ASSUME NEW r \in Request, UpsertDelta(r) \/ PurgeEmpty(r) \/ LoseDelta(r)
      PROVE  Fate(q)
  BY <1>6 DEF UpsertDelta, PurgeEmpty, LoseDelta, reqVars
<1>7. ASSUME NEW r \in Request, Finish(r)
      PROVE  Fate(q)
  BY <1>7 DEF Finish, Goto, PosAssumption
<1>8. ASSUME NEW p \in Pdv, SwitchTill(p)
      PROVE  Fate(q)
  BY <1>8 DEF SwitchTill, reqVars
<1>9. CASE Crash
  BY <1>9 DEF Crash, PosAssumption
<1>10. CASE UNCHANGED vars
  BY <1>10 DEF vars
<1>. HIDE DEF Fate
<1>. QED
  BY <1>1, <1>2, <1>3, <1>4, <1>5, <1>6, <1>7, <1>8, <1>9, <1>10
  DEF Next, Step, Begin, Continue

\* Whoever writes a sale found no row under its ticket, so nobody else was told
\* to have written one.
LEMMA WriteAnswers ==
  ASSUME Inv, AnswersKept, NEW r \in Request, Write(r)
  PROVE  AnswersKept'
<1>. PICK x : x = [ticket |-> job[r].ticket, pdv |-> job[r].pdv,
                   number |-> number[r], cancelled |-> FALSE]
  OBVIOUS
<1>1. /\ job' = job /\ number' = number /\ sales \subseteq sales'
      /\ \A q \in Request \ {r} : pc'[q] = pc[q] /\ told'[q] = told[q]
  BY DEF Write, Answer, Goto, Inv, TypeOK
<1>2. ~ Sells(r)
  BY DEF AnswersKept, Write
<1>3. CASE told' = told
  <2>1. ASSUME NEW q \in Request, Sells(q)'
        PROVE  pc'[q] = "answered" /\ \E s \in sales' : TellsOf(q, s)'
    <3>1. Sells(q) /\ q # r
      BY <1>2, <1>3, <2>1 DEF Sells
    <3>2. PICK s \in sales : TellsOf(q, s)
      BY <3>1 DEF AnswersKept
    <3>3. s \in sales' /\ TellsOf(q, s)'
      BY <1>1, <3>2 DEF TellsOf
    <3>. QED
      BY <1>1, <3>1, <3>3 DEF AnswersKept
  <2>. QED
    BY <1>1, <1>3, <2>1 DEF AnswersKept
<1>4. CASE /\ Sold(job[r].ticket) = {} /\ sales' = sales \cup {x}
           /\ Answer(r, "created")
  <2>1. told'[r] = "created" /\ pc'[r] = "answered"
    BY <1>4 DEF Answer, Goto, Inv, TypeOK
  <2>2. x \in sales' /\ TellsOf(r, x)'
    BY <1>1, <1>4 DEF TellsOf
  <2>3. ASSUME NEW q \in Request, Sells(q)'
        PROVE  pc'[q] = "answered" /\ \E s \in sales' : TellsOf(q, s)'
    <3>1. CASE q = r
      <4>1. \E s \in sales' : TellsOf(r, s)'
        BY <2>2
      <4>. QED
        BY <2>1, <3>1, <4>1 DEF TellsOf
    <3>2. CASE q # r
      <4>1. Sells(q)
        BY <1>1, <2>3, <3>2 DEF Sells
      <4>2. PICK s \in sales : TellsOf(q, s)
        BY <4>1 DEF AnswersKept
      <4>3. s \in sales' /\ TellsOf(q, s)'
        BY <1>1, <4>2 DEF TellsOf
      <4>. QED
        BY <1>1, <3>2, <4>1, <4>3 DEF AnswersKept
    <3>. QED
      BY <3>1, <3>2
  <2>4. \A q \in Request \ {r} : told[q] = "created" => job[q].ticket # job[r].ticket
    BY <1>4 DEF AnswersKept, Sells, TellsOf, Sold
  <2>5. ASSUME NEW v \in Request, NEW q \in Request, told'[v] = "created",
               told'[q] = "created", job'[v].ticket = job'[q].ticket
        PROVE  v = q
    BY <1>1, <2>4, <2>5 DEF AnswersKept
  <2>. QED
    BY <2>3, <2>5 DEF AnswersKept
<1>. QED
  BY <1>3, <1>4 DEF Write

LEMMA AnswersStep ==
  ASSUME PosAssumption, Inv, AnswersKept, [Next]_vars
  PROVE  AnswersKept'
<1>1. CASE \E r \in Request : Write(r)
  BY <1>1, WriteAnswers
<1>2. CASE \A r \in Request : ~ Write(r)
  <2>1. \A q \in Request : Fate(q)
    BY <1>2, FateStep
  <2>2. ASSUME NEW q \in Request, Sells(q)'
        PROVE  pc'[q] = "answered" /\ \E s \in sales' : TellsOf(q, s)'
    <3>1. PICK s \in sales : /\ s.ticket = job'[q].ticket /\ s.pdv = job'[q].pdv
                             /\ s.number = number'[q]
      BY <2>1, <2>2 DEF Fate, Kept, Replayed, AnswersKept, Sells, TellsOf
    <3>2. PICK u \in sales' : u.ticket = s.ticket /\ u.pdv = s.pdv /\ u.number = s.number
      BY SalesKept
    <3>3. TellsOf(q, u)'
      BY <3>1, <3>2 DEF TellsOf
    <3>4. pc'[q] = "answered"
      BY <2>1, <2>2 DEF Fate, Kept, Replayed, AnswersKept, Sells
    <3>. QED
      BY <3>3, <3>4
  <2>3. ASSUME NEW v \in Request, NEW q \in Request, told'[v] = "created",
               told'[q] = "created", job'[v].ticket = job'[q].ticket
        PROVE  v = q
    BY <2>1, <2>3 DEF Fate, Kept, Replayed, Sells, AnswersKept
  <2>. QED
    BY <2>2, <2>3 DEF AnswersKept
<1>. QED
  BY <1>1, <1>2

\* Whoever is told its ticket is sold holds the number of the one sale written
\* under that identifier, at its own point of sale, and at most one request is
\* told that it wrote it: for any number of tablets that retry.
THEOREM AnswersAgreeAlways == Spec => []AnswersAgree
<1>1. Init => AnswersKept
  BY PosAssumption DEF Init, AnswersKept, Sells, PosAssumption
<1>2. Inv /\ Inv' /\ AnswersKept /\ [Next]_vars => AnswersKept'
  BY PosAssumption, AnswersStep
<1>3. Inv /\ AnswersKept => AnswersAgree
  BY KeptAgrees
<1>. QED
  BY <1>1, <1>2, <1>3, InvAlways, PTL DEF Spec

------------------------------------------------------------------------------
(* The rolls.                                                              *)

Card(p) == Cardinality(SalesOf(p))

\* Every row is on the roll of its till, at the place of its number, and every
\* place of a roll has its row.
RowsOnRoll ==
  /\ \A p \in Pdv : Card(p) \in Nat
  /\ \A p \in Pdv : \A s \in SalesOf(p) :
       s.number \in 1..Card(p) /\ TicketAt(p, s.number) = s.ticket
  /\ \A p \in Pdv : \A n \in 1..Card(p) : \E s \in SalesOf(p) : s.number = n

LEMMA RowsPlaced == Inv => RowsOnRoll
<1>. SUFFICES ASSUME Inv, NEW p \in Pdv
     PROVE  /\ Card(p) \in Nat
            /\ \A s \in SalesOf(p) :
                 s.number \in 1..Card(p) /\ TicketAt(p, s.number) = s.ticket
            /\ \A n \in 1..Card(p) : \E s \in SalesOf(p) : s.number = n
  BY DEF RowsOnRoll
<1>1. Card(p) \in Nat
  BY SalesOfFinite DEF Inv, Card
<1>2. /\ {s.number : s \in SalesOf(p)} = 1..Card(p)
      /\ \A s, u \in SalesOf(p) : s.number = u.number => s = u
  BY DEF Inv, TicketsNumbered, Card
<1>3. \A s \in SalesOf(p) : TicketAt(p, s.number) = s.ticket
  BY <1>2 DEF TicketAt
<1>. QED
  BY <1>1, <1>2, <1>3

\* Every step keeps every place of every roll.
LEMMA PlacesKept ==
  ASSUME PosAssumption, Inv, RowsOnRoll, RowsOnRoll', [Next]_vars,
         NEW p \in Pdv, NEW n \in 1..Card(p)
  PROVE  TicketAt(p, n)' = TicketAt(p, n) /\ n \in 1..Card(p)'
<1>1. PICK s \in SalesOf(p) : s.number = n /\ TicketAt(p, n) = s.ticket
  BY DEF RowsOnRoll
<1>2. PICK u \in sales' : u.ticket = s.ticket /\ u.pdv = s.pdv /\ u.number = s.number
  BY SalesKept DEF SalesOf
<1>3. u \in SalesOf(p)'
  BY <1>1, <1>2 DEF SalesOf
<1>4. u.number \in 1..Card(p)' /\ TicketAt(p, u.number)' = u.ticket
  BY <1>3 DEF RowsOnRoll
<1>. QED
  BY <1>1, <1>2, <1>4

\* A till whose rows keep their numbers keeps its roll.
LEMMA RollKept ==
  ASSUME PosAssumption, Inv, RowsOnRoll, RowsOnRoll', [Next]_vars, NEW p \in Pdv,
         \A u \in SalesOf(p)' : \E s \in SalesOf(p) : s.number = u.number
  PROVE  RollOf(p)' = RollOf(p)
<1>1. Card(p)' = Card(p)
  <2>1. \A n \in 1..Card(p)' : n \in 1..Card(p)
    BY DEF RowsOnRoll
  <2>2. \A n \in 1..Card(p) : n \in 1..Card(p)'
    BY PlacesKept
  <2>3. Card(p) \in Nat /\ Card(p)' \in Nat
    BY DEF RowsOnRoll
  <2>. QED
    BY <2>1, <2>2, <2>3
<1>2. \A n \in 1..Card(p) : TicketAt(p, n)' = TicketAt(p, n)
  BY PlacesKept
<1>. QED
  BY <1>1, <1>2 DEF RollOf, Card

\* The tickets on the rolls are those of the rows.
LEMMA RollSold ==
  ASSUME Inv, RowsOnRoll
  PROVE  Roll!SoldTickets = {s.ticket : s \in sales}
<1>1. \A p \in Pdv : {RollOf(p)[n] : n \in DOMAIN RollOf(p)} = {s.ticket : s \in SalesOf(p)}
  <2>. SUFFICES ASSUME NEW p \in Pdv
       PROVE  {TicketAt(p, n) : n \in 1..Card(p)} = {s.ticket : s \in SalesOf(p)}
    BY DEF RollOf, Card
  <2>. QED
    BY DEF RowsOnRoll
<1>2. Roll!SoldTickets = UNION {{RollOf(p)[n] : n \in DOMAIN RollOf(p)} : p \in Pdv}
  BY DEF Roll!SoldTickets, Roll!Places
<1>3. \A t : t \in Roll!SoldTickets
             <=> \E p \in Pdv : t \in {RollOf(p)[n] : n \in DOMAIN RollOf(p)}
  BY <1>2
<1>4. \A t : t \in Roll!SoldTickets <=> \E p \in Pdv : \E s \in SalesOf(p) : t = s.ticket
  <2>1. ASSUME NEW t, NEW p \in Pdv
        PROVE  t \in {RollOf(p)[n] : n \in DOMAIN RollOf(p)} <=> \E s \in SalesOf(p) : t = s.ticket
    <3>1. t \in {s.ticket : s \in SalesOf(p)} <=> \E s \in SalesOf(p) : t = s.ticket
      OBVIOUS
    <3>. QED
      BY <1>1, <3>1
  <2>. QED
    BY <1>3, <2>1
<1>5. \A s \in sales : s.pdv \in Pdv /\ s \in SalesOf(s.pdv)
  BY DEF Inv, TypeOK, Sale, SalesOf
<1>6. \A t : t \in Roll!SoldTickets <=> \E s \in sales : t = s.ticket
  BY <1>4, <1>5 DEF SalesOf
<1>. QED
  BY <1>6

-----------------------------------------------------------------------------
(* A step that writes no row.                                              *)

Rolls == [p \in Pdv |-> RollOf(p)]

Cancelled == {s.ticket : s \in {u \in sales : u.cancelled}}

LEMMA QuietStep ==
  ASSUME sales' = sales
  PROVE  Rolls' = Rolls /\ Cancelled' = Cancelled
<1>1. \A p : SalesOf(p)' = SalesOf(p)
  BY DEF SalesOf
<1>2. \A p, n : TicketAt(p, n)' = TicketAt(p, n)
  BY <1>1 DEF TicketAt
<1>3. \A p : RollOf(p)' = RollOf(p)
  BY <1>1, <1>2 DEF RollOf
<1>. QED
  BY <1>3 DEF Rolls, Cancelled

-----------------------------------------------------------------------------
(* A committed sale tears off the next ticket of its till.                 *)

LEMMA RollIsSeq ==
  ASSUME Inv, RowsOnRoll, NEW p \in Pdv
  PROVE  RollOf(p) \in Seq(Ticket) /\ Len(RollOf(p)) = Card(p)
<1>1. \A n \in 1..Card(p) : TicketAt(p, n) \in Ticket
  BY DEF RowsOnRoll, Inv, TypeOK, Sale, SalesOf
<1>2. Card(p) \in Nat
  BY DEF RowsOnRoll
<1>3. RollOf(p) = [n \in 1..Card(p) |-> TicketAt(p, n)]
  BY DEF RollOf, Card
<1>. QED
  BY <1>1, <1>2, <1>3

LEMMA WriteSells ==
  ASSUME PosAssumption, Inv, RowsOnRoll, RowsOnRoll', [Next]_vars,
         NEW r \in Request, Write(r), sales' # sales
  PROVE  Roll!Sell(job[r].pdv, job[r].ticket)
<1>. PICK p, t : p = job[r].pdv /\ t = job[r].ticket
  OBVIOUS
<1>. PICK x : x = [ticket |-> t, pdv |-> p, number |-> number[r], cancelled |-> FALSE]
  OBVIOUS
<1>1. sales' = sales \cup {x} /\ Sold(t) = {}
  BY DEF Write
<1>. PICK m : m = Card(p) + 1
  OBVIOUS
<1>2. p \in Pdv /\ t \in Ticket /\ x.number = m /\ Card(p) \in Nat
  BY DEF Write, Inv, TypeOK, Job, NumberReserved, NextNumber, Card, RowsOnRoll
<1>3. t \notin Roll!SoldTickets
  BY <1>1, RollSold DEF Sold
<1>4. SalesOf(p)' = SalesOf(p) \cup {x} /\ \A o : o # p => SalesOf(o)' = SalesOf(o)
  BY <1>1 DEF SalesOf
<1>5. Card(p)' = m /\ TicketAt(p, m)' = t
  <2>1. m \in 1..Card(p)' /\ TicketAt(p, m)' = t
    BY <1>2, <1>4 DEF RowsOnRoll
  <2>2. \A n \in 1..Card(p)' : n \in 1..m
    <3>1. \A s \in SalesOf(p)' : s.number \in 1..m
      BY <1>2, <1>4 DEF RowsOnRoll
    <3>. QED
      BY <1>2, <3>1 DEF RowsOnRoll
  <2>3. Card(p)' \in Nat
    BY <1>2 DEF RowsOnRoll
  <2>. QED
    BY <2>1, <2>2, <2>3, <1>2
<1>6. RollOf(p)' = Append(RollOf(p), t)
  <2>1. \A n \in 1..Card(p) : TicketAt(p, n)' = TicketAt(p, n)
    BY <1>2, PlacesKept
  <2>2. RollOf(p)' = [n \in 1..m |-> TicketAt(p, n)']
    BY <1>5 DEF RollOf, Card
  <2>3. /\ RollOf(p) \in Seq(Ticket) /\ Len(RollOf(p)) = Card(p)
        /\ \A n \in 1..Card(p) : RollOf(p)[n] = TicketAt(p, n)
    BY <1>2, RollIsSeq DEF RollOf, Card
  <2>4. /\ Append(RollOf(p), t) \in Seq(Ticket) /\ Len(Append(RollOf(p), t)) = m
        /\ \A n \in 1..Card(p) : Append(RollOf(p), t)[n] = TicketAt(p, n)
        /\ Append(RollOf(p), t)[m] = t
    BY <1>2, <2>3, AppendProperties
  <2>5. Append(RollOf(p), t) = [n \in 1..m |-> Append(RollOf(p), t)[n]]
    BY <1>2, <2>4
  <2>6. \A n \in 1..m : TicketAt(p, n)' = Append(RollOf(p), t)[n]
    BY <1>2, <1>5, <2>1, <2>4
  <2>. QED
    BY <2>2, <2>5, <2>6
<1>7. \A o \in Pdv : o # p => RollOf(o)' = RollOf(o)
  BY <1>4, RollKept
<1>8. Rolls' = [Rolls EXCEPT ![p] = Append(@, t)]
  BY <1>2, <1>6, <1>7 DEF Rolls
<1>9. Cancelled' = Cancelled
  BY <1>1 DEF Cancelled
<1>. QED
  BY <1>3, <1>8, <1>9 DEF Roll!Sell, Rolls, Cancelled
-----------------------------------------------------------------------------
(* A flip cancels or restores the ticket it finds, and moves none.         *)

LEMMA FlipMarks ==
  ASSUME PosAssumption, Inv, RowsOnRoll, RowsOnRoll', [Next]_vars,
         NEW r \in Request, Flip(r), sales' # sales
  PROVE  \E t \in Ticket : Roll!Cancel(t) \/ Roll!Restore(t)
<1>. PICK t, b : t = job[r].ticket /\ b = WantCancelled(r)
  OBVIOUS
<1>1. PICK x \in Sold(t) : /\ x.cancelled # b
                          /\ sales' = (sales \ {x}) \cup {[x EXCEPT !.cancelled = b]}
  BY DEF Flip
<1>. PICK y : y = [x EXCEPT !.cancelled = b]
  OBVIOUS
<1>2. x \in sales /\ x \in Sale /\ x.ticket = t /\ t \in Ticket /\ b \in BOOLEAN
  BY DEF Sold, Inv, TypeOK, Sale, WantCancelled
<1>3. y.ticket = t /\ y.pdv = x.pdv /\ y.number = x.number /\ y.cancelled = b
  BY <1>2 DEF Sale
<1>4. sales' = (sales \ {x}) \cup {y}
  BY <1>1
<1>5. Rolls' = Rolls
  <2>1. ASSUME NEW p \in Pdv, NEW u \in SalesOf(p)'
        PROVE  \E s \in SalesOf(p) : s.number = u.number
    BY <1>2, <1>3, <1>4, <2>1 DEF SalesOf
  <2>2. \A p \in Pdv : RollOf(p)' = RollOf(p)
    BY <2>1, RollKept
  <2>. QED
    BY <2>2 DEF Rolls
<1>6. t \in Roll!SoldTickets
  BY <1>2, RollSold
<1>7. \A u \in sales \ {x} : u.ticket # t
  BY <1>2 DEF Inv, OneRowPerTicket
<1>8. /\ \A z : z \in Cancelled <=> \E u \in sales : u.cancelled /\ u.ticket = z
      /\ \A z : z \in Cancelled' <=> \E u \in sales' : u.cancelled /\ u.ticket = z
  BY DEF Cancelled
<1>9. CASE b
  <2>1. y.cancelled /\ ~ x.cancelled
    <3>1. y.cancelled = TRUE /\ x.cancelled # TRUE
      BY <1>1, <1>3, <1>9
    <3>2. x.cancelled \in BOOLEAN
      BY <1>2 DEF Sale
    <3>. QED
      BY <3>1, <3>2
  <2>2. t \notin Cancelled
    BY <1>7, <1>8, <2>1
  <2>3. \A z : z \in Cancelled' <=> z \in Cancelled \/ z = t
    <3>1. ASSUME NEW z, z \in Cancelled'
          PROVE  z \in Cancelled \/ z = t
      BY <3>1, <1>3, <1>4, <1>8
    <3>2. ASSUME NEW z \in Cancelled
          PROVE  z \in Cancelled'
      <4>1. PICK u \in sales : u.cancelled /\ u.ticket = z
        BY <3>2, <1>8
      <4>2. u # x
        BY <4>1, <2>1
      <4>. QED
        BY <4>1, <4>2, <1>4, <1>8
    <3>3. t \in Cancelled'
      BY <1>3, <1>4, <1>8, <2>1
    <3>. QED
      BY <3>1, <3>2, <3>3
  <2>4. Cancelled' = Cancelled \cup {t}
    BY <2>3
  <2>5. Roll!Cancel(t)
    BY <1>5, <1>6, <2>2, <2>4 DEF Roll!Cancel, Rolls, Cancelled
  <2>. QED
    BY <1>2, <2>5
<1>10. CASE ~ b
  <2>1. ~ y.cancelled /\ x.cancelled
    <3>1. y.cancelled = FALSE /\ x.cancelled # FALSE
      BY <1>1, <1>2, <1>3, <1>10
    <3>2. x.cancelled \in BOOLEAN
      BY <1>2 DEF Sale
    <3>. QED
      BY <3>1, <3>2
  <2>2. t \in Cancelled
    BY <1>2, <1>8, <2>1
  <2>3. \A z : z \in Cancelled' <=> z \in Cancelled /\ z # t
    <3>1. ASSUME NEW z, z \in Cancelled'
          PROVE  z \in Cancelled /\ z # t
      <4>1. PICK u \in sales' : u.cancelled /\ u.ticket = z
        BY <3>1, <1>8
      <4>2. u \in sales \ {x}
        BY <4>1, <2>1, <1>4
      <4>. QED
        BY <4>1, <4>2, <1>7, <1>8
    <3>2. ASSUME NEW z \in Cancelled, z # t
          PROVE  z \in Cancelled'
      <4>1. PICK u \in sales : u.cancelled /\ u.ticket = z
        BY <3>2, <1>8
      <4>2. u # x
        BY <4>1, <3>2, <1>2
      <4>. QED
        BY <4>1, <4>2, <1>4, <1>8
    <3>. QED
      BY <3>1, <3>2
  <2>4. Cancelled' = Cancelled \ {t}
    BY <2>3
  <2>5. Roll!Restore(t)
    BY <1>5, <2>2, <2>4 DEF Roll!Restore, Rolls, Cancelled
  <2>. QED
    BY <1>2, <2>5
<1>. QED
  BY <1>2, <1>9, <1>10

-----------------------------------------------------------------------------

LEMMA RollInit ==
  ASSUME Init, Inv, RowsOnRoll
  PROVE  Roll!Init
<1>1. \A p \in Pdv : SalesOf(p) = {}
  BY DEF Init, SalesOf
<1>2. \A p \in Pdv : Card(p) = 0
  BY <1>1, FS_EmptySet DEF Card
<1>3. \A p \in Pdv : RollOf(p) = <<>>
  BY <1>2, RollIsSeq, EmptySeq
<1>. QED
  BY <1>3 DEF Roll!Init, Init

LEMMA RollStep ==
  ASSUME PosAssumption, Inv, RowsOnRoll, RowsOnRoll', [Next]_vars
  PROVE  [Roll!Next]_<<Rolls, Cancelled>>
<1>1. CASE sales' = sales
  BY <1>1, QuietStep
<1>2. ASSUME NEW r \in Request, Write(r), sales' # sales
      PROVE  Roll!Next
  <2>1. job[r].pdv \in Pdv /\ job[r].ticket \in Ticket
    BY <1>2 DEF Write, Inv, TypeOK, Job
  <2>. QED
    BY <1>2, <2>1, WriteSells DEF Roll!Next
<1>3. ASSUME NEW r \in Request, Flip(r), sales' # sales
      PROVE  Roll!Next
  BY <1>3, FlipMarks DEF Roll!Next
<1>. QED
  BY <1>1, <1>2, <1>3, OnlyWritesAndFlips

\* The tills implement the rolls, for any number of requests, points of sale and
\* tickets: each committed sale tears off the next ticket of its till, of an
\* identifier never sold before, each flip cancels or restores one, and nothing
\* else a request does, lost answers and crashes included, touches the rolls.
THEOREM TillsImplementRolls == Spec => ImplementsRoll
<1>1. Inv => RowsOnRoll
  BY RowsPlaced
<1>2. Init /\ Inv /\ RowsOnRoll => Roll!Init
  BY RollInit
<1>3. Inv /\ RowsOnRoll /\ RowsOnRoll' /\ [Next]_vars => [Roll!Next]_Roll!vars
  BY PosAssumption, RollStep DEF Roll!vars, Rolls, Cancelled
<1>. QED
  BY <1>1, <1>2, <1>3, InvAlways, PTL DEF Spec, ImplementsRoll, Roll!Spec

-----------------------------------------------------------------------------
(* The price aggregate, as long as no delta is lost.                       *)

Coming(p) == {r \in Request : delta[r] = "upsert" /\ job[r].pdv = p /\ job[r].op \in {"sell", "restore"}}
Going(p) == {r \in Request : delta[r] = "upsert" /\ job[r].pdv = p /\ job[r].op \in {"cancel"}}
Left == {r \in Request : delta[r] # "none"}

\* A delta outlives the answer of its request and no more; a request writes
\* what it was asked, at its own till.
DeltasLeft ==
  /\ IsFiniteSet(Left)
  /\ \A r \in Request :
       /\ delta[r] # "none" => pc[r] = "answered"
       /\ pc[r] \in {"find", "lock", "count", "reread", "write"} => job[r].op = "sell"
       /\ pc[r] \in {"read", "flip"} => job[r].op \in {"cancel", "restore"}
       /\ pc[r] = "flip" => \E s \in sales : s.ticket = job[r].ticket /\ s.pdv = job[r].pdv

LEMMA Counts ==
  ASSUME TypeOK, IsFiniteSet(Left), NEW p \in Pdv
  PROVE  /\ IsFiniteSet(Coming(p)) /\ Cardinality(Coming(p)) \in Nat
         /\ IsFiniteSet(Going(p)) /\ Cardinality(Going(p)) \in Nat
         /\ IsFiniteSet(Active(p)) /\ Cardinality(Active(p)) \in Nat
         /\ agg[p] \in Int
<1>1. Coming(p) \subseteq Left /\ Going(p) \subseteq Left /\ Active(p) \subseteq sales
  BY DEF Coming, Going, Left, Active, SalesOf
<1>2. IsFiniteSet(Coming(p)) /\ IsFiniteSet(Going(p)) /\ IsFiniteSet(Active(p))
  BY <1>1, FS_Subset DEF TypeOK
<1> QED
  BY <1>2, FS_CardinalityType DEF TypeOK

\* What the aggregate of one till shows, and what is on its way.
Covered(p) == agg[p] + Cardinality(Coming(p)) - Cardinality(Going(p)) >= Cardinality(Active(p))

LEMMA CoveredIsIt == NeverUndercounts <=> \A p \in Pdv : Covered(p)
BY DEF NeverUndercounts, Covered, Outstanding, Coming, Going

\* A till nobody has touched.
LEMMA Untouched ==
  ASSUME NEW p \in Pdv, Covered(p),
         agg'[p] = agg[p], Coming(p)' = Coming(p), Going(p)' = Going(p), Active(p)' = Active(p)
  PROVE  Covered(p)'
BY DEF Covered

\* A step that writes neither a sale nor a delta.
Aside ==
  /\ UNCHANGED <<sales, agg, delta>>
  /\ \A r \in Request : delta[r] # "none" => job'[r] = job[r]

LEMMA AsideKeeps ==
  ASSUME NEW p \in Pdv, Covered(p), Aside
  PROVE  Covered(p)'
<1>1. Coming(p)' = Coming(p) /\ Going(p)' = Going(p)
  BY DEF Aside, Coming, Going
<1>2. Active(p)' = Active(p) /\ agg'[p] = agg[p]
  BY DEF Aside, Active, SalesOf
<1> QED
  BY <1>1, <1>2, Untouched

\* The steps of a request, and of nobody, that stand aside.
LEMMA AsideSteps ==
  ASSUME TypeOK, DeltasLeft, NEW r \in Request,
         \/ Begin(r) \/ FindExisting(r) \/ AssertCashOpen(r) \/ Lock(r) \/ CountTickets(r)
         \/ Reread(r) \/ AnswerRace(r) \/ ReadSale(r) \/ Refuse(r) \/ Abort(r) \/ Finish(r)
  PROVE  Aside
<1> USE DEF rowVars, aggVars, Aside
<1>1. CASE Begin(r)
  <2>1. pc[r] = "idle" /\ \A q \in Request \ {r} : job'[q] = job[q]
    BY <1>1 DEF Begin, StartSale, StartFlip, TypeOK
  <2>2. UNCHANGED <<sales, agg, delta>>
    BY <1>1 DEF Begin, StartSale, StartFlip
  <2> QED
    BY <2>1, <2>2 DEF DeltasLeft
<1>2. CASE Finish(r)
  BY <1>2 DEF Finish, TypeOK
<1>3. CASE FindExisting(r) \/ AssertCashOpen(r) \/ Lock(r) \/ CountTickets(r) \/ Reread(r)
  BY <1>3 DEF FindExisting, AssertCashOpen, Lock, CountTickets, Reread
<1>4. CASE AnswerRace(r) \/ ReadSale(r) \/ Refuse(r) \/ Abort(r)
  BY <1>4 DEF AnswerRace, ReadSale, Refuse, Abort
<1> QED
  BY <1>1, <1>2, <1>3, <1>4

\* A sale counts at once, and its delta is on its way.
LEMMA WriteCovers ==
  ASSUME Inv, DeltasLeft, NEW r \in Request, Write(r), NEW p \in Pdv, Covered(p)
  PROVE  Covered(p)'
<1> DEFINE x == [ticket |-> job[r].ticket, pdv |-> job[r].pdv,
                 number |-> number[r], cancelled |-> FALSE]
<1>0. pc[r] = "write" /\ delta[r] = "none" /\ job[r].op = "sell" /\ UNCHANGED <<agg, job>>
  BY DEF Write, DeltasLeft, Inv, TypeOK
<1>1. CASE UNCHANGED <<sales, delta>>
  BY <1>0, <1>1, AsideKeeps DEF Aside
<1>2. CASE /\ Sold(job[r].ticket) = {} /\ sales' = sales \cup {x}
           /\ delta' = [delta EXCEPT ![r] = "upsert"]
  <2>1. delta'[r] = "upsert" /\ \A q \in Request \ {r} : delta'[q] = delta[q]
    BY <1>2 DEF Inv, TypeOK
  <2>2. Going(p)' = Going(p)
    BY <1>0, <2>1 DEF Going
  <2>3. x \notin sales /\ x.pdv = job[r].pdv /\ ~ x.cancelled
    BY <1>2 DEF Sold
  <2>4. CASE job[r].pdv = p
    <3>1. Coming(p)' = Coming(p) \cup {r} /\ r \notin Coming(p)
      BY <1>0, <2>1, <2>4 DEF Coming
    <3>2. Active(p)' = Active(p) \cup {x} /\ x \notin Active(p)
      BY <1>2, <2>3, <2>4 DEF Active, SalesOf
    <3>3. Cardinality(Coming(p)') = Cardinality(Coming(p)) + 1
      BY <3>1, Counts, FS_AddElement DEF DeltasLeft, Inv
    <3>4. Cardinality(Active(p)') = Cardinality(Active(p)) + 1
      <4>1. IsFiniteSet(Active(p))
        BY Counts DEF DeltasLeft, Inv
      <4> HIDE DEF x
      <4> QED
        BY <3>2, <4>1, FS_AddElement
    <3> QED
      BY <1>0, <2>2, <3>3, <3>4, Counts DEF Covered, DeltasLeft, Inv
  <2>5. CASE job[r].pdv # p
    <3>1. Coming(p)' = Coming(p)
      BY <1>0, <2>1, <2>5 DEF Coming
    <3>2. Active(p)' = Active(p)
      BY <1>2, <2>3, <2>5 DEF Active, SalesOf
    <3> QED
      BY <1>0, <2>2, <3>1, <3>2, Untouched
  <2> QED
    BY <2>4, <2>5
<1> QED
  BY <1>1, <1>2 DEF Write

\* A flip matches its row while the row has the other state.
LEMMA FlipCovers ==
  ASSUME Inv, DeltasLeft, NEW r \in Request, Flip(r), NEW p \in Pdv, Covered(p)
  PROVE  Covered(p)'
<1>0. /\ pc[r] = "flip" /\ delta[r] = "none" /\ job[r].op \in {"cancel", "restore"}
      /\ UNCHANGED <<agg, job>>
  BY DEF Flip, DeltasLeft, Inv, TypeOK
<1>1. CASE UNCHANGED <<sales, delta>>
  BY <1>0, <1>1, AsideKeeps DEF Aside
<1>2. ASSUME NEW s \in Sold(job[r].ticket), s.cancelled # WantCancelled(r),
             sales' = (sales \ {s}) \cup {[s EXCEPT !.cancelled = WantCancelled(r)]},
             delta' = [delta EXCEPT ![r] = "upsert"]
      PROVE  Covered(p)'
  <2> DEFINE u == [s EXCEPT !.cancelled = WantCancelled(r)]
  <2>1. delta'[r] = "upsert" /\ \A q \in Request \ {r} : delta'[q] = delta[q]
    BY <1>2 DEF Inv, TypeOK
  <2>2. /\ s \in sales /\ s \in Sale /\ s.ticket = job[r].ticket
        /\ u.pdv = s.pdv /\ u.ticket = s.ticket /\ u.cancelled = WantCancelled(r)
    BY DEF Sold, Inv, TypeOK, Sale
  <2>3. u \notin sales
    BY <1>2, <2>2 DEF Inv, OneRowPerTicket
  <2>4. s.pdv = job[r].pdv
    BY <1>0, <2>2 DEF DeltasLeft, Inv, OneRowPerTicket
  <2>5. CASE job[r].pdv # p
    <3>1. Coming(p)' = Coming(p) /\ Going(p)' = Going(p)
      BY <1>0, <2>1, <2>5 DEF Coming, Going
    <3>2. Active(p)' = Active(p)
      BY <1>2, <2>2, <2>4, <2>5 DEF Active, SalesOf
    <3> QED
      BY <1>0, <3>1, <3>2, Untouched
  <2>6. CASE job[r].pdv = p /\ job[r].op = "restore"
    <3>1. Coming(p)' = Coming(p) \cup {r} /\ r \notin Coming(p) /\ Going(p)' = Going(p)
      BY <1>0, <2>1, <2>6 DEF Coming, Going
    <3>2. s.cancelled /\ ~ u.cancelled
      BY <1>2, <2>2, <2>6 DEF WantCancelled, Sale
    <3>3. Active(p)' = Active(p) \cup {u} /\ u \notin Active(p)
      BY <1>2, <2>2, <2>3, <2>4, <2>6, <3>2 DEF Active, SalesOf
    <3>4. Cardinality(Coming(p)') = Cardinality(Coming(p)) + 1
      BY <3>1, Counts, FS_AddElement DEF DeltasLeft, Inv
    <3>5. Cardinality(Active(p)') = Cardinality(Active(p)) + 1
      BY <3>3, Counts, FS_AddElement DEF DeltasLeft, Inv
    <3> QED
      BY <1>0, <3>1, <3>4, <3>5, Counts DEF Covered, DeltasLeft, Inv
  <2>7. CASE job[r].pdv = p /\ job[r].op = "cancel"
    <3>1. Going(p)' = Going(p) \cup {r} /\ r \notin Going(p) /\ Coming(p)' = Coming(p)
      BY <1>0, <2>1, <2>7 DEF Coming, Going
    <3>2. ~ s.cancelled /\ u.cancelled
      BY <1>2, <2>2, <2>7 DEF WantCancelled, Sale
    <3>3. Active(p)' = Active(p) \ {s} /\ s \in Active(p)
      BY <1>2, <2>2, <2>3, <2>4, <2>7, <3>2 DEF Active, SalesOf
    <3>4. Cardinality(Going(p)') = Cardinality(Going(p)) + 1
      BY <3>1, Counts, FS_AddElement DEF DeltasLeft, Inv
    <3>5. Cardinality(Active(p)') = Cardinality(Active(p)) - 1
      BY <3>3, Counts, FS_RemoveElement DEF DeltasLeft, Inv
    <3> QED
      BY <1>0, <3>1, <3>4, <3>5, Counts DEF Covered, DeltasLeft, Inv
  <2> QED
    BY <1>0, <2>5, <2>6, <2>7
<1> QED
  BY <1>1, <1>2 DEF Flip

\* What was on its way has arrived; a purge only raises what is shown.
LEMMA DeltaCovers ==
  ASSUME Inv, DeltasLeft, NEW r \in Request, UpsertDelta(r) \/ PurgeEmpty(r), NEW p \in Pdv, Covered(p)
  PROVE  Covered(p)'
<1>0. /\ UNCHANGED <<sales, job, pc>> /\ Active(p)' = Active(p)
      /\ agg \in [Pdv -> Int] /\ pc[r] = "answered" /\ job[r] \in Job
      /\ \A q \in Request \ {r} : delta'[q] = delta[q]
  BY DEF UpsertDelta, PurgeEmpty, rowVars, reqVars, Active, SalesOf, DeltasLeft, Inv, TypeOK
<1>1. CASE UpsertDelta(r)
  <2>1. /\ delta[r] = "upsert" /\ delta'[r] # "upsert"
        /\ agg'[job[r].pdv] = agg[job[r].pdv] + Weight(r)
        /\ \A o \in Pdv : o # job[r].pdv => agg'[o] = agg[o]
    BY <1>0, <1>1 DEF UpsertDelta, Inv, TypeOK, Job
  <2>2. CASE job[r].pdv # p
    <3>1. Coming(p)' = Coming(p) /\ Going(p)' = Going(p)
      BY <1>0, <2>1, <2>2 DEF Coming, Going
    <3> QED
      BY <1>0, <2>1, <2>2, <3>1, Untouched
  <2>3. CASE job[r].pdv = p /\ job[r].op = "cancel"
    <3>1. Going(p)' = Going(p) \ {r} /\ r \in Going(p) /\ Coming(p)' = Coming(p)
      BY <1>0, <2>1, <2>3 DEF Coming, Going
    <3>2. Cardinality(Going(p)') = Cardinality(Going(p)) - 1
      BY <3>1, Counts, FS_RemoveElement DEF DeltasLeft, Inv
    <3>3. agg'[p] = agg[p] - 1
      BY <1>0, <2>1, <2>3 DEF Weight
    <3> QED
      BY <1>0, <3>1, <3>2, <3>3, Counts DEF Covered, DeltasLeft, Inv
  <2>4. CASE job[r].pdv = p /\ job[r].op # "cancel"
    <3>0. job[r].op \in {"sell", "restore"}
      BY <1>0, <2>4 DEF Job
    <3>1. Coming(p)' = Coming(p) \ {r} /\ r \in Coming(p) /\ Going(p)' = Going(p)
      BY <1>0, <2>1, <2>4, <3>0 DEF Coming, Going
    <3>2. Cardinality(Coming(p)') = Cardinality(Coming(p)) - 1
      BY <3>1, Counts, FS_RemoveElement DEF DeltasLeft, Inv
    <3>3. agg'[p] = agg[p] + 1
      BY <1>0, <2>1, <2>4 DEF Weight
    <3> QED
      BY <1>0, <3>1, <3>2, <3>3, Counts DEF Covered, DeltasLeft, Inv
  <2> QED
    BY <2>2, <2>3, <2>4
<1>2. CASE PurgeEmpty(r)
  <2>1. Coming(p)' = Coming(p) /\ Going(p)' = Going(p)
    BY <1>0, <1>2 DEF PurgeEmpty, Coming, Going, Inv, TypeOK
  <2>2. agg'[p] >= agg[p] /\ agg'[p] \in Int
    BY <1>0, <1>2 DEF PurgeEmpty, Job
  <2> QED
    BY <1>0, <2>1, <2>2, Counts DEF Covered, DeltasLeft, Inv
<1> QED
  BY <1>1, <1>2

-----------------------------------------------------------------------------
\* A request's stage and its delta, step by step.
LEMMA LeftStep ==
  ASSUME TypeOK, DeltasLeft, [Next]_vars
  PROVE  IsFiniteSet(Left)'
<1> USE DEF rowVars, aggVars, reqVars
<1>1. ASSUME NEW r \in Request, Left' \subseteq Left \cup {r} PROVE IsFiniteSet(Left')
  BY <1>1, FS_AddElement, FS_Subset DEF DeltasLeft
<1>2. ASSUME Left' \subseteq Left PROVE IsFiniteSet(Left')
  BY <1>2, FS_Subset DEF DeltasLeft
<1>3. ASSUME NEW r \in Request, Step(r) PROVE Left' \subseteq Left \cup {r}
  <2>1. \A q \in Request \ {r} : delta'[q] = delta[q]
    BY <1>3 DEF TypeOK, Step, Begin, Continue, StartSale, StartFlip, FindExisting, AssertCashOpen, Refuse,
       Lock, CountTickets, Reread, Write, AnswerRace, Abort, ReadSale, Flip, UpsertDelta, PurgeEmpty,
       LoseDelta, Finish
  <2> QED
    BY <2>1 DEF Left
<1>4. CASE Crash
  <2>1. Left' = {}
    BY <1>4 DEF Crash, Left
  <2> QED
    BY <2>1, <1>2
<1>5. CASE (\E p \in Pdv : SwitchTill(p)) \/ UNCHANGED vars
  <2>1. Left' = Left
    BY <1>5 DEF SwitchTill, Left, vars
  <2> QED
    BY <2>1, <1>2
<1> QED
  BY <1>1, <1>3, <1>4, <1>5 DEF Next

\* What DeltasLeft says of one request.
Asked(q) ==
  /\ delta[q] # "none" => pc[q] = "answered"
  /\ pc[q] \in {"find", "lock", "count", "reread", "write"} => job[q].op = "sell"
  /\ pc[q] \in {"read", "flip"} => job[q].op \in {"cancel", "restore"}
  /\ pc[q] = "flip" => \E s \in sales : s.ticket = job[q].ticket /\ s.pdv = job[q].pdv

LEMMA SameAsked ==
  ASSUME PosAssumption, Inv, [Next]_vars, NEW q \in Request, Asked(q),
         UNCHANGED <<pc[q], job[q], delta[q]>>
  PROVE  Asked(q)'
<1>1. pc[q] = "flip" => \E s \in sales' : s.ticket = job[q].ticket /\ s.pdv = job[q].pdv
  BY SalesKept DEF Asked
<1> QED
  BY <1>1 DEF Asked

LEMMA OwnAsked ==
  ASSUME Inv, NEW r \in Request, Asked(r), Step(r)
  PROVE  Asked(r)'
<1> USE DEF rowVars, aggVars, reqVars, Goto, Answer, Inv, TypeOK
<1>1. CASE Begin(r)
  BY <1>1 DEF Begin, StartSale, StartFlip, Asked
<1>2. CASE FindExisting(r) \/ Lock(r) \/ CountTickets(r) \/ Reread(r)
  BY <1>2 DEF FindExisting, Replay, Lock, CountTickets, Reread, Asked
<1>3. CASE AssertCashOpen(r)
  <2>1. pc[r] = "open" /\ delta[r] = "none" /\ job[r].op \in {"sell", "cancel", "restore"}
    BY <1>3 DEF AssertCashOpen, Asked, Job
  <2>2. /\ UNCHANGED <<job, delta>>
        /\ \/ pc'[r] = "lock" /\ job[r].op = "sell"
           \/ pc'[r] = "read" /\ job[r].op # "sell"
           \/ pc'[r] = "answered"
    BY <1>3 DEF AssertCashOpen
  <2> QED
    BY <2>1, <2>2 DEF Asked
<1>4. CASE ReadSale(r)
  <2>1. pc[r] = "read" /\ UNCHANGED <<job, delta, sales>> /\ pc'[r] \in {"flip", "answered"}
    BY <1>4 DEF ReadSale
  <2>2. pc'[r] = "flip" => \E s \in sales : s.ticket = job[r].ticket /\ s.pdv = job[r].pdv
    BY <1>4 DEF ReadSale, Sold, SalesOf
  <2> QED
    BY <2>1, <2>2 DEF Asked
<1>5. CASE Refuse(r) \/ AnswerRace(r) \/ Abort(r) \/ Finish(r)
  BY <1>5 DEF Refuse, AnswerRace, Replay, Abort, Finish, Asked
<1>6. CASE Write(r) \/ Flip(r)
  BY <1>6 DEF Write, Flip, Asked
<1>7. CASE UpsertDelta(r) \/ PurgeEmpty(r) \/ LoseDelta(r)
  BY <1>7 DEF UpsertDelta, PurgeEmpty, LoseDelta, Asked
<1> QED
  BY <1>1, <1>2, <1>3, <1>4, <1>5, <1>6, <1>7 DEF Step, Continue

LEMMA DeltasLeftStep ==
  ASSUME PosAssumption, Inv, DeltasLeft, [Next]_vars
  PROVE  DeltasLeft'
<1>1. IsFiniteSet(Left)'
  BY LeftStep DEF Inv
<1>2. ASSUME NEW q \in Request PROVE Asked(q)'
  <2>0. Asked(q)
    BY DEF DeltasLeft, Asked
  <2>1. ASSUME NEW r \in Request, Step(r) PROVE Asked(q)'
    <3>1. CASE q = r
      BY <2>0, <2>1, <3>1, OwnAsked
    <3>2. CASE q # r
      <4>1. UNCHANGED <<pc[q], job[q], delta[q]>>
        BY <2>1, <3>2 DEF Inv, TypeOK, rowVars, aggVars, reqVars, Goto, Answer, Step, Begin, Continue,
           StartSale, StartFlip, FindExisting, Replay, AssertCashOpen, Refuse, Lock, CountTickets,
           Reread, Write, AnswerRace, Abort, ReadSale, Flip, UpsertDelta, PurgeEmpty, LoseDelta, Finish
      <4> QED
        BY <2>0, <4>1, SameAsked
    <3> QED
      BY <3>1, <3>2
  <2>2. CASE Crash
    BY <2>2 DEF Crash, Asked
  <2>3. CASE (\E p \in Pdv : SwitchTill(p)) \/ UNCHANGED vars
    <3>1. UNCHANGED <<pc[q], job[q], delta[q]>>
      BY <2>3 DEF SwitchTill, vars, aggVars, reqVars
    <3> QED
      BY <2>0, <3>1, SameAsked
  <2> QED
    BY <2>1, <2>2, <2>3 DEF Next
<1>3. \A q \in Request : Asked(q)'
  BY <1>2
<1> QED
  BY <1>1, <1>3 DEF DeltasLeft, Asked

\* No request is stopped between its commit and its delta.
NoDeltaLost == Faults \cap {"crash", "delta"} = {}

LEMMA CoveredStep ==
  ASSUME Inv, NoDeltaLost, DeltasLeft, NeverUndercounts, [Next]_vars
  PROVE  NeverUndercounts'
<1> SUFFICES ASSUME NEW p \in Pdv, Covered(p) PROVE Covered(p)'
  <2>1. \A p \in Pdv : Covered(p)
    BY CoveredIsIt
  <2>2. NeverUndercounts' <=> \A p \in Pdv : Covered(p)'
    BY DEF NeverUndercounts, Covered, Outstanding, Coming, Going
  <2> QED
    BY <2>1, <2>2
<1>1. CASE Crash
  BY <1>1 DEF Crash, NoDeltaLost
<1>2. CASE (\E o \in Pdv : SwitchTill(o)) \/ UNCHANGED vars
  <2>1. Aside
    BY <1>2 DEF SwitchTill, vars, rowVars, aggVars, reqVars, Aside
  <2> QED
    BY <2>1, AsideKeeps
<1>3. ASSUME NEW r \in Request, Step(r) PROVE Covered(p)'
  <2>1. CASE \/ Begin(r) \/ FindExisting(r) \/ AssertCashOpen(r) \/ Lock(r) \/ CountTickets(r)
             \/ Reread(r) \/ AnswerRace(r) \/ ReadSale(r) \/ Refuse(r) \/ Abort(r) \/ Finish(r)
    BY <2>1, AsideSteps, AsideKeeps DEF Inv
  <2>2. CASE Write(r)
    BY <2>2, WriteCovers
  <2>3. CASE Flip(r)
    BY <2>3, FlipCovers
  <2>4. CASE UpsertDelta(r) \/ PurgeEmpty(r)
    BY <2>4, DeltaCovers
  <2>5. CASE LoseDelta(r)
    BY <2>5 DEF LoseDelta, NoDeltaLost
  <2> QED
    BY <1>3, <2>1, <2>2, <2>3, <2>4, <2>5 DEF Step, Continue
<1> QED
  BY <1>1, <1>2, <1>3 DEF Next

\* The price aggregate of a till, with what is on its way, never falls short
\* of its active sales: for any number of requests, retried, aborted, refused
\* or racing to cancel and restore one ticket, as long as every delta that is
\* owed is applied (no crash between a commit and its delta, no delta that
\* fails and is swallowed).
THEOREM AggregateNeverShort ==
  ASSUME NoDeltaLost
  PROVE  Spec => []NeverUndercounts
<1>1. Init => DeltasLeft /\ NeverUndercounts
  <2> SUFFICES ASSUME Init PROVE DeltasLeft /\ NeverUndercounts
    OBVIOUS
  <2>1. Left = {} /\ \A p \in Pdv : Coming(p) = {} /\ Going(p) = {} /\ Active(p) = {}
    BY DEF Init, Left, Coming, Going, Active, SalesOf
  <2>2. DeltasLeft
    BY <2>1, FS_EmptySet DEF Init, DeltasLeft
  <2>3. \A p \in Pdv : Covered(p)
    BY <2>1, FS_EmptySet DEF Init, Covered
  <2> QED
    BY <2>2, <2>3, CoveredIsIt
<1>2. Inv /\ DeltasLeft /\ NeverUndercounts /\ [Next]_vars => (DeltasLeft /\ NeverUndercounts)'
  BY PosAssumption, DeltasLeftStep, CoveredStep
<1> QED
  BY <1>1, <1>2, InvAlways, PTL DEF Spec
==============================================================================
