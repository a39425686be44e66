------------------------- MODULE InventoryCounts_proofs -------------------------
(***************************************************************************)
(* What the counts of a match keep, for any number of articles, clients,   *)
(* requests, deliveries and faults: a count marked as sent is the one      *)
(* Logistics has and the sheet shows, the sheet never compares a count     *)
(* with itself, and deliveries are erased by newer counts only.            *)
(*                                                                         *)
(* None of it is inductive.  The invariant relates each call to the rows   *)
(* it has read: what it found unsent was not marked since except by the    *)
(* other call, what it counted lies between the version it saw and the one *)
(* there is now, and what it has sent is in the level until it is marked.  *)
(***************************************************************************)
EXTENDS InventoryCounts, SequenceTheorems, TLAPS

Call == [pc : {"idle", "counts", "sheet", "reset", "mark"},
         job : {"none", "count", "dirty", "manual"}, only : SUBSET Item,
         seen : [Item -> 0..MaxSaves], pending : SUBSET Item, count : [Item -> 0..MaxSaves]]

\* The markers a client has still to put, one after the other.
Markers == {<<>>, <<"dirty">>, <<"count">>, <<"dirty", "count">>}

\* TypeOK, by what it is about, with the shape of what Next rebuilds.
RowTypes == row \in [Item -> [at : 0..MaxSaves, counted : BOOLEAN, sent : BOOLEAN]]
SaveTypes == /\ \A c \in Client : save[c] \in Markers
             /\ DOMAIN save = Client /\ marker \subseteq {"count", "dirty"}
LevelTypes == /\ level \in [Item -> [count : 0..MaxSaves, plus : 0..MaxDeliveries]]
              /\ sheet \in [Item -> [count : 0..MaxSaves, base : 0..MaxSaves]]
QueueType == queue \in Seq(Job) /\ Len(queue) <= MaxWaiting
CallShape == /\ call \in [Slot -> Call]
             /\ \A s \in Slot : call[s].pc = "idle" => call[s] = Idle
             /\ call["button"].pc # "sheet"
OtherTypes == lost \in BOOLEAN /\ aside \subseteq Item /\ overlap \subseteq Item /\ faults \in 0..MaxFaults

Shape == RowTypes /\ SaveTypes /\ LevelTypes /\ QueueType /\ CallShape /\ OtherTypes

\* A call between its first read and its reset.
Reading(s) == call[s].pc \in {"counts", "sheet", "reset"}
\* It has read the counts, and has not reset yet.
Counted(s) == call[s].pc \in {"sheet", "reset"}
\* It has reset the level of i, and has not marked it yet.
Unmarked(s, i) == call[s].pc = "mark" /\ i \in call[s].pending

\* Versions only grow: nothing that was read or written is newer than the row.
Older(i) ==
  /\ level[i].count <= row[i].at /\ sheet[i].count <= row[i].at
  /\ row[i].counted => row[i].at # 0
  /\ \A s \in Slot : call[s].seen[i] <= row[i].at /\ call[s].count[i] <= row[i].at

\* What a call knows of a row: if it did not find it pending, it is sent until it is
\* saved again; the count it read is no older than the version it saw.
Knows(s, i) ==
  /\ Reading(s) /\ i \notin call[s].pending /\ row[i].at = call[s].seen[i] => row[i].sent
  /\ Counted(s) /\ call[s].count[i] # 0 => call[s].seen[i] <= call[s].count[i]
  /\ Counted(s) /\ row[i].at = call[s].seen[i] =>
       call[s].count[i] = IF row[i].counted THEN row[i].at ELSE 0

\* Two calls that are sending the same article were seen to.
Flagged(i) == Sending("turn", i) /\ Sending("button", i) => i \in overlap

\* What a call has still to send: were it marked, or in the level already, then
\* the other call would be sending it too, or it was sent aside.
Unsent(s, i) ==
  Reading(s) /\ i \in call[s].pending \cap call[s].only =>
    /\ row[i].sent => i \in overlap
    /\ level[i].count # 0 /\ call[s].seen[i] <= level[i].count => i \in aside \cup overlap

\* What is marked while the turn has its sheet to write, the button has sent.
MarkedByButton(i) ==
  Reading("turn") /\ row[i].sent /\ (i \in call["turn"].pending \/ row[i].at # call["turn"].seen[i])
    => i \in aside

\* What is sent stays in the level, and on the sheet, until it is marked.
SentIsThere(s, i) ==
  Unmarked(s, i) =>
    /\ i \in call[s].only
    /\ call[s].seen[i] <= level[i].count \/ i \in overlap
    /\ IF s = "turn" THEN call[s].seen[i] <= sheet[i].count ELSE i \in aside

\* The line of what the turn is about to send is the count it will send.
OnTheSheet(i) ==
  call["turn"].pc = "reset" /\ i \in Sends(call["turn"]) => sheet[i].count = call["turn"].count[i]

\* Logistics has a count that is not marked: its mark is to come, or was missed.
MarkToCome(i) ==
  level[i].count = row[i].at /\ row[i].at # 0 /\ ~ row[i].sent => i \in aside \/ Unmarked("turn", i)

\* MarkedWasSent and NeverAgainstItself, of one article.
Marked(i) ==
  row[i].counted /\ ~ Pending(row[i]) =>
    /\ level[i].count = row[i].at \/ i \in overlap
    /\ sheet[i].count = row[i].at \/ i \in aside
Compared(i) ==
  sheet[i].count = row[i].at /\ row[i].at # 0 => sheet[i].base < sheet[i].count \/ i \in aside

\* What the row, the level and the sheet of an article say, and what each call holds of it.
OfRow(i) == Older(i) /\ MarkToCome(i) /\ Marked(i) /\ Compared(i)
OfTurn(i) == Flagged(i) /\ MarkedByButton(i) /\ OnTheSheet(i)
OfCall(s, i) == Knows(s, i) /\ Unsent(s, i) /\ SentIsThere(s, i)
Facts(i) == OfRow(i) /\ OfTurn(i) /\ \A s \in Slot : OfCall(s, i)

Inv == Shape /\ \A i \in Item : Facts(i)

------------------------------------------------------------------------------
(* Types.                                                                  *)

LEMMA Types ==
  ASSUME Shape, NEW i \in Item
  PROVE  /\ row[i] \in [at : Nat, counted : BOOLEAN, sent : BOOLEAN]
         /\ level[i] \in [count : Nat, plus : Nat]
         /\ sheet[i] \in [count : Nat, base : Nat]
         /\ \A s \in Slot : call[s].seen[i] \in Nat /\ call[s].count[i] \in Nat
<1>1. \A n \in 0..MaxSaves : n \in Nat
  OBVIOUS
<1>2. \A n \in 0..MaxDeliveries : n \in Nat
  OBVIOUS
<1>3. row[i] \in [at : 0..MaxSaves, counted : BOOLEAN, sent : BOOLEAN]
  BY DEF Shape, RowTypes
<1>4. level[i] \in [count : 0..MaxSaves, plus : 0..MaxDeliveries]
  BY DEF Shape, LevelTypes
<1>5. sheet[i] \in [count : 0..MaxSaves, base : 0..MaxSaves]
  BY DEF Shape, LevelTypes
<1>6. \A s \in Slot : call[s].seen[i] \in 0..MaxSaves /\ call[s].count[i] \in 0..MaxSaves
  BY DEF Shape, CallShape, Call
<1>. QED  BY <1>1, <1>2, <1>3, <1>4, <1>5, <1>6

(* No slot but these two.                                                  *)
LEMMA TwoSlots == "turn" \in Slot /\ "button" \in Slot /\ \A s \in Slot : s = "turn" \/ s = "button"
BY DEF Slot

(* A shape of the calls is the type of the calls in TypeOK.                *)
LEMMA CallTypes ==
  ASSUME call \in [Slot -> Call]
  PROVE  \A s \in Slot :
           /\ call[s].pc \in {"idle", "counts", "sheet", "reset", "mark"}
           /\ call[s].job \in {"none", "count", "dirty", "manual"}
           /\ call[s].only \subseteq Item /\ call[s].pending \subseteq Item
           /\ {call[s].seen, call[s].count} \subseteq [Item -> 0..MaxSaves]
BY DEF Call

LEMMA IdleIsCall == Idle \in Call
<1>1. MaxSaves \in Nat
  BY CountsAssumption
<1>2. Blank \in [Item -> 0..MaxSaves]
  BY <1>1 DEF Blank
<1>. QED  BY <1>2 DEF Idle, Call

(* Jobs are queued at the end and taken from the front.                    *)
LEMMA QueueTypes ==
  ASSUME queue \in Seq(Job)
  PROVE  /\ ToSet(queue) \subseteq Job
         /\ \A k \in Job : Append(queue, k) \in Seq(Job) /\ Len(Append(queue, k)) = Len(queue) + 1
         /\ queue # <<>> => /\ Head(queue) \in Job /\ Tail(queue) \in Seq(Job)
                            /\ Len(Tail(queue)) = Len(queue) - 1
BY HeadTailProperties, ElementOfSeq DEF ToSet

------------------------------------------------------------------------------
(* Types are kept.                                                         *)

(* Markers are put one after the other.                                    *)
LEMMA MarkersLeft ==
  ASSUME NEW m \in Markers, m # <<>>
  PROVE  Head(m) \in {"count", "dirty"} /\ Tail(m) \in Markers
<1>1. CASE m = <<"dirty">>
  BY <1>1 DEF Markers
<1>2. CASE m = <<"count">>
  BY <1>2 DEF Markers
<1>3. CASE m = <<"dirty", "count">>
  <2>1. Head(m) = "dirty" /\ Tail(m) = <<"count">>
    BY <1>3
  <2>. QED  BY <2>1 DEF Markers
<1>. QED  BY <1>1, <1>2, <1>3 DEF Markers

LEMMA ShapeTypes == Shape => TypeOK
BY CallTypes, QueueTypes
   DEF Shape, RowTypes, SaveTypes, LevelTypes, QueueType, CallShape, OtherTypes, Markers, TypeOK

LEMMA ShapeInit == Init => Shape
<1>. SUFFICES ASSUME Init PROVE Shape
  OBVIOUS
<1>. USE CountsAssumption DEF Init
<1>0. MaxSaves \in Nat /\ MaxWaiting \in Nat /\ MaxDeliveries \in Nat /\ MaxFaults \in Nat
  OBVIOUS
<1>1. RowTypes
  BY <1>0 DEF RowTypes
<1>2. LevelTypes
  BY <1>0 DEF LevelTypes, NotCounted
<1>3. SaveTypes
  BY DEF SaveTypes, Markers
<1>4. QueueType
  BY <1>0 DEF QueueType
<1>5. call \in [Slot -> Call] /\ \A s \in Slot : call[s] = Idle
  BY IdleIsCall
<1>6. CallShape
  BY <1>5, TwoSlots DEF CallShape, Idle
<1>7. OtherTypes
  <2>1. lost \in BOOLEAN
    BY Zenon
  <2>. QED  BY <1>0, <2>1 DEF OtherTypes
<1>. QED  BY <1>1, <1>2, <1>3, <1>4, <1>6, <1>7 DEF Shape

(* The call of one slot moves on; the other does not.                      *)
LEMMA CallMoves ==
  ASSUME CallShape, NEW s \in Slot, NEW k \in Call, k.pc # "idle",
         s = "button" => k.pc # "sheet", call' = [call EXCEPT ![s] = k]
  PROVE  CallShape'
BY TwoSlots DEF CallShape

(* Calls that end are idle, in the one way there is to be.                 *)
LEMMA CallEnds ==
  ASSUME CallShape, call' \in [Slot -> Call], \A s \in Slot : call'[s] = Idle \/ call'[s] = call[s]
  PROVE  CallShape'
BY TwoSlots DEF CallShape, Idle

LEMMA EndsShape ==
  ASSUME CallShape, NEW s \in Slot, Ends(s)
  PROVE  CallShape'
<1>1. call' \in [Slot -> Call] /\ \A t \in Slot : call'[t] = Idle \/ call'[t] = call[t]
  BY IdleIsCall DEF Ends, CallShape
<1>. QED  BY <1>1, CallEnds

(* loadLogisticPushState.                                                  *)
LEMMA ReadsStateShape ==
  ASSUME Shape, NEW s \in Slot, NEW job \in {"none", "count", "dirty", "manual"},
         NEW only \in SUBSET Item, ReadsState(s, job, only)
  PROVE  CallShape' /\ overlap' \subseteq Item
<1>. DEFINE k == [pc |-> "counts", job |-> job, only |-> only, seen |-> [i \in Item |-> row[i].at],
                  pending |-> {i \in Item : Pending(row[i])}, count |-> Blank]
<1>1. \A i \in Item : row[i].at \in 0..MaxSaves
  BY DEF Shape, RowTypes
<1>2. Blank \in [Item -> 0..MaxSaves]
  BY IdleIsCall DEF Idle, Call
<1>3. k \in Call /\ k.pc = "counts"
  BY <1>1, <1>2 DEF Call
<1>4. call' = [call EXCEPT ![s] = k]
  BY DEF ReadsState
<1>5. CallShape'
  BY <1>3, <1>4, CallMoves DEF Shape
<1>6. overlap' \subseteq Item
  BY DEF Shape, ReadsState, OtherTypes
<1>. QED  BY <1>5, <1>6

LEMMA SaveShape ==
  ASSUME Shape, NEW c \in Client, NEW i \in Item, NEW counted \in BOOLEAN, Save(c, i, counted)
  PROVE  Shape'
<1>. USE CountsAssumption DEF Shape, Save
<1>1. RowTypes'
  BY DEF RowTypes
<1>2. SaveTypes'
  BY DEF SaveTypes, Markers
<1>3. OtherTypes'
  BY DEF OtherTypes
<1>4. LevelTypes' /\ QueueType' /\ CallShape'
  BY DEF LevelTypes, QueueType, CallShape
<1>. QED  BY <1>1, <1>2, <1>3, <1>4

LEMMA PutMarkerShape ==
  ASSUME Shape, NEW c \in Client, PutMarker(c)
  PROVE  Shape'
<1>. USE DEF Shape, PutMarker, history
<1>1. Head(save[c]) \in {"count", "dirty"} /\ Tail(save[c]) \in Markers
  BY MarkersLeft DEF SaveTypes
<1>2. SaveTypes'
  BY <1>1 DEF SaveTypes
<1>3. RowTypes' /\ OtherTypes' /\ LevelTypes' /\ QueueType' /\ CallShape'
  BY DEF RowTypes, OtherTypes, LevelTypes, QueueType, CallShape
<1>. QED  BY <1>2, <1>3

(* Who asks for a sheet, under a marker or not.                            *)
LEMMA WaitsShape ==
  ASSUME Shape, NEW job \in {"count", "dirty", "manual"}, NEW only \in SUBSET Item,
         Waits(job, only), marker' \subseteq marker
  PROVE  Shape'
<1>. USE CountsAssumption DEF Shape, Waits, history
<1>1. [job |-> job, only |-> only] \in Job
  BY DEF Job
<1>2. QueueType'
  <2>1. Len(queue) \in Nat
    BY DEF QueueType
  <2>. QED  BY <1>1, <2>1, QueueTypes DEF QueueType
<1>3. SaveTypes'
  BY DEF SaveTypes
<1>4. RowTypes' /\ OtherTypes' /\ LevelTypes' /\ CallShape'
  BY DEF RowTypes, OtherTypes, LevelTypes, CallShape
<1>. QED  BY <1>2, <1>3, <1>4

LEMMA UpdateLogisticsShape ==
  ASSUME Shape, UpdateLogistics
  PROVE  Shape'
<1>. USE DEF Shape, UpdateLogistics
<1>1. CallShape' /\ overlap' \subseteq Item
  BY ReadsStateShape, TwoSlots
<1>2. OtherTypes'
  BY <1>1 DEF OtherTypes, ReadsState
<1>3. RowTypes' /\ SaveTypes' /\ LevelTypes' /\ QueueType'
  BY DEF RowTypes, SaveTypes, LevelTypes, QueueType
<1>. QED  BY <1>1, <1>2, <1>3

LEMMA BeginShape ==
  ASSUME Shape, Begin
  PROVE  Shape'
<1>. USE DEF Shape, Begin
<1>1. QueueType' /\ Head(queue) \in Job
  BY QueueTypes, CountsAssumption DEF QueueType
<1>2. CASE \A i \in Item : row[i].at = 0
  <2>1. CallShape' /\ OtherTypes'
    BY <1>2 DEF CallShape, OtherTypes, history
  <2>. QED  BY <1>1, <2>1 DEF RowTypes, SaveTypes, LevelTypes
<1>3. CASE ~ \A i \in Item : row[i].at = 0
  <2>1. ReadsState("turn", Head(queue).job, Head(queue).only)
    BY <1>3
  <2>2. CallShape' /\ overlap' \subseteq Item
    BY <1>1, <2>1, ReadsStateShape, TwoSlots DEF Job
  <2>3. OtherTypes'
    BY <2>1, <2>2 DEF OtherTypes, ReadsState
  <2>. QED  BY <1>1, <2>2, <2>3 DEF RowTypes, SaveTypes, LevelTypes
<1>. QED  BY <1>2, <1>3

LEMMA ReadCountsShape ==
  ASSUME Shape, NEW s \in Slot, ReadCounts(s)
  PROVE  Shape'
<1>. USE CountsAssumption DEF Shape, ReadCounts
<1>. DEFINE k == [call[s] EXCEPT !.pc = IF s = "button" THEN "reset" ELSE "sheet",
                                 !.count = [i \in Item |-> IF row[i].counted THEN row[i].at ELSE 0]]
<1>1. [i \in Item |-> IF row[i].counted THEN row[i].at ELSE 0] \in [Item -> 0..MaxSaves]
  BY DEF RowTypes
<1>2. call[s] \in Call
  BY DEF CallShape
<1>3. k \in Call /\ k.pc # "idle" /\ (s = "button" => k.pc # "sheet")
  BY <1>1, <1>2 DEF Call
<1>4. call' = [call EXCEPT ![s] = k]
  BY DEF CallShape
<1>5. CallShape'
  BY <1>3, <1>4, CallMoves
<1>. QED  BY <1>5 DEF RowTypes, SaveTypes, LevelTypes, QueueType, OtherTypes, history

LEMMA WriteSheetShape ==
  ASSUME Shape, WriteSheet
  PROVE  Shape'
<1>. USE CountsAssumption DEF Shape, WriteSheet
<1>1. call["turn"] \in Call
  BY TwoSlots DEF CallShape
<1>2. call' = [call EXCEPT !["turn"] = [call["turn"] EXCEPT !.pc = "reset"]]
  BY TwoSlots DEF Goes, CallShape
<1>3. CallShape'
  <2>. DEFINE k == [call["turn"] EXCEPT !.pc = "reset"]
  <2>1. k \in Call /\ k.pc = "reset"
    BY <1>1 DEF Call
  <2>. QED  BY <1>2, <2>1, CallMoves, TwoSlots
<1>4. \A i \in Item : LineOf(call["turn"], i) \in [count : 0..MaxSaves, base : 0..MaxSaves]
  <2>. TAKE i \in Item
  <2>1. /\ call["turn"].count[i] \in 0..MaxSaves /\ level[i].count \in 0..MaxSaves
        /\ sheet[i] \in [count : 0..MaxSaves, base : 0..MaxSaves]
    BY <1>1 DEF Call, LevelTypes
  <2>. QED  BY <2>1 DEF LineOf, NotCounted
<1>5. LevelTypes'
  BY <1>4 DEF LevelTypes
<1>. QED  BY <1>3, <1>5 DEF RowTypes, SaveTypes, QueueType, OtherTypes, history

LEMMA ResetShape ==
  ASSUME Shape, NEW s \in Slot, Reset(s)
  PROVE  Shape'
<1>. USE CountsAssumption DEF Shape, Reset
<1>1. call[s] \in Call
  BY DEF CallShape
<1>2. Sends(call[s]) \subseteq Item
  BY <1>1 DEF Sends, Call
<1>3. CASE Sends(call[s]) = {} /\ Ends(s) /\ UNCHANGED <<level, aside>>
  <2>1. CallShape'
    BY <1>3, EndsShape
  <2>. QED  BY <1>3, <2>1 DEF RowTypes, SaveTypes, LevelTypes, QueueType, OtherTypes
<1>4. CASE Sends(call[s]) # {}
  <2>. DEFINE k == [call[s] EXCEPT !.pc = "mark", !.pending = Sends(call[s]), !.count = Blank]
  <2>1. k \in Call /\ k.pc = "mark"
    BY <1>1, <1>2, IdleIsCall DEF Call, Idle
  <2>2. call' = [call EXCEPT ![s] = k]
    BY <1>4 DEF CallShape
  <2>3. CallShape'
    BY <2>1, <2>2, CallMoves
  <2>4. \A i \in Item : level[i] \in [count : 0..MaxSaves, plus : 0..MaxDeliveries]
                        /\ call[s].count[i] \in 0..MaxSaves
    BY <1>1 DEF LevelTypes, Call
  <2>5. LevelTypes'
    BY <1>4, <2>4 DEF LevelTypes
  <2>6. OtherTypes'
    BY <1>2, <1>4 DEF OtherTypes
  <2>. QED  BY <2>3, <2>5, <2>6 DEF RowTypes, SaveTypes, QueueType
<1>. QED  BY <1>3, <1>4

(* The error of a call.                                                    *)
LEMMA FailsShape ==
  ASSUME Shape, NEW s \in Slot, ResetFails(s) \/ MarkFails(s) \/ Throws(s)
  PROVE  Shape'
<1>. USE CountsAssumption DEF Shape
<1>1. call[s] \in Call
  BY DEF CallShape
<1>2. CallShape'
  BY EndsShape DEF ResetFails, MarkFails, Throws
<1>3. lost' \in BOOLEAN
  <2>1. CASE ResetFails(s)
    BY <2>1, Zenon DEF ResetFails
  <2>2. CASE MarkFails(s) \/ Throws(s)
    BY <2>2 DEF MarkFails, Throws, OtherTypes, history
  <2>. QED  BY <2>1, <2>2
<1>4. OtherTypes'
  BY <1>1, <1>3 DEF OtherTypes, Call, ResetFails, MarkFails, Throws, history
<1>5. SaveTypes'
  BY DEF SaveTypes, ResetFails, MarkFails, Throws, PutBack
<1>6. RowTypes' /\ LevelTypes' /\ QueueType'
  BY DEF RowTypes, LevelTypes, QueueType, ResetFails, MarkFails, Throws
<1>. QED  BY <1>2, <1>4, <1>5, <1>6

LEMMA MarkPushedShape ==
  ASSUME Shape, NEW s \in Slot, MarkPushed(s)
  PROVE  Shape'
<1>. USE DEF Shape, MarkPushed
<1>1. call[s] \in Call
  BY DEF CallShape
<1>2. CallShape'
  BY EndsShape
<1>3. RowTypes'
  BY DEF RowTypes
<1>4. OtherTypes'
  BY <1>1 DEF OtherTypes, Call
<1>. QED  BY <1>2, <1>3, <1>4 DEF SaveTypes, LevelTypes, QueueType

LEMMA ProcessDiesShape ==
  ASSUME Shape, ProcessDies
  PROVE  Shape'
<1>. USE CountsAssumption DEF Shape, ProcessDies
<1>1. CallShape'
  <2>1. call' \in [Slot -> Call] /\ \A s \in Slot : call'[s] = Idle
    BY IdleIsCall
  <2>. QED  BY <2>1, CallEnds
<1>2. lost' \in BOOLEAN
  BY Zenon
<1>3. \A s \in Slot : call[s].pending \subseteq Item
  BY CallTypes DEF CallShape
<1>4. OtherTypes'
  BY <1>2, <1>3 DEF OtherTypes
<1>5. SaveTypes'
  BY DEF SaveTypes, Markers
<1>6. QueueType'
  BY DEF QueueType
<1>. QED  BY <1>1, <1>4, <1>5, <1>6 DEF RowTypes, LevelTypes

LEMMA DeliveryShape ==
  ASSUME Shape, NEW i \in Item, Delivery(i)
  PROVE  Shape'
<1>. USE CountsAssumption DEF Shape, Delivery
<1>1. LevelTypes'
  BY DEF LevelTypes
<1>. QED  BY <1>1 DEF RowTypes, SaveTypes, QueueType, CallShape, OtherTypes, history

LEMMA ShapeStep == Shape /\ [Next]_vars => Shape'
<1>. SUFFICES ASSUME Shape, [Next]_vars PROVE Shape'
  OBVIOUS
<1>1. CASE \E c \in Client, i \in Item, counted \in BOOLEAN : Save(c, i, counted)
  BY <1>1, SaveShape
<1>2. CASE \E c \in Client : PutMarker(c)
  BY <1>2, PutMarkerShape
<1>3. CASE Flush \/ FlushDirty
  BY <1>3, WaitsShape DEF Flush, FlushDirty
<1>4. CASE \E only \in Asked : Regenerate(only)
  <2>1. PICK only \in Asked : Regenerate(only)
    BY <1>4
  <2>. QED  BY <2>1, WaitsShape, CountsAssumption DEF Regenerate
<1>5. CASE UpdateLogistics
  BY <1>5, UpdateLogisticsShape
<1>6. CASE Begin
  BY <1>6, BeginShape
<1>7. CASE WriteSheet
  BY <1>7, WriteSheetShape
<1>8. CASE \E s \in Slot : Resumes(s)
  BY <1>8, ReadCountsShape, ResetShape, MarkPushedShape DEF Resumes
<1>9. CASE \E s \in Slot : ResetFails(s) \/ MarkFails(s) \/ Throws(s)
  BY <1>9, FailsShape
<1>10. CASE \E i \in Item : Delivery(i)
  BY <1>10, DeliveryShape
<1>11. CASE ProcessDies
  BY <1>11, ProcessDiesShape
<1>12. CASE UNCHANGED vars
  BY <1>12 DEF vars, history, Shape, RowTypes, SaveTypes, LevelTypes, QueueType, CallShape, OtherTypes
<1>. QED
  BY <1>1, <1>2, <1>3, <1>4, <1>5, <1>6, <1>7, <1>8, <1>9, <1>10, <1>11, <1>12 DEF Next

------------------------------------------------------------------------------
(* The facts are kept.                                                     *)

LEMMA FactsInit == Init => \A i \in Item : Facts(i)
<1>. SUFFICES ASSUME Init, NEW i \in Item PROVE Facts(i)
  OBVIOUS
<1>1. /\ row[i] = [at |-> 0, counted |-> FALSE, sent |-> FALSE]
      /\ level[i] = [count |-> 0, plus |-> 0] /\ sheet[i] = [count |-> 0, base |-> 0]
  BY DEF Init, NotCounted
<1>2. \A s \in Slot : call[s].pc = "idle" /\ call[s].seen[i] = 0 /\ call[s].count[i] = 0
  BY DEF Init, Idle, Blank
<1>3. OfRow(i)
  BY <1>1, <1>2 DEF OfRow, Older, MarkToCome, Marked, Compared
<1>4. OfTurn(i)
  BY <1>2, TwoSlots DEF OfTurn, Flagged, Sending, MarkedByButton, OnTheSheet, Reading
<1>5. \A s \in Slot : OfCall(s, i)
  BY <1>2 DEF OfCall, Knows, Unsent, SentIsThere, Reading, Counted, Unmarked
<1>. QED  BY <1>3, <1>4, <1>5 DEF Facts

\* What a step leaves of an article: its versions, and the calls but for those that end.
Same(i) ==
  /\ row'[i] = row[i] /\ level'[i].count = level[i].count /\ sheet'[i] = sheet[i]
  /\ aside \subseteq aside' /\ overlap' = overlap
  /\ \A s \in Slot : call'[s] = call[s] \/ call'[s] = Idle

(* Facts about an article are kept while its versions are, whichever call  *)
(* ends, when a call that ends before its mark leaves the article aside.   *)
LEMMA SameKeepsFacts ==
  ASSUME Shape, NEW i \in Item, Facts(i), Same(i),
         call'["turn"] = Idle /\ Unmarked("turn", i) => i \in aside'
  PROVE  Facts(i)'
<1>0. \A s \in Slot : call[s].pc # "idle" \/ call[s] = Idle
  BY DEF Shape, CallShape
<1>1. \A s \in Slot : \/ call'[s] = call[s]
                      \/ call'[s].pc = "idle" /\ call'[s].seen[i] = 0 /\ call'[s].count[i] = 0
  BY DEF Same, Idle, Blank
<1>. USE Types, TwoSlots
<1>2. OfRow(i)'
  BY <1>1 DEF Facts, OfRow, Older, MarkToCome, Marked, Compared, Same, Unmarked, Pending, Idle
<1>3. OfTurn(i)'
  BY <1>1 DEF Facts, OfTurn, Flagged, Sending, MarkedByButton, OnTheSheet, Reading, Sends, Same
<1>4. \A s \in Slot : OfCall(s, i)'
  BY <1>1 DEF Facts, OfCall, Knows, Unsent, SentIsThere, Reading, Counted, Unmarked, Same
<1>. QED  BY <1>2, <1>3, <1>4 DEF Facts

(* A save makes a row newer than all there is of it.                       *)
LEMMA SaveFacts ==
  ASSUME Shape, NEW c \in Client, NEW i \in Item, NEW counted \in BOOLEAN, Save(c, i, counted),
         NEW j \in Item, Facts(j)
  PROVE  Facts(j)'
<1>. USE Types, TwoSlots
<1>1. call' = call /\ level' = level /\ sheet' = sheet /\ overlap' = overlap /\ aside' \subseteq aside
  BY DEF Save
<1>2. CASE j # i
  <2>1. row'[j] = row[j] /\ (j \in aside => j \in aside')
    BY <1>2 DEF Save, Shape, RowTypes
  <2>2. OfRow(j)'
    BY <1>1, <2>1 DEF Facts, OfRow, Older, MarkToCome, Marked, Compared, Unmarked
  <2>3. OfTurn(j)'
    BY <1>1, <2>1 DEF Facts, OfTurn, Flagged, Sending, MarkedByButton, OnTheSheet, Reading, Sends
  <2>4. \A s \in Slot : OfCall(s, j)'
    BY <1>1, <2>1 DEF Facts, OfCall, Knows, Unsent, SentIsThere, Reading, Counted, Unmarked
  <2>. QED  BY <2>2, <2>3, <2>4 DEF Facts
<1>3. CASE j = i
  <2>1. row'[i] = [at |-> row[i].at + 1, counted |-> counted, sent |-> FALSE]
    BY DEF Save, Shape, RowTypes
  <2>2. i \in aside' \/ i \notin aside \/ \A s \in Slot : call[s].pc = "idle"
    BY DEF Save
  <2>3. OfRow(i)'
    BY <1>1, <1>3, <2>1 DEF Facts, OfRow, Older, MarkToCome, Marked, Compared, Pending
  <2>4. OfTurn(i)'
    BY <1>1, <1>3, <2>1 DEF Facts, OfTurn, Flagged, Sending, MarkedByButton, OnTheSheet, Reading, Sends
  <2>5. \A s \in Slot : OfCall(s, i)'
    <3>. TAKE s \in Slot
    <3>1. Knows(s, i)'
      BY <1>1, <1>3, <2>1 DEF Facts, OfRow, Older, OfCall, Knows, Reading, Counted
    <3>2. Unsent(s, i)' /\ SentIsThere(s, i)'
      BY <1>1, <1>3, <2>1, <2>2 DEF Facts, OfCall, Unsent, SentIsThere, Reading, Unmarked
    <3>. QED  BY <3>1, <3>2 DEF OfCall
  <2>. QED  BY <1>3, <2>3, <2>4, <2>5 DEF Facts
<1>. QED  BY <1>2, <1>3

(* The first read of a call: what is pending is not marked, and what the   *)
(* other call has in hand overlaps.                                        *)
LEMMA ReadsStateFacts ==
  ASSUME Shape, NEW s \in Slot, NEW job, NEW only \in SUBSET Item, ReadsState(s, job, only),
         UNCHANGED <<row, level, sheet>>, NEW i \in Item, Facts(i)
  PROVE  Facts(i)'
<1>. USE Types, TwoSlots
<1>1. /\ call'[s].pc = "counts" /\ call'[s].only = only /\ call'[s].seen[i] = row[i].at
      /\ (i \in call'[s].pending <=> ~ row[i].sent) /\ call'[s].count[i] = 0
      /\ \A t \in Slot \ {s} : call'[t] = call[t]
  BY DEF ReadsState, Shape, CallShape, Pending, Blank
<1>2. call[s].pc = "idle" /\ aside' = aside
  BY DEF ReadsState
<1>3. /\ overlap \subseteq overlap'
      /\ ~ row[i].sent /\ i \in only /\ (\E t \in Slot \ {s} : Sending(t, i)) => i \in overlap'
  BY DEF ReadsState, Pending
<1>4. OfRow(i)'
  BY <1>1, <1>2, <1>3 DEF Facts, OfRow, Older, MarkToCome, Marked, Compared, Unmarked
<1>5. Flagged(i)'
  BY <1>1, <1>3 DEF Facts, OfTurn, Flagged, Sending
<1>6. MarkedByButton(i)' /\ OnTheSheet(i)'
  BY <1>1, <1>2 DEF Facts, OfTurn, MarkedByButton, OnTheSheet, Reading, Sends
<1>7. \A t \in Slot \ {s} : OfCall(t, i)'
  BY <1>1, <1>2, <1>3 DEF Facts, OfCall, Knows, Unsent, SentIsThere, Reading, Counted, Unmarked
<1>8. Knows(s, i)' /\ SentIsThere(s, i)'
  BY <1>1 DEF Knows, SentIsThere, Reading, Counted, Unmarked
<1>9. Unsent(s, i)'
  <2>. SUFFICES ASSUME i \in call'[s].pending, i \in only, level[i].count # 0,
                       row[i].at <= level[i].count, i \notin aside
       PROVE  i \in overlap'
    BY <1>1, <1>2 DEF Unsent, Reading
  <2>1. Unmarked("turn", i)
    BY <1>1 DEF Facts, OfRow, Older, MarkToCome
  <2>2. s = "button" /\ Sending("turn", i)
    BY <1>2, <2>1 DEF Unmarked, Sending, Facts, OfCall, SentIsThere
  <2>. QED  BY <1>1, <1>3, <2>2
<1>. QED  BY <1>4, <1>5, <1>6, <1>7, <1>8, <1>9 DEF Facts, OfTurn, OfCall

(* The counts are read after the versions, and are no older.               *)
LEMMA ReadCountsFacts ==
  ASSUME Shape, NEW s \in Slot, ReadCounts(s), NEW i \in Item, Facts(i)
  PROVE  Facts(i)'
<1>. USE Types, TwoSlots
<1>1. /\ call[s].pc = "counts" /\ call'[s].pc = IF s = "button" THEN "reset" ELSE "sheet"
      /\ call'[s].only = call[s].only /\ call'[s].seen = call[s].seen
      /\ call'[s].pending = call[s].pending
      /\ call'[s].count[i] = IF row[i].counted THEN row[i].at ELSE 0
      /\ \A t \in Slot \ {s} : call'[t] = call[t]
  BY DEF ReadCounts, Shape, CallShape, Call
<1>2. row' = row /\ level' = level /\ sheet' = sheet /\ aside' = aside /\ overlap' = overlap
  BY DEF ReadCounts, history
<1>3. OfRow(i)'
  BY <1>1, <1>2 DEF Facts, OfRow, Older, MarkToCome, Marked, Compared, Unmarked
<1>4. OfTurn(i)'
  BY <1>1, <1>2 DEF Facts, OfTurn, Flagged, Sending, MarkedByButton, OnTheSheet, Reading, Sends
<1>5. \A t \in Slot : OfCall(t, i)'
  <2>1. \A t \in Slot : Unsent(t, i)' /\ SentIsThere(t, i)'
    BY <1>1, <1>2 DEF Facts, OfCall, Unsent, SentIsThere, Reading, Unmarked
  <2>2. \A t \in Slot : Knows(t, i)'
    BY <1>1, <1>2 DEF Facts, OfRow, Older, OfCall, Knows, Reading, Counted
  <2>. QED  BY <2>1, <2>2 DEF OfCall
<1>. QED  BY <1>3, <1>4, <1>5 DEF Facts

(* The sheet: a line that is taken over was right, a line computed anew    *)
(* compares the count with the level before it.                            *)
LEMMA WriteSheetFacts ==
  ASSUME Shape, WriteSheet, NEW i \in Item, Facts(i)
  PROVE  Facts(i)'
<1>. DEFINE k == call["turn"]
<1>. USE Types, TwoSlots
<1>1. /\ k.pc = "sheet" /\ call'["turn"].pc = "reset"
      /\ call'["turn"].only = k.only /\ call'["turn"].seen = k.seen
      /\ call'["turn"].pending = k.pending /\ call'["turn"].count = k.count
      /\ call'["button"] = call["button"]
  BY DEF WriteSheet, Goes, Shape, CallShape, Call
<1>2. row' = row /\ level' = level /\ aside' = aside /\ overlap' = overlap
  BY DEF WriteSheet, history
<1>3. \/ k.count[i] = 0 /\ sheet'[i] = NotCounted
      \/ k.count[i] # 0 /\ sheet[i] # NotCounted /\ i \notin k.pending /\ sheet'[i] = sheet[i]
      \/ /\ k.count[i] # 0 /\ (sheet[i] = NotCounted \/ i \in k.pending)
         /\ sheet'[i] = [count |-> k.count[i], base |-> level[i].count]
  BY DEF WriteSheet, LineOf
<1>4. sheet'[i].count \in Nat /\ sheet'[i].base \in Nat /\ NotCounted.count = 0
  BY <1>3 DEF NotCounted
<1>5. Older(i)'
  BY <1>1, <1>2, <1>3 DEF Facts, OfRow, Older, NotCounted
<1>6. MarkToCome(i)'
  BY <1>1, <1>2 DEF Facts, OfRow, MarkToCome, Unmarked
<1>7. Marked(i)'
  <2>. SUFFICES ASSUME row[i].counted, row[i].sent, i \notin aside
       PROVE  sheet'[i].count = row[i].at
    BY <1>2 DEF Facts, OfRow, Marked, Pending
  <2>1. i \notin k.pending /\ row[i].at = k.seen[i]
    BY <1>1 DEF Facts, OfTurn, MarkedByButton, Reading
  <2>2. k.count[i] = row[i].at /\ row[i].at # 0
    BY <1>1, <2>1 DEF Facts, OfRow, Older, OfCall, Knows, Counted
  <2>3. sheet[i].count = row[i].at
    BY DEF Facts, OfRow, Marked, Pending
  <2>. QED  BY <1>3, <2>1, <2>2, <2>3
<1>8. Compared(i)'
  <2>. SUFFICES ASSUME sheet'[i].count = row[i].at, row[i].at # 0, i \notin aside
       PROVE  sheet'[i].base < sheet'[i].count
    BY <1>2 DEF Compared
  <2>1. CASE sheet'[i] = sheet[i]
    BY <2>1 DEF Facts, OfRow, Compared
  <2>2. CASE sheet'[i] # sheet[i]
    <3>1. /\ k.count[i] # 0 /\ (sheet[i] = NotCounted \/ i \in k.pending)
          /\ sheet'[i] = [count |-> k.count[i], base |-> level[i].count]
      BY <1>3, <1>4, <2>2
    <3>2. k.count[i] = row[i].at
      BY <3>1
    <3>3. ~ row[i].sent
      <4>. SUFFICES ASSUME row[i].sent PROVE FALSE
        OBVIOUS
      <4>1. i \notin k.pending /\ row[i].at = k.seen[i]
        BY <1>1 DEF Facts, OfTurn, MarkedByButton, Reading
      <4>2. row[i].counted
        BY <1>1, <3>2, <4>1 DEF Facts, OfCall, Knows, Counted
      <4>3. sheet[i].count = row[i].at
        BY <4>2 DEF Facts, OfRow, Marked, Pending
      <4>. QED  BY <1>4, <3>1, <4>1, <4>3
    <3>4. level[i].count < row[i].at
      BY <1>1, <3>3 DEF Facts, OfRow, Older, MarkToCome, Unmarked
    <3>. QED  BY <3>1, <3>2, <3>4
  <2>. QED  BY <2>1, <2>2
<1>9. OnTheSheet(i)'
  BY <1>1, <1>3 DEF OnTheSheet, Sends
<1>10. Flagged(i)' /\ MarkedByButton(i)'
  BY <1>1, <1>2 DEF Facts, OfTurn, Flagged, Sending, MarkedByButton, Reading
<1>11. \A s \in Slot : OfCall(s, i)'
  BY <1>1, <1>2 DEF Facts, OfCall, Knows, Unsent, SentIsThere, Reading, Counted, Unmarked
<1>. QED  BY <1>5, <1>6, <1>7, <1>8, <1>9, <1>10, <1>11 DEF Facts, OfRow, OfTurn

(* A reset of the article: the other call either is not sending it, or     *)
(* that was seen to.                                                       *)
LEMMA ResetFacts ==
  ASSUME Shape, NEW s \in Slot, Reset(s), NEW i \in Item, Facts(i)
  PROVE  Facts(i)'
<1>. DEFINE k == call[s]
            sent == Sends(k)
<1>. USE Types, TwoSlots
<1>1. CASE sent = {} /\ Ends(s) /\ UNCHANGED <<level, aside>>
  <2>1. Same(i) /\ ~ (call'["turn"] = Idle /\ Unmarked("turn", i))
    BY <1>1 DEF Reset, Same, Ends, Unmarked, Idle, Shape, CallShape
  <2>. QED  BY <2>1, SameKeepsFacts
<1>2. CASE sent # {}
  <2>1. /\ k.pc = "reset" /\ call'[s].pc = "mark"
        /\ call'[s].only = k.only /\ call'[s].seen = k.seen
        /\ call'[s].pending = sent /\ call'[s].count[i] = 0
        /\ \A t \in Slot \ {s} : call'[t] = call[t]
    BY <1>2 DEF Reset, Shape, CallShape, Call, Blank
  <2>2. /\ row' = row /\ sheet' = sheet /\ overlap' = overlap
        /\ level'[i].count = IF i \in sent THEN k.count[i] ELSE level[i].count
        /\ aside \subseteq aside' /\ (s = "button" /\ i \in sent => i \in aside')
    BY <1>2 DEF Reset, Shape, LevelTypes
  <2>3. i \in sent => i \in k.only /\ i \in k.pending /\ k.count[i] # 0 /\ k.seen[i] <= k.count[i]
    BY <2>1 DEF Sends, Facts, OfCall, Knows, Counted
  <2>4. i \in sent => Sending(s, i)
    BY <2>1, <2>3 DEF Sending
  <2>5. OfRow(i)'
    <3>1. Older(i)'
      BY <2>1, <2>2 DEF Facts, OfRow, Older
    <3>2. MarkToCome(i)'
      BY <2>1, <2>2 DEF Facts, OfRow, MarkToCome, Unmarked
    <3>3. Marked(i)'
      BY <2>1, <2>2, <2>3 DEF Facts, OfRow, Marked, Pending, OfCall, Unsent, Reading
    <3>4. Compared(i)'
      BY <2>2 DEF Facts, OfRow, Compared
    <3>. QED  BY <3>1, <3>2, <3>3, <3>4 DEF OfRow
  <2>6. OfTurn(i)'
    BY <2>1, <2>2, <2>3 DEF Facts, OfTurn, Flagged, Sending, MarkedByButton, OnTheSheet, Reading, Sends
  <2>7. SentIsThere(s, i)'
    BY <2>1, <2>2, <2>3 DEF Facts, OfTurn, OnTheSheet, SentIsThere, Unmarked
  <2>8. Knows(s, i)' /\ Unsent(s, i)'
    BY <2>1 DEF Knows, Unsent, Reading, Counted
  <2>9. ASSUME NEW t \in Slot \ {s} PROVE OfCall(t, i)'
    <3>1. i \in sent /\ Sending(t, i) => i \in overlap
      BY <2>4 DEF Facts, OfTurn, Flagged
    <3>2. Knows(t, i)'
      BY <2>1, <2>2 DEF Facts, OfCall, Knows, Reading, Counted
    <3>3. Unsent(t, i)'
      BY <2>1, <2>2, <3>1 DEF Facts, OfCall, Unsent, Reading, Sending
    <3>4. SentIsThere(t, i)'
      BY <2>1, <2>2, <3>1 DEF Facts, OfCall, SentIsThere, Unmarked, Sending
    <3>. QED  BY <3>2, <3>3, <3>4 DEF OfCall
  <2>. QED  BY <2>5, <2>6, <2>7, <2>8, <2>9 DEF Facts, OfCall
<1>. QED  BY <1>1, <1>2 DEF Reset

(* A mark: of the version that was sent, which is in the level and, from   *)
(* the turn, on the sheet.                                                 *)
LEMMA MarkPushedFacts ==
  ASSUME Shape, NEW s \in Slot, MarkPushed(s), NEW i \in Item, Facts(i)
  PROVE  Facts(i)'
<1>. USE Types, TwoSlots
<1>1. CASE ~ Marks(call[s], i)
  <2>1. row'[i] = row[i] /\ (i \in call[s].pending => i \in aside')
    BY <1>1 DEF MarkPushed
  <2>2. Same(i) /\ (call'["turn"] = Idle /\ Unmarked("turn", i) => i \in aside')
    BY <2>1 DEF MarkPushed, Same, Ends, Unmarked, Idle, Shape, CallShape
  <2>. QED  BY <2>2, SameKeepsFacts
<1>2. CASE Marks(call[s], i)
  <2>1. Unmarked(s, i) /\ row[i].at = call[s].seen[i]
    BY <1>2 DEF Marks, Unmarked, MarkPushed
  <2>2. /\ row'[i].at = row[i].at /\ row'[i].counted = row[i].counted /\ row'[i].sent
        /\ level' = level /\ sheet' = sheet /\ overlap' = overlap /\ aside \subseteq aside'
    BY <1>2 DEF MarkPushed
  <2>3. /\ call'[s].pc = "idle" /\ call'[s].seen[i] = 0 /\ call'[s].count[i] = 0
        /\ \A t \in Slot \ {s} : call'[t] = call[t]
    BY DEF MarkPushed, Ends, Idle, Blank, Shape, CallShape
  <2>4. Sending(s, i)
    BY <2>1 DEF Facts, OfCall, SentIsThere, Unmarked, Sending
  <2>5. s = "button" => i \in aside
    BY <2>1 DEF Facts, OfCall, SentIsThere
  <2>6. OfRow(i)'
    <3>1. Older(i)' /\ MarkToCome(i)' /\ Compared(i)'
      BY <2>2, <2>3 DEF Facts, OfRow, Older, MarkToCome, Compared
    <3>2. Marked(i)'
      <4>1. level[i].count = row[i].at \/ i \in overlap
        BY <2>1 DEF Facts, OfRow, Older, OfCall, SentIsThere
      <4>2. sheet[i].count = row[i].at \/ i \in aside
        BY <2>1, <2>5 DEF Facts, OfRow, Older, OfCall, SentIsThere
      <4>. QED  BY <2>2, <4>1, <4>2 DEF Marked
    <3>. QED  BY <3>1, <3>2 DEF OfRow
  <2>7. OfTurn(i)'
    BY <2>2, <2>3, <2>5 DEF Facts, OfTurn, Flagged, Sending, MarkedByButton, OnTheSheet, Reading, Sends
  <2>8. OfCall(s, i)'
    BY <2>3 DEF OfCall, Knows, Unsent, SentIsThere, Reading, Counted, Unmarked
  <2>9. ASSUME NEW t \in Slot \ {s} PROVE OfCall(t, i)'
    <3>1. Sending(t, i) => i \in overlap
      BY <2>4 DEF Facts, OfTurn, Flagged
    <3>. QED
      BY <2>2, <2>3, <3>1
         DEF Facts, OfCall, Knows, Unsent, SentIsThere, Reading, Counted, Unmarked, Sending
  <2>. QED  BY <2>6, <2>7, <2>8, <2>9 DEF Facts
<1>. QED  BY <1>1, <1>2

(* The steps that leave the article as it is, or end a call.               *)
LEMMA OtherFacts ==
  ASSUME Shape, NEW i \in Item, Facts(i),
         \/ \E c \in Client : PutMarker(c)
         \/ Flush \/ FlushDirty \/ \E only \in Asked : Regenerate(only)
         \/ \E s \in Slot : ResetFails(s) \/ MarkFails(s) \/ Throws(s)
         \/ \E j \in Item : Delivery(j)
         \/ ProcessDies \/ UNCHANGED vars
  PROVE  Facts(i)'
<1>. USE DEF Same
<1>1. CASE (\E c \in Client : PutMarker(c)) \/ Flush \/ FlushDirty \/ \E only \in Asked : Regenerate(only)
  <2>1. UNCHANGED <<row, level, sheet, call, history>>
    BY <1>1 DEF PutMarker, Flush, FlushDirty, Regenerate, Waits
  <2>2. call["turn"] = Idle => ~ Unmarked("turn", i)
    BY DEF Unmarked, Idle
  <2>. QED  BY <2>1, <2>2, SameKeepsFacts, TwoSlots DEF history
<1>2. CASE \E s \in Slot : ResetFails(s) \/ MarkFails(s) \/ Throws(s)
  <2>1. PICK s \in Slot : ResetFails(s) \/ MarkFails(s) \/ Throws(s)
    BY <1>2
  <2>2. /\ UNCHANGED <<row, level, sheet, overlap>> /\ aside \subseteq aside' /\ Ends(s)
        /\ Unmarked(s, i) => i \in aside'
    BY <2>1 DEF ResetFails, MarkFails, Throws, Unmarked, history
  <2>3. Same(i)
    BY <2>2 DEF Ends, Shape, CallShape
  <2>4. call'["turn"] = Idle /\ Unmarked("turn", i) => i \in aside'
    <3>1. CASE s = "turn"
      BY <2>2, <3>1
    <3>2. CASE s # "turn"
      BY <2>2, <3>2, TwoSlots DEF Ends, Shape, CallShape, Unmarked, Idle
    <3>. QED  BY <3>1, <3>2
  <2>. QED  BY <2>3, <2>4, SameKeepsFacts
<1>3. CASE \E j \in Item : Delivery(j)
  <2>1. UNCHANGED <<row, sheet, call, history>> /\ level'[i].count = level[i].count
    BY <1>3 DEF Delivery, Shape, LevelTypes
  <2>2. call["turn"] = Idle => ~ Unmarked("turn", i)
    BY DEF Unmarked, Idle
  <2>. QED  BY <2>1, <2>2, SameKeepsFacts, TwoSlots DEF history
<1>4. CASE ProcessDies
  <2>1. UNCHANGED <<row, level, sheet, overlap>> /\ \A s \in Slot : call'[s] = Idle
    BY <1>4 DEF ProcessDies
  <2>2. aside \subseteq aside' /\ (Unmarked("turn", i) => i \in aside')
    BY <1>4, TwoSlots DEF ProcessDies, Unmarked
  <2>. QED  BY <2>1, <2>2, SameKeepsFacts
<1>5. CASE UNCHANGED vars
  <2>2. call["turn"] = Idle => ~ Unmarked("turn", i)
    BY DEF Unmarked, Idle
  <2>. QED  BY <1>5, <2>2, SameKeepsFacts, TwoSlots DEF vars, history
<1>. QED  BY <1>1, <1>2, <1>3, <1>4, <1>5

LEMMA FactsStep == Inv /\ [Next]_vars => \A i \in Item : Facts(i)'
<1>. SUFFICES ASSUME Inv, [Next]_vars, NEW i \in Item PROVE Facts(i)'
  OBVIOUS
<1>. USE DEF Inv
<1>1. CASE \E c \in Client, j \in Item, counted \in BOOLEAN : Save(c, j, counted)
  BY <1>1, SaveFacts
<1>2. CASE UpdateLogistics
  BY <1>2, ReadsStateFacts, TwoSlots DEF UpdateLogistics
<1>3. CASE Begin
  <2>1. CASE \A j \in Item : row[j].at = 0
    <3>1. UNCHANGED <<row, level, sheet, call, history>>
      BY <1>3, <2>1 DEF Begin
    <3>2. Same(i) /\ (call["turn"] = Idle => ~ Unmarked("turn", i))
      BY <3>1 DEF Same, history, Unmarked, Idle
    <3>. QED  BY <3>1, <3>2, SameKeepsFacts
  <2>2. CASE ~ \A j \in Item : row[j].at = 0
    <3>1. Head(queue).only \in SUBSET Item
      BY <1>3, QueueTypes DEF Begin, Shape, QueueType, Job
    <3>. QED  BY <1>3, <2>2, <3>1, ReadsStateFacts, TwoSlots DEF Begin
  <2>. QED  BY <2>1, <2>2
<1>4. CASE WriteSheet
  BY <1>4, WriteSheetFacts
<1>5. CASE \E s \in Slot : Resumes(s)
  BY <1>5, ReadCountsFacts, ResetFacts, MarkPushedFacts DEF Resumes
<1>6. CASE \/ \E c \in Client : PutMarker(c)
           \/ Flush \/ FlushDirty \/ \E only \in Asked : Regenerate(only)
           \/ \E s \in Slot : ResetFails(s) \/ MarkFails(s) \/ Throws(s)
           \/ \E j \in Item : Delivery(j)
           \/ ProcessDies \/ UNCHANGED vars
  BY <1>6, OtherFacts
<1>. QED  BY <1>1, <1>2, <1>3, <1>4, <1>5, <1>6 DEF Next

------------------------------------------------------------------------------
(* The invariant holds at every moment.                                    *)
LEMMA InvAlways == Spec => []Inv
<1>1. Init => Inv
  BY ShapeInit, FactsInit DEF Inv
<1>2. Inv /\ [Next]_vars => Inv'
  BY ShapeStep, FactsStep DEF Inv
<1>. QED  BY <1>1, <1>2, PTL DEF Spec

(* Counts, markers, sheets and calls keep their types, for any number of   *)
(* articles, clients, requests, deliveries and faults.                     *)
THEOREM CountTypesAlways == Spec => []TypeOK
<1>1. Inv => TypeOK
  BY ShapeTypes DEF Inv
<1>. QED  BY <1>1, InvAlways, PTL

(* What is marked as sent is what Logistics has, unless two calls were     *)
(* sending it at once, and what the last sheet shows, unless it was sent   *)
(* past a sheet or a mark (markInventoryCountsPushed).                     *)
THEOREM MarkedWasSentAlways == Spec => []MarkedWasSent
<1>1. Inv => MarkedWasSent
  BY DEF Inv, Facts, OfRow, Marked, MarkedWasSent
<1>. QED  BY <1>1, InvAlways, PTL

(* A line of the sheet never compares a count with a level that holds it   *)
(* already, unless the count was sent past the sheet or past its mark      *)
(* (createPreEventReconciliation).                                         *)
THEOREM NeverAgainstItselfAlways == Spec => []NeverAgainstItself
<1>1. Inv => NeverAgainstItself
  BY DEF Inv, Facts, OfRow, Compared, NeverAgainstItself
<1>. QED  BY <1>1, InvAlways, PTL

(* A reset erases the deliveries of a level for a newer count only, unless *)
(* the count was sent without its mark, or by two calls at once            *)
(* (pushCountToLogistic).                                                  *)
THEOREM DeliveriesErasedByNewCounts == Spec => DeliveriesErasedByNewCountsOnly
<1>. DEFINE Erased(i) == level'[i].plus < level[i].plus
            Newer(i) == level'[i].count > level[i].count \/ i \in aside \cup overlap
<1>1. ASSUME Inv, [Next]_vars, NEW i \in Item, Erased(i)
      PROVE  \E s \in Slot : Reset(s) /\ i \in Sends(call[s])
  <2>1. level'[i].plus # level[i].plus /\ level[i].plus \in Nat
    BY <1>1, Types DEF Inv
  <2>2. CASE \E j \in Item : Delivery(j)
    <3>1. level'[i].plus = level[i].plus \/ level'[i].plus = level[i].plus + 1
      BY <1>1, <2>2 DEF Inv, Delivery, Shape, LevelTypes
    <3>. QED  BY <1>1, <2>1, <3>1
  <2>3. CASE \E s \in Slot : Reset(s)
    BY <1>1, <2>1, <2>3 DEF Reset, Inv, Shape, LevelTypes
  <2>4. level' = level \/ (\E j \in Item : Delivery(j)) \/ \E s \in Slot : Reset(s)
    BY <1>1 DEF Next, Save, PutMarker, Flush, FlushDirty, Regenerate, Waits, UpdateLogistics, Begin,
                WriteSheet, Resumes, ReadCounts, MarkPushed, ResetFails, MarkFails, Throws, ProcessDies, vars
  <2>. QED  BY <2>1, <2>2, <2>3, <2>4
<1>2. ASSUME Inv, NEW s \in Slot, Reset(s), NEW i \in Item, i \in Sends(call[s])
      PROVE  Newer(i)
  <2>. USE <1>2, Types DEF Inv
  <2>1. level'[i].count = call[s].count[i] /\ call[s].pc = "reset"
    BY DEF Reset, Shape, LevelTypes
  <2>2. /\ i \in call[s].pending \cap call[s].only
        /\ call[s].count[i] # 0 /\ call[s].seen[i] <= call[s].count[i]
    BY <2>1 DEF Sends, Facts, OfCall, Knows, Counted
  <2>3. level[i].count # 0 /\ call[s].seen[i] <= level[i].count => i \in aside \cup overlap
    BY <2>1, <2>2 DEF Facts, OfCall, Unsent, Reading
  <2>4. level[i].count \in Nat /\ call[s].seen[i] \in Nat /\ call[s].count[i] \in Nat
    OBVIOUS
  <2>. QED  BY <2>1, <2>2, <2>3, <2>4
<1>3. ASSUME Inv, [Next]_vars
      PROVE  \A i \in Item : Erased(i) => Newer(i)
  BY <1>1, <1>2, <1>3
<1>. QED  BY <1>3, InvAlways, PTL DEF Spec, DeliveriesErasedByNewCountsOnly
==============================================================================
