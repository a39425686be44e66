---------------------------- MODULE InventoryCounts ----------------------------
(***************************************************************************)
(* The counts of a pre-event inventory on their way to Logistics.  A count *)
(* is a row, saved by the staff or by a guest; a marker says that some are *)
(* still to be sent; a call claims the marker, writes the sheet of the     *)
(* match from the rows and resets the levels of what was counted since the *)
(* last time.  The calls of one match take turns, in memory; the button    *)
(* that updates Logistics and nothing else does not.                       *)
(*                                                                         *)
(* A count is the version of its row (updatedAt), never a quantity; a      *)
(* level is the version it was reset to and what came in since.  The sheet *)
(* is the last one: the others are deleted after it is created.  The doors *)
(* are open from the start, so a save puts both markers; sales, snapshots  *)
(* and the expected need are left out.                                     *)
(***************************************************************************)
EXTENDS Integers, Sequences, FiniteSets, SequencesExt

CONSTANTS
  Item,          \* articles, each at a point of sale of its own
  Client,        \* who counts
  Asked,         \* bound: what a request may ask to send, sets of articles
  MaxSaves,      \* bound: saves of one article
  MaxWaiting,    \* bound: calls waiting for their turn
  MaxDeliveries, \* bound: deliveries of one article between two resets
  MaxFaults      \* bound: deaths of the process, errors

ASSUME CountsAssumption ==
  /\ IsFiniteSet(Item) /\ Asked \subseteq SUBSET Item
  /\ {MaxSaves, MaxWaiting, MaxDeliveries, MaxFaults} \subseteq Nat

VARIABLES
  row,      \* InventoryCount: version (0: no row), counted, the version is marked as sent
  save,     \* the markers each client has still to put
  marker,   \* keys of KvStore: "count", "dirty"
  level,    \* StockLevel: version counted (0: before any count), deliveries since
  sheet,    \* StockReconciliation, the last of the match: of each article, the
            \* version counted and the one Logistics had (0, 0: not counted)
  queue,    \* regenerateQueues: the jobs that wait, and what they send
  call,     \* what the call whose turn it is, and the button, have read
  lost,     \* history: a marker has been lost with what it announced
  aside,    \* history: sent without a sheet or without a mark, and not saved since
  overlap,  \* history: found to be sent while another call was sending it
  faults

history == <<lost, aside, overlap>>
vars == <<row, save, marker, level, sheet, queue, call, history, faults>>

Slot == {"turn", "button"}
Blank == [i \in Item |-> 0]
NotCounted == [count |-> 0, base |-> 0]
Idle == [pc |-> "idle", job |-> "none", only |-> {}, seen |-> Blank,
         pending |-> {}, count |-> Blank]
Job == [job : {"count", "dirty", "manual"}, only : SUBSET Item]

TypeOK ==
  /\ row \in [Item -> [at : 0..MaxSaves, counted : BOOLEAN, sent : BOOLEAN]]
  /\ \A c \in Client : save[c] \in {<<>>, <<"dirty">>, <<"count">>, <<"dirty", "count">>}
  /\ marker \subseteq {"count", "dirty"}
  /\ level \in [Item -> [count : 0..MaxSaves, plus : 0..MaxDeliveries]]
  /\ sheet \in [Item -> [count : 0..MaxSaves, base : 0..MaxSaves]]
  /\ Len(queue) <= MaxWaiting /\ ToSet(queue) \subseteq Job
  /\ \A s \in Slot :
       /\ call[s].pc \in {"idle", "counts", "sheet", "reset", "mark"}
       /\ call[s].job \in {"none", "count", "dirty", "manual"}
       /\ call[s].only \subseteq Item /\ call[s].pending \subseteq Item
       /\ {call[s].seen, call[s].count} \subseteq [Item -> 0..MaxSaves]
  /\ lost \in BOOLEAN /\ aside \subseteq Item /\ overlap \subseteq Item
  /\ faults \in 0..MaxFaults

Init ==
  /\ row = [i \in Item |-> [at |-> 0, counted |-> FALSE, sent |-> FALSE]]
  /\ save = [c \in Client |-> <<>>]
  /\ marker = {}
  /\ level = [i \in Item |-> [count |-> 0, plus |-> 0]]
  /\ sheet = [i \in Item |-> NotCounted]
  /\ queue = <<>>
  /\ call = [s \in Slot |-> Idle]
  /\ lost = FALSE /\ aside = {} /\ overlap = {}
  /\ faults = 0

------------------------------------------------------------------------------
(* Counting.                                                               *)

\* saveCountGuarded and saveInventoryCounts; the markers follow.
Save(c, i, counted) ==
  /\ save[c] = <<>> /\ row[i].at < MaxSaves
  /\ row' = [row EXCEPT ![i] = [at |-> @.at + 1, counted |-> counted, sent |-> FALSE]]
  /\ save' = [save EXCEPT ![c] = IF counted THEN <<"dirty", "count">> ELSE <<"dirty">>]
  /\ aside' = IF \A s \in Slot : call[s].pc = "idle" THEN aside \ {i} ELSE aside
  /\ UNCHANGED <<marker, level, sheet, queue, call, lost, overlap, faults>>

\* markDirty, markLogisticDirty: upserts.
PutMarker(c) ==
  /\ save[c] # <<>>
  /\ marker' = marker \cup {Head(save[c])}
  /\ save' = [save EXCEPT ![c] = Tail(@)]
  /\ UNCHANGED <<row, level, sheet, queue, call, history, faults>>

------------------------------------------------------------------------------
(* Who asks for a sheet: it waits for its turn.                            *)

Waits(job, only) ==
  /\ Len(queue) < MaxWaiting
  /\ queue' = Append(queue, [job |-> job, only |-> only])
  /\ UNCHANGED <<row, save, level, sheet, call, history, faults>>

\* flushLogisticMarker: whoever removes the marker sends.
Flush == "count" \in marker /\ marker' = marker \ {"count"} /\ Waits("count", Item)

\* flushDirty: the same, of the sheet.
FlushDirty == "dirty" \in marker /\ marker' = marker \ {"dirty"} /\ Waits("dirty", Item)

\* regenerateOnPdvComplete, the controller, the end of a phase; pushElementToLogistic for one.
Regenerate(only) == Waits("manual", only) /\ UNCHANGED marker

------------------------------------------------------------------------------
(* The call whose turn it is, and the button.                              *)

Goes(s, pc) == call' = [call EXCEPT ![s].pc = pc]
Ends(s) == call' = [call EXCEPT ![s] = Idle]

Pending(r) == ~ r.sent

\* The call has found i to be sent and is not done with it.
Sending(s, i) == call[s].pc # "idle" /\ i \in call[s].pending \cap call[s].only

\* loadLogisticPushState.
ReadsState(s, job, only) ==
  LET pending == {i \in Item : Pending(row[i])} IN
  /\ call[s].pc = "idle"
  /\ call' = [call EXCEPT ![s] = [pc |-> "counts", job |-> job, only |-> only,
                                  seen |-> [i \in Item |-> row[i].at],
                                  pending |-> pending, count |-> Blank]]
  /\ overlap' = overlap \cup {i \in pending \cap only : \E t \in Slot \ {s} : Sending(t, i)}
  /\ UNCHANGED <<lost, aside>>

\* pushCurrentCountToLogistic: no turn to wait for.
UpdateLogistics ==
  /\ ReadsState("button", "none", Item)
  /\ UNCHANGED <<row, save, marker, level, sheet, queue, faults>>

\* regenerateNow: with no row at all, there is nothing to write.
Begin ==
  /\ queue # <<>> /\ call["turn"].pc = "idle" /\ queue' = Tail(queue)
  /\ IF \A i \in Item : row[i].at = 0 THEN UNCHANGED <<call, history>>
     ELSE ReadsState("turn", Head(queue).job, Head(queue).only)
  /\ UNCHANGED <<row, save, marker, level, sheet, faults>>

\* getBySpaceAndEvent: what is not counted does not count.
ReadCounts(s) ==
  /\ call[s].pc = "counts"
  /\ call' = [call EXCEPT ![s].pc = IF s = "button" THEN "reset" ELSE "sheet",
                          ![s].count = [i \in Item |-> IF row[i].counted THEN row[i].at ELSE 0]]
  /\ UNCHANGED <<row, save, marker, level, sheet, queue, history, faults>>

\* Plausible bug: every line is computed again.
LineAnew(k, i) ==
  IF k.count[i] = 0 THEN NotCounted ELSE [count |-> k.count[i], base |-> level[i].count]

\* Plausible bug: a line is taken over as soon as there is one.
LineKept(k, i) ==
  CASE k.count[i] = 0 -> NotCounted
    [] k.count[i] # 0 /\ sheet[i] # NotCounted -> sheet[i]
    [] OTHER -> [count |-> k.count[i], base |-> level[i].count]

\* A line of the last sheet is taken over when its count has been sent.
LineOf(k, i) ==
  CASE k.count[i] = 0 -> NotCounted
    [] k.count[i] # 0 /\ sheet[i] # NotCounted /\ i \notin k.pending -> sheet[i]
    [] OTHER -> [count |-> k.count[i], base |-> level[i].count]

WriteSheet ==
  /\ call["turn"].pc = "sheet"
  /\ sheet' = [i \in Item |-> LineOf(call["turn"], i)]
  /\ Goes("turn", "reset")
  /\ UNCHANGED <<row, save, marker, level, queue, history, faults>>

\* Plausible bug: all that is counted is sent again.
SendsAll(k) == {i \in k.only : k.count[i] # 0}
\* pushCountToLogistic: counted, and not sent since.
Sends(k) == {i \in k.only \cap k.pending : k.count[i] # 0}

\* reset, one transaction: the count replaces whatever the level was.
Reset(s) ==
  LET sent == Sends(call[s]) IN
  /\ call[s].pc = "reset"
  /\ \/ sent = {} /\ Ends(s) /\ UNCHANGED <<level, aside>>
     \/ /\ sent # {}
        /\ level' = [i \in Item |-> IF i \in sent THEN [count |-> call[s].count[i], plus |-> 0]
                                    ELSE level[i]]
        /\ call' = [call EXCEPT ![s].pc = "mark", ![s].pending = sent, ![s].count = Blank]
        /\ aside' = IF s = "button" THEN aside \cup sent ELSE aside
  /\ UNCHANGED <<row, save, marker, sheet, queue, lost, overlap, faults>>

\* The error is caught: the sheet is kept, and nothing is marked.
ResetFails(s) ==
  /\ call[s].pc = "reset" /\ Sends(call[s]) # {}
  /\ faults < MaxFaults /\ faults' = faults + 1
  /\ lost' = (lost \/ call[s].job = "count")
  /\ Ends(s)
  /\ UNCHANGED <<row, save, marker, level, sheet, queue, aside, overlap>>

\* Plausible bug: the version is not compared.
MarksAll(k, i) == i \in k.pending
Marks(k, i) == i \in k.pending /\ row[i].at = k.seen[i]

\* markInventoryCountsPushed: the version that was sent, if it still is the row's.
MarkPushed(s) ==
  /\ call[s].pc = "mark"
  /\ row' = [i \in Item |-> IF Marks(call[s], i) THEN [row[i] EXCEPT !.sent = TRUE] ELSE row[i]]
  /\ aside' = aside \cup {i \in call[s].pending : ~ Marks(call[s], i)}
  /\ Ends(s)
  /\ UNCHANGED <<save, marker, level, sheet, queue, lost, overlap, faults>>

\* The error is caught: sent, and not marked.
MarkFails(s) ==
  /\ call[s].pc = "mark"
  /\ faults < MaxFaults /\ faults' = faults + 1
  /\ aside' = aside \cup call[s].pending
  /\ Ends(s)
  /\ UNCHANGED <<row, save, marker, level, sheet, queue, lost, overlap>>

\* Plausible bug: the marker is not put back.
PutBackNothing(job) == marker
\* Plausible bug: one is put back for whoever asked.
PutBackAll(job) == marker \cup {job}
\* What the callers do with an error: flushLogisticMarker, flushDirty.
PutBack(job) == marker \cup ({job} \cap {"count", "dirty"})

\* Before the sheet is created, or behind it when the articles to send cannot be resolved.
Throws(s) ==
  /\ call[s].pc \in {"counts", "sheet"} \/ (call[s].pc = "reset" /\ Sends(call[s]) # {})
  /\ faults < MaxFaults /\ faults' = faults + 1
  /\ marker' = PutBack(call[s].job)
  /\ Ends(s)
  /\ UNCHANGED <<row, save, level, sheet, queue, history>>

------------------------------------------------------------------------------
\* The process dies with the turns, the calls and the saves under way.
ProcessDies ==
  /\ faults < MaxFaults /\ faults' = faults + 1
  /\ (\E c \in Client : save[c] # <<>>) \/ (\E s \in Slot : call[s].pc # "idle") \/ queue # <<>>
  /\ lost' = (\/ lost \/ \E c \in Client : save[c] # <<>>
              \/ call["turn"].job = "count" \/ \E k \in ToSet(queue) : k.job = "count")
  /\ aside' = aside \cup UNION {call[s].pending : s \in {t \in Slot : call[t].pc = "mark"}}
  /\ save' = [c \in Client |-> <<>>] /\ queue' = <<>>
  /\ call' = [s \in Slot |-> Idle]
  /\ UNCHANGED <<row, marker, level, sheet, overlap>>

\* createMovement of Logistics.
Delivery(i) ==
  /\ level[i].plus < MaxDeliveries
  /\ level' = [level EXCEPT ![i].plus = @ + 1]
  /\ UNCHANGED <<row, save, marker, sheet, queue, call, history, faults>>

Resumes(s) == ReadCounts(s) \/ Reset(s) \/ MarkPushed(s)

Next ==
  \/ \E c \in Client, i \in Item, counted \in BOOLEAN : Save(c, i, counted)
  \/ \E c \in Client : PutMarker(c)
  \/ Flush \/ FlushDirty \/ \E only \in Asked : Regenerate(only)
  \/ UpdateLogistics \/ Begin \/ WriteSheet
  \/ \E s \in Slot : Resumes(s) \/ ResetFails(s) \/ MarkFails(s) \/ Throws(s)
  \/ \E i \in Item : Delivery(i)
  \/ ProcessDies

Spec == Init /\ [][Next]_vars

\* A call or a save under way is resumed; the cron of the minute looks at the marker.
FairSpec ==
  /\ Spec
  /\ \A c \in Client : WF_vars(PutMarker(c))
  /\ \A s \in Slot : WF_vars(Resumes(s))
  /\ WF_vars(Begin \/ WriteSheet)
  /\ SF_vars(Flush)

------------------------------------------------------------------------------
\* "Seule la VERSION envoyée est marquée": what is marked as sent is what
\* Logistics has, unless two calls were sending it at once, and what the last
\* sheet shows, unless it was sent past a sheet or a mark, whatever was typed
\* during the send and however many sheets have replaced one another.
MarkedWasSent ==
  \A i \in Item : row[i].counted /\ ~ Pending(row[i]) =>
    /\ level[i].count = row[i].at \/ i \in overlap
    /\ sheet[i].count = row[i].at \/ i \in aside

\* "L'écart retomberait à 0 à chaque régénération": a line of the sheet never
\* compares a count with a level that already holds it, unless the count was
\* sent past the sheet or past its mark (createPreEventReconciliation).
NeverAgainstItself ==
  \A i \in Item : sheet[i].count = row[i].at /\ row[i].at # 0 =>
    sheet[i].base < sheet[i].count \/ i \in aside

\* "Repousser un comptage de la veille effacerait les livraisons saisies depuis":
\* a level is reset over deliveries for a newer count only, unless that count was
\* sent without its mark, or by two calls at once.
DeliveriesErasedByNewCountsOnly ==
  [][\A i \in Item : level'[i].plus < level[i].plus =>
       level'[i].count > level[i].count \/ i \in aside \cup overlap]_vars

\* "Rien n'est perdu": a count reaches Logistics, whatever is typed, refused or
\* fails meanwhile, unless the announcement of it is lost for good.
CountReachesLogistics ==
  \A i \in Item :
    (row[i].counted /\ level[i].count # row[i].at)
      ~> (level[i].count = row[i].at \/ ~ row[i].counted \/ lost \/ i \in overlap)
==============================================================================
