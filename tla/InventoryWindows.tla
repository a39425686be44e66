--------------------------- MODULE InventoryWindows ---------------------------
(***************************************************************************)
(* The inventory windows of a space and the accesses by PIN of its points  *)
(* of sale (GuestPinAccessModule).  The director starts and stops a phase, *)
(* for the space or for one point of sale; the cycle cron does so at show  *)
(* time, on a delivery and on a first sale; the lifecycle cron closes what *)
(* is over; a manager logs in.  None of them holds a transaction: each is  *)
(* a script of statements that the others' statements come between.        *)
(*                                                                         *)
(* PINs, snapshots and what is pushed to Logistics are left out.           *)
(***************************************************************************)
EXTENDS Integers, Sequences, FiniteSets, SequencesExt

CONSTANTS
  Event,      \* the matches of a space
  Today,      \* the one whose clock runs; the others' doors are not open yet
  Window,     \* <<match, "pre" or "post">>
  Element,    \* points of sale
  Director, Guest,
  MaxOps,     \* bound: operations of the directors from here on
  MaxFaults   \* bound: statements that fail, deaths of the process

Cycle == "cycle"
Lifecycle == "lifecycle"

ASSUME WindowsAssumption ==
  /\ Today \in Event
  /\ <<Today, "pre">> \in Window /\ Window \subseteq Event \X {"pre", "post"}
  /\ IsFiniteSet(Window)
  /\ {Cycle, Lifecycle} \cap (Director \cup Guest) = {}
  /\ MaxOps \in Nat /\ MaxFaults \in Nat

Actor == Director \cup Guest \cup {Cycle, Lifecycle}

VARIABLES
  clock,     \* of today's match: 0 before its day, 1 that day, 2 show begun, 3 over
  sold,      \* points of sale with a sale that day
  delivered, \* goods have come in after the end
  window,    \* window[w]: status of its row
  access,    \* access[w][p]: status of the row of the point of sale
  marker,    \* keys of KvStore
  script,    \* script[a]: the statements a has still to make
  byHand,    \* history: accesses given to one point of sale by a director
  torn,      \* history: windows shut by half, or while somebody gave access to them
  settled,   \* history: reopened by hand, with no automatic stop in progress
  ops, faults

world == <<clock, sold, delivered>>
rows == <<window, access, marker>>
history == <<byHand, torn, settled>>
bounds == <<ops, faults>>
vars == <<world, rows, script, history, bounds>>

Spot == Window \X Element
OfWindow == {"Supersede", "Close", "Shut", "RevokeAll", "Open",
             "ActivateAll", "ClaimStart", "ClaimDelivery", "StartNext", "StopFresh"}
OfSpot == {"Allow", "GiveBack", "Cut", "Mark", "RegainPost", "ClaimSale", "CreateAccess"}
Statement == (OfWindow \X Window) \cup (OfSpot \X Window \X Element)
\* The partial unique index of the migrations: one open window per space and phase.
OneOpenPerPhase ==
  \A v, w \in Window : window[v] = "open" /\ window[w] = "open" /\ v[2] = w[2] => v = w

TypeOK ==
  /\ clock \in 0..3 /\ sold \subseteq Element /\ delivered \in BOOLEAN
  /\ window \in [Window -> {"closed", "open"}] /\ OneOpenPerPhase
  /\ access \in [Window -> [Element -> {"none", "active", "revoked"}]]
  /\ marker \subseteq ({"start", "delivery"} \X Window) \cup ({"sale"} \X Window \X Element)
  /\ \A a \in Actor : ToSet(script[a]) \subseteq Statement
  /\ byHand \subseteq Spot /\ torn \subseteq Window /\ settled \subseteq Spot
  /\ ops \in 0..MaxOps /\ faults \in 0..MaxFaults

\* prepareUpcomingWindows has made the windows of the matches to come, stopped;
\* points of sale may have been stopped in them already.
Init ==
  /\ clock = 0 /\ sold = {} /\ delivered = FALSE
  /\ window = [w \in Window |-> "closed"]
  /\ access \in [Window -> [Element -> {"none", "revoked"}]]
  /\ marker = {}
  /\ script = [a \in Actor |-> <<>>]
  /\ byHand = {} /\ torn = {} /\ settled = {}
  /\ ops = 0 /\ faults = 0

------------------------------------------------------------------------------
Other(w) == {v \in Window : v[2] # w[2]}
Post(w) == <<w[1], "post">>

Reachable(w, p) == IF access[w][p] = "none" THEN window[w] = "open" ELSE access[w][p] = "active"
ReachableWindow(w) == window[w] = "open" \/ \E p \in Element : access[w][p] = "active"

Stage(e) == IF e = Today THEN clock ELSE 0
\* The period of a phase: pre-event until the end, post-event from the doors on.
PeriodOpen(w) == IF w[2] = "pre" THEN Stage(w[1]) < 3 ELSE Stage(w[1]) >= 2

Idle(a) == script[a] = <<>>
Begin(a, statements) == script' = [script EXCEPT ![a] = statements]
Ahead(a) == IF Idle(a) THEN <<"none">> ELSE Head(script[a])
Then(a, statements) == script' = [script EXCEPT ![a] = statements \o Tail(@)]
Throws(a) == script' = [script EXCEPT ![a] = <<>>]
Goes(a) == Then(a, <<>>)

InTurn(ws) == [i \in 1..Cardinality(ws) |-> <<"Close", SetToSeq(ws)[i]>>]
\* stopOtherPhase: the windows of the other phase that are open now.
StoppingOther(w) == InTurn({v \in Other(w) : window[v] = "open"})
\* startElement: the accesses of one point of sale to the other phase.
CuttingOther(w, p) ==
  LET others == SetToSeq(Other(w)) IN [i \in 1..Len(others) |-> <<"Cut", others[i], p>>]
Opening(w) == <<<<"Supersede", w>>, <<"Open", w>>, <<"ActivateAll", w>>>>

\* Plausible bug: the accesses are revoked before the window is shut.
RevokeThenShut(w) == <<<<"RevokeAll", w>>, <<"Shut", w>>>>
\* closeInventoryWindows, when it finds the window open.
Closing(w) == <<<<"Shut", w>>, <<"RevokeAll", w>>>>

------------------------------------------------------------------------------
(* The operations: their first reads, and the statements they lead to.     *)

Acts(d) == Idle(d) /\ ops < MaxOps /\ ops' = ops + 1 /\ UNCHANGED <<world, rows, history, faults>>

\* startWindow: the other phase of the space is stopped first.
StartWindow(d, w) ==
  /\ Acts(d) /\ PeriodOpen(w)
  /\ Begin(d, StoppingOther(w) \o Opening(w))

\* createOrReopenWindow: the accesses stay as they are.
ReopenWindow(d, w) ==
  /\ Acts(d) /\ PeriodOpen(w)
  /\ Begin(d, <<<<"Supersede", w>>, <<"Open", w>>>>)

\* stopWindow; closeWindow does the same and pushes the count.
StopWindow(d, w) ==
  /\ Acts(d)
  /\ Begin(d, <<IF window[w] = "open" THEN <<"Close", w>> ELSE <<"RevokeAll", w>>>>)

\* startElement: one point of sale, even of a window that is stopped.
StartElement(d, w, p) ==
  /\ Acts(d) /\ PeriodOpen(w)
  /\ Begin(d, CuttingOther(w, p) \o <<<<"Allow", w, p>>>>
                \o (IF w[2] = "pre" THEN <<<<"Mark", w, p>>>> ELSE <<>>))

StopElement(d, w, p) ==
  /\ Acts(d)
  /\ Begin(d, <<<<"Cut", w, p>>>> \o (IF w[2] = "pre" THEN <<<<"RegainPost", w, p>>>> ELSE <<>>))

\* revokeAccess, reactivateAccess: a row there is, whatever the period.
DecideAccess(d, w, p) ==
  /\ Acts(d) /\ access[w][p] # "none"
  /\ \/ Begin(d, <<<<"Cut", w, p>>>>)
     \/ access[w][p] = "revoked" /\ Begin(d, <<<<"Allow", w, p>>>>)

\* login with the PIN of w: the first login of a point of sale makes its row.
Login(g, w, p) ==
  /\ Idle(g) /\ window[w] = "open" /\ access[w][p] = "none"
  /\ Begin(g, <<<<"CreateAccess", w, p>>>>)
  /\ UNCHANGED <<world, rows, history, bounds>>

\* The jobs of a tick follow one another, and the tick comes back: any is next.
StartPost(w) ==
  /\ Idle(Cycle) /\ w[2] = "post" /\ Stage(w[1]) >= 2 /\ <<"start", w>> \notin marker
  /\ Begin(Cycle, <<<<"ClaimStart", w>>>> \o Opening(w))
  /\ UNCHANGED <<world, rows, history, bounds>>

StopOnDelivery(w) ==
  /\ Idle(Cycle) /\ w[2] = "post" /\ ReachableWindow(w)
  /\ Stage(w[1]) = 3 /\ delivered /\ <<"delivery", w>> \notin marker
  /\ Begin(Cycle, <<<<"ClaimDelivery", w>>, <<"StartNext", w>>, <<"StopFresh", w>>>>)
  /\ UNCHANGED <<world, rows, history, bounds>>

\* Plausible bug: only the windows that are open are looked at.
StopOnSaleOpen(w, p) ==
  /\ Idle(Cycle) /\ w[2] = "pre" /\ window[w] = "open"
  /\ Stage(w[1]) >= 1 /\ p \in sold /\ Reachable(w, p) /\ <<"sale", w, p>> \notin marker
  /\ Begin(Cycle, <<<<"ClaimSale", w, p>>, <<"Cut", w, p>>, <<"RegainPost", w, p>>>>)
  /\ UNCHANGED <<world, rows, history, bounds>>

StopOnSale(w, p) ==
  /\ Idle(Cycle) /\ w[2] = "pre" /\ ReachableWindow(w)
  /\ Stage(w[1]) >= 1 /\ p \in sold /\ Reachable(w, p) /\ <<"sale", w, p>> \notin marker
  /\ Begin(Cycle, <<<<"ClaimSale", w, p>>, <<"Cut", w, p>>, <<"RegainPost", w, p>>>>)
  /\ UNCHANGED <<world, rows, history, bounds>>

\* Plausible bug: a window that is stopped is not looked at.
ExpireOpen(w) ==
  /\ Idle(Lifecycle) /\ w[2] = "pre" /\ window[w] = "open" /\ ~ PeriodOpen(w)
  /\ Begin(Lifecycle, <<<<"Close", w>>>>)
  /\ UNCHANGED <<world, rows, history, bounds>>

\* closeExpiredWindows; only the pre-event ends by itself.
Expire(w) ==
  /\ Idle(Lifecycle) /\ w[2] = "pre" /\ ReachableWindow(w) /\ ~ PeriodOpen(w)
  /\ Begin(Lifecycle, <<IF window[w] = "open" THEN <<"Close", w>> ELSE <<"RevokeAll", w>>>>)
  /\ UNCHANGED <<world, rows, history, bounds>>

------------------------------------------------------------------------------
(* The statements on a window.                                             *)

Does(a, name, w) == Ahead(a) = <<name, w>> /\ UNCHANGED <<world, bounds>>
SetWindow(w, status) == window' = [window EXCEPT ![w] = status]

\* A window of another match left open is closed first.
Supersede(a, w) ==
  /\ Does(a, "Supersede", w)
  /\ Then(a, InTurn({v \in Window : v[2] = w[2] /\ v # w /\ window[v] = "open"}))
  /\ UNCHANGED <<rows, history>>

\* closeInventoryWindows: what is not open any more is left alone.
Close(a, w) ==
  /\ Does(a, "Close", w)
  /\ Then(a, IF window[w] = "open" THEN Closing(w) ELSE <<>>)
  /\ UNCHANGED <<rows, history>>

Shut(a, w) ==
  /\ Does(a, "Shut", w)
  /\ IF window[w] = "open" THEN SetWindow(w, "closed") ELSE UNCHANGED window
  /\ Goes(a)
  /\ UNCHANGED <<access, marker, history>>

\* Somebody else's next statement gives access without looking at the window again.
Gives(a, w) == Ahead(a)[1] \in {"ActivateAll", "GiveBack", "CreateAccess"} /\ Ahead(a)[2] = w
BeingGiven(a, w) == \E b \in Actor \ {a} : Gives(b, w)

RevokeAll(a, w) ==
  /\ Does(a, "RevokeAll", w)
  /\ access' = [access EXCEPT ![w] =
       [p \in Element |-> IF access[w][p] = "active" THEN "revoked" ELSE access[w][p]]]
  /\ byHand' = byHand \ ({w} \X Element)
  /\ torn' = IF BeingGiven(a, w) THEN torn \cup {w} ELSE torn \ {w}
  /\ Goes(a)
  /\ UNCHANGED <<window, marker, settled>>

\* Plausible bug: no index keeps two windows of a phase from being open.
OpenAnyway(a, w) ==
  /\ Does(a, "Open", w)
  /\ SetWindow(w, "open") /\ Goes(a)
  /\ UNCHANGED <<access, marker, history>>

\* upsert: the index may refuse it.
Open(a, w) ==
  /\ Does(a, "Open", w)
  /\ IF \E v \in Window : v # w /\ v[2] = w[2] /\ window[v] = "open"
       THEN Throws(a) /\ UNCHANGED window
       ELSE SetWindow(w, "open") /\ Goes(a)
  /\ UNCHANGED <<access, marker, history>>

ActivateAll(a, w) ==
  /\ Does(a, "ActivateAll", w)
  /\ access' = [access EXCEPT ![w] =
       [p \in Element |-> IF access[w][p] = "revoked" THEN "active" ELSE access[w][p]]]
  /\ Goes(a)
  /\ UNCHANGED <<window, marker, history>>

\* create of the marker: whoever comes second does nothing.
Claims(a, key) ==
  IF key \in marker THEN Throws(a) /\ UNCHANGED marker
  ELSE marker' = marker \cup {key} /\ Goes(a)

ClaimStart(a, w) ==
  /\ Does(a, "ClaimStart", w) /\ Claims(a, <<"start", w>>)
  /\ UNCHANGED <<window, access, history>>

ClaimDelivery(a, w) ==
  /\ Does(a, "ClaimDelivery", w) /\ Claims(a, <<"delivery", w>>)
  /\ UNCHANGED <<window, access, history>>

\* The pre-event of the next match starts, which stops this post-event.
StartNext(a, w) ==
  /\ Does(a, "StartNext", w)
  /\ \/ \E v \in Window : /\ v[2] = "pre" /\ Stage(v[1]) < 2
                          /\ Then(a, StoppingOther(v) \o Opening(v))
     \/ (~ \E v \in Window : v[2] = "pre" /\ Stage(v[1]) < 2) /\ Goes(a)
  /\ UNCHANGED <<rows, history>>

StopFresh(a, w) ==
  /\ Does(a, "StopFresh", w)
  /\ Then(a, <<IF window[w] = "open" THEN <<"Close", w>> ELSE <<"RevokeAll", w>>>>)
  /\ UNCHANGED <<rows, history>>

------------------------------------------------------------------------------
(* The statements on the access of one point of sale.                      *)

DoesAt(a, name, w, p) == Ahead(a) = <<name, w, p>> /\ UNCHANGED <<world, bounds>>
SetAccess(w, p, status) == access' = [access EXCEPT ![w][p] = status]

\* By hand: for this point of sale alone.
Allow(a, w, p) ==
  /\ DoesAt(a, "Allow", w, p)
  /\ SetAccess(w, p, "active") /\ Goes(a)
  /\ byHand' = byHand \cup {<<w, p>>}
  /\ UNCHANGED <<window, marker, torn, settled>>

GiveBack(a, w, p) ==
  /\ DoesAt(a, "GiveBack", w, p)
  /\ SetAccess(w, p, "active") /\ Goes(a)
  /\ UNCHANGED <<window, marker, history>>

Cut(a, w, p) ==
  /\ DoesAt(a, "Cut", w, p)
  /\ SetAccess(w, p, "revoked") /\ Goes(a)
  /\ byHand' = byHand \ {<<w, p>>}
  /\ UNCHANGED <<window, marker, torn, settled>>

\* Never cut again by its sales, unless the cron has its claim already.
Mark(a, w, p) ==
  /\ DoesAt(a, "Mark", w, p)
  /\ marker' = marker \cup {<<"sale", w, p>>} /\ Goes(a)
  /\ settled' = IF Ahead(Cycle) = <<"Cut", w, p>> THEN settled ELSE settled \cup {<<w, p>>}
  /\ UNCHANGED <<window, access, byHand, torn>>

\* The post-event of the same match, if it is open, is given back.
RegainPost(a, w, p) ==
  /\ DoesAt(a, "RegainPost", w, p)
  /\ Then(a, IF Post(w) \in Window /\ window[Post(w)] = "open" THEN <<<<"GiveBack", Post(w), p>>>>
             ELSE <<>>)
  /\ UNCHANGED <<rows, history>>

\* Plausible bug: the marker is written over.
ClaimSaleAgain(a, w, p) ==
  /\ DoesAt(a, "ClaimSale", w, p)
  /\ marker' = marker \cup {<<"sale", w, p>>} /\ Goes(a)
  /\ UNCHANGED <<window, access, history>>

ClaimSale(a, w, p) ==
  /\ DoesAt(a, "ClaimSale", w, p) /\ Claims(a, <<"sale", w, p>>)
  /\ UNCHANGED <<window, access, history>>

CreateAccess(a, w, p) ==
  /\ DoesAt(a, "CreateAccess", w, p)
  /\ IF access[w][p] = "none" THEN SetAccess(w, p, "active") ELSE UNCHANGED access
  /\ Goes(a)
  /\ UNCHANGED <<window, marker, history>>

------------------------------------------------------------------------------
Turn(a) ==
  /\ ~ Idle(a)
  /\ LET w == Ahead(a)[2] IN
       \/ Supersede(a, w) \/ Close(a, w) \/ Shut(a, w)
       \/ RevokeAll(a, w) \/ Open(a, w) \/ ActivateAll(a, w) \/ ClaimStart(a, w)
       \/ ClaimDelivery(a, w) \/ StartNext(a, w) \/ StopFresh(a, w)
       \/ /\ Len(Ahead(a)) = 3
          /\ LET p == Ahead(a)[3] IN
               \/ Allow(a, w, p) \/ GiveBack(a, w, p) \/ Cut(a, w, p)
               \/ Mark(a, w, p) \/ RegainPost(a, w, p) \/ ClaimSale(a, w, p) \/ CreateAccess(a, w, p)

\* A statement fails and the rest is given up, or the process dies with all of them.
Drops(as) ==
  /\ faults < MaxFaults /\ faults' = faults + 1
  /\ \E a \in as : ~ Idle(a)
  /\ script' = [a \in Actor |-> IF a \in as THEN <<>> ELSE script[a]]
  /\ torn' = torn \cup {w \in Window : \E a \in as : Ahead(a) = <<"RevokeAll", w>>}
  /\ UNCHANGED <<world, rows, byHand, settled, ops>>

Fails(a) == Drops({a})
ApiDies == Drops(Actor)

TimePasses == clock < 3 /\ clock' = clock + 1 /\ UNCHANGED <<sold, delivered, rows, script, history, bounds>>
\* firstValidSaleByElementSince finds it from the start of the day.
Sale(p) ==
  /\ clock >= 1 /\ p \notin sold /\ sold' = sold \cup {p}
  /\ UNCHANGED <<clock, delivered, rows, script, history, bounds>>
\* A DELIVERY or VENTILATION movement after the end.
Delivery ==
  /\ clock = 3 /\ ~ delivered /\ delivered' = TRUE
  /\ UNCHANGED <<clock, sold, rows, script, history, bounds>>

Next ==
  \/ \E a \in Actor : Turn(a) \/ Fails(a)
  \/ \E w \in Window :
       \/ \E d \in Director : StartWindow(d, w) \/ ReopenWindow(d, w) \/ StopWindow(d, w)
       \/ \E p \in Element :
            \/ \E d \in Director : StartElement(d, w, p) \/ StopElement(d, w, p) \/ DecideAccess(d, w, p)
            \/ \E g \in Guest : Login(g, w, p)
            \/ StopOnSale(w, p)
       \/ StartPost(w) \/ StopOnDelivery(w) \/ Expire(w)
  \/ \E p \in Element : Sale(p)
  \/ TimePasses \/ Delivery \/ ApiDies

Spec == Init /\ [][Next]_vars

\* The crons come every minute and see their statements through; nobody else has to.
FairSpec ==
  /\ Spec
  /\ WF_vars(Turn(Cycle)) /\ WF_vars(\E w \in Window, p \in Element : StopOnSale(w, p))
  /\ WF_vars(Turn(Lifecycle)) /\ WF_vars(\E w \in Window : Expire(w))

------------------------------------------------------------------------------
\* A stopped window lets nobody in, but a point of sale a director opened by
\* itself: every closing revokes, whatever statements come between, except when
\* it was cut short or an access was being written (closeInventoryWindows: "un
\* arrêt referme aussi les PDV rouverts un par un"; the guard of the requests,
\* jwt-guest-pin.strategy, reads the access and not the window).
ClosedIsClosed ==
  \A w \in Window, p \in Element :
    window[w] # "open" /\ access[w][p] = "active" =>
      \/ <<w, p>> \in byHand \/ w \in torn
      \/ \E a \in Actor : <<"RevokeAll", w>> \in ToSet(script[a])

\* "Un PDV rouvert à la main n'est jamais recoupé": once the hand's marker is
\* down and no stop is under way, the cron never comes to cut it on a sale, not
\* even when it had read the access before (pre-sale-stop.ts, claim).
SettledStays == \A s \in settled : Ahead(Cycle) # <<"Cut", s[1], s[2]>>

\* A point of sale that has sold, that pre-event still lets in and that no hand
\* reopened is cut, in a stopped window too, unless a run of the cron dies with
\* its claim (stopPreElementsOnSale).
SaleStops ==
  LET w == <<Today, "pre">> IN \A p \in Element :
    (clock >= 1 /\ p \in sold /\ Reachable(w, p) /\ <<"sale", w, p>> \notin marker)
      ~> (~ Reachable(w, p) \/ <<w, p>> \in settled \/ faults > 0)

\* A pre-event is not left open after the match, nor any point of sale of it,
\* whatever is reopened late: "chaque tick rattrape toute fenêtre oubliée"
\* (closeExpiredWindows).
NothingLeftOpen ==
  []<>(clock = 3 => \A p \in Element : ~ Reachable(<<Today, "pre">>, p))
==============================================================================
