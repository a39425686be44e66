----------------------------- MODULE TicketRoll -----------------------------
(***************************************************************************)
(* What the sales of the tills promise, without requests, locks or         *)
(* transactions: every point of sale tears its tickets off one numbered    *)
(* roll, a tablet's ticket is sold at most once in the whole integration,  *)
(* and a cancelled ticket keeps its place on the roll.                     *)
(***************************************************************************)
EXTENDS Naturals, Sequences

CONSTANTS Pdv,      \* points of sale, each with its till open on one event
          Ticket    \* ticket identifiers the tablets make (clientTicketId)

VARIABLES roll,       \* roll[p]: the tickets of p, in the order of their numbers
          cancelled   \* the tickets marked as deleted

vars == <<roll, cancelled>>

Places(p) == DOMAIN roll[p]

SoldTickets == UNION {{roll[p][n] : n \in Places(p)} : p \in Pdv}

Init ==
  /\ roll = [p \in Pdv |-> <<>>]
  /\ cancelled = {}

Sell(p, t) ==
  /\ t \notin SoldTickets
  /\ roll' = [roll EXCEPT ![p] = Append(@, t)]
  /\ UNCHANGED cancelled

Cancel(t) ==
  /\ t \in SoldTickets \ cancelled
  /\ cancelled' = cancelled \cup {t}
  /\ UNCHANGED roll

Restore(t) ==
  /\ t \in cancelled
  /\ cancelled' = cancelled \ {t}
  /\ UNCHANGED roll

Next ==
  \/ \E p \in Pdv, t \in Ticket : Sell(p, t)
  \/ \E t \in Ticket : Cancel(t) \/ Restore(t)

Spec == Init /\ [][Next]_vars
=============================================================================
