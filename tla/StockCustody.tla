----------------------------- MODULE StockCustody -----------------------------
(***************************************************************************)
(* What the stock ledger promises about the goods themselves, counted in   *)
(* units: goods are held by an element, or on their way from one element   *)
(* to another.  An element never gives what it does not hold, goods on     *)
(* their way arrive once (what is missing on arrival is lost for good) or  *)
(* go back where they came from.  Nothing else moves goods.                *)
(***************************************************************************)
EXTENDS Integers

CONSTANTS Elements, Transfers, None

VARIABLES
  held,    \* units each element holds
  way      \* what each transfer carries: stage, from, to, units

Init ==
  /\ held \in [Elements -> Nat]
  /\ way = [t \in Transfers |-> [stage |-> "none", from |-> None, to |-> None, n |-> 0]]

(* Goods enter or leave the space at e.                                    *)
OnlyAt(e)  == held' = [held EXCEPT ![e] = held'[e]]
Receive(e) == held'[e] \in Nat /\ held'[e] > held[e] /\ OnlyAt(e) /\ UNCHANGED way
Issue(e)   == held'[e] \in 0 .. held[e] /\ OnlyAt(e) /\ UNCHANGED way

Depart(t) ==
  /\ way[t].stage = "none" /\ way'[t].stage = "moving"
  /\ way'[t].from # way'[t].to
  /\ way'[t].n \in 1 .. held[way'[t].from]
  /\ held' = [held EXCEPT ![way'[t].from] = @ - way'[t].n]
  /\ way' = [way EXCEPT ![t] = way'[t]]

Arrive(t) ==
  /\ way[t].stage = "moving"
  /\ held'[way[t].to] - held[way[t].to] \in 0 .. way[t].n
  /\ OnlyAt(way[t].to)
  /\ way' = [way EXCEPT ![t].stage = "arrived"]

GoBack(t) ==
  /\ way[t].stage = "moving"
  /\ held' = [held EXCEPT ![way[t].from] = @ + way[t].n]
  /\ way' = [way EXCEPT ![t].stage = "back"]

Next ==
  \/ \E e \in Elements : Receive(e) \/ Issue(e)
  \/ \E t \in Transfers : Depart(t) \/ Arrive(t) \/ GoBack(t)

Spec == Init /\ [][Next]_<<held, way>>
==============================================================================
