------------------------------ MODULE MCPosSale ------------------------------
(* Small instances of the tills for TLC.                                    *)
EXTENDS PosSale, TLC

\* Requests, points of sale and tickets are interchangeable in the runs
\* that check no liveness.
MCSymmetry == Permutations(Request) \cup Permutations(Pdv) \cup Permutations(Ticket)
=============================================================================
