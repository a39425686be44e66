--------------------------- MODULE MCLiveAggregation ---------------------------
(* Small instances of the live view for TLC.                                  *)
EXTENDS LiveAggregation, TLC

CONSTANTS s1, s2, c1, c2, e1, e2

\* Two sales in the same minute of one event.
MCSameMinute == s1 :> c1 @@ s2 :> c1
MCOneEvent == c1 :> e1

\* Sales of the same minute are interchangeable.
MCSymmetry == Permutations({s1, s2})

\* Two sales in two minutes, each of its own event.
MCTwoMinutes == s1 :> c1 @@ s2 :> c2
MCTwoEvents == c1 :> e1 @@ c2 :> e2
=============================================================================
