----------------------------- MODULE MCAnalytics -----------------------------
(***************************************************************************)
(* Two objects with two labels each, and three metrics of two groups, the  *)
(* first group being interrupted by the second.                            *)
(***************************************************************************)
EXTENDS Analytics, TLC

CONSTANTS o1, o2, a, b

MCObjects == {o1, o2}
MCLabels == {a, b}
MCGroupOf == ("l4.x" :> "l4") @@ ("l7.x" :> "l7") @@ ("l4.y" :> "l4")
MCMetricIDs == <<"l4.x", "l7.x", "l4.y">>

\* Uuids are only compared with each other, and so are labels.
MCSymmetry == Permutations(MCObjects) \union Permutations(MCLabels)
=============================================================================
