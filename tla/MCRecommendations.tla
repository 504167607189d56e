-------------------------- MODULE MCRecommendations --------------------------
(* Instance of Recommendations for TLC. *)
EXTENDS Recommendations, TLC

CONSTANTS e1, e2, g, x1, t1, t2, d1, d2

MCEvents == {e1, e2}
MCTicks == {t1, t2}
MCDecisions == {d1, d2}
MCSymmetry == Permutations(MCEvents) \union Permutations(MCTicks) \union Permutations(MCDecisions)
=============================================================================
