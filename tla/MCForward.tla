----------------------------- MODULE MCForward -----------------------------
(***************************************************************************)
(* An instance of Forward for TLC: three strategies, one of them with two  *)
(* pieces of evidence and one whose evidence fails a gate, compete for the *)
(* places among the ranked.                                                *)
(***************************************************************************)
EXTENDS Forward, TLC

Item(id, s, good, net, drawdown) ==
    [id |-> id, strategy |-> s, good |-> good,
     metrics |-> [net_return |-> net, max_drawdown |-> drawdown]]

\* The order of the strategies is not that of their scores.
FewEvidence ==
    {Item(1, 1, TRUE, 1, 3), Item(2, 2, TRUE, 2, 2), Item(3, 3, TRUE, 3, 2),
     Item(4, 2, TRUE, 3, 1), Item(5, 3, FALSE, 9, 0)}

\* Operators name what fails a gate, or what may promote by itself.
BadEvidence == {e \in FewEvidence : ~e.good}
GoodCited == {e \in FewEvidence : e.id = 2}

\* The evaluating processes are alike.
Alike == Permutations(Evaluators)

TwoWeights == [net_return |-> 20, max_drawdown |-> 15]
Drawdown == {"max_drawdown"}
FewPlaces == [paper_observing |-> 3, paper_ranked |-> 2, leader |-> 1]

=============================================================================
