SPECIFICATION ForwardSpec
CONSTANTS
    Strategies = {1, 2, 3}
    Evaluators = {p1, p2}
    Evidence <- FewEvidence
    Cited <- GoodCited
    Weights <- TwoWeights
    LowerIsBetter <- Drawdown
    Scale = 2
    Capacity <- FewPlaces
    MaxEvaluations = 2
    MaxMoves = 2
CHECK_DEADLOCK FALSE
INVARIANT EvidencePromotesOnce
INVARIANT BetterComeFirst
SYMMETRY Alike
