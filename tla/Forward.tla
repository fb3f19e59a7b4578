------------------------------- MODULE Forward -------------------------------
(***************************************************************************)
(* The forward evaluation of forward/: eligibility.py gates the evidence   *)
(* of strategies observed on paper, ranking.py orders what is eligible,    *)
(* and evaluator.py promotes one after the other in the registry (module   *)
(* RegistryLedger), while operators move strategies wherever the lifecycle *)
(* lets them through explicit_transition and other evaluations are under   *)
(* way.                                                                    *)
(***************************************************************************)
EXTENDS Integers, Sequences, FiniteSets, FiniteSetsExt

CONSTANTS
    Strategies,      \* those that reached paper_observing, by number
    Evaluators,      \* processes that evaluate
    Evidence,        \* evidence records: [id, strategy, good, metrics]
    Cited,           \* the evidence that operators name: a subset of Evidence
    Weights,         \* DEFAULT_WEIGHTS: component -> weight
    LowerIsBetter,   \* the components where less is more
    Scale,           \* fixed-point unit of a score
    Capacity,        \* STATE_CAPACITY
    MaxEvaluations,  \* bound: evaluations of all processes
    MaxMoves         \* bound: transitions made by operators

\* An evidence id names one immutable record; no weight is zero; and a score,
\* a float in the code, tells apart the places of a cohort.
ASSUME ForwardAssumption ==
    /\ Strategies \subseteq Nat /\ IsFiniteSet(Strategies)
    /\ \A e \in Evidence : e.strategy \in Strategies /\ e.good \in BOOLEAN
    /\ \A e, f \in Evidence : e.id = f.id => e = f
    /\ Cited \subseteq Evidence
    /\ \A e \in Evidence : \A c \in DOMAIN Weights : e.metrics[c] \in Int
    /\ IsFiniteSet(DOMAIN Weights) /\ DOMAIN Weights # {}
    /\ \A c \in DOMAIN Weights : Weights[c] \in Nat \ {0}
    /\ LowerIsBetter \subseteq DOMAIN Weights
    /\ Scale \in Nat /\ Cardinality(Strategies) <= Scale + 1
    /\ "paper_ranked" \in DOMAIN Capacity
    /\ MaxEvaluations \in Nat /\ MaxMoves \in Nat

VARIABLES
    events, rows, decisions,    \* the registry
    task,        \* process -> its evaluation
    begun,       \* how many evaluations were begun
    moves        \* how many transitions operators made

registry == <<events, rows, decisions>>
forwardVars == <<registry, task, begun, moves>>

Ledger == INSTANCE RegistryLedger WITH Requests <- {}

----------------------------------------------------------------------------
(* ranking.py *)

Components == DOMAIN Weights

\* The distinct values of a component that are better than a value.
Better(cohort, c, value) ==
    {x \in {e.metrics[c] : e \in cohort} : IF c \in LowerIsBetter THEN x < value ELSE x > value}

\* 1 for the best value of the cohort down to 0 for its worst.
ComponentScore(cohort, c, value) ==
    LET distinct == Cardinality({e.metrics[c] : e \in cohort})
    IN  IF distinct = 1 THEN Scale
        ELSE Scale - (Cardinality(Better(cohort, c, value)) * Scale) \div (distinct - 1)

QualityScore(cohort, e) ==
    MapThenSumSet(LAMBDA c : Weights[c] * ComponentScore(cohort, c, e.metrics[c]), Components)

\* rank_eligible: by score, and the strategy id breaks ties.
RankedBefore(cohort, e, f) ==
    \/ QualityScore(cohort, e) > QualityScore(cohort, f)
    \/ QualityScore(cohort, e) = QualityScore(cohort, f) /\ e.strategy < f.strategy

\* At each rank is the evidence that has one less before it.
RankById(cohort) ==
    [rank \in 1..Cardinality(cohort) |->
        CHOOSE e \in cohort :
            Cardinality({f \in cohort : f.strategy < e.strategy}) = rank - 1]
RankEligible(cohort) ==
    [rank \in 1..Cardinality(cohort) |->
        CHOOSE e \in cohort : Cardinality({f \in cohort : RankedBefore(cohort, f, e)}) = rank - 1]

----------------------------------------------------------------------------
(* eligibility.py and evaluator.py *)

NoTask == [step |-> "idle", serial |-> 0, inputs |-> {}, ranking |-> << >>, done |-> 0]

Free(st) == Cardinality({s \in Strategies : rows[s].state = st}) < Capacity[st]

\* An evaluation input: evidence, and the state and the capacity that were
\* found in the registry when the inputs were collected.
Input(e) == [evidence |-> e, state |-> rows[e.strategy].state, free |-> Free("paper_ranked")]

\* evaluate_eligibility: eight hard gates, none of which makes up for another.
\* `good' stands for the six that are about the evidence alone.
PassesGates(input) ==
    /\ input.evidence.good
    /\ input.state = "paper_observing"
    /\ input.free

\* The inputs are collected: one piece of evidence a strategy.
Collect(p) ==
    /\ task[p].step = "idle"
    /\ begun < MaxEvaluations
    /\ begun' = begun + 1
    /\ \E chosen \in SUBSET Evidence :
          /\ chosen # {}
          /\ \A a, b \in chosen : a.strategy = b.strategy => a = b
          /\ task' = [task EXCEPT ![p] = [NoTask EXCEPT !.step = "evaluate",
                                                        !.serial = begun + 1,
                                                        !.inputs = {Input(e) : e \in chosen}]]
    /\ UNCHANGED <<registry, moves>>

\* evaluate_forward
Evaluate(p) ==
    /\ task[p].step = "evaluate"
    /\ LET cohort == {i.evidence : i \in {j \in task[p].inputs : PassesGates(j)}}
       IN  task' = [task EXCEPT ![p].step = "promote", ![p].inputs = {},
                                ![p].ranking = RankEligible(cohort)]
    /\ UNCHANGED <<registry, begun, moves>>

\* promote_ranked: the key is that of the evidence; time, rank and scores,
\* which the evaluation's serial number and the rank stand for, are content.
EvaluationKey(p, e) == <<"forward-ranked", task[p].serial, e.strategy>>
RankedKey(p, e) == <<"forward-ranked", e.id>>

Promotion(p, rank) ==
    LET e == task[p].ranking[rank]
    IN  [op |-> "transition", key |-> RankedKey(p, e), strategy |-> e.strategy,
         to |-> "paper_ranked", cites |-> << >>, passing |-> FALSE,
         tag |-> <<task[p].serial, rank, e.id>>]

\* The registry refuses: the key is taken by other content, the strategy is
\* not observed any more, or no place is left.
PromotionRefused(r) ==
    /\ ~Ledger!InLedger(r)
    /\ \/ Ledger!KeyTaken(r)
       \/ ~Ledger!MayMove(rows, decisions, rows[r.strategy].state, r)

\* evaluate_and_promote: the first refusal ends the evaluation.
Promote(p) ==
    /\ task[p].step = "promote"
    /\ LET r == Promotion(p, task[p].done + 1)
       IN  IF task[p].done = Len(task[p].ranking) \/ PromotionRefused(r)
           THEN task' = [task EXCEPT ![p] = NoTask] /\ UNCHANGED registry
           ELSE Ledger!Transition(r) /\ task' = [task EXCEPT ![p].done = @ + 1]
    /\ UNCHANGED <<begun, moves>>

\* explicit_transition: to any state, on any evidence id, under any key, one of
\* promote_ranked included; its content names the evidence and no rank.
OperatorKeys(e) == {<<"operator", moves + 1>>, <<"forward-ranked", e.id>>}

ExplicitTransition(s) ==
    /\ moves < MaxMoves
    /\ moves' = moves + 1
    /\ \E to \in Ledger!KnownStates, e \in Cited : \E key \in OperatorKeys(e) :
          Ledger!Transition([op |-> "transition", key |-> key, strategy |-> s, to |-> to,
                             cites |-> << >>, passing |-> FALSE, tag |-> <<e.id>>])
    /\ UNCHANGED <<task, begun>>

\* A process dies between two promotions.
Crash(p) ==
    /\ task[p].step # "idle"
    /\ task' = [task EXCEPT ![p] = NoTask]
    /\ UNCHANGED <<registry, begun, moves>>

ForwardInit ==
    /\ events = << >>
    /\ rows = [s \in Strategies |-> [state |-> "paper_observing", last |-> 0]]
    /\ decisions = {}
    /\ task = [p \in Evaluators |-> NoTask]
    /\ begun = 0
    /\ moves = 0

ForwardNext ==
    \/ \E p \in Evaluators : Collect(p) \/ Evaluate(p) \/ Promote(p) \/ Crash(p)
    \/ \E s \in Strategies : ExplicitTransition(s)

ForwardSpec == ForwardInit /\ [][ForwardNext]_forwardVars

----------------------------------------------------------------------------
(***************************************************************************)
(* Properties                                                              *)
(***************************************************************************)

\* The events of promote_ranked: their references have a serial and a rank.
Promotions == {i \in DOMAIN events : Len(events[i].request.tag) = 3}

EvidenceOf(i) == CHOOSE e \in Evidence : e.id = events[i].request.tag[3]

\* What evaluations promote rests on evidence of that very strategy that passed
\* the hard gates, and evidence promotes once, whatever evaluations overlap and
\* wherever operators move the strategy meanwhile: one that is ranked, paused
\* and restored needs new evidence, or an operator, to be ranked again.
EvidencePromotesOnce ==
    /\ \A i \in Promotions : /\ EvidenceOf(i).good
                             /\ EvidenceOf(i).strategy = events[i].request.strategy
                             /\ events[i].request.to = "paper_ranked"
    /\ \A i, j \in Promotions : EvidenceOf(i) = EvidenceOf(j) => i = j

\* The design's PAPER_RANKED, `minimum forward duration and trades are
\* satisfied', of every way into the state: not so when an operator moves.
RankedPassedGates ==
    \A i \in DOMAIN events : events[i].request.to = "paper_ranked" =>
        LET tag == events[i].request.tag
        IN  \A e \in Evidence : e.id = tag[Len(tag)] => e.good

\* When places are short the better get them: an evaluation that promotes a
\* strategy has promoted everyone it ranks higher, and ranks nobody higher who
\* is worse in every component.
BetterComeFirst ==
    \A i \in Promotions :
        LET serial == events[i].request.tag[1]
            rank == events[i].request.tag[2]
        IN  \A r \in 1..(rank - 1) : \E j \in Promotions :
               /\ j < i
               /\ events[j].request.tag[1] = serial
               /\ events[j].request.tag[2] = r
               /\ ~\A c \in Components :
                      LET mine == EvidenceOf(i).metrics[c]
                          theirs == EvidenceOf(j).metrics[c]
                      IN  IF c \in LowerIsBetter THEN mine < theirs ELSE mine > theirs

=============================================================================
