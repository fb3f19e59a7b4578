------------------------- MODULE ForwardInvariant -------------------------
(***************************************************************************)
(* The inductive invariant of Forward: what the history of the registry    *)
(* holds, and what an evaluation under way has collected, ranked and       *)
(* promoted so far.                                                        *)
(***************************************************************************)
EXTENDS Forward

GoodEvidence == {e \in Evidence : e.good}

\* The requests that promote_ranked and the operators may have committed.
PromotionRequest(e, serial, rank) ==
    [op |-> "transition", key |-> <<"forward-ranked", e.id>>, strategy |-> e.strategy,
     to |-> "paper_ranked", cites |-> << >>, passing |-> FALSE, tag |-> <<serial, rank, e.id>>]
OperatorRequest(key, s, to, e) ==
    [op |-> "transition", key |-> key, strategy |-> s, to |-> to,
     cites |-> << >>, passing |-> FALSE, tag |-> <<e.id>>]

PromotionRequests ==
    {PromotionRequest(e, serial, rank) :
        e \in GoodEvidence, serial \in 1..MaxEvaluations, rank \in 1..Cardinality(Strategies)}
OperatorRequests ==
    {OperatorRequest(key, s, to, e) :
        key \in {<<"operator", n>> : n \in 1..MaxMoves}
                    \cup {<<"forward-ranked", f.id>> : f \in Evidence},
        s \in Strategies, to \in Ledger!KnownStates, e \in Evidence}

PastEvents == [request : PromotionRequests \cup OperatorRequests, from : Ledger!States]

HistoryInv ==
    /\ events \in Seq(PastEvents)
    /\ \A i, j \in DOMAIN events :
           events[i].request.key = events[j].request.key => i = j

\* One piece of evidence beats another in every component.
BetterEverywhere(e, f) ==
    \A c \in Components :
        IF c \in LowerIsBetter THEN e.metrics[c] < f.metrics[c]
        ELSE e.metrics[c] > f.metrics[c]

Rankings ==
    {r \in Seq(GoodEvidence) :
        /\ Len(r) <= Cardinality(Strategies)
        /\ \A i, j \in 1..Len(r) : i < j => ~BetterEverywhere(r[j], r[i])}

InputRecords == [evidence : Evidence, state : Ledger!States, free : BOOLEAN]

Tasks ==
    [step : {"idle", "evaluate", "promote"}, serial : 0..MaxEvaluations,
     inputs : SUBSET InputRecords, ranking : Rankings, done : 0..Cardinality(Strategies)]

\* An evaluation has one piece of evidence a strategy, and has promoted the
\* first of its ranking in their order.
TaskInv(t) ==
    /\ t.step # "idle" => t.serial > 0
    /\ \A i, j \in t.inputs :
           i.evidence.strategy = j.evidence.strategy => i.evidence = j.evidence
    /\ t.done <= Len(t.ranking)
    /\ t.step # "promote" => t.done = 0
    /\ \A rank \in 1..t.done :
           \E i \in Promotions : events[i].request.tag = <<t.serial, rank, t.ranking[rank].id>>

ForwardInv ==
    /\ begun \in 0..MaxEvaluations
    /\ moves \in 0..MaxMoves
    /\ rows \in [Strategies -> Ledger!Rows]
    /\ task \in [Evaluators -> Tasks]
    /\ HistoryInv
    /\ \A p \in Evaluators : TaskInv(task[p])
    /\ BetterComeFirst

=============================================================================
