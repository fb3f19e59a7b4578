----------------------------- MODULE Lifecycle -----------------------------
(***************************************************************************)
(* The closed lifecycle rules of registry/lifecycle.py and the shape of a  *)
(* registry request, event and row.                                        *)
(*                                                                         *)
(* A request is a record [op, key, strategy, to, cites, passing, tag]: the *)
(* operation ("register", "transition" or "decide"), the key under which   *)
(* it may be repeated (the decision_id of a decision), the strategy, the   *)
(* target state, the decision it cites, whether it is a passing decision,  *)
(* and a tag for the rest of its content: time, actor, reason, references. *)
(* Two requests have the same digest iff they are the same record.         *)
(***************************************************************************)
EXTENDS Integers, Sequences, FiniteSets

CONSTANTS
    Strategies,     \* strategy ids
    Requests,       \* the requests callers may make
    Capacity        \* STATE_CAPACITY: a function from some states to Nat

\* KNOWN_STATES
KnownStates ==
    {"generated", "backtested", "validated", "candidate", "paper_shadow",
     "paper_observing", "paper_ranked", "leader", "review", "rejected",
     "paused", "retired"}

\* ALLOWED_TRANSITIONS
AllowedTransitions ==
    [generated       |-> {"candidate", "review"},
     candidate       |-> {"rejected", "paper_shadow", "review"},
     paper_shadow    |-> {"paper_observing", "rejected", "review"},
     paper_observing |-> {"paper_ranked", "paused", "review"},
     paper_ranked    |-> {"leader", "paused", "review"},
     leader          |-> {"paused", "review"},
     review          |-> {"paused", "retired", "paper_observing"},
     rejected        |-> {"review"},
     backtested      |-> {"review"},
     validated       |-> {"review"},
     paused          |-> {"paper_observing", "review"},
     retired         |-> {}]

\* VALIDATION_PROMOTION_STATES
ValidationPromotionStates == {"paper_shadow"}

\* The states of a strategy whose signals are traded or watched on paper.
PaperStates == {"paper_shadow", "paper_observing", "paper_ranked", "leader"}

ASSUME LifecycleAssumption ==
    /\ \A r \in Requests :
          /\ r.op \in {"register", "transition", "decide"}
          /\ r.strategy \in Strategies
          /\ r.to \in KnownStates
          /\ r.passing \in BOOLEAN
          /\ r.op = "register" => r.to = "generated"
    /\ IsFiniteSet(Strategies)
    /\ DOMAIN Capacity \subseteq KnownStates \ {"generated"}
    /\ \A st \in DOMAIN Capacity : Capacity[st] \in Nat

\* The state of a strategy that is not registered.
Absent == "absent"

States == KnownStates \cup {Absent}

\* A row of registry_events: the request and the state it started from.
Events == [request : Requests, from : States]

\* A row of strategy_current_state: the state and the event that led to it,
\* by its position among the events, 0 for a strategy not registered.
Rows == [state : States, last : Nat]

\* The strategies in a state.
Occupants(rows, st) == {s \in Strategies : rows[s].state = st}

\* _require_passing_decision
PassingDecision(decisions, r) ==
    \E d \in decisions : d.key = r.cites /\ d.strategy = r.strategy /\ d.passing

\* The gates of transition_strategy for a strategy now in state `from'.
MayMoveUnvalidated(rows, decisions, from, r) ==
    /\ from \in KnownStates
    /\ r.to \in AllowedTransitions[from]
    /\ r.to \in DOMAIN Capacity => Cardinality(Occupants(rows, r.to)) < Capacity[r.to]
MayMove(rows, decisions, from, r) ==
    /\ from \in KnownStates
    /\ r.to \in AllowedTransitions[from]
    /\ r.to \in ValidationPromotionStates => PassingDecision(decisions, r)
    /\ r.to \in DOMAIN Capacity => Cardinality(Occupants(rows, r.to)) < Capacity[r.to]

=============================================================================
