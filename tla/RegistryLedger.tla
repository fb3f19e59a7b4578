-------------------------- MODULE RegistryLedger --------------------------
(***************************************************************************)
(* What registry/store.py promises of its three tables, transactions left  *)
(* out: an append-only history of events, one current-state row for each   *)
(* strategy, and immutable validation decisions.  Every operation is one   *)
(* step.  Module Registry implements it by several callers with one        *)
(* database lock.                                                          *)
(***************************************************************************)
EXTENDS Lifecycle

VARIABLES
    events,      \* registry_events, in the order of their sequence numbers
    rows,        \* strategy_current_state
    decisions    \* validation_decisions

ledgerVars == <<events, rows, decisions>>

\* The event or decision that has the key of a request.
KeyTaken(r) ==
    IF r.op = "decide" THEN \E d \in decisions : d.key = r.key
    ELSE \E i \in DOMAIN events : events[i].request.key = r.key

\* The request has been carried out: what a repetition of it is answered by.
InLedger(r) ==
    IF r.op = "decide" THEN r \in decisions
    ELSE \E i \in DOMAIN events : events[i].request = r

\* _insert_event and the current-state row that goes with it.
Write(r, from) ==
    /\ events' = Append(events, [request |-> r, from |-> from])
    /\ rows' = [rows EXCEPT ![r.strategy] = [state |-> r.to, last |-> Len(events) + 1]]

----------------------------------------------------------------------------

LedgerInit ==
    /\ events = << >>
    /\ rows = [s \in Strategies |-> [state |-> Absent, last |-> 0]]
    /\ decisions = {}

\* register_strategy: a strategy is registered once.
Register(r) ==
    /\ r.op = "register"
    /\ ~KeyTaken(r)
    /\ rows[r.strategy].state = Absent
    /\ Write(r, Absent)
    /\ UNCHANGED decisions

\* transition_strategy
Transition(r) ==
    /\ r.op = "transition"
    /\ ~KeyTaken(r)
    /\ MayMove(rows, decisions, rows[r.strategy].state, r)
    /\ Write(r, rows[r.strategy].state)
    /\ UNCHANGED decisions

\* record_validation_decision: its strategy is a foreign key.
Decide(r) ==
    /\ r.op = "decide"
    /\ ~KeyTaken(r)
    /\ rows[r.strategy].state # Absent
    /\ decisions' = decisions \cup {r}
    /\ UNCHANGED <<events, rows>>

LedgerNext == \E r \in Requests : Register(r) \/ Transition(r) \/ Decide(r)

LedgerSpec == LedgerInit /\ [][LedgerNext]_ledgerVars

----------------------------------------------------------------------------
(***************************************************************************)
(* Properties                                                              *)
(***************************************************************************)

\* Type invariant.
LedgerTypeOK ==
    /\ events \in Seq(Events)
    /\ rows \in [Strategies -> Rows]
    /\ decisions \subseteq Requests

\* No state ever holds more strategies than its capacity, in whatever order
\* the transitions of different callers commit.
CapacityHolds ==
    \A st \in DOMAIN Capacity : Cardinality(Occupants(rows, st)) <= Capacity[st]

\* The current-state row of a strategy is what its last event says, and a
\* strategy without events has no row: event and row commit together.
RowsFollowEvents ==
    \A s \in Strategies :
        LET last == rows[s].last
        IN  /\ last \in 0..Len(events)
            /\ last = 0 => rows[s].state = Absent
            /\ last > 0 => /\ events[last].request.strategy = s
                           /\ events[last].request.to = rows[s].state
            /\ \A i \in (last + 1)..Len(events) : events[i].request.strategy # s

\* The events of a strategy form one path through the lifecycle: the first is
\* its registration, and each later one starts where the one before it ended
\* and takes an allowed transition.
HistoryIsAPath ==
    \A i \in 1..Len(events) :
        LET e == events[i]
        IN  /\ \A j \in 1..(i - 1) :
                  /\ events[j].request.strategy = e.request.strategy
                  /\ \A k \in (j + 1)..(i - 1) :
                        events[k].request.strategy # e.request.strategy
                  => e.from = events[j].request.to
            /\ IF e.from = Absent
               THEN /\ e.request.op = "register"
                    /\ \A j \in 1..(i - 1) :
                          events[j].request.strategy # e.request.strategy
               ELSE e.from \in KnownStates /\ e.request.to \in AllowedTransitions[e.from]

\* No key makes two events, however often and by however many callers the
\* request is repeated, before or after a crash.
OneEventPerKey ==
    \A i, j \in 1..Len(events) :
        events[i].request.key = events[j].request.key => i = j

\* Every event into the shadow state cites a passing decision on the strategy
\* that the registry holds, then and for ever after.
ShadowIsValidated ==
    \A i \in 1..Len(events) :
        events[i].request.to \in ValidationPromotionStates =>
            PassingDecision(decisions, events[i].request)

\* Every strategy that trades on paper has a passing decision.
PaperIsValidated ==
    \A s \in Strategies :
        rows[s].state \in PaperStates => \E d \in decisions : d.strategy = s /\ d.passing

=============================================================================
