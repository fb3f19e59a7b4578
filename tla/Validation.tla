----------------------------- MODULE Validation -----------------------------
(***************************************************************************)
(* validation/splits.py and validation/walk_forward.py: the sessions of a  *)
(* dataset, here 1..total, are split 70/20/10 in their order; the views of *)
(* the three phases are handed out by one object that its owner may call   *)
(* in any order; and any given sessions are cut into rolling windows.      *)
(***************************************************************************)
EXTENDS Integers, Sequences, FiniteSets, FiniteSetsExt, SequencesExt

CONSTANTS
    Totals,         \* how many sessions a dataset may have
    Lengths,        \* how many sessions may be given to be cut into windows
    Sizes,          \* sizes and steps of walk-forward windows
    MaxWindows,     \* MAX_WALK_FORWARD_WINDOWS
    MaxSlots,       \* MAX_MATERIALIZED_SESSION_SLOTS
    Strategies,     \* what a selection is made of
    MaxViews        \* bound: views handed out

ASSUME ValidationAssumption ==
    /\ Totals \subseteq Nat /\ \A n \in Totals : n >= 10
    /\ Lengths \subseteq Nat
    /\ Sizes \subseteq Nat \ {0}
    /\ MaxWindows \in Nat /\ MaxSlots \in Nat
    /\ MaxViews \in Nat

VARIABLES
    total,       \* sessions of the dataset
    rolling,     \* sessions and sizes given to build_walk_forward_windows
    log,         \* access_log: the phases whose views were handed out
    sealed,      \* the sealed survivors, {} before seal_selection
    consumed,    \* final_consumed
    searched,    \* history: the log as it was when the selection was sealed
    granted      \* history: to whom the final view was handed out

viewsVars == <<total, rolling, log, sealed, consumed, searched, granted>>
input == <<total, rolling>>

----------------------------------------------------------------------------
(* The split *)

Weights == <<7, 2, 1>>

\* Largest remainders first, the earlier phase on a tie.
Floor(n, i) == (n * Weights[i]) \div 10
Remainder(n, i) == (n * Weights[i]) % 10
Ahead(n, i) ==
    {j \in 1..3 : \/ Remainder(n, j) > Remainder(n, i)
                  \/ Remainder(n, j) = Remainder(n, i) /\ j < i}
Unallocated(n) == n - (Floor(n, 1) + Floor(n, 2) + Floor(n, 3))

\* chronological_split_counts
RoundedCount(n, i) == (n * Weights[i] + 5) \div 10
Count(n, i) == Floor(n, i) + IF Cardinality(Ahead(n, i)) < Unallocated(n) THEN 1 ELSE 0

\* create_chronological_split
Train(n) == 1..Count(n, 1)
ValidationSessions(n) == (Count(n, 1) + 1)..(Count(n, 1) + Count(n, 2))
FinalTest(n) == (Count(n, 1) + Count(n, 2) + 1)..n

----------------------------------------------------------------------------
(* build_walk_forward_windows on the sessions 1..r.sessions *)

WindowCount(r) == 1 + (r.sessions - r.train - r.evaluation) \div r.step

\* The ValueErrors: not one window fits, or there are too many.
WindowsRefused(r) ==
    \/ r.sessions < r.train + r.evaluation
    \/ WindowCount(r) > MaxWindows
    \/ WindowCount(r) * (r.train + r.evaluation) > MaxSlots

WindowAt(start, r) ==
    [train |-> (start + 1)..(start + r.train),
     evaluation |-> (start + r.train + 1)..(start + r.train + r.evaluation)]

\* A mutant: a last window that does not fit any more.
WindowsRoundedUp(r) ==
    [i \in 1..(WindowCount(r) + 1) |-> WindowAt((i - 1) * r.step, r)]
Windows(r) == [i \in 1..WindowCount(r) |-> WindowAt((i - 1) * r.step, r)]

----------------------------------------------------------------------------
(* IsolatedChronologicalViews *)

Phases == {log[i] : i \in DOMAIN log}

\* training_view and validation_view: refused once the selection is sealed.
SearchUnconsumed == ~consumed
SearchAllowed == ~consumed /\ sealed = {}

SearchView(phase) ==
    /\ SearchAllowed
    /\ Len(log) < MaxViews
    /\ log' = Append(log, phase)
    /\ UNCHANGED <<input, sealed, consumed, searched, granted>>

\* seal_selection: one non-empty selection, after both views were read.
SealSelection ==
    /\ ~consumed
    /\ sealed = {}
    /\ {"train", "validation"} \subseteq Phases
    /\ sealed' \in (SUBSET Strategies) \ {{}}
    /\ searched' = log
    /\ UNCHANGED <<input, log, consumed, granted>>

\* final_test_view: exactly the sealed survivors, once.
MayConsume(ids) == sealed # {} /\ ~consumed /\ ids = sealed

FinalTestView ==
    /\ \E ids \in SUBSET Strategies :
          /\ MayConsume(ids)
          /\ granted' = Append(granted, ids)
    /\ Len(log) < MaxViews
    /\ consumed' = TRUE
    /\ log' = Append(log, "final_test")
    /\ UNCHANGED <<input, sealed, searched>>

ViewsInit ==
    /\ total \in Totals
    /\ rolling \in [sessions : Lengths, train : Sizes, evaluation : Sizes, step : Sizes]
    /\ log = << >>
    /\ sealed = {}
    /\ consumed = FALSE
    /\ searched = << >>
    /\ granted = << >>

ViewsNext ==
    \/ SearchView("train")
    \/ SearchView("validation")
    \/ SealSelection
    \/ FinalTestView

ViewsSpec == ViewsInit /\ [][ViewsNext]_viewsVars

----------------------------------------------------------------------------
(***************************************************************************)
(* Properties                                                              *)
(***************************************************************************)

\* For every number of sessions the phases are non-empty, in order, and take
\* every session once; each has its share of 70, 20 and 10 per cent to less
\* than one session.
SplitIsExact ==
    LET parts == <<Train(total), ValidationSessions(total), FinalTest(total)>>
    IN  /\ UNION {parts[i] : i \in 1..3} = 1..total
        /\ \A i \in 1..3 :
              /\ parts[i] # {}
              /\ Cardinality(parts[i]) = Count(total, i)
              /\ 10 * Cardinality(parts[i]) - Weights[i] * total \in -9..9
        /\ \A i, j \in 1..3 : i < j => \A a \in parts[i], b \in parts[j] : a < b

\* Whatever sessions and sizes are accepted: every window has its full size,
\* lies in the given sessions and is trained on sessions before those it is
\* evaluated on; with steps as long as evaluations no session is evaluated
\* twice, with steps as short none is skipped; and no further window fits.
WindowsWalkForward ==
    LET n == rolling.sessions
        windows == Windows(rolling)
        end == Max(Last(windows).evaluation)
    IN  ~WindowsRefused(rolling) =>
          /\ \A i \in DOMAIN windows :
                /\ windows[i].train \cup windows[i].evaluation \subseteq 1..n
                /\ \A a \in windows[i].train, b \in windows[i].evaluation : a < b
                /\ Cardinality(windows[i].train) = rolling.train
                /\ Cardinality(windows[i].evaluation) = rolling.evaluation
          /\ rolling.step >= rolling.evaluation =>
                \A i, j \in DOMAIN windows :
                    i # j => windows[i].evaluation \cap windows[j].evaluation = {}
          /\ rolling.step <= rolling.evaluation =>
                \A d \in (rolling.train + 1)..end :
                    \E i \in DOMAIN windows : d \in windows[i].evaluation
          /\ end + rolling.step > n

\* In whatever order the object's methods are called: a selection is sealed on
\* both search views; from then on no search view is handed out, before or
\* after the final test is; and the final sessions are handed out at most
\* once, to the strategies that were sealed.
FinalTestIsOneUse ==
    /\ sealed = {} => granted = << >> /\ "final_test" \notin Phases
    /\ sealed # {} =>
          /\ \A phase \in {"train", "validation"} : \E i \in DOMAIN searched : searched[i] = phase
          /\ \/ log = searched /\ granted = << >>
             \/ log = Append(searched, "final_test") /\ granted = <<sealed>>

=============================================================================
