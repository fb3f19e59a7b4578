--------------------------- MODULE StrategyRuntime ---------------------------
(***************************************************************************)
(* The runtime state of one strategy on one symbol in one session: a phase, *)
(* the count of filled entries, the time the position was opened and the    *)
(* end of the cooldown.  The operators are the methods of StrategyRuntime   *)
(* as functions from a state to a state; `Legal...' says when the method    *)
(* does not raise RuntimeTransitionError.  Audit events and the last signal *)
(* are left out: nothing reads them back.                                   *)
(***************************************************************************)
EXTENDS Integers

Phase == {"FLAT", "ENTRY_PENDING", "LONG", "EXIT_PENDING", "COOLDOWN", "SESSION_CLOSED"}

NoTime == -1    \* None for opened_at and cooldown_until

RuntimeState(Times) ==
    [phase : Phase, entries : Nat, openedAt : Times \cup {NoTime},
     cooldownUntil : Times \cup {NoTime}]

Unstarted == [phase |-> "FLAT", entries |-> 0, openedAt |-> NoTime, cooldownUntil |-> NoTime]

(* What transition() may be asked for.  A fill has its own table, so that   *)
(* LONG and COOLDOWN are entered by a fill or not at all.                   *)
PublicTransitions ==
    {<<"FLAT", "ENTRY_PENDING">>, <<"ENTRY_PENDING", "FLAT">>, <<"LONG", "EXIT_PENDING">>,
     <<"EXIT_PENDING", "LONG">>, <<"COOLDOWN", "FLAT">>}
        \cup (Phase \ {"SESSION_CLOSED"}) \X {"SESSION_CLOSED"}

FillTransitions == {<<"ENTRY_PENDING", "LONG">>, <<"EXIT_PENDING", "COOLDOWN">>}

MayMove(state, to) == <<state.phase, to>> \in PublicTransitions
MayFill(state, to) == <<state.phase, to>> \in FillTransitions

(* FLAT and SESSION_CLOSED forget the position and the cooldown. *)
Transition(state, to) ==
    IF to \in {"FLAT", "SESSION_CLOSED"}
    THEN [state EXCEPT !.phase = to, !.openedAt = NoTime, !.cooldownUntil = NoTime]
    ELSE [state EXCEPT !.phase = to]

(* A rejected or cancelled order gives back the phase before it. *)
RejectionTarget(state) == IF state.phase = "ENTRY_PENDING" THEN "FLAT" ELSE "LONG"
OrderRejectedGoesFlat(state) == Transition(state, "FLAT")
OrderRejected(state) == Transition(state, RejectionTarget(state))

EntryFilled(state, time) ==
    [state EXCEPT !.phase = "LONG", !.entries = @ + 1,
                  !.openedAt = time, !.cooldownUntil = NoTime]

ExitFilled(state, time, cooldownMinutes) ==
    [state EXCEPT !.phase = "COOLDOWN", !.openedAt = NoTime,
                  !.cooldownUntil = time + cooldownMinutes]

HoldingMinutes(state, time) ==
    IF state.phase \in {"LONG", "EXIT_PENDING"} /\ state.openedAt # NoTime
    THEN time - state.openedAt ELSE 0

CooldownElapsedAtOnce(state, time) == state.phase = "COOLDOWN"
CooldownElapsed(state, time) ==
    /\ state.phase = "COOLDOWN"
    /\ state.cooldownUntil # NoTime
    /\ state.cooldownUntil <= time
=============================================================================
