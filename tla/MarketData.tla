----------------------------- MODULE MarketData -----------------------------
(***************************************************************************)
(* paper/market_data.py and the part of process_bars around it: minutes    *)
(* come from the Alpaca IEX stream late, out of order, twice or never; the *)
(* pipeline keeps them in memory and in the ledger and, when a bucket of   *)
(* Width minutes is complete, appends its aggregate.  The session shows    *)
(* the aggregates to its strategies, one for each symbol, a minute after   *)
(* they are available and while the stream is healthy.                     *)
(*                                                                         *)
(* Memory is written before the ledger.  A write may fail, which opens the *)
(* write circuit of the process, and the process may die between the two   *)
(* appends.  The stream never changes the prices of a minute, so a bar is  *)
(* its symbol, its minute and its available_at.  A minute delivered at its *)
(* very end is one that finds the local clock not ahead of the exchange's. *)
(***************************************************************************)
EXTENDS Integers, FiniteSets

CONSTANTS
    Symbols,        \* required_symbols
    Width,          \* minutes of a bucket (15)
    Minutes,        \* official minutes of the session
    ReorderWindow,  \* reorder_window, in minutes
    StaleAfter,     \* stale_after, in minutes
    MaxTime,        \* bound: the last minute of the clock
    MaxStarts       \* bound: starts of the process

ASSUME MarketDataAssumption ==
    /\ {Width, ReorderWindow, StaleAfter, MaxStarts} \subseteq Nat \ {0}
    /\ Minutes \in Nat /\ MaxTime \in Nat

VARIABLES
    now,             \* the clock, in minutes after the open
    minutes,         \* the one-minute bars in the ledger
    aggregates,      \* the aggregates in the ledger
    starts,          \* starts of the process
    phase,           \* what the process is doing
    bars,            \* _bars
    emitted,         \* _emitted_buckets
    circuit,         \* _circuit_reasons
    writesDisabled,  \* the store's write circuit
    pending,         \* _pending_aggregates
    history,         \* _history of the strategies
    entered          \* the bars that a strategy may have entered on since the
                     \* start: the bar, the last one it knew, and when

ledger == <<minutes, aggregates>>
pipeline == <<bars, emitted, circuit, writesDisabled>>
session == <<pending, history, entered>>
vars == <<now, ledger, starts, phase, pipeline, session>>

Stopped == [op |-> "stopped"]
Waiting == [op |-> "waiting"]

Bar(sym, start, at) == [symbol |-> sym, start |-> start, at |-> at]

Starts(sym) == {b.start : b \in {c \in bars : c.symbol = sym}}
LargestOf(S) == CHOOSE n \in S : \A m \in S : m <= n
LatestStart(sym) == LargestOf(Starts(sym))

BucketStart(start) == (start \div Width) * Width
Components(set, sym, bucket) ==
    {b \in set : b.symbol = sym /\ BucketStart(b.start) = bucket}
IsComplete(set, sym, bucket) ==
    {b.start : b \in Components(set, sym, bucket)} = bucket..(bucket + Width - 1)

\* _aggregate_if_complete: the aggregates that a bar makes possible.
AggregatesOf(b, set) ==
    LET bucket == BucketStart(b.start)
    IN  IF IsComplete(set, b.symbol, bucket) /\ <<b.symbol, bucket>> \notin emitted
        THEN {Bar(b.symbol, bucket, LargestOf({c.at : c \in Components(set, b.symbol, bucket)}))}
        ELSE {}

\* health: the reasons that keep the session from entering.
HealthReasons(observed) ==
    circuit \cup
    {r \in {"missing", "gap", "stale"} :
        \E sym \in Symbols :
            \/ r = "missing" /\ Starts(sym) = {}
            \/ /\ r = "gap"
               /\ \E s \in Starts(sym) : s < LatestStart(sym) /\ s + 1 \notin Starts(sym)
            \/ /\ r = "stale"
               /\ \E b \in bars : /\ b.symbol = sym /\ b.start = LatestStart(sym)
                                  /\ observed - b.at > StaleAfter}

----------------------------------------------------------------------------
(***************************************************************************)
(* One call of on_bar                                                      *)
(***************************************************************************)

\* A write of the ledger fails: the circuit opens until the process ends.
FailWithoutCircuit == phase' = Waiting /\ UNCHANGED writesDisabled
Fail == phase' = Waiting /\ writesDisabled' = TRUE

\* The stream delivers a minute that has ended, for the first time or again.
\* available_at is the time of this delivery.
Delivers(sym, start) ==
    /\ phase = Waiting
    /\ ~writesDisabled
    /\ start + 1 <= now

\* A minute the pipeline has: the same bar, or one with another available_at.
Duplicate(sym, start) ==
    /\ Delivers(sym, start)
    /\ start \in Starts(sym)
    /\ \/ /\ Bar(sym, start, now) \in bars
          /\ phase' = [op |-> "session", observed |-> now, fresh |-> {}]
          /\ UNCHANGED circuit
       \/ /\ Bar(sym, start, now) \notin bars
          /\ circuit' = circuit \cup {"DUPLICATE_BAR_CONTENT_MISMATCH"}
          /\ UNCHANGED phase
    /\ UNCHANGED <<now, ledger, starts, bars, emitted, writesDisabled, session>>

IsLate(sym, start) == Starts(sym) # {} /\ start < LatestStart(sym) - ReorderWindow

TooLate(sym, start) ==
    /\ Delivers(sym, start)
    /\ start \notin Starts(sym)
    /\ IsLate(sym, start)
    /\ circuit' = circuit \cup {"BAR_OUTSIDE_REORDER_WINDOW"}
    /\ UNCHANGED <<now, ledger, starts, phase, bars, emitted, writesDisabled, session>>

\* A new minute, in memory and in the ledger.
Minute(sym, start) ==
    LET b == Bar(sym, start, now)
    IN  /\ Delivers(sym, start)
        /\ start \notin Starts(sym)
        /\ ~IsLate(sym, start)
        /\ bars' = bars \cup {b}
        /\ \/ /\ minutes' = minutes \cup {b}
              /\ phase' = [op |-> "aggregate", observed |-> now, bar |-> b]
              /\ UNCHANGED writesDisabled
           \/ Fail /\ UNCHANGED minutes
        /\ UNCHANGED <<now, aggregates, starts, emitted, circuit, session>>

\* The aggregate of its bucket, if this minute completes it.
Aggregate ==
    /\ phase.op = "aggregate"
    /\ LET new == AggregatesOf(phase.bar, bars)
       IN  /\ emitted' = emitted \cup {<<a.symbol, a.start>> : a \in new}
           /\ \/ /\ aggregates' = aggregates \cup new
                 /\ phase' = [op |-> "session", observed |-> phase.observed, fresh |-> new]
                 /\ UNCHANGED writesDisabled
              \/ new # {} /\ Fail /\ UNCHANGED aggregates
    /\ UNCHANGED <<now, minutes, starts, bars, circuit, session>>

Eligible(a, observed) == a.at + 1 <= observed

\* The rest of process_bars: nothing when the stream is not healthy, else what
\* is new and what was pending is judged as far as it is eligible.
Session ==
    /\ phase.op = "session"
    /\ IF HealthReasons(phase.observed) = {}
       THEN LET all == pending \cup phase.fresh
            IN  /\ pending' = all
                /\ phase' = [op |-> "judge", observed |-> phase.observed,
                             todo |-> {a \in all : Eligible(a, phase.observed)}]
       ELSE phase' = Waiting /\ UNCHANGED pending
    /\ UNCHANGED <<now, ledger, starts, pipeline, history, entered>>

\* compute_feature_frame refuses a history with a bar that was not available
\* at its very end.
IsRefused(set) == \E a \in set : a.at # a.start + Width

\* The feed-age gate of the entry: feed_observed_at is the bar's available_at.
IsFreshAlways(a, observed) == TRUE
IsFresh(a, observed) == observed - a.at <= StaleAfter

\* should_enter: the rule is evaluated on the last bar of the history.  An
\* exception leaves process_bars; else the bar is no longer pending, and a
\* fresh one may be entered on.
Judge ==
    /\ phase.op = "judge"
    /\ \E a \in phase.todo :
          /\ \A c \in phase.todo : c.symbol = a.symbol => a.start <= c.start
          /\ history' = history \cup {a}
          /\ LET known == {c \in history' : c.symbol = a.symbol}
                 last == CHOOSE c \in known : \A d \in known : d.start <= c.start
             IN  IF IsRefused(known)
                 THEN phase' = [op |-> "raised"] /\ UNCHANGED <<pending, entered>>
                 ELSE /\ phase' = [phase EXCEPT !.todo = @ \ {a}]
                      /\ pending' = pending \ {a}
                      /\ entered' = entered \cup
                            {[bar |-> b, judged |-> last, time |-> phase.observed] :
                                b \in {c \in {a} : IsFresh(c, phase.observed)}}
    /\ UNCHANGED <<now, ledger, starts, pipeline>>

\* The call of on_bar is over; the stream goes on, also after an exception.
Return ==
    /\ phase.op = "raised" \/ (phase.op = "judge" /\ phase.todo = {})
    /\ phase' = Waiting
    /\ UNCHANGED <<now, ledger, starts, pipeline, session>>

----------------------------------------------------------------------------

Tick ==
    /\ now < MaxTime
    /\ now' = now + 1
    /\ UNCHANGED <<ledger, starts, phase, pipeline, session>>

\* The process dies, by an exception or otherwise.
Crash ==
    /\ phase # Stopped
    /\ phase' = Stopped
    /\ UNCHANGED <<now, ledger, starts, pipeline, session>>

\* Memory from the ledger: every aggregate is pending again.
Start ==
    /\ phase = Stopped
    /\ starts < MaxStarts
    /\ starts' = starts + 1
    /\ phase' = Waiting
    /\ bars' = minutes
    /\ emitted' = {<<a.symbol, a.start>> : a \in aggregates}
    /\ circuit' = {}
    /\ writesDisabled' = FALSE
    /\ pending' = aggregates
    /\ history' = aggregates
    /\ entered' = {}
    /\ UNCHANGED <<now, ledger>>

Init ==
    /\ now = 0
    /\ minutes = {}
    /\ aggregates = {}
    /\ starts = 0
    /\ phase = Stopped
    /\ bars = {}
    /\ emitted = {}
    /\ circuit = {}
    /\ writesDisabled = FALSE
    /\ pending = {}
    /\ history = {}
    /\ entered = {}

Next ==
    \/ \E sym \in Symbols, start \in 0..(Minutes - 1) :
          Duplicate(sym, start) \/ TooLate(sym, start) \/ Minute(sym, start)
    \/ Aggregate
    \/ Session
    \/ Judge
    \/ Return
    \/ Tick
    \/ Crash
    \/ Start

Spec == Init /\ [][Next]_vars

----------------------------------------------------------------------------
(***************************************************************************)
(* Properties                                                              *)
(***************************************************************************)

\* An aggregate in the ledger is made of minutes in the ledger, all of them,
\* although memory runs ahead of the ledger and writes fail; no bucket has two.
AggregateIsComplete ==
    \A a \in aggregates :
        /\ IsComplete(minutes, a.symbol, a.start)
        /\ a.at = LargestOf({b.at : b \in Components(minutes, a.symbol, a.start)})
        /\ \A c \in aggregates : c.symbol = a.symbol /\ c.start = a.start => c = a

\* Memory and the ledger hold the same minutes, unless the write circuit keeps
\* the process from using its memory.
MemoryIsLedger == phase # Stopped => bars = minutes \/ writesDisabled

\* An entry is decided on the bar it is recorded for, and before a later bar is
\* available, although a restart makes the bars of the day pending again and
\* the rule looks at the last bar only.
EntryUsesItsBar ==
    \A e \in entered :
        /\ e.judged = e.bar
        /\ \A a \in aggregates : a.symbol = e.bar.symbol /\ a.at <= e.time => a.start <= e.bar.start

\* No bar makes a strategy raise: a completed bar is judged.
CompletedBarIsJudged == phase.op # "raised"

=============================================================================
