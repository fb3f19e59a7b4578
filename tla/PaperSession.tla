--------------------------- MODULE PaperSession ---------------------------
(***************************************************************************)
(* The automated paper session of paper/session.py over the SQLite ledger  *)
(* of paper/store.py: startup reconciliation, process_bars with its entry  *)
(* loop, the four durable steps of one entry (submit at the broker, record *)
(* the bundle, append the position snapshot, count the entry), broker      *)
(* order updates, and a crash between any two of them.                     *)
(*                                                                         *)
(* One `paper run' process works at a time; the broker acts concurrently.  *)
(* Each 15-minute bar is one record [symbol, signal], where signal is its  *)
(* available_at.  Every order asks for LotSize shares: sizing only decides *)
(* whether an entry happens, which is part of the free choice in Skip.     *)
(***************************************************************************)
EXTENDS PaperBroker, Reconciliation, FiniteSets

CONSTANTS
    StrategyIds,      \* strategy ids enabled for the session
    Listing,          \* the (strategy id, symbol) pairs of service.strategies
    Lifecycle,        \* strategy id -> its registry state
    Bars,             \* the 15-minute bars that may complete today
    LotSize,          \* shares per entry
    MaxEntries,       \* entries allowed per strategy (3 in the code)
    MaxPositions,     \* positions allowed in the account (3 in the code)
    EntryDelay,       \* a signal is eligible this long after its bar
    MaxFeedAge,       \* market_data.stale_after
    MaxClockAge,      \* max_broker_clock_age
    ClockSkew,        \* the broker's clock minus the session's clock
    CloseoutAt,       \* start of the closeout buffer
    Horizon,          \* bound: last instant modelled
    MaxCrashes        \* bound: process crashes

ASSUME SessionAssumption ==
    /\ IsFiniteSet(StrategyIds)
    /\ Listing \subseteq [id : StrategyIds, symbol : Symbols]
    /\ Bars \subseteq [symbol : Symbols, signal : Nat]
    /\ LotSize \in Nat \ {0}
    /\ MaxEntries \in Nat \ {0}
    /\ MaxPositions \in Nat
    /\ EntryDelay \in Nat
    /\ MaxFeedAge \in Nat
    /\ MaxClockAge \in Nat
    /\ ClockSkew \in Int
    /\ CloseoutAt \in Nat
    /\ Horizon \in Nat
    /\ MaxCrashes \in Nat

VARIABLES
    (***********************************************************************)
    (* The ledger: survives a crash                                        *)
    (***********************************************************************)
    stored,       \* 15-minute bars in market_events
    ledger,       \* recorded client_order_id -> its order events, the last one
    snapshot,     \* positions of the last row of position_snapshots
    entryCount,   \* strategy_session_state.entry_count
    (***********************************************************************)
    (* The process: lost by a crash                                        *)
    (***********************************************************************)
    pc,           \* where the process is
    recon,        \* "clean" once the startup reconciliation was clean
    seenOrders,   \* open orders read by the reconciliation under way
    pending,      \* _pending_aggregates not handed to the entry loop
    work,         \* (bar, strategy) pairs the entry loop has still to try
    observedAt,   \* the observed_at argument of the current process_bars
    attempt,      \* the entry under way: key, order, count and clock read
    circuitOpen,  \* store.entry_writes_disabled
    (***********************************************************************)
    (* The environment, and what only an observer sees                     *)
    (***********************************************************************)
    now,          \* the session's clock
    crashes,      \* crashes so far
    escaped       \* orders the broker took and entry_count never counted

ledgerVars  == <<stored, ledger, snapshot, entryCount>>
loopVars    == <<pending, work, observedAt>>
processVars == <<pc, recon, seenOrders, loopVars, attempt, circuitOpen>>
observerVars == <<now, crashes, escaped>>
vars == <<brokerVars, ledgerVars, processVars, observerVars>>

Keys == [strategy : StrategyIds, symbol : Symbols,
         signal : {b.signal : b \in Bars}, seq : 1..MaxEntries]

Items == [bar : Bars, id : StrategyIds]

NoOrders == [k \in {} |-> {}]

NoAttempt == [key |-> "none", order |-> "none", seen |-> 0, clock |-> 0]

\* ENABLED_PAPER_STATES: the registry states whose strategies may enter.
EnabledPaperStates == {"paper_shadow", "paper_observing", "paper_ranked", "leader"}

\* The orders of the ledger.
Recorded == DOMAIN ledger

\* _latest_orders: of the events of an order, the one updated last.
LatestOrders ==
    [k \in Recorded |->
        CHOOSE o \in ledger[k].events : \A p \in ledger[k].events : ~Newer(p, o)]

EntryKey(item, count) ==
    [strategy |-> item.id, symbol |-> item.bar.symbol, signal |-> item.bar.signal,
     seq |-> IF count + 1 < MaxEntries THEN count + 1 ELSE MaxEntries]

\* Two keys of one signal: the same strategy, symbol and bar.
SameSignal(k, j) ==
    k.strategy = j.strategy /\ k.symbol = j.symbol /\ k.signal = j.signal

----------------------------------------------------------------------------
(***************************************************************************)
(* Startup: __init__, start, recover_session, run_startup_reconciliation.  *)
(***************************************************************************)

\* A new process reloads every stored 15-minute bar and asks the broker for
\* its open orders.  What recover_session may refuse is the subject of
\* module Recovery; a start it refuses leaves the process down.
Boot ==
    /\ pc = "down"
    /\ pc' = "starting"
    /\ pending' = stored
    /\ seenOrders' = OpenOrders
    /\ UNCHANGED <<brokerVars, ledgerVars, recon, work, observedAt, attempt, circuitOpen,
                   observerVars>>

\* It then reads the positions and compares; `paper run' goes on only if the
\* result is clean and exits otherwise.
Reconcile ==
    /\ pc = "starting"
    /\ IF ReconciliationStatus(LatestOrders, snapshot, seenOrders, positions) = "clean"
       THEN pc' = "idle" /\ recon' = "clean" /\ pending' = pending
       ELSE pc' = "down" /\ recon' = recon /\ pending' = {}
    /\ seenOrders' = NoOrders
    /\ UNCHANGED <<brokerVars, ledgerVars, work, observedAt, attempt, circuitOpen,
                   observerVars>>

----------------------------------------------------------------------------
(***************************************************************************)
(* process_bars.                                                           *)
(***************************************************************************)

\* Bars whose last minute has arrived and that were not aggregated before.
Arriving == {b \in Bars \ stored : b.signal <= now}

Eligible(bars) == {b \in bars : b.signal + EntryDelay <= now}

\* The (bar, strategy) pairs the two nested loops visit.
ItemsOf(bars) ==
    {i \in Items : i.bar \in bars /\ [id |-> i.id, symbol |-> i.bar.symbol] \in Listing}

\* Ingestion succeeds, the feed is healthy, and the loop starts on the
\* eligible bars.  The code takes a bar off the pending list when its inner
\* loop is done; nothing reads the list in between.
ProcessBars ==
    /\ pc = "idle"
    /\ ~circuitOpen
    /\ \E new \in SUBSET Arriving :
        LET bars == pending \cup new
        IN  /\ stored' = stored \cup new
            /\ pending' = bars \ Eligible(bars)
            /\ work' = ItemsOf(Eligible(bars))
    /\ observedAt' = now
    /\ pc' = "loop"
    /\ UNCHANGED <<brokerVars, ledger, snapshot, entryCount, recon, seenOrders,
                   attempt, circuitOpen, observerVars>>

\* Ingestion raises or the feed is unhealthy: process_bars returns early.  A
\* bar aggregated in this call is stored and yet never becomes pending; a
\* failed write opens the store's circuit.
ProcessBarsRefused ==
    /\ pc = "idle"
    /\ ~circuitOpen
    /\ \E new \in SUBSET Arriving : stored' = stored \cup new
    /\ circuitOpen' \in BOOLEAN
    /\ UNCHANGED <<brokerVars, ledger, snapshot, entryCount, pc, recon, seenOrders,
                   loopVars, attempt, observerVars>>

\* _signal_already_processed: an intent of this strategy, symbol and bar.
SignalAlreadyProcessed(item) ==
    \E k \in Recorded : SameSignal(k, EntryKey(item, 0))

FeedFresh ==
    /\ observedAt >= attempt.key.signal
    /\ observedAt - attempt.key.signal <= MaxFeedAge

\* The reading of the broker's clock against observed_at, which was read when
\* the call began: a reading later than observed_at has a negative age.
BrokerClockFreshUpperOnly == observedAt - attempt.clock <= MaxClockAge
BrokerClockFresh ==
    /\ observedAt >= attempt.clock
    /\ observedAt - attempt.clock <= MaxClockAge

\* evaluate_entry_risk, its gates in the order of the code.  Regular hours
\* end after CloseoutAt, and the loss limits and the sizing of the code
\* never refuse what Refuse may not refuse as well.
EntryRiskApprovedNoLimit ==
    /\ observedAt < CloseoutAt
    /\ FeedFresh
    /\ BrokerClockFresh
    /\ recon = "clean"
    /\ ~circuitOpen
    /\ Cardinality(HeldSymbols) < MaxPositions
    /\ attempt.seen <= MaxEntries
    /\ Lifecycle[attempt.key.strategy] \in EnabledPaperStates
EntryRiskApproved ==
    /\ observedAt < CloseoutAt
    /\ FeedFresh
    /\ BrokerClockFresh
    /\ recon = "clean"
    /\ ~circuitOpen
    /\ Cardinality(HeldSymbols) < MaxPositions
    /\ attempt.seen < MaxEntries
    /\ Lifecycle[attempt.key.strategy] \in EnabledPaperStates

\* conflicting_intent: an open order buys the symbol.
ConflictingIntentNever == FALSE
ConflictingIntent == HasOpenBuy(attempt.key.symbol)

\* should_enter is false, the signal was processed, or a read raises one of
\* the errors the loop catches: it goes on with the next pair.
Skip(item) ==
    /\ pc = "loop"
    /\ work' = work \ {item}
    /\ UNCHANGED <<brokerVars, ledgerVars, pc, recon, seenOrders, pending, observedAt,
                   attempt, circuitOpen, observerVars>>

\* The strategy enters on a signal the ledger has not: the count is read, the
\* account and the broker's clock, and the intent is built.
ReadClock(item) ==
    /\ pc = "loop"
    /\ ~SignalAlreadyProcessed(item)
    /\ attempt' = [key |-> EntryKey(item, entryCount[item.id]), order |-> "none",
                   seen |-> entryCount[item.id], clock |-> now + ClockSkew]
    /\ work' = work \ {item}
    /\ pc' = "query"
    /\ UNCHANGED <<brokerVars, ledgerVars, recon, seenOrders, pending, observedAt,
                   circuitOpen, observerVars>>

\* broker.open_orders, with no purchase of the symbol among them: with one,
\* the decision is a refusal whatever the positions are.
ReadOrders ==
    /\ pc = "query"
    /\ ~ConflictingIntent
    /\ pc' = "decide"
    /\ UNCHANGED <<brokerVars, ledgerVars, recon, seenOrders, loopVars, attempt,
                   circuitOpen, observerVars>>

\* broker.positions and the decision: every gate is open.
Approve ==
    /\ pc = "decide"
    /\ EntryRiskApproved
    /\ attempt' = [attempt EXCEPT !.clock = 0]
    /\ pc' = "submit"
    /\ UNCHANGED <<brokerVars, ledgerVars, recon, seenOrders, loopVars, circuitOpen,
                   observerVars>>

\* Sizing or a gate refuses, or a query raises what the loop catches.
Refuse ==
    /\ pc \in {"query", "decide"}
    /\ attempt' = NoAttempt
    /\ pc' = "loop"
    /\ UNCHANGED <<brokerVars, ledgerVars, recon, seenOrders, loopVars, circuitOpen,
                   observerVars>>

\* The bars the call under way has not taken off the pending list.
Unfinished ==
    {i.bar : i \in work} \cup
        {b \in Bars : pc # "loop" /\ b.symbol = attempt.key.symbol
                                  /\ b.signal = attempt.key.signal}

\* An error process_bars does not catch ends the call: its bars stay pending.
AbortCall ==
    /\ pending' = pending \cup Unfinished
    /\ work' = {}
    /\ observedAt' = 0
    /\ attempt' = NoAttempt
    /\ pc' = "idle"
    /\ UNCHANGED <<ledgerVars, recon, seenOrders, circuitOpen, now, crashes>>

\* should_enter raises, which is called outside the try block, or a read of
\* the broker raises an error of a type the loop does not catch.
ReadAborts ==
    /\ \/ pc = "loop" /\ work # {}
       \/ pc \in {"query", "decide"}
    /\ AbortCall
    /\ UNCHANGED <<brokerVars, escaped>>

FinishLoop ==
    /\ pc = "loop"
    /\ work = {}
    /\ pc' = "idle"
    /\ observedAt' = 0
    /\ UNCHANGED <<brokerVars, ledgerVars, recon, seenOrders, pending, work, attempt,
                   circuitOpen, observerVars>>

----------------------------------------------------------------------------
(***************************************************************************)
(* One entry: submit, record, snapshot, count.                             *)
(***************************************************************************)

\* An order of the broker's own making: submitted_at is the broker's time.
NewOrder(status) ==
    [symbol |-> attempt.key.symbol, side |-> "buy", qty |-> LotSize,
     filled |-> IF status = "filled" THEN LotSize ELSE 0, status |-> status,
     at |-> now + ClockSkew]

\* broker.submit returns the state of the order it created.
Submit ==
    /\ pc = "submit"
    /\ \E status \in FirstStatuses :
        /\ Place(attempt.key, NewOrder(status))
        /\ attempt' = [attempt EXCEPT !.order = NewOrder(status)]
    /\ pc' = "record"
    /\ UNCHANGED <<ledgerVars, recon, seenOrders, loopVars, circuitOpen, observerVars>>

\* The order reaches the broker and the answer does not reach the process:
\* BROKER_SUBMISSION_UNCERTAIN.
SubmitUncertain ==
    /\ pc = "submit"
    /\ \E status \in FirstStatuses :
        Place(attempt.key, NewOrder(status))
    /\ escaped' = escaped \cup {attempt.key}
    /\ attempt' = NoAttempt
    /\ pc' = "loop"
    /\ UNCHANGED <<ledgerVars, recon, seenOrders, loopVars, circuitOpen, now, crashes>>

\* The broker knows the client_order_id and returns the order it kept.
SubmitRetained ==
    /\ pc = "submit"
    /\ attempt.key \in DOMAIN orders
    /\ attempt' = [attempt EXCEPT !.order = orders[attempt.key]]
    /\ pc' = "record"
    /\ UNCHANGED <<brokerVars, ledgerVars, recon, seenOrders, loopVars, circuitOpen,
                   observerVars>>

\* The submission fails before the broker takes it, with an exception that
\* the loop catches.
SubmitFails ==
    /\ pc = "submit"
    /\ attempt' = NoAttempt
    /\ pc' = "loop"
    /\ UNCHANGED <<brokerVars, ledgerVars, recon, seenOrders, loopVars, circuitOpen,
                   observerVars>>

\* The broker's SDK raises an error of a type process_bars does not catch,
\* before the broker takes the order or after (an SDK retry that meets its own
\* first attempt).
SubmitAborts ==
    /\ pc = "submit"
    /\ \/ UNCHANGED <<brokerVars, escaped>>
       \/ /\ \E status \in FirstStatuses : Place(attempt.key, NewOrder(status))
          /\ escaped' = escaped \cup {attempt.key}
    /\ AbortCall

\* record_order_bundle: intent, decision, order event and checkpoint in one
\* transaction.  An event the ledger has already is not inserted again.
Record(k, o) ==
    ledger' = [j \in Recorded \cup {k} |->
                  IF j # k THEN ledger[j]
                  ELSE IF k \notin Recorded THEN [events |-> {o}, last |-> o]
                  ELSE IF o \in ledger[k].events THEN ledger[k]
                  ELSE [events |-> ledger[k].events \cup {o}, last |-> o]]

\* _validate_bundle takes no order submitted before the decision was made.
RecordBundle ==
    /\ pc = "record"
    /\ ~circuitOpen
    /\ attempt.order.at >= observedAt
    /\ Record(attempt.key, attempt.order)
    /\ pc' = "snapshot"
    /\ UNCHANGED <<brokerVars, stored, snapshot, entryCount, recon, seenOrders, loopVars,
                   attempt, circuitOpen, observerVars>>

\* append_position_snapshot of what the broker holds by now.
AppendSnapshot ==
    /\ pc = "snapshot"
    /\ ~circuitOpen
    /\ snapshot' = positions
    /\ pc' = "count"
    /\ UNCHANGED <<brokerVars, stored, ledger, entryCount, recon, seenOrders, loopVars,
                   attempt, circuitOpen, observerVars>>

\* upsert_strategy_session_state with the count read before the submission.
CountEntry ==
    /\ pc = "count"
    /\ ~circuitOpen
    /\ entryCount' = [entryCount EXCEPT ![attempt.key.strategy] = attempt.seen + 1]
    /\ escaped' = escaped \ {attempt.key}
    /\ attempt' = NoAttempt
    /\ pc' = "loop"
    /\ UNCHANGED <<brokerVars, stored, ledger, snapshot, recon, seenOrders, loopVars,
                   circuitOpen, now, crashes>>

\* Any of the three durable steps raises: a rejected bundle, a conflict, or
\* a database error, which opens the circuit.  The loop goes on.
EntryStepFails ==
    /\ pc \in {"record", "snapshot", "count"}
    /\ circuitOpen' \in BOOLEAN
    /\ escaped' = escaped \cup {attempt.key}
    /\ attempt' = NoAttempt
    /\ pc' = "loop"
    /\ UNCHANGED <<brokerVars, ledgerVars, recon, seenOrders, loopVars, now, crashes>>

----------------------------------------------------------------------------
(***************************************************************************)
(* process_order_update: the trade-update stream delivers some state of a  *)
(* recorded order; a state equal to the last one recorded is ignored.      *)
(***************************************************************************)
OrderUpdate ==
    /\ pc = "idle"
    /\ ~circuitOpen
    /\ \E u \in published :
        /\ u.key \in Recorded
        /\ u.order # ledger[u.key].last
        /\ Record(u.key, u.order)
    /\ pc' = "resnap"
    /\ UNCHANGED <<brokerVars, stored, snapshot, entryCount, recon, seenOrders, loopVars,
                   attempt, circuitOpen, observerVars>>

UpdateSnapshot ==
    /\ pc = "resnap"
    /\ snapshot' = positions
    /\ pc' = "idle"
    /\ UNCHANGED <<brokerVars, stored, ledger, entryCount, recon, seenOrders, loopVars,
                   attempt, circuitOpen, observerVars>>

\* The snapshot of a redelivered update has the id of an earlier one and
\* another time, or the database fails: process_order_update raises.
UpdateSnapshotFails ==
    /\ pc = "resnap"
    /\ circuitOpen' \in BOOLEAN
    /\ pc' = "idle"
    /\ UNCHANGED <<brokerVars, ledgerVars, recon, seenOrders, loopVars, attempt,
                   observerVars>>

----------------------------------------------------------------------------

\* The process dies, or is stopped, between any two steps.
Crash ==
    /\ pc # "down"
    /\ crashes < MaxCrashes
    /\ crashes' = crashes + 1
    /\ pc' = "down"
    /\ recon' = "none"
    /\ seenOrders' = NoOrders
    /\ pending' = {}
    /\ work' = {}
    /\ observedAt' = 0
    /\ escaped' = IF pc \in {"record", "snapshot", "count"}
                  THEN escaped \cup {attempt.key} ELSE escaped
    /\ attempt' = NoAttempt
    /\ circuitOpen' = FALSE
    /\ UNCHANGED <<brokerVars, ledgerVars, now>>

Tick ==
    /\ now < Horizon
    /\ now' = now + 1
    /\ UNCHANGED <<brokerVars, ledgerVars, processVars, crashes, escaped>>

BrokerActs ==
    /\ BrokerNext
    /\ UNCHANGED <<ledgerVars, processVars, observerVars>>

Init ==
    /\ BrokerInit
    /\ stored = {}
    /\ ledger = NoOrders
    /\ snapshot = [sym \in Symbols |-> 0]
    /\ entryCount = [id \in StrategyIds |-> 0]
    /\ pc = "down"
    /\ recon = "none"
    /\ seenOrders = NoOrders
    /\ pending = {}
    /\ work = {}
    /\ observedAt = 0
    /\ attempt = NoAttempt
    /\ circuitOpen = FALSE
    /\ now = 0
    /\ crashes = 0
    /\ escaped = {}

Entry ==
    \/ Submit
    \/ SubmitUncertain
    \/ SubmitRetained
    \/ SubmitFails
    \/ SubmitAborts
    \/ RecordBundle
    \/ AppendSnapshot
    \/ CountEntry
    \/ EntryStepFails

Next ==
    \/ Boot
    \/ Reconcile
    \/ ProcessBars
    \/ ProcessBarsRefused
    \/ \E item \in work : Skip(item) \/ ReadClock(item)
    \/ ReadOrders
    \/ Approve
    \/ Refuse
    \/ ReadAborts
    \/ FinishLoop
    \/ Entry
    \/ OrderUpdate
    \/ UpdateSnapshot
    \/ UpdateSnapshotFails
    \/ Crash
    \/ Tick
    \/ BrokerActs

Spec == Init /\ [][Next]_vars

----------------------------------------------------------------------------
(***************************************************************************)
(* Properties                                                              *)
(***************************************************************************)

\* Where an attempt stands: its order may be at the broker; its entry is being
\* judged; it has been built.
InFlight == {"record", "snapshot", "count"}
Judging == {"query", "decide"}
Attempting == Judging \cup {"submit"} \cup InFlight

AttemptRecords(os, most, readings) ==
    [key : Keys, order : os, seen : 0..most, clock : readings]

\* Type invariant.
TypeOK ==
    /\ DOMAIN orders \subseteq Keys
    /\ \A k \in DOMAIN orders : orders[k] \in OrderRecords
    /\ positions \in [Symbols -> Int]
    /\ stored \subseteq Bars
    /\ Recorded \subseteq Keys
    /\ snapshot \in [Symbols -> Int]
    /\ entryCount \in [StrategyIds -> 0..MaxEntries]
    /\ pc \in {"down", "starting", "idle", "loop", "resnap"} \cup Attempting
    /\ recon \in {"none", "clean"}
    /\ pending \subseteq Bars
    /\ work \subseteq Items
    /\ observedAt \in Nat
    /\ pc \in Judging => attempt \in AttemptRecords({"none"}, MaxEntries, Int)
    /\ pc = "submit" => attempt \in AttemptRecords({"none"}, MaxEntries - 1, {0})
    /\ pc \in InFlight => attempt \in AttemptRecords(OrderRecords, MaxEntries - 1, {0})
    /\ circuitOpen \in BOOLEAN
    /\ now \in Nat
    /\ crashes \in Nat
    /\ escaped \subseteq Keys

\* No signal (a strategy, a symbol and a bar) ever has two orders at the
\* broker, whatever is lost, retried or restarted: _signal_already_processed
\* and the idempotency key see to it together.
OneOrderPerSignal ==
    \A k, j \in DOMAIN orders : SameSignal(k, j) => k = j

\* The ledger never holds two entries of one signal.
RecordedOncePerSignal ==
    \A k, j \in Recorded : SameSignal(k, j) => k = j

\* The orders of a strategy that went through all four steps of an entry.
CountedEntries(id) ==
    {k \in DOMAIN orders : k.strategy = id} \
        (escaped \cup (IF pc \in InFlight THEN {attempt.key} ELSE {}))

\* entry_count is exactly the number of orders that went through all four
\* steps, and never passes the limit: what it misses are the orders in
\* `escaped', whose entry was cut short.
EntryCountIsExact ==
    \A id \in StrategyIds :
        /\ Cardinality(CountedEntries(id)) = entryCount[id]
        /\ entryCount[id] <= MaxEntries

\* Two working purchases of one symbol never meet at the broker, although
\* strategies share symbols and an uncertain order may still be working: the
\* CONFLICTING_INTENT gate asks the broker and not the ledger.
OneOpenEntryPerSymbol ==
    \A k, j \in DOMAIN orders :
        /\ IsWorking(k) /\ orders[k].side = "buy"
        /\ IsWorking(j) /\ orders[j].side = "buy"
        /\ orders[k].symbol = orders[j].symbol
        => k = j

\* A start that enables entries knows every order working at the broker, also
\* when the broker moves between the two reads, and its last snapshot holds
\* the account's positions.
CleanStartKnowsOpenOrders ==
    [][pc = "starting" /\ pc' = "idle" =>
           /\ \A k \in DOMAIN orders : IsWorking(k) => k \in Recorded
           /\ snapshot = positions]_vars

\* An entry is approved only on a reading of the broker's clock that is before
\* the closeout buffer and finds the bar fresh, although the gates compare the
\* bar and the buffer with observed_at, read when the call began; and the
\* reading was taken for this very attempt, after every order placed before it.
ApprovalIsTimely ==
    [][pc = "decide" /\ pc' = "submit" =>
           /\ attempt.clock < CloseoutAt
           /\ attempt.clock <= attempt.key.signal + MaxFeedAge
           /\ \A k \in DOMAIN orders : orders[k].at <= attempt.clock]_vars

\* What the closeout buffer promises at the broker: no entry is approved once
\* its clock has reached the buffer.  The reading is older than the decision by
\* as long as the calls in between take.
NoApprovalInBuffer ==
    [][pc = "decide" /\ pc' = "submit" => now + ClockSkew < CloseoutAt]_vars

\* A second order of a signal needs another entry of its strategy: one on
\* another signal, recorded under the sequence number of the first order.
SecondOrderNeedsAnEntry ==
    \A k, j \in DOMAIN orders :
        SameSignal(k, j) /\ k # j =>
            \E m \in Recorded :
                /\ m.strategy = k.strategy
                /\ ~SameSignal(m, k)
                /\ m.seq \in {k.seq, j.seq}

\* What the entry limit promises of the account: no strategy has more orders
\* at the broker than the limit.  An order that escaped the count breaks it.
AccountEntryLimit ==
    \A id \in StrategyIds :
        Cardinality({k \in DOMAIN orders : k.strategy = id}) <= MaxEntries

=============================================================================
