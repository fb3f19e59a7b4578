---------------------------- MODULE BacktestEngine ----------------------------
(***************************************************************************)
(* One cost scenario of the event-driven minute backtest                    *)
(* (BacktestEngine.run_scenario).  The program is one thread that walks the *)
(* official minutes of every session and runs, in each minute, the same     *)
(* passes: the completed 15-minute feature rows are shown to the strategy,  *)
(* eligible orders meet the minute's bar, and then either the risk exits    *)
(* are looked for or the closeout begins.  Here a pass is a `stage' and an  *)
(* item of a pass (a symbol's row, an order, a position) is one action.     *)
(*                                                                          *)
(* Three structures describe an open trade and nothing ties them together   *)
(* but the order of the calls: the runtime phase of the symbol, the account *)
(* (position and reservation) and the table of pending orders.              *)
(*                                                                          *)
(* Data kept: prices are small integers, a cost scenario is an amount added *)
(* to a purchase and taken off a sale.  What the rules of the strategy say  *)
(* of a row is an input, and so is the bar of every minute.                 *)
(***************************************************************************)
EXTENDS StrategyRuntime, BacktestPortfolio

CONSTANTS
    Sessions,           \* number of session dates in the minute frame
    Close,              \* the minutes of a session are 0 .. Close - 1
    CloseoutBuffer,     \* closeout_buffer_minutes of the job
    RowMinutes,         \* minutes at which a 15-minute bar is complete
    Bars,               \* minute bars: [open, high, low, close]
    Impact,             \* price impact of the cost scenario, in price units
    InitialCash,        \* initial_cash of the job
    MaxEntries,         \* risk.max_entries_per_session
    Cooldown,           \* risk.cooldown_minutes
    MaxHolding,         \* risk.max_holding_minutes
    StopLoss,           \* risk.stop_loss_bps, in price units
    TakeProfit          \* risk.take_profit_bps, in price units

CloseoutTime == Close - CloseoutBuffer
CloseoutSignal == CloseoutTime - 1

(* BacktestClock: the closeout needs a minute to be signalled in. *)
ClockIsOfficial ==
    /\ Close \in Nat /\ CloseoutBuffer \in 1 .. 60
    /\ CloseoutSignal >= 0

(* MinuteBar: prices are positive and the range holds the open and the close.*)
(* The impact is a few basis points of a price, never all of it.            *)
IsMinuteBar(b) ==
    /\ b \in [open : Nat, high : Nat, low : Nat, close : Nat]
    /\ Impact < b.low
    /\ b.low <= b.open /\ b.open <= b.high
    /\ b.low <= b.close /\ b.close <= b.high

ASSUME ClockAssumption == ClockIsOfficial /\ RowMinutes \subseteq 1 .. Close
ASSUME StrategyAssumption ==
    /\ Sessions \in Nat \ {0}
    /\ MaxEntries \in Nat \ {0}
    /\ Cooldown \in Nat \ {0} /\ MaxHolding \in Nat \ {0}
    /\ StopLoss \in Nat \ {0} /\ TakeProfit \in Nat \ {0}
ASSUME MoneyAssumption ==
    /\ InitialCash \in Nat /\ Impact \in Nat
    /\ Bars # {} /\ \A b \in Bars : IsMinuteBar(b)

VARIABLES
    session,    \* session date being replayed
    minute,     \* clock_time
    stage,      \* the pass of the minute
    todo,       \* what the pass has not visited: symbols, or order ids
    bar,        \* bars_now; between two minutes, the last minute's bars
    runtime,    \* StrategyRuntime: a state for each symbol
    account,    \* the Portfolio
    pending,    \* orders submitted and neither filled, rejected nor cancelled
    issued,     \* intent_keys: ids that may still be asked for
    style,      \* order_type of the strategy: market or limit
    failure,    \* what the engine raised
    lastExit    \* history: when each symbol's last sale filled

vars == <<session, minute, stage, todo, bar, runtime, account, pending, issued,
          style, failure, lastExit>>
clock == <<session, minute, bar, style>>
books == <<runtime, account, pending, issued, lastExit>>

-----------------------------------------------------------------------------
(* Orders. *)

SideOf(reason) == IF reason = "entry_signal" THEN "buy" ELSE "sell"
OrderId(s, reason, signal) ==
    [session |-> session, symbol |-> s, reason |-> reason, signal |-> signal]
Side(o) == SideOf(o.id.reason)
EligibleAtSignal(o) == o.id.signal
Eligible(o) == o.id.signal + 1
Forced(o) == o.id.reason = "session_close"
IsMarketByStyle(o) == style = "market"
IsMarket(o) == Forced(o) \/ style = "market"

(* The reference price with the scenario's impact against the order: the    *)
(* limit of a limit order and the estimate that a reservation is made with. *)
Worse(side, price) == IF side = "buy" THEN price + Impact ELSE price - Impact

PendingOf(s) == {o \in pending : o.id.symbol = s}
PendingIds == {o.id : o \in pending}

(* FillSimulator.try_fill: a market order fills at the open, a limit order  *)
(* at its limit if the bar's range reaches it.                              *)
Crosses(o, b) ==
    \/ IsMarket(o)
    \/ IF Side(o) = "buy" THEN b.low <= o.limit ELSE b.high >= o.limit
FillPrice(o, b) == IF IsMarket(o) THEN Worse(Side(o), b.open) ELSE o.limit

(* _submit_order for a symbol in the runtime state `state': the phase moves *)
(* first, then the order is looked up among the intents of the run and its  *)
(* cash or its shares are reserved.                                         *)
Submit(s, state, reason, signal, reference, quantity) ==
    LET side == SideOf(reason)
        id == OrderId(s, reason, signal)
        price == Worse(side, reference)
        to == IF side = "buy" THEN "ENTRY_PENDING" ELSE "EXIT_PENDING"
        moved == Transition(state, to)
        reserves == id \notin issued /\ MayReserve(account, id, s, side, quantity, price)
    IN /\ failure' = IF MayMove(state, to) THEN failure ELSE "illegal transition"
       /\ runtime' = [runtime EXCEPT ![s] =
                        IF reserves \/ id \in issued THEN moved ELSE OrderRejected(moved)]
       /\ IF reserves
          THEN /\ account' = Reserve(account, id, s, side, quantity, price)
               /\ issued' = issued \cup {id}
               /\ pending' = pending \cup {[id |-> id, quantity |-> quantity, limit |-> price]}
          ELSE UNCHANGED <<account, issued, pending>>
       /\ UNCHANGED lastExit

-----------------------------------------------------------------------------
(* The 15-minute rows. *)

SlotsUsed ==
    MapThenSumSet(LAMBDA s : runtime[s].entries, Symbols)
        + Cardinality({o \in pending : Side(o) = "buy"})

(* The cash a purchase may spend is shared among the free slots; the risk   *)
(* preset may take less than that, down to nothing.                         *)
CashQuantity(reference) ==
    LET occupied == Cardinality(Holding(account)) + Cardinality(Buys(account.reservations))
        freeSlots == IF occupied < MaxPositions THEN MaxPositions - occupied ELSE 1
    IN (AvailableCash(account) \div freeSlots) \div Worse("buy", reference)

Awake(state) == IF CooldownElapsed(state, minute) THEN Transition(state, "FLAT") ELSE state

(* The rules are asked about the row of a symbol.  The reference price is   *)
(* the close of the 15-minute bar, which is the close of its last minute.   *)
RowEnters(s) ==
    LET state == Awake(runtime[s])
    IN /\ state.phase = "FLAT"
       /\ SlotsUsed < MaxEntries
       /\ \E quantity \in 1 .. CashQuantity(bar[s].close) :
            Submit(s, state, "entry_signal", minute, bar[s].close, quantity)

RowExits(s) ==
    /\ runtime[s].phase = "LONG"
    /\ Submit(s, runtime[s], "exit_signal", minute, bar[s].close, account.held[s].quantity)

RowIsQuiet(s) ==
    /\ runtime' = [runtime EXCEPT ![s] = Awake(@)]
    /\ UNCHANGED <<account, pending, issued, lastExit, failure>>

Row(s) ==
    /\ stage = "rows" /\ s \in todo
    /\ todo' = todo \ {s}
    /\ RowEnters(s) \/ RowExits(s) \/ RowIsQuiet(s)
    /\ UNCHANGED <<clock, stage>>

(* The minute's bars become known to the engine: rows before this point saw *)
(* the bars of the minutes before.                                          *)
OpenMinute ==
    /\ stage = "rows" /\ todo = {}
    /\ bar' \in [Symbols -> Bars]
    /\ stage' = "orders"
    /\ todo' = {o.id : o \in {p \in pending : Eligible(p) <= minute}}
    /\ UNCHANGED <<session, minute, style, books, failure>>

-----------------------------------------------------------------------------
(* _process_orders and _apply_fill. *)

Fill(o, price) ==
    LET s == o.id.symbol
        mayFill == MayFillOrder(account, o.id, s, Side(o), o.quantity, price)
        to == IF Side(o) = "buy" THEN "LONG" ELSE "COOLDOWN"
    IN /\ pending' = pending \ {o}
       /\ IF mayFill
          THEN /\ account' = FillOrder(account, o.id, s, Side(o), o.quantity, price)
               /\ runtime' = [runtime EXCEPT ![s] = IF Side(o) = "buy"
                                THEN EntryFilled(@, minute) ELSE ExitFilled(@, minute, Cooldown)]
               /\ lastExit' = IF Side(o) = "buy" THEN lastExit
                              ELSE [lastExit EXCEPT ![s] = minute]
               /\ failure' = IF MayFill(runtime[s], to) THEN failure ELSE "illegal transition"
          ELSE /\ account' = Release(account, o.id)
               /\ runtime' = [runtime EXCEPT ![s] = OrderRejected(@)]
               /\ failure' = CASE ReservationOf(account, o.id) = {} -> "no reservation"
                                [] ~MayMove(runtime[s], RejectionTarget(runtime[s]))
                                     -> "illegal transition"
                                [] OTHER -> failure
               /\ UNCHANGED lastExit
       /\ UNCHANGED issued

OrderUntilFilled(o) ==
    /\ stage = "orders" /\ o.id \in todo
    /\ IF Crosses(o, bar[o.id.symbol])
       THEN Fill(o, FillPrice(o, bar[o.id.symbol])) /\ todo' = todo \ {o.id}
       ELSE UNCHANGED <<books, failure, todo>>
    /\ UNCHANGED <<clock, stage>>
Order(o) ==
    /\ stage = "orders" /\ o.id \in todo
    /\ todo' = todo \ {o.id}
    /\ IF Crosses(o, bar[o.id.symbol])
       THEN Fill(o, FillPrice(o, bar[o.id.symbol]))
       ELSE UNCHANGED <<books, failure>>
    /\ UNCHANGED <<clock, stage>>

(* After the orders the positions are marked at the close, and what follows *)
(* depends on the minute: before the closeout signal the risk exits, at the *)
(* signal the closeout, after it nothing.                                   *)
EndOrdersKeepingSales ==
    /\ stage = "orders" /\ todo = {}
    /\ stage' = CASE minute < CloseoutSignal -> "risk"
                  [] minute = CloseoutSignal -> "cancel"
                  [] OTHER -> "next"
    /\ todo' = CASE minute < CloseoutSignal -> Holding(account)
                 [] minute = CloseoutSignal -> {o.id : o \in {p \in pending : Side(p) = "buy"}}
                 [] OTHER -> {}
    /\ UNCHANGED <<clock, books, failure>>
EndOrders ==
    /\ stage = "orders" /\ todo = {}
    /\ stage' = CASE minute < CloseoutSignal -> "risk"
                  [] minute = CloseoutSignal -> "cancel"
                  [] OTHER -> "next"
    /\ todo' = CASE minute < CloseoutSignal -> Holding(account)
                 [] minute = CloseoutSignal -> PendingIds
                 [] OTHER -> {}
    /\ UNCHANGED <<clock, books, failure>>

-----------------------------------------------------------------------------
(* _submit_risk_exits: the close of a minute is known a minute later.  The  *)
(* first reason that applies is the order's.                                *)

RiskReason(s) ==
    LET change == bar[s].close - account.held[s].cost
    IN CASE change <= -StopLoss -> "stop_loss"
         [] change >= TakeProfit -> "take_profit"
         [] HoldingMinutes(runtime[s], minute + 1) >= MaxHolding -> "max_holding"
         [] OTHER -> "none"

RiskExit(s) ==
    /\ stage = "risk" /\ s \in todo
    /\ todo' = todo \ {s}
    /\ IF runtime[s].phase = "LONG" /\ RiskReason(s) # "none"
       THEN Submit(s, runtime[s], RiskReason(s), minute + 1, bar[s].close,
                   account.held[s].quantity)
       ELSE UNCHANGED <<books, failure>>
    /\ UNCHANGED <<clock, stage>>

-----------------------------------------------------------------------------
(* The closeout: working purchases are cancelled, then working sales, then  *)
(* every position is sold at the next minute's open whatever the style.     *)

CancelOrder(o) ==
    LET s == o.id.symbol
    IN /\ stage \in {"cancel", "leftover"} /\ o.id \in todo
       /\ stage = "cancel" /\ Side(o) = "sell" => \A id \in todo : SideOf(id.reason) = "sell"
       /\ todo' = todo \ {o.id}
       /\ pending' = pending \ {o}
       /\ account' = Release(account, o.id)
       /\ runtime' = [runtime EXCEPT ![s] = OrderRejected(@)]
       /\ failure' = CASE ReservationOf(account, o.id) = {} -> "no reservation"
                        [] ~MayMove(runtime[s], RejectionTarget(runtime[s]))
                             -> "illegal transition"
                        [] OTHER -> failure
       /\ UNCHANGED <<clock, stage, issued, lastExit>>

EndCancels ==
    /\ stage = "cancel" /\ todo = {}
    /\ stage' = "force" /\ todo' = Holding(account)
    /\ UNCHANGED <<clock, books, failure>>

ForceExit(s) ==
    /\ stage = "force" /\ s \in todo
    /\ todo' = todo \ {s}
    /\ Submit(s, runtime[s], "session_close", minute, bar[s].open, account.held[s].quantity)
    /\ UNCHANGED <<clock, stage>>

-----------------------------------------------------------------------------
(* The next minute, the end of the session and the next session. *)

RowsDue(m) == IF m < CloseoutSignal /\ m \in RowMinutes THEN SUBSET Symbols ELSE {{}}

(* An id holds its session and its signal time, so that an id of an earlier *)
(* minute cannot be asked for again: `issued' keeps the others.             *)
NextMinute ==
    /\ stage \in {"risk", "force", "next"} /\ todo = {}
    /\ minute' = minute + 1
    /\ issued' = {id \in issued : id.signal > minute}
    /\ IF minute' < Close
       THEN stage' = "rows" /\ todo' \in RowsDue(minute')
       ELSE stage' = "leftover" /\ todo' = PendingIds
    /\ UNCHANGED <<session, bar, style, runtime, account, pending, lastExit, failure>>

(* Positions or reservations left at the end of a session are errors. *)
FinishSession ==
    /\ stage = "leftover" /\ todo = {}
    /\ stage' = "closed"
    /\ runtime' = [s \in Symbols |-> Transition(runtime[s], "SESSION_CLOSED")]
    /\ failure' = CASE Holding(account) # {} -> "positions remained"
                     [] \E s \in Symbols : ~MayMove(runtime[s], "SESSION_CLOSED")
                          -> "illegal transition"
                     [] account.reservations # {} -> "working orders"
                     [] OTHER -> failure
    /\ UNCHANGED <<clock, todo, account, pending, issued, lastExit>>

(* The next date has new runtime keys; the account and the tables stay. *)
NextSession ==
    /\ stage = "closed" /\ session < Sessions
    /\ session' = session + 1 /\ minute' = 0 /\ stage' = "rows"
    /\ runtime' = [s \in Symbols |-> Unstarted]
    /\ lastExit' = [s \in Symbols |-> NoTime]
    /\ UNCHANGED <<todo, bar, style, account, pending, issued, failure>>

Running == failure = "none"

Step ==
    \/ \E s \in Symbols : Row(s)
    \/ OpenMinute
    \/ \E o \in pending : Order(o)
    \/ EndOrders
    \/ \E s \in Symbols : RiskExit(s)
    \/ \E o \in pending : CancelOrder(o)
    \/ EndCancels
    \/ \E s \in Symbols : ForceExit(s)
    \/ NextMinute
    \/ FinishSession
    \/ NextSession

Next == Running /\ Step

Init ==
    /\ session = 1 /\ minute = 0 /\ stage = "rows" /\ todo = {}
    /\ bar \in [Symbols -> {CHOOSE b \in Bars : TRUE}]
    /\ runtime = [s \in Symbols |-> Unstarted]
    /\ account = Account(InitialCash)
    /\ pending = {} /\ issued = {}
    /\ style \in {"market", "limit"}
    /\ failure = "none"
    /\ lastExit = [s \in Symbols |-> NoTime]

(* The engine is a loop of one thread: it takes its next step. *)
Spec == Init /\ [][Next]_vars /\ WF_vars(Next)
=============================================================================
