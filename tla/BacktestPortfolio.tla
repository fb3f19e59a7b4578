-------------------------- MODULE BacktestPortfolio --------------------------
(***************************************************************************)
(* The account of a backtest: cash, at most one position a symbol, and the  *)
(* reservations of the working orders.  A purchase reserves cash, a sale    *)
(* reserves shares; a fill or a cancellation releases the reservation.  The *)
(* operators are the methods of Portfolio as functions from an account to   *)
(* an account, and `May...' says when the method raises no ValueError.      *)
(* Money is counted in whole units: the code's tolerance of 1e-12 and its   *)
(* rounding of residuals belong to floating point.  Orders fill whole, as   *)
(* FillSimulator fills them, so that no partial remainder is kept.          *)
(***************************************************************************)
EXTENDS Integers, FiniteSets, FiniteSetsExt

CONSTANTS
    Symbols,        \* the symbols of the strategy (the production trio)
    MaxPositions    \* max_positions of the Portfolio (3)

Flat == [quantity |-> 0, cost |-> 0]    \* no position in the symbol

Account(InitialCash) ==
    [cash |-> InitialCash, held |-> [s \in Symbols |-> Flat], reservations |-> {}]

Holding(account) == {s \in Symbols : account.held[s].quantity > 0}

Buys(reservations) == {r \in reservations : r.side = "buy"}

ReservedCash(account) == MapThenSumSet(LAMBDA r : r.cash, Buys(account.reservations))

(* available_cash raises when the reservations exceed the cash. *)
AvailableCash(account) == account.cash - ReservedCash(account)

Reservation(id, symbol, side, quantity, cash) ==
    [id |-> id, symbol |-> symbol, side |-> side, quantity |-> quantity, cash |-> cash]

ReservationOf(account, id) == {r \in account.reservations : r.id = id}

OccupiedSymbols(account) ==
    Holding(account) \cup {r.symbol : r \in Buys(account.reservations)}

ReservedShares(account, symbol) ==
    MapThenSumSet(LAMBDA r : r.quantity,
                  {r \in account.reservations : r.side = "sell" /\ r.symbol = symbol})

MayReserve(account, id, symbol, side, quantity, price) ==
    /\ ReservationOf(account, id) = {}
    /\ quantity > 0
    /\ IF side = "buy"
       THEN /\ \/ symbol \in OccupiedSymbols(account)
               \/ Cardinality(OccupiedSymbols(account)) < MaxPositions
            /\ quantity * price <= AvailableCash(account)
       ELSE quantity <= account.held[symbol].quantity - ReservedShares(account, symbol)

Reserve(account, id, symbol, side, quantity, price) ==
    [account EXCEPT !.reservations = @ \cup
        {Reservation(id, symbol, side, quantity, IF side = "buy" THEN quantity * price ELSE 0)}]

(* cancel_order: also the first half of a fill that releases everything. *)
Release(account, id) ==
    [account EXCEPT !.reservations = {r \in @ : r.id # id}]

(* A purchase may cost more than it reserved (the price gapped), as long as *)
(* the cash left covers the other reservations; a sale never goes short.    *)
MayFillFromCash(account, id, symbol, side, quantity, price) ==
    /\ \E r \in ReservationOf(account, id) : quantity <= r.quantity
    /\ side = "buy" => quantity * price <= account.cash
MayFillOrder(account, id, symbol, side, quantity, price) ==
    /\ \E r \in ReservationOf(account, id) : quantity <= r.quantity
    /\ IF side = "buy"
       THEN ReservedCash(Release(account, id)) <= account.cash - quantity * price
       ELSE quantity <= account.held[symbol].quantity

AverageCost(position, quantity, price) ==
    (position.quantity * position.cost + quantity * price) \div (position.quantity + quantity)

FillOrder(account, id, symbol, side, quantity, price) ==
    LET position == account.held[symbol]
        bought == [quantity |-> position.quantity + quantity,
                   cost |-> AverageCost(position, quantity, price)]
        left == position.quantity - quantity
        kept == IF left = 0 THEN Flat ELSE [position EXCEPT !.quantity = left]
    IN [Release(account, id) EXCEPT
            !.cash = IF side = "buy" THEN @ - quantity * price ELSE @ + quantity * price,
            !.held[symbol] = IF side = "buy" THEN bought ELSE kept]
=============================================================================
