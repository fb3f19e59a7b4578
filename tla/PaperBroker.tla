---------------------------- MODULE PaperBroker ----------------------------
(***************************************************************************)
(* The Alpaca paper account, which lives outside the repository.  It is    *)
(* modelled from how the code uses it: the adapter paper/alpaca_paper.py,  *)
(* the protocol paper/broker.py and the fake broker of the tests.          *)
(*                                                                         *)
(* An order is known by its client_order_id, here the key of the function  *)
(* `orders'.  Every state an order has been in is also in `published': the *)
(* trade-update stream may deliver any of them, late, twice, in any order, *)
(* or never.                                                               *)
(***************************************************************************)
EXTENDS Integers

CONSTANTS
    Symbols,        \* the production symbols
    FirstStatuses,  \* the statuses a new order may be answered with
    EndStatuses     \* how the broker may end a working order unfilled

VARIABLES
    orders,     \* client_order_id -> [symbol, side, qty, filled, status, at]
    positions,  \* symbol -> shares held in the account
    published   \* the order states the account has announced

brokerVars == <<orders, positions, published>>

WorkingStatuses  == {"submitted", "accepted", "partially_filled"}
TerminalStatuses == {"filled", "cancelled", "expired", "rejected"}
OrderStatuses    == WorkingStatuses \cup TerminalStatuses

ASSUME BrokerAssumption ==
    /\ FirstStatuses \subseteq {"submitted", "accepted", "filled", "rejected"}
    /\ EndStatuses \subseteq {"cancelled", "expired", "rejected"}

\* An order as the adapter maps it, prices left out; `at' is submitted_at.
OrderRecords ==
    [symbol : Symbols, side : {"buy", "sell"}, qty : Nat, filled : Nat,
     status : OrderStatuses, at : Int]

\* A later state of an order has a larger rank (the broker's updated_at).
StatusRank(s) ==
    CASE s = "submitted"        -> 0
      [] s = "accepted"         -> 1
      [] s = "partially_filled" -> 2
      [] OTHER                  -> 3

Newer(o, p) ==
    \/ StatusRank(o.status) > StatusRank(p.status)
    \/ o.status = p.status /\ o.filled > p.filled

IsWorking(k) == orders[k].status \in WorkingStatuses

\* What open_orders() returns: the working orders by client_order_id.
OpenOrders == [k \in {j \in DOMAIN orders : IsWorking(j)} |-> orders[k]]

HasOpenBuy(sym) ==
    \E k \in DOMAIN orders :
        IsWorking(k) /\ orders[k].side = "buy" /\ orders[k].symbol = sym

HeldSymbols == {sym \in Symbols : positions[sym] > 0}

\* The effect of n shares of an order on the account's positions.
Settle(sym, side, n) ==
    [positions EXCEPT ![sym] = IF side = "buy" THEN @ + n ELSE @ - n]

----------------------------------------------------------------------------

BrokerInit ==
    /\ orders = [k \in {} |-> {}]
    /\ positions = [sym \in Symbols |-> 0]
    /\ published = {}

\* The account takes a new order and replies with its state at that moment.
Place(k, o) ==
    /\ k \notin DOMAIN orders
    /\ orders' = [j \in DOMAIN orders \cup {k} |-> IF j = k THEN o ELSE orders[j]]
    /\ positions' = Settle(o.symbol, o.side, o.filled)
    /\ published' = published \cup {[key |-> k, order |-> o]}

\* An order changes state on the broker's side.
Advance(k, o) ==
    /\ orders' = [orders EXCEPT ![k] = o]
    /\ positions' = Settle(o.symbol, o.side, o.filled - orders[k].filled)
    /\ published' = published \cup {[key |-> k, order |-> o]}

Accept(k) ==
    /\ orders[k].status = "submitted"
    /\ Advance(k, [orders[k] EXCEPT !.status = "accepted"])

\* One more share fills; a sale can only fill while the shares are held.
Fill(k) ==
    LET o == orders[k]
        n == o.filled + 1
    IN  /\ o.status \in {"accepted", "partially_filled"}
        /\ o.side = "sell" => positions[o.symbol] > 0
        /\ Advance(k, [o EXCEPT
               !.filled = n,
               !.status = IF n = o.qty THEN "filled" ELSE "partially_filled"])

\* The broker ends a working order: cancelled, expired or rejected.
Terminate(k, s) ==
    /\ IsWorking(k)
    /\ Advance(k, [orders[k] EXCEPT !.status = s])

BrokerNext ==
    \E k \in DOMAIN orders :
        \/ Accept(k)
        \/ Fill(k)
        \/ \E s \in EndStatuses : Terminate(k, s)

=============================================================================
