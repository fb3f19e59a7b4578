--------------------------- MODULE BacktestInvariant ---------------------------
(***************************************************************************)
(* What the backtest engine must keep true between any two of its steps.    *)
(* The engine itself states three of these as exceptions ("positions        *)
(* remained after deterministic closeout", "session finalization must be    *)
(* flat", an illegal runtime transition); the rest is what makes a result   *)
(* of the engine mean something.                                            *)
(***************************************************************************)
EXTENDS BacktestEngine

Time == 0 .. Close
OrderIds == [session : 1 .. Sessions, symbol : Symbols, signal : Time,
             reason : {"entry_signal", "exit_signal", "stop_loss", "take_profit",
                       "max_holding", "session_close"}]

(* The variables have their types. *)
TypeOK ==
    /\ session \in 1 .. Sessions /\ minute \in Time
    /\ stage \in {"rows", "orders", "risk", "cancel", "force", "next", "leftover", "closed"}
    /\ todo \subseteq Symbols \/ todo \subseteq OrderIds
    /\ bar \in [Symbols -> Bars]
    /\ runtime \in [Symbols -> RuntimeState(0 .. Close + Cooldown)]
    /\ account.cash \in Nat
    /\ account.held \in [Symbols -> [quantity : Nat, cost : Nat]]
    /\ \A o \in pending : o.id \in OrderIds /\ o.quantity \in Nat \ {0} /\ o.limit \in Nat
    /\ issued \subseteq OrderIds
    /\ style \in {"market", "limit"}

(* Every working order has its reservation and no reservation outlives its  *)
(* order: a lost one would block cash or shares for the rest of the run.    *)
ReservationsMatchOrders ==
    /\ \A o \in pending :
            Reservation(o.id, o.id.symbol, Side(o), o.quantity,
                        IF Side(o) = "buy" THEN o.quantity * o.limit ELSE 0)
                \in account.reservations
    /\ \A r \in account.reservations : r.id \in PendingIds
    /\ \A r, q \in account.reservations : r.id = q.id => r = q

(* The phase of a symbol, its position and its working orders say the same  *)
(* thing: the entry pending has exactly one purchase, the exit pending has  *)
(* exactly one sale and it sells the whole position, no other phase has a   *)
(* working order, shares are held in LONG and EXIT_PENDING alone, and every *)
(* working order has its own reservation                                    *)
(* (runtime.py:121, portfolio.py:182, engine.py:962, engine.py:1037).       *)
BooksAgree ==
    /\ ReservationsMatchOrders
    /\ \A s \in Symbols :
        LET phase == runtime[s].phase
            orders == PendingOf(s)
        IN /\ phase \in {"LONG", "EXIT_PENDING"} <=> s \in Holding(account)
           /\ phase = "ENTRY_PENDING" => \E o \in orders : orders = {o} /\ Side(o) = "buy"
           /\ phase = "EXIT_PENDING" =>
                \E o \in orders : /\ orders = {o} /\ Side(o) = "sell"
                                  /\ o.quantity = account.held[s].quantity
           /\ phase \notin {"ENTRY_PENDING", "EXIT_PENDING"} => orders = {}

(* The engine raises none of its errors: no illegal transition is asked of  *)
(* the runtime, no missing reservation is released, and the deterministic   *)
(* closeout leaves neither position nor working order (engine.py:809,       *)
(* engine.py:822, runtime.py:196).                                          *)
NeverFails == failure = "none"

(* The cash always covers the reservations, also after a purchase whose     *)
(* price gapped above its estimate took more than it had reserved           *)
(* (portfolio.py:152 raises otherwise, portfolio.py:269).                   *)
FundsCovered == account.cash >= 0 /\ AvailableCash(account) >= 0

(* From the closeout minute on nothing is held and nothing works, whatever  *)
(* filled in the minute of the closeout signal (engine.py:740).             *)
FlatByCloseout ==
    \/ minute < CloseoutTime
    \/ minute = CloseoutTime /\ stage \in {"rows", "orders"}
    \/ stage = "closed"
    \/ Holding(account) = {} /\ pending = {} /\ account.reservations = {}

(* A symbol just sold is not bought again before its cooldown is over       *)
(* (engine.py:647, runtime.py:415).                                         *)
CooldownHonoured ==
    \A o \in pending :
        Side(o) = "buy" /\ o.id.session = session /\ lastExit[o.id.symbol] # NoTime
            => o.id.signal >= lastExit[o.id.symbol] + Cooldown

(* No look-ahead: a position changes only by an order that was signalled in *)
(* an earlier minute than the bar it fills with (engine.py:997, fills.py:98)*)
NoLookAhead ==
    [][\A s \in Symbols : account'.held[s] # account.held[s] =>
        \E o \in pending \ pending' : o.id.symbol = s /\ o.id.signal < minute]_vars

(* Every session is replayed to its end: the loop never waits for an order  *)
(* or for a minute that does not come.                                      *)
ReplayEnds == <>(stage = "closed" /\ session = Sessions /\ failure = "none")
=============================================================================
