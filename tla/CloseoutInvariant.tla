------------------------- MODULE CloseoutInvariant -------------------------
(***************************************************************************)
(* The inductive invariant of Closeout: what holds of a call between its   *)
(* look at the account and its verdict.                                    *)
(***************************************************************************)
EXTENDS Closeout

\* The account: what the broker keeps of an order and of the positions.
AccountOK ==
    /\ \A k \in DOMAIN orders : orders[k] \in OrderRecords
    /\ positions \in [Symbols -> Nat]

\* A call that runs has a number and no answer; its verdict, once it has one,
\* is the session's; and what it did not find clean has an incident.
VerdictOK(c) ==
    /\ ~In(c, "idle") => task[c].call # 0 /\ answer[c] = "none"
    /\ answer[c] \in {"closed", "blocked"} => status = answer[c]
    /\ In(c, "mark") /\ ~IsClean(c) => incidents # {}

\* A call that found no purchase pending: none works, unless entries go on.
OrdersOK(c) ==
    task[c].phase \in {"incident", "mark"} /\ task[c].buys = {} /\ ~trading => OpenBuys = {}

\* A call that found the account flat: whatever is held since comes from a
\* purchase that was not over then, and what was over stays over.
ExposureOK(c) ==
    /\ \A k \in task[c].over : ~IsWorking(k)
    /\ task[c].phase \in {"orders", "incident", "mark"} /\ task[c].held = NothingHeld =>
          \A sym \in HeldSymbols : \E k \in Buys \ task[c].over : orders[k].symbol = sym

CloseoutInv ==
    /\ TypeOK
    /\ AccountOK
    /\ \A c \in Callers : VerdictOK(c) /\ OrdersOK(c) /\ ExposureOK(c)
    /\ status = "blocked" => incidents # {}
    /\ ClosedMeansNoWorkingBuy

\* What is on sale is held.  The exit of a symbol is the only sale of it there
\* ever is, because its key names nothing else; so the account only falls below
\* what a call read before that exit is placed, and covers it afterwards.
SalesOK ==
    /\ \A k \in DOMAIN orders : orders[k].side = "sell" => k = ExitKey(orders[k].symbol)
    /\ \A k \in DOMAIN orders : IsWorking(k) /\ orders[k].side = "sell" =>
          orders[k].qty - orders[k].filled <= positions[orders[k].symbol]
    /\ \A c \in Callers, sym \in Symbols :
          ExitKey(sym) \notin DOMAIN orders => task[c].held[sym] <= positions[sym]

=============================================================================
