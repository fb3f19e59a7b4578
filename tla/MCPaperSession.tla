--------------------------- MODULE MCPaperSession ---------------------------
(***************************************************************************)
(* Instances of PaperSession for TLC.                                      *)
(***************************************************************************)
EXTENDS PaperSession

CONSTANTS SPY, QQQ, s1

\* One strategy of one symbol.
SoloListing == {[id |-> s1, symbol |-> SPY]}

\* One strategy trades two symbols.
PairListing == {[id |-> s1, symbol |-> SPY], [id |-> s1, symbol |-> QQQ]}

AllObserving == [id \in StrategyIds |-> "paper_observing"]

TwoBars   == {[symbol |-> SPY, signal |-> 1], [symbol |-> SPY, signal |-> 4]}
PairBars  == {[symbol |-> SPY, signal |-> 1], [symbol |-> QQQ, signal |-> 1]}

\* The ways an order may begin and end; the others differ in name only.
Begins == {"submitted", "filled", "rejected"}
Ends   == {"cancelled"}

NoSkew == 0
SlowBroker == -1

=============================================================================
