----------------------- MODULE PaperSessionInvariant -----------------------
(***************************************************************************)
(* The inductive invariants of PaperSession: what must hold of a state, in *)
(* and between the four steps of an entry, for its properties to last.     *)
(* SignalInv is what makes a signal's order unique where every strategy    *)
(* trades one symbol and bars come apart; the others need nothing of the   *)
(* constants.                                                              *)
(***************************************************************************)
EXTENDS PaperSession

\* The process is in a call of process_bars.
Calling == {"loop"} \cup Attempting

\* An attempt that is not yet counted carries the count it will replace, and
\* its signal is new to the ledger until it is recorded.
AttemptInv ==
    pc \in Attempting =>
        /\ attempt.seen = entryCount[attempt.key.strategy]
        /\ attempt.seen < MaxEntries => attempt.key.seq = attempt.seen + 1
        /\ pc \in Judging \cup {"submit", "record"}
               => \A k \in Recorded : ~SameSignal(k, attempt.key)
        /\ pc \in InFlight => attempt.key \in DOMAIN orders
        /\ pc \in {"snapshot", "count"} => attempt.key \in Recorded

\* The ledger is behind the broker, never ahead, and an order it does not
\* have either escaped or is the one about to be recorded.
LedgerInv ==
    /\ Recorded \subseteq DOMAIN orders
    /\ IsFiniteSet(DOMAIN orders)
    /\ \A k \in DOMAIN orders \ Recorded :
           k \in escaped \/ (pc = "record" /\ k = attempt.key)

\* From the read of the open orders to the submission no purchase of the
\* attempt's symbol works.
OpenEntryInv ==
    /\ OneOpenEntryPerSymbol
    /\ pc \in {"decide", "submit"} => ~HasOpenBuy(attempt.key.symbol)

AccountInv ==
    /\ TypeOK
    /\ AttemptInv
    /\ LedgerInv
    /\ EntryCountIsExact
    /\ OpenEntryInv

\* Every number up to the count is the sequence number of a recorded entry, no
\* order is ahead of the count by more than the entry it waits for, and a
\* signal has a second order only by an entry on another one.
SequenceInv ==
    /\ RecordedOncePerSignal
    /\ SecondOrderNeedsAnEntry
    /\ \A id \in StrategyIds, n \in 1..MaxEntries :
           n <= entryCount[id] => \E m \in Recorded : m.strategy = id /\ m.seq = n
    /\ \A k \in DOMAIN orders : k.seq <= entryCount[k.strategy] + 1

\* Orders are placed by the broker's clock, and before it is read again.
ClockInv ==
    /\ \A k \in DOMAIN orders : orders[k].at <= now + ClockSkew
    /\ pc \in Judging => \A k \in DOMAIN orders : orders[k].at <= attempt.clock

----------------------------------------------------------------------------

\* Every strategy trades one symbol.
OneSymbolPerStrategy ==
    \A x, y \in Listing : x.id = y.id => x.symbol = y.symbol

\* Two bars of a symbol are further apart than a bar stays fresh: bars close
\* every 15 minutes, stale_after is 2 minutes, and available_at, which is the
\* time of arrival of a late bar, is taken to be less than 13 minutes late.
BarsApart ==
    \A b, c \in Bars :
        b.symbol = c.symbol /\ b.signal < c.signal => b.signal + MaxFeedAge < c.signal

\* The time at which the gates judge a bar, now or in the call under way.
JudgedAt == IF pc \in Calling THEN observedAt ELSE now

Listed(k) ==
    /\ [id |-> k.strategy, symbol |-> k.symbol] \in Listing
    /\ [symbol |-> k.symbol, signal |-> k.signal] \in Bars

Fresh(k) == k.signal <= JudgedAt /\ JudgedAt <= k.signal + MaxFeedAge

\* An order the ledger missed still has the key its signal would get again,
\* for as long as its bar is fresh enough to be tried again.
SignalInv ==
    /\ OneOrderPerSignal
    /\ observedAt <= now
    /\ \A i \in work : [id |-> i.id, symbol |-> i.bar.symbol] \in Listing
    /\ \A k \in DOMAIN orders : Listed(k) /\ k.signal <= JudgedAt
    /\ pc \in Attempting => Listed(attempt.key)
    /\ pc \in InFlight \cup {"submit"} => Fresh(attempt.key)
    /\ \A k \in DOMAIN orders \ Recorded :
           Fresh(k) => k.seq = entryCount[k.strategy] + 1
----------------------------------------------------------------------------

\* What a start compares: nobody holds a negative number of shares, and every
\* order that works now was working when the broker was asked for its orders.
StartupInv ==
    /\ positions \in [Symbols -> Nat]
    /\ snapshot \in [Symbols -> Nat]
    /\ pc = "starting" =>
           \A k \in DOMAIN orders : IsWorking(k) => k \in DOMAIN seenOrders

=============================================================================
