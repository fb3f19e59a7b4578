------------------------ MODULE PaperSessionProofs ------------------------
(***************************************************************************)
(* Proofs about PaperSession for every value of its constants.             *)
(***************************************************************************)
EXTENDS PaperSessionInvariant, FiniteSetTheorems, TLAPS

(***************************************************************************)
(* What the broker's steps do to the orders.                               *)
(***************************************************************************)

\* A new order joins the others and leaves them as they were.
LEMMA PlaceFacts ==
    ASSUME TypeOK, NEW k \in Keys, NEW o \in OrderRecords, Place(k, o)
    PROVE  /\ k \notin DOMAIN orders
           /\ DOMAIN orders' = DOMAIN orders \cup {k}
           /\ orders'[k] = o
           /\ \A j \in DOMAIN orders : orders'[j] = orders[j]
           /\ DOMAIN orders' \subseteq Keys
           /\ \A j \in DOMAIN orders' : orders'[j] \in OrderRecords
           /\ positions' \in [Symbols -> Int]
  <1>1. o.symbol \in Symbols /\ o.filled \in Nat
    BY DEF OrderRecords
  <1>2. positions' \in [Symbols -> Int]
    BY <1>1 DEF Place, Settle, TypeOK
  <1>3. /\ k \notin DOMAIN orders
        /\ DOMAIN orders' = DOMAIN orders \cup {k}
        /\ orders'[k] = o
        /\ \A j \in DOMAIN orders : orders'[j] = orders[j]
    BY DEF Place
  <1>4. DOMAIN orders' \subseteq Keys /\ \A j \in DOMAIN orders' : orders'[j] \in OrderRecords
    BY <1>3 DEF TypeOK
  <1> QED
    BY <1>2, <1>3, <1>4

\* A step of the broker keeps an order's symbol, side and time, and no order that
\* had ended works again.
LEMMA BrokerFacts ==
    ASSUME TypeOK, BrokerNext
    PROVE  /\ DOMAIN orders' = DOMAIN orders
           /\ \A k \in DOMAIN orders :
                 /\ orders'[k] \in OrderRecords
                 /\ orders'[k].symbol = orders[k].symbol
                 /\ orders'[k].side = orders[k].side
                 /\ orders'[k].at = orders[k].at
                 /\ orders'[k].status \in WorkingStatuses
                        => orders[k].status \in WorkingStatuses
           /\ positions' \in [Symbols -> Int]
  <1>1. PICK k \in DOMAIN orders :
            Accept(k) \/ Fill(k) \/ \E s \in EndStatuses : Terminate(k, s)
    BY DEF BrokerNext
  <1> DEFINE o == orders[k]
  <1>2. o \in OrderRecords
    BY <1>1 DEF TypeOK
  <1>3. PICK p \in OrderRecords :
            /\ Advance(k, p)
            /\ p.symbol = o.symbol
            /\ p.side = o.side
            /\ p.at = o.at
            /\ p.status \in WorkingStatuses => o.status \in WorkingStatuses
    <2>1. CASE Accept(k)
      <3> DEFINE p == [o EXCEPT !.status = "accepted"]
      <3>1. p \in OrderRecords /\ p.symbol = o.symbol /\ p.side = o.side /\ p.at = o.at
        BY <1>2 DEF OrderRecords, OrderStatuses, WorkingStatuses
      <3> QED
        BY <2>1, <3>1 DEF Accept, WorkingStatuses
    <2>2. CASE Fill(k)
      <3> DEFINE n == o.filled + 1
                 p == [o EXCEPT !.filled = n,
                         !.status = IF n = o.qty THEN "filled" ELSE "partially_filled"]
      <3>1. p \in OrderRecords /\ p.symbol = o.symbol /\ p.side = o.side /\ p.at = o.at
        <4>1. n \in Nat
          BY <1>2 DEF OrderRecords
        <4>2. (IF n = o.qty THEN "filled" ELSE "partially_filled") \in OrderStatuses
          BY DEF OrderStatuses, WorkingStatuses, TerminalStatuses
        <4> HIDE DEF n
        <4> QED
          BY <1>2, <4>1, <4>2 DEF OrderRecords
      <3>2. Advance(k, p) /\ o.status \in WorkingStatuses
        BY <2>2 DEF Fill, WorkingStatuses
      <3> QED
        BY <3>1, <3>2
    <2>3. CASE \E s \in EndStatuses : Terminate(k, s)
      <3>1. PICK s \in EndStatuses : Terminate(k, s)
        BY <2>3
      <3> DEFINE p == [o EXCEPT !.status = s]
      <3>2. p \in OrderRecords /\ p.symbol = o.symbol /\ p.side = o.side /\ p.at = o.at
        BY <1>2, BrokerAssumption DEF OrderRecords, OrderStatuses, TerminalStatuses
      <3>3. Advance(k, p) /\ o.status \in WorkingStatuses
        BY <3>1 DEF Terminate, IsWorking
      <3> QED
        BY <3>2, <3>3
    <2> QED
      BY <1>1, <2>1, <2>2, <2>3
  <1>4. orders' = [orders EXCEPT ![k] = p]
    BY <1>3 DEF Advance
  <1>5. positions' \in [Symbols -> Int]
    <2>1. p.symbol \in Symbols /\ p.filled \in Nat /\ orders[k].filled \in Nat
      BY <1>2, <1>3 DEF OrderRecords
    <2> QED
      BY <1>3, <2>1 DEF Advance, Settle, TypeOK
  <1>6. \A j \in DOMAIN orders : orders'[j] = IF j = k THEN p ELSE orders[j]
    BY <1>1, <1>4
  <1> QED
    BY <1>1, <1>3, <1>4, <1>5, <1>6 DEF TypeOK

\* The order an attempt creates is a well-formed purchase of its symbol.
LEMMA NewOrderType ==
    ASSUME TypeOK, pc = "submit", NEW status \in FirstStatuses
    PROVE  /\ NewOrder(status) \in OrderRecords
           /\ NewOrder(status).symbol = attempt.key.symbol
           /\ attempt.key \in Keys
  BY SessionAssumption, BrokerAssumption
  DEF TypeOK, AttemptRecords, NewOrder, OrderRecords, OrderStatuses, WorkingStatuses,
      TerminalStatuses, Keys

\* A pair the loop tries has a key, whose sequence is the next entry's.
LEMMA EntryKeyType ==
    ASSUME TypeOK, NEW item \in Items
    PROVE  /\ EntryKey(item, entryCount[item.id]) \in Keys
           /\ entryCount[item.id] \in 0..MaxEntries
           /\ entryCount[item.id] < MaxEntries
                 => EntryKey(item, entryCount[item.id]).seq = entryCount[item.id] + 1
  <1>1. item.id \in StrategyIds /\ item.bar \in Bars
    BY DEF Items
  <1>2. entryCount[item.id] \in 0..MaxEntries
    BY <1>1 DEF TypeOK
  <1>3. item.bar.symbol \in Symbols
    BY <1>1, SessionAssumption
  <1> QED
    BY <1>1, <1>2, <1>3, SessionAssumption DEF EntryKey, Keys

----------------------------------------------------------------------------
(***************************************************************************)
(* Type correctness.                                                       *)
(***************************************************************************)

LEMMA TypeInit == Init => TypeOK
  <1> SUFFICES ASSUME Init PROVE TypeOK
    OBVIOUS
  <1>1. DOMAIN orders = {} /\ Recorded = {}
    BY DEF Init, BrokerInit, NoOrders, Recorded
  <1>2. /\ positions \in [Symbols -> Int]
        /\ snapshot \in [Symbols -> Int]
        /\ entryCount \in [StrategyIds -> 0..MaxEntries]
    BY SessionAssumption DEF Init, BrokerInit
  <1> QED
    BY <1>1, <1>2 DEF Init, TypeOK, InFlight, Judging, Attempting

\* The four steps of an entry keep the types.
LEMMA TypeEntry == TypeOK /\ Entry => TypeOK'
  <1> SUFFICES ASSUME TypeOK, Entry PROVE TypeOK'
    OBVIOUS
  <1>1. CASE Submit
    <2>1. PICK status \in FirstStatuses :
              /\ Place(attempt.key, NewOrder(status))
              /\ attempt' = [attempt EXCEPT !.order = NewOrder(status)]
      BY <1>1 DEF Submit
    <2>2. pc = "submit"
      BY <1>1 DEF Submit
    <2>3. NewOrder(status) \in OrderRecords /\ attempt.key \in Keys
      BY <2>2, NewOrderType
    <2>4. attempt' \in AttemptRecords(OrderRecords, MaxEntries - 1, {0})
      BY <2>1, <2>2, <2>3 DEF TypeOK, AttemptRecords
    <2>5. /\ DOMAIN orders' \subseteq Keys
          /\ \A k \in DOMAIN orders' : orders'[k] \in OrderRecords
          /\ positions' \in [Symbols -> Int]
      BY <2>1, <2>3, PlaceFacts
    <2> QED
      BY <1>1, <2>4, <2>5
      DEF Submit, TypeOK, ledgerVars, loopVars, observerVars, InFlight, Judging,
          Attempting, Recorded
  <1>2. CASE SubmitUncertain
    <2>1. PICK status \in FirstStatuses : Place(attempt.key, NewOrder(status))
      BY <1>2 DEF SubmitUncertain
    <2>2. NewOrder(status) \in OrderRecords /\ attempt.key \in Keys
      BY <1>2, NewOrderType DEF SubmitUncertain
    <2>3. /\ DOMAIN orders' \subseteq Keys
          /\ \A k \in DOMAIN orders' : orders'[k] \in OrderRecords
          /\ positions' \in [Symbols -> Int]
      BY <2>1, <2>2, PlaceFacts
    <2> QED
      BY <1>2, <2>2, <2>3
      DEF SubmitUncertain, TypeOK, ledgerVars, loopVars, InFlight, Judging,
          Attempting, Recorded
  <1>3. CASE SubmitRetained
    <2>1. attempt' \in AttemptRecords(OrderRecords, MaxEntries - 1, {0})
      BY <1>3 DEF SubmitRetained, TypeOK, AttemptRecords
    <2> QED
      BY <1>3, <2>1
      DEF SubmitRetained, TypeOK, brokerVars, ledgerVars, loopVars, observerVars,
          InFlight, Judging, Attempting, Recorded
  <1>4. CASE SubmitFails
    BY <1>4
    DEF SubmitFails, TypeOK, brokerVars, ledgerVars, loopVars, observerVars, InFlight,
        Judging, Attempting, Recorded
  <1>5. CASE SubmitAborts
    <2>1. /\ DOMAIN orders' \subseteq Keys
          /\ \A k \in DOMAIN orders' : orders'[k] \in OrderRecords
          /\ positions' \in [Symbols -> Int]
          /\ escaped' \subseteq Keys
      <3>1. CASE UNCHANGED <<brokerVars, escaped>>
        BY <3>1 DEF TypeOK, brokerVars
      <3>2. CASE /\ \E status \in FirstStatuses : Place(attempt.key, NewOrder(status))
                 /\ escaped' = escaped \cup {attempt.key}
        <4>1. PICK status \in FirstStatuses : Place(attempt.key, NewOrder(status))
          BY <3>2
        <4>2. NewOrder(status) \in OrderRecords /\ attempt.key \in Keys
          BY <1>5, NewOrderType DEF SubmitAborts
        <4> QED
          BY <3>2, <4>1, <4>2, PlaceFacts DEF TypeOK
      <3> QED
        BY <1>5, <3>1, <3>2 DEF SubmitAborts
    <2>2. pending' \subseteq Bars
      BY <1>5 DEF SubmitAborts, AbortCall, Unfinished, TypeOK, Items
    <2> QED
      BY <1>5, <2>1, <2>2
      DEF SubmitAborts, AbortCall, TypeOK, ledgerVars, InFlight, Judging, Attempting,
          Recorded
  <1>6. CASE RecordBundle
    <2>1. DOMAIN ledger' = DOMAIN ledger \cup {attempt.key}
      BY <1>6 DEF RecordBundle, Record, Recorded
    <2> QED
      BY <1>6, <2>1
      DEF RecordBundle, TypeOK, AttemptRecords, brokerVars, loopVars, observerVars,
          InFlight, Judging, Attempting, Recorded
  <1>7. CASE AppendSnapshot
    BY <1>7
    DEF AppendSnapshot, TypeOK, brokerVars, loopVars, observerVars, InFlight, Judging,
        Attempting, Recorded
  <1>8. CASE CountEntry
    <2>1. attempt.seen + 1 \in 0..MaxEntries
      BY <1>8, SessionAssumption
      DEF CountEntry, TypeOK, AttemptRecords, InFlight, Judging, Attempting
    <2> QED
      BY <1>8, <2>1
      DEF CountEntry, TypeOK, brokerVars, loopVars, InFlight, Judging, Attempting,
          Recorded
  <1>9. CASE EntryStepFails
    BY <1>9
    DEF EntryStepFails, TypeOK, AttemptRecords, brokerVars, ledgerVars, loopVars,
        InFlight, Judging, Attempting, Recorded
  <1> QED
    BY <1>1, <1>2, <1>3, <1>4, <1>5, <1>6, <1>7, <1>8, <1>9 DEF Entry

LEMMA TypeStep == TypeOK /\ [Next]_vars => TypeOK'
  <1> SUFFICES ASSUME TypeOK, [Next]_vars PROVE TypeOK'
    OBVIOUS
  <1> USE DEF InFlight, Judging, Attempting, Recorded
  <1>1. CASE Boot
    BY <1>1 DEF Boot, TypeOK, brokerVars, ledgerVars, observerVars
  <1>2. CASE Reconcile
    BY <1>2 DEF Reconcile, TypeOK, brokerVars, ledgerVars, observerVars
  <1>3. CASE ProcessBars
    BY <1>3
    DEF ProcessBars, TypeOK, brokerVars, observerVars, Arriving, ItemsOf, Items,
        Eligible
  <1>4. CASE ProcessBarsRefused
    BY <1>4
    DEF ProcessBarsRefused, TypeOK, brokerVars, loopVars, observerVars, Arriving
  <1>5. ASSUME NEW item \in work, Skip(item) PROVE TypeOK'
    BY <1>5 DEF Skip, TypeOK, brokerVars, ledgerVars, observerVars
  <1>6. ASSUME NEW item \in work, ReadClock(item) PROVE TypeOK'
    <2>1. item \in Items /\ now + ClockSkew \in Int
      BY <1>6, SessionAssumption DEF TypeOK
    <2>2. attempt' \in AttemptRecords({"none"}, MaxEntries, Int)
      BY <1>6, <2>1, EntryKeyType DEF ReadClock, AttemptRecords
    <2> QED
      BY <1>6, <2>2 DEF ReadClock, TypeOK, brokerVars, ledgerVars, observerVars
  <1>16. CASE ReadOrders
    BY <1>16 DEF ReadOrders, TypeOK, brokerVars, ledgerVars, loopVars, observerVars
  <1>17. CASE Approve
    <2>1. attempt \in AttemptRecords({"none"}, MaxEntries, Int) /\ attempt.seen < MaxEntries
      BY <1>17 DEF Approve, EntryRiskApproved, TypeOK
    <2>2. attempt' \in AttemptRecords({"none"}, MaxEntries - 1, {0})
      BY <1>17, <2>1, SessionAssumption DEF Approve, AttemptRecords
    <2> QED
      BY <1>17, <2>2 DEF Approve, TypeOK, brokerVars, ledgerVars, loopVars, observerVars
  <1>18. CASE Refuse
    BY <1>18 DEF Refuse, TypeOK, brokerVars, ledgerVars, loopVars, observerVars
  <1>19. CASE ReadAborts
    <2>1. pending' \subseteq Bars
      BY <1>19 DEF ReadAborts, AbortCall, Unfinished, TypeOK, Items
    <2> QED
      BY <1>19, <2>1 DEF ReadAborts, AbortCall, TypeOK, brokerVars, ledgerVars
  <1>7. CASE FinishLoop
    BY <1>7 DEF FinishLoop, TypeOK, brokerVars, ledgerVars, observerVars
  <1>8. CASE Entry
    BY <1>8, TypeEntry
  <1>9. CASE OrderUpdate
    <2>1. DOMAIN ledger' = DOMAIN ledger
      BY <1>9 DEF OrderUpdate, Record
    <2> QED
      BY <1>9, <2>1 DEF OrderUpdate, TypeOK, brokerVars, loopVars, observerVars
  <1>10. CASE UpdateSnapshot
    BY <1>10 DEF UpdateSnapshot, TypeOK, brokerVars, loopVars, observerVars
  <1>11. CASE UpdateSnapshotFails
    BY <1>11
    DEF UpdateSnapshotFails, TypeOK, brokerVars, ledgerVars, loopVars, observerVars
  <1>12. CASE Crash
    <2>1. escaped' \subseteq Keys
      BY <1>12 DEF Crash, TypeOK, AttemptRecords
    <2>2. crashes' \in Nat
      BY <1>12 DEF Crash, TypeOK
    <2>3. /\ pc' = "down" /\ recon' = "none" /\ pending' = {} /\ work' = {}
          /\ observedAt' = 0 /\ circuitOpen' = FALSE
          /\ UNCHANGED <<orders, positions, stored, ledger, snapshot, entryCount, now>>
      BY <1>12 DEF Crash, brokerVars, ledgerVars
    <2> QED
      BY <2>1, <2>2, <2>3 DEF TypeOK
  <1>13. CASE Tick
    BY <1>13 DEF Tick, TypeOK, brokerVars, ledgerVars, processVars, loopVars
  <1>14. CASE BrokerActs
    <2>1. /\ DOMAIN orders' \subseteq Keys
          /\ \A k \in DOMAIN orders' : orders'[k] \in OrderRecords
          /\ positions' \in [Symbols -> Int]
      BY <1>14, BrokerFacts DEF BrokerActs, TypeOK
    <2>2. UNCHANGED <<stored, ledger, snapshot, entryCount, pc, recon, pending, work,
                      observedAt, attempt, circuitOpen, now, crashes, escaped>>
      BY <1>14
      DEF BrokerActs, ledgerVars, processVars, loopVars, observerVars
    <2> QED
      BY <2>1, <2>2 DEF TypeOK
  <1>15. CASE UNCHANGED vars
    BY <1>15
    DEF vars, TypeOK, brokerVars, ledgerVars, processVars, loopVars, observerVars
  <1> QED
    BY <1>1, <1>2, <1>3, <1>4, <1>5, <1>6, <1>7, <1>8, <1>9, <1>10, <1>11, <1>12,
       <1>13, <1>14, <1>15, <1>16, <1>17, <1>18, <1>19 DEF Next

\* Every state of a paper session is well formed: keys, counts, positions and
\* the entry under way.
THEOREM TypeCorrect == Spec => []TypeOK
  BY TypeInit, TypeStep, PTL DEF Spec

----------------------------------------------------------------------------
(***************************************************************************)
(* The account invariant: the count, the ledger and the open entries.      *)
(***************************************************************************)

LEMMA AccountInit == Init => AccountInv
  <1> SUFFICES ASSUME Init PROVE AccountInv
    OBVIOUS
  <1>1. TypeOK
    BY TypeInit
  <1>2. DOMAIN orders = {} /\ Recorded = {} /\ pc = "down" /\ escaped = {}
    BY DEF Init, BrokerInit, NoOrders, Recorded
  <1>3. \A id \in StrategyIds : CountedEntries(id) = {}
    BY <1>2 DEF CountedEntries
  <1>4. EntryCountIsExact
    BY <1>3, FS_EmptySet, SessionAssumption DEF EntryCountIsExact, Init
  <1>5. AttemptInv /\ LedgerInv /\ OpenEntryInv
    BY <1>2, FS_EmptySet
    DEF AttemptInv, LedgerInv, OpenEntryInv, OneOpenEntryPerSymbol, InFlight, Judging,
        Attempting
  <1> QED
    BY <1>1, <1>4, <1>5 DEF AccountInv

\* A step outside the four steps of an entry that leaves the account alone,
\* or gives up an attempt before its submission.
LEMMA AccountAside ==
    ASSUME AccountInv, TypeOK',
           UNCHANGED <<orders, entryCount, escaped>>, Recorded' = Recorded,
           pc \notin InFlight, pc' \notin Attempting
    PROVE  AccountInv'
  <1>1. AttemptInv'
    BY DEF AttemptInv, Attempting
  <1>2. LedgerInv'
    BY DEF AccountInv, LedgerInv, InFlight, Judging, Attempting
  <1>3. EntryCountIsExact'
    BY DEF AccountInv, EntryCountIsExact, CountedEntries, Attempting
  <1>4. OpenEntryInv'
    BY
    DEF AccountInv, OpenEntryInv, OneOpenEntryPerSymbol, IsWorking, Attempting,
        Judging
  <1> QED
    BY <1>1, <1>2, <1>3, <1>4 DEF AccountInv

\* A step that leaves the attempt and the account alone.
LEMMA AccountIdle ==
    ASSUME AccountInv, TypeOK',
           UNCHANGED <<orders, entryCount, escaped, ledger, pc, attempt>>
    PROVE  AccountInv'
  <1>1. AttemptInv'
    BY DEF AccountInv, AttemptInv, Recorded
  <1>2. LedgerInv'
    BY DEF AccountInv, LedgerInv, Recorded, Attempting, InFlight
  <1>3. EntryCountIsExact'
    BY DEF AccountInv, EntryCountIsExact, CountedEntries, Attempting
  <1>4. OpenEntryInv'
    BY DEF AccountInv, OpenEntryInv, OneOpenEntryPerSymbol, IsWorking, HasOpenBuy
  <1> QED
    BY <1>1, <1>2, <1>3, <1>4 DEF AccountInv

\* An entry cut short after its submission: its order escapes the count.
LEMMA AccountCutShort ==
    ASSUME AccountInv, TypeOK',
           UNCHANGED <<orders, entryCount, ledger>>,
           pc \in InFlight, pc' \notin Attempting,
           escaped' = escaped \cup {attempt.key}
    PROVE  AccountInv'
  <1>1. AttemptInv'
    BY DEF AttemptInv, Attempting
  <1>2. LedgerInv'
    BY DEF AccountInv, LedgerInv, Recorded, Attempting, InFlight
  <1>3. EntryCountIsExact'
    BY DEF AccountInv, EntryCountIsExact, CountedEntries, Attempting
  <1>4. OpenEntryInv'
    BY
    DEF AccountInv, OpenEntryInv, OneOpenEntryPerSymbol, IsWorking, Attempting,
        Judging
  <1> QED
    BY <1>1, <1>2, <1>3, <1>4 DEF AccountInv

\* A submission keeps purchases of one symbol apart: none worked before.
LEMMA PlaceOpenEntry ==
    ASSUME AccountInv, pc = "submit", NEW status \in FirstStatuses,
           Place(attempt.key, NewOrder(status))
    PROVE  OneOpenEntryPerSymbol'
  <1> DEFINE o == NewOrder(status)
  <1>1. TypeOK /\ OneOpenEntryPerSymbol /\ ~HasOpenBuy(attempt.key.symbol)
    BY DEF AccountInv, OpenEntryInv
  <1>2. o \in OrderRecords /\ o.symbol = attempt.key.symbol /\ attempt.key \in Keys
    BY <1>1, NewOrderType
  <1>3. /\ DOMAIN orders' = DOMAIN orders \cup {attempt.key}
        /\ orders'[attempt.key] = o
        /\ \A j \in DOMAIN orders : orders'[j] = orders[j]
    BY <1>1, <1>2, PlaceFacts
  <1>4. \A j \in DOMAIN orders :
            orders[j].status \in WorkingStatuses /\ orders[j].side = "buy"
                => orders[j].symbol # o.symbol
    BY <1>1, <1>2 DEF HasOpenBuy, IsWorking
  <1> HIDE DEF o
  <1> QED
    BY <1>1, <1>3, <1>4 DEF OneOpenEntryPerSymbol, IsWorking

\* The submission of an attempt whose answer is awaited: the order is not yet
\* counted, and is the only one the ledger may lack without having escaped.
LEMMA AccountPlaced ==
    ASSUME AccountInv, TypeOK', pc = "submit", NEW status \in FirstStatuses,
           Place(attempt.key, NewOrder(status)),
           UNCHANGED <<ledger, entryCount>>,
           \/ /\ pc' = "record"
              /\ attempt' = [attempt EXCEPT !.order = NewOrder(status)]
              /\ escaped' = escaped
           \/ /\ pc' \notin Attempting
              /\ escaped' = escaped \cup {attempt.key}
    PROVE  AccountInv'
  <1>1. TypeOK /\ AttemptInv /\ LedgerInv /\ EntryCountIsExact
    BY DEF AccountInv
  <1>2. attempt \in AttemptRecords({"none"}, MaxEntries - 1, {0})
    BY <1>1 DEF TypeOK
  <1>3. /\ attempt.key \notin DOMAIN orders
        /\ DOMAIN orders' = DOMAIN orders \cup {attempt.key}
    BY <1>1, NewOrderType, PlaceFacts
  <1>4. pc' = "record" => attempt'.key = attempt.key /\ attempt'.seen = attempt.seen
    BY <1>2 DEF InFlight, Judging, Attempting, AttemptRecords
  <1>5. Recorded' = Recorded
    BY DEF Recorded
  <1>6. AttemptInv'
    BY <1>1, <1>3, <1>4, <1>5 DEF AttemptInv, InFlight, Judging, Attempting
  <1>7. LedgerInv'
    BY <1>1, <1>3, <1>4, <1>5, FS_AddElement
    DEF LedgerInv, InFlight, Judging, Attempting
  <1>8. \A id \in StrategyIds : CountedEntries(id)' = CountedEntries(id)
    BY <1>3, <1>4 DEF CountedEntries, InFlight, Judging, Attempting
  <1>9. EntryCountIsExact'
    BY <1>1, <1>8 DEF EntryCountIsExact
  <1>10. OpenEntryInv'
    BY PlaceOpenEntry DEF OpenEntryInv, InFlight, Judging, Attempting
  <1> QED
    BY <1>6, <1>7, <1>9, <1>10 DEF AccountInv

\* An attempt begins with the count as it is, on a signal the ledger has not.
LEMMA AccountReadClock ==
    ASSUME AccountInv, TypeOK', NEW item \in work, ReadClock(item)
    PROVE  AccountInv'
  <1> DEFINE key == EntryKey(item, entryCount[item.id])
  <1>1. /\ TypeOK /\ LedgerInv /\ EntryCountIsExact /\ OneOpenEntryPerSymbol
        /\ pc = "loop" /\ pc' = "query"
        /\ attempt'.key = key /\ attempt'.seen = entryCount[item.id]
        /\ ~SignalAlreadyProcessed(item)
        /\ UNCHANGED <<orders, ledger, entryCount, escaped>>
    BY DEF AccountInv, OpenEntryInv, ReadClock, brokerVars, ledgerVars, observerVars
  <1>2. item \in Items
    BY <1>1 DEF TypeOK
  <1>3. entryCount[item.id] < MaxEntries => key.seq = entryCount[item.id] + 1
    BY <1>1, <1>2, EntryKeyType
  <1>4. key.strategy = item.id
    BY DEF EntryKey
  <1>5. \A k \in Recorded : ~SameSignal(k, key)
    BY <1>1 DEF SignalAlreadyProcessed, SameSignal, EntryKey
  <1> HIDE DEF key
  <1>6. AttemptInv'
    BY <1>1, <1>3, <1>4, <1>5
    DEF AttemptInv, InFlight, Judging, Attempting, SameSignal, Recorded
  <1>7. LedgerInv'
    BY <1>1 DEF LedgerInv, Recorded
  <1>8. EntryCountIsExact'
    BY <1>1 DEF EntryCountIsExact, CountedEntries, InFlight
  <1>9. OpenEntryInv'
    BY <1>1 DEF OpenEntryInv, OneOpenEntryPerSymbol, IsWorking
  <1> QED
    BY <1>6, <1>7, <1>8, <1>9 DEF AccountInv

\* The reads and the approval keep the key and the count; the read of the open
\* orders finds no purchase of the symbol, and only this attempt makes one.
LEMMA AccountJudged ==
    ASSUME AccountInv, TypeOK', ReadOrders \/ Approve
    PROVE  AccountInv'
  <1>1. /\ TypeOK /\ AttemptInv /\ LedgerInv /\ EntryCountIsExact /\ OpenEntryInv
        /\ pc \in Judging /\ pc' \in {"decide", "submit"}
        /\ UNCHANGED <<orders, ledger, entryCount, escaped>>
    BY
    DEF AccountInv, ReadOrders, Approve, brokerVars, ledgerVars, observerVars, Judging
  <1>2. attempt'.key = attempt.key /\ attempt'.seen = attempt.seen
    BY <1>1 DEF ReadOrders, Approve, TypeOK, AttemptRecords
  <1>3. ~HasOpenBuy(attempt.key.symbol)
    BY <1>1 DEF ReadOrders, Approve, ConflictingIntent, OpenEntryInv
  <1>4. AttemptInv'
    BY <1>1, <1>2 DEF AttemptInv, InFlight, Judging, Attempting, Recorded
  <1>5. LedgerInv'
    BY <1>1 DEF LedgerInv, Recorded, Judging
  <1>6. EntryCountIsExact'
    BY <1>1 DEF EntryCountIsExact, CountedEntries, InFlight, Judging
  <1>7. OpenEntryInv'
    BY <1>1, <1>2, <1>3 DEF OpenEntryInv, OneOpenEntryPerSymbol, IsWorking, HasOpenBuy
  <1> QED
    BY <1>4, <1>5, <1>6, <1>7 DEF AccountInv

\* A submission that meets its own earlier order finds one that had escaped.
LEMMA AccountRetained ==
    ASSUME AccountInv, TypeOK', SubmitRetained
    PROVE  AccountInv'
  <1>1. /\ TypeOK /\ AttemptInv /\ LedgerInv /\ EntryCountIsExact
        /\ OneOpenEntryPerSymbol
        /\ pc = "submit" /\ pc' = "record"
        /\ attempt.key \in DOMAIN orders
        /\ UNCHANGED <<orders, ledger, entryCount, escaped>>
    BY
    DEF AccountInv, OpenEntryInv, SubmitRetained, brokerVars, ledgerVars, observerVars
  <1>2. attempt'.key = attempt.key /\ attempt'.seen = attempt.seen
    BY <1>1 DEF SubmitRetained, TypeOK, AttemptRecords
  <1>3. attempt.key \notin Recorded
    BY <1>1 DEF AttemptInv, SameSignal, Attempting
  <1>4. attempt.key \in escaped
    BY <1>1, <1>3 DEF LedgerInv
  <1>5. AttemptInv'
    BY <1>1, <1>2 DEF AttemptInv, InFlight, Judging, Attempting, Recorded
  <1>6. LedgerInv'
    BY <1>1 DEF LedgerInv, Recorded
  <1>7. \A id \in StrategyIds : CountedEntries(id)' = CountedEntries(id)
    BY <1>1, <1>2, <1>4 DEF CountedEntries, InFlight, Judging, Attempting
  <1>8. EntryCountIsExact'
    BY <1>1, <1>7 DEF EntryCountIsExact
  <1>9. OpenEntryInv'
    BY <1>1 DEF OpenEntryInv, OneOpenEntryPerSymbol, IsWorking
  <1> QED
    BY <1>5, <1>6, <1>8, <1>9 DEF AccountInv

\* The bundle gives the ledger the order, the snapshot changes neither.
LEMMA AccountRecorded ==
    ASSUME AccountInv, TypeOK', RecordBundle \/ AppendSnapshot
    PROVE  AccountInv'
  <1>1. /\ TypeOK /\ AttemptInv /\ LedgerInv /\ EntryCountIsExact
        /\ OneOpenEntryPerSymbol
        /\ pc \in {"record", "snapshot"} /\ pc' \in {"snapshot", "count"}
        /\ UNCHANGED <<orders, entryCount, escaped, attempt>>
    BY DEF AccountInv, OpenEntryInv, RecordBundle, AppendSnapshot, brokerVars,
           observerVars
  <1>2. attempt.key \in DOMAIN orders
    BY <1>1 DEF AttemptInv, InFlight, Judging, Attempting
  <1>3. Recorded' = Recorded \cup {attempt.key}
    <2>1. CASE RecordBundle
      BY <2>1 DEF RecordBundle, Record, Recorded
    <2>2. CASE AppendSnapshot
      <3>1. pc = "snapshot" /\ UNCHANGED ledger
        BY <2>2 DEF AppendSnapshot
      <3>2. attempt.key \in Recorded
        BY <1>1, <3>1 DEF AttemptInv, InFlight, Judging, Attempting
      <3> QED
        BY <3>1, <3>2 DEF Recorded
    <2> QED
      BY <2>1, <2>2
  <1>4. AttemptInv'
    BY <1>1, <1>3 DEF AttemptInv, InFlight, Judging, Attempting
  <1>5. LedgerInv'
    BY <1>1, <1>2, <1>3 DEF LedgerInv
  <1>6. \A id \in StrategyIds : CountedEntries(id)' = CountedEntries(id)
    BY <1>1 DEF CountedEntries, InFlight, Judging, Attempting
  <1>7. EntryCountIsExact'
    BY <1>1, <1>6 DEF EntryCountIsExact
  <1>8. OpenEntryInv'
    BY <1>1 DEF OpenEntryInv, OneOpenEntryPerSymbol, IsWorking
  <1> QED
    BY <1>4, <1>5, <1>7, <1>8 DEF AccountInv

\* The count grows by one with the one order that joins the counted ones.
LEMMA AccountCounted ==
    ASSUME AccountInv, TypeOK', CountEntry
    PROVE  AccountInv'
  <1> DEFINE s == attempt.key.strategy
  <1>1. /\ TypeOK /\ AttemptInv /\ LedgerInv /\ EntryCountIsExact
        /\ OneOpenEntryPerSymbol
        /\ pc = "count" /\ pc' = "loop"
        /\ UNCHANGED <<orders, ledger>>
        /\ entryCount' = [entryCount EXCEPT ![s] = attempt.seen + 1]
        /\ escaped' = escaped \ {attempt.key}
    BY DEF AccountInv, OpenEntryInv, CountEntry, brokerVars
  <1>2. attempt \in AttemptRecords(OrderRecords, MaxEntries - 1, {0})
    BY <1>1 DEF TypeOK, InFlight, Judging, Attempting
  <1>3. /\ s \in StrategyIds
        /\ attempt.key \in DOMAIN orders
        /\ attempt.key \in Recorded
        /\ attempt.seen = entryCount[s]
    BY <1>1, <1>2 DEF AttemptInv, InFlight, Judging, Attempting, AttemptRecords, Keys
  <1>4. AttemptInv'
    BY <1>1 DEF AttemptInv, InFlight, Judging, Attempting
  <1>5. LedgerInv'
    BY <1>1, <1>3 DEF LedgerInv, Recorded
  <1>6. EntryCountIsExact'
    <2> SUFFICES ASSUME NEW id \in StrategyIds
                 PROVE  /\ Cardinality(CountedEntries(id)') = entryCount'[id]
                        /\ entryCount'[id] <= MaxEntries
      BY DEF EntryCountIsExact
    <2>1. /\ Cardinality(CountedEntries(id)) = entryCount[id]
          /\ entryCount[id] <= MaxEntries
          /\ entryCount \in [StrategyIds -> 0..MaxEntries]
      BY <1>1 DEF EntryCountIsExact, TypeOK
    <2>2. CASE id = s
      <3>1. attempt.key \notin CountedEntries(id)
        BY <1>1 DEF CountedEntries, InFlight, Judging, Attempting
      <3>2. CountedEntries(id)' = CountedEntries(id) \cup {attempt.key}
        BY <1>1, <1>3, <2>2 DEF CountedEntries, InFlight, Judging, Attempting
      <3>3. IsFiniteSet(CountedEntries(id))
        BY <1>1, FS_Subset DEF LedgerInv, CountedEntries
      <3>4. Cardinality(CountedEntries(id)') = Cardinality(CountedEntries(id)) + 1
        BY <3>1, <3>2, <3>3, FS_AddElement
      <3>5. entryCount'[id] = entryCount[id] + 1 /\ entryCount'[id] <= MaxEntries
        BY <1>1, <1>2, <1>3, <2>1, <2>2, SessionAssumption DEF AttemptRecords
      <3> QED
        BY <2>1, <3>4, <3>5
    <2>3. CASE id # s
      <3>1. CountedEntries(id)' = CountedEntries(id)
        BY <1>1, <2>3 DEF CountedEntries, InFlight, Judging, Attempting
      <3>2. entryCount'[id] = entryCount[id]
        BY <1>1, <2>1, <2>3
      <3> QED
        BY <2>1, <3>1, <3>2
    <2> QED
      BY <2>2, <2>3
  <1>7. OpenEntryInv'
    BY <1>1 DEF OpenEntryInv, OneOpenEntryPerSymbol, IsWorking
  <1> QED
    BY <1>4, <1>5, <1>6, <1>7 DEF AccountInv

\* The broker opens no order, so none becomes a second purchase.
LEMMA AccountBroker ==
    ASSUME AccountInv, TypeOK', BrokerActs
    PROVE  AccountInv'
  <1>1. /\ TypeOK /\ AttemptInv /\ LedgerInv /\ EntryCountIsExact /\ OpenEntryInv
        /\ UNCHANGED <<ledger, entryCount, pc, attempt, escaped>>
    BY DEF AccountInv, BrokerActs, ledgerVars, processVars, observerVars
  <1>2. /\ DOMAIN orders' = DOMAIN orders
        /\ \A k \in DOMAIN orders :
              /\ orders'[k].symbol = orders[k].symbol
              /\ orders'[k].side = orders[k].side
              /\ orders'[k].status \in WorkingStatuses
                    => orders[k].status \in WorkingStatuses
    BY <1>1, BrokerFacts DEF BrokerActs
  <1>3. AttemptInv' /\ LedgerInv'
    BY <1>1, <1>2 DEF AttemptInv, LedgerInv, Recorded
  <1>4. EntryCountIsExact'
    BY <1>1, <1>2 DEF EntryCountIsExact, CountedEntries
  <1>5. OpenEntryInv'
    BY <1>1, <1>2 DEF OpenEntryInv, OneOpenEntryPerSymbol, IsWorking, HasOpenBuy
  <1> QED
    BY <1>3, <1>4, <1>5 DEF AccountInv

LEMMA AccountStep == AccountInv /\ [Next]_vars => AccountInv'
  <1> SUFFICES ASSUME AccountInv, [Next]_vars PROVE AccountInv'
    OBVIOUS
  <1>1. TypeOK /\ TypeOK'
    BY TypeStep DEF AccountInv
  <1>2. CASE Boot \/ Reconcile \/ ProcessBars \/ ProcessBarsRefused \/ FinishLoop
                  \/ UpdateSnapshot \/ UpdateSnapshotFails \/ SubmitFails
                  \/ Refuse \/ ReadAborts
    <2>1. UNCHANGED <<orders, entryCount, escaped>> /\ Recorded' = Recorded
      BY <1>2
      DEF Boot, Reconcile, ProcessBars, ProcessBarsRefused, FinishLoop, UpdateSnapshot,
          UpdateSnapshotFails, SubmitFails, Refuse, ReadAborts, AbortCall, brokerVars,
          ledgerVars, observerVars, Recorded
    <2>2. pc \notin InFlight /\ pc' \notin Attempting
      BY <1>2
      DEF Boot, Reconcile, ProcessBars, ProcessBarsRefused, FinishLoop, UpdateSnapshot,
          UpdateSnapshotFails, SubmitFails, Refuse, ReadAborts, AbortCall, InFlight,
          Judging, Attempting
    <2> QED
      BY <1>1, <2>1, <2>2, AccountAside
  <1>3. ASSUME NEW item \in work, Skip(item) PROVE AccountInv'
    <2>1. UNCHANGED <<orders, entryCount, escaped, ledger, pc, attempt>>
      BY <1>3 DEF Skip, brokerVars, ledgerVars, observerVars
    <2> QED
      BY <1>1, <2>1, AccountIdle
  <1>4. ASSUME NEW item \in work, ReadClock(item) PROVE AccountInv'
    BY <1>1, <1>4, AccountReadClock
  <1>17. CASE ReadOrders \/ Approve
    BY <1>1, <1>17, AccountJudged
  <1>5. CASE Submit
    BY <1>1, <1>5, AccountPlaced DEF Submit, ledgerVars, observerVars
  <1>6. CASE SubmitUncertain
    BY <1>1, <1>6, AccountPlaced
    DEF SubmitUncertain, ledgerVars, InFlight, Judging, Attempting
  <1>7. CASE SubmitRetained
    BY <1>1, <1>7, AccountRetained
  <1>8. CASE SubmitAborts
    <2>1. CASE UNCHANGED <<brokerVars, escaped>>
      <3>1. UNCHANGED <<orders, entryCount, escaped>> /\ Recorded' = Recorded
        BY <1>8, <2>1 DEF SubmitAborts, AbortCall, brokerVars, ledgerVars, Recorded
      <3> QED
        BY <1>1, <1>8, <3>1, AccountAside
        DEF SubmitAborts, AbortCall, InFlight, Judging, Attempting
    <2>2. CASE /\ \E status \in FirstStatuses : Place(attempt.key, NewOrder(status))
               /\ escaped' = escaped \cup {attempt.key}
      BY <1>1, <1>8, <2>2, AccountPlaced
      DEF SubmitAborts, AbortCall, ledgerVars, InFlight, Judging, Attempting
    <2> QED
      BY <1>8, <2>1, <2>2 DEF SubmitAborts
  <1>9. CASE RecordBundle \/ AppendSnapshot
    BY <1>1, <1>9, AccountRecorded
  <1>10. CASE CountEntry
    BY <1>1, <1>10, AccountCounted
  <1>11. CASE EntryStepFails
    BY <1>1, <1>11, AccountCutShort
    DEF EntryStepFails, brokerVars, ledgerVars, InFlight, Judging, Attempting
  <1>12. CASE OrderUpdate
    <2>1. UNCHANGED <<orders, entryCount, escaped>> /\ Recorded' = Recorded
      BY <1>12 DEF OrderUpdate, Record, brokerVars, observerVars, Recorded
    <2> QED
      BY <1>1, <1>12, <2>1, AccountAside DEF OrderUpdate, InFlight, Judging, Attempting
  <1>13. CASE Crash
    <2>1. CASE pc \in InFlight
      BY <1>1, <1>13, <2>1, AccountCutShort
      DEF Crash, brokerVars, ledgerVars, InFlight, Judging, Attempting
    <2>2. CASE pc \notin InFlight
      <3>1. UNCHANGED <<orders, entryCount, escaped>> /\ Recorded' = Recorded
        BY <1>13, <2>2
        DEF Crash, brokerVars, ledgerVars, Recorded, InFlight, Judging, Attempting
      <3> QED
        BY <1>1, <1>13, <2>2, <3>1, AccountAside
        DEF Crash, InFlight, Judging, Attempting
    <2> QED
      BY <2>1, <2>2
  <1>14. CASE Tick
    <2>1. UNCHANGED <<orders, entryCount, escaped, ledger, pc, attempt>>
      BY <1>14 DEF Tick, brokerVars, ledgerVars, processVars
    <2> QED
      BY <1>1, <2>1, AccountIdle
  <1>15. CASE BrokerActs
    BY <1>1, <1>15, AccountBroker
  <1>16. CASE UNCHANGED vars
    <2>1. UNCHANGED <<orders, entryCount, escaped, ledger, pc, attempt>>
      BY <1>16 DEF vars, brokerVars, ledgerVars, processVars, observerVars
    <2> QED
      BY <1>1, <2>1, AccountIdle
  <1> QED
    BY <1>2, <1>3, <1>4, <1>5, <1>6, <1>7, <1>8, <1>9, <1>10, <1>11, <1>12, <1>13,
       <1>14, <1>15, <1>16, <1>17 DEF Next, Entry

THEOREM AccountInvariant == Spec => []AccountInv
  BY AccountInit, AccountStep, PTL DEF Spec

\* However entries fail and the process restarts, entry_count is the number of
\* orders whose entry was completed, and stays within the limit.
THEOREM EntryCountCorrect == Spec => []EntryCountIsExact
  <1>1. AccountInv => EntryCountIsExact
    BY DEF AccountInv
  <1> QED
    BY <1>1, AccountInvariant, PTL

\* No two working purchases of one symbol are ever at the broker together.
THEOREM OneOpenEntry == Spec => []OneOpenEntryPerSymbol
  <1>1. AccountInv => OneOpenEntryPerSymbol
    BY DEF AccountInv, OpenEntryInv
  <1> QED
    BY <1>1, AccountInvariant, PTL

----------------------------------------------------------------------------
(***************************************************************************)
(* The signal invariant: one order per signal.                             *)
(***************************************************************************)

LEMMA SignalInit == Init => SignalInv
  <1> SUFFICES ASSUME Init PROVE SignalInv
    OBVIOUS
  <1>1. DOMAIN orders = {} /\ work = {} /\ pc = "down" /\ observedAt = 0 /\ now = 0
    BY DEF Init, BrokerInit
  <1> QED
    BY <1>1 DEF SignalInv, OneOrderPerSignal, InFlight, Judging, Attempting

\* A step that makes no order and counts none: judging time only advances, so
\* a bar that is fresh after it was fresh before.
LEMMA SignalAside ==
    ASSUME AccountInv, TypeOK', SignalInv,
           DOMAIN orders' = DOMAIN orders, entryCount' = entryCount,
           Recorded \subseteq Recorded',
           observedAt' <= now', JudgedAt <= JudgedAt',
           \A i \in work' : [id |-> i.id, symbol |-> i.bar.symbol] \in Listing,
           pc' \in Attempting => Listed(attempt.key)',
           pc' \in InFlight \cup {"submit"} => Fresh(attempt.key)'
    PROVE  SignalInv'
  <1>1. OneOrderPerSignal'
    BY DEF SignalInv, OneOrderPerSignal
  <1>2. JudgedAt \in Nat /\ JudgedAt' \in Nat
    BY DEF AccountInv, TypeOK, JudgedAt
  <1>3. \A k \in DOMAIN orders : k.signal \in Nat
    BY SessionAssumption DEF AccountInv, TypeOK, Keys
  <1>4. \A k \in DOMAIN orders' : Listed(k)' /\ k.signal <= JudgedAt'
    <2>1. \A k \in DOMAIN orders : Listed(k) /\ k.signal <= JudgedAt
      BY DEF SignalInv
    <2>2. \A k \in DOMAIN orders' : k.signal <= JudgedAt'
      BY <1>2, <1>3, <2>1
    <2> QED
      BY <2>1, <2>2 DEF Listed
  <1>5. ASSUME NEW k \in DOMAIN orders' \ Recorded', Fresh(k)'
        PROVE  k.seq = entryCount'[k.strategy] + 1
    <2>1. k \in DOMAIN orders \ Recorded
      OBVIOUS
    <2>2. Fresh(k)
      BY <1>2, <1>3, <1>5, <2>1, SessionAssumption DEF SignalInv, Fresh
    <2> QED
      BY <2>1, <2>2 DEF SignalInv
  <1> QED
    BY <1>1, <1>4, <1>5 DEF SignalInv

\* A submission: an order its signal already has is not recorded, its bar is
\* fresh, so it carries the very key of the attempt, and no order is made.
LEMMA SignalPlaced ==
    ASSUME AccountInv, TypeOK', SignalInv, pc = "submit", NEW status \in FirstStatuses,
           Place(attempt.key, NewOrder(status)),
           UNCHANGED <<ledger, entryCount, now>>, work' \subseteq work,
           \/ /\ pc' = "record" /\ observedAt' = observedAt
              /\ attempt' = [attempt EXCEPT !.order = NewOrder(status)]
           \/ pc' = "loop" /\ observedAt' = observedAt
           \/ pc' = "idle" /\ observedAt' = 0
    PROVE  SignalInv'
  <1> DEFINE key == attempt.key
  <1>1. TypeOK /\ AttemptInv /\ LedgerInv
    BY DEF AccountInv
  <1>2. attempt \in AttemptRecords({"none"}, MaxEntries - 1, {0})
    BY <1>1 DEF TypeOK
  <1>3. key \notin DOMAIN orders /\ DOMAIN orders' = DOMAIN orders \cup {key}
    BY <1>1, NewOrderType, PlaceFacts
  <1>4. /\ key.seq = entryCount[key.strategy] + 1
        /\ \A k \in Recorded : ~SameSignal(k, key)
        /\ Listed(key) /\ Fresh(key)
    BY <1>1, <1>2, SessionAssumption
    DEF AttemptInv, SignalInv, Attempting, AttemptRecords
  <1>5. /\ JudgedAt \in Nat /\ JudgedAt' \in Nat /\ JudgedAt <= JudgedAt'
        /\ JudgedAt = observedAt /\ observedAt' <= now'
    BY <1>1 DEF TypeOK, JudgedAt, Calling, InFlight, Judging, Attempting, SignalInv
  <1>6. \A k \in DOMAIN orders' : k.signal \in Nat
    BY <1>2, <1>3, SessionAssumption DEF TypeOK, AttemptRecords, Keys
  <1>7. OneOrderPerSignal'
    <2>1. ASSUME NEW k \in DOMAIN orders, SameSignal(k, key) PROVE FALSE
      <3>1. k \notin Recorded
        BY <1>4, <2>1
      <3>2. Fresh(k)
        BY <1>4, <2>1 DEF Fresh, SameSignal
      <3>3. k.seq = key.seq
        BY <1>4, <2>1, <3>1, <3>2 DEF SignalInv, SameSignal
      <3>4. k = key
        BY <1>1, <1>2, <2>1, <3>3 DEF SameSignal, TypeOK, AttemptRecords, Keys
      <3> QED
        BY <1>3, <3>4
    <2> QED
      BY <1>3, <2>1 DEF OneOrderPerSignal, SignalInv, SameSignal
  <1>8. \A k \in DOMAIN orders' : Listed(k)' /\ k.signal <= JudgedAt'
    <2>1. \A k \in DOMAIN orders : Listed(k) /\ k.signal <= JudgedAt
      BY DEF SignalInv
    <2>2. Listed(key) /\ key.signal <= JudgedAt
      BY <1>4 DEF Fresh
    <2>3. \A k \in DOMAIN orders' : Listed(k) /\ k.signal <= JudgedAt
      BY <1>3, <2>1, <2>2
    <2>4. \A k \in DOMAIN orders' : k.signal <= JudgedAt'
      BY <1>5, <1>6, <2>3
    <2> QED
      BY <2>3, <2>4 DEF Listed
  <1>9. pc' \in Attempting => Listed(attempt.key)' /\ Fresh(attempt.key)'
    <2>1. CASE pc' = "record"
      <3>1. attempt'.key = key /\ JudgedAt' = JudgedAt
        BY <1>2, <1>5, <2>1
        DEF AttemptRecords, JudgedAt, Calling, InFlight, Judging, Attempting
      <3> QED
        BY <1>4, <3>1 DEF Listed, Fresh
    <2>2. CASE pc' # "record"
      BY <2>2 DEF InFlight, Judging, Attempting
    <2> QED
      BY <2>1, <2>2
  <1>10. ASSUME NEW k \in DOMAIN orders' \ Recorded', Fresh(k)'
         PROVE  k.seq = entryCount'[k.strategy] + 1
    <2>1. CASE k = key
      BY <1>4, <2>1
    <2>2. CASE k # key
      <3>1. k \in DOMAIN orders \ Recorded
        BY <1>3, <2>2 DEF Recorded
      <3>2. k.signal <= JudgedAt
        BY <3>1 DEF SignalInv
      <3>3. Fresh(k)
        BY <1>5, <1>6, <1>10, <3>2, SessionAssumption DEF Fresh
      <3> QED
        BY <3>1, <3>3 DEF SignalInv
    <2> QED
      BY <2>1, <2>2
  <1> QED
    BY <1>5, <1>7, <1>8, <1>9, <1>10 DEF SignalInv, Attempting

\* Two bars of a symbol are never fresh at once.
LEMMA FreshBarsEqual ==
    ASSUME BarsApart, NEW k \in Keys, NEW j \in Keys, NEW t \in Nat,
           [symbol |-> k.symbol, signal |-> k.signal] \in Bars,
           [symbol |-> j.symbol, signal |-> j.signal] \in Bars,
           k.symbol = j.symbol,
           k.signal <= t, t <= k.signal + MaxFeedAge,
           j.signal <= t, t <= j.signal + MaxFeedAge
    PROVE  k.signal = j.signal
  <1>1. k.signal \in Nat /\ j.signal \in Nat /\ MaxFeedAge \in Nat
    BY SessionAssumption DEF Keys
  <1>2. ~(k.signal + MaxFeedAge < j.signal) /\ ~(j.signal + MaxFeedAge < k.signal)
    BY <1>1
  <1> DEFINE b == [symbol |-> k.symbol, signal |-> k.signal]
             c == [symbol |-> j.symbol, signal |-> j.signal]
  <1>3. b \in Bars /\ c \in Bars /\ b.symbol = c.symbol
        /\ b.signal = k.signal /\ c.signal = j.signal
    OBVIOUS
  <1>4. ~(b.signal < c.signal) /\ ~(c.signal < b.signal)
    BY <1>2, <1>3 DEF BarsApart
  <1> QED
    BY <1>1, <1>3, <1>4

\* Counting an entry changes the key the next signal of its strategy gets;
\* the strategy has no other order whose bar is still fresh.
LEMMA SignalCounted ==
    ASSUME OneSymbolPerStrategy, BarsApart, AccountInv, TypeOK', SignalInv, CountEntry
    PROVE  SignalInv'
  <1> DEFINE key == attempt.key
  <1>1. /\ TypeOK /\ AttemptInv /\ LedgerInv
        /\ pc = "count" /\ pc' = "loop"
        /\ UNCHANGED <<orders, ledger, work, observedAt, now>>
        /\ entryCount' = [entryCount EXCEPT ![key.strategy] = attempt.seen + 1]
    BY DEF AccountInv, CountEntry, brokerVars, loopVars
  <1>2. JudgedAt' = JudgedAt /\ JudgedAt \in Nat
    BY <1>1 DEF JudgedAt, Calling, InFlight, Judging, Attempting, TypeOK
  <1>3. key \in Keys /\ key \in Recorded /\ Listed(key) /\ Fresh(key)
    BY <1>1
    DEF TypeOK, AttemptRecords, AttemptInv, SignalInv, InFlight, Judging, Attempting
  <1>4. ASSUME NEW k \in DOMAIN orders' \ Recorded', Fresh(k)'
        PROVE  k.seq = entryCount'[k.strategy] + 1
    <2>1. k \in DOMAIN orders \ Recorded /\ Fresh(k) /\ k \in Keys /\ Listed(k)
      BY <1>1, <1>2, <1>4 DEF Recorded, Fresh, TypeOK, SignalInv
    <2>2. k.strategy # key.strategy
      <3> SUFFICES ASSUME k.strategy = key.strategy PROVE FALSE
        OBVIOUS
      <3>1. k.symbol = key.symbol
        BY <1>3, <2>1 DEF OneSymbolPerStrategy, Listed
      <3>2. k.signal = key.signal
        BY <1>2, <1>3, <2>1, <3>1, FreshBarsEqual DEF Listed, Fresh
      <3>3. k = key
        BY <1>1, <1>3, <2>1, <3>1, <3>2
        DEF SignalInv, OneOrderPerSignal, SameSignal, LedgerInv
      <3> QED
        BY <1>3, <2>1, <3>3
    <2>3. k.seq = entryCount[k.strategy] + 1
      BY <2>1 DEF SignalInv
    <2>4. entryCount'[k.strategy] = entryCount[k.strategy]
      BY <1>1, <2>2 DEF TypeOK
    <2> QED
      BY <2>3, <2>4
  <1>5. OneOrderPerSignal' /\ \A k \in DOMAIN orders' : Listed(k)' /\ k.signal <= JudgedAt'
    BY <1>1, <1>2 DEF SignalInv, OneOrderPerSignal, Listed
  <1> QED
    BY <1>1, <1>4, <1>5 DEF SignalInv, InFlight, Judging, Attempting

LEMMA SignalStep ==
    ASSUME OneSymbolPerStrategy, BarsApart, AccountInv, SignalInv, [Next]_vars
    PROVE  SignalInv'
  <1> USE DEF InFlight, Judging, Attempting
  <1>1. TypeOK /\ TypeOK' /\ AttemptInv
    BY TypeStep DEF AccountInv
  <1>2. /\ now \in Nat /\ observedAt \in Nat /\ observedAt <= now
        /\ \A i \in work : [id |-> i.id, symbol |-> i.bar.symbol] \in Listing
    BY <1>1 DEF TypeOK, SignalInv
  <1>3. CASE Boot \/ Reconcile \/ ProcessBarsRefused \/ UpdateSnapshot
                  \/ UpdateSnapshotFails
    <2>1. UNCHANGED <<orders, ledger, entryCount, work, observedAt, now>>
      BY <1>3
      DEF Boot, Reconcile, ProcessBarsRefused, UpdateSnapshot, UpdateSnapshotFails,
          brokerVars, ledgerVars, loopVars, observerVars
    <2>2. JudgedAt = now /\ JudgedAt' = now' /\ pc' \notin Attempting
      BY <1>3
      DEF Boot, Reconcile, ProcessBarsRefused, UpdateSnapshot, UpdateSnapshotFails,
          JudgedAt, Calling
    <2> QED
      BY <1>1, <1>2, <2>1, <2>2, SignalAside DEF Recorded
  <1>4. CASE ProcessBars
    <2>1. UNCHANGED <<orders, ledger, entryCount, now>> /\ observedAt' = now
      BY <1>4 DEF ProcessBars, brokerVars, observerVars
    <2>2. JudgedAt = now /\ JudgedAt' = now /\ pc' \notin Attempting
      BY <1>4, <2>1 DEF ProcessBars, JudgedAt, Calling
    <2>3. \A i \in work' : [id |-> i.id, symbol |-> i.bar.symbol] \in Listing
      BY <1>4 DEF ProcessBars, ItemsOf
    <2> QED
      BY <1>1, <1>2, <2>1, <2>2, <2>3, SignalAside DEF Recorded
  <1>5. ASSUME NEW item \in work, Skip(item) PROVE SignalInv'
    <2>1. UNCHANGED <<orders, ledger, entryCount, observedAt, now>> /\ work' \subseteq work
      BY <1>5 DEF Skip, brokerVars, ledgerVars, observerVars
    <2>2. JudgedAt = observedAt /\ JudgedAt' = observedAt
          /\ pc' \notin Attempting
      BY <1>5, <2>1 DEF Skip, JudgedAt, Calling
    <2> QED
      BY <1>1, <1>2, <2>1, <2>2, SignalAside DEF Recorded
  <1>6. ASSUME NEW item \in work, ReadClock(item) PROVE SignalInv'
    <2> DEFINE key == EntryKey(item, entryCount[item.id])
    <2>1. /\ UNCHANGED <<orders, ledger, entryCount, observedAt, now>>
          /\ work' \subseteq work
          /\ pc = "loop" /\ pc' = "query" /\ attempt'.key = key
      BY <1>6 DEF ReadClock, brokerVars, ledgerVars, observerVars
    <2>2. JudgedAt = observedAt /\ JudgedAt' = observedAt
      BY <2>1 DEF JudgedAt, Calling
    <2>3. item \in Items /\ item.bar \in Bars
      BY <1>1 DEF TypeOK, Items
    <2>4. /\ key.strategy = item.id
          /\ key.symbol = item.bar.symbol
          /\ key.signal = item.bar.signal
      BY DEF EntryKey
    <2> HIDE DEF key
    <2>5. item.bar = [symbol |-> item.bar.symbol, signal |-> item.bar.signal]
      BY <2>3, SessionAssumption
    <2>6. Listed(key)
      BY <1>2, <2>3, <2>4, <2>5 DEF Listed
    <2>7. Listed(attempt.key)'
      BY <2>1, <2>6 DEF Listed
    <2> QED
      BY <1>1, <1>2, <2>1, <2>2, <2>7, SignalAside DEF Recorded
  <1>18. CASE ReadOrders \/ Approve
    <2>1. /\ UNCHANGED <<orders, ledger, entryCount, work, observedAt, now>>
          /\ pc \in Judging /\ pc' \in {"decide", "submit"}
      BY <1>18
      DEF ReadOrders, Approve, brokerVars, ledgerVars, loopVars, observerVars
    <2>2. attempt'.key = attempt.key
      BY <1>1, <1>18 DEF ReadOrders, Approve, TypeOK, AttemptRecords
    <2>3. JudgedAt = observedAt /\ JudgedAt' = observedAt
      BY <2>1 DEF JudgedAt, Calling
    <2>4. Listed(attempt.key)'
      BY <2>1, <2>2 DEF SignalInv, Listed
    <2>5. ASSUME pc' = "submit" PROVE Fresh(attempt.key)'
      <3>1. FeedFresh
        BY <1>18, <2>5 DEF ReadOrders, Approve, EntryRiskApproved
      <3>2. attempt.key.signal \in Nat
        BY <1>1, <2>1, SessionAssumption DEF TypeOK, AttemptRecords, Keys
      <3>3. attempt.key.signal <= observedAt /\ observedAt <= attempt.key.signal + MaxFeedAge
        BY <1>2, <3>1, <3>2, SessionAssumption DEF FeedFresh
      <3> QED
        BY <2>2, <2>3, <3>3 DEF Fresh
    <2> QED
      BY <1>1, <1>2, <2>1, <2>3, <2>4, <2>5, SignalAside DEF Recorded
  <1>19. CASE Refuse \/ ReadAborts
    <2>1. /\ UNCHANGED <<orders, ledger, entryCount, now>>
          /\ work' \subseteq work /\ observedAt' <= now'
          /\ pc \in {"loop", "query", "decide"} /\ pc' \notin Attempting
      BY <1>2, <1>19
      DEF Refuse, ReadAborts, AbortCall, brokerVars, ledgerVars, loopVars, observerVars
    <2>2. JudgedAt <= JudgedAt'
      BY <1>2, <1>19, <2>1
      DEF Refuse, ReadAborts, AbortCall, loopVars, JudgedAt, Calling
    <2> QED
      BY <1>1, <1>2, <2>1, <2>2, SignalAside DEF Recorded
  <1>7. CASE FinishLoop
    <2>1. UNCHANGED <<orders, ledger, entryCount, work, now>> /\ observedAt' = 0
      BY <1>7 DEF FinishLoop, brokerVars, ledgerVars, observerVars
    <2>2. JudgedAt = observedAt /\ JudgedAt' = now /\ pc' \notin Attempting
      BY <1>7, <2>1 DEF FinishLoop, JudgedAt, Calling
    <2> QED
      BY <1>1, <1>2, <2>1, <2>2, SignalAside DEF Recorded
  <1>8. CASE Submit
    BY <1>1, <1>8, SignalPlaced DEF Submit, ledgerVars, loopVars, observerVars
  <1>9. CASE SubmitUncertain
    BY <1>1, <1>9, SignalPlaced DEF SubmitUncertain, ledgerVars, loopVars
  <1>10. CASE SubmitRetained \/ RecordBundle \/ AppendSnapshot
    <2>1. /\ UNCHANGED <<orders, entryCount, work, observedAt, now>>
          /\ pc \in {"submit", "record", "snapshot"}
          /\ pc' \in InFlight
      BY <1>10
      DEF SubmitRetained, RecordBundle, AppendSnapshot, brokerVars, ledgerVars,
          loopVars, observerVars
    <2>2. Recorded \subseteq Recorded'
      BY <1>10
      DEF SubmitRetained, RecordBundle, AppendSnapshot, ledgerVars, Record, Recorded
    <2>3. attempt'.key = attempt.key
      BY <1>1, <1>10
      DEF SubmitRetained, RecordBundle, AppendSnapshot, TypeOK, AttemptRecords
    <2>4. JudgedAt = observedAt /\ JudgedAt' = observedAt
      BY <2>1 DEF JudgedAt, Calling
    <2>5. Listed(attempt.key)' /\ Fresh(attempt.key)'
      BY <2>1, <2>3, <2>4 DEF SignalInv, Listed, Fresh
    <2> QED
      BY <1>1, <1>2, <2>1, <2>2, <2>4, <2>5, SignalAside
  <1>11. CASE SubmitFails \/ EntryStepFails
    <2>1. /\ UNCHANGED <<orders, ledger, entryCount, work, observedAt, now>>
          /\ pc \in InFlight \cup {"submit"} /\ pc' = "loop"
      BY <1>11
      DEF SubmitFails, EntryStepFails, brokerVars, ledgerVars, loopVars, observerVars
    <2>2. JudgedAt = observedAt /\ JudgedAt' = observedAt
      BY <2>1 DEF JudgedAt, Calling
    <2> QED
      BY <1>1, <1>2, <2>1, <2>2, SignalAside DEF Recorded
  <1>12. CASE SubmitAborts
    <2>1. /\ UNCHANGED <<ledger, entryCount, now>>
          /\ work' = {} /\ observedAt' = 0 /\ pc = "submit" /\ pc' = "idle"
      BY <1>12 DEF SubmitAborts, AbortCall, ledgerVars
    <2>2. JudgedAt = observedAt /\ JudgedAt' = now
      BY <2>1 DEF JudgedAt, Calling
    <2>3. CASE UNCHANGED <<brokerVars, escaped>>
      BY <1>1, <1>2, <2>1, <2>2, <2>3, SignalAside DEF brokerVars, Recorded
    <2>4. CASE \E status \in FirstStatuses : Place(attempt.key, NewOrder(status))
      BY <1>1, <2>1, <2>4, SignalPlaced
    <2> QED
      BY <1>12, <2>3, <2>4 DEF SubmitAborts
  <1>13. CASE CountEntry
    BY <1>1, <1>13, SignalCounted
  <1>14. CASE OrderUpdate
    <2>1. UNCHANGED <<orders, entryCount, work, observedAt, now>> /\ Recorded' = Recorded
      BY <1>14 DEF OrderUpdate, Record, Recorded, brokerVars, loopVars, observerVars
    <2>2. JudgedAt = now /\ JudgedAt' = now /\ pc' \notin Attempting
      BY <1>14, <2>1 DEF OrderUpdate, JudgedAt, Calling
    <2> QED
      BY <1>1, <1>2, <2>1, <2>2, SignalAside
  <1>15. CASE Crash
    <2>1. /\ UNCHANGED <<orders, ledger, entryCount, now>>
          /\ work' = {} /\ observedAt' = 0 /\ pc' = "down"
      BY <1>15 DEF Crash, brokerVars, ledgerVars
    <2>2. JudgedAt <= now /\ JudgedAt' = now
      BY <1>2, <2>1 DEF JudgedAt, Calling
    <2> QED
      BY <1>1, <1>2, <2>1, <2>2, SignalAside DEF Recorded
  <1>16. CASE Tick
    <2>1. /\ UNCHANGED <<orders, ledger, entryCount, pc, work, observedAt, attempt>>
          /\ now' = now + 1
      BY <1>16 DEF Tick, brokerVars, ledgerVars, processVars, loopVars
    <2>2. JudgedAt <= JudgedAt' /\ observedAt' <= now'
      BY <1>2, <2>1 DEF JudgedAt
    <2>3. /\ pc' \in Attempting => Listed(attempt.key)'
          /\ pc' \in InFlight \cup {"submit"} => Fresh(attempt.key)'
      BY <2>1 DEF SignalInv, Listed, Fresh, JudgedAt, Calling
    <2> QED
      BY <1>1, <1>2, <2>1, <2>2, <2>3, SignalAside DEF Recorded
  <1>17. CASE BrokerActs \/ UNCHANGED vars
    <2>1. UNCHANGED <<ledger, entryCount, pc, work, observedAt, attempt, now>>
      BY <1>17
      DEF BrokerActs, vars, ledgerVars, processVars, loopVars, observerVars
    <2>2. DOMAIN orders' = DOMAIN orders
      <3>1. CASE BrokerActs
        BY <1>1, <3>1, BrokerFacts DEF BrokerActs
      <3>2. CASE UNCHANGED vars
        BY <3>2 DEF vars, brokerVars
      <3> QED
        BY <1>17, <3>1, <3>2
    <2>3. JudgedAt' = JudgedAt /\ JudgedAt \in Nat
      BY <1>2, <2>1 DEF JudgedAt
    <2>4. /\ pc' \in Attempting => Listed(attempt.key)'
          /\ pc' \in InFlight \cup {"submit"} => Fresh(attempt.key)'
      BY <2>1, <2>3 DEF SignalInv, Listed, Fresh
    <2> QED
      BY <1>1, <1>2, <2>1, <2>2, <2>3, <2>4, SignalAside DEF Recorded
  <1> QED
    BY <1>3, <1>4, <1>5, <1>6, <1>7, <1>8, <1>9, <1>10, <1>11, <1>12, <1>13, <1>14,
       <1>15, <1>16, <1>17, <1>18, <1>19 DEF Next, Entry

\* Where every strategy trades one symbol and bars are further apart than they
\* stay fresh, no signal ever has two orders at the broker, whatever is lost,
\* retried or restarted.
THEOREM OneOrder ==
    ASSUME OneSymbolPerStrategy, BarsApart
    PROVE  Spec => []OneOrderPerSignal
  <1>1. SignalInv => OneOrderPerSignal
    BY DEF SignalInv
  <1>2. AccountInv /\ SignalInv /\ [Next]_vars => AccountInv' /\ SignalInv'
    BY AccountStep, SignalStep
  <1> QED
    BY AccountInit, SignalInit, <1>1, <1>2, PTL DEF Spec

----------------------------------------------------------------------------
(***************************************************************************)
(* The sequence invariant: what a second order of a signal needs, with no  *)
(* assumption on the configuration.                                        *)
(***************************************************************************)

LEMMA SequenceInit == Init => SequenceInv
  <1> SUFFICES ASSUME Init PROVE SequenceInv
    OBVIOUS
  <1>1. /\ DOMAIN orders = {} /\ Recorded = {}
        /\ \A id \in StrategyIds : entryCount[id] = 0
    BY DEF Init, BrokerInit, NoOrders, Recorded
  <1>2. \A n \in 1..MaxEntries : ~(n <= 0)
    BY SessionAssumption
  <1> QED
    BY <1>1, <1>2 DEF SequenceInv, RecordedOncePerSignal, SecondOrderNeedsAnEntry

\* A step that places, records and counts nothing.
LEMMA SequenceAside ==
    ASSUME SequenceInv, DOMAIN orders' = DOMAIN orders, Recorded' = Recorded,
           entryCount' = entryCount
    PROVE  SequenceInv'
  BY DEF SequenceInv, RecordedOncePerSignal, SecondOrderNeedsAnEntry

\* A submission: an order its signal already has carries a number the count
\* has passed, so an entry of the strategy was recorded under that number; it
\* is of another signal, for the ledger has none of this one.
LEMMA SequencePlaced ==
    ASSUME AccountInv, SequenceInv, pc = "submit", NEW status \in FirstStatuses,
           Place(attempt.key, NewOrder(status)), UNCHANGED <<ledger, entryCount>>
    PROVE  SequenceInv'
  <1> DEFINE key == attempt.key
             count == entryCount[key.strategy]
  <1>1. TypeOK /\ AttemptInv
    BY DEF AccountInv
  <1>2. key \in Keys /\ DOMAIN orders' = DOMAIN orders \cup {key}
    BY <1>1, NewOrderType, PlaceFacts
  <1>3. attempt.seen < MaxEntries
    BY <1>1, SessionAssumption DEF TypeOK, AttemptRecords
  <1>4. /\ key.seq = count + 1
        /\ \A k \in Recorded : ~SameSignal(k, key)
    BY <1>1, <1>3 DEF AttemptInv, Attempting
  <1>5. key.strategy \in StrategyIds /\ count \in 0..MaxEntries
    BY <1>1, <1>2 DEF Keys, TypeOK
  <1>6. ASSUME NEW k \in DOMAIN orders, SameSignal(k, key), k # key
        PROVE  \E m \in Recorded :
                  /\ m.strategy = key.strategy /\ m.seq = k.seq
                  /\ ~SameSignal(m, key) /\ ~SameSignal(m, k)
    <2>1. k \in Keys /\ k.strategy = key.strategy
      BY <1>1, <1>6 DEF TypeOK, SameSignal
    <2>2. k.seq # key.seq
      BY <1>2, <1>6, <2>1 DEF SameSignal, Keys
    <2>3. k.seq \in 1..MaxEntries /\ k.seq <= count + 1
      BY <2>1 DEF Keys, SequenceInv
    <2> HIDE DEF count, key
    <2>4. k.seq <= count
      BY <1>4, <1>5, <2>2, <2>3, SessionAssumption
    <2>5. PICK m \in Recorded : m.strategy = key.strategy /\ m.seq = k.seq
      BY <1>5, <2>3, <2>4 DEF SequenceInv, count
    <2>6. ~SameSignal(m, key) /\ ~SameSignal(m, k)
      BY <1>4, <1>6 DEF SameSignal
    <2> QED
      BY <2>5, <2>6
  <1>7. Recorded' = Recorded
    BY DEF Recorded
  <1>8. RecordedOncePerSignal'
    BY <1>7 DEF SequenceInv, RecordedOncePerSignal
  <1>9. SecondOrderNeedsAnEntry'
    <2> SUFFICES ASSUME NEW k \in DOMAIN orders', NEW j \in DOMAIN orders',
                        SameSignal(k, j), k # j
                 PROVE  \E m \in Recorded : /\ m.strategy = k.strategy
                                           /\ ~SameSignal(m, k)
                                           /\ m.seq \in {k.seq, j.seq}
      BY <1>7 DEF SecondOrderNeedsAnEntry
    <2> HIDE DEF key, count
    <2>1. CASE k \in DOMAIN orders /\ j \in DOMAIN orders
      BY <2>1 DEF SequenceInv, SecondOrderNeedsAnEntry
    <2>2. CASE j = key
      <3>1. k \in DOMAIN orders /\ k.strategy = key.strategy
        BY <1>2, <2>2 DEF SameSignal
      <3> QED
        BY <1>6, <2>2, <3>1
    <2>3. CASE k = key
      <3>1. j \in DOMAIN orders /\ SameSignal(j, key)
        BY <1>2, <2>3 DEF SameSignal
      <3> QED
        BY <1>6, <2>3, <3>1
    <2> QED
      BY <1>2, <2>1, <2>2, <2>3
  <1>10. \A k \in DOMAIN orders' : k.seq <= entryCount'[k.strategy] + 1
    <2>1. key.seq <= count + 1
      BY <1>4, <1>5
    <2> QED
      BY <1>2, <2>1 DEF SequenceInv
  <1> QED
    BY <1>7, <1>8, <1>9, <1>10 DEF SequenceInv

\* The bundle is the first the ledger has of its signal.
LEMMA SequenceRecorded ==
    ASSUME AccountInv, SequenceInv, RecordBundle
    PROVE  SequenceInv'
  <1>1. /\ pc = "record" /\ AttemptInv
        /\ UNCHANGED <<orders, entryCount>>
        /\ Recorded' = Recorded \cup {attempt.key}
    BY DEF AccountInv, RecordBundle, Record, Recorded, brokerVars
  <1>2. \A k \in Recorded : ~SameSignal(k, attempt.key) /\ ~SameSignal(attempt.key, k)
    BY <1>1 DEF AttemptInv, Attempting, InFlight, SameSignal
  <1>3. RecordedOncePerSignal'
    BY <1>1, <1>2 DEF SequenceInv, RecordedOncePerSignal
  <1>4. SecondOrderNeedsAnEntry'
    BY <1>1 DEF SequenceInv, SecondOrderNeedsAnEntry
  <1> QED
    BY <1>1, <1>3, <1>4 DEF SequenceInv

\* The entry that is counted is recorded under the number the count takes.
LEMMA SequenceCounted ==
    ASSUME AccountInv, SequenceInv, CountEntry
    PROVE  SequenceInv'
  <1> DEFINE s == attempt.key.strategy
  <1>1. /\ pc = "count" /\ TypeOK /\ AttemptInv
        /\ UNCHANGED <<orders, ledger>>
        /\ entryCount' = [entryCount EXCEPT ![s] = attempt.seen + 1]
    BY DEF AccountInv, CountEntry, brokerVars
  <1>2. attempt \in AttemptRecords(OrderRecords, MaxEntries - 1, {0})
    BY <1>1 DEF TypeOK, InFlight
  <1>3. /\ attempt.seen \in Nat /\ attempt.seen < MaxEntries
        /\ s \in StrategyIds
    BY <1>2, SessionAssumption DEF AttemptRecords, Keys
  <1>4. /\ attempt.key \in Recorded
        /\ attempt.key.seq = attempt.seen + 1
        /\ attempt.seen = entryCount[s]
    BY <1>1, <1>3 DEF AttemptInv, Attempting, InFlight
  <1>5. Recorded' = Recorded
    BY <1>1 DEF Recorded
  <1>6. RecordedOncePerSignal' /\ SecondOrderNeedsAnEntry'
    BY <1>1, <1>5 DEF SequenceInv, RecordedOncePerSignal, SecondOrderNeedsAnEntry
  <1>7. \A id \in StrategyIds :
            /\ entryCount[id] \in Nat
            /\ entryCount'[id] = IF id = s THEN entryCount[s] + 1 ELSE entryCount[id]
    BY <1>1, <1>4 DEF TypeOK
  <1>8. ASSUME NEW id \in StrategyIds, NEW n \in 1..MaxEntries, n <= entryCount'[id]
        PROVE  \E m \in Recorded' : m.strategy = id /\ m.seq = n
    <2>1. CASE n <= entryCount[id]
      BY <1>5, <2>1 DEF SequenceInv
    <2>2. CASE ~(n <= entryCount[id])
      <3>1. id = s /\ n = attempt.seen + 1
        BY <1>4, <1>7, <1>8, <2>2
      <3> QED
        BY <1>4, <1>5, <3>1
    <2> QED
      BY <2>1, <2>2
  <1>9. ASSUME NEW k \in DOMAIN orders'
        PROVE  k.seq <= entryCount'[k.strategy] + 1
    <2>1. /\ k.strategy \in StrategyIds /\ k.seq \in Nat
          /\ k.seq <= entryCount[k.strategy] + 1
      BY <1>1, SessionAssumption DEF TypeOK, Keys, SequenceInv
    <2> QED
      BY <1>7, <2>1
  <1> QED
    BY <1>6, <1>8, <1>9 DEF SequenceInv

LEMMA SequenceStep == AccountInv /\ SequenceInv /\ [Next]_vars => SequenceInv'
  <1> SUFFICES ASSUME AccountInv, SequenceInv, [Next]_vars PROVE SequenceInv'
    OBVIOUS
  <1>1. TypeOK
    BY DEF AccountInv
  <1>2. CASE \/ Boot \/ Reconcile \/ ProcessBars \/ ProcessBarsRefused
             \/ \E item \in work : Skip(item) \/ ReadClock(item)
             \/ ReadOrders \/ Approve \/ Refuse \/ ReadAborts \/ FinishLoop
    BY <1>2, SequenceAside
    DEF Boot, Reconcile, ProcessBars, ProcessBarsRefused, Skip, ReadClock, ReadOrders,
        Approve, Refuse, ReadAborts, AbortCall, FinishLoop, brokerVars, ledgerVars,
        Recorded
  <1>3. CASE Submit \/ SubmitUncertain
    BY <1>3, SequencePlaced DEF Submit, SubmitUncertain, ledgerVars
  <1>4. CASE SubmitAborts
    <2>1. CASE UNCHANGED <<brokerVars, escaped>>
      BY <1>4, <2>1, SequenceAside
      DEF SubmitAborts, AbortCall, brokerVars, ledgerVars, Recorded
    <2>2. CASE \E status \in FirstStatuses : Place(attempt.key, NewOrder(status))
      BY <1>4, <2>2, SequencePlaced DEF SubmitAborts, AbortCall, ledgerVars
    <2> QED
      BY <1>4, <2>1, <2>2 DEF SubmitAborts
  <1>5. CASE RecordBundle
    BY <1>5, SequenceRecorded
  <1>6. CASE CountEntry
    BY <1>6, SequenceCounted
  <1>7. CASE SubmitRetained \/ SubmitFails \/ AppendSnapshot \/ EntryStepFails
    BY <1>7, SequenceAside
    DEF SubmitRetained, SubmitFails, AppendSnapshot, EntryStepFails, brokerVars,
        ledgerVars, Recorded
  <1>8. CASE OrderUpdate
    <2>1. Recorded' = Recorded
      BY <1>8 DEF OrderUpdate, Record, Recorded
    <2> QED
      BY <1>8, <2>1, SequenceAside DEF OrderUpdate, brokerVars
  <1>9. CASE UpdateSnapshot \/ UpdateSnapshotFails \/ Crash \/ Tick \/ UNCHANGED vars
    BY <1>9, SequenceAside
    DEF UpdateSnapshot, UpdateSnapshotFails, Crash, Tick, vars, brokerVars, ledgerVars,
        Recorded
  <1>10. CASE BrokerActs
    BY <1>1, <1>10, BrokerFacts, SequenceAside DEF BrokerActs, ledgerVars, Recorded
  <1> QED
    BY <1>2, <1>3, <1>4, <1>5, <1>6, <1>7, <1>8, <1>9, <1>10 DEF Next, Entry

THEOREM SequenceInvariant == Spec => []SequenceInv
  BY SequenceInit, SequenceStep, AccountInvariant, PTL DEF Spec

\* Whatever strategies share of symbols and bars, and however often the process
\* restarts, the ledger never holds two entries of one signal.
THEOREM RecordedOnce == Spec => []RecordedOncePerSignal
  <1>1. SequenceInv => RecordedOncePerSignal
    BY DEF SequenceInv
  <1> QED
    BY <1>1, SequenceInvariant, PTL

\* For any strategies and symbols, and any restarts: a signal has a second
\* order at the broker only where its strategy's entry on another signal was
\* recorded under the sequence number of one of the two.
THEOREM SecondOrder == Spec => []SecondOrderNeedsAnEntry
  <1>1. SequenceInv => SecondOrderNeedsAnEntry
    BY DEF SequenceInv
  <1> QED
    BY <1>1, SequenceInvariant, PTL

----------------------------------------------------------------------------
(***************************************************************************)
(* What an approval and a clean start rest on.                             *)
(***************************************************************************)

LEMMA ClockInit == Init => ClockInv
  BY DEF Init, BrokerInit, ClockInv, Judging

\* A step that places no order, takes no time and reads no clock.
LEMMA ClockAside ==
    ASSUME ClockInv, UNCHANGED <<orders, now>>,
           pc' \notin Judging \/ (pc \in Judging /\ attempt' = attempt)
    PROVE  ClockInv'
  BY DEF ClockInv

\* A new order has the broker's time, and its attempt is judged no longer.
LEMMA ClockPlaced ==
    ASSUME TypeOK, ClockInv, pc = "submit", NEW status \in FirstStatuses,
           Place(attempt.key, NewOrder(status)), UNCHANGED now, pc' \notin Judging
    PROVE  ClockInv'
  <1>1. /\ DOMAIN orders' = DOMAIN orders \cup {attempt.key}
        /\ orders'[attempt.key] = NewOrder(status)
        /\ \A j \in DOMAIN orders : orders'[j] = orders[j]
    BY NewOrderType, PlaceFacts
  <1>2. NewOrder(status).at = now + ClockSkew /\ now + ClockSkew \in Int
    BY SessionAssumption DEF NewOrder, TypeOK
  <1> QED
    BY <1>1, <1>2 DEF ClockInv

LEMMA ClockStep == TypeOK /\ ClockInv /\ [Next]_vars => ClockInv'
  <1> SUFFICES ASSUME TypeOK, ClockInv, [Next]_vars PROVE ClockInv'
    OBVIOUS
  <1>1. CASE \/ Boot \/ Reconcile \/ ProcessBars \/ ProcessBarsRefused
             \/ \E item \in work : Skip(item)
             \/ ReadOrders \/ Approve \/ Refuse \/ ReadAborts \/ FinishLoop
    BY <1>1, ClockAside
    DEF Boot, Reconcile, ProcessBars, ProcessBarsRefused, Skip, ReadOrders, Approve,
        Refuse, ReadAborts, AbortCall, FinishLoop, brokerVars, ledgerVars, observerVars,
        Judging
  <1>2. ASSUME NEW item \in work, ReadClock(item) PROVE ClockInv'
    BY <1>2 DEF ReadClock, ClockInv, brokerVars, observerVars
  <1>3. CASE Submit \/ SubmitUncertain
    BY <1>3, ClockPlaced DEF Submit, SubmitUncertain, observerVars, Judging
  <1>4. CASE SubmitAborts
    <2>1. CASE UNCHANGED <<brokerVars, escaped>>
      BY <1>4, <2>1, ClockAside DEF SubmitAborts, AbortCall, brokerVars, Judging
    <2>2. CASE \E status \in FirstStatuses : Place(attempt.key, NewOrder(status))
      BY <1>4, <2>2, ClockPlaced DEF SubmitAborts, AbortCall, Judging
    <2> QED
      BY <1>4, <2>1, <2>2 DEF SubmitAborts
  <1>5. CASE \/ SubmitRetained \/ SubmitFails \/ RecordBundle \/ AppendSnapshot
             \/ CountEntry \/ EntryStepFails
    BY <1>5, ClockAside
    DEF SubmitRetained, SubmitFails, RecordBundle, AppendSnapshot, CountEntry,
        EntryStepFails, brokerVars, observerVars, Judging
  <1>6. CASE OrderUpdate \/ UpdateSnapshot \/ UpdateSnapshotFails \/ Crash
    BY <1>6, ClockAside
    DEF OrderUpdate, UpdateSnapshot, UpdateSnapshotFails, Crash, brokerVars,
        observerVars, Judging
  <1>7. CASE Tick
    <2>1. /\ UNCHANGED <<orders, pc, attempt>>
          /\ now' + ClockSkew = now + ClockSkew + 1 /\ now + ClockSkew \in Int
      BY <1>7, SessionAssumption DEF Tick, TypeOK, brokerVars, processVars
    <2>2. \A k \in DOMAIN orders : orders[k].at \in Int
      BY DEF TypeOK, OrderRecords
    <2> QED
      BY <2>1, <2>2 DEF ClockInv
  <1>8. CASE BrokerActs
    <2>1. /\ DOMAIN orders' = DOMAIN orders
          /\ \A k \in DOMAIN orders : orders'[k].at = orders[k].at
      BY <1>8, BrokerFacts DEF BrokerActs
    <2>2. UNCHANGED <<now, pc, attempt>>
      BY <1>8 DEF BrokerActs, processVars, observerVars
    <2> QED
      BY <2>1, <2>2 DEF ClockInv
  <1>9. CASE UNCHANGED vars
    BY <1>9, ClockAside DEF vars, brokerVars, processVars, observerVars
  <1> QED
    BY <1>1, <1>2, <1>3, <1>4, <1>5, <1>6, <1>7, <1>8, <1>9 DEF Next, Entry

\* Only the approval leads from the decision to a submission.
LEMMA OnlyApproveSubmits ==
    ASSUME [Next]_vars, pc = "decide", pc' = "submit"
    PROVE  Approve
  BY
  DEF Next, vars, processVars, Boot, Reconcile, ProcessBars, ProcessBarsRefused, Skip,
      ReadClock, ReadOrders, Refuse, ReadAborts, AbortCall, FinishLoop, Entry, Submit,
      SubmitUncertain, SubmitRetained, SubmitFails, SubmitAborts, RecordBundle,
      AppendSnapshot, CountEntry, EntryStepFails, InFlight, OrderUpdate,
      UpdateSnapshot, UpdateSnapshotFails, Crash, Tick, BrokerActs

\* However long the call and its queries take, an entry is approved only on a
\* reading of the broker's clock taken after every order placed before it, and
\* which is before the closeout buffer and within the life of the bar.
THEOREM ApprovalTimely == Spec => ApprovalIsTimely
  <1> DEFINE Timely ==
        pc = "decide" /\ pc' = "submit" =>
            /\ attempt.clock < CloseoutAt
            /\ attempt.clock <= attempt.key.signal + MaxFeedAge
            /\ \A k \in DOMAIN orders : orders[k].at <= attempt.clock
  <1>1. TypeOK /\ ClockInv /\ [Next]_vars => Timely
    <2> SUFFICES ASSUME TypeOK, ClockInv, [Next]_vars, pc = "decide", pc' = "submit"
                 PROVE  /\ attempt.clock < CloseoutAt
                        /\ attempt.clock <= attempt.key.signal + MaxFeedAge
                        /\ \A k \in DOMAIN orders : orders[k].at <= attempt.clock
      OBVIOUS
    <2>1. /\ observedAt < CloseoutAt
          /\ observedAt - attempt.key.signal <= MaxFeedAge
          /\ observedAt >= attempt.clock
      BY OnlyApproveSubmits DEF Approve, EntryRiskApproved, FeedFresh, BrokerClockFresh
    <2>2. /\ observedAt \in Nat /\ attempt.clock \in Int /\ attempt.key.signal \in Nat
          /\ CloseoutAt \in Nat /\ MaxFeedAge \in Nat
      BY SessionAssumption DEF TypeOK, Judging, AttemptRecords, Keys
    <2> QED
      BY <2>1, <2>2 DEF ClockInv, Judging
  <1>2. TypeOK /\ ClockInv /\ [Next]_vars => TypeOK' /\ ClockInv'
    BY TypeStep, ClockStep
  <1> QED
    BY <1>1, <1>2, TypeInit, ClockInit, PTL DEF Spec, ApprovalIsTimely

\* A clean comparison finds no order the ledger lacks, and positions that
\* agree with the last snapshot.
LEMMA CleanComparison ==
    ASSUME NEW local, NEW broker, NEW P \in [Symbols -> Nat], NEW Q \in [Symbols -> Nat],
           ReconciliationStatus(local, P, broker, Q) = "clean"
    PROVE  DOMAIN broker \subseteq DOMAIN local /\ P = Q
  <1>1. /\ BlockingCodes(local, P, broker, Q) = {}
        /\ RecoverableCodes(local, P, broker, Q) = {}
    BY DEF ReconciliationStatus
  <1>2. UnknownOrders(local, broker) = {}
    <2> SUFFICES ASSUME UnknownOrders(local, broker) # {} PROVE FALSE
      OBVIOUS
    <2>1. "UNKNOWN_BROKER_ORDER" \in BlockingCodes(local, P, broker, Q)
      BY DEF BlockingCodes
    <2> QED
      BY <1>1, <2>1
  <1>3. Explained(local, P, broker, Q) = {}
    <2> SUFFICES ASSUME NEW j \in Missing(local, broker), FilledAtBroker(local[j], P, Q)
                 PROVE  FALSE
      BY DEF Explained
    <2>1. "PENDING_ENTRY_FILLED_AT_BROKER" \in RecoverableCodes(local, P, broker, Q)
      BY DEF RecoverableCodes
    <2> QED
      BY <1>1, <2>1
  <1>4. ASSUME NEW sym \in Symbols PROVE P[sym] = Q[sym]
    <2>1. ~(P[sym] = 0 /\ Q[sym] > 0)
      <3> SUFFICES ASSUME P[sym] = 0, Q[sym] > 0 PROVE FALSE
        OBVIOUS
      <3>1. "BROKER_POSITION_MISSING_LOCALLY" \in BlockingCodes(local, P, broker, Q)
        BY <1>3 DEF BlockingCodes
      <3> QED
        BY <1>1, <3>1
    <2>2. ~(P[sym] > 0 /\ Q[sym] = 0)
      <3> SUFFICES ASSUME P[sym] > 0, Q[sym] = 0 PROVE FALSE
        OBVIOUS
      <3>1. "LOCAL_POSITION_MISSING_AT_BROKER" \in BlockingCodes(local, P, broker, Q)
        BY DEF BlockingCodes
      <3> QED
        BY <1>1, <3>1
    <2>3. ~(P[sym] > 0 /\ Q[sym] > 0 /\ P[sym] # Q[sym])
      <3> SUFFICES ASSUME P[sym] > 0, Q[sym] > 0, P[sym] # Q[sym] PROVE FALSE
        OBVIOUS
      <3>1. "POSITION_QUANTITY_MISMATCH" \in BlockingCodes(local, P, broker, Q)
        BY DEF BlockingCodes
      <3> QED
        BY <1>1, <3>1
    <2> QED
      BY <2>1, <2>2, <2>3
  <1> QED
    BY <1>2, <1>4 DEF UnknownOrders

\* Steps of the process leave what a start compares, or replace the snapshot
\* by the account's positions.
LEMMA StartupAside ==
    ASSUME StartupInv, UNCHANGED <<orders, positions>>,
           snapshot' = snapshot \/ snapshot' = positions,
           pc' # "starting" \/ UNCHANGED <<pc, seenOrders>>
    PROVE  StartupInv'
  BY DEF StartupInv, IsWorking

\* A purchase the account takes only adds to its shares.
LEMMA StartupPlaced ==
    ASSUME TypeOK, StartupInv, pc = "submit", NEW status \in FirstStatuses,
           Place(attempt.key, NewOrder(status)), UNCHANGED snapshot, pc' # "starting"
    PROVE  StartupInv'
  <1> DEFINE o == NewOrder(status)
  <1>1. o \in OrderRecords /\ o.side = "buy"
    BY NewOrderType DEF NewOrder
  <1>2. o.symbol \in Symbols /\ o.filled \in Nat
    BY <1>1 DEF OrderRecords
  <1>3. positions' = [positions EXCEPT ![o.symbol] = @ + o.filled]
    BY <1>1 DEF Place, Settle
  <1> HIDE DEF o
  <1>4. positions' \in [Symbols -> Nat]
    BY <1>2, <1>3 DEF StartupInv
  <1> QED
    BY <1>4 DEF StartupInv

\* The broker sells no share it does not hold, and an order that works after
\* its step worked before.
LEMMA StartupBroker ==
    ASSUME TypeOK, StartupInv, BrokerActs
    PROVE  StartupInv'
  <1>1. PICK k \in DOMAIN orders :
            Accept(k) \/ Fill(k) \/ \E s \in EndStatuses : Terminate(k, s)
    BY DEF BrokerActs, BrokerNext
  <1> DEFINE r == orders[k]
             sym == r.symbol
             f == r.filled
  <1>2. r \in OrderRecords
    BY DEF TypeOK
  <1>3. sym \in Symbols /\ f \in Nat /\ r.side \in {"buy", "sell"}
    BY <1>2 DEF OrderRecords
  <1>4. positions[sym] \in Nat
    BY <1>3 DEF StartupInv
  <1>5. PICK n \in Nat : positions' = [positions EXCEPT ![sym] = n]
    <2>1. CASE Accept(k)
      <3> DEFINE n == IF r.side = "buy" THEN positions[sym] + (f - f)
                                        ELSE positions[sym] - (f - f)
      <3>1. positions' = [positions EXCEPT ![sym] = n]
        BY <2>1, <1>2 DEF Accept, Advance, Settle, OrderRecords
      <3>2. n \in Nat
        BY <1>3, <1>4
      <3> QED
        BY <3>1, <3>2
    <2>2. CASE Fill(k)
      <3> DEFINE n == IF r.side = "buy" THEN positions[sym] + ((f + 1) - f)
                                        ELSE positions[sym] - ((f + 1) - f)
      <3>1. positions' = [positions EXCEPT ![sym] = n]
        BY <2>2, <1>2 DEF Fill, Advance, Settle, OrderRecords
      <3>2. r.side = "sell" => positions[sym] > 0
        BY <2>2 DEF Fill
      <3>3. n \in Nat
        BY <3>2, <1>3, <1>4
      <3> QED
        BY <3>1, <3>3
    <2>3. CASE \E s \in EndStatuses : Terminate(k, s)
      <3> DEFINE n == IF r.side = "buy" THEN positions[sym] + (f - f)
                                        ELSE positions[sym] - (f - f)
      <3>1. positions' = [positions EXCEPT ![sym] = n]
        BY <2>3, <1>2 DEF Terminate, Advance, Settle, OrderRecords
      <3>2. n \in Nat
        BY <1>3, <1>4
      <3> QED
        BY <3>1, <3>2
    <2> QED
      BY <1>1, <2>1, <2>2, <2>3
  <1>6. positions' \in [Symbols -> Nat]
    <2> HIDE DEF sym
    <2> QED
      BY <1>5 DEF StartupInv
  <1>7. UNCHANGED <<snapshot, pc, seenOrders>>
    BY DEF BrokerActs, ledgerVars, processVars
  <1>8. /\ DOMAIN orders' = DOMAIN orders
        /\ \A j \in DOMAIN orders : IsWorking(j)' => IsWorking(j)
    BY BrokerFacts DEF BrokerActs, IsWorking
  <1> QED
    BY <1>6, <1>7, <1>8 DEF StartupInv

LEMMA StartupInit == Init => StartupInv
  BY DEF Init, BrokerInit, StartupInv

\* Every step keeps it; only Boot has something to establish.
LEMMA StartupStep == TypeOK /\ StartupInv /\ [Next]_vars => StartupInv'
  <1> SUFFICES ASSUME TypeOK, StartupInv, [Next]_vars PROVE StartupInv'
    OBVIOUS
  <1>1. CASE Boot
    BY <1>1 DEF Boot, StartupInv, brokerVars, ledgerVars, OpenOrders, IsWorking
  <1>2. CASE \/ Reconcile \/ ProcessBars \/ ProcessBarsRefused
             \/ \E item \in work : Skip(item) \/ ReadClock(item)
             \/ ReadOrders \/ Approve \/ Refuse \/ ReadAborts \/ FinishLoop
    BY <1>2, StartupAside
    DEF Reconcile, ProcessBars, ProcessBarsRefused, Skip, ReadClock, ReadOrders,
        Approve, Refuse, ReadAborts, AbortCall, FinishLoop, brokerVars, ledgerVars
  <1>3. CASE Entry
    <2>1. CASE Submit \/ SubmitUncertain
      BY <2>1, StartupPlaced DEF Submit, SubmitUncertain, ledgerVars
    <2>2. CASE SubmitAborts
      <3>1. CASE UNCHANGED <<brokerVars, escaped>>
        BY <2>2, <3>1, StartupAside DEF SubmitAborts, AbortCall, brokerVars, ledgerVars
      <3>2. CASE \E status \in FirstStatuses : Place(attempt.key, NewOrder(status))
        BY <2>2, <3>2, StartupPlaced DEF SubmitAborts, AbortCall, ledgerVars
      <3> QED
        BY <2>2, <3>1, <3>2 DEF SubmitAborts
    <2>3. CASE \/ SubmitRetained \/ SubmitFails \/ RecordBundle \/ AppendSnapshot
               \/ CountEntry \/ EntryStepFails
      BY <2>3, StartupAside
      DEF SubmitRetained, SubmitFails, RecordBundle, AppendSnapshot, CountEntry,
          EntryStepFails, brokerVars, ledgerVars
    <2> QED
      BY <1>3, <2>1, <2>2, <2>3 DEF Entry
  <1>4. CASE OrderUpdate \/ UpdateSnapshot \/ UpdateSnapshotFails
    BY <1>4, StartupAside
    DEF OrderUpdate, UpdateSnapshot, UpdateSnapshotFails, brokerVars, ledgerVars
  <1>5. CASE Crash \/ Tick \/ UNCHANGED vars
    BY <1>5, StartupAside DEF Crash, Tick, vars, brokerVars, ledgerVars, processVars
  <1>6. CASE BrokerActs
    BY <1>6, StartupBroker
  <1> QED
    BY <1>1, <1>2, <1>3, <1>4, <1>5, <1>6 DEF Next

\* While a start compares, no order begins to work that it has not read, and
\* nobody holds a negative number of shares.
THEOREM StartupInvariant == Spec => []StartupInv
  BY StartupInit, StartupStep, TypeCorrect, PTL DEF Spec

\* A start that enables entries knows every order that works at the broker at
\* that moment, although it read the orders earlier, and its last snapshot is
\* the account's positions.
THEOREM CleanStart == Spec => CleanStartKnowsOpenOrders
  <1> DEFINE Knows ==
        pc = "starting" /\ pc' = "idle" =>
            /\ \A k \in DOMAIN orders : IsWorking(k) => k \in Recorded
            /\ snapshot = positions
  <1>1. StartupInv /\ [Next]_vars => Knows
    <2> SUFFICES ASSUME StartupInv, [Next]_vars, pc = "starting", pc' = "idle"
                 PROVE  /\ \A k \in DOMAIN orders : IsWorking(k) => k \in Recorded
                        /\ snapshot = positions
      OBVIOUS
    <2>1. Reconcile
      BY DEF Next, vars, processVars, Boot, ProcessBars, ProcessBarsRefused, Skip,
             ReadClock, ReadOrders, Approve, Refuse, ReadAborts, AbortCall, FinishLoop,
             Entry, Submit, SubmitUncertain, SubmitRetained, SubmitFails, SubmitAborts,
             RecordBundle, AppendSnapshot, CountEntry, EntryStepFails, InFlight,
             OrderUpdate, UpdateSnapshot, UpdateSnapshotFails, Crash, Tick, BrokerActs
    <2>2. ReconciliationStatus(LatestOrders, snapshot, seenOrders, positions) = "clean"
      BY <2>1 DEF Reconcile
    <2>3. DOMAIN seenOrders \subseteq DOMAIN LatestOrders /\ snapshot = positions
      BY <2>2, CleanComparison DEF StartupInv
    <2>4. DOMAIN LatestOrders = Recorded
      BY DEF LatestOrders
    <2> QED
      BY <2>3, <2>4 DEF StartupInv
  <1> QED
    BY <1>1, StartupInvariant, PTL DEF Spec, CleanStartKnowsOpenOrders

=============================================================================
