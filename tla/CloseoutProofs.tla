--------------------------- MODULE CloseoutProofs ---------------------------
(***************************************************************************)
(* Proofs about Closeout for every value of its constants.                 *)
(***************************************************************************)
EXTENDS CloseoutInvariant, TLAPS

(***************************************************************************)
(* What a step may do to the account.                                      *)
(***************************************************************************)

\* Orders stay, keep their side and symbol and never work again once they have
\* ended; a new purchase means that the session trades; a symbol that becomes
\* held was bought by an order that worked.
Moves ==
    /\ DOMAIN orders \subseteq DOMAIN orders'
    /\ \A k \in DOMAIN orders' : orders'[k] \in OrderRecords
    /\ positions' \in [Symbols -> Nat]
    /\ \A k \in DOMAIN orders :
          /\ orders'[k].side = orders[k].side
          /\ orders'[k].symbol = orders[k].symbol
          /\ orders'[k].status \in WorkingStatuses => orders[k].status \in WorkingStatuses
    /\ \A k \in DOMAIN orders' \ DOMAIN orders : orders'[k].side = "buy" => trading
    /\ \A sym \in Symbols : positions'[sym] > 0 /\ ~(positions[sym] > 0) =>
          \E k \in OpenBuys : orders[k].symbol = sym

\* A step that leaves the account alone.
LEMMA NoMove == ASSUME AccountOK, UNCHANGED brokerVars PROVE Moves
  BY DEF AccountOK, brokerVars, Moves

\* A new order: a purchase of a trading session, or a sale of what is held.
LEMMA PlaceMoves ==
    ASSUME AccountOK, NEW k, NEW o \in OrderRecords, Place(k, o),
           o.side = "buy" => trading /\ o.filled = 0,
           o.side = "sell" => o.filled <= positions[o.symbol]
    PROVE  Moves
  <1>1. /\ o.symbol \in Symbols
        /\ o.filled \in Nat
        /\ o.side \in {"buy", "sell"}
    BY DEF OrderRecords
  <1>2. /\ DOMAIN orders' = DOMAIN orders \cup {k}
        /\ k \notin DOMAIN orders
        /\ orders'[k] = o
        /\ \A j \in DOMAIN orders : orders'[j] = orders[j]
    BY DEF Place
  <1>3. /\ positions' \in [Symbols -> Nat]
        /\ \A sym \in Symbols : positions'[sym] <= positions[sym]
    BY <1>1 DEF Place, Settle, AccountOK
  <1>4. \A sym \in Symbols : positions'[sym] > 0 => positions[sym] > 0
    BY <1>3 DEF AccountOK
  <1> QED
    BY <1>2, <1>3, <1>4 DEF Moves, AccountOK

\* An order ends with what it has filled so far.
LEMMA TerminateMoves ==
    ASSUME AccountOK, NEW k \in DOMAIN orders, NEW s \in {"cancelled", "expired", "rejected"},
           Terminate(k, s)
    PROVE  Moves
  <1> DEFINE p == [orders[k] EXCEPT !.status = s]
  <1>1. orders[k] \in OrderRecords
    BY DEF AccountOK
  <1>2. /\ p \in OrderRecords
        /\ p.side = orders[k].side
        /\ p.symbol = orders[k].symbol
        /\ p.symbol \in Symbols
        /\ p.filled - orders[k].filled = 0
        /\ p.status \notin WorkingStatuses
    BY <1>1 DEF OrderRecords, OrderStatuses, WorkingStatuses, TerminalStatuses
  <1>3. Advance(k, p)
    BY DEF Terminate
  <1> HIDE DEF p
  <1>4. /\ DOMAIN orders' = DOMAIN orders
        /\ \A j \in DOMAIN orders : orders'[j] = IF j = k THEN p ELSE orders[j]
    BY <1>3 DEF Advance
  <1>5. positions' = positions
    BY <1>2, <1>3 DEF Advance, Settle, AccountOK
  <1> QED
    BY <1>2, <1>4, <1>5 DEF Moves, AccountOK

\* The broker's own steps.
LEMMA BrokerMoves == ASSUME AccountOK, BrokerNext PROVE Moves
  <1>1. PICK k \in DOMAIN orders :
            Accept(k) \/ Fill(k) \/ \E s \in EndStatuses : Terminate(k, s)
    BY DEF BrokerNext
  <1> DEFINE o == orders[k]
  <1>2. o \in OrderRecords
    BY <1>1 DEF AccountOK
  <1>3. CASE Accept(k)
    <2> DEFINE p == [o EXCEPT !.status = "accepted"]
    <2>1. /\ p \in OrderRecords
          /\ p.side = o.side
          /\ p.symbol = o.symbol
          /\ p.symbol \in Symbols
          /\ p.filled - o.filled = 0
      BY <1>2 DEF OrderRecords, OrderStatuses, WorkingStatuses
    <2>2. Advance(k, p) /\ o.status \in WorkingStatuses
      BY <1>3 DEF Accept, WorkingStatuses
    <2> HIDE DEF p
    <2>3. /\ DOMAIN orders' = DOMAIN orders
          /\ \A j \in DOMAIN orders : orders'[j] = IF j = k THEN p ELSE orders[j]
      BY <2>2 DEF Advance
    <2>4. positions' = positions
      BY <2>1, <2>2 DEF Advance, Settle, AccountOK
    <2> QED
      BY <2>1, <2>2, <2>3, <2>4 DEF Moves, AccountOK
  <1>4. CASE Fill(k)
    <2> DEFINE n == o.filled + 1
               p == [o EXCEPT !.filled = n,
                       !.status = IF n = o.qty THEN "filled" ELSE "partially_filled"]
    <2>1. n \in Nat /\ (IF n = o.qty THEN "filled" ELSE "partially_filled") \in OrderStatuses
      BY <1>2 DEF OrderRecords, OrderStatuses, WorkingStatuses, TerminalStatuses
    <2>2. n - o.filled = 1
      BY <1>2 DEF OrderRecords
    <2>3. /\ Advance(k, p)
          /\ o.status \in WorkingStatuses
          /\ o.side = "sell" => positions[o.symbol] > 0
      BY <1>4 DEF Fill, WorkingStatuses
    <2>4. /\ p \in OrderRecords
          /\ p.side = o.side
          /\ p.symbol = o.symbol
          /\ p.filled = n
          /\ o.symbol \in Symbols
          /\ o.side \in {"buy", "sell"}
      <3> HIDE DEF n
      <3> QED
        BY <1>2, <2>1 DEF OrderRecords
    <2>5. /\ positions' \in [Symbols -> Nat]
          /\ \A sym \in Symbols : positions'[sym] > positions[sym] =>
                sym = o.symbol /\ o.side = "buy"
      <3>1. positions' = Settle(o.symbol, o.side, 1)
        BY <2>2, <2>3, <2>4 DEF Advance
      <3> QED
        BY <2>3, <2>4, <3>1 DEF Settle, AccountOK
    <2> HIDE DEF p, n
    <2>6. /\ DOMAIN orders' = DOMAIN orders
          /\ \A j \in DOMAIN orders : orders'[j] = IF j = k THEN p ELSE orders[j]
      BY <2>3 DEF Advance
    <2>7. o.side = "buy" => k \in OpenBuys
      BY <1>1, <2>3 DEF OpenBuys, Buys, IsWorking
    <2>8. \A sym \in Symbols : positions'[sym] > 0 /\ ~(positions[sym] > 0) =>
              positions'[sym] > positions[sym]
      BY <2>5 DEF AccountOK
    <2>9. \A sym \in Symbols : positions'[sym] > 0 /\ ~(positions[sym] > 0) =>
              \E j \in OpenBuys : orders[j].symbol = sym
      BY <2>5, <2>7, <2>8
    <2> QED
      BY <2>3, <2>4, <2>5, <2>6, <2>9 DEF Moves, AccountOK
  <1>5. CASE \E s \in EndStatuses : Terminate(k, s)
    BY <1>1, <1>5, TerminateMoves, BrokerAssumption
  <1> QED
    BY <1>1, <1>3, <1>4, <1>5

\* What a task names stays known.
LEMMA TasksGrow == ASSUME Moves PROVE Tasks \subseteq Tasks' /\ Incidents \subseteq Incidents'
  <1>1. DOMAIN orders \subseteq DOMAIN orders'
    BY DEF Moves
  <1> QED
    BY <1>1 DEF Tasks, Incidents

\* Without new purchases, the purchases stay over once none works.
LEMMA NoNewBuy == ASSUME Moves, ~trading, OpenBuys = {} PROVE OpenBuys' = {}
  BY DEF Moves, OpenBuys, Buys, IsWorking

\* Where the account was found flat, a holding is a purchase that was not over.
LEMMA LateFill ==
    ASSUME Moves, NEW over \in SUBSET DOMAIN orders,
           \A k \in over : ~IsWorking(k),
           \A sym \in HeldSymbols : \E k \in Buys \ over : orders[k].symbol = sym
    PROVE  \A sym \in HeldSymbols' : \E k \in Buys' \ over : orders'[k].symbol = sym
  <1> SUFFICES ASSUME NEW sym \in Symbols, positions'[sym] > 0
               PROVE  \E k \in Buys' \ over : orders'[k].symbol = sym
    BY DEF HeldSymbols
  <1>1. PICK k \in Buys \ over : orders[k].symbol = sym
    <2>1. CASE positions[sym] > 0
      BY <2>1 DEF HeldSymbols
    <2>2. CASE ~(positions[sym] > 0)
      <3>1. PICK k \in OpenBuys : orders[k].symbol = sym
        BY <2>2 DEF Moves
      <3> QED
        BY <3>1 DEF OpenBuys
    <2> QED
      BY <2>1, <2>2
  <1>2. k \in Buys' /\ orders'[k].symbol = sym
    BY <1>1 DEF Moves, Buys
  <1> QED
    BY <1>1, <1>2

----------------------------------------------------------------------------
(***************************************************************************)
(* What a step leaves true.                                                *)
(***************************************************************************)

CallerOK(c) == VerdictOK(c) /\ OrdersOK(c) /\ ExposureOK(c)

\* The books of a step: what it may write besides a caller's task and answer.
Books ==
    /\ trading' = trading
    /\ recorded' \subseteq Symbols
    /\ incidents \subseteq incidents'
    /\ incidents' \subseteq Incidents'
    /\ calls' \in 0..MaxCalls
    /\ status' \in {"running", "closeout", "closed", "blocked"}
    /\ status \in {"closed", "blocked"} => status' = status
    /\ status' = "blocked" => incidents' # {}
    /\ status' = "closed" /\ ~trading => OpenBuys' = {}

\* A step that leaves the books alone.
LEMMA SameBooks ==
    ASSUME CloseoutInv, Moves, UNCHANGED <<status, recorded, incidents, calls, trading>>
    PROVE  Books
  <1>1. status = "closed" /\ ~trading => OpenBuys' = {}
    BY NoNewBuy DEF CloseoutInv, ClosedMeansNoWorkingBuy
  <1>2. incidents \subseteq Incidents'
    BY TasksGrow DEF CloseoutInv, TypeOK
  <1> QED
    BY <1>1, <1>2 DEF Books, CloseoutInv, TypeOK

\* A caller that does not move.
LEMMA Kept ==
    ASSUME CloseoutInv, Moves, Books, NEW c \in Callers,
           task'[c] = task[c], answer'[c] = answer[c]
    PROVE  CallerOK(c)'
  <1>1. VerdictOK(c) /\ OrdersOK(c) /\ ExposureOK(c)
    BY DEF CloseoutInv
  <1>2. VerdictOK(c)'
    BY <1>1 DEF VerdictOK, Books, In, IsClean
  <1>3. OrdersOK(c)'
    BY <1>1, NoNewBuy DEF OrdersOK, Books
  <1>4. ExposureOK(c)'
    <2>1. task[c].over \in SUBSET DOMAIN orders
      BY DEF CloseoutInv, TypeOK, Tasks
    <2>2. \A k \in task[c].over : ~IsWorking(k)'
      BY <1>1, <2>1 DEF ExposureOK, Moves, IsWorking
    <2>3. task[c].phase \in {"orders", "incident", "mark"} /\ task[c].held = NothingHeld =>
            \A sym \in HeldSymbols' : \E k \in Buys' \ task[c].over : orders'[k].symbol = sym
      BY <1>1, <2>1, LateFill DEF ExposureOK
    <2> QED
      BY <2>2, <2>3 DEF ExposureOK, NothingHeld
  <1> QED
    BY <1>2, <1>3, <1>4 DEF CallerOK

\* A step of one caller.
LEMMA Assemble ==
    ASSUME CloseoutInv, Moves, Books, NEW c \in Callers, NEW t \in Tasks', NEW a \in Answers,
           task' = [task EXCEPT ![c] = t],
           answer' = [answer EXCEPT ![c] = a],
           t.phase \in {"submit", "record", "retry"} => t.held # NothingHeld,
           CallerOK(c)'
    PROVE  CloseoutInv'
  <1>1. task \in [Callers -> Tasks] /\ answer \in [Callers -> Answers]
    BY DEF CloseoutInv, TypeOK
  <1>2. /\ task' \in [Callers -> Tasks']
        /\ answer' \in [Callers -> Answers]
        /\ \A d \in Callers : task'[d] = IF d = c THEN t ELSE task[d]
        /\ \A d \in Callers \ {c} : answer'[d] = answer[d]
    BY <1>1, TasksGrow
  <1>3. \A d \in Callers : task'[d].phase \in {"submit", "record", "retry"} =>
            task'[d].held # NothingHeld
    BY <1>2 DEF CloseoutInv, TypeOK
  <1>4. TypeOK'
    BY <1>2, <1>3 DEF CloseoutInv, TypeOK, Books, NothingHeld
  <1>5. \A d \in Callers : CallerOK(d)'
    <2> SUFFICES ASSUME NEW d \in Callers PROVE CallerOK(d)'
      OBVIOUS
    <2>1. CASE d = c
      BY <2>1
    <2>2. CASE d # c
      BY <2>2, <1>2, Kept
    <2> QED
      BY <2>1, <2>2
  <1>6. AccountOK'
    BY DEF Moves, AccountOK
  <1>7. ClosedMeansNoWorkingBuy'
    BY DEF ClosedMeansNoWorkingBuy, Books
  <1> QED
    BY <1>4, <1>5, <1>6, <1>7 DEF CloseoutInv, CallerOK, Books

\* A step of no caller.
LEMMA AssembleOutside ==
    ASSUME CloseoutInv, Moves, UNCHANGED closeoutVars
    PROVE  CloseoutInv'
  <1>1. Books
    BY SameBooks DEF closeoutVars
  <1>2. task' \in [Callers -> Tasks']
    BY TasksGrow DEF closeoutVars, CloseoutInv, TypeOK
  <1>3. TypeOK'
    BY <1>1, <1>2 DEF closeoutVars, CloseoutInv, TypeOK, Books, NothingHeld
  <1>4. \A c \in Callers : CallerOK(c)'
    BY <1>1, Kept DEF closeoutVars
  <1>5. AccountOK'
    BY DEF Moves, AccountOK
  <1>6. ClosedMeansNoWorkingBuy'
    BY <1>1 DEF ClosedMeansNoWorkingBuy, Books
  <1> QED
    BY <1>1, <1>3, <1>4, <1>5, <1>6 DEF CloseoutInv, CallerOK, Books

----------------------------------------------------------------------------
(***************************************************************************)
(* Every step keeps the invariant.                                         *)
(***************************************************************************)

\* What the invariant says of a caller's task.
LEMMA TaskFacts ==
    ASSUME CloseoutInv, NEW c \in Callers
    PROVE  /\ task[c] \in Tasks
           /\ task[c].held \in [Symbols -> Nat]
           /\ task[c].buys \in SUBSET DOMAIN orders
           /\ task[c].rounds \in Nat
           /\ task[c].rejected \in BOOLEAN
           /\ task[c].over \in SUBSET DOMAIN orders
           /\ answer[c] \in Answers
           /\ answer = [answer EXCEPT ![c] = answer[c]]
           /\ CallerOK(c)
  BY DEF CloseoutInv, TypeOK, Tasks, CallerOK

\* A call that ends gives no verdict but the session's.
LEMMA EndOK ==
    ASSUME CloseoutInv, Moves, Books, NEW c \in Callers, NEW a \in Answers, End(c, a),
           a \in {"closed", "blocked"} => status' = a
    PROVE  CloseoutInv'
  <1>1. task'[c] = Idle /\ answer'[c] = a
    BY DEF End, CloseoutInv, TypeOK
  <1>2. Idle \in Tasks'
    BY CloseoutAssumption DEF Idle, Tasks, Phases, NothingHeld
  <1>3. CallerOK(c)'
    BY <1>1 DEF CallerOK, VerdictOK, OrdersOK, ExposureOK, In, Idle
  <1> QED
    BY <1>2, <1>3, Assemble DEF End, Idle

\* A step inside a call: the caller goes to another task.
LEMMA TaskStep ==
    ASSUME CloseoutInv, Moves, Books, NEW c \in Callers, NEW t \in Tasks',
           UNCHANGED answer,
           task' = [task EXCEPT ![c] = t],
           ~In(c, "idle"),
           t.phase \in {"submit", "record", "retry"} => t.held # NothingHeld,
           t.call = task[c].call,
           t.phase = "mark" /\ ~(t.held = NothingHeld /\ t.buys = {}) => incidents' # {},
           OrdersOK(c)',
           ExposureOK(c)'
    PROVE  CloseoutInv'
  <1>1. task'[c] = t /\ answer'[c] = "none" /\ task[c].call # 0
    BY DEF CloseoutInv, TypeOK, VerdictOK
  <1>2. VerdictOK(c)'
    BY <1>1 DEF VerdictOK, IsClean, In, NothingHeld
  <1> QED
    BY <1>2, Assemble, TaskFacts DEF CallerOK

\* The same, before the last look at the positions.
LEMMA EarlyStep ==
    ASSUME CloseoutInv, Moves, Books, NEW c \in Callers, NEW t \in Tasks,
           UNCHANGED answer,
           task' = [task EXCEPT ![c] = t],
           ~In(c, "idle"),
           t.phase \in {"poll", "cancel", "positions", "submit", "record", "retry", "verify"},
           t.phase \in {"submit", "record", "retry"} => t.held # NothingHeld,
           t.call = task[c].call,
           t.over = task[c].over
    PROVE  CloseoutInv'
  <1>1. task'[c] = t
    BY DEF CloseoutInv, TypeOK
  <1>2. t \in Tasks'
    BY TasksGrow
  <1>3. OrdersOK(c)'
    BY <1>1 DEF OrdersOK
  <1>4. ExposureOK(c)'
    <2>1. task[c].over \in SUBSET DOMAIN orders /\ \A k \in task[c].over : ~IsWorking(k)
      BY TaskFacts DEF CallerOK, ExposureOK
    <2>2. \A k \in task[c].over : ~IsWorking(k)'
      BY <2>1 DEF Moves, IsWorking
    <2> QED
      BY <1>1, <2>2 DEF ExposureOK
  <1> QED
    BY <1>2, <1>3, <1>4, TaskStep

LEMMA StartOK == ASSUME CloseoutInv, NEW c \in Callers, Start(c) PROVE CloseoutInv'
  <1>1. Moves
    BY NoMove DEF Start, CloseoutInv
  <1>2. calls' \in 1..MaxCalls /\ calls' = calls + 1
    BY CloseoutAssumption DEF Start, CloseoutInv, TypeOK
  <1>3. incidents \subseteq Incidents'
    BY <1>1, TasksGrow DEF CloseoutInv, TypeOK
  <1>4. CASE MayBecome(status, "closeout")
    <2> DEFINE n == calls + 1
               t == [Idle EXCEPT !.phase = "poll", !.call = n]
    <2>1. /\ status' = "closeout"
          /\ task' = [task EXCEPT ![c] = t]
          /\ answer' = [answer EXCEPT ![c] = "none"]
      BY <1>4 DEF Start
    <2>2. status \notin {"closed", "blocked"}
      BY <1>4 DEF MayBecome
    <2>3. Books
      BY <1>2, <1>3, <2>1, <2>2 DEF Start, Books, CloseoutInv, TypeOK
    <2>4. Idle \in Tasks /\ Idle.over = {}
      BY CloseoutAssumption DEF Idle, Tasks, Phases, NothingHeld
    <2>5. n \in 0..MaxCalls /\ n # 0
      BY <1>2
    <2> HIDE DEF n
    <2>6. t \in Tasks /\ t.phase = "poll" /\ t.call = n /\ t.over = {}
      BY <2>4, <2>5 DEF Tasks, Phases
    <2>7. task'[c] = t /\ answer'[c] = "none"
      BY <2>1 DEF CloseoutInv, TypeOK
    <2> HIDE DEF t
    <2>8. CallerOK(c)'
      BY <2>5, <2>6, <2>7 DEF CallerOK, VerdictOK, OrdersOK, ExposureOK, In
    <2> QED
      BY <1>1, <2>1, <2>3, <2>6, <2>8, TasksGrow, Assemble DEF Answers
  <1>5. CASE ~MayBecome(status, "closeout")
    <2>1. End(c, "raised") /\ UNCHANGED status
      BY <1>5 DEF Start
    <2>2. status = "closed" /\ ~trading => OpenBuys' = {}
      BY <1>1, NoNewBuy DEF CloseoutInv, ClosedMeansNoWorkingBuy
    <2>3. Books
      BY <1>2, <1>3, <2>1, <2>2 DEF Start, Books, CloseoutInv, TypeOK
    <2> QED
      BY <1>1, <2>1, <2>3, EndOK DEF Answers
  <1> QED
    BY <1>4, <1>5

LEMMA PollOK == ASSUME CloseoutInv, NEW c \in Callers, Poll(c) PROVE CloseoutInv'
  <1>1. Moves
    BY NoMove DEF Poll, CloseoutInv
  <1>2. OpenBuys \subseteq DOMAIN orders
    BY DEF OpenBuys, Buys
  <1>3. task[c] \in Tasks /\ ~In(c, "idle")
    BY TaskFacts DEF Poll, In
  <1>4. CASE OpenBuys = {} \/ task[c].rounds = MaxCancelPolls
    <2> DEFINE t == [task[c] EXCEPT !.phase = "positions", !.rounds = 0]
    <2>1. task' = [task EXCEPT ![c] = t]
      BY <1>4 DEF Poll, CloseoutInv, TypeOK
    <2>2. t \in Tasks /\ t.phase = "positions" /\ t.call = task[c].call /\ t.over = task[c].over
      BY <1>3 DEF Tasks, Phases
    <2> QED
      BY <1>1, <1>3, <2>1, <2>2, SameBooks, EarlyStep DEF Poll
  <1>5. CASE ~(OpenBuys = {} \/ task[c].rounds = MaxCancelPolls)
    <2> DEFINE n == task[c].rounds + 1
               t == [task[c] EXCEPT !.phase = "cancel", !.rounds = n, !.buys = OpenBuys]
    <2>1. task' = [task EXCEPT ![c] = t]
      BY <1>5 DEF Poll, CloseoutInv, TypeOK
    <2>2. n \in Nat
      BY TaskFacts
    <2> HIDE DEF n
    <2>3. t \in Tasks /\ t.phase = "cancel" /\ t.call = task[c].call /\ t.over = task[c].over
      BY <1>2, <1>3, <2>2 DEF Tasks, Phases
    <2> QED
      BY <1>1, <1>3, <2>1, <2>3, SameBooks, EarlyStep DEF Poll
  <1> QED
    BY <1>4, <1>5

LEMMA CancelOK == ASSUME CloseoutInv, NEW c \in Callers, Cancel(c) PROVE CloseoutInv'
  <1>1. PICK k \in task[c].buys :
            /\ Terminate(k, "cancelled") \/ UNCHANGED brokerVars
            /\ task' = [task EXCEPT ![c].buys = @ \ {k},
                                    ![c].phase = IF task[c].buys = {k} THEN "poll" ELSE @]
    BY DEF Cancel
  <1>2. Moves
    BY <1>1, NoMove, TerminateMoves, TaskFacts DEF CloseoutInv
  <1>3. task[c] \in Tasks /\ ~In(c, "idle")
    BY TaskFacts DEF Cancel, In
  <1> DEFINE ph == IF task[c].buys = {k} THEN "poll" ELSE "cancel"
             t == [task[c] EXCEPT !.buys = task[c].buys \ {k}, !.phase = ph]
  <1>4. task' = [task EXCEPT ![c] = t]
    BY <1>1 DEF Cancel, In, CloseoutInv, TypeOK
  <1>5. ph \in {"poll", "cancel"}
    OBVIOUS
  <1> HIDE DEF ph
  <1>6. t \in Tasks /\ t.phase = ph /\ t.call = task[c].call /\ t.over = task[c].over
    BY <1>3, <1>5 DEF Tasks, Phases
  <1> QED
    BY <1>2, <1>3, <1>4, <1>5, <1>6, SameBooks, EarlyStep DEF Cancel

\* From one position to the next.
LEMMA ContinueOK ==
    ASSUME CloseoutInv, Moves, NEW c \in Callers, NEW held \in [Symbols -> Nat],
           Continue(c, held), ~In(c, "idle"),
           UNCHANGED <<status, recorded, incidents, calls, trading, answer>>
    PROVE  CloseoutInv'
  <1> DEFINE ph == IF held = NothingHeld THEN "verify" ELSE "submit"
             t == [task[c] EXCEPT !.held = held, !.rounds = 0, !.phase = ph]
  <1>1. task' = [task EXCEPT ![c] = t]
    BY DEF Continue, CloseoutInv, TypeOK
  <1>2. ph \in {"verify", "submit"} /\ (ph = "submit" => held # NothingHeld)
    OBVIOUS
  <1> HIDE DEF ph
  <1>3. /\ t \in Tasks
        /\ t.phase = ph
        /\ t.held = held
        /\ t.call = task[c].call
        /\ t.over = task[c].over
    BY <1>2, TaskFacts DEF Tasks, Phases
  <1> QED
    BY <1>1, <1>2, <1>3, SameBooks, EarlyStep

LEMMA ReadPositionsOK ==
    ASSUME CloseoutInv, NEW c \in Callers, ReadPositions(c) PROVE CloseoutInv'
  <1>1. Moves
    BY NoMove DEF ReadPositions, CloseoutInv
  <1> QED
    BY <1>1, ContinueOK DEF ReadPositions, In, CloseoutInv, AccountOK

\* A call at an exit has a position to sell.
LEMMA SellingOK ==
    ASSUME CloseoutInv, NEW c \in Callers, task[c].phase \in {"submit", "record", "retry"}
    PROVE  Selling(c) \in Symbols /\ task[c].held[Selling(c)] > 0
  <1>1. task[c].held # NothingHeld /\ task[c].held \in [Symbols -> Nat]
    BY TaskFacts DEF CloseoutInv, TypeOK
  <1>2. \E sym \in Symbols : task[c].held[sym] > 0
    BY <1>1 DEF NothingHeld
  <1> QED
    BY <1>2 DEF Selling

LEMMA SubmitOK == ASSUME CloseoutInv, NEW c \in Callers, Submit(c) PROVE CloseoutInv'
  <1> DEFINE n == task[c].held[Selling(c)]
  <1>1. PICK s \in FirstStatuses :
            /\ s = "filled" => n <= positions[Selling(c)]
            /\ Place(ExitKey(Selling(c)),
                     [symbol |-> Selling(c), side |-> "sell", qty |-> n,
                      filled |-> IF s = "filled" THEN n ELSE 0,
                      status |-> s, at |-> task[c].call])
            /\ task' = [task EXCEPT ![c].phase = "record", ![c].rejected = (s = "rejected")]
    BY DEF Submit, PlaceExit
  <1>2. Selling(c) \in Symbols /\ n \in Nat /\ task[c].held # NothingHeld
    BY SellingOK, TaskFacts DEF Submit, In, CloseoutInv, TypeOK
  <1>3. positions[Selling(c)] \in Nat
    BY <1>2 DEF CloseoutInv, AccountOK
  <1> DEFINE f == IF s = "filled" THEN n ELSE 0
             o == [symbol |-> Selling(c), side |-> "sell", qty |-> n, filled |-> f,
                   status |-> s, at |-> task[c].call]
  <1>4. f \in Nat /\ f <= positions[Selling(c)]
    BY <1>1, <1>2, <1>3
  <1>5. s \in OrderStatuses /\ task[c].call \in Int
    BY <1>1, TaskFacts, BrokerAssumption, CloseoutAssumption
    DEF OrderStatuses, WorkingStatuses, TerminalStatuses, Tasks
  <1>6. Place(ExitKey(Selling(c)), o)
    BY <1>1
  <1> HIDE DEF f, n
  <1>7. o \in OrderRecords /\ o.side = "sell" /\ o.filled <= positions[o.symbol]
    BY <1>2, <1>4, <1>5 DEF OrderRecords
  <1> HIDE DEF o
  <1>8. Moves
    BY <1>6, <1>7, PlaceMoves DEF CloseoutInv
  <1> DEFINE r == (s = "rejected")
             t == [task[c] EXCEPT !.phase = "record", !.rejected = r]
  <1>9. task' = [task EXCEPT ![c] = t]
    BY <1>1 DEF CloseoutInv, TypeOK
  <1>10. r \in BOOLEAN
    OBVIOUS
  <1> HIDE DEF r
  <1>11. /\ t \in Tasks
         /\ t.phase = "record"
         /\ t.held = task[c].held
         /\ t.call = task[c].call
         /\ t.over = task[c].over
    BY <1>10, TaskFacts DEF Tasks, Phases
  <1> QED
    BY <1>2, <1>8, <1>9, <1>11, SameBooks, EarlyStep DEF Submit, In

LEMMA SubmitConflictOK ==
    ASSUME CloseoutInv, NEW c \in Callers, SubmitConflict(c) PROVE CloseoutInv'
  <1>1. Moves
    BY NoMove DEF SubmitConflict, CloseoutInv
  <1>2. Books
    BY <1>1, SameBooks DEF SubmitConflict
  <1> QED
    BY <1>1, <1>2, EndOK DEF SubmitConflict, Answers

\* After an attempt, another one or the next position.
LEMMA AfterAttemptOK ==
    ASSUME CloseoutInv, NEW c \in Callers, NEW n \in Nat, AfterAttempt(c, n), Books,
           task[c].phase \in {"record", "retry"},
           UNCHANGED <<brokerVars, answer>>
    PROVE  CloseoutInv'
  <1>1. Moves
    BY NoMove DEF CloseoutInv
  <1>2. Selling(c) \in Symbols /\ task[c].held # NothingHeld
    BY SellingOK DEF CloseoutInv, TypeOK
  <1> DEFINE again == task[c].rejected /\ n < MaxExitAttempts
             held == IF again THEN task[c].held ELSE [task[c].held EXCEPT ![Selling(c)] = 0]
             phase == IF again THEN "retry" ELSE IF held = NothingHeld THEN "verify" ELSE "submit"
             rounds == IF again THEN n ELSE 0
             t == [task[c] EXCEPT !.held = held, !.rounds = rounds, !.phase = phase]
  <1>3. task' = [task EXCEPT ![c] = t]
    <2>1. CASE again
      <3>1. task' = [task EXCEPT ![c].phase = "retry", ![c].rounds = n]
        BY <2>1 DEF AfterAttempt
      <3>2. held = task[c].held /\ phase = "retry" /\ rounds = n
        BY <2>1
      <3> HIDE DEF held, phase, rounds, again
      <3>3. [task[c] EXCEPT !.phase = "retry", !.rounds = n] = t
        BY <3>2, TaskFacts DEF Tasks
      <3> QED
        BY <3>1, <3>3 DEF CloseoutInv, TypeOK
    <2>2. CASE ~again
      BY <2>2 DEF AfterAttempt, Continue, CloseoutInv, TypeOK
    <2> QED
      BY <2>1, <2>2
  <1>4. /\ held \in [Symbols -> Nat]
        /\ phase \in {"retry", "verify", "submit"}
        /\ phase \in {"retry", "submit"} => held # NothingHeld
        /\ rounds \in Nat
    BY <1>2, TaskFacts
  <1> HIDE DEF held, phase, rounds
  <1>5. /\ t \in Tasks
        /\ t.phase = phase
        /\ t.held = held
        /\ t.call = task[c].call
        /\ t.over = task[c].over
    BY <1>4, TaskFacts DEF Tasks, Phases
  <1> QED
    BY <1>1, <1>3, <1>4, <1>5, EarlyStep DEF In

LEMMA RecordOK == ASSUME CloseoutInv, NEW c \in Callers, Record(c) PROVE CloseoutInv'
  <1>1. Moves
    BY NoMove DEF Record, CloseoutInv
  <1>2. Selling(c) \in Symbols
    BY SellingOK DEF Record, In
  <1>3. Books
    <2>1. incidents \subseteq Incidents' /\ (status = "closed" /\ ~trading => OpenBuys' = {})
      BY <1>1, TasksGrow, NoNewBuy DEF CloseoutInv, TypeOK, ClosedMeansNoWorkingBuy
    <2>2. recorded' \subseteq Symbols
      BY <1>2 DEF Record, CloseoutInv, TypeOK
    <2> QED
      BY <2>1, <2>2 DEF Books, Record, CloseoutInv, TypeOK
  <1> QED
    BY <1>3, AfterAttemptOK DEF Record, In

LEMMA RetryOK == ASSUME CloseoutInv, NEW c \in Callers, Retry(c) PROVE CloseoutInv'
  <1>1. Moves
    BY NoMove DEF Retry, CloseoutInv
  <1>2. Books
    BY <1>1, SameBooks DEF Retry
  <1>3. task[c].rounds + 1 \in Nat
    BY TaskFacts
  <1> QED
    BY <1>2, <1>3, AfterAttemptOK DEF Retry, In

\* The last look at the positions: what is over then works no more, and where
\* nothing is held nothing needs a late fill.
LEMMA VerifyOK == ASSUME CloseoutInv, NEW c \in Callers, Verify(c) PROVE CloseoutInv'
  <1>1. Moves
    BY NoMove DEF Verify, CloseoutInv
  <1>2. task[c] \in Tasks /\ ~In(c, "idle") /\ positions \in [Symbols -> Nat]
    BY TaskFacts DEF Verify, In, CloseoutInv, AccountOK
  <1>3. CASE positions # NothingHeld /\ task[c].rounds + 1 < MaxFlatPolls
    <2> DEFINE n == task[c].rounds + 1
               t == [task[c] EXCEPT !.rounds = n]
    <2>1. task' = [task EXCEPT ![c] = t]
      BY <1>3 DEF Verify, CloseoutInv, TypeOK
    <2>2. n \in Nat
      BY TaskFacts
    <2> HIDE DEF n
    <2>3. t \in Tasks /\ t.phase = "verify" /\ t.call = task[c].call /\ t.over = task[c].over
      BY <1>2, <2>2 DEF Tasks, Verify, In
    <2> QED
      BY <1>1, <1>2, <2>1, <2>3, SameBooks, EarlyStep DEF Verify
  <1>4. CASE ~(positions # NothingHeld /\ task[c].rounds + 1 < MaxFlatPolls)
    <2> DEFINE t == [task[c] EXCEPT !.phase = "orders", !.held = positions, !.over = EndedBuys]
    <2>1. task' = [task EXCEPT ![c] = t]
      BY <1>4 DEF Verify, CloseoutInv, TypeOK
    <2>2. EndedBuys \subseteq DOMAIN orders
      BY DEF EndedBuys, Buys
    <2>3. /\ t \in Tasks
          /\ t.phase = "orders"
          /\ t.held = positions
          /\ t.call = task[c].call
          /\ t.over = EndedBuys
      BY <1>2, <2>2 DEF Tasks, Phases
    <2> HIDE DEF t
    <2>4. task'[c] = t
      BY <2>1 DEF CloseoutInv, TypeOK
    <2>5. OrdersOK(c)'
      BY <2>3, <2>4 DEF OrdersOK
    <2>6. UNCHANGED <<orders, positions>>
      BY DEF Verify, brokerVars
    <2>7. ExposureOK(c)'
      <3>1. \A k \in EndedBuys : ~IsWorking(k)'
        BY <2>6 DEF EndedBuys, OpenBuys, IsWorking
      <3>2. positions = NothingHeld => HeldSymbols' = {}
        BY <2>6 DEF HeldSymbols, NothingHeld
      <3> QED
        BY <2>3, <2>4, <3>1, <3>2 DEF ExposureOK, NothingHeld
    <2> QED
      BY <1>1, <1>2, <2>1, <2>3, <2>5, <2>7, TasksGrow, SameBooks, TaskStep DEF Verify
  <1> QED
    BY <1>3, <1>4

LEMMA ReadOrdersOK == ASSUME CloseoutInv, NEW c \in Callers, ReadOrders(c) PROVE CloseoutInv'
  <1>1. Moves
    BY NoMove DEF ReadOrders, CloseoutInv
  <1>2. task[c] \in Tasks /\ ~In(c, "idle") /\ task[c].phase = "orders"
    BY TaskFacts DEF ReadOrders, In
  <1> DEFINE t == [task[c] EXCEPT !.buys = OpenBuys, !.phase = "incident"]
  <1>3. task' = [task EXCEPT ![c] = t]
    BY DEF ReadOrders, CloseoutInv, TypeOK
  <1>4. OpenBuys \subseteq DOMAIN orders
    BY DEF OpenBuys, Buys
  <1>5. /\ t \in Tasks
        /\ t.phase = "incident"
        /\ t.buys = OpenBuys
        /\ t.held = task[c].held
        /\ t.call = task[c].call
        /\ t.over = task[c].over
    BY <1>2, <1>4 DEF Tasks, Phases
  <1> HIDE DEF t
  <1>6. task'[c] = t
    BY <1>3 DEF CloseoutInv, TypeOK
  <1>7. UNCHANGED <<orders, positions>>
    BY DEF ReadOrders, brokerVars
  <1>8. OrdersOK(c)'
    BY <1>5, <1>6, <1>7 DEF OrdersOK, OpenBuys, Buys, IsWorking
  <1>9. ExposureOK(c)'
    BY <1>2, <1>5, <1>6, <1>7, TaskFacts
    DEF CallerOK, ExposureOK, HeldSymbols, Buys, IsWorking, NothingHeld
  <1> QED
    BY <1>1, <1>2, <1>3, <1>5, <1>8, <1>9, TasksGrow, SameBooks, TaskStep DEF ReadOrders

\* What is not clean is marked with an incident there.
LEMMA IncidentOK == ASSUME CloseoutInv, NEW c \in Callers, Incident(c) PROVE CloseoutInv'
  <1> DEFINE i == [held |-> task[c].held, buys |-> task[c].buys, call |-> task[c].call]
             known == {j \in incidents : j.held = i.held /\ j.buys = i.buys}
  <1>1. Moves
    BY NoMove DEF Incident, CloseoutInv
  <1>2. /\ task[c] \in Tasks
        /\ ~In(c, "idle")
        /\ task[c].phase = "incident"
        /\ task[c].call # 0
    BY TaskFacts DEF Incident, In, CallerOK, VerdictOK
  <1>3. UNCHANGED <<trading, orders, positions, status, recorded, calls>>
    BY DEF Incident, brokerVars
  <1>4. i \in Incidents
    BY <1>2, CloseoutAssumption DEF Tasks, Incidents
  <1>5. CASE ~IsClean(c) /\ known # {} /\ End(c, "conflict") /\ UNCHANGED incidents
    <2>1. Books
      BY <1>1, <1>3, <1>5, SameBooks
    <2> QED
      BY <1>1, <1>5, <2>1, EndOK DEF Answers
  <1>6. CASE /\ IsClean(c) \/ incidents' # {}
             /\ incidents' = incidents \/ incidents' = incidents \cup {i}
             /\ Goto(c, "mark")
             /\ UNCHANGED answer
    <2> DEFINE t == [task[c] EXCEPT !.phase = "mark"]
    <2>1. task' = [task EXCEPT ![c] = t]
      BY <1>6 DEF Goto, CloseoutInv, TypeOK
    <2>2. /\ t \in Tasks
          /\ t.phase = "mark"
          /\ t.buys = task[c].buys
          /\ t.held = task[c].held
          /\ t.call = task[c].call
          /\ t.over = task[c].over
      BY <1>2 DEF Tasks, Phases
    <2> HIDE DEF t
    <2>3. task'[c] = t
      BY <2>1 DEF CloseoutInv, TypeOK
    <2>4. Books
      <3>1. incidents' \subseteq Incidents'
        BY <1>1, <1>4, <1>6, TasksGrow DEF CloseoutInv, TypeOK
      <3>2. status = "closed" /\ ~trading => OpenBuys' = {}
        BY <1>1, NoNewBuy DEF CloseoutInv, ClosedMeansNoWorkingBuy
      <3> HIDE DEF i
      <3>3. incidents \subseteq incidents' /\ (status = "blocked" => incidents' # {})
        BY <1>6 DEF CloseoutInv
      <3> QED
        BY <1>3, <3>1, <3>2, <3>3 DEF Books, CloseoutInv, TypeOK
    <2>5. OrdersOK(c)'
      BY <1>2, <1>3, <2>2, <2>3, TaskFacts
      DEF CallerOK, OrdersOK, OpenBuys, Buys, IsWorking
    <2>6. ExposureOK(c)'
      BY <1>2, <1>3, <2>2, <2>3, TaskFacts
      DEF CallerOK, ExposureOK, HeldSymbols, Buys, IsWorking, NothingHeld
    <2>7. ~(t.held = NothingHeld /\ t.buys = {}) => incidents' # {}
      BY <1>6, <2>2 DEF IsClean
    <2> QED
      BY <1>1, <1>2, <1>6, <2>1, <2>2, <2>4, <2>5, <2>6, <2>7, TasksGrow, TaskStep
  <1> QED
    <2> HIDE DEF i
    <2>1. \/ IsClean(c) /\ Goto(c, "mark") /\ UNCHANGED <<incidents, answer>>
          \/ incidents' = incidents \cup {i} /\ Goto(c, "mark") /\ UNCHANGED answer
          \/ ~IsClean(c) /\ known # {} /\ End(c, "conflict") /\ UNCHANGED incidents
      BY DEF Incident, i
    <2> QED
      BY <2>1, <1>5, <1>6

\* The verdict: nothing works in a session that is closed, and one that is
\* blocked has an incident.
LEMMA MarkOK == ASSUME CloseoutInv, NEW c \in Callers, Mark(c) PROVE CloseoutInv'
  <1> DEFINE to == IF IsClean(c) THEN "closed" ELSE "blocked"
  <1>1. Moves
    BY NoMove DEF Mark, CloseoutInv
  <1>2. UNCHANGED <<trading, orders, recorded, incidents, calls>>
    BY DEF Mark, brokerVars
  <1>3. CASE MayBecome(status, to)
    <2>1. status' = to /\ End(c, to)
      BY <1>3 DEF Mark
    <2>2. to = "blocked" => incidents # {}
      BY TaskFacts DEF Mark, CallerOK, VerdictOK
    <2>3. to = "closed" /\ ~trading => OpenBuys = {}
      BY TaskFacts DEF Mark, In, IsClean, CallerOK, OrdersOK
    <2>4. OpenBuys' = OpenBuys
      BY <1>2 DEF OpenBuys, Buys, IsWorking
    <2>5. to \in {"closed", "blocked"} /\ (status \in {"closed", "blocked"} => to = status)
      BY <1>3 DEF MayBecome
    <2>6. incidents' \subseteq Incidents'
      BY <1>1, <1>2, TasksGrow DEF CloseoutInv, TypeOK
    <2> HIDE DEF to
    <2>7. Books
      BY <1>2, <2>1, <2>2, <2>3, <2>4, <2>5, <2>6 DEF Books, CloseoutInv, TypeOK
    <2> QED
      BY <1>1, <2>1, <2>5, <2>7, EndOK DEF Answers
  <1>4. CASE ~MayBecome(status, to)
    <2>1. End(c, "raised") /\ UNCHANGED status
      BY <1>4 DEF Mark
    <2>2. Books
      BY <1>1, <1>2, <2>1, SameBooks
    <2> QED
      BY <1>1, <2>1, <2>2, EndOK DEF Answers
  <1> QED
    BY <1>3, <1>4

LEMMA CrashOK == ASSUME CloseoutInv, NEW c \in Callers, Crash(c) PROVE CloseoutInv'
  <1>1. Moves
    BY NoMove DEF Crash, CloseoutInv
  <1>2. Books
    BY <1>1, SameBooks DEF Crash
  <1> QED
    BY <1>1, <1>2, EndOK DEF Crash, Answers

LEMMA EnterOK == ASSUME CloseoutInv, NEW sym \in Symbols, Enter(sym) PROVE CloseoutInv'
  <1> DEFINE o == Purchase(sym, MaxShares, "accepted")
  <1>1. Place(EntryKey(sym), o) /\ trading /\ UNCHANGED closeoutVars
    BY DEF Enter
  <1>2. o \in OrderRecords /\ o.side = "buy" /\ o.filled = 0
    BY CloseoutAssumption DEF Purchase, OrderRecords, OrderStatuses, WorkingStatuses
  <1> HIDE DEF o
  <1>3. Moves
    BY <1>1, <1>2, PlaceMoves DEF CloseoutInv
  <1> QED
    BY <1>1, <1>3, AssembleOutside

LEMMA InvInit == Init => CloseoutInv
  <1> SUFFICES ASSUME Init PROVE CloseoutInv
    OBVIOUS
  <1>1. PICK bought \in SUBSET Symbols :
            orders = [k \in {EntryKey(sym) : sym \in bought} |->
                         Purchase(k[2], MaxShares, "accepted")]
    BY DEF Init
  <1>2. \A sym \in bought : EntryKey(sym)[2] = sym
    BY DEF EntryKey
  <1>3. \A sym \in Symbols : Purchase(sym, MaxShares, "accepted") \in OrderRecords
    BY CloseoutAssumption DEF Purchase, OrderRecords, OrderStatuses, WorkingStatuses
  <1>4. \A k \in DOMAIN orders : orders[k] \in OrderRecords
    BY <1>1, <1>2, <1>3
  <1>5. positions \in [Symbols -> Nat]
    BY CloseoutAssumption DEF Init
  <1>6. Idle \in Tasks /\ Idle.phase = "idle" /\ Idle.over = {}
    BY CloseoutAssumption DEF Idle, Tasks, Phases, NothingHeld
  <1>7. TypeOK
    BY <1>6, CloseoutAssumption DEF Init, TypeOK, Answers
  <1>8. \A c \in Callers : CallerOK(c)
    BY <1>6 DEF Init, CallerOK, VerdictOK, OrdersOK, ExposureOK, In
  <1> QED
    BY <1>4, <1>5, <1>7, <1>8
    DEF Init, CloseoutInv, AccountOK, CallerOK, ClosedMeansNoWorkingBuy

LEMMA InvNext == CloseoutInv /\ [Next]_vars => CloseoutInv'
  <1> SUFFICES ASSUME CloseoutInv, [Next]_vars PROVE CloseoutInv'
    OBVIOUS
  <1>1. CASE \E c \in Callers : Start(c) \/ Step(c) \/ Crash(c)
    <2>1. PICK c \in Callers : Start(c) \/ Step(c) \/ Crash(c)
      BY <1>1
    <2>2. CASE Start(c) \/ Crash(c)
      BY <2>2, StartOK, CrashOK
    <2>3. CASE Step(c)
      BY <2>3, PollOK, CancelOK, ReadPositionsOK, SubmitOK, SubmitConflictOK, RecordOK, RetryOK,
         VerifyOK, ReadOrdersOK, IncidentOK, MarkOK
      DEF Step
    <2> QED
      BY <2>1, <2>2, <2>3
  <1>2. CASE \E sym \in Symbols : Enter(sym)
    BY <1>2, EnterOK
  <1>3. CASE BrokerNext /\ UNCHANGED closeoutVars
    BY <1>3, BrokerMoves, AssembleOutside DEF CloseoutInv
  <1>4. CASE UNCHANGED vars
    BY <1>4, NoMove, AssembleOutside DEF CloseoutInv, vars
  <1> QED
    BY <1>1, <1>2, <1>3, <1>4 DEF Next

\* The inductive invariant holds in every state of the closeout.
THEOREM InvariantHolds == Spec => []CloseoutInv
  <1> QED
    BY InvInit, InvNext, PTL DEF Spec

----------------------------------------------------------------------------
(***************************************************************************)
(* What is on sale is held.                                                *)
(***************************************************************************)

\* What a call takes for held stays below the account while no exit exists.
HeldKept == \A c \in Callers, sym \in Symbols :
    task'[c].held[sym] \in {task[c].held[sym], positions[sym], 0}

\* A step that leaves the account alone.
LEMMA SameSales ==
    ASSUME CloseoutInv, SalesOK, UNCHANGED brokerVars, HeldKept
    PROVE  SalesOK'
  <1>1. orders' = orders /\ positions' = positions
    BY DEF brokerVars
  <1>2. \A c \in Callers, sym \in Symbols :
            ExitKey(sym) \notin DOMAIN orders => task'[c].held[sym] <= positions[sym]
    <2> TAKE c \in Callers, sym \in Symbols
    <2> HAVE ExitKey(sym) \notin DOMAIN orders
    <2>1. task[c].held[sym] <= positions[sym] /\ positions[sym] \in Nat
      BY DEF SalesOK, CloseoutInv, AccountOK
    <2>2. task'[c].held[sym] \in {task[c].held[sym], positions[sym], 0}
      BY DEF HeldKept
    <2> QED
      BY <2>1, <2>2
  <1> QED
    BY <1>1, <1>2 DEF SalesOK, IsWorking, ExitKey

\* The one exit of a symbol, for no more than is held, or a purchase.
LEMMA PlaceSales ==
    ASSUME CloseoutInv, SalesOK, NEW k, NEW o \in OrderRecords, Place(k, o),
           o.side = "sell" => /\ k = ExitKey(o.symbol)
                              /\ o.filled <= positions[o.symbol]
                              /\ o.status \in WorkingStatuses =>
                                     o.filled = 0 /\ o.qty <= positions[o.symbol],
           \A c \in Callers : task'[c].held = task[c].held
    PROVE  SalesOK'
  <1>1. /\ o.symbol \in Symbols
        /\ o.filled \in Nat
        /\ o.qty \in Nat
        /\ o.side \in {"buy", "sell"}
        /\ positions \in [Symbols -> Nat]
    BY DEF OrderRecords, CloseoutInv, AccountOK
  <1>2. /\ DOMAIN orders' = DOMAIN orders \cup {k}
        /\ k \notin DOMAIN orders
        /\ orders'[k] = o
        /\ \A j \in DOMAIN orders : orders'[j] = orders[j]
    BY DEF Place
  <1>3. /\ o.side = "buy" => positions'[o.symbol] = positions[o.symbol] + o.filled
        /\ o.side = "sell" => positions'[o.symbol] = positions[o.symbol] - o.filled
        /\ \A sym \in Symbols \ {o.symbol} : positions'[sym] = positions[sym]
    BY <1>1 DEF Place, Settle
  <1>4. \A sym \in Symbols :
            (o.side = "sell" => sym # o.symbol) =>
                positions'[sym] \in Nat /\ positions[sym] <= positions'[sym]
    BY <1>1, <1>3
  <1>5. \A j \in DOMAIN orders' : orders'[j].side = "sell" => j = ExitKey(orders'[j].symbol)
    BY <1>2 DEF SalesOK
  <1>6. \A j \in DOMAIN orders' : IsWorking(j)' /\ orders'[j].side = "sell" =>
            orders'[j].qty - orders'[j].filled <= positions'[orders'[j].symbol]
    <2> SUFFICES ASSUME NEW j \in DOMAIN orders', orders'[j].status \in WorkingStatuses,
                        orders'[j].side = "sell"
                 PROVE  orders'[j].qty - orders'[j].filled <= positions'[orders'[j].symbol]
      BY DEF IsWorking
    <2>1. CASE j = k
      BY <1>1, <1>2, <1>3, <2>1
    <2>2. CASE j # k
      <3>1. j \in DOMAIN orders /\ orders'[j] = orders[j]
        BY <1>2, <2>2
      <3> DEFINE p == orders[j]
      <3>2. /\ p.qty \in Nat
            /\ p.filled \in Nat
            /\ p.symbol \in Symbols
            /\ j = ExitKey(p.symbol)
            /\ p.qty - p.filled <= positions[p.symbol]
        BY <3>1 DEF SalesOK, CloseoutInv, AccountOK, OrderRecords, IsWorking
      <3>3. o.side = "sell" => p.symbol # o.symbol
        BY <2>2, <3>2
      <3>4. positions[p.symbol] \in Nat
        BY <1>1, <3>2
      <3> HIDE DEF p
      <3>5. p.qty - p.filled <= positions'[p.symbol]
        BY <1>4, <3>2, <3>3, <3>4
      <3> QED
        BY <3>1, <3>5 DEF p
    <2> QED
      BY <2>1, <2>2
  <1>7. \A c \in Callers, sym \in Symbols :
            ExitKey(sym) \notin DOMAIN orders' => task'[c].held[sym] <= positions'[sym]
    <2> TAKE c \in Callers, sym \in Symbols
    <2> HAVE ExitKey(sym) \notin DOMAIN orders'
    <2>1. ExitKey(sym) \notin DOMAIN orders /\ (o.side = "sell" => sym # o.symbol)
      BY <1>2
    <2>2. task'[c].held[sym] = task[c].held[sym]
      OBVIOUS
    <2>3. task[c].held[sym] <= positions[sym] /\ positions[sym] <= positions'[sym]
      BY <1>4, <2>1 DEF SalesOK
    <2>4. task[c].held[sym] \in Nat /\ positions[sym] \in Nat /\ positions'[sym] \in Nat
      BY <1>1, <1>4, <2>1, TaskFacts
    <2> QED
      BY <2>2, <2>3, <2>4
  <1> QED
    BY <1>5, <1>6, <1>7 DEF SalesOK, ExitKey

\* What an order fills, the account no longer has to cover.
LEMMA AdvanceSales ==
    ASSUME CloseoutInv, SalesOK, NEW k \in DOMAIN orders, NEW o \in OrderRecords, Advance(k, o),
           o.side = orders[k].side, o.symbol = orders[k].symbol, o.qty = orders[k].qty,
           o.filled - orders[k].filled \in Nat,
           o.status \in WorkingStatuses => orders[k].status \in WorkingStatuses,
           \A c \in Callers : task'[c].held = task[c].held
    PROVE  SalesOK'
  <1> DEFINE n == o.filled - orders[k].filled
  <1>1. /\ o.symbol \in Symbols
        /\ o.filled \in Nat
        /\ o.qty \in Nat
        /\ o.side \in {"buy", "sell"}
        /\ positions \in [Symbols -> Nat]
        /\ orders[k] \in OrderRecords
        /\ orders[k].filled \in Nat
    BY DEF OrderRecords, CloseoutInv, AccountOK
  <1>2. /\ DOMAIN orders' = DOMAIN orders
        /\ orders'[k] = o
        /\ \A j \in DOMAIN orders \ {k} : orders'[j] = orders[j]
    BY DEF Advance
  <1>3. /\ o.side = "buy" => positions'[o.symbol] = positions[o.symbol] + n
        /\ o.side = "sell" => positions'[o.symbol] = positions[o.symbol] - n
        /\ \A sym \in Symbols \ {o.symbol} : positions'[sym] = positions[sym]
    BY <1>1 DEF Advance, Settle
  <1>4. n \in Nat /\ o.filled = orders[k].filled + n
    BY <1>1
  <1> HIDE DEF n
  <1>5. \A sym \in Symbols :
            (o.side = "sell" => sym # o.symbol) =>
                positions'[sym] \in Nat /\ positions[sym] <= positions'[sym]
    BY <1>1, <1>3, <1>4
  <1>6. \A j \in DOMAIN orders' : orders'[j].side = "sell" => j = ExitKey(orders'[j].symbol)
    <2>1. \A j \in DOMAIN orders :
              orders'[j].side = orders[j].side /\ orders'[j].symbol = orders[j].symbol
      BY <1>2
    <2> QED
      BY <1>2, <2>1 DEF SalesOK
  <1>7. \A j \in DOMAIN orders' : IsWorking(j)' /\ orders'[j].side = "sell" =>
            orders'[j].qty - orders'[j].filled <= positions'[orders'[j].symbol]
    <2> SUFFICES ASSUME NEW j \in DOMAIN orders', orders'[j].status \in WorkingStatuses,
                        orders'[j].side = "sell"
                 PROVE  orders'[j].qty - orders'[j].filled <= positions'[orders'[j].symbol]
      BY DEF IsWorking
    <2> DEFINE p == orders[j]
    <2>1. /\ j \in DOMAIN orders
          /\ p.status \in WorkingStatuses
          /\ p.side = "sell"
          /\ p.symbol \in Symbols
      BY <1>1, <1>2 DEF CloseoutInv, AccountOK, OrderRecords
    <2>2. /\ p.qty \in Nat
          /\ p.filled \in Nat
          /\ j = ExitKey(p.symbol)
          /\ p.qty - p.filled <= positions[p.symbol]
          /\ positions[p.symbol] \in Nat
      BY <1>1, <2>1 DEF SalesOK, CloseoutInv, AccountOK, OrderRecords, IsWorking
    <2>3. CASE j = k
      <3>1. /\ positions'[o.symbol] = positions[o.symbol] - n
            /\ o.qty - orders[k].filled <= positions[o.symbol]
            /\ positions[o.symbol] \in Int
        BY <1>3, <2>1, <2>2, <2>3
      <3>2. o.qty - o.filled <= positions'[o.symbol]
        BY <1>1, <1>4, <3>1
      <3> QED
        BY <1>2, <2>3, <3>2
    <2>4. CASE j # k
      <3>1. orders'[j] = p
        BY <1>2, <2>1, <2>4
      <3>2. o.side = "sell" => p.symbol # o.symbol
        <4> SUFFICES ASSUME o.side = "sell" PROVE p.symbol # o.symbol
          OBVIOUS
        <4>1. k = ExitKey(o.symbol)
          BY DEF SalesOK
        <4> QED
          BY <2>2, <2>4, <4>1
      <3> HIDE DEF p
      <3>3. p.qty - p.filled <= positions'[p.symbol]
        BY <1>5, <2>1, <2>2, <3>2
      <3> QED
        BY <3>1, <3>3
    <2> QED
      BY <2>3, <2>4
  <1>8. \A c \in Callers, sym \in Symbols :
            ExitKey(sym) \notin DOMAIN orders' => task'[c].held[sym] <= positions'[sym]
    <2> TAKE c \in Callers, sym \in Symbols
    <2> HAVE ExitKey(sym) \notin DOMAIN orders'
    <2>1. ExitKey(sym) \notin DOMAIN orders /\ (o.side = "sell" => sym # o.symbol)
      BY <1>2 DEF SalesOK
    <2>2. task'[c].held[sym] = task[c].held[sym]
      OBVIOUS
    <2>3. task[c].held[sym] <= positions[sym] /\ positions[sym] <= positions'[sym]
      BY <1>5, <2>1 DEF SalesOK
    <2>4. task[c].held[sym] \in Nat /\ positions[sym] \in Nat /\ positions'[sym] \in Nat
      BY <1>1, <1>5, <2>1, TaskFacts
    <2> QED
      BY <2>2, <2>3, <2>4
  <1> QED
    BY <1>6, <1>7, <1>8 DEF SalesOK, ExitKey

LEMMA TerminateSales ==
    ASSUME CloseoutInv, SalesOK, NEW k \in DOMAIN orders,
           NEW s \in {"cancelled", "expired", "rejected"}, Terminate(k, s),
           \A c \in Callers : task'[c].held = task[c].held
    PROVE  SalesOK'
  <1> DEFINE o == [orders[k] EXCEPT !.status = s]
  <1>1. orders[k] \in OrderRecords
    BY DEF CloseoutInv, AccountOK
  <1>2. /\ o \in OrderRecords
        /\ o.side = orders[k].side
        /\ o.symbol = orders[k].symbol
        /\ o.qty = orders[k].qty
        /\ o.filled - orders[k].filled \in Nat
        /\ o.status \notin WorkingStatuses
    BY <1>1 DEF OrderRecords, OrderStatuses, WorkingStatuses, TerminalStatuses
  <1>3. Advance(k, o)
    BY DEF Terminate
  <1> HIDE DEF o
  <1> QED
    BY <1>2, <1>3, AdvanceSales

\* The broker's own steps.
LEMMA BrokerSales ==
    ASSUME CloseoutInv, SalesOK, BrokerNext, UNCHANGED task
    PROVE  SalesOK'
  <1>1. PICK k \in DOMAIN orders :
            Accept(k) \/ Fill(k) \/ \E s \in EndStatuses : Terminate(k, s)
    BY DEF BrokerNext
  <1> DEFINE o == orders[k]
  <1>2. o \in OrderRecords /\ \A c \in Callers : task'[c].held = task[c].held
    BY <1>1 DEF CloseoutInv, AccountOK
  <1>3. CASE Accept(k)
    <2> DEFINE p == [o EXCEPT !.status = "accepted"]
    <2>1. /\ p \in OrderRecords
          /\ p.side = o.side
          /\ p.symbol = o.symbol
          /\ p.qty = o.qty
          /\ p.filled - o.filled \in Nat
      BY <1>2 DEF OrderRecords, OrderStatuses, WorkingStatuses
    <2>2. Advance(k, p) /\ o.status \in WorkingStatuses
      BY <1>3 DEF Accept, WorkingStatuses
    <2> HIDE DEF p
    <2> QED
      BY <1>2, <2>1, <2>2, AdvanceSales
  <1>4. CASE Fill(k)
    <2> DEFINE n == o.filled + 1
               reached == IF n = o.qty THEN "filled" ELSE "partially_filled"
               p == [o EXCEPT !.filled = n, !.status = reached]
    <2>1. n \in Nat /\ n - o.filled \in Nat /\ reached \in OrderStatuses
      BY <1>2 DEF OrderRecords, OrderStatuses, WorkingStatuses, TerminalStatuses
    <2>2. Advance(k, p) /\ o.status \in WorkingStatuses
      BY <1>4 DEF Fill, WorkingStatuses
    <2> HIDE DEF n, reached
    <2>3. /\ p \in OrderRecords
          /\ p.side = o.side
          /\ p.symbol = o.symbol
          /\ p.qty = o.qty
          /\ p.filled = n
      BY <1>2, <2>1 DEF OrderRecords
    <2> HIDE DEF p
    <2> QED
      BY <1>2, <2>1, <2>2, <2>3, AdvanceSales
  <1>5. CASE \E s \in EndStatuses : Terminate(k, s)
    BY <1>2, <1>5, TerminateSales, BrokerAssumption
  <1> QED
    BY <1>1, <1>3, <1>4, <1>5

\* Where a call reads or forgets what is held.
LEMMA CallSales ==
    ASSUME CloseoutInv, SalesOK, NEW c \in Callers, UNCHANGED brokerVars,
           \A d \in Callers \ {c} : task'[d] = task[d],
           \A sym \in Symbols : task'[c].held[sym] \in {task[c].held[sym], positions[sym], 0}
    PROVE  SalesOK'
  <1>1. HeldKept
    BY DEF HeldKept
  <1> QED
    BY <1>1, SameSales

LEMMA EndSales ==
    ASSUME CloseoutInv, SalesOK, NEW c \in Callers, NEW a, End(c, a), UNCHANGED brokerVars
    PROVE  SalesOK'
  <1>1. \A sym \in Symbols : Idle.held[sym] = 0
    BY DEF Idle, NothingHeld
  <1>2. task'[c] = Idle /\ \A d \in Callers \ {c} : task'[d] = task[d]
    BY DEF End, CloseoutInv, TypeOK
  <1> QED
    BY <1>1, <1>2, CallSales

LEMMA AfterAttemptSales ==
    ASSUME CloseoutInv, SalesOK, NEW c \in Callers, NEW n, AfterAttempt(c, n),
           UNCHANGED brokerVars
    PROVE  SalesOK'
  <1>1. task[c] \in Tasks /\ task \in [Callers -> Tasks] /\ task[c].held \in [Symbols -> Nat]
    BY TaskFacts DEF CloseoutInv, TypeOK
  <1>2. CASE task[c].rejected /\ n < MaxExitAttempts
    <2> DEFINE t == [task[c] EXCEPT !.phase = "retry", !.rounds = n]
    <2>1. task' = [task EXCEPT ![c] = t]
      BY <1>1, <1>2 DEF AfterAttempt
    <2>2. t.held = task[c].held
      BY <1>1 DEF Tasks
    <2> HIDE DEF t
    <2>3. task'[c] = t /\ \A d \in Callers \ {c} : task'[d] = task[d]
      BY <1>1, <2>1
    <2> QED
      BY <2>2, <2>3, CallSales
  <1>3. CASE ~(task[c].rejected /\ n < MaxExitAttempts)
    <2> DEFINE held == [task[c].held EXCEPT ![Selling(c)] = 0]
               t == [task[c] EXCEPT !.held = held, !.rounds = 0,
                         !.phase = IF held = NothingHeld THEN "verify" ELSE "submit"]
    <2>1. task' = [task EXCEPT ![c] = t]
      BY <1>1, <1>3 DEF AfterAttempt, Continue
    <2>2. \A sym \in Symbols : held[sym] \in {task[c].held[sym], 0}
      BY <1>1
    <2> HIDE DEF held
    <2>3. t.held = held
      BY <1>1 DEF Tasks
    <2> HIDE DEF t
    <2>4. task'[c] = t /\ \A d \in Callers \ {c} : task'[d] = task[d]
      BY <1>1, <2>1
    <2> QED
      BY <2>2, <2>3, <2>4, CallSales
  <1> QED
    BY <1>2, <1>3

\* The exit: one order of the symbol's key, for what the call read.
LEMMA SubmitSales == ASSUME CloseoutInv, SalesOK, NEW c \in Callers, Submit(c) PROVE SalesOK'
  <1> DEFINE sym == Selling(c)
             n == task[c].held[sym]
  <1>1. PICK s \in FirstStatuses :
            /\ s = "filled" => n <= positions[sym]
            /\ Place(ExitKey(sym),
                     [symbol |-> sym, side |-> "sell", qty |-> n,
                      filled |-> IF s = "filled" THEN n ELSE 0,
                      status |-> s, at |-> task[c].call])
            /\ task' = [task EXCEPT ![c].phase = "record", ![c].rejected = (s = "rejected")]
    BY DEF Submit, PlaceExit
  <1>2. sym \in Symbols /\ n \in Nat
    BY SellingOK, TaskFacts DEF Submit, In
  <1>3. positions[sym] \in Nat
    BY <1>2 DEF CloseoutInv, AccountOK
  <1> DEFINE f == IF s = "filled" THEN n ELSE 0
             o == [symbol |-> sym, side |-> "sell", qty |-> n, filled |-> f,
                   status |-> s, at |-> task[c].call]
  <1>4. f \in Nat /\ f <= positions[sym] /\ (s \in WorkingStatuses => f = 0)
    BY <1>1, <1>2, <1>3 DEF WorkingStatuses
  <1>5. s \in OrderStatuses /\ task[c].call \in Int
    BY <1>1, TaskFacts, BrokerAssumption, CloseoutAssumption
    DEF OrderStatuses, WorkingStatuses, TerminalStatuses, Tasks
  <1>6. ExitKey(sym) \notin DOMAIN orders /\ Place(ExitKey(sym), o)
    BY <1>1 DEF Place
  <1>7. n <= positions[sym]
    BY <1>2, <1>6 DEF SalesOK
  <1>8. \A d \in Callers : task'[d].held = task[d].held
    <2>1. task \in [Callers -> Tasks]
      BY DEF CloseoutInv, TypeOK
    <2> QED
      BY <1>1, <2>1 DEF Tasks
  <1> HIDE DEF f, n, sym
  <1>9. /\ o \in OrderRecords
        /\ o.side = "sell"
        /\ o.symbol = sym
        /\ o.filled = f
        /\ o.qty = n
        /\ o.status = s
    BY <1>2, <1>4, <1>5 DEF OrderRecords
  <1> HIDE DEF o
  <1> QED
    BY <1>4, <1>6, <1>7, <1>8, <1>9, PlaceSales

LEMMA StepSales == ASSUME CloseoutInv, SalesOK, NEW c \in Callers, Step(c) PROVE SalesOK'
  <1>1. task \in [Callers -> Tasks] /\ task[c] \in Tasks /\ positions \in [Symbols -> Nat]
    BY TaskFacts DEF CloseoutInv, TypeOK, AccountOK
  <1>2. CASE Poll(c) \/ ReadOrders(c)
    <2>1. \A d \in Callers : task'[d].held = task[d].held
      BY <1>1, <1>2 DEF Poll, ReadOrders, Tasks
    <2> QED
      BY <1>2, <2>1, SameSales DEF Poll, ReadOrders, HeldKept
  <1>3. CASE Cancel(c)
    <2>1. PICK k \in task[c].buys :
              /\ Terminate(k, "cancelled") \/ UNCHANGED brokerVars
              /\ task' = [task EXCEPT ![c].buys = @ \ {k},
                             ![c].phase = IF task[c].buys = {k} THEN "poll" ELSE @]
      BY <1>3 DEF Cancel
    <2>2. k \in DOMAIN orders
      BY <2>1, TaskFacts
    <2>3. \A d \in Callers : task'[d].held = task[d].held
      BY <1>1, <2>1 DEF Tasks
    <2> QED
      BY <2>1, <2>2, <2>3, TerminateSales, SameSales DEF HeldKept
  <1>4. CASE ReadPositions(c)
    <2>1. \A d \in Callers : task'[d].held \in {task[d].held, positions}
      BY <1>1, <1>4 DEF ReadPositions, Continue, Tasks
    <2> QED
      BY <1>4, <2>1, SameSales DEF ReadPositions, HeldKept
  <1>5. CASE Submit(c)
    BY <1>5, SubmitSales
  <1>6. CASE SubmitConflict(c)
    BY <1>6, EndSales DEF SubmitConflict
  <1>7. CASE Record(c) \/ Retry(c)
    BY <1>7, AfterAttemptSales DEF Record, Retry
  <1>8. CASE Verify(c)
    <2>1. \A d \in Callers : task'[d].held \in {task[d].held, positions}
      BY <1>1, <1>8 DEF Verify, Tasks
    <2> QED
      BY <1>8, <2>1, SameSales DEF Verify, HeldKept
  <1>9. CASE Incident(c)
    <2>1. CASE Goto(c, "mark")
      <3>1. \A d \in Callers : task'[d].held = task[d].held
        BY <1>1, <2>1 DEF Goto, Tasks
      <3> QED
        BY <1>9, <3>1, SameSales DEF Incident, HeldKept
    <2>2. CASE End(c, "conflict")
      BY <1>9, <2>2, EndSales DEF Incident
    <2> QED
      BY <1>9, <2>1, <2>2 DEF Incident
  <1>10. CASE Mark(c)
    <2>1. \E a \in {"closed", "blocked", "raised"} : End(c, a)
      BY <1>10 DEF Mark
    <2> QED
      BY <1>10, <2>1, EndSales DEF Mark
  <1> QED
    BY <1>2, <1>3, <1>4, <1>5, <1>6, <1>7, <1>8, <1>9, <1>10 DEF Step

LEMMA SalesInit == Init => SalesOK
  <1> SUFFICES ASSUME Init PROVE SalesOK
    OBVIOUS
  <1>1. \A k \in DOMAIN orders : orders[k].side = "buy"
    BY DEF Init, Purchase
  <1>2. \A c \in Callers, sym \in Symbols : task[c].held[sym] <= positions[sym]
    <2>1. \A c \in Callers, sym \in Symbols : task[c].held[sym] = 0
      BY DEF Init, Idle, NothingHeld
    <2>2. \A sym \in Symbols : positions[sym] \in Nat
      BY CloseoutAssumption DEF Init
    <2> TAKE c \in Callers, sym \in Symbols
    <2>3. task[c].held[sym] = 0 /\ positions[sym] \in Nat
      BY <2>1, <2>2
    <2> QED
      BY <2>3
  <1> QED
    BY <1>1, <1>2 DEF SalesOK

LEMMA SalesNext == CloseoutInv /\ SalesOK /\ [Next]_vars => SalesOK'
  <1> SUFFICES ASSUME CloseoutInv, SalesOK, [Next]_vars PROVE SalesOK'
    OBVIOUS
  <1>1. CASE \E c \in Callers : Start(c) \/ Step(c) \/ Crash(c)
    <2>1. PICK c \in Callers : Start(c) \/ Step(c) \/ Crash(c)
      BY <1>1
    <2>2. CASE Start(c)
      <3>1. CASE MayBecome(status, "closeout")
        <4> DEFINE t == [Idle EXCEPT !.phase = "poll", !.call = calls + 1]
        <4>1. task' = [task EXCEPT ![c] = t] /\ UNCHANGED brokerVars
          BY <2>2, <3>1 DEF Start
        <4>2. \A sym \in Symbols : t.held[sym] = 0
          BY DEF Idle, NothingHeld
        <4> HIDE DEF t
        <4>3. task'[c] = t /\ \A d \in Callers \ {c} : task'[d] = task[d]
          BY <4>1 DEF CloseoutInv, TypeOK
        <4> QED
          BY <4>1, <4>2, <4>3, CallSales
      <3>2. CASE ~MayBecome(status, "closeout")
        BY <2>2, <3>2, EndSales DEF Start
      <3> QED
        BY <3>1, <3>2
    <2>3. CASE Crash(c)
      BY <2>3, EndSales DEF Crash
    <2>4. CASE Step(c)
      BY <2>4, StepSales
    <2> QED
      BY <2>1, <2>2, <2>3, <2>4
  <1>2. CASE \E sym \in Symbols : Enter(sym)
    <2>1. PICK sym \in Symbols : Enter(sym)
      BY <1>2
    <2> DEFINE o == Purchase(sym, MaxShares, "accepted")
    <2>2. Place(EntryKey(sym), o) /\ task' = task
      BY <2>1 DEF Enter, closeoutVars
    <2>3. o \in OrderRecords /\ o.side = "buy"
      BY CloseoutAssumption DEF Purchase, OrderRecords, OrderStatuses, WorkingStatuses
    <2> HIDE DEF o
    <2> QED
      BY <2>2, <2>3, PlaceSales
  <1>3. CASE BrokerNext /\ UNCHANGED closeoutVars
    BY <1>3, BrokerSales DEF closeoutVars
  <1>4. CASE UNCHANGED vars
    BY <1>4, SameSales DEF vars, closeoutVars, HeldKept
  <1> QED
    BY <1>1, <1>2, <1>3, <1>4 DEF Next

\* What is on sale is one exit per symbol, or nothing.
LEMMA SumOfNothing == ASSUME NEW sym PROVE
    {k \in DOMAIN orders : IsWorking(k) /\ orders[k].side = "sell" /\ orders[k].symbol = sym} = {}
        => OnSale(sym) = 0
  <1> DEFINE sales == {k \in DOMAIN orders :
                         IsWorking(k) /\ orders[k].side = "sell" /\ orders[k].symbol = sym}
             IsFold(f) == f = [s \in SUBSET sales |->
                            IF s = {} THEN 0
                            ELSE f[s \ {CHOOSE x \in s : TRUE}]
                                     + orders[CHOOSE x \in s : TRUE].qty
                                     - orders[CHOOSE x \in s : TRUE].filled]
             fold == CHOOSE f : IsFold(f)
  <1> SUFFICES ASSUME sales = {} PROVE OnSale(sym) = 0
    OBVIOUS
  <1>1. OnSale(sym) = fold[sales]
    BY DEF OnSale, FoldSet, MapThenFoldSet
  <1>2. IsFold([s \in SUBSET sales |-> 0])
    OBVIOUS
  <1>3. IsFold(fold)
    BY <1>2
  <1> QED
    BY <1>1, <1>3

LEMMA SumOfOne ==
    ASSUME NEW sym, NEW k,
           {j \in DOMAIN orders :
               IsWorking(j) /\ orders[j].side = "sell" /\ orders[j].symbol = sym} = {k},
           orders[k].qty \in Nat, orders[k].filled \in Nat
    PROVE  OnSale(sym) = orders[k].qty - orders[k].filled
  <1> DEFINE sales == {j \in DOMAIN orders :
                         IsWorking(j) /\ orders[j].side = "sell" /\ orders[j].symbol = sym}
             n == orders[k].qty - orders[k].filled
             IsFold(f) == f = [s \in SUBSET sales |->
                            IF s = {} THEN 0
                            ELSE f[s \ {CHOOSE x \in s : TRUE}]
                                     + orders[CHOOSE x \in s : TRUE].qty
                                     - orders[CHOOSE x \in s : TRUE].filled]
             fold == CHOOSE f : IsFold(f)
  <1>1. OnSale(sym) = fold[sales]
    BY DEF OnSale, FoldSet, MapThenFoldSet
  <1>2. SUBSET sales = {{}, {k}} /\ (CHOOSE x \in {k} : TRUE) = k /\ {k} \ {k} = {}
    OBVIOUS
  <1>3. n = 0 + orders[k].qty - orders[k].filled
    OBVIOUS
  <1>4. IsFold([s \in SUBSET sales |-> IF s = {} THEN 0 ELSE n])
    <2> HIDE DEF sales, n
    <2> QED
      BY <1>2, <1>3
  <1>5. IsFold(fold)
    BY <1>4
  <1>6. /\ {} \in SUBSET sales
        /\ {k} \in SUBSET sales
        /\ sales = {k}
    OBVIOUS
  <1>7. fold[{}] = 0 /\ fold[{k}] = fold[{}] + orders[k].qty - orders[k].filled
    <2> HIDE DEF sales, fold
    <2> QED
      BY <1>2, <1>5, <1>6
  <1> QED
    BY <1>1, <1>3, <1>6, <1>7

----------------------------------------------------------------------------
(***************************************************************************)
(* What follows from it.                                                   *)
(***************************************************************************)

\* Types: every call has a task of its phase and, at an exit, something to sell.
THEOREM TypeCorrect == Spec => []TypeOK
  <1>1. CloseoutInv => TypeOK
    BY DEF CloseoutInv
  <1> QED
    BY <1>1, InvariantHolds, PTL

\* However many callers close the session, and wherever a call is cut short, no
\* two calls return different verdicts (transition_session_status refuses).
THEOREM VerdictsCorrect == Spec => []VerdictsAgree
  <1>1. CloseoutInv => VerdictsAgree
    BY DEF CloseoutInv, VerdictOK, VerdictsAgree
  <1> QED
    BY <1>1, InvariantHolds, PTL

\* A session is blocked, and a call says so, only after append_incident.
THEOREM BlockedCorrect == Spec => []BlockedHasIncident
  <1>1. CloseoutInv => BlockedHasIncident
    BY DEF CloseoutInv, VerdictOK, BlockedHasIncident
  <1> QED
    BY <1>1, InvariantHolds, PTL

\* No purchase works on in a session that is closed, if no entry is placed
\* after the orders were read.
THEOREM NoWorkingBuyCorrect == Spec => []ClosedMeansNoWorkingBuy
  <1>1. CloseoutInv => ClosedMeansNoWorkingBuy
    BY DEF CloseoutInv
  <1> QED
    BY <1>1, InvariantHolds, PTL

\* A call that says closed found the account flat: each holding is a purchase
\* that was not over at its last look at the positions.
LEMMA ClosesFlat ==
    ASSUME CloseoutInv, Next, NEW c \in Callers, In(c, "mark"), answer'[c] = "closed"
    PROVE  \A sym \in HeldSymbols : \E k \in Buys \ task[c].over : orders[k].symbol = sym
  <1>1. answer[c] = "none" /\ answer \in [Callers -> Answers]
    BY DEF CloseoutInv, TypeOK, VerdictOK, In
  <1>2. PICK d \in Callers : Start(d) \/ Step(d) \/ Crash(d)
    BY <1>1 DEF Next, Enter, closeoutVars
  <1>3. d = c
    <2> SUFFICES ASSUME d # c PROVE answer'[c] = answer[c]
      BY <1>1
    <2>1. CASE Start(d) \/ Crash(d)
      BY <1>1, <2>1 DEF Start, Crash, End
    <2>2. CASE Poll(d) \/ Cancel(d) \/ ReadPositions(d) \/ Submit(d) \/ SubmitConflict(d)
      BY <1>1, <2>2 DEF Poll, Cancel, ReadPositions, Submit, SubmitConflict, End
    <2>3. CASE Record(d) \/ Retry(d) \/ Verify(d) \/ ReadOrders(d)
      BY <2>3 DEF Record, Retry, Verify, ReadOrders
    <2>4. CASE Incident(d) \/ Mark(d)
      BY <1>1, <2>4 DEF Incident, Mark, End
    <2> QED
      BY <1>2, <2>1, <2>2, <2>3, <2>4 DEF Step
  <1>4. Mark(c)
    <2>1. ~Start(c)
      BY DEF Start, In
    <2>2. ~Crash(c)
      BY <1>1 DEF Crash, End
    <2>3. Step(c)
      BY <1>2, <1>3, <2>1, <2>2
    <2> QED
      BY <2>3
      DEF Step, In, Poll, Cancel, ReadPositions, Submit, SubmitConflict, Record, Retry, Verify,
          ReadOrders, Incident
  <1>5. IsClean(c)
    BY <1>1, <1>4 DEF Mark, End
  <1> QED
    BY <1>5 DEF CloseoutInv, ExposureOK, In, IsClean

\* The only exposure a closed session starts with is a fill that came after the
\* call's last look at the positions.
THEOREM LateFillCorrect == Spec => ClosedExposureIsLateFill
  <1>1. CloseoutInv /\ [Next]_vars =>
          [\A c \in Callers :
              In(c, "mark") /\ answer'[c] = "closed" =>
                  \A sym \in HeldSymbols : \E k \in Buys \ task[c].over : orders[k].symbol = sym]_vars
    BY ClosesFlat
  <1> QED
    BY <1>1, InvariantHolds, PTL DEF Spec, ClosedExposureIsLateFill

\* However many calls close the session, at the same time or again after a
\* crash, what is on sale is held: the exit's key (closeout.py's client order
\* id) names the session and the symbol only, so there is one exit of a symbol,
\* and it was placed for no more than the account held then.
THEOREM NeverOversoldCorrect == Spec => []NeverOversold
  <1>1. CloseoutInv /\ SalesOK => NeverOversold
    <2> SUFFICES ASSUME CloseoutInv, SalesOK, NEW sym \in Symbols
                 PROVE  OnSale(sym) <= positions[sym]
      BY DEF NeverOversold
    <2> DEFINE sales == {k \in DOMAIN orders :
                           IsWorking(k) /\ orders[k].side = "sell" /\ orders[k].symbol = sym}
    <2>1. positions[sym] \in Nat
      BY DEF CloseoutInv, AccountOK
    <2>2. CASE sales = {}
      BY <2>1, <2>2, SumOfNothing
    <2>3. CASE sales # {}
      <3>1. PICK k \in sales : TRUE
        BY <2>3
      <3>2. sales = {k}
        BY <3>1 DEF SalesOK
      <3>3. orders[k].qty \in Nat /\ orders[k].filled \in Nat
        BY <3>1 DEF CloseoutInv, AccountOK, OrderRecords
      <3>4. orders[k].qty - orders[k].filled <= positions[sym]
        BY <3>1 DEF SalesOK
      <3> QED
        BY <3>2, <3>3, <3>4, SumOfOne
    <2> QED
      BY <2>2, <2>3
  <1>2. Spec => []SalesOK
    BY SalesInit, SalesNext, InvariantHolds, PTL DEF Spec
  <1> QED
    BY <1>1, <1>2, InvariantHolds, PTL

=============================================================================
