---------------------------- MODULE BacktestProofs ----------------------------
(***************************************************************************)
(* Proofs about the backtest engine, for any symbols, bars, session length, *)
(* limits and number of sessions: runtime, account and orders agree, the   *)
(* engine raises none of its errors, all is flat by the closeout, cooldowns *)
(* are honoured, no fill uses the bar its order was signalled in, and what *)
(* is reserved is covered by cash.                                         *)
(*                                                                         *)
(* At the end, for what follows a backtest: the forward evaluation, whose  *)
(* quality scores are sums like the engine's reserved cash and whose       *)
(* proofs use the same lemmas about them.                                  *)
(***************************************************************************)
EXTENDS BacktestInvariant, ForwardInvariant, FiniteSetTheorems, WellFoundedInduction, TLAPS

Stages == {"rows", "orders", "risk", "cancel", "force", "next", "leftover", "closed"}

Reasons == {"entry_signal", "exit_signal", "stop_loss", "take_profit", "max_holding",
            "session_close"}

Ids == [session : Nat, symbol : Symbols, reason : Reasons, signal : Nat]

Orders == [id : Ids, quantity : Nat \ {0}, limit : Int]

Reserved == [id : Ids, symbol : Symbols, side : {"buy", "sell"}, quantity : Nat, cash : Int]

Positions == [quantity : Nat, cost : Int]

Accounts == [cash : Int, held : [Symbols -> Positions], reservations : SUBSET Reserved]

States == [phase : Phase, entries : Nat, openedAt : Int, cooldownUntil : Int]

BooksType ==
    /\ runtime \in [Symbols -> States]
    /\ account \in Accounts
    /\ pending \in SUBSET Orders /\ issued \in SUBSET Ids
    /\ lastExit \in [Symbols -> Int]

ClockType ==
    /\ session \in Nat /\ minute \in Nat /\ minute <= Close
    /\ stage \in Stages
    /\ stage \in {"rows", "risk", "force"} => todo \in SUBSET Symbols
    /\ stage \in {"orders", "cancel", "leftover"} => todo \in SUBSET Ids
    /\ bar \in [Symbols -> Bars]

\* What BooksAgree says of a symbol, and what the cooldown rests on.
PhaseOK(s) ==
    LET phase == runtime[s].phase
        orders == PendingOf(s)
    IN  /\ phase \in {"LONG", "EXIT_PENDING"} <=> s \in Holding(account)
        /\ phase = "ENTRY_PENDING" => \E o \in orders : orders = {o} /\ Side(o) = "buy"
        /\ phase = "EXIT_PENDING" =>
             \E o \in orders : /\ orders = {o} /\ Side(o) = "sell"
                               /\ o.quantity = account.held[s].quantity
        /\ phase \notin {"ENTRY_PENDING", "EXIT_PENDING"} => orders = {}

CooldownOK(s) ==
    lastExit[s] # NoTime =>
        /\ runtime[s].phase = "COOLDOWN" => runtime[s].cooldownUntil = lastExit[s] + Cooldown
        /\ runtime[s].phase \in {"FLAT", "ENTRY_PENDING"} => minute >= lastExit[s] + Cooldown
        /\ \A o \in PendingOf(s) : Side(o) = "buy" => o.id.signal >= lastExit[s] + Cooldown

OpenOK(s) == stage # "closed" => runtime[s].phase # "SESSION_CLOSED"

SymbolOK(s) == PhaseOK(s) /\ CooldownOK(s) /\ OpenOK(s)

\* Where the walk through the minutes is.
StageInv ==
    /\ stage \in {"leftover", "closed"} <=> minute = Close
    /\ stage = "rows" /\ todo # {} => minute < CloseoutSignal
    /\ stage = "orders" => \A id \in todo : id.signal < minute
    /\ stage = "risk" => minute < CloseoutSignal
    /\ stage \in {"cancel", "force"} => minute = CloseoutSignal
    /\ stage = "next" => minute > CloseoutSignal
    /\ stage = "closed" => todo = {}

\* An id that may be asked for was not asked for before.
IdOK(id) ==
    /\ id.session <= session
    /\ id.session = session =>
          /\ id.signal <= minute + 1
          /\ stage # "risk" => id.signal <= minute
          /\ id.reason \in {"entry_signal", "exit_signal"} => id.signal <= minute
          /\ id.reason = "session_close" => stage = "force" \/ minute > CloseoutSignal
          /\ stage = "rows" /\ id.symbol \in todo =>
                ~(id.reason \in {"entry_signal", "exit_signal"} /\ id.signal = minute)
          /\ stage = "risk" /\ id.symbol \in todo => id.signal <= minute
          /\ stage = "force" /\ id.symbol \in todo => id.reason # "session_close"

\* The closeout: orders are cancelled, what is held is sold by forced orders,
\* and these are the only ones left for the minute of the closeout.
Empty == Holding(account) = {} /\ pending = {} /\ account.reservations = {}

AfterCloseout ==
    minute > CloseoutTime \/ (minute = CloseoutTime /\ stage \notin {"rows", "orders"})

CloseInv ==
    /\ stage = "cancel" => PendingIds \subseteq todo
    /\ stage = "force" =>
          /\ \A o \in pending : Forced(o) /\ o.id.signal = minute
          /\ \A s \in Symbols : runtime[s].phase = "LONG" <=> s \in todo
    /\ minute = CloseoutTime /\ stage \in {"rows", "orders"} =>
          /\ \A o \in pending : Forced(o) /\ o.id.signal < minute
          /\ \A s \in Symbols : runtime[s].phase # "LONG"
          /\ stage = "orders" => PendingIds \subseteq todo
    /\ AfterCloseout => Empty

EngineInv ==
    /\ failure = "none"
    /\ ClockType /\ BooksType
    /\ ReservationsMatchOrders
    /\ \A s \in Symbols : SymbolOK(s)
    /\ StageInv
    /\ \A id \in issued : IdOK(id)
    /\ CloseInv

----------------------------------------------------------------------------
(***************************************************************************)
(* Sums, times and prices                                                  *)
(***************************************************************************)

\* What the community modules' sum over a set unfolds to: the sum of the
\* weights w over every subset of S, taken in the order of CHOOSE.
First(s) == CHOOSE x \in s : TRUE

IsTotal(f, w, S) ==
    f = [s \in SUBSET S |-> IF s = {} THEN 0 ELSE w[First(s)] + f[s \ {First(s)}]]

LEMMA FirstIsIn == \A s : s # {} => First(s) \in s
  BY DEF First

\* Of the subsets of a finite set in a nonempty collection, one has no proper
\* subset in it: the induction of the lemmas below.
LEMMA SmallestSubset ==
    ASSUME NEW S, IsFiniteSet(S), NEW T, T \subseteq SUBSET S, T # {}
    PROVE  \E s \in T : \A t \in T : t \subseteq s => t = s
<1>1. FiniteSubsetsOf(S) = SUBSET S
  BY FS_FiniteSubsetsOfFinite
<1>2. IsWellFoundedOn(StrictSubsetOrdering(S), SUBSET S)
  BY <1>1, FS_StrictSubsetOrderingWellFounded
<1>3. PICK s \in T : \A t \in T : ~ (<<t, s>> \in StrictSubsetOrdering(S))
  BY <1>2, WFMin
<1>4. \A t \in T : t \subseteq s => t = s
  BY <1>3 DEF StrictSubsetOrdering
<1> QED
  BY <1>4

LEMMA TotalUnfolds ==
    ASSUME NEW f, NEW w, NEW S, IsTotal(f, w, S)
    PROVE  /\ f[{}] = 0
           /\ \A s \in SUBSET S : s # {} => f[s] = w[First(s)] + f[s \ {First(s)}]
<1>1. f = [s \in SUBSET S |-> IF s = {} THEN 0 ELSE w[First(s)] + f[s \ {First(s)}]]
  BY DEF IsTotal
<1>2. {} \in SUBSET S
  OBVIOUS
<1> QED
  BY <1>1, <1>2

\* The sums over the subsets of two sets agree where both are defined.
LEMMA TotalsAgree ==
    ASSUME NEW f, NEW g, NEW w, NEW S, NEW T, IsFiniteSet(S),
           IsTotal(f, w, S), IsTotal(g, w, T)
    PROVE  \A s \in SUBSET (S \cap T) : f[s] = g[s]
<1> DEFINE bad == {s \in SUBSET (S \cap T) : f[s] # g[s]}
<1> SUFFICES ASSUME bad # {} PROVE FALSE
  OBVIOUS
<1>1. bad \subseteq SUBSET S
  OBVIOUS
<1> HIDE DEF bad
<1>2. PICK s \in bad : \A t \in bad : t \subseteq s => t = s
  BY <1>1, SmallestSubset
<1>3. s \in SUBSET S /\ s \in SUBSET T /\ f[s] # g[s]
  BY DEF bad
<1>4. s # {}
  BY <1>3, TotalUnfolds
<1>5. PICK x \in s : x = First(s)
  BY <1>4, FirstIsIn
<1>6. f[s] = w[x] + f[s \ {x}] /\ g[s] = w[x] + g[s \ {x}]
  BY <1>3, <1>4, <1>5, TotalUnfolds
<1>7. s \ {x} \notin bad
  BY <1>2
<1>8. f[s \ {x}] = g[s \ {x}]
  BY <1>3, <1>7 DEF bad
<1> QED
  BY <1>3, <1>6, <1>8

LEMMA TotalExists ==
    ASSUME NEW S, IsFiniteSet(S), NEW w, \A x \in S : w[x] \in Int
    PROVE  \E f \in [SUBSET S -> Int] : IsTotal(f, w, S)
<1> DEFINE Good(s, f) == f \in [SUBSET s -> Int] /\ IsTotal(f, w, s)
           bad == {s \in SUBSET S : ~ \E f : Good(s, f)}
<1> SUFFICES ASSUME bad # {} PROVE FALSE
  OBVIOUS
<1>1. bad \subseteq SUBSET S
  OBVIOUS
<1> HIDE DEF bad
<1>2. PICK s \in bad : \A t \in bad : t \subseteq s => t = s
  BY <1>1, SmallestSubset
<1> DEFINE sum(t) == CHOOSE f : Good(t, f)
           last == First(s)
           value(t) == IF t = {} THEN 0
                       ELSE IF t = s THEN w[last] + sum(s \ {last})[s \ {last}]
                       ELSE sum(t)[t]
           g == [t \in SUBSET s |-> value(t)]
<1>3. s \in SUBSET S /\ IsFiniteSet(s)
  BY <1>1, FS_Subset
<1>4. \A t \in SUBSET s : t # s => Good(t, sum(t))
  <2> TAKE t \in SUBSET s
  <2> HAVE t # s
  <2>1. t \notin bad /\ t \in SUBSET S
    BY <1>2, <1>3
  <2>2. \E f : Good(t, f)
    BY <2>1 DEF bad
  <2> HIDE DEF Good
  <2> QED
    BY <2>2
<1>5. s # {} => last \in s
  BY FirstIsIn
<1> HIDE DEF sum, last
<1>6. \A t \in SUBSET s : value(t) \in Int
  <2> TAKE t \in SUBSET s
  <2>1. CASE t = s /\ s # {}
    <3>1. Good(s \ {last}, sum(s \ {last})) /\ last \in S
      BY <1>3, <1>4, <1>5, <2>1
    <3>2. sum(s \ {last})[s \ {last}] \in Int /\ w[last] \in Int
      BY <3>1
    <3> QED
      BY <2>1, <3>2
  <2>2. CASE t # s
    <3>1. sum(t)[t] \in Int
      BY <1>4, <2>2
    <3> QED
      BY <2>2, <3>1
  <2>3. CASE t = {}
    BY <2>3
  <2> QED
    BY <2>1, <2>2, <2>3
<1>7. \A t \in SUBSET s : t # {} =>
          value(t) = w[First(t)] + value(t \ {First(t)})
  <2> TAKE t \in SUBSET s
  <2> HAVE t # {}
  <2>1. PICK x \in t : x = First(t)
    BY FirstIsIn
  <2> DEFINE r == t \ {x}
  <2>2. r \in SUBSET s /\ r # s /\ x \in S
    BY <1>3
  <2>3. Good(r, sum(r))
    BY <1>4, <2>2
  <2>4. value(r) = sum(r)[r]
    <3>1. r = {} => sum(r)[r] = 0
      BY <2>3, TotalUnfolds
    <3> QED
      BY <2>2, <3>1
  <2>5. value(t) = w[x] + sum(r)[r]
    <3>1. CASE t = s
      BY <2>1, <3>1 DEF last
    <3>2. CASE t # s
      <4>1. Good(t, sum(t))
        BY <1>4, <3>2
      <4>2. sum(t)[t] = w[x] + sum(t)[r]
        BY <2>1, <4>1, TotalUnfolds
      <4>3. IsFiniteSet(t) /\ r \in SUBSET (t \cap r)
        BY <1>3, FS_Subset
      <4>4. IsTotal(sum(t), w, t) /\ IsTotal(sum(r), w, r)
        BY <2>3, <4>1
      <4>5. sum(t)[r] = sum(r)[r]
        BY <4>3, <4>4, TotalsAgree
      <4>6. value(t) = sum(t)[t]
        BY <3>2
      <4> QED
        BY <4>2, <4>5, <4>6
    <3> QED
      BY <3>1, <3>2
  <2> HIDE DEF value
  <2> QED
    BY <2>1, <2>4, <2>5
<1>8. \A t \in SUBSET s : \A x \in t : t \ {x} \in SUBSET s
  OBVIOUS
<1>9. value({}) = 0
  OBVIOUS
<1> HIDE DEF value
<1>10. \A t \in SUBSET s : g[t] = IF t = {} THEN 0 ELSE w[First(t)] + g[t \ {First(t)}]
  <2> TAKE t \in SUBSET s
  <2>1. CASE t = {}
    BY <1>9, <2>1
  <2>2. CASE t # {}
    <3>1. PICK x \in t : x = First(t)
      BY <2>2, FirstIsIn
    <3>2. g[t] = value(t) /\ g[t \ {x}] = value(t \ {x})
      BY <1>8
    <3> QED
      BY <1>7, <2>2, <3>1, <3>2
  <2> QED
    BY <2>1, <2>2
<1>11. IsTotal(g, w, s)
  <2> DEFINE h == [t \in SUBSET s |-> IF t = {} THEN 0 ELSE w[First(t)] + g[t \ {First(t)}]]
  <2>1. g = h
    BY <1>10
  <2> HIDE DEF g
  <2> QED
    BY <2>1 DEF IsTotal
<1>12. g \in [SUBSET s -> Int]
  BY <1>6
<1>13. Good(s, g)
  BY <1>11, <1>12
<1> HIDE DEF Good, g
<1> QED
  BY <1>2, <1>13 DEF bad

\* The order of the summands does not matter: any one may be taken out first.
LEMMA TotalWithout ==
    ASSUME NEW f, NEW w, NEW S, IsFiniteSet(S), IsTotal(f, w, S),
           \A s \in SUBSET S : f[s] \in Int, \A x \in S : w[x] \in Int, NEW y \in S
    PROVE  f[S] = w[y] + f[S \ {y}]
<1> DEFINE bad == {s \in SUBSET S : \E x \in s : f[s] # w[x] + f[s \ {x}]}
<1> SUFFICES ASSUME bad # {} PROVE FALSE
  <2>1. S \in SUBSET S
    OBVIOUS
  <2> QED
    BY <2>1
<1>1. bad \subseteq SUBSET S
  OBVIOUS
<1> HIDE DEF bad
<1>2. PICK s \in bad : \A t \in bad : t \subseteq s => t = s
  BY <1>1, SmallestSubset
<1>3. PICK x \in s : f[s] # w[x] + f[s \ {x}]
  BY <1>2 DEF bad
<1>4. s \in SUBSET S /\ s # {}
  BY <1>1, <1>2, <1>3
<1>5. PICK c \in s : f[s] = w[c] + f[s \ {c}]
  <2>1. First(s) \in s
    BY FirstIsIn
  <2>2. \A t \in SUBSET S : t # {} => f[t] = w[First(t)] + f[t \ {First(t)}]
    BY TotalUnfolds
  <2>3. f[s] = w[First(s)] + f[s \ {First(s)}]
    BY <1>4, <2>2
  <2> QED
    BY <2>1, <2>3
<1>6. c # x
  BY <1>3, <1>5
<1>7. /\ s \ {c} \in SUBSET S /\ s \ {c} \notin bad /\ x \in s \ {c}
      /\ s \ {x} \in SUBSET S /\ s \ {x} \notin bad /\ c \in s \ {x}
  BY <1>2, <1>4, <1>6
<1>8. f[s \ {c}] = w[x] + f[(s \ {c}) \ {x}]
  BY <1>7 DEF bad
<1>9. f[s \ {x}] = w[c] + f[(s \ {x}) \ {c}]
  BY <1>7 DEF bad
<1>10. (s \ {c}) \ {x} = (s \ {x}) \ {c} /\ (s \ {x}) \ {c} \in SUBSET S
  BY <1>4
<1> DEFINE rest == f[(s \ {x}) \ {c}]
<1>11. rest \in Int /\ w[x] \in Int /\ w[c] \in Int
  BY <1>4, <1>10
<1>12. f[s] = w[c] + (w[x] + rest) /\ f[s \ {x}] = w[c] + rest
  BY <1>5, <1>8, <1>9, <1>10
<1> HIDE DEF rest
<1> QED
  BY <1>3, <1>11, <1>12

\* A sum of natural numbers is one.
LEMMA TotalIsNat ==
    ASSUME NEW f, NEW w, NEW S, IsFiniteSet(S), IsTotal(f, w, S),
           \A x \in S : w[x] \in Nat
    PROVE  \A s \in SUBSET S : f[s] \in Nat
<1> DEFINE bad == {s \in SUBSET S : f[s] \notin Nat}
<1> SUFFICES ASSUME bad # {} PROVE FALSE
  OBVIOUS
<1>1. bad \subseteq SUBSET S
  OBVIOUS
<1> HIDE DEF bad
<1>2. PICK s \in bad : \A t \in bad : t \subseteq s => t = s
  BY <1>1, SmallestSubset
<1>3. s \in SUBSET S /\ f[s] \notin Nat
  BY <1>1, <1>2 DEF bad
<1>4. s # {}
  <2>1. f[{}] \in Nat
    BY TotalUnfolds
  <2> QED
    BY <1>3, <2>1
<1>5. PICK c \in s : f[s] = w[c] + f[s \ {c}]
  BY <1>3, <1>4, FirstIsIn, TotalUnfolds
<1>6. s \ {c} \in SUBSET S /\ s \ {c} \notin bad /\ c \in S
  BY <1>2, <1>3
<1>7. f[s \ {c}] \in Nat /\ w[c] \in Nat
  BY <1>6 DEF bad
<1> QED
  BY <1>3, <1>5, <1>7

\* A sum over nothing is 0: the recursive function of the sum exists.
LEMMA EmptySum ==
    ASSUME NEW book, NEW symbol,
           {r \in book.reservations : r.side = "sell" /\ r.symbol = symbol} = {}
    PROVE  ReservedShares(book, symbol) = 0
<1> DEFINE S == {r \in book.reservations : r.side = "sell" /\ r.symbol = symbol}
           IsSum(f) == f = [s \in SUBSET S |->
                              IF s = {} THEN 0
                              ELSE (CHOOSE x \in s : TRUE).quantity
                                       + f[s \ {CHOOSE x \in s : TRUE}]]
           sum == CHOOSE f : IsSum(f)
<1>1. ReservedShares(book, symbol) = sum[S]
  BY DEF ReservedShares, MapThenSumSet, MapThenFoldSet
<1>2. IsSum([s \in SUBSET S |-> 0])
  OBVIOUS
<1>3. IsSum(sum)
  BY <1>2
<1> QED
  BY <1>1, <1>3

LEMMA Times ==
    /\ Close \in Nat /\ CloseoutTime \in Nat /\ CloseoutSignal \in Nat
    /\ CloseoutTime = CloseoutSignal + 1 /\ CloseoutTime < Close
BY ClockAssumption DEF ClockIsOfficial, CloseoutTime, CloseoutSignal

LEMMA Prices ==
    ASSUME BooksType, ClockType, NEW s \in Symbols, NEW side
    PROVE  /\ bar[s].open \in Int /\ bar[s].close \in Int
           /\ Worse(side, bar[s].open) \in Int /\ Worse(side, bar[s].close) \in Int
<1>1. bar[s] \in Bars
  BY DEF ClockType
<1>2. bar[s].open \in Nat /\ bar[s].close \in Nat /\ Impact \in Nat
  BY <1>1, MoneyAssumption DEF IsMinuteBar
<1> QED
  BY <1>2 DEF Worse

LEMMA FlatFacts ==
    ASSUME BooksType, NEW s \in Symbols
    PROVE  /\ account.held[s] \in Positions /\ account.held[s].quantity \in Nat
           /\ s \in Holding(account) <=> account.held[s].quantity > 0
BY DEF BooksType, Accounts, Positions, Holding

----------------------------------------------------------------------------
(***************************************************************************)
(* An order is submitted                                                   *)
(***************************************************************************)

Asked(s, reason, signal, reference, quantity) ==
    [id |-> OrderId(s, reason, signal), quantity |-> quantity,
     limit |-> Worse(SideOf(reason), reference)]

\* A step that leaves every symbol but one alone.
OnlyOf(s) ==
    \A u \in Symbols \ {s} :
        /\ runtime'[u] = runtime[u] /\ account'.held[u] = account.held[u]
        /\ PendingOf(u)' = PendingOf(u) /\ lastExit'[u] = lastExit[u]

LEMMA OrderIsNew ==
    ASSUME BooksType, ReservationsMatchOrders, NEW id, ReservationOf(account, id) = {}
    PROVE  id \notin PendingIds
BY DEF ReservationsMatchOrders, PendingIds, ReservationOf, Reservation

\* The reservation is made: one more order, and the phase moves.
LEMMA Granted ==
    ASSUME BooksType, ReservationsMatchOrders, session \in Nat,
           NEW s \in Symbols, NEW reason \in Reasons, NEW signal \in Nat,
           NEW reference \in Int, NEW quantity \in Nat \ {0},
           Worse(SideOf(reason), reference) \in Int,
           LET id == OrderId(s, reason, signal)
               price == Worse(SideOf(reason), reference)
           IN  /\ ReservationOf(account, id) = {}
               /\ account' = Reserve(account, id, s, SideOf(reason), quantity, price)
               /\ issued' = issued \cup {id}
               /\ pending' = pending \cup {Asked(s, reason, signal, reference, quantity)}
    PROVE  /\ account' \in Accounts /\ pending' \in SUBSET Orders /\ issued' \in SUBSET Ids
           /\ account'.held = account.held
           /\ ReservationsMatchOrders'
           /\ \A u \in Symbols \ {s} : PendingOf(u)' = PendingOf(u)
           /\ PendingOf(s)' = PendingOf(s) \cup {Asked(s, reason, signal, reference, quantity)}
<1> DEFINE id == OrderId(s, reason, signal)
           side == SideOf(reason)
           price == Worse(side, reference)
           o == Asked(s, reason, signal, reference, quantity)
           cash == IF side = "buy" THEN quantity * price ELSE 0
           r == Reservation(id, s, side, quantity, cash)
<1>1. id \in Ids /\ id.symbol = s /\ id.reason = reason
  BY DEF OrderId, Ids
<1>2. side \in {"buy", "sell"}
  BY DEF SideOf
<1>3. o.id = id /\ o.quantity = quantity /\ o.limit = price /\ Side(o) = side
  BY <1>1 DEF Asked, Side
<1>4. o \in Orders
  BY <1>1 DEF Asked, Orders
<1>5. price \in Int
  OBVIOUS
<1>6. account' = [account EXCEPT !.reservations = @ \cup {r}]
  BY DEF Reserve
<1>7. pending' = pending \cup {o} /\ issued' = issued \cup {id}
  OBVIOUS
<1>8. id \notin PendingIds
  BY OrderIsNew
<1>9. r = Reservation(o.id, o.id.symbol, Side(o), o.quantity,
                      IF Side(o) = "buy" THEN o.quantity * o.limit ELSE 0)
  BY <1>1, <1>3
<1> HIDE DEF id, side, price, o
<1>10. cash \in Int
  BY <1>5
<1> HIDE DEF cash
<1>11. r \in Reserved /\ r.id = id
  BY <1>1, <1>2, <1>10 DEF Reservation, Reserved
<1> HIDE DEF r
<1>12. account' \in Accounts /\ account'.held = account.held
       /\ account'.reservations = account.reservations \cup {r}
  BY <1>6, <1>11 DEF BooksType, Accounts
<1>13. ReservationsMatchOrders'
  <2>1. \A p \in pending' : Reservation(p.id, p.id.symbol, Side(p), p.quantity,
                IF Side(p) = "buy" THEN p.quantity * p.limit ELSE 0) \in account'.reservations
    BY <1>7, <1>9, <1>12 DEF ReservationsMatchOrders
  <2>2. \A q \in account'.reservations : q.id \in PendingIds'
    BY <1>3, <1>7, <1>11, <1>12 DEF ReservationsMatchOrders, PendingIds, o, id
  <2>3. \A q \in account.reservations : q.id # id
    BY <1>8 DEF ReservationsMatchOrders
  <2>4. \A q, t \in account'.reservations : q.id = t.id => q = t
    BY <1>11, <1>12, <2>3 DEF ReservationsMatchOrders
  <2> QED
    BY <2>1, <2>2, <2>4 DEF ReservationsMatchOrders, Side
<1>14. PendingOf(s)' = PendingOf(s) \cup {o} /\ \A u \in Symbols \ {s} : PendingOf(u)' = PendingOf(u)
  BY <1>1, <1>3, <1>7 DEF PendingOf
<1> QED
  BY <1>1, <1>4, <1>7, <1>12, <1>13, <1>14 DEF BooksType, o

LEMMA Moves ==
    ASSUME NEW state \in States, NEW to \in Phase
    PROVE  /\ Transition(state, to) \in States /\ Transition(state, to).phase = to
           /\ to \notin {"FLAT", "SESSION_CLOSED"} =>
                 Transition(state, to).cooldownUntil = state.cooldownUntil
<1>1. CASE to \in {"FLAT", "SESSION_CLOSED"}
  <2>1. Transition(state, to) =
            [state EXCEPT !.phase = to, !.openedAt = -1, !.cooldownUntil = -1]
    BY <1>1 DEF Transition, NoTime
  <2>2. Transition(state, to) =
            [phase |-> to, entries |-> state.entries, openedAt |-> -1, cooldownUntil |-> -1]
    BY <2>1 DEF States
  <2> QED
    BY <1>1, <2>2 DEF States
<1>2. CASE to \notin {"FLAT", "SESSION_CLOSED"}
  <2>1. Transition(state, to) = [state EXCEPT !.phase = to]
    BY <1>2 DEF Transition
  <2> QED
    BY <1>2, <2>1 DEF States
<1> QED
  BY <1>1, <1>2

\* The reservation is refused: the phase moves there and back.
LEMMA Refused ==
    ASSUME BooksType, NEW s \in Symbols, NEW reason \in Reasons, NEW state \in States,
           state.phase = IF reason = "entry_signal" THEN "FLAT" ELSE "LONG",
           NEW moved,
           moved = Transition(state, IF reason = "entry_signal" THEN "ENTRY_PENDING"
                                     ELSE "EXIT_PENDING")
    PROVE  /\ moved \in States
           /\ moved.phase = IF reason = "entry_signal" THEN "ENTRY_PENDING" ELSE "EXIT_PENDING"
           /\ OrderRejected(moved) \in States
           /\ OrderRejected(moved).phase = state.phase
<1>1. moved \in States
      /\ moved.phase = IF reason = "entry_signal" THEN "ENTRY_PENDING" ELSE "EXIT_PENDING"
  BY DEF Transition, States, Phase
<1>2. RejectionTarget(moved) = state.phase
  BY <1>1 DEF RejectionTarget
<1>3. OrderRejected(moved) = Transition(moved, state.phase)
  BY <1>2 DEF OrderRejected
<1>4. state.phase \in Phase
  BY DEF States
<1>5. OrderRejected(moved) \in States /\ OrderRejected(moved).phase = state.phase
  BY <1>1, <1>3, <1>4, Moves
<1> QED
  BY <1>1, <1>5

Before(reason) == IF reason = "entry_signal" THEN "FLAT" ELSE "LONG"

After(reason) == IF reason = "entry_signal" THEN "ENTRY_PENDING" ELSE "EXIT_PENDING"

\* An order that was not asked for before, from the phase that may ask for it.
LEMMA Submitted ==
    ASSUME BooksType, ReservationsMatchOrders, failure = "none", session \in Nat,
           NEW s \in Symbols, NEW reason \in Reasons, NEW signal \in Nat, NEW state \in States,
           NEW reference \in Int, NEW quantity \in Int,
           Worse(SideOf(reason), reference) \in Int,
           state.phase = Before(reason),
           OrderId(s, reason, signal) \notin issued,
           Submit(s, state, reason, signal, reference, quantity)
    PROVE  /\ BooksType' /\ ReservationsMatchOrders' /\ failure' = "none"
           /\ lastExit' = lastExit /\ account'.held = account.held
           /\ \A u \in Symbols \ {s} : runtime'[u] = runtime[u] /\ PendingOf(u)' = PendingOf(u)
           /\ issued' \subseteq issued \cup {OrderId(s, reason, signal)}
           /\ \/ /\ quantity \in Nat \ {0}
                 /\ runtime'[s].phase = After(reason)
                 /\ pending' = pending \cup {Asked(s, reason, signal, reference, quantity)}
                 /\ PendingOf(s)' = PendingOf(s) \cup {Asked(s, reason, signal, reference, quantity)}
              \/ /\ runtime'[s].phase = state.phase
                 /\ UNCHANGED <<account, pending>> /\ PendingOf(s)' = PendingOf(s)
                 /\ ~MayReserve(account, OrderId(s, reason, signal), s, SideOf(reason), quantity,
                                Worse(SideOf(reason), reference))
<1> DEFINE id == OrderId(s, reason, signal)
           side == SideOf(reason)
           price == Worse(side, reference)
           moved == Transition(state, After(reason))
           may == MayReserve(account, id, s, side, quantity, price)
<1>1. (IF side = "buy" THEN "ENTRY_PENDING" ELSE "EXIT_PENDING") = After(reason)
  BY DEF After, SideOf
<1>2. failure' = IF MayMove(state, After(reason)) THEN failure ELSE "illegal transition"
  BY <1>1 DEF Submit
<1>3. failure' = "none"
  BY <1>2 DEF MayMove, Before, After, PublicTransitions
<1>4. runtime' = [runtime EXCEPT ![s] = IF may THEN moved ELSE OrderRejected(moved)]
  BY <1>1 DEF Submit
<1>5. /\ moved \in States /\ moved.phase = After(reason)
      /\ OrderRejected(moved) \in States /\ OrderRejected(moved).phase = state.phase
  BY Refused DEF After, Before
<1> HIDE DEF moved
<1>6. runtime' \in [Symbols -> States] /\ \A u \in Symbols \ {s} : runtime'[u] = runtime[u]
  BY <1>4, <1>5 DEF BooksType
<1>7. runtime'[s] = IF may THEN moved ELSE OrderRejected(moved)
  BY <1>4 DEF BooksType
<1>8. lastExit' = lastExit
  BY DEF Submit
<1>9. CASE may
  <2>1. /\ account' = Reserve(account, id, s, side, quantity, price)
        /\ issued' = issued \cup {id}
        /\ pending' = pending \cup {Asked(s, reason, signal, reference, quantity)}
    BY <1>9 DEF Submit, Asked
  <2>2. quantity \in Nat \ {0} /\ ReservationOf(account, id) = {}
    BY <1>9 DEF MayReserve
  <2>3. /\ account' \in Accounts /\ pending' \in SUBSET Orders /\ issued' \in SUBSET Ids
        /\ account'.held = account.held
        /\ ReservationsMatchOrders'
        /\ \A u \in Symbols \ {s} : PendingOf(u)' = PendingOf(u)
        /\ PendingOf(s)' = PendingOf(s) \cup {Asked(s, reason, signal, reference, quantity)}
    BY <2>1, <2>2, Granted
  <2>4. BooksType'
    BY <1>6, <1>8, <2>3 DEF BooksType
  <2> QED
    BY <1>3, <1>5, <1>6, <1>7, <1>8, <1>9, <2>1, <2>2, <2>3, <2>4
<1>10. CASE ~may
  <2>1. UNCHANGED <<account, issued, pending>>
    BY <1>10 DEF Submit
  <2>2. ReservationsMatchOrders' /\ \A u \in Symbols : PendingOf(u)' = PendingOf(u)
    BY <2>1 DEF ReservationsMatchOrders, PendingOf, PendingIds
  <2>3. BooksType'
    BY <1>6, <1>8, <2>1 DEF BooksType
  <2> QED
    BY <1>3, <1>5, <1>6, <1>7, <1>8, <1>10, <2>1, <2>2, <2>3
<1> QED
  BY <1>9, <1>10

\* A position without a working order may always be sold whole.
LEMMA SaleIsReserved ==
    ASSUME BooksType, ReservationsMatchOrders, NEW s \in Symbols, s \in Holding(account),
           PendingOf(s) = {}, NEW id \in Ids, id.symbol = s, NEW price
    PROVE  MayReserve(account, id, s, "sell", account.held[s].quantity, price)
<1>1. \A r \in account.reservations : r.symbol # s
  <2> SUFFICES ASSUME NEW r \in account.reservations, r.symbol = s PROVE FALSE
    OBVIOUS
  <2>1. PICK o \in pending : o.id = r.id
    BY DEF ReservationsMatchOrders, PendingIds
  <2> DEFINE q == Reservation(o.id, o.id.symbol, Side(o), o.quantity,
                              IF Side(o) = "buy" THEN o.quantity * o.limit ELSE 0)
  <2>2. q \in account.reservations /\ q.id = r.id
    BY <2>1 DEF ReservationsMatchOrders, Reservation
  <2>3. q = r
    BY <2>2 DEF ReservationsMatchOrders
  <2>4. o.id.symbol = s
    BY <2>3 DEF Reservation
  <2> QED
    BY <2>4 DEF PendingOf
<1>2. \A r \in account.reservations : r.id # id
  <2> SUFFICES ASSUME NEW r \in account.reservations, r.id = id PROVE FALSE
    OBVIOUS
  <2>1. PICK o \in pending : o.id = r.id
    BY DEF ReservationsMatchOrders, PendingIds
  <2> QED
    BY <2>1 DEF PendingOf
<1>3. ReservedShares(account, s) = 0
  <2>1. {r \in account.reservations : r.side = "sell" /\ r.symbol = s} = {}
    BY <1>1
  <2> QED
    BY <2>1, EmptySum
<1>4. account.held[s].quantity \in Nat /\ account.held[s].quantity > 0
  BY FlatFacts
<1>5. ReservationOf(account, id) = {}
  BY <1>2 DEF ReservationOf
<1> QED
  BY <1>3, <1>4, <1>5 DEF MayReserve

----------------------------------------------------------------------------
(***************************************************************************)
(* An order leaves the books                                               *)
(***************************************************************************)

\* An order is the only one of its symbol, and the phase says which it is.
LEMMA OnlyOrder ==
    ASSUME BooksType, NEW o \in pending, NEW s \in Symbols, s = o.id.symbol, PhaseOK(s)
    PROVE  /\ PendingOf(s) = {o}
           /\ Side(o) \in {"buy", "sell"}
           /\ runtime[s].phase = IF Side(o) = "buy" THEN "ENTRY_PENDING" ELSE "EXIT_PENDING"
           /\ Side(o) = "sell" => o.quantity = account.held[s].quantity
<1>1. o \in PendingOf(s)
  BY DEF PendingOf
<1>2. Side(o) \in {"buy", "sell"}
  BY DEF Side, SideOf
<1>3. runtime[s].phase \in {"ENTRY_PENDING", "EXIT_PENDING"}
  BY <1>1 DEF PhaseOK
<1>4. CASE runtime[s].phase = "ENTRY_PENDING"
  <2>1. PICK p \in PendingOf(s) : PendingOf(s) = {p} /\ Side(p) = "buy"
    BY <1>4 DEF PhaseOK
  <2>2. p = o
    BY <1>1, <2>1
  <2> QED
    BY <1>4, <2>1, <2>2
<1>5. CASE runtime[s].phase = "EXIT_PENDING"
  <2>1. PICK p \in PendingOf(s) : /\ PendingOf(s) = {p} /\ Side(p) = "sell"
                                  /\ p.quantity = account.held[s].quantity
    BY <1>5 DEF PhaseOK
  <2>2. p = o
    BY <1>1, <2>1
  <2> QED
    BY <1>5, <2>1, <2>2
<1> QED
  BY <1>2, <1>3, <1>4, <1>5

LEMMA ItsReservation ==
    ASSUME BooksType, ReservationsMatchOrders, NEW o \in pending
    PROVE  \E r \in ReservationOf(account, o.id) : r.quantity = o.quantity
<1> DEFINE q == Reservation(o.id, o.id.symbol, Side(o), o.quantity,
                            IF Side(o) = "buy" THEN o.quantity * o.limit ELSE 0)
<1>1. q \in account.reservations
  BY DEF ReservationsMatchOrders
<1>2. q.id = o.id /\ q.quantity = o.quantity
  BY DEF Reservation
<1> QED
  BY <1>1, <1>2 DEF ReservationOf

LEMMA Left ==
    ASSUME BooksType, ReservationsMatchOrders,
           NEW o \in pending, NEW s \in Symbols, s = o.id.symbol, PendingOf(s) = {o},
           pending' = pending \ {o},
           account'.reservations = {r \in account.reservations : r.id # o.id}
    PROVE  /\ pending' \in SUBSET Orders
           /\ PendingOf(s)' = {} /\ \A u \in Symbols \ {s} : PendingOf(u)' = PendingOf(u)
           /\ ReservationsMatchOrders'
           /\ PendingIds' = PendingIds \ {o.id}
<1>1. \A p \in pending : p # o => p.id # o.id
  BY DEF PendingOf
<1>2. PendingOf(s)' = {} /\ \A u \in Symbols \ {s} : PendingOf(u)' = PendingOf(u)
  BY DEF PendingOf
<1>3. PendingIds' = PendingIds \ {o.id}
  BY <1>1 DEF PendingIds
<1>4. \A p \in pending' : Reservation(p.id, p.id.symbol, Side(p), p.quantity,
                IF Side(p) = "buy" THEN p.quantity * p.limit ELSE 0) \in account'.reservations
  <2> TAKE p \in pending'
  <2> DEFINE q == Reservation(p.id, p.id.symbol, Side(p), p.quantity,
                              IF Side(p) = "buy" THEN p.quantity * p.limit ELSE 0)
  <2>1. q \in account.reservations
    BY DEF ReservationsMatchOrders
  <2>2. q.id = p.id /\ p.id # o.id
    BY <1>1 DEF Reservation
  <2> HIDE DEF q
  <2>3. q \in account'.reservations
    BY <2>1, <2>2
  <2> QED
    BY <2>3 DEF q
<1>5. \A r \in account'.reservations : r.id \in PendingIds'
  BY <1>3 DEF ReservationsMatchOrders
<1>6. \A r, q \in account'.reservations : r.id = q.id => r = q
  BY DEF ReservationsMatchOrders
<1>7. ReservationsMatchOrders'
  BY <1>4, <1>5, <1>6 DEF ReservationsMatchOrders, Side
<1> QED
  BY <1>2, <1>3, <1>7 DEF BooksType

\* Where a fill leads, and where a refused fill or a cancellation.
LEMMA FilledStates ==
    ASSUME NEW state \in States, NEW time \in Nat
    PROVE  /\ EntryFilled(state, time) \in States /\ EntryFilled(state, time).phase = "LONG"
           /\ ExitFilled(state, time, Cooldown) \in States
           /\ ExitFilled(state, time, Cooldown).phase = "COOLDOWN"
           /\ ExitFilled(state, time, Cooldown).cooldownUntil = time + Cooldown
<1>1. /\ "LONG" \in Phase /\ "COOLDOWN" \in Phase /\ NoTime \in Int
      /\ time + Cooldown \in Int /\ time \in Int
  BY StrategyAssumption DEF Phase, NoTime
<1>2. state.entries + 1 \in Nat /\ state.entries \in Nat
  BY DEF States
<1> DEFINE entered == EntryFilled(state, time)
           exited == ExitFilled(state, time, Cooldown)
           n == state.entries + 1
           m == state.entries
           until == time + Cooldown
           long == "LONG"
           cooling == "COOLDOWN"
<1>3. entered = [state EXCEPT !.phase = long, !.entries = n, !.openedAt = time,
                              !.cooldownUntil = NoTime]
  BY DEF EntryFilled
<1>4. exited = [state EXCEPT !.phase = cooling, !.entries = m, !.openedAt = NoTime,
                             !.cooldownUntil = until]
  BY DEF ExitFilled, States
<1>5. long \in Phase /\ cooling \in Phase /\ n \in Nat /\ m \in Nat /\ until \in Int
  BY <1>1, <1>2
<1> HIDE DEF entered, exited, n, m, until, long, cooling
<1>6. entered \in States /\ entered.phase = long
  BY <1>1, <1>3, <1>5 DEF States
<1>7. exited \in States /\ exited.phase = cooling /\ exited.cooldownUntil = until
  BY <1>1, <1>4, <1>5 DEF States
<1> QED
  BY <1>6, <1>7 DEF entered, exited, until, long, cooling

LEMMA RejectedStates ==
    ASSUME NEW state \in States, state.phase \in {"ENTRY_PENDING", "EXIT_PENDING"}
    PROVE  /\ OrderRejected(state) \in States
           /\ OrderRejected(state).phase =
                IF state.phase = "ENTRY_PENDING" THEN "FLAT" ELSE "LONG"
           /\ MayMove(state, RejectionTarget(state))
<1> DEFINE to == IF state.phase = "ENTRY_PENDING" THEN "FLAT" ELSE "LONG"
<1>1. RejectionTarget(state) = to
  BY DEF RejectionTarget
<1>2. OrderRejected(state) = Transition(state, to)
  BY <1>1 DEF OrderRejected
<1>3. to \in Phase
  BY DEF Phase
<1>4. MayMove(state, to)
  BY DEF MayMove, PublicTransitions
<1> QED
  BY <1>1, <1>2, <1>3, <1>4, Moves

LEMMA Average ==
    ASSUME NEW p \in Positions, NEW q \in Nat \ {0}, NEW price \in Int
    PROVE  AverageCost(p, q, price) \in Int
<1> DEFINE x == p.quantity * p.cost + q * price
           y == p.quantity + q
<1>1. p.quantity \in Nat /\ p.cost \in Int
  BY DEF Positions
<1>2. p.quantity * p.cost \in Int /\ q * price \in Int
  BY <1>1
<1>3. x \in Int /\ y \in Int /\ y > 0
  BY <1>1, <1>2
<1>4. AverageCost(p, q, price) = x \div y
  BY DEF AverageCost
<1> HIDE DEF x, y
<1>5. x \div y \in Int
  BY <1>3
<1> QED
  BY <1>4, <1>5

\* What a fill does to the account.
LEMMA Paid ==
    ASSUME BooksType, NEW o \in pending, NEW s \in Symbols, NEW price \in Int,
           NEW side \in {"buy", "sell"},
           side = "sell" => o.quantity = account.held[s].quantity,
           account' = FillOrder(account, o.id, s, side, o.quantity, price)
    PROVE  /\ account' \in Accounts
           /\ account'.reservations = {r \in account.reservations : r.id # o.id}
           /\ \A u \in Symbols \ {s} : account'.held[u] = account.held[u]
           /\ account'.held[s].quantity =
                IF side = "buy" THEN account.held[s].quantity + o.quantity ELSE 0
<1> DEFINE q == o.quantity
           position == account.held[s]
           bought == [quantity |-> position.quantity + q, cost |-> AverageCost(position, q, price)]
           left == position.quantity - q
           kept == IF left = 0 THEN Flat ELSE [position EXCEPT !.quantity = left]
           after == IF side = "buy" THEN bought ELSE kept
           cash == IF side = "buy" THEN account.cash - q * price ELSE account.cash + q * price
           rest == {r \in account.reservations : r.id # o.id}
<1>1. q \in Nat \ {0} /\ position \in Positions /\ account.cash \in Int
  BY DEF BooksType, Orders, Accounts
<1>2. account' = [cash |-> cash, held |-> [account.held EXCEPT ![s] = after],
                  reservations |-> rest]
  BY DEF FillOrder, Release, BooksType, Accounts
<1>3. bought \in Positions /\ bought.quantity = position.quantity + q
  <2>1. AverageCost(position, q, price) \in Int
    BY <1>1, Average
  <2>2. position.quantity + q \in Nat
    BY <1>1 DEF Positions
  <2> QED
    BY <2>1, <2>2 DEF Positions
<1>4. side = "sell" => kept = [quantity |-> 0, cost |-> 0]
  <2>1. position.quantity \in Nat
    BY <1>1 DEF Positions
  <2>2. side = "sell" => left = 0
    BY <2>1
  <2> QED
    BY <2>2 DEF Flat
<1>5. after \in Positions
      /\ after.quantity = IF side = "buy" THEN position.quantity + q ELSE 0
  <2>1. [quantity |-> 0, cost |-> 0] \in Positions
    BY DEF Positions
  <2> HIDE DEF bought, kept
  <2> QED
    BY <1>3, <1>4, <2>1
<1>6. cash \in Int
  <2>1. q * price \in Int
    BY <1>1
  <2> DEFINE value == q * price
  <2> HIDE DEF value
  <2>2. value \in Int
    BY <2>1 DEF value
  <2>3. cash = IF side = "buy" THEN account.cash - value ELSE account.cash + value
    BY DEF value
  <2> QED
    BY <1>1, <2>2, <2>3
<1>7. rest \in SUBSET Reserved
  BY DEF BooksType, Accounts
<1> HIDE DEF after, cash, rest
<1>8. account.held \in [Symbols -> Positions]
  BY DEF BooksType, Accounts
<1> DEFINE held == [account.held EXCEPT ![s] = after]
<1>9. /\ held \in [Symbols -> Positions] /\ held[s] = after
      /\ \A u \in Symbols \ {s} : held[u] = account.held[u]
  BY <1>5, <1>8
<1>10. account'.held = held /\ account'.reservations = rest /\ account'.cash = cash
  BY <1>2
<1> HIDE DEF held
<1>11. account' \in Accounts
  BY <1>2, <1>6, <1>7, <1>9 DEF Accounts, held
<1> QED
  BY <1>5, <1>9, <1>10, <1>11 DEF rest

\* A sale always fills, a purchase fills or is rejected.
LEMMA Filled ==
    ASSUME BooksType, ReservationsMatchOrders, failure = "none", minute \in Nat,
           NEW o \in pending, NEW s \in Symbols, s = o.id.symbol, PhaseOK(s),
           NEW price \in Int, Fill(o, price)
    PROVE  /\ BooksType' /\ ReservationsMatchOrders' /\ failure' = "none"
           /\ issued' = issued /\ pending' = pending \ {o} /\ PendingIds' = PendingIds \ {o.id}
           /\ OnlyOf(s) /\ PendingOf(s)' = {}
           /\ \/ /\ Side(o) = "buy" /\ runtime'[s].phase = "LONG"
                 /\ account'.held[s].quantity > 0 /\ lastExit' = lastExit
              \/ /\ Side(o) = "buy" /\ runtime'[s].phase = "FLAT"
                 /\ account'.held = account.held /\ lastExit' = lastExit
              \/ /\ Side(o) = "sell" /\ runtime'[s].phase = "COOLDOWN"
                 /\ runtime'[s].cooldownUntil = minute + Cooldown /\ lastExit'[s] = minute
                 /\ account'.held[s].quantity = 0
<1> DEFINE side == Side(o)
           may == MayFillOrder(account, o.id, s, side, o.quantity, price)
<1>1. /\ PendingOf(s) = {o} /\ side \in {"buy", "sell"}
      /\ runtime[s].phase = IF side = "buy" THEN "ENTRY_PENDING" ELSE "EXIT_PENDING"
      /\ side = "sell" => o.quantity = account.held[s].quantity
  BY OnlyOrder
<1>2. \E r \in ReservationOf(account, o.id) : r.quantity = o.quantity
  BY ItsReservation
<1>3. runtime[s] \in States /\ o.quantity \in Nat \ {0}
  BY DEF BooksType, Orders
<1>4. pending' = pending \ {o} /\ issued' = issued
  BY DEF Fill
<1> HIDE DEF side
<1>5. side = "sell" => may
  BY <1>1, <1>2, <1>3 DEF MayFillOrder
<1>6. CASE may
  <2>1. account' = FillOrder(account, o.id, s, side, o.quantity, price)
    BY <1>6 DEF Fill, side
  <2>2. /\ account' \in Accounts
        /\ account'.reservations = {r \in account.reservations : r.id # o.id}
        /\ \A u \in Symbols \ {s} : account'.held[u] = account.held[u]
        /\ account'.held[s].quantity =
                IF side = "buy" THEN account.held[s].quantity + o.quantity ELSE 0
    BY <1>1, <2>1, Paid
  <2>3. /\ pending' \in SUBSET Orders
        /\ PendingOf(s)' = {} /\ \A u \in Symbols \ {s} : PendingOf(u)' = PendingOf(u)
        /\ ReservationsMatchOrders'
        /\ PendingIds' = PendingIds \ {o.id}
    BY <1>1, <1>4, <2>2, Left
  <2>4. failure' = "none"
    <3>1. failure' = IF MayFill(runtime[s], IF side = "buy" THEN "LONG" ELSE "COOLDOWN")
                     THEN failure ELSE "illegal transition"
      BY <1>6 DEF Fill, side
    <3> QED
      BY <1>1, <3>1 DEF MayFill, FillTransitions
  <2>5. CASE side = "buy"
    <3>1. runtime' = [runtime EXCEPT ![s] = EntryFilled(runtime[s], minute)]
          /\ lastExit' = lastExit
      BY <1>6, <2>5 DEF Fill, side, BooksType
    <3>2. EntryFilled(runtime[s], minute) \in States
          /\ EntryFilled(runtime[s], minute).phase = "LONG"
      BY <1>3, FilledStates
    <3>3. /\ runtime' \in [Symbols -> States] /\ runtime'[s].phase = "LONG"
          /\ \A u \in Symbols \ {s} : runtime'[u] = runtime[u]
      BY <3>1, <3>2 DEF BooksType
    <3>4. account'.held[s].quantity > 0
      BY <1>3, <2>2, <2>5, FlatFacts
    <3>5. BooksType'
      BY <1>4, <2>2, <2>3, <3>1, <3>3 DEF BooksType
    <3>6. OnlyOf(s)
      BY <2>2, <2>3, <3>1, <3>3 DEF OnlyOf
    <3> QED
      BY <1>4, <2>3, <2>4, <2>5, <3>1, <3>3, <3>4, <3>5, <3>6 DEF side
  <2>6. CASE side = "sell"
    <3>1. runtime' = [runtime EXCEPT ![s] = ExitFilled(runtime[s], minute, Cooldown)]
          /\ lastExit' = [lastExit EXCEPT ![s] = minute]
      BY <1>6, <2>6 DEF Fill, side, BooksType
    <3>2. /\ ExitFilled(runtime[s], minute, Cooldown) \in States
          /\ ExitFilled(runtime[s], minute, Cooldown).phase = "COOLDOWN"
          /\ ExitFilled(runtime[s], minute, Cooldown).cooldownUntil = minute + Cooldown
      BY <1>3, FilledStates
    <3>3. /\ runtime' \in [Symbols -> States] /\ runtime'[s].phase = "COOLDOWN"
          /\ runtime'[s].cooldownUntil = minute + Cooldown
          /\ \A u \in Symbols \ {s} : runtime'[u] = runtime[u]
      BY <3>1, <3>2 DEF BooksType
    <3>4. /\ lastExit' \in [Symbols -> Int] /\ lastExit'[s] = minute
          /\ \A u \in Symbols \ {s} : lastExit'[u] = lastExit[u]
      BY <3>1 DEF BooksType
    <3>5. BooksType'
      BY <1>4, <2>2, <2>3, <3>3, <3>4 DEF BooksType
    <3>6. OnlyOf(s)
      BY <2>2, <2>3, <3>3, <3>4 DEF OnlyOf
    <3> QED
      BY <1>4, <2>2, <2>3, <2>4, <2>6, <3>3, <3>4, <3>5, <3>6 DEF side
  <2> QED
    BY <1>1, <2>5, <2>6
<1>7. CASE ~may
  <2>1. side = "buy" /\ runtime[s].phase = "ENTRY_PENDING"
    BY <1>1, <1>5, <1>7
  <2>2. /\ account' = Release(account, o.id)
        /\ runtime' = [runtime EXCEPT ![s] = OrderRejected(runtime[s])]
        /\ lastExit' = lastExit
    BY <1>7 DEF Fill, side, BooksType
  <2>3. /\ OrderRejected(runtime[s]) \in States /\ OrderRejected(runtime[s]).phase = "FLAT"
        /\ MayMove(runtime[s], RejectionTarget(runtime[s]))
    BY <1>3, <2>1, RejectedStates
  <2>4. failure' = "none"
    <3>1. failure' = CASE ReservationOf(account, o.id) = {} -> "no reservation"
                       [] ~MayMove(runtime[s], RejectionTarget(runtime[s]))
                            -> "illegal transition"
                       [] OTHER -> failure
      BY <1>7 DEF Fill, side
    <3>2. ReservationOf(account, o.id) # {}
      BY <1>2
    <3> QED
      BY <2>3, <3>1, <3>2
  <2>5. /\ account' \in Accounts /\ account'.held = account.held
        /\ account'.reservations = {r \in account.reservations : r.id # o.id}
    BY <2>2 DEF Release, BooksType, Accounts
  <2>6. /\ pending' \in SUBSET Orders
        /\ PendingOf(s)' = {} /\ \A u \in Symbols \ {s} : PendingOf(u)' = PendingOf(u)
        /\ ReservationsMatchOrders'
        /\ PendingIds' = PendingIds \ {o.id}
    BY <1>1, <1>4, <2>5, Left
  <2>7. /\ runtime' \in [Symbols -> States] /\ runtime'[s].phase = "FLAT"
        /\ \A u \in Symbols \ {s} : runtime'[u] = runtime[u]
    BY <2>2, <2>3 DEF BooksType
  <2>8. BooksType'
    BY <1>4, <2>2, <2>5, <2>6, <2>7 DEF BooksType
  <2>9. OnlyOf(s)
    BY <2>2, <2>5, <2>6, <2>7 DEF OnlyOf
  <2> QED
    BY <1>4, <2>1, <2>2, <2>4, <2>5, <2>6, <2>7, <2>8, <2>9 DEF side
<1> QED
  BY <1>6, <1>7

\* A cancelled purchase leaves the symbol flat, a cancelled sale long.
LEMMA Cancelled ==
    ASSUME BooksType, ReservationsMatchOrders, failure = "none",
           NEW o \in pending, NEW s \in Symbols, s = o.id.symbol, PhaseOK(s), CancelOrder(o)
    PROVE  /\ BooksType' /\ ReservationsMatchOrders' /\ failure' = "none"
           /\ issued' = issued /\ pending' = pending \ {o} /\ PendingIds' = PendingIds \ {o.id}
           /\ OnlyOf(s) /\ PendingOf(s)' = {}
           /\ account'.held = account.held /\ lastExit' = lastExit
           /\ \/ runtime[s].phase = "ENTRY_PENDING" /\ runtime'[s].phase = "FLAT"
              \/ runtime[s].phase = "EXIT_PENDING" /\ runtime'[s].phase = "LONG"
<1>1. /\ PendingOf(s) = {o}
      /\ runtime[s].phase \in {"ENTRY_PENDING", "EXIT_PENDING"}
  BY OnlyOrder
<1>2. \E r \in ReservationOf(account, o.id) : r.quantity = o.quantity
  BY ItsReservation
<1>3. runtime[s] \in States
  BY DEF BooksType
<1>4. /\ pending' = pending \ {o} /\ issued' = issued /\ lastExit' = lastExit
      /\ account' = Release(account, o.id)
      /\ runtime' = [runtime EXCEPT ![s] = OrderRejected(runtime[s])]
  BY DEF CancelOrder
<1>5. /\ OrderRejected(runtime[s]) \in States
      /\ OrderRejected(runtime[s]).phase =
            IF runtime[s].phase = "ENTRY_PENDING" THEN "FLAT" ELSE "LONG"
      /\ MayMove(runtime[s], RejectionTarget(runtime[s]))
  BY <1>1, <1>3, RejectedStates
<1>6. failure' = "none"
  <2>1. failure' = CASE ReservationOf(account, o.id) = {} -> "no reservation"
                     [] ~MayMove(runtime[s], RejectionTarget(runtime[s]))
                          -> "illegal transition"
                     [] OTHER -> failure
    BY DEF CancelOrder
  <2>2. ReservationOf(account, o.id) # {}
    BY <1>2
  <2> QED
    BY <1>5, <2>1, <2>2
<1>7. /\ account' \in Accounts /\ account'.held = account.held
      /\ account'.reservations = {r \in account.reservations : r.id # o.id}
  BY <1>4 DEF Release, BooksType, Accounts
<1>8. /\ pending' \in SUBSET Orders
      /\ PendingOf(s)' = {} /\ \A u \in Symbols \ {s} : PendingOf(u)' = PendingOf(u)
      /\ ReservationsMatchOrders'
      /\ PendingIds' = PendingIds \ {o.id}
  BY <1>1, <1>4, <1>7, Left
<1>9. /\ runtime' \in [Symbols -> States] /\ runtime'[s] = OrderRejected(runtime[s])
      /\ \A u \in Symbols \ {s} : runtime'[u] = runtime[u]
  BY <1>4, <1>5 DEF BooksType
<1>10. BooksType'
  BY <1>4, <1>7, <1>8, <1>9 DEF BooksType
<1>11. OnlyOf(s)
  BY <1>4, <1>7, <1>8, <1>9 DEF OnlyOf
<1> QED
  BY <1>1, <1>4, <1>5, <1>6, <1>7, <1>8, <1>9, <1>10, <1>11

----------------------------------------------------------------------------
(***************************************************************************)
(* Each pass keeps the invariant                                           *)
(***************************************************************************)

LEMMA Untouched ==
    ASSUME ClockType, BooksType, NEW u \in Symbols, SymbolOK(u),
           runtime'[u] = runtime[u], account'.held[u] = account.held[u],
           PendingOf(u)' = PendingOf(u), lastExit'[u] = lastExit[u],
           minute' \in Nat, minute' >= minute,
           stage' # "closed" => stage # "closed"
    PROVE  SymbolOK(u)'
<1>1. PhaseOK(u)'
  BY DEF SymbolOK, PhaseOK, Holding, Side
<1>2. CooldownOK(u)'
  <2>1. lastExit[u] + Cooldown \in Int
    BY StrategyAssumption DEF BooksType
  <2> DEFINE over == lastExit[u] + Cooldown
  <2> HIDE DEF over
  <2>2. over \in Int /\ minute \in Nat
    BY <2>1 DEF over, ClockType
  <2>3. CooldownOK(u)
    BY DEF SymbolOK
  <2>4. ASSUME lastExit[u] # NoTime
        PROVE  /\ runtime[u].phase = "COOLDOWN" => runtime[u].cooldownUntil = over
               /\ runtime[u].phase \in {"FLAT", "ENTRY_PENDING"} => minute' >= over
               /\ \A o \in PendingOf(u) : Side(o) = "buy" => o.id.signal >= over
    BY <2>2, <2>3, <2>4 DEF CooldownOK, over
  <2> QED
    BY <2>4 DEF CooldownOK, Side, over
<1>3. OpenOK(u)'
  BY DEF SymbolOK, OpenOK
<1> QED
  BY <1>1, <1>2, <1>3 DEF SymbolOK

\* A symbol of a pass was visited.
LEMMA Visited ==
    ASSUME EngineInv, NEW s \in Symbols, s \in todo, stage \in {"rows", "risk", "force"},
           todo' = todo \ {s}, UNCHANGED <<clock, stage>>,
           BooksType', ReservationsMatchOrders', failure' = "none", OnlyOf(s), SymbolOK(s)',
           \A id \in issued' : id \notin issued => IdOK(id)',
           CloseInv'
    PROVE  EngineInv'
<1>1. /\ session' = session /\ minute' = minute /\ bar' = bar /\ stage' = stage
  BY DEF clock
<1>2. ClockType'
  BY <1>1 DEF EngineInv, ClockType
<1>3. \A u \in Symbols : SymbolOK(u)'
  <2> TAKE u \in Symbols
  <2>1. CASE u = s
    BY <2>1
  <2>2. CASE u # s
    <3>1. u \in Symbols \ {s}
      BY <2>2
    <3>2. /\ runtime'[u] = runtime[u] /\ account'.held[u] = account.held[u]
          /\ PendingOf(u)' = PendingOf(u) /\ lastExit'[u] = lastExit[u]
      BY <3>1 DEF OnlyOf
    <3>3. minute' \in Nat /\ minute' >= minute /\ ClockType /\ BooksType /\ SymbolOK(u)
      BY <1>1 DEF EngineInv, ClockType
    <3> QED
      BY <1>1, <3>2, <3>3, Untouched
  <2> QED
    BY <2>1, <2>2
<1>4. StageInv'
  BY <1>1 DEF EngineInv, StageInv
<1>5. \A id \in issued' : IdOK(id)'
  <2> TAKE id \in issued'
  <2>1. CASE id \in issued
    <3>1. IdOK(id)
      BY <2>1 DEF EngineInv
    <3> QED
      BY <1>1, <3>1 DEF IdOK
  <2> QED
    BY <2>1
<1> QED
  BY <1>2, <1>3, <1>4, <1>5 DEF EngineInv

\* The phase and the orders of a symbol that asked for an order.
LEMMA PhaseAfter ==
    ASSUME BooksType, NEW s \in Symbols, NEW reason \in Reasons, NEW signal, NEW reference,
           NEW quantity,
           PendingOf(s) = {},
           s \in Holding(account) <=> reason # "entry_signal",
           reason # "entry_signal" => quantity = account.held[s].quantity,
           account'.held = account.held,
           \/ /\ runtime'[s].phase = After(reason)
              /\ PendingOf(s)' = PendingOf(s) \cup {Asked(s, reason, signal, reference, quantity)}
           \/ runtime'[s].phase = Before(reason) /\ PendingOf(s)' = PendingOf(s)
    PROVE  PhaseOK(s)'
<1> DEFINE o == Asked(s, reason, signal, reference, quantity)
<1>1. o.quantity = quantity /\ Side(o) = SideOf(reason)
  BY DEF Asked, Side, OrderId
<1>2. s \in Holding(account)' <=> reason # "entry_signal"
  BY DEF Holding
<1>3. Side(o) = IF reason = "entry_signal" THEN "buy" ELSE "sell"
  BY <1>1 DEF SideOf
<1> HIDE DEF o
<1>4. CASE runtime'[s].phase = After(reason) /\ PendingOf(s)' = {o}
  <2>1. CASE reason = "entry_signal"
    BY <1>2, <1>3, <1>4, <2>1 DEF PhaseOK, After, Side
  <2>2. CASE reason # "entry_signal"
    BY <1>1, <1>2, <1>3, <1>4, <2>2 DEF PhaseOK, After, Side
  <2> QED
    BY <2>1, <2>2
<1>5. CASE runtime'[s].phase = Before(reason) /\ PendingOf(s)' = {}
  BY <1>2, <1>5 DEF PhaseOK, Before
<1> QED
  BY <1>4, <1>5 DEF o

LEMMA Awoken ==
    ASSUME BooksType, ClockType, NEW s \in Symbols, SymbolOK(s)
    PROVE  /\ Awake(runtime[s]) \in States
           /\ \/ Awake(runtime[s]) = runtime[s]
              \/ /\ runtime[s].phase = "COOLDOWN" /\ Awake(runtime[s]).phase = "FLAT"
                 /\ lastExit[s] # NoTime => minute >= lastExit[s] + Cooldown
<1>1. runtime[s] \in States
  BY DEF BooksType
<1>2. CASE ~CooldownElapsed(runtime[s], minute)
  BY <1>1, <1>2 DEF Awake
<1>3. CASE CooldownElapsed(runtime[s], minute)
  <2>1. Awake(runtime[s]) = Transition(runtime[s], "FLAT")
    BY <1>3 DEF Awake
  <2>2. runtime[s].phase = "COOLDOWN" /\ runtime[s].cooldownUntil <= minute
    BY <1>3 DEF CooldownElapsed
  <2>3. "FLAT" \in Phase
    BY DEF Phase
  <2>4. lastExit[s] # NoTime => minute >= lastExit[s] + Cooldown
    <3>1. lastExit[s] # NoTime => runtime[s].cooldownUntil = lastExit[s] + Cooldown
      BY <2>2 DEF SymbolOK, CooldownOK
    <3>2. lastExit[s] + Cooldown \in Int /\ minute \in Nat
      BY StrategyAssumption DEF BooksType, ClockType
    <3> QED
      BY <2>2, <3>1, <3>2
  <2> QED
    BY <1>1, <2>1, <2>2, <2>3, <2>4, Moves
<1> QED
  BY <1>2, <1>3

LEMMA EarlyClose ==
    ASSUME EngineInv, minute < CloseoutSignal, minute' = minute, stage' = stage,
           stage \in {"rows", "risk"}
    PROVE  CloseInv'
<1>1. minute' \in Nat /\ minute' < CloseoutTime
  BY Times DEF EngineInv, ClockType
<1> QED
  BY <1>1, Times DEF CloseInv, AfterCloseout

LEMMA RowStep ==
    ASSUME EngineInv, NEW s \in Symbols, Row(s)
    PROVE  EngineInv'
<1>1. /\ stage = "rows" /\ s \in todo /\ todo' = todo \ {s} /\ UNCHANGED <<clock, stage>>
      /\ RowEnters(s) \/ RowExits(s) \/ RowIsQuiet(s)
  BY DEF Row
<1>2. minute' = minute /\ session' = session /\ stage' = stage
  BY <1>1 DEF clock
<1>3. minute < CloseoutSignal
  BY <1>1 DEF EngineInv, StageInv
<1>4. CloseInv'
  BY <1>1, <1>2, <1>3, EarlyClose
<1>5. /\ BooksType /\ ReservationsMatchOrders /\ failure = "none" /\ SymbolOK(s) /\ ClockType
      /\ session \in Nat /\ minute \in Nat
  BY DEF EngineInv, ClockType
<1>6. /\ bar[s].close \in Int /\ Worse("buy", bar[s].close) \in Int
      /\ Worse("sell", bar[s].close) \in Int
  BY <1>5, Prices
<1>7. /\ Awake(runtime[s]) \in States
      /\ \/ Awake(runtime[s]) = runtime[s]
         \/ /\ runtime[s].phase = "COOLDOWN" /\ Awake(runtime[s]).phase = "FLAT"
            /\ lastExit[s] # NoTime => minute >= lastExit[s] + Cooldown
  BY <1>5, Awoken
<1>8. ASSUME NEW reason \in {"entry_signal", "exit_signal"}, NEW id,
             id = OrderId(s, reason, minute)
      PROVE  id \notin issued /\ IdOK(id)'
  <2>1. id.session = session /\ id.symbol = s /\ id.reason = reason /\ id.signal = minute
    BY <1>8 DEF OrderId
  <2>2. id \notin issued
    BY <1>1, <1>8, <2>1 DEF EngineInv, IdOK
  <2>3. IdOK(id)'
    BY <1>1, <1>2, <1>5, <1>8, <2>1 DEF IdOK
  <2> QED
    BY <2>2, <2>3
<1>9. CASE RowEnters(s)
  <2>1. PICK quantity \in 1 .. CashQuantity(bar[s].close) :
            Submit(s, Awake(runtime[s]), "entry_signal", minute, bar[s].close, quantity)
    BY <1>9 DEF RowEnters
  <2>2. quantity \in Int /\ "entry_signal" \in Reasons /\ SideOf("entry_signal") = "buy"
    BY <2>1 DEF Reasons, SideOf
  <2>3. Awake(runtime[s]).phase = "FLAT" /\ Before("entry_signal") = "FLAT"
    BY <1>9 DEF RowEnters, Before
  <2> DEFINE o == Asked(s, "entry_signal", minute, bar[s].close, quantity)
  <2>4. /\ BooksType' /\ ReservationsMatchOrders' /\ failure' = "none"
        /\ lastExit' = lastExit /\ account'.held = account.held
        /\ \A u \in Symbols \ {s} : runtime'[u] = runtime[u] /\ PendingOf(u)' = PendingOf(u)
        /\ issued' \subseteq issued \cup {OrderId(s, "entry_signal", minute)}
        /\ \/ /\ runtime'[s].phase = After("entry_signal")
              /\ PendingOf(s)' = PendingOf(s) \cup {o}
           \/ runtime'[s].phase = "FLAT" /\ PendingOf(s)' = PendingOf(s)
    BY <1>5, <1>6, <1>7, <1>8, <2>1, <2>2, <2>3, Submitted
  <2>5. runtime[s].phase \in {"FLAT", "COOLDOWN"}
    BY <1>7, <2>3
  <2>6. PendingOf(s) = {} /\ s \notin Holding(account)
    BY <1>5, <2>5 DEF SymbolOK, PhaseOK
  <2>7. PhaseOK(s)'
    BY <1>5, <2>2, <2>3, <2>4, <2>6, PhaseAfter
  <2>8. lastExit[s] # NoTime => minute >= lastExit[s] + Cooldown
    BY <1>5, <1>7, <2>3 DEF SymbolOK, CooldownOK
  <2>9. runtime'[s].phase \in {"FLAT", "ENTRY_PENDING"} /\ PendingOf(s)' \subseteq {o}
    BY <2>4, <2>6 DEF After
  <2>10. o.id.signal = minute
    BY DEF Asked, OrderId
  <2> HIDE DEF o
  <2>11. CooldownOK(s)'
    BY <1>2, <2>4, <2>8, <2>9, <2>10 DEF CooldownOK, Side
  <2>12. SymbolOK(s)'
    BY <2>7, <2>9, <2>11 DEF SymbolOK, OpenOK
  <2>13. OnlyOf(s)
    BY <2>4 DEF OnlyOf
  <2>14. \A id \in issued' : id \notin issued => IdOK(id)'
    BY <1>8, <2>4
  <2> QED
    BY <1>1, <1>4, <2>4, <2>12, <2>13, <2>14, Visited
<1>10. CASE RowExits(s)
  <2> DEFINE quantity == account.held[s].quantity
  <2>1. /\ runtime[s].phase = "LONG"
        /\ Submit(s, runtime[s], "exit_signal", minute, bar[s].close, quantity)
    BY <1>10 DEF RowExits
  <2>2. quantity \in Int /\ "exit_signal" \in Reasons /\ SideOf("exit_signal") = "sell"
    BY <1>5, FlatFacts DEF Reasons, SideOf
  <2>3. runtime[s] \in States /\ Before("exit_signal") = "LONG"
    BY <1>5 DEF BooksType, Before
  <2> DEFINE o == Asked(s, "exit_signal", minute, bar[s].close, quantity)
  <2>4. /\ BooksType' /\ ReservationsMatchOrders' /\ failure' = "none"
        /\ lastExit' = lastExit /\ account'.held = account.held
        /\ \A u \in Symbols \ {s} : runtime'[u] = runtime[u] /\ PendingOf(u)' = PendingOf(u)
        /\ issued' \subseteq issued \cup {OrderId(s, "exit_signal", minute)}
        /\ \/ /\ runtime'[s].phase = After("exit_signal")
              /\ PendingOf(s)' = PendingOf(s) \cup {o}
           \/ runtime'[s].phase = "LONG" /\ PendingOf(s)' = PendingOf(s)
    BY <1>5, <1>6, <1>8, <2>1, <2>2, <2>3, Submitted
  <2>5. PendingOf(s) = {} /\ s \in Holding(account)
    BY <1>5, <2>1 DEF SymbolOK, PhaseOK
  <2> HIDE DEF quantity
  <2>6. PhaseOK(s)'
    <3>1. "exit_signal" # "entry_signal" /\ quantity = account.held[s].quantity
      BY DEF quantity
    <3> QED
      BY <1>5, <2>2, <2>3, <2>4, <2>5, <3>1, PhaseAfter
  <2>7. runtime'[s].phase \in {"LONG", "EXIT_PENDING"} /\ PendingOf(s)' \subseteq {o}
    BY <2>4, <2>5 DEF After
  <2>8. Side(o) = "sell"
    BY <2>2 DEF Asked, OrderId, Side
  <2> HIDE DEF o
  <2>9. CooldownOK(s)'
    BY <2>7, <2>8 DEF CooldownOK, Side
  <2>10. SymbolOK(s)'
    BY <2>6, <2>7, <2>9 DEF SymbolOK, OpenOK
  <2>11. OnlyOf(s)
    BY <2>4 DEF OnlyOf
  <2>12. \A id \in issued' : id \notin issued => IdOK(id)'
    BY <1>8, <2>4
  <2> QED
    BY <1>1, <1>4, <2>4, <2>10, <2>11, <2>12, Visited
<1>11. CASE RowIsQuiet(s)
  <2>1. /\ runtime' = [runtime EXCEPT ![s] = Awake(runtime[s])]
        /\ account' = account /\ pending' = pending /\ issued' = issued
        /\ lastExit' = lastExit /\ failure' = failure
    BY <1>11 DEF RowIsQuiet
  <2>2. /\ runtime' \in [Symbols -> States] /\ runtime'[s] = Awake(runtime[s])
        /\ \A u \in Symbols \ {s} : runtime'[u] = runtime[u]
    BY <1>5, <1>7, <2>1 DEF BooksType
  <2>3. BooksType' /\ ReservationsMatchOrders' /\ failure' = "none"
    BY <1>5, <2>1, <2>2 DEF BooksType, ReservationsMatchOrders, PendingIds
  <2>4. \A u \in Symbols : PendingOf(u)' = PendingOf(u)
    BY <2>1 DEF PendingOf
  <2>5. OnlyOf(s)
    BY <2>1, <2>2, <2>4 DEF OnlyOf
  <2>6. SymbolOK(s)'
    <3>1. CASE Awake(runtime[s]) = runtime[s]
      BY <1>2, <1>5, <2>1, <2>2, <2>4, <3>1, Untouched
    <3>2. CASE /\ runtime[s].phase = "COOLDOWN" /\ Awake(runtime[s]).phase = "FLAT"
               /\ lastExit[s] # NoTime => minute >= lastExit[s] + Cooldown
      <4>1. PendingOf(s) = {} /\ s \notin Holding(account)
        BY <1>5, <3>2 DEF SymbolOK, PhaseOK
      <4>2. PendingOf(s)' = {} /\ s \notin Holding(account)' /\ runtime'[s].phase = "FLAT"
        BY <2>1, <2>2, <2>4, <3>2, <4>1 DEF Holding
      <4>3. PhaseOK(s)' /\ OpenOK(s)'
        BY <4>2 DEF PhaseOK, OpenOK
      <4>4. CooldownOK(s)'
        BY <1>2, <2>1, <3>2, <4>2 DEF CooldownOK
      <4> QED
        BY <4>3, <4>4 DEF SymbolOK
    <3> QED
      BY <1>7, <3>1, <3>2
  <2> QED
    BY <1>1, <1>4, <2>1, <2>3, <2>5, <2>6, Visited
<1> QED
  BY <1>1, <1>9, <1>10, <1>11

LEMMA SameBooks ==
    ASSUME EngineInv, UNCHANGED <<books, failure>>, minute' = minute,
           stage' # "closed" => stage # "closed"
    PROVE  /\ BooksType' /\ ReservationsMatchOrders' /\ failure' = "none"
           /\ \A u \in Symbols : SymbolOK(u)'
           /\ pending' = pending /\ PendingIds' = PendingIds /\ issued' = issued
           /\ account' = account /\ Holding(account)' = Holding(account) /\ runtime' = runtime
<1>1. /\ runtime' = runtime /\ account' = account /\ pending' = pending /\ issued' = issued
      /\ lastExit' = lastExit /\ failure' = failure
  BY DEF books
<1>2. BooksType' /\ ReservationsMatchOrders' /\ failure' = "none" /\ PendingIds' = PendingIds
  BY <1>1 DEF EngineInv, BooksType, ReservationsMatchOrders, PendingIds
<1>3. \A u \in Symbols : SymbolOK(u)'
  <2> TAKE u \in Symbols
  <2>1. PendingOf(u)' = PendingOf(u)
    BY <1>1 DEF PendingOf
  <2>2. ClockType /\ BooksType /\ SymbolOK(u) /\ minute' \in Nat /\ minute' >= minute
    BY DEF EngineInv, ClockType
  <2> QED
    BY <1>1, <2>1, <2>2, Untouched
<1> QED
  BY <1>1, <1>2, <1>3 DEF Holding

LEMMA OpenMinuteStep ==
    ASSUME EngineInv, OpenMinute
    PROVE  EngineInv'
<1>1. /\ stage = "rows" /\ todo = {} /\ bar' \in [Symbols -> Bars] /\ stage' = "orders"
      /\ todo' = {o.id : o \in {p \in pending : Eligible(p) <= minute}}
      /\ session' = session /\ minute' = minute /\ UNCHANGED <<books, failure>>
  BY DEF OpenMinute
<1>2. /\ BooksType' /\ ReservationsMatchOrders' /\ failure' = "none"
      /\ \A u \in Symbols : SymbolOK(u)'
      /\ pending' = pending /\ PendingIds' = PendingIds /\ issued' = issued
      /\ account' = account /\ Holding(account)' = Holding(account) /\ runtime' = runtime
  BY <1>1, SameBooks
<1>3. \A o \in pending : o.id \in Ids /\ o.id.signal \in Nat
  BY DEF EngineInv, BooksType, Orders, Ids
<1>4. minute \in Nat
  BY DEF EngineInv, ClockType
<1>5. \A id \in todo' : id \in Ids /\ id.signal < minute
  BY <1>1, <1>3, <1>4 DEF Eligible
<1>6. ClockType'
  BY <1>1, <1>5 DEF EngineInv, ClockType, Stages
<1>7. StageInv'
  BY <1>1, <1>5 DEF EngineInv, StageInv
<1>8. \A id \in issued' : IdOK(id)'
  <2> TAKE id \in issued'
  <2>1. IdOK(id)
    BY <1>2 DEF EngineInv
  <2> QED
    BY <1>1, <2>1 DEF IdOK
<1>9. CloseInv'
  <2>1. ASSUME minute = CloseoutTime
        PROVE  /\ \A o \in pending : Forced(o) /\ o.id.signal < minute
               /\ \A s \in Symbols : runtime[s].phase # "LONG"
               /\ PendingIds \subseteq todo'
    <3>1. /\ \A o \in pending : Forced(o) /\ o.id.signal < minute
          /\ \A s \in Symbols : runtime[s].phase # "LONG"
      BY <1>1, <2>1 DEF EngineInv, CloseInv
    <3>2. \A o \in pending : Eligible(o) <= minute
      BY <1>3, <1>4, <3>1 DEF Eligible
    <3> QED
      BY <1>1, <3>1, <3>2 DEF PendingIds
  <2>2. AfterCloseout' => AfterCloseout
    BY <1>1 DEF AfterCloseout
  <2>3. Empty => Empty'
    BY <1>2 DEF Empty
  <2>4. AfterCloseout => Empty
    BY DEF EngineInv, CloseInv
  <2>5. minute' = CloseoutTime =>
          /\ \A o \in pending' : Forced(o)' /\ o.id.signal < minute'
          /\ \A s \in Symbols : runtime'[s].phase # "LONG"
          /\ PendingIds' \subseteq todo'
    BY <1>1, <1>2, <2>1 DEF Forced
  <2> QED
    BY <1>1, <2>2, <2>3, <2>4, <2>5 DEF CloseInv
<1> QED
  BY <1>2, <1>6, <1>7, <1>8, <1>9 DEF EngineInv

\* A fill's price is an amount of money.
LEMMA FillPriceIsMoney ==
    ASSUME EngineInv, NEW o \in pending, NEW s \in Symbols, s = o.id.symbol
    PROVE  FillPrice(o, bar[s]) \in Int
<1>1. o.limit \in Int
  BY DEF EngineInv, BooksType, Orders
<1>2. Worse(Side(o), bar[s].open) \in Int
  BY Prices DEF EngineInv
<1> QED
  BY <1>1, <1>2 DEF FillPrice

LEMMA OrderStep ==
    ASSUME EngineInv, NEW o \in pending, Order(o)
    PROVE  EngineInv'
<1> DEFINE s == o.id.symbol
<1>1. /\ stage = "orders" /\ o.id \in todo /\ todo' = todo \ {o.id}
      /\ IF Crosses(o, bar[s]) THEN Fill(o, FillPrice(o, bar[s])) ELSE UNCHANGED <<books, failure>>
      /\ UNCHANGED <<clock, stage>>
  BY DEF Order
<1>2. /\ session' = session /\ minute' = minute /\ bar' = bar /\ stage' = "orders"
  BY <1>1 DEF clock
<1>3. /\ BooksType /\ ReservationsMatchOrders /\ failure = "none" /\ ClockType
      /\ minute \in Nat /\ minute' \in Nat /\ minute' >= minute
  BY <1>2 DEF EngineInv, ClockType
<1>4. s \in Symbols
  BY <1>3 DEF BooksType, Orders, Ids
<1> HIDE DEF s
<1>5. s = o.id.symbol
  BY DEF s
<1>6. SymbolOK(s) /\ PhaseOK(s)
  BY <1>4 DEF EngineInv, SymbolOK
<1>7. ClockType'
  BY <1>1, <1>2, <1>3 DEF ClockType
<1>8. StageInv'
  BY <1>1, <1>2 DEF EngineInv, StageInv
<1>9. issued' = issued
  BY <1>1 DEF Fill, books
<1>10. \A id \in issued' : IdOK(id)'
  <2> TAKE id \in issued'
  <2>1. IdOK(id)
    BY <1>9 DEF EngineInv
  <2> QED
    BY <1>1, <1>2, <2>1 DEF IdOK
<1>11. CASE Crosses(o, bar[s])
  <2> DEFINE price == FillPrice(o, bar[s])
  <2>1. price \in Int
    BY <1>4, <1>5, FillPriceIsMoney
  <2>2. Fill(o, price)
    BY <1>1, <1>11
  <2> HIDE DEF price
  <2>3. /\ BooksType' /\ ReservationsMatchOrders' /\ failure' = "none"
        /\ pending' = pending \ {o} /\ PendingIds' = PendingIds \ {o.id}
        /\ OnlyOf(s) /\ PendingOf(s)' = {}
        /\ \/ /\ Side(o) = "buy" /\ runtime'[s].phase = "LONG"
              /\ account'.held[s].quantity > 0 /\ lastExit' = lastExit
           \/ /\ Side(o) = "buy" /\ runtime'[s].phase = "FLAT"
              /\ account'.held = account.held /\ lastExit' = lastExit
           \/ /\ Side(o) = "sell" /\ runtime'[s].phase = "COOLDOWN"
              /\ runtime'[s].cooldownUntil = minute + Cooldown /\ lastExit'[s] = minute
              /\ account'.held[s].quantity = 0
    BY <1>3, <1>4, <1>5, <1>6, <2>1, <2>2, Filled
  <2>4. ASSUME NEW u \in Symbols, u # s
        PROVE  SymbolOK(u)' /\ runtime'[u] = runtime[u]
    <3>1. /\ runtime'[u] = runtime[u] /\ account'.held[u] = account.held[u]
          /\ PendingOf(u)' = PendingOf(u) /\ lastExit'[u] = lastExit[u]
      BY <2>3, <2>4 DEF OnlyOf
    <3>2. SymbolOK(u)
      BY DEF EngineInv
    <3> QED
      BY <1>1, <1>2, <1>3, <3>1, <3>2, Untouched
  <2>5. SymbolOK(s)'
    <3>1. CASE Side(o) = "buy" /\ runtime'[s].phase = "LONG" /\ account'.held[s].quantity > 0
      BY <1>4, <2>3, <3>1 DEF SymbolOK, PhaseOK, CooldownOK, OpenOK, Holding
    <3>2. CASE /\ Side(o) = "buy" /\ runtime'[s].phase = "FLAT"
               /\ account'.held = account.held /\ lastExit' = lastExit
      <4>1. runtime[s].phase = "ENTRY_PENDING"
        BY <1>3, <1>4, <1>5, <1>6, <3>2, OnlyOrder
      <4>2. s \notin Holding(account)
        BY <1>6, <4>1 DEF PhaseOK
      <4>3. PhaseOK(s)' /\ OpenOK(s)'
        BY <2>3, <3>2, <4>2 DEF PhaseOK, OpenOK, Holding
      <4>4. lastExit[s] # NoTime => minute >= lastExit[s] + Cooldown
        BY <1>6, <4>1 DEF SymbolOK, CooldownOK
      <4>5. CooldownOK(s)'
        BY <1>2, <2>3, <3>2, <4>4 DEF CooldownOK
      <4> QED
        BY <4>3, <4>5 DEF SymbolOK
    <3>3. CASE /\ Side(o) = "sell" /\ runtime'[s].phase = "COOLDOWN"
               /\ runtime'[s].cooldownUntil = minute + Cooldown /\ lastExit'[s] = minute
               /\ account'.held[s].quantity = 0
      <4>1. PhaseOK(s)' /\ OpenOK(s)'
        BY <2>3, <3>3 DEF PhaseOK, OpenOK, Holding
      <4>2. CooldownOK(s)'
        BY <2>3, <3>3 DEF CooldownOK
      <4> QED
        BY <4>1, <4>2 DEF SymbolOK
    <3> QED
      BY <2>3, <3>1, <3>2, <3>3
  <2>6. \A u \in Symbols : SymbolOK(u)'
    BY <2>4, <2>5
  <2>7. CloseInv'
    <3>1. ~AfterCloseout \/ Empty
      BY DEF EngineInv, CloseInv
    <3>2. ~AfterCloseout
      BY <3>1 DEF Empty
    <3>3. ~AfterCloseout'
      BY <1>1, <1>2, <3>2 DEF AfterCloseout
    <3>4. ASSUME minute = CloseoutTime
          PROVE  /\ \A p \in pending' : Forced(p) /\ p.id.signal < minute
                 /\ \A u \in Symbols : runtime'[u].phase # "LONG"
                 /\ PendingIds' \subseteq todo'
      <4>1. /\ \A p \in pending : Forced(p) /\ p.id.signal < minute
            /\ \A u \in Symbols : runtime[u].phase # "LONG"
            /\ PendingIds \subseteq todo
        BY <1>1, <3>4 DEF EngineInv, CloseInv
      <4>2. Side(o) = "sell"
        BY <4>1 DEF Forced, Side, SideOf
      <4>3. runtime'[s].phase = "COOLDOWN"
        BY <2>3, <4>2
      <4> QED
        BY <1>1, <2>3, <2>4, <4>1, <4>3
    <3> QED
      BY <1>2, <3>3, <3>4 DEF CloseInv, Forced
  <2> QED
    BY <1>7, <1>8, <1>10, <2>3, <2>6, <2>7 DEF EngineInv
<1>12. CASE ~Crosses(o, bar[s])
  <2>1. UNCHANGED <<books, failure>>
    BY <1>1, <1>12
  <2>2. /\ BooksType' /\ ReservationsMatchOrders' /\ failure' = "none"
        /\ \A u \in Symbols : SymbolOK(u)'
        /\ pending' = pending /\ PendingIds' = PendingIds /\ runtime' = runtime
    BY <1>1, <1>2, <2>1, SameBooks
  <2>3. CloseInv'
    <3>1. ~AfterCloseout \/ Empty
      BY DEF EngineInv, CloseInv
    <3>2. ~AfterCloseout
      BY <3>1 DEF Empty
    <3>3. ~AfterCloseout'
      BY <1>1, <1>2, <3>2 DEF AfterCloseout
    <3>4. minute # CloseoutTime
      <4>1. ~Forced(o)
        BY <1>12 DEF Crosses, IsMarket
      <4> QED
        BY <1>1, <4>1 DEF EngineInv, CloseInv
    <3> QED
      BY <1>2, <3>3, <3>4 DEF CloseInv
  <2> QED
    BY <1>7, <1>8, <1>10, <2>2, <2>3 DEF EngineInv
<1> QED
  BY <1>11, <1>12

LEMMA NothingLeft ==
    ASSUME ReservationsMatchOrders, \A s \in Symbols : PhaseOK(s), pending = {},
           \A s \in Symbols : runtime[s].phase # "LONG"
    PROVE  Empty
<1>1. \A s \in Symbols : PendingOf(s) = {}
  BY DEF PendingOf
<1>2. ASSUME NEW s \in Symbols
      PROVE  s \notin Holding(account)
  <2>1. runtime[s].phase # "EXIT_PENDING"
    BY <1>1 DEF PhaseOK
  <2> QED
    BY <2>1 DEF PhaseOK
<1>3. Holding(account) = {}
  BY <1>2 DEF Holding
<1>4. account.reservations = {}
  BY DEF ReservationsMatchOrders, PendingIds
<1> QED
  BY <1>3, <1>4 DEF Empty

LEMMA EndOrdersStep ==
    ASSUME EngineInv, EndOrders
    PROVE  EngineInv'
<1>1. /\ stage = "orders" /\ todo = {}
      /\ session' = session /\ minute' = minute /\ bar' = bar /\ UNCHANGED <<books, failure>>
  BY DEF EndOrders, clock
<1>2. /\ minute < CloseoutSignal => stage' = "risk" /\ todo' = Holding(account)
      /\ minute = CloseoutSignal => stage' = "cancel" /\ todo' = PendingIds
      /\ minute > CloseoutSignal => stage' = "next" /\ todo' = {}
  <2>1. minute \in Nat /\ CloseoutSignal \in Nat
    BY Times DEF EngineInv, ClockType
  <2>2. /\ stage' = CASE minute < CloseoutSignal -> "risk"
                      [] minute = CloseoutSignal -> "cancel"
                      [] OTHER -> "next"
        /\ todo' = CASE minute < CloseoutSignal -> Holding(account)
                     [] minute = CloseoutSignal -> {o.id : o \in pending}
                     [] OTHER -> {}
    BY DEF EndOrders, PendingIds
  <2>3. CASE minute < CloseoutSignal
    BY <2>1, <2>2, <2>3
  <2>4. CASE minute = CloseoutSignal
    BY <2>1, <2>2, <2>4 DEF PendingIds
  <2>5. CASE minute > CloseoutSignal
    BY <2>1, <2>2, <2>5
  <2> QED
    BY <2>1, <2>3, <2>4, <2>5
<1>3. stage' \in {"risk", "cancel", "next"}
  <2>1. minute \in Nat /\ CloseoutSignal \in Nat
    BY Times DEF EngineInv, ClockType
  <2> QED
    BY <1>2, <2>1
<1>4. /\ BooksType' /\ ReservationsMatchOrders' /\ failure' = "none"
      /\ \A u \in Symbols : SymbolOK(u)'
      /\ pending' = pending /\ PendingIds' = PendingIds /\ issued' = issued
      /\ account' = account /\ Holding(account)' = Holding(account) /\ runtime' = runtime
  BY <1>1, <1>3, SameBooks
<1>5. PendingIds \in SUBSET Ids /\ Holding(account) \in SUBSET Symbols
  BY DEF EngineInv, BooksType, Orders, PendingIds, Holding
<1>6. ClockType /\ minute \in Nat /\ CloseoutSignal \in Nat /\ CloseoutTime = CloseoutSignal + 1
  BY Times DEF EngineInv, ClockType
<1>7. ClockType'
  <2>1. /\ stage' = "risk" => todo' = Holding(account)
        /\ stage' = "cancel" => todo' = PendingIds
    BY <1>2, <1>3, <1>6
  <2> QED
    BY <1>1, <1>3, <1>5, <1>6, <2>1 DEF ClockType, Stages
<1>8. StageInv'
  <2>1. minute # Close
    BY <1>1 DEF EngineInv, StageInv
  <2>2. /\ stage' = "risk" => minute < CloseoutSignal
        /\ stage' = "cancel" => minute = CloseoutSignal
        /\ stage' = "next" => minute > CloseoutSignal
    BY <1>2, <1>3, <1>6
  <2> QED
    BY <1>1, <1>3, <2>1, <2>2 DEF StageInv
<1>9. \A id \in issued' : IdOK(id)'
  <2> TAKE id \in issued'
  <2>1. IdOK(id)
    BY <1>4 DEF EngineInv
  <2> QED
    BY <1>1, <1>3, <2>1 DEF IdOK
<1>10. CloseInv'
  <2>1. stage' = "cancel" => PendingIds' \subseteq todo'
    BY <1>2, <1>3, <1>4, <1>6
  <2>2. AfterCloseout => Empty
    BY DEF EngineInv, CloseInv
  <2>3. minute = CloseoutTime => Empty
    <3> HAVE minute = CloseoutTime
    <3>1. /\ \A s \in Symbols : runtime[s].phase # "LONG"
          /\ PendingIds \subseteq todo
      BY <1>1 DEF EngineInv, CloseInv
    <3>2. pending = {}
      BY <1>1, <3>1 DEF PendingIds
    <3>3. ReservationsMatchOrders /\ \A s \in Symbols : PhaseOK(s)
      BY DEF EngineInv, SymbolOK
    <3> QED
      BY <3>1, <3>2, <3>3, NothingLeft
  <2>4. AfterCloseout' => AfterCloseout \/ minute = CloseoutTime
    BY <1>1 DEF AfterCloseout
  <2>5. Empty => Empty'
    BY <1>4 DEF Empty
  <2> QED
    BY <1>3, <2>1, <2>2, <2>3, <2>4, <2>5 DEF CloseInv
<1> QED
  BY <1>4, <1>7, <1>8, <1>9, <1>10 DEF EngineInv

LEMMA RiskStep ==
    ASSUME EngineInv, NEW s \in Symbols, RiskExit(s)
    PROVE  EngineInv'
<1> DEFINE asks == runtime[s].phase = "LONG" /\ RiskReason(s) # "none"
           quantity == account.held[s].quantity
<1>1. /\ stage = "risk" /\ s \in todo /\ todo' = todo \ {s} /\ UNCHANGED <<clock, stage>>
      /\ IF asks THEN Submit(s, runtime[s], RiskReason(s), minute + 1, bar[s].close, quantity)
                 ELSE UNCHANGED <<books, failure>>
  BY DEF RiskExit
<1>2. minute' = minute /\ session' = session /\ stage' = stage
  BY <1>1 DEF clock
<1>3. minute < CloseoutSignal
  BY <1>1 DEF EngineInv, StageInv
<1>4. CloseInv'
  BY <1>1, <1>2, <1>3, EarlyClose
<1>5. /\ BooksType /\ ReservationsMatchOrders /\ failure = "none" /\ SymbolOK(s) /\ ClockType
      /\ session \in Nat /\ minute \in Nat /\ minute' \in Nat /\ minute' >= minute
  BY <1>2 DEF EngineInv, ClockType
<1>6. CASE asks
  <2> DEFINE reason == RiskReason(s)
             signal == minute + 1
  <2>1. reason \in {"stop_loss", "take_profit", "max_holding"}
    BY <1>6 DEF RiskReason
  <2>2. Submit(s, runtime[s], reason, signal, bar[s].close, quantity)
    BY <1>1, <1>6
  <2>3. runtime[s].phase = "LONG" /\ quantity \in Int /\ signal \in Nat /\ signal = minute + 1
    BY <1>5, <1>6, FlatFacts
  <2> HIDE DEF reason, signal
  <2>4. /\ reason \in Reasons /\ SideOf(reason) = "sell" /\ Before(reason) = "LONG"
        /\ reason # "entry_signal"
    BY <2>1 DEF Reasons, SideOf, Before
  <2>5. /\ runtime[s] \in States /\ bar[s].close \in Int
        /\ Worse(SideOf(reason), bar[s].close) \in Int
    BY <1>5, Prices DEF BooksType
  <2>6. ASSUME NEW id, id = OrderId(s, reason, signal)
        PROVE  id \notin issued /\ IdOK(id)'
    <3>1. id.session = session /\ id.symbol = s /\ id.reason = reason /\ id.signal = signal
      BY <2>6 DEF OrderId
    <3>2. id \notin issued
      BY <1>1, <1>5, <2>3, <3>1 DEF EngineInv, IdOK
    <3>3. IdOK(id)'
      BY <1>1, <1>2, <1>5, <2>1, <2>3, <3>1 DEF IdOK
    <3> QED
      BY <3>2, <3>3
  <2> DEFINE o == Asked(s, reason, signal, bar[s].close, quantity)
  <2>7. /\ BooksType' /\ ReservationsMatchOrders' /\ failure' = "none"
        /\ lastExit' = lastExit /\ account'.held = account.held
        /\ \A u \in Symbols \ {s} : runtime'[u] = runtime[u] /\ PendingOf(u)' = PendingOf(u)
        /\ issued' \subseteq issued \cup {OrderId(s, reason, signal)}
        /\ \/ /\ runtime'[s].phase = After(reason)
              /\ PendingOf(s)' = PendingOf(s) \cup {o}
           \/ runtime'[s].phase = "LONG" /\ PendingOf(s)' = PendingOf(s)
    BY <1>5, <2>2, <2>3, <2>4, <2>5, <2>6, Submitted
  <2>8. PendingOf(s) = {} /\ s \in Holding(account)
    BY <1>5, <2>3 DEF SymbolOK, PhaseOK
  <2>9. quantity = account.held[s].quantity
    OBVIOUS
  <2> HIDE DEF quantity
  <2>10. PhaseOK(s)'
    <3>1. /\ s \in Holding(account) <=> reason # "entry_signal"
          /\ reason # "entry_signal" => quantity = account.held[s].quantity
          /\ \/ /\ runtime'[s].phase = After(reason)
                /\ PendingOf(s)' = PendingOf(s)
                        \cup {Asked(s, reason, signal, bar[s].close, quantity)}
             \/ runtime'[s].phase = Before(reason) /\ PendingOf(s)' = PendingOf(s)
      BY <2>4, <2>7, <2>8, <2>9
    <3>2. reason \in Reasons /\ PendingOf(s) = {} /\ account'.held = account.held
      BY <2>4, <2>7, <2>8
    <3> QED
      BY <1>5, <3>1, <3>2, PhaseAfter
  <2>11. runtime'[s].phase \in {"LONG", "EXIT_PENDING"} /\ PendingOf(s)' \subseteq {o}
    BY <2>4, <2>7, <2>8 DEF After
  <2>12. Side(o) = "sell"
    BY <2>4 DEF Asked, OrderId, Side
  <2> HIDE DEF o
  <2>13. CooldownOK(s)'
    BY <2>11, <2>12 DEF CooldownOK, Side
  <2>14. SymbolOK(s)'
    BY <2>10, <2>11, <2>13 DEF SymbolOK, OpenOK
  <2>15. OnlyOf(s)
    BY <2>7 DEF OnlyOf
  <2>16. \A id \in issued' : id \notin issued => IdOK(id)'
    BY <2>6, <2>7
  <2> QED
    BY <1>1, <1>4, <2>7, <2>14, <2>15, <2>16, Visited
<1>7. CASE ~asks
  <2>1. UNCHANGED <<books, failure>>
    BY <1>1, <1>7
  <2>2. /\ BooksType' /\ ReservationsMatchOrders' /\ failure' = "none"
        /\ \A u \in Symbols : SymbolOK(u)'
        /\ issued' = issued /\ account' = account /\ runtime' = runtime
    BY <1>2, <2>1, SameBooks
  <2>3. OnlyOf(s)
    BY <2>1 DEF OnlyOf, books, PendingOf
  <2> QED
    BY <1>1, <1>4, <2>2, <2>3, Visited
<1> QED
  BY <1>6, <1>7

LEMMA CancelStep ==
    ASSUME EngineInv, NEW o \in pending, CancelOrder(o)
    PROVE  EngineInv'
<1> DEFINE s == o.id.symbol
<1>1. /\ stage \in {"cancel", "leftover"} /\ o.id \in todo /\ todo' = todo \ {o.id}
      /\ session' = session /\ minute' = minute /\ bar' = bar /\ stage' = stage
  BY DEF CancelOrder, clock
<1>2. s \in Symbols
  BY DEF EngineInv, BooksType, Orders, Ids
<1> HIDE DEF s
<1>3. s = o.id.symbol
  BY DEF s
<1>4. /\ BooksType /\ ReservationsMatchOrders /\ failure = "none" /\ SymbolOK(s) /\ PhaseOK(s)
      /\ ClockType /\ minute' \in Nat /\ minute' >= minute /\ minute \in Nat
  BY <1>1, <1>2 DEF EngineInv, SymbolOK, ClockType
<1>5. stage = "cancel"
  <2>1. stage = "leftover" => AfterCloseout
    BY Times DEF EngineInv, StageInv, AfterCloseout
  <2>2. ~AfterCloseout
    BY DEF EngineInv, CloseInv, Empty
  <2> QED
    BY <1>1, <2>1, <2>2
<1>6. /\ BooksType' /\ ReservationsMatchOrders' /\ failure' = "none"
      /\ issued' = issued /\ PendingIds' = PendingIds \ {o.id}
      /\ OnlyOf(s) /\ PendingOf(s)' = {}
      /\ account'.held = account.held /\ lastExit' = lastExit
      /\ \/ runtime[s].phase = "ENTRY_PENDING" /\ runtime'[s].phase = "FLAT"
         \/ runtime[s].phase = "EXIT_PENDING" /\ runtime'[s].phase = "LONG"
  BY <1>2, <1>3, <1>4, Cancelled
<1>7. SymbolOK(s)'
  <2>1. PhaseOK(s)' /\ OpenOK(s)'
    BY <1>4, <1>6 DEF PhaseOK, OpenOK, Holding
  <2>2. CooldownOK(s)'
    BY <1>1, <1>4, <1>6 DEF SymbolOK, CooldownOK
  <2> QED
    BY <2>1, <2>2 DEF SymbolOK
<1>8. ASSUME NEW u \in Symbols, u # s
      PROVE  SymbolOK(u)'
  <2>1. /\ runtime'[u] = runtime[u] /\ account'.held[u] = account.held[u]
        /\ PendingOf(u)' = PendingOf(u) /\ lastExit'[u] = lastExit[u]
    BY <1>6, <1>8 DEF OnlyOf
  <2>2. SymbolOK(u)
    BY DEF EngineInv
  <2> QED
    BY <1>1, <1>4, <2>1, <2>2, Untouched
<1>9. ClockType'
  BY <1>1, <1>4 DEF ClockType
<1>10. StageInv'
  BY <1>1, <1>5 DEF EngineInv, StageInv
<1>11. \A id \in issued' : IdOK(id)'
  <2> TAKE id \in issued'
  <2>1. IdOK(id)
    BY <1>6 DEF EngineInv
  <2> QED
    BY <1>1, <1>5, <2>1 DEF IdOK
<1>12. CloseInv'
  <2>1. PendingIds' \subseteq todo'
    BY <1>1, <1>5, <1>6 DEF EngineInv, CloseInv
  <2>2. minute = CloseoutSignal
    BY <1>5 DEF EngineInv, StageInv
  <2>3. ~AfterCloseout'
    BY <1>1, <2>2, Times DEF AfterCloseout
  <2> QED
    BY <1>1, <1>5, <2>1, <2>3 DEF CloseInv
<1>13. \A u \in Symbols : SymbolOK(u)'
  BY <1>7, <1>8
<1> QED
  BY <1>6, <1>9, <1>10, <1>11, <1>12, <1>13 DEF EngineInv

LEMMA EndCancelsStep ==
    ASSUME EngineInv, EndCancels
    PROVE  EngineInv'
<1>1. /\ stage = "cancel" /\ todo = {} /\ stage' = "force" /\ todo' = Holding(account)
      /\ session' = session /\ minute' = minute /\ bar' = bar /\ UNCHANGED <<books, failure>>
  BY DEF EndCancels, clock
<1>2. /\ BooksType' /\ ReservationsMatchOrders' /\ failure' = "none"
      /\ \A u \in Symbols : SymbolOK(u)'
      /\ pending' = pending /\ issued' = issued
      /\ account' = account /\ Holding(account)' = Holding(account) /\ runtime' = runtime
  BY <1>1, SameBooks
<1>3. minute = CloseoutSignal /\ minute # Close
  BY <1>1 DEF EngineInv, StageInv
<1>4. ClockType'
  BY <1>1 DEF EngineInv, ClockType, Stages, Holding
<1>5. StageInv'
  BY <1>1, <1>3 DEF StageInv
<1>6. \A id \in issued' : IdOK(id)'
  <2> TAKE id \in issued'
  <2>1. IdOK(id)
    BY <1>2 DEF EngineInv
  <2>2. ~(minute > CloseoutSignal)
    BY <1>3, Times
  <2> QED
    BY <1>1, <2>1, <2>2 DEF IdOK
<1>7. pending = {}
  BY <1>1 DEF EngineInv, CloseInv, PendingIds
<1>8. \A s \in Symbols : runtime[s].phase = "LONG" <=> s \in Holding(account)
  <2> TAKE s \in Symbols
  <2>1. PendingOf(s) = {} /\ PhaseOK(s)
    BY <1>7 DEF PendingOf, EngineInv, SymbolOK
  <2>2. runtime[s].phase # "EXIT_PENDING"
    BY <2>1 DEF PhaseOK
  <2> QED
    BY <2>1, <2>2 DEF PhaseOK
<1>9. CloseInv'
  <2>1. ~AfterCloseout' /\ minute' # CloseoutTime
    BY <1>1, <1>3, Times DEF AfterCloseout
  <2> QED
    BY <1>1, <1>2, <1>7, <1>8, <2>1 DEF CloseInv
<1> QED
  BY <1>2, <1>4, <1>5, <1>6, <1>9 DEF EngineInv

\* A forced exit is always reserved: its symbol has no other order.
LEMMA ForceStep ==
    ASSUME EngineInv, NEW s \in Symbols, ForceExit(s)
    PROVE  EngineInv'
<1> DEFINE quantity == account.held[s].quantity
           reason == "session_close"
<1>1. /\ stage = "force" /\ s \in todo /\ todo' = todo \ {s} /\ UNCHANGED <<clock, stage>>
      /\ Submit(s, runtime[s], reason, minute, bar[s].open, quantity)
  BY DEF ForceExit
<1>2. minute' = minute /\ session' = session /\ stage' = stage
  BY <1>1 DEF clock
<1>3. minute = CloseoutSignal
  BY <1>1 DEF EngineInv, StageInv
<1>4. /\ BooksType /\ ReservationsMatchOrders /\ failure = "none" /\ SymbolOK(s) /\ ClockType
      /\ session \in Nat /\ minute \in Nat
  BY DEF EngineInv, ClockType
<1>5. /\ \A o \in pending : Forced(o) /\ o.id.signal = minute
      /\ \A u \in Symbols : runtime[u].phase = "LONG" <=> u \in todo
  BY <1>1 DEF EngineInv, CloseInv
<1>6. runtime[s].phase = "LONG" /\ quantity \in Int /\ quantity = account.held[s].quantity
  BY <1>1, <1>4, <1>5, FlatFacts
<1> HIDE DEF quantity
<1>7. /\ reason \in Reasons /\ SideOf(reason) = "sell" /\ Before(reason) = "LONG"
      /\ reason # "entry_signal" /\ reason = "session_close" /\ After(reason) = "EXIT_PENDING"
  BY DEF Reasons, SideOf, Before, After
<1> HIDE DEF reason
<1>8. /\ runtime[s] \in States /\ bar[s].open \in Int
      /\ Worse(SideOf(reason), bar[s].open) \in Int
  BY <1>4, <1>7, Prices DEF BooksType
<1>9. PendingOf(s) = {} /\ s \in Holding(account)
  BY <1>4, <1>6 DEF SymbolOK, PhaseOK
<1>10. ASSUME NEW id, id = OrderId(s, reason, minute)
       PROVE  /\ id \notin issued /\ IdOK(id)'
              /\ MayReserve(account, id, s, "sell", quantity, Worse("sell", bar[s].open))
  <2>1. id.session = session /\ id.symbol = s /\ id.reason = reason /\ id.signal = minute
    BY <1>10 DEF OrderId
  <2>2. id \notin issued
    BY <1>1, <1>7, <2>1 DEF EngineInv, IdOK
  <2>3. IdOK(id)'
    BY <1>1, <1>2, <1>4, <1>7, <2>1 DEF IdOK
  <2>4. id \in Ids
    BY <1>4, <1>7, <1>10 DEF OrderId, Ids
  <2>5. MayReserve(account, id, s, "sell", quantity, Worse("sell", bar[s].open))
    BY <1>4, <1>6, <1>9, <2>1, <2>4, SaleIsReserved
  <2> QED
    BY <2>2, <2>3, <2>5
<1> DEFINE o == Asked(s, reason, minute, bar[s].open, quantity)
<1>11. /\ BooksType' /\ ReservationsMatchOrders' /\ failure' = "none"
       /\ lastExit' = lastExit /\ account'.held = account.held
       /\ \A u \in Symbols \ {s} : runtime'[u] = runtime[u] /\ PendingOf(u)' = PendingOf(u)
       /\ issued' \subseteq issued \cup {OrderId(s, reason, minute)}
       /\ \/ /\ runtime'[s].phase = "EXIT_PENDING"
             /\ pending' = pending \cup {o} /\ PendingOf(s)' = PendingOf(s) \cup {o}
          \/ ~MayReserve(account, OrderId(s, reason, minute), s, "sell", quantity,
                         Worse("sell", bar[s].open))
  BY <1>1, <1>4, <1>6, <1>7, <1>8, <1>10, Submitted
<1>12. /\ runtime'[s].phase = "EXIT_PENDING"
       /\ pending' = pending \cup {o} /\ PendingOf(s)' = PendingOf(s) \cup {o}
  BY <1>10, <1>11
<1>13. PhaseOK(s)'
  <2>1. /\ s \in Holding(account) <=> reason # "entry_signal"
        /\ reason # "entry_signal" => quantity = account.held[s].quantity
        /\ runtime'[s].phase = After(reason)
        /\ PendingOf(s)' = PendingOf(s)
                \cup {Asked(s, reason, minute, bar[s].open, quantity)}
    BY <1>6, <1>7, <1>9, <1>12
  <2> QED
    BY <1>4, <1>7, <1>9, <1>11, <2>1, PhaseAfter
<1>14. Side(o) = "sell" /\ Forced(o) /\ o.id.signal = minute
  BY <1>7 DEF Asked, OrderId, Side, Forced
<1> HIDE DEF o
<1>15. SymbolOK(s)'
  <2>1. CooldownOK(s)'
    BY <1>9, <1>12, <1>14 DEF CooldownOK, Side
  <2> QED
    BY <1>12, <1>13, <2>1 DEF SymbolOK, OpenOK
<1>16. OnlyOf(s)
  BY <1>11 DEF OnlyOf
<1>17. CloseInv'
  <2>1. \A p \in pending' : Forced(p) /\ p.id.signal = minute
    BY <1>5, <1>12, <1>14
  <2>2. \A u \in Symbols : runtime'[u].phase = "LONG" <=> u \in todo'
    BY <1>1, <1>5, <1>11, <1>12
  <2>3. ~AfterCloseout' /\ minute' # CloseoutTime
    BY <1>1, <1>2, <1>3, Times DEF AfterCloseout
  <2> QED
    BY <1>1, <1>2, <2>1, <2>2, <2>3 DEF CloseInv, Forced
<1>18. \A id \in issued' : id \notin issued => IdOK(id)'
  BY <1>10, <1>11
<1> QED
  BY <1>1, <1>11, <1>15, <1>16, <1>17, <1>18, Visited

LEMMA NextMinuteStep ==
    ASSUME EngineInv, NextMinute
    PROVE  EngineInv'
<1>1. /\ stage \in {"risk", "force", "next"} /\ todo = {} /\ minute' = minute + 1
      /\ issued' = {id \in issued : id.signal > minute}
      /\ IF minute' < Close THEN stage' = "rows" /\ todo' \in RowsDue(minute')
                            ELSE stage' = "leftover" /\ todo' = PendingIds
      /\ session' = session /\ bar' = bar /\ runtime' = runtime /\ account' = account
      /\ pending' = pending /\ lastExit' = lastExit /\ failure' = failure
  BY DEF NextMinute
<1>2. /\ BooksType /\ ReservationsMatchOrders /\ failure = "none" /\ ClockType
      /\ minute \in Nat /\ minute' \in Nat /\ minute' >= minute
  BY <1>1 DEF EngineInv, ClockType
<1>3. /\ Close \in Nat /\ CloseoutTime \in Nat /\ CloseoutSignal \in Nat
      /\ CloseoutTime = CloseoutSignal + 1 /\ CloseoutTime < Close
  BY Times
<1>4. minute < Close
  BY <1>1, <1>2, <1>3 DEF EngineInv, StageInv, ClockType
<1>5. /\ stage' \in {"rows", "leftover"} /\ minute' <= Close
      /\ stage' = "leftover" <=> minute' = Close
      /\ stage' = "rows" => todo' \in RowsDue(minute')
      /\ stage' = "leftover" => todo' = PendingIds
  BY <1>1, <1>2, <1>3, <1>4
<1>6. /\ BooksType' /\ ReservationsMatchOrders' /\ failure' = "none"
      /\ Holding(account)' = Holding(account) /\ PendingIds' = PendingIds
  BY <1>1, <1>2 DEF BooksType, ReservationsMatchOrders, Holding, PendingIds
<1>7. \A u \in Symbols : SymbolOK(u)'
  <2> TAKE u \in Symbols
  <2>1. PendingOf(u)' = PendingOf(u)
    BY <1>1 DEF PendingOf
  <2>2. SymbolOK(u) /\ stage' # "closed"
    BY <1>5 DEF EngineInv
  <2> QED
    BY <1>1, <1>2, <2>1, <2>2, Untouched
<1>8. ClockType'
  <2>1. PendingIds \in SUBSET Ids
    BY DEF EngineInv, BooksType, Orders, PendingIds
  <2>2. stage' = "rows" => todo' \in SUBSET Symbols
    BY <1>5 DEF RowsDue
  <2> QED
    BY <1>1, <1>2, <1>5, <2>1, <2>2 DEF ClockType, Stages
<1>9. StageInv'
  <2>1. stage' = "rows" /\ todo' # {} => minute' < CloseoutSignal
    BY <1>5 DEF RowsDue
  <2> QED
    BY <1>5, <2>1 DEF StageInv
<1>10. \A id \in issued' : IdOK(id)'
  <2> TAKE id \in issued'
  <2>1. IdOK(id) /\ id \in Ids /\ id.signal > minute
    BY <1>1 DEF EngineInv, BooksType
  <2>2. id.session \in Nat /\ id.signal \in Nat
    BY <2>1 DEF Ids
  <2>3. ASSUME id.session = session
        PROVE  /\ id.signal <= minute'
               /\ id.reason \notin {"entry_signal", "exit_signal"}
               /\ id.reason = "session_close" => minute' > CloseoutSignal
    <3>1. id.signal <= minute + 1 /\ id.reason \notin {"entry_signal", "exit_signal"}
      BY <1>2, <2>1, <2>2, <2>3 DEF IdOK
    <3>2. id.reason = "session_close" => stage = "force" \/ minute > CloseoutSignal
      BY <2>1, <2>3 DEF IdOK
    <3>3. stage = "force" => minute = CloseoutSignal
      BY DEF EngineInv, StageInv
    <3> QED
      BY <1>1, <1>2, <1>3, <3>1, <3>2, <3>3
  <2>4. id.session <= session
    BY <2>1 DEF IdOK
  <2>5. id.signal <= minute' => id.signal <= minute' + 1
    BY <1>2, <2>2
  <2> QED
    BY <1>1, <1>5, <2>3, <2>4, <2>5 DEF IdOK
<1>11. CloseInv'
  <2>1. minute' = CloseoutTime =>
            /\ \A o \in pending : Forced(o) /\ o.id.signal < minute'
            /\ \A s \in Symbols : runtime[s].phase # "LONG"
    <3> HAVE minute' = CloseoutTime
    <3>1. minute = CloseoutSignal
      <4>1. minute' = minute + 1
        BY <1>1
      <4> QED
        BY <1>2, <1>3, <4>1
    <3>2. stage = "force"
      BY <1>1, <1>3, <3>1 DEF EngineInv, StageInv
    <3>3. /\ \A o \in pending : Forced(o) /\ o.id.signal = minute
          /\ \A s \in Symbols : runtime[s].phase # "LONG"
      BY <1>1, <3>2 DEF EngineInv, CloseInv
    <3> QED
      BY <1>1, <1>2, <3>3
  <2>2. AfterCloseout' => Empty
    <3> HAVE AfterCloseout'
    <3>1. minute' > CloseoutTime
      BY <1>3, <1>5 DEF AfterCloseout
    <3>2. AfterCloseout
      BY <1>1, <1>2, <1>3, <3>1 DEF AfterCloseout
    <3> QED
      BY <3>2 DEF EngineInv, CloseInv
  <2>3. Empty => Empty'
    BY <1>1, <1>6 DEF Empty
  <2> QED
    BY <1>1, <1>5, <2>1, <2>2, <2>3 DEF CloseInv, Forced
<1> QED
  BY <1>6, <1>7, <1>8, <1>9, <1>10, <1>11 DEF EngineInv

\* At the end of a session nothing is held and nothing works.
LEMMA OverIsEmpty ==
    ASSUME EngineInv, stage \in {"leftover", "closed"}
    PROVE  Empty /\ minute = Close /\ \A s \in Symbols : PendingOf(s) = {}
<1>1. minute = Close
  BY DEF EngineInv, StageInv
<1>2. Empty
  BY <1>1, Times DEF EngineInv, CloseInv, AfterCloseout
<1> QED
  BY <1>1, <1>2 DEF Empty, PendingOf

LEMMA FinishStep ==
    ASSUME EngineInv, FinishSession
    PROVE  EngineInv'
<1>1. /\ stage = "leftover" /\ todo = {} /\ stage' = "closed"
      /\ runtime' = [s \in Symbols |-> Transition(runtime[s], "SESSION_CLOSED")]
      /\ session' = session /\ minute' = minute /\ bar' = bar /\ todo' = todo
      /\ account' = account /\ pending' = pending /\ issued' = issued /\ lastExit' = lastExit
  BY DEF FinishSession, clock
<1>2. Empty /\ minute = Close /\ \A s \in Symbols : PendingOf(s) = {}
  BY <1>1, OverIsEmpty
<1>3. /\ BooksType /\ ReservationsMatchOrders /\ failure = "none" /\ ClockType
  BY DEF EngineInv
<1>4. ASSUME NEW s \in Symbols
      PROVE  /\ Transition(runtime[s], "SESSION_CLOSED") \in States
             /\ Transition(runtime[s], "SESSION_CLOSED").phase = "SESSION_CLOSED"
             /\ MayMove(runtime[s], "SESSION_CLOSED")
  <2>1. runtime[s] \in States /\ "SESSION_CLOSED" \in Phase
    BY <1>3 DEF BooksType, Phase
  <2>2. runtime[s].phase # "SESSION_CLOSED" /\ runtime[s].phase \in Phase
    BY <1>1, <2>1 DEF EngineInv, SymbolOK, OpenOK, States
  <2>3. MayMove(runtime[s], "SESSION_CLOSED")
    BY <2>2 DEF MayMove, PublicTransitions, Phase
  <2> QED
    BY <2>1, <2>3, Moves
<1>5. failure' = "none"
  <2>1. Holding(account) = {} /\ account.reservations = {}
    BY <1>2 DEF Empty
  <2>2. failure' = CASE Holding(account) # {} -> "positions remained"
                     [] \E s \in Symbols : ~MayMove(runtime[s], "SESSION_CLOSED")
                          -> "illegal transition"
                     [] account.reservations # {} -> "working orders"
                     [] OTHER -> failure
    BY DEF FinishSession
  <2> QED
    BY <1>3, <1>4, <2>1, <2>2
<1>6. BooksType'
  BY <1>1, <1>3, <1>4 DEF BooksType
<1>7. ReservationsMatchOrders' /\ Empty'
  BY <1>1, <1>2, <1>3 DEF ReservationsMatchOrders, PendingIds, Empty, Holding
<1>8. \A s \in Symbols : SymbolOK(s)'
  <2> TAKE s \in Symbols
  <2>1. /\ runtime'[s].phase = "SESSION_CLOSED" /\ PendingOf(s)' = {}
        /\ s \notin Holding(account)'
    BY <1>1, <1>2, <1>4, <1>7 DEF PendingOf, Empty
  <2>2. PhaseOK(s)'
    BY <2>1 DEF PhaseOK
  <2>3. CooldownOK(s)'
    BY <2>1 DEF CooldownOK
  <2> QED
    BY <1>1, <2>2, <2>3 DEF SymbolOK, OpenOK
<1>9. ClockType'
  BY <1>1, <1>3 DEF ClockType, Stages
<1>10. StageInv'
  BY <1>1, <1>2 DEF StageInv
<1>11. \A id \in issued' : IdOK(id)'
  <2> TAKE id \in issued'
  <2>1. IdOK(id)
    BY <1>1 DEF EngineInv
  <2> QED
    BY <1>1, <2>1 DEF IdOK
<1>12. CloseInv'
  BY <1>1, <1>7 DEF CloseInv
<1> QED
  BY <1>5, <1>6, <1>7, <1>8, <1>9, <1>10, <1>11, <1>12 DEF EngineInv

LEMMA Started ==
    /\ Unstarted \in States /\ Unstarted.phase = "FLAT" /\ NoTime \in Int
BY DEF Unstarted, States, Phase, NoTime

LEMMA NextSessionStep ==
    ASSUME EngineInv, NextSession
    PROVE  EngineInv'
<1>1. /\ stage = "closed" /\ session' = session + 1 /\ minute' = 0 /\ stage' = "rows"
      /\ runtime' = [s \in Symbols |-> Unstarted] /\ lastExit' = [s \in Symbols |-> NoTime]
      /\ todo' = todo /\ bar' = bar /\ account' = account /\ pending' = pending
      /\ issued' = issued /\ failure' = failure
  BY DEF NextSession
<1>2. Empty /\ todo = {} /\ \A s \in Symbols : PendingOf(s) = {}
  BY <1>1, OverIsEmpty DEF EngineInv, StageInv
<1>3. BooksType /\ ReservationsMatchOrders /\ failure = "none" /\ ClockType /\ session \in Nat
  BY DEF EngineInv, ClockType
<1>4. BooksType' /\ failure' = "none"
  BY <1>1, <1>3, Started DEF BooksType
<1>5. ReservationsMatchOrders' /\ Empty'
  BY <1>1, <1>2, <1>3 DEF ReservationsMatchOrders, PendingIds, Empty, Holding
<1>6. \A s \in Symbols : SymbolOK(s)'
  <2> TAKE s \in Symbols
  <2>1. /\ runtime'[s].phase = "FLAT" /\ PendingOf(s)' = {} /\ lastExit'[s] = NoTime
        /\ s \notin Holding(account)'
    BY <1>1, <1>2, <1>5, Started DEF PendingOf, Empty
  <2>2. PhaseOK(s)'
    BY <2>1 DEF PhaseOK
  <2>3. CooldownOK(s)'
    BY <2>1 DEF CooldownOK
  <2> QED
    BY <2>1, <2>2, <2>3 DEF SymbolOK, OpenOK
<1>7. ClockType'
  BY <1>1, <1>2, <1>3, Times DEF ClockType, Stages
<1>8. StageInv'
  BY <1>1, <1>2, Times DEF StageInv
<1>9. \A id \in issued' : IdOK(id)'
  <2> TAKE id \in issued'
  <2>1. id.session <= session /\ id.session \in Nat
    BY <1>1, <1>3 DEF EngineInv, IdOK, BooksType, Ids
  <2>2. id.session <= session' /\ id.session # session'
    BY <1>1, <1>3, <2>1
  <2> QED
    BY <2>2 DEF IdOK
<1>10. CloseInv'
  BY <1>1, Times DEF CloseInv, AfterCloseout
<1> QED
  BY <1>4, <1>5, <1>6, <1>7, <1>8, <1>9, <1>10 DEF EngineInv

LEMMA EngineInit ==
    ASSUME Init
    PROVE  EngineInv
<1>1. /\ session = 1 /\ minute = 0 /\ stage = "rows" /\ todo = {}
      /\ bar \in [Symbols -> {CHOOSE b \in Bars : TRUE}]
      /\ runtime = [s \in Symbols |-> Unstarted] /\ account = Account(InitialCash)
      /\ pending = {} /\ issued = {} /\ failure = "none"
      /\ lastExit = [s \in Symbols |-> NoTime]
  BY DEF Init
<1>2. (CHOOSE b \in Bars : TRUE) \in Bars
  BY MoneyAssumption
<1>3. Flat \in Positions /\ Flat.quantity = 0
  BY DEF Flat, Positions
<1>4. account = [cash |-> InitialCash, held |-> [s \in Symbols |-> Flat], reservations |-> {}]
  BY <1>1 DEF Account
<1>5. account \in Accounts
  BY <1>3, <1>4, MoneyAssumption DEF Accounts
<1>6. BooksType
  BY <1>1, <1>5, Started DEF BooksType
<1>7. ReservationsMatchOrders
  BY <1>1, <1>4 DEF ReservationsMatchOrders
<1>8. \A s \in Symbols : SymbolOK(s)
  <2> TAKE s \in Symbols
  <2>1. /\ runtime[s].phase = "FLAT" /\ PendingOf(s) = {} /\ lastExit[s] = NoTime
        /\ s \notin Holding(account)
    BY <1>1, <1>3, <1>4, Started DEF PendingOf, Holding
  <2>2. PhaseOK(s)
    BY <2>1 DEF PhaseOK
  <2>3. CooldownOK(s)
    BY <2>1 DEF CooldownOK
  <2> QED
    BY <2>1, <2>2, <2>3 DEF SymbolOK, OpenOK
<1>9. ClockType
  BY <1>1, <1>2, Times DEF ClockType, Stages
<1>10. StageInv
  BY <1>1, Times DEF StageInv
<1>11. CloseInv
  BY <1>1, Times DEF CloseInv, AfterCloseout
<1> QED
  BY <1>1, <1>6, <1>7, <1>8, <1>9, <1>10, <1>11 DEF EngineInv

LEMMA EngineStutter ==
    ASSUME EngineInv, UNCHANGED vars
    PROVE  EngineInv'
<1>1. /\ UNCHANGED <<books, failure>> /\ UNCHANGED <<clock, stage, todo>>
  BY DEF vars, books, clock
<1>2. /\ session' = session /\ minute' = minute /\ bar' = bar /\ stage' = stage /\ todo' = todo
  BY <1>1 DEF clock
<1>3. /\ BooksType' /\ ReservationsMatchOrders' /\ failure' = "none"
      /\ \A u \in Symbols : SymbolOK(u)'
      /\ pending' = pending /\ PendingIds' = PendingIds /\ issued' = issued
      /\ account' = account /\ Holding(account)' = Holding(account) /\ runtime' = runtime
  BY <1>1, <1>2, SameBooks
<1>4. ClockType' /\ StageInv'
  BY <1>2 DEF EngineInv, ClockType, StageInv
<1>5. \A id \in issued' : IdOK(id)'
  <2> TAKE id \in issued'
  <2>1. IdOK(id)
    BY <1>3 DEF EngineInv
  <2> QED
    BY <1>2, <2>1 DEF IdOK
<1>6. CloseInv'
  BY <1>2, <1>3 DEF EngineInv, CloseInv, AfterCloseout, Empty, Forced
<1> QED
  BY <1>3, <1>4, <1>5, <1>6 DEF EngineInv

LEMMA EngineNext ==
    ASSUME EngineInv, [Next]_vars
    PROVE  EngineInv'
<1>1. CASE Next
  <2>1. CASE \E s \in Symbols : Row(s)
    BY <2>1, RowStep
  <2>2. CASE OpenMinute
    BY <2>2, OpenMinuteStep
  <2>3. CASE \E o \in pending : Order(o)
    BY <2>3, OrderStep
  <2>4. CASE EndOrders
    BY <2>4, EndOrdersStep
  <2>5. CASE \E s \in Symbols : RiskExit(s)
    BY <2>5, RiskStep
  <2>6. CASE \E o \in pending : CancelOrder(o)
    BY <2>6, CancelStep
  <2>7. CASE EndCancels
    BY <2>7, EndCancelsStep
  <2>8. CASE \E s \in Symbols : ForceExit(s)
    BY <2>8, ForceStep
  <2>9. CASE NextMinute
    BY <2>9, NextMinuteStep
  <2>10. CASE FinishSession
    BY <2>10, FinishStep
  <2>11. CASE NextSession
    BY <2>11, NextSessionStep
  <2> QED
    BY <1>1, <2>1, <2>2, <2>3, <2>4, <2>5, <2>6, <2>7, <2>8, <2>9, <2>10, <2>11
    DEF Next, Step
<1>2. CASE UNCHANGED vars
  BY <1>2, EngineStutter
<1> QED
  BY <1>1, <1>2

----------------------------------------------------------------------------
(***************************************************************************)
(* The theorems                                                            *)
(***************************************************************************)

\* Every state of a backtest satisfies the inductive invariant: the walk
\* through the minutes, the ids already asked for and the books of every
\* symbol fit together (engine.py:560, engine.py:962).
THEOREM EngineInvariant == Spec => []EngineInv
<1>1. Init => EngineInv
  BY EngineInit
<1>2. EngineInv /\ [Next]_vars => EngineInv'
  BY EngineNext
<1> QED
  BY <1>1, <1>2, PTL DEF Spec

\* The runtime phase, the position, the working orders and the reservations
\* of every symbol always say the same thing (runtime.py:121,
\* portfolio.py:182, engine.py:962).
THEOREM BooksAgreeCorrect == Spec => []BooksAgree
<1>1. EngineInv => BooksAgree
  BY DEF EngineInv, SymbolOK, PhaseOK, BooksAgree
<1> QED
  BY <1>1, EngineInvariant, PTL

\* The engine raises none of its errors: whatever the bars and the rules,
\* no illegal transition, no missing reservation, nothing left at the end
\* of a session (engine.py:809, engine.py:822, runtime.py:196).
THEOREM NeverFailsCorrect == Spec => []NeverFails
<1>1. EngineInv => NeverFails
  BY DEF EngineInv, NeverFails
<1> QED
  BY <1>1, EngineInvariant, PTL

\* From the closeout minute on nothing is held and nothing works
\* (engine.py:740).
THEOREM FlatCorrect == Spec => []FlatByCloseout
<1>1. EngineInv => FlatByCloseout
  <2> SUFFICES ASSUME EngineInv, ~(minute < CloseoutTime),
                      ~(minute = CloseoutTime /\ stage \in {"rows", "orders"})
               PROVE  Empty
    BY DEF FlatByCloseout, Empty
  <2>1. minute \in Nat /\ CloseoutTime \in Nat
    BY Times DEF EngineInv, ClockType
  <2>2. AfterCloseout
    BY <2>1 DEF AfterCloseout
  <2> QED
    BY <2>2 DEF EngineInv, CloseInv
<1> QED
  BY <1>1, EngineInvariant, PTL

\* A symbol just sold is not bought again before its cooldown is over
\* (engine.py:647, runtime.py:415).
THEOREM CooldownCorrect == Spec => []CooldownHonoured
<1>1. EngineInv => CooldownHonoured
  <2> SUFFICES ASSUME EngineInv, NEW o \in pending, Side(o) = "buy",
                      lastExit[o.id.symbol] # NoTime
               PROVE  o.id.signal >= lastExit[o.id.symbol] + Cooldown
    BY DEF CooldownHonoured
  <2>1. o.id.symbol \in Symbols
    BY DEF EngineInv, BooksType, Orders, Ids
  <2>2. o \in PendingOf(o.id.symbol)
    BY DEF PendingOf
  <2>3. CooldownOK(o.id.symbol)
    BY <2>1 DEF EngineInv, SymbolOK
  <2> QED
    BY <2>2, <2>3 DEF CooldownOK
<1> QED
  BY <1>1, EngineInvariant, PTL

LEMMA SubmitHolds ==
    ASSUME BooksType, NEW s \in Symbols, NEW state, NEW reason, NEW signal, NEW reference,
           NEW quantity, Submit(s, state, reason, signal, reference, quantity)
    PROVE  account'.held = account.held
<1> DEFINE id == OrderId(s, reason, signal)
           price == Worse(SideOf(reason), reference)
           r == Reservation(id, s, SideOf(reason), quantity,
                            IF SideOf(reason) = "buy" THEN quantity * price ELSE 0)
<1>1. \/ account' = Reserve(account, id, s, SideOf(reason), quantity, price)
      \/ account' = account
  BY DEF Submit
<1>2. Reserve(account, id, s, SideOf(reason), quantity, price) =
          [account EXCEPT !.reservations = account.reservations \cup {r}]
  BY DEF Reserve
<1> HIDE DEF id, price, r
<1>3. account.held = [account EXCEPT !.reservations = account.reservations \cup {r}].held
  BY DEF BooksType, Accounts
<1> QED
  BY <1>1, <1>2, <1>3

\* The only step that changes a position fills an order of an earlier minute.
LEMMA OnlyFillsTrade ==
    ASSUME EngineInv, [Next]_vars, NEW s \in Symbols, account'.held[s] # account.held[s]
    PROVE  \E o \in pending \ pending' : o.id.symbol = s /\ o.id.signal < minute
<1>1. CASE \E o \in pending : Order(o)
  <2>1. PICK o \in pending : Order(o)
    BY <1>1
  <2>2. stage = "orders" /\ o.id \in todo
    BY <2>1 DEF Order
  <2>3. o.id.signal < minute
    BY <2>2 DEF EngineInv, StageInv
  <2>4. Crosses(o, bar[o.id.symbol])
    BY <2>1 DEF Order, books
  <2> DEFINE price == FillPrice(o, bar[o.id.symbol])
  <2>5. o.id.symbol \in Symbols
    BY DEF EngineInv, BooksType, Orders, Ids
  <2>6. price \in Int /\ Fill(o, price)
    BY <2>1, <2>4, <2>5, FillPriceIsMoney DEF Order
  <2> HIDE DEF price
  <2>7. /\ BooksType /\ ReservationsMatchOrders /\ failure = "none" /\ minute \in Nat
        /\ PhaseOK(o.id.symbol)
    BY <2>5 DEF EngineInv, ClockType, SymbolOK
  <2>8. OnlyOf(o.id.symbol) /\ pending' = pending \ {o}
    BY <2>5, <2>6, <2>7, Filled
  <2>9. s = o.id.symbol
    BY <2>8 DEF OnlyOf
  <2> QED
    BY <2>3, <2>8, <2>9
<1>2. CASE ~\E o \in pending : Order(o)
  <2>1. BooksType
    BY DEF EngineInv
  <2>2. account'.held = account.held
    <3>1. CASE \E u \in Symbols : Row(u)
      BY <2>1, <3>1, SubmitHolds DEF Row, RowEnters, RowExits, RowIsQuiet
    <3>2. CASE OpenMinute
      BY <3>2 DEF OpenMinute, books
    <3>3. CASE EndOrders
      BY <3>3 DEF EndOrders, books
    <3>4. CASE \E u \in Symbols : RiskExit(u)
      BY <2>1, <3>4, SubmitHolds DEF RiskExit, books
    <3>5. CASE \E o \in pending : CancelOrder(o)
      <4>1. PICK o \in pending : account' = Release(account, o.id)
        BY <3>5 DEF CancelOrder
      <4> QED
        BY <2>1, <4>1 DEF Release, BooksType, Accounts
    <3>6. CASE EndCancels
      BY <3>6 DEF EndCancels, books
    <3>7. CASE \E u \in Symbols : ForceExit(u)
      BY <2>1, <3>7, SubmitHolds DEF ForceExit
    <3>8. CASE NextMinute
      BY <3>8 DEF NextMinute
    <3>9. CASE FinishSession
      BY <3>9 DEF FinishSession
    <3>10. CASE NextSession
      BY <3>10 DEF NextSession
    <3>11. CASE UNCHANGED vars
      BY <3>11 DEF vars
    <3> QED
      BY <1>2, <3>1, <3>2, <3>3, <3>4, <3>5, <3>6, <3>7, <3>8, <3>9, <3>10, <3>11
      DEF Next, Step
  <2> QED
    BY <2>2
<1> QED
  BY <1>1, <1>2

\* No look-ahead: a position changes only by an order signalled in an
\* earlier minute than the bar it fills with (engine.py:997, fills.py:98).
THEOREM NoLookAheadCorrect == Spec => NoLookAhead
<1> DEFINE Trades == \A s \in Symbols : account'.held[s] # account.held[s] =>
                        \E o \in pending \ pending' : o.id.symbol = s /\ o.id.signal < minute
<1>1. EngineInv /\ [Next]_vars => [Trades]_vars
  BY OnlyFillsTrade
<1>2. NoLookAhead <=> [][Trades]_vars
  BY DEF NoLookAhead
<1> QED
  BY <1>1, <1>2, EngineInvariant, PTL DEF Spec
----------------------------------------------------------------------------
(***************************************************************************)
(* Cash and its reservations                                               *)
(***************************************************************************)

\* What a purchase reserved is money, and so is the price of any order.
FundsOK ==
    /\ IsFiniteSet(account.reservations)
    /\ \A r \in account.reservations : r.cash \in Nat
    /\ \A o \in pending : o.limit \in Nat
    /\ FundsCovered

\* The cash reserved is the sum of the purchases' reservations.
LEMMA ReservedIsTotal ==
    ASSUME NEW book, IsFiniteSet(Buys(book.reservations)),
           NEW w, \A r \in Buys(book.reservations) : w[r] = r.cash /\ r.cash \in Nat
    PROVE  \E f \in [SUBSET Buys(book.reservations) -> Int] :
              /\ IsTotal(f, w, Buys(book.reservations))
              /\ ReservedCash(book) = f[Buys(book.reservations)]
<1> DEFINE S == Buys(book.reservations)
           IsSum(f) == f = [s \in SUBSET S |->
                              IF s = {} THEN 0
                              ELSE (CHOOSE x \in s : TRUE).cash
                                       + f[s \ {CHOOSE x \in s : TRUE}]]
           sum == CHOOSE f : IsSum(f)
<1>1. ReservedCash(book) = sum[S]
  BY DEF ReservedCash, MapThenSumSet, MapThenFoldSet
<1>2. ASSUME NEW f PROVE IsTotal(f, w, S) <=> IsSum(f)
  <2>1. \A s \in SUBSET S : s # {} => w[First(s)] = First(s).cash
    BY FirstIsIn
  <2> DEFINE g == [s \in SUBSET S |-> IF s = {} THEN 0 ELSE w[First(s)] + f[s \ {First(s)}]]
             h == [s \in SUBSET S |-> IF s = {} THEN 0
                                      ELSE First(s).cash + f[s \ {First(s)}]]
  <2>2. g = h
    BY <2>1
  <2>3. IsTotal(f, w, S) <=> f = g
    BY DEF IsTotal
  <2>4. IsSum(f) <=> f = h
    BY DEF First
  <2> HIDE DEF IsSum, g, h
  <2> QED
    BY <2>2, <2>3, <2>4
<1>3. PICK f \in [SUBSET S -> Int] : IsTotal(f, w, S)
  <2>1. \A x \in S : w[x] \in Int
    OBVIOUS
  <2> HIDE DEF S
  <2>2. IsFiniteSet(S)
    BY DEF S
  <2> QED
    BY <2>1, <2>2, TotalExists
<1>4. IsSum(sum)
  <2>1. IsSum(f)
    BY <1>2, <1>3
  <2> HIDE DEF IsSum
  <2> QED
    BY <2>1
<1>5. IsTotal(sum, w, S)
  BY <1>2, <1>4
<1>6. sum = f
  <2>1. \A s \in SUBSET (S \cap S) : sum[s] = f[s]
    BY <1>3, <1>5, TotalsAgree
  <2>2. sum = [s \in SUBSET S |-> sum[s]]
    BY <1>4
  <2> HIDE DEF sum
  <2> QED
    BY <2>1, <2>2
<1> QED
  BY <1>1, <1>3, <1>6

\* A further purchase adds what it reserves.
LEMMA ReservedAdds ==
    ASSUME NEW a, NEW b, NEW x, IsFiniteSet(Buys(b.reservations)),
           \A r \in Buys(b.reservations) : r.cash \in Nat,
           Buys(b.reservations) = Buys(a.reservations) \cup {x},
           x \notin Buys(a.reservations)
    PROVE  /\ ReservedCash(b) = ReservedCash(a) + x.cash
           /\ ReservedCash(a) \in Nat /\ x.cash \in Nat
<1> DEFINE S == Buys(a.reservations)
           T == Buys(b.reservations)
           w == [r \in T |-> r.cash]
<1>1. S \subseteq T /\ x \in T /\ T \ {x} = S /\ IsFiniteSet(S)
  BY FS_Subset
<1>2. /\ \A r \in S : w[r] = r.cash /\ r.cash \in Nat
      /\ \A r \in T : w[r] = r.cash /\ r.cash \in Nat
  BY <1>1
<1> HIDE DEF w
<1>3. PICK f \in [SUBSET S -> Int] : IsTotal(f, w, S) /\ ReservedCash(a) = f[S]
  BY <1>1, <1>2, ReservedIsTotal
<1>4. PICK g \in [SUBSET T -> Int] : IsTotal(g, w, T) /\ ReservedCash(b) = g[T]
  BY <1>2, ReservedIsTotal
<1>5. g[T] = w[x] + g[T \ {x}]
  <2>1. /\ \A r \in T : w[r] \in Int
        /\ T \in SUBSET T /\ x \in T
        /\ IsFiniteSet(T) /\ IsTotal(g, w, T) /\ \A s \in SUBSET T : g[s] \in Int
    BY <1>1, <1>2, <1>4
  <2> HIDE DEF T
  <2> QED
    BY <2>1, TotalWithout
<1>6. g[S] = f[S]
  <2>1. S \in SUBSET (S \cap T)
    BY <1>1
  <2> QED
    BY <1>1, <1>3, <1>4, <2>1, TotalsAgree
<1>7. f[S] \in Nat
  BY <1>1, <1>2, <1>3, TotalIsNat
<1>8. g[T] = x.cash + f[S] /\ x.cash \in Nat
  BY <1>1, <1>2, <1>5, <1>6
<1> QED
  BY <1>3, <1>4, <1>7, <1>8

LEMMA ReservedSame ==
    ASSUME NEW a, NEW b, IsFiniteSet(Buys(b.reservations)),
           \A r \in Buys(b.reservations) : r.cash \in Nat,
           Buys(b.reservations) = Buys(a.reservations)
    PROVE  ReservedCash(b) = ReservedCash(a) /\ ReservedCash(a) \in Nat
<1> DEFINE S == Buys(a.reservations)
           w == [r \in S |-> r.cash]
<1>1. \A r \in S : w[r] = r.cash /\ r.cash \in Nat
  OBVIOUS
<1> HIDE DEF w
<1>2. PICK f \in [SUBSET S -> Int] : IsTotal(f, w, S) /\ ReservedCash(a) = f[S]
  BY <1>1, ReservedIsTotal
<1>3. PICK g \in [SUBSET S -> Int] : IsTotal(g, w, S) /\ ReservedCash(b) = g[S]
  BY <1>1, ReservedIsTotal
<1>4. S \in SUBSET (S \cap S)
  OBVIOUS
<1>5. g[S] = f[S]
  BY <1>2, <1>3, <1>4, TotalsAgree
<1>6. f[S] \in Nat
  BY <1>1, <1>2, TotalIsNat
<1> QED
  BY <1>2, <1>3, <1>5, <1>6

\* An order that is released gives back what it reserved.
LEMMA ReservedReleased ==
    ASSUME FundsOK, ReservationsMatchOrders, NEW id, NEW b,
           b.reservations = {r \in account.reservations : r.id # id}
    PROVE  /\ IsFiniteSet(b.reservations) /\ \A r \in b.reservations : r.cash \in Nat
           /\ ReservedCash(b) \in Nat /\ ReservedCash(b) <= ReservedCash(account)
           /\ ReservedCash(account) \in Nat
<1>1. /\ IsFiniteSet(b.reservations) /\ \A r \in b.reservations : r.cash \in Nat
      /\ IsFiniteSet(Buys(account.reservations))
      /\ \A r \in Buys(account.reservations) : r.cash \in Nat
  BY FS_Subset DEF FundsOK, Buys
<1>2. CASE Buys(b.reservations) = Buys(account.reservations)
  <2>1. ReservedCash(account) = ReservedCash(b) /\ ReservedCash(b) \in Nat
    BY <1>1, <1>2, ReservedSame
  <2> QED
    BY <1>1, <2>1
<1>3. CASE Buys(b.reservations) # Buys(account.reservations)
  <2>1. PICK x \in Buys(account.reservations) : x.id = id
    BY <1>3 DEF Buys
  <2>2. \A r \in account.reservations : r.id = id => r = x
    BY <2>1 DEF ReservationsMatchOrders, Buys
  <2>3. /\ Buys(account.reservations) = Buys(b.reservations) \cup {x}
        /\ x \notin Buys(b.reservations)
    BY <2>1, <2>2 DEF Buys
  <2>4. /\ ReservedCash(account) = ReservedCash(b) + x.cash
        /\ ReservedCash(b) \in Nat /\ x.cash \in Nat
    BY <1>1, <2>3, ReservedAdds
  <2> QED
    BY <1>1, <2>4
<1> QED
  BY <1>2, <1>3

\* A bar's prices stay above what a cost scenario takes off them.
LEMMA PricesArePositive ==
    ASSUME EngineInv, NEW s \in Symbols, NEW side
    PROVE  /\ Worse(side, bar[s].open) \in Nat /\ Worse(side, bar[s].close) \in Nat
           /\ bar[s].open \in Nat /\ bar[s].close \in Nat
<1>1. bar[s] \in Bars
  BY DEF EngineInv, ClockType
<1> DEFINE b == bar[s]
<1>2. /\ b.open \in Nat /\ b.close \in Nat /\ b.low \in Nat /\ Impact \in Nat
      /\ Impact < b.low /\ b.low <= b.open /\ b.low <= b.close
  BY <1>1, MoneyAssumption DEF IsMinuteBar
<1> HIDE DEF b
<1>3. Worse(side, b.open) \in Nat /\ Worse(side, b.close) \in Nat
  BY <1>2 DEF Worse
<1> QED
  BY <1>2, <1>3 DEF b

\* A purchase reserves no more than is available, a sale reserves no cash.
LEMMA SubmitFunds ==
    ASSUME EngineInv, FundsOK, NEW s \in Symbols, NEW state, NEW reason, NEW signal,
           NEW reference, NEW quantity \in Nat, Submit(s, state, reason, signal, reference, quantity),
           Worse(SideOf(reason), reference) \in Nat
    PROVE  FundsOK'
<1> DEFINE side == SideOf(reason)
           id == OrderId(s, reason, signal)
           price == Worse(side, reference)
           spent == IF side = "buy" THEN quantity * price ELSE 0
           r == Reservation(id, s, side, quantity, spent)
           reserves == id \notin issued /\ MayReserve(account, id, s, side, quantity, price)
<1>1. CASE ~reserves
  <2>1. account' = account /\ pending' = pending
    BY <1>1 DEF Submit
  <2> QED
    BY <2>1 DEF FundsOK, FundsCovered, AvailableCash
<1>2. CASE reserves
  <2>1. /\ account' = Reserve(account, id, s, side, quantity, price)
        /\ pending' = pending \cup {[id |-> id, quantity |-> quantity, limit |-> price]}
    BY <1>2 DEF Submit
  <2>2. account \in Accounts /\ account.cash \in Int
    BY DEF EngineInv, BooksType, Accounts
  <2>3. account'.cash = account.cash /\ account'.reservations = account.reservations \cup {r}
    BY <2>1, <2>2 DEF Reserve, Accounts
  <2>4. \A o \in pending' : o.limit \in Nat
    BY <2>1 DEF FundsOK
  <2>5. price \in Nat /\ quantity * price \in Nat /\ spent \in Nat
    <3>1. price \in Nat
      OBVIOUS
    <3> HIDE DEF price
    <3>2. quantity * price \in Nat
      BY <3>1
    <3> QED
      BY <3>1, <3>2
  <2>6. /\ r.id = id /\ r.cash = spent /\ r.side = side
        /\ r \notin account.reservations
    BY <1>2 DEF Reservation, MayReserve, ReservationOf
  <2>7. side = "buy" => quantity * price <= account.cash - ReservedCash(account)
    BY <1>2 DEF MayReserve, AvailableCash
  <2> HIDE DEF r, spent, price, side, id
  <2>8. /\ IsFiniteSet(account'.reservations)
        /\ \A q \in account'.reservations : q.cash \in Nat
        /\ IsFiniteSet(Buys(account'.reservations))
        /\ \A q \in Buys(account'.reservations) : q.cash \in Nat
    <3>1. IsFiniteSet(account'.reservations)
      BY <2>3, FS_AddElement DEF FundsOK
    <3>2. \A q \in account'.reservations : q.cash \in Nat
      BY <2>3, <2>5, <2>6 DEF FundsOK
    <3> QED
      BY <3>1, <3>2, FS_Subset DEF Buys
  <2>9. CASE side = "buy"
    <3>1. /\ Buys(account'.reservations) = Buys(account.reservations) \cup {r}
          /\ r \notin Buys(account.reservations)
      BY <2>3, <2>6, <2>9 DEF Buys
    <3>2. /\ ReservedCash(account') = ReservedCash(account) + r.cash
          /\ ReservedCash(account) \in Nat
      BY <2>8, <3>1, ReservedAdds
    <3>3. r.cash = quantity * price
      BY <2>6, <2>9 DEF spent
    <3>4. account'.cash >= 0 /\ account'.cash - ReservedCash(account') >= 0
      BY <2>2, <2>3, <2>5, <2>7, <2>9, <3>2, <3>3 DEF FundsOK, FundsCovered
    <3> QED
      BY <2>4, <2>8, <3>4 DEF FundsOK, FundsCovered, AvailableCash
  <2>10. CASE side # "buy"
    <3>1. Buys(account'.reservations) = Buys(account.reservations)
      BY <2>3, <2>6, <2>10 DEF Buys
    <3>2. ReservedCash(account') = ReservedCash(account)
      BY <2>8, <3>1, ReservedSame
    <3> QED
      BY <2>3, <2>4, <2>8, <3>2 DEF FundsOK, FundsCovered, AvailableCash
  <2> QED
    BY <2>9, <2>10
<1> QED
  BY <1>1, <1>2

\* An order that ends unfilled.
LEMMA ReleaseFunds ==
    ASSUME EngineInv, FundsOK, NEW id, account' = Release(account, id), pending' \subseteq pending
    PROVE  FundsOK'
<1>1. account \in Accounts /\ account.cash \in Int /\ ReservationsMatchOrders
  BY DEF EngineInv, BooksType, Accounts
<1>2. /\ account'.cash = account.cash
      /\ account'.reservations = {r \in account.reservations : r.id # id}
  BY <1>1 DEF Release, Accounts
<1>3. /\ IsFiniteSet(account'.reservations) /\ \A r \in account'.reservations : r.cash \in Nat
      /\ ReservedCash(account') \in Nat /\ ReservedCash(account') <= ReservedCash(account)
      /\ ReservedCash(account) \in Nat
  BY <1>1, <1>2, ReservedReleased
<1>4. account'.cash >= 0 /\ account'.cash - ReservedCash(account') >= 0
  BY <1>1, <1>2, <1>3 DEF FundsOK, FundsCovered, AvailableCash
<1> QED
  BY <1>3, <1>4 DEF FundsOK, FundsCovered, AvailableCash

\* A purchase leaves what the other orders reserve, a sale only adds cash.
LEMMA FillFunds ==
    ASSUME EngineInv, FundsOK, NEW o \in pending, NEW price \in Nat, Fill(o, price)
    PROVE  FundsOK'
<1> DEFINE s == o.id.symbol
           released == Release(account, o.id)
           cost == o.quantity * price
<1>1. pending' \subseteq pending
  BY DEF Fill
<1>2. CASE ~MayFillOrder(account, o.id, s, Side(o), o.quantity, price)
  <2>1. account' = released
    BY <1>2 DEF Fill
  <2> QED
    BY <1>1, <2>1, ReleaseFunds
<1>3. CASE MayFillOrder(account, o.id, s, Side(o), o.quantity, price)
  <2>1. account' = FillOrder(account, o.id, s, Side(o), o.quantity, price)
    BY <1>3 DEF Fill
  <2>2. /\ account \in Accounts /\ account.cash \in Int /\ ReservationsMatchOrders
        /\ o.quantity \in Nat
    BY DEF EngineInv, BooksType, Accounts, Orders
  <2>3. cost \in Nat
    BY <2>2
  <2>4. /\ released.reservations = {r \in account.reservations : r.id # o.id}
        /\ account'.reservations = released.reservations
        /\ account'.cash = IF Side(o) = "buy" THEN account.cash - cost ELSE account.cash + cost
    BY <2>1, <2>2 DEF Release, FillOrder, Accounts
  <2>5. Side(o) = "buy" => ReservedCash(released) <= account.cash - cost
    BY <1>3 DEF MayFillOrder
  <2> HIDE DEF cost, released
  <2>6. /\ IsFiniteSet(released.reservations) /\ \A r \in released.reservations : r.cash \in Nat
        /\ ReservedCash(released) \in Nat /\ ReservedCash(released) <= ReservedCash(account)
        /\ ReservedCash(account) \in Nat
    BY <2>2, <2>4, ReservedReleased
  <2>7. ReservedCash(account') = ReservedCash(released)
    <3>1. /\ Buys(account'.reservations) = Buys(released.reservations)
          /\ IsFiniteSet(Buys(account'.reservations))
          /\ \A r \in Buys(account'.reservations) : r.cash \in Nat
      BY <2>4, <2>6, FS_Subset DEF Buys
    <3> QED
      BY <3>1, ReservedSame
  <2>8. account'.cash >= 0 /\ account'.cash - ReservedCash(account') >= 0
    BY <2>2, <2>3, <2>4, <2>5, <2>6, <2>7 DEF FundsOK, FundsCovered, AvailableCash
  <2> QED
    BY <1>1, <2>4, <2>6, <2>8 DEF FundsOK, FundsCovered, AvailableCash
<1> QED
  BY <1>2, <1>3

LEMMA FundsInit == Init => FundsOK
<1> SUFFICES ASSUME Init PROVE FundsOK
  OBVIOUS
<1>1. account = Account(InitialCash) /\ pending = {} /\ InitialCash \in Nat
  BY MoneyAssumption DEF Init
<1>2. account.reservations = {} /\ account.cash = InitialCash
  BY <1>1 DEF Account
<1>3. Buys(account.reservations) = {} /\ IsFiniteSet({})
  BY <1>2, FS_EmptySet DEF Buys
<1> DEFINE w == [r \in {} |-> r.cash]
<1>4. \A r \in Buys(account.reservations) : w[r] = r.cash /\ r.cash \in Nat
  BY <1>3
<1> HIDE DEF w
<1>5. PICK f \in [SUBSET Buys(account.reservations) -> Int] :
          /\ IsTotal(f, w, Buys(account.reservations))
          /\ ReservedCash(account) = f[Buys(account.reservations)]
  BY <1>3, <1>4, ReservedIsTotal
<1>6. ReservedCash(account) = 0
  BY <1>3, <1>5, TotalUnfolds
<1> QED
  BY <1>1, <1>2, <1>3, <1>6 DEF FundsOK, FundsCovered, AvailableCash

LEMMA FundsNext == EngineInv /\ FundsOK /\ [Next]_vars => FundsOK'
<1> SUFFICES ASSUME EngineInv, FundsOK, [Next]_vars PROVE FundsOK'
  OBVIOUS
<1>1. CASE UNCHANGED <<account, pending>>
  BY <1>1 DEF FundsOK, FundsCovered, AvailableCash
<1>2. ASSUME NEW s \in Symbols PROVE account.held[s].quantity \in Nat
  BY DEF EngineInv, BooksType, Accounts, Positions
<1>3. CASE \E s \in Symbols : Row(s)
  <2>1. PICK s \in Symbols : Row(s)
    BY <1>3
  <2>2. CASE RowIsQuiet(s)
    BY <1>1, <2>2 DEF RowIsQuiet
  <2>3. CASE RowEnters(s)
    <3>1. PICK quantity \in 1 .. CashQuantity(bar[s].close) :
              Submit(s, Awake(runtime[s]), "entry_signal", minute, bar[s].close, quantity)
      BY <2>3 DEF RowEnters
    <3>2. quantity \in Nat
      OBVIOUS
    <3> QED
      BY <3>1, <3>2, PricesArePositive, SubmitFunds
  <2>4. CASE RowExits(s)
    <3>1. Submit(s, runtime[s], "exit_signal", minute, bar[s].close, account.held[s].quantity)
      BY <2>4 DEF RowExits
    <3> QED
      BY <1>2, <3>1, PricesArePositive, SubmitFunds
  <2> QED
    BY <2>1, <2>2, <2>3, <2>4 DEF Row
<1>4. CASE \E s \in Symbols : RiskExit(s)
  <2>1. PICK s \in Symbols : RiskExit(s)
    BY <1>4
  <2>2. CASE Submit(s, runtime[s], RiskReason(s), minute + 1, bar[s].close,
                    account.held[s].quantity)
    BY <1>2, <2>2, PricesArePositive, SubmitFunds
  <2> QED
    BY <1>1, <2>1, <2>2 DEF RiskExit, books
<1>5. CASE \E s \in Symbols : ForceExit(s)
  <2>1. PICK s \in Symbols : ForceExit(s)
    BY <1>5
  <2>2. Submit(s, runtime[s], "session_close", minute, bar[s].open, account.held[s].quantity)
    BY <2>1 DEF ForceExit
  <2> QED
    BY <1>2, <2>2, PricesArePositive, SubmitFunds
<1>6. CASE \E o \in pending : Order(o)
  <2>1. PICK o \in pending : Order(o)
    BY <1>6
  <2> DEFINE price == FillPrice(o, bar[o.id.symbol])
  <2>2. o.id.symbol \in Symbols /\ o.limit \in Nat
    BY DEF EngineInv, BooksType, Orders, Ids, FundsOK
  <2>3. price \in Nat
    BY <2>2, PricesArePositive DEF FillPrice
  <2>4. Fill(o, price) \/ UNCHANGED books
    BY <2>1 DEF Order
  <2> HIDE DEF price
  <2> QED
    BY <1>1, <2>3, <2>4, FillFunds DEF books
<1>7. CASE \E o \in pending : CancelOrder(o)
  <2>1. PICK o \in pending : CancelOrder(o)
    BY <1>7
  <2>2. account' = Release(account, o.id) /\ pending' \subseteq pending
    BY <2>1 DEF CancelOrder
  <2> QED
    BY <2>2, ReleaseFunds
<1>8. CASE OpenMinute \/ EndOrders \/ EndCancels \/ NextMinute \/ FinishSession \/ NextSession
  BY <1>1, <1>8
  DEF OpenMinute, EndOrders, EndCancels, NextMinute, FinishSession, NextSession, books
<1>9. CASE UNCHANGED vars
  BY <1>1, <1>9 DEF vars
<1> QED
  BY <1>3, <1>4, <1>5, <1>6, <1>7, <1>8, <1>9 DEF Next, Step

\* The cash always covers the reservations, whatever gaps the prices make
\* (portfolio.py:152 raises otherwise, portfolio.py:269): a purchase reserves
\* what is available and no more, and fills only if what is left covers the
\* other orders.
THEOREM FundsCoveredCorrect == Spec => []FundsCovered
<1>1. FundsOK => FundsCovered
  BY DEF FundsOK
<1>2. Spec => []FundsOK
  BY FundsInit, FundsNext, EngineInvariant, PTL DEF Spec
<1> QED
  BY <1>1, <1>2, PTL

----------------------------------------------------------------------------
(***************************************************************************)
(* Forward: the scores of a cohort                                         *)
(***************************************************************************)

\* Of two weights the smaller everywhere has the smaller sum.
LEMMA SmallerSum ==
    ASSUME NEW S, IsFiniteSet(S), S # {}, NEW u, NEW w,
           \A x \in S : u[x] \in Int /\ w[x] \in Int /\ u[x] < w[x],
           NEW f \in [SUBSET S -> Int], IsTotal(f, u, S),
           NEW g \in [SUBSET S -> Int], IsTotal(g, w, S)
    PROVE  f[S] < g[S]
<1> DEFINE bad == {s \in SUBSET S : s # {} /\ ~(f[s] < g[s])}
<1> SUFFICES ASSUME bad # {} PROVE FALSE
  OBVIOUS
<1>1. bad \subseteq SUBSET S
  OBVIOUS
<1> HIDE DEF bad
<1>2. PICK s \in bad : \A t \in bad : t \subseteq s => t = s
  BY <1>1, SmallestSubset
<1>3. s \in SUBSET S /\ s # {} /\ ~(f[s] < g[s])
  BY DEF bad
<1>4. PICK x \in s : x = First(s)
  BY <1>3, FirstIsIn
<1>5. f[s] = u[x] + f[s \ {x}] /\ g[s] = w[x] + g[s \ {x}]
  BY <1>3, <1>4, TotalUnfolds
<1>6. f[s \ {x}] <= g[s \ {x}] /\ f[s \ {x}] \in Int /\ g[s \ {x}] \in Int
  <2>1. s \ {x} \in SUBSET S
    BY <1>3
  <2>2. s \ {x} \notin bad
    BY <1>2
  <2>3. CASE s \ {x} = {}
    <3>1. f[{}] = 0 /\ g[{}] = 0
      BY TotalUnfolds
    <3>2. f[s \ {x}] = f[{}] /\ g[s \ {x}] = g[{}]
      BY <2>3, Zenon
    <3> QED
      BY <3>1, <3>2
  <2>4. CASE s \ {x} # {}
    BY <2>1, <2>2, <2>4 DEF bad
  <2> QED
    BY <2>3, <2>4
<1>7. u[x] < w[x] /\ u[x] \in Int /\ w[x] \in Int
  BY <1>3
<1> QED
  BY <1>3, <1>5, <1>6, <1>7

\* The score of a piece of evidence is the sum of its weighted components.
LEMMA ScoreIsTotal ==
    ASSUME NEW cohort, NEW e, NEW w,
           \A c \in Components :
               /\ w[c] = Weights[c] * ComponentScore(cohort, c, e.metrics[c])
               /\ w[c] \in Int
    PROVE  \E f \in [SUBSET Components -> Int] :
              IsTotal(f, w, Components) /\ QualityScore(cohort, e) = f[Components]
<1> DEFINE S == Components
           value(c) == Weights[c] * ComponentScore(cohort, c, e.metrics[c])
           IsSum(f) == f = [s \in SUBSET S |->
                              IF s = {} THEN 0
                              ELSE value(CHOOSE x \in s : TRUE)
                                       + f[s \ {CHOOSE x \in s : TRUE}]]
           sum == CHOOSE f : IsSum(f)
<1>1. QualityScore(cohort, e) = sum[S]
  BY DEF QualityScore, MapThenSumSet, MapThenFoldSet
<1>2. \A c \in S : w[c] = value(c) /\ w[c] \in Int
  OBVIOUS
<1> HIDE DEF value
<1>3. ASSUME NEW f PROVE IsTotal(f, w, S) <=> IsSum(f)
  <2>1. \A s \in SUBSET S : s # {} => w[First(s)] = value(First(s))
    BY <1>2, FirstIsIn
  <2> DEFINE g == [s \in SUBSET S |-> IF s = {} THEN 0 ELSE w[First(s)] + f[s \ {First(s)}]]
             h == [s \in SUBSET S |-> IF s = {} THEN 0
                                      ELSE value(First(s)) + f[s \ {First(s)}]]
  <2>2. g = h
    BY <2>1
  <2>3. IsTotal(f, w, S) <=> f = g
    BY DEF IsTotal
  <2>4. IsSum(f) <=> f = h
    BY DEF First
  <2> HIDE DEF IsSum, g, h
  <2> QED
    BY <2>2, <2>3, <2>4
<1>4. PICK f \in [SUBSET S -> Int] : IsTotal(f, w, S)
  <2>1. IsFiniteSet(S)
    BY ForwardAssumption DEF Components
  <2> HIDE DEF S
  <2> QED
    BY <1>2, <2>1, TotalExists
<1>5. IsSum(sum)
  <2>1. IsSum(f)
    BY <1>3, <1>4
  <2> HIDE DEF IsSum
  <2> QED
    BY <2>1
<1>6. IsTotal(sum, w, S)
  BY <1>3, <1>5
<1>7. sum = f
  <2>1. \A s \in SUBSET (S \cap S) : sum[s] = f[s]
    <3>1. IsFiniteSet(S)
      BY ForwardAssumption DEF Components
    <3> HIDE DEF S, sum
    <3> QED
      BY <1>4, <1>6, <3>1, TotalsAgree
  <2>2. sum = [s \in SUBSET S |-> sum[s]]
    BY <1>5
  <2> HIDE DEF sum
  <2> QED
    BY <2>1, <2>2
<1> QED
  BY <1>1, <1>4, <1>7

\* A cohort of ForwardEvidence: one piece of evidence a strategy.
IsCohort(cohort) ==
    /\ cohort \subseteq GoodEvidence
    /\ \A e, f \in cohort : e.strategy = f.strategy => e = f

LEMMA CohortIsFinite ==
    ASSUME NEW cohort, IsCohort(cohort)
    PROVE  /\ IsFiniteSet(cohort)
           /\ Cardinality(cohort) \in Nat
           /\ Cardinality(cohort) <= Cardinality(Strategies)
<1> DEFINE f == [e \in cohort |-> e.strategy]
<1>1. f \in [cohort -> Strategies]
  BY ForwardAssumption DEF IsCohort, GoodEvidence
<1>2. f \in Injection(cohort, Strategies)
  BY <1>1 DEF Injection, IsInjective, IsCohort
<1> HIDE DEF f
<1> QED
  BY <1>2, ForwardAssumption, FS_Injection, FS_CardinalityType

\* The values of a component in a cohort.
ValuesOf(cohort, c) == {e.metrics[c] : e \in cohort}

LEMMA ValuesAreFew ==
    ASSUME NEW cohort, IsCohort(cohort), NEW c \in Components
    PROVE  /\ IsFiniteSet(ValuesOf(cohort, c))
           /\ Cardinality(ValuesOf(cohort, c)) \in Nat
           /\ Cardinality(ValuesOf(cohort, c)) <= Scale + 1
           /\ ValuesOf(cohort, c) \subseteq Int
<1> DEFINE f == [e \in cohort |-> e.metrics[c]]
<1>1. f \in Surjection(cohort, ValuesOf(cohort, c))
  BY DEF Surjection, ValuesOf
<1> HIDE DEF f
<1>2. /\ IsFiniteSet(ValuesOf(cohort, c))
      /\ Cardinality(ValuesOf(cohort, c)) <= Cardinality(cohort)
  BY <1>1, CohortIsFinite, FS_Surjection
<1>3. Cardinality(ValuesOf(cohort, c)) \in Nat
  BY <1>2, FS_CardinalityType
<1>4. ValuesOf(cohort, c) \subseteq Int
  BY ForwardAssumption DEF IsCohort, GoodEvidence, ValuesOf, Components
<1>5. Cardinality(cohort) <= Scale + 1
  BY CohortIsFinite, ForwardAssumption, FS_CardinalityType
<1> QED
  BY <1>2, <1>3, <1>4, <1>5, CohortIsFinite, ForwardAssumption

LEMMA Quotient ==
    ASSUME NEW x \in Nat, NEW d \in Nat \ {0}
    PROVE  /\ x \div d \in Nat
           /\ d * (x \div d) <= x /\ x < d * (x \div d) + d
OBVIOUS

LEMMA LargerQuotient ==
    ASSUME NEW a \in Nat, NEW b \in Nat, NEW d \in Nat \ {0}, a + d <= b
    PROVE  a \div d < b \div d
<1> DEFINE p == a \div d
           q == b \div d
<1>1. p \in Nat /\ q \in Nat /\ d * p <= a /\ b < d * q + d
  BY Quotient
<1> HIDE DEF p, q
<1>2. q <= p => d * q <= d * p
  BY <1>1
<1>3. d * q \in Nat /\ d * p \in Nat
  BY <1>1
<1>4. p < q
  BY <1>1, <1>2, <1>3
<1> QED
  BY <1>4 DEF p, q

\* How many places a value is behind the best, and what of the scale it keeps.
Behind(cohort, c, value) == Cardinality(Better(cohort, c, value))

LEMMA BehindFacts ==
    ASSUME NEW cohort, IsCohort(cohort), NEW c \in Components, NEW value \in ValuesOf(cohort, c)
    PROVE  /\ Behind(cohort, c, value) \in Nat
           /\ Behind(cohort, c, value) < Cardinality(ValuesOf(cohort, c))
           /\ Better(cohort, c, value) \subseteq ValuesOf(cohort, c)
           /\ IsFiniteSet(Better(cohort, c, value))
<1>1. Better(cohort, c, value) \subseteq ValuesOf(cohort, c) \ {value}
  <2>1. value \in Int
    BY ValuesAreFew
  <2>2. Better(cohort, c, value) \subseteq ValuesOf(cohort, c)
    BY DEF Better, ValuesOf
  <2>3. value \notin Better(cohort, c, value)
    BY <2>1 DEF Better
  <2> QED
    BY <2>2, <2>3
<1>2. /\ IsFiniteSet(ValuesOf(cohort, c) \ {value})
      /\ Cardinality(ValuesOf(cohort, c) \ {value}) = Cardinality(ValuesOf(cohort, c)) - 1
  BY ValuesAreFew, FS_RemoveElement
<1>3. /\ IsFiniteSet(Better(cohort, c, value))
      /\ Behind(cohort, c, value) <= Cardinality(ValuesOf(cohort, c)) - 1
  BY <1>1, <1>2, FS_Subset DEF Behind
<1>4. Behind(cohort, c, value) \in Nat
  BY <1>3, FS_CardinalityType DEF Behind
<1> QED
  BY <1>1, <1>3, <1>4, ValuesAreFew

LEMMA ComponentScoreType ==
    ASSUME NEW cohort, IsCohort(cohort), NEW c \in Components, NEW value \in ValuesOf(cohort, c)
    PROVE  ComponentScore(cohort, c, value) \in Int
<1> DEFINE n == Cardinality(ValuesOf(cohort, c))
           k == Behind(cohort, c, value)
<1>1. n \in Nat /\ k \in Nat /\ k < n
  BY BehindFacts, ValuesAreFew
<1>2. ComponentScore(cohort, c, value) = IF n = 1 THEN Scale ELSE Scale - (k * Scale) \div (n - 1)
  BY DEF ComponentScore, ValuesOf, Behind
<1> HIDE DEF n, k
<1>3. n # 1 => n - 1 \in Nat \ {0} /\ k * Scale \in Nat
  BY <1>1, ForwardAssumption
<1>4. n # 1 => (k * Scale) \div (n - 1) \in Nat
  BY <1>3, Quotient
<1> QED
  BY <1>2, <1>4, ForwardAssumption

\* A better value of a component scores more.
LEMMA BetterScoresMore ==
    ASSUME NEW cohort, IsCohort(cohort), NEW c \in Components,
           NEW x \in ValuesOf(cohort, c), NEW y \in ValuesOf(cohort, c),
           IF c \in LowerIsBetter THEN x < y ELSE x > y
    PROVE  ComponentScore(cohort, c, x) > ComponentScore(cohort, c, y)
<1> DEFINE n == Cardinality(ValuesOf(cohort, c))
           i == Behind(cohort, c, x)
           j == Behind(cohort, c, y)
<1>1. n \in Nat /\ i \in Nat /\ j \in Nat /\ j < n /\ n <= Scale + 1
  BY BehindFacts, ValuesAreFew
<1>2. i < j
  <2>1. x \in Int /\ y \in Int
    BY ValuesAreFew
  <2>2. \A z \in Better(cohort, c, x) : z \in Int
    BY BehindFacts, ValuesAreFew
  <2>3. Better(cohort, c, x) \subseteq Better(cohort, c, y)
    BY <2>1, <2>2 DEF Better
  <2>4. x \in Better(cohort, c, y) /\ x \notin Better(cohort, c, x)
    BY <2>1 DEF Better, ValuesOf
  <2> QED
    BY <2>3, <2>4, BehindFacts, FS_Subset DEF Behind
<1>3. /\ ComponentScore(cohort, c, x) =
             IF n = 1 THEN Scale ELSE Scale - (i * Scale) \div (n - 1)
      /\ ComponentScore(cohort, c, y) =
             IF n = 1 THEN Scale ELSE Scale - (j * Scale) \div (n - 1)
  BY DEF ComponentScore, ValuesOf, Behind
<1> HIDE DEF n, i, j
<1>4. n - 1 \in Nat \ {0} /\ n # 1
  BY <1>1, <1>2
<1>5. i * Scale \in Nat /\ j * Scale \in Nat /\ i * Scale + (n - 1) <= j * Scale
  <2>1. PICK k \in Nat : j = i + 1 + k
    BY <1>1, <1>2
  <2>2. Scale \in Nat
    BY ForwardAssumption
  <2>3. (i + 1 + k) * Scale = i * Scale + Scale + k * Scale
    BY <1>1, <2>1, <2>2
  <2>4. i * Scale \in Nat /\ k * Scale \in Nat
    BY <1>1, <2>1, <2>2
  <2>5. j * Scale = i * Scale + Scale + k * Scale
    BY <2>1, <2>3
  <2> QED
    BY <1>1, <2>2, <2>4, <2>5
<1>6. (i * Scale) \div (n - 1) < (j * Scale) \div (n - 1)
  BY <1>4, <1>5, LargerQuotient
<1>7. (i * Scale) \div (n - 1) \in Nat /\ (j * Scale) \div (n - 1) \in Nat
  BY <1>4, <1>5, Quotient
<1> QED
  BY <1>3, <1>4, <1>6, <1>7, ForwardAssumption

\* The weighted components of a piece of evidence.
WeightedScores(cohort, e) ==
    [c \in Components |-> Weights[c] * ComponentScore(cohort, c, e.metrics[c])]

LEMMA QualityScoreSum ==
    ASSUME NEW cohort, IsCohort(cohort), NEW e \in cohort
    PROVE  /\ \A c \in Components : WeightedScores(cohort, e)[c] \in Int
           /\ \E f \in [SUBSET Components -> Int] :
                 /\ IsTotal(f, WeightedScores(cohort, e), Components)
                 /\ QualityScore(cohort, e) = f[Components]
<1> DEFINE w == WeightedScores(cohort, e)
<1>1. ASSUME NEW c \in Components
      PROVE  w[c] = Weights[c] * ComponentScore(cohort, c, e.metrics[c]) /\ w[c] \in Int
  <2>1. e.metrics[c] \in ValuesOf(cohort, c)
    BY DEF ValuesOf
  <2>2. ComponentScore(cohort, c, e.metrics[c]) \in Int
    BY <2>1, ComponentScoreType
  <2>3. Weights[c] \in Int
    BY ForwardAssumption DEF Components
  <2> QED
    BY <2>2, <2>3 DEF WeightedScores
<1> HIDE DEF w
<1>2. \E f \in [SUBSET Components -> Int] :
         IsTotal(f, w, Components) /\ QualityScore(cohort, e) = f[Components]
  BY <1>1, ScoreIsTotal
<1> QED
  BY <1>1, <1>2 DEF w

LEMMA QualityScoreType ==
    ASSUME NEW cohort, IsCohort(cohort), NEW e \in cohort
    PROVE  QualityScore(cohort, e) \in Int
BY QualityScoreSum

\* Who is better everywhere has the higher score.
LEMMA BetterRanksHigher ==
    ASSUME NEW cohort, IsCohort(cohort), NEW e \in cohort, NEW f \in cohort,
           BetterEverywhere(e, f)
    PROVE  QualityScore(cohort, e) > QualityScore(cohort, f)
<1> DEFINE u == WeightedScores(cohort, f)
           w == WeightedScores(cohort, e)
<1>1. ASSUME NEW c \in Components
      PROVE  u[c] \in Int /\ w[c] \in Int /\ u[c] < w[c]
  <2> DEFINE x == ComponentScore(cohort, c, e.metrics[c])
             y == ComponentScore(cohort, c, f.metrics[c])
  <2>1. e.metrics[c] \in ValuesOf(cohort, c) /\ f.metrics[c] \in ValuesOf(cohort, c)
    BY DEF ValuesOf
  <2>2. x \in Int /\ y \in Int /\ x > y
    BY <2>1, ComponentScoreType, BetterScoresMore DEF BetterEverywhere
  <2>3. Weights[c] \in Nat \ {0}
    BY ForwardAssumption DEF Components
  <2>4. w[c] = Weights[c] * x /\ u[c] = Weights[c] * y
    BY DEF WeightedScores
  <2> HIDE DEF x, y, u, w
  <2>5. Weights[c] * x > Weights[c] * y
    BY <2>2, <2>3
  <2>6. Weights[c] * x \in Int /\ Weights[c] * y \in Int
    BY <2>2, <2>3
  <2> QED
    BY <2>4, <2>5, <2>6
<1>2. PICK g \in [SUBSET Components -> Int] :
         IsTotal(g, u, Components) /\ QualityScore(cohort, f) = g[Components]
  BY QualityScoreSum
<1>3. PICK h \in [SUBSET Components -> Int] :
         IsTotal(h, w, Components) /\ QualityScore(cohort, e) = h[Components]
  BY QualityScoreSum
<1>4. IsFiniteSet(Components) /\ Components # {}
  BY ForwardAssumption DEF Components
<1> HIDE DEF u, w
<1>5. g[Components] < h[Components]
  BY <1>1, <1>2, <1>3, <1>4, SmallerSum
<1> QED
  BY <1>2, <1>3, <1>5

----------------------------------------------------------------------------
(***************************************************************************)
(* Forward: the ranking                                                    *)
(***************************************************************************)

\* The evidence that is ranked before a piece of evidence.
RankedAhead(cohort, e) == {f \in cohort : RankedBefore(cohort, f, e)}

\* The ranking of a cohort is a strict total order.
LEMMA RankingIsTotal ==
    ASSUME NEW cohort, IsCohort(cohort), NEW e \in cohort, NEW f \in cohort
    PROVE  /\ ~RankedBefore(cohort, e, e)
           /\ e # f => RankedBefore(cohort, e, f) \/ RankedBefore(cohort, f, e)
           /\ \A g \in cohort : RankedBefore(cohort, e, f) /\ RankedBefore(cohort, f, g)
                                    => RankedBefore(cohort, e, g)
<1> DEFINE score(g) == QualityScore(cohort, g)
<1>1. \A g \in cohort : score(g) \in Int
  BY QualityScoreType
<1>2. \A g \in cohort : g.strategy \in Nat
  BY ForwardAssumption DEF IsCohort, GoodEvidence
<1>3. e # f => e.strategy # f.strategy
  BY DEF IsCohort
<1>4. \A g, h \in cohort : RankedBefore(cohort, g, h) <=>
         score(g) > score(h) \/ (score(g) = score(h) /\ g.strategy < h.strategy)
  BY DEF RankedBefore
<1> HIDE DEF score
<1> QED
  BY <1>1, <1>2, <1>3, <1>4

\* Who is ranked before has fewer before it.
LEMMA FewerBefore ==
    ASSUME NEW cohort, IsCohort(cohort), NEW e \in cohort, NEW f \in cohort,
           RankedBefore(cohort, e, f)
    PROVE  /\ Cardinality(RankedAhead(cohort, e)) \in Nat
           /\ Cardinality(RankedAhead(cohort, f)) \in Nat
           /\ Cardinality(RankedAhead(cohort, e)) < Cardinality(RankedAhead(cohort, f))
<1>1. RankedAhead(cohort, e) \subseteq RankedAhead(cohort, f)
  BY RankingIsTotal DEF RankedAhead
<1>2. e \in RankedAhead(cohort, f) /\ e \notin RankedAhead(cohort, e)
  BY RankingIsTotal DEF RankedAhead
<1>3. RankedAhead(cohort, f) \subseteq cohort
  BY DEF RankedAhead
<1>4. IsFiniteSet(RankedAhead(cohort, f)) /\ IsFiniteSet(RankedAhead(cohort, e))
  BY <1>1, <1>3, CohortIsFinite, FS_Subset
<1> QED
  BY <1>1, <1>2, <1>4, FS_Subset, FS_CardinalityType

\* Every rank of a cohort is taken.
LEMMA RankIsTaken ==
    ASSUME NEW cohort, IsCohort(cohort), NEW rank \in 1..Cardinality(cohort)
    PROVE  \E e \in cohort : Cardinality(RankedAhead(cohort, e)) = rank - 1
<1> DEFINE n == Cardinality(cohort)
           pos == [e \in cohort |-> Cardinality(RankedAhead(cohort, e))]
<1>1. n \in Nat /\ IsFiniteSet(cohort)
  BY CohortIsFinite
<1>2. \A e \in cohort : Cardinality(RankedAhead(cohort, e)) \in 0..(n - 1)
  <2> TAKE e \in cohort
  <2>1. RankedAhead(cohort, e) \subseteq cohort \ {e}
    BY RankingIsTotal DEF RankedAhead
  <2>2. IsFiniteSet(cohort \ {e}) /\ Cardinality(cohort \ {e}) = n - 1
    BY <1>1, FS_RemoveElement
  <2>3. IsFiniteSet(RankedAhead(cohort, e)) /\ Cardinality(RankedAhead(cohort, e)) <= n - 1
    BY <2>1, <2>2, FS_Subset
  <2>4. Cardinality(RankedAhead(cohort, e)) \in Nat
    BY <2>3, FS_CardinalityType
  <2> QED
    BY <1>1, <2>3, <2>4
<1>3. \A e, f \in cohort : pos[e] = pos[f] => e = f
  <2> SUFFICES ASSUME NEW e \in cohort, NEW f \in cohort, e # f PROVE pos[e] # pos[f]
    OBVIOUS
  <2>1. RankedBefore(cohort, e, f) \/ RankedBefore(cohort, f, e)
    BY RankingIsTotal
  <2> QED
    BY <2>1, FewerBefore
<1>4. pos \in [cohort -> 0..(n - 1)]
  BY <1>2
<1> HIDE DEF pos
<1>5. pos \in Injection(cohort, 0..(n - 1))
  BY <1>3, <1>4 DEF Injection, IsInjective
<1>6. IsFiniteSet(0..(n - 1)) /\ Cardinality(0..(n - 1)) = n
  <2>1. 0 \in Int /\ n - 1 \in Int /\ (0 > n - 1 => n = 0)
    BY <1>1
  <2>2. /\ IsFiniteSet(0..(n - 1))
        /\ Cardinality(0..(n - 1)) = IF 0 > n - 1 THEN 0 ELSE (n - 1) - 0 + 1
    BY <2>1, FS_Interval
  <2> HIDE DEF n
  <2> QED
    BY <1>1, <2>1, <2>2
<1>7. pos \in Surjection(cohort, 0..(n - 1))
  BY <1>5, <1>6, FS_Injection
<1>8. rank - 1 \in 0..(n - 1)
  BY <1>1
<1>9. \E e \in cohort : pos[e] = rank - 1
  BY <1>7, <1>8 DEF Surjection
<1> QED
  BY <1>9 DEF pos

\* The ranking of a cohort holds nobody else, and nobody behind somebody who
\* is worse in every component.
LEMMA RankingFacts ==
    ASSUME NEW cohort, IsCohort(cohort)
    PROVE  RankEligible(cohort) \in Rankings
<1> DEFINE R == RankEligible(cohort)
           n == Cardinality(cohort)
<1>1. n \in Nat /\ n <= Cardinality(Strategies)
  BY CohortIsFinite
<1>2. ASSUME NEW rank \in 1..n
      PROVE  R[rank] \in cohort /\ Cardinality(RankedAhead(cohort, R[rank])) = rank - 1
  <2>1. R[rank] = CHOOSE e \in cohort : Cardinality(RankedAhead(cohort, e)) = rank - 1
    BY DEF RankEligible, RankedAhead
  <2> HIDE DEF R
  <2> QED
    BY <2>1, RankIsTaken
<1>3. R = [rank \in 1..n |-> R[rank]]
  <2> DEFINE at(rank) == CHOOSE e \in cohort :
                            Cardinality({f \in cohort : RankedBefore(cohort, f, e)}) = rank - 1
  <2>1. R = [rank \in 1..n |-> at(rank)]
    BY DEF RankEligible
  <2> HIDE DEF R, n, at
  <2> QED
    BY <2>1
<1> HIDE DEF R, n
<1>4. R \in Seq(GoodEvidence) /\ Len(R) = n
  <2>1. \A rank \in 1..n : R[rank] \in GoodEvidence
    BY <1>2 DEF IsCohort
  <2>2. R \in [1..n -> GoodEvidence]
    BY <1>3, <2>1
  <2> QED
    BY <1>1, <2>2
<1>5. ASSUME NEW i \in 1..n, NEW j \in 1..n, i < j PROVE ~BetterEverywhere(R[j], R[i])
  <2> SUFFICES ASSUME BetterEverywhere(R[j], R[i]) PROVE FALSE
    OBVIOUS
  <2>1. QualityScore(cohort, R[j]) > QualityScore(cohort, R[i])
    BY <1>2, BetterRanksHigher
  <2>2. RankedBefore(cohort, R[j], R[i])
    BY <2>1 DEF RankedBefore
  <2>3. Cardinality(RankedAhead(cohort, R[j])) < Cardinality(RankedAhead(cohort, R[i]))
    BY <1>2, <2>2, FewerBefore
  <2> QED
    BY <1>1, <1>2, <1>5, <2>3
<1> QED
  BY <1>1, <1>4, <1>5 DEF Rankings, R

----------------------------------------------------------------------------
(***************************************************************************)
(* Forward: the invariant                                                  *)
(***************************************************************************)

LEMMA IdleTask == NoTask \in Tasks /\ TaskInv(NoTask)
<1>1. << >> \in Rankings
  <2>1. Cardinality(Strategies) \in Nat
    BY ForwardAssumption, FS_CardinalityType
  <2> QED
    BY <2>1 DEF Rankings
<1>2. Cardinality(Strategies) \in Nat
  BY ForwardAssumption, FS_CardinalityType
<1> QED
  BY <1>1, <1>2, ForwardAssumption DEF NoTask, Tasks, TaskInv

\* A step of one evaluation that leaves the registry alone.
LEMMA TaskMoves ==
    ASSUME ForwardInv, UNCHANGED registry,
           begun' \in 0..MaxEvaluations, moves' \in 0..MaxMoves,
           NEW p \in Evaluators, NEW t \in Tasks, TaskInv(t),
           task' = [task EXCEPT ![p] = t]
    PROVE  ForwardInv'
<1>1. events' = events /\ rows' = rows
  BY DEF registry
<1>2. Promotions' = Promotions
  BY <1>1 DEF Promotions
<1>3. \A s : TaskInv(s) => TaskInv(s)'
  BY <1>1, <1>2 DEF TaskInv
<1>4. task' \in [Evaluators -> Tasks]
  BY DEF ForwardInv
<1>5. \A q \in Evaluators : TaskInv(task[q])'
  <2> TAKE q \in Evaluators
  <2>1. PICK s : s = task[q]'
    OBVIOUS
  <2>2. s = t \/ s = task[q]
    BY <2>1 DEF ForwardInv
  <2>3. TaskInv(s)
    BY <2>2 DEF ForwardInv
  <2>4. TaskInv(s)'
    BY <1>3, <2>3
  <2> QED
    BY <2>1, <2>4
<1>6. HistoryInv' /\ BetterComeFirst'
  <2>1. HistoryInv'
    BY <1>1 DEF ForwardInv, HistoryInv
  <2>2. \A i : EvidenceOf(i)' = EvidenceOf(i)
    BY <1>1 DEF EvidenceOf
  <2>3. BetterComeFirst'
    BY <1>1, <1>2, <2>2 DEF ForwardInv, BetterComeFirst
  <2> QED
    BY <2>1, <2>3
<1>7. rows' \in [Strategies -> Ledger!Rows]
  BY <1>1 DEF ForwardInv
<1> QED
  BY <1>4, <1>5, <1>6, <1>7 DEF ForwardInv

\* What a request of the model is.
LEMMA RequestFacts ==
    ASSUME NEW r \in PromotionRequests \cup OperatorRequests
    PROVE  /\ r.strategy \in Strategies
           /\ r.to \in Ledger!States
           /\ r.op = "transition"
           /\ Len(r.tag) = 3 =>
                 \E e \in GoodEvidence : \E serial \in 1..MaxEvaluations :
                    \E rank \in 1..Cardinality(Strategies) :
                       /\ r.key = <<"forward-ranked", e.id>>
                       /\ r.tag = <<serial, rank, e.id>>
                       /\ r.strategy = e.strategy /\ r.to = "paper_ranked"
<1>1. CASE r \in PromotionRequests
  <2>1. PICK e \in GoodEvidence, serial \in 1..MaxEvaluations,
             rank \in 1..Cardinality(Strategies) :
           r = PromotionRequest(e, serial, rank)
    BY <1>1 DEF PromotionRequests
  <2>2. e.strategy \in Strategies
    BY ForwardAssumption DEF GoodEvidence
  <2> QED
    BY <2>1, <2>2 DEF PromotionRequest, Ledger!States, Ledger!KnownStates
<1>2. CASE r \in OperatorRequests
  <2> DEFINE keys == {<<"operator", n>> : n \in 1..MaxMoves}
                         \cup {<<"forward-ranked", f.id>> : f \in Evidence}
  <2>1. PICK key \in keys, s \in Strategies, to \in Ledger!KnownStates, e \in Evidence :
           r = OperatorRequest(key, s, to, e)
    <3>1. r \in {OperatorRequest(key, s, to, e) :
                    key \in keys, s \in Strategies, to \in Ledger!KnownStates, e \in Evidence}
      BY <1>2 DEF OperatorRequests
    <3> HIDE DEF keys
    <3> QED
      BY <3>1
  <2> HIDE DEF keys
  <2>2. Len(r.tag) = 1
    BY <2>1 DEF OperatorRequest
  <2> QED
    BY <2>1, <2>2 DEF OperatorRequest, Ledger!States
<1> QED
  BY <1>1, <1>2

\* A promotion names its evidence.
LEMMA EvidenceIs ==
    ASSUME NEW e \in Evidence, NEW i, events[i].request.tag[3] = e.id
    PROVE  EvidenceOf(i) = e
BY ForwardAssumption DEF EvidenceOf

LEMMA PromotionFacts ==
    ASSUME HistoryInv, NEW i \in Promotions
    PROVE  /\ i \in DOMAIN events
           /\ EvidenceOf(i) \in GoodEvidence
           /\ EvidenceOf(i).strategy = events[i].request.strategy
           /\ events[i].request.to = "paper_ranked"
           /\ events[i].request.key = <<"forward-ranked", EvidenceOf(i).id>>
           /\ events[i].request.tag[1] \in 1..MaxEvaluations
           /\ events[i].request.tag[2] \in 1..Cardinality(Strategies)
           /\ events[i].request.tag[3] = EvidenceOf(i).id
<1>1. i \in DOMAIN events /\ Len(events[i].request.tag) = 3
  BY DEF Promotions
<1>2. events[i] \in PastEvents
  BY <1>1 DEF HistoryInv
<1>3. events[i].request \in PromotionRequests \cup OperatorRequests
  BY <1>2 DEF PastEvents
<1>4. PICK e \in GoodEvidence, serial \in 1..MaxEvaluations,
           rank \in 1..Cardinality(Strategies) :
         /\ events[i].request.key = <<"forward-ranked", e.id>>
         /\ events[i].request.tag = <<serial, rank, e.id>>
         /\ events[i].request.strategy = e.strategy
         /\ events[i].request.to = "paper_ranked"
  BY <1>1, <1>3, RequestFacts
<1>5. e \in Evidence
  BY DEF GoodEvidence
<1>6. EvidenceOf(i) = e
  BY <1>4, <1>5, EvidenceIs
<1> QED
  BY <1>1, <1>4, <1>6

\* A committed transition joins the history and leaves what was there.
LEMMA HistoryGrows ==
    ASSUME ForwardInv, NEW r \in PromotionRequests \cup OperatorRequests,
           Ledger!Transition(r)
    PROVE  /\ HistoryInv'
           /\ rows' \in [Strategies -> Ledger!Rows]
           /\ DOMAIN events = 1..Len(events) /\ Len(events) \in Nat
           /\ DOMAIN events' = 1..(Len(events) + 1)
           /\ \A i \in DOMAIN events : events'[i] = events[i]
           /\ events'[Len(events) + 1].request = r
<1> DEFINE n == Len(events)
           from == rows[r.strategy].state
           new == [request |-> r, from |-> from]
<1>1. /\ events' = Append(events, new)
      /\ rows' = [rows EXCEPT ![r.strategy] = [state |-> r.to, last |-> n + 1]]
      /\ \A i \in DOMAIN events : events[i].request.key # r.key
  BY RequestFacts DEF Ledger!Transition, Ledger!Write, Ledger!KeyTaken
<1>2. events \in Seq(PastEvents)
  BY DEF ForwardInv, HistoryInv
<1>3. r.strategy \in Strategies /\ r.to \in Ledger!States
  BY RequestFacts
<1>4. from \in Ledger!States
  BY <1>3 DEF ForwardInv, Ledger!Rows
<1>5. new \in PastEvents
  BY <1>4 DEF PastEvents
<1>6. n \in Nat /\ DOMAIN events = 1..n
  BY <1>2
<1>7. rows' \in [Strategies -> Ledger!Rows]
  <2>1. [state |-> r.to, last |-> n + 1] \in Ledger!Rows
    BY <1>3, <1>6 DEF Ledger!Rows
  <2> QED
    BY <1>1, <2>1 DEF ForwardInv
<1>8. new.request = r
  OBVIOUS
<1> HIDE DEF new
<1>9. /\ events' \in Seq(PastEvents)
      /\ DOMAIN events' = 1..(n + 1)
      /\ \A i \in DOMAIN events : events'[i] = events[i]
      /\ events'[n + 1] = new
  BY <1>1, <1>2, <1>5, <1>6
<1>10. HistoryInv'
  <2>1. ASSUME NEW i \in 1..(n + 1), NEW j \in 1..(n + 1),
               events'[i].request.key = events'[j].request.key
        PROVE  i = j
    <3>1. i \in 1..n /\ j \in 1..n => i = j
      <4> HAVE i \in 1..n /\ j \in 1..n
      <4>1. events[i].request.key = events[j].request.key
        BY <1>6, <1>9, <2>1
      <4> QED
        BY <1>6, <4>1 DEF ForwardInv, HistoryInv
    <3>2. \A k \in 1..n : events'[k].request.key # r.key
      BY <1>1, <1>6, <1>9
    <3>3. events'[n + 1].request.key = r.key
      BY <1>8, <1>9
    <3> QED
      BY <1>6, <2>1, <3>1, <3>2, <3>3
  <2> QED
    BY <1>9, <2>1 DEF HistoryInv
<1> QED
  BY <1>6, <1>7, <1>8, <1>9, <1>10

\* The promotions stay, with their evidence, and what evaluations did stays done.
LEMMA PromotionsGrow ==
    ASSUME ForwardInv, NEW r \in PromotionRequests \cup OperatorRequests,
           Ledger!Transition(r)
    PROVE  /\ Promotions \subseteq Promotions'
           /\ Promotions' \subseteq Promotions \cup {Len(events) + 1}
           /\ Len(events) + 1 \in Promotions' <=> Len(r.tag) = 3
           /\ \A i \in Promotions : /\ i \in DOMAIN events /\ i < Len(events) + 1
                                    /\ events'[i] = events[i]
                                    /\ EvidenceOf(i)' = EvidenceOf(i)
           /\ \A t : TaskInv(t) => TaskInv(t)'
<1>1. /\ DOMAIN events = 1..Len(events) /\ Len(events) \in Nat
      /\ DOMAIN events' = 1..(Len(events) + 1)
      /\ \A i \in DOMAIN events : events'[i] = events[i]
      /\ events'[Len(events) + 1].request = r
  BY HistoryGrows
<1>2. /\ Promotions \subseteq Promotions'
      /\ Promotions' \subseteq Promotions \cup {Len(events) + 1}
      /\ Len(events) + 1 \in Promotions' <=> Len(r.tag) = 3
  BY <1>1 DEF Promotions
<1>3. \A i \in Promotions : i \in DOMAIN events /\ i < Len(events) + 1
                            /\ events'[i] = events[i]
  BY <1>1 DEF Promotions
<1>4. \A i \in Promotions : EvidenceOf(i)' = EvidenceOf(i)
  BY <1>3 DEF EvidenceOf
<1>5. \A t : TaskInv(t) => TaskInv(t)'
  <2> TAKE t
  <2> HAVE TaskInv(t)
  <2>1. ASSUME NEW rank \in 1..t.done
        PROVE  \E i \in Promotions' :
                  events'[i].request.tag = <<t.serial, rank, t.ranking[rank].id>>
    <3>1. PICK i \in Promotions :
             events[i].request.tag = <<t.serial, rank, t.ranking[rank].id>>
      BY DEF TaskInv
    <3> QED
      BY <1>2, <1>3, <3>1
  <2> QED
    BY <2>1 DEF TaskInv
<1> QED
  BY <1>2, <1>3, <1>4, <1>5

\* BetterComeFirst of one promotion.
Leads(i) ==
    \A rank \in 1..(events[i].request.tag[2] - 1) : \E j \in Promotions :
        /\ j < i
        /\ events[j].request.tag[1] = events[i].request.tag[1]
        /\ events[j].request.tag[2] = rank
        /\ ~BetterEverywhere(EvidenceOf(i), EvidenceOf(j))

LEMMA LeadsAll == BetterComeFirst <=> \A i \in Promotions : Leads(i)
BY DEF BetterComeFirst, Leads, BetterEverywhere

LEMMA LeadsStays ==
    ASSUME ForwardInv, NEW r \in PromotionRequests \cup OperatorRequests,
           Ledger!Transition(r), NEW i \in Promotions
    PROVE  Leads(i)'
<1>1. Leads(i)
  BY LeadsAll DEF ForwardInv
<1>2. events'[i] = events[i] /\ EvidenceOf(i)' = EvidenceOf(i)
  BY PromotionsGrow
<1>3. ASSUME NEW rank \in 1..(events'[i].request.tag[2] - 1)
      PROVE  \E j \in Promotions' :
                /\ j < i
                /\ events'[j].request.tag[1] = events'[i].request.tag[1]
                /\ events'[j].request.tag[2] = rank
                /\ ~BetterEverywhere(EvidenceOf(i)', EvidenceOf(j)')
  <2>1. PICK j \in Promotions :
           /\ j < i
           /\ events[j].request.tag[1] = events[i].request.tag[1]
           /\ events[j].request.tag[2] = rank
           /\ ~BetterEverywhere(EvidenceOf(i), EvidenceOf(j))
    BY <1>1, <1>2, <1>3 DEF Leads
  <2>2. j \in Promotions' /\ events'[j] = events[j] /\ EvidenceOf(j)' = EvidenceOf(j)
    BY PromotionsGrow
  <2> QED
    BY <1>2, <2>1, <2>2
<1> QED
  BY <1>3 DEF Leads

\* What an operator moves, to the ranked or elsewhere, is no promotion of an
\* evaluation.
LEMMA OperatorMoves ==
    ASSUME ForwardInv, NEW s \in Strategies, ExplicitTransition(s)
    PROVE  ForwardInv'
<1>a. PICK n : n = moves + 1
  OBVIOUS
<1>1. PICK to \in Ledger!KnownStates, e \in Cited :
         \E key \in OperatorKeys(e) : Ledger!Transition(OperatorRequest(key, s, to, e))
  BY DEF ExplicitTransition, OperatorRequest
<1>b. PICK key \in OperatorKeys(e) : Ledger!Transition(OperatorRequest(key, s, to, e))
  BY <1>1
<1> DEFINE r == OperatorRequest(key, s, to, e)
<1>2. moves' \in 0..MaxMoves /\ n \in 1..MaxMoves /\ UNCHANGED <<task, begun>>
  BY <1>a, ForwardAssumption DEF ExplicitTransition, ForwardInv
<1>3. r \in OperatorRequests /\ Len(r.tag) # 3
  <2>1. e \in Evidence
    BY ForwardAssumption
  <2>2. key \in {<<"operator", m>> : m \in 1..MaxMoves}
                   \cup {<<"forward-ranked", f.id>> : f \in Evidence}
    BY <1>a, <1>2, <2>1 DEF OperatorKeys
  <2>3. r \in OperatorRequests
    BY <2>1, <2>2 DEF OperatorRequests
  <2>4. Len(r.tag) = 1
    BY DEF OperatorRequest
  <2> QED
    BY <2>3, <2>4
<1>4. Ledger!Transition(r)
  BY <1>b
<1> HIDE DEF r
<1>5. HistoryInv' /\ rows' \in [Strategies -> Ledger!Rows]
  BY <1>3, <1>4, HistoryGrows
<1>6. Promotions' = Promotions
  BY <1>3, <1>4, PromotionsGrow
<1>7. \A i \in Promotions : Leads(i)'
  BY <1>3, <1>4, LeadsStays
<1>8. BetterComeFirst'
  <2>1. \A i \in Promotions' : Leads(i)'
    BY <1>6, <1>7
  <2>2. (BetterComeFirst <=> \A i \in Promotions : Leads(i))'
    BY LeadsAll, PTL
  <2> QED
    BY <2>1, <2>2
<1>9. \A t : TaskInv(t) => TaskInv(t)'
  BY <1>3, <1>4, PromotionsGrow
<1>10. \A p \in Evaluators : TaskInv(task[p])'
  <2> TAKE p \in Evaluators
  <2>1. PICK t : t = task[p]'
    OBVIOUS
  <2>2. TaskInv(t)
    BY <1>2, <2>1 DEF ForwardInv
  <2>3. TaskInv(t)'
    BY <1>9, <2>2
  <2> QED
    BY <2>1, <2>3
<1> QED
  BY <1>2, <1>5, <1>8, <1>10 DEF ForwardInv

\* A promotion comes after those that its evaluation ranks higher.
LEMMA PromotionCommits ==
    ASSUME ForwardInv, NEW p \in Evaluators, task[p].step = "promote",
           task[p].done # Len(task[p].ranking),
           Ledger!Transition(Promotion(p, task[p].done + 1)),
           task' = [task EXCEPT ![p].done = @ + 1], UNCHANGED <<begun, moves>>
    PROVE  ForwardInv'
<1>a. PICK old : old = task[p]
  OBVIOUS
<1>b. PICK k : k = Len(events) + 1
  OBVIOUS
<1> DEFINE rank == old.done + 1
           e == old.ranking[rank]
           r == PromotionRequest(e, old.serial, rank)
           t == [old EXCEPT !.done = rank]
<1>1. old \in Tasks /\ TaskInv(old) /\ task' = [task EXCEPT ![p] = t]
  BY <1>a DEF ForwardInv
<1>2. /\ old.serial \in 1..MaxEvaluations
      /\ old.ranking \in Rankings
      /\ old.done \in Nat
      /\ rank \in 1..Len(old.ranking)
      /\ rank \in 1..Cardinality(Strategies)
      /\ Cardinality(Strategies) \in Nat
  <2>1. /\ old.serial \in 0..MaxEvaluations /\ old.serial > 0
        /\ old.ranking \in Rankings /\ old.done \in 0..Cardinality(Strategies)
        /\ old.done <= Len(old.ranking)
    BY <1>a, <1>1 DEF Tasks, TaskInv
  <2>2. /\ Len(old.ranking) \in Nat /\ Len(old.ranking) <= Cardinality(Strategies)
        /\ Cardinality(Strategies) \in Nat
    BY <2>1, ForwardAssumption, FS_CardinalityType DEF Rankings
  <2>3. old.done # Len(old.ranking)
    BY <1>a
  <2> QED
    BY <2>1, <2>2, <2>3, ForwardAssumption
<1>3. e \in GoodEvidence /\ e \in Evidence
  BY <1>2 DEF Rankings, GoodEvidence
<1>4. r \in PromotionRequests
  <2> HIDE DEF e, rank
  <2> QED
    BY <1>2, <1>3 DEF PromotionRequests
<1>5. Ledger!Transition(r)
  BY <1>a DEF Promotion, RankedKey, PromotionRequest
<1>6. Len(r.tag) = 3 /\ r.tag = <<old.serial, rank, e.id>>
  BY DEF PromotionRequest
<1> HIDE DEF r
<1>7. HistoryInv' /\ rows' \in [Strategies -> Ledger!Rows] /\ events'[k].request = r
  BY <1>b, <1>4, <1>5, HistoryGrows
<1>8. /\ Promotions' = Promotions \cup {k}
      /\ \A i \in Promotions : /\ i < k /\ events'[i] = events[i]
                               /\ EvidenceOf(i)' = EvidenceOf(i)
      /\ \A s : TaskInv(s) => TaskInv(s)'
  BY <1>b, <1>4, <1>5, <1>6, PromotionsGrow
<1>9. events'[k].request.tag = <<old.serial, rank, e.id>>
  BY <1>6, <1>7
<1>10. EvidenceOf(k)' = e
  <2> HIDE DEF e, rank
  <2>1. events'[k].request.tag[3] = e.id
    BY <1>9
  <2>2. (CHOOSE x \in Evidence : x.id = e.id) = e
    BY <1>3, ForwardAssumption
  <2> QED
    BY <2>1, <2>2 DEF EvidenceOf
<1>11. Leads(k)'
  <2> SUFFICES ASSUME NEW q \in 1..(events'[k].request.tag[2] - 1)
               PROVE  \E j \in Promotions' :
                         /\ j < k
                         /\ events'[j].request.tag[1] = events'[k].request.tag[1]
                         /\ events'[j].request.tag[2] = q
                         /\ ~BetterEverywhere(EvidenceOf(k)', EvidenceOf(j)')
    BY DEF Leads
  <2>1. q \in 1..old.done /\ q \in 1..Len(old.ranking) /\ q < rank
    <3>1. q \in 1..(rank - 1)
      BY <1>9
    <3> QED
      BY <1>2, <3>1
  <2>2. PICK j \in Promotions : events[j].request.tag = <<old.serial, q, old.ranking[q].id>>
    BY <1>1, <2>1 DEF TaskInv
  <2>3. old.ranking[q] \in Evidence
    BY <1>2, <2>1 DEF Rankings, GoodEvidence
  <2>4. EvidenceOf(j) = old.ranking[q]
    BY <2>2, <2>3, EvidenceIs
  <2>5. ~BetterEverywhere(old.ranking[rank], old.ranking[q])
    BY <1>2, <2>1 DEF Rankings
  <2>6. EvidenceOf(j)' = old.ranking[q] /\ events'[j] = events[j] /\ j < k /\ j \in Promotions'
    BY <1>8, <2>4
  <2>7. ~BetterEverywhere(EvidenceOf(k)', EvidenceOf(j)')
    BY <1>10, <2>5, <2>6
  <2>8. /\ events'[j].request.tag[1] = old.serial
        /\ events'[j].request.tag[2] = q
        /\ events'[k].request.tag[1] = old.serial
    BY <1>9, <2>2, <2>6
  <2> QED
    BY <2>6, <2>7, <2>8
<1>12. BetterComeFirst'
  <2>1. \A i \in Promotions : Leads(i)'
    BY <1>4, <1>5, LeadsStays
  <2>2. \A i \in Promotions' : Leads(i)'
    BY <1>8, <1>11, <2>1
  <2>3. (BetterComeFirst <=> \A i \in Promotions : Leads(i))'
    BY LeadsAll, PTL
  <2> QED
    BY <2>2, <2>3
<1>13. t \in Tasks
  <2> QED
    BY <1>1, <1>2 DEF Tasks
<1>14. t.step = old.step /\ t.serial = old.serial /\ t.inputs = old.inputs
       /\ t.ranking = old.ranking /\ t.done = rank
  BY <1>1 DEF Tasks
<1>15. TaskInv(t)'
  <2>1. TaskInv(old)'
    BY <1>1, <1>8
  <2> HIDE DEF t, e, rank
  <2>2. ASSUME NEW q \in 1..rank
        PROVE  \E i \in Promotions' :
                  events'[i].request.tag = <<old.serial, q, old.ranking[q].id>>
    <3>1. CASE q = rank
      BY <1>8, <1>9, <3>1 DEF e
    <3>2. CASE q # rank
      <4>1. q \in 1..old.done
        BY <1>2, <3>2 DEF rank
      <4> QED
        BY <2>1, <4>1 DEF TaskInv
    <3> QED
      BY <3>1, <3>2
  <2>3. rank <= Len(old.ranking)
    BY <1>2
  <2>4. old.step = "promote"
    BY <1>a
  <2> QED
    BY <1>14, <2>1, <2>2, <2>3, <2>4 DEF TaskInv
<1> HIDE DEF t
<1>16. \A q \in Evaluators : TaskInv(task[q])'
  <2> TAKE q \in Evaluators
  <2>1. PICK s : s = task[q]'
    OBVIOUS
  <2>2. s = t \/ s = task[q]
    BY <1>1, <2>1 DEF ForwardInv
  <2>3. s = task[q] => TaskInv(s)'
    BY <1>8 DEF ForwardInv
  <2> QED
    BY <1>15, <2>1, <2>2, <2>3
<1>17. task' \in [Evaluators -> Tasks]
  BY <1>1, <1>13 DEF ForwardInv
<1> QED
  BY <1>7, <1>12, <1>16, <1>17 DEF ForwardInv

LEMMA InputIsRecord ==
    ASSUME ForwardInv, NEW e \in Evidence
    PROVE  Input(e) \in InputRecords /\ Input(e).evidence = e
<1>1. e.strategy \in Strategies
  BY ForwardAssumption
<1>2. rows[e.strategy].state \in Ledger!States
  BY <1>1 DEF ForwardInv, Ledger!Rows
<1>3. Free("paper_ranked") \in BOOLEAN
  BY DEF Free
<1> QED
  BY <1>2, <1>3 DEF Input, InputRecords

LEMMA CollectStep ==
    ASSUME ForwardInv, NEW p \in Evaluators, Collect(p)
    PROVE  ForwardInv'
<1>1. PICK chosen \in SUBSET Evidence :
         /\ \A a, b \in chosen : a.strategy = b.strategy => a = b
         /\ task' = [task EXCEPT ![p] = [NoTask EXCEPT !.step = "evaluate",
                                                       !.serial = begun + 1,
                                                       !.inputs = {Input(e) : e \in chosen}]]
  BY DEF Collect
<1> DEFINE inputs == {Input(e) : e \in chosen}
           t == [NoTask EXCEPT !.step = "evaluate", !.serial = begun + 1, !.inputs = inputs]
<1>2. /\ begun' \in 0..MaxEvaluations /\ moves' \in 0..MaxMoves
      /\ begun + 1 \in 0..MaxEvaluations /\ begun + 1 > 0
      /\ UNCHANGED registry
  BY ForwardAssumption DEF Collect, ForwardInv
<1>3. \A e \in chosen : Input(e) \in InputRecords /\ Input(e).evidence = e
  BY InputIsRecord
<1>4. inputs \in SUBSET InputRecords
  BY <1>3
<1>5. \A i, j \in inputs :
         i.evidence.strategy = j.evidence.strategy => i.evidence = j.evidence
  BY <1>1, <1>3
<1> HIDE DEF inputs
<1>6. t \in Tasks
  BY <1>2, <1>4, IdleTask DEF NoTask, Tasks
<1>7. TaskInv(t)
  BY <1>2, <1>5, IdleTask DEF NoTask, TaskInv
<1>8. task' = [task EXCEPT ![p] = t]
  BY <1>1 DEF inputs
<1> HIDE DEF t
<1> QED
  BY <1>2, <1>6, <1>7, <1>8, TaskMoves

LEMMA EvaluateStep ==
    ASSUME ForwardInv, NEW p \in Evaluators, Evaluate(p)
    PROVE  ForwardInv'
<1>a. PICK old : old = task[p]
  OBVIOUS
<1> DEFINE cohort == {i.evidence : i \in {j \in old.inputs : PassesGates(j)}}
           ranking == RankEligible(cohort)
           t == [old EXCEPT !.step = "promote", !.inputs = {}, !.ranking = ranking]
<1>1. /\ old \in Tasks /\ TaskInv(old) /\ old.step = "evaluate"
      /\ begun' \in 0..MaxEvaluations /\ moves' \in 0..MaxMoves
      /\ UNCHANGED registry
  BY <1>a DEF Evaluate, ForwardInv
<1>2. IsCohort(cohort)
  <2>1. \A i \in old.inputs : i.evidence \in Evidence
    BY <1>1 DEF Tasks, InputRecords
  <2>2. cohort \subseteq GoodEvidence
    BY <2>1 DEF PassesGates, GoodEvidence
  <2>3. \A e, f \in cohort : e.strategy = f.strategy => e = f
    BY <1>1 DEF TaskInv
  <2> QED
    BY <2>2, <2>3 DEF IsCohort
<1> HIDE DEF cohort
<1>3. ranking \in Rankings
  BY <1>2, RankingFacts
<1>4. task' = [task EXCEPT ![p] = t]
  BY <1>a DEF Evaluate, ForwardInv, cohort
<1> HIDE DEF ranking
<1>5. t \in Tasks
  BY <1>1, <1>3 DEF Tasks
<1>6. /\ t.step = "promote" /\ t.serial = old.serial /\ t.inputs = {}
      /\ t.ranking = ranking /\ t.done = 0 /\ t.serial > 0
  BY <1>1 DEF Tasks, TaskInv
<1>7. Len(ranking) \in Nat
  BY <1>3 DEF Rankings
<1> HIDE DEF t
<1>8. TaskInv(t)
  BY <1>6, <1>7 DEF TaskInv
<1> QED
  BY <1>1, <1>4, <1>5, <1>8, TaskMoves

LEMMA ToIdle ==
    ASSUME ForwardInv, NEW p \in Evaluators, task' = [task EXCEPT ![p] = NoTask],
           UNCHANGED <<registry, begun, moves>>
    PROVE  ForwardInv'
<1>1. begun' \in 0..MaxEvaluations /\ moves' \in 0..MaxMoves
  BY DEF ForwardInv
<1> QED
  BY <1>1, IdleTask, TaskMoves

LEMMA PromoteStep ==
    ASSUME ForwardInv, NEW p \in Evaluators, Promote(p)
    PROVE  ForwardInv'
<1> DEFINE r == Promotion(p, task[p].done + 1)
           ends == task[p].done = Len(task[p].ranking) \/ PromotionRefused(r)
<1>1. CASE ends
  BY <1>1, ToIdle DEF Promote
<1>2. CASE ~ends
  <2>1. /\ task[p].step = "promote" /\ task[p].done # Len(task[p].ranking)
        /\ Ledger!Transition(r) /\ task' = [task EXCEPT ![p].done = @ + 1]
        /\ UNCHANGED <<begun, moves>>
    BY <1>2 DEF Promote
  <2> QED
    BY <2>1, PromotionCommits
<1> QED
  BY <1>1, <1>2

LEMMA ForwardStarts == ForwardInit => ForwardInv
<1> SUFFICES ASSUME ForwardInit PROVE ForwardInv
  OBVIOUS
<1>1. rows \in [Strategies -> Ledger!Rows]
  BY DEF ForwardInit, Ledger!Rows, Ledger!States, Ledger!KnownStates
<1>2. HistoryInv
  BY DEF ForwardInit, HistoryInv
<1>3. BetterComeFirst
  BY DEF ForwardInit, BetterComeFirst, Promotions
<1> QED
  BY <1>1, <1>2, <1>3, IdleTask, ForwardAssumption DEF ForwardInit, ForwardInv

LEMMA ForwardStep == ForwardInv /\ [ForwardNext]_forwardVars => ForwardInv'
<1> SUFFICES ASSUME ForwardInv, [ForwardNext]_forwardVars PROVE ForwardInv'
  OBVIOUS
<1>1. ASSUME NEW p \in Evaluators, Collect(p) PROVE ForwardInv'
  BY <1>1, CollectStep
<1>2. ASSUME NEW p \in Evaluators, Evaluate(p) PROVE ForwardInv'
  BY <1>2, EvaluateStep
<1>3. ASSUME NEW p \in Evaluators, Promote(p) PROVE ForwardInv'
  BY <1>3, PromoteStep
<1>4. ASSUME NEW p \in Evaluators, Crash(p) PROVE ForwardInv'
  BY <1>4, ToIdle DEF Crash
<1>5. ASSUME NEW s \in Strategies, ExplicitTransition(s) PROVE ForwardInv'
  BY <1>5, OperatorMoves
<1>6. CASE UNCHANGED forwardVars
  <2>1. UNCHANGED <<events, rows, task, begun, moves>>
    BY <1>6 DEF forwardVars, registry
  <2>2. Promotions' = Promotions
    BY <2>1 DEF Promotions
  <2>3. \A i : EvidenceOf(i)' = EvidenceOf(i)
    BY <2>1 DEF EvidenceOf
  <2>4. HistoryInv'
    BY <2>1 DEF ForwardInv, HistoryInv
  <2>5. BetterComeFirst'
    BY <2>1, <2>2, <2>3 DEF ForwardInv, BetterComeFirst
  <2>6. \A q \in Evaluators : TaskInv(task[q])'
    BY <2>1, <2>2 DEF ForwardInv, TaskInv
  <2> QED
    BY <2>1, <2>4, <2>5, <2>6 DEF ForwardInv
<1> QED
  BY <1>1, <1>2, <1>3, <1>4, <1>5, <1>6 DEF ForwardNext

\* What the registry's history holds and where every evaluation stands, in
\* every reachable state, however evaluations, operators and crashes interleave.
THEOREM ForwardInvariantHolds == ForwardSpec => []ForwardInv
BY ForwardStarts, ForwardStep, PTL DEF ForwardSpec

\* promote_ranked: what evaluations promote rests on evidence of that strategy
\* that passed the gates, and no evidence promotes twice, since its key is that
\* of the evidence alone; wherever operators move strategies, on any evidence
\* and under any key, the key of a promotion included.
THEOREM PromotesOnce == ForwardSpec => []EvidencePromotesOnce
<1>1. ForwardInv => EvidencePromotesOnce
  <2> SUFFICES ASSUME ForwardInv PROVE EvidencePromotesOnce
    OBVIOUS
  <2>1. \A i \in Promotions : /\ EvidenceOf(i).good
                              /\ EvidenceOf(i).strategy = events[i].request.strategy
                              /\ events[i].request.to = "paper_ranked"
    BY PromotionFacts DEF ForwardInv, GoodEvidence
  <2>2. ASSUME NEW i \in Promotions, NEW j \in Promotions, EvidenceOf(i) = EvidenceOf(j)
        PROVE  i = j
    <3>1. events[i].request.key = events[j].request.key
      BY <2>2, PromotionFacts DEF ForwardInv
    <3> QED
      BY <3>1, PromotionFacts DEF ForwardInv, HistoryInv
  <2> QED
    BY <2>1, <2>2 DEF EvidencePromotesOnce
<1> QED
  BY <1>1, ForwardInvariantHolds, PTL

\* evaluate_and_promote: whoever an evaluation promotes comes after all that it
\* ranks higher, none of whom is worse in every component.
THEOREM BetterFirst == ForwardSpec => []BetterComeFirst
BY ForwardInvariantHolds, PTL DEF ForwardInv

=============================================================================
