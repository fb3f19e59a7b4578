--------------------------- MODULE MarketDataProofs ---------------------------
(***************************************************************************)
(* Proofs about MarketData, for any symbols, width of a bucket, windows    *)
(* and number of starts: aggregates are whole, memory is the ledger, and,  *)
(* when a bucket outlives the freshness of a bar, an entry is decided on   *)
(* the bar it is recorded for.                                             *)
(***************************************************************************)
EXTENDS MarketData, FiniteSetTheorems, WellFoundedInduction, TLAPS

MinuteBars == [symbol : Symbols, start : Nat, at : Nat]

\* What the process is doing, and with which bars.
Phases ==
    [op : {"stopped", "waiting", "raised"}]
        \cup [op : {"aggregate"}, observed : Nat, bar : MinuteBars]
        \cup [op : {"session"}, observed : Nat, fresh : SUBSET MinuteBars]
        \cup [op : {"judge"}, observed : Nat, todo : SUBSET MinuteBars]

TypeOK ==
    /\ now \in Nat
    /\ bars \in SUBSET MinuteBars /\ minutes \in SUBSET MinuteBars
    /\ aggregates \in SUBSET MinuteBars /\ pending \in SUBSET MinuteBars
    /\ phase \in Phases

\* A minute is delivered when it has ended, and once.
MinutesInv ==
    /\ \A b \in minutes : b.start + 1 <= b.at /\ b.at <= now
    /\ \A b, c \in minutes : b.symbol = c.symbol /\ b.start = c.start => b = c

\* Memory is ahead of the ledger only when the process can do nothing with it.
MemoryInv ==
    /\ phase # Stopped => bars = minutes \/ writesDisabled
    /\ writesDisabled => phase \in {Stopped, Waiting}
    /\ phase.op = "aggregate" => phase.bar \in bars

\* A bucket whose aggregate is in the ledger is marked as emitted.
EmittedInv ==
    phase # Stopped => \A a \in aggregates : <<a.symbol, a.start>> \in emitted

\* An aggregate is whole, alone in its bucket, and not available before the
\* bucket has ended.
AggregateOK(a) ==
    /\ IsComplete(minutes, a.symbol, a.start)
    /\ a.at = LargestOf({b.at : b \in Components(minutes, a.symbol, a.start)})
    /\ \A c \in aggregates : c.symbol = a.symbol /\ c.start = a.start => c = a
    /\ a.start + Width <= a.at /\ a.at <= now

AggregatesInv == \A a \in aggregates : AggregateOK(a)

MarketInv == TypeOK /\ MinutesInv /\ MemoryInv /\ EmittedInv /\ AggregatesInv

\* The bars the session works with are in the ledger, and were there when the
\* call began.
SessionInv ==
    /\ pending \subseteq aggregates
    /\ history \subseteq aggregates
    /\ phase.op = "session" => phase.fresh \subseteq aggregates
    /\ phase.op = "judge" =>
          \A a \in phase.todo : a \in aggregates /\ a.at <= phase.observed
    /\ phase.op \in {"aggregate", "session", "judge"} =>
          phase.observed <= now /\ \A a \in history : a.at <= phase.observed

\* A strategy enters on a bar that was available at its very end, and soon.
EntryOK(e) ==
    /\ e.judged = e.bar
    /\ e.bar \in aggregates
    /\ e.bar.at = e.bar.start + Width
    /\ e.time \in Nat /\ e.time <= e.bar.at + StaleAfter

EntryInv == SessionInv /\ \A e \in entered : EntryOK(e)

----------------------------------------------------------------------------
(***************************************************************************)
(* Buckets                                                                 *)
(***************************************************************************)

\* A minute lies in its bucket.
LEMMA BucketRange ==
    ASSUME NEW start \in Nat
    PROVE  /\ BucketStart(start) \in Nat
           /\ start \in BucketStart(start)..(BucketStart(start) + Width - 1)
<1> DEFINE q == start \div Width
           r == start % Width
<1>1. Width \in Nat /\ Width > 0
  BY MarketDataAssumption
<1>2. q \in Nat /\ r \in 0..(Width - 1) /\ start = Width * q + r
  BY <1>1
<1> HIDE DEF q, r
<1> DEFINE p == q * Width
<1>3. p \in Nat /\ start = p + r
  BY <1>1, <1>2
<1> HIDE DEF p
<1>4. p \in Nat /\ start \in p..(p + Width - 1)
  BY <1>1, <1>2, <1>3
<1> QED
  BY <1>4 DEF BucketStart, p, q

\* A set of numbers with a bound has a largest one: the smallest of the
\* intervals that hold the set ends in it.
LEMMA LargestExists ==
    ASSUME NEW S \in SUBSET Nat, S # {}, NEW n \in Nat, \A m \in S : m <= n
    PROVE  LargestOf(S) \in S /\ \A m \in S : m <= LargestOf(S)
<1> DEFINE Bounds == {k \in Nat : \A m \in S : m <= k}
           Intervals == {0..k : k \in Bounds}
<1>1. Intervals \subseteq FiniteSubsetsOf(Nat)
  <2> SUFFICES ASSUME NEW k \in Nat PROVE IsFiniteSet(0..k) /\ 0..k \in SUBSET Nat
    BY DEF FiniteSubsetsOf
  <2> QED
    BY FS_Interval
<1>2. 0..n \in Intervals
  OBVIOUS
<1>3. PICK I \in Intervals : \A J \in Intervals : <<J, I>> \notin StrictSubsetOrdering(Nat)
  <2> HIDE DEF Intervals
  <2> QED
    BY <1>1, <1>2, FS_StrictSubsetOrderingWellFounded, WFMin
<1>4. PICK k \in Bounds : I = 0..k
  OBVIOUS
<1>5. k \in S
  <2> SUFFICES ASSUME k \notin S PROVE FALSE
    OBVIOUS
  <2>1. PICK m \in S : m < k
    <3>1. PICK m : m \in S
      OBVIOUS
    <3>2. m \in Nat /\ k \in Nat /\ m <= k /\ m # k
      BY <3>1
    <3> QED
      BY <3>1, <3>2
  <2>2. k - 1 \in Bounds
    BY <2>1
  <2>3. 0..(k - 1) \in Intervals
    BY <2>2
  <2>4. 0..(k - 1) \subseteq 0..k /\ 0..(k - 1) # 0..k /\ 0..k \in SUBSET Nat
    BY <2>1
  <2>5. <<0..(k - 1), 0..k>> \in StrictSubsetOrdering(Nat)
    BY <2>4 DEF StrictSubsetOrdering
  <2> QED
    BY <1>3, <1>4, <2>3, <2>5
<1>6. \A m \in S : m <= k
  OBVIOUS
<1> QED
  BY <1>5, <1>6 DEF LargestOf

\* A complete bucket has a bar of each of its minutes.
LEMMA BarOfMinute ==
    ASSUME NEW set, NEW sym, NEW bucket, IsComplete(set, sym, bucket),
           NEW n \in bucket..(bucket + Width - 1)
    PROVE  \E m \in Components(set, sym, bucket) : m.start = n
<1> DEFINE C == Components(set, sym, bucket)
           I == bucket..(bucket + Width - 1)
<1>1. {m.start : m \in C} = I /\ n \in I
  BY DEF IsComplete
<1> HIDE DEF C, I
<1>2. \E m \in C : m.start = n
  BY <1>1
<1> QED
  BY <1>2 DEF C

\* The aggregate of a complete bucket is not available before its end.
LEMMA CompleteBucket ==
    ASSUME TypeOK, MinutesInv, NEW sym \in Symbols, NEW bucket \in Nat,
           IsComplete(minutes, sym, bucket)
    PROVE  LET at == LargestOf({b.at : b \in Components(minutes, sym, bucket)})
           IN  at \in Nat /\ bucket + Width <= at /\ at <= now
<1> DEFINE C == Components(minutes, sym, bucket)
           S == {b.at : b \in C}
<1>1. Width \in Nat /\ Width > 0 /\ now \in Nat
  BY MarketDataAssumption DEF TypeOK
<1>2. PICK m \in C : m.start = bucket + Width - 1
  <2>1. bucket + Width - 1 \in bucket..(bucket + Width - 1)
    BY <1>1
  <2> DEFINE n == bucket + Width - 1
  <2>2. n \in bucket..(bucket + Width - 1)
    BY <2>1
  <2> HIDE DEF n
  <2>3. \E m \in C : m.start = n
    BY <2>2, BarOfMinute
  <2> QED
    BY <2>3 DEF n
<1>3. \A b \in C : b \in MinuteBars /\ b.start + 1 <= b.at /\ b.at <= now
  BY DEF Components, MinutesInv, TypeOK
<1>4. S \in SUBSET Nat /\ S # {} /\ \A n \in S : n <= now
  <2>1. \A b \in C : b.at \in Nat /\ b.at <= now
    BY <1>3 DEF MinuteBars
  <2> HIDE DEF C
  <2> QED
    BY <1>2, <2>1
<1>5. m.at \in S /\ bucket + Width <= m.at
  BY <1>1, <1>2, <1>3 DEF MinuteBars
<1> HIDE DEF S
<1>6. LargestOf(S) \in S /\ \A n \in S : n <= LargestOf(S)
  BY <1>1, <1>4, LargestExists
<1>7. LargestOf(S) \in Nat /\ bucket + Width <= LargestOf(S) /\ LargestOf(S) <= now
  <2> DEFINE at == LargestOf(S)
             n == m.at
  <2>1. at \in Nat /\ n \in Nat /\ n <= at /\ at <= now /\ bucket + Width <= n
    BY <1>4, <1>5, <1>6
  <2> HIDE DEF at, n
  <2>2. at \in Nat /\ bucket + Width <= at /\ at <= now
    BY <1>1, <2>1
  <2> QED
    BY <2>2 DEF at
<1> QED
  BY <1>7 DEF S

\* Two buckets of a symbol do not overlap.
LEMMA BucketsApart ==
    ASSUME TypeOK, AggregatesInv, NEW a \in aggregates, NEW c \in aggregates,
           a.symbol = c.symbol, a.start < c.start
    PROVE  a.start + Width <= c.start
<1>1. Width \in Nat /\ Width > 0 /\ a.start \in Nat /\ c.start \in Nat
  BY MarketDataAssumption DEF TypeOK, MinuteBars
<1> SUFFICES ASSUME c.start < a.start + Width PROVE FALSE
  BY <1>1
<1>2. c.start \in a.start..(a.start + Width - 1) /\ c.start \in c.start..(c.start + Width - 1)
  BY <1>1
<1>3. IsComplete(minutes, a.symbol, a.start) /\ IsComplete(minutes, c.symbol, c.start)
  BY DEF AggregatesInv, AggregateOK
<1>4. \E m \in Components(minutes, a.symbol, a.start) : m.start = c.start
  BY <1>2, <1>3, BarOfMinute
<1>5. \E m \in Components(minutes, c.symbol, c.start) : m.start = c.start
  BY <1>2, <1>3, BarOfMinute
<1>6. BucketStart(c.start) = a.start /\ BucketStart(c.start) = c.start
  BY <1>4, <1>5 DEF Components
<1> QED
  BY <1>1, <1>6

----------------------------------------------------------------------------
(***************************************************************************)
(* The ledger and the memory                                               *)
(***************************************************************************)

\* Nothing is in memory or in the ledger at first.
LEMMA MarketInit == Init => MarketInv
BY DEF Init, MarketInv, TypeOK, Phases, Stopped, MinutesInv, MemoryInv, EmittedInv, AggregatesInv

\* Aggregates stay whole while no minute comes and no aggregate is added.
LEMMA AggregatesStay ==
    ASSUME MarketInv, minutes' = minutes, aggregates' = aggregates,
           now' \in Nat, now <= now'
    PROVE  MinutesInv' /\ AggregatesInv'
<1>1. MinutesInv'
  BY DEF MarketInv, TypeOK, MinutesInv, MinuteBars
<1>2. ASSUME NEW a \in aggregates PROVE AggregateOK(a)'
  <2>1. AggregateOK(a) /\ a.at \in Nat /\ now \in Nat
    BY DEF MarketInv, TypeOK, AggregatesInv, MinuteBars
  <2>2. a.at <= now'
    BY <2>1 DEF AggregateOK
  <2> QED
    BY <2>1, <2>2 DEF AggregateOK, IsComplete, Components
<1> QED
  BY <1>1, <1>2 DEF AggregatesInv

\* A minute is new, so that it is in no bucket that has its aggregate.
LEMMA MinuteKeeps ==
    ASSUME MarketInv, NEW sym \in Symbols, NEW start \in 0..(Minutes - 1), Minute(sym, start)
    PROVE  MarketInv'
<1> DEFINE b == Bar(sym, start, now)
<1>1. /\ start \in Nat /\ now \in Nat /\ start + 1 <= now /\ now' = now
      /\ phase = Waiting /\ ~writesDisabled /\ bars' = bars \cup {b}
      /\ aggregates' = aggregates /\ emitted' = emitted /\ pending' = pending
      /\ start \notin Starts(sym)
  BY MarketDataAssumption DEF MarketInv, TypeOK, Minute, Delivers, session
<1>2. bars = minutes
  BY <1>1 DEF MarketInv, MemoryInv, Waiting, Stopped
<1>3. b \in MinuteBars /\ b.symbol = sym /\ b.start = start /\ b.at = now
  BY <1>1 DEF Bar, MinuteBars
<1>4. \A c \in minutes : c.symbol = sym => c.start # start
  BY <1>1, <1>2 DEF Starts
<1> HIDE DEF b
<1>5. EmittedInv'
  BY <1>1 DEF MarketInv, EmittedInv, Waiting, Stopped
<1>6. CASE minutes' = minutes \cup {b} /\ phase' = [op |-> "aggregate", observed |-> now, bar |-> b]
           /\ UNCHANGED writesDisabled
  <2>1. TypeOK'
    BY <1>1, <1>3, <1>6 DEF MarketInv, TypeOK, Phases
  <2>2. MinutesInv'
    BY <1>1, <1>3, <1>4, <1>6 DEF MarketInv, MinutesInv
  <2>3. MemoryInv'
    BY <1>1, <1>2, <1>6 DEF MemoryInv
  <2>4. ASSUME NEW a \in aggregates PROVE AggregateOK(a)'
    <3>1. AggregateOK(a) /\ a.symbol \in Symbols /\ a.start \in Nat
      BY DEF MarketInv, AggregatesInv, TypeOK, MinuteBars
    <3>2. ~(a.symbol = sym /\ BucketStart(start) = a.start)
      <4> SUFFICES ASSUME a.symbol = sym, BucketStart(start) = a.start PROVE FALSE
        OBVIOUS
      <4>1. start \in a.start..(a.start + Width - 1)
        BY <1>1, BucketRange
      <4>2. \E m \in Components(minutes, a.symbol, a.start) : m.start = start
        BY <3>1, <4>1, BarOfMinute DEF AggregateOK
      <4> QED
        BY <1>4, <4>2 DEF Components
    <3>3. Components(minutes', a.symbol, a.start) = Components(minutes, a.symbol, a.start)
      BY <1>3, <1>6, <3>2 DEF Components
    <3> QED
      BY <1>1, <3>1, <3>3 DEF AggregateOK, IsComplete
  <2> QED
    BY <1>1, <1>5, <2>1, <2>2, <2>3, <2>4 DEF MarketInv, AggregatesInv
<1>7. CASE Fail /\ UNCHANGED minutes
  <2>1. TypeOK'
    BY <1>1, <1>3, <1>7 DEF MarketInv, TypeOK, Phases, Fail, Waiting
  <2>2. MemoryInv'
    BY <1>7 DEF MemoryInv, Fail, Waiting
  <2> QED
    BY <1>1, <1>5, <1>7, <2>1, <2>2, AggregatesStay DEF MarketInv
<1> QED
  BY <1>6, <1>7 DEF Minute, b

\* What is appended is the aggregate of a complete bucket that has none.
LEMMA AggregateKeeps ==
    ASSUME MarketInv, Aggregate
    PROVE  MarketInv'
<1> DEFINE b == phase.bar
           bucket == BucketStart(b.start)
           new == AggregatesOf(b, bars)
<1>1. /\ phase.op = "aggregate" /\ now' = now /\ minutes' = minutes /\ bars' = bars
      /\ now \in Nat /\ pending' = pending
      /\ emitted' = emitted \cup {<<a.symbol, a.start>> : a \in new}
  BY DEF Aggregate, MarketInv, TypeOK, session
<1>2. phase \in [op : {"aggregate"}, observed : Nat, bar : MinuteBars]
  BY <1>1 DEF MarketInv, TypeOK, Phases
<1>3. phase # Stopped /\ phase # Waiting /\ ~writesDisabled /\ bars = minutes
  BY <1>1 DEF MarketInv, MemoryInv, Stopped, Waiting
<1>4. b \in MinuteBars /\ b.symbol \in Symbols /\ bucket \in Nat
  BY <1>2, BucketRange DEF MinuteBars
<1>5. \A a \in new :
         /\ a \in MinuteBars /\ a.symbol = b.symbol /\ a.start = bucket
         /\ IsComplete(minutes, a.symbol, a.start)
         /\ a.at = LargestOf({c.at : c \in Components(minutes, a.symbol, a.start)})
         /\ a.start + Width <= a.at /\ a.at <= now
         /\ <<a.symbol, a.start>> \notin emitted
  <2> SUFFICES ASSUME NEW a \in new
               PROVE  /\ a \in MinuteBars /\ a.symbol = b.symbol /\ a.start = bucket
                      /\ IsComplete(minutes, a.symbol, a.start)
                      /\ a.at = LargestOf({c.at : c \in Components(minutes, a.symbol, a.start)})
                      /\ a.start + Width <= a.at /\ a.at <= now
                      /\ <<a.symbol, a.start>> \notin emitted
    OBVIOUS
  <2> DEFINE at == LargestOf({c.at : c \in Components(minutes, b.symbol, bucket)})
  <2>1. /\ IsComplete(minutes, b.symbol, bucket) /\ <<b.symbol, bucket>> \notin emitted
        /\ a = Bar(b.symbol, bucket, at)
    BY <1>3 DEF AggregatesOf
  <2>2. at \in Nat /\ bucket + Width <= at /\ at <= now
    BY <1>4, <2>1, CompleteBucket DEF MarketInv
  <2> HIDE DEF at
  <2>3. a \in MinuteBars /\ a.symbol = b.symbol /\ a.start = bucket /\ a.at = at
    BY <1>4, <2>1, <2>2 DEF Bar, MinuteBars
  <2> QED
    BY <2>1, <2>2, <2>3 DEF at
<1>6. \A a, c \in new : a = c
  BY DEF AggregatesOf
<1>7. \A a \in new, c \in aggregates : ~(c.symbol = a.symbol /\ c.start = a.start)
  BY <1>3, <1>5 DEF MarketInv, EmittedInv
<1> HIDE DEF new
<1>8. CASE aggregates' = aggregates \cup new /\ UNCHANGED writesDisabled
           /\ phase' = [op |-> "session", observed |-> phase.observed, fresh |-> new]
  <2>1. TypeOK'
    <3>1. new \in SUBSET MinuteBars /\ phase.observed \in Nat
      BY <1>2, <1>5
    <3> QED
      BY <1>1, <1>8, <3>1 DEF MarketInv, TypeOK, Phases
  <2>2. MinutesInv'
    BY <1>1 DEF MarketInv, MinutesInv
  <2>3. MemoryInv'
    BY <1>1, <1>3, <1>8 DEF MemoryInv
  <2>4. EmittedInv'
    BY <1>1, <1>3, <1>8 DEF MarketInv, EmittedInv
  <2>5. ASSUME NEW a \in aggregates PROVE AggregateOK(a)'
    <3>1. AggregateOK(a)
      BY DEF MarketInv, AggregatesInv
    <3> QED
      BY <1>1, <1>7, <1>8, <3>1 DEF AggregateOK, IsComplete, Components
  <2>6. ASSUME NEW a \in new PROVE AggregateOK(a)'
    BY <1>1, <1>5, <1>6, <1>7, <1>8 DEF AggregateOK, IsComplete, Components
  <2> QED
    BY <1>8, <2>1, <2>2, <2>3, <2>4, <2>5, <2>6 DEF MarketInv, AggregatesInv
<1>9. CASE Fail /\ UNCHANGED aggregates
  <2>1. TypeOK'
    BY <1>1, <1>9 DEF MarketInv, TypeOK, Phases, Fail, Waiting
  <2>2. MemoryInv'
    BY <1>9 DEF MemoryInv, Fail, Waiting
  <2>3. EmittedInv'
    BY <1>1, <1>3, <1>9 DEF MarketInv, EmittedInv
  <2> QED
    BY <1>1, <1>9, <2>1, <2>2, <2>3, AggregatesStay DEF MarketInv
<1> QED
  BY <1>8, <1>9 DEF Aggregate, new

\* The steps of the session touch neither the ledger nor the pipeline.
LEMMA SessionKeeps ==
    ASSUME MarketInv, Session \/ Judge \/ Return
    PROVE  MarketInv'
<1>1. /\ phase.op \in {"session", "judge", "raised"} /\ now \in Nat
      /\ UNCHANGED <<now, ledger, starts, pipeline>>
  BY DEF Session, Judge, Return, MarketInv, TypeOK
<1>2. phase # Stopped /\ phase # Waiting /\ ~writesDisabled
  BY <1>1 DEF MarketInv, MemoryInv, Stopped, Waiting
<1>3. /\ phase' \in Phases /\ phase' # Stopped /\ phase'.op # "aggregate"
      /\ pending' \in SUBSET MinuteBars
  <2>1. CASE Session
    <3>1. phase \in [op : {"session"}, observed : Nat, fresh : SUBSET MinuteBars]
      BY <2>1 DEF Session, MarketInv, TypeOK, Phases
    <3>2. CASE phase' = Waiting /\ UNCHANGED pending
      BY <3>2 DEF MarketInv, TypeOK, Phases, Waiting, Stopped
    <3>3. CASE /\ pending' = pending \cup phase.fresh
               /\ phase' = [op |-> "judge", observed |-> phase.observed,
                            todo |-> {a \in pending \cup phase.fresh : Eligible(a, phase.observed)}]
      <4> DEFINE todo == {a \in pending \cup phase.fresh : Eligible(a, phase.observed)}
      <4>1. todo \in SUBSET MinuteBars /\ phase.observed \in Nat /\ pending' \in SUBSET MinuteBars
        BY <3>1, <3>3 DEF MarketInv, TypeOK
      <4> HIDE DEF todo
      <4>2. phase' = [op |-> "judge", observed |-> phase.observed, todo |-> todo]
        BY <3>3 DEF todo
      <4> QED
        BY <4>1, <4>2 DEF Phases, Stopped
    <3> QED
      BY <2>1, <3>2, <3>3 DEF Session
  <2>2. CASE Judge
    <3>1. phase \in [op : {"judge"}, observed : Nat, todo : SUBSET MinuteBars]
      BY <2>2 DEF Judge, MarketInv, TypeOK, Phases
    <3>2. \/ phase' = [op |-> "raised"]
          \/ \E a \in phase.todo : phase' = [phase EXCEPT !.todo = @ \ {a}]
      BY <2>2 DEF Judge
    <3>3. ASSUME NEW a \in phase.todo, phase' = [phase EXCEPT !.todo = @ \ {a}]
          PROVE  phase' \in Phases /\ phase' # Stopped /\ phase'.op # "aggregate"
      <4>1. /\ phase' \in [op : {"judge"}, observed : Nat, todo : SUBSET MinuteBars]
            /\ phase'.op = "judge"
        BY <3>1, <3>3
      <4> QED
        BY <4>1 DEF Phases, Stopped
    <3>4. pending' \in SUBSET MinuteBars
      BY <2>2 DEF Judge, MarketInv, TypeOK
    <3>5. CASE phase' = [op |-> "raised"]
      <4>1. phase' \in [op : {"stopped", "waiting", "raised"}] /\ phase'.op = "raised"
        BY <3>5
      <4> QED
        BY <3>4, <4>1 DEF Phases, Stopped
    <3> QED
      BY <3>2, <3>3, <3>4, <3>5
  <2>3. CASE Return
    BY <2>3 DEF Return, session, MarketInv, TypeOK, Phases, Waiting, Stopped
  <2> QED
    BY <2>1, <2>2, <2>3
<1>4. TypeOK' /\ MemoryInv' /\ EmittedInv'
  BY <1>1, <1>2, <1>3 DEF MarketInv, TypeOK, MemoryInv, EmittedInv, ledger, pipeline
<1> QED
  BY <1>1, <1>4, AggregatesStay DEF MarketInv, ledger

\* Deliveries that change nothing, the clock and the death of the process.
LEMMA OutsideKeeps ==
    ASSUME MarketInv,
           \/ \E sym \in Symbols, start \in 0..(Minutes - 1) :
                 Duplicate(sym, start) \/ TooLate(sym, start)
           \/ Tick \/ Crash
    PROVE  MarketInv'
<1>1. /\ now \in Nat /\ now' \in Nat /\ now <= now'
      /\ UNCHANGED <<minutes, aggregates, bars, emitted, writesDisabled, pending>>
  BY DEF Duplicate, TooLate, Tick, Crash, ledger, pipeline, session, MarketInv, TypeOK
<1>2. \/ phase' = phase
      \/ phase' = Stopped
      \/ /\ phase = Waiting /\ ~writesDisabled
         /\ phase' = [op |-> "session", observed |-> now, fresh |-> {}]
  BY DEF Duplicate, TooLate, Delivers, Tick, Crash
<1>3. CASE phase' = phase
  BY <1>1, <1>3, AggregatesStay DEF MarketInv, TypeOK, MemoryInv, EmittedInv
<1>4. CASE phase' = Stopped
  BY <1>1, <1>4, AggregatesStay DEF MarketInv, TypeOK, MemoryInv, EmittedInv, Phases, Stopped
<1>5. CASE /\ phase = Waiting /\ ~writesDisabled
           /\ phase' = [op |-> "session", observed |-> now, fresh |-> {}]
  <2>1. phase # Stopped /\ phase'.op = "session"
    BY <1>5 DEF Waiting, Stopped
  <2>2. TypeOK'
    BY <1>1, <1>5 DEF MarketInv, TypeOK, Phases
  <2>3. MemoryInv' /\ EmittedInv'
    BY <1>1, <1>5, <2>1 DEF MarketInv, MemoryInv, EmittedInv
  <2> QED
    BY <1>1, <2>2, <2>3, AggregatesStay DEF MarketInv
<1> QED
  BY <1>2, <1>3, <1>4, <1>5

\* A start fills the memory from the ledger.
LEMMA StartKeeps ==
    ASSUME MarketInv, Start
    PROVE  MarketInv'
<1>1. /\ now' = now /\ minutes' = minutes /\ aggregates' = aggregates /\ now \in Nat
      /\ phase' = Waiting /\ bars' = minutes /\ writesDisabled' = FALSE
      /\ pending' = aggregates
      /\ emitted' = {<<a.symbol, a.start>> : a \in aggregates}
  BY DEF Start, ledger, MarketInv, TypeOK
<1>2. TypeOK' /\ MemoryInv'
  BY <1>1 DEF MarketInv, TypeOK, MemoryInv, Phases, Waiting
<1>3. EmittedInv'
  BY <1>1 DEF EmittedInv
<1> QED
  BY <1>1, <1>2, <1>3, AggregatesStay DEF MarketInv

\* Every step keeps the invariant.
LEMMA MarketStep == MarketInv /\ [Next]_vars => MarketInv'
<1> SUFFICES ASSUME MarketInv, [Next]_vars PROVE MarketInv'
  OBVIOUS
<1>1. CASE UNCHANGED vars
  <2>1. /\ now \in Nat /\ UNCHANGED <<now, minutes, aggregates, bars, emitted, writesDisabled, phase,
                                    pending>>
    BY <1>1 DEF vars, ledger, pipeline, session, MarketInv, TypeOK
  <2> QED
    BY <2>1, AggregatesStay DEF MarketInv, TypeOK, MemoryInv, EmittedInv
<1> QED
  BY <1>1, MinuteKeeps, AggregateKeeps, SessionKeeps, OutsideKeeps, StartKeeps DEF Next

\* What ties memory, ledger and aggregates together between any two steps, for
\* any number of restarts and failed writes.
THEOREM MarketInvariant == Spec => []MarketInv
<1> QED
  BY MarketInit, MarketStep, PTL DEF Spec

\* Every aggregate in the ledger is made of all the minutes of its bucket, and
\* no bucket has two (market_data.py, _aggregate_if_complete).
THEOREM AggregatesCorrect == Spec => []AggregateIsComplete
<1>1. MarketInv => AggregateIsComplete
  BY DEF MarketInv, AggregatesInv, AggregateOK, AggregateIsComplete
<1> QED
  BY <1>1, MarketInvariant, PTL

\* Memory is ahead of the ledger only behind an open write circuit (on_bar).
THEOREM MemoryCorrect == Spec => []MemoryIsLedger
<1>1. MarketInv => MemoryIsLedger
  BY DEF MarketInv, MemoryInv, MemoryIsLedger
<1> QED
  BY <1>1, MarketInvariant, PTL

----------------------------------------------------------------------------
(***************************************************************************)
(* The entries                                                             *)
(***************************************************************************)

\* When a bar was available at its very end and is still fresh, no later bar
\* of its symbol is available.
LEMMA NoLaterBar ==
    ASSUME MarketInv, StaleAfter < Width, NEW a \in aggregates, NEW c \in aggregates,
           NEW time \in Nat, a.symbol = c.symbol, a.at = a.start + Width,
           time <= a.at + StaleAfter, c.at <= time
    PROVE  c.start <= a.start
<1>1. /\ Width \in Nat /\ StaleAfter \in Nat /\ a.start \in Nat /\ c.start \in Nat
      /\ a.at \in Nat /\ c.at \in Nat
  BY MarketDataAssumption DEF MarketInv, TypeOK, MinuteBars
<1>2. c.start + Width <= c.at
  BY DEF MarketInv, AggregatesInv, AggregateOK
<1>3. a.start < c.start => a.start + Width <= c.start
  BY BucketsApart DEF MarketInv
<1> QED
  BY <1>1, <1>2, <1>3

\* The entries so far, and the strategies' bars, stay what they were while
\* aggregates are only added.
LEMMA EntriesStay ==
    ASSUME EntryInv, aggregates \subseteq aggregates', entered' \subseteq entered
    PROVE  \A e \in entered' : EntryOK(e)'
BY DEF EntryInv, EntryOK

\* The bar that is judged is the last one the strategy knows, if it is entered
\* on: a later one would have come while this one was fresh.
LEMMA JudgeKeeps ==
    ASSUME MarketInv, EntryInv, StaleAfter < Width, Judge
    PROVE  EntryInv'
<1>1. /\ phase.op = "judge" /\ UNCHANGED <<now, aggregates>>
      /\ phase \in [op : {"judge"}, observed : Nat, todo : SUBSET MinuteBars]
      /\ aggregates \in SUBSET MinuteBars
  BY DEF Judge, ledger, MarketInv, TypeOK, Phases
<1> DEFINE known(a) == {c \in history' : c.symbol = a.symbol}
           last(a) == CHOOSE c \in known(a) : \A d \in known(a) : d.start <= c.start
<1>2. PICK a \in phase.todo :
         /\ history' = history \cup {a}
         /\ \/ phase' = [op |-> "raised"] /\ UNCHANGED <<pending, entered>>
            \/ /\ ~IsRefused(known(a))
               /\ phase' = [phase EXCEPT !.todo = @ \ {a}]
               /\ pending' = pending \ {a}
               /\ entered' = entered \cup
                     {[bar |-> b, judged |-> last(a), time |-> phase.observed] :
                         b \in {c \in {a} : IsFresh(c, phase.observed)}}
  BY DEF Judge
<1>3. /\ a \in aggregates /\ a.at <= phase.observed /\ phase.observed <= now
      /\ \A c \in history : c \in aggregates /\ c.at <= phase.observed
      /\ \A c \in phase.todo : c \in aggregates /\ c.at <= phase.observed
      /\ pending \subseteq aggregates
  BY <1>1 DEF EntryInv, SessionInv
<1>4. CASE phase' = [op |-> "raised"] /\ UNCHANGED <<pending, entered>>
  BY <1>1, <1>2, <1>3, <1>4 DEF EntryInv, SessionInv, EntryOK
<1>5. CASE /\ ~IsRefused(known(a))
           /\ phase' = [phase EXCEPT !.todo = @ \ {a}]
           /\ pending' = pending \ {a}
           /\ entered' = entered \cup
                 {[bar |-> b, judged |-> last(a), time |-> phase.observed] :
                     b \in {c \in {a} : IsFresh(c, phase.observed)}}
  <2>1. /\ phase'.op = "judge" /\ phase'.observed = phase.observed
        /\ phase'.todo = phase.todo \ {a}
    BY <1>1, <1>5
  <2>2. SessionInv'
    BY <1>1, <1>2, <1>3, <1>5, <2>1 DEF SessionInv
  <2>3. ASSUME NEW e \in entered' \ entered
        PROVE  EntryOK(e)'
    <3>1. /\ e = [bar |-> a, judged |-> last(a), time |-> phase.observed]
          /\ IsFresh(a, phase.observed)
      BY <1>5
    <3>2. /\ a.at \in Nat /\ a.start \in Nat /\ phase.observed \in Nat
          /\ StaleAfter \in Nat
      BY <1>1, <1>3, MarketDataAssumption DEF MinuteBars
    <3>3. a.at = a.start + Width /\ phase.observed <= a.at + StaleAfter
      BY <1>2, <1>5, <3>1, <3>2 DEF IsRefused, IsFresh
    <3>4. \A c \in known(a) : c \in aggregates /\ c.at <= phase.observed /\ c.symbol = a.symbol
      BY <1>2, <1>3
    <3>5. \A c \in known(a) : c.start <= a.start
      BY <1>3, <3>2, <3>3, <3>4, NoLaterBar
    <3>6. \A c \in known(a) : c.start = a.start => c = a
      BY <1>3, <3>4 DEF MarketInv, AggregatesInv, AggregateOK
    <3>7. a \in known(a)
      BY <1>2
    <3>8. \A c \in known(a) : (\A d \in known(a) : d.start <= c.start) => c = a
      <4>1. \A c \in known(a) : c.start \in Nat
        BY <1>1, <3>4 DEF MinuteBars
      <4> QED
        BY <3>2, <3>5, <3>6, <3>7, <4>1
    <3> HIDE DEF known
    <3>9. last(a) = a
      BY <3>5, <3>7, <3>8
    <3> HIDE DEF last
    <3> QED
      BY <1>1, <1>3, <3>1, <3>2, <3>3, <3>9 DEF EntryOK
  <2>4. ASSUME NEW e \in entered PROVE EntryOK(e)'
    BY <1>1 DEF EntryInv, EntryOK
  <2> QED
    BY <2>2, <2>3, <2>4 DEF EntryInv
<1> QED
  BY <1>2, <1>4, <1>5

\* No strategy knows a bar at first.
LEMMA EntryInit == Init => EntryInv
BY DEF Init, EntryInv, SessionInv, Stopped

\* Every step keeps what the entries rest on.
LEMMA EntryStep ==
    ASSUME MarketInv, EntryInv, StaleAfter < Width, [Next]_vars
    PROVE  EntryInv'
<1>1. now \in Nat /\ aggregates \in SUBSET MinuteBars
      /\ \A a \in aggregates : a.at \in Nat /\ a.at <= now
  BY DEF MarketInv, TypeOK, AggregatesInv, AggregateOK, MinuteBars
<1>2. ASSUME NEW sym \in Symbols, NEW start \in 0..(Minutes - 1),
             Duplicate(sym, start) \/ TooLate(sym, start) \/ Minute(sym, start)
      PROVE  EntryInv'
  <2>1. UNCHANGED <<now, aggregates, session>>
    BY <1>2 DEF Duplicate, TooLate, Minute, ledger
  <2>2. \/ phase' = phase \/ phase' = Waiting
        \/ phase' = [op |-> "session", observed |-> now, fresh |-> {}]
        \/ phase' = [op |-> "aggregate", observed |-> now, bar |-> Bar(sym, start, now)]
    BY <1>2 DEF Duplicate, TooLate, Minute, Fail
  <2>3. SessionInv'
    BY <1>1, <2>1, <2>2 DEF EntryInv, SessionInv, session, Waiting
  <2> QED
    BY <2>1, <2>3, EntriesStay DEF EntryInv, session
<1>3. CASE Aggregate
  <2>1. /\ phase.op = "aggregate" /\ UNCHANGED <<now, session>>
        /\ aggregates \subseteq aggregates'
    BY <1>3 DEF Aggregate
  <2>2. \/ phase' = Waiting
        \/ \E new : /\ phase' = [op |-> "session", observed |-> phase.observed, fresh |-> new]
                    /\ new \subseteq aggregates'
    BY <1>3 DEF Aggregate, Fail
  <2>3. SessionInv'
    BY <1>1, <2>1, <2>2 DEF EntryInv, SessionInv, session, Waiting
  <2> QED
    BY <2>1, <2>3, EntriesStay DEF EntryInv, session
<1>4. CASE Session
  <2>1. /\ phase.op = "session" /\ UNCHANGED <<now, aggregates, history, entered>>
        /\ aggregates \in SUBSET MinuteBars
    BY <1>1, <1>4 DEF Session, ledger
  <2>2. CASE phase' = Waiting /\ UNCHANGED pending
    <3>1. SessionInv'
      BY <2>1, <2>2 DEF EntryInv, SessionInv, Waiting
    <3> QED
      BY <2>1, <3>1, EntriesStay DEF EntryInv
  <2>3. CASE /\ pending' = pending \cup phase.fresh
             /\ phase' = [op |-> "judge", observed |-> phase.observed,
                          todo |-> {a \in pending \cup phase.fresh : Eligible(a, phase.observed)}]
    <3>1. phase \in [op : {"session"}, observed : Nat, fresh : SUBSET MinuteBars]
      BY <2>1 DEF MarketInv, TypeOK, Phases
    <3>2. \A a \in pending \cup phase.fresh :
             /\ a \in aggregates
             /\ Eligible(a, phase.observed) => a.at <= phase.observed
      BY <1>1, <2>1, <3>1 DEF EntryInv, SessionInv, Eligible
    <3>3. SessionInv'
      BY <2>1, <2>3, <3>2 DEF EntryInv, SessionInv
    <3> QED
      BY <2>1, <3>3, EntriesStay DEF EntryInv
  <2> QED
    BY <1>4, <2>2, <2>3 DEF Session
<1>5. CASE Judge
  BY <1>5, JudgeKeeps
<1>6. CASE Return
  <2>1. UNCHANGED <<now, aggregates, session>> /\ phase' = Waiting
    BY <1>6 DEF Return, ledger
  <2>2. SessionInv'
    BY <2>1 DEF EntryInv, SessionInv, session, Waiting
  <2> QED
    BY <2>1, <2>2, EntriesStay DEF EntryInv, session
<1>7. CASE Tick \/ Crash
  <2>1. /\ UNCHANGED <<aggregates, session>> /\ now <= now' /\ now' \in Nat
        /\ phase' \in {phase, Stopped}
    BY <1>1, <1>7 DEF Tick, Crash, ledger
  <2>2. phase.op \in {"aggregate", "session", "judge"} => phase.observed \in Nat
    BY DEF MarketInv, TypeOK, Phases
  <2>3. SessionInv'
    BY <1>1, <2>1, <2>2 DEF EntryInv, SessionInv, session, Stopped
  <2> QED
    BY <2>1, <2>3, EntriesStay DEF EntryInv, session
<1>8. CASE Start
  <2>1. /\ UNCHANGED <<now, aggregates>> /\ phase' = Waiting
        /\ pending' = aggregates /\ history' = aggregates /\ entered' = {}
    BY <1>8 DEF Start, ledger
  <2> QED
    BY <2>1 DEF EntryInv, SessionInv, Waiting
<1>9. CASE UNCHANGED vars
  BY <1>9, EntriesStay DEF vars, ledger, session, EntryInv, SessionInv
<1> QED
  BY <1>2, <1>3, <1>4, <1>5, <1>6, <1>7, <1>8, <1>9 DEF Next

\* When a bar stays fresh for less than a bucket (2 minutes of 15), an entry is
\* decided on the bar it is recorded for, and before a later one is available,
\* although restarts judge the bars of the day again and the rule looks at the
\* last bar only (process_bars).
THEOREM EntriesCorrect ==
    ASSUME StaleAfter < Width
    PROVE  Spec => []EntryUsesItsBar
<1>1. Init => EntryInv
  BY EntryInit
<1>2. MarketInv /\ EntryInv /\ [Next]_vars => EntryInv'
  BY EntryStep
<1>3. MarketInv /\ EntryInv => EntryUsesItsBar
  <2> SUFFICES ASSUME MarketInv, EntryInv, NEW e \in entered, NEW a \in aggregates,
                      a.symbol = e.bar.symbol, a.at <= e.time
               PROVE  e.judged = e.bar /\ a.start <= e.bar.start
    BY DEF EntryUsesItsBar, EntryInv, EntryOK
  <2>1. EntryOK(e)
    BY DEF EntryInv
  <2> QED
    BY <2>1, NoLaterBar DEF EntryOK
<1> QED
  BY <1>1, <1>2, <1>3, MarketInvariant, PTL DEF Spec

=============================================================================
