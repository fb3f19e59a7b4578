--------------------------- MODULE RegistryProofs ---------------------------
(***************************************************************************)
(* Proofs about RegistryLedger and Registry, for any strategies, requests, *)
(* capacities and callers: the invariants of the ledger, and that the      *)
(* registry with its lock implements it.                                   *)
(***************************************************************************)
EXTENDS Registry, FiniteSetTheorems, TLAPS

\* What holds of the three tables after every operation.
LedgerInv ==
    /\ LedgerTypeOK
    /\ CapacityHolds
    /\ RowsFollowEvents
    /\ HistoryIsAPath
    /\ OneEventPerKey
    /\ ShadowIsValidated

----------------------------------------------------------------------------
(***************************************************************************)
(* The ledger                                                              *)
(***************************************************************************)

\* What Write does to the events and the rows.
LEMMA WriteFacts ==
    ASSUME LedgerTypeOK, NEW r \in Requests, NEW from \in States, Write(r, from)
    PROVE  /\ events' \in Seq(Events)
           /\ rows' \in [Strategies -> Rows]
           /\ Len(events) \in Nat
           /\ Len(events') = Len(events) + 1
           /\ \A i \in 1..Len(events) : events'[i] = events[i]
           /\ events'[Len(events) + 1] = [request |-> r, from |-> from]
           /\ \A s \in Strategies : s # r.strategy => rows'[s] = rows[s]
           /\ r.strategy \in Strategies
           /\ rows'[r.strategy] = [state |-> r.to, last |-> Len(events) + 1]
<1>1. r.strategy \in Strategies /\ r.to \in States
  BY LifecycleAssumption DEF States
<1>2. [request |-> r, from |-> from] \in Events
  BY DEF Events
<1>3. [state |-> r.to, last |-> Len(events) + 1] \in Rows
  BY <1>1 DEF Rows, LedgerTypeOK
<1>4. events' = Append(events, [request |-> r, from |-> from])
  BY DEF Write
<1>5. rows' = [rows EXCEPT ![r.strategy] = [state |-> r.to, last |-> Len(events) + 1]]
  BY DEF Write
<1>6. events \in Seq(Events)
  BY DEF LedgerTypeOK
<1>7. /\ events' \in Seq(Events)
      /\ Len(events) \in Nat
      /\ Len(events') = Len(events) + 1
      /\ \A i \in 1..Len(events) : events'[i] = events[i]
      /\ events'[Len(events) + 1] = [request |-> r, from |-> from]
  BY <1>2, <1>4, <1>6
<1>8. /\ rows' \in [Strategies -> Rows]
      /\ \A s \in Strategies : s # r.strategy => rows'[s] = rows[s]
      /\ rows'[r.strategy] = [state |-> r.to, last |-> Len(events) + 1]
  BY <1>1, <1>3, <1>5 DEF LedgerTypeOK
<1> QED
  BY <1>1, <1>7, <1>8

\* A write respects the capacities when its target has room for one more.
LEMMA CapacityWritten ==
    ASSUME LedgerTypeOK, CapacityHolds,
           NEW r \in Requests, NEW from \in States, Write(r, from),
           r.to \in DOMAIN Capacity => Cardinality(Occupants(rows, r.to)) < Capacity[r.to]
    PROVE  CapacityHolds'
<1> SUFFICES ASSUME NEW st \in DOMAIN Capacity
             PROVE  Cardinality(Occupants(rows', st)) <= Capacity[st]
  BY DEF CapacityHolds
<1>1. /\ IsFiniteSet(Occupants(rows, st))
      /\ Cardinality(Occupants(rows, st)) \in Nat
  <2>1. Occupants(rows, st) \subseteq Strategies
    BY DEF Occupants
  <2> QED
    BY <2>1, LifecycleAssumption, FS_Subset, FS_CardinalityType
<1>2. Cardinality(Occupants(rows, st)) <= Capacity[st] /\ Capacity[st] \in Nat
  BY LifecycleAssumption DEF CapacityHolds
<1>3. CASE st # r.to
  <2>0. /\ \A s \in Strategies : s # r.strategy => rows'[s] = rows[s]
        /\ rows'[r.strategy] = [state |-> r.to, last |-> Len(events) + 1]
    BY WriteFacts
  <2>1. Occupants(rows', st) \subseteq Occupants(rows, st)
    <3> SUFFICES ASSUME NEW s \in Strategies, rows'[s].state = st
                 PROVE  rows[s].state = st
      BY DEF Occupants
    <3> QED
      BY <1>3, <2>0
  <2>2. /\ IsFiniteSet(Occupants(rows', st))
        /\ Cardinality(Occupants(rows', st)) <= Cardinality(Occupants(rows, st))
    BY <1>1, <2>1, FS_Subset
  <2>3. Cardinality(Occupants(rows', st)) \in Nat
    BY <2>2, FS_CardinalityType
  <2> QED
    BY <1>1, <1>2, <2>2, <2>3
<1>4. CASE st = r.to
  <2>1. Occupants(rows', st) \subseteq Occupants(rows, st) \cup {r.strategy}
    BY WriteFacts DEF Occupants
  <2>2. /\ IsFiniteSet(Occupants(rows, st) \cup {r.strategy})
        /\ Cardinality(Occupants(rows, st) \cup {r.strategy})
             <= Cardinality(Occupants(rows, st)) + 1
    BY <1>1, FS_AddElement
  <2>3. /\ IsFiniteSet(Occupants(rows', st))
        /\ Cardinality(Occupants(rows', st))
             <= Cardinality(Occupants(rows, st) \cup {r.strategy})
    BY <2>1, <2>2, FS_Subset
  <2>4. /\ Cardinality(Occupants(rows', st)) \in Nat
        /\ Cardinality(Occupants(rows, st) \cup {r.strategy}) \in Nat
    BY <2>2, <2>3, FS_CardinalityType
  <2> QED
    BY <1>1, <1>2, <1>4, <2>2, <2>3, <2>4
<1> QED
  BY <1>3, <1>4

\* A write by an unused key that starts where the strategy is now, and either
\* registers it or takes an allowed and validated transition, keeps the rest.
LEMMA HistoryWritten ==
    ASSUME LedgerInv, NEW r \in Requests, ~KeyTaken(r), r.op # "decide",
           Write(r, rows[r.strategy].state), UNCHANGED decisions,
           IF rows[r.strategy].state = Absent
           THEN r.op = "register"
           ELSE r.to \in AllowedTransitions[rows[r.strategy].state],
           r.to \in ValidationPromotionStates => PassingDecision(decisions, r)
    PROVE  /\ LedgerTypeOK'
           /\ RowsFollowEvents'
           /\ HistoryIsAPath'
           /\ OneEventPerKey'
           /\ ShadowIsValidated'
<1> DEFINE from == rows[r.strategy].state
<1> DEFINE n == Len(events)
<1>1. r.strategy \in Strategies /\ from \in States
  BY LifecycleAssumption DEF LedgerInv, LedgerTypeOK, Rows
<1>2. /\ events' \in Seq(Events)
      /\ rows' \in [Strategies -> Rows]
      /\ n \in Nat
      /\ Len(events') = n + 1
      /\ \A i \in 1..n : events'[i] = events[i]
      /\ events'[n + 1] = [request |-> r, from |-> from]
      /\ \A s \in Strategies : s # r.strategy => rows'[s] = rows[s]
      /\ rows'[r.strategy] = [state |-> r.to, last |-> n + 1]
  BY <1>1, WriteFacts DEF LedgerInv
<1>3. \A i \in 1..(n + 1) : i \in 1..n \/ i = n + 1
  BY <1>2
<1>4. \A i \in 1..n : events[i].request.key # r.key
  BY <1>2 DEF KeyTaken, LedgerInv, LedgerTypeOK
<1>5. r.to # Absent
  BY LifecycleAssumption DEF KnownStates, Absent
<1> HIDE DEF from, n
<1>6. LedgerTypeOK'
  BY <1>2 DEF LedgerTypeOK, LedgerInv
<1>7. RowsFollowEvents'
  <2> SUFFICES ASSUME NEW s \in Strategies
               PROVE  /\ rows'[s].last \in 0..Len(events')
                      /\ rows'[s].last = 0 => rows'[s].state = Absent
                      /\ rows'[s].last > 0 =>
                            /\ events'[rows'[s].last].request.strategy = s
                            /\ events'[rows'[s].last].request.to = rows'[s].state
                      /\ \A i \in (rows'[s].last + 1)..Len(events') :
                            events'[i].request.strategy # s
    BY DEF RowsFollowEvents
  <2>1. CASE s = r.strategy
    BY <1>2, <2>1
  <2>2. CASE s # r.strategy
    <3>1. rows'[s] = rows[s]
      BY <1>2, <2>2
    <3>2. /\ rows[s].last \in 0..n
          /\ rows[s].last = 0 => rows[s].state = Absent
          /\ rows[s].last > 0 => /\ events[rows[s].last].request.strategy = s
                                 /\ events[rows[s].last].request.to = rows[s].state
          /\ \A i \in (rows[s].last + 1)..n : events[i].request.strategy # s
      BY DEF RowsFollowEvents, LedgerInv, n
    <3> QED
      BY <1>2, <1>3, <2>2, <3>1, <3>2
  <2> QED
    BY <2>1, <2>2
<1>8. HistoryIsAPath'
  <2> SUFFICES ASSUME NEW i \in 1..(n + 1)
               PROVE
        /\ \A j \in 1..(i - 1) :
              /\ events'[j].request.strategy = events'[i].request.strategy
              /\ \A k \in (j + 1)..(i - 1) :
                    events'[k].request.strategy # events'[i].request.strategy
              => events'[i].from = events'[j].request.to
        /\ IF events'[i].from = Absent
           THEN /\ events'[i].request.op = "register"
                /\ \A j \in 1..(i - 1) :
                      events'[j].request.strategy # events'[i].request.strategy
           ELSE /\ events'[i].from \in KnownStates
                /\ events'[i].request.to \in AllowedTransitions[events'[i].from]
    BY <1>2 DEF HistoryIsAPath
  <2>1. CASE i \in 1..n
    <3>1. \A j \in 1..i : events'[j] = events[j]
      BY <1>2, <2>1
    <3>2. /\ \A j \in 1..(i - 1) :
                /\ events[j].request.strategy = events[i].request.strategy
                /\ \A k \in (j + 1)..(i - 1) :
                      events[k].request.strategy # events[i].request.strategy
                => events[i].from = events[j].request.to
          /\ IF events[i].from = Absent
             THEN /\ events[i].request.op = "register"
                  /\ \A j \in 1..(i - 1) :
                        events[j].request.strategy # events[i].request.strategy
             ELSE /\ events[i].from \in KnownStates
                  /\ events[i].request.to \in AllowedTransitions[events[i].from]
      BY <2>1 DEF HistoryIsAPath, LedgerInv, n
    <3> QED
      BY <1>2, <2>1, <3>1, <3>2
  <2>2. CASE i = n + 1
    <3> DEFINE s == r.strategy
    <3>1. /\ rows[s].last \in 0..n
          /\ rows[s].last = 0 => from = Absent
          /\ rows[s].last > 0 => /\ events[rows[s].last].request.strategy = s
                                 /\ events[rows[s].last].request.to = from
          /\ \A j \in (rows[s].last + 1)..n : events[j].request.strategy # s
      BY <1>1 DEF RowsFollowEvents, LedgerInv, n, from
    <3>2. events'[i].request = r /\ events'[i].from = from
      BY <1>2, <2>2
    <3>3. ASSUME NEW j \in 1..n, events[j].request.strategy = s,
                 \A k \in (j + 1)..n : events[k].request.strategy # s
          PROVE  from = events[j].request.to
      <4>1. j = rows[s].last
        BY <1>2, <3>1, <3>3
      <4> QED
        BY <3>1, <4>1
    <3>4. ASSUME from = Absent, NEW j \in 1..n
          PROVE  events[j].request.strategy # s
      <4>1. \A e \in Events : e.request.to # Absent
        BY LifecycleAssumption DEF Events, KnownStates, Absent
      <4>2. rows[s].last = 0
        <5>1. SUFFICES ASSUME rows[s].last > 0 PROVE FALSE
          BY <3>1, <1>2
        <5>2. events[rows[s].last] \in Events
          BY <3>1, <5>1, <1>2 DEF LedgerInv, LedgerTypeOK, n
        <5> QED
          BY <3>1, <3>4, <4>1, <5>1, <5>2
      <4> QED
        BY <3>1, <4>2, <1>2
    <3>5. from # Absent => from \in KnownStates
      BY <1>1 DEF States
    <3>6. IF from = Absent THEN r.op = "register" ELSE r.to \in AllowedTransitions[from]
      BY DEF from
    <3>7. i - 1 = n /\ \A j \in 1..n : events'[j] = events[j]
      BY <1>2, <2>2
    <3> QED
      BY <1>2, <2>2, <3>2, <3>3, <3>4, <3>5, <3>6, <3>7
  <2> QED
    BY <1>3, <2>1, <2>2
<1>9. OneEventPerKey'
  <2> SUFFICES ASSUME NEW i \in 1..(n + 1), NEW j \in 1..(n + 1),
                      events'[i].request.key = events'[j].request.key
               PROVE  i = j
    BY <1>2 DEF OneEventPerKey
  <2>1. \A k, l \in 1..n : events[k].request.key = events[l].request.key => k = l
    BY DEF OneEventPerKey, LedgerInv, n
  <2> QED
    BY <1>2, <1>3, <1>4, <2>1
<1>10. ShadowIsValidated'
  <2> SUFFICES ASSUME NEW i \in 1..(n + 1),
                      events'[i].request.to \in ValidationPromotionStates
               PROVE  PassingDecision(decisions, events'[i].request)
    BY <1>2 DEF ShadowIsValidated
  <2>1. \A k \in 1..n : events[k].request.to \in ValidationPromotionStates =>
                            PassingDecision(decisions, events[k].request)
    BY DEF ShadowIsValidated, LedgerInv, n
  <2> QED
    BY <1>2, <1>3, <2>1
<1> QED
  BY <1>6, <1>7, <1>8, <1>9, <1>10

LEMMA LedgerInit_Inv == LedgerInit => LedgerInv
<1> SUFFICES ASSUME LedgerInit PROVE LedgerInv
  OBVIOUS
<1>1. LedgerTypeOK
  BY DEF LedgerInit, LedgerTypeOK, Rows, States
<1>2. CapacityHolds
  <2> SUFFICES ASSUME NEW st \in DOMAIN Capacity
               PROVE  Cardinality(Occupants(rows, st)) <= Capacity[st]
    BY DEF CapacityHolds
  <2>1. Occupants(rows, st) = {}
    BY LifecycleAssumption DEF LedgerInit, Occupants, KnownStates, Absent
  <2> QED
    BY <2>1, LifecycleAssumption, FS_EmptySet
<1>3. RowsFollowEvents
  BY DEF LedgerInit, RowsFollowEvents
<1> QED
  BY <1>1, <1>2, <1>3
     DEF LedgerInit, LedgerInv, HistoryIsAPath, OneEventPerKey, ShadowIsValidated

LEMMA LedgerStep == LedgerInv /\ [LedgerNext]_ledgerVars => LedgerInv'
<1> SUFFICES ASSUME LedgerInv, [LedgerNext]_ledgerVars PROVE LedgerInv'
  OBVIOUS
<1>1. CASE UNCHANGED ledgerVars
  BY <1>1 DEF ledgerVars, LedgerInv, LedgerTypeOK, CapacityHolds, RowsFollowEvents,
              HistoryIsAPath, OneEventPerKey, ShadowIsValidated
<1>2. ASSUME NEW r \in Requests, Register(r) PROVE LedgerInv'
  <2>1. r.to = "generated"
    BY <1>2, LifecycleAssumption DEF Register
  <2>2. /\ r.to \notin ValidationPromotionStates
        /\ r.to \notin DOMAIN Capacity
    BY <2>1, LifecycleAssumption DEF ValidationPromotionStates
  <2>3. /\ ~KeyTaken(r)
        /\ r.op = "register"
        /\ rows[r.strategy].state = Absent
        /\ Write(r, rows[r.strategy].state)
        /\ UNCHANGED decisions
        /\ Absent \in States
    BY <1>2 DEF Register, States
  <2>4. CapacityHolds'
    BY <2>2, <2>3, CapacityWritten DEF LedgerInv
  <2>5. /\ LedgerTypeOK' /\ RowsFollowEvents' /\ HistoryIsAPath'
        /\ OneEventPerKey' /\ ShadowIsValidated'
    BY <2>2, <2>3, HistoryWritten
  <2> QED
    BY <2>4, <2>5 DEF LedgerInv
<1>3. ASSUME NEW r \in Requests, Transition(r) PROVE LedgerInv'
  <2>1. /\ ~KeyTaken(r)
        /\ r.op = "transition"
        /\ rows[r.strategy].state \in KnownStates
        /\ r.to \in AllowedTransitions[rows[r.strategy].state]
        /\ r.to \in ValidationPromotionStates => PassingDecision(decisions, r)
        /\ r.to \in DOMAIN Capacity => Cardinality(Occupants(rows, r.to)) < Capacity[r.to]
        /\ Write(r, rows[r.strategy].state)
        /\ UNCHANGED decisions
    BY <1>3 DEF Transition, MayMove
  <2>2. rows[r.strategy].state \in States /\ rows[r.strategy].state # Absent
    BY <2>1 DEF States, KnownStates, Absent
  <2>3. CapacityHolds'
    BY <2>1, <2>2, CapacityWritten DEF LedgerInv
  <2>4. /\ LedgerTypeOK' /\ RowsFollowEvents' /\ HistoryIsAPath'
        /\ OneEventPerKey' /\ ShadowIsValidated'
    BY <2>1, <2>2, HistoryWritten
  <2> QED
    BY <2>3, <2>4 DEF LedgerInv
<1>4. ASSUME NEW r \in Requests, Decide(r) PROVE LedgerInv'
  <2>1. UNCHANGED <<events, rows>> /\ decisions' = decisions \cup {r}
    BY <1>4 DEF Decide
  <2>2. ShadowIsValidated'
    BY <2>1 DEF LedgerInv, ShadowIsValidated, PassingDecision
  <2>3. LedgerTypeOK'
    BY <2>1 DEF LedgerInv, LedgerTypeOK
  <2>4. CapacityHolds' /\ RowsFollowEvents'
    BY <2>1 DEF LedgerInv, CapacityHolds, RowsFollowEvents
  <2>5. HistoryIsAPath'
    BY <2>1 DEF LedgerInv, HistoryIsAPath
  <2>6. OneEventPerKey'
    BY <2>1 DEF LedgerInv, OneEventPerKey
  <2> QED
    BY <2>2, <2>3, <2>4, <2>5, <2>6 DEF LedgerInv
<1> QED
  BY <1>1, <1>2, <1>3, <1>4 DEF LedgerNext

\* The tables keep their history, their rows, their keys, their capacities and
\* their validations through any sequence of operations.
THEOREM LedgerInvariant == LedgerSpec => []LedgerInv
<1> QED
  BY LedgerInit_Inv, LedgerStep, PTL DEF LedgerSpec

----------------------------------------------------------------------------
(***************************************************************************)
(* The registry                                                            *)
(***************************************************************************)

\* What the lock protects: while a transaction is open its caller holds the
\* lock, so what the transaction has checked stays true.
RegistryInv == LedgerInv /\ TypeOK /\ ChecksStayTrue

LEMMA NoCallIsNoRequest == \A r \in Requests : r # NoCall
  BY LifecycleAssumption DEF NoCall

LEMMA RegistryInit == Init => RegistryInv
<1> SUFFICES ASSUME Init PROVE RegistryInv
  OBVIOUS
<1>1. LedgerInv
  BY LedgerInit_Inv DEF Init
<1>2. TypeOK
  BY <1>1 DEF Init, TypeOK, Phases, Answers, States, LedgerInv
<1> QED
  BY <1>1, <1>2 DEF Init, RegistryInv, ChecksStayTrue, InTransaction

\* A commit does to the tables what its operation does to the ledger.
LEMMA CommitImplements ==
    ASSUME RegistryInv, NEW c \in Callers, Commit(c)
    PROVE  LedgerNext
<1> DEFINE r == call[c]
<1>1. /\ r \in Requests
      /\ ~KeyTaken(r)
      /\ Accepted(c)
      /\ seen[c] = rows[r.strategy].state
      /\ phase[c] = "commit"
  BY DEF RegistryInv, TypeOK, ChecksStayTrue, Commit, StateOf
<1>2. r.op \in {"register", "transition", "decide"}
  BY <1>1, LifecycleAssumption
<1>3. CASE r.op = "register"
  BY <1>1, <1>3 DEF Commit, Accepted, StateOf, LedgerNext, Register
<1>4. CASE r.op = "transition"
  BY <1>1, <1>4 DEF Commit, Accepted, StateOf, LedgerNext, Transition
<1>5. CASE r.op = "decide"
  BY <1>1, <1>5 DEF Commit, Accepted, StateOf, LedgerNext, Decide
<1> QED
  BY <1>2, <1>3, <1>4, <1>5

\* Every other step leaves the tables alone.
LEMMA StepImplements == RegistryInv /\ [Next]_vars => [LedgerNext]_ledgerVars
<1> SUFFICES ASSUME RegistryInv, [Next]_vars PROVE [LedgerNext]_ledgerVars
  OBVIOUS
<1>1. CASE UNCHANGED vars
  BY <1>1 DEF vars
<1>2. ASSUME NEW c \in Callers, Call(c) \/ Step(c) \/ Crash(c)
      PROVE  [LedgerNext]_ledgerVars
  <2>1. CASE Commit(c)
    BY <2>1, CommitImplements
  <2>2. CASE Call(c) \/ Begin(c) \/ BusyTimeout(c) \/ LookUp(c) \/ Gates(c)
             \/ Refuse(c) \/ Return(c) \/ Crash(c)
    BY <2>2 DEF Call, Begin, BusyTimeout, LookUp, Gates, Refuse, Return, Crash, End
  <2> QED
    BY <1>2, <2>1, <2>2 DEF Step
<1> QED
  BY <1>1, <1>2 DEF Next

\* The end of a call leaves the other callers' transactions as they were.
LEMMA EndKeepsInv ==
    ASSUME RegistryInv, NEW c \in Callers, NEW a \in Answers, End(c, a)
    PROVE  RegistryInv'
<1>1. UNCHANGED ledgerVars
  BY DEF End
<1>2. LedgerInv'
  BY <1>1, LedgerStep DEF RegistryInv
<1>3. /\ lock' = IF lock = c THEN Nobody ELSE lock
      /\ phase' = [phase EXCEPT ![c] = "idle"]
      /\ call' = [call EXCEPT ![c] = NoCall]
      /\ seen' = [seen EXCEPT ![c] = Absent]
      /\ answer' = [answer EXCEPT ![c] = a]
  BY DEF End, Release, Goto
<1>4. TypeOK'
  BY <1>2, <1>3 DEF RegistryInv, TypeOK, LedgerInv, Phases, States
<1>5. ChecksStayTrue'
  <2> SUFFICES ASSUME NEW d \in Callers
               PROVE  /\ phase'[d] \in InTransaction => lock' = d
                      /\ phase'[d] \in {"gates", "commit"} => ~KeyTaken(call[d])'
                      /\ phase'[d] = "commit" => Accepted(d)' /\ seen'[d] = StateOf(d)'
    BY DEF ChecksStayTrue
  <2>1. CASE d = c
    BY <1>3, <2>1 DEF RegistryInv, TypeOK, InTransaction
  <2>2. CASE d # c
    <3>1. /\ phase'[d] = phase[d] /\ call'[d] = call[d] /\ seen'[d] = seen[d]
          /\ lock = d => lock' = d
      BY <1>3, <2>2 DEF RegistryInv, TypeOK
    <3>2. /\ KeyTaken(call[d])' = KeyTaken(call[d])
          /\ Accepted(d)' = Accepted(d)
          /\ StateOf(d)' = StateOf(d)
      BY <1>1, <3>1 DEF ledgerVars, KeyTaken, Accepted, StateOf, MayMove, PassingDecision
    <3> QED
      BY <3>1, <3>2 DEF RegistryInv, ChecksStayTrue
  <2> QED
    BY <2>1, <2>2
<1> QED
  BY <1>2, <1>4, <1>5 DEF RegistryInv

\* A step of one caller that leaves the tables alone keeps the checks of the
\* other callers.
LEMMA OthersKeepChecks ==
    ASSUME RegistryInv, NEW c \in Callers, UNCHANGED ledgerVars,
           NEW d \in Callers, d # c,
           phase'[d] = phase[d], call'[d] = call[d], seen'[d] = seen[d],
           lock = d => lock' = d
    PROVE  /\ phase'[d] \in InTransaction => lock' = d
           /\ phase'[d] \in {"gates", "commit"} => ~KeyTaken(call[d])'
           /\ phase'[d] = "commit" => Accepted(d)' /\ seen'[d] = StateOf(d)'
<1>1. /\ KeyTaken(call[d])' = KeyTaken(call[d])
      /\ Accepted(d)' = Accepted(d)
      /\ StateOf(d)' = StateOf(d)
  BY DEF ledgerVars, KeyTaken, Accepted, StateOf, MayMove, PassingDecision
<1> QED
  BY <1>1 DEF RegistryInv, ChecksStayTrue

\* Every step keeps the checks of every open transaction.
LEMMA RegistryStep == RegistryInv /\ [Next]_vars => RegistryInv'
<1> SUFFICES ASSUME RegistryInv, [Next]_vars PROVE RegistryInv'
  OBVIOUS
<1>1. LedgerInv'
  BY StepImplements, LedgerStep DEF RegistryInv
<1>2. LedgerTypeOK'
  BY <1>1 DEF LedgerInv
<1>3. CASE UNCHANGED vars
  <2>1. UNCHANGED <<events, rows, decisions, lock, phase, call, seen, answer>>
    BY <1>3 DEF vars, ledgerVars, callVars
  <2>2. TypeOK'
    BY <1>2, <2>1 DEF RegistryInv, TypeOK
  <2>3. ChecksStayTrue'
    BY <2>1 DEF RegistryInv, ChecksStayTrue, KeyTaken, Accepted, StateOf, MayMove,
                PassingDecision
  <2> QED
    BY <1>1, <2>2, <2>3 DEF RegistryInv
<1>4. ASSUME NEW c \in Callers, Call(c) PROVE RegistryInv'
  <2>1. PICK r \in Requests : call' = [call EXCEPT ![c] = r]
    BY <1>4 DEF Call
  <2>2. TypeOK'
    BY <1>2, <1>4, <2>1 DEF Call, Goto, RegistryInv, TypeOK, Phases, Answers
  <2>3. ChecksStayTrue'
    BY <1>4, <2>1, OthersKeepChecks
       DEF Call, Goto, RegistryInv, TypeOK, ChecksStayTrue, InTransaction
  <2> QED
    BY <1>1, <2>2, <2>3 DEF RegistryInv
<1>5. ASSUME NEW c \in Callers, Begin(c) PROVE RegistryInv'
  <2>1. TypeOK'
    BY <1>2, <1>5 DEF Begin, Goto, RegistryInv, TypeOK, Phases
  <2>2. ChecksStayTrue'
    <3>1. \A d \in Callers : lock # d
      BY <1>5, CallersAssumption DEF Begin
    <3> QED
      BY <1>5, <3>1, OthersKeepChecks
         DEF Begin, Goto, RegistryInv, TypeOK, ChecksStayTrue, InTransaction
  <2> QED
    BY <1>1, <2>1, <2>2 DEF RegistryInv
<1>6. ASSUME NEW c \in Callers, BusyTimeout(c) \/ Refuse(c) \/ Return(c) \/ Crash(c)
      PROVE  RegistryInv'
  BY <1>6, EndKeepsInv DEF BusyTimeout, Refuse, Return, Crash, Answers
<1>7. ASSUME NEW c \in Callers, LookUp(c) PROVE RegistryInv'
  <2>1. CASE KeyTaken(call[c])
    BY <1>7, <2>1, EndKeepsInv DEF LookUp, Answers
  <2>2. CASE ~KeyTaken(call[c])
    <3>1. /\ phase[c] = "lookup"
          /\ phase' = [phase EXCEPT ![c] = "gates"]
          /\ UNCHANGED <<ledgerVars, lock, call, seen, answer>>
      BY <1>7, <2>2 DEF LookUp, Goto
    <3>2. TypeOK'
      BY <1>2, <3>1 DEF RegistryInv, TypeOK, Phases
    <3>3. ~KeyTaken(call[c])'
      BY <2>2, <3>1 DEF ledgerVars, KeyTaken
    <3>4. ChecksStayTrue'
      BY <3>1, <3>3, OthersKeepChecks DEF RegistryInv, TypeOK, ChecksStayTrue, InTransaction
    <3> QED
      BY <1>1, <3>2, <3>4 DEF RegistryInv
  <2> QED
    BY <2>1, <2>2
<1>8. ASSUME NEW c \in Callers, Gates(c) PROVE RegistryInv'
  <2>1. /\ phase[c] = "gates"
        /\ Accepted(c)
        /\ seen' = [seen EXCEPT ![c] = StateOf(c)]
        /\ phase' = [phase EXCEPT ![c] = "commit"]
        /\ UNCHANGED <<ledgerVars, lock, call, answer>>
    BY <1>8 DEF Gates, Goto
  <2>2. call[c] \in Requests /\ StateOf(c) \in States
    BY <2>1, LifecycleAssumption
       DEF RegistryInv, TypeOK, LedgerTypeOK, Rows, StateOf
  <2>3. TypeOK'
    BY <1>2, <2>1, <2>2 DEF RegistryInv, TypeOK, Phases
  <2>4. /\ ~KeyTaken(call[c])'
        /\ Accepted(c)'
        /\ seen'[c] = StateOf(c)'
        /\ lock' = c
    BY <2>1, <2>2 DEF RegistryInv, TypeOK, ChecksStayTrue, InTransaction, ledgerVars,
                      KeyTaken, Accepted, StateOf, MayMove, PassingDecision
  <2>5. ChecksStayTrue'
    BY <2>1, <2>4, OthersKeepChecks DEF RegistryInv, TypeOK, ChecksStayTrue, InTransaction
  <2> QED
    BY <1>1, <2>3, <2>5 DEF RegistryInv
<1>9. ASSUME NEW c \in Callers, Commit(c) PROVE RegistryInv'
  <2>1. /\ phase[c] = "commit"
        /\ lock = c
        /\ lock' = Nobody
        /\ phase' = [phase EXCEPT ![c] = "return"]
        /\ UNCHANGED <<call, seen, answer>>
    BY <1>9 DEF Commit, Release, Goto, RegistryInv, ChecksStayTrue, InTransaction
  <2>2. TypeOK'
    BY <1>2, <2>1 DEF RegistryInv, TypeOK, Phases
  <2>3. ChecksStayTrue'
    BY <2>1 DEF RegistryInv, TypeOK, ChecksStayTrue, InTransaction
  <2> QED
    BY <1>1, <2>2, <2>3 DEF RegistryInv
<1> QED
  BY <1>3, <1>4, <1>5, <1>6, <1>7, <1>8, <1>9 DEF Next, Step

----------------------------------------------------------------------------
(***************************************************************************)
(* Theorems of the registry                                                *)
(***************************************************************************)

\* Types, the ledger's invariants and the checks of open transactions hold in
\* every state, for any number of callers and crashes anywhere.
THEOREM RegistryInvariant == Spec => []RegistryInv
<1> QED
  BY RegistryInit, RegistryStep, PTL DEF Spec

\* What any number of callers with one lock do to the three tables is what a
\* single caller could do, one whole operation after the other.
THEOREM RegistryImplementsLedger == Spec => LedgerSpec
<1>1. Init => LedgerInit
  BY DEF Init
<1> QED
  BY <1>1, StepImplements, RegistryInvariant, PTL DEF Spec, LedgerSpec

\* No state ever holds more strategies than its capacity (_transaction and the
\* COUNT of transition_strategy).
THEOREM CapacityCorrect == Spec => []CapacityHolds
<1>1. RegistryInv => CapacityHolds
  BY DEF RegistryInv, LedgerInv
<1> QED
  BY <1>1, RegistryInvariant, PTL

\* CONCURRENT_STATE_TRANSITION and the unique index on the keys are never the
\* reason a transaction fails: what it checked still holds when it commits.
THEOREM ChecksCorrect == Spec => []ChecksStayTrue
<1>1. RegistryInv => ChecksStayTrue
  BY DEF RegistryInv
<1> QED
  BY <1>1, RegistryInvariant, PTL

\* The events of a strategy are a path of allowed transitions from its
\* registration.
THEOREM HistoryCorrect == Spec => []HistoryIsAPath
<1>1. RegistryInv => HistoryIsAPath
  BY DEF RegistryInv, LedgerInv
<1> QED
  BY <1>1, RegistryInvariant, PTL

\* However often a request is repeated, its key makes one event.
THEOREM KeysCorrect == Spec => []OneEventPerKey
<1>1. RegistryInv => OneEventPerKey
  BY DEF RegistryInv, LedgerInv
<1> QED
  BY <1>1, RegistryInvariant, PTL

\* No strategy enters the shadow state without a passing decision of its own.
THEOREM ValidationCorrect == Spec => []ShadowIsValidated
<1>1. RegistryInv => ShadowIsValidated
  BY DEF RegistryInv, LedgerInv
<1> QED
  BY <1>1, RegistryInvariant, PTL

\* A call whose request is in the ledger is not refused, also when the strategy
\* has moved on: the look-up comes before the gates in the same transaction, and
\* no other caller can write in between.
THEOREM RetryCorrect == Spec => CommittedIsNeverRefused
<1> DEFINE NeverRefused ==
              \A c \in Callers :
                  answer'[c] \in {"refused", "conflict"} /\ answer[c] = "none" =>
                      ~InLedger(call[c])
<1>1. RegistryInv /\ [Next]_vars => NeverRefused
  <2> SUFFICES ASSUME RegistryInv, [Next]_vars, NEW c \in Callers,
                      answer'[c] \in {"refused", "conflict"}, answer[c] = "none",
                      InLedger(call[c])
               PROVE  FALSE
    OBVIOUS
  <2>1. answer \in [Callers -> Answers] /\ answer'[c] # answer[c]
    BY DEF RegistryInv, TypeOK
  <2>2. KeyTaken(call[c])
    BY DEF InLedger, KeyTaken
  <2>3. PICK d \in Callers : Call(d) \/ Step(d) \/ Crash(d)
    BY <2>1 DEF Next, vars, callVars
  <2>4. d = c
    BY <2>1, <2>3 DEF Call, Step, Begin, BusyTimeout, LookUp, Gates, Refuse, Commit, Return,
       Crash, End
  <2>5. answer'[c] # "refused" \/ phase[c] = "gates"
    BY <2>1, <2>3, <2>4 DEF Call, Step, Begin, BusyTimeout, LookUp, Gates, Refuse, Commit,
       Return, Crash, End
  <2>6. answer'[c] # "conflict"
    BY <2>1, <2>3, <2>4 DEF Call, Step, Begin, BusyTimeout, LookUp, Gates, Refuse, Commit,
       Return, Crash, End
  <2>7. phase[c] # "gates"
    BY <2>2 DEF RegistryInv, ChecksStayTrue
  <2> QED
    BY <2>5, <2>6, <2>7
<1> QED
  BY <1>1, RegistryInvariant, PTL DEF Spec, CommittedIsNeverRefused

=============================================================================
