--------------------------- MODULE RecoveryProofs ---------------------------
(***************************************************************************)
(* Proofs about Recovery, for any numbers of processes, entries, bars and  *)
(* closeouts: the recovery accepts the checkpoint of a writer that was     *)
(* alone, and resuming from a checkpoint keeps every bar and the last      *)
(* state of every order.                                                   *)
(***************************************************************************)
EXTENDS RecoveryInvariant, FiniteSetTheorems, WellFoundedInduction, TLAPS

----------------------------------------------------------------------------
(***************************************************************************)
(* The fold of Replay                                                      *)
(***************************************************************************)

\* Of the subsets of a finite set in a nonempty collection, one has no proper
\* subset in it.
LEMMA SmallestSubset ==
    ASSUME NEW S, IsFiniteSet(S), NEW T, T \subseteq SUBSET S, T # {}
    PROVE  \E s \in T : \A t \in T : t \subseteq s => t = s
<1>1. FiniteSubsetsOf(S) = SUBSET S
  BY FS_FiniteSubsetsOfFinite
<1>2. IsWellFoundedOn(StrictSubsetOrdering(S), SUBSET S)
  BY <1>1, FS_StrictSubsetOrderingWellFounded
<1>3. PICK s \in T : \A t \in T : ~ (<<t, s>> \in StrictSubsetOrdering(S))
  BY <1>2, WFMin
<1>4. \A t \in T : t \subseteq s => t = s
  BY <1>3 DEF StrictSubsetOrdering
<1> QED
  BY <1>4

\* What holds of 0 and of every successor holds up to n.
LEMMA Upwards ==
    ASSUME NEW n \in Nat, NEW good, 0 \in good,
           \A i \in 1..n : i - 1 \in good => i \in good
    PROVE  \A i \in 0..n : i \in good
<1> DEFINE bad == {i \in 0..n : i \notin good}
           T == {1..i : i \in bad}
<1> SUFFICES ASSUME bad # {} PROVE FALSE
  OBVIOUS
<1>1. T \subseteq SUBSET (1..n) /\ T # {}
  OBVIOUS
<1>2. IsFiniteSet(1..n)
  BY FS_Interval
<1>3. \A i \in bad : i \in Nat /\ i # 0 /\ i \in 1..n /\ i - 1 \in 0..n /\ i \notin good
  OBVIOUS
<1>4. \A j \in 0..n : j \in good \/ j \in bad
  OBVIOUS
<1>5. \A i \in bad : 1..i \in T
  OBVIOUS
<1> HIDE DEF T
<1> DEFINE N == 1..n
<1>6. PICK s \in T : \A t \in T : t \subseteq s => t = s
  <2>1. IsFiniteSet(N) /\ T \subseteq SUBSET N /\ T # {}
    BY <1>1, <1>2
  <2> HIDE DEF N
  <2> QED
    BY <2>1, SmallestSubset
<1>7. PICK i \in bad : s = 1..i
  BY DEF T
<1> HIDE DEF bad
<1>8. i - 1 \in bad
  BY <1>3, <1>4
<1>9. 1..(i - 1) = 1..i
  <2>1. 1..(i - 1) \subseteq 1..i
    BY <1>3
  <2> QED
    BY <1>5, <1>6, <1>7, <1>8, <2>1
<1>10. i \in 1..i /\ i \notin 1..(i - 1)
  BY <1>3
<1> QED
  BY <1>9, <1>10

\* What FoldLeft unfolds to: the states after the events whose numbers are in
\* a set, from the lowest to the highest.
Top(s) == Max(s)

IsFold(f, base, seq, S) ==
    f = [s \in SUBSET S |-> IF s = {} THEN base ELSE Apply(f[s \ {Top(s)}], seq[Top(s)])]

LEMMA FoldUnfolds ==
    ASSUME NEW f, NEW base, NEW seq, NEW S, IsFold(f, base, seq, S)
    PROVE  /\ f[{}] = base
           /\ \A s \in SUBSET S : s # {} => f[s] = Apply(f[s \ {Top(s)}], seq[Top(s)])
<1>1. f = [s \in SUBSET S |-> IF s = {} THEN base ELSE Apply(f[s \ {Top(s)}], seq[Top(s)])]
  BY DEF IsFold
<1>2. {} \in SUBSET S
  OBVIOUS
<1> QED
  BY <1>1, <1>2

LEMMA TopIsIn ==
    ASSUME NEW n \in Nat, NEW s \in SUBSET (1..n), s # {}
    PROVE  Top(s) \in s /\ \A i \in s : Top(s) >= i
<1> DEFINE HasTop(k) == \E i \in s : \A j \in s : j <= k => i <= k /\ i >= j
           good == {k \in 0..n : (\A j \in s : j > k) \/ HasTop(k)}
<1>1. 0 \in good
  OBVIOUS
<1>2. ASSUME NEW k \in 1..n, k - 1 \in good PROVE k \in good
  <2>1. CASE k \in s
    <3>1. \A j \in s : j <= k => k <= k /\ k >= j
      OBVIOUS
    <3>2. HasTop(k)
      BY <2>1, <3>1
    <3> QED
      BY <3>2
  <2>2. CASE k \notin s
    <3>1. \A j \in s : j <= k <=> j <= k - 1
      BY <2>2
    <3>2. CASE \A j \in s : j > k - 1
      BY <3>1, <3>2
    <3>3. CASE HasTop(k - 1)
      <4>1. PICK i \in s : \A j \in s : j <= k - 1 => i <= k - 1 /\ i >= j
        BY <3>3
      <4>2. \A j \in s : j <= k => i <= k /\ i >= j
        BY <3>1, <4>1
      <4>3. HasTop(k)
        BY <4>2
      <4> QED
        BY <4>3
    <3> QED
      BY <1>2, <3>2, <3>3
  <2> QED
    BY <2>1, <2>2
<1>3. n \in good
  <2> HIDE DEF good
  <2>1. \A k \in 0..n : k \in good
    BY <1>1, <1>2, Upwards
  <2> QED
    BY <2>1
<1>4. \E i \in s : \A j \in s : i >= j
  <2>1. PICK x \in s : x <= n /\ x \in Nat
    <3> HIDE DEF good, HasTop
    <3>1. PICK x \in s : TRUE
      OBVIOUS
    <3>2. x \in 1..n
      BY <3>1
    <3> QED
      BY <3>1, <3>2
  <2>2. (\A j \in s : j > n) \/ HasTop(n)
    BY <1>3
  <2>3. HasTop(n)
    <3>1. ~(x > n)
      BY <2>1
    <3> HIDE DEF HasTop
    <3> QED
      BY <2>2, <3>1
  <2>4. \A j \in s : j <= n
    OBVIOUS
  <2> QED
    BY <2>3, <2>4
<1> QED
  BY <1>4 DEF Top, Max

LEMMA FoldsAgree ==
    ASSUME NEW f, NEW g, NEW base, NEW seq, NEW S, NEW T, IsFiniteSet(S),
           IsFold(f, base, seq, S), IsFold(g, base, seq, T),
           \A s \in SUBSET S : s # {} => Top(s) \in s
    PROVE  \A s \in SUBSET (S \cap T) : f[s] = g[s]
<1>a. /\ f[{}] = base
      /\ \A t \in SUBSET S : t # {} => f[t] = Apply(f[t \ {Top(t)}], seq[Top(t)])
  BY FoldUnfolds
<1>b. /\ g[{}] = base
      /\ \A t \in SUBSET T : t # {} => g[t] = Apply(g[t \ {Top(t)}], seq[Top(t)])
  BY FoldUnfolds
<1> DEFINE bad == {s \in SUBSET (S \cap T) : f[s] # g[s]}
<1> SUFFICES ASSUME bad # {} PROVE FALSE
  OBVIOUS
<1>1. bad \subseteq SUBSET S
  OBVIOUS
<1> HIDE DEF bad
<1>2. PICK s \in bad : \A t \in bad : t \subseteq s => t = s
  BY <1>1, SmallestSubset
<1>3. s \in SUBSET S /\ s \in SUBSET T /\ f[s] # g[s]
  BY DEF bad
<1>4. s # {}
  BY <1>a, <1>b, <1>3
<1>5. PICK x \in s : x = Top(s)
  BY <1>3, <1>4
<1>6. f[s] = Apply(f[s \ {x}], seq[x]) /\ g[s] = Apply(g[s \ {x}], seq[x])
  BY <1>a, <1>b, <1>3, <1>4, <1>5
<1>7. s \ {x} \notin bad
  BY <1>2
<1>8. f[s \ {x}] = g[s \ {x}]
  BY <1>3, <1>7 DEF bad
<1> QED
  BY <1>3, <1>6, <1>8

\* The states are well defined: there is a smallest set without them otherwise.
LEMMA FoldExists ==
    ASSUME NEW S, IsFiniteSet(S), NEW base, NEW seq,
           \A s \in SUBSET S : s # {} => Top(s) \in s
    PROVE  \E f : IsFold(f, base, seq, S)
<1> DEFINE bad == {s \in SUBSET S : ~ \E f : IsFold(f, base, seq, s)}
<1> SUFFICES ASSUME bad # {} PROVE FALSE
  OBVIOUS
<1>1. bad \subseteq SUBSET S
  OBVIOUS
<1> HIDE DEF bad
<1>2. PICK s \in bad : \A t \in bad : t \subseteq s => t = s
  BY <1>1, SmallestSubset
<1> DEFINE fold(t) == CHOOSE f : IsFold(f, base, seq, t)
           last == Top(s)
           value(t) == IF t = {} THEN base
                       ELSE IF t = s THEN Apply(fold(s \ {last})[s \ {last}], seq[last])
                       ELSE fold(t)[t]
           g == [t \in SUBSET s |-> value(t)]
<1>3. s \in SUBSET S /\ IsFiniteSet(s)
  BY <1>1, FS_Subset
<1>4. \A t \in SUBSET s : t # s => IsFold(fold(t), base, seq, t)
  <2> TAKE t \in SUBSET s
  <2> HAVE t # s
  <2>1. t \notin bad /\ t \in SUBSET S
    BY <1>2, <1>3
  <2>2. \E f : IsFold(f, base, seq, t)
    BY <2>1 DEF bad
  <2> QED
    BY <2>2
<1> HIDE DEF fold, last
<1>5. \A t \in SUBSET s : t # {} =>
          value(t) = Apply(value(t \ {Top(t)}), seq[Top(t)])
  <2> TAKE t \in SUBSET s
  <2> HAVE t # {}
  <2>1. PICK x \in t : x = Top(t)
    BY <1>3
  <2> DEFINE r == t \ {x}
  <2>2. r \in SUBSET s /\ r # s /\ x \in S
    BY <1>3
  <2>3. IsFold(fold(r), base, seq, r)
    BY <1>4, <2>2
  <2>4. value(r) = fold(r)[r]
    <3>1. r = {} => fold(r)[r] = base
      BY <2>3, FoldUnfolds
    <3> QED
      BY <2>2, <3>1
  <2>5. value(t) = Apply(fold(r)[r], seq[x])
    <3>1. CASE t = s
      BY <2>1, <3>1 DEF last
    <3>2. CASE t # s
      <4>1. IsFold(fold(t), base, seq, t)
        BY <1>4, <3>2
      <4>2. fold(t)[t] = Apply(fold(t)[r], seq[x])
        BY <2>1, <4>1, FoldUnfolds
      <4>3. IsFiniteSet(t) /\ r \in SUBSET (t \cap r)
        BY <1>3, FS_Subset
      <4>4. \A u \in SUBSET t : u # {} => Top(u) \in u
        BY <1>3
      <4>5. fold(t)[r] = fold(r)[r]
        BY <2>3, <4>1, <4>3, <4>4, FoldsAgree
      <4>6. value(t) = fold(t)[t]
        BY <3>2
      <4> QED
        BY <4>2, <4>5, <4>6
    <3> QED
      BY <3>1, <3>2
  <2> HIDE DEF value
  <2> QED
    BY <2>1, <2>4, <2>5
<1>6. \A t \in SUBSET s : \A x : t \ {x} \in SUBSET s
  OBVIOUS
<1>7. value({}) = base
  OBVIOUS
<1> HIDE DEF value
<1>8. \A t \in SUBSET s :
         g[t] = IF t = {} THEN base ELSE Apply(g[t \ {Top(t)}], seq[Top(t)])
  <2> TAKE t \in SUBSET s
  <2>1. CASE t = {}
    BY <1>7, <2>1
  <2>2. CASE t # {}
    <3>1. g[t] = value(t) /\ g[t \ {Top(t)}] = value(t \ {Top(t)})
      BY <1>6
    <3> QED
      BY <1>5, <2>2, <3>1
  <2> QED
    BY <2>1, <2>2
<1>9. IsFold(g, base, seq, s)
  <2> DEFINE h == [t \in SUBSET s |->
                      IF t = {} THEN base ELSE Apply(g[t \ {Top(t)}], seq[Top(t)])]
  <2>1. g = h
    BY <1>8
  <2> HIDE DEF g
  <2> QED
    BY <2>1 DEF IsFold
<1> HIDE DEF g
<1> QED
  BY <1>9 DEF bad

Folded(base, seq) == FoldLeft(Apply, base, seq)

\* The state after each event of a replay.
IsRun(st, base, seq, n) ==
    /\ st[0] = base
    /\ \A i \in 1..n : st[i] = Apply(st[i - 1], seq[i])

LEMMA FoldSteps ==
    ASSUME NEW base, NEW seq, NEW n \in Nat, DOMAIN seq = 1..n
    PROVE  \E st : IsRun(st, base, seq, n) /\ Folded(base, seq) = st[n]
<1> DEFINE S == 1..n
           IsIter(f) == f = [s \in SUBSET S |->
                               IF s = {} THEN base
                               ELSE Apply(f[s \ {Max(s)}], seq[Max(s)])]
           iter == CHOOSE f : IsIter(f)
<1>1. Folded(base, seq) = iter[S]
  BY DEF Folded, FoldLeft, MapThenFoldSet
<1>2. \A f : IsFold(f, base, seq, S) <=> IsIter(f)
  BY DEF IsFold, Top
<1>3. /\ IsFiniteSet(S)
      /\ \A s \in SUBSET S : s # {} => Top(s) \in s /\ \A i \in s : Top(s) >= i
  <2>1. IsFiniteSet(S)
    BY FS_Interval
  <2>2. \A s \in SUBSET S : s # {} => Top(s) \in s /\ \A i \in s : Top(s) >= i
    BY TopIsIn
  <2> QED
    BY <2>1, <2>2
<1>4. IsFold(iter, base, seq, S)
  <2> HIDE DEF S, IsIter
  <2>1. \E f : IsFold(f, base, seq, S)
    BY <1>3, FoldExists
  <2>2. \E f : IsIter(f)
    BY <1>2, <2>1
  <2>3. IsIter(iter)
    BY <2>2
  <2> QED
    BY <1>2, <2>3
<1> HIDE DEF iter
<1> DEFINE st == [i \in 0..n |-> iter[1..i]]
<1>5. st[0] = base
  <2>1. 1..0 = {}
    OBVIOUS
  <2>2. st[0] = iter[1..0]
    OBVIOUS
  <2> QED
    BY <1>4, <2>1, <2>2, FoldUnfolds
<1>6. ASSUME NEW i \in 1..n PROVE st[i] = Apply(st[i - 1], seq[i])
  <2> DEFINE s == 1..i
  <2>1. s \in SUBSET S /\ s # {} /\ i \in s /\ \A j \in s : j <= i
    OBVIOUS
  <2>2. Top(s) = i
    <3>1. Top(s) \in s /\ Top(s) >= i
      BY <1>3, <2>1
    <3> QED
      BY <2>1, <3>1
  <2>3. s \ {i} = 1..(i - 1)
    OBVIOUS
  <2>4. st[i] = iter[s] /\ st[i - 1] = iter[1..(i - 1)]
    OBVIOUS
  <2> HIDE DEF s, S, st
  <2>5. iter[s] = Apply(iter[s \ {Top(s)}], seq[Top(s)])
    <3>1. \A t \in SUBSET S : t # {} => iter[t] = Apply(iter[t \ {Top(t)}], seq[Top(t)])
      BY <1>4, FoldUnfolds
    <3> QED
      BY <2>1, <3>1
  <2> QED
    BY <2>2, <2>3, <2>4, <2>5
<1>7. st[n] = iter[S]
  OBVIOUS
<1>8. IsRun(st, base, seq, n)
  <2> HIDE DEF st
  <2> QED
    BY <1>5, <1>6 DEF IsRun
<1> HIDE DEF st
<1>9. Folded(base, seq) = st[n]
  BY <1>1, <1>7
<1> QED
  BY <1>8, <1>9

----------------------------------------------------------------------------
(***************************************************************************)
(* The order of Replay                                                     *)
(***************************************************************************)

\* Rows of one ledger: each has a number of its own.
IsEvidence(E) ==
    /\ E \subseteq Evidence /\ IsFiniteSet(E)
    /\ \A e, f \in E : e.n = f.n => e = f

LEMMA BeforeIs ==
    ASSUME NEW a \in Evidence, NEW b \in Evidence
    PROVE  Before(a, b) <=>
              \/ a.at < b.at
              \/ /\ a.at = b.at
                 /\ \/ KindOrder[a.kind] < KindOrder[b.kind]
                    \/ /\ KindOrder[a.kind] = KindOrder[b.kind]
                       /\ a.id < b.id \/ (a.id = b.id /\ a.n < b.n)
<1> DEFINE k == SortKey(a)
           l == SortKey(b)
           Differ(i) == k[i] < l[i] /\ \A j \in 1..(i - 1) : k[j] = l[j]
<1>1. /\ k[1] = a.at /\ k[2] = KindOrder[a.kind] /\ k[3] = a.id /\ k[4] = a.n
      /\ l[1] = b.at /\ l[2] = KindOrder[b.kind] /\ l[3] = b.id /\ l[4] = b.n
  BY DEF SortKey
<1>2. Before(a, b) <=> \E i \in 1..4 : Differ(i)
  BY DEF Before
<1> HIDE DEF k, l
<1>3. (\E i \in 1..4 : Differ(i)) <=> Differ(1) \/ Differ(2) \/ Differ(3) \/ Differ(4)
  <2> HIDE DEF Differ
  <2>1. 1..4 = {1, 2, 3, 4}
    OBVIOUS
  <2> QED
    BY <2>1
<1>4. /\ Differ(1) <=> k[1] < l[1]
      /\ Differ(2) <=> k[2] < l[2] /\ k[1] = l[1]
      /\ Differ(3) <=> k[3] < l[3] /\ k[1] = l[1] /\ k[2] = l[2]
      /\ Differ(4) <=> k[4] < l[4] /\ k[1] = l[1] /\ k[2] = l[2] /\ k[3] = l[3]
  <2>1. 1..(1 - 1) = {} /\ 1..(2 - 1) = {1} /\ 1..(3 - 1) = {1, 2} /\ 1..(4 - 1) = {1, 2, 3}
    OBVIOUS
  <2> QED
    BY <2>1
<1> HIDE DEF Differ
<1> QED
  BY <1>1, <1>2, <1>3, <1>4

LEMMA KeyTypes ==
    ASSUME NEW e \in Evidence
    PROVE  e.at \in Nat /\ KindOrder[e.kind] \in Nat /\ e.id \in Nat /\ e.n \in Nat
BY DEF Evidence, KindOrder

LEMMA BeforeIsTotal ==
    ASSUME NEW E, IsEvidence(E), NEW e \in E, NEW f \in E
    PROVE  /\ ~Before(e, e)
           /\ e # f => Before(e, f) \/ Before(f, e)
           /\ \A g \in E : Before(e, f) /\ Before(f, g) => Before(e, g)
<1>1. \A g \in E : g \in Evidence
  BY DEF IsEvidence
<1>2. \A g \in E : /\ g.at \in Nat /\ KindOrder[g.kind] \in Nat
                   /\ g.id \in Nat /\ g.n \in Nat
  BY <1>1, KeyTypes
<1>3. \A g, h \in E :
         Before(g, h) <=>
            \/ g.at < h.at
            \/ /\ g.at = h.at
               /\ \/ KindOrder[g.kind] < KindOrder[h.kind]
                  \/ /\ KindOrder[g.kind] = KindOrder[h.kind]
                     /\ g.id < h.id \/ (g.id = h.id /\ g.n < h.n)
  BY <1>1, BeforeIs
<1>4. e # f => e.n # f.n
  BY DEF IsEvidence
<1>5. ~Before(e, e)
  BY <1>2, <1>3
<1>6. e # f => Before(e, f) \/ Before(f, e)
  BY <1>2, <1>3, <1>4
<1>7. ASSUME NEW g \in E, Before(e, f), Before(f, g) PROVE Before(e, g)
  BY <1>2, <1>3, <1>7
<1> QED
  BY <1>5, <1>6, <1>7

Ahead(E, e) == {f \in E : Before(f, e)}

LEMMA FewerAhead ==
    ASSUME NEW E, IsEvidence(E), NEW e \in E, NEW f \in E, Before(e, f)
    PROVE  /\ Cardinality(Ahead(E, e)) \in Nat
           /\ Cardinality(Ahead(E, f)) \in Nat
           /\ Cardinality(Ahead(E, e)) < Cardinality(Ahead(E, f))
<1>1. Ahead(E, e) \subseteq Ahead(E, f)
  BY BeforeIsTotal DEF Ahead
<1>2. e \in Ahead(E, f) /\ e \notin Ahead(E, e)
  BY BeforeIsTotal DEF Ahead
<1>3. Ahead(E, f) \subseteq E
  BY DEF Ahead
<1>4. IsFiniteSet(Ahead(E, f)) /\ IsFiniteSet(Ahead(E, e))
  BY <1>1, <1>3, FS_Subset DEF IsEvidence
<1> QED
  BY <1>1, <1>2, <1>4, FS_Subset, FS_CardinalityType

\* Every place of the order is taken, by one row.
LEMMA PlacesAreTaken ==
    ASSUME NEW E, IsEvidence(E)
    PROVE  /\ Cardinality(E) \in Nat
           /\ \A e \in E : Cardinality(Ahead(E, e)) \in 0..(Cardinality(E) - 1)
           /\ \A e, f \in E : Cardinality(Ahead(E, e)) = Cardinality(Ahead(E, f)) => e = f
           /\ \A i \in 1..Cardinality(E) : \E e \in E : Cardinality(Ahead(E, e)) = i - 1
<1> DEFINE n == Cardinality(E)
           pos == [e \in E |-> Cardinality(Ahead(E, e))]
<1>1. n \in Nat /\ IsFiniteSet(E)
  BY FS_CardinalityType DEF IsEvidence
<1>2. \A e \in E : Cardinality(Ahead(E, e)) \in 0..(n - 1)
  <2> TAKE e \in E
  <2>1. Ahead(E, e) \subseteq E \ {e}
    BY BeforeIsTotal DEF Ahead
  <2>2. IsFiniteSet(E \ {e}) /\ Cardinality(E \ {e}) = n - 1
    BY <1>1, FS_RemoveElement
  <2>3. IsFiniteSet(Ahead(E, e)) /\ Cardinality(Ahead(E, e)) <= n - 1
    BY <2>1, <2>2, FS_Subset
  <2>4. Cardinality(Ahead(E, e)) \in Nat
    BY <2>3, FS_CardinalityType
  <2> QED
    BY <1>1, <2>3, <2>4
<1>3. \A e, f \in E : pos[e] = pos[f] => e = f
  <2> SUFFICES ASSUME NEW e \in E, NEW f \in E, e # f PROVE pos[e] # pos[f]
    OBVIOUS
  <2>1. Before(e, f) \/ Before(f, e)
    BY BeforeIsTotal
  <2> QED
    BY <2>1, FewerAhead
<1>4. pos \in [E -> 0..(n - 1)]
  BY <1>2
<1>5. \A e \in E : pos[e] = Cardinality(Ahead(E, e))
  OBVIOUS
<1> HIDE DEF pos
<1>6. pos \in Injection(E, 0..(n - 1))
  BY <1>3, <1>4 DEF Injection, IsInjective
<1>7. IsFiniteSet(0..(n - 1)) /\ Cardinality(0..(n - 1)) = n
  <2>1. 0 \in Int /\ n - 1 \in Int /\ (0 > n - 1 => n = 0)
    BY <1>1
  <2>2. /\ IsFiniteSet(0..(n - 1))
        /\ Cardinality(0..(n - 1)) = IF 0 > n - 1 THEN 0 ELSE (n - 1) - 0 + 1
    BY <2>1, FS_Interval
  <2> HIDE DEF n
  <2> QED
    BY <1>1, <2>1, <2>2
<1>8. pos \in Surjection(E, 0..(n - 1))
  BY <1>6, <1>7, FS_Injection
<1>9. \A i \in 1..n : \E e \in E : Cardinality(Ahead(E, e)) = i - 1
  <2> TAKE i \in 1..n
  <2>1. i - 1 \in 0..(n - 1)
    BY <1>1
  <2>2. \E e \in E : pos[e] = i - 1
    BY <1>8, <2>1 DEF Surjection
  <2> QED
    BY <1>5, <2>2
<1>10. \A e, f \in E : Cardinality(Ahead(E, e)) = Cardinality(Ahead(E, f)) => e = f
  BY <1>3, <1>5
<1> QED
  BY <1>1, <1>2, <1>9, <1>10

\* Sorted is a listing of the rows in their order.
LEMMA SortedFacts ==
    ASSUME NEW E, IsEvidence(E)
    PROVE  /\ Cardinality(E) \in Nat
           /\ DOMAIN Sorted(E) = 1..Cardinality(E)
           /\ \A i \in 1..Cardinality(E) : Sorted(E)[i] \in E
           /\ \A e \in E : \E i \in 1..Cardinality(E) : Sorted(E)[i] = e
           /\ \A i, j \in 1..Cardinality(E) : Before(Sorted(E)[i], Sorted(E)[j]) <=> i < j
<1> DEFINE n == Cardinality(E)
           S == Sorted(E)
<1>1. n \in Nat
  BY PlacesAreTaken
<1>2. ASSUME NEW i \in 1..n PROVE S[i] \in E /\ Cardinality(Ahead(E, S[i])) = i - 1
  <2>1. S[i] = CHOOSE e \in E : Cardinality(Ahead(E, e)) = i - 1
    BY DEF Sorted, Ahead
  <2>2. \E e \in E : Cardinality(Ahead(E, e)) = i - 1
    BY PlacesAreTaken
  <2> HIDE DEF S
  <2> QED
    BY <2>1, <2>2
<1>3. DOMAIN S = 1..n
  BY DEF Sorted
<1> HIDE DEF S
<1>4. ASSUME NEW e \in E PROVE \E i \in 1..n : S[i] = e
  <2>1. PICK k : k = Cardinality(Ahead(E, e))
    OBVIOUS
  <2>2. k \in 0..(n - 1)
    BY <2>1, PlacesAreTaken
  <2>3. k + 1 \in 1..n /\ (k + 1) - 1 = k
    BY <1>1, <2>2
  <2>4. S[k + 1] \in E /\ Cardinality(Ahead(E, S[k + 1])) = k
    BY <1>2, <2>3
  <2>5. S[k + 1] = e
    BY <2>1, <2>4, PlacesAreTaken
  <2> QED
    BY <2>3, <2>5
<1>5. ASSUME NEW i \in 1..n, NEW j \in 1..n PROVE Before(S[i], S[j]) <=> i < j
  <2>1. /\ S[i] \in E /\ Cardinality(Ahead(E, S[i])) = i - 1
        /\ S[j] \in E /\ Cardinality(Ahead(E, S[j])) = j - 1
    BY <1>2
  <2>2. Before(S[i], S[j]) => i - 1 < j - 1
    BY <2>1, FewerAhead
  <2>3. Before(S[j], S[i]) => j - 1 < i - 1
    BY <2>1, FewerAhead
  <2>4. i < j => S[i] # S[j]
    <3>1. S[i] = S[j] => i - 1 = j - 1
      BY <2>1
    <3> QED
      BY <3>1
  <2>5. S[i] # S[j] => Before(S[i], S[j]) \/ Before(S[j], S[i])
    BY <2>1, BeforeIsTotal
  <2> QED
    BY <1>1, <2>2, <2>3, <2>4, <2>5
<1> QED
  BY <1>1, <1>2, <1>3, <1>4, <1>5 DEF S

----------------------------------------------------------------------------
(***************************************************************************)
(* What a replay comes to                                                  *)
(***************************************************************************)

LEMMA ReplaySteps ==
    ASSUME NEW E, IsEvidence(E), NEW s
    PROVE  \E st : /\ st[0] = s
                   /\ \A i \in 1..Cardinality(E) : st[i] = Apply(st[i - 1], Sorted(E)[i])
                   /\ Replay(s, E) = st[Cardinality(E)]
<1> DEFINE n == Cardinality(E)
           S == Sorted(E)
<1>1. n \in Nat /\ DOMAIN S = 1..n
  BY SortedFacts
<1>2. Replay(s, E) = Folded(s, S)
  BY DEF Replay, Folded
<1> HIDE DEF n, S
<1>3. PICK st : IsRun(st, s, S, n) /\ Folded(s, S) = st[n]
  BY <1>1, FoldSteps
<1> QED
  BY <1>2, <1>3 DEF n, S, IsRun

LEMMA ApplyOrders ==
    ASSUME NEW s, NEW e
    PROVE  /\ e.kind # "order" => Apply(s, e).orders = s.orders
           /\ e.kind = "order" =>
                Apply(s, e).orders = [k \in {e.id} \cup DOMAIN s.orders |->
                                         IF k = e.id THEN e.value ELSE s.orders[k]]
BY DEF Apply

LEMMA ApplyIds ==
    ASSUME NEW s, NEW e
    PROVE  /\ e.kind # "market" => Apply(s, e).ids = s.ids
           /\ e.kind = "market" /\ e.id \notin ToSet(s.ids) =>
                Apply(s, e).ids = Append(s.ids, e.id)
BY DEF Apply

LEMMA EmptyReplay ==
    /\ DOMAIN Fresh.orders = {} /\ Fresh.orders = [k \in {} |-> 0]
    /\ Fresh.ids \in Seq(Nat) /\ Len(Fresh.ids) = 0
BY DEF Fresh

\* The last event of an order among the first i of a listing.
OrderAt(S, l, k) == S[l].kind = "order" /\ S[l].id = k
Never(S, i, k) == \A l \in 1..i : ~OrderAt(S, l, k)
LastIs(S, i, k, v) ==
    \E j \in 1..i : /\ OrderAt(S, j, k) /\ S[j].value = v
                    /\ \A l \in 1..i : OrderAt(S, l, k) => l <= j

\* The orders after the first i events.
OrdersAfter(o, base, S, i) ==
    /\ o = [k \in DOMAIN o |-> o[k]]
    /\ \A k : k \in DOMAIN o <=> k \in DOMAIN base \/ ~Never(S, i, k)
    /\ \A k \in DOMAIN o : IF Never(S, i, k) THEN o[k] = base[k] ELSE LastIs(S, i, k, o[k])

LEMMA OrdersAdvance ==
    ASSUME NEW n \in Nat, NEW i \in 1..n, NEW S, NEW base, NEW s,
           OrdersAfter(s.orders, base, S, i - 1)
    PROVE  OrdersAfter(Apply(s, S[i]).orders, base, S, i)
<1> DEFINE e == S[i]
           o == s.orders
           p == Apply(s, e).orders
<1>1. \A l \in 1..i : l \in 1..(i - 1) \/ l = i
  OBVIOUS
<1>2. 1..(i - 1) \subseteq 1..i /\ i \in 1..i /\ \A l \in 1..i : l <= i
  OBVIOUS
<1>3. CASE e.kind # "order"
  <2>1. p = o
    BY <1>3, ApplyOrders
  <2>2. \A k : ~OrderAt(S, i, k)
    BY <1>3 DEF OrderAt
  <2>3. \A k : Never(S, i, k) <=> Never(S, i - 1, k)
    BY <1>1, <1>2, <2>2 DEF Never
  <2>4. \A k, v : LastIs(S, i - 1, k, v) => LastIs(S, i, k, v)
    BY <1>1, <1>2, <2>2 DEF LastIs
  <2> HIDE DEF e, o, p
  <2> QED
    BY <2>1, <2>3, <2>4 DEF OrdersAfter, o, p, e
<1>4. CASE e.kind = "order"
  <2>1. p = [k \in {e.id} \cup DOMAIN o |-> IF k = e.id THEN e.value ELSE o[k]]
    BY <1>4, ApplyOrders
  <2>2. \A k : OrderAt(S, i, k) <=> k = e.id
    BY <1>4 DEF OrderAt
  <2>3. \A k : Never(S, i, k) <=> Never(S, i - 1, k) /\ k # e.id
    BY <1>1, <1>2, <2>2 DEF Never
  <2>4. LastIs(S, i, e.id, e.value)
    BY <1>2, <2>2 DEF LastIs
  <2>5. \A k, v : LastIs(S, i - 1, k, v) /\ k # e.id => LastIs(S, i, k, v)
    BY <1>1, <1>2, <2>2 DEF LastIs
  <2>6. OrdersAfter(o, base, S, i - 1)
    OBVIOUS
  <2> DEFINE x == e.id
             y == e.value
  <2> HIDE DEF e, o, p, x, y
  <2>7. /\ DOMAIN p = {x} \cup DOMAIN o /\ p[x] = y
        /\ \A k \in DOMAIN o : k # x => p[k] = o[k]
        /\ p = [k \in DOMAIN p |-> p[k]]
    BY <2>1 DEF x, y
  <2>8. \A k : k \in DOMAIN p <=> k \in DOMAIN base \/ ~Never(S, i, k)
    BY <2>3, <2>6, <2>7 DEF OrdersAfter, x
  <2>9. ASSUME NEW k \in DOMAIN p
        PROVE  IF Never(S, i, k) THEN p[k] = base[k] ELSE LastIs(S, i, k, p[k])
    <3>1. CASE k = x
      BY <2>3, <2>4, <2>7, <3>1 DEF x, y
    <3>2. CASE k # x
      <4>1. k \in DOMAIN o /\ p[k] = o[k]
        BY <2>7, <3>2
      <4>2. IF Never(S, i - 1, k) THEN o[k] = base[k] ELSE LastIs(S, i - 1, k, o[k])
        BY <2>6, <4>1 DEF OrdersAfter
      <4> QED
        BY <2>3, <2>5, <3>2, <4>1, <4>2 DEF x
    <3> QED
      BY <3>1, <3>2
  <2>10. OrdersAfter(p, base, S, i)
    BY <2>7, <2>8, <2>9 DEF OrdersAfter
  <2> QED
    BY <2>10 DEF p, e
<1> QED
  BY <1>3, <1>4

LEMMA ReplayOrders ==
    ASSUME NEW E, IsEvidence(E), NEW s, s.orders = [k \in DOMAIN s.orders |-> s.orders[k]]
    PROVE  OrdersAfter(Replay(s, E).orders, s.orders, Sorted(E), Cardinality(E))
<1> DEFINE n == Cardinality(E)
           S == Sorted(E)
<1>1. n \in Nat
  BY SortedFacts
<1>2. PICK st : /\ st[0] = s
                /\ \A i \in 1..n : st[i] = Apply(st[i - 1], S[i])
                /\ Replay(s, E) = st[n]
  BY ReplaySteps
<1> HIDE DEF n, S
<1> DEFINE good == {i \in 0..n : OrdersAfter(st[i].orders, s.orders, S, i)}
<1>3. 0 \in good
  <2>1. \A k : Never(S, 0, k)
    BY DEF Never
  <2>2. OrdersAfter(st[0].orders, s.orders, S, 0)
    BY <1>2, <2>1 DEF OrdersAfter
  <2> QED
    BY <1>1, <2>2
<1>4. ASSUME NEW i \in 1..n, i - 1 \in good PROVE i \in good
  <2>1. OrdersAfter(st[i - 1].orders, s.orders, S, i - 1)
    BY <1>4
  <2>2. OrdersAfter(Apply(st[i - 1], S[i]).orders, s.orders, S, i)
    BY <1>1, <2>1, OrdersAdvance
  <2>3. i \in 0..n
    BY <1>1
  <2> QED
    BY <1>2, <2>2, <2>3
<1>5. n \in good
  <2> HIDE DEF good
  <2>1. \A i \in 0..n : i \in good
    BY <1>1, <1>3, <1>4, Upwards
  <2> QED
    BY <1>1, <2>1
<1> QED
  BY <1>2, <1>5 DEF n, S

BarAt(S, l, id) == S[l].kind = "market" /\ S[l].id = id

\* The bars processed after the first i events, when there were b before: no
\* number is missing among them and each is in its place.
IdsAfter(ids, b, S, i) ==
    /\ ids \in Seq(Nat)
    /\ \A x \in 1..Len(ids) : ids[x] = x
    /\ \A x \in Nat \ {0} : x <= Len(ids) <=> x <= b \/ \E l \in 1..i : BarAt(S, l, x)

\* The bars of E have the numbers after b, in their order.
Continues(b, E) ==
    /\ \A e \in E : e.kind = "market" =>
          /\ e.id > b
          /\ e.id = b + 1 \/ \E f \in E : f.kind = "market" /\ f.id = e.id - 1 /\ Before(f, e)
    /\ \A e, f \in E : e.kind = "market" /\ f.kind = "market" /\ e.id = f.id => e = f

LEMMA IdsAppend ==
    ASSUME NEW b \in Nat, NEW i \in Nat \ {0}, NEW S, NEW ids, IdsAfter(ids, b, S, i - 1),
           NEW id \in Nat, BarAt(S, i, id), id = Len(ids) + 1
    PROVE  id \notin ToSet(ids) /\ IdsAfter(Append(ids, id), b, S, i)
<1>1. /\ ids \in Seq(Nat) /\ Len(ids) \in Nat
      /\ \A x \in 1..Len(ids) : ids[x] = x
      /\ \A x \in Nat \ {0} : x <= Len(ids) <=> x <= b \/ \E l \in 1..(i - 1) : BarAt(S, l, x)
  BY DEF IdsAfter
<1>2. id \notin ToSet(ids)
  <2>1. \A x \in DOMAIN ids : ids[x] <= Len(ids)
    BY <1>1
  <2> QED
    BY <1>1, <2>1 DEF ToSet
<1> DEFINE next == Append(ids, id)
<1>3. next \in Seq(Nat) /\ Len(next) = Len(ids) + 1
  BY <1>1
<1>4. \A x \in 1..(Len(ids) + 1) : next[x] = x
  BY <1>1
<1> HIDE DEF next
<1>5. ASSUME NEW x \in Nat \ {0}
      PROVE  x <= Len(next) <=> x <= b \/ \E l \in 1..i : BarAt(S, l, x)
  <2>1. x <= Len(next) <=> x <= Len(ids) \/ x = id
    BY <1>1, <1>3
  <2>2. BarAt(S, i, x) <=> x = id
    BY DEF BarAt
  <2>3. (\E l \in 1..i : BarAt(S, l, x))
           <=> (\E l \in 1..(i - 1) : BarAt(S, l, x)) \/ BarAt(S, i, x)
    <3>1. \A l : l \in 1..i <=> l \in 1..(i - 1) \/ l = i
      OBVIOUS
    <3> QED
      BY <3>1
  <2> QED
    BY <1>1, <2>1, <2>2, <2>3
<1>6. IdsAfter(next, b, S, i)
  BY <1>3, <1>4, <1>5 DEF IdsAfter
<1> QED
  BY <1>2, <1>6 DEF next

LEMMA IdsAdvance ==
    ASSUME NEW E, IsEvidence(E), NEW b \in Nat, Continues(b, E),
           NEW i \in 1..Cardinality(E), NEW s, IdsAfter(s.ids, b, Sorted(E), i - 1)
    PROVE  IdsAfter(Apply(s, Sorted(E)[i]).ids, b, Sorted(E), i)
<1> DEFINE n == Cardinality(E)
           S == Sorted(E)
           e == S[i]
           L == Len(s.ids)
<1>1. /\ n \in Nat /\ i \in 1..n /\ e \in E
      /\ \A l \in 1..n : S[l] \in E
      /\ \A f \in E : \E l \in 1..n : S[l] = f
      /\ \A l, m \in 1..n : Before(S[l], S[m]) <=> l < m
  BY SortedFacts
<1>2. /\ s.ids \in Seq(Nat) /\ L \in Nat
      /\ \A x \in Nat \ {0} : x <= L <=> x <= b \/ \E l \in 1..(i - 1) : BarAt(S, l, x)
      /\ IdsAfter(s.ids, b, S, i - 1)
  BY DEF IdsAfter
<1>3. e.id \in Nat
  BY <1>1, KeyTypes DEF IsEvidence
<1> HIDE DEF n, S, e, L
<1>4. CASE e.kind # "market"
  <2>1. Apply(s, e).ids = s.ids
    BY <1>4, ApplyIds
  <2>2. \A x : ~BarAt(S, i, x)
    BY <1>4 DEF BarAt, e
  <2>3. \A l : l \in 1..i <=> l \in 1..(i - 1) \/ l = i
    BY <1>1
  <2>4. \A x : (\E l \in 1..i : BarAt(S, l, x)) <=> \E l \in 1..(i - 1) : BarAt(S, l, x)
    BY <2>2, <2>3
  <2>5. IdsAfter(s.ids, b, S, i)
    BY <1>2, <2>4 DEF IdsAfter
  <2> QED
    BY <2>1, <2>5 DEF e, S
<1>5. CASE e.kind = "market"
  <2> DEFINE id == e.id
  <2>1. /\ id > b /\ id \in Nat
        /\ id = b + 1 \/ \E f \in E : f.kind = "market" /\ f.id = id - 1 /\ Before(f, e)
    BY <1>1, <1>3, <1>5 DEF Continues
  <2>2. id > L
    <3> SUFFICES ASSUME id <= L PROVE FALSE
      BY <1>2, <2>1
    <3>1. PICK l \in 1..(i - 1) : BarAt(S, l, id)
      BY <1>2, <2>1
    <3>2. l \in 1..n /\ l < i
      BY <1>1
    <3>3. S[l] \in E /\ S[l] = e
      BY <1>1, <1>5, <3>1, <3>2 DEF BarAt, Continues
    <3>4. Before(e, e)
      BY <1>1, <3>2, <3>3 DEF e
    <3> QED
      BY <1>1, <3>4, BeforeIsTotal
  <2>3. id - 1 <= L
    <3>1. CASE id = b + 1
      <4>1. b = 0 \/ b \in Nat \ {0}
        OBVIOUS
      <4>2. b \in Nat \ {0} => b <= L
        BY <1>2
      <4> QED
        BY <1>2, <3>1, <4>1, <4>2
    <3>2. CASE id # b + 1
      <4>1. PICK f \in E : f.kind = "market" /\ f.id = id - 1 /\ Before(f, e)
        BY <2>1, <3>2
      <4>2. PICK l \in 1..n : S[l] = f
        BY <1>1
      <4>3. l < i
        BY <1>1, <4>1, <4>2 DEF e
      <4>4. l \in 1..(i - 1)
        BY <1>1, <4>2, <4>3
      <4>5. BarAt(S, l, id - 1)
        BY <4>1, <4>2 DEF BarAt
      <4>6. id - 1 \in Nat \ {0}
        BY <2>1, <3>2
      <4> QED
        BY <1>2, <4>4, <4>5, <4>6
    <3> QED
      BY <3>1, <3>2
  <2>4. id = Len(s.ids) + 1
    BY <1>2, <2>1, <2>2, <2>3 DEF L
  <2>5. BarAt(S, i, id) /\ i \in Nat \ {0}
    BY <1>1, <1>5 DEF BarAt, e
  <2>6. id \notin ToSet(s.ids) /\ IdsAfter(Append(s.ids, id), b, S, i)
    BY <1>2, <2>1, <2>4, <2>5, IdsAppend
  <2>7. Apply(s, e).ids = Append(s.ids, id)
    BY <1>5, <2>6, ApplyIds
  <2> QED
    BY <2>6, <2>7 DEF e, S
<1> QED
  BY <1>4, <1>5

LEMMA ReplayIds ==
    ASSUME NEW E, IsEvidence(E), NEW s, NEW b \in Nat, Continues(b, E),
           s.ids \in Seq(Nat), Len(s.ids) = b, \A x \in 1..b : s.ids[x] = x
    PROVE  IdsAfter(Replay(s, E).ids, b, Sorted(E), Cardinality(E))
<1> DEFINE n == Cardinality(E)
           S == Sorted(E)
<1>1. n \in Nat
  BY SortedFacts
<1>2. PICK st : /\ st[0] = s
                /\ \A i \in 1..n : st[i] = Apply(st[i - 1], S[i])
                /\ Replay(s, E) = st[n]
  BY ReplaySteps
<1> DEFINE good == {i \in 0..n : IdsAfter(st[i].ids, b, S, i)}
<1>3. 0 \in good
  <2> HIDE DEF n, S
  <2>1. \A x : ~ \E l \in 1..0 : BarAt(S, l, x)
    OBVIOUS
  <2>2. IdsAfter(st[0].ids, b, S, 0)
    BY <1>2, <2>1 DEF IdsAfter
  <2> QED
    BY <1>1, <2>2
<1>4. ASSUME NEW i \in 1..n, i - 1 \in good PROVE i \in good
  <2>1. IdsAfter(st[i - 1].ids, b, S, i - 1)
    BY <1>4
  <2>2. IdsAfter(Apply(st[i - 1], S[i]).ids, b, S, i)
    BY <2>1, IdsAdvance
  <2> HIDE DEF n, S
  <2>3. i \in 0..n
    BY <1>1
  <2> QED
    BY <1>2, <2>2, <2>3
<1> HIDE DEF n, S
<1>5. n \in good
  <2> HIDE DEF good
  <2>1. \A i \in 0..n : i \in good
    BY <1>1, <1>3, <1>4, Upwards
  <2> QED
    BY <1>1, <2>1
<1> QED
  BY <1>2, <1>5 DEF n, S

OrderOf(e, k) == e.kind = "order" /\ e.id = k

\* The orders of a replay of E: each has the state of its last event.
AreOrders(o, base, E) ==
    /\ o = [k \in DOMAIN o |-> o[k]]
    /\ \A k : k \in DOMAIN o <=> k \in DOMAIN base \/ \E e \in E : OrderOf(e, k)
    /\ \A k \in DOMAIN o :
          IF \E e \in E : OrderOf(e, k)
          THEN \E e \in E : /\ OrderOf(e, k) /\ o[k] = e.value
                            /\ \A f \in E : OrderOf(f, k) => f = e \/ Before(f, e)
          ELSE o[k] = base[k]

LEMMA OrdersOf ==
    ASSUME NEW E, IsEvidence(E), NEW s, s.orders = [k \in DOMAIN s.orders |-> s.orders[k]]
    PROVE  AreOrders(Replay(s, E).orders, s.orders, E)
<1> DEFINE n == Cardinality(E)
           S == Sorted(E)
<1>1. /\ n \in Nat
      /\ \A l \in 1..n : S[l] \in E
      /\ \A f \in E : \E l \in 1..n : S[l] = f
      /\ \A l, m \in 1..n : Before(S[l], S[m]) <=> l < m
  BY SortedFacts
<1> DEFINE o == Replay(s, E).orders
<1>2. OrdersAfter(o, s.orders, S, n)
  BY ReplayOrders
<1> HIDE DEF n, S, o
<1>3. \A l, k : OrderAt(S, l, k) <=> OrderOf(S[l], k)
  BY DEF OrderAt, OrderOf
<1>4. \A k : Never(S, n, k) <=> ~ \E e \in E : OrderOf(e, k)
  BY <1>1, <1>3 DEF Never
<1>5. ASSUME NEW k, LastIs(S, n, k, o[k])
      PROVE  \E e \in E : /\ OrderOf(e, k) /\ o[k] = e.value
                          /\ \A f \in E : OrderOf(f, k) => f = e \/ Before(f, e)
  <2>1. PICK j \in 1..n : /\ OrderAt(S, j, k) /\ S[j].value = o[k]
                          /\ \A l \in 1..n : OrderAt(S, l, k) => l <= j
    BY <1>5 DEF LastIs
  <2>2. S[j] \in E /\ OrderOf(S[j], k)
    BY <1>1, <1>3, <2>1
  <2>3. ASSUME NEW f \in E, OrderOf(f, k) PROVE f = S[j] \/ Before(f, S[j])
    <3>1. PICK l \in 1..n : S[l] = f
      BY <1>1
    <3>2. l <= j
      BY <1>3, <2>1, <2>3, <3>1
    <3>3. l = j \/ l < j
      BY <1>1, <3>2
    <3> QED
      BY <1>1, <3>1, <3>3
  <2> QED
    BY <2>1, <2>2, <2>3
<1>6. /\ o = [k \in DOMAIN o |-> o[k]]
      /\ \A k : k \in DOMAIN o <=> k \in DOMAIN s.orders \/ ~Never(S, n, k)
      /\ \A k \in DOMAIN o :
            IF Never(S, n, k) THEN o[k] = s.orders[k] ELSE LastIs(S, n, k, o[k])
  BY <1>2 DEF OrdersAfter
<1>7. \A k : k \in DOMAIN o <=> k \in DOMAIN s.orders \/ \E e \in E : OrderOf(e, k)
  BY <1>4, <1>6
<1>8. ASSUME NEW k \in DOMAIN o
      PROVE  IF \E e \in E : OrderOf(e, k)
             THEN \E e \in E : /\ OrderOf(e, k) /\ o[k] = e.value
                               /\ \A f \in E : OrderOf(f, k) => f = e \/ Before(f, e)
             ELSE o[k] = s.orders[k]
  BY <1>4, <1>5, <1>6
<1> QED
  BY <1>6, <1>7, <1>8 DEF AreOrders, o

\* Two replays with the same order events come to the same orders.
LEMMA SameOrders ==
    ASSUME NEW E, IsEvidence(E), NEW F, F \subseteq E, IsEvidence(F),
           \A e \in E : e.kind = "order" => e \in F
    PROVE  Replay(Fresh, E).orders = Replay(Fresh, F).orders
<1>1. PICK o : o = Replay(Fresh, E).orders
  OBVIOUS
<1>2. PICK p : p = Replay(Fresh, F).orders
  OBVIOUS
<1>3. Fresh.orders = [k \in DOMAIN Fresh.orders |-> Fresh.orders[k]] /\ DOMAIN Fresh.orders = {}
  BY EmptyReplay
<1>4. AreOrders(o, Fresh.orders, E)
  BY <1>1, <1>3, OrdersOf
<1>5. AreOrders(p, Fresh.orders, F)
  BY <1>2, <1>3, OrdersOf
<1>6. \A e \in E : \A k : OrderOf(e, k) => e \in F
  BY DEF OrderOf
<1>7. DOMAIN o = DOMAIN p
  <2>1. \A k : k \in DOMAIN o <=> k \in DOMAIN p
    BY <1>4, <1>5, <1>6 DEF AreOrders
  <2> QED
    BY <2>1
<1>8. ASSUME NEW k \in DOMAIN o PROVE o[k] = p[k]
  <2>1. PICK e \in E : /\ OrderOf(e, k) /\ o[k] = e.value
                       /\ \A f \in E : OrderOf(f, k) => f = e \/ Before(f, e)
    BY <1>3, <1>4 DEF AreOrders
  <2>2. PICK f \in F : /\ OrderOf(f, k) /\ p[k] = f.value
                       /\ \A g \in F : OrderOf(g, k) => g = f \/ Before(g, f)
    BY <1>3, <1>5, <1>7 DEF AreOrders
  <2>3. e \in F /\ f \in E
    BY <1>6, <2>1
  <2>4. (f = e \/ Before(f, e)) /\ (e = f \/ Before(e, f))
    BY <2>1, <2>2, <2>3
  <2>5. ~(Before(f, e) /\ Before(e, f))
    BY <2>3, BeforeIsTotal
  <2> QED
    BY <2>1, <2>2, <2>4, <2>5
<1>9. o = p
  BY <1>4, <1>5, <1>7, <1>8 DEF AreOrders
<1> QED
  BY <1>1, <1>2, <1>9

\* A replay without order events leaves the orders as they are.
LEMMA OrdersStay ==
    ASSUME NEW E, IsEvidence(E), \A e \in E : e.kind # "order",
           NEW s, s.orders = [k \in DOMAIN s.orders |-> s.orders[k]]
    PROVE  Replay(s, E).orders = s.orders
<1>1. PICK o : o = Replay(s, E).orders
  OBVIOUS
<1>2. ~ \E e \in E : \E k : OrderOf(e, k)
  BY DEF OrderOf
<1>3. AreOrders(o, s.orders, E)
  BY <1>1, OrdersOf
<1>4. DOMAIN o = DOMAIN s.orders
  <2>1. \A k : k \in DOMAIN o <=> k \in DOMAIN s.orders
    BY <1>2, <1>3 DEF AreOrders
  <2> QED
    BY <2>1
<1>5. \A k \in DOMAIN o : o[k] = s.orders[k]
  BY <1>2, <1>3 DEF AreOrders
<1>6. o = s.orders
  BY <1>3, <1>4, <1>5 DEF AreOrders
<1> QED
  BY <1>1, <1>6

\* The bars of a replay.
LEMMA IdsOf ==
    ASSUME NEW E, IsEvidence(E), NEW s, NEW b \in Nat, Continues(b, E),
           s.ids \in Seq(Nat), Len(s.ids) = b, \A x \in 1..b : s.ids[x] = x,
           NEW ids, ids = Replay(s, E).ids
    PROVE  /\ ids \in Seq(Nat)
           /\ \A x \in 1..Len(ids) : ids[x] = x
           /\ \A x \in Nat \ {0} :
                 x <= Len(ids) <=> x <= b \/ \E e \in E : e.kind = "market" /\ e.id = x
<1> DEFINE n == Cardinality(E)
           S == Sorted(E)
<1>1. /\ \A l \in 1..n : S[l] \in E
      /\ \A f \in E : \E l \in 1..n : S[l] = f
  BY SortedFacts
<1>2. IdsAfter(ids, b, S, n)
  BY ReplayIds
<1> HIDE DEF n, S
<1>3. \A x : (\E l \in 1..n : BarAt(S, l, x)) <=> \E e \in E : e.kind = "market" /\ e.id = x
  BY <1>1 DEF BarAt
<1> QED
  BY <1>2, <1>3 DEF IdsAfter

----------------------------------------------------------------------------
(***************************************************************************)
(* Resuming                                                                *)
(***************************************************************************)

Covered == {e \in rows : InPrefix(e)}
Uncovered == {e \in rows : ~InPrefix(e)}

LEMMA SubsetsAreEvidence ==
    ASSUME RowsInv, NEW E, E \subseteq rows
    PROVE  IsEvidence(E)
BY FS_Subset DEF RowsInv, IsEvidence

\* All order events are covered by the latest checkpoint.
LEMMA OrdersResume ==
    ASSUME RowsInv
    PROVE  Resumed.orders = Clean.orders
<1>1. IsEvidence(rows) /\ IsEvidence(Covered) /\ IsEvidence(Uncovered)
  BY SubsetsAreEvidence DEF Covered, Uncovered
<1>2. \A e \in rows : e.kind = "order" => e \in Covered /\ e \notin Uncovered
  BY DEF RowsInv, Covered, Uncovered, InPrefix
<1>3. Covered \subseteq rows /\ Uncovered \subseteq rows
  BY DEF Covered, Uncovered
<1>4. Prefix = Replay(Fresh, Covered) /\ Clean = Replay(Fresh, rows)
      /\ Resumed = Replay(Prefix, Uncovered)
  BY DEF Prefix, Clean, Resumed, Covered, Uncovered
<1>5. Clean.orders = Prefix.orders
  BY <1>1, <1>2, <1>3, <1>4, SameOrders
<1>6. Prefix.orders = [k \in DOMAIN Prefix.orders |-> Prefix.orders[k]]
  <2>1. AreOrders(Prefix.orders, Fresh.orders, Covered)
    <3>1. Fresh.orders = [k \in DOMAIN Fresh.orders |-> Fresh.orders[k]]
      BY EmptyReplay
    <3> QED
      BY <1>1, <1>4, <3>1, OrdersOf
  <2> QED
    BY <2>1 DEF AreOrders
<1>7. \A e \in Uncovered : e.kind # "order"
  BY <1>2, <1>3
<1>8. Resumed.orders = Prefix.orders
  <2>1. PICK s : s = Prefix
    OBVIOUS
  <2>2. Replay(s, Uncovered).orders = s.orders
    BY <1>1, <1>6, <1>7, <2>1, OrdersStay
  <2> QED
    BY <1>4, <2>1, <2>2
<1> QED
  BY <1>5, <1>8

BarOf(E, x) == \E e \in E : e.kind = "market" /\ e.id = x

\* Every bar but the first follows another, which was written before it.
LEMMA BarsFollow ==
    ASSUME RowsInv, BarsInv, NEW e \in rows, e.kind = "market"
    PROVE  /\ e.id \in Nat \ {0}
           /\ e.id # 1 => \E f \in rows : /\ f.kind = "market" /\ f.id = e.id - 1
                                          /\ Before(f, e) /\ f.seq <= e.seq
           /\ \A f \in rows : f.kind = "market" /\ f.id = e.id => f = e
<1> DEFINE m == Cardinality(Bars)
<1>1. /\ \A b \in Bars : b.id \in 1..m
      /\ \A id \in 1..m : \E b \in Bars : b.id = id
      /\ \A a, b \in Bars : /\ a.id = b.id => a = b
                            /\ a.id <= b.id => a.at <= b.at /\ a.seq <= b.seq
  BY DEF BarsInv
<1>2. m \in Nat
  <2>1. IsFiniteSet(Bars)
    BY FS_Subset DEF RowsInv, Bars
  <2> QED
    BY <2>1, FS_CardinalityType
<1> HIDE DEF m
<1>3. e \in Bars /\ \A f \in rows : f.kind = "market" => f \in Bars
  BY DEF Bars
<1>4. ASSUME e.id # 1
      PROVE  \E f \in rows : /\ f.kind = "market" /\ f.id = e.id - 1
                             /\ Before(f, e) /\ f.seq <= e.seq
  <2>1. e.id - 1 \in 1..m
    BY <1>1, <1>2, <1>3, <1>4
  <2>2. PICK f \in Bars : f.id = e.id - 1
    BY <1>1, <2>1
  <2>3. f \in rows /\ f.kind = "market" /\ f \in Evidence /\ e \in Evidence
    BY DEF Bars, RowsInv
  <2>4. f.id \in Nat /\ e.id \in Nat /\ f.id < e.id
    BY <2>2, <2>3, KeyTypes
  <2>5. f.at <= e.at /\ f.seq <= e.seq
    BY <1>1, <1>3, <2>4
  <2>6. f.at \in Nat /\ e.at \in Nat
    BY <2>3, KeyTypes
  <2>7. Before(f, e)
    BY <2>3, <2>4, <2>5, <2>6, BeforeIs
  <2> QED
    BY <2>2, <2>3, <2>5, <2>7
<1>5. e.id \in 1..m
  BY <1>1, <1>3
<1> QED
  BY <1>1, <1>2, <1>3, <1>4, <1>5

\* The bars are numbered through, and what the latest checkpoint covers of
\* them is what was first.
LEMMA BarsResume ==
    ASSUME RowsInv, BarsInv, Latest \in Nat
    PROVE  Resumed.ids = Clean.ids
<1>1. IsEvidence(rows) /\ IsEvidence(Covered) /\ IsEvidence(Uncovered)
  BY SubsetsAreEvidence DEF Covered, Uncovered
<1>2. /\ Covered \subseteq rows /\ Uncovered \subseteq rows
      /\ \A e \in rows : e \in Covered \/ e \in Uncovered
      /\ \A e \in Uncovered : e \notin Covered
  BY DEF Covered, Uncovered
<1>3. Prefix = Replay(Fresh, Covered) /\ Clean = Replay(Fresh, rows)
      /\ Resumed = Replay(Prefix, Uncovered)
  BY DEF Prefix, Clean, Resumed, Covered, Uncovered
<1>4. \A e, f \in rows : e.kind = "market" /\ f.kind = "market" /\ f.seq <= e.seq
                             /\ e \in Covered => f \in Covered
  <2>1. \A e \in rows : e.seq \in Nat
    BY DEF RowsInv, Evidence
  <2> QED
    BY <2>1 DEF Covered, InPrefix
<1>5. /\ Fresh.ids \in Seq(Nat) /\ Len(Fresh.ids) = 0 /\ \A x \in 1..0 : Fresh.ids[x] = x
  BY EmptyReplay
<1>6. Continues(0, rows)
  <2>1. \A e \in rows : e.kind = "market" =>
           /\ e.id > 0
           /\ e.id = 0 + 1 \/ \E f \in rows : f.kind = "market" /\ f.id = e.id - 1 /\ Before(f, e)
    BY BarsFollow
  <2>2. \A e, f \in rows : e.kind = "market" /\ f.kind = "market" /\ e.id = f.id => e = f
    BY BarsFollow
  <2> QED
    BY <2>1, <2>2 DEF Continues
<1>7. Continues(0, Covered)
  <2>1. ASSUME NEW e \in Covered, e.kind = "market", e.id # 0 + 1
        PROVE  \E f \in Covered : f.kind = "market" /\ f.id = e.id - 1 /\ Before(f, e)
    <3>1. PICK f \in rows : /\ f.kind = "market" /\ f.id = e.id - 1
                            /\ Before(f, e) /\ f.seq <= e.seq
      BY <1>2, <2>1, BarsFollow
    <3>2. f \in Covered
      BY <1>2, <1>4, <2>1, <3>1
    <3> QED
      BY <3>1, <3>2
  <2>2. \A e \in Covered : e.kind = "market" => e.id > 0
    BY <1>2, BarsFollow
  <2>3. \A e, f \in Covered : e.kind = "market" /\ f.kind = "market" /\ e.id = f.id => e = f
    BY <1>2, BarsFollow
  <2> QED
    BY <2>1, <2>2, <2>3 DEF Continues
<1>8. PICK ids : ids = Clean.ids
  OBVIOUS
<1>9. /\ ids \in Seq(Nat) /\ \A x \in 1..Len(ids) : ids[x] = x
      /\ \A x \in Nat \ {0} : x <= Len(ids) <=> x <= 0 \/ BarOf(rows, x)
  BY <1>1, <1>3, <1>5, <1>6, <1>8, IdsOf DEF BarOf
<1>10. PICK first : first = Prefix.ids
  OBVIOUS
<1>11. /\ first \in Seq(Nat) /\ \A x \in 1..Len(first) : first[x] = x
       /\ \A x \in Nat \ {0} : x <= Len(first) <=> x <= 0 \/ BarOf(Covered, x)
  BY <1>1, <1>3, <1>5, <1>7, <1>10, IdsOf DEF BarOf
<1>12. PICK p : p = Len(first)
  OBVIOUS
<1>13. p \in Nat
  BY <1>11, <1>12
<1>14. Continues(p, Uncovered)
  <2>1. ASSUME NEW e \in Uncovered, e.kind = "market"
        PROVE  /\ e.id > p
               /\ e.id = p + 1 \/ \E f \in Uncovered : /\ f.kind = "market" /\ f.id = e.id - 1
                                                       /\ Before(f, e)
    <3>1. /\ e.id \in Nat \ {0}
          /\ e.id # 1 => \E f \in rows : /\ f.kind = "market" /\ f.id = e.id - 1
                                         /\ Before(f, e) /\ f.seq <= e.seq
          /\ \A f \in rows : f.kind = "market" /\ f.id = e.id => f = e
      BY <1>2, <2>1, BarsFollow
    <3>2. e.id > p
      <4> SUFFICES ASSUME e.id <= p PROVE FALSE
        BY <1>13, <3>1
      <4>1. PICK f \in Covered : f.kind = "market" /\ f.id = e.id
        BY <1>11, <1>12, <3>1 DEF BarOf
      <4> QED
        BY <1>2, <3>1, <4>1
    <3>3. ASSUME e.id # p + 1
          PROVE  \E f \in Uncovered : f.kind = "market" /\ f.id = e.id - 1 /\ Before(f, e)
      <4>1. e.id # 1 /\ e.id - 1 \in Nat \ {0} /\ e.id - 1 > p
        BY <1>13, <3>1, <3>2, <3>3
      <4>2. PICK f \in rows : f.kind = "market" /\ f.id = e.id - 1 /\ Before(f, e)
        BY <3>1, <4>1
      <4>3. f \notin Covered
        <5>1. ~BarOf(Covered, e.id - 1)
          BY <1>11, <1>12, <1>13, <4>1
        <5> QED
          BY <4>2, <5>1 DEF BarOf
      <4> QED
        BY <1>2, <4>2, <4>3
    <3> QED
      BY <3>2, <3>3
  <2>2. \A e, f \in Uncovered : e.kind = "market" /\ f.kind = "market" /\ e.id = f.id => e = f
    BY <1>2, BarsFollow
  <2> QED
    BY <2>1, <2>2 DEF Continues
<1>15. PICK all : all = Resumed.ids
  OBVIOUS
<1>16. /\ all \in Seq(Nat) /\ \A x \in 1..Len(all) : all[x] = x
       /\ \A x \in Nat \ {0} : x <= Len(all) <=> x <= p \/ BarOf(Uncovered, x)
  <2>1. PICK s : s = Prefix
    OBVIOUS
  <2>2. s.ids \in Seq(Nat) /\ Len(s.ids) = p /\ \A x \in 1..p : s.ids[x] = x
    BY <1>10, <1>11, <1>12, <2>1
  <2>3. all = Replay(s, Uncovered).ids
    BY <1>3, <1>15, <2>1
  <2> QED
    BY <1>1, <1>13, <1>14, <2>2, <2>3, IdsOf DEF BarOf
<1>17. \A x \in Nat \ {0} : x <= Len(all) <=> x <= Len(ids)
  <2> TAKE x \in Nat \ {0}
  <2>1. BarOf(rows, x) <=> BarOf(Covered, x) \/ BarOf(Uncovered, x)
    BY <1>2 DEF BarOf
  <2>2. ~(x <= 0)
    OBVIOUS
  <2> QED
    BY <1>9, <1>11, <1>12, <1>16, <2>1, <2>2
<1>18. Len(all) = Len(ids)
  <2>1. Len(all) \in Nat /\ Len(ids) \in Nat
    BY <1>9, <1>16
  <2>2. PICK x, y : x = Len(all) /\ y = Len(ids)
    OBVIOUS
  <2>3. \A z \in Nat \ {0} : z <= x <=> z <= y
    BY <1>17, <2>2
  <2>4. x \in Nat /\ y \in Nat
    BY <2>1, <2>2
  <2>5. (x # 0 => x <= y) /\ (y # 0 => y <= x)
    BY <2>3, <2>4
  <2> QED
    BY <2>2, <2>4, <2>5
<1>19. all = ids
  BY <1>9, <1>16, <1>18
<1> QED
  BY <1>8, <1>15, <1>19


----------------------------------------------------------------------------
(***************************************************************************)
(* What the steps do to the rows                                           *)
(***************************************************************************)

LEMMA RowsTypes ==
    ASSUME RowsInv
    PROVE  /\ Cardinality(rows) \in Nat
           /\ \A e \in rows : /\ e.at \in Nat /\ e.id \in Nat /\ e.seq \in Nat /\ e.n \in Nat
                              /\ e.kind \in {"market", "order", "position"}
BY FS_CardinalityType DEF RowsInv, Evidence

\* A row is added with the next number.
LEMMA RowsGrow ==
    ASSUME RowsInv, Latest \in Nat, Latest' \in Nat, Latest <= Latest',
           NEW r \in Evidence, r.n = Cardinality(rows) + 1, r.seq <= Latest',
           rows' = rows \cup {r}
    PROVE  RowsInv' /\ Cardinality(rows') = Cardinality(rows) + 1 /\ r \notin rows
<1> DEFINE c == Cardinality(rows)
<1>1. /\ rows \subseteq Evidence /\ IsFiniteSet(rows)
      /\ \A e \in rows : e.n <= c /\ e.seq <= Latest
      /\ \A e, f \in rows : e.n = f.n => e = f
  BY DEF RowsInv
<1>2. c \in Nat /\ \A e \in rows : e.n \in Nat /\ e.seq \in Nat
  BY RowsTypes
<1> HIDE DEF c
<1>3. r.n = c + 1
  BY DEF c
<1>4. r \notin rows
  BY <1>1, <1>2, <1>3
<1>5. IsFiniteSet(rows') /\ Cardinality(rows') = c + 1
  BY <1>1, <1>4, FS_AddElement DEF c
<1>6. rows' \subseteq Evidence
  BY <1>1
<1>7. \A e \in rows' : e.n <= c + 1 /\ e.seq <= Latest'
  <2> TAKE e \in rows'
  <2>1. CASE e \in rows
    <3>1. e.n <= c /\ e.seq <= Latest /\ e.n \in Nat /\ e.seq \in Nat
      BY <1>1, <1>2, <2>1
    <3> QED
      BY <1>2, <3>1
  <2>2. CASE e = r
    BY <1>2, <1>3, <2>2
  <2> QED
    BY <2>1, <2>2
<1>8. \A e, f \in rows' : e.n = f.n => e = f
  <2>1. \A e \in rows : e.n # r.n
    BY <1>1, <1>2, <1>3
  <2> QED
    BY <1>1, <2>1
<1>9. RowsInv'
  <2>1. \A e \in rows' : e.n <= Cardinality(rows') /\ e.seq <= Latest'
    BY <1>5, <1>7
  <2> QED
    BY <1>5, <1>6, <1>8, <2>1 DEF RowsInv
<1> QED
  BY <1>4, <1>5, <1>9 DEF c

\* The bars stay when no bar is added.
LEMMA BarsStay ==
    ASSUME RowsInv, BarsInv, now \in Nat, now' \in Nat, now <= now',
           NEW R, rows' = rows \cup R, \A r \in R : r.kind # "market"
    PROVE  BarsInv'
<1>1. Bars' = Bars
  BY DEF Bars
<1>2. \A b \in Bars : b.at \in Nat
  BY RowsTypes DEF Bars
<1>3. \A b \in Bars : b.at <= now'
  <2>1. \A b \in Bars : b.at <= now
    BY DEF BarsInv
  <2> QED
    BY <1>2, <2>1
<1> QED
  BY <1>1, <1>3 DEF BarsInv

\* A call keeps what it knows while nothing is written.
LEMMA CallsStay ==
    ASSUME NEW t, TaskInv(t), UNCHANGED <<rows, checkpoints>>
    PROVE  TaskInv(t)'
<1>1. Latest' = Latest
  BY DEF Latest
<1>2. \A o, seq : OrderRows(o, seq)' = OrderRows(o, seq)
  BY DEF OrderRows, Row
<1> QED
  BY <1>1, <1>2 DEF TaskInv

\* What it has replayed is old once a row is written.
LEMMA CallsAge ==
    ASSUME NEW t, TaskInv(t), t.seq \in Nat, t.known \in Nat,
           Cardinality(rows) \in Nat, Latest \in Nat,
           Cardinality(rows') = Cardinality(rows) + 1, UNCHANGED checkpoints
    PROVE  TaskInv(t)'
<1>1. Latest' = Latest
  BY DEF Latest
<1>2. PICK c \in Nat : c = Cardinality(rows)
  OBVIOUS
<1>3. Cardinality(rows') = c + 1
  BY <1>2
<1>4. t.phase = "record" => t.known <= c /\ t.seq <= Latest + 1
  BY <1>2 DEF TaskInv
<1>5. t.phase = "record" => t.known <= c + 1 /\ t.known # c + 1
  BY <1>4
<1> QED
  BY <1>1, <1>3, <1>4, <1>5 DEF TaskInv

\* It is old as well once a checkpoint has its number.
LEMMA CallsMiss ==
    ASSUME NEW t, TaskInv(t), t.seq \in Nat, t.known \in Nat,
           Cardinality(rows) \in Nat, Cardinality(rows') \in Nat, Latest \in Nat,
           Cardinality(rows) <= Cardinality(rows'), Latest' = Latest + 1
    PROVE  TaskInv(t)'
<1>1. t.phase = "record" => t.known <= Cardinality(rows) /\ t.seq <= Latest + 1
  BY DEF TaskInv
<1>2. t.phase = "record" =>
         /\ t.known <= Cardinality(rows')
         /\ t.seq <= Latest' + 1 /\ t.seq # Latest' + 1
  BY <1>1
<1> QED
  BY <1>2 DEF TaskInv

\* The latest checkpoint does not cover what is written after it.
LEMMA VerifiesStays ==
    ASSUME CheckpointVerifies, Latest \in Nat, UNCHANGED checkpoints,
           NEW R, rows' = rows \cup R, \A r \in R : r.kind # "order" /\ r.seq = Latest
    PROVE  CheckpointVerifies'
<1>1. Latest' = Latest
  BY DEF Latest
<1>2. \A e : InPrefix(e)' <=> InPrefix(e)
  BY <1>1 DEF InPrefix
<1>3. \A r \in R : ~InPrefix(r)
  BY DEF InPrefix
<1>4. {e \in rows : InPrefix(e)}' = {e \in rows : InPrefix(e)}
  BY <1>2, <1>3
<1>5. Prefix' = Prefix
  BY <1>4 DEF Prefix
<1> QED
  BY <1>1, <1>5 DEF CheckpointVerifies

----------------------------------------------------------------------------
(***************************************************************************)
(* The invariant is inductive                                              *)
(***************************************************************************)

CallsInv ==
    \A w \in Writers : task[w] # None => task[w] \in Calls(task[w].state) /\ TaskInv(task[w])

TypesInv ==
    /\ now \in Nat /\ held \in Nat
    /\ AreOrderStates(published)
    /\ checkpoints \in Seq(ToSet(checkpoints))
    /\ DOMAIN task = Writers

LEMMA InvariantParts ==
    RecoveryInv <=> TypesInv /\ RowsInv /\ BarsInv /\ CallsInv /\ CheckpointVerifies
BY DEF RecoveryInv, TypesInv, CallsInv

LEMMA LatestIsNat ==
    ASSUME TypesInv
    PROVE  Latest \in Nat
<1>1. PICK S : S = ToSet(checkpoints)
  OBVIOUS
<1>2. checkpoints \in Seq(S)
  BY <1>1 DEF TypesInv
<1> QED
  BY <1>2 DEF Latest

LEMMA CallTypes ==
    ASSUME CallsInv, NEW w \in Writers, task[w] # None
    PROVE  /\ task[w].op \in {"entry", "update", "closeout"}
           /\ task[w].phase \in {"submit", "read", "record", "snapshot"}
           /\ task[w].at \in Nat /\ task[w].seq \in Nat /\ task[w].known \in Nat
           /\ task[w].order \in Orders \cup {None}
           /\ TaskInv(task[w])
<1>1. PICK t : t = task[w]
  OBVIOUS
<1>2. t \in Calls(t.state) /\ TaskInv(t)
  BY <1>1 DEF CallsInv
<1>3. /\ t.op \in {"entry", "update", "closeout"}
      /\ t.phase \in {"submit", "read", "record", "snapshot"}
      /\ t.at \in Nat /\ t.seq \in Nat /\ t.known \in Nat
      /\ t.order \in Orders \cup {None}
  BY <1>2 DEF Calls
<1> QED
  BY <1>1, <1>2, <1>3

\* The calls after a step that changes at most the call of w.
LEMMA OneCall ==
    ASSUME NEW w \in Writers, DOMAIN task = Writers, NEW t, task' = [task EXCEPT ![w] = t],
           t # None => t \in Calls(t.state) /\ TaskInv(t)',
           \A v \in Writers : v # w /\ task[v] # None =>
               task[v] \in Calls(task[v].state) /\ \E u : u = task[v] /\ TaskInv(u)'
    PROVE  CallsInv' /\ DOMAIN task' = Writers
<1>1. ASSUME NEW v \in Writers, task'[v] # None
      PROVE  task'[v] \in Calls(task'[v].state) /\ TaskInv(task[v])'
  <2>1. PICK u : u = task'[v]
    OBVIOUS
  <2>2. u \in Calls(u.state) /\ TaskInv(u)'
    <3>1. CASE v = w
      <4>1. u = t
        BY <2>1, <3>1
      <4> QED
        BY <1>1, <2>1, <4>1
    <3>2. CASE v # w
      <4>1. u = task[v]
        BY <2>1, <3>2
      <4> QED
        BY <1>1, <2>1, <3>2, <4>1
    <3> QED
      BY <3>1, <3>2
  <2> QED
    BY <2>1, <2>2
<1>2. CallsInv'
  BY <1>1 DEF CallsInv
<1> QED
  BY <1>2

\* A call that goes on, or a step of nobody.
LEMMA OtherCalls ==
    ASSUME CallsInv,
           \A t : t \in Calls(t.state) /\ TaskInv(t) => TaskInv(t)'
    PROVE  \A v \in Writers : task[v] # None =>
               task[v] \in Calls(task[v].state) /\ \E u : u = task[v] /\ TaskInv(u)'
<1> TAKE v \in Writers
<1> HAVE task[v] # None
<1>1. PICK u : u = task[v]
  OBVIOUS
<1>2. u \in Calls(u.state) /\ TaskInv(u)
  BY <1>1 DEF CallsInv
<1> QED
  BY <1>1, <1>2

LEMMA NoCall ==
    ASSUME CallsInv, DOMAIN task = Writers, UNCHANGED task,
           \A t : t \in Calls(t.state) /\ TaskInv(t) => TaskInv(t)'
    PROVE  CallsInv'
<1>1. \A v \in Writers : task[v] # None =>
         task[v] \in Calls(task[v].state) /\ \E u : u = task[v] /\ TaskInv(u)'
  BY OtherCalls
<1>2. ASSUME NEW v \in Writers, task'[v] # None
      PROVE  task'[v] \in Calls(task'[v].state) /\ TaskInv(task[v])'
  <2>1. PICK u : u = task'[v]
    OBVIOUS
  <2>2. u = task[v] /\ u # None
    BY <1>2, <2>1
  <2>3. u \in Calls(u.state) /\ TaskInv(u)'
    BY <1>1, <2>2
  <2> QED
    BY <2>1, <2>3
<1> QED
  BY <1>2 DEF CallsInv

LEMMA InitInv == Init => RecoveryInv
<1> SUFFICES ASSUME Init PROVE RecoveryInv
  OBVIOUS
<1>1. Bars = {} /\ Cardinality(Bars) = 0
  BY FS_EmptySet DEF Init, Bars
<1>2. BarsInv
  BY <1>1 DEF BarsInv
<1>3. RowsInv
  BY FS_EmptySet DEF Init, RowsInv
<1>4. TypesInv
  BY FS_EmptySet DEF Init, TypesInv, AreOrderStates
<1>5. CallsInv
  BY DEF Init, CallsInv
<1>6. CheckpointVerifies
  BY DEF Init, CheckpointVerifies, Latest
<1> QED
  BY <1>2, <1>3, <1>4, <1>5, <1>6, InvariantParts

\* A step that writes nothing.
LEMMA NothingWritten ==
    ASSUME RecoveryInv, UNCHANGED <<rows, checkpoints>>, now' \in Nat, now <= now'
    PROVE  /\ RowsInv' /\ BarsInv' /\ CheckpointVerifies'
           /\ checkpoints' \in Seq(ToSet(checkpoints'))
           /\ \A t : t \in Calls(t.state) /\ TaskInv(t) => TaskInv(t)'
<1>1. TypesInv /\ RowsInv /\ BarsInv /\ CheckpointVerifies
  BY InvariantParts
<1>2. RowsInv'
  BY <1>1 DEF RowsInv, Latest
<1>3. BarsInv'
  <2>1. PICK R : R = {}
    OBVIOUS
  <2>2. rows' = rows \cup R /\ now \in Nat /\ \A r \in R : r.kind # "market"
    BY <1>1, <2>1 DEF TypesInv
  <2> QED
    BY <1>1, <2>2, BarsStay
<1>4. CheckpointVerifies'
  BY <1>1 DEF CheckpointVerifies, Prefix, InPrefix, Latest
<1>5. checkpoints' \in Seq(ToSet(checkpoints'))
  BY <1>1 DEF TypesInv
<1> QED
  BY <1>2, <1>3, <1>4, <1>5, CallsStay

\* A row that is no order event is written, by a snapshot or as a bar.
LEMMA RowWritten ==
    ASSUME RecoveryInv, UNCHANGED checkpoints, NEW r \in Evidence, rows' = rows \cup {r},
           r.kind # "order", r.seq = Latest, r.n = Cardinality(rows) + 1
    PROVE  /\ RowsInv' /\ CheckpointVerifies' /\ r \notin rows
           /\ checkpoints' \in Seq(ToSet(checkpoints'))
           /\ \A t : t \in Calls(t.state) /\ TaskInv(t) => TaskInv(t)'
<1>1. TypesInv /\ RowsInv /\ CheckpointVerifies /\ Latest \in Nat
  BY InvariantParts, LatestIsNat
<1>2. Latest' = Latest
  BY DEF Latest
<1>3. RowsInv' /\ Cardinality(rows') = Cardinality(rows) + 1 /\ r \notin rows
  BY <1>1, <1>2, RowsGrow
<1>4. CheckpointVerifies'
  <2>1. PICK R : R = {r}
    OBVIOUS
  <2>2. rows' = rows \cup R /\ \A e \in R : e.kind # "order" /\ e.seq = Latest
    BY <2>1
  <2> QED
    BY <1>1, <2>2, VerifiesStays
<1>5. Cardinality(rows) \in Nat
  BY <1>1, RowsTypes
<1>6. ASSUME NEW t, t \in Calls(t.state), TaskInv(t) PROVE TaskInv(t)'
  <2>1. t.seq \in Nat /\ t.known \in Nat
    BY <1>6 DEF Calls
  <2> QED
    BY <1>1, <1>3, <1>5, <1>6, <2>1, CallsAge
<1>7. checkpoints' \in Seq(ToSet(checkpoints'))
  BY <1>1 DEF TypesInv
<1> QED
  BY <1>3, <1>4, <1>6, <1>7

\* What Row makes.
IsRow(r, kind, at, id, value, seq) ==
    /\ r \in Evidence /\ r.kind = kind /\ r.at = at /\ r.id = id
    /\ r.value = value /\ r.seq = seq /\ r.n = Cardinality(rows) + 1

LEMMA RowIsEvidence ==
    ASSUME RowsInv, NEW kind \in {"market", "order", "position"}, NEW at \in Nat, NEW id \in Nat,
           NEW value \in Nat, NEW seq \in Nat
    PROVE  IsRow(Row(kind, at, id, value, seq), kind, at, id, value, seq)
<1>1. PICK n : n = Cardinality(rows) + 1
  OBVIOUS
<1>2. n \in Nat
  BY <1>1, RowsTypes
<1> QED
  BY <1>1, <1>2 DEF Row, Evidence, IsRow

LEMMA SnapshotWritten ==
    ASSUME RecoveryInv, UNCHANGED checkpoints, now' \in Nat, now <= now',
           NEW at \in Nat, NEW id \in Nat, AppendSnapshot(at, id, held)
    PROVE  /\ RowsInv' /\ BarsInv' /\ CheckpointVerifies'
           /\ checkpoints' \in Seq(ToSet(checkpoints'))
           /\ \A t : t \in Calls(t.state) /\ TaskInv(t) => TaskInv(t)'
<1>1. TypesInv /\ RowsInv /\ BarsInv /\ Latest \in Nat /\ now \in Nat /\ held \in Nat
  BY InvariantParts, LatestIsNat DEF TypesInv
<1>2. PICK r : r = Row("position", at, id, held, Latest)
  OBVIOUS
<1>3. /\ r \in Evidence /\ r.kind = "position" /\ r.seq = Latest
      /\ r.n = Cardinality(rows) + 1
  <2>1. IsRow(r, "position", at, id, held, Latest)
    BY <1>1, <1>2, RowIsEvidence
  <2> QED
    BY <2>1 DEF IsRow
<1>4. rows' = rows \cup {r}
  BY <1>2 DEF AppendSnapshot
<1>5. BarsInv'
  <2>1. PICK R : R = {r}
    OBVIOUS
  <2>2. rows' = rows \cup R /\ \A e \in R : e.kind # "market"
    BY <1>3, <1>4, <2>1
  <2> QED
    BY <1>1, <2>2, BarsStay
<1> QED
  BY <1>3, <1>4, <1>5, RowWritten

\* The last bar is followed by the new one.
LEMMA BarWritten ==
    ASSUME RecoveryInv, now' \in Nat, now <= now',
           NEW r \in Evidence, r \notin rows, rows' = rows \cup {r},
           r.kind = "market", r.id = Cardinality(Bars) + 1, r.seq = Latest, r.at <= now',
           \A b \in Bars : b.at <= r.at
    PROVE  BarsInv'
<1>1. RowsInv /\ BarsInv /\ now \in Nat
  BY InvariantParts DEF TypesInv
<1>2. PICK m : m = Cardinality(Bars)
  OBVIOUS
<1>3. IsFiniteSet(Bars) /\ m \in Nat
  <2>1. IsFiniteSet(Bars)
    BY <1>1, FS_Subset DEF RowsInv, Bars
  <2> QED
    BY <1>2, <2>1, FS_CardinalityType
<1>4. Bars' = Bars \cup {r} /\ r \notin Bars
  BY DEF Bars
<1>5. Cardinality(Bars') = m + 1
  <2>1. Cardinality(Bars \cup {r}) = m + 1
    BY <1>2, <1>3, <1>4, FS_AddElement
  <2> QED
    BY <1>4, <2>1
<1>6. /\ \A b \in Bars : b.at <= now /\ b.id \in 1..m
      /\ \A id \in 1..m : \E b \in Bars : b.id = id
      /\ \A a, b \in Bars : /\ a.id = b.id => a = b
                            /\ a.id <= b.id => a.at <= b.at /\ a.seq <= b.seq
  BY <1>1, <1>2 DEF BarsInv
<1>7. \A b \in Bars : b.at \in Nat /\ b.seq \in Nat /\ b.seq <= Latest
  BY <1>1, RowsTypes DEF RowsInv, Bars
<1>8. r.id = m + 1 /\ r.at \in Nat /\ r.seq \in Nat
  BY <1>2, KeyTypes DEF Evidence
<1>9. \A b \in Bars' : b.at <= now' /\ b.id \in 1..(m + 1)
  <2>1. \A b \in Bars : b.at <= now' /\ b.id \in 1..(m + 1)
    BY <1>1, <1>3, <1>6, <1>7
  <2>2. r.id \in 1..(m + 1)
    BY <1>3, <1>8
  <2> QED
    BY <1>4, <2>1, <2>2
<1>10. \A id \in 1..(m + 1) : \E b \in Bars' : b.id = id
  <2> TAKE id \in 1..(m + 1)
  <2>1. id = m + 1 \/ id \in 1..m
    BY <1>3
  <2> QED
    BY <1>4, <1>6, <1>8, <2>1
<1>11. ASSUME NEW a \in Bars', NEW b \in Bars'
       PROVE  /\ a.id = b.id => a = b
              /\ a.id <= b.id => a.at <= b.at /\ a.seq <= b.seq
  <2>1. CASE a \in Bars /\ b \in Bars
    BY <1>6, <2>1
  <2>2. CASE a \in Bars /\ b = r
    <3>1. a.id \in 1..m /\ b.id = m + 1 /\ a.at <= b.at /\ a.seq <= b.seq
      BY <1>6, <1>7, <1>8, <2>2
    <3> QED
      BY <1>3, <3>1
  <2>3. CASE a = r /\ b \in Bars
    <3>1. b.id \in 1..m /\ a.id = m + 1
      BY <1>6, <1>8, <2>3
    <3> QED
      BY <1>3, <3>1
  <2>4. CASE a = r /\ b = r
    BY <1>8, <2>4
  <2> QED
    BY <1>4, <1>11, <2>1, <2>2, <2>3, <2>4
<1> QED
  BY <1>5, <1>9, <1>10, <1>11 DEF BarsInv

\* A step that changes at most the call of w.
CallSteps ==
    \/ UNCHANGED task
    \/ \E w \in Writers : \E t : /\ task' = [task EXCEPT ![w] = t]
                                 /\ t # None => t \in Calls(t.state) /\ TaskInv(t)

LEMMA StepInv ==
    ASSUME RecoveryInv,
           RowsInv' /\ BarsInv' /\ CheckpointVerifies',
           checkpoints' \in Seq(ToSet(checkpoints')),
           \A t : t \in Calls(t.state) /\ TaskInv(t) => TaskInv(t)',
           now' \in Nat, held' \in Nat, AreOrderStates(published'), CallSteps
    PROVE  RecoveryInv'
<1>1. TypesInv /\ CallsInv /\ DOMAIN task = Writers
  BY InvariantParts DEF TypesInv
<1>2. CallsInv' /\ DOMAIN task' = Writers
  <2>1. CASE UNCHANGED task
    BY <1>1, <2>1, NoCall
  <2>2. CASE \E w \in Writers : \E t : /\ task' = [task EXCEPT ![w] = t]
                                       /\ t # None => t \in Calls(t.state) /\ TaskInv(t)
    <3>1. PICK w \in Writers : \E t : /\ task' = [task EXCEPT ![w] = t]
                                      /\ t # None => t \in Calls(t.state) /\ TaskInv(t)
      BY <2>2
    <3>2. PICK t : /\ task' = [task EXCEPT ![w] = t]
                   /\ t # None => t \in Calls(t.state) /\ TaskInv(t)
      BY <3>1
    <3>3. t # None => t \in Calls(t.state) /\ TaskInv(t)'
      BY <3>2
    <3>4. \A v \in Writers : v # w /\ task[v] # None =>
             task[v] \in Calls(task[v].state) /\ \E u : u = task[v] /\ TaskInv(u)'
      BY <1>1, OtherCalls
    <3> QED
      BY <1>1, <3>2, <3>3, <3>4, OneCall
  <2> QED
    BY <2>1, <2>2 DEF CallSteps
<1>3. TypesInv'
  BY <1>2 DEF TypesInv
<1>4. (RecoveryInv <=> TypesInv /\ RowsInv /\ BarsInv /\ CallsInv /\ CheckpointVerifies)'
  BY InvariantParts, PTL
<1> QED
  BY <1>2, <1>3, <1>4

LEMMA QuietStep ==
    ASSUME RecoveryInv, UNCHANGED <<rows, checkpoints>>,
           now' \in Nat, now <= now', held' \in Nat, AreOrderStates(published'),
           CallSteps
    PROVE  RecoveryInv'
<1>1. /\ RowsInv' /\ BarsInv' /\ CheckpointVerifies'
      /\ checkpoints' \in Seq(ToSet(checkpoints'))
      /\ \A t : t \in Calls(t.state) /\ TaskInv(t) => TaskInv(t)'
  BY NothingWritten
<1> QED
  BY <1>1, StepInv

\* The calls that write nothing.

LEMMA ReadingIsLater ==
    ASSUME RecoveryInv, now' = now + 1
    PROVE  now \in Nat /\ now' \in Nat /\ now <= now'
BY InvariantParts DEF TypesInv

LEMMA CallIsCall ==
    ASSUME NEW op \in {"entry", "update", "closeout"}, NEW at \in Nat
    PROVE  Call(op, at) \in Calls(Call(op, at).state) /\ TaskInv(Call(op, at))
BY DEF Call, Calls, TaskInv

LEMMA EndInv ==
    ASSUME RecoveryInv, NEW w \in Writers, End(w),
           UNCHANGED <<now, published, held, rows, checkpoints>>
    PROVE  RecoveryInv'
<1>1. now \in Nat /\ held \in Nat /\ AreOrderStates(published)
  BY InvariantParts DEF TypesInv
<1>2. \E t : task' = [task EXCEPT ![w] = t] /\ t = None
  BY DEF End
<1>3. now' \in Nat /\ now <= now' /\ held' \in Nat /\ AreOrderStates(published')
  BY <1>1
<1>4. UNCHANGED <<rows, checkpoints>>
  OBVIOUS
<1>5. \E v \in Writers : \E t : /\ task' = [task EXCEPT ![v] = t]
                                /\ t # None => t \in Calls(t.state) /\ TaskInv(t)
  BY <1>2
<1> QED
  BY <1>3, <1>4, <1>5, QuietStep DEF CallSteps

LEMMA FillInv ==
    ASSUME RecoveryInv, Fill
    PROVE  RecoveryInv'
<1>1. now \in Nat /\ held \in Nat /\ AreOrderStates(published)
  BY InvariantParts DEF TypesInv
<1>2. now' = now + 1 /\ UNCHANGED <<rows, checkpoints, task>>
  BY DEF Fill
<1>3. PICK o \in published : /\ published' = published \cup {[o EXCEPT !.at = now + 1, !.value = 1]}
                             /\ held' = IF o.id = ExitKey THEN 0 ELSE held + 1
  BY DEF Fill
<1>4. held' \in Nat
  BY <1>1, <1>3
<1>5. AreOrderStates(published')
  <2>1. o \in Orders /\ now + 1 \in Nat
    BY <1>1, <1>3 DEF AreOrderStates
  <2>2. [o EXCEPT !.at = now + 1, !.value = 1] \in Orders
    BY <2>1 DEF Orders
  <2> QED
    BY <1>1, <1>3, <2>2, FS_AddElement DEF AreOrderStates
<1> QED
  BY <1>1, <1>2, <1>4, <1>5, ReadingIsLater, QuietStep DEF CallSteps

LEMMA CallEntryInv ==
    ASSUME RecoveryInv, CallEntry
    PROVE  RecoveryInv'
<1>1. now \in Nat /\ held \in Nat /\ AreOrderStates(published)
  BY InvariantParts DEF TypesInv
<1>2. now' = now + 1 /\ UNCHANGED <<published, held, rows, checkpoints>>
  BY DEF CallEntry
<1>3. PICK w \in Writers : w = Runner
  BY DEF Writers
<1>4. PICK t : t = Call("entry", now + 1)
  OBVIOUS
<1>5. task' = [task EXCEPT ![w] = t]
  BY <1>3, <1>4 DEF CallEntry
<1>6. t \in Calls(t.state) /\ TaskInv(t)
  BY <1>1, <1>4, CallIsCall
<1> QED
  BY <1>1, <1>2, <1>5, <1>6, ReadingIsLater, QuietStep DEF CallSteps

LEMMA CallUpdateInv ==
    ASSUME RecoveryInv, CallUpdate
    PROVE  RecoveryInv'
<1>1. now \in Nat /\ held \in Nat /\ AreOrderStates(published)
  BY InvariantParts DEF TypesInv
<1>2. now' = now + 1 /\ UNCHANGED <<published, held, rows, checkpoints>>
  BY DEF CallUpdate
<1>3. PICK w \in Writers : w = Runner
  BY DEF Writers
<1>4. PICK o \in published :
         task' = [task EXCEPT ![Runner] =
                     [Call("update", now + 1) EXCEPT !.phase = "read", !.order = o]]
  BY DEF CallUpdate
<1>5. PICK t : t = [Call("update", now + 1) EXCEPT !.phase = "read", !.order = o]
  OBVIOUS
<1>6. task' = [task EXCEPT ![w] = t]
  BY <1>3, <1>4, <1>5
<1>7. t = [op |-> "update", phase |-> "read", at |-> now + 1, order |-> o, state |-> Fresh,
           seq |-> 0, known |-> 0]
  BY <1>5 DEF Call
<1>8. o \in Orders /\ now + 1 \in Nat
  BY <1>1, <1>4 DEF AreOrderStates
<1>9. t \in Calls(t.state) /\ TaskInv(t)
  BY <1>7, <1>8 DEF Calls, TaskInv
<1> QED
  BY <1>1, <1>2, <1>6, <1>9, ReadingIsLater, QuietStep DEF CallSteps

LEMMA SubmitInv ==
    ASSUME RecoveryInv, NEW w \in Writers, NEW key \in Nat, Submit(w, key)
    PROVE  RecoveryInv'
<1>1. /\ now \in Nat /\ held \in Nat /\ AreOrderStates(published)
      /\ CallsInv /\ DOMAIN task = Writers
  BY InvariantParts DEF TypesInv
<1>2. now' = now + 1 /\ UNCHANGED <<rows, checkpoints>> /\ task[w] # None
  BY DEF Submit
<1>3. PICK filled \in {0, 1} :
         LET o == [op |-> "order", id |-> key, at |-> now + 1, value |-> filled]
         IN  /\ published' = published \cup {o}
             /\ held' = IF filled = 0 THEN held ELSE IF key = ExitKey THEN 0 ELSE held + 1
             /\ task' = [task EXCEPT ![w].phase = "read", ![w].order = o]
  BY DEF Submit
<1>4. PICK o : o = [op |-> "order", id |-> key, at |-> now + 1, value |-> filled]
  OBVIOUS
<1>5. o \in Orders
  BY <1>1, <1>3, <1>4 DEF Orders
<1>6. AreOrderStates(published')
  BY <1>1, <1>3, <1>4, <1>5, FS_AddElement DEF AreOrderStates
<1>7. held' \in Nat
  BY <1>1, <1>3
<1>8. PICK t : t = task[w]
  OBVIOUS
<1>9. t \in Calls(t.state)
  BY <1>1, <1>2, <1>8 DEF CallsInv
<1>10. PICK u : u = [t EXCEPT !.phase = "read", !.order = o]
  OBVIOUS
<1>11. task' = [task EXCEPT ![w] = u]
  BY <1>1, <1>3, <1>4, <1>8, <1>10
<1>12. u \in Calls(u.state) /\ TaskInv(u)
  <2>1. u \in Calls(t.state) /\ u.phase = "read" /\ u.order = o /\ u.state = t.state
    BY <1>5, <1>9, <1>10 DEF Calls
  <2> QED
    BY <1>5, <2>1 DEF TaskInv
<1> QED
  BY <1>1, <1>2, <1>6, <1>7, <1>11, <1>12, ReadingIsLater, QuietStep DEF CallSteps

\* What a call reads is what its checkpoint will cover.
LEMMA ReadInv ==
    ASSUME RecoveryInv, NEW w \in Writers, Read(w)
    PROVE  RecoveryInv'
<1>1. /\ now \in Nat /\ held \in Nat /\ AreOrderStates(published)
      /\ TypesInv /\ RowsInv /\ CallsInv /\ DOMAIN task = Writers
  BY InvariantParts DEF TypesInv
<1>2. UNCHANGED <<now, published, held, rows, checkpoints>>
      /\ task[w] # None /\ task[w].phase = "read"
  BY DEF Read
<1>3. PICK t : t = task[w]
  OBVIOUS
<1>4. t \in Calls(t.state) /\ TaskInv(t) /\ t.phase = "read"
  BY <1>1, <1>2, <1>3 DEF CallsInv
<1>5. t.order \in Orders
  BY <1>4 DEF TaskInv
<1>6. PICK state : state = Replay(Fresh, rows \cup OrderRows(t.order, Latest + 1))
  OBVIOUS
<1>7. PICK seq \in Nat, known \in Nat : seq = Latest + 1 /\ known = Cardinality(rows)
  BY <1>1, RowsTypes, LatestIsNat
<1>8. PICK u : u = [t EXCEPT !.phase = "record", !.state = state, !.seq = seq, !.known = known]
  OBVIOUS
<1>9. task' = [task EXCEPT ![w] = u]
  <2>1. task' = [task EXCEPT ![w].phase = "record",
                             ![w].state =
                                Replay(Fresh, rows \cup OrderRows(task[w].order, Latest + 1)),
                             ![w].seq = Latest + 1,
                             ![w].known = Cardinality(rows)]
    BY DEF Read
  <2>2. Replay(Fresh, rows \cup OrderRows(task[w].order, Latest + 1)) = state
    BY <1>3, <1>6
  <2> QED
    BY <1>1, <1>3, <1>7, <1>8, <2>1, <2>2
<1>10. /\ u \in Calls(state) /\ u.phase = "record" /\ u.order = t.order /\ u.state = state
       /\ u.seq = seq /\ u.known = known
  BY <1>4, <1>7, <1>8 DEF Calls
<1>11. TaskInv(u)
  <2>1. u.seq <= Latest + 1 /\ u.known <= Cardinality(rows)
    BY <1>7, <1>10
  <2>2. u.state = Replay(Fresh, rows \cup OrderRows(u.order, u.seq))
    BY <1>6, <1>7, <1>10
  <2> QED
    BY <1>5, <1>10, <2>1, <2>2 DEF TaskInv
<1>12. now' \in Nat /\ now <= now' /\ held' \in Nat /\ AreOrderStates(published')
  BY <1>1, <1>2
<1>13. u \in Calls(u.state)
  BY <1>10
<1>14. \E v \in Writers : \E x : /\ task' = [task EXCEPT ![v] = x]
                                 /\ x # None => x \in Calls(x.state) /\ TaskInv(x)
  BY <1>9, <1>11, <1>13
<1> QED
  BY <1>2, <1>12, <1>14, QuietStep DEF CallSteps

LEMMA BarStep ==
    ASSUME RecoveryInv, Bar
    PROVE  RecoveryInv'
<1>1. /\ TypesInv /\ RowsInv /\ BarsInv /\ Latest \in Nat
      /\ now \in Nat /\ held \in Nat /\ AreOrderStates(published)
  BY InvariantParts, LatestIsNat DEF TypesInv
<1>2. PICK id : id = Cardinality(Bars) + 1
  OBVIOUS
<1>3. IsFiniteSet(Bars) /\ id \in Nat
  <2>1. IsFiniteSet(Bars)
    BY <1>1, FS_Subset DEF RowsInv, Bars
  <2> QED
    BY <1>2, <2>1, FS_CardinalityType
<1>4. UNCHANGED <<published, held, checkpoints, task>>
  BY DEF Bar
<1>5. PICK at \in Nat : /\ rows' = rows \cup {Row("market", at, id, 0, Latest)}
                        /\ now' \in Nat /\ now <= now' /\ at <= now'
                        /\ \A b \in Bars : b.at <= at
  <2>1. \A b \in Bars : b.at <= now /\ b.at \in Nat /\ b.id \in Nat
    BY <1>1, RowsTypes DEF BarsInv, Bars
  <2>2. CASE /\ now' = now + 1
             /\ rows' = rows \cup {Row("market", now + 1, id, 0, Latest)}
    BY <1>1, <2>1, <2>2
  <2>3. ASSUME NEW b \in Bars, b.id = id - 1, now' = now,
               rows' = rows \cup {Row("market", b.at, id, 0, Latest)}
        PROVE  \E at \in Nat : /\ rows' = rows \cup {Row("market", at, id, 0, Latest)}
                               /\ now' \in Nat /\ now <= now' /\ at <= now'
                               /\ \A a \in Bars : a.at <= at
    <3>1. ASSUME NEW a \in Bars PROVE a.at <= b.at
      <4>1. a.id \in 1..Cardinality(Bars)
        BY <1>1 DEF BarsInv
      <4>2. a.id <= b.id
        BY <1>2, <1>3, <2>3, <4>1, FS_CardinalityType
      <4> QED
        BY <1>1, <4>2 DEF BarsInv
    <3>2. now' \in Nat /\ now <= now' /\ b.at <= now' /\ b.at \in Nat
      BY <1>1, <2>1, <2>3
    <3> QED
      BY <2>3, <3>1, <3>2
  <2>4. \/ /\ now' = now + 1
           /\ rows' = rows \cup {Row("market", now + 1, id, 0, Latest)}
        \/ \E b \in Bars : /\ b.id = id - 1 /\ now' = now
                           /\ rows' = rows \cup {Row("market", b.at, id, 0, Latest)}
    BY <1>2 DEF Bar, Bars
  <2> QED
    BY <2>2, <2>3, <2>4
<1>6. PICK r : r = Row("market", at, id, 0, Latest)
  OBVIOUS
<1>7. /\ r \in Evidence /\ r.kind = "market" /\ r.at = at /\ r.id = id /\ r.seq = Latest
      /\ r.n = Cardinality(rows) + 1
  <2>1. IsRow(r, "market", at, id, 0, Latest)
    BY <1>1, <1>3, <1>6, RowIsEvidence
  <2> QED
    BY <2>1 DEF IsRow
<1>8. rows' = rows \cup {r}
  BY <1>5, <1>6
<1>9. /\ RowsInv' /\ CheckpointVerifies' /\ r \notin rows
      /\ checkpoints' \in Seq(ToSet(checkpoints'))
      /\ \A t : t \in Calls(t.state) /\ TaskInv(t) => TaskInv(t)'
  BY <1>4, <1>7, <1>8, RowWritten
<1>10. BarsInv'
  BY <1>2, <1>5, <1>7, <1>8, <1>9, BarWritten
<1> QED
  BY <1>1, <1>4, <1>5, <1>9, <1>10, StepInv DEF CallSteps

LEMMA CallCloseoutInv ==
    ASSUME RecoveryInv, NEW w \in Writers, CallCloseout(w)
    PROVE  RecoveryInv'
<1>1. now \in Nat /\ held \in Nat /\ AreOrderStates(published)
  BY InvariantParts DEF TypesInv
<1>2. now' = now + 1 /\ UNCHANGED <<published, held, checkpoints>>
  BY DEF CallCloseout
<1>3. PICK at \in Nat : at = now + 1
  BY <1>1
<1>4. AppendSnapshot(at, 2, held)
  BY <1>3 DEF CallCloseout, SnapshotRank
<1>5. /\ RowsInv' /\ BarsInv' /\ CheckpointVerifies'
      /\ checkpoints' \in Seq(ToSet(checkpoints'))
      /\ \A t : t \in Calls(t.state) /\ TaskInv(t) => TaskInv(t)'
  BY <1>2, <1>4, ReadingIsLater, SnapshotWritten
<1>6. PICK t : t = [Call("closeout", at) EXCEPT
                       !.phase = IF held = 0 THEN "snapshot" ELSE "submit"]
  OBVIOUS
<1>7. task' = [task EXCEPT ![w] = t]
  BY <1>3, <1>6 DEF CallCloseout
<1>8. t \in Calls(t.state) /\ TaskInv(t)
  BY <1>6 DEF Call, Calls, TaskInv
<1> QED
  BY <1>1, <1>2, <1>5, <1>7, <1>8, ReadingIsLater, StepInv DEF CallSteps

LEMMA SnapshotInv ==
    ASSUME RecoveryInv, NEW w \in Writers, Snapshot(w) \/ FinalSnapshot(w)
    PROVE  RecoveryInv'
<1>1. /\ now \in Nat /\ held \in Nat /\ AreOrderStates(published)
      /\ CallsInv /\ DOMAIN task = Writers
  BY InvariantParts DEF TypesInv
<1>2. /\ UNCHANGED <<now, published, held, checkpoints>>
      /\ task[w] # None
  BY DEF Snapshot, FinalSnapshot
<1>3. PICK t : t = task[w]
  OBVIOUS
<1>4. t \in Calls(t.state) /\ t.at \in Nat
  BY <1>1, <1>2, <1>3 DEF CallsInv, Calls
<1>5. \E id \in Nat : AppendSnapshot(t.at, id, held)
  <2>1. CASE Snapshot(w)
    BY <1>3, <2>1 DEF Snapshot
  <2>2. CASE FinalSnapshot(w)
    BY <1>3, <2>2 DEF FinalSnapshot, SnapshotRank
  <2> QED
    BY <2>1, <2>2
<1>6. now' \in Nat /\ now <= now' /\ held' \in Nat /\ AreOrderStates(published')
  BY <1>1, <1>2
<1>7. /\ RowsInv' /\ BarsInv' /\ CheckpointVerifies'
      /\ checkpoints' \in Seq(ToSet(checkpoints'))
      /\ \A u : u \in Calls(u.state) /\ TaskInv(u) => TaskInv(u)'
  <2>1. PICK at \in Nat, id \in Nat : AppendSnapshot(at, id, held)
    BY <1>4, <1>5
  <2> QED
    BY <1>2, <1>6, <2>1, SnapshotWritten
<1>8. CallSteps
  <2>1. CASE End(w)
    BY <2>1 DEF End, CallSteps
  <2>2. CASE Goto(w, "submit")
    <3>1. PICK u : u = [t EXCEPT !.phase = "submit"]
      OBVIOUS
    <3>2. task' = [task EXCEPT ![w] = u]
      BY <1>1, <1>3, <2>2, <3>1 DEF Goto
    <3>3. u \in Calls(t.state) /\ u.phase = "submit" /\ u.state = t.state
      BY <1>4, <3>1 DEF Calls
    <3>4. TaskInv(u)
      BY <3>3 DEF TaskInv
    <3> QED
      BY <3>2, <3>3, <3>4 DEF CallSteps
  <2> QED
    BY <2>1, <2>2 DEF Snapshot, FinalSnapshot
<1> QED
  BY <1>6, <1>7, <1>8, StepInv

\* The checkpoint covers every row of then: the state that its writer has
\* replayed is that of the ledger, if nobody has written since it read.
LEMMA RecordInv ==
    ASSUME RecoveryInv, NEW w \in Writers, Record(w)
    PROVE  RecoveryInv'
<1>1. /\ now \in Nat /\ held \in Nat /\ AreOrderStates(published)
      /\ TypesInv /\ RowsInv /\ BarsInv /\ CallsInv /\ DOMAIN task = Writers
      /\ Latest \in Nat
  BY InvariantParts, LatestIsNat DEF TypesInv
<1>2. UNCHANGED <<now, published, held>> /\ task[w] # None
  BY DEF Record
<1>3. PICK t : t = task[w]
  OBVIOUS
<1>4. PICK o : o = t.order
  OBVIOUS
<1>5. /\ t \in Calls(t.state) /\ TaskInv(t) /\ t.phase = "record" /\ t.seq = Latest + 1
      /\ rows' = rows \cup OrderRows(o, Latest + 1)
  BY <1>1, <1>2, <1>3, <1>4 DEF CallsInv, Record
<1>6. o \in Orders
  BY <1>4, <1>5 DEF TaskInv
<1>7. PICK c : c = [state |-> t.state, alone |-> t.known = Cardinality(rows)]
  OBVIOUS
<1>8. checkpoints' = Append(checkpoints, c)
  BY <1>3, <1>7 DEF Record
<1>9. /\ Latest' = Latest + 1 /\ checkpoints'[Latest'] = c
      /\ checkpoints' \in Seq(ToSet(checkpoints'))
  <2>1. PICK S : S = ToSet(checkpoints)
    OBVIOUS
  <2>2. checkpoints \in Seq(S)
    BY <1>1, <2>1 DEF TypesInv
  <2>3. PICK T : T = S \cup {c}
    OBVIOUS
  <2>4. PICK k : k = Append(checkpoints, c)
    OBVIOUS
  <2>5. /\ checkpoints \in Seq(T) /\ k \in Seq(T)
        /\ Len(k) = Len(checkpoints) + 1 /\ k[Len(checkpoints) + 1] = c
    BY <2>2, <2>3, <2>4
  <2>6. k \in Seq(ToSet(k))
    <3>1. \A i \in 1..Len(k) : k[i] \in ToSet(k)
      BY <2>5 DEF ToSet
    <3> QED
      BY <2>5, <3>1
  <2> QED
    BY <1>8, <2>4, <2>5, <2>6 DEF Latest
<1>10. Latest' \in Nat /\ Latest <= Latest'
  BY <1>1, <1>9
<1>11. /\ RowsInv' /\ BarsInv'
       /\ Cardinality(rows) \in Nat /\ Cardinality(rows') \in Nat
       /\ Cardinality(rows) <= Cardinality(rows')
  <2>1. CASE OrderRows(o, Latest + 1) = {}
    <3>1. rows' = rows
      BY <1>5, <2>1
    <3>2. RowsInv'
      <4>1. \A e \in rows : e.seq \in Nat /\ e.seq <= Latest
        BY <1>1, RowsTypes DEF RowsInv
      <4>2. \A e \in rows : e.seq <= Latest'
        BY <1>1, <1>10, <4>1
      <4> QED
        BY <1>1, <3>1, <4>2 DEF RowsInv
    <3>3. BarsInv'
      BY <1>1, <1>2, <3>1 DEF BarsInv, Bars
    <3>4. Cardinality(rows) \in Nat
      BY <1>1, RowsTypes
    <3> QED
      BY <3>1, <3>2, <3>3, <3>4
  <2>2. CASE OrderRows(o, Latest + 1) # {}
    <3>1. OrderRows(o, Latest + 1) = {Row("order", o.at, o.id, o.value, Latest + 1)}
      BY <2>2 DEF OrderRows
    <3>2. PICK r : r = Row("order", o.at, o.id, o.value, Latest + 1)
      OBVIOUS
    <3>3. o.at \in Nat /\ o.id \in Nat /\ o.value \in Nat /\ Latest + 1 \in Nat
      BY <1>1, <1>6 DEF Orders
    <3>4. IsRow(r, "order", o.at, o.id, o.value, Latest + 1)
      BY <1>1, <3>2, <3>3, RowIsEvidence
    <3>5. /\ r \in Evidence /\ r.kind = "order" /\ r.seq <= Latest'
          /\ r.n = Cardinality(rows) + 1
      BY <1>9, <3>3, <3>4 DEF IsRow
    <3>6. rows' = rows \cup {r}
      BY <1>5, <3>1, <3>2
    <3>7. RowsInv' /\ Cardinality(rows') = Cardinality(rows) + 1
      BY <1>1, <1>10, <3>5, <3>6, RowsGrow
    <3>8. BarsInv'
      <4>1. PICK R : R = {r}
        OBVIOUS
      <4>2. rows' = rows \cup R /\ \A e \in R : e.kind # "market"
        BY <3>5, <3>6, <4>1
      <4>3. now' \in Nat /\ now <= now'
        BY <1>1, <1>2
      <4> QED
        BY <1>1, <4>2, <4>3, BarsStay
    <3>9. Cardinality(rows) \in Nat
      BY <1>1, RowsTypes
    <3> QED
      BY <3>7, <3>8, <3>9
  <2> QED
    BY <2>1, <2>2
<1>12. ASSUME NEW u, u \in Calls(u.state), TaskInv(u) PROVE TaskInv(u)'
  <2>1. u.seq \in Nat /\ u.known \in Nat
    BY <1>12 DEF Calls
  <2> QED
    BY <1>1, <1>9, <1>11, <1>12, <2>1, CallsMiss
<1>13. CheckpointVerifies'
  <2>1. \A e \in rows' : InPrefix(e)'
    <3>1. \A e \in rows : e.seq <= Latest /\ e.seq \in Nat
      BY <1>1, RowsTypes DEF RowsInv
    <3>2. \A e \in OrderRows(o, Latest + 1) : e.kind = "order" /\ e.seq = Latest + 1
      BY DEF OrderRows, Row
    <3>3. \A e \in rows : e.seq <= Latest + 1 /\ e.seq < Latest + 1
      BY <1>1, <3>1
    <3> QED
      BY <1>1, <1>5, <1>9, <3>2, <3>3 DEF InPrefix
  <2>2. {e \in rows : InPrefix(e)}' = rows'
    BY <2>1
  <2>3. Prefix' = Replay(Fresh, rows')
    BY <2>2 DEF Prefix
  <2>4. ASSUME c.alone PROVE c.state = Replay(Fresh, rows')
    <3>1. t.known = Cardinality(rows) /\ c.state = t.state
      BY <1>7, <2>4
    <3>2. t.state = Replay(Fresh, rows \cup OrderRows(o, Latest + 1))
      <4>1. t.state = Replay(Fresh, rows \cup OrderRows(t.order, t.seq))
        BY <1>5, <3>1 DEF TaskInv
      <4> QED
        BY <1>4, <1>5, <4>1
    <3> QED
      BY <1>5, <3>1, <3>2
  <2> QED
    BY <1>9, <2>3, <2>4 DEF CheckpointVerifies
<1>14. CallSteps
  <2>1. PICK u : u = [t EXCEPT !.phase = "snapshot"]
    OBVIOUS
  <2>2. task' = [task EXCEPT ![w] = u]
    BY <1>1, <1>3, <2>1 DEF Record, Goto
  <2>3. u \in Calls(t.state) /\ u.phase = "snapshot" /\ u.state = t.state
    BY <1>5, <2>1 DEF Calls
  <2>4. TaskInv(u)
    BY <2>3 DEF TaskInv
  <2> QED
    BY <2>2, <2>3, <2>4 DEF CallSteps
<1> QED
  BY <1>1, <1>2, <1>9, <1>11, <1>12, <1>13, <1>14, StepInv

LEMMA IdsAreFinite ==
    ASSUME AreOrderStates(published)
    PROVE  IsFiniteSet(Submitted)
<1> DEFINE id == [o \in published |-> o.id]
<1>1. id \in Surjection(published, Submitted)
  BY DEF Submitted, Surjection
<1> QED
  BY <1>1, FS_Surjection DEF AreOrderStates

LEMMA NextInv == RecoveryInv /\ [Next]_vars => RecoveryInv'
<1> SUFFICES ASSUME RecoveryInv, [Next]_vars PROVE RecoveryInv'
  OBVIOUS
<1>1. CASE Bar
  BY <1>1, BarStep
<1>2. CASE Fill
  BY <1>2, FillInv
<1>3. CASE CallEntry
  BY <1>3, CallEntryInv
<1>4. CASE CallUpdate
  BY <1>4, CallUpdateInv
<1>5. ASSUME NEW w \in Writers, SubmitEntry(w) PROVE RecoveryInv'
  <2>1. AreOrderStates(published)
    BY InvariantParts DEF TypesInv
  <2>2. PICK key : key = Cardinality(Submitted \ {ExitKey}) + 1
    OBVIOUS
  <2>3. Submit(w, key)
    BY <1>5, <2>2 DEF SubmitEntry
  <2>4. key \in Nat
    <3>1. Submitted \ {ExitKey} \subseteq Submitted
      OBVIOUS
    <3>2. IsFiniteSet(Submitted)
      BY <2>1, IdsAreFinite
    <3>3. IsFiniteSet(Submitted \ {ExitKey})
      BY <3>1, <3>2, FS_Subset
    <3> QED
      BY <2>2, <3>3, FS_CardinalityType
  <2> QED
    BY <2>3, <2>4, SubmitInv
<1>6. ASSUME NEW w \in Writers, SubmitExit(w) PROVE RecoveryInv'
  BY <1>6, SubmitInv DEF SubmitExit, ExitKey
<1>7. ASSUME NEW w \in Writers, ExitConflict(w) \/ RecordConflict(w) \/ Crash(w)
      PROVE  RecoveryInv'
  BY <1>7, EndInv DEF ExitConflict, RecordConflict, Crash
<1>8. ASSUME NEW w \in Writers, Read(w) PROVE RecoveryInv'
  BY <1>8, ReadInv
<1>9. ASSUME NEW w \in Writers, Record(w) PROVE RecoveryInv'
  BY <1>9, RecordInv
<1>10. ASSUME NEW w \in Writers, Snapshot(w) \/ FinalSnapshot(w) PROVE RecoveryInv'
  BY <1>10, SnapshotInv
<1>11. ASSUME NEW w \in Writers, CallCloseout(w) PROVE RecoveryInv'
  BY <1>11, CallCloseoutInv
<1>12. CASE UNCHANGED vars
  <2>1. now \in Nat /\ held \in Nat /\ AreOrderStates(published)
    BY InvariantParts DEF TypesInv
  <2>2. now' \in Nat /\ now <= now' /\ held' \in Nat /\ AreOrderStates(published')
    BY <1>12, <2>1 DEF vars
  <2> QED
    BY <1>12, <2>2, QuietStep DEF vars, CallSteps
<1> QED
  BY <1>1, <1>2, <1>3, <1>4, <1>5, <1>6, <1>7, <1>8, <1>9, <1>10, <1>11, <1>12 DEF Next

\* The evidence stays in order and a call knows what it has read, in whatever
\* order the processes write.
THEOREM EvidenceInvariant == Spec => []RecoveryInv
BY InitInv, NextInv, PTL DEF Spec

\* recover_session accepts the latest checkpoint when its writer was alone: the
\* digest is that of the replay up to it, whatever was written since.
THEOREM CheckpointCorrect == Spec => []CheckpointVerifies
<1>1. RecoveryInv => CheckpointVerifies
  BY InvariantParts
<1> QED
  BY <1>1, EvidenceInvariant, PTL

\* Resuming from the latest checkpoint gives the bars and the orders that the
\* replay of all the evidence gives, late and repeated updates included.
THEOREM OrdersCorrect == Spec => []OrdersSurviveRecovery
<1>1. RecoveryInv => OrdersSurviveRecovery
  <2> SUFFICES ASSUME RecoveryInv PROVE OrdersSurviveRecovery
    OBVIOUS
  <2>1. TypesInv /\ RowsInv /\ BarsInv
    BY InvariantParts
  <2>2. Resumed.orders = Clean.orders
    BY <2>1, OrdersResume
  <2>3. Resumed.ids = Clean.ids
    BY <2>1, LatestIsNat, BarsResume
  <2> QED
    BY <2>2, <2>3 DEF OrdersSurviveRecovery
<1> QED
  BY <1>1, EvidenceInvariant, PTL
=============================================================================
