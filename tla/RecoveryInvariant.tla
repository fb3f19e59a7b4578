------------------------- MODULE RecoveryInvariant -------------------------
(***************************************************************************)
(* The inductive invariant of Recovery: what the rows of the ledger have   *)
(* in common in whatever order they were written, and what a call under    *)
(* way knows of them.                                                      *)
(***************************************************************************)
EXTENDS Recovery

Orders == [op : {"order"}, id : Nat, at : Nat, value : {0, 1}]

AreOrderStates(S) == S \subseteq Orders /\ IsFiniteSet(S)

Evidence == [kind : {"market", "order", "position"}, at : Nat, id : Nat, value : Nat,
             seq : Nat, n : Nat]

\* The calls that have replayed a state.
Calls(state) ==
    [op : {"entry", "update", "closeout"}, phase : {"submit", "read", "record", "snapshot"},
     at : Nat, order : Orders \cup {None}, state : {state}, seq : Nat, known : Nat]

Bars == {e \in rows : e.kind = "market"}

\* Rows are numbered as they are appended, with the checkpoint number of then.
RowsInv ==
    /\ rows \subseteq Evidence /\ IsFiniteSet(rows)
    /\ \A e \in rows : e.n <= Cardinality(rows) /\ e.seq <= Latest
    /\ \A e, f \in rows : e.n = f.n => e = f

\* Bars come in the order of their times.
BarsInv ==
    /\ \A b \in Bars : b.at <= now /\ b.id \in 1..Cardinality(Bars)
    /\ \A id \in 1..Cardinality(Bars) : \E b \in Bars : b.id = id
    /\ \A a, b \in Bars :
          /\ a.id = b.id => a = b
          /\ a.id <= b.id => a.at <= b.at /\ a.seq <= b.seq

\* What a call has replayed is the ledger with its order, while nobody writes.
TaskInv(t) ==
    /\ t.phase \in {"read", "record"} => t.order \in Orders
    /\ t.phase = "record" =>
          /\ t.seq <= Latest + 1
          /\ t.known <= Cardinality(rows)
          /\ t.seq = Latest + 1 /\ t.known = Cardinality(rows) =>
                t.state = Replay(Fresh, rows \cup OrderRows(t.order, t.seq))

RecoveryInv ==
    /\ now \in Nat /\ held \in Nat
    /\ AreOrderStates(published)
    /\ checkpoints \in Seq(ToSet(checkpoints))
    /\ RowsInv
    /\ BarsInv
    /\ DOMAIN task = Writers
    /\ \A w \in Writers : task[w] # None => task[w] \in Calls(task[w].state) /\ TaskInv(task[w])
    /\ CheckpointVerifies

=============================================================================
