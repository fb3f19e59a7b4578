------------------------------ MODULE Recovery ------------------------------
(***************************************************************************)
(* paper/recovery.py and the evidence it replays.  The ledger keeps three  *)
(* tables of evidence (market events, order events, position snapshots)    *)
(* and numbered checkpoints.  Every order event is recorded together with  *)
(* a checkpoint, which holds the digest of the replay of all the evidence  *)
(* its writer read.  recover_session splits the evidence at the latest     *)
(* checkpoint, compares the digests, and resumes from there.  Here a       *)
(* digest is the replayed state itself.                                    *)
(*                                                                         *)
(* The replay sorts by event time, and the evidence is inserted in another *)
(* order: an entry's snapshot carries the time at which its call began,    *)
(* its order event the broker's later time.                                *)
(*                                                                         *)
(* One symbol, held in whole orders.  The clock moves at every reading.    *)
(***************************************************************************)
EXTENDS Integers, Sequences, FiniteSets, SequencesExt

CONSTANTS
    Runner,        \* the process of `paper run': bars, entries, updates, closeout
    Closers,       \* processes of `paper closeout'
    MaxEntries,    \* bound: entries of the session
    MaxBars,       \* bound: market events
    MaxCloseouts,  \* bound: calls of closeout_session
    MaxTime        \* bound: readings of the clock

ASSUME RecoveryAssumption ==
    /\ Runner \notin Closers
    /\ MaxEntries \in Nat /\ MaxBars \in Nat /\ MaxCloseouts \in Nat /\ MaxTime \in Nat

VARIABLES
    now,          \* the last reading of the clock
    published,    \* the order states the broker has published
    held,         \* orders' worth of shares in the account
    rows,         \* the evidence in the ledger
    checkpoints,  \* paper_checkpoints: the state at each event_sequence, and whether
                  \* its writer was alone, which the code does not keep
    closeouts,    \* calls of closeout_session
    task          \* process -> the call it is in

vars == <<now, published, held, rows, checkpoints, closeouts, task>>

Writers == {Runner} \cup Closers

ExitKey == 0
Keys == 0..MaxEntries

\* No order, and no call.
None == [op |-> "none"]

Submitted == {o.id : o \in published}

----------------------------------------------------------------------------
(***************************************************************************)
(* Replay                                                                  *)
(***************************************************************************)

KindOrder == [market |-> 0, order |-> 1, position |-> 2]

\* The sort key of _events.  The sort is stable: equal keys stay in the order
\* of their sequence_no.
SortKey(e) == <<e.at, KindOrder[e.kind], e.id, e.n>>

Before(a, b) ==
    \E i \in 1..4 : /\ SortKey(a)[i] < SortKey(b)[i]
                    /\ \A j \in 1..(i - 1) : SortKey(a)[j] = SortKey(b)[j]

\* RecoveredPaperState of a session without evidence.
Fresh == [ids |-> << >>, orders |-> << >>, positions |-> 0, last |-> 0]

\* One event of _apply_events.
Apply(s, e) ==
    [ids |-> IF e.kind = "market" /\ e.id \notin ToSet(s.ids) THEN Append(s.ids, e.id)
             ELSE s.ids,
     orders |-> IF e.kind = "order"
                THEN [k \in {e.id} \cup DOMAIN s.orders |->
                         IF k = e.id THEN e.value ELSE s.orders[k]]
                ELSE s.orders,
     positions |-> IF e.kind = "position" THEN e.value ELSE s.positions,
     last |-> e.at]

\* The evidence in the order of the replay.
Sorted(evidence) ==
    [i \in 1..Cardinality(evidence) |->
        CHOOSE e \in evidence : Cardinality({f \in evidence : Before(f, e)}) = i - 1]

\* _apply_events on the sorted evidence.
Replay(initial, evidence) == FoldLeft(Apply, initial, Sorted(evidence))

Latest == Len(checkpoints)

\* The evidence that the latest checkpoint covers.
InPrefixOffByOne(e) == e.seq <= Latest
InPrefix(e) == IF e.kind = "order" THEN e.seq <= Latest ELSE e.seq < Latest

Clean == Replay(Fresh, rows)
Prefix == Replay(Fresh, {e \in rows : InPrefix(e)})
ResumedAfterLatest == Replay(Prefix, {e \in rows : e.seq > Latest})
Resumed == Replay(Prefix, {e \in rows : ~InPrefix(e)})

----------------------------------------------------------------------------
(***************************************************************************)
(* Writers of evidence                                                     *)
(***************************************************************************)

Row(kind, at, id, value, seq) ==
    [kind |-> kind, at |-> at, id |-> id, value |-> value, seq |-> seq,
     n |-> Cardinality(rows) + 1]

\* An order state as evidence, when the ledger does not hold it yet.
OrderRows(o, seq) ==
    IF \E e \in rows : e.kind = "order" /\ e.id = o.id /\ e.at = o.at
    THEN {}
    ELSE {Row("order", o.at, o.id, o.value, seq)}

\* A snapshot appended now.  Snapshot ids sort final before start before the
\* digests of the session's own snapshots.
SnapshotRank == [final |-> 1, start |-> 2, entry |-> 3, update |-> 3]
AppendSnapshot(at, id, value) ==
    rows' = rows \cup {Row("position", at, id, value, Latest)}

\* A call; how much evidence its replay read is not in the code.
Call(op, at) ==
    [op |-> op, phase |-> "submit", at |-> at, order |-> None, state |-> Fresh, seq |-> 0,
     known |-> 0]

Goto(w, p) == task' = [task EXCEPT ![w].phase = p]

\* The call returns or raises.
End(w) == task' = [task EXCEPT ![w] = None]

----------------------------------------------------------------------------

\* append_market_event: a minute bar, or the aggregate of the bar before it,
\* which has its time.
Bar ==
    LET bars == {e \in rows : e.kind = "market"}
        id == Cardinality(bars) + 1
    IN  /\ task[Runner] = None
        /\ id <= MaxBars
        /\ \/ /\ now < MaxTime
              /\ now' = now + 1
              /\ rows' = rows \cup {Row("market", now + 1, id, 0, Latest)}
           \/ \E b \in bars :
                 /\ b.id = id - 1
                 /\ rows' = rows \cup {Row("market", b.at, id, 0, Latest)}
                 /\ UNCHANGED now
        /\ UNCHANGED <<published, held, checkpoints, closeouts, task>>

\* process_bars reads the clock and comes to a signal.
CallEntry ==
    /\ task[Runner] = None
    /\ now < MaxTime
    /\ Cardinality(Submitted \ {ExitKey}) < MaxEntries
    /\ now' = now + 1
    /\ task' = [task EXCEPT ![Runner] = Call("entry", now + 1)]
    /\ UNCHANGED <<published, held, rows, checkpoints, closeouts>>

\* broker.submit: the broker's time is later than the call's.
Submit(w, key) ==
    /\ task[w] # None /\ task[w].phase = "submit"
    /\ key \notin Submitted
    /\ now < MaxTime
    /\ now' = now + 1
    /\ \E filled \in {0, 1} :
          LET o == [op |-> "order", id |-> key, at |-> now + 1, value |-> filled]
          IN  /\ published' = published \cup {o}
              /\ held' = IF filled = 0 THEN held ELSE IF key = ExitKey THEN 0 ELSE held + 1
              /\ task' = [task EXCEPT ![w].phase = "read", ![w].order = o]
    /\ UNCHANGED <<rows, checkpoints, closeouts>>

SubmitEntry(w) ==
    /\ task[w] # None /\ task[w].op = "entry"
    /\ Submit(w, Cardinality(Submitted \ {ExitKey}) + 1)

SubmitExit(w) ==
    /\ task[w] # None /\ task[w].op = "closeout"
    /\ Submit(w, ExitKey)

\* The exit of an earlier closeout has the key: the submission or the record
\* raises.
ExitConflict(w) ==
    /\ task[w] # None /\ task[w].op = "closeout" /\ task[w].phase = "submit"
    /\ ExitKey \in Submitted
    /\ End(w)
    /\ UNCHANGED <<now, published, held, rows, checkpoints, closeouts>>

\* A working order fills.
Fill ==
    /\ now < MaxTime
    /\ \E o \in published :
          /\ \A p \in published : p.id = o.id => p.value = 0
          /\ published' = published \cup {[o EXCEPT !.at = now + 1, !.value = 1]}
          /\ held' = IF o.id = ExitKey THEN 0 ELSE held + 1
    /\ now' = now + 1
    /\ UNCHANGED <<rows, checkpoints, closeouts, task>>

\* process_order_update: late, repeated or out of order; an update equal to
\* the last retained state of its order changes nothing.
CallUpdate ==
    /\ task[Runner] = None
    /\ now < MaxTime
    /\ \E o \in published :
          LET retained == {e \in rows : e.kind = "order" /\ e.id = o.id}
          IN  /\ retained # {}
              /\ \E e \in retained : /\ \A f \in retained : f.n <= e.n
                                     /\ e.at # o.at
              /\ task' = [task EXCEPT ![Runner] =
                             [Call("update", now + 1) EXCEPT !.phase = "read", !.order = o]]
    /\ now' = now + 1
    /\ UNCHANGED <<published, held, rows, checkpoints, closeouts>>

\* _record_submission and _record_exit replay what is retained and the order,
\* for the sequence number after the latest.
Read(w) ==
    /\ task[w] # None /\ task[w].phase = "read"
    /\ task' = [task EXCEPT ![w].phase = "record",
                            ![w].state =
                                Replay(Fresh, rows \cup OrderRows(task[w].order, Latest + 1)),
                            ![w].seq = Latest + 1,
                            ![w].known = Cardinality(rows)]
    /\ UNCHANGED <<now, published, held, rows, checkpoints, closeouts>>

\* record_order_bundle: order event and checkpoint in one transaction.
Record(w) ==
    /\ task[w] # None /\ task[w].phase = "record"
    /\ task[w].seq = Latest + 1
    /\ rows' = rows \cup OrderRows(task[w].order, Latest + 1)
    /\ checkpoints' = Append(checkpoints, [state |-> task[w].state,
                                           alone |-> task[w].known = Cardinality(rows)])
    /\ Goto(w, "snapshot")
    /\ UNCHANGED <<now, published, held, closeouts>>

\* Another writer has taken the sequence number.
RecordConflict(w) ==
    /\ task[w] # None /\ task[w].phase = "record"
    /\ task[w].seq # Latest + 1
    /\ End(w)
    /\ UNCHANGED <<now, published, held, rows, checkpoints, closeouts>>

\* The positions at the end of an entry or an update.  The loop of
\* process_bars may come to another signal in the same call.
Snapshot(w) ==
    /\ task[w] # None /\ task[w].phase = "snapshot" /\ task[w].op # "closeout"
    /\ \E id \in 3..4 :
          /\ \A e \in rows : e.kind = "position" /\ e.at = task[w].at => e.id # id
          /\ AppendSnapshot(task[w].at, id, held)
    /\ \/ End(w)
       \/ task[w].op = "entry" /\ Goto(w, "submit")
    /\ UNCHANGED <<now, published, held, checkpoints, closeouts>>

\* closeout_session up to the snapshot it starts with.
CallCloseout(w) ==
    /\ task[w] = None
    /\ now < MaxTime
    /\ closeouts < MaxCloseouts
    /\ now' = now + 1
    /\ closeouts' = closeouts + 1
    /\ task' = [task EXCEPT ![w] =
                   [Call("closeout", now + 1) EXCEPT
                       !.phase = IF held = 0 THEN "snapshot" ELSE "submit"]]
    /\ AppendSnapshot(now + 1, SnapshotRank["start"], held)
    /\ UNCHANGED <<published, held, checkpoints>>

\* The snapshot it ends with, after the polls of the positions.
FinalSnapshot(w) ==
    /\ task[w] # None /\ task[w].phase = "snapshot" /\ task[w].op = "closeout"
    /\ AppendSnapshot(task[w].at, SnapshotRank["final"], held)
    /\ End(w)
    /\ UNCHANGED <<now, published, held, checkpoints, closeouts>>

\* The process dies, or a call raises.
Crash(w) ==
    /\ task[w] # None
    /\ End(w)
    /\ UNCHANGED <<now, published, held, rows, checkpoints, closeouts>>

Init ==
    /\ now = 0
    /\ published = {}
    /\ held = 0
    /\ rows = {}
    /\ checkpoints = << >>
    /\ closeouts = 0
    /\ task = [w \in Writers |-> None]

Next ==
    \/ Bar
    \/ Fill
    \/ CallEntry
    \/ CallUpdate
    \/ \E w \in Writers :
          \/ SubmitEntry(w)
          \/ SubmitExit(w)
          \/ ExitConflict(w)
          \/ Read(w)
          \/ Record(w)
          \/ RecordConflict(w)
          \/ Snapshot(w)
          \/ CallCloseout(w)
          \/ FinalSnapshot(w)
          \/ Crash(w)

Spec == Init /\ [][Next]_vars

----------------------------------------------------------------------------
(***************************************************************************)
(* Properties                                                              *)
(***************************************************************************)

\* recover_session accepts the latest checkpoint, wherever a process died and
\* whatever was appended since: what its writer replayed is what the recovery
\* replays up to it, unless another process wrote in between.
CheckpointVerifies ==
    Latest > 0 /\ checkpoints[Latest].alone => Prefix = checkpoints[Latest].state

\* Resuming never loses or reorders a market event or the state of an order,
\* although updates arrive late and repeated.
OrdersSurviveRecovery ==
    Latest > 0 => Resumed.ids = Clean.ids /\ Resumed.orders = Clean.orders

\* Resuming from the latest checkpoint gives what a clean replay gives.
ResumeMatchesCleanReplay == Latest > 0 => Resumed = Clean

=============================================================================
