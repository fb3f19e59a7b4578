------------------------------ MODULE Registry ------------------------------
(***************************************************************************)
(* registry/store.py: several processes work on one SQLite file.  Each     *)
(* operation is a transaction opened with BEGIN IMMEDIATE, which takes the *)
(* only write lock or gives up after busy_timeout; what it writes becomes  *)
(* visible at COMMIT and a process that dies leaves nothing of it.  The    *)
(* look-up of the idempotency key, the gates and COMMIT are separate steps *)
(* here; the inserted event and the updated row are written by COMMIT.     *)
(***************************************************************************)
EXTENDS RegistryLedger

CONSTANTS
    Callers,    \* the processes that use the registry
    Nobody      \* the holder of a free lock

ASSUME CallersAssumption == Nobody \notin Callers

VARIABLES
    lock,     \* who holds the database's write lock
    phase,    \* caller -> where its call is
    call,     \* caller -> the request it makes, NoCall while it is idle
    seen,     \* caller -> the current state its transaction read
    answer    \* caller -> how its last call ended

callVars == <<lock, phase, call, seen, answer>>
vars == <<ledgerVars, callVars>>

NoCall == [op |-> "none"]

Phases == {"idle", "begin", "lookup", "gates", "commit", "return"}

Answers == {"none", "done", "conflict", "refused", "busy", "lost"}

\* The phases of an open transaction.
InTransaction == {"lookup", "gates", "commit"}

Goto(c, p) == phase' = [phase EXCEPT ![c] = p]

\* The transaction ends, by COMMIT or ROLLBACK: the lock is free.
Release(c) == lock' = IF lock = c THEN Nobody ELSE lock

\* The call ends with an answer, and with nothing written by this step.
End(c, a) ==
    /\ Release(c)
    /\ Goto(c, "idle")
    /\ call' = [call EXCEPT ![c] = NoCall]
    /\ seen' = [seen EXCEPT ![c] = Absent]
    /\ answer' = [answer EXCEPT ![c] = a]
    /\ UNCHANGED ledgerVars

\* The current-state row of the strategy a call is about.
StateOf(c) == rows[call[c].strategy].state

----------------------------------------------------------------------------

\* A process makes any request, one it made before included.
Call(c) ==
    /\ phase[c] = "idle"
    /\ \E r \in Requests : call' = [call EXCEPT ![c] = r]
    /\ Goto(c, "begin")
    /\ answer' = [answer EXCEPT ![c] = "none"]
    /\ UNCHANGED <<ledgerVars, lock, seen>>

\* BEGIN IMMEDIATE
BeginDeferred(c) ==
    /\ phase[c] = "begin"
    /\ lock' = c
    /\ Goto(c, "lookup")
    /\ UNCHANGED <<ledgerVars, call, seen, answer>>
Begin(c) ==
    /\ phase[c] = "begin"
    /\ lock = Nobody
    /\ lock' = c
    /\ Goto(c, "lookup")
    /\ UNCHANGED <<ledgerVars, call, seen, answer>>

\* busy_timeout passes before the lock is free: database is locked.
BusyTimeout(c) ==
    /\ phase[c] = "begin"
    /\ lock # Nobody
    /\ End(c, "busy")

\* _existing_idempotent_event, and the same look-up by decision_id.
LookUpNothing(c) ==
    /\ phase[c] = "lookup"
    /\ Goto(c, "gates")
    /\ UNCHANGED <<ledgerVars, lock, call, seen, answer>>
LookUp(c) ==
    /\ phase[c] = "lookup"
    /\ IF ~KeyTaken(call[c])
       THEN /\ Goto(c, "gates")
            /\ UNCHANGED <<ledgerVars, lock, call, seen, answer>>
       ELSE End(c, IF InLedger(call[c]) THEN "done" ELSE "conflict")

\* The checks of the three operations on what the transaction reads.
Accepted(c) ==
    /\ call[c].op = "register" => StateOf(c) = Absent
    /\ call[c].op = "transition" => MayMove(rows, decisions, StateOf(c), call[c])
    /\ call[c].op = "decide" => StateOf(c) # Absent

Gates(c) ==
    /\ phase[c] = "gates"
    /\ Accepted(c)
    /\ seen' = [seen EXCEPT ![c] = StateOf(c)]
    /\ Goto(c, "commit")
    /\ UNCHANGED <<ledgerVars, lock, call, answer>>

Refuse(c) ==
    /\ phase[c] = "gates"
    /\ ~Accepted(c)
    /\ End(c, "refused")

\* The event is inserted, the row updated, and the transaction commits.
Commit(c) ==
    /\ phase[c] = "commit"
    /\ IF call[c].op = "decide"
       THEN /\ decisions' = decisions \cup {call[c]}
            /\ UNCHANGED <<events, rows>>
       ELSE Write(call[c], seen[c]) /\ UNCHANGED decisions
    /\ Release(c)
    /\ Goto(c, "return")
    /\ UNCHANGED <<call, seen, answer>>

Return(c) ==
    /\ phase[c] = "return"
    /\ End(c, "done")

\* The process dies; SQLite drops its transaction and its lock.
Crash(c) ==
    /\ phase[c] # "idle"
    /\ End(c, "lost")

Step(c) ==
    \/ Begin(c)
    \/ BusyTimeout(c)
    \/ LookUp(c)
    \/ Gates(c)
    \/ Refuse(c)
    \/ Commit(c)
    \/ Return(c)

Init ==
    /\ LedgerInit
    /\ lock = Nobody
    /\ phase = [c \in Callers |-> "idle"]
    /\ call = [c \in Callers |-> NoCall]
    /\ seen = [c \in Callers |-> Absent]
    /\ answer = [c \in Callers |-> "none"]

Next == \E c \in Callers : Call(c) \/ Step(c) \/ Crash(c)

Spec == Init /\ [][Next]_vars

\* A process that called goes on until its call has ended.
FairSpec == Spec /\ \A c \in Callers : WF_vars(Step(c))

----------------------------------------------------------------------------
(***************************************************************************)
(* Properties                                                              *)
(***************************************************************************)

\* Type invariant.
TypeOK ==
    /\ LedgerTypeOK
    /\ lock \in Callers \cup {Nobody}
    /\ phase \in [Callers -> Phases]
    /\ call \in [Callers -> Requests \cup {NoCall}]
    /\ \A c \in Callers : phase[c] # "idle" => call[c] \in Requests
    /\ seen \in [Callers -> States]
    /\ answer \in [Callers -> Answers]

\* A transaction that has passed a check can rely on it until it commits: the
\* key is still free, the state it read is still the current one, and the
\* gates are still open.  CONCURRENT_STATE_TRANSITION is never raised.
ChecksStayTrue ==
    \A c \in Callers :
        /\ phase[c] \in InTransaction => lock = c
        /\ phase[c] \in {"gates", "commit"} => ~KeyTaken(call[c])
        /\ phase[c] = "commit" => Accepted(c) /\ seen[c] = StateOf(c)

\* A request that is in the ledger is answered with its event or decision and
\* never refused, even when the strategy has moved on since: a retry is safe.
CommittedIsNeverRefused ==
    [][\A c \in Callers :
          answer'[c] \in {"refused", "conflict"} /\ answer[c] = "none" =>
              ~InLedger(call[c])]_vars

=============================================================================
