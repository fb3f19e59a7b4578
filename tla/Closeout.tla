------------------------------ MODULE Closeout ------------------------------
(***************************************************************************)
(* paper/closeout.py: at the end of a session working purchases are        *)
(* cancelled, every long position is sold, flatness is verified, and the   *)
(* session is marked closed or, with an incident, blocked.  The broker     *)
(* works on between any two calls.                                         *)
(*                                                                         *)
(* closeout_session is called by the running session (`paper run') and by  *)
(* the command `paper closeout', possibly at the same time or again after  *)
(* a crash.  An exit's key names the session and the symbol; its content   *)
(* has the quantity and the time of the call, so no two calls agree on it. *)
(***************************************************************************)
EXTENDS PaperBroker, FiniteSetsExt

CONSTANTS
    Callers,          \* processes that call closeout_session
    MaxShares,        \* bound: shares of a symbol held or ordered at the start
    MaxCalls,         \* bound: calls of closeout_session
    MaxCancelPolls,   \* max_cancel_polls
    MaxExitAttempts,  \* max_exit_attempts
    MaxFlatPolls      \* max_flat_polls

ASSUME CloseoutAssumption ==
    /\ MaxCalls \in Nat
    /\ {MaxShares, MaxCancelPolls, MaxExitAttempts, MaxFlatPolls} \subseteq Nat \ {0}

VARIABLES
    status,     \* status of the paper session
    recorded,   \* the symbols whose exit is in the ledger
    incidents,  \* the incidents: what they name, and the call that raised them
    calls,      \* calls made so far; the number of a call stands for closeout_at
    trading,    \* whether `paper run', another process, trades meanwhile
    task,       \* caller -> the call it is in
    answer      \* caller -> how its last call ended

closeoutVars == <<status, recorded, incidents, calls, trading, task, answer>>
vars == <<brokerVars, closeoutVars>>

EntryKey(sym) == <<"entry", sym>>
ExitKey(sym) == <<"exit", sym>>

Answers == {"none", "closed", "blocked", "conflict", "raised", "crashed"}
Phases == {"idle", "poll", "cancel", "positions", "submit", "record", "retry",
           "verify", "orders", "incident", "mark"}

Buys == {k \in DOMAIN orders : orders[k].side = "buy"}
OpenBuys == {k \in Buys : IsWorking(k)}
EndedBuys == Buys \ OpenBuys
NothingHeld == [sym \in Symbols |-> 0]

\* transition_session_status: the statuses from which a status is reached,
\* itself included.
MayBecomeAlways(from, to) == TRUE
MayBecome(from, to) ==
    \/ from = to
    \/ from = "running" /\ to = "closeout"
    \/ from = "closeout" /\ to \in {"closed", "blocked"}

\* A call: the positions still to sell (after the sales, those that remain),
\* the purchases still to cancel (at the end, those that pend), the rounds of
\* the loop it is in, whether its exit was rejected at once, and (the code does
\* not read them) the purchases that were over at its last look at the positions.
Idle == [phase |-> "idle", call |-> 0, held |-> NothingHeld, buys |-> {}, rounds |-> 0,
         rejected |-> FALSE, over |-> {}]

Tasks == [phase : Phases, call : 0..MaxCalls, held : [Symbols -> Nat],
          buys : SUBSET DOMAIN orders, rounds : Nat, rejected : BOOLEAN,
          over : SUBSET DOMAIN orders]

Incidents == [held : [Symbols -> Nat], buys : SUBSET DOMAIN orders, call : 1..MaxCalls]

In(c, p) == task[c].phase = p
Goto(c, p) == task' = [task EXCEPT ![c].phase = p]

End(c, a) ==
    /\ task' = [task EXCEPT ![c] = Idle]
    /\ answer' = [answer EXCEPT ![c] = a]

----------------------------------------------------------------------------
(***************************************************************************)
(* The steps of a call                                                     *)
(***************************************************************************)

\* The session goes to closeout, or the call raises.
Start(c) ==
    /\ In(c, "idle")
    /\ calls < MaxCalls
    /\ calls' = calls + 1
    /\ IF MayBecome(status, "closeout")
       THEN /\ status' = "closeout"
            /\ task' = [task EXCEPT ![c] = [Idle EXCEPT !.phase = "poll", !.call = calls + 1]]
            /\ answer' = [answer EXCEPT ![c] = "none"]
       ELSE End(c, "raised") /\ UNCHANGED status
    /\ UNCHANGED <<trading, brokerVars, recorded, incidents>>

\* A round of the cancel loop reads the open purchases.
Poll(c) ==
    /\ In(c, "poll")
    /\ task' = IF OpenBuys = {} \/ task[c].rounds = MaxCancelPolls
               THEN [task EXCEPT ![c].phase = "positions", ![c].rounds = 0]
               ELSE [task EXCEPT ![c].phase = "cancel", ![c].rounds = @ + 1, ![c].buys = OpenBuys]
    /\ UNCHANGED <<trading, brokerVars, status, recorded, incidents, calls, answer>>

\* broker.cancel: a working order ends now, or works on for a while.
Cancel(c) ==
    /\ In(c, "cancel")
    /\ \E k \in task[c].buys :
          /\ Terminate(k, "cancelled") \/ UNCHANGED brokerVars
          /\ task' = [task EXCEPT ![c].buys = @ \ {k},
                                  ![c].phase = IF task[c].buys = {k} THEN "poll" ELSE @]
    /\ UNCHANGED <<trading, status, recorded, incidents, calls, answer>>

\* From one position to the next, or to the final look at the positions.
Continue(c, held) ==
    task' = [task EXCEPT ![c].held = held, ![c].rounds = 0,
                         ![c].phase = IF held = NothingHeld THEN "verify" ELSE "submit"]

\* The positions to sell, and their snapshot.
ReadPositions(c) ==
    /\ In(c, "positions")
    /\ Continue(c, positions)
    /\ UNCHANGED <<trading, brokerVars, status, recorded, incidents, calls, answer>>

\* The position whose exit is under way.
Selling(c) == CHOOSE sym \in Symbols : task[c].held[sym] > 0

PlaceExit(c, key) ==
    \E s \in FirstStatuses :
        LET n == task[c].held[Selling(c)]
        IN  /\ s = "filled" => n <= positions[Selling(c)]
            /\ Place(key, [symbol |-> Selling(c), side |-> "sell", qty |-> n,
                           filled |-> IF s = "filled" THEN n ELSE 0,
                           status |-> s, at |-> task[c].call])
            /\ task' = [task EXCEPT ![c].phase = "record", ![c].rejected = (s = "rejected")]

\* The first submission of an exit whose key the broker does not know.
SubmitUnderNewKey(c) ==
    /\ In(c, "submit")
    /\ PlaceExit(c, <<"exit", Selling(c), task[c].call>>)
    /\ UNCHANGED <<trading, status, recorded, incidents, calls, answer>>
Submit(c) ==
    /\ In(c, "submit")
    /\ PlaceExit(c, ExitKey(Selling(c)))
    /\ UNCHANGED <<trading, status, recorded, incidents, calls, answer>>

\* The key belongs to the exit of another call, with another closeout_at.
SubmitConflict(c) ==
    /\ In(c, "submit")
    /\ ExitKey(Selling(c)) \in DOMAIN orders
    /\ End(c, "conflict")
    /\ UNCHANGED <<trading, brokerVars, status, recorded, incidents, calls>>

\* After attempt n at the exit: another one, or the next position.
AfterAttempt(c, n) ==
    IF task[c].rejected /\ n < MaxExitAttempts
    THEN task' = [task EXCEPT ![c].phase = "retry", ![c].rounds = n]
    ELSE Continue(c, [task[c].held EXCEPT ![Selling(c)] = 0])

\* _record_exit, for the first response only.
Record(c) ==
    /\ In(c, "record")
    /\ recorded' = recorded \cup {Selling(c)}
    /\ AfterAttempt(c, 1)
    /\ UNCHANGED <<trading, brokerVars, status, incidents, calls, answer>>

\* A retry has the key and the content of the first submission: the broker
\* answers with the order it retains, which is rejected.
RetryForEver(c) ==
    /\ In(c, "retry")
    /\ task' = [task EXCEPT ![c].rounds = 1 - @]
    /\ UNCHANGED <<trading, brokerVars, status, recorded, incidents, calls, answer>>
Retry(c) ==
    /\ In(c, "retry")
    /\ AfterAttempt(c, task[c].rounds + 1)
    /\ UNCHANGED <<trading, brokerVars, status, recorded, incidents, calls, answer>>

\* A look at the remaining positions: the last one, or the first that is flat.
Verify(c) ==
    /\ In(c, "verify")
    /\ task' = IF positions # NothingHeld /\ task[c].rounds + 1 < MaxFlatPolls
               THEN [task EXCEPT ![c].rounds = @ + 1]
               ELSE [task EXCEPT ![c].phase = "orders", ![c].held = positions,
                                 ![c].over = EndedBuys]
    /\ UNCHANGED <<trading, brokerVars, status, recorded, incidents, calls, answer>>

IsCleanWithoutOrders(c) == task[c].held = NothingHeld
IsCleanWithoutPositions(c) == task[c].buys = {}
IsClean(c) == task[c].held = NothingHeld /\ task[c].buys = {}

\* The pending purchases, read after the positions.
ReadOrders(c) ==
    /\ In(c, "orders")
    /\ task' = [task EXCEPT ![c].buys = OpenBuys, ![c].phase = "incident"]
    /\ UNCHANGED <<trading, brokerVars, status, recorded, incidents, calls, answer>>

\* append_incident: its id says what remains, its content also the time.
Incident(c) ==
    LET i == [held |-> task[c].held, buys |-> task[c].buys, call |-> task[c].call]
        known == {j \in incidents : j.held = i.held /\ j.buys = i.buys}
    IN  /\ In(c, "incident")
        /\ \/ IsClean(c) /\ Goto(c, "mark") /\ UNCHANGED <<incidents, answer>>
           \/ /\ ~IsClean(c) /\ known = {}
              /\ incidents' = incidents \cup {i}
              /\ Goto(c, "mark")
              /\ UNCHANGED answer
           \/ ~IsClean(c) /\ known # {} /\ End(c, "conflict") /\ UNCHANGED incidents
        /\ UNCHANGED <<trading, brokerVars, status, recorded, calls>>

\* The session is closed or blocked, or the call raises.
Mark(c) ==
    /\ In(c, "mark")
    /\ LET to == IF IsClean(c) THEN "closed" ELSE "blocked"
       IN  IF MayBecome(status, to)
           THEN status' = to /\ End(c, to)
           ELSE End(c, "raised") /\ UNCHANGED status
    /\ UNCHANGED <<trading, brokerVars, recorded, incidents, calls>>

\* The process dies, or a call of the broker or the store raises.
Crash(c) ==
    /\ ~In(c, "idle")
    /\ End(c, "crashed")
    /\ UNCHANGED <<trading, brokerVars, status, recorded, incidents, calls>>

Step(c) ==
    \/ Poll(c) \/ Cancel(c) \/ ReadPositions(c)
    \/ Submit(c) \/ SubmitConflict(c) \/ Record(c) \/ Retry(c)
    \/ Verify(c) \/ ReadOrders(c) \/ Incident(c) \/ Mark(c)

----------------------------------------------------------------------------
(***************************************************************************)
(* The runner's entries, and the specification                             *)
(***************************************************************************)

Purchase(sym, n, s) ==
    [symbol |-> sym, side |-> "buy", qty |-> n, filled |-> 0, status |-> s, at |-> 0]

\* An entry before the closeout buffer: its gates look at the time and never at
\* the status of the session.
Enter(sym) ==
    /\ trading
    /\ Place(EntryKey(sym), Purchase(sym, MaxShares, "accepted"))
    /\ UNCHANGED closeoutVars

\* The end of a session: any positions, and any purchases that still work.
Init ==
    /\ positions \in [Symbols -> 0..MaxShares]
    /\ \E bought \in SUBSET Symbols :
          orders = [k \in {EntryKey(sym) : sym \in bought} |-> Purchase(k[2], MaxShares, "accepted")]
    /\ published = {}
    /\ status = "running"
    /\ recorded = {}
    /\ incidents = {}
    /\ calls = 0
    /\ trading \in BOOLEAN
    /\ task = [c \in Callers |-> Idle]
    /\ answer = [c \in Callers |-> "none"]

Next ==
    \/ \E c \in Callers : Start(c) \/ Step(c) \/ Crash(c)
    \/ \E sym \in Symbols : Enter(sym)
    \/ BrokerNext /\ UNCHANGED closeoutVars

Spec == Init /\ [][Next]_vars

\* A process that runs goes on running.
FairSpec == Spec /\ \A c \in Callers : WF_vars(Step(c))

----------------------------------------------------------------------------
(***************************************************************************)
(* Properties                                                              *)
(***************************************************************************)

\* Types; a call that is at an exit has a position to sell.
TypeOK ==
    /\ status \in {"running", "closeout", "closed", "blocked"}
    /\ recorded \subseteq Symbols
    /\ incidents \subseteq Incidents
    /\ calls \in 0..MaxCalls
    /\ trading \in BOOLEAN
    /\ task \in [Callers -> Tasks]
    /\ answer \in [Callers -> Answers]
    /\ \A c \in Callers : task[c].phase \in {"submit", "record", "retry"} =>
          task[c].held # NothingHeld

\* The shares that the unfilled exits of a symbol may still sell.
OnSale(sym) ==
    LET sales == {k \in DOMAIN orders :
                     IsWorking(k) /\ orders[k].side = "sell" /\ orders[k].symbol = sym}
    IN  FoldSet(LAMBDA k, n : n + orders[k].qty - orders[k].filled, 0, sales)

\* Whoever closes the session, as often and at the same time as it may be, the
\* account never has more shares on sale than it holds: no call goes short.
NeverOversold == \A sym \in Symbols : OnSale(sym) <= positions[sym]

\* No purchase works on in a session that is closed, unless entries go on.
ClosedMeansNoWorkingBuy == status = "closed" /\ ~trading => OpenBuys = {}

\* A session that is blocked, and every call that says so, has its incident.
BlockedHasIncident ==
    /\ status = "blocked" => incidents # {}
    /\ \A c \in Callers : answer[c] = "blocked" => incidents # {}

\* Two calls never give the session different verdicts, and the verdict a call
\* returned stays the session's.
VerdictsAgree == \A c \in Callers : answer[c] \in {"closed", "blocked"} => status = answer[c]

\* The only way to close a session with a position: a purchase that was not over
\* at the last look at the positions filled since.
ClosedExposureIsLateFill ==
    [][\A c \in Callers :
          In(c, "mark") /\ answer'[c] = "closed" =>
              \A sym \in HeldSymbols : \E k \in Buys \ task[c].over : orders[k].symbol = sym]_vars

\* A call comes to an end, however often the broker rejects the exits and
\* however long it works on the orders.
CloseoutEnds == \A c \in Callers : ~In(c, "idle") ~> In(c, "idle")

\* The session is never marked clean while exposure remains.
NeverCleanWhileExposed ==
    [][status # "closed" /\ status' = "closed" => positions = NothingHeld]_vars

\* A call that was cut short can be repeated.
RepeatIsIdempotent == \A c \in Callers : answer[c] # "conflict"

=============================================================================
