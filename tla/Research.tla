------------------------------ MODULE Research ------------------------------
(***************************************************************************)
(* factory/orchestrator.py: the commands research run, resume and report.  *)
(* Processes work on the stage files of experiments, read bars through     *)
(* whatever catalog is there (module DataPipeline) and write to the        *)
(* strategy registry, one transaction a call (module RegistryLedger), from *)
(* which somebody promotes strategies meanwhile.                           *)
(*                                                                         *)
(* A stage file stands for its payload: the strategies it is about and the *)
(* dataset its evidence was computed from.  Hashes are collision free, and *)
(* the backtests are functions of strategy and bars.                       *)
(***************************************************************************)
EXTENDS Integers, Sequences, FiniteSets

CONSTANTS
    Workers,        \* the processes
    Datasets,       \* dataset ids that were published and pass their checks
    Nothing,        \* no dataset
    Revisions,      \* code revisions
    VariantOrder,   \* what the proposal generates, in its order
    Preselected,    \* dataset -> strategies whose validation results suffice
    Robust,         \* dataset -> strategies whose robustness gates pass
    FinallyGood,    \* dataset -> strategies whose final test passes
    Capacity,       \* the registry's STATE_CAPACITY
    MaxCommands,    \* bound: commands of all processes
    MaxChanges,     \* bound: how often catalog or code change
    MaxPromotions   \* bound: how many strategies are promoted

Variants == {VariantOrder[i] : i \in DOMAIN VariantOrder}

ASSUME ResearchAssumption ==
    \* robustness requires at least two generated neighbor strategies
    /\ VariantOrder \in Seq(Variants)
    /\ Cardinality(Variants) = Len(VariantOrder) /\ Len(VariantOrder) >= 3
    /\ Preselected \in [Datasets -> SUBSET Variants]
    /\ Robust \in [Datasets -> SUBSET Variants]
    /\ FinallyGood \in [Datasets -> SUBSET Variants]
    \* only states that research never asks for have a capacity
    /\ {"candidate", "paper_shadow", "rejected"} \cap DOMAIN Capacity = {}
    /\ MaxCommands \in Nat /\ MaxChanges \in Nat /\ MaxPromotions \in Nat

VARIABLES
    chain,        \* experiment -> its stage files, in their order
    events, rows, decisions,    \* the registry
    catalog,      \* the dataset that the catalog serves
    revision,     \* git rev-parse HEAD
    task,         \* process -> the command it runs
    begun,        \* how many commands were begun
    changes       \* how often catalog or code changed

registry == <<events, rows, decisions>>
world == <<catalog, revision, changes>>
vars == <<chain, registry, world, task, begun>>

\* An experiment id is the hash of the dataset id, the split of its sessions
\* and the code revision; the proposal is one and the same.
Experiments == [dataset : Datasets, sessions : Datasets, revision : Revisions]

Steps == {"idle", "sessions", "load", "loadRest", "stage", "link", "register"}

NoTask == [step |-> "idle", command |-> "none", dataset |-> Nothing, revision |-> Nothing,
           experiment |-> Nothing, loaded |-> << >>, payload |-> Nothing, calls |-> 0,
           outcome |-> "none"]

Goto(w, step) == task' = [task EXCEPT ![w].step = step]

\* The command returns or raises; it forgets everything but its outcome.
End(w, outcome) == task' = [task EXCEPT ![w] = [NoTask EXCEPT !.outcome = outcome]]

Stages == INSTANCE StageChain

\* The name of the stage that comes after n stages.
StageAfter(n) == Stages!ResearchStages[n + 1]

Payload(n, ids, source) == [stage |-> StageAfter(n), ids |-> ids, source |-> source]

\* The payloads that a process has in memory.
Loaded(w) == task[w].loaded
Done(w) == Len(Loaded(w))

----------------------------------------------------------------------------
(* The commands up to the first missing stage *)

\* accept_dataset and verify_snapshot: the catalog serves this dataset now.
BeginRun(w) ==
    /\ task[w].step = "idle"
    /\ begun < MaxCommands
    /\ begun' = begun + 1
    /\ task' = [task EXCEPT ![w] = [NoTask EXCEPT !.step = "sessions", !.command = "run",
                                                  !.dataset = catalog]]
    /\ UNCHANGED <<chain, registry, world>>

\* The sessions are those of whatever the catalog serves a moment later.
ReadSessions(w) ==
    /\ task[w].step = "sessions"
    /\ task' = [task EXCEPT
          ![w].step = "load",
          ![w].revision = revision,
          ![w].experiment = [dataset |-> task[w].dataset, sessions |-> catalog,
                             revision |-> revision]]
    /\ UNCHANGED <<chain, registry, world, begun>>

\* resume and report: the dataset is what the first stage says.
BeginResume(w) ==
    /\ task[w].step = "idle"
    /\ begun < MaxCommands
    /\ begun' = begun + 1
    /\ \E e \in Experiments :
          /\ chain[e] # << >>
          /\ task' = [task EXCEPT ![w] = [NoTask EXCEPT !.step = "load",
                                                        !.command = "resume",
                                                        !.dataset = e.dataset,
                                                        !.revision = revision,
                                                        !.experiment = e]]
    /\ UNCHANGED <<chain, registry, world>>

\* load_all reads the stages up to the first that is not there ...
Load(w) ==
    /\ task[w].step = "load"
    /\ task' = [task EXCEPT ![w].step = "loadRest", ![w].loaded = chain[task[w].experiment]]
    /\ UNCHANGED <<chain, registry, world, begun>>

\* ... and looks for the others: one that was linked meanwhile makes a gap.  An
\* incomplete experiment is resumed by the code that began it.
MayGoOn(w) ==
    LET e == task[w].experiment
    IN  /\ Len(chain[e]) <= Done(w) + 1
        /\ Done(w) < Stages!StageCount => task[w].revision = e.revision
LoadRest(w) ==
    /\ task[w].step = "loadRest"
    /\ IF MayGoOn(w) THEN Goto(w, "stage") ELSE End(w, "failed")
    /\ UNCHANGED <<chain, registry, world, begun>>

----------------------------------------------------------------------------
(* _execute: the first missing stage is produced, then linked *)

Selection(w) == Loaded(w)[5].ids
GatesPassed(w) == Loaded(w)[7].ids

\* A phase runs the strategies on bars that _load_frames reads through the
\* catalog, once for all of them; no strategies read nothing.
PhaseItems(n, ids) == Payload(n, ids, IF ids = {} THEN Nothing ELSE catalog)

\* robustness_evidence: walk-forward windows, neighbors, start dates and null
\* tests, all of them from the validation results.
IsRobust(w, v) == v \in Robust[Loaded(w)[4].source]

\* The strategies that pass all hard gates: those sealed have a final test,
\* the others fail the gates that repeat the preselection.
Passing(w) ==
    {v \in Selection(w) : IsRobust(w, v) /\ v \in FinallyGood[Loaded(w)[6].source]}

\* What the stage after the loaded ones holds.
Produced(w) ==
    LET n == Done(w)
    IN  CASE StageAfter(n) \in {"PROPOSAL_ACCEPTED", "VARIANTS_GENERATED"} ->
                Payload(n, Variants, Nothing)
          [] StageAfter(n) \in {"TRAIN_COMPLETE", "VALIDATION_COMPLETE"} ->
                PhaseItems(n, Variants)
          [] StageAfter(n) = "SELECTION_SEALED" ->
                Payload(n, Preselected[Loaded(w)[4].source], Nothing)
          [] StageAfter(n) = "FINAL_TEST_COMPLETE" -> PhaseItems(n, Selection(w))
          [] StageAfter(n) = "GATES_COMPLETE" -> Payload(n, Passing(w), Nothing)
          [] OTHER -> Payload(n, GatesPassed(w), Nothing)

\* The state a strategy has when its experiment is registered.
ExpectedState(w, v) == IF v \in GatesPassed(w) THEN "paper_shadow" ELSE "rejected"

\* The registry still says of every strategy what REGISTRY_COMPLETE says.
RegistryAgrees(w) ==
    /\ Loaded(w)[8].ids = GatesPassed(w)
    /\ \A v \in Variants : rows[v].state = ExpectedState(w, v)

\* After the registry stage the registry is verified, then the report written,
\* or the command is done; the registry stage itself is a call a strategy.
Produce(w) ==
    /\ task[w].step = "stage"
    /\ CASE Done(w) >= 8 /\ ~RegistryAgrees(w) -> End(w, "mismatch")
         [] Done(w) = Stages!StageCount /\ RegistryAgrees(w) -> End(w, "done")
         [] Done(w) = 7 -> Goto(w, "register")
         [] OTHER -> task' = [task EXCEPT ![w].step = "link", ![w].payload = Produced(w)]
    /\ UNCHANGED <<chain, registry, world, begun>>

\* The process goes on with its payload as the next loaded stage.
Keep(w) ==
    task' = [task EXCEPT ![w].step = "stage", ![w].payload = Nothing,
                         ![w].loaded = Append(@, task[w].payload)]

\* os.link, which never replaces: STAGE_CONCURRENT_WRITE.
LinkReplacing(w) ==
    /\ task[w].step = "link"
    /\ LET e == task[w].experiment
       IN  chain' = [chain EXCEPT ![e] = IF Len(@) > Done(w)
                                         THEN [@ EXCEPT ![Done(w) + 1] = task[w].payload]
                                         ELSE Append(@, task[w].payload)]
    /\ Keep(w)
    /\ UNCHANGED <<registry, world, begun>>
LinkOrKeep(w) ==
    /\ task[w].step = "link"
    /\ LET e == task[w].experiment
       IN  chain' = [chain EXCEPT ![e] = IF Len(@) > Done(w) THEN @
                                         ELSE Append(@, task[w].payload)]
    /\ Keep(w)
    /\ UNCHANGED <<registry, world, begun>>
Link(w) ==
    /\ task[w].step = "link"
    /\ LET e == task[w].experiment
       IN  IF Len(chain[e]) > Done(w)
           THEN End(w, "failed") /\ UNCHANGED chain
           ELSE Keep(w) /\ chain' = [chain EXCEPT ![e] = Append(@, task[w].payload)]
    /\ UNCHANGED <<registry, world, begun>>

----------------------------------------------------------------------------
(* registry_payload: four calls for every strategy, in the order of variants *)

Ledger == INSTANCE RegistryLedger WITH Strategies <- Variants, Requests <- {}

Request(op, key, v, to, cites, passing, tag) ==
    [op |-> op, key |-> key, strategy |-> v, to |-> to, cites |-> cites,
     passing |-> passing, tag |-> tag]

\* The validation evidence that the candidate event refers to: what the stage
\* file holds, so that a repeated call has the content of the first one.
EvidenceNow(w) == catalog
Evidence(w) == Loaded(w)[4].source

\* The evidence of the gates, which the decision's id is a hash of.
DecisionId(w, v) == <<"decision", task[w].experiment, v, Evidence(w), Loaded(w)[6].source>>

\* The i-th call.  All of them occurred when the dataset was accepted.
RegistryCall(w, i) ==
    LET e == task[w].experiment
        v == VariantOrder[(i \div 4) + 1]
        to == ExpectedState(w, v)
    IN  CASE i % 4 = 0 -> Request("register", <<e, v, "generated">>, v, "generated",
                                  << >>, FALSE, e.dataset)
          [] i % 4 = 1 -> Request("transition", <<e, v, "candidate">>, v, "candidate",
                                  << >>, FALSE, Evidence(w))
          [] i % 4 = 2 -> Request("decide", DecisionId(w, v), v, "generated", << >>,
                                  v \in GatesPassed(w), e.dataset)
          [] OTHER -> Request("transition", <<e, v, to>>, v, to, DecisionId(w, v),
                              FALSE, e.dataset)

CallCount == 4 * Len(VariantOrder)

\* The gates of the registry on a request whose key is not taken.
MayWrite(r) ==
    LET state == rows[r.strategy].state
    IN  /\ r.op = "register" => state = Ledger!Absent
        /\ r.op = "transition" => Ledger!MayMove(rows, decisions, state, r)
        /\ r.op = "decide" => state # Ledger!Absent

\* A registry transaction; a request already in the ledger is answered by it.
Transact(r) ==
    IF Ledger!InLedger(r) THEN UNCHANGED registry
    ELSE Ledger!Register(r) \/ Ledger!Transition(r) \/ Ledger!Decide(r)

Refused(r) == ~Ledger!InLedger(r) /\ (Ledger!KeyTaken(r) \/ ~MayWrite(r))

\* The states that the calls have left: what REGISTRY_COMPLETE holds.
InShadow(w) == {v \in GatesPassed(w) : rows[v].state = "paper_shadow"}

RegisterNext(w) ==
    /\ task[w].step = "register"
    /\ IF task[w].calls = CallCount
       THEN /\ task' = [task EXCEPT ![w].step = "link", ![w].calls = 0,
                                    ![w].payload = Payload(7, InShadow(w), Nothing)]
            /\ UNCHANGED registry
       ELSE LET r == RegistryCall(w, task[w].calls)
            IN  IF Refused(r)
                THEN End(w, "refused") /\ UNCHANGED registry
                ELSE /\ Transact(r)
                     /\ task' = [task EXCEPT ![w].calls = @ + 1]
    /\ UNCHANGED <<chain, world, begun>>

----------------------------------------------------------------------------
(* The surroundings *)

\* build_catalog for another dataset, or for this one again.
Rebind ==
    /\ changes < MaxChanges
    /\ changes' = changes + 1
    /\ catalog' \in Datasets \ {catalog}
    /\ UNCHANGED <<chain, registry, revision, task, begun>>

\* A commit is checked out.
NewRevision ==
    /\ changes < MaxChanges
    /\ changes' = changes + 1
    /\ revision' \in Revisions \ {revision}
    /\ UNCHANGED <<chain, registry, catalog, task, begun>>

\* The forward evaluation moves a strategy on.
Promotion(v) == Request("transition", <<"forward", v>>, v, "paper_observing", << >>, FALSE,
                        Nothing)
Promote(v) ==
    /\ Cardinality({u \in Variants : Ledger!InLedger(Promotion(u))}) < MaxPromotions
    /\ Ledger!Transition(Promotion(v))
    /\ UNCHANGED <<chain, world, task, begun>>

\* A process dies.
Crash(w) ==
    /\ task[w].step # "idle"
    /\ task' = [task EXCEPT ![w] = NoTask]
    /\ UNCHANGED <<chain, registry, world, begun>>

Step(w) ==
    \/ ReadSessions(w) \/ Load(w) \/ LoadRest(w)
    \/ Produce(w) \/ Link(w) \/ RegisterNext(w)

Init ==
    /\ Stages!ChainInit
    /\ Ledger!LedgerInit
    /\ catalog \in Datasets
    /\ revision \in Revisions
    /\ task = [w \in Workers |-> NoTask]
    /\ begun = 0
    /\ changes = 0

Next ==
    \/ \E w \in Workers : BeginRun(w) \/ BeginResume(w) \/ Step(w) \/ Crash(w)
    \/ \E v \in Variants : Promote(v)
    \/ Rebind
    \/ NewRevision

Spec == Init /\ [][Next]_vars

----------------------------------------------------------------------------
(***************************************************************************)
(* Properties                                                              *)
(***************************************************************************)

\* Whatever processes run, resume, repeat and kill an experiment while catalog
\* and code change, its stages look as if one process had written them in order
\* and no strategy comes back that an earlier stage had sorted out.
ChainSpec == Stages!ChainSpec

\* The final sessions are only read for the strategies that the selection on
\* disk has sealed, which are those that the validation on disk preselects: no
\* process tests another selection, not even one that will lose the link.
FinalTestIsSealed ==
    \A w \in Workers :
        LET stages == chain[task[w].experiment]
        IN  task[w].step = "link" /\ task[w].payload.stage = "FINAL_TEST_COMPLETE" =>
                /\ Len(stages) >= 5
                /\ task[w].payload.ids = stages[5].ids
                /\ stages[5].ids = Preselected[stages[4].source]

\* What the registry holds of an experiment is what its stage files say: the
\* candidate refers to the validation evidence on disk, and the verdict and
\* the decision are those of GATES_COMPLETE, whichever processes made the calls.
RegistryFollowsChain ==
    /\ \A i \in DOMAIN events :
          LET r == events[i].request
              stages == chain[r.key[1]]
          IN  Len(r.key) = 3 =>
                 /\ Len(stages) >= 7
                 /\ r.to = "candidate" => r.tag = stages[4].source
                 /\ r.to = "paper_shadow" => r.strategy \in stages[7].ids
                 /\ r.to = "rejected" => r.strategy \notin stages[7].ids
    /\ \A d \in decisions :
          d.passing = (d.strategy \in chain[d.key[2]][7].ids)

\* A registry call is refused only when the strategy was registered by another
\* experiment.  An experiment that was killed between its calls, and resumed
\* with another catalog or after a promotion, is never in conflict with itself.
RefusedOnlyByOthers ==
    [][\A w \in Workers :
          task[w].step = "register" /\ task'[w].outcome = "refused" =>
              \E i \in DOMAIN events :
                  /\ events[i].request = [RegistryCall(w, task[w].calls) EXCEPT
                                             !.key = events[i].request.key,
                                             !.tag = events[i].request.tag]
                  /\ events[i].request.key[1] # task[w].experiment]_vars

\* The evidence of an experiment is that of the dataset it is bound to
\* (orchestrator.py: "Bind orchestration to one currently accepted immutable
\* local dataset").
EvidenceIsOfDataset ==
    \A e \in Experiments : \A i \in DOMAIN chain[e] :
        chain[e][i].source \in {Nothing, e.dataset}

\* A command on a finished experiment succeeds (cli.py: "Run or idempotently
\* resume one immutable proposal/dataset experiment").
RepetitionSucceeds ==
    [][\A w \in Workers :
          task[w].step = "stage" /\ Done(w) = Stages!StageCount => task'[w].outcome # "mismatch"]_vars

=============================================================================
