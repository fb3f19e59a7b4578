# Formal models of the US intraday lab

TLA+ models of `us_intraday_lab` (under `src/src/us_intraday_lab/`), the TLC
configurations that check them and proofs for TLAPS. The program imports
historical bars, researches intraday strategies on them, keeps the promising
ones in a registry and runs them on a paper account. The models cover what can
go wrong only over several steps: money at the broker that the ledger does not
know, a promotion nobody validated, a session that cannot be resumed, a backtest
that sees the future, a dataset that is not the file it names.

In this file a *run* is one `.cfg`; section 3 says which module it is for. Check one
with `tlc -config PaperSession_restarts.cfg MCPaperSessionSolo.tla`, a proof with
`tlapm PaperSessionProofs.tla`. `PROJECT.json` maps every definition to the
source lines it stands for.

## 1. The system

### Components

| Component | State it keeps | Operations | Hard behaviour | What makes it correct |
|---|---|---|---|---|
| Paper session service, `paper/session.py` | status, entry counts, pending aggregates, strategy histories | start, `process_bars`, an entry in four steps, order updates | a crash or a failed write between two steps; a time read early and judged late | one order per signal, exact counts, one open purchase per symbol |
| Paper ledger, `paper/store.py` | SQLite: sessions, intents, order events, snapshots, checkpoints, incidents | idempotent appends, the bundle transaction, the write circuit | memory and ledger diverge when a write fails | append-only, equal content under an equal key |
| Startup reconciliation, `paper/reconciliation.py` | none | compare broker and ledger | two reads of an account that moves | a clean start knows every working order |
| Recovery, `paper/recovery.py` | checkpoints | replay, verify, resume | events sorted by time but appended in another order; two writers | the resumed state is that of a clean replay |
| Risk gates and sizing, `paper/risk.py`, `paper/sizing.py` | none | pure decisions | stale inputs, limits at their boundary | no approval out of limits or out of time |
| Closeout, `paper/closeout.py` | the session's status, exits, incidents | cancel, sell, verify, mark | run by two processes; fills between reads; crash and repeat | closed only when flat, never short, always a verdict |
| Paper market data, `paper/market_data.py` | minutes and buckets in memory and in the ledger, circuit reasons | ingest, aggregate, health | late, reordered, repeated, lost minutes; crash between two appends | an aggregate is whole and in time, an entry is made from its own bar |
| Alpaca adapter, `paper/alpaca_paper.py`, `paper/broker.py` | external: account, orders | submit, cancel, list | timeouts with an unknown outcome | never more than the account allows |
| Strategy registry, `registry/` | SQLite: versions, events, current state, validation decisions | register, transition, record decision | concurrent transactions, busy timeouts, retries | capacities, history, keys, validation before paper |
| Forward evaluation and ranking, `forward/` | evidence in the registry's database | gate, score, promote | a loop of independent transitions; overlapping evaluations | evidence promotes once, the better come first |
| Research orchestrator, `factory/` | stage files of an experiment | run, resume, report; register variants | a crash inside a stage, two processes on one experiment, a world that changes between stages | stages appear once, in order, and seal the final test |
| Validation, `validation/` | one object with the views of a split | split, hand out views, seal, cut windows | rounding; methods called in any order | isolation and single use of the final test |
| Strategy runtime, `strategy/runtime.py` | phase, entries, cooldown of each symbol | transitions, fills | a rejection must give back the phase before it | legal transitions only |
| Backtest engine and portfolio, `backtest/` | runtime, account, pending orders | replay a session minute by minute | three tables moved by one order; the order of the events of a minute | no look-ahead, funds covered, flat at the closeout |
| Data pipeline, `data/` | snapshots, derived artifacts, the catalog, temporary directories | import, build, accept | an archive overwritten while it is read; two renames into one place; crashes | what is published is whole, clean and what it says |
| Strategy language, reports, contracts, settings, CLI | none of their own | validate, compile, render, dispatch | | |

### Interactions

* `cli.py` (`paper run`) starts the session service, streams minutes into `process_bars` and calls
  `closeout` from the first bar that arrives inside the closeout buffer. `process_order_update` is
  there for whoever receives order updates; the command line never calls it, so in a `paper run` the
  ledger hears of fills from a closeout and at the next start. The models let it be called at any
  time between two other calls, or never. `paper closeout` is another **process** that calls the
  same closeout on the same SQLite file and the same account.
* The session reads strategies and their lifecycle states from the registry when
  it starts, and not afterwards.
* The session and the broker share no transaction. An order is submitted first, and then
  a bundle (intent, order event, checkpoint), a snapshot of the positions and the entry count
  are written by separate transactions.
* After a crash nothing is left of the process. Startup reads the account, compares it
  with the ledger (reconciliation), replays the evidence (recovery) and makes the
  day's aggregates pending again.
* `research run` binds an experiment to the dataset the catalog serves, and each of its phases
  reads bars through the catalog again. Its phases call the backtest engine, which
  drives one strategy runtime per symbol. The registry stage writes to the registry, four
  calls a variant; the forward evaluation later promotes from there.
* Several processes use the registry, the stage files and the dataset directories at once. SQLite's
  write lock (`BEGIN IMMEDIATE`) orders the first; `os.link` and directory renames, which
  fail when the name is taken, are all that orders the others.

The hazards, each at its line and with the properties that look for it, are in
`PROJECT.json` under `hazards`.

## 2. Modules

```
PaperBroker  --EXTENDS--> PaperSession --> PaperSessionInvariant --> PaperSessionProofs
     |     Reconciliation ---^                      +--> MCPaperSessionSolo
     |                       +--> MCPaperSession
     +------------------> Closeout --> CloseoutInvariant --> CloseoutProofs
Recovery --> RecoveryInvariant --> RecoveryProofs
MarketData --> MarketDataProofs

Lifecycle --> RegistryLedger --> Registry --> RegistryProofs, MCRegistry
                    |   ^-- implemented by --+
                    +-- INSTANCE of --> Research --> ResearchProofs, MCResearch
                    |      StageChain <-- implemented by --+
                    +-- INSTANCE of --> Forward --> ForwardInvariant, MCForward

StrategyRuntime, BacktestPortfolio --> BacktestEngine --> BacktestInvariant
                         BacktestInvariant, ForwardInvariant --> BacktestProofs
                                           BacktestInvariant --> MCBacktest
DataQuality --> DataPipeline --> DataPipelineProofs, MCDataPipeline
                    DatasetStore <-- implemented by --+
Research, Validation --> ResearchProofs
```

A few proof modules serve two components, because both belong to one stage of a strategy's way:
`ResearchProofs` has the proofs of the orchestrator and of the split it works on,
`BacktestProofs` those of the evaluation of strategies, on past bars and forward. The names of `Forward` and
`Validation` (`ForwardNext`, `ViewsNext`) do not clash with those of `BacktestEngine` and `Research`.

Three modules are **abstract specifications**: `RegistryLedger`, `StageChain` and
`DatasetStore` say what the registry, the orchestrator's files and the dataset directories
promise to whoever reads them. A refinement, checked by TLC and proved, shows that
the detailed module implements each.

### PaperBroker (external; `alpaca_paper.py`, `broker.py`)

The account as the code uses it: orders by client order id, and positions. `Place`
takes an order once per key. `Accept`, `Fill` and `Terminate` are the broker's
own steps: partial fills, then one of the end states. Money is left out.

### Reconciliation (`reconciliation.py`)

A pure operator: the issues found by comparing the broker's open orders and positions with
the ledger's. The *calls* are in PaperSession, because the two broker reads are apart in time.

### PaperSession (`session.py`, with parts of `store.py`, `risk.py`, `cli.py`)

State: the ledger (bars, recorded orders, last snapshot, counts), the
process (`pc`, pending bars, the work list, the attempt under way), the broker
and its clock. One action for each step another actor can come between:

| Action | Code |
|---|---|
| `Boot`, `Reconcile` (its two reads of the account are steps of their own) | `session.py` 158-199, `reconciliation.py` 174-216 |
| `ProcessBars`, `ProcessBarsRefused`, `FinishLoop` | `process_bars` and its loop, `session.py` 201-260 |
| `Skip` | an item is passed over before the broker is asked, `session.py` 243-281 |
| `ReadClock`, `ReadOrders`, `ReadAborts` | the clock and the open orders are read at different times, and each read may raise, `session.py` 283-339 |
| `Approve`, `Refuse` | the positions are read and the gates decide on what was read before, `session.py` 340-359, `risk.py` 118-174 |
| `AbortCall` | the rule or the features raise outside the session's `try`, `session.py` 244 |
| `Submit`, `SubmitUncertain`, `SubmitRetained`, `SubmitFails`, `SubmitAborts` | the ways `broker.submit` can end, `session.py` 250-253, 360 |
| `RecordBundle`, `AppendSnapshot`, `CountEntry`, `EntryStepFails` | the three writes after it, `session.py` 361-420 |
| `OrderUpdate`, `UpdateSnapshot`, `UpdateSnapshotFails` | `process_order_update`, `session.py` 422-462 |
| `Crash` | all that is not in the ledger or at the broker is lost |

The strategy's rule and the sizing are a free choice (`Skip`, `Refuse`): both are pure, and any
outcome is modelled. Time passes and the broker acts between the three reads. The submission ends in
all the ways it can: taken and answered, taken but timed out, not taken. The session can go on after
an uncertain submission, as the code does. `PaperSessionInvariant` holds the inductive invariants of
the proofs.

### Recovery (`recovery.py`, and every writer of evidence)

Three tables of evidence and the numbered checkpoints. A writer's reads and its
transaction are separate steps. The replay is the code's stable sort by
`(time, kind, id)`. A digest is the replayed state itself, so equal digests mean
equal states. A checkpoint also says whether its writer was alone, which the code does not
keep and only `CheckpointVerifies` reads. `RecoveryInvariant` holds the inductive invariant
of the proofs.

### Closeout (`closeout.py`)

Every call of `closeout_session` step by step: poll, cancel, read the positions,
submit and record each exit, verify, read the orders, write the incident, mark. Several
callers; a call may raise or be cut short anywhere; the broker fills, cancels and rejects in
between, and with `trading` the runner places further purchases. A
status transition is the compare-and-set of `transition_session_status`.

### MarketData (`market_data.py`, `process_bars` around it)

Minutes arrive late, out of order, twice or never. Memory (`bars`, `emitted`,
`circuit`) is apart from the ledger (`minutes`, `aggregates`), because the code
writes memory first. The two appends are separate steps with a crash or a failed
write between. The part of the session that shows aggregates to the strategies
(feed age, pending, history) is included, because that is where a wrong bar would do harm.

### Lifecycle, RegistryLedger, Registry (`registry/`)

`Lifecycle` has the states, the transition table, capacities and requests.
`RegistryLedger` is the abstract specification: each operation is one atomic
step on the tables, granted or refused. `Registry` is the detailed one: callers
take the lock, look up the key, pass the gates, commit or roll back, time out on
the busy lock, crash. It implements `RegistryLedger` with the tables mapped to themselves.

### StageChain, Research (`factory/orchestrator.py`)

`StageChain`: the stage files of an experiment appear one at a time in the order of
`RESEARCH_STAGES`, are never changed, and no strategy an earlier stage sorted out comes back.
`Research` has processes that run, resume and report experiments:

| Action | Code |
|---|---|
| `BeginRun`, `ReadSessions`, `BeginResume` | what binds a command to a dataset, a revision and an experiment, `cli.py` 696-758 |
| `Load`, `LoadRest` | `load_all`: the loaded prefix, then the look for gaps |
| `Produce` | the next stage's payload; the check of a complete experiment against the registry |
| `Link` | `os.link`, which never replaces |
| `RegisterNext` | one of the four registry calls a variant, `orchestrator.py` 926 on |
| `Rebind`, `NewRevision`, `Promote`, `Crash` | the surroundings |

The registry is `RegistryLedger` itself, so its gates and keys are those of the real one. What a
phase computes is a constant: which strategies pass it on which dataset. Backtests are
functions of strategy and bars, and the bars are those of the dataset the catalog serves
*when the phase reads it*.

### Forward (`forward/`)

Overlapping evaluations (`Collect`, `Evaluate`, `Promote`) on `RegistryLedger`, with operators who
move strategies meanwhile (`ExplicitTransition`): to any state the registry lets them reach, under
any evidence, good or not, used or not, with a key of their own or the one an evaluation would use
(`OperatorKeys`). The ranking is translated: component scores from the distinct values of the
cohort, weighted, ties by id; a place of the ranking is the one with so many before it.
`ForwardAssumption` types the evidence (equal ids are equal evidence, metrics are numbers, weights
positive). Six of the eight eligibility gates are about the evidence alone and are one Boolean;
state and capacity are read from the registry when the inputs are collected and are stale when the
promotion is made.

### StrategyRuntime, BacktestPortfolio, BacktestEngine (`strategy/runtime.py`, `backtest/`)

The first two are operators: the methods of the runtime and of the portfolio as functions of a
state, with `May...` for the cases in which the method does not raise. The engine is
`run_scenario`: each minute passes through the stages `rows`, `orders`, then `risk`, or `cancel`
and `force` at the closeout signal, or nothing after it. A symbol's row, an order and a position are one
action each. `failure` holds what the engine would raise. Minute bars and the answers of the
strategy's rules are inputs. `BacktestInvariant` has the properties.

### DatasetStore, DataQuality, DataPipeline (`data/`)

`DatasetStore`: snapshots are published once and never change, artifacts are derived from published
ones, the catalog serves what has both. `DataQuality` decides what is quarantined and what may be
published: a core symbol of which any row is observed is held to the production gates in every
declared session, as one that the source declares is. `DataPipeline` has processes that import
(inspect, read member by member, hash again, stage, confirm, rename), build and accept, on a file
system where archives are overwritten, also with what they held before (`Overwrite`; a path is the
sequence of the files it held, and the hashes compare contents, not times), processes die, and a
rename onto a directory that is there fails the way the platform does it.

### Validation (`validation/splits.py`, `walk_forward.py`)

The largest-remainder split and the walk-forward windows as operators, and the object that hands
out the views of the three phases and may be called in any order. Windows are cut from any number of
sessions, and refused where the code raises (`WindowsRefused`). At this commit no module of the program
calls `build_walk_forward_windows`, only tests do, so nothing is said of which phase the sessions come from.

## 3. Runs

Passing runs state what the code keeps. Violation runs show, each for one
sentence of the documents, a disagreement met while modelling; the finding in
`PROJECT.json` quotes it.

| Run | Module and cfg | Shows |
|---|---|---|
| `session_restarts` | `MCPaperSessionSolo`, `PaperSession_restarts` | Two bars, partial fills, a limit of one entry, a slow broker clock, a crash anywhere, every way a submission can end: the entry count equals the entries that completed all four steps (`EntryCountIsExact`); a signal has one order, a symbol one open purchase; a clean start knows every working order; an approval rests on a reading of the broker's clock that is in time and later than every order placed before. |
| `session_resubmission` (violation) | `MCPaperSession`, `PaperSession_resubmission` | With two symbols per strategy the key of a signal depends on the other symbol's entries; a restart can order twice. |
| `recovery_race` | `Recovery`, `Recovery_race` | Two writers that die anywhere: a checkpoint whose writer was alone between its reads and its transaction always verifies, and resuming keeps the market events and the order states of a clean replay. |
| `closeout_race` | `CloseoutInvariant`, `Closeout_race` | Two processes, three calls, with and without the runner trading on: never short, calls agree on the verdict, a closed session has no working purchase (unless entries go on), its only exposure is a purchase filled after the last look, and every call ends. |
| `market_stream` | `MarketData`, `MarketData_stream` | Aggregates are whole; memory runs ahead of the ledger only with the write circuit open; an entry is made from the bar it is recorded for. |
| `market_late` (violation) | `MarketData`, `MarketData_late` | A late minute makes the aggregate one on which the feature frame raises. |
| `registry_paper` | `MCRegistry`, `Registry_paper` | Two processes, one place, foreign and failing decisions, keys used twice, retries, timeouts, crashes: the capacity holds, what a transaction checked stays true until it commits, the shadow state is validated, a committed request is never refused, and `RegistryLedger` is implemented. |
| `backtest_sessions` | `MCBacktest`, `Backtest_sessions` | Any bars, rules, fills, gaps and risk exits over two sessions: runtime, account and orders agree after every step, the engine raises none of its errors, the cash covers the reservations, all is flat by the closeout, cooldowns are honoured, no fill uses the bar its order was signalled in, and every session is replayed to its end. |
| `data_pipeline` | `MCDataPipeline`, `DataPipeline_store` | Two processes import, build and accept while an archive is overwritten, put back, and processes die, on both platforms: what is published is clean and is the file it names (unless that file was changed and put back meanwhile), commands remove their temporary directories, and `DatasetStore` is implemented. |
| `research_runs` | `MCResearch`, `Research_runs` | Two processes run, resume, repeat and are killed on experiments of two datasets and revisions while catalog or code change and a strategy is promoted: `StageChain` is implemented, the final test is read only for the sealed selection, the registry says what the stages say, a registration is refused only because of another experiment. |
| `forward_promotions` | `MCForward`, `Forward_promotions` | Overlapping evaluations, crashes, operators who move strategies anywhere the lifecycle allows, places short: evidence that passed the gates promotes once, and whoever is promoted had everyone ranked higher promoted before. |
| `validation_splits` | `Validation`, `Validation_splits` | Every remainder of the split, every small window configuration, every order of calls: the split is exact, accepted windows walk forward through the given sessions, no search view is handed out after the seal, the final test once. |

### Further disagreements

Ten more disagreements are kept beside the runs. Each property states a sentence of the documents or of a
docstring, and TLC finds it violated within a minute. A cfg that serves two of them checks the first and names the
other in a comment, to be put in its place.

| Module and cfg | Property | What it shows |
|---|---|---|
| `MCPaperSession`, `PaperSession_limits` | `AccountEntryLimit` | An order that was not counted (its submission was uncertain, or a later write failed) lets the strategy pass its daily limit at the broker. |
| `MCPaperSession`, `PaperSession_limits` | `NoApprovalInBuffer` | The clock is read before the open orders and the positions, so an entry is approved although the closeout buffer has begun meanwhile (`session.py` 283-340); the plan refuses entries "inside the closeout buffer" (`2026-07-26-paper-execution-reporting-plan.md` 275). |
| `Closeout`, `Closeout_limits` | `NeverCleanWhileExposed` | A purchase that fills between the two last reads of a closeout is in neither, and the session is marked closed (`closeout.py` 224). |
| `Closeout`, `Closeout_limits` | `RepeatIsIdempotent` | An exit cannot be repeated after a crash: equal key, other content (`closeout.py` 95). |
| `Recovery`, `Recovery_resume` | `ResumeMatchesCleanReplay` | After a crash right after an entry the resumed state differs from a clean replay in `last_event_at`. |
| `MCRegistry`, `Registry_detour` | `PaperIsValidated` | generated, review, paper_observing reaches a paper state without validation. |
| `MCDataPipeline`, `DataPipeline_restored` | `SnapshotIsTheFileItNames` | An archive that is replaced after its first hash and put back before the second one passes both, and the rows of the other file are published under its hash (`snapshot.py` 492-514). |
| `MCForward`, `Forward_operator` | `RankedPassedGates` | An operator's move to paper_ranked asks for no gate, so a strategy is ranked on evidence that failed one (`forward/lifecycle.py` 46-67); the design says of `PAPER_RANKED` "minimum forward duration and trades are satisfied". |
| `MCResearch`, `Research_limits` | `EvidenceIsOfDataset` | The catalog is rebuilt for another dataset between two stages, and later phases compute their evidence from its bars (`orchestrator.py` 1125, 1207). |
| `MCResearch`, `Research_limits` | `RepetitionSucceeds` | Once a strategy of a finished experiment is promoted, resuming, repeating or reporting that experiment fails (`cli.py` 702, `orchestrator.py` 992). |

Others can be read off the models:

* The startup reconciliation asks for open orders only, so an escaped order that has ended
  is unseen (`reconciliation.py` 197).
* `paper_shadow` is among the states whose strategies may enter (`risk.py` 16).
* The broker's clock is read after `observed_at`, so a perfectly fresh reading has a negative
  age and is refused (`risk.py` 136).
* A row another process appends between a writer's reads and its transaction makes the
  checkpoint fail for ever (`session.py` 400); this is why `CheckpointVerifies` asks that the
  writer was alone.
* The two snapshots of a closeout have one time and are replayed final first (`closeout.py` 64).
* Entries look at the time and not at the session's status, so they go on after a
  `paper closeout` before the buffer (`session.py` 360); this is why `ClosedMeansNoWorkingBuy`
  excepts a runner that trades on.
* A crash between an exit's submission and its record leaves a sale no later call records
  (`closeout.py` 200).
* An open write circuit also refuses the closeout's own writes: its incident, its snapshots
  and the change of the session's status (`store.py` 141).
* A crash between the append of a bucket's last minute and that of its aggregate loses the
  aggregate for ever (`market_data.py` 173).
* A minute delivered again has a later `available_at`, is refused as a mismatch and
  disables entries until a restart (`market_data.py` 156).
* Of two identical imports, or builds, on POSIX the one that renames second gets an `OSError`
  that `except FileExistsError` does not catch (`snapshot.py` 668, `catalog.py` 455). Nothing is damaged;
  repeating the command succeeds.
* The same archive at another path has another identity and collides with the first
  import's dataset instead of being recognised.
* A declared production symbol outside SPY, QQQ and IWM can be imported and never accepted.
* A second experiment over the same variants (after a commit, or for another dataset) is refused at
  its first `register_strategy` for ever. `RefusedOnlyByOthers` says that this is the only
  way to be refused.
* A promotion between the last registry call of an experiment and the link of its
  `REGISTRY_COMPLETE` makes that stage disagree with the registry for ever
  (`REGISTRY_STATE_MISMATCH`).
* `load_all` raises `STAGE_SEQUENCE_GAP` when another process links two stages while it looks
  (`Load`, `LoadRest`). Nothing is damaged.
* The forward evaluator's docstring says "transactionally" (`evaluator.py` 56); its promotions are
  transactions one by one. A conflict on a higher-ranked strategy, for example one that was restored after
  an earlier promotion on the same evidence, ends the loop and keeps the lower-ranked out.

### Bounds, and why they are enough

* *Actors.* Every race found in the code is between two: two processes on the ledger, two callers of
  the registry or the closeout, two commands on one experiment or one directory, the process and the
  broker. Runs have two of the kind that races, one of the others. Two strategies that share a
  symbol are covered by the theorem `OneOpenEntry`, which holds for any number.
* *Session.* Two bars (a bar and the next, so that a signal can be tried
  again, expire, or be followed by another while its order works), one crash, a horizon up to the
  start of the closeout buffer; two shares an entry, so that partial fills matter; `MaxEntries` is 1
  instead of 3, so that the second bar meets the limit.
* *Closeout.* One symbol, one share: the races are about one position. Polls and
  attempts are 1 or 2: a loop is passed through, repeated and exhausted. Three calls are the
  least with which a call can follow two that overlap. `trading` is chosen at
  the start, so that one run has sessions with and without entries.
* *Market data.* `Width` 2 instead of 15: a bucket has a first and a last
  minute. Five minutes are two buckets and a remainder. `StaleAfter < Width`, as in the
  code (2 and 15 minutes): `EntryUsesItsBar` rests on that, and its theorem assumes it.
* *Recovery.* One entry and its exit, two bars, two closeouts and five clock readings: every
  pair of kinds of evidence occurs in both orders.
* *Registry.* Two strategies for a capacity of one. `PaperRequests` is the
  shortest set that reaches the states asked about, with keys used with two contents.
* *Backtest.* Two symbols compete for cash (10 units, prices of 2 and 4 and an impact of 1, so that
  both can hold and a gap can overdraw a reservation); a session of nine minutes has rows due three
  times before the closeout signal, twice in consecutive minutes, room for two trades with a
  cooldown, and a maximum holding time that is reached; two sessions, because the account and the
  order tables outlive one.
* *Data.* Three commands (two that race and one that comes after), one overwritten path and one that
  is not; two overwritings, the least with which a file can be replaced and put back; a core symbol
  and one that is not, in two sessions; four archives: one that passes without its quarantined
  group, one whose core symbol lacks a session, one with rows that are refused, one without core
  symbols. The two processes are symmetric. 2.9 million states take about two minutes.
* *Research.* Two datasets and two revisions with one change among them, three variants (the least
  the robustness gates accept), of which the two datasets preselect and pass different ones. The
  1.09 million states take about 75 seconds.
* *Forward.* Three strategies for fewer places, two evaluations, two operator moves, to any state: a
  strategy can be ranked, paused and restored inside the evaluations, or ranked by the operator. In
  this run operators cite one piece of evidence (`Cited`) that may promote by itself, in
  `Forward_operator.cfg` one that fails a gate. The evaluating processes are symmetric.
* *Validation.* The totals cover all ten remainders and sizes of a few sessions and more, the
  windows are cut from 0 to 12 sessions with sizes and steps of 1 to 3, so that windows overlap,
  touch and leave gaps. `MaxWindows` 8 and `MaxSlots` 20 stand for the code's larger budgets, so
  that each `ValueError` occurs. Its theorems hold for all.

`CHECK_DEADLOCK FALSE` appears where the bounds (calls, clock, crashes, commands) let the
model stop. The registry's runs check deadlock: a caller can always call again.

### Fairness

Three specifications state it. `Closeout!FairSpec` and `Registry!FairSpec` have weak
fairness of each caller's next step: a process that was not killed goes on
running, which is all the operating system gives. `BacktestEngine!Spec` has weak fairness of the
one thread's next step, for the same reason. It takes for granted that every call of the
broker returns or raises: one that hangs for ever would stop its caller, and the models have no such
step. What the broker answers is free (it may never fill, cancel or accept), and nothing
is assumed of a lock: the loops of `closeout_session` are bounded by their polls
and attempts, and a transaction ends by itself. A crash stays possible at every step. The
other properties are safety properties and use no fairness.

## 4. Proofs

Eight modules hold proofs, of every safety property that a run checks. All hold for **every** value
of the constants. The assumptions are the named ones of the modules, which give the constants their types
and which TLC evaluates in every run, and those listed here.

### Paper session (`PaperSessionProofs`)

* `TypeCorrect`, `AccountInvariant`: `AccountInv` is inductive. It adds to the properties what holds
  *between* the four steps of an entry: an attempt that is not counted yet carries the count it will
  replace (`AttemptInv`), the ledger is behind the broker and what it misses has escaped or is about
  to be recorded (`LedgerInv`), and from the read of the open orders to the submission no purchase
  of the attempt's symbol works (`OpenEntryInv`: orders are placed only by this process). Without
  them a step in the middle of an entry can break each property.
* `EntryCountCorrect`: `EntryCountIsExact`, a cardinality kept through the four steps.
* `OneOpenEntry`: `OneOpenEntryPerSymbol`.
* `SequenceInvariant`, `RecordedOnce`, `SecondOrder`: without any assumption about the strategies.
  `SequenceInv` says that every number up to the count is the sequence number of a recorded entry,
  and that no order is ahead of the count by more than one. So the ledger has a signal once, and a
  second *order* of a signal needs another recorded entry of the same strategy, under the number of
  the first: an order the ledger missed, followed by an entry on another signal.
  `session_resubmission` shows such a trace.
* `OneOrder`: where every strategy trades one symbol and bars of a symbol are further apart than
  they stay fresh (`OneSymbolPerStrategy`, `BarsApart`: hypotheses in the theorem's statement, not
  assumptions of the module), a signal has one order. From `SignalInv`: an order the ledger missed
  still has the key its signal would get again for as long as its bar is fresh. The command line
  makes one strategy per symbol of a definition (`cli.py` 304-312), under one id, so a definition
  with several symbols is outside its hypotheses; it is not in the list of `PROJECT.json`.
* `ApprovalTimely`, from `ClockInv`: the gates judge by the reading of the broker's clock, which was
  taken in this attempt and after every order that was placed before. The decision itself comes
  later by as long as two calls of the broker take; that nothing bounds this is the disagreement of
  `PaperSession_limits.cfg`.
* `StartupInvariant`, `CleanStart`: `StartupInv` says that every order that works while a start compares was
  among the orders it has read, because nothing is submitted then. An order that was read may
  have ended since, which only makes the comparison stricter. That nobody holds a negative number of shares
  is part of it, because the comparison asks whether a position is zero or positive.

### Closeout (`CloseoutProofs`)

With and without a runner that trades on, and with a crash anywhere:

* `InvariantHolds`: `CloseoutInv` is inductive. It says what holds *inside* a call: one that
  runs has given no answer and one that answered agrees with the session (`VerdictOK`), one
  that found no purchase pending is still right unless entries go on (`OrdersOK`), and
  one that found the account flat can only be wrong by a purchase that was not over then
  (`ExposureOK`). The properties speak of the end of a call; without these parts nothing ties the end
  to what was read steps before.
* `VerdictsCorrect`, `BlockedCorrect`, `NoWorkingBuyCorrect`, `LateFillCorrect`, `TypeCorrect`.
* `NeverOversoldCorrect`, from `SalesOK`: a symbol has one exit whatever the number of calls, since its key
  names nothing else. Until it is placed the account only grows, so it covers what any call has read
  of it; afterwards each share sold is one less to sell. The sum over the working sales is
  therefore a sum over one order.

The argument has two halves: `Moves` says once what any step of anybody does to the account (the broker's,
the runner's and the callers' own orders alike), and one lemma per step of a call shows what it
leaves for the next.

### Registry (`RegistryProofs`)

* `LedgerInvariant`: types, capacities, rows that agree with the last event, history, keys and
  validations, of the abstract ledger.
* `RegistryInvariant`: whoever is inside a transaction holds the lock, and what it
  has read and checked is still so.
* `RegistryImplementsLedger`: the step of `Registry` that commits is the ledger's step, the others
  stutter.
* `CapacityCorrect`, `ChecksCorrect`, `HistoryCorrect`, `KeysCorrect`, `ValidationCorrect`:
  the ledger's properties, carried over by the refinement.
* `RetryCorrect`: a caller that repeats a committed request finds its key with its own content before it
  comes to the gates, which may refuse it by now, and nobody writes in between.

### Market data (`MarketDataProofs`)

* `MarketInvariant`: `MarketInv` says of which minutes a stored aggregate was computed
  and what memory and the ledger know of each other. `AggregatesCorrect` and `MemoryCorrect` follow.
  Two facts about numbers carry it, each a lemma: the buckets of a symbol do not overlap and one holds
  `Width` starts (`BucketRange`), and a bounded set of numbers has a largest (`LargestExists`, by
  well-foundedness of strict inclusion instead of induction).
* `EntriesCorrect`, under `StaleAfter < Width`: `should_enter` evaluates its rule on the newest bar,
  whatever bar it is asked about. `EntryInv` shows that when a bar is still fresh no newer one can
  have come: the judged bar was available at its very end, and a later one ends a whole
  bucket later.

### Backtest (`BacktestProofs`)

* `EngineInvariant`: `EngineInv` is inductive, for any bars, answers of the rules, limits, impact and
  number of sessions. It has four parts that the properties need and do not say: where the walk through the
  minutes is (`StageInv`: the pass tells how the minute lies to the closeout); what has been asked for
  (`IdOK`: an order that a pass may still submit has an id nobody has used, so the engine's table of intents
  never turns one away); what the cooldown rests on (`CooldownOK`); and the closeout as a whole
  (`CloseInv`: the cancels cover every working order, the forced exits every position that is left, and
  each of them is in the list of the closeout minute and fills there whatever the style).
* `BooksAgreeCorrect`, `NeverFailsCorrect`, `FlatCorrect`, `CooldownCorrect`: from it. That a forced exit is
  never refused its shares (`SaleIsReserved`) is what makes the account flat: the symbol has no other order,
  so no reservation, and the sum over nothing is 0.
* `NoLookAheadCorrect`: only `Order` changes a position, and its orders were signalled earlier.
* `FundsCoveredCorrect`: the cash covers the sum of the reservations. What a sum over a set of symbols
  becomes when one symbol's summand changes is proved by way of a smallest counterexample (strict
  inclusion of finite sets is well-founded), since no induction rule can be used here. A gap that
  overdraws a reservation is taken out of what is available.

### Forward evaluation (`BacktestProofs`)

* `ForwardInvariantHolds`: `ForwardInv` says what the history can hold (promotions of good evidence,
  told by their references, and operators' moves to any state on any evidence, each key once) and
  that an evaluation under way has promoted the first of its ranking, in order, under tags nobody
  else uses.
* `PromotesOnce`: the key of a promotion names the evidence, and the ledger refuses a key used with another
  content. An operator who uses up the key of a promotion only makes that promotion be refused.
* `BetterFirst`: the score of a component is monotone in its value and the weights are positive, so
  who is better everywhere has the higher score. The ranking is a strict total order, and
  so `RankedBefore` numbers the strategies without gaps.

### Data pipeline (`DataPipelineProofs`)

* `PipelineInvariant`: a path has a history of files, which may repeat. The file that was hashed
  first is in it (`SourceInv`), and what was read is of that file unless another came to the path
  since (`ReadInv`). The second hash finds the same content either because no other came or because
  one came and the first was put back (`Restored`). `SnapshotCorrect`, with that one exception, and
  `PublishedCorrect` follow.
* `PipelineImplementsStore`: the rename that finds its name free is the store's `Publish` or
  `Derive`, the replacement of the catalog its `Serve`; all else stutters.
* `DatasetsCorrect`: a dataset id is one snapshot for ever and what is served is backed, proved of the
  store and carried over.
* `TemporariesCorrect`, from `TemporaryInv`: a command finds its own directory only in the steps
  that write, and a name is never used again; each way to end one of these steps renames or removes
  the directory.

### Research (`ResearchProofs`)

* `ResearchInvariant`: every stage file follows from those before it (`GoodStages`), and what a
  process has in memory is how the files on disk begin (`StartsWith`), although others link stages,
  the catalog changes and it may be killed. A payload that waits for its link continues what was
  *loaded*; when the link succeeds the disk was no longer than that, so it continues the disk.
* `FinalTestCorrect`, `ResearchImplementsChain`.
* `RegistryInvariant`, `RegistryCorrect`, `RefusalCorrect`: the state of a strategy in the registry tells
  which of its four calls were made, and by which experiment. Whatever was committed has the
  content that the experiment's stage files give it, so an experiment that is killed and
  resumed repeats its calls with equal content: only another experiment's strategy is refused. The
  invariant needs the stages (`ResearchInv`): a call must have the content the *files* give it, not the
  content some process has in memory.

### Validation (`ResearchProofs`)

* `ViewsInvariant`, `OneUseCorrect`: what is consumed was sealed, what is sealed was searched, and
  since the seal the log of views has grown by nothing but the final test.
* `SplitCorrect`: for every number of sessions from ten on. The remainders of 7n, 2n and n by ten sum to
  ten times what is left, and `Ahead` ranks the three phases strictly (`CountOfTwo`).
* `WindowsCorrect`: for all numbers of sessions, sizes and steps that are not refused, from the
  division lemma and the monotony of multiplication.

### Recovery (`RecoveryProofs`)

The replay is a fold over a sorted sequence, and two replays are compared. Three groups of lemmas come first:

* *The fold.* `FoldLeft` is a recursive function chosen by its equation. That it exists
  (`FoldExists`) is again a smallest counterexample; `FoldSteps` then gives the state after each event.
* *The sort.* `Before` compares `(time, kind, id, number)` and is a strict total order on
  rows that have numbers of their own, so `Sorted` takes every row once and keeps the order (`SortedFacts`).
* *The replay.* `OrdersOf`: each order has the value of its last event. `IdsOf`: bars that are numbered
  through and sorted by that number are kept in it, without repetition.

Then:

* `EvidenceInvariant`: `RecoveryInv` is inductive. Rows are numbered as they are written and carry
  the checkpoint number of then (`RowsInv`); bars come in the order of their times (`BarsInv`); what
  a call has replayed is the ledger with its order, as long as nobody has written (`TaskInv`).
* `CheckpointCorrect`: the checkpoint covers all the rows there were, and those are what its writer
  replayed; rows written later are not covered, whatever their times.
* `OrdersCorrect`: every order event is covered by the latest checkpoint, since both are
  written in one transaction (`OrdersResume`). The bars that it covers are the first ones, so replaying the
  rest continues them (`BarsResume`). That positions and the last time differ, which
  `Recovery_resume.cfg` shows, is why the theorem is about these two parts.

### What is only model-checked

* Liveness (`CloseoutEnds`, `ReplayEnds`): the provers do not handle fairness and `ENABLED`.
* That a helper defined by a sum, a sort or a fold computes what its name says has no theorem of its
  own; the proofs above state of each what they need. Where that takes an induction, it is done by a
  smallest counterexample, because the library's induction theorems cannot be used here.

The inductive invariants of the proofs were checked with TLC before they were proved; adding
`INVARIANT AccountInv`, `SequenceInv`, `ClockInv`, `SignalInv` and `StartupInv` to
`PaperSession_restarts.cfg` or `INVARIANT CloseoutInv` to `Closeout_race.cfg` repeats that;
`RecoveryInv` and `ForwardInv` need a module that extends `RecoveryInvariant` or `ForwardInvariant`,
`EngineInv` one that extends `BacktestProofs`.

## 5. What the models leave out

* Statistics and floating-point arithmetic: sizing, costs, metrics, gates' numbers, null tests. Each of
  them is pure; a refusal by sizing and the verdict of a gate are free choices or constants. The
  portfolio and the split are in integers.
* Loss limits in the risk gates: the session always passes 0.0.
* The day of the command line around a session (`cli.py` 364): closeout starts only from an arriving
  bar, and `closed` is set before the call, so if it raises no later bar tries again.
* HTTP, authentication, SDK objects, JSON, parquet and hashing: conversions without state.
  A hash is equal exactly when its content is.
* The strategy language (`validator.py`, `compiler.py`, `features.py`, `operators.py`): a rule may give any
  answer at any bar. What of the feature frame can raise is in MarketData.
* The loop over cost scenarios, partial fills (no caller makes one), audit rows and results of
  the backtest.
* Proposals and variants (`factory/variants.py`): pure generation; the variants are a constant.
* Reports, contracts and settings: layout and field validation.
* SQLite's and the file system's internals: a transaction is atomic and durable, the write lock is
  exclusive, a link or a rename of a directory onto a taken name fails. A disk that fails in the
  middle of staging, and the refusal by Windows to replace a catalog file that another process has
  open (`catalog.py` 524), are not modelled.
* Fees in the engine's cash: `FundsCovered` is about prices and impact.

## 6. Plan

Done, in this order: session core with broker and reconciliation; registry with its abstract
ledger; recovery; closeout; market data; backtest; data pipeline with the store; research
with the chain; forward evaluation; validation. Left, most important first:

1. `PaperDay`: session and closeout composed: the closeout that starts from a bar
   (`cli.py` 364), the circuit that also blocks the closeout's evidence.
2. An abstract paper session (entries as single steps) that `PaperSession` implements, and its
   refinement proved.
3. Position sizing in integer arithmetic, against the limits of the risk gates.
