---------------------------- MODULE ResearchProofs ----------------------------
(***************************************************************************)
(* Proofs about Research, for any processes, datasets, revisions, variants *)
(* and verdicts: the stage files implement StageChain, and the final test  *)
(* is only read for the selection that is sealed on disk.                  *)
(*                                                                         *)
(* At the end, about the validation views that a run of the orchestrator   *)
(* reads through, for any number of sessions from ten on and any sizes of  *)
(* the windows: the split is exact, no window reaches into the final test, *)
(* and the final test is handed out once.                                  *)
(***************************************************************************)
EXTENDS Research, Validation, FiniteSetTheorems, TLAPS

StageFiles == [stage : {Stages!ResearchStages[i] : i \in 1..9}, ids : SUBSET Variants,
               source : Datasets \cup {Nothing}]

Tasks == [step : Steps, command : {"none", "run", "resume"},
          dataset : Datasets \cup {Nothing}, revision : Revisions \cup {Nothing},
          experiment : Experiments \cup {Nothing}, loaded : Seq(StageFiles),
          payload : StageFiles \cup {Nothing}, calls : Nat,
          outcome : {"none", "done", "failed", "mismatch", "refused"}]

TypeOK ==
    /\ chain \in [Experiments -> Seq(StageFiles)]
    /\ catalog \in Datasets /\ revision \in Revisions
    /\ task \in [Workers -> Tasks]

\* What the i-th stage says, given the stages before it.
StageOK(s, i) ==
    /\ s[i].stage = Stages!ResearchStages[i]
    /\ i <= 4 => s[i].ids = Variants
    /\ i = 4 => s[i].source \in Datasets
    /\ i = 5 => s[i].ids = Preselected[s[4].source]
    /\ i = 6 => s[i].ids = s[5].ids
    /\ i >= 7 => s[i].ids \subseteq s[i - 1].ids

GoodStages(s) ==
    /\ s \in Seq(StageFiles)
    /\ Len(s) <= 9
    /\ \A i \in 1..Len(s) : StageOK(s, i)

\* A process has in memory what the experiment begins with on disk.
StartsWith(s, t) ==
    /\ s \in Seq(StageFiles)
    /\ Len(s) <= Len(t)
    /\ \A i \in 1..Len(s) : s[i] = t[i]

TaskInv(w) ==
    /\ task[w].step = "sessions" => task[w].dataset \in Datasets
    /\ task[w].step \in {"load", "loadRest", "stage", "link", "register"} =>
          task[w].experiment \in Experiments
    /\ task[w].step \in {"loadRest", "stage", "link", "register"} =>
          StartsWith(task[w].loaded, chain[task[w].experiment])
    /\ task[w].step = "register" => Len(task[w].loaded) = 7
    /\ task[w].step = "link" =>
          /\ task[w].payload \in StageFiles
          /\ GoodStages(Append(task[w].loaded, task[w].payload))

ResearchInv ==
    /\ TypeOK
    /\ \A e \in Experiments : GoodStages(chain[e])
    /\ \A w \in Workers : TaskInv(w)

----------------------------------------------------------------------------
(***************************************************************************)
(* Stages                                                                  *)
(***************************************************************************)

LEMMA StageNames ==
    /\ Stages!StageCount = 9
    /\ Stages!ResearchStages[1] = "PROPOSAL_ACCEPTED"
    /\ Stages!ResearchStages[2] = "VARIANTS_GENERATED"
    /\ Stages!ResearchStages[3] = "TRAIN_COMPLETE"
    /\ Stages!ResearchStages[4] = "VALIDATION_COMPLETE"
    /\ Stages!ResearchStages[5] = "SELECTION_SEALED"
    /\ Stages!ResearchStages[6] = "FINAL_TEST_COMPLETE"
    /\ Stages!ResearchStages[7] = "GATES_COMPLETE"
    /\ Stages!ResearchStages[8] = "REGISTRY_COMPLETE"
    /\ Stages!ResearchStages[9] = "REPORT_COMPLETE"
BY DEF Stages!ResearchStages, Stages!StageCount

LEMMA SeqElement ==
    ASSUME NEW S, NEW s \in Seq(S), NEW i \in 1..Len(s)
    PROVE  s[i] \in S
OBVIOUS

LEMMA AppendFacts ==
    ASSUME NEW S, NEW s \in Seq(S), NEW x \in S
    PROVE  /\ Append(s, x) \in Seq(S)
           /\ Len(s) \in Nat /\ Len(Append(s, x)) = Len(s) + 1
           /\ Append(s, x)[Len(s) + 1] = x
           /\ \A i \in 1..Len(s) : Append(s, x)[i] = s[i]
OBVIOUS

LEMMA SomeVariant == Variants # {}
<1>1. Cardinality(Variants) = Len(VariantOrder) /\ Len(VariantOrder) >= 3
  BY ResearchAssumption
<1>2. Cardinality(Variants) # 0
  BY <1>1
<1> QED
  BY <1>2, FS_EmptySet

LEMMA PayloadFacts ==
    ASSUME NEW n \in 0..8, NEW ids \in SUBSET Variants, NEW source \in Datasets \cup {Nothing}
    PROVE  LET p == Payload(n, ids, source)
           IN  /\ p \in StageFiles
               /\ p.stage = Stages!ResearchStages[n + 1]
               /\ p.ids = ids /\ p.source = source
<1>1. n + 1 \in 1..9
  OBVIOUS
<1> QED
  BY <1>1 DEF Payload, StageAfter, StageFiles

LEMMA EmptyIsGood == GoodStages(<< >>)
BY DEF GoodStages

\* What holds of stages holds of their beginning.
LEMMA PrefixIsGood ==
    ASSUME NEW s, NEW t, GoodStages(t), StartsWith(s, t)
    PROVE  GoodStages(s)
<1>1. Len(s) \in Nat /\ Len(t) \in Nat /\ Len(s) <= Len(t) /\ Len(s) <= 9
  BY DEF GoodStages, StartsWith
<1>2. ASSUME NEW i \in 1..Len(s) PROVE StageOK(s, i)
  <2>1. StageOK(t, i) /\ s[i] = t[i]
    BY <1>1 DEF GoodStages, StartsWith
  <2>2. i >= 5 => s[4] = t[4]
    BY <1>1 DEF StartsWith
  <2>3. i >= 6 => s[5] = t[5]
    BY <1>1 DEF StartsWith
  <2>4. i >= 7 => s[i - 1] = t[i - 1]
    BY <1>1 DEF StartsWith
  <2> QED
    BY <2>1, <2>2, <2>3, <2>4 DEF StageOK
<1> QED
  BY <1>1, <1>2 DEF GoodStages, StartsWith

\* A stage that is right after the others makes them longer.
LEMMA AppendIsGood ==
    ASSUME NEW s, NEW p \in StageFiles, GoodStages(s), Len(s) < 9,
           StageOK(Append(s, p), Len(s) + 1)
    PROVE  GoodStages(Append(s, p))
<1> DEFINE t == Append(s, p)
<1>1. /\ s \in Seq(StageFiles) /\ Len(s) \in Nat
      /\ t \in Seq(StageFiles) /\ Len(t) = Len(s) + 1
      /\ \A i \in 1..Len(s) : t[i] = s[i]
  BY DEF GoodStages
<1> HIDE DEF t
<1>2. ASSUME NEW i \in 1..Len(s) PROVE StageOK(t, i)
  <2>1. StageOK(s, i) /\ s[i] = t[i]
    BY <1>1 DEF GoodStages
  <2>2. (i >= 5 => s[4] = t[4]) /\ (i >= 6 => s[5] = t[5]) /\ (i >= 7 => s[i - 1] = t[i - 1])
    BY <1>1
  <2> QED
    BY <2>1, <2>2 DEF StageOK
<1>3. StageOK(t, Len(s) + 1)
  BY DEF t
<1>4. \A i \in 1..Len(t) : StageOK(t, i)
  BY <1>1, <1>2, <1>3
<1> QED
  BY <1>1, <1>4 DEF GoodStages, t

\* What follows the loaded stages is right, whatever the catalog serves.
LEMMA ProducedIsGood ==
    ASSUME TypeOK, NEW w \in Workers, GoodStages(Loaded(w)),
           Done(w) < 9, Done(w) # 7, Done(w) = 8 => RegistryAgrees(w)
    PROVE  /\ Produced(w) \in StageFiles
           /\ GoodStages(Append(Loaded(w), Produced(w)))
<1> DEFINE s == Loaded(w)
           n == Done(w)
           p == Produced(w)
           t == Append(s, p)
<1>1. s \in Seq(StageFiles) /\ n = Len(s) /\ n \in 0..8 /\ n # 7
  <2>1. s \in Seq(StageFiles)
    BY DEF GoodStages
  <2>2. n = Len(s)
    BY DEF Done
  <2> HIDE DEF s
  <2>3. Len(s) \in Nat
    BY <2>1
  <2> HIDE DEF n
  <2>4. n < 9 /\ n # 7
    BY DEF n
  <2>5. n \in Nat
    BY <2>2, <2>3
  <2>6. n \in 0..8
    BY <2>4, <2>5
  <2> QED
    BY <2>1, <2>2, <2>4, <2>6
<1>2. \A i \in 1..n : StageOK(s, i) /\ s[i] \in StageFiles
  BY <1>1 DEF GoodStages
<1>3. catalog \in Datasets /\ Variants # {}
  BY SomeVariant DEF TypeOK
<1>4. n >= 4 => Preselected[s[4].source] \subseteq Variants
  BY <1>1, <1>2, ResearchAssumption DEF StageOK
<1> HIDE DEF s
<1>5. /\ p \in StageFiles
      /\ p.stage = Stages!ResearchStages[n + 1]
      /\ n <= 3 => p.ids = Variants
      /\ n = 3 => p.source \in Datasets
      /\ n = 4 => p.ids = Preselected[s[4].source]
      /\ n = 5 => p.ids = s[5].ids
      /\ n >= 6 => p.ids \subseteq s[n].ids
  <2>1. CASE n \in {0, 1}
    <3>1. p = Payload(n, Variants, Nothing)
      BY <2>1, StageNames DEF Produced, StageAfter
    <3> HIDE DEF p
    <3> QED
      BY <1>1, <2>1, <3>1, PayloadFacts
  <2>2. CASE n \in {2, 3}
    <3>1. p = Payload(n, Variants, catalog)
      BY <2>2, <1>3, StageNames DEF Produced, StageAfter, PhaseItems
    <3> HIDE DEF p
    <3> QED
      BY <1>1, <1>3, <2>2, <3>1, PayloadFacts
  <2>3. CASE n = 4
    <3>1. p = Payload(4, Preselected[s[4].source], Nothing)
      BY <2>3, StageNames DEF Produced, StageAfter, s
    <3>2. Preselected[s[4].source] \in SUBSET Variants
      BY <1>4, <2>3
    <3> HIDE DEF p, n
    <3> QED
      BY <2>3, <3>1, <3>2, PayloadFacts
  <2>4. CASE n = 5
    <3> DEFINE source == IF s[5].ids = {} THEN Nothing ELSE catalog
    <3>1. p = Payload(5, s[5].ids, source)
      BY <2>4, StageNames DEF Produced, StageAfter, Selection, PhaseItems, s
    <3>2. s[5].ids \in SUBSET Variants /\ source \in Datasets \cup {Nothing}
      BY <2>4, <1>2, <1>3 DEF StageFiles
    <3> HIDE DEF p, n, source
    <3> QED
      BY <2>4, <3>1, <3>2, PayloadFacts
  <2>5. CASE n = 6
    <3>1. p = Payload(6, Passing(w), Nothing)
      BY <2>5, StageNames DEF Produced, StageAfter
    <3>2. Passing(w) \subseteq s[5].ids
      BY DEF Passing, Selection, s
    <3>3. s[6].ids = s[5].ids /\ s[5].ids \in SUBSET Variants
      BY <2>5, <1>2 DEF StageOK, StageFiles
    <3> HIDE DEF p, n
    <3> QED
      BY <2>5, <3>1, <3>2, <3>3, PayloadFacts
  <2>6. CASE n = 8
    <3>1. p = Payload(8, s[7].ids, Nothing)
      BY <2>6, StageNames DEF Produced, StageAfter, GatesPassed, s
    <3>2. s[8].ids = s[7].ids /\ s[7].ids \in SUBSET Variants
      BY <2>6, <1>2 DEF RegistryAgrees, GatesPassed, StageFiles, s
    <3> HIDE DEF p, n
    <3> QED
      BY <2>6, <3>1, <3>2, PayloadFacts
  <2> HIDE DEF n, p
  <2>7. n \in {0, 1} \/ n \in {2, 3} \/ n = 4 \/ n = 5 \/ n = 6 \/ n = 8
    <3>1. n \in 0..8
      BY <1>1
    <3>2. n # 7
      BY <1>1
    <3> QED
      BY <3>1, <3>2
  <2> QED
    BY <2>1, <2>2, <2>3, <2>4, <2>5, <2>6, <2>7
<1>6. StageOK(t, n + 1)
  <2> HIDE DEF p
  <2>1. t[n + 1] = p /\ \A i \in 1..n : t[i] = s[i]
    BY <1>1, <1>5
  <2> HIDE DEF t, n
  <2> QED
    BY <1>1, <1>5, <2>1 DEF StageOK
<1>7. GoodStages(s) /\ Len(s) < 9 /\ StageOK(Append(s, p), Len(s) + 1)
  <2>1. GoodStages(s)
    BY DEF s
  <2>2. n = Len(s) /\ n < 9
    BY <1>1
  <2> QED
    BY <1>6, <2>1, <2>2 DEF t
<1>8. GoodStages(Append(s, p))
  <2> HIDE DEF p
  <2> QED
    BY <1>5, <1>7, AppendIsGood
<1> QED
  BY <1>5, <1>8 DEF s

----------------------------------------------------------------------------
(***************************************************************************)
(* The invariant                                                           *)
(***************************************************************************)

\* A step of one process that leaves the files alone.
Moves(w) ==
    /\ task' \in [Workers -> Tasks]
    /\ \A v \in Workers \ {w} : task'[v] = task[v]
    /\ chain' = chain /\ catalog' = catalog /\ revision' = revision

\* The step of a process keeps the invariant when its own task keeps it.
LEMMA Assemble ==
    ASSUME ResearchInv, NEW w \in Workers, Moves(w), TaskInv(w)'
    PROVE  ResearchInv'
<1>1. TypeOK' /\ (\A e \in Experiments : GoodStages(chain[e]))'
  BY DEF ResearchInv, TypeOK, Moves
<1>2. ASSUME NEW v \in Workers, v # w PROVE TaskInv(v)'
  <2>1. TaskInv(v) /\ task'[v] = task[v] /\ chain' = chain
    BY <1>2 DEF ResearchInv, Moves
  <2> QED
    BY <2>1 DEF TaskInv
<1> QED
  BY <1>1, <1>2 DEF ResearchInv

\* A process without a command.
LEMMA NoTaskType == NoTask \in Tasks /\ NoTask.step = "idle"
BY DEF NoTask, Tasks, Steps

\* A command ends: nothing is asked of an idle process.
LEMMA EndKeeps ==
    ASSUME ResearchInv, NEW w \in Workers,
           NEW outcome \in {"none", "done", "failed", "mismatch", "refused"},
           task' = [task EXCEPT ![w] = [NoTask EXCEPT !.outcome = outcome]],
           UNCHANGED <<chain, catalog, revision>>
    PROVE  ResearchInv'
<1> DEFINE t == [NoTask EXCEPT !.outcome = outcome]
<1>1. t \in Tasks /\ t.step = "idle"
  BY NoTaskType DEF Tasks
<1> HIDE DEF t
<1>2. task' = [task EXCEPT ![w] = t]
  BY DEF t
<1>3. Moves(w) /\ task'[w].step = "idle"
  BY <1>1, <1>2 DEF ResearchInv, TypeOK, Moves
<1>4. TaskInv(w)'
  BY <1>3 DEF TaskInv
<1> QED
  BY <1>3, <1>4, Assemble

\* What a process has with it when it goes on to another step.
LEMMA GotoFacts ==
    ASSUME ResearchInv, NEW w \in Workers, NEW step \in Steps, Goto(w, step),
           UNCHANGED <<chain, catalog, revision>>
    PROVE  /\ Moves(w)
           /\ task'[w].step = step
           /\ task'[w].experiment = task[w].experiment /\ task'[w].loaded = task[w].loaded
           /\ task'[w].payload = task[w].payload
<1>1. task[w] \in Tasks /\ task \in [Workers -> Tasks]
  BY DEF ResearchInv, TypeOK
<1>2. task' = [task EXCEPT ![w] = [task[w] EXCEPT !.step = step]]
  BY <1>1 DEF Goto
<1>3. task'[w] = [task[w] EXCEPT !.step = step]
  BY <1>1, <1>2
<1>4. task'[w] \in Tasks
  BY <1>1, <1>3 DEF Tasks
<1> QED
  BY <1>1, <1>2, <1>3, <1>4 DEF Moves, Tasks

LEMMA RunBegins ==
    ASSUME ResearchInv, NEW w \in Workers, BeginRun(w) \/ ReadSessions(w)
    PROVE  ResearchInv'
<1>1. /\ task \in [Workers -> Tasks] /\ task[w] \in Tasks
      /\ catalog \in Datasets /\ revision \in Revisions
      /\ UNCHANGED <<chain, catalog, revision>>
  BY DEF ResearchInv, TypeOK, BeginRun, ReadSessions, world
<1>2. CASE BeginRun(w)
  <2> DEFINE t == [NoTask EXCEPT !.step = "sessions", !.command = "run", !.dataset = catalog]
  <2>1. t \in Tasks /\ t.step = "sessions" /\ t.dataset = catalog
    BY <1>1, NoTaskType DEF Tasks, Steps
  <2>2. task' = [task EXCEPT ![w] = t]
    BY <1>2 DEF BeginRun
  <2> HIDE DEF t
  <2>3. Moves(w) /\ task'[w].step = "sessions" /\ task'[w].dataset \in Datasets
    BY <1>1, <2>1, <2>2 DEF Moves
  <2>4. TaskInv(w)'
    BY <2>3 DEF TaskInv
  <2> QED
    BY <2>3, <2>4, Assemble
<1>3. CASE ReadSessions(w)
  <2> DEFINE e == [dataset |-> task[w].dataset, sessions |-> catalog, revision |-> revision]
             t == [task[w] EXCEPT !.step = "load", !.revision = revision, !.experiment = e]
  <2>1. task[w].dataset \in Datasets
    BY <1>1, <1>3 DEF ResearchInv, TaskInv, ReadSessions
  <2>2. e \in Experiments
    BY <1>1, <2>1 DEF Experiments
  <2>3. task' = [task EXCEPT ![w] = t]
    BY <1>1, <1>3 DEF ReadSessions
  <2> HIDE DEF e
  <2>4. t \in Tasks /\ t.step = "load" /\ t.experiment = e
    BY <1>1, <2>2 DEF Tasks, Steps
  <2> HIDE DEF t
  <2>5. Moves(w) /\ task'[w] = t
    BY <1>1, <2>3, <2>4 DEF Moves
  <2>6. TaskInv(w)'
    BY <2>2, <2>4, <2>5 DEF TaskInv
  <2> QED
    BY <2>5, <2>6, Assemble
<1> QED
  BY <1>2, <1>3

LEMMA ResumeBegins ==
    ASSUME ResearchInv, NEW w \in Workers, BeginResume(w)
    PROVE  ResearchInv'
<1>1. /\ task \in [Workers -> Tasks]
      /\ revision \in Revisions
      /\ UNCHANGED <<chain, catalog, revision>>
  BY DEF ResearchInv, TypeOK, BeginResume, world
<1>2. PICK e \in Experiments :
         task' = [task EXCEPT ![w] = [NoTask EXCEPT !.step = "load", !.command = "resume",
                                                    !.dataset = e.dataset,
                                                    !.revision = revision,
                                                    !.experiment = e]]
  BY DEF BeginResume
<1> DEFINE t == [NoTask EXCEPT !.step = "load", !.command = "resume", !.dataset = e.dataset,
                               !.revision = revision, !.experiment = e]
<1>3. t \in Tasks /\ t.step = "load" /\ t.experiment = e
  <2>1. e.dataset \in Datasets
    BY DEF Experiments
  <2> QED
    BY <1>1, <2>1, NoTaskType DEF Tasks, Steps
<1>4. task' = [task EXCEPT ![w] = t]
  BY <1>2
<1> HIDE DEF t
<1>5. Moves(w) /\ task'[w] = t
  BY <1>1, <1>3, <1>4 DEF Moves
<1>6. TaskInv(w)'
  BY <1>3, <1>5 DEF TaskInv
<1> QED
  BY <1>5, <1>6, Assemble

LEMMA LoadKeeps ==
    ASSUME ResearchInv, NEW w \in Workers, Load(w)
    PROVE  ResearchInv'
<1> DEFINE s == chain[task[w].experiment]
<1>1. /\ task \in [Workers -> Tasks] /\ task[w] \in Tasks
      /\ task[w].experiment \in Experiments
      /\ task' = [task EXCEPT ![w].step = "loadRest", ![w].loaded = s]
      /\ UNCHANGED <<chain, catalog, revision>>
  BY DEF ResearchInv, TypeOK, TaskInv, Load, world
<1>2. s \in Seq(StageFiles)
  BY <1>1 DEF ResearchInv, TypeOK
<1> HIDE DEF s
<1> DEFINE t == [task[w] EXCEPT !.step = "loadRest", !.loaded = s]
<1>3. t \in Tasks /\ t.step = "loadRest" /\ t.loaded = s /\ t.experiment = task[w].experiment
  BY <1>1, <1>2 DEF Tasks, Steps
<1>4. task' = [task EXCEPT ![w] = t]
  BY <1>1
<1> HIDE DEF t
<1>5. Moves(w) /\ task'[w] = t
  BY <1>1, <1>3, <1>4 DEF Moves
<1>6. StartsWith(s, s)
  BY <1>2 DEF StartsWith
<1>7. TaskInv(w)'
  BY <1>1, <1>3, <1>5, <1>6 DEF TaskInv, s
<1> QED
  BY <1>5, <1>7, Assemble

\* A process goes on with the stages it has loaded.
LEMMA GoesOn ==
    ASSUME ResearchInv, NEW w \in Workers, NEW step \in {"stage", "register"},
           Goto(w, step), task[w].step \in {"loadRest", "stage"},
           step = "register" => Done(w) = 7,
           UNCHANGED <<chain, catalog, revision>>
    PROVE  ResearchInv'
<1>1. /\ task[w].experiment \in Experiments
      /\ StartsWith(task[w].loaded, chain[task[w].experiment])
  BY DEF ResearchInv, TaskInv
<1>2. /\ Moves(w)
      /\ task'[w].step = step
      /\ task'[w].experiment = task[w].experiment /\ task'[w].loaded = task[w].loaded
  BY GotoFacts DEF Steps
<1>3. TaskInv(w)'
  BY <1>1, <1>2 DEF TaskInv, Done, Loaded, Moves
<1> QED
  BY <1>2, <1>3, Assemble

LEMMA LoadRestKeeps ==
    ASSUME ResearchInv, NEW w \in Workers, LoadRest(w)
    PROVE  ResearchInv'
<1>1. task[w].step = "loadRest" /\ UNCHANGED <<chain, catalog, revision>>
  BY DEF LoadRest, world
<1>2. CASE Goto(w, "stage")
  BY <1>1, <1>2, GoesOn
<1>3. CASE End(w, "failed")
  BY <1>1, <1>3, EndKeeps DEF End
<1> QED
  BY <1>2, <1>3 DEF LoadRest

\* A process has its payload and is about to link it.
LEMMA PayloadKeeps ==
    ASSUME ResearchInv, NEW w \in Workers, NEW p \in StageFiles, NEW calls \in Nat,
           task[w].step \in {"stage", "register"},
           GoodStages(Append(Loaded(w), p)),
           task' = [task EXCEPT ![w] = [task[w] EXCEPT !.step = "link", !.calls = calls,
                                                       !.payload = p]],
           UNCHANGED <<chain, catalog, revision>>
    PROVE  ResearchInv'
<1>1. /\ task \in [Workers -> Tasks] /\ task[w] \in Tasks
      /\ task[w].experiment \in Experiments
      /\ StartsWith(task[w].loaded, chain[task[w].experiment])
  BY DEF ResearchInv, TypeOK, TaskInv
<1> DEFINE t == [task[w] EXCEPT !.step = "link", !.calls = calls, !.payload = p]
<1>2. /\ t \in Tasks /\ t.step = "link" /\ t.payload = p
      /\ t.loaded = task[w].loaded /\ t.experiment = task[w].experiment
  BY <1>1 DEF Tasks, Steps
<1> HIDE DEF t
<1>3. task' = [task EXCEPT ![w] = t]
  BY DEF t
<1>4. Moves(w) /\ task'[w] = t
  BY <1>1, <1>2, <1>3 DEF Moves
<1>5. TaskInv(w)'
  BY <1>1, <1>2, <1>4 DEF TaskInv, Moves, Loaded
<1> QED
  BY <1>4, <1>5, Assemble

LEMMA ProduceKeeps ==
    ASSUME ResearchInv, NEW w \in Workers, Produce(w)
    PROVE  ResearchInv'
<1>1. /\ task \in [Workers -> Tasks] /\ task[w] \in Tasks /\ task[w].step = "stage"
      /\ task[w].experiment \in Experiments
      /\ StartsWith(Loaded(w), chain[task[w].experiment])
      /\ UNCHANGED <<chain, catalog, revision>>
  BY DEF ResearchInv, TypeOK, TaskInv, Produce, Loaded, world
<1>2. GoodStages(Loaded(w))
  BY <1>1, PrefixIsGood DEF ResearchInv
<1>3. Done(w) \in Nat /\ Done(w) <= 9
  BY <1>2 DEF GoodStages, Done
<1>4. CASE \E outcome \in {"mismatch", "done"} : End(w, outcome)
  BY <1>1, <1>4, EndKeeps DEF End
<1>5. CASE Goto(w, "register") /\ Done(w) = 7
  BY <1>1, <1>5, GoesOn
<1>6. CASE /\ Done(w) < 9 /\ Done(w) # 7 /\ (Done(w) = 8 => RegistryAgrees(w))
           /\ task' = [task EXCEPT ![w].step = "link", ![w].payload = Produced(w)]
  <2> DEFINE p == Produced(w)
             calls == task[w].calls
  <2>1. p \in StageFiles /\ GoodStages(Append(Loaded(w), p))
    BY <1>2, <1>6, ProducedIsGood DEF ResearchInv
  <2>2. task' = [task EXCEPT ![w].step = "link", ![w].payload = p]
    BY <1>6
  <2> HIDE DEF p
  <2>3. calls \in Nat
    BY <1>1 DEF Tasks
  <2>4. [task[w] EXCEPT !.step = "link", !.payload = p]
            = [task[w] EXCEPT !.step = "link", !.calls = calls, !.payload = p]
    BY <1>1 DEF Tasks
  <2>5. task' = [task EXCEPT ![w] = [task[w] EXCEPT !.step = "link", !.payload = p]]
    BY <1>1, <2>2
  <2>6. task' = [task EXCEPT ![w] = [task[w] EXCEPT !.step = "link", !.calls = calls,
                                                    !.payload = p]]
    BY <2>4, <2>5
  <2> HIDE DEF calls
  <2> QED
    BY <1>1, <2>1, <2>3, <2>6, PayloadKeeps
<1>7. \/ \E outcome \in {"mismatch", "done"} : End(w, outcome)
      \/ Goto(w, "register") /\ Done(w) = 7
      \/ /\ Done(w) < 9 /\ Done(w) # 7 /\ (Done(w) = 8 => RegistryAgrees(w))
         /\ task' = [task EXCEPT ![w].step = "link", ![w].payload = Produced(w)]
  BY <1>3, StageNames DEF Produce
<1> QED
  BY <1>4, <1>5, <1>6, <1>7

\* What the calls of registration leave is the registry's stage.
LEMMA RegisterKeeps ==
    ASSUME ResearchInv, NEW w \in Workers, RegisterNext(w)
    PROVE  ResearchInv'
<1>1. /\ task \in [Workers -> Tasks] /\ task[w] \in Tasks /\ task[w].step = "register"
      /\ task[w].experiment \in Experiments
      /\ StartsWith(Loaded(w), chain[task[w].experiment])
      /\ Len(Loaded(w)) = 7
      /\ UNCHANGED <<chain, catalog, revision>>
  BY DEF ResearchInv, TypeOK, TaskInv, RegisterNext, Loaded, world
<1>2. GoodStages(Loaded(w))
  BY <1>1, PrefixIsGood DEF ResearchInv
<1>3. CASE task' = [task EXCEPT ![w].step = "link", ![w].calls = 0,
                                ![w].payload = Payload(7, InShadow(w), Nothing)]
  <2> DEFINE p == Payload(7, InShadow(w), Nothing)
             s == Loaded(w)
             t == Append(s, p)
             calls == 0
  <2>1. s \in Seq(StageFiles) /\ Len(s) = 7 /\ GoodStages(s)
    BY <1>1, <1>2 DEF GoodStages
  <2>2. InShadow(w) \subseteq s[7].ids
    BY DEF InShadow, GatesPassed
  <2> HIDE DEF s
  <2>3. s[7] \in StageFiles
    <3>1. 7 \in 1..Len(s)
      BY <2>1
    <3> QED
      BY <2>1, <3>1, SeqElement
  <2>4. s[7].ids \in SUBSET Variants
    BY <2>3 DEF StageFiles
  <2>5. InShadow(w) \in SUBSET Variants
    BY <2>2, <2>4
  <2>6. p \in StageFiles /\ p.stage = Stages!ResearchStages[8] /\ p.ids = InShadow(w)
    BY <2>5, PayloadFacts
  <2>7. task' = [task EXCEPT ![w] = [task[w] EXCEPT !.step = "link", !.calls = calls,
                                                    !.payload = p]]
    BY <1>1, <1>3
  <2> HIDE DEF p, calls
  <2>8. t[8] = p /\ t[7] = s[7]
    <3>1. s \in Seq(StageFiles)
      BY <2>1
    <3>2. p \in StageFiles
      BY <2>6
    <3>3. t[Len(s) + 1] = p /\ \A i \in 1..Len(s) : t[i] = s[i]
      BY <3>1, <3>2, AppendFacts
    <3> HIDE DEF t
    <3>4. Len(s) + 1 = 8 /\ 7 \in 1..Len(s)
      BY <2>1
    <3> QED
      BY <3>3, <3>4
  <2> HIDE DEF t
  <2>9. StageOK(t, 8)
    BY <2>2, <2>6, <2>8 DEF StageOK
  <2>10. StageOK(Append(s, p), Len(s) + 1) /\ Len(s) < 9
    BY <2>1, <2>9 DEF t
  <2>11. GoodStages(Append(s, p))
    BY <2>1, <2>6, <2>10, AppendIsGood
  <2>12. calls \in Nat
    BY DEF calls
  <2> QED
    BY <1>1, <2>6, <2>7, <2>11, <2>12, PayloadKeeps DEF s
<1>4. CASE End(w, "refused")
  BY <1>1, <1>4, EndKeeps DEF End
<1>5. CASE task' = [task EXCEPT ![w].calls = @ + 1]
  <2> DEFINE calls == task[w].calls + 1
             t == [task[w] EXCEPT !.calls = calls]
  <2>1. calls \in Nat
    <3>1. task[w].calls \in Nat
      BY <1>1 DEF Tasks
    <3> QED
      BY <3>1
  <2>2. task' = [task EXCEPT ![w] = t]
    BY <1>1, <1>5
  <2> HIDE DEF calls
  <2>3. t \in Tasks /\ t.step = "register" /\ t.loaded = task[w].loaded
        /\ t.experiment = task[w].experiment
    BY <1>1, <2>1 DEF Tasks
  <2> HIDE DEF t
  <2>4. Moves(w) /\ task'[w] = t
    BY <1>1, <2>2, <2>3 DEF Moves
  <2>5. StartsWith(task[w].loaded, chain[task[w].experiment]) /\ Len(task[w].loaded) = 7
    BY <1>1 DEF Loaded
  <2>6. TaskInv(w)'
    BY <1>1, <2>3, <2>4, <2>5 DEF TaskInv, Moves
  <2> QED
    BY <2>4, <2>6, Assemble
<1> QED
  BY <1>3, <1>4, <1>5 DEF RegisterNext

\* The stage that is linked is the one after those on disk, or it is not
\* linked.
LEMMA LinkFacts ==
    ASSUME ResearchInv, NEW w \in Workers, Link(w),
           ~(Len(chain[task[w].experiment]) > Done(w))
    PROVE  LET e == task[w].experiment
               p == task[w].payload
           IN  /\ e \in Experiments /\ p \in StageFiles
               /\ chain[e] = Loaded(w)
               /\ chain' = [chain EXCEPT ![e] = Append(chain[e], p)]
               /\ GoodStages(Append(chain[e], p))
               /\ Keep(w)
<1> DEFINE e == task[w].experiment
           p == task[w].payload
<1>1. /\ e \in Experiments /\ p \in StageFiles
      /\ StartsWith(Loaded(w), chain[e])
      /\ GoodStages(Append(Loaded(w), p))
      /\ GoodStages(chain[e])
      /\ ~(Len(chain[e]) > Done(w))
      /\ Keep(w) /\ chain' = [chain EXCEPT ![e] = Append(@, p)]
      /\ chain \in [Experiments -> Seq(StageFiles)]
  BY DEF ResearchInv, TypeOK, TaskInv, Link, Loaded
<1>2. chain[e] = Loaded(w)
  <2>1. chain[e] \in Seq(StageFiles) /\ Loaded(w) \in Seq(StageFiles)
    BY <1>1 DEF GoodStages, StartsWith
  <2>2. Len(chain[e]) = Len(Loaded(w))
    BY <1>1, <2>1 DEF StartsWith, Done
  <2>3. \A i \in 1..Len(chain[e]) : chain[e][i] = Loaded(w)[i]
    BY <1>1, <2>2 DEF StartsWith
  <2> HIDE DEF e
  <2> QED
    BY <2>1, <2>2, <2>3
<1>3. chain' = [chain EXCEPT ![e] = Append(chain[e], p)]
  BY <1>1
<1> HIDE DEF e, p
<1>4. GoodStages(Append(chain[e], p))
  BY <1>1, <1>2
<1> QED
  BY <1>1, <1>2, <1>3, <1>4 DEF e, p

LEMMA LinkKeeps ==
    ASSUME ResearchInv, NEW w \in Workers, Link(w)
    PROVE  ResearchInv'
<1>1. /\ task \in [Workers -> Tasks] /\ task[w] \in Tasks
      /\ catalog' = catalog /\ revision' = revision
  BY DEF ResearchInv, TypeOK, Link, world
<1>2. CASE chain' = chain /\ End(w, "failed")
  BY <1>1, <1>2, EndKeeps DEF End
<1>3. CASE ~(Len(chain[task[w].experiment]) > Done(w))
  <2> DEFINE e == task[w].experiment
             p == task[w].payload
             s == chain[e]
             l == Append(s, p)
             t == [task[w] EXCEPT !.step = "stage", !.payload = Nothing, !.loaded = l]
  <2>1. /\ e \in Experiments /\ p \in StageFiles
        /\ s = Loaded(w) /\ chain' = [chain EXCEPT ![e] = Append(s, p)]
        /\ GoodStages(Append(s, p)) /\ Keep(w)
    BY <1>3, LinkFacts
  <2>2. task' = [task EXCEPT ![w] = t]
    BY <1>1, <2>1 DEF Keep, Loaded
  <2>3. l \in Seq(StageFiles)
    BY <2>1 DEF GoodStages
  <2> HIDE DEF l
  <2>4. /\ t \in Tasks /\ t.step = "stage" /\ t.experiment = e /\ t.loaded = l
    BY <1>1, <2>3 DEF Tasks, Steps
  <2> HIDE DEF t
  <2>5. /\ task' \in [Workers -> Tasks] /\ task'[w] = t
        /\ \A v \in Workers \ {w} : task'[v] = task[v]
    BY <1>1, <2>4, <2>2
  <2>6. chain \in [Experiments -> Seq(StageFiles)] /\ s \in Seq(StageFiles)
    BY <2>1 DEF ResearchInv, TypeOK
  <2> HIDE DEF e, p, s
  <2>7. /\ chain' \in [Experiments -> Seq(StageFiles)]
        /\ chain'[e] = Append(s, p)
        /\ \A f \in Experiments \ {e} : chain'[f] = chain[f]
    BY <2>1, <2>6
  <2>8. TypeOK'
    BY <1>1, <2>5, <2>7 DEF ResearchInv, TypeOK
  <2>9. (\A f \in Experiments : GoodStages(chain[f]))'
    BY <2>1, <2>7 DEF ResearchInv
  <2>10. TaskInv(w)'
    <3>1. l \in Seq(StageFiles)
      BY <2>3
    <3>2. task'[w].step = "stage" /\ task'[w].experiment = e /\ task'[w].loaded = l
          /\ chain'[e] = l
      BY <2>4, <2>5, <2>7 DEF l
    <3>3. StartsWith(l, l)
      BY <3>1 DEF StartsWith
    <3> QED
      BY <2>1, <3>2, <3>3 DEF TaskInv
  <2>11. ASSUME NEW v \in Workers, v # w PROVE TaskInv(v)'
    <3>1. TaskInv(v) /\ task'[v] = task[v]
      BY <2>5, <2>11 DEF ResearchInv
    <3>2. ASSUME NEW m, NEW f \in Experiments, StartsWith(m, chain[f])
          PROVE  StartsWith(m, chain'[f])
      <4>1. CASE f # e
        BY <2>7, <3>2, <4>1
      <4>2. CASE f = e
        <5>1. /\ Len(l) = Len(s) + 1 /\ Len(s) \in Nat
              /\ \A i \in 1..Len(s) : l[i] = s[i]
          BY <2>1, <2>6, AppendFacts DEF l
        <5>2. chain'[f] = l /\ chain[f] = s
          BY <2>7, <4>2 DEF s, l
        <5>3. /\ m \in Seq(StageFiles) /\ Len(m) \in Nat /\ Len(m) <= Len(s)
              /\ \A i \in 1..Len(m) : m[i] = s[i]
          BY <3>2, <5>2 DEF StartsWith
        <5>4. StartsWith(m, l)
          BY <5>1, <5>3 DEF StartsWith
        <5> QED
          BY <5>2, <5>4
      <4> QED
        BY <4>1, <4>2
    <3> QED
      BY <3>1, <3>2 DEF TaskInv
  <2> QED
    BY <2>8, <2>9, <2>10, <2>11 DEF ResearchInv
<1> QED
  BY <1>2, <1>3 DEF Link

LEMMA OutsideKeeps ==
    ASSUME ResearchInv, Rebind \/ NewRevision \/ (\E v \in Variants : Promote(v))
                        \/ UNCHANGED vars
    PROVE  ResearchInv'
<1>1. /\ chain' = chain /\ task' = task
      /\ catalog' \in Datasets /\ revision' \in Revisions
  BY DEF Rebind, NewRevision, Promote, vars, world, ResearchInv, TypeOK
<1>2. TypeOK'
  BY <1>1 DEF ResearchInv, TypeOK
<1>3. \A w \in Workers : TaskInv(w)'
  BY <1>1 DEF ResearchInv, TaskInv
<1> QED
  BY <1>1, <1>2, <1>3 DEF ResearchInv

LEMMA ResearchInit == Init => ResearchInv
<1> SUFFICES ASSUME Init PROVE ResearchInv
  OBVIOUS
<1>1. TypeOK
  BY NoTaskType DEF Init, TypeOK, Stages!ChainInit
<1>2. \A e \in Experiments : GoodStages(chain[e])
  BY EmptyIsGood DEF Init, Stages!ChainInit
<1>3. \A w \in Workers : TaskInv(w)
  BY NoTaskType DEF Init, TaskInv
<1> QED
  BY <1>1, <1>2, <1>3 DEF ResearchInv

LEMMA ResearchStep == ResearchInv /\ [Next]_vars => ResearchInv'
<1> SUFFICES ASSUME ResearchInv, [Next]_vars PROVE ResearchInv'
  OBVIOUS
<1>1. ASSUME NEW w \in Workers, Crash(w) PROVE ResearchInv'
  <2>1. task' = [task EXCEPT ![w] = [NoTask EXCEPT !.outcome = "none"]]
    BY <1>1, NoTaskType DEF Crash, NoTask
  <2> QED
    BY <1>1, <2>1, EndKeeps DEF Crash, world
<1>2. ASSUME NEW w \in Workers, Step(w) PROVE ResearchInv'
  BY <1>2, RunBegins, LoadKeeps, LoadRestKeeps, ProduceKeeps, LinkKeeps, RegisterKeeps
  DEF Step
<1> QED
  BY <1>1, <1>2, RunBegins, ResumeBegins, OutsideKeeps DEF Next

\* The stages on disk are right, and what any process has in memory is how they
\* begin, for any number of processes, killed anywhere.
THEOREM ResearchInvariant == Spec => []ResearchInv
<1> QED
  BY ResearchInit, ResearchStep, PTL DEF Spec

\* No process reads the final sessions for another selection than the one that
\* is sealed on disk (orchestrator.py, _execute).
THEOREM FinalTestCorrect == Spec => []FinalTestIsSealed
<1>1. ResearchInv => FinalTestIsSealed
  <2> SUFFICES ASSUME ResearchInv, NEW w \in Workers, task[w].step = "link",
                      task[w].payload.stage = "FINAL_TEST_COMPLETE"
               PROVE  LET stages == chain[task[w].experiment]
                      IN  /\ Len(stages) >= 5
                          /\ task[w].payload.ids = stages[5].ids
                          /\ stages[5].ids = Preselected[stages[4].source]
    BY DEF FinalTestIsSealed
  <2> DEFINE s == task[w].loaded
             p == task[w].payload
             t == Append(s, p)
             c == chain[task[w].experiment]
  <2>1. /\ StartsWith(s, c) /\ GoodStages(t) /\ GoodStages(c) /\ p \in StageFiles
    BY DEF ResearchInv, TaskInv
  <2> HIDE DEF s, p, c
  <2>2. /\ Len(s) \in Nat /\ Len(t) = Len(s) + 1 /\ t[Len(s) + 1] = p
        /\ \A i \in 1..Len(s) : t[i] = s[i]
    BY <2>1 DEF StartsWith
  <2> HIDE DEF t
  <2>3. Len(s) + 1 \in 1..9 /\ StageOK(t, Len(s) + 1)
    BY <2>1, <2>2 DEF GoodStages
  <2>4. Len(s) = 5
    <3>1. p.stage = "FINAL_TEST_COMPLETE"
      BY DEF p
    <3>2. Stages!ResearchStages[Len(s) + 1] = "FINAL_TEST_COMPLETE"
      BY <2>2, <2>3, <3>1 DEF StageOK
    <3>3. ASSUME NEW i \in 1..9, Stages!ResearchStages[i] = "FINAL_TEST_COMPLETE"
          PROVE  i = 6
      BY <3>3, StageNames
    <3>4. Len(s) + 1 = 6
      BY <2>3, <3>2, <3>3
    <3> DEFINE n == Len(s)
    <3>5. n \in Nat
      BY <2>2
    <3>6. n + 1 = 6
      BY <3>4
    <3> HIDE DEF n
    <3>7. n = 5
      BY <3>5, <3>6
    <3> QED
      BY <3>7 DEF n
  <2>5. p.ids = s[5].ids
    BY <2>2, <2>3, <2>4 DEF StageOK
  <2>6. Len(c) >= 5 /\ Len(c) \in Nat /\ s[5] = c[5]
    BY <2>1, <2>4 DEF StartsWith, GoodStages
  <2>7. c[5].ids = Preselected[c[4].source]
    BY <2>1, <2>6 DEF GoodStages, StageOK
  <2> QED
    BY <2>5, <2>6, <2>7 DEF p, c
<1> QED
  BY <1>1, ResearchInvariant, PTL

----------------------------------------------------------------------------
(***************************************************************************)
(* The refinement                                                          *)
(***************************************************************************)

\* Only the link of a stage file changes the stages, and it adds the next one.
LEMMA StepImplements ==
    ASSUME ResearchInv, [Next]_vars
    PROVE  Stages!ChainNext \/ UNCHANGED chain
<1> SUFFICES ASSUME chain' # chain PROVE Stages!ChainNext
  OBVIOUS
<1>1. PICK w \in Workers : Link(w)
  BY DEF Next, Step, BeginRun, BeginResume, ReadSessions, Load, LoadRest, Produce,
         RegisterNext, Crash, Promote, Rebind, NewRevision, vars
<1> DEFINE e == task[w].experiment
           p == task[w].payload
           s == chain[e]
<1>2. ~(Len(s) > Done(w))
  BY <1>1 DEF Link
<1>3. /\ e \in Experiments /\ p \in StageFiles
      /\ chain' = [chain EXCEPT ![e] = Append(s, p)]
      /\ GoodStages(Append(s, p)) /\ GoodStages(s)
      /\ chain \in [Experiments -> Seq(StageFiles)]
  BY <1>1, <1>2, LinkFacts DEF ResearchInv, TypeOK
<1> HIDE DEF e, p
<1>4. /\ Len(s) \in Nat /\ Len(Append(s, p)) = Len(s) + 1
      /\ Append(s, p)[Len(s) + 1] = p
      /\ \A i \in 1..Len(s) : Append(s, p)[i] = s[i] /\ s[i] \in StageFiles
      /\ chain'[e] = Append(s, p)
  BY <1>3 DEF GoodStages
<1>5. Len(s) + 1 \in 1..9 /\ StageOK(Append(s, p), Len(s) + 1)
  BY <1>3, <1>4 DEF GoodStages
<1>6. p.ids \subseteq Stages!Remaining(s)
  <2> DEFINE n == Len(s)
             t == Append(s, p)
  <2>1. CASE s = << >>
    BY <1>3, <2>1 DEF Stages!Remaining, StageFiles
  <2>2. CASE s # << >>
    <3>1. Stages!Remaining(s) = s[n].ids
      BY <2>2 DEF Stages!Remaining
    <3>2. n \in 1..n
      BY <1>3, <2>2 DEF GoodStages
    <3>3. StageOK(s, n) /\ t[n] = s[n]
      BY <1>3, <1>4, <3>2 DEF GoodStages
    <3>4. n + 1 \in 1..9 /\ n \in Nat /\ StageOK(t, n + 1) /\ t[n + 1] = p
      BY <1>4, <1>5
    <3>5. n \in 1..8
      <4> HIDE DEF n
      <4> QED
        BY <3>2, <3>4
    <3>6. n \in 1..8 /\ StageOK(t, n + 1) /\ t[n + 1] = p
      BY <3>4, <3>5
    <3>7. p.ids \in SUBSET Variants
      BY <1>3 DEF StageFiles
    <3> HIDE DEF n, t
    <3>8. CASE n <= 4
      BY <3>1, <3>3, <3>6, <3>7, <3>8 DEF StageOK
    <3>9. CASE n = 5
      BY <3>1, <3>3, <3>6, <3>9 DEF StageOK
    <3>10. CASE n >= 6
      <4>1. n + 1 >= 7 /\ (n + 1) - 1 = n
        BY <3>6, <3>10
      <4>2. t[n + 1].ids \subseteq t[(n + 1) - 1].ids
        BY <3>6, <4>1 DEF StageOK
      <4> QED
        BY <3>1, <3>3, <3>6, <4>1, <4>2
    <3>11. n <= 4 \/ n = 5 \/ n >= 6
      BY <3>6
    <3> QED
      BY <3>8, <3>9, <3>10, <3>11
  <2> QED
    BY <2>1, <2>2
<1>7. Stages!Advance(e)
  <2>1. p.stage = Stages!ResearchStages[Len(s) + 1]
    BY <1>4, <1>5 DEF StageOK
  <2>2. /\ Len(chain[e]) < Stages!StageCount /\ Len(chain'[e]) = Len(chain[e]) + 1
        /\ chain'[e][Len(chain[e]) + 1] = p
    BY <1>4, <1>5, StageNames
  <2>3. chain' = [chain EXCEPT ![e] = Append(@, p)]
    BY <1>3
  <2> QED
    BY <1>6, <2>1, <2>2, <2>3 DEF Stages!Advance
<1> QED
  BY <1>3, <1>7 DEF Stages!ChainNext

\* Whatever processes do to an experiment, its files look as if one process had
\* written them in order, each from those before it.
THEOREM ResearchImplementsChain == Spec => ChainSpec
<1>1. Init => Stages!ChainInit
  BY DEF Init
<1>2. ResearchInv /\ [Next]_vars => [Stages!ChainNext]_chain
  BY StepImplements
<1> QED
  BY <1>1, <1>2, ResearchInvariant, PTL DEF Spec, ChainSpec, Stages!ChainSpec

----------------------------------------------------------------------------
(***************************************************************************)
(* The registry                                                            *)
(***************************************************************************)

\* The calls of an experiment for a strategy, as its stage files have them.
Verdict(e, v) == IF v \in chain[e][7].ids THEN "paper_shadow" ELSE "rejected"

DecisionKey(e, v) == <<"decision", e, v, chain[e][4].source, chain[e][6].source>>

Registration(e, v) ==
    Request("register", <<e, v, "generated">>, v, "generated", << >>, FALSE, e.dataset)
Candidacy(e, v) ==
    Request("transition", <<e, v, "candidate">>, v, "candidate", << >>, FALSE,
            chain[e][4].source)
Decision(e, v) ==
    Request("decide", DecisionKey(e, v), v, "generated", << >>, v \in chain[e][7].ids,
            e.dataset)
Placement(e, v) ==
    Request("transition", <<e, v, Verdict(e, v)>>, v, Verdict(e, v), DecisionKey(e, v),
            FALSE, e.dataset)

\* The i-th call, as RegistryCall has it.
CallOf(e, i) ==
    LET v == VariantOrder[(i \div 4) + 1]
    IN  CASE i % 4 = 0 -> Registration(e, v)
          [] i % 4 = 1 -> Candidacy(e, v)
          [] i % 4 = 2 -> Decision(e, v)
          [] OTHER -> Placement(e, v)

Keys == (Experiments \X Variants \X {"generated", "candidate", "paper_shadow", "rejected"})
        \cup ({"forward"} \X Variants)
        \cup ({"decision"} \X Experiments \X Variants \X Datasets \X (Datasets \cup {Nothing}))

Calls == [op : {"register", "transition", "decide"}, key : Keys, strategy : Variants,
          to : Ledger!KnownStates, cites : Keys \cup {<< >>}, passing : BOOLEAN,
          tag : Datasets \cup {Nothing}]

RegistryTypeOK ==
    /\ events \in Seq([request : Calls, from : Ledger!States])
    /\ rows \in [Variants -> [state : Ledger!States, last : Nat]]
    /\ decisions \subseteq Calls

\* What the events say of a strategy is among these requests.
Only(v, requests) ==
    \A i \in DOMAIN events : events[i].request.strategy = v => events[i].request \in requests

\* The strategy was registered by this experiment, no other one has an event of
\* it, and its state tells which of the calls were carried out.
Owns(e, v) ==
    /\ Len(chain[e]) >= 7
    /\ Only(v, {Registration(e, v), Candidacy(e, v), Placement(e, v), Promotion(v)})
    /\ Ledger!InLedger(Registration(e, v))
    /\ rows[v].state \in {"generated", "candidate", Verdict(e, v), "paper_observing"}
    /\ rows[v].state = "generated" => ~Ledger!InLedger(Candidacy(e, v))
    /\ rows[v].state # "generated" => Ledger!InLedger(Candidacy(e, v))
    /\ rows[v].state \notin {"generated", "candidate"} => Ledger!InLedger(Placement(e, v))

StrategyInv(v) ==
    IF rows[v].state = Ledger!Absent THEN Only(v, {})
    ELSE \E e \in Experiments : Owns(e, v)

DecisionInv(d) ==
    \E e \in Experiments, v \in Variants : Len(chain[e]) >= 7 /\ d = Decision(e, v)

\* A process registers with the calls before this one in the ledger, and it has
\* no outcome before its command ends.
CallsInv(w) ==
    /\ task[w].step # "idle" => task[w].outcome = "none"
    /\ task[w].step # "register" => task[w].calls = 0
    /\ task[w].step = "register" =>
          /\ task[w].calls <= CallCount
          /\ \A i \in 0..(task[w].calls - 1) : Ledger!InLedger(CallOf(task[w].experiment, i))

RegistryInv ==
    /\ RegistryTypeOK
    /\ \A v \in Variants : StrategyInv(v)
    /\ \A d \in decisions : DecisionInv(d)
    /\ \A w \in Workers : CallsInv(w)

\* What the requests say.
LEMMA CallFacts ==
    ASSUME NEW e, NEW v
    PROVE  /\ Registration(e, v).op = "register" /\ Registration(e, v).strategy = v
           /\ Registration(e, v).key = <<e, v, "generated">>
           /\ Registration(e, v).to = "generated"
           /\ Candidacy(e, v).op = "transition" /\ Candidacy(e, v).strategy = v
           /\ Candidacy(e, v).key = <<e, v, "candidate">>
           /\ Candidacy(e, v).to = "candidate"
           /\ Candidacy(e, v).tag = chain[e][4].source
           /\ Decision(e, v).op = "decide" /\ Decision(e, v).strategy = v
           /\ Decision(e, v).key = DecisionKey(e, v)
           /\ Decision(e, v).passing = (v \in chain[e][7].ids)
           /\ Placement(e, v).op = "transition" /\ Placement(e, v).strategy = v
           /\ Placement(e, v).key = <<e, v, Verdict(e, v)>>
           /\ Placement(e, v).to = Verdict(e, v)
           /\ Placement(e, v).cites = DecisionKey(e, v)
           /\ Promotion(v).op = "transition" /\ Promotion(v).strategy = v
           /\ Promotion(v).key = <<"forward", v>> /\ Promotion(v).to = "paper_observing"
BY DEF Registration, Candidacy, Decision, Placement, Promotion, Request

LEMMA VerdictFacts ==
    ASSUME NEW e, NEW v
    PROVE  /\ Verdict(e, v) \in {"paper_shadow", "rejected"}
           /\ Verdict(e, v) = "paper_shadow" <=> v \in chain[e][7].ids
BY DEF Verdict

\* Where the stages that the calls are made of have their evidence from.
LEMMA EvidenceTypes ==
    ASSUME ResearchInv, NEW e \in Experiments, Len(chain[e]) >= 7
    PROVE  /\ chain[e][4].source \in Datasets
           /\ chain[e][6].source \in Datasets \cup {Nothing}
<1> DEFINE s == chain[e]
<1>1. GoodStages(s) /\ Len(s) >= 7
  BY DEF ResearchInv
<1> HIDE DEF s
<1>2. s \in Seq(StageFiles) /\ Len(s) \in Nat
  BY <1>1 DEF GoodStages
<1>3. 4 \in 1..Len(s) /\ 6 \in 1..Len(s)
  BY <1>1, <1>2
<1>4. StageOK(s, 4)
  BY <1>1, <1>3 DEF GoodStages
<1>5. s[6] \in StageFiles
  BY <1>2, <1>3, SeqElement
<1>6. s[4].source \in Datasets /\ s[6].source \in Datasets \cup {Nothing}
  BY <1>4, <1>5 DEF StageOK, StageFiles
<1> QED
  BY <1>6 DEF s

LEMMA KeyTypes ==
    ASSUME ResearchInv, NEW e \in Experiments, NEW v \in Variants, Len(chain[e]) >= 7
    PROVE  /\ <<e, v, "generated">> \in Keys
           /\ <<e, v, "candidate">> \in Keys
           /\ <<e, v, Verdict(e, v)>> \in Keys
           /\ DecisionKey(e, v) \in Keys
<1>1. /\ chain[e][4].source \in Datasets
      /\ chain[e][6].source \in Datasets \cup {Nothing}
  BY EvidenceTypes
<1>2. Verdict(e, v) \in {"paper_shadow", "rejected"}
  BY VerdictFacts
<1>3. DecisionKey(e, v) \in {"decision"} \X Experiments \X Variants \X Datasets
                               \X (Datasets \cup {Nothing})
  BY <1>1 DEF DecisionKey
<1> QED
  BY <1>2, <1>3 DEF Keys

LEMMA CallTypes ==
    ASSUME ResearchInv, NEW e \in Experiments, NEW v \in Variants, Len(chain[e]) >= 7
    PROVE  /\ Registration(e, v) \in Calls
           /\ Candidacy(e, v) \in Calls
           /\ Decision(e, v) \in Calls
           /\ Placement(e, v) \in Calls
<1> DEFINE source == chain[e][4].source
           verdict == Verdict(e, v)
           cites == DecisionKey(e, v)
           passing == v \in chain[e][7].ids
           k1 == <<e, v, "generated">>
           k2 == <<e, v, "candidate">>
           k3 == <<e, v, verdict>>
<1>1. source \in Datasets
  BY EvidenceTypes
<1>2. k1 \in Keys /\ k2 \in Keys /\ k3 \in Keys /\ cites \in Keys
  BY KeyTypes
<1>3. verdict \in {"paper_shadow", "rejected"}
  BY VerdictFacts
<1>4. verdict \in Ledger!KnownStates
  BY <1>3 DEF Ledger!KnownStates
<1>5. "generated" \in Ledger!KnownStates /\ "candidate" \in Ledger!KnownStates
  BY DEF Ledger!KnownStates
<1>6. e.dataset \in Datasets
  BY DEF Experiments
<1>7. passing \in BOOLEAN
  OBVIOUS
<1> HIDE DEF source, verdict, cites, passing, k1, k2, k3
<1>8. Request("register", k1, v, "generated", << >>, FALSE, e.dataset) \in Calls
  BY <1>2, <1>5, <1>6 DEF Request, Calls
<1>9. Request("transition", k2, v, "candidate", << >>, FALSE, source) \in Calls
  BY <1>1, <1>2, <1>5 DEF Request, Calls
<1>10. Request("decide", cites, v, "generated", << >>, passing, e.dataset) \in Calls
  BY <1>2, <1>5, <1>6, <1>7 DEF Request, Calls
<1>11. Request("transition", k3, v, verdict, cites, FALSE, e.dataset) \in Calls
  BY <1>2, <1>4, <1>6 DEF Request, Calls
<1> QED
  BY <1>8, <1>9, <1>10, <1>11
  DEF Registration, Candidacy, Decision, Placement, source, verdict, cites, passing, k1, k2, k3

LEMMA PromotionType ==
    ASSUME NEW v \in Variants
    PROVE  Promotion(v) \in Calls
<1>1. <<"forward", v>> \in Keys
  BY DEF Keys
<1>2. "paper_observing" \in Ledger!KnownStates
  BY DEF Ledger!KnownStates
<1> DEFINE k == <<"forward", v>>
<1>3. k \in Keys
  BY <1>1
<1> HIDE DEF k
<1>4. Request("transition", k, v, "paper_observing", << >>, FALSE, Nothing) \in Calls
  BY <1>2, <1>3 DEF Request, Calls
<1> QED
  BY <1>4 DEF Promotion, k

\* The order of the calls: four for every variant.
LEMMA CallOrder ==
    ASSUME NEW i \in Nat, i < CallCount
    PROVE  /\ VariantOrder[(i \div 4) + 1] \in Variants
           /\ i % 4 \in 0..3
<1> DEFINE n == Len(VariantOrder)
           k == i \div 4
<1>1. VariantOrder \in Seq(Variants) /\ n \in Nat /\ i < 4 * n
  BY ResearchAssumption DEF CallCount
<1> HIDE DEF n
<1>2. k \in Nat /\ k < n
  BY <1>1
<1> HIDE DEF k
<1>3. k + 1 \in 1..n
  BY <1>1, <1>2
<1>4. VariantOrder[k + 1] \in Variants
  BY <1>1, <1>3, SeqElement DEF n
<1>5. i % 4 \in 0..3
  OBVIOUS
<1> QED
  BY <1>4, <1>5 DEF k

LEMMA CallBefore ==
    ASSUME NEW i \in Nat, NEW j \in 1..3, j <= i % 4
    PROVE  /\ i - j \in 0..(i - 1)
           /\ (i - j) \div 4 = i \div 4
           /\ (i - j) % 4 = (i % 4) - j
<1> DEFINE q == i \div 4
           r == i % 4
<1>1. q \in Nat /\ r \in 0..3 /\ i = 4 * q + r
  OBVIOUS
<1> HIDE DEF q, r
<1>2. j <= r
  BY DEF r
<1>3. i - j = 4 * q + (r - j) /\ r - j \in 0..3
  BY <1>1, <1>2
<1>4. ASSUME NEW n \in Nat, NEW b \in 0..3, NEW a \in Nat, n = 4 * a + b
      PROVE  n \div 4 = a /\ n % 4 = b
  BY <1>4
<1>5. i - j \in Nat /\ i - j \in 0..(i - 1)
  BY <1>1, <1>2
<1>6. (i - j) \div 4 = q /\ (i - j) % 4 = r - j
  BY <1>1, <1>3, <1>4, <1>5
<1> QED
  BY <1>5, <1>6 DEF q, r

\* A call of a process is what the stage files make of it.
LEMMA RegistryCallIs ==
    ASSUME ResearchInv, NEW w \in Workers, task[w].step = "register", NEW i \in Nat
    PROVE  /\ task[w].experiment \in Experiments
           /\ Len(chain[task[w].experiment]) >= 7
           /\ RegistryCall(w, i) = CallOf(task[w].experiment, i)
<1> DEFINE e == task[w].experiment
           s == task[w].loaded
           c == chain[e]
           v == VariantOrder[(i \div 4) + 1]
<1>1. e \in Experiments /\ StartsWith(s, c) /\ Len(s) = 7 /\ GoodStages(c)
  BY DEF ResearchInv, TaskInv
<1>2. Len(c) >= 7 /\ s[4] = c[4] /\ s[6] = c[6] /\ s[7] = c[7]
  <2> HIDE DEF s, c
  <2>1. Len(c) \in Nat /\ Len(s) <= Len(c)
    BY <1>1 DEF StartsWith, GoodStages
  <2> QED
    BY <1>1, <2>1 DEF StartsWith
<1>3. /\ ExpectedState(w, v) = Verdict(e, v)
      /\ DecisionId(w, v) = DecisionKey(e, v)
      /\ Evidence(w) = c[4].source
      /\ GatesPassed(w) = c[7].ids
  BY <1>2 DEF ExpectedState, Verdict, DecisionId, DecisionKey, Evidence, GatesPassed, Loaded
<1> DEFINE k == i % 4
<1>4. RegistryCall(w, i) =
        CASE k = 0 -> Registration(e, v) [] k = 1 -> Candidacy(e, v)
          [] k = 2 -> Decision(e, v) [] OTHER -> Placement(e, v)
  BY <1>3 DEF RegistryCall, Registration, Candidacy, Decision, Placement
<1> QED
  BY <1>1, <1>2, <1>4 DEF CallOf

----------------------------------------------------------------------------
(***************************************************************************)
(* Steps of the registry                                                   *)
(***************************************************************************)

\* The first seven stages of an experiment stay as they are.
KeepsStages ==
    \A e \in Experiments :
        Len(chain[e]) >= 7 =>
            /\ Len(chain'[e]) >= 7
            /\ chain'[e][4] = chain[e][4]
            /\ chain'[e][6] = chain[e][6]
            /\ chain'[e][7] = chain[e][7]

LEMMA StagesAreKept ==
    ASSUME ResearchInv, [Next]_vars
    PROVE  KeepsStages
<1>1. CASE UNCHANGED chain
  BY <1>1 DEF KeepsStages
<1>2. CASE Stages!ChainNext
  <2>1. PICK e \in Experiments :
           \E x : chain' = [chain EXCEPT ![e] = Append(chain[e], x)]
    <3>1. PICK e \in Experiments : Stages!Advance(e)
      BY <1>2 DEF Stages!ChainNext
    <3> QED
      BY <3>1 DEF Stages!Advance
  <2>a. PICK x : chain' = [chain EXCEPT ![e] = Append(chain[e], x)]
    BY <2>1
  <2>2. chain \in [Experiments -> Seq(StageFiles)]
    BY DEF ResearchInv, TypeOK
  <2> SUFFICES ASSUME NEW f \in Experiments, Len(chain[f]) >= 7
               PROVE  /\ Len(chain'[f]) >= 7
                      /\ chain'[f][4] = chain[f][4]
                      /\ chain'[f][6] = chain[f][6]
                      /\ chain'[f][7] = chain[f][7]
    BY DEF KeepsStages
  <2>3. CASE f # e
    BY <2>a, <2>2, <2>3
  <2>4. CASE f = e
    <3> DEFINE s == chain[e]
    <3>1. s \in Seq(StageFiles) /\ Len(s) >= 7 /\ chain'[f] = Append(s, x) /\ s = chain[f]
      BY <2>a, <2>2, <2>4
    <3> HIDE DEF s
    <3>2. /\ Len(Append(s, x)) = Len(s) + 1 /\ Len(s) \in Nat
          /\ \A i \in 1..Len(s) : Append(s, x)[i] = s[i]
      BY <3>1
    <3>3. 4 \in 1..Len(s) /\ 6 \in 1..Len(s) /\ 7 \in 1..Len(s)
      BY <3>1, <3>2
    <3> QED
      BY <3>1, <3>2, <3>3
  <2> QED
    BY <2>3, <2>4
<1> QED
  BY <1>1, <1>2, StepImplements

LEMMA CallsAreKept ==
    ASSUME KeepsStages, NEW e \in Experiments, NEW v, Len(chain[e]) >= 7
    PROVE  /\ Verdict(e, v)' = Verdict(e, v)
           /\ Registration(e, v)' = Registration(e, v)
           /\ Candidacy(e, v)' = Candidacy(e, v)
           /\ Decision(e, v)' = Decision(e, v)
           /\ Placement(e, v)' = Placement(e, v)
           /\ Promotion(v)' = Promotion(v)
<1>1. chain'[e][4] = chain[e][4] /\ chain'[e][6] = chain[e][6] /\ chain'[e][7] = chain[e][7]
  BY DEF KeepsStages
<1>2. Verdict(e, v)' = Verdict(e, v) /\ DecisionKey(e, v)' = DecisionKey(e, v)
  BY <1>1 DEF Verdict, DecisionKey
<1> QED
  BY <1>1, <1>2 DEF Registration, Candidacy, Decision, Placement, Promotion, Request

\* Events and decisions are only added.
Grows ==
    /\ DOMAIN events \subseteq DOMAIN events'
    /\ \A i \in DOMAIN events : events'[i] = events[i]
    /\ decisions \subseteq decisions'

LEMMA InLedgerStays ==
    ASSUME Grows, NEW r, Ledger!InLedger(r)
    PROVE  Ledger!InLedger(r)'
BY DEF Grows, Ledger!InLedger

LEMMA CallOfIsKept ==
    ASSUME KeepsStages, NEW e \in Experiments, NEW i, Len(chain[e]) >= 7
    PROVE  CallOf(e, i)' = CallOf(e, i)
<1> DEFINE v == VariantOrder[(i \div 4) + 1]
<1>1. /\ Registration(e, v)' = Registration(e, v)
      /\ Candidacy(e, v)' = Candidacy(e, v)
      /\ Decision(e, v)' = Decision(e, v)
      /\ Placement(e, v)' = Placement(e, v)
  BY CallsAreKept
<1> QED
  BY <1>1 DEF CallOf

\* Nothing happens to a strategy: its row stays and no event of it is added.
Untouched(v) ==
    /\ rows'[v] = rows[v]
    /\ \A i \in DOMAIN events' \ DOMAIN events : events'[i].request.strategy # v

LEMMA UntouchedStays ==
    ASSUME KeepsStages, Grows, NEW v \in Variants, Untouched(v), StrategyInv(v)
    PROVE  StrategyInv(v)'
<1>1. CASE rows[v].state = Ledger!Absent
  <2>1. Only(v, {})
    BY <1>1 DEF StrategyInv
  <2>2. Only(v, {})'
    BY <2>1 DEF Only, Grows, Untouched
  <2>3. (rows[v].state = Ledger!Absent)'
    BY <1>1 DEF Untouched, Ledger!Absent
  <2> QED
    BY <2>2, <2>3 DEF StrategyInv
<1>2. CASE rows[v].state # Ledger!Absent
  <2>1. PICK e \in Experiments : Owns(e, v)
    BY <1>2 DEF StrategyInv
  <2>2. Len(chain[e]) >= 7 /\ Len(chain'[e]) >= 7
    BY <2>1 DEF Owns, KeepsStages
  <2>3. /\ Verdict(e, v)' = Verdict(e, v)
        /\ Registration(e, v)' = Registration(e, v)
        /\ Candidacy(e, v)' = Candidacy(e, v)
        /\ Placement(e, v)' = Placement(e, v)
        /\ Promotion(v)' = Promotion(v)
    BY <2>2, CallsAreKept
  <2> DEFINE c == Candidacy(e, v)
             r == Registration(e, v)
             p == Placement(e, v)
             set == {r, c, p, Promotion(v)}
  <2>4. rows'[v].state = rows[v].state
    BY DEF Untouched
  <2>5. Only(v, set)'
    <3>1. Only(v, set)
      BY <2>1 DEF Owns
    <3>2. set' = set
      BY <2>3
    <3> HIDE DEF set
    <3> QED
      BY <3>1, <3>2 DEF Only, Grows, Untouched
  <2>6. Ledger!InLedger(r)'
    <3>1. Ledger!InLedger(r) /\ r' = r
      BY <2>1, <2>3 DEF Owns
    <3> HIDE DEF r
    <3> QED
      BY <3>1 DEF Grows, Ledger!InLedger
  <2>7. (rows[v].state # "generated" => Ledger!InLedger(c))'
    <3>1. (rows[v].state # "generated" => Ledger!InLedger(c)) /\ c' = c
      BY <2>1, <2>3 DEF Owns
    <3> HIDE DEF c
    <3> QED
      BY <2>4, <3>1 DEF Grows, Ledger!InLedger
  <2>8. (rows[v].state \notin {"generated", "candidate"} => Ledger!InLedger(p))'
    <3>1. (rows[v].state \notin {"generated", "candidate"} => Ledger!InLedger(p)) /\ p' = p
      BY <2>1, <2>3 DEF Owns
    <3> HIDE DEF p
    <3> QED
      BY <2>4, <3>1 DEF Grows, Ledger!InLedger
  <2>9. (rows[v].state = "generated" => ~Ledger!InLedger(c))'
    <3>1. (rows[v].state = "generated" => ~Ledger!InLedger(c)) /\ c' = c
      BY <2>1, <2>3 DEF Owns
    <3>2. c.strategy = v /\ c.op = "transition"
      BY CallFacts
    <3> HIDE DEF c
    <3> QED
      BY <2>4, <3>1, <3>2 DEF Grows, Untouched, Ledger!InLedger
  <2>10. (rows[v].state \in {"generated", "candidate", Verdict(e, v), "paper_observing"})'
    BY <2>1, <2>3, <2>4 DEF Owns
  <2>11. Owns(e, v)'
    BY <2>2, <2>5, <2>6, <2>7, <2>8, <2>9, <2>10 DEF Owns
  <2>12. (rows[v].state # Ledger!Absent)'
    BY <1>2, <2>4 DEF Ledger!Absent
  <2> QED
    BY <2>11, <2>12 DEF StrategyInv
<1> QED
  BY <1>1, <1>2

LEMMA DecisionStays ==
    ASSUME KeepsStages, NEW d, DecisionInv(d)
    PROVE  DecisionInv(d)'
<1>1. PICK e \in Experiments, v \in Variants : Len(chain[e]) >= 7 /\ d = Decision(e, v)
  BY DEF DecisionInv
<1>2. Len(chain'[e]) >= 7 /\ Decision(e, v)' = Decision(e, v)
  BY <1>1, CallsAreKept DEF KeepsStages
<1> QED
  BY <1>1, <1>2 DEF DecisionInv

LEMMA EventAdded ==
    ASSUME RegistryTypeOK, NEW r \in Calls, NEW from \in Ledger!States,
           Ledger!Write(r, from), decisions' = decisions
    PROVE  /\ RegistryTypeOK' /\ Grows
           /\ \A u \in Variants \ {r.strategy} : Untouched(u)
           /\ rows'[r.strategy].state = r.to
           /\ Len(events) + 1 \in DOMAIN events' /\ events'[Len(events) + 1].request = r
           /\ \A i \in DOMAIN events' : i \in DOMAIN events \/ events'[i].request = r
<1> DEFINE n == Len(events)
           Entries == [request : Calls, from : Ledger!States]
           x == [request |-> r, from |-> from]
           row == [state |-> r.to, last |-> n + 1]
<1>1. /\ events \in Seq(Entries) /\ n \in Nat /\ x \in Entries /\ x.request = r
      /\ events' = Append(events, x)
  BY DEF RegistryTypeOK, Ledger!Write
<1>2. r.strategy \in Variants /\ r.to \in Ledger!KnownStates
  BY DEF Calls
<1>3. row \in [state : Ledger!States, last : Nat] /\ row.state = r.to
  BY <1>1, <1>2 DEF Ledger!States
<1>4. rows' = [rows EXCEPT ![r.strategy] = row]
  BY DEF Ledger!Write
<1> HIDE DEF Entries, x, row
<1>5. /\ events' \in Seq(Entries) /\ Len(events') = n + 1 /\ events'[n + 1] = x
      /\ \A i \in 1..n : events'[i] = events[i]
      /\ DOMAIN events = 1..n /\ DOMAIN events' = 1..(n + 1)
  BY <1>1
<1>6. rows' \in [Variants -> [state : Ledger!States, last : Nat]]
      /\ rows'[r.strategy] = row /\ \A u \in Variants \ {r.strategy} : rows'[u] = rows[u]
  BY <1>2, <1>3, <1>4 DEF RegistryTypeOK
<1> HIDE DEF n
<1>7. RegistryTypeOK'
  BY <1>5, <1>6 DEF RegistryTypeOK, Entries
<1>8. Grows
  BY <1>1, <1>5 DEF Grows
<1>9. \A i \in DOMAIN events' : i \in DOMAIN events \/ events'[i].request = r
  BY <1>1, <1>5
<1>10. \A u \in Variants \ {r.strategy} : Untouched(u)
  BY <1>1, <1>5, <1>6 DEF Untouched
<1>11. n + 1 \in DOMAIN events' /\ events'[n + 1].request = r
  BY <1>1, <1>5
<1>12. rows'[r.strategy].state = r.to
  BY <1>3, <1>6
<1> QED
  BY <1>7, <1>8, <1>9, <1>10, <1>11, <1>12 DEF n

\* Only one experiment has events of a strategy.
LEMMA OneOwner ==
    ASSUME NEW v, NEW e, NEW f, Owns(f, v), Ledger!InLedger(Registration(e, v))
    PROVE  e = f
<1>1. PICK i \in DOMAIN events : events[i].request = Registration(e, v)
  BY CallFacts DEF Ledger!InLedger
<1>2. events[i].request \in {Registration(f, v), Candidacy(f, v), Placement(f, v), Promotion(v)}
  BY <1>1, CallFacts DEF Owns, Only
<1>3. events[i].request.op = "register" /\ events[i].request.key = <<e, v, "generated">>
  BY <1>1, CallFacts
<1>4. events[i].request = Registration(f, v)
  BY <1>2, <1>3, CallFacts
<1>5. <<e, v, "generated">> = <<f, v, "generated">>
  BY <1>3, <1>4, CallFacts
<1> QED
  BY <1>5

\* The strategy is in a state in which its experiment left it.
LEMMA Owned ==
    ASSUME NEW v \in Variants, NEW e, StrategyInv(v), Ledger!InLedger(Registration(e, v))
    PROVE  Owns(e, v) /\ rows[v].state # Ledger!Absent
<1>1. rows[v].state # Ledger!Absent
  BY CallFacts DEF StrategyInv, Only, Ledger!InLedger
<1>2. PICK f \in Experiments : Owns(f, v)
  BY <1>1 DEF StrategyInv
<1>3. e = f
  BY <1>2, OneOwner
<1> QED
  BY <1>1, <1>2, <1>3

\* Each of the calls that writes an event leaves the strategy in order.
LEMMA RegistrationKeeps ==
    ASSUME ResearchInv, RegistryInv, KeepsStages, NEW e \in Experiments, NEW v \in Variants,
           Len(chain[e]) >= 7, Ledger!Register(Registration(e, v))
    PROVE  /\ RegistryTypeOK' /\ Grows /\ decisions' = decisions
           /\ \A u \in Variants : StrategyInv(u)'
<1> DEFINE r == Registration(e, v)
<1>1. /\ r.strategy = v /\ r.op = "register" /\ r.to = "generated" /\ r.key = <<e, v, "generated">>
      /\ r \in Calls /\ r' = r
  BY CallFacts, CallTypes, CallsAreKept
<1>2. /\ Ledger!Write(r, Ledger!Absent) /\ decisions' = decisions
      /\ rows[v].state = Ledger!Absent
  BY <1>1 DEF Ledger!Register
<1>3. Ledger!Absent \in Ledger!States /\ RegistryTypeOK
  BY DEF Ledger!States, RegistryInv
<1> HIDE DEF r
<1>4. /\ RegistryTypeOK' /\ Grows
      /\ \A u \in Variants \ {v} : Untouched(u)
      /\ rows'[v].state = "generated"
      /\ Ledger!InLedger(r)'
      /\ \A i \in DOMAIN events' : i \in DOMAIN events \/ events'[i].request = r
  BY <1>1, <1>2, <1>3, EventAdded DEF Ledger!InLedger
<1>5. \A u \in Variants \ {v} : StrategyInv(u)'
  BY <1>4, UntouchedStays DEF RegistryInv
<1>6. Only(v, {})
  BY <1>2 DEF RegistryInv, StrategyInv
<1>7. Only(v, {r})'
  BY <1>1, <1>4, <1>6 DEF Only, Grows
<1>8. Owns(e, v)'
  <2>1. Len(chain'[e]) >= 7
    BY DEF KeepsStages
  <2>2. Only(v, {r, Candidacy(e, v), Placement(e, v), Promotion(v)})'
    BY <1>7 DEF Only
  <2>3. ~Ledger!InLedger(Candidacy(e, v))'
    <3> DEFINE c == Candidacy(e, v)
    <3>1. c.strategy = v /\ c.op = "transition" /\ c' = c
      BY CallFacts, CallsAreKept
    <3> HIDE DEF c
    <3>2. ~Ledger!InLedger(c)'
      BY <1>1, <1>7, <3>1 DEF Only, Ledger!InLedger
    <3> QED
      BY <3>2 DEF c
  <2> QED
    BY <1>4, <2>1, <2>2, <2>3 DEF Owns, r
<1>9. (rows[v].state # Ledger!Absent)'
  BY <1>4 DEF Ledger!Absent
<1>10. StrategyInv(v)'
  BY <1>8, <1>9 DEF StrategyInv
<1> QED
  BY <1>2, <1>4, <1>5, <1>10

LEMMA CandidacyKeeps ==
    ASSUME ResearchInv, RegistryInv, KeepsStages, NEW e \in Experiments, NEW v \in Variants,
           Len(chain[e]) >= 7, Ledger!InLedger(Registration(e, v)),
           Ledger!Transition(Candidacy(e, v))
    PROVE  /\ RegistryTypeOK' /\ Grows /\ decisions' = decisions
           /\ \A u \in Variants : StrategyInv(u)'
<1> DEFINE r == Candidacy(e, v)
           st == rows[v].state
<1>1. /\ r.strategy = v /\ r.op = "transition" /\ r.to = "candidate"
      /\ r \in Calls /\ r' = r
  BY CallFacts, CallTypes, CallsAreKept
<1>2. /\ Ledger!Write(r, st) /\ decisions' = decisions
      /\ st \in Ledger!KnownStates /\ "candidate" \in Ledger!AllowedTransitions[st]
  BY <1>1 DEF Ledger!Transition, Ledger!MayMove
<1>3. st \in Ledger!States /\ RegistryTypeOK
  BY <1>2 DEF Ledger!States, RegistryInv
<1>4. Owns(e, v)
  BY Owned DEF RegistryInv
<1>5. st = "generated"
  BY <1>2 DEF Ledger!KnownStates, Ledger!AllowedTransitions
<1> HIDE DEF r, st
<1>6. /\ RegistryTypeOK' /\ Grows
      /\ \A u \in Variants \ {v} : Untouched(u)
      /\ rows'[v].state = "candidate"
      /\ Ledger!InLedger(r)'
      /\ \A i \in DOMAIN events' : i \in DOMAIN events \/ events'[i].request = r
  BY <1>1, <1>2, <1>3, EventAdded DEF Ledger!InLedger
<1>7. \A u \in Variants \ {v} : StrategyInv(u)'
  BY <1>6, UntouchedStays DEF RegistryInv
<1>8. Owns(e, v)'
  <2>1. Len(chain'[e]) >= 7
    BY DEF KeepsStages
  <2> DEFINE set == {Registration(e, v), r, Placement(e, v), Promotion(v)}
  <2>2. Only(v, set)'
    <3>1. Only(v, set) /\ set' = set /\ r \in set
      BY <1>1, <1>4, CallsAreKept DEF Owns, r
    <3> HIDE DEF set
    <3> QED
      BY <1>6, <3>1 DEF Only, Grows
  <2>3. Ledger!InLedger(Registration(e, v))'
    <3> DEFINE c == Registration(e, v)
    <3>1. Ledger!InLedger(c) /\ c' = c
      BY CallsAreKept
    <3> HIDE DEF c
    <3>2. Ledger!InLedger(c)'
      BY <1>6, <3>1 DEF Grows, Ledger!InLedger
    <3> QED
      BY <3>2 DEF c
  <2> QED
    BY <1>6, <2>1, <2>2, <2>3 DEF Owns, r
<1>9. (rows[v].state # Ledger!Absent)'
  BY <1>6 DEF Ledger!Absent
<1>10. StrategyInv(v)'
  BY <1>8, <1>9 DEF StrategyInv
<1> QED
  BY <1>2, <1>6, <1>7, <1>10

LEMMA PlacementKeeps ==
    ASSUME ResearchInv, RegistryInv, KeepsStages, NEW e \in Experiments, NEW v \in Variants,
           Len(chain[e]) >= 7, Ledger!InLedger(Registration(e, v)),
           Ledger!Transition(Placement(e, v))
    PROVE  /\ RegistryTypeOK' /\ Grows /\ decisions' = decisions
           /\ \A u \in Variants : StrategyInv(u)'
<1> DEFINE r == Placement(e, v)
           st == rows[v].state
           to == Verdict(e, v)
<1>1. /\ r.strategy = v /\ r.op = "transition" /\ r.to = to
      /\ r \in Calls /\ r' = r
      /\ to \in {"paper_shadow", "rejected"} /\ to' = to
  BY CallFacts, CallTypes, CallsAreKept, VerdictFacts
<1>2. /\ Ledger!Write(r, st) /\ decisions' = decisions
      /\ st \in Ledger!KnownStates /\ to \in Ledger!AllowedTransitions[st]
  BY <1>1 DEF Ledger!Transition, Ledger!MayMove
<1>3. st \in Ledger!States /\ RegistryTypeOK
  BY <1>2 DEF Ledger!States, RegistryInv
<1>4. Owns(e, v)
  BY Owned DEF RegistryInv
<1>5. st # "generated"
  <2> HIDE DEF st, to, r
  <2> QED
    BY <1>1, <1>2 DEF Ledger!AllowedTransitions
<1>6. Ledger!InLedger(Candidacy(e, v))
  BY <1>4, <1>5 DEF Owns
<1> HIDE DEF r, st, to
<1>7. /\ RegistryTypeOK' /\ Grows
      /\ \A u \in Variants \ {v} : Untouched(u)
      /\ rows'[v].state = to
      /\ Ledger!InLedger(r)'
      /\ \A i \in DOMAIN events' : i \in DOMAIN events \/ events'[i].request = r
  BY <1>1, <1>2, <1>3, EventAdded DEF Ledger!InLedger
<1>8. \A u \in Variants \ {v} : StrategyInv(u)'
  BY <1>7, UntouchedStays DEF RegistryInv
<1>9. Owns(e, v)'
  <2>1. Len(chain'[e]) >= 7
    BY DEF KeepsStages
  <2> DEFINE set == {Registration(e, v), Candidacy(e, v), r, Promotion(v)}
  <2>2. Only(v, set)'
    <3>1. Only(v, set) /\ set' = set /\ r \in set
      BY <1>1, <1>4, CallsAreKept DEF Owns, r
    <3> HIDE DEF set
    <3> QED
      BY <1>7, <3>1 DEF Only, Grows
  <2>3. Ledger!InLedger(Registration(e, v))'
    <3> DEFINE c == Registration(e, v)
    <3>1. Ledger!InLedger(c) /\ c' = c
      BY CallsAreKept
    <3> HIDE DEF c
    <3>2. Ledger!InLedger(c)'
      BY <1>7, <3>1 DEF Grows, Ledger!InLedger
    <3> QED
      BY <3>2 DEF c
  <2>4. Ledger!InLedger(Candidacy(e, v))'
    <3> DEFINE c == Candidacy(e, v)
    <3>1. Ledger!InLedger(c) /\ c' = c
      BY <1>6, CallsAreKept
    <3> HIDE DEF c
    <3>2. Ledger!InLedger(c)'
      BY <1>7, <3>1 DEF Grows, Ledger!InLedger
    <3> QED
      BY <3>2 DEF c
  <2>5. rows'[v].state = Verdict(e, v)' /\ rows'[v].state # "generated"
    BY <1>1, <1>7 DEF to
  <2>6. Ledger!InLedger(Placement(e, v))'
    BY <1>7 DEF r
  <2>7. Only(v, {Registration(e, v), Candidacy(e, v), Placement(e, v), Promotion(v)})'
    BY <2>2 DEF r
  <2> QED
    BY <2>1, <2>3, <2>4, <2>5, <2>6, <2>7 DEF Owns
<1>10. (rows[v].state # Ledger!Absent)'
  BY <1>1, <1>7 DEF Ledger!Absent
<1>11. StrategyInv(v)'
  BY <1>9, <1>10 DEF StrategyInv
<1> QED
  BY <1>2, <1>7, <1>8, <1>11

LEMMA PromotionKeeps ==
    ASSUME ResearchInv, RegistryInv, KeepsStages, NEW v \in Variants,
           Ledger!Transition(Promotion(v))
    PROVE  /\ RegistryTypeOK' /\ Grows /\ decisions' = decisions
           /\ \A u \in Variants : StrategyInv(u)'
<1> DEFINE r == Promotion(v)
           st == rows[v].state
<1>1. /\ r.strategy = v /\ r.op = "transition" /\ r.to = "paper_observing" /\ r \in Calls
  BY CallFacts, PromotionType
<1>2. /\ Ledger!Write(r, st) /\ decisions' = decisions
      /\ st \in Ledger!KnownStates /\ "paper_observing" \in Ledger!AllowedTransitions[st]
  BY <1>1 DEF Ledger!Transition, Ledger!MayMove
<1>3. st \in Ledger!States /\ RegistryTypeOK /\ st # Ledger!Absent
  BY <1>2 DEF Ledger!States, Ledger!KnownStates, Ledger!Absent, RegistryInv
<1>4. PICK e \in Experiments : Owns(e, v)
  BY <1>3 DEF RegistryInv, StrategyInv
<1>5. Len(chain[e]) >= 7 /\ Len(chain'[e]) >= 7
  BY <1>4 DEF Owns, KeepsStages
<1>6. Verdict(e, v) \in {"paper_shadow", "rejected"}
  BY VerdictFacts
<1>7. st \in {"generated", "candidate", Verdict(e, v), "paper_observing"}
  BY <1>4 DEF Owns
<1>8. st = "paper_shadow"
  <2> HIDE DEF st, r
  <2> QED
    BY <1>2, <1>6, <1>7 DEF Ledger!AllowedTransitions
<1>9. Ledger!InLedger(Candidacy(e, v)) /\ Ledger!InLedger(Placement(e, v))
      /\ Ledger!InLedger(Registration(e, v))
  BY <1>4, <1>8 DEF Owns
<1>10. /\ Candidacy(e, v)' = Candidacy(e, v) /\ Placement(e, v)' = Placement(e, v)
       /\ Registration(e, v)' = Registration(e, v) /\ r' = r
  BY <1>5, CallsAreKept
<1> HIDE DEF r, st
<1>11. /\ RegistryTypeOK' /\ Grows
       /\ \A u \in Variants \ {v} : Untouched(u)
       /\ rows'[v].state = "paper_observing"
       /\ \A i \in DOMAIN events' : i \in DOMAIN events \/ events'[i].request = r
  BY <1>1, <1>2, <1>3, EventAdded
<1>12. \A u \in Variants \ {v} : StrategyInv(u)'
  BY <1>11, UntouchedStays DEF RegistryInv
<1>13. Owns(e, v)'
  <2> DEFINE set == {Registration(e, v), Candidacy(e, v), Placement(e, v), r}
  <2>1. Only(v, set)'
    <3>1. Only(v, set) /\ set' = set /\ r \in set
      BY <1>4, <1>10 DEF Owns, r
    <3> HIDE DEF set
    <3> QED
      BY <1>11, <3>1 DEF Only, Grows
  <2>2. \A c : Ledger!InLedger(c) /\ c' = c => Ledger!InLedger(c)'
    BY <1>11 DEF Grows, Ledger!InLedger
  <2>3. /\ Ledger!InLedger(Registration(e, v))'
        /\ Ledger!InLedger(Candidacy(e, v))'
        /\ Ledger!InLedger(Placement(e, v))'
    <3> DEFINE a == Registration(e, v)
               b == Candidacy(e, v)
               c == Placement(e, v)
    <3>1. /\ Ledger!InLedger(a) /\ Ledger!InLedger(b) /\ Ledger!InLedger(c)
          /\ a' = a /\ b' = b /\ c' = c
      BY <1>9, <1>10
    <3> HIDE DEF a, b, c
    <3>2. Ledger!InLedger(a)' /\ Ledger!InLedger(b)' /\ Ledger!InLedger(c)'
      BY <1>11, <3>1 DEF Grows, Ledger!InLedger
    <3> QED
      BY <3>2 DEF a, b, c
  <2>4. Only(v, {Registration(e, v), Candidacy(e, v), Placement(e, v), Promotion(v)})'
    BY <2>1 DEF r
  <2> QED
    BY <1>5, <1>11, <2>3, <2>4 DEF Owns
<1>14. (rows[v].state # Ledger!Absent)'
  BY <1>11 DEF Ledger!Absent
<1>15. StrategyInv(v)'
  BY <1>13, <1>14 DEF StrategyInv
<1> QED
  BY <1>2, <1>11, <1>12, <1>15

\* A decision or nothing is written: no strategy changes.
LEMMA DecisionKeeps ==
    ASSUME ResearchInv, RegistryInv, KeepsStages, UNCHANGED <<events, rows>>,
           \/ UNCHANGED decisions
           \/ \E e \in Experiments, v \in Variants :
                 Len(chain[e]) >= 7 /\ Ledger!Decide(Decision(e, v))
    PROVE  /\ RegistryTypeOK' /\ Grows
           /\ \A u \in Variants : StrategyInv(u)'
           /\ \A d \in decisions' : DecisionInv(d)'
<1>1. RegistryTypeOK
  BY DEF RegistryInv
<1>2. \A d \in decisions : DecisionInv(d)'
  BY DecisionStays DEF RegistryInv
<1>3. Grows /\ RegistryTypeOK' /\ \A d \in decisions' : DecisionInv(d)'
  <2>1. CASE UNCHANGED decisions
    BY <1>1, <1>2, <2>1 DEF Grows, RegistryTypeOK
  <2>2. ASSUME NEW e \in Experiments, NEW v \in Variants, Len(chain[e]) >= 7,
               Ledger!Decide(Decision(e, v))
        PROVE  Grows /\ RegistryTypeOK' /\ \A d \in decisions' : DecisionInv(d)'
    <3> DEFINE r == Decision(e, v)
    <3>1. r \in Calls /\ decisions' = decisions \cup {r}
      BY <2>2, CallTypes DEF Ledger!Decide
    <3>2. DecisionInv(r)
      BY <2>2 DEF DecisionInv
    <3>3. r' = r
      BY <2>2, CallsAreKept
    <3> HIDE DEF r
    <3>4. DecisionInv(r)'
      BY <3>2, <3>3, DecisionStays DEF DecisionInv
    <3> QED
      BY <1>1, <1>2, <3>1, <3>3, <3>4 DEF Grows, RegistryTypeOK
  <2> QED
    BY <2>1, <2>2
<1>4. \A u \in Variants : Untouched(u)
  BY DEF Untouched
<1>5. \A u \in Variants : StrategyInv(u)'
  BY <1>3, <1>4, UntouchedStays DEF RegistryInv
<1> QED
  BY <1>3, <1>5

LEMMA WrittenIsInLedger ==
    ASSUME RegistryTypeOK, NEW r,
           Ledger!Register(r) \/ Ledger!Transition(r) \/ Ledger!Decide(r)
    PROVE  Ledger!InLedger(r)'
<1>1. CASE r.op = "decide"
  BY <1>1 DEF Ledger!Register, Ledger!Transition, Ledger!Decide, Ledger!InLedger
<1>2. CASE r.op # "decide"
  <2>1. PICK from : events' = Append(events, [request |-> r, from |-> from])
    BY <1>2 DEF Ledger!Register, Ledger!Transition, Ledger!Decide, Ledger!Write
  <2> DEFINE y == [request |-> r, from |-> from]
  <2>2. y.request = r /\ events' = Append(events, y)
    BY <2>1
  <2> HIDE DEF y
  <2>3. Len(events) + 1 \in DOMAIN events' /\ events'[Len(events) + 1] = y
    BY <2>2 DEF RegistryTypeOK
  <2> QED
    BY <1>2, <2>2, <2>3 DEF Ledger!InLedger
<1> QED
  BY <1>1, <1>2

\* The calls that a process has made for the strategy it is at.
LEMMA EarlierCalls ==
    ASSUME ResearchInv, RegistryInv, NEW w \in Workers, task[w].step = "register",
           task[w].calls # CallCount
    PROVE  LET e == task[w].experiment
               i == task[w].calls
               v == VariantOrder[(i \div 4) + 1]
           IN  /\ i \in Nat /\ i < CallCount
               /\ v \in Variants /\ i % 4 \in 0..3
               /\ i % 4 >= 1 => Ledger!InLedger(Registration(e, v))
               /\ i % 4 >= 2 => Ledger!InLedger(Candidacy(e, v))
               /\ i % 4 >= 3 => Ledger!InLedger(Decision(e, v))
<1> DEFINE e == task[w].experiment
           i == task[w].calls
           v == VariantOrder[(i \div 4) + 1]
           k == i % 4
<1>1. /\ i \in Nat /\ i <= CallCount /\ i # CallCount
      /\ \A j \in 0..(i - 1) : Ledger!InLedger(CallOf(e, j))
  <2>1. CallsInv(w) /\ task[w] \in Tasks
    BY DEF RegistryInv, ResearchInv, TypeOK
  <2>2. task[w].calls \in Nat
    BY <2>1 DEF Tasks
  <2> QED
    BY <2>1, <2>2 DEF CallsInv
<1>2. CallCount \in Nat
  <2>1. VariantOrder \in Seq(Variants)
    BY ResearchAssumption
  <2>2. Len(VariantOrder) \in Nat
    BY <2>1
  <2> QED
    BY <2>2 DEF CallCount
<1>3. i < CallCount
  <2> HIDE DEF i
  <2> QED
    BY <1>1, <1>2
<1> HIDE DEF i, e
<1>4. v \in Variants /\ k \in 0..3
  BY <1>1, <1>3, CallOrder
<1>5. ASSUME NEW j \in 1..3, j <= k
      PROVE  /\ k - j = 0 => Ledger!InLedger(Registration(e, v))
             /\ k - j = 1 => Ledger!InLedger(Candidacy(e, v))
             /\ k - j = 2 => Ledger!InLedger(Decision(e, v))
  <2>1. i - j \in 0..(i - 1) /\ (i - j) \div 4 = i \div 4 /\ (i - j) % 4 = k - j
    BY <1>1, <1>5, CallBefore
  <2>2. Ledger!InLedger(CallOf(e, i - j))
    BY <1>1, <2>1
  <2>3. CallOf(e, i - j) = CASE k - j = 0 -> Registration(e, v) [] k - j = 1 -> Candidacy(e, v)
                             [] k - j = 2 -> Decision(e, v) [] OTHER -> Placement(e, v)
    BY <2>1 DEF CallOf
  <2> HIDE DEF k, v
  <2>4. CASE k - j = 0
    BY <2>2, <2>3, <2>4
  <2>5. CASE k - j = 1
    BY <2>2, <2>3, <2>5
  <2>6. CASE k - j = 2
    BY <2>2, <2>3, <2>6
  <2> QED
    BY <2>4, <2>5, <2>6
<1> HIDE DEF k, v
<1>6. k >= 1 => Ledger!InLedger(Registration(e, v))
  <2> SUFFICES ASSUME k >= 1 PROVE Ledger!InLedger(Registration(e, v))
    OBVIOUS
  <2>1. k \in 1..3 /\ k <= k /\ k - k = 0
    BY <1>4
  <2> QED
    BY <1>5, <2>1
<1>7. k >= 2 => Ledger!InLedger(Candidacy(e, v))
  <2> SUFFICES ASSUME k >= 2 PROVE Ledger!InLedger(Candidacy(e, v))
    OBVIOUS
  <2> DEFINE j == k - 1
  <2>1. j \in 1..3 /\ j <= k /\ k - j = 1
    BY <1>4
  <2> HIDE DEF j
  <2> QED
    BY <1>5, <2>1
<1>8. k >= 3 => Ledger!InLedger(Decision(e, v))
  <2> SUFFICES ASSUME k >= 3 PROVE Ledger!InLedger(Decision(e, v))
    OBVIOUS
  <2>1. 1 \in 1..3 /\ 1 <= k /\ k - 1 = 2
    BY <1>4
  <2> QED
    BY <1>5, <2>1
<1> QED
  BY <1>1, <1>3, <1>4, <1>6, <1>7, <1>8 DEF k, v, i, e

\* What a call of a process does to the registry.
LEMMA CallKeeps ==
    ASSUME ResearchInv, RegistryInv, KeepsStages, NEW w \in Workers,
           task[w].step = "register", task[w].calls # CallCount,
           Transact(RegistryCall(w, task[w].calls))
    PROVE  /\ RegistryTypeOK' /\ Grows
           /\ \A u \in Variants : StrategyInv(u)'
           /\ \A d \in decisions' : DecisionInv(d)'
           /\ \A r : r = RegistryCall(w, task[w].calls) => Ledger!InLedger(r)'
<1> DEFINE e == task[w].experiment
           i == task[w].calls
           v == VariantOrder[(i \div 4) + 1]
           k == i % 4
           r == CallOf(e, i)
<1>1. /\ i \in Nat /\ v \in Variants /\ k \in 0..3
      /\ k >= 1 => Ledger!InLedger(Registration(e, v))
      /\ k >= 2 => Ledger!InLedger(Candidacy(e, v))
      /\ k >= 3 => Ledger!InLedger(Decision(e, v))
  BY EarlierCalls
<1>2. e \in Experiments /\ Len(chain[e]) >= 7 /\ RegistryCall(w, i) = r
  BY <1>1, RegistryCallIs
<1>3. RegistryTypeOK /\ \A d \in decisions : DecisionInv(d)'
  BY DecisionStays DEF RegistryInv
<1>4. r = CASE k = 0 -> Registration(e, v) [] k = 1 -> Candidacy(e, v)
            [] k = 2 -> Decision(e, v) [] OTHER -> Placement(e, v)
  BY DEF CallOf
<1>6. Transact(r)
  BY <1>2
<1> HIDE DEF r, v, k, i, e
<1>7. /\ RegistryTypeOK' /\ Grows
      /\ \A u \in Variants : StrategyInv(u)'
      /\ \A d \in decisions' : DecisionInv(d)'
  <2>1. CASE Ledger!InLedger(r)
    <3>1. UNCHANGED <<events, rows>> /\ UNCHANGED decisions
      BY <1>6, <2>1 DEF Transact, registry
    <3> QED
      BY <3>1, DecisionKeeps
  <2>2. CASE ~Ledger!InLedger(r)
    <3>1. Ledger!Register(r) \/ Ledger!Transition(r) \/ Ledger!Decide(r)
      BY <1>6, <2>2 DEF Transact
    <3>2. CASE k = 0
      <4>1. r = Registration(e, v) /\ r.op = "register"
        BY <1>4, <3>2, CallFacts
      <4>2. Ledger!Register(Registration(e, v))
        BY <3>1, <4>1 DEF Ledger!Register, Ledger!Transition, Ledger!Decide
      <4> QED
        BY <1>1, <1>2, <1>3, <4>2, RegistrationKeeps
    <3>3. CASE k = 1
      <4>1. r = Candidacy(e, v) /\ r.op = "transition"
        BY <1>4, <3>3, CallFacts
      <4>2. Ledger!Transition(Candidacy(e, v))
        BY <3>1, <4>1 DEF Ledger!Register, Ledger!Transition, Ledger!Decide
      <4>3. Ledger!InLedger(Registration(e, v))
        BY <1>1, <3>3
      <4> QED
        BY <1>1, <1>2, <1>3, <4>2, <4>3, CandidacyKeeps
    <3>4. CASE k = 2
      <4>1. r = Decision(e, v) /\ r.op = "decide"
        BY <1>4, <3>4, CallFacts
      <4>2. Ledger!Decide(Decision(e, v))
        BY <3>1, <4>1 DEF Ledger!Register, Ledger!Transition, Ledger!Decide
      <4>3. UNCHANGED <<events, rows>>
        BY <4>2 DEF Ledger!Decide
      <4> QED
        BY <1>1, <1>2, <4>2, <4>3, DecisionKeeps
    <3>5. CASE k = 3
      <4>1. r = Placement(e, v) /\ r.op = "transition"
        BY <1>4, <3>5, CallFacts
      <4>2. Ledger!Transition(Placement(e, v))
        BY <3>1, <4>1 DEF Ledger!Register, Ledger!Transition, Ledger!Decide
      <4>3. Ledger!InLedger(Registration(e, v))
        BY <1>1, <3>5
      <4> QED
        BY <1>1, <1>2, <1>3, <4>2, <4>3, PlacementKeeps
    <3> QED
      BY <1>1, <3>2, <3>3, <3>4, <3>5
  <2> QED
    BY <2>1, <2>2
<1>8. ASSUME NEW x, x = r PROVE Ledger!InLedger(x)'
  BY <1>3, <1>6, <1>7, <1>8, InLedgerStays, WrittenIsInLedger DEF Transact
<1> QED
  BY <1>2, <1>7, <1>8 DEF r, e, i

\* A process that makes no call of the registry.
Quiet(w) ==
    /\ \A u \in Workers \ {w} : task'[u] = task[u]
    /\ task'[w].step # "idle" => task'[w].outcome = "none"
    /\ task'[w].calls = 0

LEMMA TaskReplaced ==
    ASSUME ResearchInv, NEW w \in Workers, NEW t, task' = [task EXCEPT ![w] = t],
           t.step # "idle" => t.outcome = "none", t.calls = 0
    PROVE  Quiet(w)
BY DEF ResearchInv, TypeOK, Quiet

LEMMA EndIsQuiet ==
    ASSUME ResearchInv, NEW w \in Workers, NEW outcome, End(w, outcome)
    PROVE  Quiet(w)
<1> DEFINE t == [NoTask EXCEPT !.outcome = outcome]
<1>1. t.step = "idle" /\ t.calls = 0 /\ task' = [task EXCEPT ![w] = t]
  BY DEF NoTask, End
<1> HIDE DEF t
<1> QED
  BY <1>1, TaskReplaced

LEMMA OthersAreQuiet ==
    ASSUME ResearchInv, RegistryInv, NEW w \in Workers,
           \/ BeginRun(w) \/ BeginResume(w) \/ ReadSessions(w) \/ Load(w) \/ LoadRest(w)
           \/ Produce(w) \/ Link(w) \/ Crash(w)
    PROVE  Quiet(w) /\ UNCHANGED registry
<1>1. task \in [Workers -> Tasks] /\ task[w] \in Tasks
  BY DEF ResearchInv, TypeOK
<1>2. /\ task[w].step # "idle" => task[w].outcome = "none"
      /\ task[w].step # "register" => task[w].calls = 0
  BY DEF RegistryInv, CallsInv
<1>3. ASSUME NEW t, task' = [task EXCEPT ![w] = t], t.outcome = task[w].outcome,
             t.calls = task[w].calls, task[w].step \notin {"idle", "register"}
      PROVE  Quiet(w)
  BY <1>2, <1>3, TaskReplaced
<1>4. CASE BeginRun(w)
  <2> DEFINE t == [NoTask EXCEPT !.step = "sessions", !.command = "run", !.dataset = catalog]
  <2>1. task' = [task EXCEPT ![w] = t] /\ t.outcome = "none" /\ t.calls = 0
    BY <1>4 DEF BeginRun, NoTask
  <2> HIDE DEF t
  <2> QED
    BY <1>4, <2>1, TaskReplaced DEF BeginRun
<1>5. CASE BeginResume(w)
  <2>1. PICK e \in Experiments :
           task' = [task EXCEPT ![w] = [NoTask EXCEPT !.step = "load", !.command = "resume",
                                                      !.dataset = e.dataset,
                                                      !.revision = revision,
                                                      !.experiment = e]]
    BY <1>5 DEF BeginResume
  <2> DEFINE t == [NoTask EXCEPT !.step = "load", !.command = "resume", !.dataset = e.dataset,
                                 !.revision = revision, !.experiment = e]
  <2>2. task' = [task EXCEPT ![w] = t] /\ t.outcome = "none" /\ t.calls = 0
    BY <2>1 DEF NoTask
  <2> HIDE DEF t
  <2> QED
    BY <1>5, <2>2, TaskReplaced DEF BeginResume
<1>6. CASE ReadSessions(w)
  <2> DEFINE e == [dataset |-> task[w].dataset, sessions |-> catalog, revision |-> revision]
             t == [task[w] EXCEPT !.step = "load", !.revision = revision, !.experiment = e]
  <2>1. task' = [task EXCEPT ![w] = t]
    BY <1>1, <1>6 DEF ReadSessions
  <2> HIDE DEF e
  <2>2. t.outcome = task[w].outcome /\ t.calls = task[w].calls
    BY <1>1 DEF Tasks
  <2> HIDE DEF t
  <2>3. task[w].step = "sessions" /\ UNCHANGED registry
    BY <1>6 DEF ReadSessions
  <2> QED
    BY <1>3, <2>1, <2>2, <2>3
<1>7. CASE Load(w)
  <2> DEFINE s == chain[task[w].experiment]
             t == [task[w] EXCEPT !.step = "loadRest", !.loaded = s]
  <2>1. task' = [task EXCEPT ![w] = t]
    BY <1>1, <1>7 DEF Load
  <2> HIDE DEF s
  <2>2. t.outcome = task[w].outcome /\ t.calls = task[w].calls
    BY <1>1 DEF Tasks
  <2> HIDE DEF t
  <2>3. task[w].step = "load" /\ UNCHANGED registry
    BY <1>7 DEF Load
  <2> QED
    BY <1>3, <2>1, <2>2, <2>3
<1>8. ASSUME NEW step, Goto(w, step), task[w].step \notin {"idle", "register"}
      PROVE  Quiet(w)
  <2> DEFINE t == [task[w] EXCEPT !.step = step]
  <2>1. task' = [task EXCEPT ![w] = t]
    BY <1>1, <1>8 DEF Goto
  <2>2. t.outcome = task[w].outcome /\ t.calls = task[w].calls
    BY <1>1 DEF Tasks
  <2> HIDE DEF t
  <2> QED
    BY <1>3, <1>8, <2>1, <2>2
<1>9. CASE LoadRest(w)
  BY <1>8, <1>9, EndIsQuiet DEF LoadRest
<1>10. CASE Produce(w)
  <2>1. task[w].step = "stage" /\ UNCHANGED registry
    BY <1>10 DEF Produce
  <2>2. CASE task' = [task EXCEPT ![w].step = "link", ![w].payload = Produced(w)]
    <3> DEFINE p == Produced(w)
               t == [task[w] EXCEPT !.step = "link", !.payload = p]
    <3>1. task' = [task EXCEPT ![w] = t]
      BY <1>1, <2>2
    <3> HIDE DEF p
    <3>2. t.outcome = task[w].outcome /\ t.calls = task[w].calls
      BY <1>1 DEF Tasks
    <3> HIDE DEF t
    <3> QED
      BY <1>3, <2>1, <3>1, <3>2
  <2>3. CASE \E outcome \in {"mismatch", "done"} : End(w, outcome)
    BY <2>1, <2>3, EndIsQuiet
  <2>4. CASE Goto(w, "register")
    BY <1>8, <2>1, <2>4
  <2>5. \/ \E outcome \in {"mismatch", "done"} : End(w, outcome)
        \/ Goto(w, "register")
        \/ task' = [task EXCEPT ![w].step = "link", ![w].payload = Produced(w)]
    BY <1>10 DEF Produce
  <2> QED
    BY <2>2, <2>3, <2>4, <2>5
<1>11. CASE Link(w)
  <2>1. task[w].step = "link" /\ UNCHANGED registry /\ (Keep(w) \/ End(w, "failed"))
    BY <1>11 DEF Link
  <2>2. CASE Keep(w)
    <3> DEFINE l == Append(task[w].loaded, task[w].payload)
               t == [task[w] EXCEPT !.step = "stage", !.payload = Nothing, !.loaded = l]
    <3>1. task' = [task EXCEPT ![w] = t]
      BY <1>1, <2>2 DEF Keep
    <3> HIDE DEF l
    <3>2. t.outcome = task[w].outcome /\ t.calls = task[w].calls
      BY <1>1 DEF Tasks
    <3> HIDE DEF t
    <3> QED
      BY <1>3, <2>1, <3>1, <3>2
  <2> QED
    BY <2>1, <2>2, EndIsQuiet
<1>12. CASE Crash(w)
  <2>1. NoTask.step = "idle" /\ NoTask.calls = 0
    BY DEF NoTask
  <2> QED
    BY <1>12, <2>1, TaskReplaced DEF Crash
<1> QED
  BY <1>4, <1>5, <1>6, <1>7, <1>9, <1>10, <1>11, <1>12

\* The calls of a process that does not move stay in the ledger.
LEMMA CallsStay ==
    ASSUME ResearchInv, KeepsStages, Grows, NEW w \in Workers, CallsInv(w),
           task'[w] = task[w]
    PROVE  CallsInv(w)'
<1>1. CASE task[w].step # "register"
  BY <1>1 DEF CallsInv
<1>2. CASE task[w].step = "register"
  <2> DEFINE e == task[w].experiment
             n == task[w].calls
  <2>1. e \in Experiments /\ Len(chain[e]) >= 7
    BY <1>2, RegistryCallIs
  <2>2. n <= CallCount /\ \A i \in 0..(n - 1) : Ledger!InLedger(CallOf(e, i))
    BY <1>2 DEF CallsInv
  <2>3. task'[w].experiment = e /\ task'[w].calls = n
    OBVIOUS
  <2>4. ASSUME NEW f, f = e, NEW i \in 0..(n - 1) PROVE Ledger!InLedger(CallOf(f, i))'
    <3> DEFINE r == CallOf(f, i)
    <3>1. Ledger!InLedger(r) /\ r' = r
      BY <2>1, <2>2, <2>4, CallOfIsKept
    <3> HIDE DEF r
    <3>2. Ledger!InLedger(r)'
      BY <3>1 DEF Grows, Ledger!InLedger
    <3> QED
      BY <3>2 DEF r
  <2>5. PICK f : f = e
    OBVIOUS
  <2>6. \A i \in 0..(n - 1) : Ledger!InLedger(CallOf(f, i))'
    BY <2>4, <2>5
  <2>7. PICK m : m = n
    OBVIOUS
  <2>8. /\ task'[w].experiment = f /\ task'[w].calls = m /\ m <= CallCount
        /\ \A i \in 0..(m - 1) : Ledger!InLedger(CallOf(f, i))'
    BY <2>2, <2>3, <2>5, <2>6, <2>7
  <2> HIDE DEF e, n
  <2>9. task'[w].step = "register" /\ task'[w].outcome = "none"
    BY <1>2 DEF CallsInv
  <2>10. (\A i \in 0..(task[w].calls - 1) : Ledger!InLedger(CallOf(task[w].experiment, i)))'
    BY <2>8
  <2>11. CallCount' = CallCount
    BY DEF CallCount
  <2> QED
    BY <2>8, <2>9, <2>10, <2>11 DEF CallsInv
<1> QED
  BY <1>1, <1>2

LEMMA QuietKeeps ==
    ASSUME ResearchInv, RegistryInv, KeepsStages, NEW w \in Workers, Quiet(w),
           UNCHANGED registry
    PROVE  RegistryInv'
<1>1. UNCHANGED <<events, rows>> /\ UNCHANGED decisions
  BY DEF registry
<1>2. /\ RegistryTypeOK' /\ Grows
      /\ \A u \in Variants : StrategyInv(u)'
      /\ \A d \in decisions' : DecisionInv(d)'
  BY <1>1, DecisionKeeps
<1>3. \A u \in Workers \ {w} : CallsInv(u)'
  BY <1>2, CallsStay DEF RegistryInv, Quiet
<1>4. CallsInv(w)'
  <2>1. 0 <= CallCount
    <3>1. VariantOrder \in Seq(Variants)
      BY ResearchAssumption
    <3> QED
      BY <3>1 DEF CallCount
  <2> QED
    BY <2>1 DEF CallsInv, Quiet, CallCount
<1> QED
  BY <1>2, <1>3, <1>4 DEF RegistryInv

\* One more call of a process is in the ledger.
LEMMA CallIsMade ==
    ASSUME ResearchInv, RegistryInv, KeepsStages, NEW w \in Workers,
           task[w].step = "register", task[w].calls # CallCount,
           Transact(RegistryCall(w, task[w].calls)),
           task' = [task EXCEPT ![w].calls = @ + 1]
    PROVE  RegistryInv'
<1> DEFINE e == task[w].experiment
           n == task[w].calls
           t == [task[w] EXCEPT !.calls = n + 1]
<1>1. /\ RegistryTypeOK' /\ Grows
      /\ \A u \in Variants : StrategyInv(u)'
      /\ \A d \in decisions' : DecisionInv(d)'
      /\ \A r : r = RegistryCall(w, n) => Ledger!InLedger(r)'
  BY CallKeeps
<1>2. /\ n \in Nat /\ n < CallCount
  BY EarlierCalls
<1>3. e \in Experiments /\ Len(chain[e]) >= 7 /\ RegistryCall(w, n) = CallOf(e, n)
  BY <1>2, RegistryCallIs
<1>4. task \in [Workers -> Tasks] /\ task[w] \in Tasks
  BY DEF ResearchInv, TypeOK
<1>5. /\ task[w].outcome = "none"
      /\ \A i \in 0..(n - 1) : Ledger!InLedger(CallOf(e, i))
  BY DEF RegistryInv, CallsInv
<1>6. /\ t.calls = n + 1 /\ t.step = "register" /\ t.outcome = "none" /\ t.experiment = e
  BY <1>4, <1>5 DEF Tasks
<1>7. task' = [task EXCEPT ![w] = t]
  BY <1>4
<1> HIDE DEF t
<1>8. task'[w] = t /\ \A u \in Workers \ {w} : task'[u] = task[u]
  BY <1>4, <1>7
<1>9. \A u \in Workers \ {w} : CallsInv(u)'
  BY <1>1, <1>8, CallsStay DEF RegistryInv
<1>10. PICK f : f = e
  OBVIOUS
<1>11. PICK m : m = n
  OBVIOUS
<1>12. ASSUME NEW i \in 0..m PROVE Ledger!InLedger(CallOf(f, i))'
  <2> DEFINE r == CallOf(f, i)
  <2>1. r' = r
    BY <1>3, <1>10, CallOfIsKept
  <2>2. CASE i = m
    <3>1. r = RegistryCall(w, n)
      BY <1>3, <1>10, <1>11, <2>2
    <3> HIDE DEF r
    <3>2. \A x : x = r => Ledger!InLedger(x)'
      BY <1>1, <3>1
    <3>3. Ledger!InLedger(r)'
      BY <2>1, <3>2 DEF Ledger!InLedger
    <3> QED
      BY <3>3 DEF r
  <2>3. CASE i # m
    <3>1. i \in 0..(m - 1)
      BY <1>2, <1>11, <2>3
    <3>2. Ledger!InLedger(r)
      BY <1>5, <1>10, <1>11, <3>1
    <3> HIDE DEF r
    <3>3. Ledger!InLedger(r)'
      BY <1>1, <2>1, <3>2 DEF Grows, Ledger!InLedger
    <3> QED
      BY <3>3 DEF r
  <2> QED
    BY <2>2, <2>3
<1>13. CallsInv(w)'
  <2>1. /\ task'[w].calls = m + 1 /\ task'[w].step = "register"
        /\ task'[w].outcome = "none" /\ task'[w].experiment = f
    BY <1>6, <1>8, <1>10, <1>11
  <2>2. m \in Nat /\ m < CallCount /\ (m + 1) - 1 = m
    BY <1>2, <1>11
  <2>3. CallCount \in Nat
    <3>1. VariantOrder \in Seq(Variants)
      BY ResearchAssumption
    <3>2. Len(VariantOrder) \in Nat
      BY <3>1
    <3> QED
      BY <3>2 DEF CallCount
  <2>4. (\A i \in 0..(task[w].calls - 1) : Ledger!InLedger(CallOf(task[w].experiment, i)))'
    BY <1>12, <2>1, <2>2
  <2>5. task'[w].calls <= CallCount' 
    <3>1. CallCount' = CallCount
      BY DEF CallCount
    <3> HIDE DEF CallCount
    <3> QED
      BY <2>1, <2>2, <2>3, <3>1
  <2> QED
    BY <2>1, <2>4, <2>5 DEF CallsInv
<1> QED
  BY <1>1, <1>9, <1>13 DEF RegistryInv

LEMMA RegisterNextKeeps ==
    ASSUME ResearchInv, RegistryInv, KeepsStages, NEW w \in Workers, RegisterNext(w)
    PROVE  RegistryInv'
<1>1. CASE task[w].calls = CallCount
  <2> DEFINE p == Payload(7, InShadow(w), Nothing)
             t == [task[w] EXCEPT !.step = "link", !.calls = 0, !.payload = p]
  <2>1. /\ task[w].step = "register" /\ UNCHANGED registry
        /\ task' = [task EXCEPT ![w].step = "link", ![w].calls = 0, ![w].payload = p]
    BY <1>1 DEF RegisterNext
  <2>2. task \in [Workers -> Tasks] /\ task[w] \in Tasks /\ task[w].outcome = "none"
    BY <2>1 DEF ResearchInv, TypeOK, RegistryInv, CallsInv
  <2> HIDE DEF p
  <2>3. task' = [task EXCEPT ![w] = t]
    BY <2>1, <2>2
  <2>4. t.outcome = "none" /\ t.calls = 0
    BY <2>2 DEF Tasks
  <2> HIDE DEF t
  <2>5. Quiet(w)
    BY <2>3, <2>4, TaskReplaced
  <2> QED
    BY <2>1, <2>5, QuietKeeps
<1>2. CASE task[w].calls # CallCount
  <2>1. CASE Refused(RegistryCall(w, task[w].calls))
    <3>1. End(w, "refused") /\ UNCHANGED registry
      BY <1>2, <2>1 DEF RegisterNext
    <3> QED
      BY <3>1, EndIsQuiet, QuietKeeps
  <2>2. CASE ~Refused(RegistryCall(w, task[w].calls))
    <3>1. /\ Transact(RegistryCall(w, task[w].calls))
          /\ task' = [task EXCEPT ![w].calls = @ + 1]
          /\ task[w].step = "register"
      BY <1>2, <2>2 DEF RegisterNext
    <3> QED
      BY <1>2, <3>1, CallIsMade
  <2> QED
    BY <2>1, <2>2
<1> QED
  BY <1>1, <1>2

LEMMA RegistryInit == Init => RegistryInv
<1> SUFFICES ASSUME Init PROVE RegistryInv
  OBVIOUS
<1>1. /\ events = << >> /\ decisions = {}
      /\ rows = [s \in Variants |-> [state |-> Ledger!Absent, last |-> 0]]
      /\ task = [w \in Workers |-> NoTask]
  BY DEF Init, Ledger!LedgerInit
<1>2. RegistryTypeOK
  BY <1>1 DEF RegistryTypeOK, Ledger!States
<1>3. \A v \in Variants : StrategyInv(v)
  BY <1>1 DEF StrategyInv, Only
<1>4. \A w \in Workers : CallsInv(w)
  BY <1>1 DEF CallsInv, NoTask
<1> QED
  BY <1>1, <1>2, <1>3, <1>4 DEF RegistryInv

LEMMA RegistryStep == ResearchInv /\ RegistryInv /\ [Next]_vars => RegistryInv'
<1> SUFFICES ASSUME ResearchInv, RegistryInv, [Next]_vars PROVE RegistryInv'
  OBVIOUS
<1>1. KeepsStages
  BY StagesAreKept
<1>2. ASSUME NEW v \in Variants, Promote(v) PROVE RegistryInv'
  <2>1. Ledger!Transition(Promotion(v)) /\ task' = task
    BY <1>2 DEF Promote
  <2>2. /\ RegistryTypeOK' /\ Grows /\ decisions' = decisions
        /\ \A u \in Variants : StrategyInv(u)'
    BY <1>1, <2>1, PromotionKeeps
  <2>3. \A d \in decisions' : DecisionInv(d)'
    BY <1>1, <2>2, DecisionStays DEF RegistryInv
  <2>4. \A w \in Workers : CallsInv(w)'
    BY <1>1, <2>1, <2>2, CallsStay DEF RegistryInv
  <2> QED
    BY <2>2, <2>3, <2>4 DEF RegistryInv
<1>3. CASE Rebind \/ NewRevision \/ UNCHANGED vars
  <2>1. UNCHANGED registry /\ task' = task
    BY <1>3 DEF Rebind, NewRevision, vars
  <2>2. UNCHANGED <<events, rows>> /\ UNCHANGED decisions
    BY <2>1 DEF registry
  <2>3. /\ RegistryTypeOK' /\ Grows
        /\ \A u \in Variants : StrategyInv(u)'
        /\ \A d \in decisions' : DecisionInv(d)'
    BY <1>1, <2>2, DecisionKeeps
  <2>4. \A w \in Workers : CallsInv(w)'
    BY <1>1, <2>1, <2>3, CallsStay DEF RegistryInv
  <2> QED
    BY <2>3, <2>4 DEF RegistryInv
<1>4. ASSUME NEW w \in Workers, RegisterNext(w) PROVE RegistryInv'
  BY <1>1, <1>4, RegisterNextKeeps
<1>5. ASSUME NEW w \in Workers,
             \/ BeginRun(w) \/ BeginResume(w) \/ ReadSessions(w) \/ Load(w) \/ LoadRest(w)
             \/ Produce(w) \/ Link(w) \/ Crash(w)
      PROVE  RegistryInv'
  BY <1>1, <1>5, OthersAreQuiet, QuietKeeps
<1> QED
  BY <1>2, <1>3, <1>4, <1>5 DEF Next, Step

LEMMA EventsAreCalls ==
    ASSUME RegistryInv, NEW i \in DOMAIN events
    PROVE  events[i].request \in Calls
<1> DEFINE Entries == [request : Calls, from : Ledger!States]
<1>1. events \in Seq(Entries)
  BY DEF RegistryInv, RegistryTypeOK
<1>2. events[i] \in Entries
  <2> HIDE DEF Entries
  <2> QED
    BY <1>1
<1> QED
  BY <1>2

\* The registry holds of every strategy the calls of one experiment at most, as
\* its stage files have them, in the order that registry_payload makes them in.
THEOREM RegistryInvariant == Spec => []RegistryInv
<1> QED
  BY RegistryInit, RegistryStep, ResearchInvariant, PTL DEF Spec

\* Whichever processes made the calls, the candidate refers to the validation
\* evidence on disk, and verdict and decision are those of GATES_COMPLETE.
THEOREM RegistryCorrect == Spec => []RegistryFollowsChain
<1>1. RegistryInv => RegistryFollowsChain
  <2> SUFFICES ASSUME RegistryInv PROVE RegistryFollowsChain
    OBVIOUS
  <2>1. ASSUME NEW i \in DOMAIN events, Len(events[i].request.key) = 3
        PROVE  LET r == events[i].request
                   stages == chain[r.key[1]]
               IN  /\ Len(stages) >= 7
                   /\ r.to = "candidate" => r.tag = stages[4].source
                   /\ r.to = "paper_shadow" => r.strategy \in stages[7].ids
                   /\ r.to = "rejected" => r.strategy \notin stages[7].ids
    <3> DEFINE r == events[i].request
               v == r.strategy
    <3>1. v \in Variants
      BY EventsAreCalls DEF Calls
    <3>2. PICK e \in Experiments : Owns(e, v)
      BY <3>1 DEF RegistryInv, StrategyInv, Only
    <3>3. r \in {Registration(e, v), Candidacy(e, v), Placement(e, v), Promotion(v)}
      BY <3>2 DEF Owns, Only
    <3>4. Len(chain[e]) >= 7
      BY <3>2 DEF Owns
    <3>5. Len(r.key) = 3
      BY <2>1
    <3> HIDE DEF v, r
    <3>6. r # Promotion(v)
      <4>1. Promotion(v).key = <<"forward", v>> /\ Len(<<"forward", v>>) = 2
        BY CallFacts
      <4> QED
        BY <3>5, <4>1
    <3>7. /\ r.key[1] = e /\ r.strategy = v
          /\ r.to = "candidate" => r.tag = chain[e][4].source
          /\ r.to = "paper_shadow" => v \in chain[e][7].ids
          /\ r.to = "rejected" => v \notin chain[e][7].ids
      BY <3>3, <3>6, CallFacts, VerdictFacts
    <3> QED
      BY <3>4, <3>7 DEF r, v
  <2>2. ASSUME NEW d \in decisions
        PROVE  d.passing = (d.strategy \in chain[d.key[2]][7].ids)
    <3>1. PICK e \in Experiments, v \in Variants : d = Decision(e, v)
      BY DEF RegistryInv, DecisionInv
    <3>2. d.key[2] = e
      BY <3>1, CallFacts DEF DecisionKey
    <3> QED
      BY <3>1, <3>2, CallFacts
  <2> QED
    BY <2>1, <2>2 DEF RegistryFollowsChain
<1> QED
  BY <1>1, RegistryInvariant, PTL

\* An event under a key of an experiment is one of its calls.
LEMMA KeyIsCall ==
    ASSUME RegistryInv, NEW e \in Experiments, NEW v \in Variants, NEW x,
           NEW i \in DOMAIN events, events[i].request.key = <<e, v, x>>
    PROVE  /\ rows[v].state # Ledger!Absent
           /\ events[i].request \in {Registration(e, v), Candidacy(e, v), Placement(e, v)}
<1> DEFINE r == events[i].request
           u == r.strategy
<1>1. u \in Variants
  BY EventsAreCalls DEF Calls
<1>2. rows[u].state # Ledger!Absent /\ \E f \in Experiments : Owns(f, u)
  BY <1>1 DEF RegistryInv, StrategyInv, Only
<1>3. PICK f \in Experiments : Owns(f, u)
  BY <1>2
<1>4. r \in {Registration(f, u), Candidacy(f, u), Placement(f, u), Promotion(u)}
  BY <1>3 DEF Owns, Only
<1>5. r.key = <<e, v, x>>
  OBVIOUS
<1> HIDE DEF r, u
<1>6. r # Promotion(u)
  <2>1. Promotion(u).key = <<"forward", u>> /\ Len(<<"forward", u>>) = 2
    BY CallFacts
  <2>2. Len(<<e, v, x>>) = 3
    OBVIOUS
  <2> QED
    BY <1>5, <2>1, <2>2
<1>7. f = e /\ u = v
  BY <1>4, <1>5, <1>6, CallFacts
<1> QED
  BY <1>2, <1>4, <1>6, <1>7 DEF r

\* A strategy that an experiment has registered lets its next call through.
LEMMA NotRefused ==
    ASSUME ResearchInv, RegistryInv, NEW w \in Workers, task[w].step = "register",
           task[w].calls # CallCount, task[w].calls % 4 # 0
    PROVE  ~Refused(RegistryCall(w, task[w].calls))
<1> DEFINE e == task[w].experiment
           i == task[w].calls
           v == VariantOrder[(i \div 4) + 1]
           k == i % 4
           r == CallOf(e, i)
           st == rows[v].state
<1>1. /\ i \in Nat /\ v \in Variants /\ k \in 0..3 /\ k # 0
      /\ Ledger!InLedger(Registration(e, v))
      /\ k >= 2 => Ledger!InLedger(Candidacy(e, v))
      /\ k >= 3 => Ledger!InLedger(Decision(e, v))
  BY EarlierCalls
<1>2. e \in Experiments /\ Len(chain[e]) >= 7 /\ RegistryCall(w, i) = r
  BY <1>1, RegistryCallIs
<1>3. r = CASE k = 0 -> Registration(e, v) [] k = 1 -> Candidacy(e, v)
            [] k = 2 -> Decision(e, v) [] OTHER -> Placement(e, v)
  BY DEF CallOf
<1>4. Owns(e, v) /\ st # Ledger!Absent
  BY <1>1, Owned DEF RegistryInv
<1>5. {"candidate", "paper_shadow", "rejected"} \cap DOMAIN Capacity = {}
  BY ResearchAssumption
<1>6. Verdict(e, v) \in {"paper_shadow", "rejected"}
  BY VerdictFacts
<1> HIDE DEF r, k, v, i, e
<1> SUFFICES ASSUME Refused(r) PROVE FALSE
  BY <1>2 DEF i
<1>7. ~Ledger!InLedger(r) /\ (Ledger!KeyTaken(r) \/ ~MayWrite(r))
  BY DEF Refused
<1>8. CASE k = 1
  <2>1. r = Candidacy(e, v)
    BY <1>3, <1>8
  <2>2. /\ r.op = "transition" /\ r.strategy = v /\ r.to = "candidate"
        /\ r.key = <<e, v, "candidate">>
    BY <2>1, CallFacts
  <2>3. st = "generated"
    BY <1>4, <1>7, <2>1 DEF Owns
  <2>4. MayWrite(r)
    BY <1>5, <2>2, <2>3 DEF MayWrite, Ledger!MayMove, Ledger!KnownStates,
       Ledger!AllowedTransitions, Ledger!ValidationPromotionStates
  <2>5. PICK j \in DOMAIN events : events[j].request.key = <<e, v, "candidate">>
    BY <1>7, <2>2, <2>4 DEF Ledger!KeyTaken
  <2>6. events[j].request \in {Registration(e, v), Candidacy(e, v), Placement(e, v)}
    BY <1>1, <1>2, <2>5, KeyIsCall
  <2>7. events[j].request = Candidacy(e, v)
    BY <1>6, <2>5, <2>6, CallFacts
  <2> QED
    BY <1>7, <2>1, <2>2, <2>7 DEF Ledger!InLedger
<1>9. CASE k = 2
  <2>1. r = Decision(e, v)
    BY <1>3, <1>9
  <2>2. r.op = "decide" /\ r.strategy = v /\ r.key = DecisionKey(e, v)
    BY <2>1, CallFacts
  <2>3. MayWrite(r)
    BY <1>4, <2>2 DEF MayWrite
  <2>4. PICK d \in decisions : d.key = DecisionKey(e, v)
    BY <1>7, <2>2, <2>3 DEF Ledger!KeyTaken
  <2>5. PICK f \in Experiments, u \in Variants : d = Decision(f, u)
    BY DEF RegistryInv, DecisionInv
  <2>6. DecisionKey(f, u) = DecisionKey(e, v)
    BY <2>4, <2>5, CallFacts
  <2>7. f = e /\ u = v
    BY <2>6 DEF DecisionKey
  <2> QED
    BY <1>7, <2>1, <2>2, <2>5, <2>7 DEF Ledger!InLedger
<1>10. CASE k = 3
  <2>1. r = Placement(e, v)
    BY <1>3, <1>10
  <2>2. /\ r.op = "transition" /\ r.strategy = v /\ r.to = Verdict(e, v)
        /\ r.key = <<e, v, Verdict(e, v)>> /\ r.cites = DecisionKey(e, v)
    BY <2>1, CallFacts
  <2>3. st = "candidate"
    BY <1>1, <1>4, <1>7, <1>10, <2>1 DEF Owns
  <2>4. r.to \in Ledger!ValidationPromotionStates => Ledger!PassingDecision(decisions, r)
    <3> SUFFICES ASSUME r.to = "paper_shadow" PROVE Ledger!PassingDecision(decisions, r)
      BY DEF Ledger!ValidationPromotionStates
    <3>1. v \in chain[e][7].ids
      BY <2>2, VerdictFacts
    <3>2. Decision(e, v) \in decisions
      BY <1>1, <1>10, CallFacts DEF Ledger!InLedger
    <3>3. /\ Decision(e, v).key = DecisionKey(e, v) /\ Decision(e, v).strategy = v
          /\ Decision(e, v).passing = (v \in chain[e][7].ids)
      BY CallFacts
    <3>4. Decision(e, v).passing
      BY <3>1, <3>3
    <3> QED
      BY <2>2, <3>2, <3>3, <3>4 DEF Ledger!PassingDecision
  <2>5. r.to \in {"paper_shadow", "rejected"} /\ r.to \notin DOMAIN Capacity
    BY <1>5, <1>6, <2>2
  <2>6. MayWrite(r)
    BY <2>2, <2>3, <2>4, <2>5 DEF MayWrite, Ledger!MayMove, Ledger!KnownStates,
       Ledger!AllowedTransitions
  <2>7. PICK j \in DOMAIN events : events[j].request.key = <<e, v, Verdict(e, v)>>
    BY <1>7, <2>2, <2>6 DEF Ledger!KeyTaken
  <2>8. events[j].request \in {Registration(e, v), Candidacy(e, v), Placement(e, v)}
    BY <1>1, <1>2, <2>7, KeyIsCall
  <2>9. events[j].request = Placement(e, v)
    BY <1>6, <2>7, <2>8, CallFacts
  <2> QED
    BY <1>7, <2>1, <2>2, <2>9 DEF Ledger!InLedger
<1> QED
  BY <1>1, <1>8, <1>9, <1>10

\* The first call for a strategy is refused when another experiment has it.
LEMMA RegistrationRefused ==
    ASSUME ResearchInv, RegistryInv, NEW w \in Workers, task[w].step = "register",
           task[w].calls # CallCount, task[w].calls % 4 = 0,
           Refused(RegistryCall(w, task[w].calls))
    PROVE  \E i \in DOMAIN events :
              /\ events[i].request = [RegistryCall(w, task[w].calls) EXCEPT
                                         !.key = events[i].request.key,
                                         !.tag = events[i].request.tag]
              /\ events[i].request.key[1] # task[w].experiment
<1> DEFINE e == task[w].experiment
           n == task[w].calls
           v == VariantOrder[(n \div 4) + 1]
           r == Registration(e, v)
           st == rows[v].state
<1>1. n \in Nat /\ v \in Variants
  BY EarlierCalls
<1>2. e \in Experiments /\ RegistryCall(w, n) = r
  BY <1>1, RegistryCallIs DEF CallOf
<1> HIDE DEF v, n, e
<1>3. /\ r.op = "register" /\ r.strategy = v /\ r.key = <<e, v, "generated">>
  BY CallFacts
<1>4. ~Ledger!InLedger(r) /\ (Ledger!KeyTaken(r) \/ ~MayWrite(r))
  BY <1>2 DEF Refused, n
<1>5. st # Ledger!Absent
  <2> SUFFICES ASSUME st = Ledger!Absent PROVE FALSE
    OBVIOUS
  <2>1. MayWrite(r)
    BY <1>3 DEF MayWrite
  <2>2. PICK j \in DOMAIN events : events[j].request.key = <<e, v, "generated">>
    BY <1>3, <1>4, <2>1 DEF Ledger!KeyTaken
  <2> QED
    BY <1>1, <1>2, <2>2, KeyIsCall
<1>6. PICK f \in Experiments : Owns(f, v)
  BY <1>1, <1>5 DEF RegistryInv, StrategyInv
<1>7. PICK i \in DOMAIN events : events[i].request = Registration(f, v)
  BY <1>6, CallFacts DEF Owns, Ledger!InLedger
<1>8. f # e
  BY <1>3, <1>4, <1>7 DEF Ledger!InLedger
<1>9. Registration(f, v) = [r EXCEPT !.key = Registration(f, v).key,
                                     !.tag = Registration(f, v).tag]
  <2> DEFINE q == Registration(f, v)
             x == [r EXCEPT !.key = q.key, !.tag = q.tag]
             Records == [op : {r.op}, key : {r.key, q.key}, strategy : {v}, to : {r.to},
                         cites : {r.cites}, passing : {r.passing}, tag : {r.tag, q.tag}]
  <2>1. r \in Records /\ q \in Records
    BY DEF Registration, Request
  <2> HIDE DEF q, r
  <2>2. /\ x \in Records /\ x.op = r.op /\ x.key = q.key /\ x.strategy = r.strategy
        /\ x.to = r.to /\ x.cites = r.cites /\ x.passing = r.passing /\ x.tag = q.tag
    BY <2>1
  <2> HIDE DEF x
  <2>3. q = x
    BY <2>1, <2>2
  <2> QED
    BY <2>3 DEF x, q, r
<1>10. Registration(f, v).key[1] = f
  BY CallFacts
<1> QED
  BY <1>2, <1>7, <1>8, <1>9, <1>10 DEF n, e

\* A registry call is refused only when the strategy was registered by another
\* experiment, however often processes were killed between the calls and the
\* catalog rebuilt in between (registry_payload).
THEOREM RefusalCorrect == Spec => RefusedOnlyByOthers
<1> DEFINE OthersOnly ==
              \A w \in Workers :
                  task[w].step = "register" /\ task'[w].outcome = "refused" =>
                      \E i \in DOMAIN events :
                          /\ events[i].request = [RegistryCall(w, task[w].calls) EXCEPT
                                                     !.key = events[i].request.key,
                                                     !.tag = events[i].request.tag]
                          /\ events[i].request.key[1] # task[w].experiment
<1>1. ResearchInv /\ RegistryInv /\ [Next]_vars => OthersOnly
  <2> SUFFICES ASSUME ResearchInv, RegistryInv, [Next]_vars, NEW w \in Workers,
                      task[w].step = "register", task'[w].outcome = "refused"
               PROVE  \E i \in DOMAIN events :
                          /\ events[i].request = [RegistryCall(w, task[w].calls) EXCEPT
                                                     !.key = events[i].request.key,
                                                     !.tag = events[i].request.tag]
                          /\ events[i].request.key[1] # task[w].experiment
    OBVIOUS
  <2>1. /\ task[w].outcome = "none" /\ task[w] \in Tasks /\ task \in [Workers -> Tasks]
    BY DEF RegistryInv, CallsInv, ResearchInv, TypeOK
  <2>2. task'[w] # task[w]
    BY <2>1
  <2>3. RegisterNext(w)
    <3>1. PICK u \in Workers : BeginRun(u) \/ BeginResume(u) \/ Step(u) \/ Crash(u)
      BY <2>2 DEF Next, Promote, Rebind, NewRevision, vars
    <3>2. \A x \in Workers \ {u} : task'[x] = task[x]
      <4>1. CASE RegisterNext(u)
        BY <2>1, <4>1 DEF RegisterNext, End
      <4>2. CASE ~RegisterNext(u)
        <5>1. Quiet(u)
          BY <3>1, <4>2, OthersAreQuiet DEF Step
        <5> QED
          BY <5>1 DEF Quiet
      <4> QED
        BY <4>1, <4>2
    <3>3. u = w
      BY <2>2, <3>2
    <3>4. ~Crash(w)
      <4>1. Crash(w) => task'[w] = NoTask
        BY <2>1 DEF Crash
      <4> QED
        BY <4>1 DEF NoTask
    <3> QED
      BY <3>1, <3>3, <3>4 DEF Step, BeginRun, BeginResume, ReadSessions, Load, LoadRest,
         Produce, Link
  <2>4. task[w].calls # CallCount /\ Refused(RegistryCall(w, task[w].calls))
    <3>1. CASE task[w].calls = CallCount
      <4> DEFINE p == Payload(7, InShadow(w), Nothing)
      <4>1. task' = [task EXCEPT ![w].step = "link", ![w].calls = 0, ![w].payload = p]
        BY <2>3, <3>1 DEF RegisterNext
      <4> HIDE DEF p
      <4>2. task'[w].outcome = task[w].outcome
        BY <2>1, <4>1 DEF Tasks
      <4> QED
        BY <2>1, <4>2
    <3>2. CASE task' = [task EXCEPT ![w].calls = @ + 1]
      <4>1. task'[w].outcome = task[w].outcome
        BY <2>1, <3>2 DEF Tasks
      <4> QED
        BY <2>1, <4>1
    <3> QED
      BY <2>3, <3>1, <3>2 DEF RegisterNext
  <2>5. task[w].calls % 4 = 0
    BY <2>4, NotRefused
  <2> QED
    BY <2>4, <2>5, RegistrationRefused
<1> QED
  BY <1>1, ResearchInvariant, RegistryInvariant, PTL DEF Spec, RefusedOnlyByOthers

----------------------------------------------------------------------------
(***************************************************************************)
(* Validation: the views                                                   *)
(***************************************************************************)

ViewsInv ==
    /\ log \in Seq({"train", "validation", "final_test"})
    /\ sealed = {} => granted = << >> /\ "final_test" \notin Phases
    /\ sealed # {} =>
          /\ searched \in Seq({"train", "validation", "final_test"})
          /\ \A phase \in {"train", "validation"} :
                \E i \in DOMAIN searched : searched[i] = phase
          /\ ~consumed => log = searched /\ granted = << >>
          /\ consumed => log = Append(searched, "final_test") /\ granted = <<sealed>>
    /\ consumed => sealed # {}

InputOK ==
    /\ total \in Totals
    /\ rolling \in [sessions : Lengths, train : Sizes, evaluation : Sizes, step : Sizes]

----------------------------------------------------------------------------
(***************************************************************************)
(* The views                                                               *)
(***************************************************************************)

LEMMA ViewsStep == ViewsInv /\ [ViewsNext]_viewsVars => ViewsInv'
<1> SUFFICES ASSUME ViewsInv, [ViewsNext]_viewsVars PROVE ViewsInv'
  OBVIOUS
<1> DEFINE Names == {"train", "validation", "final_test"}
<1>1. ASSUME NEW phase \in {"train", "validation"}, SearchView(phase) PROVE ViewsInv'
  <2>1. /\ ~consumed /\ sealed = {} /\ log' = Append(log, phase)
        /\ UNCHANGED <<sealed, consumed, granted>>
    BY <1>1 DEF SearchView, SearchAllowed
  <2>2. log' \in Seq(Names)
    BY <2>1 DEF ViewsInv
  <2>3. "final_test" \notin Phases'
    <3>1. log \in Seq(Names) /\ \A i \in DOMAIN log : log[i] # "final_test"
      BY <2>1 DEF ViewsInv, Phases
    <3>2. \A i \in DOMAIN log' : log'[i] # "final_test"
      BY <2>1, <3>1
    <3> QED
      BY <3>2 DEF Phases
  <2> QED
    BY <2>1, <2>2, <2>3 DEF ViewsInv
<1>2. CASE SealSelection
  <2>1. /\ ~consumed /\ sealed = {} /\ sealed' # {} /\ searched' = log
        /\ {"train", "validation"} \subseteq Phases
        /\ UNCHANGED <<log, consumed, granted>>
    BY <1>2 DEF SealSelection
  <2>2. \A phase \in {"train", "validation"} : \E i \in DOMAIN log : log[i] = phase
    BY <2>1 DEF Phases
  <2> QED
    BY <2>1, <2>2 DEF ViewsInv
<1>3. CASE FinalTestView
  <2>1. /\ sealed # {} /\ ~consumed /\ granted' = Append(granted, sealed)
        /\ consumed' = TRUE /\ log' = Append(log, "final_test")
        /\ sealed' = sealed /\ searched' = searched
    BY <1>3 DEF FinalTestView, MayConsume
  <2>2. granted = << >> /\ log = searched /\ log \in Seq(Names)
    BY <2>1 DEF ViewsInv
  <2>4. granted' = <<sealed>>
    BY <2>1, <2>2
  <2>3. log' \in Seq(Names) /\ log' = Append(searched', "final_test")
    BY <2>1, <2>2
  <2> QED
    BY <2>1, <2>2, <2>3, <2>4 DEF ViewsInv
<1>4. CASE UNCHANGED viewsVars
  BY <1>4 DEF viewsVars, ViewsInv, Phases
<1> QED
  BY <1>1, <1>2, <1>3, <1>4 DEF ViewsNext

\* The inductive invariant of the views: what was sealed was searched, the log
\* stands still from the seal to the final view, and what is consumed was sealed.
THEOREM ViewsInvariant == ViewsSpec => []ViewsInv
<1>1. ViewsInit => ViewsInv
  BY DEF ViewsInit, ViewsInv, Phases
<1> QED
  BY <1>1, ViewsStep, PTL DEF ViewsSpec

\* However the methods of the object are called, no search view is handed out
\* after the seal, and the final sessions once at most, to what was sealed.
THEOREM OneUseCorrect == ViewsSpec => []FinalTestIsOneUse
<1>1. ViewsInv => FinalTestIsOneUse
  BY DEF ViewsInv, FinalTestIsOneUse
<1> QED
  BY <1>1, ViewsInvariant, PTL

----------------------------------------------------------------------------
(***************************************************************************)
(* The split                                                               *)
(***************************************************************************)

LEMMA ByTen ==
    ASSUME NEW x \in Nat
    PROVE  /\ x \div 10 \in Nat /\ x % 10 \in 0..9
           /\ x = (10 * (x \div 10)) + (x % 10)
OBVIOUS

\* How many of two elements are in a set of nothing else.
LEMMA CountOfTwo ==
    ASSUME NEW x, NEW y, x # y, NEW S \in SUBSET {x, y}
    PROVE  Cardinality(S) = (IF x \in S THEN 1 ELSE 0) + (IF y \in S THEN 1 ELSE 0)
<1>1. Cardinality({}) = 0 /\ Cardinality({x}) = 1 /\ Cardinality({y}) = 1
  BY FS_EmptySet, FS_Singleton
<1>2. Cardinality({x, y}) = 2
  <2>1. IsFiniteSet({x}) /\ y \notin {x} /\ {x, y} = {x} \cup {y}
    BY FS_Singleton
  <2> QED
    BY <1>1, <2>1, FS_AddElement
<1>3. S = {} \/ S = {x} \/ S = {y} \/ S = {x, y}
  OBVIOUS
<1> QED
  BY <1>1, <1>2, <1>3

\* Ten sessions are shared 7, 2, 1, and what is left of them by remainders.
LEMMA Shares ==
    ASSUME NEW n \in Nat, n >= 10
    PROVE  /\ Count(n, 1) \in Nat \ {0} /\ Count(n, 2) \in Nat \ {0}
           /\ Count(n, 3) \in Nat \ {0}
           /\ Count(n, 1) + Count(n, 2) + Count(n, 3) = n
           /\ 10 * Count(n, 1) - 7 * n \in -9..9
           /\ 10 * Count(n, 2) - 2 * n \in -9..9
           /\ 10 * Count(n, 3) - n \in -9..9
<1> DEFINE f1 == Floor(n, 1)
           f2 == Floor(n, 2)
           f3 == Floor(n, 3)
           r1 == Remainder(n, 1)
           r2 == Remainder(n, 2)
           r3 == Remainder(n, 3)
           u == Unallocated(n)
<1>1. /\ f1 \in Nat /\ r1 \in 0..9 /\ 7 * n = 10 * f1 + r1
      /\ f2 \in Nat /\ r2 \in 0..9 /\ 2 * n = 10 * f2 + r2
      /\ f3 \in Nat /\ r3 \in 0..9 /\ n = 10 * f3 + r3
      /\ u = n - (f1 + f2 + f3)
  <2>1. 7 * n \in Nat /\ 2 * n \in Nat
    OBVIOUS
  <2>2. Weights[1] = 7 /\ Weights[2] = 2 /\ Weights[3] = 1
    BY DEF Weights
  <2>3. /\ f1 = (7 * n) \div 10 /\ r1 = (7 * n) % 10
        /\ f2 = (2 * n) \div 10 /\ r2 = (2 * n) % 10
        /\ f3 = n \div 10 /\ r3 = n % 10
    BY <2>2 DEF Floor, Remainder
  <2> QED
    BY <2>1, <2>3, ByTen DEF Unallocated
<1>2. /\ Cardinality(Ahead(n, 1)) = (IF r2 > r1 THEN 1 ELSE 0) + (IF r3 > r1 THEN 1 ELSE 0)
      /\ Cardinality(Ahead(n, 2)) = (IF r1 >= r2 THEN 1 ELSE 0) + (IF r3 > r2 THEN 1 ELSE 0)
      /\ Cardinality(Ahead(n, 3)) = (IF r1 >= r3 THEN 1 ELSE 0) + (IF r2 >= r3 THEN 1 ELSE 0)
  <2>1. r1 \in Int /\ r2 \in Int /\ r3 \in Int
    BY <1>1
  <2> HIDE DEF r1, r2, r3
  <2>2. /\ Ahead(n, 1) \in SUBSET {2, 3}
        /\ 2 \in Ahead(n, 1) <=> r2 > r1
        /\ 3 \in Ahead(n, 1) <=> r3 > r1
    BY <2>1 DEF Ahead, r1, r2, r3
  <2>3. /\ Ahead(n, 2) \in SUBSET {1, 3}
        /\ 1 \in Ahead(n, 2) <=> r1 >= r2
        /\ 3 \in Ahead(n, 2) <=> r3 > r2
    BY <2>1 DEF Ahead, r1, r2, r3
  <2>4. /\ Ahead(n, 3) \in SUBSET {1, 2}
        /\ 1 \in Ahead(n, 3) <=> r1 >= r3
        /\ 2 \in Ahead(n, 3) <=> r2 >= r3
    BY <2>1 DEF Ahead, r1, r2, r3
  <2> QED
    BY <2>2, <2>3, <2>4, CountOfTwo
<1>3. /\ Count(n, 1) = f1 + IF Cardinality(Ahead(n, 1)) < u THEN 1 ELSE 0
      /\ Count(n, 2) = f2 + IF Cardinality(Ahead(n, 2)) < u THEN 1 ELSE 0
      /\ Count(n, 3) = f3 + IF Cardinality(Ahead(n, 3)) < u THEN 1 ELSE 0
  BY DEF Count
<1> HIDE DEF f1, f2, f3, r1, r2, r3, u
<1> QED
  BY <1>1, <1>2, <1>3

LEMMA InputInvariant == ViewsSpec => []InputOK
<1>1. ViewsInit => InputOK
  BY DEF ViewsInit, InputOK
<1>2. InputOK /\ [ViewsNext]_viewsVars => InputOK'
  BY DEF InputOK, ViewsNext, SearchView, SealSelection, FinalTestView, viewsVars, input
<1> QED
  BY <1>1, <1>2, PTL DEF ViewsSpec

\* A phase that follows one another takes its sessions and no others.
LEMMA Interval ==
    ASSUME NEW a \in Nat, NEW b \in Nat
    PROVE  Cardinality((a + 1)..(a + b)) = b /\ IsFiniteSet((a + 1)..(a + b))
<1>1. a + 1 \in Int /\ a + b \in Int
  OBVIOUS
<1>2. /\ Cardinality((a + 1)..(a + b)) = IF a + 1 > a + b THEN 0 ELSE (a + b) - (a + 1) + 1
      /\ IsFiniteSet((a + 1)..(a + b))
  BY <1>1, FS_Interval
<1> QED
  BY <1>2

LEMMA SplitOf ==
    ASSUME NEW n \in Nat, n >= 10
    PROVE  LET parts == <<Train(n), ValidationSessions(n), FinalTest(n)>>
           IN  /\ UNION {parts[i] : i \in 1..3} = 1..n
               /\ \A i \in 1..3 :
                     /\ parts[i] # {}
                     /\ Cardinality(parts[i]) = Count(n, i)
                     /\ 10 * Cardinality(parts[i]) - Weights[i] * n \in -9..9
               /\ \A i, j \in 1..3 : i < j => \A a \in parts[i], b \in parts[j] : a < b
<1> DEFINE c1 == Count(n, 1)
           c2 == Count(n, 2)
           c3 == Count(n, 3)
           parts == <<Train(n), ValidationSessions(n), FinalTest(n)>>
<1>1. /\ c1 \in Nat \ {0} /\ c2 \in Nat \ {0} /\ c3 \in Nat \ {0}
      /\ c1 + c2 + c3 = n
      /\ 10 * c1 - 7 * n \in -9..9 /\ 10 * c2 - 2 * n \in -9..9 /\ 10 * c3 - n \in -9..9
  BY Shares
<1>2. Weights[1] = 7 /\ Weights[2] = 2 /\ Weights[3] = 1
  BY DEF Weights
<1>3. /\ parts[1] = 1..c1 /\ parts[2] = (c1 + 1)..(c1 + c2) /\ parts[3] = (c1 + c2 + 1)..n
  BY DEF Train, ValidationSessions, FinalTest
<1> HIDE DEF parts, c1, c2, c3
<1>4. Cardinality(parts[1]) = c1 /\ Cardinality(parts[2]) = c2 /\ Cardinality(parts[3]) = c3
  <2>1. parts[1] = (0 + 1)..(0 + c1) /\ parts[3] = ((c1 + c2) + 1)..((c1 + c2) + c3)
    BY <1>1, <1>3
  <2>2. 0 \in Nat /\ c1 \in Nat /\ c2 \in Nat /\ c3 \in Nat /\ c1 + c2 \in Nat
    BY <1>1
  <2>3. Cardinality((0 + 1)..(0 + c1)) = c1
    BY <2>2, Interval
  <2>4. Cardinality((c1 + 1)..(c1 + c2)) = c2
    BY <2>2, Interval
  <2>5. Cardinality(((c1 + c2) + 1)..((c1 + c2) + c3)) = c3
    BY <2>2, Interval
  <2> QED
    BY <1>3, <2>1, <2>3, <2>4, <2>5
<1>5. parts[1] # {} /\ parts[2] # {} /\ parts[3] # {}
  <2>1. c1 \in parts[1] /\ (c1 + 1) \in parts[2] /\ n \in parts[3]
    BY <1>1, <1>3
  <2> QED
    BY <2>1
<1>6. UNION {parts[i] : i \in 1..3} = 1..n
  <2>1. \A x : x \in 1..n <=> x \in parts[1] \/ x \in parts[2] \/ x \in parts[3]
    BY <1>1, <1>3
  <2>2. 1..3 = {1, 2, 3}
    OBVIOUS
  <2> QED
    BY <2>1, <2>2
<1>7. \A i, j \in 1..3 : i < j => \A a \in parts[i], b \in parts[j] : a < b
  <2>1. \A a \in parts[1], b \in parts[2] : a < b
    BY <1>1, <1>3
  <2>2. \A a \in parts[1], b \in parts[3] : a < b
    BY <1>1, <1>3
  <2>3. \A a \in parts[2], b \in parts[3] : a < b
    BY <1>1, <1>3
  <2> QED
    BY <2>1, <2>2, <2>3
<1>8. ASSUME NEW i \in 1..3
      PROVE  /\ parts[i] # {} /\ Cardinality(parts[i]) = Count(n, i)
             /\ 10 * Cardinality(parts[i]) - Weights[i] * n \in -9..9
  <2>1. CASE i = 1
    BY <1>1, <1>2, <1>4, <1>5, <2>1 DEF c1
  <2>2. CASE i = 2
    BY <1>1, <1>2, <1>4, <1>5, <2>2 DEF c2
  <2>3. CASE i = 3
    BY <1>1, <1>2, <1>4, <1>5, <2>3 DEF c3
  <2> QED
    BY <2>1, <2>2, <2>3
<1> QED
  BY <1>6, <1>7, <1>8 DEF parts

\* For every number of sessions from ten on, the split loses and repeats none
\* and gives every phase its share to less than one session.
THEOREM SplitCorrect == ViewsSpec => []SplitIsExact
<1>1. InputOK => SplitIsExact
  <2>1. InputOK => total \in Nat /\ total >= 10
    BY ValidationAssumption DEF InputOK
  <2> QED
    BY <2>1, SplitOf DEF SplitIsExact
<1> QED
  BY <1>1, InputInvariant, PTL

----------------------------------------------------------------------------
(***************************************************************************)
(* The walk-forward windows                                                *)
(***************************************************************************)

LEMMA Division ==
    ASSUME NEW x \in Nat, NEW d \in Nat \ {0}
    PROVE  /\ x \div d \in Nat
           /\ d * (x \div d) <= x /\ x < d * (x \div d) + d
OBVIOUS

LEMMA Monotone ==
    ASSUME NEW a \in Nat, NEW b \in Nat, NEW d \in Nat, a <= b
    PROVE  a * d <= b * d /\ a * d \in Nat
OBVIOUS

Rolling == [sessions : Nat, train : Nat \ {0}, evaluation : Nat \ {0}, step : Nat \ {0}]

\* Where the i-th window begins.
Start(r, i) == (i - 1) * r.step

\* When one window fits there are windows, each a full step after the one before.
LEMMA WindowsAre ==
    ASSUME NEW r \in Rolling, r.sessions >= r.train + r.evaluation
    PROVE  /\ WindowCount(r) \in Nat \ {0}
           /\ DOMAIN Windows(r) = 1..WindowCount(r)
           /\ Last(Windows(r)) = Windows(r)[WindowCount(r)]
           /\ \A i \in 1..WindowCount(r) :
                 /\ Windows(r)[i].train = (Start(r, i) + 1)..(Start(r, i) + r.train)
                 /\ Windows(r)[i].evaluation =
                       (Start(r, i) + r.train + 1)..(Start(r, i) + r.train + r.evaluation)
<1> DEFINE k == r.sessions - r.train - r.evaluation
           c == WindowCount(r)
           W == Windows(r)
<1>1. k \in Nat /\ r.step \in Nat \ {0}
  BY DEF Rolling
<1>2. c = 1 + k \div r.step
  BY DEF WindowCount
<1> HIDE DEF k
<1>3. c \in Nat \ {0}
  BY <1>1, <1>2, Division
<1>4. W = [i \in 1..c |-> WindowAt(Start(r, i), r)]
  BY DEF Windows, Start
<1> HIDE DEF c, W
<1>5. Len(W) = c /\ DOMAIN W = 1..c /\ \A i \in 1..c : W[i] = WindowAt(Start(r, i), r)
  BY <1>3, <1>4
<1>6. Last(W) = W[c]
  BY <1>5 DEF Last
<1> QED
  BY <1>3, <1>5, <1>6 DEF c, W, WindowAt

\* A window fits, one step more than the last would not, and windows that are
\* apart begin a step apart.
LEMMA StartsFit ==
    ASSUME NEW r \in Rolling, r.sessions >= r.train + r.evaluation,
           NEW i \in 1..WindowCount(r)
    PROVE  /\ Start(r, i) \in Nat
           /\ Start(r, i) + r.train + r.evaluation <= r.sessions
           /\ i = WindowCount(r) => Start(r, i) + r.train + r.evaluation + r.step > r.sessions
           /\ \A j \in 1..WindowCount(r) : i < j => Start(r, i) + r.step <= Start(r, j)
<1> DEFINE n == r.sessions
           k == n - r.train - r.evaluation
           d == r.step
           q == k \div d
<1>1. r.train \in Nat /\ r.evaluation \in Nat /\ d \in Nat \ {0} /\ n \in Nat
  BY DEF Rolling
<1>2. WindowCount(r) = 1 + q /\ n >= r.train + r.evaluation
  BY DEF WindowCount
<1>3. k \in Nat
  BY <1>1, <1>2
<1> HIDE DEF k, d, n
<1>4. q \in Nat /\ d * q <= k /\ k < d * q + d
  BY <1>1, <1>3, Division
<1> HIDE DEF q
<1>5. i - 1 \in Nat /\ i - 1 <= q /\ (i = WindowCount(r) => i - 1 = q)
  BY <1>2, <1>4
<1>6. (i - 1) * d <= q * d /\ (i - 1) * d \in Nat
  BY <1>1, <1>4, <1>5, Monotone
<1>7. q * d = d * q /\ q * d \in Nat
  BY <1>1, <1>4
<1>8. Start(r, i) = (i - 1) * d
  BY DEF Start, d
<1>9. ASSUME NEW j \in 1..WindowCount(r), i < j
      PROVE  Start(r, i) + d <= Start(r, j)
  <2>1. i \in Nat /\ j - 1 \in Nat /\ i <= j - 1
    BY <1>2, <1>4, <1>9
  <2>2. i * d <= (j - 1) * d
    BY <1>1, <2>1, Monotone
  <2>3. (i - 1) * d + d = i * d
    BY <1>1, <2>1
  <2> QED
    BY <1>8, <2>2, <2>3 DEF Start, d
<1>10. Start(r, i) + r.train + r.evaluation <= n
  <2> DEFINE x == (i - 1) * d
             y == q * d
  <2>1. x \in Nat /\ y \in Nat /\ x <= y /\ y <= k
    BY <1>4, <1>6, <1>7
  <2> HIDE DEF x, y
  <2> QED
    BY <1>1, <1>8, <2>1 DEF k, x
<1>11. i = WindowCount(r) => Start(r, i) + r.train + r.evaluation + d > n
  <2> SUFFICES ASSUME i = WindowCount(r)
               PROVE  Start(r, i) + r.train + r.evaluation + d > n
    OBVIOUS
  <2> DEFINE x == q * d
  <2>1. x \in Nat /\ k < x + d /\ Start(r, i) = x
    BY <1>4, <1>5, <1>7, <1>8
  <2> HIDE DEF x
  <2> QED
    BY <1>1, <2>1 DEF k
<1> QED
  BY <1>6, <1>8, <1>9, <1>10, <1>11 DEF d, n

\* Short steps: what lies behind the first training sessions and not behind the
\* last window is evaluated by some window.
LEMMA NothingIsSkipped ==
    ASSUME NEW r \in Rolling, r.sessions >= r.train + r.evaluation,
           r.step <= r.evaluation, NEW d \in Nat, d >= r.train + 1,
           d <= Start(r, WindowCount(r)) + r.train + r.evaluation
    PROVE  \E i \in 1..WindowCount(r) :
              /\ Start(r, i) + r.train + 1 <= d
              /\ d <= Start(r, i) + r.train + r.evaluation
<1> DEFINE c == WindowCount(r)
           x == d - r.train - 1
           q == x \div r.step
<1>1. c \in Nat \ {0}
  BY WindowsAre
<1>2. x \in Nat /\ r.step \in Nat \ {0} /\ r.train \in Nat /\ r.evaluation \in Nat
  BY DEF Rolling
<1> HIDE DEF x, c
<1>3. q \in Nat /\ r.step * q <= x /\ x < r.step * q + r.step
  BY <1>2, Division
<1> HIDE DEF q
<1>4. CASE q + 1 <= c
  <2>1. q + 1 \in 1..c /\ Start(r, q + 1) = q * r.step
    BY <1>1, <1>3, <1>4 DEF Start
  <2> DEFINE y == q * r.step
  <2>2. y \in Nat /\ y <= x /\ x < y + r.step
    BY <1>2, <1>3
  <2> HIDE DEF y
  <2>3. y + r.train + 1 <= d /\ d <= y + r.train + r.evaluation
    BY <1>2, <2>2 DEF x
  <2> QED
    BY <2>1, <2>3 DEF c, y
<1>5. CASE ~(q + 1 <= c)
  <2>1. c - 1 \in Nat /\ c - 1 <= q
    BY <1>1, <1>3, <1>5
  <2> DEFINE b == c - 1
             y == q * r.step
             z == b * r.step
  <2> HIDE DEF b
  <2>2. z <= y /\ z \in Nat
    BY <1>2, <1>3, <2>1, Monotone DEF b
  <2>3. y \in Nat /\ y <= x
    BY <1>2, <1>3
  <2>4. Start(r, c) = z
    BY DEF Start, b
  <2> HIDE DEF y, z
  <2>5. z + r.train + 1 <= d
    BY <1>2, <2>2, <2>3 DEF x
  <2> QED
    BY <1>1, <2>4, <2>5 DEF c
<1> QED
  BY <1>4, <1>5

LEMMA MaxOfInterval ==
    ASSUME NEW a \in Nat, NEW b \in Nat, a <= b
    PROVE  Max(a..b) = b
<1>1. b \in a..b /\ \A y \in a..b : b >= y
  OBVIOUS
<1>2. \A x \in a..b : (\A y \in a..b : x >= y) => x = b
  OBVIOUS
<1> QED
  BY <1>1, <1>2 DEF Max

\* For all sessions, sizes and steps that are accepted, the windows train on
\* the past inside the given sessions, repeat no evaluation when steps are
\* long, skip none when they are short, and leave out no window that fits.
THEOREM WindowsCorrect == ViewsSpec => []WindowsWalkForward
<1>1. ASSUME InputOK, ~WindowsRefused(rolling) PROVE WindowsWalkForward
  <2> DEFINE r == rolling
             n == r.sessions
             W == Windows(r)
             count == WindowCount(r)
  <2>1. r \in Rolling
    BY <1>1, ValidationAssumption DEF InputOK, Rolling
  <2>2. n >= r.train + r.evaluation
    <3>1. n \in Nat /\ r.train \in Nat /\ r.evaluation \in Nat
      BY <2>1 DEF Rolling
    <3> QED
      BY <1>1, <3>1 DEF WindowsRefused
  <2>3. /\ n \in Nat /\ r.train \in Nat \ {0} /\ r.evaluation \in Nat \ {0}
        /\ r.step \in Nat \ {0}
    BY <2>1 DEF Rolling
  <2> HIDE DEF r
  <2>4. /\ count \in Nat \ {0} /\ DOMAIN W = 1..count /\ Last(W) = W[count]
        /\ \A i \in 1..count :
              /\ W[i].train = (Start(r, i) + 1)..(Start(r, i) + r.train)
              /\ W[i].evaluation =
                    (Start(r, i) + r.train + 1)..(Start(r, i) + r.train + r.evaluation)
    BY <2>1, <2>2, WindowsAre
  <2>5. \A i \in 1..count :
           /\ Start(r, i) \in Nat
           /\ Start(r, i) + r.train + r.evaluation <= n
           /\ i = count => Start(r, i) + r.train + r.evaluation + r.step > n
           /\ \A j \in 1..count : i < j => Start(r, i) + r.step <= Start(r, j)
    BY <2>1, <2>2, StartsFit
  <2> DEFINE last == Start(r, count) + r.train + r.evaluation
  <2>6. /\ last \in Nat /\ last >= r.train + 1 /\ last + r.step > n
        /\ Max(W[count].evaluation) = last
    <3> DEFINE s == Start(r, count)
    <3>1. /\ s \in Nat /\ s + r.train + r.evaluation + r.step > n
          /\ W[count].evaluation = (s + r.train + 1)..(s + r.train + r.evaluation)
      BY <2>4, <2>5
    <3>2. last = s + r.train + r.evaluation
      OBVIOUS
    <3> HIDE DEF s, last, W, count
    <3>3. /\ s + r.train + 1 \in Nat /\ last \in Nat
          /\ s + r.train + 1 <= last /\ last >= r.train + 1
      BY <2>3, <3>1, <3>2
    <3> QED
      BY <3>1, <3>2, <3>3, MaxOfInterval
  <2>7. r.step <= r.evaluation =>
           \A d \in (r.train + 1)..last :
              \E i \in 1..count :
                 /\ Start(r, i) + r.train + 1 <= d
                 /\ d <= Start(r, i) + r.train + r.evaluation
    <3> SUFFICES ASSUME r.step <= r.evaluation, NEW d \in (r.train + 1)..last
                 PROVE  \E i \in 1..count :
                           /\ Start(r, i) + r.train + 1 <= d
                           /\ d <= Start(r, i) + r.train + r.evaluation
      OBVIOUS
    <3>1. d \in Nat /\ d >= r.train + 1 /\ d <= last
      BY <2>3, <2>6
    <3> QED
      BY <2>1, <2>2, <3>1, NothingIsSkipped
  <2> HIDE DEF W, count, last
  <2>8. ASSUME NEW i \in 1..count
        PROVE  /\ W[i].train \cup W[i].evaluation \subseteq 1..n
               /\ \A a \in W[i].train, b \in W[i].evaluation : a < b
               /\ Cardinality(W[i].train) = r.train
               /\ Cardinality(W[i].evaluation) = r.evaluation
    <3> DEFINE s == Start(r, i)
    <3>1. /\ s \in Nat /\ s + r.train + r.evaluation <= n
          /\ W[i].train = (s + 1)..(s + r.train)
          /\ W[i].evaluation = (s + r.train + 1)..(s + r.train + r.evaluation)
      BY <2>4, <2>5
    <3> HIDE DEF s
    <3>2. \A a \in W[i].train, b \in W[i].evaluation : a < b
      BY <2>3, <3>1
    <3>3. W[i].train \cup W[i].evaluation \subseteq 1..n
      BY <2>3, <3>1
    <3>4. Cardinality(W[i].train) = r.train
      BY <2>3, <3>1, Interval
    <3>5. Cardinality(W[i].evaluation) = r.evaluation
      <4> DEFINE u == s + r.train
      <4>1. u \in Nat /\ W[i].evaluation = (u + 1)..(u + r.evaluation)
        BY <2>3, <3>1
      <4> HIDE DEF u
      <4> QED
        BY <2>3, <4>1, Interval
    <3> QED
      BY <3>2, <3>3, <3>4, <3>5
  <2>9. ASSUME r.step >= r.evaluation, NEW i \in 1..count, NEW j \in 1..count, i < j
        PROVE  W[i].evaluation \cap W[j].evaluation = {}
    <3> DEFINE s == Start(r, i)
               t == Start(r, j)
    <3>1. /\ s \in Nat /\ t \in Nat /\ s + r.step <= t
          /\ W[i].evaluation = (s + r.train + 1)..(s + r.train + r.evaluation)
          /\ W[j].evaluation = (t + r.train + 1)..(t + r.train + r.evaluation)
      BY <2>4, <2>5, <2>9
    <3> HIDE DEF s, t
    <3>2. s + r.train + r.evaluation < t + r.train + 1
      BY <2>3, <2>9, <3>1
    <3>3. \A a \in W[i].evaluation : a \in Int /\ a <= s + r.train + r.evaluation
      BY <2>3, <3>1
    <3>4. \A b \in W[j].evaluation : b \in Int /\ t + r.train + 1 <= b
      BY <2>3, <3>1
    <3>5. \A a \in W[i].evaluation, b \in W[j].evaluation : a # b
      BY <2>3, <3>1, <3>2, <3>3, <3>4
    <3> QED
      BY <3>5
  <2>10. r.step >= r.evaluation =>
           \A i, j \in 1..count : i # j => W[i].evaluation \cap W[j].evaluation = {}
    <3> SUFFICES ASSUME r.step >= r.evaluation, NEW i \in 1..count, NEW j \in 1..count, i # j
                 PROVE  W[i].evaluation \cap W[j].evaluation = {}
      OBVIOUS
    <3>1. i < j \/ j < i
      BY <2>4
    <3> QED
      BY <2>9, <3>1
  <2>11. r.step <= r.evaluation =>
            \A d \in (r.train + 1)..last : \E i \in 1..count : d \in W[i].evaluation
    <3> SUFFICES ASSUME r.step <= r.evaluation, NEW d \in (r.train + 1)..last
                 PROVE  \E i \in 1..count : d \in W[i].evaluation
      OBVIOUS
    <3>1. PICK i \in 1..count : /\ Start(r, i) + r.train + 1 <= d
                                /\ d <= Start(r, i) + r.train + r.evaluation
      BY <2>7
    <3>2. d \in Int /\ Start(r, i) \in Nat
      BY <2>3, <2>5, <2>6
    <3>3. d \in (Start(r, i) + r.train + 1)..(Start(r, i) + r.train + r.evaluation)
      BY <2>3, <3>1, <3>2
    <3> QED
      BY <2>4, <3>3
  <2>12. Max(Last(W).evaluation) = last
    BY <2>4, <2>6
  <2> QED
    BY <2>4, <2>6, <2>8, <2>10, <2>11, <2>12 DEF WindowsWalkForward, W, r
<1>2. InputOK => WindowsWalkForward
  BY <1>1 DEF WindowsWalkForward
<1> QED
  BY <1>2, InputInvariant, PTL

=============================================================================
