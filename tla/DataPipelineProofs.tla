------------------------- MODULE DataPipelineProofs -------------------------
(***************************************************************************)
(* Proofs about DataPipeline and DatasetStore, for any processes, paths,   *)
(* archives, symbols and sessions: what an import publishes is the archive *)
(* it names unless that was put back under its hands, and the pipeline     *)
(* implements the store.                                                   *)
(***************************************************************************)
EXTENDS DataPipeline, TLAPS

Contents == [source : Rows, members : Rows, groups : Rows, rows : Rows]

Tasks == [step : Steps, command : {"none", "import", "build", "accept"},
          path : Paths \cup {Nothing}, source : Rows \cup {Nothing}, since : Nat,
          members : Rows \cup {Nothing}, rows : Rows, left : SUBSET Groups,
          dataset : Contents \cup {Nothing}, serial : Nat,
          outcome : {"none", "done", "failed", "crashed"}]

\* The files that lay at a path so far, the present one among them.
Histories == {h \in Seq(Rows) : h # << >>}

TypeOK ==
    /\ archive \in [Paths -> Histories]
    /\ task \in [Workers -> Tasks]
    /\ begun \in Nat

ImportSteps == {"inspect", "read", "rehash", "recheck", "stage", "confirm", "place", "rename"}
ReadSteps == {"rehash", "recheck", "stage", "confirm"}
StagedSteps == {"confirm", "place", "rename"}
DatasetSteps == {"verify", "derive", "renameDerived", "bind", "query"}

\* A content that says what was read and what is published of it, and has passed
\* the gates.
Publishable(d) ==
    /\ d \in Contents
    /\ d.rows = PublishedRows(d.groups)
    /\ MayPublish(d.groups)

\* An import knows the file it has hashed, which is in the history of its path.
SourceInv(t) ==
    /\ t.path \in Paths
    /\ t.source \in Rows
    /\ t.since \in DOMAIN archive[t.path]
    /\ archive[t.path][t.since] = t.source

\* Another file came to the path after the source had been hashed.
Tainted(t) ==
    \E j \in DOMAIN archive[t.path] : t.since < j /\ archive[t.path][j] # t.source

\* It came, and the source came back.
PutBack(t) ==
    \E j, k \in DOMAIN archive[t.path] :
        /\ t.since < j /\ j < k
        /\ archive[t.path][j] # t.source
        /\ archive[t.path][k] = t.source

\* What was read so far is of the source.
Genuine(t) ==
    /\ t.members = t.source
    /\ \A g \in Groups \ t.left : t.rows[g] = t.source[g]

\* Unless the path was given another file, the members and the rows are the
\* source's; once the last hash has found the source, unless it was put back.
TaskInv(t) ==
    /\ t.step \in ImportSteps => SourceInv(t)
    /\ t.step = "inspect" => t.rows = NoTask.rows
    /\ t.step \in ImportSteps \ {"inspect"} => t.members \in Rows
    /\ t.step \in {"read"} \cup ReadSteps => Genuine(t) \/ Tainted(t)
    /\ t.step \in ReadSteps => t.left = {}
    /\ t.step \in {"place", "rename"} => IsOf(t.dataset, t.source) \/ PutBack(t)
    /\ t.step \in StagedSteps =>
          /\ Publishable(t.dataset)
          /\ t.dataset.source = t.source
    /\ t.step = "confirm" => t.dataset = Content(t.source, t.members, t.rows)
    /\ t.step \in DatasetSteps => IsPublished(t.dataset)

PipelineInv ==
    /\ TypeOK
    /\ \A s \in canonical : Publishable(s.id)
    /\ \A w \in Workers : TaskInv(task[w])

----------------------------------------------------------------------------
(***************************************************************************)
(* Lemmas about the rows                                                   *)
(***************************************************************************)

\* Publishing removes groups and adds none.
LEMMA PublishedRowsType ==
    ASSUME NEW r \in Rows
    PROVE  PublishedRows(r) \in Rows
BY DEF PublishedRows, Rows, Condition

\* Quarantine leaves clean groups only, once the production groups are clean.
LEMMA PublishedRowsAreClean ==
    ASSUME NEW r \in Rows, MayPublish(r), NEW g \in Groups
    PROVE  /\ PublishedRows(r)[g] \in {"absent", "clean"}
           /\ g[1] \in EffectiveProduction(r) => PublishedRows(r)[g] = "clean"
<1>1. CASE g[1] \in EffectiveProduction(r)
  <2>1. g \in EffectiveProduction(r) \X Sessions
    BY <1>1 DEF Groups
  <2>2. r[g] = "clean"
    BY <1>1, <2>1 DEF MayPublish, Passed
  <2>3. PublishedRows(r)[g] = "clean"
    BY <2>2 DEF PublishedRows, Quarantined, RequiresQuarantine
  <2> QED
    BY <2>3
<1>2. CASE g[1] \notin EffectiveProduction(r)
  <2>1. PublishedRows(r)[g] = IF r[g] # "clean" THEN "absent" ELSE r[g]
    BY <1>2 DEF PublishedRows, Quarantined, RequiresQuarantine
  <2> QED
    BY <1>2, <2>1
<1> QED
  BY <1>1, <1>2

\* An idle process has the type of a task.
LEMMA NoTaskType == NoTask \in Tasks /\ NoTask.step = "idle"
BY DEF NoTask, Tasks, Steps, Rows, Condition

\* The file that lies at a path is the last of its history.
LEMMA PresentFacts ==
    ASSUME TypeOK, NEW p \in Paths
    PROVE  /\ Len(archive[p]) \in DOMAIN archive[p]
           /\ Present(p) = archive[p][Len(archive[p])]
           /\ Present(p) \in Rows
BY DEF TypeOK, Histories, Present

\* What lies at the path is the source, or the import is tainted.
LEMMA PresentIsSource ==
    ASSUME TypeOK, NEW t, SourceInv(t)
    PROVE  Present(t.path) = t.source \/ Tainted(t)
<1> SUFFICES ASSUME Present(t.path) # t.source PROVE Tainted(t)
  OBVIOUS
<1>1. t.path \in Paths /\ t.since \in DOMAIN archive[t.path]
      /\ archive[t.path][t.since] = t.source
  BY DEF SourceInv
<1>2. Len(archive[t.path]) \in DOMAIN archive[t.path]
      /\ archive[t.path][Len(archive[t.path])] # t.source
  BY <1>1, PresentFacts
<1>3. archive[t.path] \in Seq(Rows)
  BY <1>1 DEF TypeOK, Histories
<1>4. t.since < Len(archive[t.path])
  BY <1>1, <1>2, <1>3
<1> QED
  BY <1>2, <1>4 DEF Tainted

\* A tainted import that finds its source again had it put back.
LEMMA TaintedIsPutBack ==
    ASSUME TypeOK, NEW t, SourceInv(t), Tainted(t), Present(t.path) = t.source
    PROVE  PutBack(t)
<1>1. PICK j \in DOMAIN archive[t.path] : t.since < j /\ archive[t.path][j] # t.source
  BY DEF Tainted
<1>2. t.path \in Paths
  BY DEF SourceInv
<1>3. Len(archive[t.path]) \in DOMAIN archive[t.path]
      /\ archive[t.path][Len(archive[t.path])] = t.source
  BY <1>2, PresentFacts
<1>4. archive[t.path] \in Seq(Rows)
  BY <1>2 DEF TypeOK, Histories
<1>5. j < Len(archive[t.path])
  BY <1>1, <1>3, <1>4
<1> QED
  BY <1>1, <1>3, <1>5 DEF PutBack


----------------------------------------------------------------------------
(***************************************************************************)
(* The invariant                                                           *)
(***************************************************************************)

\* One process takes a step, and what it publishes may be published.
Moves(w) ==
    /\ task' \in [Workers -> Tasks]
    /\ \A v \in Workers \ {w} : task'[v] = task[v]
    /\ archive' = archive
    /\ canonical \subseteq canonical'
    /\ begun' \in Nat

\* The step of a process keeps the invariant when its own task keeps it.
LEMMA Assemble ==
    ASSUME PipelineInv, NEW w \in Workers, Moves(w), TaskInv(task[w])',
           \A s \in canonical' : Publishable(s.id)
    PROVE  PipelineInv'
<1>1. TypeOK'
  BY DEF PipelineInv, TypeOK, Moves
<1>2. ASSUME NEW v \in Workers, v # w
      PROVE  TaskInv(task[v])'
  <2> DEFINE u == task[v]
  <2>1. TaskInv(u) /\ task'[v] = u
    BY <1>2 DEF PipelineInv, Moves
  <2> HIDE DEF u
  <2>2. archive' = archive /\ canonical \subseteq canonical'
    BY DEF Moves
  <2> QED
    BY <2>1, <2>2 DEF u, TaskInv, SourceInv, Tainted, PutBack, IsPublished
<1>3. (\A s \in canonical : Publishable(s.id))'
  BY DEF Publishable
<1> QED
  BY <1>1, <1>2, <1>3 DEF PipelineInv

\* Nothing is asked of the first state but the types.
LEMMA PipelineInit == Init => PipelineInv
<1> SUFFICES ASSUME Init PROVE PipelineInv
  OBVIOUS
<1>1. TypeOK
  <2>1. archive \in [Paths -> Histories]
    BY PipelineAssumption DEF Init, Histories
  <2> QED
    BY <2>1, NoTaskType DEF Init, TypeOK
<1>2. \A w \in Workers : TaskInv(task[w])
  BY NoTaskType DEF Init, TaskInv, ImportSteps, ReadSteps, StagedSteps, DatasetSteps
<1> QED
  BY <1>1, <1>2 DEF Init, PipelineInv

\* A command ends: nothing is asked of an idle process.
LEMMA EndKeeps ==
    ASSUME PipelineInv, NEW w \in Workers, NEW outcome \in {"done", "failed", "crashed"},
           task' = [task EXCEPT ![w] = [NoTask EXCEPT !.outcome = outcome]],
           archive' = archive, canonical \subseteq canonical', begun' = begun,
           \A s \in canonical' : Publishable(s.id)
    PROVE  PipelineInv'
<1> DEFINE t == [NoTask EXCEPT !.outcome = outcome]
<1>1. t \in Tasks /\ t.step = "idle"
  BY NoTaskType DEF Tasks
<1>2. task' = [task EXCEPT ![w] = t]
  OBVIOUS
<1> HIDE DEF t
<1>3. Moves(w) /\ task'[w].step = "idle"
  BY <1>1, <1>2 DEF PipelineInv, TypeOK, Moves
<1>4. TaskInv(task[w])'
  BY <1>3 DEF TaskInv, ImportSteps, ReadSteps, StagedSteps, DatasetSteps
<1> QED
  BY <1>3, <1>4, Assemble

\* An import begins with the hash of its archive.
LEMMA ImportBegins ==
    ASSUME PipelineInv, NEW w \in Workers, BeginImport(w)
    PROVE  PipelineInv'
<1>1. PICK p \in Paths :
         task' = [task EXCEPT ![w] = [NoTask EXCEPT !.step = "inspect", !.command = "import",
                                                    !.serial = begun + 1, !.path = p,
                                                    !.source = Present(p),
                                                    !.since = Len(archive[p])]]
  BY DEF BeginImport
<1>2. /\ begun \in Nat /\ begun + 1 \in Nat
      /\ Len(archive[p]) \in DOMAIN archive[p] /\ Len(archive[p]) \in Nat
      /\ Present(p) = archive[p][Len(archive[p])] /\ Present(p) \in Rows
  BY <1>1, PresentFacts DEF PipelineInv, TypeOK, Histories
<1> DEFINE source == Present(p)
           serial == begun + 1
           since == Len(archive[p])
           t == [NoTask EXCEPT !.step = "inspect", !.command = "import",
                               !.serial = serial, !.path = p, !.source = source,
                               !.since = since]
<1>3. task' = [task EXCEPT ![w] = t]
  BY <1>1
<1>4. t \in Tasks /\ t.step = "inspect" /\ t.path = p /\ t.source = source
      /\ t.since = since /\ t.rows = NoTask.rows
  <2>1. source \in Rows /\ serial \in Nat /\ since \in Nat /\ p \in Paths
    BY <1>1, <1>2
  <2> HIDE DEF source, serial, since
  <2> QED
    BY <2>1, NoTaskType DEF Tasks, Steps
<1> HIDE DEF t
<1>5. /\ Moves(w) /\ canonical' = canonical
      /\ task'[w] = t
  BY <1>2, <1>3, <1>4 DEF BeginImport, files, Moves, PipelineInv, TypeOK
<1>6. SourceInv(task[w])'
  BY <1>1, <1>2, <1>4, <1>5 DEF SourceInv, Moves
<1>7. TaskInv(task[w])'
  BY <1>4, <1>5, <1>6 DEF TaskInv, ImportSteps, ReadSteps, StagedSteps, DatasetSteps
<1> QED
  BY <1>5, <1>7, Assemble DEF PipelineInv

\* A build and an acceptance begin with a published dataset.
LEMMA CommandBegins ==
    ASSUME PipelineInv, NEW w \in Workers, NEW command \in {"build", "accept"},
           BeginCommand(w, command)
    PROVE  PipelineInv'
<1>1. PICK s \in canonical :
         task' = [task EXCEPT ![w] = [NoTask EXCEPT !.step = "verify", !.command = command,
                                                    !.serial = begun + 1, !.dataset = s.id]]
  BY DEF BeginCommand
<1> DEFINE dataset == s.id
           serial == begun + 1
           t == [NoTask EXCEPT !.step = "verify", !.command = command,
                               !.serial = serial, !.dataset = dataset]
<1>2. dataset \in Contents /\ serial \in Nat
  BY DEF PipelineInv, TypeOK, Publishable
<1>3. task' = [task EXCEPT ![w] = t]
  BY <1>1
<1>4. t \in Tasks /\ t.step = "verify" /\ t.dataset = dataset
  <2> HIDE DEF dataset, serial
  <2> QED
    BY <1>2, NoTaskType DEF Tasks, Steps
<1> HIDE DEF t
<1>5. /\ Moves(w) /\ canonical' = canonical
      /\ task'[w] = t
  BY <1>2, <1>3, <1>4 DEF BeginCommand, files, Moves, PipelineInv, TypeOK
<1>6. TaskInv(task[w])'
  BY <1>4, <1>5 DEF TaskInv, ImportSteps, ReadSteps, StagedSteps, DatasetSteps, IsPublished
<1> QED
  BY <1>5, <1>6, Assemble DEF PipelineInv

\* What a process has with it when it goes on to another step.
LEMMA GotoFacts ==
    ASSUME PipelineInv, NEW w \in Workers, NEW step \in Steps, Goto(w, step),
           archive' = archive, canonical \subseteq canonical', begun' = begun
    PROVE  /\ Moves(w)
           /\ task'[w].step = step
           /\ task'[w].path = task[w].path /\ task'[w].source = task[w].source
           /\ task'[w].since = task[w].since
           /\ task'[w].members = task[w].members /\ task'[w].rows = task[w].rows
           /\ task'[w].left = task[w].left /\ task'[w].dataset = task[w].dataset
<1>1. task[w] \in Tasks /\ task \in [Workers -> Tasks] /\ begun \in Nat
  BY DEF PipelineInv, TypeOK
<1>2. task'[w] = [task[w] EXCEPT !.step = step]
  BY <1>1 DEF Goto
<1>3. task'[w] \in Tasks
  BY <1>1, <1>2 DEF Tasks
<1> QED
  BY <1>1, <1>2, <1>3 DEF Goto, Moves, Tasks

\* Inspection selects every group that the archive has rows of.
LEMMA InspectKeeps ==
    ASSUME PipelineInv, NEW w \in Workers, Inspect(w)
    PROVE  PipelineInv'
<1> DEFINE rows == Present(task[w].path)
<1>1. /\ task \in [Workers -> Tasks] /\ task[w] \in Tasks /\ TaskInv(task[w])
      /\ task[w].step = "inspect"
      /\ archive' = archive /\ canonical' = canonical /\ begun' = begun /\ begun \in Nat
  BY DEF PipelineInv, TypeOK, Inspect, files
<1>2. SourceInv(task[w]) /\ task[w].rows = NoTask.rows
  BY <1>1 DEF TaskInv, ImportSteps
<1>3. CASE Selected(rows) # {}
  <2> DEFINE selected == Selected(rows)
  <2>1. rows \in Rows /\ selected \subseteq Groups
    BY <1>2, PresentFacts DEF SourceInv, PipelineInv, Selected, Observed
  <2>2. \A g \in Groups \ selected : rows[g] = "absent"
    BY DEF Selected, Observed
  <2>3. task' = [task EXCEPT ![w].step = "read", ![w].members = rows, ![w].left = selected]
    BY <1>3 DEF Inspect
  <2>4. rows = task[w].source \/ Tainted(task[w])
    BY <1>2, PresentIsSource DEF PipelineInv
  <2> HIDE DEF rows, selected
  <2>5. task'[w] = [task[w] EXCEPT !.step = "read", !.members = rows, !.left = selected]
    BY <1>1, <2>3
  <2> DEFINE step == "read"
  <2>6. /\ step \in Steps /\ selected \in SUBSET Groups
        /\ task'[w] = [task[w] EXCEPT !.step = step, !.members = rows, !.left = selected]
    BY <2>1, <2>5 DEF Steps
  <2> HIDE DEF step
  <2>7. /\ task'[w] \in Tasks
        /\ task'[w].step = step /\ task'[w].members = rows /\ task'[w].left = selected
        /\ task'[w].path = task[w].path /\ task'[w].source = task[w].source
        /\ task'[w].since = task[w].since /\ task'[w].rows = task[w].rows
    BY <1>1, <2>1, <2>6 DEF Tasks
  <2>8. task'[w].step = "read"
    BY <2>7 DEF step
  <2>9. Moves(w)
    BY <1>1, <2>3, <2>7 DEF Moves
  <2>10. SourceInv(task[w])'
    BY <1>1, <1>2, <2>7 DEF SourceInv
  <2>11. CASE rows = task[w].source
    <3>1. Genuine(task[w])'
      BY <1>2, <2>2, <2>7, <2>11 DEF Genuine, NoTask
    <3> QED
      BY <1>1, <2>1, <2>7, <2>8, <2>9, <2>10, <3>1, Assemble
      DEF PipelineInv, TaskInv, ReadSteps, StagedSteps, DatasetSteps
  <2>12. CASE Tainted(task[w])
    <3>1. Tainted(task[w])'
      BY <1>1, <2>7, <2>12 DEF Tainted
    <3> QED
      BY <1>1, <2>1, <2>7, <2>8, <2>9, <2>10, <3>1, Assemble
      DEF PipelineInv, TaskInv, ReadSteps, StagedSteps, DatasetSteps
  <2> QED
    BY <2>4, <2>11, <2>12
<1>4. CASE Selected(rows) = {}
  <2>1. End(w, "failed")
    BY <1>4 DEF Inspect
  <2> QED
    BY <1>1, <2>1, EndKeeps DEF End, PipelineInv
<1> QED
  BY <1>3, <1>4

\* A row is read of the file that the path holds at that moment.
LEMMA ReadKeeps ==
    ASSUME PipelineInv, NEW w \in Workers, ReadMember(w)
    PROVE  PipelineInv'
<1>1. /\ task \in [Workers -> Tasks] /\ task[w] \in Tasks /\ TaskInv(task[w])
      /\ task[w].step = "read"
      /\ archive' = archive /\ canonical' = canonical /\ begun' = begun /\ begun \in Nat
  BY DEF PipelineInv, TypeOK, ReadMember, files
<1>2. /\ SourceInv(task[w]) /\ (Genuine(task[w]) \/ Tainted(task[w]))
      /\ task[w].members \in Rows
  BY <1>1 DEF TaskInv, ImportSteps
<1>3. PICK g \in task[w].left :
         \/ task' = [task EXCEPT ![w].rows[g] = Present(task[w].path)[g],
                                 ![w].left = @ \ {g},
                                 ![w].step = IF task[w].left = {g} THEN "rehash" ELSE "read"]
         \/ End(w, "failed")
  BY DEF ReadMember
<1>4. CASE End(w, "failed")
  BY <1>1, <1>4, EndKeeps DEF End, PipelineInv
<1>5. CASE task' = [task EXCEPT ![w].rows[g] = Present(task[w].path)[g],
                                ![w].left = @ \ {g},
                                ![w].step = IF task[w].left = {g} THEN "rehash" ELSE "read"]
  <2> DEFINE row == Present(task[w].path)[g]
             left == task[w].left \ {g}
             step == IF task[w].left = {g} THEN "rehash" ELSE "read"
             rows == [task[w].rows EXCEPT ![g] = row]
  <2>1. /\ row \in Condition /\ g \in Groups /\ left \subseteq Groups
        /\ step \in {"read", "rehash"} /\ (step = "rehash" => left = {})
        /\ rows \in Rows /\ task[w].rows \in Rows
    <3>1. Present(task[w].path) \in Rows /\ g \in Groups
      BY <1>1, <1>2, <1>3, PresentFacts DEF SourceInv, PipelineInv, Tasks
    <3> QED
      BY <1>1, <1>3, <3>1 DEF Rows, Tasks
  <2>2. /\ rows[g] = row
        /\ \A h \in Groups \ {g} : rows[h] = task[w].rows[h]
        /\ row = task[w].source[g] \/ Tainted(task[w])
    <3>1. Present(task[w].path) = task[w].source \/ Tainted(task[w])
      BY <1>2, PresentIsSource DEF PipelineInv
    <3> QED
      BY <2>1, <3>1 DEF Rows
  <2>3. task'[w] = [task[w] EXCEPT !.rows = rows, !.left = left, !.step = step]
    <3>1. task' = [task EXCEPT ![w].rows[g] = row, ![w].left = left, ![w].step = step]
      BY <1>1, <1>5
    <3> HIDE DEF row, left, step
    <3> QED
      BY <1>1, <3>1 DEF Tasks
  <2>4. \A v \in Workers \ {w} : task'[v] = task[v]
    BY <1>1, <1>5
  <2>5. DOMAIN task' = Workers /\ task' = [v \in Workers |-> task'[v]]
    BY <1>1, <1>5
  <2> HIDE DEF rows, left, step, row
  <2>6. step \in Steps /\ left \in SUBSET Groups
    BY <2>1 DEF Steps
  <2>7. /\ task'[w] \in Tasks
        /\ task'[w].step = step /\ task'[w].rows = rows /\ task'[w].left = left
        /\ task'[w].path = task[w].path /\ task'[w].source = task[w].source
        /\ task'[w].since = task[w].since /\ task'[w].members = task[w].members
    BY <1>1, <2>1, <2>3, <2>6 DEF Tasks
  <2>8. Moves(w)
    BY <1>1, <2>4, <2>5, <2>7 DEF Moves
  <2>9. SourceInv(task[w])'
    BY <1>1, <1>2, <2>7 DEF SourceInv
  <2>10. Tainted(task[w]) => Tainted(task[w])'
    BY <1>1, <2>7 DEF Tainted
  <2>11. Genuine(task[w]) /\ row = task[w].source[g] => Genuine(task[w])'
    BY <2>1, <2>2, <2>7 DEF Genuine, left
  <2>12. TaskInv(task[w])'
    BY <1>2, <2>1, <2>2, <2>7, <2>9, <2>10, <2>11
    DEF TaskInv, ReadSteps, StagedSteps, DatasetSteps
  <2> QED
    BY <1>1, <2>8, <2>12, Assemble DEF PipelineInv
<1> QED
  BY <1>3, <1>4, <1>5

\* The second inspection asks again, and what was read stays as it is.
LEMMA RecheckKeeps ==
    ASSUME PipelineInv, NEW w \in Workers, Rehash(w) \/ Recheck(w)
    PROVE  PipelineInv'
<1>1. /\ task[w] \in Tasks /\ TaskInv(task[w]) /\ task[w].step \in {"rehash", "recheck"}
      /\ archive' = archive /\ canonical' = canonical /\ begun' = begun /\ begun \in Nat
  BY DEF PipelineInv, TypeOK, Rehash, Recheck, files
<1>2. /\ SourceInv(task[w]) /\ (Genuine(task[w]) \/ Tainted(task[w]))
      /\ task[w].left = {} /\ task[w].members \in Rows
  BY <1>1 DEF TaskInv, ImportSteps, ReadSteps
<1>3. ASSUME NEW step \in {"recheck", "stage"}, Goto(w, step)
      PROVE  PipelineInv'
  <2>1. /\ Moves(w) /\ task'[w].step = step
        /\ task'[w].path = task[w].path /\ task'[w].source = task[w].source
        /\ task'[w].since = task[w].since /\ task'[w].left = task[w].left
        /\ task'[w].members = task[w].members /\ task'[w].rows = task[w].rows
    BY <1>1, <1>3, GotoFacts DEF Steps
  <2>2. SourceInv(task[w])'
    BY <1>1, <1>2, <2>1 DEF SourceInv
  <2>3. Genuine(task[w])' \/ Tainted(task[w])'
    BY <1>1, <1>2, <2>1 DEF Genuine, Tainted
  <2>4. TaskInv(task[w])'
    BY <1>2, <2>1, <2>2, <2>3 DEF TaskInv, StagedSteps, DatasetSteps
  <2> QED
    BY <1>1, <2>1, <2>4, Assemble DEF PipelineInv
<1>4. CASE End(w, "failed")
  BY <1>1, <1>4, EndKeeps DEF End, PipelineInv
<1> QED
  BY <1>3, <1>4 DEF Rehash, Recheck

\* The content is written of what was read, through the gates.
LEMMA StageKeeps ==
    ASSUME PipelineInv, NEW w \in Workers, Stage(w)
    PROVE  PipelineInv'
<1>1. /\ task \in [Workers -> Tasks] /\ task[w] \in Tasks /\ TaskInv(task[w])
      /\ task[w].step = "stage"
      /\ archive' = archive /\ canonical' = canonical /\ begun' = begun /\ begun \in Nat
  BY DEF PipelineInv, TypeOK, Stage
<1>2. /\ SourceInv(task[w]) /\ (Genuine(task[w]) \/ Tainted(task[w]))
      /\ task[w].left = {} /\ task[w].members \in Rows /\ task[w].rows \in Rows
  BY <1>1 DEF TaskInv, ImportSteps, ReadSteps, Tasks
<1>3. CASE MayPublish(task[w].rows)
  <2> DEFINE content == Content(task[w].source, task[w].members, task[w].rows)
  <2>1. Publishable(content) /\ content.source = task[w].source
    BY <1>2, <1>3, PublishedRowsType DEF Publishable, Content, Contents, SourceInv
  <2>2. task' = [task EXCEPT ![w].step = "confirm", ![w].dataset = content]
    BY <1>3 DEF Stage
  <2>3. content = Content(task[w].source, task[w].members, task[w].rows)
    OBVIOUS
  <2> HIDE DEF content
  <2>4. task'[w] = [task[w] EXCEPT !.step = "confirm", !.dataset = content]
    BY <1>1, <2>2
  <2>5. /\ task'[w] \in Tasks
        /\ task'[w].step = "confirm" /\ task'[w].dataset = content
        /\ task'[w].path = task[w].path /\ task'[w].source = task[w].source
        /\ task'[w].since = task[w].since /\ task'[w].left = task[w].left
        /\ task'[w].members = task[w].members /\ task'[w].rows = task[w].rows
    BY <1>1, <2>1, <2>4 DEF Tasks, Steps, Publishable
  <2>6. Moves(w)
    BY <1>1, <2>2, <2>5 DEF Moves
  <2>7. SourceInv(task[w])'
    BY <1>1, <1>2, <2>5 DEF SourceInv
  <2>8. Genuine(task[w])' \/ Tainted(task[w])'
    BY <1>1, <1>2, <2>5 DEF Genuine, Tainted
  <2>9. (task[w].dataset = Content(task[w].source, task[w].members, task[w].rows))'
    BY <2>3, <2>5 DEF Content, PublishedRows, Quarantined, RequiresQuarantine,
       EffectiveProduction, ObservedSymbols, Observed
  <2>10. Publishable(task[w].dataset)'
    BY <2>1, <2>5 DEF Publishable
  <2>11. TaskInv(task[w])'
    BY <1>2, <2>1, <2>5, <2>7, <2>8, <2>9, <2>10 DEF TaskInv, DatasetSteps
  <2> QED
    BY <1>1, <2>6, <2>11, Assemble DEF PipelineInv
<1>4. CASE ~MayPublish(task[w].rows)
  <2>1. End(w, "failed")
    BY <1>4 DEF Stage
  <2> QED
    BY <1>1, <2>1, EndKeeps DEF End, PipelineInv
<1> QED
  BY <1>3, <1>4

\* A process goes on to a step between the staging of a content and its rename.
LEMMA StagedGoesOn ==
    ASSUME PipelineInv, NEW w \in Workers, NEW step \in {"place", "rename"},
           task[w].step \in {"confirm", "place"}, Goto(w, step),
           IsOf(task[w].dataset, task[w].source) \/ PutBack(task[w]),
           archive' = archive, canonical' = canonical, begun' = begun
    PROVE  PipelineInv'
<1>1. /\ SourceInv(task[w]) /\ Publishable(task[w].dataset) /\ task[w].members \in Rows
      /\ task[w].dataset.source = task[w].source
  BY DEF PipelineInv, TaskInv, ImportSteps, StagedSteps
<1>2. /\ Moves(w) /\ task'[w].step = step /\ task'[w].dataset = task[w].dataset
      /\ task'[w].path = task[w].path /\ task'[w].source = task[w].source
      /\ task'[w].since = task[w].since /\ task'[w].members = task[w].members
  BY GotoFacts DEF Steps
<1>3. SourceInv(task[w])'
  BY <1>1, <1>2 DEF SourceInv
<1>4. (IsOf(task[w].dataset, task[w].source) \/ PutBack(task[w]))'
  BY <1>2 DEF IsOf, PutBack
<1>5. Publishable(task[w].dataset)'
  BY <1>1, <1>2 DEF Publishable
<1>6. TaskInv(task[w])'
  BY <1>1, <1>2, <1>3, <1>4, <1>5 DEF TaskInv, ReadSteps, StagedSteps, DatasetSteps
<1> QED
  BY <1>2, <1>6, Assemble DEF PipelineInv

\* The last hash vouches for the content, or the source was put back.
LEMMA ConfirmKeeps ==
    ASSUME PipelineInv, NEW w \in Workers, Confirm(w)
    PROVE  PipelineInv'
<1>1. /\ task[w].step = "confirm" /\ TaskInv(task[w]) /\ task[w] \in Tasks
      /\ archive' = archive /\ canonical' = canonical /\ begun' = begun
  BY DEF Confirm, PipelineInv, TypeOK
<1>2. CASE Goto(w, "place") /\ SourceUnchanged(w)
  <2>1. /\ SourceInv(task[w]) /\ (Genuine(task[w]) \/ Tainted(task[w])) /\ task[w].left = {}
        /\ task[w].dataset = Content(task[w].source, task[w].members, task[w].rows)
    BY <1>1 DEF TaskInv, ImportSteps, ReadSteps
  <2>2. CASE Genuine(task[w])
    <3>1. task[w].rows \in Rows /\ task[w].source \in Rows
      BY <1>1, <2>1 DEF Tasks, SourceInv
    <3>2. \A g \in Groups : task[w].rows[g] = task[w].source[g]
      BY <2>1, <2>2 DEF Genuine
    <3>3. task[w].rows = task[w].source
      BY <3>1, <3>2 DEF Rows
    <3>4. IsOf(task[w].dataset, task[w].source)
      BY <2>1, <2>2, <3>3 DEF Genuine, IsOf
    <3> QED
      BY <1>1, <1>2, <3>4, StagedGoesOn
  <2>3. CASE Tainted(task[w])
    <3>1. PutBack(task[w])
      BY <1>2, <2>1, <2>3, TaintedIsPutBack DEF SourceUnchanged, PipelineInv
    <3> QED
      BY <1>1, <1>2, <3>1, StagedGoesOn
  <2> QED
    BY <2>1, <2>2, <2>3
<1>3. CASE End(w, "failed")
  BY <1>1, <1>3, EndKeeps DEF End, PipelineInv
<1> QED
  BY <1>2, <1>3 DEF Confirm

\* An import that finds its dataset published ends there.
LEMMA ExistingKeeps ==
    ASSUME PipelineInv, NEW w \in Workers, Existing(w), archive' = archive, begun' = begun
    PROVE  PipelineInv'
<1>1. PICK outcome \in {"done", "failed"} : End(w, outcome)
  BY DEF Existing
<1> QED
  BY <1>1, EndKeeps DEF End, Existing, PipelineInv

\* Placement looks for the dataset before it renames.
LEMMA PlaceKeeps ==
    ASSUME PipelineInv, NEW w \in Workers, Place(w)
    PROVE  PipelineInv'
<1>1. task[w].step = "place" /\ archive' = archive /\ begun' = begun
  BY DEF Place
<1>2. CASE Existing(w)
  BY <1>1, <1>2, ExistingKeeps
<1>3. CASE Goto(w, "rename") /\ UNCHANGED files
  <2>1. IsOf(task[w].dataset, task[w].source) \/ PutBack(task[w])
    BY <1>1 DEF PipelineInv, TaskInv
  <2> QED
    BY <1>1, <1>3, <2>1, StagedGoesOn DEF files
<1> QED
  BY <1>2, <1>3 DEF Place

\* The rename is the only step that publishes.
LEMMA RenameKeeps ==
    ASSUME PipelineInv, NEW w \in Workers, Rename(w)
    PROVE  PipelineInv'
<1>1. task[w].step = "rename" /\ archive' = archive /\ begun' = begun
  BY DEF Rename
<1>2. CASE Existing(w)
  BY <1>1, <1>2, ExistingKeeps
<1>3. CASE canonical' = canonical \cup {Staging(w)} /\ End(w, "done")
  <2>1. Publishable(task[w].dataset)
    BY <1>1 DEF PipelineInv, TaskInv, StagedSteps
  <2>2. \A s \in canonical' : Publishable(s.id)
    BY <1>3, <2>1 DEF Staging, Snapshot, PipelineInv
  <2> QED
    BY <1>1, <1>3, <2>2, EndKeeps DEF End
<1>4. CASE canonical' = canonical /\ End(w, "failed")
  BY <1>1, <1>4, EndKeeps DEF End, PipelineInv
<1> QED
  BY <1>2, <1>3, <1>4 DEF Rename

\* A command on a published dataset goes on.
LEMMA DatasetGoesOn ==
    ASSUME PipelineInv, NEW w \in Workers, NEW step \in DatasetSteps,
           task[w].step \in DatasetSteps, Goto(w, step),
           archive' = archive, canonical' = canonical, begun' = begun
    PROVE  PipelineInv'
<1>1. IsPublished(task[w].dataset)
  BY DEF PipelineInv, TaskInv
<1>2. Moves(w) /\ task'[w].step = step /\ task'[w].dataset = task[w].dataset
  BY GotoFacts DEF Steps, DatasetSteps
<1>3. TaskInv(task[w])'
  BY <1>1, <1>2 DEF TaskInv, ImportSteps, ReadSteps, StagedSteps, DatasetSteps, IsPublished
<1> QED
  BY <1>2, <1>3, Assemble DEF PipelineInv

\* The steps of a build and of an acceptance.
LEMMA CommandKeeps ==
    ASSUME PipelineInv, NEW w \in Workers,
           Verify(w) \/ Derive(w) \/ RenameDerived(w) \/ Bind(w) \/ Query(w)
    PROVE  PipelineInv'
<1>1. /\ task[w].step \in DatasetSteps
      /\ archive' = archive /\ canonical' = canonical /\ begun' = begun
  BY DEF Verify, Derive, RenameDerived, Bind, Query, DatasetSteps, files
<1>2. \/ \E step \in DatasetSteps : Goto(w, step)
      \/ \E outcome \in {"done", "failed"} : End(w, outcome)
  BY DEF Verify, Derive, RenameDerived, Bind, Query, DatasetSteps
<1>3. ASSUME NEW step \in DatasetSteps, Goto(w, step)
      PROVE  PipelineInv'
  BY <1>1, <1>3, DatasetGoesOn
<1>4. ASSUME NEW outcome \in {"done", "failed"}, End(w, outcome)
      PROVE  PipelineInv'
  BY <1>1, <1>4, EndKeeps DEF End, PipelineInv
<1> QED
  BY <1>2, <1>3, <1>4

\* What an import has read is not touched by another file, and the history of
\* its path only grows.
LEMMA OverwriteKeeps ==
    ASSUME PipelineInv, NEW p \in Overwritable, Overwrite(p)
    PROVE  PipelineInv'
<1>1. PICK rows \in Archives : archive' = [archive EXCEPT ![p] = Append(@, rows)]
  BY DEF Overwrite
<1>2. /\ p \in Paths /\ rows \in Rows /\ archive \in [Paths -> Histories]
      /\ task' = task /\ canonical' = canonical /\ begun' = begun
  BY <1>1, PipelineAssumption DEF Overwrite, files, PipelineInv, TypeOK
<1>3. ASSUME NEW q \in Paths
      PROVE  /\ archive'[q] \in Histories
             /\ DOMAIN archive[q] \subseteq DOMAIN archive'[q]
             /\ \A i \in DOMAIN archive[q] : archive'[q][i] = archive[q][i]
  <2> DEFINE h == archive[q]
  <2>1. h \in Seq(Rows)
    BY <1>2 DEF Histories
  <2>2. archive'[q] = h \/ archive'[q] = Append(h, rows)
    BY <1>1, <1>2
  <2>3. h \in Histories
    BY <1>2
  <2> HIDE DEF h
  <2>4. /\ Append(h, rows) \in Histories
        /\ DOMAIN h \subseteq DOMAIN Append(h, rows)
        /\ \A i \in DOMAIN h : Append(h, rows)[i] = h[i]
    BY <1>2, <2>1 DEF Histories
  <2>5. /\ archive'[q] \in Histories
        /\ DOMAIN h \subseteq DOMAIN archive'[q]
        /\ \A i \in DOMAIN h : archive'[q][i] = h[i]
    BY <2>2, <2>3, <2>4
  <2> QED
    BY <2>5 DEF h
<1>4. TypeOK'
  <2>1. archive' = [q \in Paths |-> archive'[q]]
    BY <1>1, <1>2
  <2> QED
    BY <1>2, <1>3, <2>1 DEF PipelineInv, TypeOK
<1>5. ASSUME NEW w \in Workers
      PROVE  TaskInv(task[w])'
  <2> DEFINE t == task[w]
  <2>1. TaskInv(t) /\ task'[w] = t
    BY <1>2 DEF PipelineInv
  <2> HIDE DEF t
  <2>2. ASSUME SourceInv(t)
        PROVE  /\ SourceInv(task[w])'
               /\ Tainted(t) => Tainted(task[w])'
               /\ PutBack(t) => PutBack(task[w])'
    <3>1. t.path \in Paths
      BY <2>2 DEF SourceInv
    <3>2. SourceInv(task[w])'
      BY <1>3, <2>1, <2>2, <3>1 DEF SourceInv
    <3>3. ASSUME Tainted(t) PROVE Tainted(task[w])'
      BY <1>3, <2>1, <3>1, <3>3 DEF Tainted
    <3>4. ASSUME PutBack(t) PROVE PutBack(task[w])'
      BY <1>3, <2>1, <3>1, <3>4 DEF PutBack
    <3> QED
      BY <3>2, <3>3, <3>4
  <2>3. Genuine(t) => Genuine(task[w])'
    BY <2>1 DEF Genuine
  <2>4. t.step \in ReadSteps \cup StagedSteps \cup {"read", "inspect"} => t.step \in ImportSteps
    BY DEF ReadSteps, StagedSteps, ImportSteps
  <2> QED
    BY <1>2, <2>1, <2>2, <2>3, <2>4
    DEF TaskInv, ReadSteps, StagedSteps, IsPublished, Publishable, IsOf
<1>6. (\A s \in canonical : Publishable(s.id))'
  BY <1>2 DEF PipelineInv, Publishable
<1> QED
  BY <1>4, <1>5, <1>6 DEF PipelineInv

\* Every step keeps the invariant.
LEMMA PipelineStep == PipelineInv /\ [Next]_vars => PipelineInv'
<1> SUFFICES ASSUME PipelineInv, [Next]_vars PROVE PipelineInv'
  OBVIOUS
<1>1. ASSUME NEW w \in Workers, Begin(w) PROVE PipelineInv'
  BY <1>1, ImportBegins, CommandBegins DEF Begin, BeginBuild, BeginAccept
<1>2. ASSUME NEW w \in Workers, Step(w) PROVE PipelineInv'
  BY <1>2, InspectKeeps, ReadKeeps, RecheckKeeps, StageKeeps, ConfirmKeeps, PlaceKeeps,
     RenameKeeps, CommandKeeps DEF Step
<1>3. ASSUME NEW w \in Workers, Crash(w) PROVE PipelineInv'
  BY <1>3, EndKeeps DEF Crash, files, PipelineInv
<1>4. CASE UNCHANGED vars
  BY <1>4 DEF vars, PipelineInv, TypeOK, Publishable, TaskInv, SourceInv, Tainted, PutBack,
     IsPublished
<1> QED
  BY <1>1, <1>2, <1>3, <1>4, OverwriteKeeps DEF Next

\* An import's knowledge of its source is right in every state, for any number
\* of processes, archives and overwritings.
THEOREM PipelineInvariant == Spec => []PipelineInv
<1> QED
  BY PipelineInit, PipelineStep, PTL DEF Spec

\* What is published is the file whose hash its manifest states, if that was not
\* changed and put back while it was imported (import_snapshot).
THEOREM SnapshotCorrect == Spec => SnapshotIsItsArchive
<1> DEFINE Told ==
              \A s \in canonical' \ canonical :
                  \/ IsOf(s.id, s.id.source)
                  \/ \E w \in Workers : s = Staging(w) /\ Restored(w)
<1>1. PipelineInv /\ [Next]_vars => Told
  <2> SUFFICES ASSUME PipelineInv, [Next]_vars, NEW s \in canonical' \ canonical
               PROVE  \/ IsOf(s.id, s.id.source)
                      \/ \E w \in Workers : s = Staging(w) /\ Restored(w)
    OBVIOUS
  <2>1. PICK w \in Workers : Rename(w) /\ canonical' # canonical
    BY DEF Next, Begin, BeginImport, BeginBuild, BeginAccept, BeginCommand, Step, Inspect,
           ReadMember, Rehash, Recheck, Stage, Confirm, Place, Existing, Rename, Verify, Derive,
           RenameDerived, Bind, Query, Crash, Overwrite, files, vars
  <2>2. s = Staging(w) /\ task[w].step = "rename"
    BY <2>1 DEF Rename, Existing
  <2>3. s.id = task[w].dataset
    BY <2>2 DEF Staging, Snapshot
  <2>4. /\ task[w].dataset.source = task[w].source
        /\ IsOf(task[w].dataset, task[w].source) \/ PutBack(task[w])
    BY <2>2 DEF PipelineInv, TaskInv, StagedSteps
  <2>5. PutBack(task[w]) => Restored(w)
    BY DEF PutBack, Restored
  <2> QED
    BY <2>2, <2>3, <2>4, <2>5
<1> QED
  BY <1>1, PipelineInvariant, PTL DEF Spec, SnapshotIsItsArchive

\* What is published is clean, and quarantine never hides a group of a production
\* symbol, in any session (assess_minute_bars, import_snapshot).
THEOREM PublishedCorrect == Spec => []PublishedIsClean
<1>1. PipelineInv => PublishedIsClean
  <2> SUFFICES ASSUME PipelineInv, NEW s \in canonical, NEW g \in Groups
               PROVE  /\ s.id.rows[g] \in {"absent", "clean"}
                      /\ (\/ g[1] \in Declared
                          \/ /\ g[1] \in Core
                             /\ \E h \in Groups : h[1] = g[1] /\ s.id.groups[h] # "absent")
                            => s.id.rows[g] = "clean"
    BY DEF PublishedIsClean
  <2>1. Publishable(s.id) /\ s.id.groups \in Rows
    BY DEF PipelineInv, Publishable, Contents
  <2>2. /\ g[1] \in Declared => g[1] \in EffectiveProduction(s.id.groups)
        /\ g[1] \in Core /\ (\E h \in Groups : h[1] = g[1] /\ s.id.groups[h] # "absent")
              => g[1] \in EffectiveProduction(s.id.groups)
    BY DEF EffectiveProduction, ObservedSymbols, Observed
  <2> QED
    BY <2>1, <2>2, PublishedRowsAreClean DEF Publishable
<1> QED
  BY <1>1, PipelineInvariant, PTL

----------------------------------------------------------------------------
(***************************************************************************)
(* The refinement                                                          *)
(***************************************************************************)

Ids(artifacts) == {a.id : a \in artifacts}

\* A rename, a derivation and a replaced catalog are the store's steps, and
\* every other step of a process leaves what readers see as it is.
LEMMA StepImplements ==
    ASSUME PipelineInv, [Next]_vars
    PROVE  Store!StoreNext \/ UNCHANGED <<canonical, Ids(derived), catalog>>
<1>1. CASE UNCHANGED <<canonical, derived, catalog>>
  BY <1>1 DEF Ids
<1>2. ASSUME NEW w \in Workers, Rename(w), canonical' # canonical
      PROVE  Store!Publish
  <2>1. /\ ~IsPublished(task[w].dataset) /\ canonical' = canonical \cup {Staging(w)}
        /\ UNCHANGED <<derived, catalog>>
    BY <1>2 DEF Rename, Existing
  <2>2. Staging(w).id = task[w].dataset
    BY DEF Staging, Snapshot
  <2> QED
    BY <2>1, <2>2 DEF Store!Publish, Store!IdsOf, IsPublished
<1>3. ASSUME NEW w \in Workers, RenameDerived(w), derived' # derived
      PROVE  Store!Derive
  <2> DEFINE d == task[w].dataset
  <2>1. /\ ~HasArtifacts(d) /\ derived' = derived \cup {Artifacts(d)}
        /\ UNCHANGED <<canonical, catalog>>
    BY <1>3 DEF RenameDerived
  <2>2. IsPublished(d)
    BY <1>3 DEF PipelineInv, TaskInv, RenameDerived, DatasetSteps
  <2>3. Artifacts(d).id = d
    BY DEF Artifacts
  <2>4. Ids(derived') = Ids(derived) \cup {d}
    BY <2>1, <2>3 DEF Ids
  <2> QED
    BY <2>1, <2>2, <2>4 DEF Store!Derive, Store!IdsOf, IsPublished, HasArtifacts, Ids
<1>4. ASSUME NEW w \in Workers, Bind(w), catalog' # catalog
      PROVE  Store!Serve
  BY <1>4 DEF Bind, ArtifactsVerify, Store!Serve
<1> QED
  BY <1>1, <1>2, <1>3, <1>4
  DEF Next, Begin, BeginImport, BeginBuild, BeginAccept, BeginCommand, Step, Inspect,
      ReadMember, Rehash, Recheck, Stage, Confirm, Place, Existing, Rename, Verify, Derive,
      RenameDerived, Bind, Query, Crash, Overwrite, files, vars, Store!StoreNext

\* Any number of imports, builds and acceptances, killed anywhere, look like a
\* store that publishes, derives and serves in single steps
\* (_publish_snapshot, _publish_derived_snapshot, _create_catalog).
THEOREM PipelineImplementsStore == Spec => StoreSpec
<1>1. Init => Store!StoreInit
  BY DEF Init, Store!StoreInit
<1>2. PipelineInv /\ [Next]_vars => [Store!StoreNext]_Store!storeVars
  BY StepImplements DEF Store!storeVars, Ids
<1> QED
  BY <1>1, <1>2, PipelineInvariant, PTL DEF Spec, StoreSpec, Store!StoreSpec

\* A dataset id stands for one snapshot for ever, and the catalog serves only
\* what is published with its derived artifacts: facts about the store, which
\* the pipeline has from it.
THEOREM DatasetsCorrect == Spec => [](Store!IdentityIsUnique /\ Store!ServedIsBacked)
<1> DEFINE StoreInv == Store!IdentityIsUnique /\ Store!ServedIsBacked
<1>1. Store!StoreInit => StoreInv
  BY DEF Store!StoreInit, Store!IdentityIsUnique, Store!ServedIsBacked
<1>2. StoreInv /\ [Store!StoreNext]_Store!storeVars => StoreInv'
  BY DEF Store!StoreNext, Store!Publish, Store!Derive, Store!Serve, Store!storeVars,
         Store!IdsOf, Store!IdentityIsUnique, Store!ServedIsBacked
<1>3. Spec => Store!StoreSpec
  BY PipelineImplementsStore DEF StoreSpec
<1> QED
  BY <1>1, <1>2, <1>3, PTL DEF Store!StoreSpec

----------------------------------------------------------------------------
(***************************************************************************)
(* Temporary directories                                                   *)
(***************************************************************************)

\* The steps of a command that has made its directory and not yet removed it.
WritingSteps == {"confirm", "place", "rename", "renameDerived"}

\* A directory is of a command that was begun, and a command finds its own only
\* in the steps that write: no name is ever used again.
TemporaryInv ==
    /\ temporary \subseteq Workers \X Nat
    /\ \A x \in temporary : x[2] <= begun
    /\ \A w \in Workers :
          /\ task[w].serial <= begun
          /\ task[w].step # "idle" /\ TemporaryOf(w) \in temporary =>
                task[w].step \in WritingSteps

\* What a step of a process does to the directories.
Effect(w) ==
    /\ \A v \in Workers \ {w} : task'[v] = task[v]
    /\ begun' = begun
    /\ temporary' \subseteq temporary \cup {TemporaryOf(w)}
    /\ \/ /\ task'[w].step = "idle" /\ task'[w].serial = 0
          /\ task'[w].outcome # "crashed" => TemporaryOf(w) \notin temporary'
       \/ /\ task'[w].step # "idle" /\ task'[w].serial = task[w].serial
          /\ TemporaryOf(w) \in temporary' => task'[w].step \in WritingSteps

LEMMA EndEffect ==
    ASSUME PipelineInv, NEW w \in Workers, NEW outcome, End(w, outcome), begun' = begun,
           temporary' \subseteq temporary,
           outcome # "crashed" => TemporaryOf(w) \notin temporary'
    PROVE  Effect(w)
<1> DEFINE t == [NoTask EXCEPT !.outcome = outcome]
<1>1. t.step = "idle" /\ t.serial = 0 /\ t.outcome = outcome
  BY DEF NoTask
<1>2. task' = [task EXCEPT ![w] = t] /\ task \in [Workers -> Tasks]
  BY DEF End, PipelineInv, TypeOK
<1> HIDE DEF t
<1>3. task'[w] = t /\ \A v \in Workers \ {w} : task'[v] = task[v]
  BY <1>2
<1> QED
  BY <1>1, <1>3 DEF Effect

LEMMA MoveEffect ==
    ASSUME PipelineInv, NEW w \in Workers, NEW t, task' = [task EXCEPT ![w] = t],
           t.step # "idle", t.serial = task[w].serial, begun' = begun,
           temporary' \subseteq temporary \cup {TemporaryOf(w)},
           TemporaryOf(w) \in temporary' => t.step \in WritingSteps
    PROVE  Effect(w)
<1>1. task'[w] = t /\ \A v \in Workers \ {w} : task'[v] = task[v]
  BY DEF PipelineInv, TypeOK
<1> QED
  BY <1>1 DEF Effect

LEMMA GotoEffect ==
    ASSUME PipelineInv, NEW w \in Workers, NEW step, Goto(w, step), step # "idle",
           begun' = begun, temporary' \subseteq temporary \cup {TemporaryOf(w)},
           TemporaryOf(w) \in temporary' => step \in WritingSteps
    PROVE  Effect(w)
<1> DEFINE t == [task[w] EXCEPT !.step = step]
<1>1. task[w] \in Tasks /\ task' = [task EXCEPT ![w] = t]
  BY DEF Goto, PipelineInv, TypeOK
<1>2. t.step = step /\ t.serial = task[w].serial
  BY <1>1 DEF Tasks
<1> HIDE DEF t
<1> QED
  BY <1>1, <1>2, MoveEffect

\* Every step of a command has this effect.
LEMMA ImportEffect ==
    ASSUME PipelineInv, TemporaryInv, NEW w \in Workers,
           \/ Inspect(w) \/ ReadMember(w) \/ Rehash(w) \/ Recheck(w)
           \/ Stage(w) \/ Confirm(w)
    PROVE  Effect(w)
<1>1. task[w] \in Tasks /\ task \in [Workers -> Tasks]
  BY DEF PipelineInv, TypeOK
<1>2. task[w].step \notin WritingSteps \cup {"idle"} => TemporaryOf(w) \notin temporary
  BY DEF TemporaryInv
<1>3. CASE Inspect(w)
  <2>1. task[w].step = "inspect" /\ begun' = begun /\ temporary' = temporary
    BY <1>3 DEF Inspect, files
  <2>2. TemporaryOf(w) \notin temporary'
    BY <1>2, <2>1 DEF WritingSteps
  <2>3. CASE End(w, "failed")
    BY <2>1, <2>2, <2>3, EndEffect
  <2>4. CASE ~End(w, "failed")
    <3> DEFINE rows == Present(task[w].path)
               left == Selected(rows)
               t == [task[w] EXCEPT !.step = "read", !.members = rows, !.left = left]
    <3>1. task' = [task EXCEPT ![w] = t]
      BY <1>1, <1>3, <2>4 DEF Inspect
    <3> HIDE DEF left, rows
    <3>2. t.step = "read" /\ t.serial = task[w].serial
      BY <1>1 DEF Tasks
    <3> HIDE DEF t
    <3> QED
      BY <2>1, <2>2, <3>1, <3>2, MoveEffect
  <2> QED
    BY <2>3, <2>4
<1>4. CASE ReadMember(w)
  <2>1. task[w].step = "read" /\ begun' = begun /\ temporary' = temporary
    BY <1>4 DEF ReadMember, files
  <2>2. TemporaryOf(w) \notin temporary'
    BY <1>2, <2>1 DEF WritingSteps
  <2>3. PICK g \in task[w].left :
          \/ task' = [task EXCEPT ![w].rows[g] = Present(task[w].path)[g],
                                  ![w].left = @ \ {g},
                                  ![w].step = IF task[w].left = {g} THEN "rehash" ELSE "read"]
          \/ End(w, "failed")
    BY <1>4 DEF ReadMember
  <2>4. CASE End(w, "failed")
    BY <2>1, <2>2, <2>4, EndEffect
  <2>5. CASE task' = [task EXCEPT ![w].rows[g] = Present(task[w].path)[g],
                                  ![w].left = @ \ {g},
                                  ![w].step = IF task[w].left = {g} THEN "rehash" ELSE "read"]
    <3> DEFINE rows == [task[w].rows EXCEPT ![g] = Present(task[w].path)[g]]
               left == task[w].left \ {g}
               step == IF task[w].left = {g} THEN "rehash" ELSE "read"
               t == [task[w] EXCEPT !.rows = rows, !.left = left, !.step = step]
    <3>1. task' = [task EXCEPT ![w] = t]
      BY <1>1, <2>5
    <3>2. step # "idle"
      OBVIOUS
    <3> HIDE DEF rows, left, step
    <3>3. t.step = step /\ t.serial = task[w].serial
      BY <1>1 DEF Tasks
    <3> HIDE DEF t
    <3> QED
      BY <2>1, <2>2, <3>1, <3>2, <3>3, MoveEffect
  <2> QED
    BY <2>3, <2>4, <2>5
<1>5. CASE Rehash(w) \/ Recheck(w)
  <2>1. task[w].step \in {"rehash", "recheck"} /\ begun' = begun /\ temporary' = temporary
        /\ (Goto(w, "recheck") \/ Goto(w, "stage") \/ End(w, "failed"))
    BY <1>5 DEF Rehash, Recheck, files
  <2>2. TemporaryOf(w) \notin temporary'
    BY <1>2, <2>1 DEF WritingSteps
  <2> QED
    BY <2>1, <2>2, EndEffect, GotoEffect
<1>6. CASE Stage(w)
  <2>1. task[w].step = "stage" /\ begun' = begun
    BY <1>6 DEF Stage
  <2>2. CASE temporary' = temporary /\ End(w, "failed")
    <3>1. TemporaryOf(w) \notin temporary'
      BY <1>2, <2>1, <2>2 DEF WritingSteps
    <3> QED
      BY <2>1, <2>2, <3>1, EndEffect
  <2>3. CASE /\ temporary' = temporary \cup {TemporaryOf(w)}
             /\ task' = [task EXCEPT
                   ![w].step = "confirm",
                   ![w].dataset = Content(task[w].source, task[w].members, task[w].rows)]
    <3> DEFINE dataset == Content(task[w].source, task[w].members, task[w].rows)
               t == [task[w] EXCEPT !.step = "confirm", !.dataset = dataset]
    <3>1. task' = [task EXCEPT ![w] = t]
      BY <1>1, <2>3
    <3> HIDE DEF dataset
    <3>2. t.step = "confirm" /\ t.serial = task[w].serial
      BY <1>1 DEF Tasks
    <3> HIDE DEF t
    <3> QED
      BY <2>1, <2>3, <3>1, <3>2, MoveEffect DEF WritingSteps
  <2> QED
    BY <1>6, <2>2, <2>3 DEF Stage
<1>7. CASE Confirm(w)
  <2>1. begun' = begun
    BY <1>7 DEF Confirm
  <2>2. CASE Goto(w, "place") /\ temporary' = temporary
    BY <2>1, <2>2, GotoEffect DEF WritingSteps
  <2>3. CASE End(w, "failed") /\ RemoveTemporary(w)
    BY <2>1, <2>3, EndEffect DEF RemoveTemporary
  <2> QED
    BY <1>7, <2>2, <2>3 DEF Confirm
<1> QED
  BY <1>3, <1>4, <1>5, <1>6, <1>7

LEMMA ExistingEffect ==
    ASSUME PipelineInv, NEW w \in Workers, Existing(w), begun' = begun
    PROVE  Effect(w)
<1>1. PICK outcome \in {"done", "failed"} : End(w, outcome)
  BY DEF Existing
<1>2. temporary' = temporary \ {TemporaryOf(w)}
  BY DEF Existing, RemoveTemporary
<1> QED
  BY <1>1, <1>2, EndEffect

LEMMA PublishEffect ==
    ASSUME PipelineInv, TemporaryInv, NEW w \in Workers, Place(w) \/ Rename(w)
    PROVE  Effect(w)
<1>1. begun' = begun
  BY DEF Place, Rename
<1>2. CASE Existing(w)
  BY <1>1, <1>2, ExistingEffect
<1>3. CASE Goto(w, "rename") /\ UNCHANGED files
  BY <1>1, <1>3, GotoEffect DEF files, WritingSteps
<1>4. CASE RemoveTemporary(w) /\ \E outcome \in {"done", "failed"} : End(w, outcome)
  BY <1>1, <1>4, EndEffect DEF RemoveTemporary
<1> QED
  BY <1>2, <1>3, <1>4 DEF Place, Rename

LEMMA CatalogEffect ==
    ASSUME PipelineInv, TemporaryInv, NEW w \in Workers,
           Verify(w) \/ Derive(w) \/ RenameDerived(w) \/ Bind(w) \/ Query(w)
    PROVE  Effect(w)
<1>1. task[w].step \notin WritingSteps \cup {"idle"} => TemporaryOf(w) \notin temporary
  BY DEF TemporaryInv
<1>2. begun' = begun
  BY DEF Verify, Derive, RenameDerived, Bind, Query
<1>3. CASE Verify(w)
  <2>1. task[w].step = "verify" /\ temporary' = temporary
        /\ (End(w, "failed") \/ Goto(w, "derive") \/ Goto(w, "query"))
    BY <1>3 DEF Verify, files
  <2>2. TemporaryOf(w) \notin temporary'
    BY <1>1, <2>1 DEF WritingSteps
  <2> QED
    BY <1>2, <2>1, <2>2, EndEffect, GotoEffect
<1>4. CASE Derive(w)
  <2>1. task[w].step = "derive"
    BY <1>4 DEF Derive
  <2>2. CASE Goto(w, "bind") /\ temporary' = temporary
    <3>1. TemporaryOf(w) \notin temporary'
      BY <1>1, <2>1, <2>2 DEF WritingSteps
    <3> QED
      BY <1>2, <2>2, <3>1, GotoEffect
  <2>3. CASE Goto(w, "renameDerived") /\ temporary' = temporary \cup {TemporaryOf(w)}
    BY <1>2, <2>3, GotoEffect DEF WritingSteps
  <2> QED
    BY <1>4, <2>2, <2>3 DEF Derive
<1>5. CASE RenameDerived(w)
  <2>1. temporary' = temporary \ {TemporaryOf(w)} /\ (End(w, "failed") \/ Goto(w, "bind"))
    BY <1>5 DEF RenameDerived, RemoveTemporary
  <2> QED
    BY <1>2, <2>1, EndEffect, GotoEffect
<1>6. CASE Bind(w) \/ Query(w)
  <2>1. temporary' = temporary /\ task[w].step \in {"bind", "query"}
        /\ \E outcome \in {"done", "failed"} : End(w, outcome)
    BY <1>6 DEF Bind, Query, files
  <2>2. TemporaryOf(w) \notin temporary'
    BY <1>1, <2>1 DEF WritingSteps
  <2> QED
    BY <1>2, <2>1, <2>2, EndEffect
<1> QED
  BY <1>3, <1>4, <1>5, <1>6

LEMMA StepEffect ==
    ASSUME PipelineInv, TemporaryInv, NEW w \in Workers, Step(w) \/ Crash(w)
    PROVE  Effect(w)
<1>1. CASE Crash(w)
  BY <1>1, EndEffect DEF Crash, End, files
<1> QED
  BY <1>1, ImportEffect, PublishEffect, CatalogEffect DEF Step

\* A command that begins has a directory's name of its own.
LEMMA BeginFacts ==
    ASSUME PipelineInv, NEW w \in Workers, Begin(w)
    PROVE  /\ \A v \in Workers \ {w} : task'[v] = task[v]
           /\ begun' = begun + 1 /\ temporary' = temporary
           /\ task[w].step = "idle"
           /\ task'[w].step # "idle" /\ task'[w].serial = begun + 1
<1>1. task \in [Workers -> Tasks]
  BY DEF PipelineInv, TypeOK
<1> DEFINE serial == begun + 1
<1>2. ASSUME NEW t, task' = [task EXCEPT ![w] = t]
      PROVE  task'[w] = t /\ \A v \in Workers \ {w} : task'[v] = task[v]
  BY <1>1, <1>2
<1>3. /\ begun' = serial /\ temporary' = temporary /\ task[w].step = "idle"
  BY DEF Begin, BeginImport, BeginBuild, BeginAccept, BeginCommand, files
<1> HIDE DEF serial
<1>4. CASE BeginImport(w)
  <2>1. PICK p \in Paths :
          task' = [task EXCEPT ![w] = [NoTask EXCEPT !.step = "inspect", !.command = "import",
                                                     !.serial = serial, !.path = p,
                                                     !.source = Present(p),
                                                     !.since = Len(archive[p])]]
    BY <1>4 DEF BeginImport, serial
  <2> DEFINE source == Present(p)
             since == Len(archive[p])
             t == [NoTask EXCEPT !.step = "inspect", !.command = "import",
                                 !.serial = serial, !.path = p, !.source = source,
                                 !.since = since]
  <2>2. task' = [task EXCEPT ![w] = t]
    BY <2>1
  <2> HIDE DEF source, since
  <2>3. t.step = "inspect" /\ t.serial = serial
    BY DEF NoTask
  <2> HIDE DEF t
  <2> QED
    BY <1>2, <1>3, <2>2, <2>3 DEF serial
<1>5. ASSUME NEW command \in {"build", "accept"}, BeginCommand(w, command)
      PROVE  /\ \A v \in Workers \ {w} : task'[v] = task[v]
             /\ task'[w].step # "idle" /\ task'[w].serial = serial
  <2>1. PICK s \in canonical :
          task' = [task EXCEPT ![w] = [NoTask EXCEPT !.step = "verify", !.command = command,
                                                     !.serial = serial, !.dataset = s.id]]
    BY <1>5 DEF BeginCommand, serial
  <2> DEFINE dataset == s.id
             t == [NoTask EXCEPT !.step = "verify", !.command = command,
                                 !.serial = serial, !.dataset = dataset]
  <2>2. task' = [task EXCEPT ![w] = t]
    BY <2>1
  <2> HIDE DEF dataset
  <2>3. t.step = "verify" /\ t.serial = serial
    BY DEF NoTask
  <2> HIDE DEF t
  <2> QED
    BY <1>2, <2>2, <2>3
<1> QED
  BY <1>3, <1>4, <1>5 DEF Begin, BeginBuild, BeginAccept, serial

LEMMA TemporaryStep == PipelineInv /\ TemporaryInv /\ [Next]_vars => TemporaryInv'
<1> SUFFICES ASSUME PipelineInv, TemporaryInv, [Next]_vars PROVE TemporaryInv'
  OBVIOUS
<1>1. /\ begun \in Nat /\ task \in [Workers -> Tasks]
      /\ \A v \in Workers : task[v].serial \in Nat
  BY DEF PipelineInv, TypeOK, Tasks
<1>2. ASSUME NEW w \in Workers, Begin(w) PROVE TemporaryInv'
  <2>1. /\ \A v \in Workers \ {w} : task'[v] = task[v]
        /\ begun' = begun + 1 /\ temporary' = temporary
        /\ task'[w].serial = begun + 1
    BY <1>2, BeginFacts
  <2>2. <<w, begun + 1>> \notin temporary
    BY <1>1 DEF TemporaryInv
  <2>3. \A x \in temporary : x[2] \in Nat /\ x[2] <= begun
    BY DEF TemporaryInv
  <2>4. (\A x \in temporary : x[2] <= begun)'
    BY <1>1, <2>1, <2>3
  <2>5. ASSUME NEW v \in Workers
        PROVE  /\ task'[v].serial <= begun'
               /\ task'[v].step # "idle" /\ <<v, task'[v].serial>> \in temporary' =>
                     task'[v].step \in WritingSteps
    BY <1>1, <2>1, <2>2 DEF TemporaryInv, TemporaryOf
  <2> QED
    BY <2>1, <2>4, <2>5 DEF TemporaryInv, TemporaryOf
<1>3. ASSUME NEW w \in Workers, Step(w) \/ Crash(w) PROVE TemporaryInv'
  <2>1. Effect(w)
    BY <1>3, StepEffect
  <2>2. /\ \A v \in Workers \ {w} : task'[v] = task[v]
        /\ begun' = begun /\ temporary' \subseteq temporary \cup {TemporaryOf(w)}
    BY <2>1 DEF Effect
  <2>3. TemporaryOf(w) \in Workers \X Nat /\ TemporaryOf(w)[2] <= begun
    BY <1>1 DEF TemporaryOf, TemporaryInv
  <2>4. temporary' \subseteq Workers \X Nat /\ \A x \in temporary' : x[2] <= begun'
    BY <2>2, <2>3 DEF TemporaryInv
  <2>5. ASSUME NEW v \in Workers, v # w
        PROVE  /\ task'[v].serial <= begun'
               /\ task'[v].step # "idle" /\ <<v, task'[v].serial>> \in temporary' =>
                     task'[v].step \in WritingSteps
    BY <2>2, <2>5 DEF TemporaryInv, TemporaryOf
  <2>6. /\ task'[w].serial <= begun'
        /\ task'[w].step # "idle" /\ <<w, task'[w].serial>> \in temporary' =>
              task'[w].step \in WritingSteps
    <3>1. task[w].serial <= begun
      BY DEF TemporaryInv
    <3> QED
      BY <1>1, <2>1, <2>2, <3>1 DEF Effect, TemporaryOf
  <2> QED
    BY <2>4, <2>5, <2>6 DEF TemporaryInv, TemporaryOf
<1>4. CASE (\E p \in Overwritable : Overwrite(p)) \/ UNCHANGED vars
  <2>1. temporary' = temporary /\ task' = task /\ begun' = begun
    BY <1>4 DEF Overwrite, files, vars
  <2> QED
    BY <2>1 DEF TemporaryInv, TemporaryOf
<1> QED
  BY <1>2, <1>3, <1>4 DEF Next

\* The directories there are belong to commands that were begun, and to no other
\* command for ever after.
LEMMA TemporaryInvariant == Spec => []TemporaryInv
<1>1. Init => TemporaryInv
  BY DEF Init, TemporaryInv, NoTask
<1> QED
  BY <1>1, TemporaryStep, PipelineInvariant, PTL DEF Spec

\* Whichever check fails or rename is lost, a command removes its directory
\* before it ends; only the directory of a process that dies stays.
THEOREM TemporariesCorrect == Spec => TemporariesAreRemoved
<1> DEFINE Removed ==
              \A w \in Workers :
                  task[w].step # "idle" /\ task'[w].step = "idle"
                      /\ task'[w].outcome # "crashed" =>
                      TemporaryOf(w) \notin temporary'
<1>1. PipelineInv /\ TemporaryInv /\ [Next]_vars => Removed
  <2> SUFFICES ASSUME PipelineInv, TemporaryInv, [Next]_vars, NEW w \in Workers,
                      task[w].step # "idle", task'[w].step = "idle",
                      task'[w].outcome # "crashed"
               PROVE  TemporaryOf(w) \notin temporary'
    OBVIOUS
  <2>1. PICK v \in Workers : Begin(v) \/ Step(v) \/ Crash(v)
    BY DEF Next, Overwrite, vars
  <2>2. ~Begin(v)
    <3> SUFFICES ASSUME Begin(v) PROVE FALSE
      OBVIOUS
    <3> QED
      BY BeginFacts
  <2>3. Effect(v)
    BY <2>1, <2>2, StepEffect
  <2>4. v = w
    BY <2>3 DEF Effect
  <2> QED
    BY <2>3, <2>4 DEF Effect
<1> QED
  BY <1>1, PipelineInvariant, TemporaryInvariant, PTL DEF Spec, TemporariesAreRemoved

=============================================================================
