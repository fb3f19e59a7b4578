---------------------------- MODULE DataPipeline ----------------------------
(***************************************************************************)
(* data/archive.py, data/snapshot.py and data/catalog.py: the commands     *)
(* import-archive, build-catalog and accept, run by several processes on   *)
(* one file system.  A step is what one process does between two looks at  *)
(* what the others can change: the archive, the published directories, the *)
(* catalog file.  The hashes are collision free: the rows of a file stand  *)
(* for its hash, and the content of a snapshot for its dataset id.         *)
(***************************************************************************)
EXTENDS DataQuality, Sequences

CONSTANTS
    Workers,          \* the processes
    Paths,            \* where archives lie
    Overwritable,     \* the paths somebody writes to during an import
    Archives,         \* what may lie there: a subset of Rows
    Nothing,          \* no dataset
    MaxCommands,      \* bound: commands of all processes
    MaxEditions       \* bound: how often a path is overwritten

ASSUME PipelineAssumption ==
    /\ Archives \subseteq Rows
    /\ Overwritable \subseteq Paths
    /\ MaxCommands \in Nat
    /\ MaxEditions \in Nat

VARIABLES
    platform,     \* what rename does to an existing directory
    archive,      \* path -> the files that have lain there, the present one last
    canonical,    \* the snapshots under their final names
    derived,      \* the derived artifacts under their final names
    catalog,      \* the dataset of the catalog's views
    temporary,    \* the .snapshot- and .derived- directories
    task,         \* process -> the command it runs
    begun         \* how many commands were begun

vars == <<platform, archive, canonical, derived, catalog, temporary, task, begun>>
files == <<canonical, derived, catalog, temporary>>

\* content_sha256 covers the published partitions and the import evidence: the
\* hash of the source, those of its members, and the quality of every group.
Content(source, members, rows) ==
    [source |-> source, members |-> members, groups |-> rows, rows |-> PublishedRows(rows)]

\* The snapshot of a content: its dataset id and the manifest's source_uri.
Snapshot(content, path) == [id |-> content, uri |-> path]

\* The file that lies at a path; the code sees nothing of those before it.
Present(p) == archive[p][Len(archive[p])]

Steps == {"idle", "inspect", "read", "rehash", "recheck", "stage", "confirm", "place",
          "rename", "verify", "derive", "renameDerived", "bind", "query"}

\* `since' is the place of the hashed file in the path's history: no variable
\* of the code, and no guard reads it.
NoTask == [step |-> "idle", command |-> "none", path |-> Nothing, source |-> Nothing,
           since |-> 0, members |-> Nothing, rows |-> [g \in Groups |-> "absent"], left |-> {},
           dataset |-> Nothing, serial |-> 0, outcome |-> "none"]

Goto(w, step) == task' = [task EXCEPT ![w].step = step]

\* The command returns or raises; it forgets everything but its outcome.
End(w, outcome) ==
    task' = [task EXCEPT ![w] = [NoTask EXCEPT !.outcome = outcome]]

\* The directory mkdtemp makes for a command.
TemporaryOf(w) == <<w, task[w].serial>>

\* _safe_remove_temporary, and rmtree in _publish_derived_snapshot.
RemoveNothing(w) == temporary' = temporary
RemoveTemporary(w) == temporary' = temporary \ {TemporaryOf(w)}

----------------------------------------------------------------------------
(* import-archive *)

BeginImport(w) ==
    /\ task[w].step = "idle"
    /\ begun < MaxCommands
    /\ begun' = begun + 1
    /\ \E p \in Paths :
          task' = [task EXCEPT ![w] = [NoTask EXCEPT !.step = "inspect",
                                                     !.command = "import",
                                                     !.serial = begun + 1,
                                                     !.path = p,
                                                     !.source = Present(p),
                                                     !.since = Len(archive[p])]]
    /\ UNCHANGED <<platform, archive, files>>

\* The approved members that the import selects.
Selected(rows) == Observed(rows)

\* inspect_archive opens the file again to hash its members, after the whole
\* file; a declared member that is not there ends the import.
Inspect(w) ==
    /\ task[w].step = "inspect"
    /\ LET rows == Present(task[w].path)
       IN  IF Selected(rows) # {}
           THEN task' = [task EXCEPT ![w].step = "read", ![w].members = rows,
                                     ![w].left = Selected(rows)]
           ELSE End(w, "failed")
    /\ UNCHANGED <<platform, archive, files, begun>>

\* iter_archive_member_frames, one member after the other; the finest members
\* that the gates tell apart are those of one group.
ReadMember(w) ==
    /\ task[w].step = "read"
    /\ \E g \in task[w].left :
          IF Present(task[w].path)[g] # "absent"
          THEN task' = [task EXCEPT ![w].rows[g] = Present(task[w].path)[g],
                                    ![w].left = @ \ {g},
                                    ![w].step = IF task[w].left = {g} THEN "rehash" ELSE "read"]
          ELSE End(w, "failed")
    /\ UNCHANGED <<platform, archive, files, begun>>

\* sha256_file is what it was when the import began.
SourceUnchecked(w) == TRUE
SourceUnchanged(w) == Present(task[w].path) = task[w].source

\* The second inspection after the read: the hash of the file, and then those
\* of its members.
Rehash(w) ==
    /\ task[w].step = "rehash"
    /\ IF SourceUnchanged(w) THEN Goto(w, "recheck") ELSE End(w, "failed")
    /\ UNCHANGED <<platform, archive, files, begun>>

Recheck(w) ==
    /\ task[w].step = "recheck"
    /\ IF Present(task[w].path) = task[w].members THEN Goto(w, "stage") ELSE End(w, "failed")
    /\ UNCHANGED <<platform, archive, files, begun>>

\* Order, cadence, canonical rows, production gates and quarantine; then
\* mkdtemp, the partitions, the evidence and the manifest.
Stage(w) ==
    /\ task[w].step = "stage"
    /\ IF MayPublish(task[w].rows)
       THEN /\ temporary' = temporary \cup {TemporaryOf(w)}
            /\ task' = [task EXCEPT
                  ![w].step = "confirm",
                  ![w].dataset = Content(task[w].source, task[w].members, task[w].rows)]
       ELSE End(w, "failed") /\ UNCHANGED temporary
    /\ UNCHANGED <<platform, archive, canonical, derived, catalog, begun>>

\* The hash of the archive once more, with everything written.
Confirm(w) ==
    /\ task[w].step = "confirm"
    /\ IF SourceUnchanged(w)
       THEN Goto(w, "place") /\ UNCHANGED temporary
       ELSE End(w, "failed") /\ RemoveTemporary(w)
    /\ UNCHANGED <<platform, archive, canonical, derived, catalog, begun>>

Staging(w) == Snapshot(task[w].dataset, task[w].path)

\* The identity is taken: the same manifest is returned, another one refused.
Existing(w) ==
    /\ End(w, IF Staging(w) \in canonical THEN "done" ELSE "failed")
    /\ RemoveTemporary(w)
    /\ UNCHANGED <<canonical, derived, catalog>>

IsPublished(d) == \E s \in canonical : s.id = d

\* final_root.exists()
Place(w) ==
    /\ task[w].step = "place"
    /\ IF IsPublished(task[w].dataset)
       THEN Existing(w)
       ELSE Goto(w, "rename") /\ UNCHANGED files
    /\ UNCHANGED <<platform, archive, begun>>

\* temporary_root.rename(final_root).  Windows answers FileExistsError when
\* another import got there first, POSIX an OSError that is not one.
RenameOver(w) ==
    /\ task[w].step = "rename"
    /\ canonical' = {s \in canonical : s.id # task[w].dataset} \cup {Staging(w)}
    /\ RemoveTemporary(w)
    /\ End(w, "done")
    /\ UNCHANGED <<platform, archive, derived, catalog, begun>>
Rename(w) ==
    /\ task[w].step = "rename"
    /\ \/ /\ ~IsPublished(task[w].dataset)
          /\ canonical' = canonical \cup {Staging(w)}
          /\ RemoveTemporary(w)
          /\ End(w, "done")
          /\ UNCHANGED <<derived, catalog>>
       \/ /\ IsPublished(task[w].dataset)
          /\ platform = "windows"
          /\ Existing(w)
       \/ /\ IsPublished(task[w].dataset)
          /\ platform = "posix"
          /\ End(w, "failed")
          /\ RemoveTemporary(w)
          /\ UNCHANGED <<canonical, derived, catalog>>
    /\ UNCHANGED <<platform, archive, begun>>

----------------------------------------------------------------------------
(* build-catalog and accept *)

\* verify_snapshot recomputes the hashes, the evidence and the quality.
SnapshotVerifies(d) == IsPublished(d) /\ QualityPassed(d.rows, EffectiveProduction(d.rows))

\* _quality_frame: the published groups are what the evidence says.
EvidenceAgrees(d) == d.rows = PublishedRows(d.groups)

\* _write_derived_artifacts: resampled bars and metadata, with their parent.
Artifacts(d) == [id |-> d, bars |-> d.rows]

\* _verified_artifact_paths: the lineage names this parent.
HasArtifacts(d) == \E a \in derived : a.id = d

\* The derived content is reproduced from the parent and compared.
ArtifactsVerify(d) == \E a \in derived : a.id = d /\ a.bars = d.rows

\* accept_dataset requires every core symbol among the manifest's.
CoversCore(d) == Core \subseteq ObservedSymbols(d.rows)

\* A published dataset is named to build-catalog or to accept.
BeginCommand(w, command) ==
    /\ task[w].step = "idle"
    /\ begun < MaxCommands
    /\ begun' = begun + 1
    /\ \E s \in canonical :
          task' = [task EXCEPT ![w] = [NoTask EXCEPT !.step = "verify",
                                                     !.command = command,
                                                     !.serial = begun + 1,
                                                     !.dataset = s.id]]
    /\ UNCHANGED <<platform, archive, files>>

BeginBuild(w) == BeginCommand(w, "build")
BeginAccept(w) == BeginCommand(w, "accept")

\* build_catalog goes on to the derived artifacts; accept_dataset needs them
\* to be there and every core symbol to be covered.
Verify(w) ==
    /\ task[w].step = "verify"
    /\ LET d == task[w].dataset
       IN  CASE ~(SnapshotVerifies(d) /\ EvidenceAgrees(d)) -> End(w, "failed")
             [] task[w].command = "build" -> Goto(w, "derive")
             [] ArtifactsVerify(d) /\ CoversCore(d) -> Goto(w, "query")
             [] OTHER -> End(w, "failed")
    /\ UNCHANGED <<platform, archive, files, begun>>

\* _publish_derived_snapshot: artifacts that are there are verified and used,
\* else they are written next to their place.
Derive(w) ==
    /\ task[w].step = "derive"
    /\ IF HasArtifacts(task[w].dataset)
       THEN Goto(w, "bind") /\ UNCHANGED temporary
       ELSE Goto(w, "renameDerived") /\ temporary' = temporary \cup {TemporaryOf(w)}
    /\ UNCHANGED <<platform, archive, canonical, derived, catalog, begun>>

\* The loser of two builds raises, whatever the platform.
RenameDerived(w) ==
    /\ task[w].step = "renameDerived"
    /\ IF HasArtifacts(task[w].dataset)
       THEN End(w, "failed") /\ UNCHANGED derived
       ELSE Goto(w, "bind") /\ derived' = derived \cup {Artifacts(task[w].dataset)}
    /\ RemoveTemporary(w)
    /\ UNCHANGED <<platform, archive, canonical, catalog, begun>>

\* _create_catalog: os.replace, whatever the catalog was bound to.
Bind(w) ==
    /\ task[w].step = "bind"
    /\ IF ArtifactsVerify(task[w].dataset)
       THEN catalog' = task[w].dataset /\ End(w, "done")
       ELSE End(w, "failed") /\ UNCHANGED catalog
    /\ UNCHANGED <<platform, archive, canonical, derived, temporary, begun>>

\* The views must be bound to the dataset that is to be accepted.
BoundTo(w) == catalog = task[w].dataset

Query(w) ==
    /\ task[w].step = "query"
    /\ End(w, IF BoundTo(w) THEN "done" ELSE "failed")
    /\ UNCHANGED <<platform, archive, files, begun>>

----------------------------------------------------------------------------

\* Somebody writes another file to the path of an archive, at any moment of an
\* import; it may be one that lay there before.
Overwrite(p) ==
    /\ Len(archive[p]) <= MaxEditions
    /\ \E rows \in Archives \ {Present(p)} :
          archive' = [archive EXCEPT ![p] = Append(@, rows)]
    /\ UNCHANGED <<platform, files, task, begun>>

\* A process dies; its temporary directory stays.
Crash(w) ==
    /\ task[w].step # "idle"
    /\ task' = [task EXCEPT ![w] = [NoTask EXCEPT !.outcome = "crashed"]]
    /\ UNCHANGED <<platform, archive, files, begun>>

Step(w) ==
    \/ Inspect(w) \/ ReadMember(w) \/ Rehash(w) \/ Recheck(w) \/ Stage(w)
    \/ Confirm(w) \/ Place(w) \/ Rename(w)
    \/ Verify(w) \/ Derive(w) \/ RenameDerived(w) \/ Bind(w) \/ Query(w)

Begin(w) == BeginImport(w) \/ BeginBuild(w) \/ BeginAccept(w)

\* At first one archive lies, in copies, at every path.
Init ==
    /\ platform \in {"posix", "windows"}
    /\ \E rows \in Archives : archive = [p \in Paths |-> <<rows>>]
    /\ canonical = {}
    /\ derived = {}
    /\ catalog = Nothing
    /\ temporary = {}
    /\ task = [w \in Workers |-> NoTask]
    /\ begun = 0

Next ==
    \/ \E w \in Workers : Begin(w) \/ Step(w) \/ Crash(w)
    \/ \E p \in Overwritable : Overwrite(p)

Spec == Init /\ [][Next]_vars

----------------------------------------------------------------------------
(***************************************************************************)
(* Properties                                                              *)
(***************************************************************************)

Store == INSTANCE DatasetStore WITH
            Unserved <- Nothing, published <- canonical,
            derived <- {a.id : a \in derived}, served <- catalog

\* Concurrent imports, builds, crashes and overwritten archives look to every
\* reader like whole snapshots that appear once and never change, derived
\* artifacts of published snapshots only, and a catalog of what has both.
StoreSpec == Store!StoreSpec

\* What a snapshot of one file alone would be.
IsOf(d, rows) == d = Content(rows, rows, rows)

\* The path was given another file after the import had hashed its source, and
\* then the source again.
Restored(w) ==
    \E j, k \in DOMAIN archive[task[w].path] :
        /\ task[w].since < j /\ j < k
        /\ archive[task[w].path][j] # task[w].source
        /\ archive[task[w].path][k] = task[w].source

\* A snapshot is published with the members and rows of the very file whose
\* hash its manifest states, though the file may be overwritten while it is
\* hashed, inspected and read member by member.  The hashes show every change
\* but one: a file that is put back before it is hashed again.
SnapshotIsItsArchive ==
    [][\A s \in canonical' \ canonical :
          \/ IsOf(s.id, s.id.source)
          \/ \E w \in Workers : s = Staging(w) /\ Restored(w)]_vars

\* The manifest's source hash is that of the file the rows were read of: not so
\* when a file is put back between two hashes.
SnapshotIsTheFileItNames == \A s \in canonical : IsOf(s.id, s.id.source)

\* A published group is complete and well formed; every session of a declared
\* symbol, and of a core symbol that any row was read of, is published: none
\* is left out to make the rest pass.
PublishedIsClean ==
    \A s \in canonical : \A g \in Groups :
        /\ s.id.rows[g] \in {"absent", "clean"}
        /\ (\/ g[1] \in Declared
            \/ g[1] \in Core /\ \E h \in Groups : h[1] = g[1] /\ s.id.groups[h] # "absent")
              => s.id.rows[g] = "clean"

\* No command that ends leaves its temporary directory behind, whichever of
\* its checks fails or rename it loses; only a process that dies does.
TemporariesAreRemoved ==
    [][\A w \in Workers :
          task[w].step # "idle" /\ task'[w].step = "idle" /\ task'[w].outcome # "crashed" =>
              TemporaryOf(w) \notin temporary']_vars

=============================================================================
