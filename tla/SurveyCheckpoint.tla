--------------------------- MODULE SurveyCheckpoint ----------------------------
(***************************************************************************)
(* The resumable workflow of one full Survey in "event" dispatch           *)
(* (survey/one_shot.py, resumable_runner.py, durable_workflow.py) and its  *)
(* checkpoints on S3 (checkpoints.py): the tasks that work on the job, one *)
(* after the other, each on an empty disk.  That no two of them work at    *)
(* the same time is OneTaskPerJob of SurveyCompute.                        *)
(*                                                                         *)
(* A unit of the workflow writes one file, its declared artifact.  A       *)
(* content is the task it comes from and what it says; its hash is the     *)
(* content itself, and the key of its object names the unit as well.       *)
(***************************************************************************)
EXTENDS SurveyUnits

CONSTANTS
    MaxTasks      \* bound on the tasks that claim the job

ASSUME CheckpointConstants == MaxTasks \in Nat \ {0}

FannedOut == {"reference_seeds", "paper_cards", "sections"}

Units ==
    ((ToSet(Steps) \ FannedOut) \X {Whole})
        \cup ((ToSet(Steps) \cap {"reference_seeds", "paper_cards"}) \X Papers)
        \cup ({"sections"} \X Slugs)

VARIABLES
    job,        \* of the survey_jobs row: status, terminal_outcome, whether it is charged,
                \* whether its execution deadline has passed
    pointer,    \* its checkpoint_* columns: the committed manifest
    manifests,  \* the manifests on S3
    objects,    \* the objects on S3: unit and content of the key, and whether the body is that
    archive,    \* the files of the archive on S3, once its manifest is there
    task,       \* the task at work
    unit,       \* what each unit does in that task
    root,       \* the files of the task's run directory
    publish,    \* the checkpoint being published, under the commit lock
    slipped     \* history: the units committed that the executor has not counted, until a
                \* commit is counted or a task restores its files

vars == <<job, pointer, manifests, objects, archive, task, unit, root, publish, slipped>>
onS3 == <<manifests, objects, archive>>

NoFiles == << >>
\* by: the task that has published it, which the manifest itself does not say.
NoManifest == [seq |-> 0, units |-> {}, files |-> NoFiles, parent |-> {}, by |-> 0]

Final == <<"final_markdown", Whole>>

\* held: the pointer as the task knows it.  completed: DurableSurveyExecutor's set.  at: the
\* place of the step at work.
\* stop: why every further run of a unit is ended.
NoTask ==
    [id |-> 0, pc |-> "none", held |-> NoManifest, completed |-> {}, at |-> 0, retried |-> FALSE,
     stop |-> "no"]
Idle == [phase |-> "idle", unit |-> Final, files |-> NoFiles, left |-> {}]

Init ==
    /\ job = [status |-> "queued", outcome |-> "none", charged |-> FALSE, expired |-> FALSE]
    /\ pointer = NoManifest
    /\ manifests = {}
    /\ objects = {}
    /\ archive = NoFiles
    /\ task = NoTask
    /\ unit = [u \in Units |-> "todo"]
    /\ root = NoFiles
    /\ publish = Idle
    /\ slipped = {}

\* The task is gone and its disk with it.
Ends ==
    /\ task' = [NoTask EXCEPT !.id = task.id]
    /\ unit' = [u \in Units |-> "todo"]
    /\ root' = NoFiles
    /\ publish' = Idle

Crash ==
    /\ task.pc # "none"
    /\ Ends
    /\ UNCHANGED <<job, pointer, onS3, slipped>>

-----------------------------------------------------------------------------
(* The workflow in a run directory: what a step is fanned out into stands  *)
(* in the file of an earlier one.                                          *)

Written(files, step) == <<step, Whole>> \in DOMAIN files

\* What the file of such a step says.
Plan(files, step) == files[<<step, Whole>>][2]

Cards(files) ==
    IF Written(files, "card_plan") THEN CardsPlanned(Plan(files, "card_plan")) ELSE NoUnits

Seeded(files) ==
    IF Written(files, "citation_seed") THEN SeedsFound(Plan(files, "citation_seed")) ELSE NoUnits

Sections(files) ==
    IF Written(files, "outline_plan")
    THEN SectionsPlanned(Plan(files, "outline_plan"), Cards(files).items)
    ELSE NoUnits

Fan(files, step) ==
    CASE step = "reference_seeds" -> Seeded(files)
      [] step = "paper_cards"     -> Cards(files)
      [] step = "sections"        -> Sections(files)
      [] OTHER                    -> UnitsFor({Whole})

UnitsOf(files, step) == {step} \X Fan(files, step).items

\* The place of the step that these units leave open, behind the last one when they are all.
Open(files, completed) ==
    LET left == {i \in DOMAIN Steps : \/ ~Fan(files, Steps[i]).valid
                                      \/ ~(UnitsOf(files, Steps[i]) \subseteq completed)}
    IN  IF left = {} THEN Len(Steps) + 1 ELSE Min(left)

-----------------------------------------------------------------------------
(* A task claims the job and restores its files.                           *)

Claim ==
    /\ task.pc = "none"
    /\ task.id < MaxTasks
    /\ job.status # "finished"
    /\ job' = IF job.status = "queued" THEN [job EXCEPT !.status = "running"] ELSE job
    /\ task' = [NoTask EXCEPT !.id = task.id + 1, !.pc = "claimed", !.held = pointer,
                              !.stop = IF job.expired THEN "timed_out" ELSE "no"]
    /\ UNCHANGED <<pointer, onS3, unit, root, publish, slipped>>

\* Mutant of Successors: what was published but not committed is not looked for.
NoSuccessors(m) == {}

\* The manifests with the next sequence number whose parent is m, a committed one: no two of
\* those have the same sequence number.
Successors(m) == {n \in manifests : n.seq = m.seq + 1 /\ n.parent = m.units}

\* A task that died between the publication and the commit has left a successor.
FindSuccessor ==
    /\ task.pc = "claimed"
    /\ \/ /\ Successors(task.held) = {}
          /\ task' = [task EXCEPT !.pc = "located"]
          /\ UNCHANGED <<pointer, unit, root, publish>>
       \/ /\ \E m \in Successors(task.held) :
               /\ Successors(task.held) = {m}
               /\ pointer' = m
               /\ task' = [task EXCEPT !.pc = "located", !.held = m]
          /\ UNCHANGED <<unit, root, publish>>
       \/ /\ Cardinality(Successors(task.held)) > 1
          /\ Ends
          /\ UNCHANGED pointer
    /\ UNCHANGED <<job, onS3, slipped>>

Stored(f, content) == <<f, content, TRUE>> \in objects
Spoilt(f, content) == <<f, content, FALSE>> \in objects

Intact(m) == \A f \in DOMAIN m.files : Stored(f, m.files[f])

\* Mutant of Restored: the files are restored only for a job that is executed.
RestoredForExecution(m) == IF job.status = "running" THEN m.files ELSE NoFiles

Restored(m) == m.files

Restore ==
    /\ task.pc = "located"
    /\ IF Intact(task.held)
       THEN /\ root' = Restored(task.held)
            /\ task' = IF job.status = "running"
                       THEN [task EXCEPT !.completed = task.held.units, !.pc = "execute",
                                             !.at = Open(task.held.files, task.held.units)]
                       ELSE [NoTask EXCEPT !.id = task.id, !.pc = "archive"]
            /\ slipped' = {}
            /\ UNCHANGED <<unit, publish>>
       ELSE Ends /\ UNCHANGED slipped
    /\ UNCHANGED <<job, pointer, onS3>>

-----------------------------------------------------------------------------
(* The units of a step run concurrently, each as a process of its own in   *)
(* the run directory.                                                      *)

StartUnit ==
    /\ task.pc = "execute"
    /\ task.at \in DOMAIN Steps
    /\ \E u \in UnitsOf(root, Steps[task.at]) \ task.completed :
         /\ unit[u] = "todo"
         /\ unit' = [unit EXCEPT ![u] = "running"]
    /\ UNCHANGED <<job, pointer, onS3, task, root, publish, slipped>>

Put(u, says) ==
    root' = [f \in DOMAIN root \cup {u} |-> IF f = u THEN <<task.id, says>> ELSE root[f]]

\* What the process of a unit may write into its artifact.  The results of cards and of the
\* picture, and what the host builds itself, are written when the unit ends.
Bodies(u) ==
    CASE u[1] = "citation_seed"   -> Seedings
      [] u[1] = "card_plan"       -> CardPlans
      [] u[1] = "outline_plan"    -> SectionPlans
      [] u[1] = "reference_seeds" -> {"completed", "unclear"}
      [] <<task.id, u>> \in Rewriters -> IF u \in DOMAIN root THEN {"second"} ELSE {"first"}
      [] OTHER                    -> {"first"}

Shards == {"paper_cards", "image_planner"}
Builtin == {"reference_merge", "final_markdown"}

WriteFile(u) ==
    /\ unit[u] = "running"
    /\ u[1] \notin Shards \cup Builtin
    /\ \E says \in Bodies(u) : Put(u, says)
    /\ UNCHANGED <<job, pointer, onS3, task, unit, publish, slipped>>

\* The user has cancelled, and the heartbeat has told the task; or the deadline of the job
\* has passed.  No run of a workflow ends well from then on.
Interrupts == IF task.stop = "no" THEN {"cancelled", "timed_out"} ELSE {}

Notice(why) ==
    /\ job' = [job EXCEPT !.expired = @ \/ why = "timed_out"]
    /\ task' = [task EXCEPT !.stop = why]

Ran(why) ==
    IF why = "no" THEN {Retried(tries) : tries \in [1..MaxTries -> RunResults]} ELSE {"failed"}

\* The error of a required unit.
Error(why) == IF why = "cancelled" THEN "cancelled" ELSE "failed"

RequiredEnds(u, why) ==
    /\ \E ok \in {result = "ok" : result \in Ran(why)} :
         unit' = [unit EXCEPT ![u] = IF ok THEN "returned" ELSE Error(why)]
    /\ UNCHANGED root

\* A card, or the picture, that fails does not stop the Survey, and neither does a seed.
ShardEnds(u, why) ==
    /\ \E says \in {ShardResult(result, artifact) : result \in Ran(why), artifact \in BOOLEAN} :
         Put(u, says)
    /\ unit' = [unit EXCEPT ![u] = "returned"]

SeedEnds(u, why) ==
    /\ \E fails \in {SeedFails(input, result, again) :
                       input \in Inputs, result \in Ran(why), again \in RunResults} :
         IF u \notin DOMAIN root \/ fails
         THEN Put(u, "failed")
         ELSE UNCHANGED root
    /\ unit' = [unit EXCEPT ![u] = "returned"]

\* The evidence audit of the final unit, or the assembly, may fail.
Says(u) == root[u][2]

Seeds == UnitsOf(root, "reference_seeds")
Mergeable == \A u \in Seeds : u \in DOMAIN root /\ Says(u) \in Statuses

BuiltinEnds(u) ==
    \/ /\ u[1] = "reference_merge" => Mergeable
       /\ Put(u, "first")
       /\ unit' = [unit EXCEPT ![u] = "returned"]
    \/ /\ u[1] = "reference_merge" => ~Mergeable
       /\ unit' = [unit EXCEPT ![u] = "failed"]
       /\ UNCHANGED root

UnitEnds(u) ==
    /\ unit[u] = "running"
    /\ IF u[1] \in Builtin
       THEN BuiltinEnds(u) /\ UNCHANGED <<job, task>>
       ELSE \E why \in {task.stop} \cup Interrupts :
              /\ Notice(why)
              /\ CASE u[1] \in Shards            -> ShardEnds(u, why)
                   [] u[1] = "reference_seeds"   -> SeedEnds(u, why)
                   [] OTHER                      -> RequiredEnds(u, why)
    /\ UNCHANGED <<pointer, onS3, publish, slipped>>

-----------------------------------------------------------------------------
(* The checkpoint of a unit that has returned, in a thread.                *)

\* The unit's artifact is checked, then every file of the run directory is hashed, those
\* of the units that still run included.  What is stored already is not put again.
HashFiles(u) ==
    /\ publish = Idle
    /\ unit[u] = "returned"
    /\ IF u \in DOMAIN root
       THEN /\ publish' = [phase |-> "objects", unit |-> u, files |-> root,
                           left |-> {f \in DOMAIN root : ~Stored(f, root[f])}]
            /\ UNCHANGED unit
       ELSE /\ unit' = [unit EXCEPT ![u] = "failed"]
            /\ UNCHANGED publish
    /\ UNCHANGED <<job, pointer, onS3, task, root, slipped>>

\* The unit's checkpoint could not be made, and the unit counts as one that raised.
Unpublished(why) ==
    /\ unit' = [unit EXCEPT ![publish.unit] = why]
    /\ publish' = Idle

\* If-None-Match: the body is what the file holds now; an object that is there already
\* must be the one that its key names.
PutObject(f) ==
    LET content == publish.files[f]
    IN  /\ publish.phase = "objects"
        /\ f \in publish.left
        /\ IF Spoilt(f, content)
           THEN Unpublished("unpublished") /\ UNCHANGED objects
           ELSE /\ objects' = objects \cup {<<f, content, root[f] = content>>}
                /\ publish' = [publish EXCEPT !.left = @ \ {f}]
                /\ UNCHANGED unit
        /\ UNCHANGED <<job, pointer, manifests, archive, task, root, slipped>>

NewManifest ==
    [seq |-> task.held.seq + 1, units |-> task.completed \cup {publish.unit},
     files |-> publish.files, parent |-> task.held.units, by |-> task.id]

\* Mutants of PutManifest: it does not come last; the unit is exposed before the commit.
PutManifestEarly ==
    /\ publish.phase = "objects"
    /\ manifests' = manifests \cup {NewManifest}
    /\ publish' = [publish EXCEPT !.phase = "manifest"]
    /\ UNCHANGED <<job, pointer, objects, archive, task, unit, root, slipped>>

PutManifestAndExpose ==
    /\ publish.phase = "objects"
    /\ publish.left = {}
    /\ manifests' = manifests \cup {NewManifest}
    /\ publish' = [publish EXCEPT !.phase = "manifest"]
    /\ task' = [task EXCEPT !.completed = NewManifest.units, !.at = Open(root, NewManifest.units)]
    /\ UNCHANGED <<job, pointer, objects, archive, unit, root, slipped>>

PutManifest ==
    /\ publish.phase = "objects"
    /\ publish.left = {}
    /\ manifests' = manifests \cup {NewManifest}
    /\ publish' = [publish EXCEPT !.phase = "manifest"]
    /\ UNCHANGED <<job, pointer, objects, archive, task, unit, root, slipped>>

\* Mutant of AsExpected: the commit does not look at the sequence number.
AsOwned == TRUE

\* "coalesce(checkpoint_sequence, 0) = $3"; the task is the owner.
AsExpected == pointer.seq = task.held.seq

\* Its stage is shown to the user, and is written to the row after the commit.
Reported(u) == u[1] # "reference_merge"

\* The answer may be lost after the commit: then the task knows nothing of it.  Or the
\* progress is not written: then the task holds the new pointer, but the executor does not
\* count the unit, and a unit that runs beside it commits a list without it.
CommitPointer ==
    /\ publish.phase = "manifest"
    /\ \/ /\ AsExpected
          /\ pointer' = NewManifest
          /\ task' = [task EXCEPT !.held = NewManifest, !.completed = NewManifest.units,
                                  !.at = Open(root, NewManifest.units)]
          /\ unit' = [unit EXCEPT ![publish.unit] = "done"]
          /\ publish' = Idle
          /\ slipped' = {}
       \/ /\ AsExpected
          /\ Reported(publish.unit)
          /\ slipped' = slipped \cup {publish.unit}
          /\ pointer' = NewManifest
          /\ task' = [task EXCEPT !.held = NewManifest]
          /\ Unpublished("unpublished")
       \/ /\ AsExpected
          /\ pointer' = NewManifest
          /\ Unpublished("unpublished")
          /\ UNCHANGED <<task, slipped>>
       \/ /\ ~AsExpected
          /\ Unpublished("lost")
          /\ UNCHANGED <<pointer, task, slipped>>
    /\ UNCHANGED <<job, onS3, root>>

\* S3 or the database fails: a put, the manifest's read-back, the commit.
PublishFails ==
    /\ publish # Idle
    /\ Unpublished("unpublished")
    /\ UNCHANGED <<job, pointer, onS3, task, root, slipped>>

-----------------------------------------------------------------------------
(* The end of a step, the settlement, the archive.                         *)

Raised == {"failed", "cancelled", "unpublished", "lost"}

\* gather(return_exceptions=True), then the first exception is raised.
Raises(why) ==
    /\ task.pc = "execute"
    /\ why \in {unit[u] : u \in Units}
    /\ \A u \in UnitsOf(root, Steps[task.at]) : unit[u] \in Raised \/ u \in task.completed

\* The executor is gone, what it knew with it.
Settle(outcome, charged) ==
    /\ job' = [job EXCEPT !.status = "archiving", !.outcome = outcome, !.charged = charged]
    /\ task' = [NoTask EXCEPT !.id = task.id, !.pc = "archive"]
    /\ unit' = [u \in Units |-> "todo"]
    /\ UNCHANGED <<pointer, onS3, root, publish, slipped>>

\* The sections that are missing are tried a second time.
TriedAgain == Steps[task.at] = "sections" /\ ~task.retried

RetrySections ==
    /\ Raises("failed") \/ Raises("cancelled")
    /\ TriedAgain
    /\ task' = [task EXCEPT !.retried = TRUE]
    /\ unit' = [u \in Units |-> IF unit[u] \in Raised THEN "todo" ELSE unit[u]]
    /\ UNCHANGED <<job, pointer, onS3, root, publish, slipped>>

\* A plan or the seed table breaks its contract.
RejectPlan ==
    /\ task.pc = "execute"
    /\ task.at \in DOMAIN Steps
    /\ ~Fan(root, Steps[task.at]).valid
    /\ Settle("failed", FALSE)

\* A unit failed, or could not be published.
SettleFailed ==
    /\ Raises("unpublished") \/ (Raises("failed") /\ ~TriedAgain)
    /\ Settle("failed", FALSE)

SettleCancelled ==
    /\ Raises("cancelled")
    /\ ~TriedAgain
    /\ Settle("cancelled", FALSE)

\* SurveyLeaseLostError: the task ends and settles nothing.
StopUnsettled ==
    /\ Raises("lost")
    /\ Ends
    /\ UNCHANGED <<job, pointer, onS3, slipped>>

\* Mutant of Degraded: what earlier tasks left unfinished does not count.
DegradedHere(low) ==
    \/ low
    \/ \E u \in DOMAIN root :
         /\ u[1] \in Shards \cup {"reference_seeds"}
         /\ Says(u) = "failed"
         /\ root[u][1] = task.id

\* low: the audit finds evidence for less than 80 % of the claims.
Degraded(low) ==
    \/ low
    \/ \E u \in DOMAIN root : u[1] \in Shards \cup {"reference_seeds"} /\ Says(u) = "failed"

\* The last audit of the evidence, or the last merge of the seeds, may still fail the Survey.
SettleCompleted ==
    /\ task.pc = "execute"
    /\ task.at > Len(Steps)
    /\ \/ Settle("failed", FALSE)
       \/ Mergeable /\ \E low \in BOOLEAN : Settle("succeeded", ~Degraded(low))

\* Nothing but the task writes to the directory any more; every upload is verified.
UploadArchive ==
    /\ task.pc = "archive"
    /\ archive' = root
    /\ task' = [task EXCEPT !.pc = "uploaded"]
    /\ UNCHANGED <<job, pointer, manifests, objects, unit, root, publish, slipped>>

FinishArchive ==
    /\ task.pc = "uploaded"
    /\ job' = [job EXCEPT !.status = "finished"]
    /\ Ends
    /\ UNCHANGED <<pointer, onS3, slipped>>

Next ==
    \/ Claim \/ FindSuccessor \/ Restore \/ Crash
    \/ StartUnit
    \/ \E u \in Units : WriteFile(u) \/ UnitEnds(u) \/ HashFiles(u) \/ PutObject(u)
    \/ PutManifest \/ CommitPointer \/ PublishFails
    \/ RetrySections \/ RejectPlan \/ SettleFailed \/ SettleCancelled \/ StopUnsettled \/ SettleCompleted
    \/ UploadArchive \/ FinishArchive

Spec == Init /\ [][Next]_vars

-----------------------------------------------------------------------------
(* Properties.                                                             *)

\* "Publish manifests last" (checkpoints.py): a manifest on S3 names only objects that are
\* there, and so does the one it continues.
ManifestsAreLast ==
    \A m \in manifests : \A f \in DOMAIN m.files : Stored(f, m.files[f]) \/ Spoilt(f, m.files[f])

\* deploy/ecs/README.md: every stage must "validate its declared file contract before the
\* host can publish a checkpoint or start a downstream stage".  While a unit runs, all
\* the stages before it are in the pointer in the database, in whichever task they ran,
\* and whatever fails in between, a manifest comes after its objects.
StagesAreDurable ==
    /\ ManifestsAreLast
    /\ \A u \in Units : unit[u] \in {"running", "returned"} =>
         \A i \in 1..(Place(u[1]) - 1) : UnitsOf(root, Steps[i]) \subseteq pointer.units

\* "This closes the crash window between S3 publication and the database CAS without
\* replaying the completed model unit": no unit runs again whose output an earlier task has
\* already published on top of the committed checkpoint.
PublishedIsNotReplayed ==
    \A u \in Units : unit[u] = "running" =>
        \A m \in manifests :
            m.seq = pointer.seq + 1 /\ m.parent = pointer.units /\ u \in m.units => m.by = task.id

\* A Survey that is finished as a success has its report in the archive with every section
\* the plan in the archive names, and they are the ones that were checkpointed, whichever
\* task archived them after whatever crashes.  It is charged only when no card, picture or
\* reference it rests on failed, in whichever task that was.
DeliveredIsComplete ==
    job.status = "finished" /\ job.outcome = "succeeded" =>
        /\ \A step \in {"paper_cards", "sections", "final_markdown"} :
             \A u \in UnitsOf(archive, step) : /\ u \in pointer.units \cap DOMAIN archive
                                               /\ archive[u] = pointer.files[u]
        /\ job.charged => \A u \in DOMAIN archive :
                               u[1] \in Shards \cup {"reference_seeds"} => archive[u][2] # "failed"

\* The committed checkpoint never falls back to an earlier step, and loses no unit but one
\* whose progress could not be written: not when a task that has missed the answer to one
\* commit goes on to the next, nor when a task takes up what another has left behind.
ProgressIsKept ==
    [][pointer' # pointer =>
          /\ Open(pointer.files, pointer.units) <= Open(pointer'.files, pointer'.units)
          /\ pointer.units \ pointer'.units \subseteq slipped]_vars

=============================================================================
