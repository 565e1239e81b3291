----------------------------- MODULE SurveyArchive -----------------------------
(***************************************************************************)
(* The archive of one Survey job on S3 (survey/artifacts.py): attempts to  *)
(* upload the workspace that overlap when a lease is lost, the append-only *)
(* overlays of the operator (survey/recovery.py, quality_repair.py), the   *)
(* deletion of the survey and the outbox that removes its objects          *)
(* (db/queries_survey_cleanup.py, survey/cleanup_worker.py).  SurveyStore  *)
(* has the rows around it; here an upload is taken apart into its objects. *)
(*                                                                         *)
(* A path stands for all the files that are treated alike: "report" for    *)
(* those of the workspace, which are the same in every attempt but may be  *)
(* lost with the host, "run" for run.json and the PDF, made anew.          *)
(***************************************************************************)
EXTENDS Naturals, Sequences, FiniteSets

CONSTANTS
    MaxUploads, \* bound on the attempts to archive the job
    Repairs,    \* runs of the operator's repair
    Overlays,   \* the content-addressed overlays that they may produce
    Cleaners,   \* concurrent cleanup tasks
    MaxTries,   \* _MAX_ATTEMPTS of a cleanup
    MaxFaults,  \* bound on the crashes and lost leases of cleanup tasks
    NoCleaner

ASSUME ArchiveConstants ==
    /\ MaxUploads \in Nat /\ MaxTries \in Nat \ {0} /\ MaxFaults \in Nat
    /\ NoCleaner \notin Cleaners /\ Overlays \cap {"base", "none"} = {}

Uploads == 1..MaxUploads
Paths == {"report", "run"}
Base == "base"
Layers == {Base} \cup Overlays
Keys == Layers \X (Paths \cup {"manifest"})

VARIABLES
    job,      \* the job's row: its lease and the manifest key it points to
    upload,   \* the attempts to archive it
    body,     \* the contents of the file objects
    manifest, \* the contents of the manifest objects
    repair,   \* the operator's runs
    row,      \* the job's row in survey_artifact_cleanup_outbox
    cleaner,  \* the cleanup tasks
    faults,   \* crashes and lost leases of cleanup tasks so far
    stray     \* whether an object was put for a job that its writer had lost

vars == <<job, upload, body, manifest, repair, row, cleaner, faults, stray>>

Absent == <<"absent", 0>>
NoManifest == [files |-> [p \in {} |-> Absent], parent |-> << >>, there |-> FALSE]

\* A record of a manifest is the SHA-256 of its object, here its contents.
\* parent: of an overlay, the SHA-256 of the manifest that it lies on.
ManifestOf(files, parent) == [files |-> files, parent |-> parent, there |-> TRUE]

\* What a task that is over leaves in its memory.
NoUpload == [at |-> "done", list |-> << >>, next |-> 0]
NoRepair == [at |-> "done", source |-> NoManifest, layer |-> Base]
NoCleanup == [at |-> "idle", keys |-> {}]

Init ==
    /\ job = [status |-> "archiving", owner |-> 0, lease |-> "none", manifest |-> "none"]
    /\ upload = [n \in Uploads |-> [NoUpload EXCEPT !.at = "idle"]]
    /\ body = [k \in Layers \X Paths |-> Absent]
    /\ manifest = [l \in Layers |-> NoManifest]
    /\ repair = [r \in Repairs |-> [NoRepair EXCEPT !.at = "idle"]]
    /\ row = [status |-> "absent", attempts |-> 0, owner |-> NoCleaner, live |-> FALSE,
              manifest |-> "none", listed |-> {}]
    /\ cleaner = [c \in Cleaners |-> NoCleanup]
    /\ faults = 0
    /\ stray = FALSE

-----------------------------------------------------------------------------
(* Uploading.                                                              *)

others == <<repair, row, cleaner, faults>>

Owns(n) == job.status = "archiving" /\ job.owner = n

\* The workspace, whole or lost with its host.
Workspaces == {<<"report", "run">>, <<"run">>}

Bytes(n, p) == IF p = "report" THEN <<p, 0>> ELSE <<p, n>>

Moves(n, at) ==
    upload' = [upload EXCEPT ![n] = IF at = "done" THEN NoUpload ELSE [@ EXCEPT !.at = at]]

Claim(n) ==
    /\ job.status = "archiving" /\ (job.owner = 0 \/ job.lease = "expired")
    /\ upload[n].at = "idle" /\ \A m \in 1..(n - 1) : upload[m].at # "idle"
    /\ job' = [job EXCEPT !.owner = n, !.lease = "live"]
    /\ \E list \in Workspaces :
          upload' = [upload EXCEPT ![n] = [at |-> "put", list |-> list, next |-> 1]]
    /\ UNCHANGED <<body, manifest, others, stray>>

LeaseExpires ==
    /\ job.owner # 0 /\ job.lease = "live"
    /\ job' = [job EXCEPT !.lease = "expired"]
    /\ UNCHANGED <<upload, body, manifest, others, stray>>

Heartbeat(n) ==
    /\ Owns(n) /\ job.lease = "expired" /\ upload[n].at \notin {"idle", "done"}
    /\ job' = [job EXCEPT !.lease = "live"]
    /\ UNCHANGED <<upload, body, manifest, others, stray>>

\* The thread of an upload goes on when the lease is lost under it.
Puts(n) == stray' = (stray \/ ~Owns(n))

PathAt(n) == upload[n].list[upload[n].next]
HasFile(n) == upload[n].next <= Len(upload[n].list)

\* Mutant of PutFile: an object that an earlier attempt left is taken over.
PutFileOnce(n) ==
    /\ upload[n].at = "put" /\ HasFile(n)
    /\ LET k == <<Base, PathAt(n)>> IN
       body' = [body EXCEPT ![k] = IF @ = Absent THEN Bytes(n, PathAt(n)) ELSE @]
    /\ upload' = [upload EXCEPT ![n].next = @ + 1]
    /\ Puts(n)
    /\ UNCHANGED <<job, manifest, others>>

PutFile(n) ==
    /\ upload[n].at = "put" /\ HasFile(n)
    /\ body' = [body EXCEPT ![<<Base, PathAt(n)>>] = Bytes(n, PathAt(n))]
    /\ Moves(n, "verify")
    /\ Puts(n)
    /\ UNCHANGED <<job, manifest, others>>

\* _verify_object reads back what is there now.
VerifyFile(n) ==
    /\ upload[n].at = "verify"
    /\ IF body[<<Base, PathAt(n)>>] = Bytes(n, PathAt(n))
       THEN upload' = [upload EXCEPT ![n] = [@ EXCEPT !.at = "put", !.next = upload[n].next + 1]]
       ELSE Moves(n, "failed")
    /\ UNCHANGED <<job, body, manifest, others, stray>>

Uploaded(n) ==
    LET paths == {upload[n].list[i] : i \in 1..Len(upload[n].list)} IN
    ManifestOf([p \in paths |-> Bytes(n, p)], << >>)

PutManifest(n) ==
    /\ upload[n].at = "put" /\ ~HasFile(n)
    /\ manifest' = [manifest EXCEPT ![Base] = Uploaded(n)]
    /\ Moves(n, "verify manifest")
    /\ Puts(n)
    /\ UNCHANGED <<job, body, others>>

VerifyManifest(n) ==
    /\ upload[n].at = "verify manifest"
    /\ Moves(n, IF manifest[Base] = Uploaded(n) THEN "finish" ELSE "failed")
    /\ UNCHANGED <<job, body, manifest, others, stray>>

\* A call of S3 or of the database that fails, after its effect or before.
UploadFails(n) ==
    /\ upload[n].at \in {"put", "verify", "verify manifest", "finish"}
    /\ Moves(n, "failed")
    /\ UNCHANGED <<job, body, manifest, others, stray>>

\* finish_survey_archive; its answer may be lost.
Finish(n) ==
    /\ upload[n].at = "finish" /\ Owns(n)
    /\ job' = [status |-> "finished", owner |-> 0, lease |-> "none", manifest |-> Base]
    /\ \E at \in {"done", "failed"} : Moves(n, at)
    /\ UNCHANGED <<body, manifest, others, stray>>

Defer(n) ==
    /\ upload[n].at = "failed" /\ Owns(n)
    /\ job' = [job EXCEPT !.owner = 0, !.lease = "none"]
    /\ Moves(n, "done")
    /\ UNCHANGED <<body, manifest, others, stray>>

\* The task dies, or its transaction finds the lease gone.
Stops(n) ==
    /\ upload[n].at \notin {"idle", "done"}
    /\ Moves(n, "done")
    /\ UNCHANGED <<job, body, manifest, others, stray>>

-----------------------------------------------------------------------------
(* The operator's overlays.                                                *)

uploads == <<upload, row, cleaner, faults>>

RepairMoves(r, at) ==
    repair' = [repair EXCEPT ![r] = IF at = "done" THEN NoRepair ELSE [@ EXCEPT !.at = at]]

\* A manifest and what it says of the report; the overlay has the repaired one.
Matches(p) == body[<<Base, p>>] = manifest[Base].files[p]

Inspect(r) ==
    /\ repair[r].at = "idle"
    /\ job.status = "finished" /\ job.manifest = Base /\ manifest[Base].there
    /\ "report" \in DOMAIN manifest[Base].files
    /\ \E o \in Overlays :
          repair' = [repair EXCEPT ![r] = [at |-> "restore", source |-> manifest[Base],
                                           layer |-> o]]
    /\ UNCHANGED <<job, body, manifest, uploads, stray>>

\* restore_contract_workspace checks each text file against its record.
RestoreWorkspace(r) ==
    /\ repair[r].at = "restore"
    /\ RepairMoves(r, IF body[<<Base, "report">>] = repair[r].source.files["report"]
                      THEN "plan" ELSE "done")
    /\ UNCHANGED <<job, body, manifest, uploads, stray>>

PlanOverlay(r) ==
    /\ repair[r].at = "plan"
    /\ RepairMoves(r, IF manifest[Base] = repair[r].source THEN "put" ELSE "done")
    /\ UNCHANGED <<job, body, manifest, uploads, stray>>

\* _put_append_only: an equal object is kept, and another one is an error.
PutOverlayFile(r) ==
    LET k == <<repair[r].layer, "report">>  repaired == <<"repaired", repair[r].layer>> IN
    /\ repair[r].at = "put"
    /\ body[k] \in {Absent, repaired}
    /\ body' = [body EXCEPT ![k] = repaired]
    /\ RepairMoves(r, "put manifest")
    /\ stray' = (stray \/ job.status = "deleted")
    /\ UNCHANGED <<job, manifest, uploads>>

OverlayOf(r) ==
    ManifestOf([p \in {"report"} |-> <<"repaired", repair[r].layer>>],
               <<repair[r].source.files>>)

PutOverlayManifest(r) ==
    /\ repair[r].at = "put manifest"
    /\ manifest[repair[r].layer] \in {NoManifest, OverlayOf(r)}
    /\ manifest' = [manifest EXCEPT ![repair[r].layer] = OverlayOf(r)]
    /\ RepairMoves(r, "activate")
    /\ stray' = (stray \/ job.status = "deleted")
    /\ UNCHANGED <<job, body, uploads>>

\* The transaction that moves the pointer expects the manifest that was read.
Activate(r) ==
    /\ repair[r].at = "activate"
    /\ job.status = "finished" /\ job.manifest = Base
    /\ job' = [job EXCEPT !.manifest = repair[r].layer]
    /\ RepairMoves(r, "done")
    /\ UNCHANGED <<body, manifest, uploads, stray>>

\* An error, a refusal or the end of the operator's process.
RepairStops(r) ==
    /\ repair[r].at \notin {"idle", "done"}
    /\ RepairMoves(r, "done")
    /\ UNCHANGED <<job, body, manifest, uploads, stray>>

-----------------------------------------------------------------------------
(* Deletion and cleanup.                                                   *)

writers == <<upload, repair, stray>>

\* The keys that delete_archive takes from a manifest and the one it lies on.
Listed(l) ==
    ({Base} \X (DOMAIN manifest[Base].files \cup {"manifest"}))
    \cup (IF l = Base THEN {} ELSE {l} \X (DOMAIN manifest[l].files \cup {"manifest"}))

\* The trigger on the survey's row; the user may delete what is archived.
DeleteSurvey ==
    /\ job.status = "finished"
    /\ job' = [job EXCEPT !.status = "deleted"]
    /\ row' = [row EXCEPT !.status = "pending", !.manifest = job.manifest,
                          !.listed = Listed(job.manifest)]
    /\ UNCHANGED <<body, manifest, cleaner, faults, writers>>

Working(c) == row.status = "running" /\ row.owner = c
CleanerMoves(c, at) == cleaner' = [cleaner EXCEPT ![c] = [NoCleanup EXCEPT !.at = at]]

ClaimCleanup(c) ==
    /\ row.status \in {"pending", "retry"}
    /\ cleaner[c].at = "idle"
    /\ row' = [row EXCEPT !.status = "running", !.owner = c, !.live = TRUE,
                          !.attempts = @ + 1]
    /\ CleanerMoves(c, "resolve")
    /\ UNCHANGED <<job, body, manifest, faults, writers>>

\* Mutant of Unlisted: an archive without its manifest is taken for deleted.
UnlistedIsGone == {"complete"}

\* Without its manifest an archive is deleted by its prefix.
Unlisted == {"list"}

Resolve(c) ==
    LET l == row.manifest
        missing == ~manifest[l].there \/ ~manifest[Base].there
        changed == l # Base /\ manifest[l].parent # <<manifest[Base].files>>
    IN
    /\ cleaner[c].at = "resolve"
    /\ \/ /\ missing
          /\ \E at \in Unlisted : CleanerMoves(c, at)
       \/ /\ ~missing /\ changed
          /\ CleanerMoves(c, "failed")
       \/ /\ ~missing /\ ~changed
          /\ cleaner' = [cleaner EXCEPT ![c] = [at |-> "delete", keys |-> Listed(l)]]
    /\ UNCHANGED <<job, body, manifest, row, faults, writers>>

Present(k) == IF k[2] = "manifest" THEN manifest[k[1]].there ELSE body[k] # Absent

ListPrefix(c) ==
    /\ cleaner[c].at = "list"
    /\ cleaner' = [cleaner EXCEPT ![c] = [at |-> "delete",
                                          keys |-> {k \in Keys : Present(k)}]]
    /\ UNCHANGED <<job, body, manifest, row, faults, writers>>

\* delete_objects; bound: a batch with errors removes one key or none.
DeleteObjects(c) ==
    LET keys == cleaner[c].keys IN
    /\ cleaner[c].at = "delete"
    /\ \E gone \in {{k} : k \in keys} \cup {{}, keys} :
          /\ body' = [k \in DOMAIN body |-> IF k \in gone THEN Absent ELSE body[k]]
          /\ manifest' = [l \in Layers |-> IF <<l, "manifest">> \in gone THEN NoManifest
                                           ELSE manifest[l]]
          /\ \/ gone = keys /\ CleanerMoves(c, "complete")
             \/ CleanerMoves(c, "failed")
    /\ UNCHANGED <<job, row, faults, writers>>

\* complete_artifact_cleanup; its answer may be lost.
CompleteCleanup(c) ==
    /\ cleaner[c].at = "complete"
    /\ \/ /\ Working(c)
          /\ row' = [row EXCEPT !.status = "succeeded", !.owner = NoCleaner, !.live = FALSE]
       \/ /\ ~Working(c)
          /\ UNCHANGED row
    /\ \E at \in {"idle", "failed"} : CleanerMoves(c, at)
    /\ UNCHANGED <<job, body, manifest, faults, writers>>

RetryCleanup(c) ==
    /\ cleaner[c].at = "failed"
    /\ \/ /\ Working(c)
          /\ row' = [row EXCEPT !.status = IF row.attempts >= MaxTries THEN "dead" ELSE "retry",
                                !.owner = NoCleaner, !.live = FALSE]
       \/ /\ ~Working(c)
          /\ UNCHANGED row
    /\ CleanerMoves(c, "idle")
    /\ UNCHANGED <<job, body, manifest, faults, writers>>

\* The task dies, or gives up because it lost its lease.
CleanerDies(c) ==
    /\ faults < MaxFaults
    /\ cleaner[c].at # "idle"
    /\ CleanerMoves(c, "idle")
    /\ faults' = faults + 1
    /\ UNCHANGED <<job, body, manifest, row, writers>>

\* The lease of a dead task ends, or that of a live one cut off from the database.
CleanupLeaseExpires ==
    /\ row.status = "running" /\ row.live
    /\ row' = [row EXCEPT !.live = FALSE]
    /\ \/ cleaner[row.owner].at = "idle" /\ UNCHANGED faults
       \/ cleaner[row.owner].at # "idle" /\ faults < MaxFaults /\ faults' = faults + 1
    /\ UNCHANGED <<job, body, manifest, cleaner, writers>>

CleanupHeartbeat(c) ==
    /\ Working(c) /\ ~row.live /\ cleaner[c].at # "idle"
    /\ row' = [row EXCEPT !.live = TRUE]
    /\ UNCHANGED <<job, body, manifest, cleaner, faults, writers>>

\* Mutant of RecoverCleanup: an expired row is recovered below the maximum only.
RecoverCleanupWithinTries ==
    /\ row.status = "running" /\ ~row.live /\ row.attempts < MaxTries
    /\ row' = [row EXCEPT !.status = "retry", !.owner = NoCleaner]
    /\ UNCHANGED <<job, body, manifest, cleaner, faults, writers>>

RecoverCleanup ==
    /\ row.status = "running" /\ ~row.live
    /\ row' = [row EXCEPT !.status = "retry", !.owner = NoCleaner]
    /\ UNCHANGED <<job, body, manifest, cleaner, faults, writers>>

-----------------------------------------------------------------------------

UploadStep(n) ==
    \/ Claim(n) \/ Heartbeat(n) \/ PutFile(n) \/ VerifyFile(n) \/ PutManifest(n)
    \/ VerifyManifest(n) \/ UploadFails(n) \/ Finish(n) \/ Defer(n) \/ Stops(n)

RepairStep(r) ==
    \/ Inspect(r) \/ RestoreWorkspace(r) \/ PlanOverlay(r) \/ PutOverlayFile(r)
    \/ PutOverlayManifest(r) \/ Activate(r) \/ RepairStops(r)

CleanerStep(c) ==
    \/ Resolve(c) \/ ListPrefix(c) \/ DeleteObjects(c) \/ CompleteCleanup(c)
    \/ RetryCleanup(c)

Next ==
    \/ LeaseExpires \/ DeleteSurvey \/ CleanupLeaseExpires \/ RecoverCleanup
    \/ \E n \in Uploads : UploadStep(n)
    \/ \E r \in Repairs : RepairStep(r)
    \/ \E c \in Cleaners :
          CleanerStep(c) \/ ClaimCleanup(c) \/ CleanerDies(c) \/ CleanupHeartbeat(c)

Spec == Init /\ [][Next]_vars

\* The supervisor, or the control cycle of every minute, recovers and claims what
\* is due; a task that runs gets its answers from S3 and from the database.
FairSpec ==
    /\ Spec
    /\ WF_vars(CleanupLeaseExpires /\ cleaner[row.owner].at = "idle")
    /\ WF_vars(RecoverCleanup)
    /\ \A c \in Cleaners : WF_vars(ClaimCleanup(c)) /\ WF_vars(CleanerStep(c))

-----------------------------------------------------------------------------
(* Properties.                                                             *)

\* What a reader of the archive needs: every record of the manifest, and of the
\* one it lies on, describes the object under its key.
Readable(l) ==
    /\ manifest[Base].there
    /\ \A p \in DOMAIN manifest[Base].files :
          l = Base \/ p \notin DOMAIN manifest[l].files => Matches(p)
    /\ l # Base =>
          /\ manifest[l].there /\ manifest[l].parent = <<manifest[Base].files>>
          /\ \A p \in DOMAIN manifest[l].files : body[<<l, p>>] = manifest[l].files[p]

\* Whatever earlier attempts left behind, and whichever repair was activated
\* among several, a finished archive can be read, unless somebody wrote to it who
\* had lost the job (an upload goes on when its lease is gone).
ArchiveIsReadable ==
    job.status = "finished" /\ ~stray => Readable(job.manifest)

\* A cleanup that is recorded as done has removed every object that the deleted
\* archive listed, however many of its deletions failed half-way or ran twice.
CleanedMeansGone ==
    row.status = "succeeded" /\ ~stray => \A k \in row.listed : ~Present(k)

\* The objects of a deleted survey are removed, or the row is given up as dead.
CleanupEnds == row.status # "absent" ~> row.status \in {"succeeded", "dead"}
================================================================================
