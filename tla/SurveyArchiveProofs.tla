-------------------------- MODULE SurveyArchiveProofs --------------------------
(***************************************************************************)
(* The archive of a Survey: a finished archive can be read and a cleaned   *)
(* one is gone, for any number of attempts to upload, repairs, overlays    *)
(* and cleanup tasks.                                                      *)
(***************************************************************************)
EXTENDS SurveyArchive, TLAPS

-----------------------------------------------------------------------------
(* Types.                                                                  *)

Contents == {Absent} \cup (Paths \X (0..MaxUploads)) \cup ({"repaired"} \X Overlays)
Files == UNION {[S -> Contents] : S \in SUBSET Paths}
Manifests == [files : Files, parent : {<< >>} \cup {<<f>> : f \in Files}, there : BOOLEAN]

Uploading == {"put", "verify", "verify manifest", "finish"}
Repairing == {"restore", "plan", "put", "put manifest", "activate"}
Cleaning == {"idle", "resolve", "list", "delete", "complete", "failed"}

JobType ==
    job \in [status : {"archiving", "finished", "deleted"}, owner : 0..MaxUploads,
             lease : {"none", "live", "expired"}, manifest : Layers \cup {"none"}]

Tasks == [at : Uploading \cup {"idle", "failed", "done"}, list : {<< >>} \cup Workspaces, next : Nat]

UploadType ==
    /\ upload \in [Uploads -> Tasks]
    /\ \A n \in Uploads : /\ upload[n].at \in Uploading => upload[n].next >= 1
                          /\ upload[n].at = "verify" => HasFile(n)

ObjectType == body \in [Layers \X Paths -> Contents] /\ manifest \in [Layers -> Manifests]

RepairType ==
    /\ repair \in [Repairs -> [at : Repairing \cup {"idle", "done"}, source : Manifests,
                               layer : Layers]]
    /\ \A r \in Repairs : repair[r].at \in Repairing => repair[r].layer \in Overlays

Rows ==
    [status : {"absent", "pending", "running", "retry", "succeeded", "dead"}, attempts : Nat,
     owner : Cleaners \cup {NoCleaner}, live : BOOLEAN, manifest : Layers \cup {"none"},
     listed : SUBSET Keys]

CleanupType ==
    /\ row \in Rows
    /\ cleaner \in [Cleaners -> [at : Cleaning, keys : SUBSET Keys]]
    /\ faults \in Nat /\ stray \in BOOLEAN

TypeOK == JobType /\ UploadType /\ ObjectType /\ RepairType /\ CleanupType

-----------------------------------------------------------------------------
(* The inductive invariant.                                                *)

\* Nobody repairs or cleans up what is not finished.
PhasesFit ==
    /\ job.status = "archiving" =>
          /\ \A r \in Repairs : repair[r].at = "idle"
          /\ \A l \in Overlays : manifest[l] = NoManifest
    /\ job.status # "deleted" =>
          /\ row.status = "absent"
          /\ \A c \in Cleaners : cleaner[c].at = "idle"
    /\ job.status # "archiving" => job.manifest \in Layers
    /\ job.status = "deleted" => row.manifest \in Layers

\* What the owner has uploaded is there: the files before its place in the list, and
\* the manifest when it is about to finish.
PutSoFar(n) == \A i \in 1..(upload[n].next - 1) :
                    i <= Len(upload[n].list) =>
                        body[<<Base, upload[n].list[i]>>] = Bytes(n, upload[n].list[i])

UploadFits(n) ==
    /\ upload[n].at \in Uploading => PutSoFar(n)
    /\ upload[n].at \in {"verify manifest", "finish"} => ~HasFile(n)
    /\ upload[n].at = "finish" => manifest[Base] = Uploaded(n)

UploadsFit == job.status = "archiving" /\ ~stray => \A n \in Uploads : job.owner = n => UploadFits(n)

Repaired(l) == <<"repaired", l>>
OverlayOn(l) == ManifestOf([p \in {"report"} |-> Repaired(l)], <<manifest[Base].files>>)

\* The base is readable, and an overlay with a manifest lies on it and has its file.
LayersFit ==
    job.status = "finished" /\ ~stray =>
        /\ Readable(Base)
        /\ \A l \in Overlays : manifest[l] # NoManifest =>
              manifest[l] = OverlayOn(l) /\ body[<<l, "report">>] = Repaired(l)
        /\ manifest[job.manifest] # NoManifest

\* A repair knows the base as it is, and has put what it is about to announce.
RepairsFit ==
    job.status = "finished" /\ ~stray =>
        \A r \in Repairs :
            /\ repair[r].at \in Repairing => repair[r].source = manifest[Base]
            /\ repair[r].at \in {"put manifest", "activate"} =>
                  body[<<repair[r].layer, "report">>] = Repaired(repair[r].layer)
            /\ repair[r].at = "activate" => manifest[repair[r].layer] # NoManifest

Gone == \A k \in row.listed : ~Present(k)

ListedFits ==
    manifest[row.manifest].there /\ manifest[Base].there => row.listed = Listed(row.manifest)

\* Whatever of the listed objects is there will be deleted by the task that deletes.
CleanupFits ==
    job.status = "deleted" /\ ~stray =>
        /\ ListedFits
        /\ \A c \in Cleaners :
              /\ cleaner[c].at = "delete" =>
                    \A k \in row.listed : Present(k) => k \in cleaner[c].keys
              /\ cleaner[c].at = "complete" => Gone
        /\ row.status = "succeeded" => Gone

ArchiveInv ==
    /\ TypeOK /\ PhasesFit
    /\ UploadsFit /\ LayersFit /\ RepairsFit /\ CleanupFits

-----------------------------------------------------------------------------
(* The types hold.                                                         *)

LEMMA Facts ==
    /\ Base \in Layers /\ Overlays \subseteq Layers /\ "base" \notin Overlays /\ "none" \notin Layers
    /\ NoManifest \in Manifests /\ NoManifest.there = FALSE /\ Absent \in Contents
    /\ 0 \in 0..MaxUploads /\ Uploads \subseteq 0..MaxUploads /\ 0 \notin Uploads
<1>1. [p \in {} |-> Absent] \in [{} -> Contents] /\ Absent \in Contents
  BY DEF Contents
<1>2. [p \in {} |-> Absent] \in Files
  BY <1>1 DEF Files
<1> QED
  BY <1>1, <1>2, ArchiveConstants DEF Base, Layers, NoManifest, Manifests, Uploads

LEMMA BytesInContents ==
    ASSUME NEW n \in Uploads, NEW p \in Paths
    PROVE  Bytes(n, p) \in Contents
BY ArchiveConstants DEF Bytes, Contents, Paths, Uploads

LEMMA ManifestInManifests ==
    ASSUME NEW S \in SUBSET Paths, NEW f \in [S -> Contents],
           NEW p \in {<< >>} \cup {<<g>> : g \in Files}
    PROVE  ManifestOf(f, p) \in Manifests
BY DEF ManifestOf, Manifests, Files

LEMMA PathsOfUploads ==
    ASSUME UploadType, NEW n \in Uploads
    PROVE  /\ Len(upload[n].list) \in Nat
           /\ \A i \in 1..Len(upload[n].list) : upload[n].list[i] \in Paths
<1>1. upload[n].list \in {<< >>} \cup {<<"report", "run">>, <<"run">>}
  BY DEF UploadType, Tasks, Workspaces
<1> QED
  BY <1>1 DEF Paths

LEMMA UploadedInManifests ==
    ASSUME UploadType, NEW n \in Uploads
    PROVE  Uploaded(n) \in Manifests
<1> DEFINE S == {upload[n].list[i] : i \in 1..Len(upload[n].list)}
<1>1. S \in SUBSET Paths
  BY PathsOfUploads
<1>2. [p \in S |-> Bytes(n, p)] \in [S -> Contents]
  BY <1>1, BytesInContents
<1>3. << >> \in {<< >>} \cup {<<g>> : g \in Files}
  OBVIOUS
<1> QED
  BY <1>1, <1>2, <1>3, ManifestInManifests DEF Uploaded

\* A task that goes on or is over.
LEMMA MovedUpload ==
    ASSUME UploadType, NEW n \in Uploads, NEW at \in Uploading \cup {"failed", "done"},
           Moves(n, at), at \in Uploading => upload[n].next >= 1,
           at = "verify" => HasFile(n)
    PROVE  UploadType'
<1> DEFINE u == IF at = "done" THEN NoUpload ELSE [upload[n] EXCEPT !.at = at]
<1>1. upload' = [upload EXCEPT ![n] = u]
  BY DEF Moves, UploadType
<1>2. /\ u \in Tasks
      /\ u.at \in Uploading => u.next >= 1
      /\ u.at = "verify" => u.next <= Len(u.list)
  BY DEF UploadType, Tasks, NoUpload, HasFile, Uploading
<1> HIDE DEF u
<1> QED
  BY <1>1, <1>2 DEF UploadType, HasFile

LEMMA NextFile ==
    ASSUME NEW t \in Tasks, NEW k \in Nat
    PROVE  LET u == [t EXCEPT !.at = "put", !.next = k] IN
           u \in Tasks /\ u.at = "put" /\ u.next = k
BY DEF Tasks, Uploading

LEMMA UploadStepType ==
    ASSUME TypeOK, NEW n \in Uploads, UploadStep(n)
    PROVE  TypeOK'
<1> USE Facts DEF TypeOK
<1>1. JobType'
  <2>1. CASE Claim(n) \/ Heartbeat(n)
    BY <2>1 DEF JobType, Claim, Heartbeat
  <2>2. CASE UNCHANGED job
    BY <2>2 DEF JobType
  <2>3. CASE Finish(n)
    BY <2>3 DEF JobType, Finish
  <2>4. CASE Defer(n)
    BY <2>4 DEF JobType, Defer
  <2> QED
    BY <2>1, <2>2, <2>3, <2>4 DEF UploadStep, PutFile, VerifyFile, PutManifest, VerifyManifest,
                      UploadFails, Stops
<1>2. UploadType'
  <2>1. CASE Claim(n)
    <3>1. PICK list \in Workspaces :
             upload' = [upload EXCEPT ![n] = [at |-> "put", list |-> list, next |-> 1]]
      BY <2>1 DEF Claim
    <3> DEFINE u == [at |-> "put", list |-> list, next |-> 1]
    <3>2. /\ u \in Tasks
          /\ u.at = "put" /\ u.next >= 1
      BY DEF Tasks, Uploading
    <3>3. upload' = [upload EXCEPT ![n] = u]
      BY <3>1
    <3> HIDE DEF u
    <3> QED
      BY <3>2, <3>3 DEF UploadType, HasFile
  <2>2. CASE Heartbeat(n)
    BY <2>2 DEF Heartbeat, UploadType, HasFile
  <2>3. CASE PutFile(n)
    BY <2>3, MovedUpload DEF PutFile, Uploading, UploadType
  <2>4. CASE VerifyFile(n)
    <3>1. CASE upload' = [upload EXCEPT ![n] = [@ EXCEPT !.at = "put", !.next = upload[n].next + 1]]
      <4> DEFINE u == [upload[n] EXCEPT !.at = "put", !.next = upload[n].next + 1]
      <4>1. upload' = [upload EXCEPT ![n] = u]
        BY <3>1 DEF UploadType
      <4>2. /\ u \in Tasks
            /\ u.at = "put" /\ u.next >= 1
        <5>1. upload[n] \in Tasks /\ upload[n].next \in Nat /\ upload[n].next >= 1
          BY <2>4 DEF VerifyFile, UploadType, Tasks, Uploading
        <5>2. upload[n].next + 1 \in Nat /\ upload[n].next + 1 >= 1
          BY <5>1
        <5>3. u \in Tasks /\ u.at = "put" /\ u.next = upload[n].next + 1
          BY <5>1, <5>2, NextFile
        <5> HIDE DEF u
        <5> QED
          BY <5>2, <5>3
      <4> HIDE DEF u
      <4> QED
        BY <4>1, <4>2 DEF UploadType, HasFile
    <3>2. CASE Moves(n, "failed")
      BY <3>2, MovedUpload DEF Uploading
    <3> QED
      BY <2>4, <3>1, <3>2 DEF VerifyFile
  <2>5. CASE PutManifest(n)
    BY <2>5, MovedUpload DEF PutManifest, Uploading, UploadType
  <2>6. CASE VerifyManifest(n)
    BY <2>6, MovedUpload DEF VerifyManifest, Uploading, UploadType
  <2>7. CASE UploadFails(n) \/ Finish(n) \/ Defer(n) \/ Stops(n)
    BY <2>7, MovedUpload DEF UploadFails, Finish, Defer, Stops, Uploading
  <2> QED
    BY <2>1, <2>2, <2>3, <2>4, <2>5, <2>6, <2>7 DEF UploadStep
<1>3. ObjectType'
  <2>1. CASE PutFile(n)
    <3>1. PathAt(n) \in Paths
      <4>1. upload[n].next \in Nat /\ upload[n].next >= 1 /\ upload[n].next <= Len(upload[n].list)
        BY <2>1 DEF PutFile, HasFile, UploadType, Tasks, Uploading
      <4> QED
        BY <4>1, PathsOfUploads DEF PathAt
    <3> QED
      BY <2>1, <3>1, BytesInContents DEF PutFile, ObjectType
  <2>2. CASE PutManifest(n)
    BY <2>2, UploadedInManifests DEF PutManifest, ObjectType
  <2>3. CASE UNCHANGED <<body, manifest>>
    BY <2>3 DEF ObjectType
  <2> QED
    BY <2>1, <2>2, <2>3 DEF UploadStep, Claim, Heartbeat, VerifyFile, VerifyManifest,
                            UploadFails, Finish, Defer, Stops
<1>4. UNCHANGED others /\ stray' \in BOOLEAN
  BY DEF UploadStep, Claim, Heartbeat, PutFile, VerifyFile, PutManifest, VerifyManifest,
         UploadFails, Finish, Defer, Stops, Puts, Owns, CleanupType
<1>5. RepairType' /\ CleanupType'
  BY <1>4 DEF others, RepairType, CleanupType
<1> QED
  BY <1>1, <1>2, <1>3, <1>5

LEMMA MovedRepair ==
    ASSUME RepairType, NEW r \in Repairs, NEW at \in Repairing \cup {"done"}, RepairMoves(r, at),
           at \in Repairing => repair[r].at \in Repairing
    PROVE  RepairType'
BY Facts DEF RepairType, RepairMoves, NoRepair, Repairing

LEMMA OverlayInManifests ==
    ASSUME NEW l \in Overlays, NEW f \in Files
    PROVE  ManifestOf([p \in {"report"} |-> Repaired(l)], <<f>>) \in Manifests
<1>1. [p \in {"report"} |-> Repaired(l)] \in [{"report"} -> Contents]
  BY DEF Repaired, Contents
<1>2. {"report"} \in SUBSET Paths
  BY DEF Paths
<1> QED
  BY <1>1, <1>2, ManifestInManifests

LEMMA RepairStepType ==
    ASSUME TypeOK, NEW r \in Repairs, RepairStep(r)
    PROVE  TypeOK'
<1> USE Facts DEF TypeOK
<1>1. JobType'
  <2>1. CASE Activate(r)
    BY <2>1 DEF JobType, RepairType, Activate
  <2>2. CASE UNCHANGED job
    BY <2>2 DEF JobType
  <2> QED
    BY <2>1, <2>2 DEF RepairStep, Inspect, RestoreWorkspace, PlanOverlay, PutOverlayFile,
                      PutOverlayManifest, RepairStops
<1>2. RepairType'
  <2>1. CASE Inspect(r)
    <3>1. PICK o \in Overlays :
             repair' = [repair EXCEPT ![r] = [at |-> "restore", source |-> manifest[Base],
                                              layer |-> o]]
      BY <2>1 DEF Inspect
    <3>2. manifest[Base] \in Manifests
      BY DEF ObjectType
    <3> QED
      BY <3>1, <3>2 DEF RepairType, Repairing
  <2>2. CASE RestoreWorkspace(r) \/ PlanOverlay(r)
    BY <2>2, MovedRepair DEF RestoreWorkspace, PlanOverlay, Repairing
  <2>3. CASE PutOverlayFile(r) \/ PutOverlayManifest(r) \/ Activate(r) \/ RepairStops(r)
    BY <2>3, MovedRepair DEF PutOverlayFile, PutOverlayManifest, Activate, RepairStops, Repairing
  <2> QED
    BY <2>1, <2>2, <2>3 DEF RepairStep
<1>3. ObjectType'
  <2>1. CASE PutOverlayFile(r)
    <3>1. repair[r].layer \in Overlays
      BY <2>1 DEF PutOverlayFile, RepairType, Repairing
    <3>2. <<repair[r].layer, "report">> \in Layers \X Paths /\ <<"repaired", repair[r].layer>> \in Contents
      BY <3>1 DEF Paths, Contents
    <3> QED
      BY <2>1, <3>2 DEF PutOverlayFile, ObjectType
  <2>2. CASE PutOverlayManifest(r)
    <3>1. repair[r].layer \in Overlays /\ repair[r].source.files \in Files
      BY <2>2 DEF PutOverlayManifest, RepairType, Repairing, Manifests
    <3>2. OverlayOf(r) \in Manifests
      BY <3>1, OverlayInManifests DEF OverlayOf, Repaired
    <3> QED
      BY <2>2, <3>2 DEF PutOverlayManifest, ObjectType
  <2>3. CASE UNCHANGED <<body, manifest>>
    BY <2>3 DEF ObjectType
  <2> QED
    BY <2>1, <2>2, <2>3 DEF RepairStep, Inspect, RestoreWorkspace, PlanOverlay, Activate,
                            RepairStops
<1>4. UNCHANGED uploads /\ stray' \in BOOLEAN
  BY DEF RepairStep, Inspect, RestoreWorkspace, PlanOverlay, PutOverlayFile,
         PutOverlayManifest, Activate, RepairStops, CleanupType
<1>5. UploadType' /\ CleanupType'
  BY <1>4 DEF uploads, UploadType, HasFile, CleanupType
<1> QED
  BY <1>1, <1>2, <1>3, <1>5

\* What a deletion or a cleanup does.
CleanupStep ==
    \/ DeleteSurvey \/ CleanupLeaseExpires \/ RecoverCleanup
    \/ \E c \in Cleaners :
          CleanerStep(c) \/ ClaimCleanup(c) \/ CleanerDies(c) \/ CleanupHeartbeat(c)

LEMMA ListedInKeys ==
    ASSUME ObjectType, NEW l \in Layers
    PROVE  Listed(l) \in SUBSET Keys
<1>1. \A m \in Layers : DOMAIN manifest[m].files \subseteq Paths
  BY DEF ObjectType, Manifests, Files
<1> QED
  BY <1>1, Facts DEF Listed, Keys

LEMMA CleanupStepType ==
    ASSUME TypeOK, PhasesFit, CleanupStep
    PROVE  TypeOK'
<1> USE Facts DEF TypeOK
<1>1. JobType'
  <2>1. CASE DeleteSurvey
    BY <2>1 DEF JobType, DeleteSurvey
  <2>2. CASE UNCHANGED job
    BY <2>2 DEF JobType
  <2> QED
    BY <2>1, <2>2 DEF CleanupStep, CleanupLeaseExpires, RecoverCleanup, CleanerStep, Resolve,
         ListPrefix, DeleteObjects, CompleteCleanup, RetryCleanup, ClaimCleanup, CleanerDies,
         CleanupHeartbeat
<1>2. UNCHANGED writers
  BY DEF CleanupStep, DeleteSurvey, CleanupLeaseExpires, RecoverCleanup, CleanerStep, Resolve,
         ListPrefix, DeleteObjects, CompleteCleanup, RetryCleanup, ClaimCleanup, CleanerDies,
         CleanupHeartbeat
<1>3. UploadType' /\ RepairType' /\ stray' \in BOOLEAN
  BY <1>2 DEF writers, UploadType, HasFile, RepairType, CleanupType
<1>4. ObjectType'
  <2>1. ASSUME NEW c \in Cleaners, DeleteObjects(c)
        PROVE  ObjectType'
    BY <2>1 DEF DeleteObjects, ObjectType
  <2>2. CASE UNCHANGED <<body, manifest>>
    BY <2>2 DEF ObjectType
  <2> QED
    BY <2>1, <2>2 DEF CleanupStep, DeleteSurvey, CleanupLeaseExpires, RecoverCleanup,
         CleanerStep, Resolve, ListPrefix, CompleteCleanup, RetryCleanup, ClaimCleanup,
         CleanerDies, CleanupHeartbeat
<1>5. CleanupType'
  <2>1. CASE DeleteSurvey
    <3>1. job.manifest \in Layers
      BY <2>1 DEF DeleteSurvey, PhasesFit
    <3>2. Listed(job.manifest) \in SUBSET Keys
      BY <3>1, ListedInKeys
    <3> HIDE DEF TypeOK
    <3> QED
      BY <2>1, <3>1, <3>2 DEF DeleteSurvey, Rows, CleanupType, writers, TypeOK
  <2>2. CASE CleanupLeaseExpires \/ RecoverCleanup
    <3>1. row' \in Rows
      BY <2>2 DEF CleanupLeaseExpires, RecoverCleanup, Rows, CleanupType
    <3>2. cleaner' = cleaner /\ stray' = stray /\ faults' \in {faults, faults + 1}
      BY <2>2 DEF CleanupLeaseExpires, RecoverCleanup, writers
    <3> QED
      BY <3>1, <3>2 DEF CleanupType
  <2>3. ASSUME NEW c \in Cleaners, ClaimCleanup(c) \/ CleanerDies(c) \/ CleanupHeartbeat(c)
        PROVE  CleanupType'
    <3>1. row' \in Rows
      <4>1. CASE ClaimCleanup(c)
        <5>1. row.attempts + 1 \in Nat
          BY DEF Rows, CleanupType
        <5>2. row' = [row EXCEPT !.status = "running", !.owner = c, !.live = TRUE,
                                 !.attempts = row.attempts + 1]
          BY <4>1 DEF ClaimCleanup
        <5> QED
          BY <5>1, <5>2 DEF Rows, CleanupType
      <4>2. CASE CleanerDies(c) \/ CleanupHeartbeat(c)
        BY <2>3, <4>2 DEF CleanerDies, CleanupHeartbeat, Rows, CleanupType
      <4> QED
        BY <2>3, <4>1, <4>2
    <3>2. stray' = stray /\ faults' \in {faults, faults + 1}
      BY <2>3 DEF ClaimCleanup, CleanerDies, CleanupHeartbeat, writers
    <3>3. cleaner' \in [Cleaners -> [at : Cleaning, keys : SUBSET Keys]]
      BY <2>3 DEF ClaimCleanup, CleanerDies, CleanupHeartbeat, CleanerMoves, NoCleanup, Cleaning,
                  CleanupType
    <3> QED
      BY <3>1, <3>2, <3>3 DEF CleanupType
  <2>4. ASSUME NEW c \in Cleaners, Resolve(c)
        PROVE  CleanupType'
    <3>1. CASE \E at \in {"list", "failed"} : CleanerMoves(c, at)
      BY <2>4, <3>1 DEF Resolve, CleanerMoves, NoCleanup, Cleaning, CleanupType, writers
    <3>2. CASE cleaner' = [cleaner EXCEPT ![c] = [at |-> "delete", keys |-> Listed(row.manifest)]]
      <4>1. row.manifest \in Layers
        BY <2>4 DEF Resolve, PhasesFit
      <4>2. Listed(row.manifest) \in SUBSET Keys
        BY <4>1, ListedInKeys
      <4> QED
        BY <2>4, <3>2, <4>2 DEF Resolve, Cleaning, CleanupType, writers
    <3> QED
      BY <2>4, <3>1, <3>2 DEF Resolve, Unlisted
  <2>5. ASSUME NEW c \in Cleaners, ListPrefix(c)
        PROVE  CleanupType'
    BY <2>5 DEF ListPrefix, Cleaning, CleanupType, writers
  <2>6. ASSUME NEW c \in Cleaners, DeleteObjects(c) \/ CompleteCleanup(c) \/ RetryCleanup(c)
        PROVE  CleanupType'
    <3>1. row' \in Rows
      BY <2>6 DEF DeleteObjects, CompleteCleanup, RetryCleanup, Rows, CleanupType
    <3>2. stray' = stray /\ faults' = faults
      BY <2>6 DEF DeleteObjects, CompleteCleanup, RetryCleanup, writers
    <3>3. cleaner' \in [Cleaners -> [at : Cleaning, keys : SUBSET Keys]]
      BY <2>6 DEF DeleteObjects, CompleteCleanup, RetryCleanup, CleanerMoves, NoCleanup, Cleaning,
                  CleanupType
    <3> QED
      BY <3>1, <3>2, <3>3 DEF CleanupType
  <2> QED
    BY <2>1, <2>2, <2>3, <2>4, <2>5, <2>6 DEF CleanupStep, CleanerStep
<1> QED
  BY <1>1, <1>3, <1>4, <1>5

-----------------------------------------------------------------------------
(* Uploads.                                                                *)

\* What is said of a finished or a deleted archive is about its objects.
LEMMA ObjectsUnchanged ==
    ASSUME LayersFit, RepairsFit, CleanupFits,
           UNCHANGED <<job, body, manifest, repair, row, cleaner, stray>>
    PROVE  LayersFit' /\ RepairsFit' /\ CleanupFits'
BY DEF LayersFit, RepairsFit, CleanupFits, Readable, Matches, OverlayOn, Gone, Present,
       ListedFits, Listed

\* An upload that still has its job finds it archiving.
LEMMA UploadLeavesObjects ==
    ASSUME TypeOK, NEW n \in Uploads, UploadStep(n), job.status # "archiving", ~stray'
    PROVE  UNCHANGED <<job, body, manifest, repair, row, cleaner, stray>>
<1>1. ~Owns(n) /\ UNCHANGED <<repair, row, cleaner>>
  BY DEF Owns, UploadStep, Claim, Heartbeat, PutFile, VerifyFile, PutManifest, VerifyManifest,
         UploadFails, Finish, Defer, Stops, others
<1>2. ~PutFile(n) /\ ~PutManifest(n)
  BY <1>1 DEF PutFile, PutManifest, Puts
<1> QED
  BY <1>1, <1>2 DEF UploadStep, Claim, Heartbeat, VerifyFile, VerifyManifest, UploadFails,
                    Finish, Defer, Stops

LEMMA UploadAndJob ==
    ASSUME TypeOK, NEW n \in Uploads, UploadStep(n)
    PROVE  \/ job'.status = job.status /\ job'.manifest = job.manifest
           \/ job.status = "archiving" /\ job'.status = "finished" /\ job'.manifest = Base
<1>1. CASE Finish(n)
  BY <1>1 DEF Finish, Owns
<1>2. CASE Claim(n) \/ Heartbeat(n)
  BY <1>2 DEF Claim, Heartbeat, TypeOK, JobType
<1>3. CASE Defer(n)
  BY <1>3 DEF Defer, TypeOK, JobType
<1>4. CASE UNCHANGED job
  BY <1>4
<1> QED
  BY <1>1, <1>2, <1>3, <1>4 DEF UploadStep, PutFile, VerifyFile, PutManifest, VerifyManifest,
                                UploadFails, Stops

LEMMA UploadKeepsPhases ==
    ASSUME TypeOK, PhasesFit, NEW n \in Uploads, UploadStep(n)
    PROVE  PhasesFit'
<1>1. UNCHANGED <<repair, row, cleaner>>
  BY DEF UploadStep, Claim, Heartbeat, PutFile, VerifyFile, PutManifest, VerifyManifest,
         UploadFails, Finish, Defer, Stops, others
<1>2. \/ job'.status = job.status /\ job'.manifest = job.manifest
      \/ job.status = "archiving" /\ job'.status = "finished" /\ job'.manifest = Base
  BY UploadAndJob
<1>3. \A l \in Overlays : manifest'[l] = manifest[l]
  <2>1. CASE PutManifest(n)
    BY <2>1, Facts DEF PutManifest, TypeOK, ObjectType, Base
  <2>2. CASE UNCHANGED manifest
    BY <2>2
  <2> QED
    BY <2>1, <2>2 DEF UploadStep, Claim, Heartbeat, PutFile, VerifyFile, VerifyManifest,
                      UploadFails, Finish, Defer, Stops
<1> QED
  BY <1>1, <1>2, <1>3, Facts DEF PhasesFit

LEMMA PathIsPath ==
    ASSUME TypeOK, NEW n \in Uploads, upload[n].at \in Uploading, HasFile(n)
    PROVE  /\ PathAt(n) \in Paths
           /\ upload[n].next \in Nat /\ upload[n].next >= 1
           /\ upload[n].next <= Len(upload[n].list) /\ Len(upload[n].list) \in Nat
<1>1. upload[n].next \in Nat /\ upload[n].next >= 1 /\ upload[n].next <= Len(upload[n].list)
  BY DEF HasFile, TypeOK, UploadType, Tasks
<1> QED
  BY <1>1, PathsOfUploads DEF PathAt, TypeOK

LEMMA UploadKeepsUploads ==
    ASSUME TypeOK, TypeOK', UploadsFit, NEW n \in Uploads, UploadStep(n)
    PROVE  UploadsFit'
<1> SUFFICES ASSUME job'.status = "archiving", ~stray', NEW m \in Uploads, job'.owner = m
             PROVE  UploadFits(m)'
  BY DEF UploadsFit
<1>1. job.status = "archiving" /\ ~stray
  <2>1. job.status = "archiving"
    BY UploadAndJob
  <2>2. CASE PutFile(n) \/ PutManifest(n)
    BY <2>1, <2>2 DEF PutFile, PutManifest, Puts, TypeOK, CleanupType
  <2>3. CASE stray' = stray
    BY <2>1, <2>3
  <2> QED
    BY <2>2, <2>3 DEF UploadStep, Claim, Heartbeat, VerifyFile, VerifyManifest, UploadFails,
                      Finish, Defer, Stops
<1>2. \A k \in Uploads : k # n => upload'[k] = upload[k]
  BY DEF UploadStep, Claim, Heartbeat, PutFile, VerifyFile, PutManifest, VerifyManifest,
         UploadFails, Finish, Defer, Stops, Moves, TypeOK, UploadType
<1>3. CASE Claim(n)
  <2>1. PICK list \in Workspaces :
           upload' = [upload EXCEPT ![n] = [at |-> "put", list |-> list, next |-> 1]]
    BY <1>3 DEF Claim
  <2>2. m = n /\ upload'[n] = [at |-> "put", list |-> list, next |-> 1]
    BY <1>3, <2>1, <1>1, Facts DEF Claim, TypeOK, JobType, UploadType
  <2>3. upload'[m].at = "put" /\ upload'[m].next = 1
    BY <2>2
  <2> QED
    BY <2>3 DEF UploadFits, PutSoFar
<1>4. CASE ~Claim(n)
  <2>1. job.owner = m /\ UploadFits(m)
    <3>1. job'.owner = job.owner
      <4>1. CASE Heartbeat(n)
        BY <4>1 DEF Heartbeat, TypeOK, JobType
      <4>2. CASE Defer(n)
        BY <4>2, Facts DEF Defer, TypeOK, JobType
      <4>3. CASE Finish(n)
        BY <4>3 DEF Finish
      <4> QED
        BY <1>4, <4>1, <4>2, <4>3 DEF UploadStep, PutFile, VerifyFile, PutManifest,
             VerifyManifest, UploadFails, Stops
    <3> QED
      BY <1>1, <3>1 DEF UploadsFit
  <2>2. CASE m # n
    <3>1. ~PutFile(n) /\ ~PutManifest(n)
      BY <2>1, <2>2 DEF PutFile, PutManifest, Puts, Owns
    <3>2. UNCHANGED <<body, manifest>>
      BY <3>1 DEF UploadStep, Claim, Heartbeat, VerifyFile, VerifyManifest, UploadFails,
                  Finish, Defer, Stops
    <3>3. upload'[m] = upload[m]
      BY <1>2, <2>2
    <3> QED
      BY <2>1, <3>2, <3>3 DEF UploadFits, PutSoFar, HasFile, Uploaded
  <2>3. ASSUME m = n, UNCHANGED <<body, manifest>>, NEW at, Moves(n, at),
               at \notin Uploading
        PROVE  UploadFits(m)'
    <3>1. upload'[n].at = at
      BY <2>3 DEF Moves, TypeOK, UploadType, Tasks, NoUpload
    <3> QED
      BY <2>3, <3>1 DEF UploadFits, Uploading
  <2>4. CASE m = n /\ PutFile(n)
    <3>1. /\ upload'[n].at = "verify" /\ upload'[n].list = upload[n].list
          /\ upload'[n].next = upload[n].next
      BY <2>4 DEF PutFile, Moves, TypeOK, UploadType, Tasks
    <3>2. PathAt(n) \in Paths
      BY <2>4, PathIsPath DEF PutFile, Uploading
    <3>3. PutSoFar(n)
      BY <2>1, <2>4 DEF UploadFits, PutFile, Uploading
    <3>4. body' = [body EXCEPT ![<<Base, PathAt(n)>>] = Bytes(n, PathAt(n))]
      BY <2>4 DEF PutFile
    <3>5. \A p \in Paths : body'[<<Base, p>>] = IF p = PathAt(n) THEN Bytes(n, p) ELSE body[<<Base, p>>]
      BY <3>2, <3>4, Facts DEF TypeOK, ObjectType
    <3>6. \A i \in 1..Len(upload[n].list) : upload[n].list[i] \in Paths
      BY PathsOfUploads DEF TypeOK
    <3>7. PutSoFar(n)'
      <4> SUFFICES ASSUME NEW i \in 1..(upload[n].next - 1), i <= Len(upload[n].list)
                   PROVE  body'[<<Base, upload[n].list[i]>>] = Bytes(n, upload[n].list[i])
        BY <3>1 DEF PutSoFar, Bytes
      <4>1. i \in 1..Len(upload[n].list)
        BY PathsOfUploads DEF TypeOK, UploadType, Tasks
      <4>2. upload[n].list[i] \in Paths
        BY <4>1, <3>6
      <4>3. body[<<Base, upload[n].list[i]>>] = Bytes(n, upload[n].list[i])
        BY <3>3 DEF PutSoFar
      <4> QED
        BY <4>2, <4>3, <3>5
    <3> QED
      BY <2>4, <3>1, <3>7 DEF UploadFits
  <2>5. CASE m = n /\ VerifyFile(n)
    <3>1. CASE body[<<Base, PathAt(n)>>] = Bytes(n, PathAt(n))
      <4>1. /\ upload'[n].at = "put" /\ upload'[n].list = upload[n].list
            /\ upload'[n].next = upload[n].next + 1
        <5>1. upload[n] \in Tasks /\ upload[n].next + 1 \in Nat
          BY DEF TypeOK, UploadType, Tasks
        <5>2. upload'[n] = [upload[n] EXCEPT !.at = "put", !.next = upload[n].next + 1]
          BY <2>5, <3>1 DEF VerifyFile, TypeOK, UploadType
        <5> QED
          BY <5>1, <5>2 DEF Tasks
      <4>2. upload[n].next \in Nat /\ body' = body
        BY <2>5 DEF VerifyFile, TypeOK, UploadType, Tasks
      <4>3. PutSoFar(n)
        BY <2>1, <2>5 DEF UploadFits, VerifyFile, Uploading
      <4>4. PutSoFar(n)'
        <5> SUFFICES ASSUME NEW i \in 1..upload[n].next, i <= Len(upload[n].list)
                     PROVE  body[<<Base, upload[n].list[i]>>] = Bytes(n, upload[n].list[i])
          BY <4>1, <4>2 DEF PutSoFar, Bytes
        <5>1. CASE i = upload[n].next
          BY <5>1, <3>1 DEF PathAt
        <5>2. CASE i # upload[n].next
          <6>1. i \in 1..(upload[n].next - 1)
            BY <5>2, <4>2
          <6> QED
            BY <6>1, <4>3 DEF PutSoFar
        <5> QED
          BY <5>1, <5>2
      <4> QED
        BY <2>5, <4>1, <4>4 DEF UploadFits
    <3>2. CASE ~(body[<<Base, PathAt(n)>>] = Bytes(n, PathAt(n)))
      BY <2>5, <3>2, <2>3 DEF VerifyFile, Uploading
    <3> QED
      BY <3>1, <3>2
  <2>6. CASE m = n /\ PutManifest(n)
    <3>1. /\ upload'[n].at = "verify manifest" /\ upload'[n].list = upload[n].list
          /\ upload'[n].next = upload[n].next /\ body' = body
      BY <2>6 DEF PutManifest, Moves, TypeOK, UploadType, Tasks
    <3>2. PutSoFar(n) /\ ~HasFile(n)
      BY <2>1, <2>6 DEF UploadFits, PutManifest, Uploading
    <3> QED
      BY <2>6, <3>1, <3>2 DEF UploadFits, PutSoFar, HasFile, Bytes
  <2>7. CASE m = n /\ VerifyManifest(n)
    <3>1. CASE manifest[Base] = Uploaded(n)
      <4>1. /\ upload'[n].at = "finish" /\ upload'[n].list = upload[n].list
            /\ upload'[n].next = upload[n].next /\ body' = body /\ manifest' = manifest
        BY <2>7, <3>1 DEF VerifyManifest, Moves, TypeOK, UploadType, Tasks
      <4>2. PutSoFar(n) /\ ~HasFile(n)
        BY <2>1, <2>7 DEF UploadFits, VerifyManifest, Uploading
      <4> QED
        BY <2>7, <3>1, <4>1, <4>2 DEF UploadFits, PutSoFar, HasFile, Bytes, Uploaded
    <3>2. CASE manifest[Base] # Uploaded(n)
      BY <2>7, <3>2, <2>3 DEF VerifyManifest, Uploading
    <3> QED
      BY <3>1, <3>2
  <2>8. CASE m = n /\ Heartbeat(n)
    BY <2>1, <2>8 DEF Heartbeat, UploadFits, PutSoFar, HasFile, Uploaded, Bytes
  <2>9. CASE m = n /\ (UploadFails(n) \/ Defer(n) \/ Stops(n))
    BY <2>3, <2>9 DEF UploadFails, Defer, Stops, Uploading
  <2>10. ~Finish(n)
    BY DEF Finish
  <2> QED
    BY <1>4, <2>2, <2>4, <2>5, <2>6, <2>7, <2>8, <2>9, <2>10 DEF UploadStep
<1> QED
  BY <1>3, <1>4

\* What the owner announces is what it has put.
LEMMA FinishedIsReadable ==
    ASSUME TypeOK, PhasesFit, UploadsFit, NEW n \in Uploads, Finish(n), ~stray
    PROVE  LayersFit' /\ RepairsFit'
<1>1. /\ UploadFits(n) /\ job'.manifest = Base /\ job'.status = "finished"
      /\ body' = body /\ manifest' = manifest /\ repair' = repair
  BY DEF UploadsFit, Finish, Owns, others
<1>2. PutSoFar(n) /\ ~HasFile(n) /\ manifest[Base] = Uploaded(n)
  BY <1>1 DEF UploadFits, Finish, Uploading
<1>3. manifest[Base].there /\ manifest[Base] # NoManifest
  BY <1>2 DEF Uploaded, ManifestOf, NoManifest
<1>4. \A p \in DOMAIN manifest[Base].files : Matches(p)
  <2> DEFINE S == {upload[n].list[i] : i \in 1..Len(upload[n].list)}
  <2>1. manifest[Base].files = [p \in S |-> Bytes(n, p)]
    BY <1>2 DEF Uploaded, ManifestOf
  <2>2. \A i \in 1..Len(upload[n].list) :
           body[<<Base, upload[n].list[i]>>] = Bytes(n, upload[n].list[i])
    <3>1. Len(upload[n].list) \in Nat /\ upload[n].next \in Nat
      BY PathsOfUploads DEF TypeOK, UploadType, Tasks
    <3> QED
      BY <1>2, <3>1 DEF PutSoFar, HasFile
  <2> HIDE DEF S
  <2>3. ASSUME NEW p \in S
        PROVE  body[<<Base, p>>] = manifest[Base].files[p]
    BY <2>1, <2>2, <2>3 DEF S
  <2>4. DOMAIN manifest[Base].files = S
    BY <2>1
  <2> QED
    BY <2>3, <2>4 DEF Matches
<1>5. Readable(Base)
  BY <1>3, <1>4 DEF Readable
<1>6. /\ \A l \in Overlays : manifest[l] = NoManifest
      /\ \A r \in Repairs : repair[r].at = "idle"
  BY DEF PhasesFit, Finish, Owns
<1>7. LayersFit'
  BY <1>1, <1>3, <1>5, <1>6 DEF LayersFit, Readable, Matches
<1>8. RepairsFit'
  BY <1>1, <1>6 DEF RepairsFit, Repairing
<1> QED
  BY <1>7, <1>8

LEMMA UploadStepInv ==
    ASSUME ArchiveInv, NEW n \in Uploads, UploadStep(n)
    PROVE  ArchiveInv'
<1>1. TypeOK' /\ PhasesFit' /\ UploadsFit'
  BY UploadStepType, UploadKeepsPhases, UploadKeepsUploads DEF ArchiveInv
<1>2. LayersFit' /\ RepairsFit' /\ CleanupFits'
  <2>1. CASE job.status # "archiving" /\ ~stray'
    BY <2>1, UploadLeavesObjects, ObjectsUnchanged DEF ArchiveInv
  <2>2. CASE stray'
    BY <2>2 DEF LayersFit, RepairsFit, CleanupFits
  <2>3. CASE job.status = "archiving" /\ Finish(n) /\ ~stray'
    <3>1. ~stray /\ job'.status = "finished"
      BY <2>3 DEF Finish
    <3>2. CleanupFits'
      BY <3>1 DEF CleanupFits
    <3> QED
      BY <2>3, <3>1, <3>2, FinishedIsReadable DEF ArchiveInv
  <2>4. CASE job.status = "archiving" /\ ~Finish(n)
    <3>1. job'.status = "archiving"
      <4>1. CASE Claim(n) \/ Heartbeat(n)
        BY <2>4, <4>1 DEF Claim, Heartbeat, ArchiveInv, TypeOK, JobType
      <4>2. CASE Defer(n)
        BY <2>4, <4>2 DEF Defer, ArchiveInv, TypeOK, JobType
      <4>3. CASE UNCHANGED job
        BY <2>4, <4>3
      <4> QED
        BY <2>4, <4>1, <4>2, <4>3 DEF UploadStep, PutFile, VerifyFile, PutManifest,
             VerifyManifest, UploadFails, Stops
    <3> QED
      BY <3>1 DEF LayersFit, RepairsFit, CleanupFits
  <2> QED
    BY <2>1, <2>2, <2>3, <2>4
<1> QED
  BY <1>1, <1>2 DEF ArchiveInv

-----------------------------------------------------------------------------
(* Repairs.                                                                *)

LEMMA RepairComesLater ==
    ASSUME TypeOK, PhasesFit, NEW r \in Repairs, RepairStep(r)
    PROVE  /\ job.status # "archiving" /\ job'.status = job.status
           /\ UNCHANGED <<upload, row, cleaner>>
           /\ \A q \in Repairs : q # r => repair'[q] = repair[q]
<1>1. job.status # "archiving"
  BY DEF RepairStep, Inspect, RestoreWorkspace, PlanOverlay, PutOverlayFile,
         PutOverlayManifest, Activate, RepairStops, PhasesFit
<1>2. job'.status = job.status
  BY DEF RepairStep, Inspect, RestoreWorkspace, PlanOverlay, PutOverlayFile,
         PutOverlayManifest, Activate, RepairStops, TypeOK, JobType
<1>3. UNCHANGED <<upload, row, cleaner>>
  BY DEF RepairStep, Inspect, RestoreWorkspace, PlanOverlay, PutOverlayFile,
         PutOverlayManifest, Activate, RepairStops, uploads
<1>4. \A q \in Repairs : q # r => repair'[q] = repair[q]
  BY DEF RepairStep, Inspect, RestoreWorkspace, PlanOverlay, PutOverlayFile,
         PutOverlayManifest, Activate, RepairStops, RepairMoves, TypeOK, RepairType
<1> QED
  BY <1>1, <1>2, <1>3, <1>4

\* When nobody writes, it is enough to look at the repair.
LEMMA RepairOfSame ==
    ASSUME TypeOK, PhasesFit, LayersFit, RepairsFit, CleanupFits, NEW r \in Repairs,
           RepairStep(r), UNCHANGED <<body, manifest, stray>>,
           job'.status = "finished" => manifest[job'.manifest] # NoManifest,
           job'.status = "finished" /\ ~stray =>
               /\ repair'[r].at \in Repairing => repair'[r].source = manifest[Base]
               /\ repair'[r].at \in {"put manifest", "activate"} =>
                     body[<<repair'[r].layer, "report">>] = Repaired(repair'[r].layer)
               /\ repair'[r].at = "activate" => manifest[repair'[r].layer] # NoManifest
    PROVE  LayersFit' /\ RepairsFit' /\ CleanupFits'
<1>1. /\ job'.status = job.status /\ UNCHANGED <<row, cleaner>>
      /\ \A q \in Repairs : q # r => repair'[q] = repair[q]
  BY RepairComesLater
<1>2. LayersFit'
  BY <1>1 DEF LayersFit, Readable, Matches, OverlayOn
<1>3. RepairsFit'
  BY <1>1 DEF RepairsFit
<1>4. CleanupFits'
  BY <1>1 DEF CleanupFits, Gone, Present, ListedFits, Listed
<1> QED
  BY <1>2, <1>3, <1>4

LEMMA MovedTo ==
    ASSUME RepairType, NEW r \in Repairs, NEW at, at # "done", RepairMoves(r, at)
    PROVE  /\ repair'[r].at = at /\ repair'[r].source = repair[r].source
           /\ repair'[r].layer = repair[r].layer
BY DEF RepairType, RepairMoves

LEMMA MovedOut ==
    ASSUME RepairType, NEW r \in Repairs, RepairMoves(r, "done")
    PROVE  repair'[r].at = "done"
BY DEF RepairType, RepairMoves, NoRepair

LEMMA RepairKeepsObjects ==
    ASSUME ArchiveInv, NEW r \in Repairs, RepairStep(r)
    PROVE  LayersFit' /\ RepairsFit' /\ CleanupFits'
<1> DEFINE Goal == LayersFit' /\ RepairsFit' /\ CleanupFits'
<1> SUFFICES Goal
  OBVIOUS
<1>0. /\ TypeOK /\ PhasesFit /\ LayersFit /\ RepairsFit /\ CleanupFits
      /\ RepairType /\ ObjectType
  BY DEF ArchiveInv, TypeOK
<1>1. /\ job.status # "archiving" /\ job'.status = job.status
      /\ UNCHANGED <<upload, row, cleaner>>
      /\ \A q \in Repairs : q # r => repair'[q] = repair[q]
  BY <1>0, RepairComesLater
<1>2. ASSUME RepairMoves(r, "done"), UNCHANGED <<job, body, manifest, stray>>
      PROVE  Goal
  <2>1. repair'[r].at = "done"
    BY <1>0, <1>2, MovedOut
  <2>2. job.status = "finished" /\ ~stray => manifest[job.manifest] # NoManifest
    BY <1>0 DEF LayersFit
  <2>3. CASE stray
    BY <1>2, <2>3 DEF LayersFit, RepairsFit, CleanupFits
  <2> QED
    BY <1>0, <1>2, <2>1, <2>2, <2>3, RepairOfSame DEF Repairing
<1>3. CASE stray'
  BY <1>3 DEF LayersFit, RepairsFit, CleanupFits
<1>4. CASE job.status = "deleted" /\ ~stray'
  <2>1. job'.status = "deleted"
    BY <1>1, <1>4
  <2>2. LayersFit' /\ RepairsFit'
    BY <2>1 DEF LayersFit, RepairsFit
  <2>3. ~PutOverlayFile(r) /\ ~PutOverlayManifest(r) /\ ~Activate(r) /\ ~Inspect(r)
    BY <1>4 DEF PutOverlayFile, PutOverlayManifest, Activate, Inspect
  <2>4. UNCHANGED <<body, manifest, stray>>
    BY <2>3 DEF RepairStep, RestoreWorkspace, PlanOverlay, RepairStops
  <2>5. CleanupFits'
    BY <1>0, <1>1, <2>4 DEF CleanupFits, Gone, Present, ListedFits, Listed
  <2> QED
    BY <2>2, <2>5
<1>5. CASE job.status = "finished" /\ ~stray'
  <2>0. /\ ~stray /\ job'.status = "finished"
        /\ Readable(Base) /\ manifest[job.manifest] # NoManifest
        /\ \A l \in Overlays : manifest[l] # NoManifest =>
              manifest[l] = OverlayOn(l) /\ body[<<l, "report">>] = Repaired(l)
    <3>1. ~stray
      BY <1>5 DEF RepairStep, Inspect, RestoreWorkspace, PlanOverlay, PutOverlayFile,
         PutOverlayManifest, Activate, RepairStops
    <3> QED
      BY <1>0, <1>1, <1>5, <3>1 DEF LayersFit
  <2>1. CASE Inspect(r)
    <3>1. /\ repair'[r].at = "restore" /\ repair'[r].source = manifest[Base]
          /\ UNCHANGED <<job, body, manifest, stray>>
      BY <1>0, <2>1 DEF Inspect, RepairType
    <3> QED
      BY <1>0, <2>0, <3>1, RepairOfSame
  <2>2. CASE RestoreWorkspace(r)
    <3>1. CASE RepairMoves(r, "plan")
      <4>1. /\ repair'[r].at = "plan" /\ repair'[r].source = repair[r].source
            /\ UNCHANGED <<job, body, manifest, stray>>
        BY <1>0, <2>2, <3>1, MovedTo DEF RestoreWorkspace
      <4>2. repair[r].source = manifest[Base]
        BY <1>0, <1>5, <2>0, <2>2 DEF RepairsFit, RestoreWorkspace, Repairing
      <4> QED
        BY <1>0, <2>0, <4>1, <4>2, RepairOfSame
    <3> QED
      BY <1>2, <2>2, <3>1 DEF RestoreWorkspace
  <2>3. CASE PlanOverlay(r)
    <3>1. CASE RepairMoves(r, "put")
      <4>1. /\ repair'[r].at = "put" /\ repair'[r].source = repair[r].source
            /\ UNCHANGED <<job, body, manifest, stray>>
        BY <1>0, <2>3, <3>1, MovedTo DEF PlanOverlay
      <4>2. repair[r].source = manifest[Base]
        BY <1>0, <1>5, <2>0, <2>3 DEF RepairsFit, PlanOverlay, Repairing
      <4> QED
        BY <1>0, <2>0, <4>1, <4>2, RepairOfSame
    <3> QED
      BY <1>2, <2>3, <3>1 DEF PlanOverlay
  <2>4. CASE PutOverlayFile(r)
    <3> DEFINE l == repair[r].layer
    <3>1. l \in Overlays /\ l # Base /\ repair[r].source = manifest[Base]
      BY <1>0, <1>5, <2>0, <2>4, Facts DEF PutOverlayFile, RepairType, Repairing, RepairsFit, Base
    <3>2. /\ body' = [body EXCEPT ![<<l, "report">>] = Repaired(l)]
          /\ UNCHANGED <<job, manifest>>
      BY <2>4 DEF PutOverlayFile, Repaired
    <3>3. /\ repair'[r].at = "put manifest" /\ repair'[r].source = repair[r].source
          /\ repair'[r].layer = l
      BY <1>0, <2>4, MovedTo DEF PutOverlayFile
    <3> HIDE DEF l
    <3>4. /\ \A p \in Paths : body'[<<Base, p>>] = body[<<Base, p>>]
          /\ \A m \in Overlays : body[<<m, "report">>] = Repaired(m) => body'[<<m, "report">>] = Repaired(m)
          /\ body'[<<l, "report">>] = Repaired(l)
      <4>1. <<l, "report">> \in Layers \X Paths
        BY <3>1, Facts DEF Paths
      <4> QED
        BY <1>0, <3>1, <3>2, <4>1, Facts DEF ObjectType, Paths
    <3>5. DOMAIN manifest[Base].files \subseteq Paths
      BY <1>0, Facts DEF ObjectType, Manifests, Files
    <3>6. LayersFit'
      <4>1. Readable(Base)'
        BY <2>0, <3>2, <3>4, <3>5 DEF Readable, Matches
      <4> QED
        BY <2>0, <3>2, <3>4, <4>1 DEF LayersFit, OverlayOn
    <3>7. RepairsFit'
      <4> SUFFICES ASSUME NEW q \in Repairs
                   PROVE  /\ repair'[q].at \in Repairing => repair'[q].source = manifest[Base]
                          /\ repair'[q].at \in {"put manifest", "activate"} =>
                                body'[<<repair'[q].layer, "report">>] = Repaired(repair'[q].layer)
                          /\ repair'[q].at = "activate" => manifest[repair'[q].layer] # NoManifest
        BY <3>2 DEF RepairsFit
      <4>1. CASE q = r
        BY <3>1, <3>3, <3>4, <4>1
      <4>2. CASE q # r
        <5>1. repair'[q] = repair[q]
          BY <1>1, <4>2
        <5>2. /\ repair[q].at \in Repairing => repair[q].source = manifest[Base] /\ repair[q].layer \in Overlays
              /\ repair[q].at \in {"put manifest", "activate"} =>
                     body[<<repair[q].layer, "report">>] = Repaired(repair[q].layer)
              /\ repair[q].at = "activate" => manifest[repair[q].layer] # NoManifest
          BY <1>0, <1>5, <2>0 DEF RepairsFit, RepairType
        <5> QED
          BY <5>1, <5>2, <3>4 DEF Repairing
      <4> QED
        BY <4>1, <4>2
    <3>8. CleanupFits'
      BY <2>0 DEF CleanupFits
    <3> QED
      BY <3>6, <3>7, <3>8
  <2>5. CASE PutOverlayManifest(r)
    <3> DEFINE l == repair[r].layer
    <3>1. /\ l \in Overlays /\ l # Base /\ repair[r].source = manifest[Base]
          /\ body[<<l, "report">>] = Repaired(l)
      BY <1>0, <1>5, <2>0, <2>5, Facts
         DEF PutOverlayManifest, RepairType, Repairing, RepairsFit, Base
    <3>2. OverlayOf(r) = OverlayOn(l) /\ OverlayOn(l) # NoManifest
      BY <3>1 DEF OverlayOf, OverlayOn, Repaired, ManifestOf, NoManifest
    <3>3. /\ manifest' = [manifest EXCEPT ![l] = OverlayOn(l)]
          /\ UNCHANGED <<job, body>>
      BY <2>5, <3>2 DEF PutOverlayManifest
    <3>4. /\ repair'[r].at = "activate" /\ repair'[r].source = repair[r].source
          /\ repair'[r].layer = l
      BY <1>0, <2>5, MovedTo DEF PutOverlayManifest
    <3> HIDE DEF l
    <3>5. /\ manifest'[Base] = manifest[Base] /\ manifest'[l] = OverlayOn(l)
          /\ \A m \in Layers : m # l => manifest'[m] = manifest[m]
      BY <1>0, <3>1, <3>3, Facts DEF ObjectType
    <3>6. \A m : OverlayOn(m)' = OverlayOn(m)
      BY <3>5 DEF OverlayOn
    <3>7. LayersFit'
      <4>1. Readable(Base)'
        BY <2>0, <3>3, <3>5 DEF Readable, Matches
      <4>2. \A m \in Overlays : manifest'[m] # NoManifest =>
               manifest'[m] = OverlayOn(m) /\ body[<<m, "report">>] = Repaired(m)
        BY <2>0, <3>1, <3>5, Facts
      <4>3. manifest'[job.manifest] # NoManifest
        <5>1. job.manifest \in Layers
          BY <1>0, <1>1 DEF PhasesFit
        <5> QED
          BY <2>0, <3>2, <3>5, <5>1
      <4> QED
        BY <3>3, <3>6, <4>1, <4>2, <4>3 DEF LayersFit
    <3>8. RepairsFit'
      <4> SUFFICES ASSUME NEW q \in Repairs
                   PROVE  /\ repair'[q].at \in Repairing => repair'[q].source = manifest[Base]
                          /\ repair'[q].at \in {"put manifest", "activate"} =>
                                body[<<repair'[q].layer, "report">>] = Repaired(repair'[q].layer)
                          /\ repair'[q].at = "activate" => manifest'[repair'[q].layer] # NoManifest
        BY <3>3, <3>5 DEF RepairsFit
      <4>1. CASE q = r
        BY <3>1, <3>2, <3>4, <3>5, <4>1
      <4>2. CASE q # r
        <5>1. repair'[q] = repair[q] /\ repair[q].layer \in Layers
          BY <1>0, <1>1, <4>2 DEF RepairType
        <5>2. /\ repair[q].at \in Repairing => repair[q].source = manifest[Base]
              /\ repair[q].at \in {"put manifest", "activate"} =>
                     body[<<repair[q].layer, "report">>] = Repaired(repair[q].layer)
              /\ repair[q].at = "activate" => manifest[repair[q].layer] # NoManifest
          BY <1>0, <1>5, <2>0 DEF RepairsFit
        <5> QED
          BY <5>1, <5>2, <3>2, <3>5
      <4> QED
        BY <4>1, <4>2
    <3>9. CleanupFits'
      BY <2>0 DEF CleanupFits
    <3> QED
      BY <3>7, <3>8, <3>9
  <2>6. CASE Activate(r)
    <3>1. /\ job'.manifest = repair[r].layer /\ UNCHANGED <<body, manifest, stray>>
          /\ repair'[r].at = "done"
      BY <1>0, <2>6, MovedOut DEF Activate, TypeOK, JobType
    <3>2. manifest[repair[r].layer] # NoManifest
      BY <1>0, <1>5, <2>0, <2>6 DEF RepairsFit, Activate
    <3> QED
      BY <1>0, <3>1, <3>2, RepairOfSame DEF Repairing
  <2>7. CASE RepairStops(r)
    BY <1>2, <2>7 DEF RepairStops
  <2> QED
    BY <2>1, <2>2, <2>3, <2>4, <2>5, <2>6, <2>7 DEF RepairStep
<1> QED
  BY <1>0, <1>1, <1>3, <1>4, <1>5 DEF TypeOK, JobType

LEMMA RepairStepInv ==
    ASSUME ArchiveInv, NEW r \in Repairs, RepairStep(r)
    PROVE  ArchiveInv'
<1>1. /\ job.status # "archiving" /\ job'.status = job.status
      /\ UNCHANGED <<upload, row, cleaner>>
  BY RepairComesLater DEF ArchiveInv
<1>2. TypeOK' /\ LayersFit' /\ RepairsFit' /\ CleanupFits'
  BY RepairStepType, RepairKeepsObjects DEF ArchiveInv
<1>3. UploadsFit'
  BY <1>1 DEF UploadsFit
<1>4. job'.manifest \in Layers
  <2>1. CASE Activate(r)
    BY <2>1 DEF Activate, ArchiveInv, TypeOK, JobType, RepairType
  <2>2. CASE job' = job
    BY <1>1, <2>2 DEF ArchiveInv, PhasesFit
  <2> QED
    BY <2>1, <2>2 DEF RepairStep, Inspect, RestoreWorkspace, PlanOverlay, PutOverlayFile,
                      PutOverlayManifest, RepairStops
<1>5. PhasesFit'
  BY <1>1, <1>4 DEF ArchiveInv, PhasesFit
<1> QED
  BY <1>2, <1>3, <1>5 DEF ArchiveInv

-----------------------------------------------------------------------------
(* Deletion and cleanup.                                                   *)

LEMMA DeletedKeepsFits ==
    ASSUME ArchiveInv, DeleteSurvey
    PROVE  PhasesFit' /\ CleanupFits'
<1>1. /\ job.status = "finished" /\ job'.status = "deleted" /\ job.manifest \in Layers
      /\ job'.manifest = job.manifest /\ UNCHANGED <<body, manifest, cleaner>>
      /\ row'.status = "pending" /\ row'.manifest = job.manifest
      /\ row'.listed = Listed(job.manifest)
  BY DEF DeleteSurvey, ArchiveInv, PhasesFit, TypeOK, JobType, CleanupType, Rows
<1>2. \A c \in Cleaners : cleaner'[c].at = "idle"
  BY <1>1 DEF ArchiveInv, PhasesFit
<1>5. PhasesFit'
  BY <1>1 DEF PhasesFit
<1>6. ListedFits'
  BY <1>1 DEF ListedFits, Listed
<1>7. CleanupFits'
  BY <1>1, <1>2, <1>6 DEF CleanupFits
<1> QED
  BY <1>5, <1>7

\* Whoever cleans up does it for a survey that is deleted.
LEMMA CleanedIsDeleted ==
    ASSUME TypeOK, PhasesFit, CleanupStep, ~DeleteSurvey
    PROVE  job.status = "deleted" /\ UNCHANGED <<job, stray>>
<1>1. ASSUME NEW c \in Cleaners, CleanerStep(c) \/ ClaimCleanup(c) \/ CleanerDies(c) \/ CleanupHeartbeat(c)
      PROVE  (row.status # "absent" \/ cleaner[c].at # "idle") /\ UNCHANGED <<job, writers>>
  BY <1>1 DEF CleanerStep, Resolve, ListPrefix, DeleteObjects, CompleteCleanup, RetryCleanup,
              ClaimCleanup, CleanerDies, CleanupHeartbeat
<1>2. CASE CleanupLeaseExpires \/ RecoverCleanup
  BY <1>2 DEF CleanupLeaseExpires, RecoverCleanup, PhasesFit, writers
<1> QED
  BY <1>1, <1>2 DEF CleanupStep, PhasesFit, writers

\* Without deletions, what matters is the task that moves and the status of the row.
LEMMA CleanupOfSame ==
    ASSUME TypeOK, CleanupFits, job.status = "deleted", ~stray, UNCHANGED <<job, body, manifest, stray>>,
           row'.manifest = row.manifest, row'.listed = row.listed,
           row'.status = "succeeded" => row.status = "succeeded" \/ Gone,
           \A c \in Cleaners :
               \/ cleaner'[c] = cleaner[c]
               \/ cleaner'[c].at \notin {"delete", "complete"}
               \/ /\ cleaner'[c].at = "delete"
                  /\ \A k \in row.listed : Present(k) => k \in cleaner'[c].keys
    PROVE  CleanupFits'
<1>1. \A k : Present(k)' = Present(k)
  BY DEF Present
<1>3. Gone' = Gone
  BY <1>1 DEF Gone
<1>4. /\ ListedFits
      /\ \A c \in Cleaners :
              /\ cleaner[c].at = "delete" =>
                    \A k \in row.listed : Present(k) => k \in cleaner[c].keys
              /\ cleaner[c].at = "complete" => Gone
      /\ row.status = "succeeded" => Gone
  BY DEF CleanupFits
<1>5. ListedFits'
  BY <1>4 DEF ListedFits, Listed
<1>6. \A c \in Cleaners :
              /\ cleaner'[c].at = "delete" =>
                    \A k \in row'.listed : Present(k)' => k \in cleaner'[c].keys
              /\ cleaner'[c].at = "complete" => Gone'
  BY <1>1, <1>3, <1>4
<1>7. row'.status = "succeeded" => Gone'
  BY <1>3, <1>4
<1> QED
  BY <1>5, <1>6, <1>7 DEF CleanupFits

LEMMA MovedCleaner ==
    ASSUME TypeOK, NEW c \in Cleaners, NEW at, CleanerMoves(c, at)
    PROVE  /\ cleaner'[c].at = at
           /\ \A d \in Cleaners : d # c => cleaner'[d] = cleaner[d]
BY DEF CleanerMoves, NoCleanup, TypeOK, CleanupType

LEMMA DeletionKeepsFits ==
    ASSUME TypeOK, PhasesFit, CleanupFits, job.status = "deleted", ~stray, NEW c \in Cleaners,
           DeleteObjects(c)
    PROVE  CleanupFits'
<1>1. /\ cleaner[c].at = "delete" /\ UNCHANGED <<job, row, stray>>
      /\ \E gone \in {{k} : k \in cleaner[c].keys} \cup {{}, cleaner[c].keys} :
          /\ body' = [k \in DOMAIN body |-> IF k \in gone THEN Absent ELSE body[k]]
          /\ manifest' = [l \in Layers |-> IF <<l, "manifest">> \in gone THEN NoManifest
                                           ELSE manifest[l]]
          /\ \/ gone = cleaner[c].keys /\ CleanerMoves(c, "complete")
             \/ CleanerMoves(c, "failed")
  BY DEF DeleteObjects, writers
<1>2. PICK gone \in {{k} : k \in cleaner[c].keys} \cup {{}, cleaner[c].keys} :
          /\ body' = [k \in DOMAIN body |-> IF k \in gone THEN Absent ELSE body[k]]
          /\ manifest' = [l \in Layers |-> IF <<l, "manifest">> \in gone THEN NoManifest
                                           ELSE manifest[l]]
          /\ \/ gone = cleaner[c].keys /\ CleanerMoves(c, "complete")
             \/ CleanerMoves(c, "failed")
  BY <1>1
<1>3. \A k \in Keys : Present(k)' => Present(k) /\ k \notin gone
  <2> SUFFICES ASSUME NEW k \in Keys, Present(k)'
               PROVE  Present(k) /\ k \notin gone
    OBVIOUS
  <2>1. k = <<k[1], k[2]>> /\ k[1] \in Layers /\ k[2] \in Paths \cup {"manifest"}
    BY DEF Keys
  <2>2. CASE k[2] = "manifest"
    <3>1. manifest'[k[1]].there
      BY <2>2 DEF Present
    <3>2. <<k[1], "manifest">> \notin gone /\ manifest'[k[1]] = manifest[k[1]]
      BY <1>2, <2>1, <3>1 DEF NoManifest
    <3> QED
      BY <2>1, <2>2, <3>1, <3>2 DEF Present
  <2>3. CASE k[2] # "manifest"
    <3>1. body'[k] # Absent
      BY <2>3 DEF Present
    <3>2. k \in DOMAIN body
      BY <2>1, <2>3 DEF TypeOK, ObjectType
    <3>3. k \notin gone /\ body'[k] = body[k]
      BY <1>2, <3>1, <3>2
    <3> QED
      BY <2>3, <3>1, <3>3 DEF Present
  <2> QED
    BY <2>2, <2>3
<1>4. row.listed \subseteq Keys
  BY DEF TypeOK, CleanupType, Rows
<1>5. /\ ListedFits
      /\ \A d \in Cleaners :
              /\ cleaner[d].at = "delete" =>
                    \A k \in row.listed : Present(k) => k \in cleaner[d].keys
              /\ cleaner[d].at = "complete" => Gone
      /\ row.status = "succeeded" => Gone
  BY DEF CleanupFits
<1>6. Gone => Gone'
  BY <1>1, <1>3, <1>4 DEF Gone
<1>7. ListedFits'
  <2> SUFFICES ASSUME manifest'[row.manifest].there, manifest'[Base].there
               PROVE  row.listed = Listed(row.manifest)'
    BY <1>1 DEF ListedFits
  <2>1. manifest'[row.manifest] = manifest[row.manifest] /\ manifest'[Base] = manifest[Base]
    BY <1>2, Facts DEF NoManifest, PhasesFit
  <2> QED
    BY <1>1, <1>5, <2>1 DEF ListedFits, Listed
<1>8. ASSUME NEW d \in Cleaners
      PROVE  /\ cleaner'[d].at = "delete" =>
                    \A k \in row.listed : Present(k)' => k \in cleaner'[d].keys
             /\ cleaner'[d].at = "complete" => Gone'
  <2>1. CASE d # c
    <3>1. cleaner'[d] = cleaner[d]
      BY <1>2, <2>1, MovedCleaner
    <3> QED
      BY <1>3, <1>4, <1>5, <1>6, <3>1
  <2>2. CASE d = c /\ gone = cleaner[c].keys /\ CleanerMoves(c, "complete")
    <3>1. cleaner'[c].at = "complete"
      BY <2>2, MovedCleaner
    <3>2. Gone'
      BY <1>1, <1>3, <1>4, <1>5, <2>2 DEF Gone
    <3> QED
      BY <2>2, <3>1, <3>2
  <2>3. CASE d = c /\ CleanerMoves(c, "failed")
    <3>1. cleaner'[c].at = "failed"
      BY <2>3, MovedCleaner
    <3> QED
      BY <2>3, <3>1
  <2> QED
    BY <1>2, <2>1, <2>2, <2>3
<1> QED
  BY <1>1, <1>5, <1>6, <1>7, <1>8 DEF CleanupFits

LEMMA CleanupKeepsFits ==
    ASSUME TypeOK, PhasesFit, CleanupFits, CleanupStep, ~DeleteSurvey
    PROVE  CleanupFits'
<1> DEFINE Goal == CleanupFits'
<1> SUFFICES Goal
  OBVIOUS
<1>1. job.status = "deleted" /\ UNCHANGED <<job, stray>>
  BY CleanedIsDeleted
<1>2. CASE stray
  BY <1>1, <1>2 DEF CleanupFits
<1>3. ASSUME ~stray, NEW c \in Cleaners, NEW at, at \notin {"delete", "complete"},
             CleanerMoves(c, at), UNCHANGED <<body, manifest>>,
             row'.manifest = row.manifest, row'.listed = row.listed,
             row'.status = "succeeded" => row.status = "succeeded" \/ Gone
      PROVE  Goal
  <2>1. /\ cleaner'[c].at = at
        /\ \A d \in Cleaners : d # c => cleaner'[d] = cleaner[d]
    BY <1>3, MovedCleaner
  <2> QED
    BY <1>1, <1>3, <2>1, CleanupOfSame
<1>4. ASSUME ~stray, UNCHANGED <<body, manifest, cleaner>>,
             row'.manifest = row.manifest, row'.listed = row.listed,
             row'.status = "succeeded" => row.status = "succeeded"
      PROVE  Goal
  BY <1>1, <1>4, CleanupOfSame
<1>5. ASSUME ~stray, NEW c \in Cleaners, NEW keys,
             cleaner' = [cleaner EXCEPT ![c] = [at |-> "delete", keys |-> keys]],
             UNCHANGED <<body, manifest, row>>,
             \A k \in row.listed : Present(k) => k \in keys
      PROVE  Goal
  <2>1. /\ cleaner'[c].at = "delete" /\ cleaner'[c].keys = keys
        /\ \A d \in Cleaners : d # c => cleaner'[d] = cleaner[d]
    BY <1>5 DEF TypeOK, CleanupType
  <2> QED
    BY <1>1, <1>5, <2>1, CleanupOfSame
<1> HIDE DEF Goal
<1>6. row \in Rows
  BY DEF TypeOK, CleanupType
<1>7. ASSUME ~stray, CleanupLeaseExpires \/ RecoverCleanup
      PROVE  Goal
  BY <1>4, <1>6, <1>7 DEF CleanupLeaseExpires, RecoverCleanup, Rows
<1>8. ASSUME ~stray, NEW c \in Cleaners, CleanupHeartbeat(c)
      PROVE  Goal
  BY <1>4, <1>6, <1>8 DEF CleanupHeartbeat, Rows
<1>9. ASSUME ~stray, NEW c \in Cleaners, ClaimCleanup(c)
      PROVE  Goal
  BY <1>3, <1>6, <1>9 DEF ClaimCleanup, Rows
<1>10. ASSUME ~stray, NEW c \in Cleaners, CleanerDies(c)
       PROVE  Goal
  BY <1>3, <1>6, <1>10 DEF CleanerDies
<1>11. ASSUME ~stray, NEW c \in Cleaners, Resolve(c)
       PROVE  Goal
  <2>1. ASSUME NEW at \in {"list", "failed"}, CleanerMoves(c, at)
        PROVE  Goal
    BY <1>3, <1>11, <2>1 DEF Resolve
  <2>2. CASE /\ manifest[row.manifest].there /\ manifest[Base].there
             /\ cleaner' = [cleaner EXCEPT ![c] = [at |-> "delete", keys |-> Listed(row.manifest)]]
    <3>1. row.listed = Listed(row.manifest)
      BY <1>1, <1>11, <2>2 DEF CleanupFits, ListedFits
    <3> QED
      BY <1>5, <1>11, <2>2, <3>1 DEF Resolve
  <2> QED
    BY <1>11, <2>1, <2>2 DEF Resolve, Unlisted
<1>12. ASSUME ~stray, NEW c \in Cleaners, ListPrefix(c)
       PROVE  Goal
  <2>1. \A k \in row.listed : Present(k) => k \in {x \in Keys : Present(x)}
    BY <1>6 DEF Rows
  <2>2. /\ cleaner' = [cleaner EXCEPT ![c] = [at |-> "delete", keys |-> {x \in Keys : Present(x)}]]
        /\ UNCHANGED <<body, manifest, row>>
    BY <1>12 DEF ListPrefix
  <2> QED
    BY <1>5, <1>12, <2>1, <2>2
<1>13. ASSUME ~stray, NEW c \in Cleaners, DeleteObjects(c)
       PROVE  Goal
  BY <1>1, <1>13, DeletionKeepsFits DEF Goal
<1>14. ASSUME ~stray, NEW c \in Cleaners, CompleteCleanup(c)
       PROVE  Goal
  <2>1. Gone
    BY <1>1, <1>14 DEF CleanupFits, CompleteCleanup
  <2>2. PICK at \in {"idle", "failed"} : CleanerMoves(c, at)
    BY <1>14 DEF CompleteCleanup
  <2>3. row'.manifest = row.manifest /\ row'.listed = row.listed /\ UNCHANGED <<body, manifest>>
    BY <1>6, <1>14 DEF CompleteCleanup, Rows
  <2> QED
    BY <1>3, <1>14, <2>1, <2>2, <2>3
<1>15. ASSUME ~stray, NEW c \in Cleaners, RetryCleanup(c)
       PROVE  Goal
  <2>1. row'.manifest = row.manifest /\ row'.listed = row.listed /\ UNCHANGED <<body, manifest>>
    BY <1>6, <1>15 DEF RetryCleanup, Rows
  <2>2. row'.status = "succeeded" => row.status = "succeeded"
    BY <1>6, <1>15 DEF RetryCleanup, Rows
  <2> QED
    BY <1>3, <1>15, <2>1, <2>2 DEF RetryCleanup
<1>16. CASE ~stray
  BY <1>7, <1>8, <1>9, <1>10, <1>11, <1>12, <1>13, <1>14, <1>15, <1>16
     DEF CleanupStep, CleanerStep
<1> QED
  BY <1>2, <1>16 DEF Goal

LEMMA CleanupStepInv ==
    ASSUME ArchiveInv, CleanupStep
    PROVE  ArchiveInv'
<1>1. TypeOK'
  BY CleanupStepType DEF ArchiveInv
<1>2. PhasesFit' /\ CleanupFits'
  <2>1. CASE DeleteSurvey
    BY <2>1, DeletedKeepsFits
  <2>2. CASE ~DeleteSurvey
    <3>1. job.status = "deleted" /\ job' = job
      BY <2>2, CleanedIsDeleted DEF ArchiveInv
    <3>2. row'.manifest = row.manifest
      BY <2>2 DEF CleanupStep, CleanerStep, CleanupLeaseExpires, RecoverCleanup, Resolve,
         ListPrefix, DeleteObjects, CompleteCleanup, RetryCleanup, ClaimCleanup, CleanerDies,
         CleanupHeartbeat, ArchiveInv, TypeOK, CleanupType, Rows
    <3>3. PhasesFit'
      BY <3>1, <3>2 DEF ArchiveInv, PhasesFit
    <3> QED
      BY <2>2, <3>3, CleanupKeepsFits DEF ArchiveInv
  <2> QED
    BY <2>1, <2>2
<1>3. job'.status = "deleted"
  <2>1. CASE DeleteSurvey
    BY <2>1 DEF DeleteSurvey, ArchiveInv, TypeOK, JobType
  <2>2. CASE ~DeleteSurvey
    BY <2>2, CleanedIsDeleted DEF ArchiveInv
  <2> QED
    BY <2>1, <2>2
<1>4. UploadsFit' /\ LayersFit' /\ RepairsFit'
  BY <1>3 DEF UploadsFit, LayersFit, RepairsFit
<1> QED
  BY <1>1, <1>2, <1>4 DEF ArchiveInv

-----------------------------------------------------------------------------
(* The theorems.                                                           *)

LEMMA SameUploads ==
    ASSUME UNCHANGED <<upload, body, manifest>>
    PROVE  \A n \in Uploads : UploadFits(n)' = UploadFits(n)
<1> SUFFICES ASSUME NEW n \in Uploads
             PROVE  UploadFits(n)' = UploadFits(n)
  OBVIOUS
<1>1. PutSoFar(n)' = PutSoFar(n)
  BY DEF PutSoFar
<1>2. Uploaded(n)' = Uploaded(n)
  BY DEF Uploaded
<1> QED
  BY <1>1, <1>2 DEF UploadFits, HasFile

LEMMA ExpiryInv ==
    ASSUME ArchiveInv, LeaseExpires
    PROVE  ArchiveInv'
<1>1. /\ job'.status = job.status /\ job'.owner = job.owner /\ job'.manifest = job.manifest
      /\ UNCHANGED <<upload, body, manifest, repair, row, cleaner, faults, stray>>
      /\ JobType'
  BY DEF LeaseExpires, others, ArchiveInv, TypeOK, JobType
<1>2. TypeOK'
  BY <1>1 DEF ArchiveInv, TypeOK, UploadType, HasFile, ObjectType, RepairType, CleanupType
<1>3. PhasesFit' /\ UploadsFit'
  BY <1>1, SameUploads DEF ArchiveInv, PhasesFit, UploadsFit
<1>4. LayersFit' /\ RepairsFit' /\ CleanupFits'
  BY <1>1 DEF ArchiveInv, LayersFit, RepairsFit, CleanupFits, Readable, Matches, OverlayOn, Gone,
              Present, ListedFits, Listed
<1> QED
  BY <1>2, <1>3, <1>4 DEF ArchiveInv

LEMMA ArchiveInvariant == Spec => []ArchiveInv
<1>1. Init => ArchiveInv
  <2> SUFFICES ASSUME Init
               PROVE  ArchiveInv
    OBVIOUS
  <2> USE Facts DEF Init
  <2>1. JobType /\ ObjectType
    BY DEF JobType, ObjectType
  <2>2. UploadType
    BY DEF UploadType, Tasks, NoUpload, Uploading
  <2>3. RepairType
    BY DEF RepairType, NoRepair, Repairing
  <2>4. CleanupType
    BY DEF CleanupType, Rows, NoCleanup, Cleaning
  <2>5. PhasesFit
    BY DEF PhasesFit, NoRepair, NoCleanup
  <2>6. UploadsFit
    BY DEF UploadsFit
  <2>7. LayersFit /\ RepairsFit /\ CleanupFits
    BY DEF LayersFit, RepairsFit, CleanupFits
  <2> QED
    BY <2>1, <2>2, <2>3, <2>4, <2>5, <2>6, <2>7 DEF ArchiveInv, TypeOK
<1>2. ArchiveInv /\ [Next]_vars => ArchiveInv'
  <2> SUFFICES ASSUME ArchiveInv, [Next]_vars
               PROVE  ArchiveInv'
    OBVIOUS
  <2>1. CASE LeaseExpires
    BY <2>1, ExpiryInv
  <2>2. ASSUME NEW n \in Uploads, UploadStep(n)
        PROVE  ArchiveInv'
    BY <2>2, UploadStepInv
  <2>3. ASSUME NEW r \in Repairs, RepairStep(r)
        PROVE  ArchiveInv'
    BY <2>3, RepairStepInv
  <2>4. CASE CleanupStep
    BY <2>4, CleanupStepInv
  <2>5. CASE UNCHANGED vars
    <3>1. TypeOK'
      BY <2>5 DEF vars, ArchiveInv, TypeOK, JobType, UploadType, HasFile, ObjectType, RepairType,
                  CleanupType
    <3>2. PhasesFit' /\ UploadsFit'
      BY <2>5, SameUploads DEF vars, ArchiveInv, PhasesFit, UploadsFit
    <3>3. LayersFit' /\ RepairsFit' /\ CleanupFits'
      BY <2>5, ObjectsUnchanged DEF vars, ArchiveInv
    <3> QED
      BY <3>1, <3>2, <3>3 DEF ArchiveInv
  <2> QED
    BY <2>1, <2>2, <2>3, <2>4, <2>5 DEF Next, CleanupStep
<1> QED
  BY <1>1, <1>2, PTL DEF Spec

\* survey/artifacts.py and recovery.py: a finished archive can be read back with all the overlays
\* of the operator, as long as nobody writes to it who has lost the job.
THEOREM ArchivesAreReadable == Spec => []ArchiveIsReadable
<1>1. ArchiveInv => ArchiveIsReadable
  <2> SUFFICES ASSUME ArchiveInv, job.status = "finished", ~stray
               PROVE  Readable(job.manifest)
    BY DEF ArchiveIsReadable
  <2>1. /\ Readable(Base) /\ manifest[job.manifest] # NoManifest /\ job.manifest \in Layers
        /\ \A l \in Overlays : manifest[l] # NoManifest =>
              manifest[l] = OverlayOn(l) /\ body[<<l, "report">>] = Repaired(l)
    BY DEF ArchiveInv, LayersFit, PhasesFit
  <2>2. CASE job.manifest = Base
    BY <2>1, <2>2
  <2>3. CASE job.manifest # Base
    <3> DEFINE l == job.manifest
    <3>1. manifest[l] = OverlayOn(l) /\ body[<<l, "report">>] = Repaired(l)
      BY <2>1, <2>3 DEF Layers
    <3>2. /\ manifest[l].there /\ manifest[l].parent = <<manifest[Base].files>>
          /\ manifest[l].files = [p \in {"report"} |-> Repaired(l)]
      BY <3>1 DEF OverlayOn, ManifestOf
    <3>3. \A p \in DOMAIN manifest[l].files : body[<<l, p>>] = manifest[l].files[p]
      BY <3>1, <3>2
    <3>4. manifest[Base].there /\ \A p \in DOMAIN manifest[Base].files : Matches(p)
      BY <2>1 DEF Readable
    <3> HIDE DEF l
    <3>5. Readable(l)
      BY <3>2, <3>3, <3>4 DEF Readable
    <3> QED
      BY <3>5 DEF l
  <2> QED
    BY <2>2, <2>3
<1> QED
  BY <1>1, ArchiveInvariant, PTL

\* survey/cleanup_worker.py: a cleanup that is recorded as done has removed what it was for.
THEOREM CleanedIsGone == Spec => []CleanedMeansGone
<1>1. ArchiveInv => CleanedMeansGone
  BY DEF ArchiveInv, PhasesFit, CleanupFits, Gone, CleanedMeansGone
<1> QED
  BY <1>1, ArchiveInvariant, PTL

=============================================================================
