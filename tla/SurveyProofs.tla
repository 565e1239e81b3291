------------------------------ MODULE SurveyProofs ------------------------------
(***************************************************************************)
(* Theorems about the Survey job of both kinds of workers, for any number  *)
(* of surveys, users, workers, hosts and attempts, any limits, and any     *)
(* failures.  First what every transaction of SurveyStore preserves, then  *)
(* SurveyQueue, the resident workers, then SurveyCompute, the one-shot     *)
(* tasks, whose tables and life cycle are the same: what is new there is   *)
(* the attempt between a job and the task that works on it.                *)
(***************************************************************************)
EXTENDS SurveyCompute, TLAPS, FiniteSetTheorems

\* RowsAgree in two parts.  The second stands alone, because the control cycle of
\* SurveyCompute takes the owner off a running job.
RowsFit ==
    \A s \in Surveys : /\ JobFollows(survey[s].status, job[s])
                       /\ JobForm(job[s])
                       /\ DraftFollows(survey[s].status, draft[s])

RunningIsOwned == \A s \in Surveys : RunningHasOwner(job[s])

-----------------------------------------------------------------------------
(* Type correctness.                                                       *)

\* What a settlement writes is of the types of its columns.
LEMMA EffectiveTypes ==
    ASSUME StoreTypeOK, NEW s \in Surveys, NEW outcome \in Outcomes, NEW error \in Errors
    PROVE  /\ EffectiveOutcome(s, outcome) \in Outcomes
           /\ EffectiveError(s, outcome, error) \in Errors
BY DEF EffectiveOutcome, EffectiveError, Outcomes, Terminal, Errors

\* Giving a reservation back keeps the counter a natural number.
LEMMA ReleaseTypes ==
    ASSUME StoreTypeOK, NEW s \in Surveys, Release(s)
    PROVE  reserved' \in [Ledgers -> Nat]
<1>1. reserved \in [Ledgers -> Nat] /\ LedgerOf[s] \in Ledgers
  BY StoreConstants DEF StoreTypeOK
<1> QED
  BY <1>1 DEF Release

\* Requests of the user keep every table within its type.
LEMMA RequestTypes ==
    ASSUME StoreTypeOK, NEW s \in Surveys, Request(s)
    PROVE  StoreTypeOK'
<1>1. CASE CreateSurvey(s)
  <2>1. reserved' \in [Ledgers -> Nat]
    <3>1. reserved \in [Ledgers -> Nat] /\ LedgerOf[s] \in Ledgers
      BY StoreConstants DEF StoreTypeOK
    <3>2. reserved' = [reserved EXCEPT ![LedgerOf[s]] = @ + 1]
      BY <1>1 DEF CreateSurvey
    <3> QED
      BY <3>1, <3>2
  <2>2. survey' \in [Surveys -> SurveyRow]
    BY <1>1 DEF StoreTypeOK, CreateSurvey, SurveyIn, SurveyRow, Active, Errors
  <2>3. draft' \in [Surveys -> DraftRow]
    BY <1>1, StoreConstants DEF StoreTypeOK, CreateSurvey, DraftIn, DraftRow, Revisions, Leases
  <2> QED
    BY <1>1, <2>1, <2>2, <2>3 DEF StoreTypeOK, CreateSurvey
<1>2. CASE RequestGeneratedDraft(s)
  <2>1. draft' \in [Surveys -> DraftRow]
    BY <1>2, StoreConstants
       DEF StoreTypeOK, RequestGeneratedDraft, DraftIn, DraftRow, Revisions, Leases
  <2> QED
    BY <1>2, <2>1 DEF StoreTypeOK, RequestGeneratedDraft, ledger
<1>3. CASE CreateManualDraft(s)
  <2>1. draft' \in [Surveys -> DraftRow]
    BY <1>3, StoreConstants
       DEF StoreTypeOK, CreateManualDraft, CanRevise, DraftIn, DraftRow, Revisions, Leases
  <2> QED
    BY <1>3, <2>1 DEF StoreTypeOK, CreateManualDraft, ledger
<1>4. ASSUME NEW notify \in BOOLEAN, StartSurvey(s, notify)
      PROVE  StoreTypeOK'
  <2>1. survey' \in [Surveys -> SurveyRow]
    BY <1>4 DEF StoreTypeOK, StartSurvey, SurveyRow, Active
  <2>2. job' \in [Surveys -> JobRow]
    BY <1>4, StoreConstants DEF StoreTypeOK, StartSurvey, JobRow, JobIn, Leases, Errors
  <2> QED
    BY <1>4, <2>1, <2>2 DEF StoreTypeOK, StartSurvey, ledger
<1>5. CASE RequestCancel(s)
  <2>1. job' \in [Surveys -> JobRow]
    <3>1. [job[s] EXCEPT !.cancel = TRUE] \in JobRow
      BY DEF StoreTypeOK, JobRow
    <3> QED
      BY <1>5, <3>1 DEF StoreTypeOK, RequestCancel
  <2> QED
    BY <1>5, <2>1 DEF StoreTypeOK, RequestCancel, ledger
<1>6. CASE CancelBeforeRun(s)
  <2>1. reserved' \in [Ledgers -> Nat]
    BY <1>6, ReleaseTypes DEF CancelBeforeRun
  <2>2. survey' \in [Surveys -> SurveyRow]
    BY <1>6 DEF StoreTypeOK, CancelBeforeRun, SurveyRow, Terminal
  <2>3. job' \in [Surveys -> JobRow]
    BY <1>6 DEF StoreTypeOK, CancelBeforeRun, NoJob, JobIn, JobRow, Leases, Errors
  <2>4. draft' \in [Surveys -> DraftRow]
    BY <1>6, StoreConstants
       DEF StoreTypeOK, CancelBeforeRun, CancelDrafts, DraftIn, DraftRow, Revisions, Leases
  <2> QED
    BY <1>6, <2>1, <2>2, <2>3, <2>4 DEF StoreTypeOK, CancelBeforeRun
<1>7. ASSUME NEW quota \in {"none", "reserved", "consumed", "released"}, DeleteRows(s, quota)
      PROVE  /\ survey' \in [Surveys -> SurveyRow]
             /\ job' \in [Surveys -> JobRow]
             /\ draft' \in [Surveys -> DraftRow]
             /\ notification' \in [Surveys -> NotificationRow]
             /\ cleanup' \subseteq Surveys
  <2>1. survey' \in [Surveys -> SurveyRow]
    BY <1>7 DEF StoreTypeOK, DeleteRows, SurveyIn, SurveyRow, Errors
  <2>2. job' \in [Surveys -> JobRow]
    BY <1>7 DEF StoreTypeOK, DeleteRows, NoJob, JobIn, JobRow, Leases, Errors
  <2>3. draft' \in [Surveys -> DraftRow]
    BY <1>7, StoreConstants DEF StoreTypeOK, DeleteRows, NoDraft, DraftIn, DraftRow, Revisions, Leases
  <2>4. notification' \in [Surveys -> NotificationRow]
    BY <1>7 DEF StoreTypeOK, DeleteRows, NoNotification, NotificationRow
  <2>5. cleanup' \subseteq Surveys
    BY <1>7 DEF StoreTypeOK, DeleteRows
  <2> QED
    BY <2>1, <2>2, <2>3, <2>4, <2>5
<1>8. CASE DeleteBeforeRun(s)
  <2>1. PICK quota \in {"none", "reserved", "consumed", "released"} : DeleteRows(s, quota)
    BY <1>8 DEF DeleteBeforeRun, StoreTypeOK, SurveyRow
  <2>2. reserved' \in [Ledgers -> Nat]
    BY <1>8, ReleaseTypes DEF StoreTypeOK, DeleteBeforeRun
  <2> QED
    BY <1>7, <1>8, <2>1, <2>2 DEF StoreTypeOK, DeleteBeforeRun
<1>9. CASE DeleteTerminal(s)
  <2>1. PICK quota \in {"none", "reserved", "consumed", "released"} : DeleteRows(s, quota)
    BY <1>9 DEF DeleteTerminal, StoreTypeOK, SurveyRow
  <2> QED
    BY <1>7, <1>9, <2>1 DEF StoreTypeOK, DeleteTerminal, ledger
<1> QED
  BY <1>1, <1>2, <1>3, <1>4, <1>5, <1>6, <1>8, <1>9 DEF Request, CancelSurvey, DeleteSurvey

\* So do the draft workers, their sweep and their clock.
LEMMA DraftTypes ==
    ASSUME StoreTypeOK, NEW s \in Surveys, DraftWrite(s)
    PROVE  StoreTypeOK'
<1>1. draft' \in [Surveys -> DraftRow]
  <2>1. ASSUME NEW w \in DraftWorkers, ClaimDraft(s, w)
        PROVE  draft' \in [Surveys -> DraftRow]
    <3>1. [draft[s] EXCEPT !.active = "running", !.owner = w, !.lease = "live"] \in DraftRow
      BY DEF StoreTypeOK, DraftRow, Leases
    <3> QED
      BY <2>1, <3>1 DEF StoreTypeOK, ClaimDraft
  <2>2. ASSUME NEW w \in DraftWorkers, HeartbeatDraft(s, w)
        PROVE  draft' \in [Surveys -> DraftRow]
    BY <2>2 DEF StoreTypeOK, HeartbeatDraft, DraftRow, Leases
  <2>3. ASSUME NEW w \in DraftWorkers, CompleteDraft(s, w)
        PROVE  draft' \in [Surveys -> DraftRow]
    BY <2>3, StoreConstants DEF StoreTypeOK, CompleteDraft, DraftIn, DraftRow, Revisions, Leases
  <2>4. CASE CancelDrafts(s)
    BY <2>4, StoreConstants
       DEF StoreTypeOK, CancelDrafts, DraftIn, DraftRow, Revisions, Leases
  <2>5. CASE DraftLeaseExpires(s)
    BY <2>5 DEF StoreTypeOK, DraftLeaseExpires, DraftRow, Leases
  <2> QED
    BY <2>1, <2>2, <2>3, <2>4, <2>5 DEF DraftWrite, FailDraft, RecoverExpiredDraft
<1>2. UNCHANGED <<reserved, succeeded, survey, job, notification, cleanup>>
  BY DEF DraftWrite, ClaimDraft, HeartbeatDraft, CompleteDraft, FailDraft,
         RecoverExpiredDraft, DraftLeaseExpires, ledger
<1> QED
  BY <1>1, <1>2 DEF StoreTypeOK

\* So do the job workers, their sweep and their clock: the outcome of a settled job
\* is known, so the status and the notification that copy it are of their types.
LEMMA JobTypes ==
    ASSUME StoreTypeOK, RowsFit, NEW s \in Surveys, JobWrite(s)
    PROVE  StoreTypeOK'
<1>1. CASE RecoverExpiredJob(s)
  <2>1. reserved' \in [Ledgers -> Nat]
    BY <1>1, ReleaseTypes DEF RecoverExpiredJob
  <2>2. survey' \in [Surveys -> SurveyRow]
    <3>1. PICK e \in Errors :
            survey' = [survey EXCEPT ![s] = [@ EXCEPT !.status = "archiving",
                                                      !.quota = "released", !.error = e]]
      BY <1>1 DEF RecoverExpiredJob, Errors
    <3>2. [survey[s] EXCEPT !.status = "archiving", !.quota = "released", !.error = e]
              \in SurveyRow
      BY DEF StoreTypeOK, SurveyRow
    <3> QED
      BY <3>1, <3>2 DEF StoreTypeOK
  <2>3. job' \in [Surveys -> JobRow]
    <3>1. PICK o \in Outcomes, e \in Errors :
            job' = [job EXCEPT ![s] = [@ EXCEPT !.status = "archiving", !.due = TRUE,
                                                !.outcome = o, !.error = e,
                                                !.owner = NoWorker, !.lease = "none"]]
      BY <1>1 DEF RecoverExpiredJob, Outcomes, Terminal, Errors
    <3>2. [job[s] EXCEPT !.status = "archiving", !.due = TRUE, !.outcome = o, !.error = e,
                         !.owner = NoWorker, !.lease = "none"] \in JobRow
      BY DEF StoreTypeOK, JobRow, Leases
    <3> QED
      BY <3>1, <3>2 DEF StoreTypeOK
  <2> QED
    BY <1>1, <2>1, <2>2, <2>3 DEF StoreTypeOK, RecoverExpiredJob
<1>2. CASE JobLeaseExpires(s)
  <2>1. job' \in [Surveys -> JobRow]
    <3>1. [job[s] EXCEPT !.lease = "expired"] \in JobRow
      BY DEF StoreTypeOK, JobRow, Leases
    <3> QED
      BY <1>2, <3>1 DEF StoreTypeOK, JobLeaseExpires
  <2> QED
    BY <1>2, <2>1 DEF StoreTypeOK, JobLeaseExpires, ledger
<1>3. CASE ArchiveBecomesDue(s)
  <2>1. job' \in [Surveys -> JobRow]
    BY <1>3 DEF StoreTypeOK, ArchiveBecomesDue, JobRow
  <2> QED
    BY <1>3, <2>1 DEF StoreTypeOK, ArchiveBecomesDue, ledger
<1>4. ASSUME NEW w \in Workers, ClaimJob(s, w)
      PROVE  StoreTypeOK'
  <2>1. survey' \in [Surveys -> SurveyRow]
    <3>1. survey' = [survey EXCEPT ![s].status = "running"] \/ survey' = survey
      BY <1>4 DEF ClaimJob
    <3> QED
      BY <3>1 DEF StoreTypeOK, SurveyRow, Active
  <2>2. job' \in [Surveys -> JobRow]
    <3>1. \/ job' = [job EXCEPT ![s] = [@ EXCEPT !.status = "running", !.owner = w,
                                                 !.lease = "live"]]
          \/ job' = [job EXCEPT ![s] = [@ EXCEPT !.owner = w, !.lease = "live"]]
      BY <1>4 DEF ClaimJob
    <3>2. /\ [job[s] EXCEPT !.status = "running", !.owner = w, !.lease = "live"] \in JobRow
          /\ [job[s] EXCEPT !.owner = w, !.lease = "live"] \in JobRow
      BY DEF StoreTypeOK, JobRow, Leases
    <3> QED
      BY <3>1, <3>2 DEF StoreTypeOK
  <2> QED
    BY <1>4, <2>1, <2>2 DEF StoreTypeOK, ClaimJob, ledger
<1>5. ASSUME NEW w \in Workers, HeartbeatJob(s, w)
      PROVE  StoreTypeOK'
  <2>1. job' \in [Surveys -> JobRow]
    BY <1>5 DEF StoreTypeOK, HeartbeatJob, JobRow, Leases
  <2> QED
    BY <1>5, <2>1 DEF StoreTypeOK, HeartbeatJob, ledger
<1>6. ASSUME NEW w \in Workers, FinishArchive(s, w)
      PROVE  StoreTypeOK'
  <2>1. job[s].outcome \in Outcomes
    BY <1>6 DEF StoreTypeOK, JobRow, RowsFit, JobForm, FinishArchive, OwnsArchive
  <2>2. job' \in [Surveys -> JobRow]
    <3>1. [job[s] EXCEPT !.status = "finished", !.owner = NoWorker, !.lease = "none",
                         !.due = FALSE, !.manifest = "original"] \in JobRow
      BY DEF StoreTypeOK, JobRow, Leases
    <3> QED
      BY <1>6, <3>1 DEF StoreTypeOK, FinishArchive
  <2>3. survey' \in [Surveys -> SurveyRow]
    BY <1>6, <2>1 DEF StoreTypeOK, FinishArchive, SurveyRow, Outcomes
  <2>4. notification' \in [Surveys -> NotificationRow]
    BY <1>6 DEF StoreTypeOK, FinishArchive, EnqueueNotification, Notifiable, NotificationRow
  <2> QED
    BY <1>6, <2>2, <2>3, <2>4 DEF StoreTypeOK, FinishArchive, ledger
<1>7. ASSUME NEW w \in Workers, DeferArchive(s, w)
      PROVE  StoreTypeOK'
  <2>1. job' \in [Surveys -> JobRow]
    <3>1. [job[s] EXCEPT !.owner = NoWorker, !.lease = "none", !.due = FALSE,
                         !.error = "archive_pending"] \in JobRow
      BY DEF StoreTypeOK, JobRow, Leases, Errors
    <3> QED
      BY <1>7, <3>1 DEF StoreTypeOK, DeferArchive
  <2> QED
    BY <1>7, <2>1 DEF StoreTypeOK, DeferArchive, ledger
<1>8. ASSUME NEW w \in Workers, MarkWorkspaceMissing(s, w)
      PROVE  StoreTypeOK'
  <2>1. job' \in [Surveys -> JobRow]
    <3>1. [job[s] EXCEPT !.outcome = "failed", !.error = "workspace_missing"] \in JobRow
      BY DEF StoreTypeOK, JobRow, Errors, Outcomes, Terminal
    <3> QED
      BY <1>8, <3>1 DEF StoreTypeOK, MarkWorkspaceMissing
  <2>2. survey' \in [Surveys -> SurveyRow]
    BY <1>8 DEF StoreTypeOK, MarkWorkspaceMissing, SurveyRow, Errors
  <2> QED
    BY <1>8, <2>1, <2>2 DEF StoreTypeOK, MarkWorkspaceMissing, ledger
<1>9. ASSUME NEW w \in Workers, NEW outcome \in Outcomes, NEW error \in Errors,
             NEW chargeable \in BOOLEAN, SettleExecution(s, w, outcome, error, chargeable)
      PROVE  StoreTypeOK'
  <2>1. reserved' \in [Ledgers -> Nat]
    BY <1>9, ReleaseTypes DEF SettleExecution
  <2>2. succeeded' \in [Ledgers -> Nat]
    <3>1. succeeded \in [Ledgers -> Nat] /\ LedgerOf[s] \in Ledgers
      BY StoreConstants DEF StoreTypeOK
    <3>2. \/ succeeded' = [succeeded EXCEPT ![LedgerOf[s]] = @ + 1]
          \/ succeeded' = succeeded
      BY <1>9 DEF SettleExecution
    <3> QED
      BY <3>1, <3>2
  <2>3. survey' \in [Surveys -> SurveyRow]
    BY <1>9, EffectiveTypes DEF StoreTypeOK, SettleExecution, SurveyRow
  <2>4. job' \in [Surveys -> JobRow]
    <3>1. [job[s] EXCEPT !.status = "archiving", !.outcome = EffectiveOutcome(s, outcome),
                         !.error = EffectiveError(s, outcome, error), !.due = TRUE] \in JobRow
      BY EffectiveTypes DEF StoreTypeOK, JobRow
    <3> QED
      BY <1>9, <3>1 DEF StoreTypeOK, SettleExecution
  <2> QED
    BY <1>9, <2>1, <2>2, <2>3, <2>4 DEF StoreTypeOK, SettleExecution
<1> QED
  BY <1>1, <1>2, <1>3, <1>4, <1>5, <1>6, <1>7, <1>8, <1>9 DEF JobWrite

\* So do the operator's repairs and the email worker.
LEMMA RepairTypes ==
    ASSUME StoreTypeOK, NEW s \in Surveys, Repair(s) \/ Delivery(s)
    PROVE  StoreTypeOK'
<1>1. ASSUME NEW manifest \in {"original", "overlay"}, RecoverContractFailure(s, manifest)
      PROVE  StoreTypeOK'
  <2>1. succeeded' \in [Ledgers -> Nat]
    <3>1. succeeded \in [Ledgers -> Nat] /\ LedgerOf[s] \in Ledgers
      BY StoreConstants DEF StoreTypeOK
    <3>2. succeeded' = [succeeded EXCEPT ![LedgerOf[s]] = @ + 1]
      BY <1>1 DEF RecoverContractFailure
    <3> QED
      BY <3>1, <3>2
  <2>2. survey' \in [Surveys -> SurveyRow]
    BY <1>1 DEF StoreTypeOK, RecoverContractFailure, SurveyRow, Terminal, Errors
  <2>3. job' \in [Surveys -> JobRow]
    <3>1. [job[s] EXCEPT !.outcome = "succeeded", !.error = "none",
                         !.manifest = manifest] \in JobRow
      BY DEF StoreTypeOK, JobRow, Outcomes, Terminal, Errors
    <3> QED
      BY <1>1, <3>1 DEF StoreTypeOK, RecoverContractFailure
  <2>4. notification' \in [Surveys -> NotificationRow]
    BY <1>1 DEF StoreTypeOK, RecoverContractFailure, NotificationRow
  <2> QED
    BY <1>1, <2>1, <2>2, <2>3, <2>4 DEF StoreTypeOK, RecoverContractFailure
<1>2. CASE RepairDegradedEvidence(s)
  <2>1. survey' \in [Surveys -> SurveyRow]
    BY <1>2 DEF StoreTypeOK, RepairDegradedEvidence, SurveyRow, Errors
  <2>2. job' \in [Surveys -> JobRow]
    <3>1. [job[s] EXCEPT !.error = "none", !.manifest = "overlay"] \in JobRow
      BY DEF StoreTypeOK, JobRow, Errors
    <3> QED
      BY <1>2, <3>1 DEF StoreTypeOK, RepairDegradedEvidence
  <2> QED
    BY <1>2, <2>1, <2>2 DEF StoreTypeOK, RepairDegradedEvidence, ledger
<1>3. CASE Delivery(s)
  <2>1. notification' \in [Surveys -> NotificationRow]
    BY <1>3 DEF StoreTypeOK, Delivery, ClaimNotification, CloseNotification,
                RetryNotification, MoveNotification, NotificationRow
  <2> QED
    BY <1>3, <2>1 DEF StoreTypeOK, Delivery, ClaimNotification, CloseNotification,
                      RetryNotification, MoveNotification, ledger
<1> QED
  BY <1>1, <1>2, <1>3 DEF Repair


-----------------------------------------------------------------------------
(* The inductive invariant.  LedgerBalanced needs the quota of a survey to *)
(* be known where a transaction releases it (QuotaFollowsStatus), that in  *)
(* turn needs survey and job to move together (RowsFit), and the last two  *)
(* need all of it.                                                         *)

StoreInv ==
    /\ StoreTypeOK
    /\ LedgerBalanced
    /\ QuotaFollowsStatus
    /\ RowsFit
    /\ CancelledNeverCharged
    /\ NotificationTruthful

\* The empty tables satisfy it.
LEMMA StoreInitInv == StoreInit => StoreInv
<1> SUFFICES ASSUME StoreInit
             PROVE  StoreInv
  OBVIOUS
<1>1. StoreTypeOK
  BY StoreConstants
     DEF StoreInit, StoreTypeOK, NoSurvey, SurveyIn, SurveyRow, NoJob, JobIn, JobRow, NoDraft,
         DraftIn, DraftRow, Revisions, NoNotification, NotificationRow, Errors, Leases
<1>2. LedgerBalanced
  <2> SUFFICES ASSUME NEW l \in Ledgers
               PROVE  /\ reserved[l] = Cardinality(Charged(l, "reserved"))
                      /\ succeeded[l] = Cardinality(Charged(l, "consumed"))
    BY DEF LedgerBalanced
  <2>1. Charged(l, "reserved") = {} /\ Charged(l, "consumed") = {}
    BY DEF Charged, StoreInit, NoSurvey, SurveyIn
  <2> QED
    BY <2>1, FS_EmptySet DEF StoreInit
<1>3. QuotaFollowsStatus
  BY DEF StoreInit, NoSurvey, SurveyIn, QuotaFollowsStatus, QuotaFits, Active
<1>4. RowsFit
  BY DEF StoreInit, NoSurvey, SurveyIn, NoJob, JobIn, NoDraft, DraftIn, RowsFit, JobFollows,
         JobForm, DraftFollows
<1>5. CancelledNeverCharged /\ NotificationTruthful
  BY DEF StoreInit, NoJob, JobIn, NoNotification, CancelledNeverCharged, CancelFits,
         NotificationTruthful, EmailFits
<1> QED
  BY <1>1, <1>2, <1>3, <1>4, <1>5 DEF StoreInv

\* A survey that is deleted before it runs gives its reservation back: the branch for
\* a survey without one is never taken.
LEMMA DeletionReleases ==
    ASSUME StoreInv, NEW s \in Surveys, DeleteBeforeRun(s)
    PROVE  /\ survey[s].quota = "reserved"
           /\ Release(s)
           /\ DeleteRows(s, "released")
           /\ UNCHANGED succeeded
BY DEF StoreInv, QuotaFollowsStatus, QuotaFits, Active, DeleteBeforeRun

-----------------------------------------------------------------------------
(* Survey, job and drafts move together.                                   *)

\* Requests of the user keep survey, job and drafts in step.
LEMMA RequestRows ==
    ASSUME StoreInv, NEW s \in Surveys, Request(s)
    PROVE  RowsFit'
<1> USE StoreConstants DEF StoreInv, StoreTypeOK, RowsFit, JobForm, JobFollows,
        DraftFollows, JobRow, SurveyRow, DraftRow
<1>1. CASE CreateSurvey(s)
  <2>1. \A t \in Surveys \ {s} : survey'[t] = survey[t] /\ draft'[t] = draft[t]
    BY <1>1 DEF CreateSurvey
  <2>2. survey'[s].status = "drafting" /\ job' = job
    BY <1>1 DEF CreateSurvey, SurveyIn
  <2>3. draft'[s] = [active |-> "queued", owner |-> NoWorker, lease |-> "none",
                     base |-> 0, latest |-> 0]
    BY <1>1 DEF CreateSurvey, DraftIn
  <2>4. job[s].status = "absent"
    <3>1. survey[s].status = "absent"
      BY <1>1 DEF CreateSurvey
    <3>2. job[s].outcome \in {"none", "succeeded", "failed", "cancelled"}
      BY DEF Outcomes, Terminal
    <3>3. job[s].status \in {"absent", "queued", "running", "archiving", "finished"}
      OBVIOUS
    <3> QED
      BY <3>1, <3>2, <3>3
  <2> QED
    BY <2>1, <2>2, <2>3, <2>4
<1>2. CASE RequestGeneratedDraft(s)
  BY <1>2 DEF RequestGeneratedDraft, CanRevise, DraftIn, ledger
<1>3. CASE CreateManualDraft(s)
  BY <1>3 DEF CreateManualDraft, CanRevise, DraftIn, ledger
<1>4. ASSUME NEW notify \in BOOLEAN, StartSurvey(s, notify)
      PROVE  RowsFit'
  BY <1>4 DEF StartSurvey, JobIn, ledger
<1>5. CASE RequestCancel(s)
  BY <1>5 DEF RequestCancel, ledger
<1>6. CASE CancelBeforeRun(s)
  BY <1>6 DEF CancelBeforeRun, CancelDrafts, DraftIn, NoJob, JobIn
<1>7. ASSUME NEW quota \in {"none", "reserved", "consumed", "released"}, DeleteRows(s, quota)
      PROVE  RowsFit'
  BY <1>7 DEF DeleteRows, SurveyIn, NoDraft, DraftIn, NoJob, JobIn
<1>8. CASE DeleteBeforeRun(s)
  BY <1>7, <1>8, DeletionReleases
<1>9. CASE DeleteTerminal(s)
  <2>1. survey[s].quota \in {"none", "reserved", "consumed", "released"}
    OBVIOUS
  <2>2. DeleteRows(s, survey[s].quota)
    BY ONLY <1>9 DEF DeleteTerminal
  <2> QED
    BY ONLY <1>7, <2>1, <2>2
<1> QED
  BY <1>1, <1>2, <1>3, <1>4, <1>5, <1>6, <1>8, <1>9 DEF Request, CancelSurvey, DeleteSurvey

\* So do the draft workers.
LEMMA DraftRows ==
    ASSUME StoreInv, NEW s \in Surveys, DraftWrite(s)
    PROVE  RowsFit'
<1> USE StoreConstants DEF StoreInv, StoreTypeOK, RowsFit, JobForm, JobFollows,
        DraftFollows, JobRow, SurveyRow, DraftRow, ledger
<1>1. CASE CancelDrafts(s) /\ UNCHANGED <<survey, job>>
  BY <1>1 DEF CancelDrafts, DraftIn
<1>2. CASE RecoverExpiredDraft(s)
  BY <1>1, <1>2 DEF RecoverExpiredDraft
<1>3. CASE DraftLeaseExpires(s)
  BY <1>3 DEF DraftLeaseExpires
<1>4. ASSUME NEW w \in DraftWorkers, ClaimDraft(s, w)
      PROVE  RowsFit'
  BY <1>4 DEF ClaimDraft
<1>5. ASSUME NEW w \in DraftWorkers, HeartbeatDraft(s, w)
      PROVE  RowsFit'
  BY <1>5 DEF HeartbeatDraft, OwnsDraft
<1>6. ASSUME NEW w \in DraftWorkers, CompleteDraft(s, w)
      PROVE  RowsFit'
  BY <1>6 DEF CompleteDraft, OwnsDraft, DraftIn
<1>7. ASSUME NEW w \in DraftWorkers, FailDraft(s, w)
      PROVE  RowsFit'
  BY <1>1, <1>7 DEF FailDraft
<1> QED
  BY <1>2, <1>3, <1>4, <1>5, <1>6, <1>7 DEF DraftWrite

\* So do the job workers.
LEMMA JobRows ==
    ASSUME StoreInv, NEW s \in Surveys, JobWrite(s)
    PROVE  RowsFit'
<1> USE StoreConstants DEF StoreInv, StoreTypeOK, RowsFit, JobForm, JobFollows,
        DraftFollows, JobRow, SurveyRow, DraftRow
<1>1. CASE RecoverExpiredJob(s)
  BY <1>1 DEF RecoverExpiredJob
<1>2. CASE JobLeaseExpires(s)
  BY <1>2 DEF JobLeaseExpires, ledger
<1>3. CASE ArchiveBecomesDue(s)
  BY <1>3 DEF ArchiveBecomesDue, ledger
<1>4. ASSUME NEW w \in Workers, ClaimJob(s, w)
      PROVE  RowsFit'
  <2>1. /\ \A t \in Surveys \ {s} : survey'[t] = survey[t] /\ job'[t] = job[t]
        /\ draft' = draft
    BY <1>4 DEF ClaimJob
  <2>2. job[s] \in JobRow /\ survey[s] \in SurveyRow
    OBVIOUS
  <2>3. \/ /\ job[s].status = "queued" /\ survey[s].status = "queued"
           /\ survey'[s] = [survey[s] EXCEPT !.status = "running"]
           /\ job'[s] = [job[s] EXCEPT !.status = "running", !.owner = w, !.lease = "live"]
        \/ /\ job[s].status = "archiving"
           /\ survey'[s] = survey[s]
           /\ job'[s] = [job[s] EXCEPT !.owner = w, !.lease = "live"]
    BY <1>4 DEF ClaimJob, Claimable
  <2>4. JobForm(job'[s])
    <3>1. JobForm(job[s]) /\ w # NoWorker
      OBVIOUS
    <3>2. CASE job[s].status = "queued"
      <4>1. job'[s] = [job[s] EXCEPT !.status = "running", !.owner = w, !.lease = "live"]
        BY <2>3, <3>2
      <4> QED
        BY ONLY <2>2, <3>1, <3>2, <4>1 DEF JobForm, JobRow
    <3>3. CASE job[s].status = "archiving"
      <4>1. job'[s] = [job[s] EXCEPT !.owner = w, !.lease = "live"]
        BY <2>3, <3>3
      <4> QED
        BY ONLY <2>2, <3>1, <3>3, <4>1 DEF JobForm, JobRow
    <3> QED
      BY <2>3, <3>2, <3>3
  <2>5. JobFollows(survey'[s].status, job'[s])
    <3>1. JobFollows(survey[s].status, job[s])
      OBVIOUS
    <3> QED
      BY ONLY <2>2, <2>3, <3>1 DEF JobFollows, JobRow, SurveyRow
  <2>6. DraftFollows(survey'[s].status, draft'[s])
    BY <2>1, <2>2, <2>3
  <2> QED
    BY <2>1, <2>4, <2>5, <2>6
<1>5. ASSUME NEW w \in Workers, HeartbeatJob(s, w)
      PROVE  RowsFit'
  BY <1>5 DEF HeartbeatJob, OwnsJob, ledger
<1>6. ASSUME NEW w \in Workers, FinishArchive(s, w)
      PROVE  RowsFit'
  <2>1. \A t \in Surveys \ {s} : survey'[t] = survey[t] /\ job'[t] = job[t]
    BY <1>6 DEF FinishArchive
  <2>2. survey[s].status = "archiving" /\ job[s].status = "archiving"
    BY <1>6 DEF FinishArchive, OwnsArchive
  <2>3. survey'[s] = [survey[s] EXCEPT !.status = job[s].outcome]
    BY <1>6, <2>2 DEF FinishArchive
  <2>4. job'[s] = [job[s] EXCEPT !.status = "finished", !.owner = NoWorker, !.lease = "none",
                                 !.due = FALSE, !.manifest = "original"]
    BY <1>6 DEF FinishArchive
  <2>5. draft' = draft
    BY <1>6 DEF FinishArchive
  <2>6. /\ survey[s] \in SurveyRow /\ job[s] \in JobRow /\ job[s].outcome \in Terminal
        /\ JobForm(job[s]) /\ DraftFollows(survey[s].status, draft[s])
    BY <2>2 DEF Outcomes
  <2>7. JobForm(job'[s]) /\ JobFollows(survey'[s].status, job'[s])
    BY ONLY <2>3, <2>4, <2>6 DEF JobForm, JobFollows, JobRow, SurveyRow, Terminal
  <2>8. DraftFollows(survey'[s].status, draft'[s])
    BY ONLY <2>2, <2>3, <2>5, <2>6 DEF DraftFollows, SurveyRow, Terminal
  <2> QED
    BY <2>1, <2>5, <2>7, <2>8
<1>7. ASSUME NEW w \in Workers, DeferArchive(s, w)
      PROVE  RowsFit'
  BY <1>7 DEF DeferArchive, OwnsArchive, ledger
<1>8. ASSUME NEW w \in Workers, MarkWorkspaceMissing(s, w)
      PROVE  RowsFit'
  BY <1>8 DEF MarkWorkspaceMissing, OwnsArchive, ledger
<1>9. ASSUME NEW w \in Workers, NEW outcome \in Outcomes, NEW error \in Errors,
             NEW chargeable \in BOOLEAN, SettleExecution(s, w, outcome, error, chargeable)
      PROVE  RowsFit'
  BY <1>9 DEF SettleExecution, EffectiveOutcome, EffectiveError, Outcomes, Terminal
<1> QED
  BY <1>1, <1>2, <1>3, <1>4, <1>5, <1>6, <1>7, <1>8, <1>9 DEF JobWrite

\* So do the operator and the email worker.
LEMMA RepairRows ==
    ASSUME StoreInv, NEW s \in Surveys, Repair(s) \/ Delivery(s)
    PROVE  RowsFit'
<1> USE StoreConstants DEF StoreInv, StoreTypeOK, RowsFit, JobForm, JobFollows,
        DraftFollows, JobRow, SurveyRow, DraftRow
<1>1. ASSUME NEW manifest \in {"original", "overlay"}, RecoverContractFailure(s, manifest)
      PROVE  RowsFit'
  BY <1>1 DEF RecoverContractFailure
<1>2. CASE RepairDegradedEvidence(s)
  BY <1>2 DEF RepairDegradedEvidence, ledger
<1>3. CASE Delivery(s)
  BY <1>3 DEF Delivery, ClaimNotification, CloseNotification, RetryNotification,
              MoveNotification, ledger
<1> QED
  BY <1>1, <1>2, <1>3 DEF Repair


-----------------------------------------------------------------------------
(* What a survey is charged, and what its owner is told.                   *)

\* The three invariants of one survey's rows.
ChargeOK(sv, j, n) == QuotaFits(sv) /\ CancelFits(sv, j) /\ EmailFits(sv, n)

ChargesOK == QuotaFollowsStatus /\ CancelledNeverCharged /\ NotificationTruthful

\* A transaction that writes the rows of one survey need only be looked at there.
LEMMA ChargesFrame ==
    ASSUME StoreInv, NEW s \in Surveys,
           \A t \in Surveys \ {s} : /\ survey'[t] = survey[t]
                                    /\ job'[t] = job[t]
                                    /\ notification'[t] = notification[t],
           ChargeOK(survey[s], job[s], notification[s]) =>
               ChargeOK(survey'[s], job'[s], notification'[s])
    PROVE  ChargesOK'
<1>1. \A t \in Surveys : ChargeOK(survey[t], job[t], notification[t])
  BY DEF StoreInv, ChargeOK, QuotaFollowsStatus, CancelledNeverCharged, NotificationTruthful
<1>2. \A t \in Surveys : ChargeOK(survey'[t], job'[t], notification'[t])
  BY <1>1
<1> QED
  BY <1>2 DEF ChargesOK, ChargeOK, QuotaFollowsStatus, CancelledNeverCharged,
              NotificationTruthful

\* One that writes none of these rows need not be looked at.
LEMMA ChargesUnchanged ==
    ASSUME StoreInv, UNCHANGED <<survey, job, notification>>
    PROVE  ChargesOK'
BY DEF StoreInv, ChargesOK, QuotaFollowsStatus, CancelledNeverCharged, NotificationTruthful

\* Requests of the user charge as the status says, never charge a cancelled run, and
\* leave no email about a survey that has moved on.
LEMMA RequestCharges ==
    ASSUME StoreInv, NEW s \in Surveys, Request(s)
    PROVE  ChargesOK'
<1>1. CASE CreateSurvey(s)
  <2>1. \A t \in Surveys \ {s} : survey'[t] = survey[t]
    BY <1>1 DEF CreateSurvey, StoreInv, StoreTypeOK
  <2>2. /\ survey[s].status = "absent"
        /\ survey'[s] = [status |-> "drafting", quota |-> "reserved", notify |-> FALSE,
                         error |-> "none"]
    BY <1>1 DEF CreateSurvey, SurveyIn, StoreInv, StoreTypeOK
  <2>3. notification[s].outcome # "absent"
    BY DEF StoreInv, StoreTypeOK, NotificationRow
  <2>4. UNCHANGED <<job, notification>>
    BY <1>1 DEF CreateSurvey
  <2> QED
    BY <2>1, <2>2, <2>3, <2>4, ChargesFrame DEF ChargeOK, QuotaFits, CancelFits, EmailFits, Active
<1>2. CASE RequestGeneratedDraft(s) \/ CreateManualDraft(s)
  BY <1>2, ChargesUnchanged DEF RequestGeneratedDraft, CreateManualDraft
<1>3. ASSUME NEW notify \in BOOLEAN, StartSurvey(s, notify)
      PROVE  ChargesOK'
  <2>1. \A t \in Surveys \ {s} : survey'[t] = survey[t] /\ job'[t] = job[t]
    BY <1>3 DEF StartSurvey, StoreInv, StoreTypeOK
  <2>2. /\ survey[s] \in SurveyRow
        /\ survey[s].status = "drafting" /\ survey[s].quota = "reserved"
        /\ survey'[s] = [survey[s] EXCEPT !.status = "queued", !.notify = notify]
        /\ job'[s].cancel = FALSE /\ job'[s].outcome = "none"
    BY <1>3 DEF StartSurvey, JobIn, StoreInv, StoreTypeOK
  <2>3. notification[s].outcome # "drafting" /\ notification' = notification
    BY <1>3 DEF StartSurvey, StoreInv, StoreTypeOK, NotificationRow
  <2>4. survey'[s].status = "queued" /\ survey'[s].quota = "reserved"
    BY <2>2 DEF SurveyRow
  <2> QED
    BY <2>1, <2>2, <2>3, <2>4, ChargesFrame DEF ChargeOK, QuotaFits, CancelFits, EmailFits, Active
<1>4. CASE RequestCancel(s)
  <2>1. \A t \in Surveys \ {s} : job'[t] = job[t]
    BY <1>4 DEF RequestCancel, StoreInv, StoreTypeOK
  <2>2. /\ job[s] \in JobRow
        /\ job'[s] = [job[s] EXCEPT !.cancel = TRUE]
        /\ survey[s].status = "running" /\ job[s].status = "running"
    BY <1>4 DEF RequestCancel, StoreInv, StoreTypeOK
  <2>3. job[s].outcome = "none"
    BY <2>2 DEF StoreInv, RowsFit, JobForm
  <2>4. job'[s].outcome = "none"
    BY <2>2, <2>3 DEF JobRow
  <2>5. UNCHANGED <<survey, notification>>
    BY <1>4 DEF RequestCancel
  <2> QED
    BY <2>1, <2>2, <2>4, <2>5, ChargesFrame DEF ChargeOK, QuotaFits, CancelFits, EmailFits, Active
<1>5. CASE CancelBeforeRun(s)
  <2>1. \A t \in Surveys \ {s} : survey'[t] = survey[t] /\ job'[t] = job[t]
    BY <1>5 DEF CancelBeforeRun, StoreInv, StoreTypeOK
  <2>2. /\ survey[s] \in SurveyRow
        /\ survey[s].status \in {"drafting", "queued"}
        /\ survey'[s] = [survey[s] EXCEPT !.status = "cancelled", !.quota = "released"]
        /\ job'[s].cancel = FALSE /\ job'[s].outcome = "none"
    BY <1>5 DEF CancelBeforeRun, NoJob, JobIn, StoreInv, StoreTypeOK
  <2>3. notification[s].outcome \notin {"drafting", "queued"} /\ notification' = notification
    BY <1>5 DEF CancelBeforeRun, StoreInv, StoreTypeOK, NotificationRow
  <2>4. survey'[s].status = "cancelled" /\ survey'[s].quota = "released"
    BY <2>2 DEF SurveyRow
  <2> QED
    BY <2>1, <2>2, <2>3, <2>4, ChargesFrame DEF ChargeOK, QuotaFits, CancelFits, EmailFits, Active
<1>6. ASSUME NEW quota \in {"released", "consumed"}, DeleteRows(s, quota)
      PROVE  ChargesOK'
  <2>1. \A t \in Surveys \ {s} : /\ survey'[t] = survey[t]
                                 /\ job'[t] = job[t]
                                 /\ notification'[t] = notification[t]
    BY <1>6 DEF DeleteRows, StoreInv, StoreTypeOK
  <2>2. /\ survey'[s].status = "deleted" /\ survey'[s].quota = quota
        /\ job'[s].cancel = FALSE /\ job'[s].outcome = "none"
        /\ notification'[s].status = "absent"
    BY <1>6 DEF DeleteRows, SurveyIn, NoJob, JobIn, NoNotification, StoreInv, StoreTypeOK
  <2> QED
    BY <2>1, <2>2, ChargesFrame DEF ChargeOK, QuotaFits, CancelFits, EmailFits, Active
<1>7. CASE DeleteBeforeRun(s)
  BY <1>6, <1>7, DeletionReleases
<1>8. CASE DeleteTerminal(s)
  <2>1. survey[s].quota \in {"none", "reserved", "released", "consumed"}
    BY DEF StoreInv, StoreTypeOK, SurveyRow
  <2>2. survey[s].quota \in {"released", "consumed"}
    BY <1>8, <2>1 DEF DeleteTerminal, StoreInv, QuotaFollowsStatus, QuotaFits, Active, Terminal
  <2> QED
    BY <1>6, <1>8, <2>2 DEF DeleteTerminal
<1> QED
  BY <1>1, <1>2, <1>3, <1>4, <1>5, <1>7, <1>8 DEF Request, CancelSurvey, DeleteSurvey

\* So do the transactions of the draft workers.
LEMMA DraftCharges ==
    ASSUME StoreInv, NEW s \in Surveys, DraftWrite(s)
    PROVE  ChargesOK'
<1>1. UNCHANGED <<survey, job, notification>>
  BY DEF DraftWrite, ClaimDraft, HeartbeatDraft, CompleteDraft, FailDraft,
         RecoverExpiredDraft, DraftLeaseExpires
<1> QED
  BY <1>1, ChargesUnchanged

\* So do the transactions of the job workers.
LEMMA JobCharges ==
    ASSUME StoreInv, NEW s \in Surveys, JobWrite(s)
    PROVE  ChargesOK'
<1> DEFINE Elsewhere == \A t \in Surveys \ {s} : /\ survey'[t] = survey[t]
                                                 /\ job'[t] = job[t]
                                                 /\ notification'[t] = notification[t]
<1> USE DEF StoreInv, StoreTypeOK
<1>1. survey[s] \in SurveyRow /\ job[s] \in JobRow /\ notification[s] \in NotificationRow
  OBVIOUS
<1>2. CASE RecoverExpiredJob(s)
  <2>1. Elsewhere
    BY <1>2 DEF RecoverExpiredJob
  <2>2. PICK o, e : /\ o \in {"cancelled", "failed"} /\ e \in {"none", "other"}
                    /\ job'[s] = [job[s] EXCEPT !.status = "archiving", !.due = TRUE,
                                                !.outcome = o, !.error = e,
                                                !.owner = NoWorker, !.lease = "none"]
    BY <1>2 DEF RecoverExpiredJob
  <2>3. PICK x : survey'[s] = [survey[s] EXCEPT !.status = "archiving", !.quota = "released",
                                                !.error = x]
    BY <1>2 DEF RecoverExpiredJob
  <2>4. job'[s].outcome \in {"cancelled", "failed"} /\ job'[s].error \in {"none", "other"}
    BY <1>1, <2>2 DEF JobRow
  <2>5. survey'[s].status = "archiving" /\ survey'[s].quota = "released"
    BY <1>1, <2>3 DEF SurveyRow
  <2>6. notification[s].status = "absent" /\ notification' = notification
    <3>1. survey[s].status = "running"
      BY <1>2 DEF RecoverExpiredJob, RowsFit, JobFollows
    <3> QED
      BY <1>1, <1>2, <3>1 DEF RecoverExpiredJob, NotificationTruthful, EmailFits, NotificationRow
  <2> QED
    BY <2>1, <2>4, <2>5, <2>6, ChargesFrame DEF ChargeOK, QuotaFits, CancelFits, EmailFits, Active
<1>3. ASSUME NEW r, job' = [job EXCEPT ![s] = r], UNCHANGED <<survey, notification>>,
             r.cancel = job[s].cancel, r.outcome = job[s].outcome,
             r.error = "contract" => job[s].error = "contract"
      PROVE  ChargesOK'
  <2>1. Elsewhere /\ job'[s] = r
    BY <1>3
  <2> QED
    BY <1>3, <2>1, ChargesFrame DEF ChargeOK, QuotaFits, CancelFits, EmailFits
<1>4. CASE JobLeaseExpires(s)
  <2>1. job' = [job EXCEPT ![s] = [job[s] EXCEPT !.lease = "expired"]]
    BY <1>4 DEF JobLeaseExpires
  <2> QED
    BY <1>1, <1>3, <1>4, <2>1 DEF JobLeaseExpires, JobRow
<1>5. CASE ArchiveBecomesDue(s)
  <2>1. job' = [job EXCEPT ![s] = [job[s] EXCEPT !.due = TRUE]]
    BY <1>5 DEF ArchiveBecomesDue
  <2> QED
    BY <1>1, <1>3, <1>5, <2>1 DEF ArchiveBecomesDue, JobRow
<1>6. ASSUME NEW w \in Workers, HeartbeatJob(s, w)
      PROVE  ChargesOK'
  <2>1. job' = [job EXCEPT ![s] = [job[s] EXCEPT !.lease = "live"]]
    BY <1>6 DEF HeartbeatJob
  <2> QED
    BY <1>1, <1>3, <1>6, <2>1 DEF HeartbeatJob, JobRow
<1>7. ASSUME NEW w \in Workers, DeferArchive(s, w)
      PROVE  ChargesOK'
  <2>1. job' = [job EXCEPT ![s] = [job[s] EXCEPT !.owner = NoWorker, !.lease = "none",
                                                 !.due = FALSE, !.error = "archive_pending"]]
    BY <1>7 DEF DeferArchive
  <2> QED
    BY <1>1, <1>3, <1>7, <2>1 DEF DeferArchive, JobRow
<1>8. ASSUME NEW w \in Workers, ClaimJob(s, w)
      PROVE  ChargesOK'
  <2>1. CASE job[s].status # "queued"
    <3>1. job' = [job EXCEPT ![s] = [job[s] EXCEPT !.owner = w, !.lease = "live"]]
      BY <1>8, <2>1 DEF ClaimJob
    <3> QED
      BY <1>1, <1>3, <1>8, <2>1, <3>1 DEF ClaimJob, JobRow
  <2>2. CASE job[s].status = "queued"
    <3>1. Elsewhere
      BY <1>8 DEF ClaimJob
    <3>2. /\ survey[s].status = "queued"
          /\ survey'[s] = [survey[s] EXCEPT !.status = "running"]
          /\ job'[s] = [job[s] EXCEPT !.status = "running", !.owner = w, !.lease = "live"]
          /\ notification' = notification
      BY <1>8, <2>2 DEF ClaimJob, Claimable
    <3>3. /\ survey'[s].status = "running" /\ survey'[s].quota = survey[s].quota
          /\ job'[s].cancel = job[s].cancel /\ job'[s].outcome = job[s].outcome
          /\ job'[s].error = job[s].error
      BY <1>1, <3>2 DEF SurveyRow, JobRow
    <3>4. notification[s].outcome # "queued"
      BY <1>1 DEF NotificationRow
    <3>5. ChargeOK(survey[s], job[s], notification[s]) =>
             ChargeOK(survey'[s], job'[s], notification'[s])
      BY ONLY <3>2, <3>3, <3>4 DEF ChargeOK, QuotaFits, CancelFits, EmailFits, Active
    <3> QED
      BY <3>1, <3>5, ChargesFrame
  <2> QED
    BY <2>1, <2>2
<1>9. ASSUME NEW w \in Workers, FinishArchive(s, w)
      PROVE  ChargesOK'
  <2>1. Elsewhere
    BY <1>9 DEF FinishArchive, EnqueueNotification
  <2>2. survey[s].status = "archiving" /\ job[s].outcome \in Terminal
    BY <1>1, <1>9 DEF FinishArchive, OwnsArchive, RowsFit, JobFollows, JobForm, JobRow, Outcomes
  <2>3. /\ survey'[s] = [survey[s] EXCEPT !.status = job[s].outcome]
        /\ job'[s] = [job[s] EXCEPT !.status = "finished", !.owner = NoWorker,
                                    !.lease = "none", !.due = FALSE, !.manifest = "original"]
    BY <1>9, <2>2 DEF FinishArchive
  <2>4. /\ survey'[s].status = job[s].outcome /\ survey'[s].quota = survey[s].quota
        /\ survey'[s].notify = survey[s].notify
    BY <1>1, <2>3 DEF SurveyRow
  <2>5. /\ job'[s].cancel = job[s].cancel /\ job'[s].outcome = job[s].outcome
        /\ job'[s].error = job[s].error
    BY <1>1, <2>3 DEF JobRow
  <2>6. notification[s].status = "absent"
    BY <1>1, <2>2 DEF NotificationTruthful, EmailFits, NotificationRow
  <2>7. \/ notification'[s] = notification[s]
        \/ /\ survey[s].notify
           /\ notification'[s] = [status |-> "pending", outcome |-> job[s].outcome]
    BY <1>9 DEF FinishArchive, EnqueueNotification, Notifiable
  <2>8. survey[s].quota # "reserved" /\ survey[s].quota # "none"
        /\ (job[s].outcome = "cancelled" => survey[s].quota # "consumed")
    BY <2>2 DEF QuotaFollowsStatus, QuotaFits, Active, CancelledNeverCharged, CancelFits
  <2>9. QuotaFits(survey'[s])
    BY <1>1, <2>2, <2>4, <2>8 DEF QuotaFits, Active, Terminal, SurveyRow
  <2> QED
    BY <2>1, <2>4, <2>5, <2>6, <2>7, <2>9, ChargesFrame DEF ChargeOK, QuotaFits, CancelFits, EmailFits
<1>10. ASSUME NEW w \in Workers, MarkWorkspaceMissing(s, w)
       PROVE  ChargesOK'
  <2>1. Elsewhere
    BY <1>10 DEF MarkWorkspaceMissing
  <2>2. /\ survey'[s] = [survey[s] EXCEPT !.error = "workspace_missing"]
        /\ job'[s] = [job[s] EXCEPT !.outcome = "failed", !.error = "workspace_missing"]
        /\ notification' = notification
    BY <1>10 DEF MarkWorkspaceMissing
  <2>3. /\ survey'[s].status = survey[s].status /\ survey'[s].quota = survey[s].quota
        /\ survey'[s].notify = survey[s].notify /\ job'[s].cancel = job[s].cancel
        /\ job'[s].outcome = "failed" /\ job'[s].error = "workspace_missing"
    BY <1>1, <2>2 DEF SurveyRow, JobRow
  <2>4. ChargeOK(survey[s], job[s], notification[s]) =>
           ChargeOK(survey'[s], job'[s], notification'[s])
    BY ONLY <2>2, <2>3 DEF ChargeOK, QuotaFits, CancelFits, EmailFits
  <2> QED
    BY <2>1, <2>2, <2>4, ChargesFrame
<1>11. ASSUME NEW w \in Workers, NEW outcome \in Outcomes, NEW error \in Errors,
              NEW chargeable \in BOOLEAN, SettleExecution(s, w, outcome, error, chargeable)
       PROVE  ChargesOK'
  <2> DEFINE effective == EffectiveOutcome(s, outcome)
             shown == EffectiveError(s, outcome, error)
  <2>1. Elsewhere
    BY <1>11 DEF SettleExecution
  <2>2. PICK quota : /\ quota \in {"consumed", "released"}
                     /\ quota = "consumed" => effective = "succeeded"
                     /\ survey'[s] = [survey[s] EXCEPT !.status = "archiving", !.error = shown,
                                                       !.quota = quota]
    BY <1>11 DEF SettleExecution
  <2>3. /\ job'[s] = [job[s] EXCEPT !.status = "archiving", !.outcome = effective,
                                    !.error = shown, !.due = TRUE]
        /\ survey[s].status = "running"
        /\ notification' = notification
    BY <1>11 DEF SettleExecution
  <2>4. survey'[s].status = "archiving" /\ survey'[s].quota = quota
    BY <1>1, <2>2 DEF SurveyRow
  <2>5. /\ job'[s].cancel = job[s].cancel /\ job'[s].outcome = effective
        /\ job'[s].error = shown
    BY <1>1, <2>3 DEF JobRow
  <2>6. job[s].cancel => effective = "cancelled" /\ shown = "none"
    BY DEF EffectiveOutcome, EffectiveError
  <2>7. notification[s].status = "absent"
    BY <1>1, <2>3 DEF NotificationTruthful, EmailFits, NotificationRow
  <2> HIDE DEF effective, shown
  <2> QED
    BY <2>1, <2>2, <2>3, <2>4, <2>5, <2>6, <2>7, ChargesFrame DEF ChargeOK, QuotaFits, CancelFits, EmailFits, Active
<1> QED
  BY <1>2, <1>4, <1>5, <1>6, <1>7, <1>8, <1>9, <1>10, <1>11 DEF JobWrite

\* So do the operator, who charges only what was not asked to be cancelled and sends a
\* new email for the new outcome, and the email worker.
LEMMA RepairCharges ==
    ASSUME StoreInv, NEW s \in Surveys, Repair(s) \/ Delivery(s)
    PROVE  ChargesOK'
<1> USE DEF StoreInv, StoreTypeOK
<1>1. survey[s] \in SurveyRow /\ job[s] \in JobRow /\ notification[s] \in NotificationRow
  OBVIOUS
<1>2. ASSUME NEW manifest \in {"original", "overlay"}, RecoverContractFailure(s, manifest)
      PROVE  ChargesOK'
  <2>1. \A t \in Surveys \ {s} : /\ survey'[t] = survey[t]
                                 /\ job'[t] = job[t]
                                 /\ notification'[t] = notification[t]
    BY <1>2 DEF RecoverContractFailure
  <2>2. /\ survey'[s] = [survey[s] EXCEPT !.status = "succeeded", !.quota = "consumed",
                                          !.error = "none"]
        /\ job'[s] = [job[s] EXCEPT !.outcome = "succeeded", !.error = "none",
                                    !.manifest = manifest]
        /\ \/ notification'[s] = [status |-> "pending", outcome |-> "succeeded"]
              /\ (notification[s].status # "absent" \/ survey[s].notify)
           \/ notification'[s] = notification[s] /\ notification[s].status = "absent"
    BY <1>2 DEF RecoverContractFailure
  <2>3. ~job[s].cancel
    <3>1. job[s].error = "contract" /\ job[s].outcome = "failed"
      BY <1>2 DEF RecoverContractFailure
    <3> QED
      BY <3>1 DEF CancelledNeverCharged, CancelFits
  <2>4. /\ survey'[s].status = "succeeded" /\ survey'[s].quota = "consumed"
        /\ survey'[s].notify = survey[s].notify
    BY <1>1, <2>2 DEF SurveyRow
  <2>5. job'[s].cancel = job[s].cancel /\ job'[s].outcome = "succeeded"
    BY <1>1, <2>2 DEF JobRow
  <2>6. ChargeOK(survey[s], job[s], notification[s]) =>
           ChargeOK(survey'[s], job'[s], notification'[s])
    BY ONLY <2>2, <2>3, <2>4, <2>5 DEF ChargeOK, QuotaFits, CancelFits, EmailFits, Active
  <2> QED
    BY <2>1, <2>6, ChargesFrame
<1>3. CASE RepairDegradedEvidence(s)
  <2>1. \A t \in Surveys \ {s} : survey'[t] = survey[t] /\ job'[t] = job[t]
    BY <1>3 DEF RepairDegradedEvidence
  <2>2. /\ survey'[s] = [survey[s] EXCEPT !.error = "none"]
        /\ job'[s] = [job[s] EXCEPT !.error = "none", !.manifest = "overlay"]
        /\ notification' = notification
    BY <1>3 DEF RepairDegradedEvidence
  <2>3. /\ survey'[s].status = survey[s].status /\ survey'[s].quota = survey[s].quota
        /\ survey'[s].notify = survey[s].notify /\ job'[s].cancel = job[s].cancel
        /\ job'[s].outcome = job[s].outcome /\ job'[s].error = "none"
    BY <1>1, <2>2 DEF SurveyRow, JobRow
  <2>4. ChargeOK(survey[s], job[s], notification[s]) =>
           ChargeOK(survey'[s], job'[s], notification'[s])
    BY ONLY <2>2, <2>3 DEF ChargeOK, QuotaFits, CancelFits, EmailFits
  <2> QED
    BY <2>1, <2>2, <2>4, ChargesFrame
<1>4. CASE Delivery(s)
  <2>1. PICK from, to : from # "absent" /\ MoveNotification(s, from, to)
    BY <1>4 DEF Delivery, ClaimNotification, CloseNotification, RetryNotification
  <2>2. \A t \in Surveys \ {s} : notification'[t] = notification[t]
    BY <2>1 DEF MoveNotification
  <2>3. /\ notification'[s] = [notification[s] EXCEPT !.status = to]
        /\ notification[s].status # "absent"
        /\ UNCHANGED <<survey, job>>
    BY <2>1 DEF MoveNotification
  <2>4. notification'[s].outcome = notification[s].outcome
    BY <1>1, <2>3 DEF NotificationRow
  <2> QED
    BY <2>2, <2>3, <2>4, ChargesFrame DEF ChargeOK, QuotaFits, CancelFits, EmailFits
<1> QED
  BY <1>2, <1>3, <1>4 DEF Repair

-----------------------------------------------------------------------------
(* The counters.                                                           *)

\* A survey that moves from one quota state to another leaves the set of those charged
\* in the old state, joins that of the new one, and disturbs no other.
LEMMA QuotaMove ==
    ASSUME StoreTypeOK, NEW s \in Surveys, NEW quota, NEW l \in Ledgers,
           \A t \in Surveys \ {s} : survey'[t] = survey[t]
    PROVE  /\ Cardinality(Charged(l, quota)) \in Nat
           /\ \/ LedgerOf[s] # l
              \/ survey'[s].quota = survey[s].quota
              \/ survey[s].quota # quota /\ survey'[s].quota # quota
              => Charged(l, quota)' = Charged(l, quota)
           /\ LedgerOf[s] = l /\ survey[s].quota = quota /\ survey'[s].quota # quota =>
                Cardinality(Charged(l, quota)') = Cardinality(Charged(l, quota)) - 1
           /\ LedgerOf[s] = l /\ survey[s].quota # quota /\ survey'[s].quota = quota =>
                Cardinality(Charged(l, quota)') = Cardinality(Charged(l, quota)) + 1
<1> DEFINE before == Charged(l, quota)
           after == {t \in Surveys : LedgerOf[t] = l /\ survey'[t].quota = quota}
<1>1. Charged(l, quota)' = after
  BY DEF Charged
<1>2. IsFiniteSet(before) /\ Cardinality(before) \in Nat
  <2>1. before \subseteq Surveys
    BY DEF Charged
  <2> QED
    BY <2>1, StoreConstants, FS_Subset, FS_CardinalityType
<1>3. ASSUME \/ LedgerOf[s] # l
             \/ survey'[s].quota = survey[s].quota
             \/ survey[s].quota # quota /\ survey'[s].quota # quota
      PROVE  after = before
  BY <1>3 DEF Charged
<1>4. ASSUME LedgerOf[s] = l, survey[s].quota = quota, survey'[s].quota # quota
      PROVE  Cardinality(after) = Cardinality(before) - 1
  <2>1. after = before \ {s} /\ s \in before
    BY <1>4 DEF Charged
  <2> QED
    BY <1>2, <2>1, FS_RemoveElement
<1>5. ASSUME LedgerOf[s] = l, survey[s].quota # quota, survey'[s].quota = quota
      PROVE  Cardinality(after) = Cardinality(before) + 1
  <2>1. after = before \cup {s} /\ s \notin before
    BY <1>5 DEF Charged
  <2> QED
    BY <1>2, <2>1, FS_AddElement
<1> QED
  BY <1>1, <1>2, <1>3, <1>4, <1>5

\* Where no survey changes its quota state and no counter is written, they still agree.
LEMMA LedgerUnchanged ==
    ASSUME StoreInv, UNCHANGED ledger, \A s \in Surveys : survey'[s].quota = survey[s].quota
    PROVE  LedgerBalanced'
<1>1. \A l \in Ledgers, q \in {"reserved", "consumed"} : Charged(l, q)' = Charged(l, q)
  BY DEF Charged
<1> QED
  BY <1>1 DEF StoreInv, LedgerBalanced, ledger

\* Giving a reservation back while its survey is marked as released keeps the balance.
LEMMA ReleaseBalances ==
    ASSUME StoreInv, NEW s \in Surveys, Release(s), UNCHANGED succeeded,
           survey[s].quota = "reserved", survey'[s].quota \in {"released"},
           \A t \in Surveys \ {s} : survey'[t] = survey[t]
    PROVE  LedgerBalanced'
<1> SUFFICES ASSUME NEW l \in Ledgers
             PROVE  /\ reserved'[l] = Cardinality(Charged(l, "reserved")')
                    /\ succeeded'[l] = Cardinality(Charged(l, "consumed")')
  BY DEF LedgerBalanced
<1>1. /\ reserved[l] = Cardinality(Charged(l, "reserved"))
      /\ succeeded[l] = Cardinality(Charged(l, "consumed"))
  BY DEF StoreInv, LedgerBalanced
<1>2. Charged(l, "consumed")' = Charged(l, "consumed")
  BY QuotaMove DEF StoreInv
<1>3. reserved \in [Ledgers -> Nat] /\ LedgerOf[s] \in Ledgers
  BY StoreConstants DEF StoreInv, StoreTypeOK
<1>4. CASE LedgerOf[s] = l
  <2>1. Cardinality(Charged(l, "reserved")') = Cardinality(Charged(l, "reserved")) - 1
    BY <1>4, QuotaMove DEF StoreInv
  <2>2. reserved'[l] = reserved[l] - 1
    BY <1>3, <1>4 DEF Release
  <2> QED
    BY <1>1, <1>2, <2>1, <2>2
<1>5. CASE LedgerOf[s] # l
  <2>1. Charged(l, "reserved")' = Charged(l, "reserved")
    BY <1>5, QuotaMove DEF StoreInv
  <2>2. reserved'[l] = reserved[l]
    BY <1>3, <1>5 DEF Release
  <2> QED
    BY <1>1, <1>2, <2>1, <2>2
<1> QED
  BY <1>4, <1>5

\* So does turning a reservation into a charge.
LEMMA ConsumeBalances ==
    ASSUME StoreInv, NEW s \in Surveys, Release(s),
           succeeded' = [succeeded EXCEPT ![LedgerOf[s]] = @ + 1],
           survey[s].quota = "reserved", survey'[s].quota = "consumed",
           \A t \in Surveys \ {s} : survey'[t] = survey[t]
    PROVE  LedgerBalanced'
<1> SUFFICES ASSUME NEW l \in Ledgers
             PROVE  /\ reserved'[l] = Cardinality(Charged(l, "reserved")')
                    /\ succeeded'[l] = Cardinality(Charged(l, "consumed")')
  BY DEF LedgerBalanced
<1>1. /\ reserved[l] = Cardinality(Charged(l, "reserved"))
      /\ succeeded[l] = Cardinality(Charged(l, "consumed"))
  BY DEF StoreInv, LedgerBalanced
<1>2. /\ reserved \in [Ledgers -> Nat] /\ succeeded \in [Ledgers -> Nat]
      /\ LedgerOf[s] \in Ledgers
  BY StoreConstants DEF StoreInv, StoreTypeOK
<1>3. CASE LedgerOf[s] = l
  <2>1. /\ Cardinality(Charged(l, "reserved")') = Cardinality(Charged(l, "reserved")) - 1
        /\ Cardinality(Charged(l, "consumed")') = Cardinality(Charged(l, "consumed")) + 1
    BY <1>3, QuotaMove DEF StoreInv
  <2>2. reserved'[l] = reserved[l] - 1 /\ succeeded'[l] = succeeded[l] + 1
    BY <1>2, <1>3 DEF Release
  <2> QED
    BY <1>1, <2>1, <2>2
<1>4. CASE LedgerOf[s] # l
  <2>1. /\ Charged(l, "reserved")' = Charged(l, "reserved")
        /\ Charged(l, "consumed")' = Charged(l, "consumed")
    BY <1>4, QuotaMove DEF StoreInv
  <2>2. reserved'[l] = reserved[l] /\ succeeded'[l] = succeeded[l]
    BY <1>2, <1>4 DEF Release
  <2> QED
    BY <1>1, <2>1, <2>2
<1> QED
  BY <1>3, <1>4

\* So does the operator's charge for a survey that was released.
LEMMA RecoveryBalances ==
    ASSUME StoreInv, NEW s \in Surveys, UNCHANGED reserved,
           succeeded' = [succeeded EXCEPT ![LedgerOf[s]] = @ + 1],
           survey[s].quota = "released", survey'[s].quota = "consumed",
           \A t \in Surveys \ {s} : survey'[t] = survey[t]
    PROVE  LedgerBalanced'
<1> SUFFICES ASSUME NEW l \in Ledgers
             PROVE  /\ reserved'[l] = Cardinality(Charged(l, "reserved")')
                    /\ succeeded'[l] = Cardinality(Charged(l, "consumed")')
  BY DEF LedgerBalanced
<1>1. /\ reserved[l] = Cardinality(Charged(l, "reserved"))
      /\ succeeded[l] = Cardinality(Charged(l, "consumed"))
  BY DEF StoreInv, LedgerBalanced
<1>2. succeeded \in [Ledgers -> Nat] /\ LedgerOf[s] \in Ledgers
  BY StoreConstants DEF StoreInv, StoreTypeOK
<1>3. Charged(l, "reserved")' = Charged(l, "reserved")
  BY QuotaMove DEF StoreInv
<1>4. CASE LedgerOf[s] = l
  <2>1. Cardinality(Charged(l, "consumed")') = Cardinality(Charged(l, "consumed")) + 1
    BY <1>4, QuotaMove DEF StoreInv
  <2>2. succeeded'[l] = succeeded[l] + 1
    BY <1>2, <1>4
  <2> QED
    BY <1>1, <1>3, <2>1, <2>2
<1>5. CASE LedgerOf[s] # l
  <2>1. Charged(l, "consumed")' = Charged(l, "consumed")
    BY <1>5, QuotaMove DEF StoreInv
  <2>2. succeeded'[l] = succeeded[l]
    BY <1>2, <1>5
  <2> QED
    BY <1>1, <1>3, <2>1, <2>2
<1> QED
  BY <1>4, <1>5

\* Requests of the user keep the counters balanced.
LEMMA RequestBalance ==
    ASSUME StoreInv, NEW s \in Surveys, Request(s)
    PROVE  LedgerBalanced'
<1>1. survey \in [Surveys -> SurveyRow] /\ survey[s] \in SurveyRow
  BY DEF StoreInv, StoreTypeOK
<1>2. CASE CreateSurvey(s)
  <2> SUFFICES ASSUME NEW l \in Ledgers
               PROVE  /\ reserved'[l] = Cardinality(Charged(l, "reserved")')
                      /\ succeeded'[l] = Cardinality(Charged(l, "consumed")')
    BY DEF LedgerBalanced
  <2>1. /\ reserved[l] = Cardinality(Charged(l, "reserved"))
        /\ succeeded[l] = Cardinality(Charged(l, "consumed"))
    BY DEF StoreInv, LedgerBalanced
  <2>2. reserved \in [Ledgers -> Nat] /\ LedgerOf[s] \in Ledgers
    BY StoreConstants DEF StoreInv, StoreTypeOK
  <2>3. /\ \A t \in Surveys \ {s} : survey'[t] = survey[t]
        /\ survey'[s].quota = "reserved"
    BY <1>1, <1>2 DEF CreateSurvey, SurveyIn
  <2>4. survey[s].quota = "none"
    BY <1>2 DEF CreateSurvey, StoreInv, QuotaFollowsStatus, QuotaFits
  <2>5. Charged(l, "consumed")' = Charged(l, "consumed") /\ succeeded' = succeeded
    BY <1>2, <2>3, <2>4, QuotaMove DEF StoreInv, CreateSurvey
  <2>6. CASE LedgerOf[s] = l
    <3>1. Cardinality(Charged(l, "reserved")') = Cardinality(Charged(l, "reserved")) + 1
      BY <2>3, <2>4, <2>6, QuotaMove DEF StoreInv
    <3>2. reserved'[l] = reserved[l] + 1
      BY <1>2, <2>2, <2>6 DEF CreateSurvey
    <3> QED
      BY <2>1, <2>5, <3>1, <3>2
  <2>7. CASE LedgerOf[s] # l
    <3>1. Charged(l, "reserved")' = Charged(l, "reserved")
      BY <2>3, <2>7, QuotaMove DEF StoreInv
    <3>2. reserved'[l] = reserved[l]
      BY <1>2, <2>2, <2>7 DEF CreateSurvey
    <3> QED
      BY <2>1, <2>5, <3>1, <3>2
  <2> QED
    BY <2>6, <2>7
<1>3. CASE RequestGeneratedDraft(s) \/ CreateManualDraft(s) \/ RequestCancel(s)
  <2>1. UNCHANGED ledger /\ survey' = survey
    BY <1>3 DEF RequestGeneratedDraft, CreateManualDraft, RequestCancel
  <2> QED
    BY <2>1, LedgerUnchanged
<1>4. ASSUME NEW notify \in BOOLEAN, StartSurvey(s, notify)
      PROVE  LedgerBalanced'
  <2>1. /\ survey' = [survey EXCEPT ![s] = [@ EXCEPT !.status = "queued", !.notify = notify]]
        /\ UNCHANGED ledger
    BY <1>4 DEF StartSurvey
  <2>2. [survey[s] EXCEPT !.status = "queued", !.notify = notify].quota = survey[s].quota
    BY <1>1 DEF SurveyRow
  <2>3. \A t \in Surveys : survey'[t].quota = survey[t].quota
    BY <1>1, <2>1, <2>2
  <2> QED
    BY <2>1, <2>3, LedgerUnchanged
<1>5. CASE CancelBeforeRun(s)
  <2>1. Release(s) /\ UNCHANGED succeeded
    BY <1>5 DEF CancelBeforeRun
  <2>2. survey' = [survey EXCEPT ![s] = [@ EXCEPT !.status = "cancelled", !.quota = "released"]]
    BY <1>5 DEF CancelBeforeRun
  <2>3. [survey[s] EXCEPT !.status = "cancelled", !.quota = "released"].quota = "released"
    BY <1>1 DEF SurveyRow
  <2>4. survey[s].quota = "reserved"
    BY <1>5 DEF CancelBeforeRun, StoreInv, QuotaFollowsStatus, QuotaFits, Active
  <2> QED
    BY <1>1, <2>1, <2>2, <2>3, <2>4, ReleaseBalances
<1>6. CASE DeleteBeforeRun(s)
  <2>1. /\ survey[s].quota = "reserved"
        /\ Release(s)
        /\ DeleteRows(s, "released")
        /\ UNCHANGED succeeded
    BY <1>6, DeletionReleases
  <2>2. /\ \A t \in Surveys \ {s} : survey'[t] = survey[t]
        /\ survey'[s].quota = "released"
    BY <1>1, <2>1 DEF DeleteRows, SurveyIn
  <2> QED
    BY <2>1, <2>2, ReleaseBalances
<1>7. CASE DeleteTerminal(s)
  <2>1. DeleteRows(s, survey[s].quota) /\ UNCHANGED ledger
    BY <1>7 DEF DeleteTerminal
  <2>2. \A t \in Surveys : survey'[t].quota = survey[t].quota
    BY <1>1, <2>1 DEF DeleteRows, SurveyIn
  <2> QED
    BY <2>1, <2>2, LedgerUnchanged
<1> QED
  BY <1>2, <1>3, <1>4, <1>5, <1>6, <1>7 DEF Request, CancelSurvey, DeleteSurvey

\* So do the job workers and their sweep.
LEMMA JobBalance ==
    ASSUME StoreInv, NEW s \in Surveys, JobWrite(s)
    PROVE  LedgerBalanced'
<1>1. survey \in [Surveys -> SurveyRow] /\ survey[s] \in SurveyRow
  BY DEF StoreInv, StoreTypeOK
<1>2. CASE RecoverExpiredJob(s)
  <2>1. Release(s) /\ UNCHANGED succeeded
    BY <1>2 DEF RecoverExpiredJob
  <2>2. PICK e : survey' = [survey EXCEPT ![s] = [@ EXCEPT !.status = "archiving",
                                                           !.quota = "released", !.error = e]]
    BY <1>2 DEF RecoverExpiredJob
  <2>3. [survey[s] EXCEPT !.status = "archiving", !.quota = "released", !.error = e].quota
          = "released"
    BY <1>1 DEF SurveyRow
  <2>4. survey[s].quota = "reserved"
    BY <1>2 DEF RecoverExpiredJob, StoreInv, QuotaFollowsStatus, QuotaFits, RowsFit,
                JobFollows, Active
  <2> QED
    BY <1>1, <2>1, <2>2, <2>3, <2>4, ReleaseBalances
<1>3. CASE JobLeaseExpires(s) \/ ArchiveBecomesDue(s)
  BY <1>3, LedgerUnchanged DEF JobLeaseExpires, ArchiveBecomesDue
<1>4. ASSUME NEW w \in Workers, HeartbeatJob(s, w) \/ DeferArchive(s, w)
      PROVE  LedgerBalanced'
  BY <1>4, LedgerUnchanged DEF HeartbeatJob, DeferArchive
<1>5. ASSUME NEW st, UNCHANGED ledger,
             survey' = [survey EXCEPT ![s] = [survey[s] EXCEPT !.status = st]] \/ survey' = survey
      PROVE  LedgerBalanced'
  <2>1. [survey[s] EXCEPT !.status = st].quota = survey[s].quota
    BY <1>1 DEF SurveyRow
  <2>2. \A t \in Surveys : survey'[t].quota = survey[t].quota
    BY <1>1, <1>5, <2>1
  <2> QED
    BY <1>5, <2>2, LedgerUnchanged
<1>6. ASSUME NEW w \in Workers, ClaimJob(s, w)
      PROVE  LedgerBalanced'
  <2>1. /\ UNCHANGED ledger
        /\ \/ survey' = [survey EXCEPT ![s] = [survey[s] EXCEPT !.status = "running"]]
           \/ survey' = survey
    BY <1>6 DEF ClaimJob
  <2> QED
    BY <1>5, <2>1
<1>7. ASSUME NEW w \in Workers, FinishArchive(s, w)
      PROVE  LedgerBalanced'
  <2>1. /\ UNCHANGED ledger
        /\ \/ survey' = [survey EXCEPT ![s] = [survey[s] EXCEPT !.status = job[s].outcome]]
           \/ survey' = survey
    BY <1>7 DEF FinishArchive
  <2> QED
    BY <1>5, <2>1
<1>8. ASSUME NEW w \in Workers, MarkWorkspaceMissing(s, w)
      PROVE  LedgerBalanced'
  <2>1. /\ survey' = [survey EXCEPT ![s] = [@ EXCEPT !.error = "workspace_missing"]]
        /\ UNCHANGED ledger
    BY <1>8 DEF MarkWorkspaceMissing
  <2>2. [survey[s] EXCEPT !.error = "workspace_missing"].quota = survey[s].quota
    BY <1>1 DEF SurveyRow
  <2>3. \A t \in Surveys : survey'[t].quota = survey[t].quota
    BY <1>1, <2>1, <2>2
  <2> QED
    BY <2>1, <2>3, LedgerUnchanged
<1>9. ASSUME NEW w \in Workers, NEW outcome \in Outcomes, NEW error \in Errors,
             NEW chargeable \in BOOLEAN, SettleExecution(s, w, outcome, error, chargeable)
      PROVE  LedgerBalanced'
  <2>1. Release(s) /\ survey[s].quota = "reserved"
    BY <1>9 DEF SettleExecution
  <2>2. PICK e, quota :
          /\ survey' = [survey EXCEPT ![s] = [@ EXCEPT !.status = "archiving", !.error = e,
                                                       !.quota = quota]]
          /\ \/ quota = "consumed" /\ succeeded' = [succeeded EXCEPT ![LedgerOf[s]] = @ + 1]
             \/ quota = "released" /\ succeeded' = succeeded
    BY <1>9 DEF SettleExecution
  <2>3. [survey[s] EXCEPT !.status = "archiving", !.error = e, !.quota = quota].quota = quota
    BY <1>1 DEF SurveyRow
  <2>4. /\ \A t \in Surveys \ {s} : survey'[t] = survey[t]
        /\ survey'[s].quota = quota
    BY <1>1, <2>2, <2>3
  <2> QED
    BY <2>1, <2>2, <2>4, ReleaseBalances, ConsumeBalances
<1> QED
  BY <1>2, <1>3, <1>4, <1>6, <1>7, <1>8, <1>9 DEF JobWrite

\* So do the draft workers, the operator and the email worker.
LEMMA OtherBalance ==
    ASSUME StoreInv, NEW s \in Surveys, DraftWrite(s) \/ Repair(s) \/ Delivery(s)
    PROVE  LedgerBalanced'
<1>1. survey \in [Surveys -> SurveyRow] /\ survey[s] \in SurveyRow
  BY DEF StoreInv, StoreTypeOK
<1>2. CASE DraftWrite(s) \/ Delivery(s)
  <2>1. UNCHANGED ledger /\ survey' = survey
    BY <1>2 DEF DraftWrite, ClaimDraft, HeartbeatDraft, CompleteDraft, FailDraft,
                RecoverExpiredDraft, DraftLeaseExpires, Delivery, ClaimNotification,
                CloseNotification, RetryNotification, MoveNotification
  <2> QED
    BY <2>1, LedgerUnchanged
<1>3. ASSUME NEW manifest \in {"original", "overlay"}, RecoverContractFailure(s, manifest)
      PROVE  LedgerBalanced'
  <2>1. /\ survey' = [survey EXCEPT ![s] = [@ EXCEPT !.status = "succeeded",
                                                     !.quota = "consumed", !.error = "none"]]
        /\ succeeded' = [succeeded EXCEPT ![LedgerOf[s]] = @ + 1]
        /\ survey[s].quota = "released"
        /\ UNCHANGED reserved
    BY <1>3 DEF RecoverContractFailure
  <2>2. [survey[s] EXCEPT !.status = "succeeded", !.quota = "consumed", !.error = "none"].quota
          = "consumed"
    BY <1>1 DEF SurveyRow
  <2> QED
    BY <1>1, <2>1, <2>2, RecoveryBalances
<1>4. CASE RepairDegradedEvidence(s)
  <2>1. /\ survey' = [survey EXCEPT ![s] = [@ EXCEPT !.error = "none"]]
        /\ UNCHANGED ledger
    BY <1>4 DEF RepairDegradedEvidence
  <2>2. [survey[s] EXCEPT !.error = "none"].quota = survey[s].quota
    BY <1>1 DEF SurveyRow
  <2>3. \A t \in Surveys : survey'[t].quota = survey[t].quota
    BY <1>1, <2>1, <2>2
  <2> QED
    BY <2>1, <2>3, LedgerUnchanged
<1> QED
  BY <1>2, <1>3, <1>4 DEF Repair

-----------------------------------------------------------------------------
(* All of it.                                                              *)

\* Every transaction preserves the inductive invariant of the tables, and so does
\* every step that leaves the tables alone.
LEMMA StoreStepInv ==
    ASSUME StoreInv, StoreNext \/ UNCHANGED tables
    PROVE  StoreInv'
<1>1. ASSUME NEW s \in Surveys, Request(s)
      PROVE  StoreInv'
  BY <1>1, RequestTypes, RequestRows, RequestCharges, RequestBalance DEF StoreInv, ChargesOK
<1>2. ASSUME NEW s \in Surveys, DraftWrite(s)
      PROVE  StoreInv'
  BY <1>2, DraftTypes, DraftRows, DraftCharges, OtherBalance DEF StoreInv, ChargesOK
<1>3. ASSUME NEW s \in Surveys, JobWrite(s)
      PROVE  StoreInv'
  BY <1>3, JobTypes, JobRows, JobCharges, JobBalance DEF StoreInv, ChargesOK
<1>4. ASSUME NEW s \in Surveys, Repair(s) \/ Delivery(s)
      PROVE  StoreInv'
  BY <1>4, RepairTypes, RepairRows, RepairCharges, OtherBalance DEF StoreInv, ChargesOK
<1>5. CASE UNCHANGED tables
  BY <1>5 DEF tables, StoreInv, StoreTypeOK, LedgerBalanced, Charged, QuotaFollowsStatus,
              RowsFit, CancelledNeverCharged, NotificationTruthful
<1> QED
  BY <1>1, <1>2, <1>3, <1>4, <1>5 DEF StoreNext

-----------------------------------------------------------------------------
(* What no transaction undoes.                                             *)

BeforeRun == {"absent", "drafting", "queued"}

\* A survey that has been claimed never goes back before its run.
LEMMA NeverBackBeforeRun ==
    ASSUME StoreInv, StoreNext \/ UNCHANGED tables, NEW t \in Surveys,
           survey[t].status \notin BeforeRun
    PROVE  survey'[t].status \notin BeforeRun
<1>1. survey \in [Surveys -> SurveyRow]
  BY DEF StoreInv, StoreTypeOK
<1>2. ASSUME NEW s \in Surveys, NEW r, survey' = [survey EXCEPT ![s] = r],
             survey[s].status \in BeforeRun \/ r.status \notin BeforeRun
      PROVE  survey'[t].status \notin BeforeRun
  BY <1>1, <1>2
<1>3. ASSUME NEW s \in Surveys, Request(s)
      PROVE  survey'[t].status \notin BeforeRun
  <2>1. CASE CreateSurvey(s)
    BY <1>2, <2>1 DEF CreateSurvey, BeforeRun
  <2>2. CASE RequestGeneratedDraft(s) \/ CreateManualDraft(s) \/ RequestCancel(s)
    BY <2>2 DEF RequestGeneratedDraft, CreateManualDraft, RequestCancel
  <2>3. ASSUME NEW notify \in BOOLEAN, StartSurvey(s, notify)
        PROVE  survey'[t].status \notin BeforeRun
    BY <1>2, <2>3 DEF StartSurvey, BeforeRun
  <2>4. CASE CancelBeforeRun(s)
    BY <1>2, <2>4 DEF CancelBeforeRun, BeforeRun
  <2>5. ASSUME NEW quota, DeleteRows(s, quota)
        PROVE  survey'[t].status \notin BeforeRun
    BY <1>2, <2>5 DEF DeleteRows, SurveyIn, BeforeRun
  <2> QED
    BY <1>3, <2>1, <2>2, <2>3, <2>4, <2>5
       DEF Request, CancelSurvey, DeleteSurvey, DeleteBeforeRun, DeleteTerminal
<1>4. ASSUME NEW s \in Surveys, JobWrite(s)
      PROVE  survey'[t].status \notin BeforeRun
  <2> DEFINE row == survey[s]
  <2>1. row \in SurveyRow
    BY <1>1
  <2>2. CASE RecoverExpiredJob(s)
    <3>1. PICK e : survey' = [survey EXCEPT ![s] = [row EXCEPT !.status = "archiving",
                                                    !.quota = "released", !.error = e]]
      BY <2>2 DEF RecoverExpiredJob
    <3>2. [row EXCEPT !.status = "archiving", !.quota = "released", !.error = e].status
            = "archiving"
      BY <2>1 DEF SurveyRow
    <3> QED
      BY <1>2, <3>1, <3>2 DEF BeforeRun
  <2>3. CASE JobLeaseExpires(s) \/ ArchiveBecomesDue(s)
    BY <2>3 DEF JobLeaseExpires, ArchiveBecomesDue
  <2>4. ASSUME NEW w \in Workers, HeartbeatJob(s, w) \/ DeferArchive(s, w)
        PROVE  survey'[t].status \notin BeforeRun
    BY <2>4 DEF HeartbeatJob, DeferArchive
  <2>5. ASSUME NEW st, st \notin BeforeRun,
               survey' = [survey EXCEPT ![s] = [row EXCEPT !.status = st]] \/ survey' = survey
        PROVE  survey'[t].status \notin BeforeRun
    <3>1. [row EXCEPT !.status = st].status = st
      BY <2>1 DEF SurveyRow
    <3> QED
      BY <1>2, <2>5, <3>1
  <2>6. ASSUME NEW w \in Workers, ClaimJob(s, w)
        PROVE  survey'[t].status \notin BeforeRun
    BY <2>5, <2>6 DEF ClaimJob, BeforeRun
  <2>7. ASSUME NEW w \in Workers, FinishArchive(s, w)
        PROVE  survey'[t].status \notin BeforeRun
    <3>1. job[s].outcome \notin BeforeRun
      BY DEF StoreInv, StoreTypeOK, JobRow, Outcomes, Terminal, BeforeRun
    <3> QED
      BY <2>5, <2>7, <3>1 DEF FinishArchive
  <2>8. ASSUME NEW w \in Workers, MarkWorkspaceMissing(s, w)
        PROVE  survey'[t].status \notin BeforeRun
    <3>1. [row EXCEPT !.error = "workspace_missing"].status = row.status
      BY <2>1 DEF SurveyRow
    <3> QED
      BY <1>2, <2>8, <3>1 DEF MarkWorkspaceMissing
  <2>9. ASSUME NEW w \in Workers, NEW outcome \in Outcomes, NEW error \in Errors,
               NEW chargeable \in BOOLEAN, SettleExecution(s, w, outcome, error, chargeable)
        PROVE  survey'[t].status \notin BeforeRun
    <3>1. PICK e, q : survey' = [survey EXCEPT ![s] = [row EXCEPT !.status = "archiving",
                                                       !.error = e, !.quota = q]]
      BY <2>9 DEF SettleExecution
    <3>2. [row EXCEPT !.status = "archiving", !.error = e, !.quota = q].status = "archiving"
      BY <2>1 DEF SurveyRow
    <3> QED
      BY <1>2, <3>1, <3>2 DEF BeforeRun
  <2> QED
    BY <1>4, <2>2, <2>3, <2>4, <2>6, <2>7, <2>8, <2>9 DEF JobWrite
<1>5. ASSUME NEW s \in Surveys, Repair(s)
      PROVE  survey'[t].status \notin BeforeRun
  <2>1. survey[s] \in SurveyRow
    BY <1>1
  <2>2. [survey[s] EXCEPT !.status = "succeeded", !.quota = "consumed", !.error = "none"].status
          = "succeeded"
    BY <2>1 DEF SurveyRow
  <2>3. [survey[s] EXCEPT !.error = "none"].status = survey[s].status
    BY <2>1 DEF SurveyRow
  <2>4. \/ survey' = [survey EXCEPT ![s] = [survey[s] EXCEPT !.status = "succeeded",
                                            !.quota = "consumed", !.error = "none"]]
        \/ survey' = [survey EXCEPT ![s] = [survey[s] EXCEPT !.error = "none"]]
    BY <1>5 DEF Repair, RecoverContractFailure, RepairDegradedEvidence
  <2> QED
    BY <1>2, <2>2, <2>3, <2>4 DEF BeforeRun
<1>6. ASSUME NEW s \in Surveys, DraftWrite(s) \/ Delivery(s)
      PROVE  survey'[t].status \notin BeforeRun
  BY <1>6 DEF DraftWrite, ClaimDraft, HeartbeatDraft, CompleteDraft, FailDraft,
              RecoverExpiredDraft, DraftLeaseExpires, Delivery, ClaimNotification,
              CloseNotification, RetryNotification, MoveNotification
<1>7. CASE UNCHANGED tables
  BY <1>7 DEF tables
<1> QED
  BY <1>3, <1>4, <1>5, <1>6, <1>7 DEF StoreNext

\* No transaction takes a charge back.
LEMMA ChargeStands ==
    ASSUME StoreInv, StoreNext \/ UNCHANGED tables, NEW t \in Surveys,
           survey[t].quota = "consumed"
    PROVE  survey'[t].quota = "consumed"
<1>1. survey \in [Surveys -> SurveyRow]
  BY DEF StoreInv, StoreTypeOK
<1>2. ASSUME NEW s \in Surveys, NEW r, survey' = [survey EXCEPT ![s] = r],
             survey[s].quota # "consumed" \/ r.quota = "consumed"
      PROVE  survey'[t].quota = "consumed"
  BY <1>1, <1>2
<1>3. ASSUME NEW s \in Surveys, NEW r, survey' = [survey EXCEPT ![s] = r],
             survey[s].status \in Active \cup {"absent"}
      PROVE  survey'[t].quota = "consumed"
  <2>1. survey[s].quota # "consumed"
    BY <1>3 DEF StoreInv, QuotaFollowsStatus, QuotaFits
  <2> QED
    BY <1>2, <1>3, <2>1
<1>4. ASSUME NEW s \in Surveys, Request(s)
      PROVE  survey'[t].quota = "consumed"
  <2>1. CASE CreateSurvey(s)
    BY <1>3, <2>1 DEF CreateSurvey
  <2>2. CASE RequestGeneratedDraft(s) \/ CreateManualDraft(s) \/ RequestCancel(s)
    BY <2>2 DEF RequestGeneratedDraft, CreateManualDraft, RequestCancel
  <2>3. ASSUME NEW notify \in BOOLEAN, StartSurvey(s, notify)
        PROVE  survey'[t].quota = "consumed"
    BY <1>3, <2>3 DEF StartSurvey, Active
  <2>4. CASE CancelBeforeRun(s)
    BY <1>3, <2>4 DEF CancelBeforeRun, Active
  <2>5. CASE DeleteBeforeRun(s)
    BY <1>3, <2>5, DeletionReleases DEF DeleteRows, DeleteBeforeRun, Active
  <2>6. CASE DeleteTerminal(s)
    BY <1>2, <2>6 DEF DeleteTerminal, DeleteRows, SurveyIn
  <2> QED
    BY <1>4, <2>1, <2>2, <2>3, <2>4, <2>5, <2>6 DEF Request, CancelSurvey, DeleteSurvey
<1>5. ASSUME NEW s \in Surveys, JobWrite(s)
      PROVE  survey'[t].quota = "consumed"
  <2>1. survey[s] \in SurveyRow
    BY <1>1
  <2>2. CASE RecoverExpiredJob(s)
    <3>1. survey[s].status = "running"
      BY <2>2 DEF RecoverExpiredJob, StoreInv, RowsFit, JobFollows
    <3> QED
      BY <1>3, <2>2, <3>1 DEF RecoverExpiredJob, Active
  <2>3. CASE JobLeaseExpires(s) \/ ArchiveBecomesDue(s)
    BY <2>3 DEF JobLeaseExpires, ArchiveBecomesDue
  <2>4. ASSUME NEW w \in Workers, HeartbeatJob(s, w) \/ DeferArchive(s, w)
        PROVE  survey'[t].quota = "consumed"
    BY <2>4 DEF HeartbeatJob, DeferArchive
  <2>5. ASSUME NEW st,
               survey' = [survey EXCEPT ![s] = [survey[s] EXCEPT !.status = st]] \/ survey' = survey
        PROVE  survey'[t].quota = "consumed"
    <3>1. [survey[s] EXCEPT !.status = st].quota = survey[s].quota
      BY <2>1 DEF SurveyRow
    <3> QED
      BY <1>2, <2>5, <3>1
  <2>6. ASSUME NEW w \in Workers, ClaimJob(s, w)
        PROVE  survey'[t].quota = "consumed"
    BY <2>5, <2>6 DEF ClaimJob
  <2>7. ASSUME NEW w \in Workers, FinishArchive(s, w)
        PROVE  survey'[t].quota = "consumed"
    BY <2>5, <2>7 DEF FinishArchive
  <2>8. ASSUME NEW w \in Workers, MarkWorkspaceMissing(s, w)
        PROVE  survey'[t].quota = "consumed"
    <3>1. [survey[s] EXCEPT !.error = "workspace_missing"].quota = survey[s].quota
      BY <2>1 DEF SurveyRow
    <3> QED
      BY <1>2, <2>8, <3>1 DEF MarkWorkspaceMissing
  <2>9. ASSUME NEW w \in Workers, NEW outcome \in Outcomes, NEW error \in Errors,
               NEW chargeable \in BOOLEAN, SettleExecution(s, w, outcome, error, chargeable)
        PROVE  survey'[t].quota = "consumed"
    BY <1>3, <2>9 DEF SettleExecution, Active
  <2> QED
    BY <1>5, <2>2, <2>3, <2>4, <2>6, <2>7, <2>8, <2>9 DEF JobWrite
<1>6. ASSUME NEW s \in Surveys, Repair(s)
      PROVE  survey'[t].quota = "consumed"
  <2>1. survey[s] \in SurveyRow
    BY <1>1
  <2>2. [survey[s] EXCEPT !.status = "succeeded", !.quota = "consumed", !.error = "none"].quota
          = "consumed"
    BY <2>1 DEF SurveyRow
  <2>3. [survey[s] EXCEPT !.error = "none"].quota = survey[s].quota
    BY <2>1 DEF SurveyRow
  <2>4. \/ survey' = [survey EXCEPT ![s] = [survey[s] EXCEPT !.status = "succeeded",
                                            !.quota = "consumed", !.error = "none"]]
        \/ survey' = [survey EXCEPT ![s] = [survey[s] EXCEPT !.error = "none"]]
    BY <1>6 DEF Repair, RecoverContractFailure, RepairDegradedEvidence
  <2> QED
    BY <1>2, <2>2, <2>3, <2>4
<1>7. ASSUME NEW s \in Surveys, DraftWrite(s) \/ Delivery(s)
      PROVE  survey'[t].quota = "consumed"
  BY <1>7 DEF DraftWrite, ClaimDraft, HeartbeatDraft, CompleteDraft, FailDraft,
              RecoverExpiredDraft, DraftLeaseExpires, Delivery, ClaimNotification,
              CloseNotification, RetryNotification, MoveNotification
<1>8. CASE UNCHANGED tables
  BY <1>8 DEF tables
<1> QED
  BY <1>4, <1>5, <1>6, <1>7, <1>8 DEF StoreNext

\* Only the operator's recovery raises what a day is charged beyond its limit.
LEMMA AllowanceStep ==
    ASSUME StoreInv, NEW s \in Surveys, NEW l \in Ledgers,
           Request(s) \/ DraftWrite(s) \/ JobWrite(s) \/ RepairDegradedEvidence(s) \/ Delivery(s)
    PROVE  \/ reserved'[l] + succeeded'[l] <= reserved[l] + succeeded[l]
           \/ reserved'[l] + succeeded'[l] <= DailyLimit
<1>1. /\ reserved \in [Ledgers -> Nat] /\ succeeded \in [Ledgers -> Nat]
      /\ LedgerOf[s] \in Ledgers /\ DailyLimit \in Nat
  BY StoreConstants DEF StoreInv, StoreTypeOK
<1>2. CASE CreateSurvey(s)
  <2>1. reserved[LedgerOf[s]] + succeeded[LedgerOf[s]] < DailyLimit
    BY <1>2 DEF CreateSurvey, HasAllowance
  <2>2. /\ reserved' = [reserved EXCEPT ![LedgerOf[s]] = @ + 1]
        /\ succeeded' = succeeded
    BY <1>2 DEF CreateSurvey
  <2> QED
    BY <1>1, <2>1, <2>2
<1>3. CASE Release(s) /\ UNCHANGED succeeded
  BY <1>1, <1>3 DEF Release
<1>4. CASE Release(s) /\ succeeded' = [succeeded EXCEPT ![LedgerOf[s]] = @ + 1]
  BY <1>1, <1>4 DEF Release
<1>5. CASE UNCHANGED ledger
  BY <1>1, <1>5 DEF ledger
<1>6. ASSUME Request(s), ~CreateSurvey(s)
      PROVE  (Release(s) /\ UNCHANGED succeeded) \/ UNCHANGED ledger
  BY <1>6, DeletionReleases
     DEF Request, CancelSurvey, DeleteSurvey, RequestGeneratedDraft, CreateManualDraft,
         StartSurvey, RequestCancel, CancelBeforeRun, DeleteTerminal, ledger
<1>7. ASSUME JobWrite(s)
      PROVE  \/ Release(s) /\ UNCHANGED succeeded
             \/ Release(s) /\ succeeded' = [succeeded EXCEPT ![LedgerOf[s]] = @ + 1]
             \/ UNCHANGED ledger
  BY <1>7 DEF JobWrite, RecoverExpiredJob, JobLeaseExpires, ArchiveBecomesDue, ClaimJob,
              HeartbeatJob, FinishArchive, DeferArchive, MarkWorkspaceMissing, SettleExecution
<1>8. ASSUME DraftWrite(s) \/ RepairDegradedEvidence(s) \/ Delivery(s)
      PROVE  UNCHANGED ledger
  BY <1>8 DEF DraftWrite, ClaimDraft, HeartbeatDraft, CompleteDraft, FailDraft,
              RecoverExpiredDraft, DraftLeaseExpires, RepairDegradedEvidence, Delivery,
              ClaimNotification, CloseNotification, RetryNotification, MoveNotification
<1> QED
  BY <1>2, <1>3, <1>4, <1>5, <1>6, <1>7, <1>8
Archived(st) == st \in {"archiving", "finished"}

\* A job that has begun to archive leaves the database only through the deletion of a
\* finished survey, which lists it for cleanup.
LEMMA ArchivedStays ==
    ASSUME StoreInv, StoreNext \/ UNCHANGED tables, NEW t \in Surveys, Archived(job[t].status)
    PROVE  Archived(job'[t].status) \/ t \in cleanup'
<1>1. job \in [Surveys -> JobRow]
  BY DEF StoreInv, StoreTypeOK
<1> DEFINE Kept == Archived(job'[t].status) \/ t \in cleanup'
<1>2. ASSUME job' = job
      PROVE  Kept
  BY <1>2
<1>3. ASSUME NEW s \in Surveys, NEW r, job' = [job EXCEPT ![s] = r],
             ~Archived(job[s].status) \/ Archived(r.status)
      PROVE  Kept
  BY <1>1, <1>3
<1> HIDE DEF Kept
<1>4. ASSUME NEW s \in Surveys, NEW r, job' = [job EXCEPT ![s] = r],
             survey[s].status \in {"drafting", "queued", "running"}
      PROVE  Kept
  <2>1. job[s].outcome \in Outcomes \cup {"none"}
    BY <1>1 DEF JobRow
  <2>2. ~Archived(job[s].status)
    BY <1>4, <2>1 DEF StoreInv, RowsFit, JobFollows, Archived, Outcomes, Terminal
  <2> QED
    BY <1>3, <1>4, <2>2
<1>5. ASSUME NEW s \in Surveys, NEW r, job' = [job EXCEPT ![s] = r],
             r.status = job[s].status
      PROVE  Kept
  BY <1>3, <1>5
<1>6. ASSUME NEW s \in Surveys, Request(s)
      PROVE  Kept
  <2>1. CASE CreateSurvey(s)
    BY <1>2, <2>1 DEF CreateSurvey
  <2>2. CASE RequestGeneratedDraft(s) \/ CreateManualDraft(s)
    BY <1>2, <2>2 DEF RequestGeneratedDraft, CreateManualDraft
  <2>3. ASSUME NEW notify \in BOOLEAN, StartSurvey(s, notify)
        PROVE  Kept
    BY <1>4, <2>3 DEF StartSurvey
  <2>4. CASE RequestCancel(s)
    BY <1>4, <2>4 DEF RequestCancel
  <2>5. CASE CancelBeforeRun(s)
    BY <1>4, <2>5 DEF CancelBeforeRun
  <2>6. CASE DeleteBeforeRun(s)
    BY <1>4, <2>6, DeletionReleases DEF DeleteRows, DeleteBeforeRun
  <2>7. CASE DeleteTerminal(s)
    <3>1. /\ job' = [job EXCEPT ![s] = NoJob]
          /\ cleanup' = IF job[s].manifest # "none" THEN cleanup \cup {s} ELSE cleanup
          /\ survey[s].status \in Terminal
      BY <2>7 DEF DeleteTerminal, DeleteRows
    <3>2. job[s].status # "archiving"
      BY <3>1 DEF StoreInv, RowsFit, JobFollows, Terminal
    <3>3. job[s].status = "finished" => job[s].manifest # "none"
      BY DEF StoreInv, RowsFit, JobForm
    <3>4. CASE t = s
      BY <3>1, <3>2, <3>3, <3>4 DEF Archived, Kept
    <3>5. CASE t # s
      BY <1>1, <3>1, <3>5 DEF Kept
    <3> QED
      BY <3>4, <3>5
  <2> QED
    BY <1>6, <2>1, <2>2, <2>3, <2>4, <2>5, <2>6, <2>7 DEF Request, CancelSurvey, DeleteSurvey
<1>7. ASSUME NEW s \in Surveys, JobWrite(s)
      PROVE  Kept
  <2>1. job[s] \in JobRow
    BY <1>1
  <2>2. CASE RecoverExpiredJob(s)
    <3>1. survey[s].status = "running"
      BY <2>2 DEF RecoverExpiredJob, StoreInv, RowsFit, JobFollows
    <3> QED
      BY <1>4, <2>2, <3>1 DEF RecoverExpiredJob
  <2>3. CASE JobLeaseExpires(s) \/ ArchiveBecomesDue(s)
    <3>1. /\ [job[s] EXCEPT !.lease = "expired"].status = job[s].status
          /\ [job[s] EXCEPT !.due = TRUE].status = job[s].status
      BY <2>1 DEF JobRow
    <3> QED
      BY <1>5, <2>3, <3>1 DEF JobLeaseExpires, ArchiveBecomesDue
  <2>4. ASSUME NEW w \in Workers, ClaimJob(s, w)
        PROVE  Kept
    <3>1. CASE job[s].status = "queued"
      BY <1>3, <2>4, <3>1 DEF ClaimJob, Archived
    <3>2. CASE job[s].status # "queued"
      <4>1. [job[s] EXCEPT !.owner = w, !.lease = "live"].status = job[s].status
        BY <2>1 DEF JobRow
      <4> QED
        BY <1>5, <2>4, <3>2, <4>1 DEF ClaimJob
    <3> QED
      BY <3>1, <3>2
  <2>5. ASSUME NEW w \in Workers, HeartbeatJob(s, w)
        PROVE  Kept
    <3>1. [job[s] EXCEPT !.lease = "live"].status = job[s].status
      BY <2>1 DEF JobRow
    <3> QED
      BY <1>5, <2>5, <3>1 DEF HeartbeatJob
  <2>6. ASSUME NEW w \in Workers, FinishArchive(s, w)
        PROVE  Kept
    <3>1. [job[s] EXCEPT !.status = "finished", !.owner = NoWorker, !.lease = "none",
                         !.due = FALSE, !.manifest = "original"].status = "finished"
      BY <2>1 DEF JobRow
    <3> QED
      BY <1>3, <2>6, <3>1 DEF FinishArchive, Archived
  <2>7. ASSUME NEW w \in Workers, DeferArchive(s, w)
        PROVE  Kept
    <3>1. [job[s] EXCEPT !.owner = NoWorker, !.lease = "none", !.due = FALSE,
                         !.error = "archive_pending"].status = job[s].status
      BY <2>1 DEF JobRow
    <3> QED
      BY <1>5, <2>7, <3>1 DEF DeferArchive
  <2>8. ASSUME NEW w \in Workers, MarkWorkspaceMissing(s, w)
        PROVE  Kept
    <3>1. [job[s] EXCEPT !.outcome = "failed", !.error = "workspace_missing"].status
            = job[s].status
      BY <2>1 DEF JobRow
    <3> QED
      BY <1>5, <2>8, <3>1 DEF MarkWorkspaceMissing
  <2>9. ASSUME NEW w \in Workers, NEW outcome \in Outcomes, NEW error \in Errors,
               NEW chargeable \in BOOLEAN, SettleExecution(s, w, outcome, error, chargeable)
        PROVE  Kept
    BY <1>4, <2>9 DEF SettleExecution
  <2> QED
    BY <1>7, <2>2, <2>3, <2>4, <2>5, <2>6, <2>7, <2>8, <2>9 DEF JobWrite
<1>8. ASSUME NEW s \in Surveys, Repair(s)
      PROVE  Kept
  <2>1. job[s] \in JobRow
    BY <1>1
  <2>2. ASSUME NEW manifest, RecoverContractFailure(s, manifest)
        PROVE  Kept
    <3>1. [job[s] EXCEPT !.outcome = "succeeded", !.error = "none", !.manifest = manifest].status
            = job[s].status
      BY <2>1 DEF JobRow
    <3> QED
      BY <1>5, <2>2, <3>1 DEF RecoverContractFailure
  <2>3. CASE RepairDegradedEvidence(s)
    <3>1. [job[s] EXCEPT !.error = "none", !.manifest = "overlay"].status = job[s].status
      BY <2>1 DEF JobRow
    <3> QED
      BY <1>5, <2>3, <3>1 DEF RepairDegradedEvidence
  <2> QED
    BY <1>8, <2>2, <2>3 DEF Repair
<1>9. ASSUME NEW s \in Surveys, DraftWrite(s) \/ Delivery(s)
      PROVE  job' = job
  BY <1>9 DEF DraftWrite, ClaimDraft, HeartbeatDraft, CompleteDraft, FailDraft,
              RecoverExpiredDraft, DraftLeaseExpires, Delivery, ClaimNotification,
              CloseNotification, RetryNotification, MoveNotification
<1>10. UNCHANGED tables => job' = job
  BY DEF tables
<1>11. Kept
  BY <1>2, <1>6, <1>7, <1>8, <1>9, <1>10 DEF StoreNext
<1> QED
  BY <1>11 DEF Kept

\* A job runs because it ran before, and then no cancellation of it was forgotten and
\* nobody was taken off it, or because a worker has just claimed it from the queue.
StaysRunning(j, k) ==
    /\ j.status = "running"
    /\ j.cancel => k.cancel
    /\ k.owner = j.owner

ClaimedFromQueue(sv, k) == sv.status = "queued" /\ k.owner \in Workers

\* A cancellation is put on the job of a running survey only.
AskedWhileRunning(sv, j, k) == k.cancel => j.cancel \/ sv.status = "running"

LEMMA RunningJobs ==
    ASSUME StoreInv, StoreNext \/ UNCHANGED tables, NEW t \in Surveys
    PROVE  /\ job'[t].status = "running" => \/ StaysRunning(job[t], job'[t])
                                            \/ ClaimedFromQueue(survey[t], job'[t])
           /\ AskedWhileRunning(survey[t], job[t], job'[t])
<1>1. job \in [Surveys -> JobRow] /\ job[t] \in JobRow
  BY DEF StoreInv, StoreTypeOK
<1> DEFINE Good(u, k) == /\ k.status = "running" => \/ StaysRunning(job[u], k)
                                                    \/ ClaimedFromQueue(survey[u], k)
                         /\ AskedWhileRunning(survey[u], job[u], k)
           Goal == Good(t, job'[t])
<1> SUFFICES Goal
  OBVIOUS
<1>2. ASSUME job' = job
      PROVE  Goal
  BY <1>2 DEF StaysRunning, AskedWhileRunning
<1>3. ASSUME NEW s \in Surveys, NEW r, job' = [job EXCEPT ![s] = r],
             Good(s, r)
      PROVE  Goal
  <2>1. CASE t = s
    BY <1>1, <1>3, <2>1
  <2>2. CASE t # s
    BY <1>1, <1>3, <2>2 DEF StaysRunning, AskedWhileRunning
  <2> QED
    BY <2>1, <2>2
<1> HIDE DEF Goal
<1>4. ASSUME NEW s \in Surveys, NEW r, job' = [job EXCEPT ![s] = r],
             r.status = job[s].status, r.cancel = job[s].cancel, r.owner = job[s].owner
      PROVE  Goal
  BY <1>3, <1>4 DEF StaysRunning, AskedWhileRunning
<1>5. ASSUME NEW s \in Surveys, Request(s)
      PROVE  Goal
  <2>1. CASE CreateSurvey(s) \/ RequestGeneratedDraft(s) \/ CreateManualDraft(s)
    BY <1>2, <2>1 DEF CreateSurvey, RequestGeneratedDraft, CreateManualDraft
  <2>2. ASSUME NEW notify \in BOOLEAN, StartSurvey(s, notify)
        PROVE  Goal
    <3>1. JobIn("queued").status = "queued" /\ ~JobIn("queued").cancel
      BY DEF JobIn
    <3> QED
      BY <1>3, <2>2, <3>1 DEF StartSurvey, AskedWhileRunning
  <2>3. CASE RequestCancel(s)
    <3>1. job[s] \in JobRow
      BY <1>1
    <3>2. /\ [job[s] EXCEPT !.cancel = TRUE].cancel = TRUE
          /\ [job[s] EXCEPT !.cancel = TRUE].status = job[s].status
          /\ [job[s] EXCEPT !.cancel = TRUE].owner = job[s].owner
      BY <3>1 DEF JobRow
    <3>3. survey[s].status = "running" /\ job[s].status = "running"
      BY <2>3 DEF RequestCancel
    <3>4. Good(s, [job[s] EXCEPT !.cancel = TRUE])
      BY <3>2, <3>3 DEF StaysRunning, AskedWhileRunning
    <3> QED
      BY <1>3, <2>3, <3>4 DEF RequestCancel
  <2>4. ASSUME job' = [job EXCEPT ![s] = NoJob]
        PROVE  Goal
    <3>1. NoJob.status = "absent" /\ ~NoJob.cancel
      BY DEF NoJob, JobIn
    <3> QED
      BY <1>3, <2>4, <3>1 DEF AskedWhileRunning
  <2> QED
    BY <1>5, <2>1, <2>2, <2>3, <2>4
       DEF Request, CancelSurvey, CancelBeforeRun, DeleteSurvey, DeleteBeforeRun,
           DeleteTerminal, DeleteRows
<1>6. ASSUME NEW s \in Surveys, JobWrite(s)
      PROVE  Goal
  <2>1. job[s] \in JobRow
    BY <1>1
  <2>2. CASE RecoverExpiredJob(s)
    <3>1. PICK r : job' = [job EXCEPT ![s] = r] /\ r.status = "archiving" /\ r.cancel = job[s].cancel
      <4>1. PICK o, e : job' = [job EXCEPT ![s] = [job[s] EXCEPT !.status = "archiving",
                                   !.due = TRUE, !.outcome = o, !.error = e,
                                   !.owner = NoWorker, !.lease = "none"]]
        BY <2>2 DEF RecoverExpiredJob
      <4> DEFINE r == [job[s] EXCEPT !.status = "archiving", !.due = TRUE, !.outcome = o,
                                     !.error = e, !.owner = NoWorker, !.lease = "none"]
      <4>2. r.status = "archiving" /\ r.cancel = job[s].cancel
        BY <2>1 DEF JobRow
      <4> QED
        BY <4>1, <4>2
    <3> QED
      BY <1>3, <3>1 DEF AskedWhileRunning
  <2>3. CASE JobLeaseExpires(s) \/ ArchiveBecomesDue(s)
             \/ \E w \in Workers : HeartbeatJob(s, w) \/ MarkWorkspaceMissing(s, w)
    <3>1. PICK r \in {[job[s] EXCEPT !.lease = "expired"], [job[s] EXCEPT !.due = TRUE],
                      [job[s] EXCEPT !.lease = "live"],
                      [job[s] EXCEPT !.outcome = "failed", !.error = "workspace_missing"]} :
            job' = [job EXCEPT ![s] = r]
      BY <2>3 DEF JobLeaseExpires, ArchiveBecomesDue, HeartbeatJob, MarkWorkspaceMissing
    <3>2. r.status = job[s].status /\ r.cancel = job[s].cancel /\ r.owner = job[s].owner
      BY <2>1, <3>1 DEF JobRow
    <3> QED
      BY <1>4, <3>1, <3>2
  <2>4. ASSUME NEW w \in Workers, ClaimJob(s, w)
        PROVE  Goal
    <3>1. CASE job[s].status = "queued"
      <4> DEFINE r == [job[s] EXCEPT !.status = "running", !.owner = w, !.lease = "live"]
      <4>1. r.owner \in Workers /\ r.cancel = job[s].cancel
        BY <2>1 DEF JobRow
      <4>2. survey[s].status = "queued" /\ job' = [job EXCEPT ![s] = r]
        BY <2>4, <3>1 DEF ClaimJob, Claimable
      <4> HIDE DEF r
      <4> QED
        BY <1>3, <4>1, <4>2 DEF ClaimedFromQueue, AskedWhileRunning
    <3>2. CASE job[s].status # "queued"
      <4> DEFINE r == [job[s] EXCEPT !.owner = w, !.lease = "live"]
      <4>1. r.status = "archiving" /\ r.cancel = job[s].cancel
        BY <2>1, <2>4, <3>2 DEF JobRow, ClaimJob, Claimable
      <4>2. job' = [job EXCEPT ![s] = r]
        BY <2>4, <3>2 DEF ClaimJob
      <4> HIDE DEF r
      <4> QED
        BY <1>3, <4>1, <4>2 DEF AskedWhileRunning
    <3> QED
      BY <3>1, <3>2
  <2>5. ASSUME NEW w \in Workers, FinishArchive(s, w)
        PROVE  Goal
    <3> DEFINE r == [job[s] EXCEPT !.status = "finished", !.owner = NoWorker,
                                   !.lease = "none", !.due = FALSE, !.manifest = "original"]
    <3>1. r.status = "finished" /\ r.cancel = job[s].cancel
      BY <2>1 DEF JobRow
    <3>2. job' = [job EXCEPT ![s] = r]
      BY <2>5 DEF FinishArchive
    <3> HIDE DEF r
    <3> QED
      BY <1>3, <3>1, <3>2 DEF AskedWhileRunning
  <2>6. ASSUME NEW w \in Workers, DeferArchive(s, w)
        PROVE  Goal
    <3> DEFINE r == [job[s] EXCEPT !.owner = NoWorker, !.lease = "none", !.due = FALSE,
                                   !.error = "archive_pending"]
    <3>1. r.status = "archiving" /\ r.cancel = job[s].cancel
      BY <2>1, <2>6 DEF JobRow, DeferArchive, OwnsArchive
    <3>2. job' = [job EXCEPT ![s] = r]
      BY <2>6 DEF DeferArchive
    <3> HIDE DEF r
    <3> QED
      BY <1>3, <3>1, <3>2 DEF AskedWhileRunning
  <2>7. ASSUME NEW w \in Workers, NEW outcome \in Outcomes, NEW error \in Errors,
               NEW chargeable \in BOOLEAN, SettleExecution(s, w, outcome, error, chargeable)
        PROVE  Goal
    <3>1. PICK o, e : job' = [job EXCEPT ![s] = [job[s] EXCEPT !.status = "archiving",
                                 !.outcome = o, !.error = e, !.due = TRUE]]
      BY <2>7 DEF SettleExecution
    <3> DEFINE r == [job[s] EXCEPT !.status = "archiving", !.outcome = o, !.error = e,
                                   !.due = TRUE]
    <3>2. r.status = "archiving" /\ r.cancel = job[s].cancel
      BY <2>1 DEF JobRow
    <3>3. job' = [job EXCEPT ![s] = r]
      BY <3>1
    <3> HIDE DEF r
    <3> QED
      BY <1>3, <3>2, <3>3 DEF AskedWhileRunning
  <2> QED
    BY <1>6, <2>2, <2>3, <2>4, <2>5, <2>6, <2>7 DEF JobWrite
<1>7. ASSUME NEW s \in Surveys, Repair(s)
      PROVE  Goal
  <2>1. job[s] \in JobRow
    BY <1>1
  <2>2. ASSUME NEW manifest, RecoverContractFailure(s, manifest)
        PROVE  Goal
    <3> DEFINE r == [job[s] EXCEPT !.outcome = "succeeded", !.error = "none",
                                   !.manifest = manifest]
    <3>1. r.status = job[s].status /\ r.cancel = job[s].cancel /\ r.owner = job[s].owner
      BY <2>1 DEF JobRow
    <3>2. job' = [job EXCEPT ![s] = r]
      BY <2>2 DEF RecoverContractFailure
    <3> HIDE DEF r
    <3> QED
      BY <1>4, <3>1, <3>2
  <2>3. CASE RepairDegradedEvidence(s)
    <3> DEFINE r == [job[s] EXCEPT !.error = "none", !.manifest = "overlay"]
    <3>1. r.status = job[s].status /\ r.cancel = job[s].cancel /\ r.owner = job[s].owner
      BY <2>1 DEF JobRow
    <3>2. job' = [job EXCEPT ![s] = r]
      BY <2>3 DEF RepairDegradedEvidence
    <3> HIDE DEF r
    <3> QED
      BY <1>4, <3>1, <3>2
  <2> QED
    BY <1>7, <2>2, <2>3 DEF Repair
<1>8. ASSUME NEW s \in Surveys, DraftWrite(s) \/ Delivery(s)
      PROVE  job' = job
  BY <1>8 DEF DraftWrite, ClaimDraft, HeartbeatDraft, CompleteDraft, FailDraft,
              RecoverExpiredDraft, DraftLeaseExpires, Delivery, ClaimNotification,
              CloseNotification, RetryNotification, MoveNotification
<1>9. UNCHANGED tables => job' = job
  BY DEF tables
<1> QED
  BY <1>2, <1>5, <1>6, <1>7, <1>8, <1>9 DEF StoreNext

\* A job carries a cancellation only once its survey has run.
CancelsRan == \A s \in Surveys : job[s].cancel => survey[s].status \notin BeforeRun

LEMMA CancelsStayRan ==
    ASSUME StoreInv, CancelsRan, StoreNext \/ UNCHANGED tables
    PROVE  CancelsRan'
BY RunningJobs, NeverBackBeforeRun DEF CancelsRan, AskedWhileRunning, BeforeRun

\* A running job keeps an owner as long as only these transactions write it.
LEMMA RunningStaysOwned ==
    ASSUME StoreInv, RunningIsOwned, StoreNext \/ UNCHANGED tables
    PROVE  RunningIsOwned'
BY RunningJobs, StoreConstants
   DEF RunningIsOwned, RunningHasOwner, StaysRunning, ClaimedFromQueue

-----------------------------------------------------------------------------
(* The workers.  The inductive invariant: that of the tables, and of the   *)
(* tasks                                                                   *)
(* - that a task that is not idle has a survey, so that what it writes are *)
(*   rows of the tables;                                                   *)
(* - that the survey of a task that executes has been claimed before, so   *)
(*   that no other worker can claim it from the queue;                     *)
(* - that the surveys that the operator recovered are charged.             *)

TaskTypes ==
    /\ task \in [Workers -> Task]
    /\ draftTask \in [DraftWorkers -> DraftTask]
    /\ workspace \subseteq Hosts \X Surveys
    /\ recovered \subseteq Surveys

TaskHasSurvey ==
    \A w \in Workers : task[w].pc # "idle" \/ task[w].beat => task[w].survey \in Surveys

Executing(w) == task[w].pc \in {"start", "execute", "settle"}

ExecutedWasClaimed ==
    \A w \in Workers : Executing(w) => survey[task[w].survey].status \notin BeforeRun

RecoveredIsCharged == \A s \in recovered : survey[s].quota = "consumed"

QueueInv ==
    /\ StoreInv
    /\ RunningIsOwned
    /\ TaskTypes
    /\ TaskHasSurvey
    /\ ExecutedWasClaimed
    /\ ExecutedOnce
    /\ RecoveredIsCharged
    /\ DailyLimitHolds

\* Nothing has been claimed or recovered at the beginning.
LEMMA QueueInitInv == Init => QueueInv
<1> SUFFICES ASSUME Init
             PROVE  QueueInv
  OBVIOUS
<1>1. StoreInv /\ RunningIsOwned
  BY StoreInitInv DEF Init, StoreInit, NoJob, JobIn, RunningIsOwned, RunningHasOwner
<1>2. TaskTypes
  BY DEF Init, TaskTypes, IdleTask, Task, IdleDraftTask, DraftTask, Results
<1>3. TaskHasSurvey /\ ExecutedWasClaimed /\ ExecutedOnce
  BY DEF Init, IdleTask, TaskHasSurvey, ExecutedWasClaimed, ExecutedOnce, Executing
<1>4. RecoveredIsCharged
  BY DEF Init, RecoveredIsCharged
<1>5. DailyLimitHolds
  <2> SUFFICES ASSUME NEW l \in Ledgers
               PROVE  reserved[l] + succeeded[l] <=
                          DailyLimit + Cardinality({s \in recovered : LedgerOf[s] = l})
    BY DEF DailyLimitHolds
  <2>1. {s \in recovered : LedgerOf[s] = l} = {}
    BY DEF Init
  <2>2. reserved[l] = 0 /\ succeeded[l] = 0
    BY DEF Init, StoreInit
  <2> QED
    BY <2>1, <2>2, FS_EmptySet, StoreConstants
<1> QED
  BY <1>1, <1>2, <1>3, <1>4, <1>5 DEF QueueInv

-----------------------------------------------------------------------------
(* What the actors do to the tables.                                       *)

\* What an execution reports is of the types that the settlement takes.
LEMMA ReportTypes ==
    ASSUME NEW r
    PROVE  OutcomeOf(r) \in Outcomes /\ ErrorOf(r) \in Errors /\ ChargeableResult(r) \in BOOLEAN
BY DEF OutcomeOf, ErrorOf, ChargeableResult, Outcomes, Terminal, Errors

\* A step of a job worker is a transaction on its survey, or leaves the tables alone.
LEMMA WorkerWrites ==
    ASSUME TaskHasSurvey, NEW w \in Workers, WorkerBeats(w) \/ WorkerProceeds(w) \/ WorkerFails(w)
    PROVE  /\ UNCHANGED tables \/ \E s \in Surveys : JobWrite(s)
           /\ UNCHANGED <<draftTask, recovered>>
<1> DEFINE s == task[w].survey
           Done == /\ UNCHANGED tables \/ \E t \in Surveys : JobWrite(t)
                   /\ UNCHANGED <<draftTask, recovered>>
<1>1. task[w].pc # "idle" \/ task[w].beat => s \in Surveys
  BY DEF TaskHasSurvey
<1>2. CASE WorkerBeats(w)
  BY <1>1, <1>2 DEF WorkerBeats, JobWrite
<1>3. CASE WorkerStarts(w) \/ WorkerExecutes(w) \/ WorkerFindsArchiveLost(w)
             \/ WorkerSweepsWorkspace(w) \/ WorkerGivesUpLease(w) \/ TaskEscapes(w)
  BY <1>3 DEF WorkerStarts, WorkerExecutes, WorkerFindsArchiveLost, WorkerSweepsWorkspace,
              WorkerGivesUpLease, TaskEscapes
<1>4. CASE WorkerSettles(w)
  <2>1. s \in Surveys
    BY <1>1, <1>4 DEF WorkerSettles
  <2> DEFINE r == task[w].result
  <2>2. /\ \/ SettleExecution(s, w, OutcomeOf(r), ErrorOf(r), ChargeableResult(r))
           \/ UNCHANGED tables
        /\ UNCHANGED <<draftTask, recovered>>
    BY <1>4 DEF WorkerSettles
  <2>3. OutcomeOf(r) \in Outcomes /\ ErrorOf(r) \in Errors /\ ChargeableResult(r) \in BOOLEAN
    BY ReportTypes
  <2> HIDE DEF r
  <2> QED
    BY <2>1, <2>2, <2>3 DEF JobWrite
<1>5. CASE WorkerOpensArchive(w)
  BY <1>1, <1>5 DEF WorkerOpensArchive, JobWrite
<1>6. CASE WorkerFinishesArchive(w) \/ WorkerDefersArchive(w)
  BY <1>1, <1>6 DEF WorkerFinishesArchive, WorkerDefersArchive, JobWrite
<1> QED
  BY <1>2, <1>3, <1>4, <1>5, <1>6 DEF WorkerProceeds, WorkerFails

\* So is a step of a draft worker: its task holds a survey while it runs.
LEMMA DraftWorkerWrites ==
    ASSUME QueueInv, NEW w \in DraftWorkers, DraftWorkerBeats(w) \/ DraftWorkerReturns(w)
    PROVE  /\ UNCHANGED tables \/ \E s \in Surveys : DraftWrite(s)
           /\ UNCHANGED <<task, workspace, recovered>>
<1>1. draftTask[w].survey # NoSurveyId => draftTask[w].survey \in Surveys
  BY DEF QueueInv, TaskTypes, DraftTask
<1> QED
  BY <1>1 DEF DraftWorkerBeats, DraftWorkerReturns, DraftWrite

\* Every step is a transaction of the store or leaves the tables alone, and a survey
\* becomes recovered only by the operator's transaction.
LEMMA QueueWrites ==
    ASSUME QueueInv, [Next]_queueVars
    PROVE  \/ UNCHANGED tables /\ UNCHANGED recovered
           \/ \E s \in Surveys :
                 /\ Request(s) \/ DraftWrite(s) \/ JobWrite(s) \/ RepairDegradedEvidence(s)
                      \/ Delivery(s)
                 /\ UNCHANGED recovered
           \/ \E s \in Surveys :
                 /\ \E manifest \in {"original", "overlay"} : RecoverContractFailure(s, manifest)
                 /\ recovered' = recovered \cup {s}
<1>1. ASSUME NEW s \in Surveys, UserStep(s)
      PROVE  Request(s) /\ UNCHANGED recovered
  BY <1>1, QueueConstants DEF UserStep, Request
<1>2. ASSUME NEW s \in Surveys, SweepStep(s)
      PROVE  (DraftWrite(s) \/ JobWrite(s)) /\ UNCHANGED recovered
  BY <1>2 DEF SweepStep, DraftWrite, JobWrite
<1>3. ASSUME NEW s \in Surveys, ClockStep(s)
      PROVE  (DraftWrite(s) \/ JobWrite(s)) /\ UNCHANGED recovered
  BY <1>3 DEF ClockStep, DraftWrite, JobWrite
<1>4. ASSUME NEW s \in Surveys, EmailStep(s)
      PROVE  Delivery(s) /\ UNCHANGED recovered
  BY <1>4 DEF EmailStep, Delivery
<1>5. ASSUME NEW s \in Surveys, NEW w \in DraftWorkers, DraftWorkerClaims(w, s)
      PROVE  DraftWrite(s) /\ UNCHANGED recovered
  BY <1>5 DEF DraftWorkerClaims, DraftWrite
<1>6. ASSUME NEW s \in Surveys, NEW w \in Workers, WorkerClaims(w, s)
      PROVE  JobWrite(s) /\ UNCHANGED recovered
  BY <1>6 DEF WorkerClaims, JobWrite
<1>7. ASSUME NEW h \in Hosts, HostStops(h)
      PROVE  UNCHANGED tables /\ UNCHANGED recovered
  BY <1>7 DEF HostStops
<1>8. CASE UNCHANGED queueVars
  BY <1>8 DEF queueVars
<1> QED
  BY <1>1, <1>2, <1>3, <1>4, <1>5, <1>6, <1>7, <1>8, WorkerWrites, DraftWorkerWrites
     DEF QueueInv, Next, OperatorStep

\* The tables keep their invariant.
LEMMA QueueStoreStep ==
    ASSUME QueueInv, [Next]_queueVars
    PROVE  (StoreNext \/ UNCHANGED tables) /\ StoreInv' /\ RunningIsOwned'
<1>1. StoreNext \/ UNCHANGED tables
  BY QueueWrites DEF StoreNext, Repair
<1> QED
  BY <1>1, StoreStepInv, RunningStaysOwned DEF QueueInv

-----------------------------------------------------------------------------
(* The tasks.                                                              *)

\* The stages of a task, one after the other.
Stages == {<<"start", "execute">>, <<"execute", "settle">>, <<"settle", "archive">>,
           <<"archive", "upload">>, <<"upload", "sweep">>}

\* A task was told to stop, or is about to report that it was stopped.
Stopping(t) == t.stop \/ (t.pc = "settle" /\ OutcomeOf(t.result) = "cancelled")

\* ... and this is why it was: while the survey runs, its cancellation is on its job.
AskedFor(s) ==
    /\ survey[s].status \notin BeforeRun
    /\ job[s].status = "running" => job[s].cancel

\* The task of worker w becomes t: it ends, or it goes on with its survey, in the same
\* stage or the next one, and is stopped only for a cancellation.
GoesOn(w, t) ==
    /\ task' = [task EXCEPT ![w] = t]
    /\ \/ t = IdleTask
       \/ /\ task[w] # IdleTask
          /\ task[w].survey \in Surveys
          /\ t.survey = task[w].survey
          /\ t.pc = task[w].pc \/ <<task[w].pc, t.pc>> \in Stages
          /\ Stopping(t) => Stopping(task[w]) \/ AskedFor(t.survey)

\* So does every step of a worker that has claimed, if it moves its task at all.
LEMMA WorkerMoves ==
    ASSUME StoreInv, task \in [Workers -> Task], TaskHasSurvey,
           NEW w \in Workers, WorkerBeats(w) \/ WorkerProceeds(w) \/ WorkerFails(w)
    PROVE  task' = task \/ \E t \in Task : GoesOn(w, t)
<1> DEFINE Goal == task' = task \/ \E t \in Task : GoesOn(w, t)
<1> SUFFICES Goal
  OBVIOUS
<1>1. /\ task[w] \in Task
      /\ task[w].pc # "idle" \/ task[w].beat => task[w].survey \in Surveys /\ task[w] # IdleTask
  BY DEF TaskHasSurvey, IdleTask
<1>2. ASSUME Ends(w)
      PROVE  Goal
  <2>1. IdleTask \in Task
    BY DEF IdleTask, Task
  <2> QED
    BY <1>2, <2>1 DEF Ends, SetTask, GoesOn
<1>3. ASSUME NEW t, SetTask(w, t), t \in Task, t.survey = task[w].survey,
             task[w].pc # "idle" \/ task[w].beat,
             t.pc = task[w].pc \/ <<task[w].pc, t.pc>> \in Stages,
             Stopping(t) => Stopping(task[w]) \/ AskedFor(t.survey)
      PROVE  Goal
  BY <1>1, <1>3 DEF SetTask, GoesOn
<1> HIDE DEF Goal
<1>4. ASSUME task[w].beat, SetTask(w, [task[w] EXCEPT !.beat = FALSE, !.lost = TRUE])
      PROVE  Goal
  <2> DEFINE t == [task[w] EXCEPT !.beat = FALSE, !.lost = TRUE]
  <2>1. /\ t \in Task /\ t.pc = task[w].pc /\ t.survey = task[w].survey
        /\ t.stop = task[w].stop /\ t.result = task[w].result
    BY <1>1 DEF Task
  <2>2. SetTask(w, t)
    BY <1>4
  <2> HIDE DEF t
  <2> QED
    BY <1>3, <1>4, <2>1, <2>2 DEF Stopping
<1>5. CASE WorkerBeats(w)
  <2> DEFINE s == task[w].survey
             t == [task[w] EXCEPT !.beat = FALSE, !.stop = TRUE]
  <2>1. CASE UNCHANGED task
    BY <2>1 DEF Goal
  <2>2. CASE SetTask(w, t) /\ HeartbeatJob(s, w) /\ job[s].cancel
    <3>1. t \in Task /\ t.pc = task[w].pc /\ t.survey = s
      BY <1>1 DEF Task
    <3>2. s \in Surveys /\ task[w].beat
      BY <1>1, <1>5 DEF WorkerBeats
    <3>3. survey[s].status \notin BeforeRun
      <4>1. job[s].status \in {"running", "archiving"} /\ JobFollows(survey[s].status, job[s])
        BY <2>2, <3>2 DEF HeartbeatJob, OwnsJob, StoreInv, RowsFit
      <4> QED
        BY <4>1 DEF JobFollows, BeforeRun
    <3>4. AskedFor(s)
      BY <2>2, <3>3 DEF AskedFor
    <3> HIDE DEF t
    <3> QED
      BY <1>3, <2>2, <3>1, <3>2, <3>4
  <2>3. CASE SetTask(w, [task[w] EXCEPT !.beat = FALSE, !.lost = TRUE])
    BY <1>4, <1>5, <2>3 DEF WorkerBeats
  <2> QED
    BY <1>5, <2>1, <2>2, <2>3 DEF WorkerBeats
<1>6. CASE WorkerGivesUpLease(w)
  BY <1>4, <1>6 DEF WorkerGivesUpLease
<1>7. ASSUME NEW pc, SetTask(w, [task[w] EXCEPT !.pc = pc]),
             pc # "settle", <<task[w].pc, pc>> \in Stages
      PROVE  Goal
  <2> DEFINE t == [task[w] EXCEPT !.pc = pc]
  <2>1. task[w].pc # "idle" /\ pc \in {"execute", "archive", "upload", "sweep"}
    BY <1>7 DEF Stages
  <2>2. t \in Task /\ t.pc = pc /\ t.survey = task[w].survey /\ t.stop = task[w].stop
    BY <1>1, <2>1 DEF Task
  <2>3. SetTask(w, t)
    BY <1>7
  <2> HIDE DEF t
  <2> QED
    BY <1>3, <1>7, <2>1, <2>2, <2>3 DEF Stopping
<1>8. CASE WorkerStarts(w)
  BY <1>7, <1>8 DEF WorkerStarts, Stages
<1>9. CASE WorkerExecutes(w)
  <2>1. ASSUME NEW r \in Reports, r = "cancelled" => task[w].stop,
               SetTask(w, [task[w] EXCEPT !.pc = "settle", !.result = r])
        PROVE  Goal
    <3> DEFINE t == [task[w] EXCEPT !.pc = "settle", !.result = r]
    <3>1. r \in Results
      BY QueueConstants
    <3>2. /\ t \in Task /\ t.pc = "settle" /\ t.survey = task[w].survey
          /\ t.stop = task[w].stop /\ t.result = r
      BY <1>1, <3>1 DEF Task
    <3>3. OutcomeOf(r) = "cancelled" => r = "cancelled"
      BY <3>1 DEF OutcomeOf, Results
    <3>4. SetTask(w, t) /\ task[w].pc = "execute"
      BY <1>9, <2>1 DEF WorkerExecutes
    <3>5. <<"execute", "settle">> \in Stages
      BY DEF Stages
    <3> HIDE DEF t
    <3>6. Stopping(t) => Stopping(task[w])
      BY <2>1, <3>2, <3>3 DEF Stopping
    <3> QED
      BY <1>3, <3>2, <3>4, <3>5, <3>6
  <2> QED
    BY <1>2, <1>9, <2>1 DEF WorkerExecutes
<1>10. CASE WorkerSettles(w)
  <2>1. ASSUME SetTask(w, [task[w] EXCEPT !.pc = "archive", !.result = "none"])
        PROVE  Goal
    <3> DEFINE t == [task[w] EXCEPT !.pc = "archive", !.result = "none"]
    <3>1. /\ t \in Task /\ t.pc = "archive" /\ t.survey = task[w].survey
          /\ t.stop = task[w].stop
      BY <1>1 DEF Task
    <3>2. SetTask(w, t) /\ task[w].pc = "settle"
      BY <1>10, <2>1 DEF WorkerSettles
    <3>3. <<"settle", "archive">> \in Stages
      BY DEF Stages
    <3> HIDE DEF t
    <3>4. Stopping(t) => Stopping(task[w])
      BY <3>1 DEF Stopping
    <3> QED
      BY <1>3, <3>1, <3>2, <3>3, <3>4
  <2> QED
    BY <1>2, <1>10, <2>1 DEF WorkerSettles
<1>11. CASE WorkerOpensArchive(w)
  BY <1>2, <1>7, <1>11 DEF WorkerOpensArchive, Stages
<1>12. CASE WorkerFinishesArchive(w)
  BY <1>7, <1>12 DEF WorkerFinishesArchive, Stages
<1>13. CASE WorkerDefersArchive(w) \/ WorkerFindsArchiveLost(w) \/ WorkerSweepsWorkspace(w)
              \/ TaskEscapes(w)
  BY <1>2, <1>13 DEF WorkerDefersArchive, WorkerFindsArchiveLost, WorkerSweepsWorkspace,
                     TaskEscapes
<1> QED
  BY <1>5, <1>6, <1>8, <1>9, <1>10, <1>11, <1>12, <1>13 DEF WorkerProceeds, WorkerFails

\* What a step does to the tasks of the workers: one worker claims, one goes on or ends,
\* those of one host end, or nothing happens to them.
LEMMA TaskMoves ==
    ASSUME QueueInv, [Next]_queueVars
    PROVE  \/ task' = task
           \/ \E w \in Workers, s \in Surveys :
                 /\ task[w].pc = "idle"
                 /\ ClaimJob(s, w)
                 /\ task' = [task EXCEPT ![w] = NewTask(s, IF job[s].status = "queued"
                                                           THEN "start" ELSE "archive")]
           \/ \E w \in Workers, t \in Task : GoesOn(w, t)
           \/ \E h \in Hosts :
                 task' = [w \in Workers |-> IF HostOf[w] = h THEN IdleTask ELSE task[w]]
<1>1. ASSUME NEW w \in Workers, NEW s \in Surveys, WorkerClaims(w, s)
      PROVE  /\ task[w].pc = "idle"
             /\ ClaimJob(s, w)
             /\ task' = [task EXCEPT ![w] = NewTask(s, IF job[s].status = "queued"
                                                       THEN "start" ELSE "archive")]
  BY <1>1 DEF WorkerClaims, SetTask
<1>2. ASSUME NEW h \in Hosts, HostStops(h)
      PROVE  task' = [w \in Workers |-> IF HostOf[w] = h THEN IdleTask ELSE task[w]]
  BY <1>2 DEF HostStops
<1>3. ASSUME NEW s \in Surveys,
             UserStep(s) \/ SweepStep(s) \/ ClockStep(s) \/ EmailStep(s) \/ OperatorStep(s)
      PROVE  task' = task
  BY <1>3 DEF UserStep, SweepStep, ClockStep, EmailStep, OperatorStep
<1>4. ASSUME NEW w \in DraftWorkers,
              \/ \E s \in Surveys : DraftWorkerClaims(w, s)
              \/ DraftWorkerBeats(w) \/ DraftWorkerReturns(w)
       PROVE  task' = task
  BY <1>4, DraftWorkerWrites DEF DraftWorkerClaims
<1>5. CASE UNCHANGED queueVars
  BY <1>5 DEF queueVars
<1>6. CASE \E w \in Workers : WorkerBeats(w) \/ WorkerProceeds(w) \/ WorkerFails(w)
  BY <1>6, WorkerMoves DEF QueueInv, TaskTypes
<1> QED
  BY <1>1, <1>2, <1>3, <1>4, <1>5, <1>6 DEF Next

\* Every task stays of its type, and has a survey unless it is idle.
LEMMA TaskStep ==
    ASSUME QueueInv, [Next]_queueVars
    PROVE  task' \in [Workers -> Task] /\ TaskHasSurvey'
<1>1. task \in [Workers -> Task] /\ TaskHasSurvey
  BY DEF QueueInv, TaskTypes
<1>2. CASE task' = task
  BY <1>1, <1>2 DEF TaskHasSurvey
<1>3. ASSUME NEW w \in Workers, NEW t \in Task, task' = [task EXCEPT ![w] = t],
             t.pc # "idle" \/ t.beat => t.survey \in Surveys
      PROVE  task' \in [Workers -> Task] /\ TaskHasSurvey'
  BY <1>1, <1>3 DEF TaskHasSurvey
<1>4. ASSUME NEW w \in Workers, NEW s \in Surveys, NEW pc \in {"start", "archive"},
             task' = [task EXCEPT ![w] = NewTask(s, pc)]
      PROVE  task' \in [Workers -> Task] /\ TaskHasSurvey'
  <2>1. NewTask(s, pc) \in Task /\ NewTask(s, pc).survey = s
    BY DEF NewTask, IdleTask, Task
  <2> QED
    BY <1>3, <1>4, <2>1
<1>5. ASSUME NEW h \in Hosts,
             task' = [w \in Workers |-> IF HostOf[w] = h THEN IdleTask ELSE task[w]]
      PROVE  task' \in [Workers -> Task] /\ TaskHasSurvey'
  <2>1. IdleTask \in Task /\ IdleTask.pc = "idle" /\ ~IdleTask.beat
    BY DEF IdleTask, Task
  <2>2. \A w \in Workers : task'[w] = IdleTask \/ task'[w] = task[w]
    BY <1>5
  <2>3. task' \in [Workers -> Task]
    BY <1>1, <1>5, <2>1
  <2> QED
    BY <1>1, <2>1, <2>2, <2>3 DEF TaskHasSurvey
<1>6. ASSUME NEW w \in Workers, NEW t \in Task, GoesOn(w, t)
      PROVE  t.pc # "idle" \/ t.beat => t.survey \in Surveys
  BY <1>6 DEF GoesOn, IdleTask
<1> QED
  BY <1>2, <1>3, <1>4, <1>5, <1>6, TaskMoves DEF GoesOn

\* The tasks of draft workers, the run directories and the history stay of their types.
LEMMA OtherTypesStep ==
    ASSUME QueueInv, [Next]_queueVars
    PROVE  /\ draftTask' \in [DraftWorkers -> DraftTask]
           /\ workspace' \subseteq Hosts \X Surveys
           /\ recovered' \subseteq Surveys
<1>1. TaskTypes /\ TaskHasSurvey
  BY DEF QueueInv
<1>2. recovered' \subseteq Surveys
  BY <1>1, QueueWrites DEF TaskTypes
<1>3. draftTask' \in [DraftWorkers -> DraftTask]
  <2>1. ASSUME NEW w \in DraftWorkers, NEW s \in Surveys, DraftWorkerClaims(w, s)
        PROVE  draftTask' \in [DraftWorkers -> DraftTask]
    <3>1. [draftTask[w] EXCEPT !.survey = s] \in DraftTask
      BY <1>1 DEF TaskTypes, DraftTask
    <3> QED
      BY <1>1, <2>1, <3>1 DEF DraftWorkerClaims, TaskTypes
  <2>2. ASSUME NEW w \in DraftWorkers, DraftWorkerBeats(w) \/ DraftWorkerReturns(w)
        PROVE  draftTask' \in [DraftWorkers -> DraftTask]
    <3>1. [draftTask[w] EXCEPT !.lost = TRUE] \in DraftTask /\ IdleDraftTask \in DraftTask
      BY <1>1 DEF TaskTypes, DraftTask, IdleDraftTask
    <3>2. \/ draftTask' = draftTask
          \/ draftTask' = [draftTask EXCEPT ![w] = [draftTask[w] EXCEPT !.lost = TRUE]]
          \/ draftTask' = [draftTask EXCEPT ![w] = IdleDraftTask]
      BY <2>2 DEF DraftWorkerBeats, DraftWorkerReturns
    <3> QED
      BY <1>1, <3>1, <3>2 DEF TaskTypes
  <2>3. ASSUME NEW s \in Surveys,
               UserStep(s) \/ SweepStep(s) \/ ClockStep(s) \/ EmailStep(s) \/ OperatorStep(s)
        PROVE  draftTask' = draftTask
    BY <2>3 DEF UserStep, SweepStep, ClockStep, EmailStep, OperatorStep
  <2>4. ASSUME NEW w \in Workers,
               \/ \E s \in Surveys : WorkerClaims(w, s)
               \/ WorkerBeats(w) \/ WorkerProceeds(w) \/ WorkerFails(w)
        PROVE  draftTask' = draftTask
    BY <1>1, <2>4, WorkerWrites DEF WorkerClaims
  <2>5. ASSUME NEW h \in Hosts, HostStops(h)
        PROVE  draftTask' = draftTask
    BY <2>5 DEF HostStops
  <2>6. ASSUME UNCHANGED queueVars
        PROVE  draftTask' = draftTask
    BY <2>6 DEF queueVars
  <2>7. draftTask' = draftTask => draftTask' \in [DraftWorkers -> DraftTask]
    BY <1>1 DEF TaskTypes
  <2> QED
    BY <2>1, <2>2, <2>3, <2>4, <2>5, <2>6, <2>7 DEF Next
<1>4. workspace' \subseteq Hosts \X Surveys
  <2>1. ASSUME NEW w \in Workers, task[w].pc # "idle"
        PROVE  <<HostOf[w], task[w].survey>> \in Hosts \X Surveys
    BY <1>1, <2>1, QueueConstants DEF TaskHasSurvey
  <2>2. ASSUME NEW w \in Workers, WorkerProceeds(w)
        PROVE  workspace' \subseteq Hosts \X Surveys
    <3>1. CASE WorkerStarts(w) \/ WorkerOpensArchive(w)
      BY <1>1, <2>1, <3>1 DEF WorkerStarts, WorkerOpensArchive, TaskTypes
    <3>2. CASE WorkerExecutes(w) \/ WorkerSettles(w) \/ WorkerFinishesArchive(w)
                 \/ WorkerFindsArchiveLost(w) \/ WorkerSweepsWorkspace(w)
      BY <1>1, <3>2 DEF WorkerExecutes, WorkerSettles, WorkerFinishesArchive,
                        WorkerFindsArchiveLost, WorkerSweepsWorkspace, TaskTypes
    <3> QED
      BY <2>2, <3>1, <3>2 DEF WorkerProceeds
  <2>3. ASSUME NEW w \in Workers,
               \/ \E s \in Surveys : WorkerClaims(w, s)
               \/ WorkerBeats(w) \/ WorkerFails(w)
        PROVE  workspace' = workspace
    BY <2>3 DEF WorkerClaims, WorkerBeats, WorkerFails, WorkerGivesUpLease,
                WorkerDefersArchive, TaskEscapes
  <2>4. ASSUME NEW s \in Surveys,
               UserStep(s) \/ SweepStep(s) \/ ClockStep(s) \/ EmailStep(s) \/ OperatorStep(s)
        PROVE  workspace' = workspace
    BY <2>4 DEF UserStep, SweepStep, ClockStep, EmailStep, OperatorStep
  <2>5. ASSUME NEW w \in DraftWorkers,
               \/ \E s \in Surveys : DraftWorkerClaims(w, s)
               \/ DraftWorkerBeats(w) \/ DraftWorkerReturns(w)
        PROVE  workspace' = workspace
    BY <2>5, DraftWorkerWrites DEF DraftWorkerClaims
  <2>6. ASSUME NEW h \in Hosts, HostStops(h)
        PROVE  workspace' \subseteq workspace
    BY <2>6 DEF HostStops
  <2>7. ASSUME UNCHANGED queueVars
        PROVE  workspace' = workspace
    BY <2>7 DEF queueVars
  <2>8. workspace' \subseteq workspace => workspace' \subseteq Hosts \X Surveys
    BY <1>1 DEF TaskTypes
  <2> QED
    BY <2>2, <2>3, <2>4, <2>5, <2>6, <2>7, <2>8 DEF Next
<1> QED
  BY <1>2, <1>3, <1>4

-----------------------------------------------------------------------------
(* One execution per survey, and the daily limit.                          *)

\* A claim that leads to an execution takes a survey that waits, and makes it run.
LEMMA ClaimTakesWaiting ==
    ASSUME QueueInv, NEW w \in Workers, NEW s \in Surveys, ClaimJob(s, w),
           job[s].status = "queued"
    PROVE  survey[s].status \in BeforeRun /\ survey'[s].status \notin BeforeRun
<1>1. survey \in [Surveys -> SurveyRow]
  BY DEF QueueInv, StoreInv, StoreTypeOK
<1>2. survey[s].status = "queued"
  BY DEF ClaimJob, Claimable
<1>3. survey' = [survey EXCEPT ![s] = [survey[s] EXCEPT !.status = "running"]]
  BY DEF ClaimJob
<1>4. [survey[s] EXCEPT !.status = "running"].status = "running"
  BY <1>1 DEF SurveyRow
<1> QED
  BY <1>1, <1>2, <1>3, <1>4 DEF BeforeRun

\* Surveys in execution stay claimed, and a new claim never takes one of them.
LEMMA ExecutionStep ==
    ASSUME QueueInv, [Next]_queueVars
    PROVE  ExecutedWasClaimed' /\ ExecutedOnce'
<1>1. /\ task \in [Workers -> Task] /\ TaskHasSurvey /\ ExecutedWasClaimed
      /\ \A v, w \in Workers :
            Executing(v) /\ Executing(w) /\ task[v].survey = task[w].survey => v = w
  BY DEF QueueInv, TaskTypes, ExecutedOnce, Executing
<1>2. \A s \in Surveys : survey[s].status \notin BeforeRun => survey'[s].status \notin BeforeRun
  BY QueueStoreStep, NeverBackBeforeRun DEF QueueInv
<1>3. \A w \in Workers : Executing(w) => task[w].survey \in Surveys
  BY <1>1 DEF Executing, TaskHasSurvey
<1> DEFINE Fine == ExecutedWasClaimed' /\ ExecutedOnce'
           Runs(w) == task'[w].pc \in {"start", "execute", "settle"}
           Kept(w) == Runs(w) => Executing(w) /\ task'[w].survey = task[w].survey
<1>4. ASSUME \A w \in Workers : Kept(w)
      PROVE  Fine
  BY <1>1, <1>2, <1>3, <1>4 DEF ExecutedWasClaimed, ExecutedOnce, Executing
<1>5. ASSUME task' = task
      PROVE  Fine
  BY <1>4, <1>5 DEF Executing
<1>6. ASSUME NEW w \in Workers, NEW t \in Task, task' = [task EXCEPT ![w] = t],
             t.pc \in {"start", "execute", "settle"} =>
                 Executing(w) /\ t.survey = task[w].survey
      PROVE  Fine
  <2>1. \A v \in Workers : Kept(v)
    BY <1>1, <1>6 DEF Executing
  <2> QED
    BY <1>4, <2>1
<1>7. ASSUME NEW h \in Hosts,
             task' = [w \in Workers |-> IF HostOf[w] = h THEN IdleTask ELSE task[w]]
      PROVE  Fine
  <2>1. \A v \in Workers : Kept(v)
    BY <1>7 DEF Executing, IdleTask
  <2> QED
    BY <1>4, <2>1
<1>8. ASSUME NEW w \in Workers, NEW s \in Surveys, job[s].status # "queued",
             task' = [task EXCEPT ![w] = NewTask(s, "archive")]
      PROVE  Fine
  <2>1. NewTask(s, "archive").pc = "archive"
    BY DEF NewTask, IdleTask
  <2>2. \A v \in Workers : Kept(v)
    BY <1>1, <1>8, <2>1 DEF Executing
  <2> QED
    BY <1>4, <2>2
<1>9. ASSUME NEW w \in Workers, NEW s \in Surveys, ClaimJob(s, w), job[s].status = "queued",
             task' = [task EXCEPT ![w] = NewTask(s, "start")]
      PROVE  Fine
  <2>1. NewTask(s, "start").pc = "start" /\ NewTask(s, "start").survey = s
    BY DEF NewTask, IdleTask
  <2>2. survey[s].status \in BeforeRun /\ survey'[s].status \notin BeforeRun
    BY <1>9, ClaimTakesWaiting
  <2>3. \A v \in Workers : Executing(v) => task[v].survey # s
    BY <1>1, <2>2 DEF ExecutedWasClaimed
  <2>4. \A v \in Workers \ {w} : task'[v] = task[v]
    BY <1>1, <1>9
  <2>5. task'[w].survey = s
    BY <1>1, <1>9, <2>1
  <2>6. ExecutedWasClaimed'
    BY <1>1, <1>2, <1>3, <2>2, <2>4, <2>5 DEF ExecutedWasClaimed, Executing
  <2>7. ExecutedOnce'
    BY <1>1, <2>3, <2>4, <2>5 DEF ExecutedOnce, Executing
  <2> QED
    BY <2>6, <2>7
<1> HIDE DEF Fine
<1>10. ASSUME NEW w \in Workers, NEW s \in Surveys, ClaimJob(s, w),
              task' = [task EXCEPT ![w] = NewTask(s, IF job[s].status = "queued"
                                                     THEN "start" ELSE "archive")]
       PROVE  Fine
  <2>1. CASE job[s].status = "queued"
    BY <1>9, <1>10, <2>1
  <2>2. CASE job[s].status # "queued"
    BY <1>8, <1>10, <2>2
  <2> QED
    BY <2>1, <2>2
<1>11. ASSUME NEW w \in Workers, NEW t \in Task, GoesOn(w, t)
       PROVE  Fine
  <2>1. t.pc \in {"start", "execute", "settle"} => Executing(w) /\ t.survey = task[w].survey
    BY <1>11 DEF GoesOn, Stages, Executing, IdleTask
  <2> QED
    BY <1>6, <1>11, <2>1 DEF GoesOn
<1>12. Fine
  BY <1>5, <1>7, <1>10, <1>11, TaskMoves
<1> QED
  BY <1>12 DEF Fine

\* Only the operator lifts a user above the limit, and each time by a recovered survey.
LEMMA AllowanceQueueStep ==
    ASSUME QueueInv, [Next]_queueVars
    PROVE  RecoveredIsCharged' /\ DailyLimitHolds'
<1>1. /\ StoreInv /\ RecoveredIsCharged /\ DailyLimitHolds /\ recovered \subseteq Surveys
      /\ reserved \in [Ledgers -> Nat] /\ succeeded \in [Ledgers -> Nat]
      /\ survey \in [Surveys -> SurveyRow]
  BY DEF QueueInv, StoreInv, StoreTypeOK, TaskTypes
<1>2. \A s \in Surveys : survey[s].quota = "consumed" => survey'[s].quota = "consumed"
  BY <1>1, QueueStoreStep, ChargeStands
<1>3. CASE UNCHANGED recovered
  <2>1. RecoveredIsCharged'
    BY <1>1, <1>2, <1>3 DEF RecoveredIsCharged
  <2>2. ASSUME NEW l \in Ledgers
        PROVE  \/ reserved'[l] + succeeded'[l] <= reserved[l] + succeeded[l]
               \/ reserved'[l] + succeeded'[l] <= DailyLimit
    <3>1. CASE UNCHANGED tables
      BY <1>1, <3>1 DEF tables
    <3>2. ASSUME NEW s \in Surveys,
                 \/ Request(s) \/ DraftWrite(s) \/ JobWrite(s) \/ RepairDegradedEvidence(s)
                 \/ Delivery(s)
          PROVE  \/ reserved'[l] + succeeded'[l] <= reserved[l] + succeeded[l]
                 \/ reserved'[l] + succeeded'[l] <= DailyLimit
      BY <1>1, <3>2, AllowanceStep
    <3>3. ASSUME NEW s \in Surveys, NEW manifest, RecoverContractFailure(s, manifest),
                 recovered' = recovered \cup {s}
          PROVE  FALSE
      BY <1>1, <1>3, <3>3 DEF RecoveredIsCharged, RecoverContractFailure
    <3> QED
      BY <3>1, <3>2, <3>3, QueueWrites
  <2>3. ASSUME NEW l \in Ledgers
        PROVE  reserved'[l] + succeeded'[l] <=
                   DailyLimit + Cardinality({s \in recovered : LedgerOf[s] = l})
    <3> DEFINE lifted == Cardinality({s \in recovered : LedgerOf[s] = l})
    <3>1. lifted \in Nat /\ DailyLimit \in Nat
      BY <1>1, StoreConstants, FS_Subset, FS_CardinalityType
    <3>2. reserved[l] + succeeded[l] <= DailyLimit + lifted
      BY <1>1 DEF DailyLimitHolds
    <3>3. reserved[l] \in Nat /\ succeeded[l] \in Nat
      BY <1>1
    <3>4. reserved'[l] \in Nat /\ succeeded'[l] \in Nat
      BY QueueStoreStep DEF StoreInv, StoreTypeOK
    <3> HIDE DEF lifted
    <3>5. reserved'[l] + succeeded'[l] <= DailyLimit + lifted
      BY <2>2, <3>1, <3>2, <3>3, <3>4
    <3> QED
      BY <3>5 DEF lifted
  <2> QED
    BY <1>3, <2>1, <2>3 DEF DailyLimitHolds
<1>4. ASSUME NEW s \in Surveys, NEW manifest, RecoverContractFailure(s, manifest),
             recovered' = recovered \cup {s}
      PROVE  RecoveredIsCharged' /\ DailyLimitHolds'
  <2>1. /\ survey[s].quota = "released"
        /\ reserved' = reserved
        /\ succeeded' = [succeeded EXCEPT ![LedgerOf[s]] = @ + 1]
        /\ survey' = [survey EXCEPT ![s] = [survey[s] EXCEPT !.status = "succeeded",
                                                !.quota = "consumed", !.error = "none"]]
    BY <1>4 DEF RecoverContractFailure
  <2>2. [survey[s] EXCEPT !.status = "succeeded", !.quota = "consumed",
                          !.error = "none"].quota = "consumed"
    BY <1>1 DEF SurveyRow
  <2>3. survey'[s].quota = "consumed"
    BY <1>1, <2>1, <2>2
  <2>4. RecoveredIsCharged'
    BY <1>1, <1>2, <1>4, <2>3 DEF RecoveredIsCharged
  <2>5. s \notin recovered
    BY <1>1, <2>1 DEF RecoveredIsCharged
  <2>6. ASSUME NEW l \in Ledgers
        PROVE  reserved'[l] + succeeded'[l] <=
                   DailyLimit + Cardinality({t \in recovered' : LedgerOf[t] = l})
    <3> DEFINE old == {t \in recovered : LedgerOf[t] = l}
               new == {t \in recovered' : LedgerOf[t] = l}
    <3>1. IsFiniteSet(old) /\ Cardinality(old) \in Nat /\ DailyLimit \in Nat
      BY <1>1, StoreConstants, FS_Subset, FS_CardinalityType
    <3>2. reserved[l] + succeeded[l] <= DailyLimit + Cardinality(old)
      BY <1>1 DEF DailyLimitHolds
    <3>3. reserved[l] \in Nat /\ succeeded[l] \in Nat /\ reserved'[l] = reserved[l]
      BY <1>1, <2>1
    <3>4. CASE LedgerOf[s] = l
      <4>1. new = old \cup {s}
        BY <1>4, <3>4
      <4>2. Cardinality(new) = Cardinality(old) + 1
        BY <2>5, <3>1, <4>1, FS_AddElement
      <4>3. succeeded'[l] = succeeded[l] + 1
        BY <1>1, <2>1, <3>4
      <4> HIDE DEF old, new
      <4>4. reserved'[l] + succeeded'[l] <= DailyLimit + Cardinality(new)
        BY <3>1, <3>2, <3>3, <4>2, <4>3
      <4> QED
        BY <4>4 DEF new
    <3>5. CASE LedgerOf[s] # l
      <4>1. new = old
        BY <1>4, <3>5
      <4>2. succeeded'[l] = succeeded[l]
        BY <1>1, <2>1, <3>5
      <4> QED
        BY <3>2, <3>3, <4>1, <4>2
    <3> QED
      BY <3>4, <3>5
  <2> QED
    BY <2>4, <2>6 DEF DailyLimitHolds
<1> QED
  BY <1>3, <1>4, QueueWrites

\* The invariant is inductive.
LEMMA QueueStepInv == QueueInv /\ [Next]_queueVars => QueueInv'
BY QueueStoreStep, TaskStep, OtherTypesStep, ExecutionStep, AllowanceQueueStep
   DEF QueueInv, TaskTypes

\* ... and so holds in every reachable state.
LEMMA QueueInvariant == Spec => []QueueInv
<1>1. Init => QueueInv
  BY QueueInitInv
<1>2. QueueInv /\ [Next]_queueVars => QueueInv'
  BY QueueStepInv
<1> QED
  BY <1>1, <1>2, PTL DEF Spec

-----------------------------------------------------------------------------
(* What a step may never do.                                               *)

\* The transactions of a worker on its survey leave the other rows alone, and ask for
\* the ownership of the job.
LEMMA OwnedWrites ==
    ASSUME QueueInv, NEW s \in Surveys, NEW w \in Workers, NEW t,
           \/ HeartbeatJob(t, w) \/ FinishArchive(t, w) \/ DeferArchive(t, w)
           \/ MarkWorkspaceMissing(t, w)
           \/ \E outcome, error, chargeable : SettleExecution(t, w, outcome, error, chargeable)
    PROVE  job[s].owner = w \/ job'[s] = job[s]
<1>1. job \in [Surveys -> JobRow]
  BY DEF QueueInv, StoreInv, StoreTypeOK
<1>2. job[t].owner = w
  BY DEF HeartbeatJob, FinishArchive, DeferArchive, MarkWorkspaceMissing, SettleExecution,
         OwnsJob, OwnsArchive
<1>3. \E r : job' = [job EXCEPT ![t] = r]
  BY DEF HeartbeatJob, FinishArchive, DeferArchive, MarkWorkspaceMissing, SettleExecution
<1> QED
  BY <1>1, <1>2, <1>3

\* A worker's step changes the job of nobody but itself, unless it claims it.
LEMMA WorkerChangesOwn ==
    ASSUME QueueInv, NEW s \in Surveys, NEW w \in Workers,
           WorkerBeats(w) \/ WorkerProceeds(w) \/ WorkerFails(w)
    PROVE  job[s].owner = w \/ job'[s] = job[s]
<1>1. \/ job' = job
      \/ \E t : \/ HeartbeatJob(t, w) \/ FinishArchive(t, w) \/ DeferArchive(t, w)
                \/ MarkWorkspaceMissing(t, w)
                \/ \E outcome, error, chargeable :
                      SettleExecution(t, w, outcome, error, chargeable)
  <2>1. CASE WorkerBeats(w)
    BY <2>1 DEF WorkerBeats, tables
  <2>2. CASE WorkerStarts(w) \/ WorkerExecutes(w) \/ WorkerFindsArchiveLost(w)
               \/ WorkerSweepsWorkspace(w) \/ WorkerGivesUpLease(w) \/ TaskEscapes(w)
    BY <2>2 DEF WorkerStarts, WorkerExecutes, WorkerFindsArchiveLost, WorkerSweepsWorkspace,
                WorkerGivesUpLease, TaskEscapes, tables
  <2>3. CASE WorkerSettles(w)
    BY <2>3 DEF WorkerSettles, tables
  <2>4. CASE WorkerOpensArchive(w)
    BY <2>4 DEF WorkerOpensArchive, tables
  <2>5. CASE WorkerFinishesArchive(w) \/ WorkerDefersArchive(w)
    BY <2>5 DEF WorkerFinishesArchive, WorkerDefersArchive
  <2> QED
    BY <2>1, <2>2, <2>3, <2>4, <2>5 DEF WorkerProceeds, WorkerFails
<1> QED
  BY <1>1, OwnedWrites

Fenced ==
    \A w \in Workers, s \in Surveys :
        /\ task'[w] # task[w]
        /\ job[s].lease = "live"
        /\ job[s].owner # w
        => job'[s] = job[s]

\* A worker whose task moves leaves alone what another one holds by a live lease.
LEMMA FencedStep ==
    ASSUME QueueInv, [Next]_queueVars
    PROVE  Fenced
<1>1. task \in [Workers -> Task] /\ job \in [Surveys -> JobRow] /\ RowsFit
  BY DEF QueueInv, TaskTypes, StoreInv, StoreTypeOK
<1>2. (task' = task \/ job' = job) => Fenced
  BY DEF Fenced
<1>3. ASSUME NEW v \in Workers, WorkerBeats(v) \/ WorkerProceeds(v) \/ WorkerFails(v)
      PROVE  Fenced
  <2>1. \A w \in Workers \ {v} : task'[w] = task[w]
    BY <1>1, <1>3 DEF WorkerBeats, WorkerProceeds, WorkerFails, WorkerStarts, WorkerExecutes,
          WorkerSettles, WorkerOpensArchive, WorkerFinishesArchive, WorkerFindsArchiveLost,
          WorkerSweepsWorkspace, WorkerGivesUpLease, WorkerDefersArchive, TaskEscapes,
          Ends, SetTask
  <2>2. \A s \in Surveys : job[s].owner = v \/ job'[s] = job[s]
    BY <1>3, WorkerChangesOwn
  <2> QED
    BY <2>1, <2>2 DEF Fenced
<1>4. ASSUME NEW v \in Workers, NEW t \in Surveys, WorkerClaims(v, t)
      PROVE  Fenced
  <2>1. ClaimJob(t, v) /\ Claimable(t)
    BY <1>4 DEF WorkerClaims, ClaimJob
  <2>2. job[t].lease # "live"
    BY <1>1, <2>1, StoreConstants DEF Claimable, RowsFit, JobForm, JobRow
  <2>3. \A s \in Surveys \ {t} : job'[s] = job[s]
    BY <1>1, <2>1 DEF ClaimJob
  <2> QED
    BY <2>2, <2>3 DEF Fenced
<1>5. ASSUME NEW h \in Hosts, HostStops(h)
      PROVE  job' = job
  BY <1>5 DEF HostStops, tables
<1>6. ASSUME NEW s \in Surveys,
             UserStep(s) \/ SweepStep(s) \/ ClockStep(s) \/ EmailStep(s) \/ OperatorStep(s)
      PROVE  task' = task
  BY <1>6 DEF UserStep, SweepStep, ClockStep, EmailStep, OperatorStep
<1>7. ASSUME NEW w \in DraftWorkers,
             \/ \E s \in Surveys : DraftWorkerClaims(w, s)
             \/ DraftWorkerBeats(w) \/ DraftWorkerReturns(w)
      PROVE  task' = task
  BY <1>7, DraftWorkerWrites DEF DraftWorkerClaims
<1>8. ASSUME UNCHANGED queueVars
      PROVE  task' = task
  BY <1>8 DEF queueVars
<1> QED
  BY <1>2, <1>3, <1>4, <1>5, <1>6, <1>7, <1>8 DEF Next

-----------------------------------------------------------------------------
(* SurveyQueue implements SurveyLifecycle.                                 *)

\* What the life cycle shows of a survey.
Shown(s) == [phase   |-> PhaseOf(survey[s].status),
             charge  |-> ChargeOf(survey[s].quota),
             verdict |-> VerdictOf(s),
             asked   |-> job[s].cancel]

LifecycleStep == Lifecycle!Next \/ UNCHANGED Lifecycle!vars

\* A step that shows nothing is a stutter.
LEMMA ShowsNothing ==
    ASSUME \A t \in Surveys : Shown(t)' = Shown(t)
    PROVE  LifecycleStep
<1>1. \A t \in Surveys : /\ PhaseOf(survey'[t].status) = PhaseOf(survey[t].status)
                         /\ ChargeOf(survey'[t].quota) = ChargeOf(survey[t].quota)
                         /\ VerdictOf(t)' = VerdictOf(t)
                         /\ job'[t].cancel = job[t].cancel
  BY DEF Shown
<1> QED
  BY <1>1 DEF LifecycleStep, Lifecycle!vars

\* A step that shows something of one survey only makes it become that.
LEMMA ShowsOne ==
    ASSUME NEW s \in Surveys, \A t \in Surveys \ {s} : Shown(t)' = Shown(t),
           NEW p, NEW c, NEW v,
           Shown(s)' = [phase |-> p, charge |-> c, verdict |-> v, asked |-> job'[s].cancel]
    PROVE  /\ Lifecycle!Become(s, p, c, v)
           /\ [t \in Surveys |-> job'[t].cancel]
                = [[t \in Surveys |-> job[t].cancel] EXCEPT ![s] = job'[s].cancel]
<1>1. \A t \in Surveys \ {s} : /\ PhaseOf(survey'[t].status) = PhaseOf(survey[t].status)
                               /\ ChargeOf(survey'[t].quota) = ChargeOf(survey[t].quota)
                               /\ VerdictOf(t)' = VerdictOf(t)
                               /\ job'[t].cancel = job[t].cancel
  BY DEF Shown
<1>2. PhaseOf(survey'[s].status) = p /\ ChargeOf(survey'[s].quota) = c /\ VerdictOf(s)' = v
  BY DEF Shown
<1> QED
  BY <1>1, <1>2 DEF Lifecycle!Become

\* What a transaction shows that writes the rows r and j of survey s.
Verdict(r, j) == IF r.status \in Terminal THEN r.status ELSE j.outcome

Writes(s, r, j) ==
    /\ survey' = [survey EXCEPT ![s] = r] \/ (survey' = survey /\ r = survey[s])
    /\ job' = [job EXCEPT ![s] = j] \/ (job' = job /\ j = job[s])

LEMMA ShowsBecoming ==
    ASSUME StoreTypeOK, NEW s \in Surveys, NEW r, NEW j, Writes(s, r, j),
           NEW p, NEW c, NEW v, PhaseOf(r.status) = p, ChargeOf(r.quota) = c, Verdict(r, j) = v
    PROVE  Lifecycle!Become(s, p, c, v)
<1>1. /\ survey'[s] = r /\ job'[s] = j
      /\ \A t \in Surveys \ {s} : survey'[t] = survey[t] /\ job'[t] = job[t]
  BY DEF Writes, StoreTypeOK
<1>2. \A t \in Surveys \ {s} : Shown(t)' = Shown(t)
  BY <1>1 DEF Shown, VerdictOf
<1>3. Shown(s)' = [phase |-> p, charge |-> c, verdict |-> v, asked |-> job'[s].cancel]
  BY <1>1 DEF Shown, VerdictOf, Verdict
<1> QED
  BY <1>2, <1>3, ShowsOne

\* ... and nothing, if it leaves status, quota, outcome and cancellation as they are.
LEMMA ShowsNoRows ==
    ASSUME StoreTypeOK, NEW s \in Surveys, NEW r, NEW j, Writes(s, r, j),
           r.status = survey[s].status, r.quota = survey[s].quota,
           j.outcome = job[s].outcome, j.cancel = job[s].cancel
    PROVE  LifecycleStep
<1>1. /\ survey'[s] = r /\ job'[s] = j
      /\ \A t \in Surveys \ {s} : survey'[t] = survey[t] /\ job'[t] = job[t]
  BY DEF Writes, StoreTypeOK
<1>2. \A t \in Surveys : Shown(t)' = Shown(t)
  BY <1>1 DEF Shown, VerdictOf
<1> QED
  BY <1>2, ShowsNothing

\* A job row that asks for a cancellation if and only if the last one did changes none.
LEMMA CancelKept ==
    ASSUME StoreTypeOK, NEW s \in Surveys, NEW j, job' = [job EXCEPT ![s] = j],
           j.cancel = job[s].cancel \/ (~job[s].cancel /\ j.cancel = FALSE)
    PROVE  [t \in Surveys |-> job'[t].cancel] = [t \in Surveys |-> job[t].cancel]
<1>1. j.cancel = job[s].cancel
  <2>1. job[s].cancel \in BOOLEAN
    BY DEF StoreTypeOK, JobRow
  <2> QED
    BY <2>1
<1>2. \A t \in Surveys : job'[t].cancel = job[t].cancel
  BY <1>1 DEF StoreTypeOK
<1> QED
  BY <1>2

\* The life cycle counts as the ledger does.
LEMMA SameCardinality == \A S : Lifecycle!Cardinality(S) = Cardinality(S)
BY DEF Lifecycle!Cardinality, Cardinality

\* The allowance of a day is counted by the two counters of its ledger.
LEMMA UsingIsCounted ==
    ASSUME StoreInv, NEW l \in Ledgers
    PROVE  Lifecycle!Cardinality(Lifecycle!Using(l)) = reserved[l] + succeeded[l]
<1> DEFINE held == Charged(l, "reserved")
           spent == Charged(l, "consumed")
<1>1. Lifecycle!Using(l) = held \cup spent
  <2>1. \A s \in Surveys : survey[s].quota \in {"none", "reserved", "consumed", "released"}
    BY DEF StoreInv, StoreTypeOK, SurveyRow
  <2>2. \A s \in Surveys : ChargeOf(survey[s].quota) \in {"held", "spent"}
                              <=> survey[s].quota \in {"reserved", "consumed"}
    BY <2>1 DEF ChargeOf
  <2> QED
    BY <2>2 DEF Lifecycle!Using, Charged
<1>2. IsFiniteSet(held) /\ IsFiniteSet(spent) /\ held \cap spent = {}
  BY StoreConstants, FS_Subset DEF Charged
<1>3. reserved[l] = Cardinality(held) /\ succeeded[l] = Cardinality(spent)
  BY DEF StoreInv, LedgerBalanced
<1> HIDE DEF held, spent
<1>4. Cardinality(held \cup spent)
        = Cardinality(held) + Cardinality(spent) - Cardinality(held \cap spent)
  BY <1>2, FS_Union
<1>5. Cardinality(held) \in Nat /\ Cardinality(spent) \in Nat
  BY <1>2, FS_CardinalityType
<1>6. Cardinality(held \cap spent) = 0
  BY <1>2, FS_EmptySet
<1> QED
  BY <1>1, <1>3, <1>4, <1>5, <1>6, SameCardinality

\* What the owner of a survey asks for is a step of the life cycle.
LEMMA RequestShows ==
    ASSUME StoreInv, CancelsRan, NEW s \in Surveys, Request(s)
    PROVE  LifecycleStep
<1> DEFINE row == survey[s]
<1>1. StoreTypeOK /\ row \in SurveyRow /\ job[s] \in JobRow /\ QuotaFits(row)
      /\ JobFollows(row.status, job[s]) /\ JobForm(job[s])
  BY DEF StoreInv, StoreTypeOK, QuotaFollowsStatus, RowsFit
<1>2. CASE CreateSurvey(s)
  <2> DEFINE r == SurveyIn("drafting", "reserved")
  <2>1. survey' = [survey EXCEPT ![s] = r] /\ job' = job /\ row.status = "absent"
    BY <1>2 DEF CreateSurvey
  <2>2. PhaseOf(r.status) = "open" /\ ChargeOf(r.quota) = "held" /\ Verdict(r, job[s]) = "none"
    <3>1. job[s].outcome = "none"
      <4>1. job[s].status = "absent"
        BY <1>1, <2>1 DEF JobFollows, JobForm, JobRow, Outcomes, Terminal
      <4> QED
        BY <1>1, <4>1 DEF JobForm
    <3> QED
      BY <3>1 DEF SurveyIn, PhaseOf, ChargeOf, Verdict, Terminal
  <2>3. Lifecycle!Cardinality(Lifecycle!Using(LedgerOf[s])) < DailyLimit
    BY <1>2, UsingIsCounted, StoreConstants DEF CreateSurvey, HasAllowance
  <2> HIDE DEF r
  <2>4. Lifecycle!Become(s, "open", "held", "none")
    <3>1. Writes(s, r, job[s])
      BY <2>1 DEF Writes
    <3> QED
      BY <1>1, <2>2, <3>1, ShowsBecoming
  <2>5. [t \in Surveys |-> job'[t].cancel] = [t \in Surveys |-> job[t].cancel]
    BY <2>1
  <2>6. PhaseOf(survey[s].status) = "none"
    BY <2>1 DEF PhaseOf, Terminal
  <2>7. Lifecycle!Open(s)
    BY <2>3, <2>4, <2>5, <2>6 DEF Lifecycle!Open
  <2> QED
    BY <2>7 DEF LifecycleStep, Lifecycle!Next
<1>3. CASE RequestGeneratedDraft(s) \/ CreateManualDraft(s)
  <2>1. Writes(s, survey[s], job[s])
    BY <1>3 DEF RequestGeneratedDraft, CreateManualDraft, Writes
  <2> QED
    BY <1>1, <2>1, ShowsNoRows
<1>4. ASSUME NEW notify \in BOOLEAN, StartSurvey(s, notify)
      PROVE  LifecycleStep
  <2> DEFINE r == [row EXCEPT !.status = "queued", !.notify = notify]
             j == JobIn("queued")
  <2>1. /\ survey' = [survey EXCEPT ![s] = r] /\ job' = [job EXCEPT ![s] = j]
        /\ row.status = "drafting" /\ row.quota = "reserved" /\ job[s].status = "absent"
    BY <1>4 DEF StartSurvey
  <2>2. r.status = "queued" /\ r.quota = "reserved" /\ j.outcome = "none" /\ j.cancel = FALSE
    BY <1>1, <2>1 DEF SurveyRow, JobIn
  <2>3. ~job[s].cancel
    BY <2>1 DEF CancelsRan, BeforeRun
  <2> HIDE DEF r, j
  <2>4. Lifecycle!Become(s, "waiting", "held", "none")
    <3>1. PhaseOf(r.status) = "waiting" /\ ChargeOf(r.quota) = "held" /\ Verdict(r, j) = "none"
      BY <2>2 DEF PhaseOf, ChargeOf, Verdict, Terminal
    <3>2. Writes(s, r, j)
      BY <2>1 DEF Writes
    <3> QED
      BY <1>1, <3>1, <3>2, ShowsBecoming
  <2>5. [t \in Surveys |-> job'[t].cancel] = [t \in Surveys |-> job[t].cancel]
    BY <1>1, <2>1, <2>2, <2>3, CancelKept
  <2>6. PhaseOf(survey[s].status) = "open"
    BY <2>1 DEF PhaseOf, Terminal
  <2>7. Lifecycle!Submit(s)
    BY <2>4, <2>5, <2>6 DEF Lifecycle!Submit
  <2> QED
    BY <2>7 DEF LifecycleStep, Lifecycle!Next
<1>5. CASE RequestCancel(s)
  <2> DEFINE j == [job[s] EXCEPT !.cancel = TRUE]
  <2>1. /\ survey' = survey /\ job' = [job EXCEPT ![s] = j] /\ row.status = "running"
    BY <1>5 DEF RequestCancel
  <2>2. j.cancel = TRUE /\ j.outcome = job[s].outcome
    BY <1>1 DEF JobRow
  <2> HIDE DEF j
  <2>3. [t \in Surveys |-> job'[t].cancel]
          = [[t \in Surveys |-> job[t].cancel] EXCEPT ![s] = TRUE]
    <3>1. job'[s].cancel = TRUE /\ \A t \in Surveys \ {s} : job'[t].cancel = job[t].cancel
      BY <1>1, <2>1, <2>2 DEF StoreTypeOK
    <3> QED
      BY <3>1
  <2>4. \A t \in Surveys : VerdictOf(t)' = VerdictOf(t)
    BY <1>1, <2>1, <2>2 DEF VerdictOf, StoreTypeOK
  <2>5. PhaseOf(survey[s].status) = "running"
    BY <2>1 DEF PhaseOf, Terminal
  <2>6. Lifecycle!AskToCancel(s)
    BY <2>1, <2>3, <2>4, <2>5 DEF Lifecycle!AskToCancel
  <2> QED
    BY <2>6 DEF LifecycleStep, Lifecycle!Next
<1>6. CASE CancelBeforeRun(s)
  <2> DEFINE r == [row EXCEPT !.status = "cancelled", !.quota = "released"]
  <2>1. /\ survey' = [survey EXCEPT ![s] = r] /\ job' = [job EXCEPT ![s] = NoJob]
        /\ row.status \in {"drafting", "queued"}
    BY <1>6 DEF CancelBeforeRun
  <2>2. r.status = "cancelled" /\ r.quota = "released" /\ NoJob.cancel = FALSE
    BY <1>1 DEF SurveyRow, NoJob, JobIn
  <2>3. ~job[s].cancel
    BY <2>1 DEF CancelsRan, BeforeRun
  <2> HIDE DEF r
  <2>4. Lifecycle!Become(s, "ended", "free", "cancelled")
    <3>1. PhaseOf(r.status) = "ended" /\ ChargeOf(r.quota) = "free"
          /\ Verdict(r, NoJob) = "cancelled"
      BY <2>2 DEF PhaseOf, ChargeOf, Verdict, Terminal
    <3>2. Writes(s, r, NoJob)
      BY <2>1 DEF Writes
    <3> QED
      BY <1>1, <3>1, <3>2, ShowsBecoming
  <2>5. [t \in Surveys |-> job'[t].cancel] = [t \in Surveys |-> job[t].cancel]
    BY <1>1, <2>1, <2>2, <2>3, CancelKept
  <2>6. PhaseOf(survey[s].status) \in {"open", "waiting"}
    BY <2>1 DEF PhaseOf, Terminal
  <2>7. Lifecycle!Withdraw(s)
    BY <2>4, <2>5, <2>6 DEF Lifecycle!Withdraw
  <2> QED
    BY <2>7 DEF LifecycleStep, Lifecycle!Next
<1>7. ASSUME NEW q \in {"none", "reserved", "consumed", "released"}, DeleteRows(s, q),
             row.status \in {"drafting", "queued"} \cup Terminal,
             q = IF row.quota = "reserved" THEN "released" ELSE row.quota
      PROVE  LifecycleStep
  <2> DEFINE r == SurveyIn("deleted", q)
  <2>1. survey' = [survey EXCEPT ![s] = r] /\ job' = [job EXCEPT ![s] = NoJob]
    BY <1>7 DEF DeleteRows
  <2>2. r.status = "deleted" /\ r.quota = q /\ NoJob.cancel = FALSE /\ NoJob.outcome = "none"
    BY DEF SurveyIn, NoJob, JobIn
  <2> HIDE DEF r
  <2>3. Lifecycle!Become(s, "gone", ChargeOf(q), "none")
    <3>1. PICK c : c = ChargeOf(q)
      OBVIOUS
    <3>2. PhaseOf(r.status) = "gone" /\ Verdict(r, NoJob) = "none"
      BY <2>2 DEF PhaseOf, Verdict, Terminal
    <3>3. Writes(s, r, NoJob)
      BY <2>1 DEF Writes
    <3> QED
      BY <1>1, <2>2, <3>1, <3>2, <3>3, ShowsBecoming
  <2>4. [t \in Surveys |-> job'[t].cancel]
          = [[t \in Surveys |-> job[t].cancel] EXCEPT ![s] = FALSE]
    <3>1. job'[s].cancel = FALSE /\ \A t \in Surveys \ {s} : job'[t].cancel = job[t].cancel
      BY <1>1, <2>1, <2>2 DEF StoreTypeOK
    <3> QED
      BY <3>1
  <2>5. PhaseOf(survey[s].status) \in {"open", "waiting", "ended"}
    BY <1>7 DEF PhaseOf, Terminal
  <2>6. ChargeOf(q) = IF ChargeOf(survey[s].quota) = "held" THEN "free"
                                                            ELSE ChargeOf(survey[s].quota)
    BY <1>1, <1>7 DEF ChargeOf, SurveyRow
  <2>7. Lifecycle!Remove(s)
    BY <2>3, <2>4, <2>5, <2>6 DEF Lifecycle!Remove
  <2> QED
    BY <2>7 DEF LifecycleStep, Lifecycle!Next
<1>8. CASE DeleteBeforeRun(s)
  <2>1. /\ row.quota = "reserved" /\ DeleteRows(s, "released")
        /\ row.status \in {"drafting", "queued"}
    BY <1>8, DeletionReleases DEF DeleteBeforeRun
  <2> QED
    BY <1>7, <2>1
<1>9. CASE DeleteTerminal(s)
  <2>1. row.status \in Terminal /\ DeleteRows(s, row.quota)
    BY <1>9 DEF DeleteTerminal
  <2>2. row.quota # "reserved" /\ row.quota \in {"none", "reserved", "consumed", "released"}
    BY <1>1, <2>1 DEF QuotaFits, Active, Terminal, SurveyRow
  <2> QED
    BY <1>7, <2>1, <2>2
<1> QED
  BY <1>2, <1>3, <1>4, <1>5, <1>6, <1>8, <1>9 DEF Request, CancelSurvey, DeleteSurvey

\* A settlement decides the survey, and cancels it if and only if that was asked for.
LEMMA SettlementShows ==
    ASSUME StoreInv, NEW s \in Surveys, NEW w, NEW outcome \in Outcomes, NEW error,
           NEW chargeable \in BOOLEAN, SettleExecution(s, w, outcome, error, chargeable),
           outcome = "cancelled" => job[s].cancel
    PROVE  LifecycleStep
<1>1. StoreTypeOK /\ survey[s] \in SurveyRow /\ job[s] \in JobRow
  BY DEF StoreInv, StoreTypeOK
<1>2. PICK v, c, q, e :
        /\ v = EffectiveOutcome(s, outcome) /\ e = EffectiveError(s, outcome, error)
        /\ q = IF v = "succeeded" /\ chargeable THEN "consumed" ELSE "released"
        /\ c = ChargeOf(q)
  OBVIOUS
<1> DEFINE r == [survey[s] EXCEPT !.status = "archiving", !.error = e, !.quota = q]
           j == [job[s] EXCEPT !.status = "archiving", !.outcome = v, !.error = e, !.due = TRUE]
<1>3. Writes(s, r, j) /\ survey[s].status = "running"
  BY <1>2 DEF SettleExecution, Writes
<1>4. /\ r.status = "archiving" /\ r.quota = q
      /\ j.outcome = v /\ j.cancel = job[s].cancel
  BY <1>1 DEF SurveyRow, JobRow
<1> HIDE DEF r, j
<1>5. PhaseOf(r.status) = "decided" /\ ChargeOf(r.quota) = c /\ Verdict(r, j) = v
  BY <1>2, <1>4 DEF PhaseOf, Verdict, Terminal
<1>6. Lifecycle!Become(s, "decided", c, v)
  BY <1>1, <1>3, <1>5, ShowsBecoming
<1>7. [t \in Surveys |-> job'[t].cancel] = [t \in Surveys |-> job[t].cancel]
  <2>1. \A t \in Surveys : job'[t].cancel = job[t].cancel
    BY <1>1, <1>3, <1>4 DEF Writes, StoreTypeOK
  <2> QED
    BY <2>1
<1>8. PhaseOf(survey[s].status) = "running"
  BY <1>3 DEF PhaseOf, Terminal
<1>9. /\ v \in {"succeeded", "failed", "cancelled"} /\ c \in {"spent", "free"}
      /\ c = "spent" => v = "succeeded"
      /\ job[s].cancel <=> v = "cancelled"
  BY <1>2 DEF EffectiveOutcome, ChargeOf, Outcomes, Terminal
<1>10. Lifecycle!Decide(s, v, c)
  BY <1>6, <1>7, <1>8, <1>9 DEF Lifecycle!Decide
<1> QED
  BY <1>9, <1>10 DEF LifecycleStep, Lifecycle!Next

\* The other transactions on a job run the survey, decide it, lose its report, publish
\* it, or show nothing.
LEMMA JobShows ==
    ASSUME StoreInv, NEW s \in Surveys, NEW w,
           \/ RecoverExpiredJob(s) \/ JobLeaseExpires(s) \/ ArchiveBecomesDue(s)
           \/ ClaimJob(s, w) \/ HeartbeatJob(s, w) \/ FinishArchive(s, w)
           \/ DeferArchive(s, w) \/ MarkWorkspaceMissing(s, w)
    PROVE  LifecycleStep
<1>1. /\ StoreTypeOK /\ survey[s] \in SurveyRow /\ job[s] \in JobRow /\ QuotaFits(survey[s])
      /\ JobFollows(survey[s].status, job[s]) /\ JobForm(job[s])
  BY DEF StoreInv, StoreTypeOK, QuotaFollowsStatus, RowsFit
<1>2. ASSUME NEW j, Writes(s, survey[s], j), j.outcome = job[s].outcome, j.cancel = job[s].cancel
      PROVE  LifecycleStep
  BY <1>1, <1>2, ShowsNoRows
<1>3. CASE RecoverExpiredJob(s)
  <2>1. PICK v, e : /\ v = IF job[s].cancel THEN "cancelled" ELSE "failed"
                    /\ e = IF job[s].cancel THEN "none" ELSE "other"
    OBVIOUS
  <2> DEFINE r == [survey[s] EXCEPT !.status = "archiving", !.quota = "released", !.error = e]
             j == [job[s] EXCEPT !.status = "archiving", !.due = TRUE, !.outcome = v,
                                 !.error = e, !.owner = NoWorker, !.lease = "none"]
  <2>2. Writes(s, r, j) /\ job[s].status = "running"
    BY <1>3, <2>1 DEF RecoverExpiredJob, Writes
  <2>3. r.status = "archiving" /\ r.quota = "released" /\ j.outcome = v /\ j.cancel = job[s].cancel
    BY <1>1 DEF SurveyRow, JobRow
  <2> HIDE DEF r, j
  <2>4. PhaseOf(r.status) = "decided" /\ ChargeOf(r.quota) = "free" /\ Verdict(r, j) = v
    BY <2>3 DEF PhaseOf, ChargeOf, Verdict, Terminal
  <2>5. Lifecycle!Become(s, "decided", "free", v)
    BY <1>1, <2>2, <2>4, ShowsBecoming
  <2>6. [t \in Surveys |-> job'[t].cancel] = [t \in Surveys |-> job[t].cancel]
    <3>1. \A t \in Surveys : job'[t].cancel = job[t].cancel
      BY <1>1, <2>2, <2>3 DEF Writes, StoreTypeOK
    <3> QED
      BY <3>1
  <2>7. PhaseOf(survey[s].status) = "running"
    BY <1>1, <2>2 DEF JobFollows, PhaseOf, Terminal
  <2>8. v \in {"failed", "cancelled"} /\ (job[s].cancel <=> v = "cancelled")
    BY <2>1
  <2>9. Lifecycle!Decide(s, v, "free")
    BY <2>5, <2>6, <2>7, <2>8 DEF Lifecycle!Decide
  <2> QED
    BY <2>8, <2>9 DEF LifecycleStep, Lifecycle!Next
<1>4. CASE JobLeaseExpires(s) \/ ArchiveBecomesDue(s) \/ HeartbeatJob(s, w) \/ DeferArchive(s, w)
  <2>1. PICK j \in {[job[s] EXCEPT !.lease = "expired"], [job[s] EXCEPT !.due = TRUE],
                    [job[s] EXCEPT !.lease = "live"],
                    [job[s] EXCEPT !.owner = NoWorker, !.lease = "none", !.due = FALSE,
                                   !.error = "archive_pending"]} :
          Writes(s, survey[s], j)
    BY <1>4 DEF JobLeaseExpires, ArchiveBecomesDue, HeartbeatJob, DeferArchive, Writes
  <2>2. j.outcome = job[s].outcome /\ j.cancel = job[s].cancel
    BY <1>1, <2>1 DEF JobRow
  <2> QED
    BY <1>2, <2>1, <2>2
<1>5. CASE ClaimJob(s, w) /\ job[s].status = "queued"
  <2> DEFINE r == [survey[s] EXCEPT !.status = "running"]
             j == [job[s] EXCEPT !.status = "running", !.owner = w, !.lease = "live"]
  <2>1. Writes(s, r, j) /\ survey[s].status = "queued"
    BY <1>5 DEF ClaimJob, Claimable, Writes
  <2>2. /\ r.status = "running" /\ r.quota = survey[s].quota
        /\ j.outcome = job[s].outcome /\ j.cancel = job[s].cancel
    BY <1>1 DEF SurveyRow, JobRow
  <2>3. survey[s].quota = "reserved" /\ job[s].outcome = "none"
    BY <1>1, <1>5, <2>1 DEF QuotaFits, JobForm, Active
  <2> HIDE DEF r, j
  <2>4. PhaseOf(r.status) = "running" /\ ChargeOf(r.quota) = "held" /\ Verdict(r, j) = "none"
    BY <2>2, <2>3 DEF PhaseOf, ChargeOf, Verdict, Terminal
  <2>5. Lifecycle!Become(s, "running", "held", "none")
    BY <1>1, <2>1, <2>4, ShowsBecoming
  <2>6. [t \in Surveys |-> job'[t].cancel] = [t \in Surveys |-> job[t].cancel]
    <3>1. \A t \in Surveys : job'[t].cancel = job[t].cancel
      BY <1>1, <2>1, <2>2 DEF Writes, StoreTypeOK
    <3> QED
      BY <3>1
  <2>7. PhaseOf(survey[s].status) = "waiting"
    BY <2>1 DEF PhaseOf, Terminal
  <2>8. Lifecycle!Run(s)
    BY <2>5, <2>6, <2>7 DEF Lifecycle!Run
  <2> QED
    BY <2>8 DEF LifecycleStep, Lifecycle!Next
<1>6. CASE ClaimJob(s, w) /\ job[s].status # "queued"
  <2> DEFINE j == [job[s] EXCEPT !.owner = w, !.lease = "live"]
  <2>1. Writes(s, survey[s], j)
    BY <1>6 DEF ClaimJob, Writes
  <2>2. j.outcome = job[s].outcome /\ j.cancel = job[s].cancel
    BY <1>1 DEF JobRow
  <2> HIDE DEF j
  <2> QED
    BY <1>2, <2>1, <2>2
<1>7. CASE FinishArchive(s, w)
  <2>1. job[s].status = "archiving" /\ survey[s].status = "archiving" /\ job[s].outcome \in Terminal
    BY <1>1, <1>7 DEF FinishArchive, OwnsArchive, JobFollows, JobForm, JobRow, Outcomes
  <2>2. PICK v, c : v = job[s].outcome /\ c = ChargeOf(survey[s].quota)
    OBVIOUS
  <2> DEFINE r == [survey[s] EXCEPT !.status = v]
             j == [job[s] EXCEPT !.status = "finished", !.owner = NoWorker, !.lease = "none",
                                 !.due = FALSE, !.manifest = "original"]
  <2>3. Writes(s, r, j)
    BY <1>7, <2>1, <2>2 DEF FinishArchive, Writes
  <2>4. /\ r.status = v /\ r.quota = survey[s].quota
        /\ j.outcome = v /\ j.cancel = job[s].cancel
    BY <1>1, <2>2 DEF SurveyRow, JobRow
  <2> HIDE DEF r, j
  <2>5. PhaseOf(r.status) = "ended" /\ ChargeOf(r.quota) = c /\ Verdict(r, j) = v
    BY <2>1, <2>2, <2>4 DEF PhaseOf, Verdict, Terminal
  <2>6. Lifecycle!Become(s, "ended", c, v)
    BY <1>1, <2>3, <2>5, ShowsBecoming
  <2>7. [t \in Surveys |-> job'[t].cancel] = [t \in Surveys |-> job[t].cancel]
    <3>1. \A t \in Surveys : job'[t].cancel = job[t].cancel
      BY <1>1, <2>3, <2>4 DEF Writes, StoreTypeOK
    <3> QED
      BY <3>1
  <2>8. PhaseOf(survey[s].status) = "decided" /\ VerdictOf(s) = v
    BY <2>1, <2>2 DEF PhaseOf, VerdictOf, Terminal
  <2>9. Lifecycle!Publish(s)
    BY <2>2, <2>6, <2>7, <2>8 DEF Lifecycle!Publish
  <2> QED
    BY <2>9 DEF LifecycleStep, Lifecycle!Next
<1>8. CASE MarkWorkspaceMissing(s, w)
  <2>1. survey[s].status = "archiving"
    BY <1>1, <1>8 DEF MarkWorkspaceMissing, OwnsArchive, JobFollows
  <2>2. PICK c : c = ChargeOf(survey[s].quota)
    OBVIOUS
  <2> DEFINE r == [survey[s] EXCEPT !.error = "workspace_missing"]
             j == [job[s] EXCEPT !.outcome = "failed", !.error = "workspace_missing"]
  <2>3. Writes(s, r, j)
    BY <1>8 DEF MarkWorkspaceMissing, Writes
  <2>4. /\ r.status = "archiving" /\ r.quota = survey[s].quota
        /\ j.outcome = "failed" /\ j.cancel = job[s].cancel
    BY <1>1, <2>1 DEF SurveyRow, JobRow
  <2> HIDE DEF r, j
  <2>5. PhaseOf(r.status) = "decided" /\ ChargeOf(r.quota) = c /\ Verdict(r, j) = "failed"
    BY <2>2, <2>4 DEF PhaseOf, Verdict, Terminal
  <2>6. Lifecycle!Become(s, "decided", c, "failed")
    BY <1>1, <2>3, <2>5, ShowsBecoming
  <2>7. [t \in Surveys |-> job'[t].cancel] = [t \in Surveys |-> job[t].cancel]
    <3>1. \A t \in Surveys : job'[t].cancel = job[t].cancel
      BY <1>1, <2>3, <2>4 DEF Writes, StoreTypeOK
    <3> QED
      BY <3>1
  <2>8. PhaseOf(survey[s].status) = "decided"
    BY <2>1 DEF PhaseOf, Terminal
  <2>9. Lifecycle!LoseReport(s)
    BY <2>2, <2>6, <2>7, <2>8 DEF Lifecycle!LoseReport
  <2> QED
    BY <2>9 DEF LifecycleStep, Lifecycle!Next
<1> QED
  BY <1>3, <1>4, <1>5, <1>6, <1>7, <1>8

\* The operator amends a failure that holds no charge; drafts and emails show nothing.
LEMMA OtherShows ==
    ASSUME StoreInv, NEW s \in Surveys, Repair(s) \/ DraftWrite(s) \/ Delivery(s)
    PROVE  LifecycleStep
<1>1. StoreTypeOK /\ survey[s] \in SurveyRow /\ job[s] \in JobRow /\ CancelFits(survey[s], job[s])
  BY DEF StoreInv, StoreTypeOK, CancelledNeverCharged
<1>2. CASE DraftWrite(s) \/ Delivery(s)
  <2>1. Writes(s, survey[s], job[s])
    BY <1>2 DEF DraftWrite, ClaimDraft, HeartbeatDraft, CompleteDraft, FailDraft,
                RecoverExpiredDraft, DraftLeaseExpires, Delivery, ClaimNotification,
                CloseNotification, RetryNotification, MoveNotification, Writes
  <2> QED
    BY <1>1, <2>1, ShowsNoRows
<1>3. CASE RepairDegradedEvidence(s)
  <2> DEFINE r == [survey[s] EXCEPT !.error = "none"]
             j == [job[s] EXCEPT !.error = "none", !.manifest = "overlay"]
  <2>1. Writes(s, r, j)
    BY <1>3 DEF RepairDegradedEvidence, Writes
  <2>2. /\ r.status = survey[s].status /\ r.quota = survey[s].quota
        /\ j.outcome = job[s].outcome /\ j.cancel = job[s].cancel
    BY <1>1 DEF SurveyRow, JobRow
  <2> HIDE DEF r, j
  <2> QED
    BY <1>1, <2>1, <2>2, ShowsNoRows
<1>4. ASSUME NEW manifest, RecoverContractFailure(s, manifest)
      PROVE  LifecycleStep
  <2> DEFINE r == [survey[s] EXCEPT !.status = "succeeded", !.quota = "consumed",
                                    !.error = "none"]
             j == [job[s] EXCEPT !.outcome = "succeeded", !.error = "none",
                                 !.manifest = manifest]
  <2>1. /\ Writes(s, r, j) /\ survey[s].status = "failed" /\ survey[s].quota = "released"
        /\ job[s].error = "contract" /\ job[s].outcome = "failed"
    BY <1>4 DEF RecoverContractFailure, Writes
  <2>2. /\ r.status = "succeeded" /\ r.quota = "consumed" /\ j.cancel = job[s].cancel
    BY <1>1 DEF SurveyRow, JobRow
  <2>3. ~job[s].cancel
    BY <1>1, <2>1 DEF CancelFits
  <2> HIDE DEF r, j
  <2>4. PhaseOf(r.status) = "ended" /\ ChargeOf(r.quota) = "spent" /\ Verdict(r, j) = "succeeded"
    BY <2>2 DEF PhaseOf, ChargeOf, Verdict, Terminal
  <2>5. Lifecycle!Become(s, "ended", "spent", "succeeded")
    BY <1>1, <2>1, <2>4, ShowsBecoming
  <2>6. [t \in Surveys |-> job'[t].cancel] = [t \in Surveys |-> job[t].cancel]
    <3>1. \A t \in Surveys : job'[t].cancel = job[t].cancel
      BY <1>1, <2>1, <2>2 DEF Writes, StoreTypeOK
    <3> QED
      BY <3>1
  <2>7. /\ PhaseOf(survey[s].status) = "ended" /\ ChargeOf(survey[s].quota) = "free"
        /\ VerdictOf(s) = "failed"
    BY <2>1 DEF PhaseOf, ChargeOf, VerdictOf, Terminal
  <2>8. Lifecycle!Amend(s)
    BY <2>3, <2>5, <2>6, <2>7 DEF Lifecycle!Amend
  <2> QED
    BY <2>8 DEF LifecycleStep, Lifecycle!Next
<1> QED
  BY <1>2, <1>3, <1>4 DEF Repair

\* A cancellation that was asked for stays asked for, as long as its run goes on.
LEMMA AskedStays ==
    ASSUME StoreInv, StoreNext \/ UNCHANGED tables, NEW s \in Surveys, AskedFor(s)
    PROVE  AskedFor(s)'
<1>1. survey[s].status \notin BeforeRun /\ survey'[s].status \notin BeforeRun
  BY NeverBackBeforeRun DEF AskedFor
<1>2. ASSUME job'[s].status = "running"
      PROVE  job'[s].cancel
  <2>1. ~ClaimedFromQueue(survey[s], job'[s])
    BY <1>1 DEF ClaimedFromQueue, BeforeRun
  <2>2. StaysRunning(job[s], job'[s])
    BY <1>2, <2>1, RunningJobs
  <2> QED
    BY <2>2 DEF StaysRunning, AskedFor
<1> QED
  BY <1>1, <1>2 DEF AskedFor

\* No task is stopped on its own: the cancellation that stopped it is on its job.
StopWasAsked ==
    \A w \in Workers :
        Stopping(task[w]) => \E s \in Surveys : s = task[w].survey /\ AskedFor(s)

LEMMA StopWasAskedStep ==
    ASSUME QueueInv, StopWasAsked, [Next]_queueVars
    PROVE  StopWasAsked'
<1>1. task \in [Workers -> Task] /\ StoreInv
  BY DEF QueueInv, TaskTypes
<1>2. \A s \in Surveys : AskedFor(s) => AskedFor(s)'
  BY <1>1, QueueStoreStep, AskedStays
<1> SUFFICES ASSUME NEW v \in Workers, Stopping(task'[v])
             PROVE  \E s \in Surveys : s = task'[v].survey /\ AskedFor(s)'
  BY DEF StopWasAsked, Stopping
<1>3. CASE task'[v] = task[v]
  <2>1. PICK s \in Surveys : s = task[v].survey /\ AskedFor(s)
    BY <1>3 DEF StopWasAsked
  <2> QED
    BY <1>2, <1>3, <2>1
<1>4. ~Stopping(IdleTask)
  BY DEF Stopping, IdleTask
<1>5. ASSUME NEW s \in Surveys, NEW pc \in {"start", "archive"}
      PROVE  ~Stopping(NewTask(s, pc))
  BY DEF Stopping, NewTask, IdleTask
<1>6. ASSUME NEW w \in Workers, NEW t \in Task, GoesOn(w, t)
      PROVE  \E s \in Surveys : s = task'[v].survey /\ AskedFor(s)'
  <2>1. CASE v # w
    BY <1>1, <1>3, <1>6, <2>1 DEF GoesOn
  <2>2. CASE v = w
    <3>1. task'[v] = t
      BY <1>1, <1>6, <2>2 DEF GoesOn
    <3>2. /\ task[w].survey \in Surveys /\ t.survey = task[w].survey
          /\ Stopping(t) => Stopping(task[w]) \/ AskedFor(t.survey)
      BY <1>4, <1>6, <3>1 DEF GoesOn
    <3>3. PICK s \in Surveys : s = task'[v].survey /\ AskedFor(s)
      BY <2>2, <3>1, <3>2 DEF StopWasAsked
    <3> QED
      BY <1>2, <3>3
  <2> QED
    BY <2>1, <2>2
<1>7. ASSUME NEW w \in Workers, NEW s \in Surveys, NEW pc \in {"start", "archive"},
             task' = [task EXCEPT ![w] = NewTask(s, pc)]
      PROVE  task'[v] = task[v]
  BY <1>1, <1>5, <1>7
<1>8. ASSUME NEW h \in Hosts,
             task' = [w \in Workers |-> IF HostOf[w] = h THEN IdleTask ELSE task[w]]
      PROVE  task'[v] = task[v]
  BY <1>4, <1>8
<1> QED
  BY <1>3, <1>6, <1>7, <1>8, TaskMoves

\* The step of a worker that has claimed shows what its transaction shows.
LEMMA WorkerShows ==
    ASSUME StoreInv, StopWasAsked, TaskHasSurvey,
           NEW w \in Workers, WorkerBeats(w) \/ WorkerProceeds(w) \/ WorkerFails(w)
    PROVE  LifecycleStep
<1> DEFINE s == task[w].survey
<1>1. task[w].pc # "idle" \/ task[w].beat => s \in Surveys
  BY DEF TaskHasSurvey
<1>2. ASSUME UNCHANGED tables
      PROVE  LifecycleStep
  <2>1. \A t \in Surveys : Shown(t)' = Shown(t)
    BY <1>2 DEF tables, Shown, VerdictOf
  <2> QED
    BY <2>1, ShowsNothing
<1>3. ASSUME s \in Surveys,
             HeartbeatJob(s, w) \/ FinishArchive(s, w) \/ DeferArchive(s, w)
               \/ MarkWorkspaceMissing(s, w)
      PROVE  LifecycleStep
  BY <1>3, JobShows
<1>4. CASE WorkerBeats(w)
  BY <1>1, <1>2, <1>3, <1>4 DEF WorkerBeats
<1>5. CASE WorkerStarts(w) \/ WorkerExecutes(w) \/ WorkerFindsArchiveLost(w)
             \/ WorkerSweepsWorkspace(w) \/ WorkerGivesUpLease(w) \/ TaskEscapes(w)
  BY <1>2, <1>5 DEF WorkerStarts, WorkerExecutes, WorkerFindsArchiveLost, WorkerSweepsWorkspace,
                    WorkerGivesUpLease, TaskEscapes
<1>6. CASE WorkerSettles(w)
  <2>1. s \in Surveys /\ task[w].pc = "settle"
    BY <1>1, <1>6 DEF WorkerSettles
  <2>2. PICK outcome \in Outcomes, error \in Errors, chargeable \in BOOLEAN :
          /\ outcome = OutcomeOf(task[w].result)
          /\ \/ SettleExecution(s, w, outcome, error, chargeable)
             \/ UNCHANGED tables
    <3> DEFINE r == task[w].result
    <3>1. \/ SettleExecution(s, w, OutcomeOf(r), ErrorOf(r), ChargeableResult(r))
          \/ UNCHANGED tables
      BY <1>6 DEF WorkerSettles
    <3>2. OutcomeOf(r) \in Outcomes /\ ErrorOf(r) \in Errors /\ ChargeableResult(r) \in BOOLEAN
      BY ReportTypes
    <3> QED
      BY <3>1, <3>2
  <2>3. CASE SettleExecution(s, w, outcome, error, chargeable)
    <3>1. outcome = "cancelled" => AskedFor(s)
      BY <2>1, <2>2 DEF StopWasAsked, Stopping
    <3>2. job[s].status = "running"
      BY <2>3 DEF SettleExecution
    <3>3. outcome = "cancelled" => job[s].cancel
      BY <3>1, <3>2 DEF AskedFor
    <3> HIDE DEF s
    <3> QED
      BY <2>1, <2>3, <3>3, SettlementShows
  <2> QED
    BY <1>2, <2>2, <2>3
<1>7. CASE WorkerOpensArchive(w)
  BY <1>1, <1>2, <1>3, <1>7 DEF WorkerOpensArchive
<1>8. CASE WorkerFinishesArchive(w) \/ WorkerDefersArchive(w)
  BY <1>1, <1>3, <1>8 DEF WorkerFinishesArchive, WorkerDefersArchive
<1> QED
  BY <1>4, <1>5, <1>6, <1>7, <1>8 DEF WorkerProceeds, WorkerFails

\* Every step of the system is a step of the life cycle, or shows nothing.
LEMMA QueueShows ==
    ASSUME QueueInv, CancelsRan, StopWasAsked, [Next]_queueVars
    PROVE  LifecycleStep
<1>1. StoreInv /\ TaskHasSurvey
  BY DEF QueueInv
<1>2. ASSUME NEW s \in Surveys, UserStep(s)
      PROVE  LifecycleStep
  <2>1. Request(s)
    BY <1>2, QueueConstants DEF UserStep, Request
  <2> QED
    BY <1>1, <2>1, RequestShows
<1>3. ASSUME NEW s \in Surveys, SweepStep(s) \/ ClockStep(s)
      PROVE  LifecycleStep
  <2>1. \/ DraftWrite(s)
        \/ RecoverExpiredJob(s) \/ JobLeaseExpires(s) \/ ArchiveBecomesDue(s)
    BY <1>3 DEF SweepStep, ClockStep, DraftWrite
  <2> QED
    BY <1>1, <2>1, OtherShows, JobShows
<1>4. ASSUME NEW s \in Surveys, EmailStep(s) \/ OperatorStep(s)
      PROVE  LifecycleStep
  <2>1. Delivery(s) \/ Repair(s)
    BY <1>4 DEF EmailStep, OperatorStep, Delivery, Repair
  <2> QED
    BY <1>1, <2>1, OtherShows
<1>5. ASSUME UNCHANGED tables
      PROVE  LifecycleStep
  <2>1. \A t \in Surveys : Shown(t)' = Shown(t)
    BY <1>5 DEF tables, Shown, VerdictOf
  <2> QED
    BY <2>1, ShowsNothing
<1>6. ASSUME NEW w \in DraftWorkers,
             \/ \E s \in Surveys : DraftWorkerClaims(w, s)
             \/ DraftWorkerBeats(w) \/ DraftWorkerReturns(w)
      PROVE  LifecycleStep
  <2>1. UNCHANGED tables \/ \E s \in Surveys : DraftWrite(s)
    BY <1>6, DraftWorkerWrites DEF DraftWorkerClaims, DraftWrite
  <2> QED
    BY <1>1, <1>5, <2>1, OtherShows
<1>7. ASSUME NEW w \in Workers, NEW s \in Surveys, WorkerClaims(w, s)
      PROVE  LifecycleStep
  <2>1. ClaimJob(s, w)
    BY <1>7 DEF WorkerClaims
  <2> QED
    BY <1>1, <2>1, JobShows
<1>8. ASSUME NEW w \in Workers, WorkerBeats(w) \/ WorkerProceeds(w) \/ WorkerFails(w)
      PROVE  LifecycleStep
  BY <1>1, <1>8, WorkerShows
<1>9. (\E h \in Hosts : HostStops(h)) \/ UNCHANGED queueVars => UNCHANGED tables
  BY DEF HostStops, queueVars
<1> QED
  BY <1>2, <1>3, <1>4, <1>5, <1>6, <1>7, <1>8, <1>9 DEF Next

\* What the refinement rests on holds in every state.
ShowsInv == QueueInv /\ CancelsRan /\ StopWasAsked

LEMMA ShowsInvariant == Spec => []ShowsInv
<1>1. Init => ShowsInv
  <2>1. Init => CancelsRan
    BY DEF Init, StoreInit, NoJob, JobIn, CancelsRan
  <2>2. Init => StopWasAsked
    BY DEF Init, StopWasAsked, Stopping, IdleTask
  <2> QED
    BY <2>1, <2>2, QueueInitInv DEF ShowsInv
<1>2. ShowsInv /\ [Next]_queueVars => ShowsInv'
  <2> SUFFICES ASSUME ShowsInv, [Next]_queueVars
               PROVE  ShowsInv'
    OBVIOUS
  <2>1. QueueInv /\ CancelsRan /\ StopWasAsked
    BY DEF ShowsInv
  <2>2. QueueInv'
    BY <2>1, QueueStepInv
  <2>3. CancelsRan'
    BY <2>1, QueueStoreStep, CancelsStayRan DEF QueueInv
  <2>4. StopWasAsked'
    BY <2>1, StopWasAskedStep
  <2> QED
    BY <2>2, <2>3, <2>4 DEF ShowsInv
<1> QED
  BY <1>1, <1>2, PTL DEF Spec

-----------------------------------------------------------------------------
(* The report of a charged survey, when every worker runs on one host that *)
(* keeps its disk: nobody settles without the run directory, and nobody    *)
(* removes it before the archive is finished.                              *)

OneDurableHost == \E h \in DurableHosts : \A w \in Workers : HostOf[w] = h

Finished(s) == survey[s].status \in Terminal \cup {"deleted"}

OnDisk(s) == \A w \in Workers : <<HostOf[w], s>> \in workspace

\* A row and its job: a charge for nothing, and a charge whose report waits for its archive.
LostReport(sv, j) == sv.quota = "consumed" /\ j.outcome = "failed"
OwedReport(sv, j) == sv.quota = "consumed" /\ j.status = "archiving"

ReportsOnDisk ==
    \A s \in Surveys : /\ ~LostReport(survey[s], job[s])
                       /\ OwedReport(survey[s], job[s]) => OnDisk(s)

\* The task that may still settle its survey has the run directory, and one that is about
\* to remove it has finished with it for good.
TasksKeepDisk ==
    \A w \in Workers, s \in Surveys : task[w].survey = s =>
        /\ task[w].pc \in {"execute", "settle"} /\ job[s].status = "running" /\ job[s].owner = w
           => OnDisk(s)
        /\ task[w].pc = "sweep" => Finished(s)

DeliveryInv == QueueInv /\ ReportsOnDisk /\ TasksKeepDisk

\* A transaction neither loses a report nor makes one wait for its archive.
Quiet(t) ==
    /\ LostReport(survey'[t], job'[t]) => LostReport(survey[t], job[t])
    /\ OwedReport(survey'[t], job'[t]) => OwedReport(survey[t], job[t])

LEMMA QuietRows ==
    ASSUME StoreTypeOK, NEW s \in Surveys, NEW r, NEW j, Writes(s, r, j),
           LostReport(r, j) => LostReport(survey[s], job[s]),
           OwedReport(r, j) => OwedReport(survey[s], job[s])
    PROVE  \A t \in Surveys : Quiet(t)
<1>1. /\ survey'[s] = r /\ job'[s] = j
      /\ \A t \in Surveys \ {s} : survey'[t] = survey[t] /\ job'[t] = job[t]
  BY DEF Writes, StoreTypeOK
<1> QED
  BY <1>1 DEF Quiet

\* The user, the drafts, the operator and the emails do neither.
LEMMA RequestIsQuiet ==
    ASSUME StoreInv, NEW s \in Surveys, Request(s)
    PROVE  \A t \in Surveys : Quiet(t)
<1> DEFINE Goal == \A t \in Surveys : Quiet(t)
<1> SUFFICES Goal
  OBVIOUS
<1>1. StoreTypeOK /\ survey[s] \in SurveyRow /\ job[s] \in JobRow
  BY DEF StoreInv, StoreTypeOK
<1>2. ASSUME NEW r, NEW j, Writes(s, r, j), r.quota # "consumed"
      PROVE  Goal
  BY <1>1, <1>2, QuietRows DEF LostReport, OwedReport
<1>3. ASSUME NEW r, NEW j, Writes(s, r, j), j.outcome = "none", j.status # "archiving"
      PROVE  Goal
  BY <1>1, <1>3, QuietRows DEF LostReport, OwedReport
<1> HIDE DEF Goal
<1>4. CASE CreateSurvey(s)
  <2>1. Writes(s, SurveyIn("drafting", "reserved"), job[s])
    BY <1>4 DEF CreateSurvey, Writes
  <2>2. SurveyIn("drafting", "reserved").quota = "reserved"
    BY DEF SurveyIn
  <2> QED
    BY <1>2, <2>1, <2>2
<1>5. CASE RequestGeneratedDraft(s) \/ CreateManualDraft(s)
  <2>1. Writes(s, survey[s], job[s])
    BY <1>5 DEF RequestGeneratedDraft, CreateManualDraft, Writes
  <2> QED
    BY <1>1, <2>1, QuietRows DEF Goal
<1>6. ASSUME NEW notify \in BOOLEAN, StartSurvey(s, notify)
      PROVE  Goal
  <2>1. Writes(s, [survey[s] EXCEPT !.status = "queued", !.notify = notify], JobIn("queued"))
    BY <1>6 DEF StartSurvey, Writes
  <2>2. JobIn("queued").outcome = "none" /\ JobIn("queued").status = "queued"
    BY DEF JobIn
  <2> QED
    BY <1>3, <2>1, <2>2
<1>7. CASE RequestCancel(s)
  <2> DEFINE j == [job[s] EXCEPT !.cancel = TRUE]
  <2>1. Writes(s, survey[s], j)
    BY <1>7 DEF RequestCancel, Writes
  <2>2. j.outcome = job[s].outcome /\ j.status = job[s].status
    BY <1>1 DEF JobRow
  <2> HIDE DEF j
  <2> QED
    BY <1>1, <2>1, <2>2, QuietRows DEF LostReport, OwedReport, Goal
<1>8. ASSUME NEW r, Writes(s, r, NoJob)
      PROVE  Goal
  <2>1. NoJob.outcome = "none" /\ NoJob.status = "absent"
    BY DEF NoJob, JobIn
  <2> QED
    BY <1>3, <1>8, <2>1
<1>9. CASE CancelBeforeRun(s) \/ DeleteSurvey(s)
  <2>1. PICK r : Writes(s, r, NoJob)
    <3>1. PICK r : survey' = [survey EXCEPT ![s] = r] /\ job' = [job EXCEPT ![s] = NoJob]
      BY <1>9 DEF CancelBeforeRun, DeleteSurvey, DeleteBeforeRun, DeleteTerminal, DeleteRows
    <3> QED
      BY <3>1 DEF Writes
  <2> QED
    BY <1>8, <2>1
<1> QED
  BY <1>4, <1>5, <1>6, <1>7, <1>9 DEF Request, CancelSurvey

LEMMA OtherIsQuiet ==
    ASSUME StoreInv, NEW s \in Surveys, Repair(s) \/ DraftWrite(s) \/ Delivery(s)
    PROVE  \A t \in Surveys : Quiet(t)
<1>1. StoreTypeOK /\ survey[s] \in SurveyRow /\ job[s] \in JobRow
  BY DEF StoreInv, StoreTypeOK
<1>2. CASE DraftWrite(s) \/ Delivery(s)
  <2>1. survey' = survey /\ job' = job
    BY <1>2 DEF DraftWrite, ClaimDraft, HeartbeatDraft, CompleteDraft, FailDraft,
                RecoverExpiredDraft, DraftLeaseExpires, Delivery, ClaimNotification,
                CloseNotification, RetryNotification, MoveNotification
  <2> QED
    BY <2>1 DEF Quiet
<1>3. ASSUME NEW manifest \in {"original", "overlay"}, RecoverContractFailure(s, manifest)
      PROVE  \A t \in Surveys : Quiet(t)
  <2> DEFINE r == [survey[s] EXCEPT !.status = "succeeded", !.quota = "consumed", !.error = "none"]
             j == [job[s] EXCEPT !.outcome = "succeeded", !.error = "none", !.manifest = manifest]
  <2>1. Writes(s, r, j) /\ job[s].status = "finished"
    BY <1>3 DEF RecoverContractFailure, Writes
  <2>2. j.outcome = "succeeded" /\ j.status = job[s].status
    BY <1>1 DEF JobRow
  <2> HIDE DEF r, j
  <2> QED
    BY <1>1, <2>1, <2>2, QuietRows DEF LostReport, OwedReport
<1>4. CASE RepairDegradedEvidence(s)
  <2> DEFINE r == [survey[s] EXCEPT !.error = "none"]
             j == [job[s] EXCEPT !.error = "none", !.manifest = "overlay"]
  <2>1. Writes(s, r, j) /\ survey[s].quota = "released"
    BY <1>4 DEF RepairDegradedEvidence, Writes
  <2>2. r.quota = survey[s].quota
    BY <1>1 DEF SurveyRow
  <2> HIDE DEF r, j
  <2> QED
    BY <1>1, <2>1, <2>2, QuietRows DEF LostReport, OwedReport
<1> QED
  BY <1>2, <1>3, <1>4 DEF Repair

\* Neither does what happens to a job outside of its settlement, unless the run directory
\* is reported missing.
LEMMA JobIsQuiet ==
    ASSUME StoreInv, NEW s \in Surveys, NEW w,
           \/ RecoverExpiredJob(s) \/ JobLeaseExpires(s) \/ ArchiveBecomesDue(s)
           \/ ClaimJob(s, w) \/ HeartbeatJob(s, w) \/ FinishArchive(s, w) \/ DeferArchive(s, w)
    PROVE  \A t \in Surveys : Quiet(t)
<1>1. StoreTypeOK /\ survey[s] \in SurveyRow /\ job[s] \in JobRow
  BY DEF StoreInv, StoreTypeOK
<1>2. ASSUME NEW r, NEW j, Writes(s, r, j), r.quota \in {survey[s].quota, "released"},
             r.quota = "released" \/ j.outcome = job[s].outcome,
             r.quota = "released" \/ j.status # "archiving" \/ j.status = job[s].status
      PROVE  \A t \in Surveys : Quiet(t)
  BY <1>1, <1>2, QuietRows DEF LostReport, OwedReport
<1>3. CASE RecoverExpiredJob(s)
  <2>1. PICK v, e :
          Writes(s, [survey[s] EXCEPT !.status = "archiving", !.quota = "released", !.error = e],
                    [job[s] EXCEPT !.status = "archiving", !.due = TRUE, !.outcome = v,
                                   !.error = e, !.owner = NoWorker, !.lease = "none"])
    BY <1>3 DEF RecoverExpiredJob, Writes
  <2>2. [survey[s] EXCEPT !.status = "archiving", !.quota = "released", !.error = e].quota = "released"
    BY <1>1 DEF SurveyRow
  <2> QED
    BY <1>2, <2>1, <2>2
<1>4. CASE JobLeaseExpires(s) \/ ArchiveBecomesDue(s) \/ HeartbeatJob(s, w) \/ DeferArchive(s, w)
  <2>1. PICK j \in {[job[s] EXCEPT !.lease = "expired"], [job[s] EXCEPT !.due = TRUE],
                    [job[s] EXCEPT !.lease = "live"],
                    [job[s] EXCEPT !.owner = NoWorker, !.lease = "none", !.due = FALSE,
                                   !.error = "archive_pending"]} :
          Writes(s, survey[s], j)
    BY <1>4 DEF JobLeaseExpires, ArchiveBecomesDue, HeartbeatJob, DeferArchive, Writes
  <2>2. j.outcome = job[s].outcome /\ j.status = job[s].status
    BY <1>1, <2>1 DEF JobRow
  <2> QED
    BY <1>2, <2>1, <2>2
<1>5. CASE ClaimJob(s, w)
  <2> DEFINE r == [survey[s] EXCEPT !.status = "running"]
             j == [job[s] EXCEPT !.status = "running", !.owner = w, !.lease = "live"]
             k == [job[s] EXCEPT !.owner = w, !.lease = "live"]
  <2>1. Writes(s, r, j) \/ Writes(s, survey[s], k)
    BY <1>5 DEF ClaimJob, Writes
  <2>2. /\ r.quota = survey[s].quota
        /\ j.outcome = job[s].outcome /\ j.status = "running"
        /\ k.outcome = job[s].outcome /\ k.status = job[s].status
    BY <1>1 DEF SurveyRow, JobRow
  <2> HIDE DEF r, j, k
  <2> QED
    BY <1>2, <2>1, <2>2
<1>6. CASE FinishArchive(s, w)
  <2> DEFINE r == [survey[s] EXCEPT !.status = job[s].outcome]
             j == [job[s] EXCEPT !.status = "finished", !.owner = NoWorker, !.lease = "none",
                                 !.due = FALSE, !.manifest = "original"]
  <2>1. Writes(s, r, j) \/ Writes(s, survey[s], j)
    BY <1>6 DEF FinishArchive, Writes
  <2>2. r.quota = survey[s].quota /\ j.outcome = job[s].outcome /\ j.status = "finished"
    BY <1>1 DEF SurveyRow, JobRow
  <2> HIDE DEF r, j
  <2> QED
    BY <1>2, <2>1, <2>2
<1> QED
  BY <1>3, <1>4, <1>5, <1>6


-----------------------------------------------------------------------------
(* What is ended stays so, and a disk is emptied of finished surveys only. *)

LEMMA EndedStays ==
    ASSUME LifecycleStep, NEW s \in Surveys, PhaseOf(survey[s].status) \in {"ended", "gone"}
    PROVE  PhaseOf(survey'[s].status) \in {"ended", "gone"}
<1> DEFINE now == [t \in Surveys |-> PhaseOf(survey[t].status)]
           next == [t \in Surveys |-> PhaseOf(survey'[t].status)]
<1>1. now[s] \in {"ended", "gone"}
  OBVIOUS
<1>2. ASSUME UNCHANGED Lifecycle!vars
      PROVE  next[s] \in {"ended", "gone"}
  <2>1. next = now
    BY <1>2 DEF Lifecycle!vars
  <2> QED
    BY <1>1, <2>1
<1>3. ASSUME NEW t \in Surveys, NEW p, NEW c, NEW v, Lifecycle!Become(t, p, c, v),
             now[t] \in {"ended", "gone"} => p \in {"ended", "gone"}
      PROVE  next[s] \in {"ended", "gone"}
  <2>1. next = [now EXCEPT ![t] = p]
    BY <1>3 DEF Lifecycle!Become
  <2> HIDE DEF next
  <2> QED
    BY <1>1, <1>3, <2>1
<1>4. ASSUME NEW t \in Surveys, Lifecycle!AskToCancel(t)
      PROVE  next[s] \in {"ended", "gone"}
  <2>1. next = now
    BY <1>4 DEF Lifecycle!AskToCancel
  <2> QED
    BY <1>1, <2>1
<1>5. ASSUME NEW t \in Surveys, \/ Lifecycle!Open(t) \/ Lifecycle!Submit(t) \/ Lifecycle!Run(t)
                                \/ Lifecycle!Withdraw(t) \/ Lifecycle!LoseReport(t)
                                \/ Lifecycle!Publish(t) \/ Lifecycle!Amend(t) \/ Lifecycle!Remove(t)
      PROVE  next[s] \in {"ended", "gone"}
  <2>1. PICK p, c, v : /\ Lifecycle!Become(t, p, c, v)
                       /\ now[t] \in {"ended", "gone"} => p \in {"ended", "gone"}
    BY <1>5 DEF Lifecycle!Open, Lifecycle!Submit, Lifecycle!Run, Lifecycle!Withdraw,
                Lifecycle!LoseReport, Lifecycle!Publish, Lifecycle!Amend, Lifecycle!Remove
  <2> HIDE DEF now, next
  <2> QED
    BY <1>3, <2>1
<1>6. ASSUME NEW t \in Surveys, NEW v, NEW c, Lifecycle!Decide(t, v, c)
      PROVE  next[s] \in {"ended", "gone"}
  <2>1. now[t] = "running" /\ Lifecycle!Become(t, "decided", c, v)
    BY <1>6 DEF Lifecycle!Decide
  <2> HIDE DEF now, next
  <2> QED
    BY <1>3, <2>1
<1>7. next[s] \in {"ended", "gone"}
  <2> HIDE DEF next
  <2> QED
    BY <1>2, <1>4, <1>5, <1>6 DEF LifecycleStep, Lifecycle!Next
<1> QED
  BY <1>7

LEMMA FinishedStays ==
    ASSUME StoreTypeOK, StoreTypeOK', LifecycleStep, NEW s \in Surveys, Finished(s)
    PROVE  Finished(s)'
<1>1. survey[s] \in SurveyRow /\ survey'[s] \in SurveyRow
  BY DEF StoreTypeOK
<1>2. PhaseOf(survey[s].status) \in {"ended", "gone"}
  BY DEF Finished, PhaseOf, Terminal
<1>3. PhaseOf(survey'[s].status) \in {"ended", "gone"}
  BY <1>2, EndedStays
<1> QED
  BY <1>1, <1>3 DEF Finished, PhaseOf, Terminal, Active, SurveyRow

LEMMA FinishedIsAtRest ==
    ASSUME StoreInv, NEW s \in Surveys, Finished(s)
    PROVE  job[s].status \notin {"running", "archiving"}
BY DEF StoreInv, RowsFit, JobFollows, Finished, Terminal

\* Directories are removed by a task that has finished with its survey.
LEMMA DisksShrink ==
    ASSUME OneDurableHost, QueueInv, TasksKeepDisk, [Next]_queueVars, NEW s \in Surveys, OnDisk(s)
    PROVE  OnDisk(s)' \/ (Finished(s) /\ UNCHANGED tables)
<1> DEFINE Goal == OnDisk(s)' \/ (Finished(s) /\ UNCHANGED tables)
<1> SUFFICES Goal
  OBVIOUS
<1>1. ASSUME workspace \subseteq workspace'
      PROVE  Goal
  BY <1>1 DEF OnDisk
<1>2. ASSUME NEW w \in Workers, WorkerSweepsWorkspace(w)
      PROVE  Goal
  <2>1. task[w].pc = "sweep" /\ UNCHANGED tables
        /\ workspace' = workspace \ {<<HostOf[w], task[w].survey>>}
    BY <1>2 DEF WorkerSweepsWorkspace
  <2>2. CASE task[w].survey = s
    BY <2>1, <2>2 DEF TasksKeepDisk, Finished
  <2>3. CASE task[w].survey # s
    BY <2>1, <2>3 DEF OnDisk
  <2> QED
    BY <2>2, <2>3
<1>3. ASSUME NEW h \in Hosts, HostStops(h)
      PROVE  Goal
  <2>1. h \in DurableHosts
    BY <1>3 DEF HostStops, OneDurableHost
  <2>2. workspace' = workspace
    BY <1>3, <2>1 DEF HostStops
  <2> QED
    BY <1>1, <2>2
<1> HIDE DEF Goal
<1>4. ASSUME NEW t \in Surveys,
             UserStep(t) \/ SweepStep(t) \/ ClockStep(t) \/ EmailStep(t) \/ OperatorStep(t)
      PROVE  workspace' = workspace
  BY <1>4 DEF UserStep, SweepStep, ClockStep, EmailStep, OperatorStep
<1>5. ASSUME NEW w \in DraftWorkers,
             \/ \E t \in Surveys : DraftWorkerClaims(w, t)
             \/ DraftWorkerBeats(w) \/ DraftWorkerReturns(w)
      PROVE  workspace' = workspace
  BY <1>5, DraftWorkerWrites DEF DraftWorkerClaims
<1>6. ASSUME NEW w \in Workers,
             \/ \E t \in Surveys : WorkerClaims(w, t)
             \/ WorkerBeats(w) \/ WorkerFails(w)
             \/ WorkerStarts(w) \/ WorkerExecutes(w) \/ WorkerSettles(w) \/ WorkerOpensArchive(w)
             \/ WorkerFinishesArchive(w) \/ WorkerFindsArchiveLost(w)
      PROVE  workspace \subseteq workspace'
  BY <1>6 DEF WorkerClaims, WorkerBeats, WorkerFails, WorkerGivesUpLease, WorkerDefersArchive,
              TaskEscapes, WorkerStarts, WorkerExecutes, WorkerSettles, WorkerOpensArchive,
              WorkerFinishesArchive, WorkerFindsArchiveLost
<1>7. CASE UNCHANGED queueVars
  BY <1>1, <1>7 DEF queueVars
<1> QED
  BY <1>1, <1>2, <1>3, <1>4, <1>5, <1>6, <1>7 DEF Next, WorkerProceeds


-----------------------------------------------------------------------------
(* A charge is settled beside the run directory.                           *)

\* The settlement of s by the worker that has its result; it makes no report lost.
SettledBy(w, s) ==
    /\ task[w].survey = s /\ task[w].pc = "settle"
    /\ job[s].status = "running" /\ job[s].owner = w
    /\ ~LostReport(survey'[s], job'[s])
    /\ \A t \in Surveys \ {s} : Quiet(t)
    /\ workspace' = workspace

LEMMA SettlementKeepsReports ==
    ASSUME StoreTypeOK, NEW w \in Workers, NEW s \in Surveys, NEW outcome, NEW error, NEW chargeable,
           SettleExecution(s, w, outcome, error, chargeable),
           task[w].survey = s, task[w].pc = "settle", workspace' = workspace
    PROVE  SettledBy(w, s)
<1> DEFINE effective == EffectiveOutcome(s, outcome)
           consume == effective = "succeeded" /\ chargeable
           shown == EffectiveError(s, outcome, error)
           r == [survey[s] EXCEPT !.status = "archiving", !.error = shown,
                                  !.quota = IF consume THEN "consumed" ELSE "released"]
           j == [job[s] EXCEPT !.status = "archiving", !.outcome = effective,
                               !.error = shown, !.due = TRUE]
<1>1. survey[s] \in SurveyRow /\ job[s] \in JobRow
  BY DEF StoreTypeOK
<1>2. /\ survey' = [survey EXCEPT ![s] = r] /\ job' = [job EXCEPT ![s] = j]
      /\ job[s].status = "running" /\ job[s].owner = w
  BY DEF SettleExecution
<1>3. r.quota = (IF consume THEN "consumed" ELSE "released") /\ j.outcome = effective
  BY <1>1 DEF SurveyRow, JobRow
<1>4. ~LostReport(r, j)
  BY <1>3 DEF LostReport
<1> HIDE DEF r, j
<1>5. /\ survey'[s] = r /\ job'[s] = j
      /\ \A t \in Surveys \ {s} : survey'[t] = survey[t] /\ job'[t] = job[t]
  BY <1>2 DEF StoreTypeOK
<1>6. \A t \in Surveys \ {s} : Quiet(t)
  BY <1>5 DEF Quiet
<1> QED
  BY <1>2, <1>4, <1>5, <1>6 DEF SettledBy

\* A step of a worker is such a settlement, or quiet: it reports the run directory missing
\* only where no report can be owed.
LEMMA WorkerKeepsReports ==
    ASSUME DeliveryInv, NEW w \in Workers, WorkerBeats(w) \/ WorkerProceeds(w) \/ WorkerFails(w)
    PROVE  \/ \A t \in Surveys : Quiet(t)
           \/ \E s \in Surveys : SettledBy(w, s)
<1> DEFINE s == task[w].survey
           Goal == \/ \A t \in Surveys : Quiet(t)
                   \/ \E t \in Surveys : SettledBy(w, t)
<1> SUFFICES Goal
  OBVIOUS
<1>1. task[w].pc # "idle" \/ task[w].beat => s \in Surveys
  BY DEF DeliveryInv, QueueInv, TaskHasSurvey
<1>2. StoreInv /\ StoreTypeOK
  BY DEF DeliveryInv, QueueInv, StoreInv
<1>3. ASSUME UNCHANGED tables
      PROVE  Goal
  BY <1>3 DEF tables, Quiet
<1>4. ASSUME s \in Surveys, HeartbeatJob(s, w) \/ FinishArchive(s, w) \/ DeferArchive(s, w)
      PROVE  Goal
  BY <1>2, <1>4, JobIsQuiet
<1>5. CASE WorkerBeats(w)
  BY <1>1, <1>3, <1>4, <1>5 DEF WorkerBeats
<1>6. CASE WorkerStarts(w) \/ WorkerExecutes(w) \/ WorkerFindsArchiveLost(w)
             \/ WorkerSweepsWorkspace(w) \/ WorkerGivesUpLease(w) \/ TaskEscapes(w)
  BY <1>3, <1>6 DEF WorkerStarts, WorkerExecutes, WorkerFindsArchiveLost, WorkerSweepsWorkspace,
                    WorkerGivesUpLease, TaskEscapes
<1>7. CASE WorkerSettles(w)
  <2>1. s \in Surveys /\ task[w].pc = "settle" /\ workspace' = workspace
    BY <1>1, <1>7 DEF WorkerSettles
  <2>2. PICK outcome, error, chargeable :
          SettleExecution(s, w, outcome, error, chargeable) \/ UNCHANGED tables
    BY <1>7 DEF WorkerSettles
  <2>3. ASSUME SettleExecution(s, w, outcome, error, chargeable)
        PROVE  Goal
    BY <1>2, <2>1, <2>3, SettlementKeepsReports
  <2> QED
    BY <1>3, <2>2, <2>3
<1>8. ASSUME s \in Surveys, MarkWorkspaceMissing(s, w), <<HostOf[w], s>> \notin workspace
      PROVE  Goal
  <2> DEFINE r == [survey[s] EXCEPT !.error = "workspace_missing"]
             j == [job[s] EXCEPT !.outcome = "failed", !.error = "workspace_missing"]
  <2>1. survey[s] \in SurveyRow /\ job[s].status = "archiving" /\ ~OnDisk(s)
    BY <1>2, <1>8 DEF StoreTypeOK, MarkWorkspaceMissing, OwnsArchive, OnDisk
  <2>2. survey[s].quota # "consumed"
    BY <1>8, <2>1 DEF DeliveryInv, ReportsOnDisk, OwedReport
  <2>3. Writes(s, r, j)
    BY <1>8 DEF MarkWorkspaceMissing, Writes
  <2>4. r.quota # "consumed"
    BY <2>1, <2>2 DEF SurveyRow
  <2> HIDE DEF r, j
  <2>5. \A t \in Surveys : Quiet(t)
    BY <1>2, <1>8, <2>3, <2>4, QuietRows DEF LostReport, OwedReport
  <2> QED
    BY <2>5
<1>9. CASE WorkerOpensArchive(w)
  BY <1>1, <1>3, <1>8, <1>9 DEF WorkerOpensArchive
<1>10. CASE WorkerFinishesArchive(w) \/ WorkerDefersArchive(w)
  BY <1>1, <1>4, <1>10 DEF WorkerFinishesArchive, WorkerDefersArchive
<1> HIDE DEF Goal
<1> QED
  BY <1>5, <1>6, <1>7, <1>9, <1>10 DEF WorkerProceeds, WorkerFails

LEMMA StepKeepsReports ==
    ASSUME DeliveryInv, [Next]_queueVars
    PROVE  \/ \A t \in Surveys : Quiet(t)
           \/ \E w \in Workers, s \in Surveys : SettledBy(w, s)
<1> DEFINE Calm == \A t \in Surveys : Quiet(t)
<1>1. StoreInv /\ QueueInv
  BY DEF DeliveryInv, QueueInv
<1>2. ASSUME NEW s \in Surveys, UserStep(s)
      PROVE  Calm
  <2>1. Request(s)
    BY <1>2, QueueConstants DEF UserStep, Request
  <2> QED
    BY <1>1, <2>1, RequestIsQuiet
<1>3. ASSUME NEW s \in Surveys, SweepStep(s) \/ ClockStep(s)
      PROVE  Calm
  <2>1. \/ DraftWrite(s)
        \/ RecoverExpiredJob(s) \/ JobLeaseExpires(s) \/ ArchiveBecomesDue(s)
    BY <1>3 DEF SweepStep, ClockStep, DraftWrite
  <2> QED
    BY <1>1, <2>1, OtherIsQuiet, JobIsQuiet
<1>4. ASSUME NEW s \in Surveys, EmailStep(s) \/ OperatorStep(s)
      PROVE  Calm
  <2>1. Delivery(s) \/ Repair(s)
    BY <1>4 DEF EmailStep, OperatorStep, Delivery, Repair
  <2> QED
    BY <1>1, <2>1, OtherIsQuiet
<1>5. ASSUME UNCHANGED tables
      PROVE  Calm
  BY <1>5 DEF tables, Quiet
<1>6. ASSUME NEW w \in DraftWorkers,
             \/ \E s \in Surveys : DraftWorkerClaims(w, s)
             \/ DraftWorkerBeats(w) \/ DraftWorkerReturns(w)
      PROVE  Calm
  <2>1. UNCHANGED tables \/ \E s \in Surveys : DraftWrite(s)
    BY <1>1, <1>6, DraftWorkerWrites DEF DraftWorkerClaims, DraftWrite
  <2> QED
    BY <1>1, <1>5, <2>1, OtherIsQuiet
<1>7. ASSUME NEW w \in Workers, NEW s \in Surveys, WorkerClaims(w, s)
      PROVE  Calm
  <2>1. ClaimJob(s, w)
    BY <1>7 DEF WorkerClaims
  <2> QED
    BY <1>1, <2>1, JobIsQuiet
<1>8. (\E h \in Hosts : HostStops(h)) \/ UNCHANGED queueVars => UNCHANGED tables
  BY DEF HostStops, queueVars
<1> HIDE DEF Calm
<1>9. Calm \/ \E w \in Workers, s \in Surveys : SettledBy(w, s)
  BY <1>2, <1>3, <1>4, <1>5, <1>6, <1>7, <1>8, WorkerKeepsReports DEF Next, Calm
<1> QED
  BY <1>9 DEF Calm


LEMMA ReportsStay ==
    ASSUME OneDurableHost, DeliveryInv, [Next]_queueVars
    PROVE  ReportsOnDisk'
<1>1. QueueInv /\ StoreInv /\ TasksKeepDisk /\ ReportsOnDisk
  BY DEF DeliveryInv, QueueInv
<1> SUFFICES ASSUME NEW t \in Surveys
             PROVE  /\ ~LostReport(survey'[t], job'[t])
                    /\ OwedReport(survey'[t], job'[t]) => OnDisk(t)'
  BY DEF ReportsOnDisk
<1>2. CASE Quiet(t)
  <2>1. ~LostReport(survey'[t], job'[t])
    BY <1>1, <1>2 DEF ReportsOnDisk, Quiet
  <2>2. ASSUME OwedReport(survey'[t], job'[t])
        PROVE  OnDisk(t)'
    <3>1. job[t].status = "archiving" /\ OnDisk(t)
      BY <1>1, <1>2, <2>2 DEF ReportsOnDisk, Quiet, OwedReport
    <3> QED
      BY <1>1, <3>1, DisksShrink, FinishedIsAtRest
  <2> QED
    BY <2>1, <2>2
<1>3. ASSUME NEW w \in Workers, SettledBy(w, t)
      PROVE  ~LostReport(survey'[t], job'[t]) /\ OnDisk(t)'
  <2>1. OnDisk(t)
    BY <1>1, <1>3 DEF SettledBy, TasksKeepDisk
  <2> QED
    BY <1>3, <2>1 DEF SettledBy, OnDisk
<1> QED
  BY <1>2, <1>3, StepKeepsReports DEF SettledBy

-----------------------------------------------------------------------------
(* Tasks and their run directories.                                        *)

\* How a task gets from one stage to the next.
LEMMA StageSteps ==
    ASSUME QueueInv, [Next]_queueVars, NEW w \in Workers, task'[w].pc # task[w].pc
    PROVE  /\ task'[w].pc = "execute" => WorkerStarts(w)
           /\ task'[w].pc = "sweep" => WorkerFinishesArchive(w)
           /\ task'[w].pc = "settle" => task[w].pc = "execute"
           /\ task'[w].pc \in {"execute", "settle", "sweep"} => task'[w].survey = task[w].survey
<1> DEFINE Goal == /\ task'[w].pc = "execute" => WorkerStarts(w)
                   /\ task'[w].pc = "sweep" => WorkerFinishesArchive(w)
                   /\ task'[w].pc = "settle" => task[w].pc = "execute"
                   /\ task'[w].pc \in {"execute", "settle", "sweep"} => task'[w].survey = task[w].survey
<1> SUFFICES Goal
  OBVIOUS
<1>1. task \in [Workers -> Task] /\ task[w] \in Task
  BY DEF QueueInv, TaskTypes
<1>2. ASSUME task'[w].pc \notin {"execute", "settle", "sweep"}
      PROVE  Goal
  BY <1>2
<1>3. ASSUME NEW v, NEW t, task' = [task EXCEPT ![v] = t]
      PROVE  v = w /\ task'[w] = t
  BY <1>1, <1>3
<1> HIDE DEF Goal
<1>4. IdleTask.pc = "idle"
  BY DEF IdleTask
<1>5. ASSUME NEW v, Ends(v)
      PROVE  Goal
  <2>1. task'[w] = IdleTask
    BY <1>3, <1>5 DEF Ends, SetTask
  <2> QED
    BY <1>2, <1>4, <2>1
<1>6. ASSUME NEW v, NEW pc, SetTask(v, [task[v] EXCEPT !.pc = pc])
      PROVE  v = w /\ task'[w].pc = pc /\ task'[w].survey = task[w].survey
  <2>1. v = w /\ task'[w] = [task[w] EXCEPT !.pc = pc]
    BY <1>3, <1>6 DEF SetTask
  <2> QED
    BY <1>1, <2>1 DEF Task
<1>7. ASSUME NEW v, NEW pc, NEW r, SetTask(v, [task[v] EXCEPT !.pc = pc, !.result = r])
      PROVE  v = w /\ task'[w].pc = pc /\ task'[w].survey = task[w].survey
  <2>1. v = w /\ task'[w] = [task[w] EXCEPT !.pc = pc, !.result = r]
    BY <1>3, <1>7 DEF SetTask
  <2> QED
    BY <1>1, <2>1 DEF Task
<1>8. ASSUME task' = task
      PROVE  FALSE
  BY <1>8
<1>9. ASSUME NEW v, \/ SetTask(v, [task[v] EXCEPT !.beat = FALSE, !.stop = TRUE])
                    \/ SetTask(v, [task[v] EXCEPT !.beat = FALSE, !.lost = TRUE])
      PROVE  FALSE
  <2>1. \/ task'[w] = [task[w] EXCEPT !.beat = FALSE, !.stop = TRUE]
        \/ task'[w] = [task[w] EXCEPT !.beat = FALSE, !.lost = TRUE]
    BY <1>3, <1>9 DEF SetTask
  <2> QED
    BY <1>1, <2>1 DEF Task
<1>10. ASSUME NEW v \in Workers, NEW s \in Surveys, WorkerClaims(v, s)
       PROVE  Goal
  <2>1. PICK pc \in {"start", "archive"} : task' = [task EXCEPT ![v] = NewTask(s, pc)]
    BY <1>10 DEF WorkerClaims, SetTask
  <2>2. task'[w].pc \in {"start", "archive"}
    BY <1>3, <2>1 DEF NewTask, IdleTask
  <2> QED
    BY <1>2, <2>2
<1>11. ASSUME NEW v \in Workers, WorkerBeats(v) \/ WorkerGivesUpLease(v)
       PROVE  FALSE
  BY <1>8, <1>9, <1>11 DEF WorkerBeats, WorkerGivesUpLease
<1>12. ASSUME NEW v \in Workers, WorkerStarts(v)
       PROVE  Goal
  BY <1>6, <1>12 DEF WorkerStarts, Goal
<1>13. ASSUME NEW v \in Workers, WorkerExecutes(v)
       PROVE  Goal
  BY <1>5, <1>7, <1>13 DEF WorkerExecutes, Goal
<1>14. ASSUME NEW v \in Workers, WorkerSettles(v)
       PROVE  Goal
  BY <1>5, <1>7, <1>14 DEF WorkerSettles, Goal
<1>15. ASSUME NEW v \in Workers, WorkerOpensArchive(v)
       PROVE  Goal
  BY <1>5, <1>6, <1>15 DEF WorkerOpensArchive, Goal
<1>16. ASSUME NEW v \in Workers, WorkerFinishesArchive(v)
       PROVE  Goal
  BY <1>6, <1>16 DEF WorkerFinishesArchive, Goal
<1>17. ASSUME NEW v \in Workers, \/ WorkerDefersArchive(v) \/ WorkerFindsArchiveLost(v)
                                 \/ WorkerSweepsWorkspace(v) \/ TaskEscapes(v)
       PROVE  Goal
  BY <1>5, <1>17 DEF WorkerDefersArchive, WorkerFindsArchiveLost, WorkerSweepsWorkspace, TaskEscapes
<1>18. ASSUME NEW h \in Hosts, HostStops(h)
       PROVE  Goal
  <2>1. task'[w] = IdleTask
    BY <1>18 DEF HostStops
  <2> QED
    BY <1>2, <1>4, <2>1
<1>19. ASSUME NEW s \in Surveys,
             UserStep(s) \/ SweepStep(s) \/ ClockStep(s) \/ EmailStep(s) \/ OperatorStep(s)
       PROVE  FALSE
  BY <1>8, <1>19 DEF UserStep, SweepStep, ClockStep, EmailStep, OperatorStep
<1>20. ASSUME NEW v \in DraftWorkers,
              \/ \E s \in Surveys : DraftWorkerClaims(v, s)
              \/ DraftWorkerBeats(v) \/ DraftWorkerReturns(v)
       PROVE  FALSE
  BY <1>8, <1>20, DraftWorkerWrites DEF DraftWorkerClaims
<1>21. ~UNCHANGED queueVars
  BY <1>8 DEF queueVars
<1> QED
  BY <1>10, <1>11, <1>12, <1>13, <1>14, <1>15, <1>16, <1>17, <1>18, <1>19, <1>20, <1>21
     DEF Next, WorkerProceeds, WorkerFails

\* A task that stays in its stage stays with its survey.
LEMMA SameStage ==
    ASSUME QueueInv, [Next]_queueVars, NEW w \in Workers,
           task'[w].pc = task[w].pc, task[w].pc # "idle"
    PROVE  task'[w].survey = task[w].survey
<1>1. task \in [Workers -> Task]
  BY DEF QueueInv, TaskTypes
<1>2. IdleTask.pc = "idle"
  BY DEF IdleTask
<1>3. ASSUME NEW v \in Workers, NEW t \in Task, GoesOn(v, t)
      PROVE  task'[w].survey = task[w].survey
  BY <1>1, <1>2, <1>3 DEF GoesOn
<1>4. ASSUME NEW v \in Workers, task[v].pc = "idle", NEW t,
             task' = [task EXCEPT ![v] = t]
      PROVE  task'[w].survey = task[w].survey
  BY <1>1, <1>4
<1>5. ASSUME NEW h \in Hosts,
             task' = [v \in Workers |-> IF HostOf[v] = h THEN IdleTask ELSE task[v]]
      PROVE  task'[w].survey = task[w].survey
  BY <1>2, <1>5
<1> QED
  BY <1>3, <1>4, <1>5, TaskMoves

LEMMA TasksKeepDiskStep ==
    ASSUME OneDurableHost, DeliveryInv, LifecycleStep, [Next]_queueVars, QueueInv'
    PROVE  TasksKeepDisk'
<1>1. QueueInv /\ StoreInv /\ TasksKeepDisk /\ task \in [Workers -> Task]
  BY DEF DeliveryInv, QueueInv, TaskTypes
<1>2. StoreTypeOK /\ StoreTypeOK' /\ (StoreNext \/ UNCHANGED tables)
  BY <1>1, QueueStoreStep DEF QueueInv, StoreInv
<1> SUFFICES ASSUME NEW w \in Workers, NEW s \in Surveys, task'[w].survey = s
             PROVE  /\ task'[w].pc \in {"execute", "settle"} /\ job'[s].status = "running"
                         /\ job'[s].owner = w => OnDisk(s)'
                    /\ task'[w].pc = "sweep" => Finished(s)'
  BY DEF TasksKeepDisk
<1>3. ASSUME task'[w].pc \in {"execute", "settle"}, job'[s].status = "running", job'[s].owner = w
      PROVE  OnDisk(s)'
  <2>1. CASE WorkerStarts(w)
    <3>1. workspace' = workspace \cup {<<HostOf[w], s>>}
      <4>1. task'[w].survey = task[w].survey
        BY <1>1, <2>1 DEF WorkerStarts, SetTask, Task
      <4> QED
        BY <2>1, <4>1 DEF WorkerStarts
    <3>2. \A v \in Workers : HostOf[v] = HostOf[w]
      BY DEF OneDurableHost
    <3> QED
      BY <3>1, <3>2 DEF OnDisk
  <2>2. CASE ~WorkerStarts(w)
    <3>1. task[w].pc \in {"execute", "settle"} /\ task[w].survey = s
      <4>1. CASE task'[w].pc = task[w].pc
        <5>1. task'[w].survey = task[w].survey
          BY <1>1, <1>3, <4>1, SameStage
        <5> QED
          BY <1>3, <4>1, <5>1
      <4>2. CASE task'[w].pc # task[w].pc
        BY <1>1, <1>3, <2>2, <4>2, StageSteps
      <4> QED
        BY <4>1, <4>2
    <3>2. survey[s].status \notin BeforeRun
      BY <1>1, <3>1 DEF QueueInv, ExecutedWasClaimed, Executing
    <3>3. StaysRunning(job[s], job'[s])
      BY <1>1, <1>2, <1>3, <3>2, RunningJobs DEF ClaimedFromQueue, BeforeRun
    <3>4. job[s].status = "running" /\ job[s].owner = w
      BY <1>3, <3>3 DEF StaysRunning
    <3>5. OnDisk(s)
      BY <1>1, <3>1, <3>4 DEF TasksKeepDisk
    <3> QED
      BY <1>1, <3>4, <3>5, DisksShrink, FinishedIsAtRest
  <2> QED
    BY <2>1, <2>2
<1>4. ASSUME task'[w].pc = "sweep"
      PROVE  Finished(s)'
  <2>1. CASE task[w].pc = "sweep"
    <3>1. task[w].survey = s
      BY <1>1, <1>4, <2>1, SameStage
    <3>2. Finished(s)
      BY <1>1, <2>1, <3>1 DEF TasksKeepDisk
    <3> QED
      BY <1>2, <3>2, FinishedStays
  <2>2. CASE task[w].pc # "sweep"
    <3>1. WorkerFinishesArchive(w) /\ task[w].survey = s
      BY <1>1, <1>4, <2>2, StageSteps
    <3>2. FinishArchive(s, w)
      BY <3>1 DEF WorkerFinishesArchive
    <3>3. survey[s].status = "archiving" /\ job[s].outcome \in Terminal
      BY <1>1, <3>2 DEF StoreInv, StoreTypeOK, JobRow, RowsFit, JobFollows, JobForm, FinishArchive,
                        OwnsArchive, Outcomes
    <3>4. survey' = [survey EXCEPT ![s].status = job[s].outcome] /\ survey[s] \in SurveyRow
      BY <1>2, <3>2, <3>3 DEF FinishArchive, StoreTypeOK
    <3>5. survey'[s].status = job[s].outcome
      BY <1>2, <3>4 DEF StoreTypeOK, SurveyRow
    <3> QED
      BY <3>3, <3>5 DEF Finished
  <2> QED
    BY <2>1, <2>2
<1> QED
  BY <1>3, <1>4

LEMMA DeliveryInvariant ==
    ASSUME OneDurableHost
    PROVE  Spec => []DeliveryInv
<1>1. Init => DeliveryInv
  <2> SUFFICES ASSUME Init
               PROVE  DeliveryInv
    OBVIOUS
  <2>1. ReportsOnDisk
    BY DEF Init, StoreInit, NoSurvey, SurveyIn, ReportsOnDisk, LostReport, OwedReport
  <2>2. TasksKeepDisk
    BY DEF Init, IdleTask, TasksKeepDisk
  <2> QED
    BY <2>1, <2>2, QueueInitInv DEF DeliveryInv
<1>2. DeliveryInv /\ ShowsInv /\ ShowsInv' /\ [Next]_queueVars => DeliveryInv'
  <2> SUFFICES ASSUME DeliveryInv, ShowsInv, ShowsInv', [Next]_queueVars
               PROVE  DeliveryInv'
    OBVIOUS
  <2>1. QueueInv /\ QueueInv' /\ CancelsRan /\ StopWasAsked
    BY DEF ShowsInv
  <2>2. LifecycleStep
    BY <2>1, QueueShows
  <2>3. TasksKeepDisk'
    BY <2>1, <2>2, TasksKeepDiskStep
  <2>4. ReportsOnDisk'
    BY ReportsStay
  <2> QED
    BY <2>1, <2>3, <2>4 DEF DeliveryInv
<1> QED
  BY <1>1, <1>2, ShowsInvariant, PTL DEF Spec

-----------------------------------------------------------------------------
(* The theorems.                                                           *)

\* Type correctness: tables, tasks, run directories and the history of recoveries.
THEOREM TypeCorrect == Spec => []TypeOK
<1>1. QueueInv => TypeOK
  BY DEF QueueInv, StoreInv, TaskTypes, TypeOK
<1> QED
  BY <1>1, QueueInvariant, PTL

\* The two counters of survey_daily_usage always count exactly the surveys of the day
\* that hold a reservation and those that were charged.
THEOREM LedgerIsBalanced == Spec => []LedgerBalanced
<1>1. QueueInv => LedgerBalanced
  BY DEF QueueInv, StoreInv
<1> QED
  BY <1>1, QueueInvariant, PTL

\* No interleaving trips over the constraint surveys_quota_terminal of migration 013.
THEOREM QuotaStateFollows == Spec => []QuotaFollowsStatus
<1>1. QueueInv => QuotaFollowsStatus
  BY DEF QueueInv, StoreInv
<1> QED
  BY <1>1, QueueInvariant, PTL

\* A survey, its job and its active draft never disagree.
THEOREM RowsAlwaysAgree == Spec => []RowsAgree
<1>1. QueueInv => RowsAgree
  BY DEF QueueInv, StoreInv, RowsFit, RunningIsOwned, RowsAgree
<1> QED
  BY <1>1, QueueInvariant, PTL

\* A run whose cancellation was accepted is never charged nor shown as a success.
THEOREM CancelledIsFree == Spec => []CancelledNeverCharged
<1>1. QueueInv => CancelledNeverCharged
  BY DEF QueueInv, StoreInv
<1> QED
  BY <1>1, QueueInvariant, PTL

\* An email row agrees with the survey it is about, and was asked for.
THEOREM EmailsAreTruthful == Spec => []NotificationTruthful
<1>1. QueueInv => NotificationTruthful
  BY DEF QueueInv, StoreInv
<1> QED
  BY <1>1, QueueInvariant, PTL

\* A day's reservations and charges exceed the limit only by what the operator recovered.
THEOREM DailyLimitIsKept == Spec => []DailyLimitHolds
<1>1. QueueInv => DailyLimitHolds
  BY DEF QueueInv
<1> QED
  BY <1>1, QueueInvariant, PTL

\* No two claims execute the same survey, whatever leases run out and whatever hosts die.
THEOREM ExecutionIsUnique == Spec => []ExecutedOnce
<1>1. QueueInv => ExecutedOnce
  BY DEF QueueInv
<1> QED
  BY <1>1, QueueInvariant, PTL

\* No step of a worker changes a job that another worker holds by a live lease.
THEOREM LeasesFence == Spec => LiveLeaseFences
<1>1. QueueInv /\ [Next]_queueVars => [Fenced]_queueVars
  BY FencedStep
<1>2. [][Fenced]_queueVars => LiveLeaseFences
  BY PTL DEF Fenced, LiveLeaseFences
<1> QED
  BY <1>1, <1>2, QueueInvariant, PTL DEF Spec

NeverOrphaned ==
    \A s \in Surveys :
        /\ job[s].status \in {"archiving", "finished"}
        /\ job'[s].status \notin {"archiving", "finished"}
        => s \in cleanup'

\* A job that has begun to archive leaves the database only when it is listed for cleanup.
THEOREM ArchivesAreTracked == Spec => ArchiveNeverOrphaned
<1>1. QueueInv /\ [Next]_queueVars => [NeverOrphaned]_tables
  BY QueueStoreStep, ArchivedStays DEF QueueInv, NeverOrphaned, Archived
<1>2. [][NeverOrphaned]_tables => ArchiveNeverOrphaned
  BY PTL DEF NeverOrphaned, ArchiveNeverOrphaned
<1> QED
  BY <1>1, <1>2, QueueInvariant, PTL DEF Spec

\* The whole system keeps the promise of SurveyLifecycle to the owner of a survey.
THEOREM KeepsLifecycle == Spec => ImplementsLifecycle
<1>1. Init => Lifecycle!Init
  <2> SUFFICES ASSUME Init
               PROVE  Lifecycle!Init
    OBVIOUS
  <2>1. \A s \in Surveys :
          /\ PhaseOf(survey[s].status) = "none" /\ ChargeOf(survey[s].quota) = "none"
          /\ VerdictOf(s) = "none" /\ job[s].cancel = FALSE
    BY DEF Init, StoreInit, NoSurvey, SurveyIn, NoJob, JobIn, PhaseOf, ChargeOf, VerdictOf,
           Terminal
  <2> QED
    BY <2>1 DEF Lifecycle!Init
<1>2. ShowsInv /\ [Next]_queueVars => [Lifecycle!Next]_(Lifecycle!vars)
  BY QueueShows DEF ShowsInv, LifecycleStep
<1> QED
  BY <1>1, <1>2, ShowsInvariant, PTL DEF Spec, ImplementsLifecycle, Lifecycle!Spec

\* When one host with a durable disk runs every worker, a charged survey is never shown
\* as failed, and its report is archived or waits on that disk.
THEOREM ChargesAreDelivered ==
    ASSUME OneDurableHost
    PROVE  Spec => []ChargedMeansDelivered
<1>1. DeliveryInv => ChargedMeansDelivered
  <2> SUFFICES ASSUME DeliveryInv, NEW s \in Surveys, survey[s].quota = "consumed"
               PROVE  survey[s].status \in {"archiving", "succeeded", "deleted"} /\ job[s].outcome # "failed"
    BY DEF ChargedMeansDelivered
  <2>1. /\ survey[s] \in SurveyRow /\ QuotaFits(survey[s])
        /\ JobFollows(survey[s].status, job[s])
    BY DEF DeliveryInv, QueueInv, StoreInv, StoreTypeOK, QuotaFollowsStatus, RowsFit
  <2>2. job[s].outcome # "failed"
    BY DEF DeliveryInv, ReportsOnDisk, LostReport
  <2>3. survey[s].status \notin Active \cup {"absent", "cancelled"}
    BY <2>1 DEF QuotaFits
  <2>4. survey[s].status # "failed"
    BY <2>1, <2>2 DEF JobFollows
  <2> QED
    BY <2>1, <2>2, <2>3, <2>4 DEF SurveyRow, Terminal
<1> QED
  BY <1>1, DeliveryInvariant, PTL

-----------------------------------------------------------------------------
(* The inductive invariant.                                                *)

ComputeTypes ==
    /\ task \in [Workers -> Task]
    /\ attempt \in [Attempts -> Attempt]
    /\ ecs \in [Attempts -> {"none", "pending", "running"} \cup Stopped]
    /\ control \in Control
    /\ deadline \in [Surveys -> {"none", "ahead", "passed"}]

\* An attempt that is inserted and not removed has a survey, and only such a one is tracked.
AttemptHasSurvey ==
    \A a \in Attempts :
        IF attempt[a].status \in {"free", "gone"} THEN ~attempt[a].tracked
                                                  ELSE attempt[a].survey \in Surveys

\* A task that does something is one that ECS runs.
TasksRun == \A a \in Attempts : ecs[a] # "running" => task[a] = IdleTask

\* A task that is not done with its job holds a running attempt for it, and the job has
\* not been finished under it: nobody else can have finished it.
Busy(a) == task[a].pc \in {"start", "execute", "settle", "archive", "upload"}

BusyHoldsAttempt ==
    \A a \in Attempts : Busy(a) =>
        /\ attempt[a].status = "running"
        /\ attempt[a].survey = task[a].survey
        /\ job[task[a].survey].status \in {"running", "archiving"}

\* A job has one attempt that counts.
OneActive == \A s \in Surveys : \A a, b \in ActiveOf(s) : a = b

\* The control cycle reacts to the failure of a task after that task has stopped.
StopHasHappened ==
    control.pc = "stop" => /\ control.attempt \in Attempts
                           /\ ecs[control.attempt] \in {"error", "oom"}
                           /\ attempt[control.attempt].status # "free"

\* The attempts that count are within the limits.
OccupiedBy(u) == {a \in Occupied : UserOf[attempt[a].survey] = u}

WithinLimits ==
    /\ IsFiniteSet(Occupied)
    /\ Cardinality(Occupied) <= GlobalConcurrency
    /\ \A u \in Users : Cardinality(OccupiedBy(u)) <= PerUserConcurrency

ComputeInv ==
    /\ StoreInv
    /\ CancelsRan
    /\ ComputeTypes
    /\ TaskHasSurvey
    /\ StopWasAsked
    /\ AttemptHasSurvey
    /\ TasksRun
    /\ BusyHoldsAttempt
    /\ OneActive
    /\ StopHasHappened
    /\ WithinLimits

-----------------------------------------------------------------------------
(* The transactions that only this mode has: an attempt takes a job over,  *)
(* also a running one, and the control cycle takes its claim away.         *)

\* The lease of a job moves, and a queued one begins to run; its outcome, its
\* cancellation and what the survey is charged stay.
LeaseMoves(s, r, j) ==
    /\ Writes(s, r, j)
    /\ UNCHANGED <<ledger, draft, notification, cleanup>>
    /\ r = [survey[s] EXCEPT !.status = r.status]
    /\ j = [job[s] EXCEPT !.status = j.status, !.owner = j.owner, !.lease = j.lease]
    /\ \/ r.status = survey[s].status /\ j.status = job[s].status
       \/ survey[s].status = "queued" /\ r.status = "running" /\ j.status = "running"
    /\ \/ j.owner \in Workers /\ j.lease = "live" /\ j.status \in {"running", "archiving"}
       \/ j.owner = NoWorker /\ j.lease = "none"

\* The tables keep their invariant, and so does what the life cycle rests on.
LEMMA LeaseMoveInv ==
    ASSUME StoreInv, CancelsRan, NEW s \in Surveys, NEW r, NEW j, LeaseMoves(s, r, j)
    PROVE  StoreInv' /\ CancelsRan' /\ \A t \in Surveys : AskedFor(t) => AskedFor(t)'
<1>1. /\ StoreTypeOK /\ survey[s] \in SurveyRow /\ job[s] \in JobRow
      /\ QuotaFits(survey[s]) /\ CancelFits(survey[s], job[s])
      /\ EmailFits(survey[s], notification[s])
      /\ JobFollows(survey[s].status, job[s]) /\ JobForm(job[s])
      /\ DraftFollows(survey[s].status, draft[s]) /\ notification[s] \in NotificationRow
  BY DEF StoreInv, StoreTypeOK, QuotaFollowsStatus, CancelledNeverCharged, NotificationTruthful,
         RowsFit
<1>2. /\ survey'[s] = r /\ job'[s] = j
      /\ \A t \in Surveys \ {s} : survey'[t] = survey[t] /\ job'[t] = job[t]
  BY <1>1 DEF LeaseMoves, Writes, StoreTypeOK
<1>3. /\ UNCHANGED <<reserved, succeeded, draft, notification, cleanup>>
      /\ \/ r.status = survey[s].status /\ j.status = job[s].status
         \/ survey[s].status = "queued" /\ r.status = "running" /\ j.status = "running"
  BY DEF LeaseMoves, ledger
<1>4. /\ r.quota = survey[s].quota /\ r.notify = survey[s].notify /\ r.error = survey[s].error
      /\ r \in SurveyRow
  BY <1>1, <1>3 DEF LeaseMoves, SurveyRow, Active
<1>5. /\ j.cancel = job[s].cancel /\ j.outcome = job[s].outcome /\ j.error = job[s].error
      /\ j.due = job[s].due /\ j.manifest = job[s].manifest
  BY <1>1 DEF LeaseMoves, JobRow
<1>6. \/ j.owner \in Workers /\ j.lease = "live" /\ j.status \in {"running", "archiving"}
      \/ j.owner = NoWorker /\ j.lease = "none"
  BY DEF LeaseMoves
<1>7. j \in JobRow
  <2>1. j.status \in {"absent", "queued", "running", "archiving", "finished"}
    BY <1>1, <1>3 DEF JobRow
  <2>2. j.owner \in Workers \cup {NoWorker} /\ j.lease \in Leases
    BY <1>6 DEF Leases
  <2>3. j = [job[s] EXCEPT !.status = j.status, !.owner = j.owner, !.lease = j.lease]
    BY DEF LeaseMoves
  <2> QED
    BY <1>1, <2>1, <2>2, <2>3 DEF JobRow
<1>8. StoreTypeOK'
  <2>1. survey' \in [Surveys -> SurveyRow] /\ job' \in [Surveys -> JobRow]
    BY <1>1, <1>4, <1>7 DEF LeaseMoves, Writes, StoreTypeOK
  <2> QED
    BY <1>1, <1>3, <2>1 DEF StoreTypeOK
<1>9. LedgerBalanced'
  <2>1. \A t \in Surveys : survey'[t].quota = survey[t].quota
    BY <1>2, <1>4
  <2> QED
    BY <1>3, <2>1, LedgerUnchanged DEF ledger
<1>10. ChargesOK'
  <2>1. QuotaFits(r)
    BY <1>1, <1>3, <1>4 DEF QuotaFits, Active
  <2>2. CancelFits(r, j)
    BY <1>1, <1>4, <1>5 DEF CancelFits
  <2>3. EmailFits(r, notification[s])
    BY <1>1, <1>3, <1>4 DEF EmailFits, NotificationRow
  <2>4. notification' = notification
    BY <1>3
  <2> QED
    BY <1>2, <2>1, <2>2, <2>3, <2>4, ChargesFrame DEF ChargeOK
<1>11. RowsFit'
  <2>1. JobFollows(r.status, j)
    BY <1>1, <1>3, <1>5 DEF JobFollows
  <2>2. JobForm(j)
    BY <1>1, <1>3, <1>5, <1>6, StoreConstants DEF JobForm, JobFollows
  <2>3. DraftFollows(r.status, draft[s])
    BY <1>1, <1>3 DEF DraftFollows
  <2> QED
    BY <1>2, <1>3, <2>1, <2>2, <2>3 DEF StoreInv, RowsFit
<1>12. \A t \in Surveys : survey[t].status \notin BeforeRun => survey'[t].status \notin BeforeRun
  BY <1>2, <1>3 DEF BeforeRun
<1>13. CancelsRan'
  BY <1>2, <1>5, <1>12 DEF CancelsRan
<1>14. ASSUME NEW t \in Surveys, AskedFor(t)
       PROVE  AskedFor(t)'
  BY <1>2, <1>3, <1>5, <1>12, <1>14 DEF AskedFor, BeforeRun
<1> QED
  BY <1>8, <1>9, <1>10, <1>11, <1>13, <1>14 DEF StoreInv, ChargesOK

\* A lease that moves runs the survey, or shows nothing.
LEMMA LeaseMoveShows ==
    ASSUME StoreInv, NEW s \in Surveys, NEW r, NEW j, LeaseMoves(s, r, j)
    PROVE  LifecycleStep
<1>1. StoreTypeOK /\ survey[s] \in SurveyRow /\ job[s] \in JobRow /\ QuotaFits(survey[s])
      /\ JobFollows(survey[s].status, job[s]) /\ JobForm(job[s])
  BY DEF StoreInv, StoreTypeOK, QuotaFollowsStatus, RowsFit
<1>2. Writes(s, r, j)
  BY DEF LeaseMoves
<1>3. r.quota = survey[s].quota /\ j.outcome = job[s].outcome /\ j.cancel = job[s].cancel
  BY <1>1 DEF LeaseMoves, SurveyRow, JobRow
<1>4. CASE r.status = survey[s].status
  BY <1>1, <1>2, <1>3, <1>4, ShowsNoRows
<1>5. CASE survey[s].status = "queued" /\ r.status = "running"
  <2>1. survey[s].quota = "reserved" /\ job[s].outcome = "none"
    BY <1>1, <1>5 DEF QuotaFits, JobFollows, JobForm, Active
  <2>2. PhaseOf(r.status) = "running" /\ ChargeOf(r.quota) = "held" /\ Verdict(r, j) = "none"
    BY <1>3, <1>5, <2>1 DEF PhaseOf, ChargeOf, Verdict, Terminal
  <2>3. Lifecycle!Become(s, "running", "held", "none")
    BY <1>1, <1>2, <2>2, ShowsBecoming
  <2>4. [t \in Surveys |-> job'[t].cancel] = [t \in Surveys |-> job[t].cancel]
    <3>1. \A t \in Surveys : job'[t].cancel = job[t].cancel
      BY <1>1, <1>2, <1>3 DEF Writes, StoreTypeOK
    <3> QED
      BY <3>1
  <2>5. PhaseOf(survey[s].status) = "waiting"
    BY <1>5 DEF PhaseOf, Terminal
  <2>6. Lifecycle!Run(s)
    BY <2>3, <2>4, <2>5 DEF Lifecycle!Run
  <2> QED
    BY <2>6 DEF LifecycleStep, Lifecycle!Next
<1> QED
  BY <1>4, <1>5 DEF LeaseMoves

\* An attempt that claims its job moves the lease to itself.
LEMMA TaskClaimsMoves ==
    ASSUME StoreInv, NEW a \in Attempts, TaskClaims(a), attempt[a].survey \in Surveys
    PROVE  \E r, j : LeaseMoves(attempt[a].survey, r, j) /\ j.status \in {"running", "archiving"}
<1> DEFINE s == attempt[a].survey
           status == IF job[s].status = "archiving" THEN "archiving" ELSE "running"
           r == [survey[s] EXCEPT !.status = status]
           j == [job[s] EXCEPT !.status = status, !.owner = a, !.lease = "live"]
<1>1. /\ survey[s] \in SurveyRow /\ job[s] \in JobRow /\ JobFollows(survey[s].status, job[s])
      /\ StoreTypeOK
  BY DEF StoreInv, StoreTypeOK, RowsFit
<1>2. job[s].status \in {"queued", "running", "archiving"}
  BY DEF TaskClaims, ExactlyClaimable
<1>3. survey[s].status = job[s].status
  BY <1>1, <1>2 DEF JobFollows
<1>4. Writes(s, r, j) /\ UNCHANGED <<ledger, draft, notification, cleanup>>
  <2>1. job' = [job EXCEPT ![s] = j]
    BY DEF TaskClaims
  <2>2. survey' = [survey EXCEPT ![s] = r]
    BY <1>3 DEF TaskClaims
  <2> QED
    BY <2>1, <2>2 DEF Writes, TaskClaims
<1>5. /\ r.status = status /\ j.status = status /\ j.owner = a /\ j.lease = "live"
      /\ status \in {"running", "archiving"}
  BY <1>1 DEF SurveyRow, JobRow
<1>6. \/ status = survey[s].status /\ status = job[s].status
      \/ survey[s].status = "queued" /\ status = "running"
  BY <1>2, <1>3
<1>7. /\ r = [survey[s] EXCEPT !.status = r.status]
      /\ j = [job[s] EXCEPT !.status = j.status, !.owner = j.owner, !.lease = j.lease]
  BY <1>5
<1> HIDE DEF r, j, status
<1>8. LeaseMoves(s, r, j)
  BY <1>4, <1>5, <1>6, <1>7 DEF LeaseMoves, Attempts
<1> QED
  BY <1>5, <1>8

\* A claim that is taken away moves the lease to nobody.
LEMMA ReleaseClaimMoves ==
    ASSUME StoreInv, NEW s \in Surveys, NEW a, ReleaseClaim(s, a)
    PROVE  \/ UNCHANGED tables
           \/ \E r, j : LeaseMoves(s, r, j) /\ j.status = job[s].status
<1>1. survey[s] \in SurveyRow /\ job[s] \in JobRow
  BY DEF StoreInv, StoreTypeOK
<1> DEFINE j == [job[s] EXCEPT !.owner = NoWorker, !.lease = "none"]
<1>2. CASE job[s].owner = a
  <2>1. Writes(s, survey[s], j) /\ UNCHANGED <<ledger, draft, notification, cleanup>>
    BY <1>2 DEF ReleaseClaim, Writes
  <2>2. j.status = job[s].status /\ j.owner = NoWorker /\ j.lease = "none"
    BY <1>1 DEF JobRow
  <2>3. /\ survey[s] = [survey[s] EXCEPT !.status = survey[s].status]
        /\ j = [job[s] EXCEPT !.status = j.status, !.owner = j.owner, !.lease = j.lease]
    BY <1>1, <2>2 DEF SurveyRow, JobRow
  <2> HIDE DEF j
  <2>4. LeaseMoves(s, survey[s], j)
    BY <2>1, <2>2, <2>3 DEF LeaseMoves
  <2> QED
    BY <2>2, <2>4
<1>3. CASE job[s].owner # a
  BY <1>3 DEF ReleaseClaim, tables, ledger
<1> QED
  BY <1>2, <1>3

-----------------------------------------------------------------------------
(* What the actors do to the tables and to the tasks.                      *)

Underway == {"running", "archiving"}

\* The steps of a task after its claim.
TaskActs(a) == TaskBeats(a) \/ TaskGivesUpLease(a) \/ TaskProceeds(a)

\* A task that finds its attempt taken away loses its lease.
LosesAttempt(a) ==
    /\ task[a].beat
    /\ SetTask(a, [task[a] EXCEPT !.beat = FALSE, !.lost = TRUE])
    /\ UNCHANGED tables

\* Such a step is one of the worker, or the loss of its attempt; the container exits
\* with the last of them.
LEMMA TaskIsWorker ==
    ASSUME NEW a \in Attempts, TaskActs(a)
    PROVE  /\ ecs[a] = "running"
           /\ UNCHANGED <<attempt, control, deadline>>
           /\ \/ ecs' = ecs
              \/ ecs' = [ecs EXCEPT ![a] = "zero"] /\ task'[a] = IdleTask
           /\ \/ WorkerBeats(a) \/ WorkerProceeds(a) \/ WorkerFails(a)
              \/ LosesAttempt(a)
<1>1. CASE TaskBeats(a)
  BY <1>1 DEF TaskBeats, LosesAttempt
<1>2. CASE TaskGivesUpLease(a)
  BY <1>2 DEF TaskGivesUpLease, WorkerFails
<1>3. CASE TaskProceeds(a)
  BY <1>3 DEF TaskProceeds, WorkerProceeds, WorkerFails
<1> QED
  BY <1>1, <1>2, <1>3 DEF TaskActs

\* Its task goes on as in the other mode.
LEMMA TaskGoesOn ==
    ASSUME StoreInv, ComputeTypes, TaskHasSurvey, NEW a \in Attempts, TaskActs(a)
    PROVE  task' = task \/ \E t \in Task : GoesOn(a, t)
<1>1. task \in [Workers -> Task] /\ a \in Workers /\ task[a] \in Task
  BY DEF ComputeTypes, Attempts
<1>2. CASE WorkerBeats(a) \/ WorkerProceeds(a) \/ WorkerFails(a)
  BY <1>1, <1>2, WorkerMoves
<1>3. CASE LosesAttempt(a)
  <2> DEFINE t == [task[a] EXCEPT !.beat = FALSE, !.lost = TRUE]
  <2>1. /\ t \in Task /\ t.pc = task[a].pc /\ t.survey = task[a].survey
        /\ t.stop = task[a].stop /\ t.result = task[a].result
    BY <1>1 DEF Task
  <2>2. task' = [task EXCEPT ![a] = t] /\ task[a].beat
    BY <1>3 DEF LosesAttempt, SetTask
  <2>3. task[a].survey \in Surveys /\ task[a] # IdleTask
    BY <1>1, <2>2 DEF TaskHasSurvey, IdleTask
  <2> HIDE DEF t
  <2>4. GoesOn(a, t)
    BY <2>1, <2>2, <2>3 DEF GoesOn, Stopping
  <2> QED
    BY <2>1, <2>4
<1> QED
  BY <1>2, <1>3, TaskIsWorker

\* A task that goes on is busy only if it was, and with the same survey.
LEMMA GoesOnBusy ==
    ASSUME task \in [Workers -> Task], NEW a \in Attempts, NEW t \in Task, GoesOn(a, t)
    PROVE  /\ task'[a] = t /\ \A b \in Attempts \ {a} : task'[b] = task[b]
           /\ t = IdleTask \/ (t.survey = task[a].survey /\ t.survey \in Surveys)
           /\ Busy(a)' => Busy(a) /\ task'[a].survey = task[a].survey
<1>1. task'[a] = t /\ \A b \in Attempts \ {a} : task'[b] = task[b]
  BY DEF GoesOn, Attempts
<1>2. t = IdleTask \/ (t.survey = task[a].survey /\ t.survey \in Surveys)
  BY DEF GoesOn
<1>3. Busy(a)' => Busy(a) /\ task'[a].survey = task[a].survey
  <2> SUFFICES ASSUME t.pc \in {"start", "execute", "settle", "archive", "upload"}
               PROVE  Busy(a) /\ t.survey = task[a].survey
    BY <1>1 DEF Busy
  <2>1. t # IdleTask
    BY DEF IdleTask
  <2>2. t.pc = task[a].pc \/ <<task[a].pc, t.pc>> \in Stages
    BY <2>1 DEF GoesOn
  <2> QED
    BY <1>2, <2>1, <2>2 DEF Busy, Stages
<1> QED
  BY <1>1, <1>2, <1>3

\* The worker of a job that is underway keeps it so, until it finishes it itself.
LEMMA WorkerKeepsUnderway ==
    ASSUME StoreInv, TaskHasSurvey, task \in [Workers -> Task], NEW w \in Workers,
           WorkerBeats(w) \/ WorkerProceeds(w) \/ WorkerFails(w),
           NEW s \in Surveys, job[s].status \in Underway
    PROVE  \/ job'[s].status \in Underway
           \/ /\ task[w].pc = "upload" /\ task[w].survey = s
              /\ task'[w].pc = "sweep"
<1> DEFINE x == task[w].survey
           Goal == \/ job'[s].status \in Underway
                   \/ task[w].pc = "upload" /\ x = s /\ task'[w].pc = "sweep"
<1> SUFFICES Goal
  OBVIOUS
<1>1. job \in [Surveys -> JobRow] /\ task[w] \in Task
  BY DEF StoreInv, StoreTypeOK
<1>2. ASSUME UNCHANGED tables
      PROVE  Goal
  BY <1>2 DEF tables
<1>3. task[w].pc # "idle" \/ task[w].beat => x \in Surveys
  BY DEF TaskHasSurvey
<1>4. ASSUME NEW j, job' = [job EXCEPT ![x] = j], j.status = job[x].status \/ j.status \in Underway
      PROVE  Goal
  BY <1>1, <1>4
<1> HIDE DEF Goal
<1>5. CASE WorkerBeats(w)
  <2>1. CASE HeartbeatJob(x, w)
    <3>1. x \in Surveys
      BY <1>3, <1>5 DEF WorkerBeats
    <3> DEFINE j == [job[x] EXCEPT !.lease = "live"]
    <3>2. job' = [job EXCEPT ![x] = j]
      BY <2>1 DEF HeartbeatJob
    <3>3. j.status = job[x].status
      BY <1>1, <3>1 DEF JobRow
    <3> HIDE DEF j
    <3> QED
      BY <1>4, <3>2, <3>3
  <2> QED
    BY <1>2, <1>5, <2>1 DEF WorkerBeats
<1>6. CASE WorkerStarts(w) \/ WorkerExecutes(w) \/ WorkerFindsArchiveLost(w)
             \/ WorkerSweepsWorkspace(w) \/ WorkerGivesUpLease(w) \/ TaskEscapes(w)
  BY <1>2, <1>6 DEF WorkerStarts, WorkerExecutes, WorkerFindsArchiveLost, WorkerSweepsWorkspace,
                    WorkerGivesUpLease, TaskEscapes
<1>7. CASE WorkerSettles(w)
  <2>1. x \in Surveys
    BY <1>3, <1>7 DEF WorkerSettles
  <2>2. ASSUME NEW outcome, NEW error, NEW chargeable,
               SettleExecution(x, w, outcome, error, chargeable)
        PROVE  Goal
    <3>1. PICK v, e : /\ v = EffectiveOutcome(x, outcome)
                      /\ e = EffectiveError(x, outcome, error)
      OBVIOUS
    <3> DEFINE j == [job[x] EXCEPT !.status = "archiving", !.outcome = v, !.error = e,
                                   !.due = TRUE]
    <3>2. job' = [job EXCEPT ![x] = j]
      BY <2>2, <3>1 DEF SettleExecution
    <3>3. j.status = "archiving"
      BY <1>1, <2>1 DEF JobRow
    <3> HIDE DEF j
    <3> QED
      BY <1>4, <3>2, <3>3 DEF Underway
  <2> QED
    BY <1>2, <1>7, <2>2 DEF WorkerSettles
<1>8. CASE WorkerOpensArchive(w)
  <2>1. CASE MarkWorkspaceMissing(x, w)
    <3>1. x \in Surveys
      BY <1>3, <1>8 DEF WorkerOpensArchive
    <3> DEFINE j == [job[x] EXCEPT !.outcome = "failed", !.error = "workspace_missing"]
    <3>2. job' = [job EXCEPT ![x] = j]
      BY <2>1 DEF MarkWorkspaceMissing
    <3>3. j.status = job[x].status
      BY <1>1, <3>1 DEF JobRow
    <3> HIDE DEF j
    <3> QED
      BY <1>4, <3>2, <3>3
  <2> QED
    BY <1>2, <1>8, <2>1 DEF WorkerOpensArchive
<1>9. CASE WorkerDefersArchive(w)
  <2>1. x \in Surveys
    BY <1>3, <1>9 DEF WorkerDefersArchive
  <2> DEFINE j == [job[x] EXCEPT !.owner = NoWorker, !.lease = "none", !.due = FALSE,
                                 !.error = "archive_pending"]
  <2>2. job' = [job EXCEPT ![x] = j]
    BY <1>9 DEF WorkerDefersArchive, DeferArchive
  <2>3. j.status = job[x].status
    BY <1>1, <2>1 DEF JobRow
  <2> HIDE DEF j
  <2> QED
    BY <1>4, <2>2, <2>3
<1>10. CASE WorkerFinishesArchive(w)
  <2>1. CASE x = s
    <3>1. task' = [task EXCEPT ![w] = [task[w] EXCEPT !.pc = "sweep"]] /\ task[w].pc = "upload"
      BY <1>10 DEF WorkerFinishesArchive, SetTask
    <3>2. task'[w].pc = "sweep"
      BY <1>1, <3>1 DEF Task
    <3> QED
      BY <2>1, <3>1, <3>2 DEF Goal
  <2>2. CASE x # s
    <3>1. job'[s] = job[s]
      BY <1>1, <1>10, <2>2 DEF WorkerFinishesArchive, FinishArchive
    <3> QED
      BY <3>1 DEF Goal
  <2> QED
    BY <2>1, <2>2
<1> QED
  BY <1>5, <1>6, <1>7, <1>8, <1>9, <1>10 DEF WorkerProceeds, WorkerFails

\* What the owner of a survey asks for does not end a job that is underway.
LEMMA OwnerKeepsUnderway ==
    ASSUME StoreInv, NEW s \in Surveys, CancelSurvey(s) \/ DeleteSurvey(s),
           NEW t \in Surveys, job[t].status \in Underway
    PROVE  job'[t].status \in Underway
<1>1. job \in [Surveys -> JobRow] /\ job[s] \in JobRow /\ JobFollows(survey[s].status, job[s])
  BY DEF StoreInv, StoreTypeOK, RowsFit
<1>2. CASE RequestCancel(s)
  <2>1. job' = [job EXCEPT ![s].cancel = TRUE]
    BY <1>2 DEF RequestCancel
  <2>2. job'[t].status = job[t].status
    BY <1>1, <2>1 DEF JobRow
  <2> QED
    BY <2>2
<1>3. CASE CancelBeforeRun(s) \/ DeleteBeforeRun(s) \/ DeleteTerminal(s)
  <2>1. job' = [job EXCEPT ![s] = NoJob]
    BY <1>3 DEF CancelBeforeRun, DeleteBeforeRun, DeleteTerminal, DeleteRows
  <2>2. survey[s].status \in {"drafting", "queued"} \cup Terminal
    BY <1>3 DEF CancelBeforeRun, DeleteBeforeRun, DeleteTerminal
  <2>3. job[s].status \notin Underway
    BY <1>1, <2>2 DEF JobFollows, Underway, Terminal
  <2> QED
    BY <1>1, <2>1, <2>3
<1> QED
  BY <1>2, <1>3 DEF CancelSurvey, DeleteSurvey

\* What every step does to the tables: they keep their invariant, a cancellation that
\* was asked for stays so, the life cycle takes a step or none, and a job that is
\* underway stays so unless the task that uploads its archive finishes it.
FinishedBy(a, s) ==
    /\ task[a].pc = "upload"
    /\ task[a].survey = s
    /\ task'[a].pc = "sweep"

TablesFollow ==
    /\ StoreInv' /\ CancelsRan'
    /\ \A s \in Surveys : AskedFor(s) => AskedFor(s)'
    /\ LifecycleStep
    /\ \A s \in Surveys : job[s].status \in Underway =>
          job'[s].status \in Underway \/ \E a \in Attempts : FinishedBy(a, s)

LEMMA NothingFollows ==
    ASSUME StoreInv, CancelsRan, UNCHANGED tables
    PROVE  TablesFollow
<1>1. StoreInv'
  BY StoreStepInv
<1>2. CancelsRan'
  BY CancelsStayRan
<1>3. \A s \in Surveys : AskedFor(s) => AskedFor(s)'
  BY AskedStays
<1>4. LifecycleStep
  <2>1. \A s \in Surveys : Shown(s)' = Shown(s)
    BY DEF tables, Shown, VerdictOf
  <2> QED
    BY <2>1, ShowsNothing
<1>5. job' = job
  BY DEF tables
<1> QED
  BY <1>1, <1>2, <1>3, <1>4, <1>5 DEF TablesFollow

LEMMA StoreFollows ==
    ASSUME StoreInv, CancelsRan, StoreNext, LifecycleStep,
           \A s \in Surveys : job[s].status \in Underway =>
              job'[s].status \in Underway \/ \E a \in Attempts : FinishedBy(a, s)
    PROVE  TablesFollow
<1>1. StoreInv'
  BY StoreStepInv
<1>2. CancelsRan'
  BY CancelsStayRan
<1>3. \A s \in Surveys : AskedFor(s) => AskedFor(s)'
  BY AskedStays
<1> QED
  BY <1>1, <1>2, <1>3 DEF TablesFollow

LEMMA MoveFollows ==
    ASSUME StoreInv, CancelsRan, NEW s \in Surveys, NEW r, NEW j, LeaseMoves(s, r, j)
    PROVE  TablesFollow
<1>1. job \in [Surveys -> JobRow]
  BY DEF StoreInv, StoreTypeOK
<1>2. job' = [job EXCEPT ![s] = j] \/ (job' = job /\ j = job[s])
  BY DEF LeaseMoves, Writes
<1>3. j.status = job[s].status \/ j.status \in Underway
  BY DEF LeaseMoves, Underway
<1>4. \A t \in Surveys : job[t].status \in Underway => job'[t].status \in Underway
  BY <1>1, <1>2, <1>3
<1> QED
  BY <1>4, LeaseMoveInv, LeaseMoveShows DEF TablesFollow

LEMMA ComputeTables ==
    ASSUME ComputeInv, [ComputeNext]_computeVars
    PROVE  TablesFollow
<1>1. /\ StoreInv /\ CancelsRan /\ TaskHasSurvey /\ StopWasAsked /\ ComputeTypes
      /\ AttemptHasSurvey /\ StopHasHappened /\ task \in [Workers -> Task]
  BY DEF ComputeInv, ComputeTypes
<1>2. job \in [Surveys -> JobRow]
  BY <1>1 DEF StoreInv, StoreTypeOK
<1>3. ASSUME UNCHANGED tables
      PROVE  TablesFollow
  BY <1>1, <1>3, NothingFollows
<1>4. \A a \in Attempts : attempt[a].status \in Working \cup Closed \/ attempt[a].tracked
                             => attempt[a].survey \in Surveys
  BY <1>1 DEF AttemptHasSurvey, Working, Launchable, Closed
<1>5. ASSUME NEW s \in Surveys, NEW a, ReleaseClaim(s, a)
      PROVE  TablesFollow
  BY <1>1, <1>3, <1>5, ReleaseClaimMoves, MoveFollows
<1>6. ASSUME NEW a \in Attempts, TaskActs(a)
      PROVE  TablesFollow
  <2>1. CASE WorkerBeats(a) \/ WorkerProceeds(a) \/ WorkerFails(a)
    <3>1. a \in Workers
      BY DEF Attempts
    <3>2. UNCHANGED tables \/ StoreNext
      BY <1>1, <2>1, <3>1, WorkerWrites DEF StoreNext
    <3>3. LifecycleStep
      BY <1>1, <2>1, <3>1, WorkerShows
    <3>4. \A s \in Surveys : job[s].status \in Underway =>
             job'[s].status \in Underway \/ \E b \in Attempts : FinishedBy(b, s)
      BY <1>1, <2>1, <3>1, WorkerKeepsUnderway DEF FinishedBy
    <3> QED
      BY <1>1, <1>3, <3>2, <3>3, <3>4, StoreFollows
  <2>2. CASE LosesAttempt(a)
    BY <1>3, <2>2 DEF LosesAttempt
  <2> QED
    BY <1>6, <2>1, <2>2, TaskIsWorker
<1>7. ASSUME NEW s \in Surveys, OwnerStep(s)
      PROVE  TablesFollow
  <2>1. Request(s) /\ (CancelSurvey(s) \/ DeleteSurvey(s))
    BY <1>7 DEF OwnerStep, Request
  <2>2. LifecycleStep
    BY <1>1, <2>1, RequestShows
  <2>3. \A t \in Surveys : job[t].status \in Underway => job'[t].status \in Underway
    BY <1>1, <2>1, OwnerKeepsUnderway
  <2> QED
    BY <1>1, <2>1, <2>2, <2>3, StoreFollows DEF StoreNext
<1>8. ASSUME NEW s \in Surveys, LeaseExpires(s)
      PROVE  TablesFollow
  <2>1. JobLeaseExpires(s)
    BY <1>8 DEF LeaseExpires
  <2>2. LifecycleStep
    BY <1>1, <2>1, JobShows
  <2>3. job' = [job EXCEPT ![s].lease = "expired"]
    BY <2>1 DEF JobLeaseExpires
  <2>4. \A t \in Surveys : job'[t].status = job[t].status
    BY <1>2, <2>3 DEF JobRow
  <2> QED
    BY <1>1, <2>1, <2>2, <2>4, StoreFollows DEF StoreNext, JobWrite
<1>9. ASSUME NEW a \in Attempts, TaskClaims(a)
      PROVE  TablesFollow
  <2>1. attempt[a].survey \in Surveys
    BY <1>4, <1>9 DEF TaskClaims, ExactlyClaimable, Working
  <2> QED
    BY <1>1, <1>9, <2>1, TaskClaimsMoves, MoveFollows
<1>10. ASSUME NEW a \in Attempts, CleanExitIsSeen(a)
       PROVE  TablesFollow
  BY <1>3, <1>4, <1>5, <1>10 DEF CleanExitIsSeen, CloseCleanExit
<1>11. ASSUME NEW a \in Attempts, FailureIsSeen(a)
       PROVE  TablesFollow
  <2> DEFINE s == attempt[a].survey
  <2>1. s \in Surveys /\ a \in Workers
    BY <1>4, <1>11 DEF FailureIsSeen, Attempts
  <2>2. CASE SettleExecution(s, a, "failed", "other", FALSE)
    <3>1. JobWrite(s)
      BY <2>1, <2>2 DEF JobWrite, Outcomes, Terminal, Errors
    <3>2. LifecycleStep
      <4> HIDE DEF s
      <4> QED
        BY <1>1, <2>1, <2>2, SettlementShows DEF Outcomes, Terminal
    <3>3. \A t \in Surveys : job[t].status \in Underway => job'[t].status \in Underway
      <4>1. PICK v, e : /\ v = EffectiveOutcome(s, "failed")
                        /\ e = EffectiveError(s, "failed", "other")
        OBVIOUS
      <4> DEFINE j == [job[s] EXCEPT !.status = "archiving", !.outcome = v, !.error = e,
                                     !.due = TRUE]
      <4>2. job' = [job EXCEPT ![s] = j]
        BY <2>2, <4>1 DEF SettleExecution
      <4>3. j.status = "archiving"
        BY <1>2, <2>1 DEF JobRow
      <4> HIDE DEF j
      <4> QED
        BY <1>2, <2>1, <4>2, <4>3 DEF Underway
    <3> QED
      BY <1>1, <2>1, <3>1, <3>2, <3>3, StoreFollows DEF StoreNext
  <2> QED
    BY <1>3, <1>11, <2>2 DEF FailureIsSeen, FailExhausted
<1>12. ASSUME NEW a \in Attempts, RecordFailure(a)
       PROVE  TablesFollow
  <2>1. CASE attempt[a].status = "gone" \/ attempt[a].recorded
    BY <1>3, <1>12, <2>1 DEF RecordFailure
  <2>2. CASE attempt[a].status # "gone" /\ ~attempt[a].recorded
    <3>1. attempt[a].status \notin {"free", "gone"}
      BY <1>1, <1>12, <2>2 DEF RecordFailure, StopHasHappened
    <3>2. attempt[a].survey \in Surveys
      BY <1>1, <3>1 DEF AttemptHasSurvey
    <3> QED
      BY <1>5, <1>12, <2>2, <3>2 DEF RecordFailure
  <2> QED
    BY <2>1, <2>2
<1>13. ASSUME NEW a \in Attempts,
              \/ MarkLaunching(a) \/ RunTask(a) \/ RecordLaunch(a) \/ RecordRefusal(a)
              \/ BackoffEnds(a) \/ TaskIsNotNeeded(a) \/ TaskFails(a)
              \/ \E s \in Surveys : Reserve(s, a)
       PROVE  TablesFollow
  BY <1>3, <1>13 DEF MarkLaunching, RunTask, RecordLaunch, RecordRefusal, BackoffEnds,
                     TaskIsNotNeeded, TaskFails, Reserve, queueVars
<1>14. ASSUME ControlStops \/ (\E s \in Surveys : DeadlinePasses(s)) \/ UNCHANGED computeVars
       PROVE  TablesFollow
  BY <1>3, <1>14 DEF ControlStops, DeadlinePasses, computeVars, queueVars
<1> QED
  BY <1>6, <1>7, <1>8, <1>9, <1>10, <1>11, <1>12, <1>13, <1>14 DEF ComputeNext, TaskActs

-----------------------------------------------------------------------------
(* The attempts.                                                           *)

\* The row of attempt a becomes r: one that is closed stays closed, and a running one
\* is closed only after ECS has stopped its task.
Alters(a, r) ==
    /\ attempt' = [attempt EXCEPT ![a] = r]
    /\ r \in Attempt
    /\ r.survey = attempt[a].survey
    /\ attempt[a].status \notin {"free", "gone"}
    /\ r.status \notin {"free", "gone"}
    /\ r.status \in Working => attempt[a].status \in Working
    /\ attempt[a].status = "running" => r.status = "running" \/ ecs[a] \in Stopped

Removes(s) ==
    /\ OwnerStep(s)
    /\ job'[s].status = "absent"
    /\ attempt' = [a \in Attempts |-> IF a \in Of(s) THEN [FreeAttempt EXCEPT !.status = "gone"]
                                                     ELSE attempt[a]]

LEMMA AttemptMoves ==
    ASSUME ComputeInv, [ComputeNext]_computeVars
    PROVE  \/ attempt' = attempt
           \/ \E a \in Attempts, r \in Attempt : Alters(a, r)
           \/ \E s \in Surveys, a \in Attempts : Reserve(s, a)
           \/ \E s \in Surveys : Removes(s)
<1> DEFINE Altered == \E a \in Attempts, r \in Attempt : Alters(a, r)
           Goal == \/ attempt' = attempt
                   \/ Altered
                   \/ \E s \in Surveys, a \in Attempts : Reserve(s, a)
                   \/ \E s \in Surveys : Removes(s)
<1> SUFFICES Goal
  OBVIOUS
<1>1. attempt \in [Attempts -> Attempt] /\ AttemptHasSurvey /\ StopHasHappened
  BY DEF ComputeInv, ComputeTypes
<1>2. \A a \in Attempts : attempt[a].tracked => attempt[a].status \notin {"free", "gone"}
  BY <1>1 DEF AttemptHasSurvey
<1>3. ASSUME NEW a \in Attempts, NEW r, Alters(a, r)
      PROVE  Altered
  BY <1>3 DEF Alters
<1> HIDE DEF Altered
<1>4. ASSUME NEW a \in Attempts, MarkLaunching(a)
      PROVE  Altered
  <2> DEFINE r == [attempt[a] EXCEPT !.status = "launching"]
  <2>1. r \in Attempt /\ r.survey = attempt[a].survey /\ r.status = "launching"
    BY <1>1 DEF Attempt, Working, Launchable
  <2>2. attempt' = [attempt EXCEPT ![a] = r] /\ attempt[a].status \in {"reserved", "launching"}
    BY <1>4 DEF MarkLaunching
  <2> HIDE DEF r
  <2> QED
    BY <1>3, <2>1, <2>2 DEF Alters, Working, Launchable
<1>5. ASSUME NEW a \in Attempts, RecordLaunch(a)
      PROVE  Altered \/ attempt' = attempt
  <2> DEFINE r == [attempt[a] EXCEPT !.status = "launched", !.tracked = TRUE]
  <2>1. r \in Attempt /\ r.survey = attempt[a].survey /\ r.status = "launched"
    BY <1>1 DEF Attempt, Working, Launchable
  <2>2. \/ attempt' = attempt
        \/ attempt' = [attempt EXCEPT ![a] = r] /\ attempt[a].status \in Launchable
    BY <1>5 DEF RecordLaunch
  <2> HIDE DEF r
  <2> QED
    BY <1>3, <2>1, <2>2 DEF Alters, Working, Launchable
<1>6. ASSUME NEW a \in Attempts, RecordRefusal(a)
      PROVE  Altered \/ attempt' = attempt
  <2> DEFINE r == [attempt[a] EXCEPT !.status = "reserved", !.due = FALSE]
  <2>1. r \in Attempt /\ r.survey = attempt[a].survey /\ r.status = "reserved"
    BY <1>1 DEF Attempt, Working, Launchable
  <2>2. \/ attempt' = attempt
        \/ attempt' = [attempt EXCEPT ![a] = r] /\ attempt[a].status \in {"reserved", "launching"}
    BY <1>6 DEF RecordRefusal
  <2> HIDE DEF r
  <2> QED
    BY <1>3, <2>1, <2>2 DEF Alters, Working, Launchable
<1>7. ASSUME NEW a \in Attempts, BackoffEnds(a)
      PROVE  Altered
  <2> DEFINE r == [attempt[a] EXCEPT !.due = TRUE]
  <2>1. r \in Attempt /\ r.survey = attempt[a].survey /\ r.status = attempt[a].status
    BY <1>1 DEF Attempt
  <2>2. attempt' = [attempt EXCEPT ![a] = r] /\ attempt[a].status = "reserved"
    BY <1>7 DEF BackoffEnds
  <2> HIDE DEF r
  <2> QED
    BY <1>3, <2>1, <2>2 DEF Alters
<1>8. ASSUME NEW a \in Attempts, TaskClaims(a)
      PROVE  Altered
  <2> DEFINE r == [attempt[a] EXCEPT !.status = "running", !.started = TRUE]
  <2>1. r \in Attempt /\ r.survey = attempt[a].survey /\ r.status = "running"
    BY <1>1 DEF Attempt, Working
  <2>2. attempt' = [attempt EXCEPT ![a] = r] /\ attempt[a].status \in Launchable
    BY <1>8 DEF TaskClaims, ExactlyClaimable
  <2> HIDE DEF r
  <2> QED
    BY <1>3, <2>1, <2>2 DEF Alters, Working, Launchable
<1>9. ASSUME NEW a \in Attempts, CleanExitIsSeen(a)
      PROVE  Altered
  <2>1. PICK st \in {"succeeded", "retryable"} :
          attempt' = [attempt EXCEPT ![a] = [@ EXCEPT !.status = st, !.recorded = TRUE]]
    BY <1>9 DEF CleanExitIsSeen, CloseCleanExit
  <2> DEFINE r == [attempt[a] EXCEPT !.status = st, !.recorded = TRUE]
  <2>2. r \in Attempt /\ r.survey = attempt[a].survey /\ r.status = st
    BY <1>1 DEF Attempt, Closed
  <2>3. attempt' = [attempt EXCEPT ![a] = r] /\ ecs[a] = "zero" /\ attempt[a].tracked
    BY <1>9, <2>1 DEF CleanExitIsSeen
  <2> HIDE DEF r
  <2> QED
    BY <1>2, <1>3, <2>2, <2>3 DEF Alters, Working, Launchable, Stopped
<1>10. ASSUME NEW a \in Attempts, RecordFailure(a)
       PROVE  Altered \/ attempt' = attempt
  <2>1. CASE attempt[a].status = "gone" \/ attempt[a].recorded
    BY <1>10, <2>1 DEF RecordFailure
  <2>2. CASE attempt[a].status # "gone" /\ ~attempt[a].recorded
    <3>1. PICK st \in {"retryable", "failed"}, oom \in BOOLEAN :
            attempt' = [attempt EXCEPT ![a] = [@ EXCEPT !.status = st, !.oom = oom,
                                                        !.recorded = TRUE]]
      BY <1>10, <2>2 DEF RecordFailure
    <3> DEFINE r == [attempt[a] EXCEPT !.status = st, !.oom = oom, !.recorded = TRUE]
    <3>2. r \in Attempt /\ r.survey = attempt[a].survey /\ r.status = st
      BY <1>1 DEF Attempt, Closed
    <3>3. /\ attempt' = [attempt EXCEPT ![a] = r]
          /\ ecs[a] \in {"error", "oom"} /\ attempt[a].status \notin {"free", "gone"}
      BY <1>1, <1>10, <2>2, <3>1 DEF RecordFailure, StopHasHappened
    <3> HIDE DEF r
    <3> QED
      BY <1>3, <3>2, <3>3 DEF Alters, Working, Launchable, Stopped
  <2> QED
    BY <2>1, <2>2
<1>11. ASSUME NEW s \in Surveys, OwnerStep(s)
       PROVE  attempt' = attempt \/ Removes(s)
  BY <1>11 DEF OwnerStep, Removes
<1>12. ASSUME NEW a \in Attempts,
              \/ RunTask(a) \/ TaskIsNotNeeded(a) \/ TaskFails(a) \/ FailureIsSeen(a)
              \/ TaskBeats(a) \/ TaskGivesUpLease(a) \/ TaskProceeds(a)
       PROVE  attempt' = attempt
  BY <1>12, TaskIsWorker DEF RunTask, TaskIsNotNeeded, TaskFails, FailureIsSeen, TaskActs
<1>13. ASSUME \/ ControlStops \/ UNCHANGED computeVars
              \/ \E s \in Surveys : DeadlinePasses(s) \/ LeaseExpires(s)
       PROVE  attempt' = attempt
  BY <1>13 DEF ControlStops, DeadlinePasses, LeaseExpires, computeVars
<1> QED
  BY <1>4, <1>5, <1>6, <1>7, <1>8, <1>9, <1>10, <1>11, <1>12, <1>13 DEF ComputeNext

\* Attempts stay of their type and keep their survey while they exist.
LEMMA AttemptTypes ==
    ASSUME ComputeInv, [ComputeNext]_computeVars
    PROVE  attempt' \in [Attempts -> Attempt] /\ \A a \in Attempts :
              attempt'[a].status \notin {"free", "gone"} => attempt'[a].survey \in Surveys
<1>1. attempt \in [Attempts -> Attempt] /\ AttemptHasSurvey
  BY DEF ComputeInv, ComputeTypes
<1>2. \A a \in Attempts : attempt[a].status \notin {"free", "gone"} => attempt[a].survey \in Surveys
  BY <1>1 DEF AttemptHasSurvey
<1>3. ASSUME NEW a \in Attempts, NEW r \in Attempt, Alters(a, r)
      PROVE  /\ attempt' \in [Attempts -> Attempt]
             /\ \A b \in Attempts :
                   attempt'[b].status \notin {"free", "gone"} => attempt'[b].survey \in Surveys
  BY <1>1, <1>2, <1>3 DEF Alters
<1>4. ASSUME NEW s \in Surveys, NEW a \in Attempts, Reserve(s, a)
      PROVE  /\ attempt' \in [Attempts -> Attempt]
             /\ \A b \in Attempts :
                   attempt'[b].status \notin {"free", "gone"} => attempt'[b].survey \in Surveys
  <2> DEFINE high == \E b \in Of(s) : attempt[b].oom
             r == [FreeAttempt EXCEPT !.status = "reserved", !.survey = s, !.due = TRUE,
                                      !.high = high]
  <2>1. high \in BOOLEAN
    OBVIOUS
  <2>2. r \in Attempt /\ r.survey = s
    <3> HIDE DEF high
    <3> QED
      BY <2>1 DEF FreeAttempt, Attempt, Working, Launchable
  <2>3. attempt' = [attempt EXCEPT ![a] = r]
    BY <1>4 DEF Reserve
  <2> HIDE DEF r
  <2> QED
    BY <1>1, <1>2, <2>2, <2>3
<1>5. ASSUME NEW s \in Surveys, Removes(s)
      PROVE  /\ attempt' \in [Attempts -> Attempt]
             /\ \A b \in Attempts :
                   attempt'[b].status \notin {"free", "gone"} => attempt'[b].survey \in Surveys
  <2> DEFINE r == [FreeAttempt EXCEPT !.status = "gone"]
  <2>1. r \in Attempt /\ r.status = "gone"
    BY DEF FreeAttempt, Attempt
  <2>2. attempt' = [a \in Attempts |-> IF a \in Of(s) THEN r ELSE attempt[a]]
    BY <1>5 DEF Removes
  <2> HIDE DEF r
  <2> QED
    BY <1>1, <1>2, <2>1, <2>2
<1> QED
  BY <1>1, <1>2, <1>3, <1>4, <1>5, AttemptMoves

\* Only an attempt that exists is tracked.
LEMMA AttemptHasSurveyStep ==
    ASSUME ComputeInv, [ComputeNext]_computeVars
    PROVE  AttemptHasSurvey'
<1>1. attempt \in [Attempts -> Attempt] /\ AttemptHasSurvey
  BY DEF ComputeInv, ComputeTypes
<1>2. \A a \in Attempts : attempt[a].status \in {"free", "gone"} => ~attempt[a].tracked
  BY <1>1 DEF AttemptHasSurvey
<1>3. \A a \in Attempts : attempt'[a].status \in {"free", "gone"} => ~attempt'[a].tracked
  <2>1. ASSUME NEW a \in Attempts, NEW r \in Attempt, Alters(a, r), NEW b \in Attempts,
               attempt'[b].status \in {"free", "gone"}
        PROVE  ~attempt'[b].tracked
    BY <1>1, <1>2, <2>1 DEF Alters
  <2>2. ASSUME NEW s \in Surveys, NEW a \in Attempts, Reserve(s, a), NEW b \in Attempts,
               attempt'[b].status \in {"free", "gone"}
        PROVE  ~attempt'[b].tracked
    <3>1. b # a => attempt'[b] = attempt[b]
      BY <1>1, <2>2 DEF Reserve
    <3>2. attempt'[a].tracked = FALSE
      BY <1>1, <2>2 DEF Reserve, FreeAttempt
    <3> QED
      BY <1>2, <2>2, <3>1, <3>2
  <2>3. ASSUME NEW s \in Surveys, Removes(s), NEW b \in Attempts,
               attempt'[b].status \in {"free", "gone"}
        PROVE  ~attempt'[b].tracked
    <3>1. attempt'[b] = attempt[b] \/ attempt'[b].tracked = FALSE
      BY <2>3 DEF Removes, FreeAttempt
    <3> QED
      BY <1>2, <2>3, <3>1
  <2> QED
    BY <1>2, <2>1, <2>2, <2>3, AttemptMoves
<1> QED
  BY <1>3, AttemptTypes DEF AttemptHasSurvey

\* An attempt counts only if it did, or has just been reserved.
LEMMA ActiveStays ==
    ASSUME ComputeInv, [ComputeNext]_computeVars, NEW a \in Attempts,
           attempt'[a].status \in Working
    PROVE  \/ attempt[a].status \in Working /\ attempt'[a].survey = attempt[a].survey
           \/ \E s \in Surveys : Reserve(s, a)
<1>1. attempt \in [Attempts -> Attempt]
  BY DEF ComputeInv, ComputeTypes
<1>2. ASSUME NEW b \in Attempts, NEW r \in Attempt, Alters(b, r)
      PROVE  attempt[a].status \in Working /\ attempt'[a].survey = attempt[a].survey
  BY <1>1, <1>2 DEF Alters
<1>3. ASSUME NEW s \in Surveys, NEW b \in Attempts, Reserve(s, b)
      PROVE  a = b \/ attempt'[a] = attempt[a]
  BY <1>1, <1>3 DEF Reserve
<1>4. ASSUME NEW s \in Surveys, Removes(s)
      PROVE  attempt'[a] = attempt[a]
  BY <1>4 DEF Removes, FreeAttempt, Working, Launchable
<1> QED
  BY <1>2, <1>3, <1>4, AttemptMoves

\* What a reservation finds, and what it leaves.
LEMMA ReserveAdds ==
    ASSUME ComputeInv, NEW s \in Surveys, NEW a \in Attempts, Reserve(s, a)
    PROVE  /\ attempt[a].status = "free"
           /\ attempt'[a].survey = s /\ attempt'[a].status = "reserved"
           /\ \A b \in Attempts \ {a} : attempt'[b] = attempt[b]
           /\ ActiveOf(s) = {}
           /\ Cardinality(Occupied) < GlobalConcurrency
           /\ Cardinality(OccupiedBy(UserOf[s])) < PerUserConcurrency
<1>1. attempt \in [Attempts -> Attempt]
  BY DEF ComputeInv, ComputeTypes
<1>2. attempt'[a].survey = s /\ attempt'[a].status = "reserved"
  BY <1>1 DEF Reserve, FreeAttempt
<1>3. OccupiedBy(UserOf[s]) = {b \in Occupied : UserOf[attempt[b].survey] = UserOf[s]}
  BY DEF OccupiedBy
<1> QED
  BY <1>1, <1>2, <1>3 DEF Reserve, Fresh, Reservable

LEMMA OneActiveStep ==
    ASSUME ComputeInv, [ComputeNext]_computeVars
    PROVE  OneActive'
<1> SUFFICES ASSUME NEW a \in Attempts, NEW b \in Attempts,
                    attempt'[a].status \in Working, attempt'[b].status \in Working,
                    attempt'[a].survey = attempt'[b].survey, attempt'[a].survey \in Surveys
             PROVE  a = b
  BY DEF OneActive, ActiveOf, Of
<1>1. OneActive
  BY DEF ComputeInv
<1>2. ASSUME NEW c \in Attempts, NEW d \in Attempts, NEW s \in Surveys, Reserve(s, c),
             attempt'[d].status \in Working, attempt'[d].survey = attempt'[c].survey
      PROVE  d = c
  <2>1. /\ attempt'[c].survey = s /\ ActiveOf(s) = {}
        /\ \A e \in Attempts \ {c} : attempt'[e] = attempt[e]
    BY <1>2, ReserveAdds
  <2> QED
    BY <1>2, <2>1 DEF ActiveOf, Of
<1>3. CASE /\ attempt[a].status \in Working /\ attempt'[a].survey = attempt[a].survey
           /\ attempt[b].status \in Working /\ attempt'[b].survey = attempt[b].survey
  BY <1>1, <1>3 DEF OneActive, ActiveOf, Of
<1> QED
  BY <1>2, <1>3, ActiveStays

\* Reservations are made one at a time and below the limits, and nothing else adds to
\* the attempts that count.
LEMMA WithinLimitsStep ==
    ASSUME ComputeInv, [ComputeNext]_computeVars
    PROVE  WithinLimits'
<1>1. WithinLimits /\ attempt \in [Attempts -> Attempt]
  BY DEF ComputeInv, ComputeTypes
<1>2. \A u \in Users : OccupiedBy(u) \subseteq Occupied
  BY DEF OccupiedBy
<1>3. /\ GlobalConcurrency \in Nat /\ PerUserConcurrency \in Nat
      /\ IsFiniteSet(Occupied) /\ Cardinality(Occupied) \in Nat
      /\ \A u \in Users : IsFiniteSet(OccupiedBy(u)) /\ Cardinality(OccupiedBy(u)) \in Nat
  BY <1>1, <1>2, StoreConstants, FS_Subset, FS_CardinalityType DEF WithinLimits
<1>4. CASE \E s \in Surveys, a \in Attempts : Reserve(s, a)
  <2>1. PICK s \in Surveys, a \in Attempts : Reserve(s, a)
    BY <1>4
  <2>2. /\ attempt[a].status = "free" /\ attempt'[a].survey = s
        /\ attempt'[a].status = "reserved"
        /\ \A b \in Attempts \ {a} : attempt'[b] = attempt[b]
        /\ Cardinality(Occupied) < GlobalConcurrency
        /\ Cardinality(OccupiedBy(UserOf[s])) < PerUserConcurrency
    BY <2>1, ReserveAdds
  <2>3. a \notin Occupied /\ Occupied' = Occupied \cup {a}
    BY <2>2 DEF Occupied, Working, Launchable
  <2>4. \A u \in Users : OccupiedBy(u)' = IF u = UserOf[s] THEN OccupiedBy(u) \cup {a}
                                                          ELSE OccupiedBy(u)
    BY <2>2, <2>3 DEF OccupiedBy, Occupied
  <2>5. /\ IsFiniteSet(Occupied \cup {a})
        /\ Cardinality(Occupied \cup {a}) = Cardinality(Occupied) + 1
    BY <1>3, <2>3, FS_AddElement
  <2>6. \A u \in Users : Cardinality(OccupiedBy(u) \cup {a}) = Cardinality(OccupiedBy(u)) + 1
    BY <1>2, <1>3, <2>3, FS_AddElement
  <2>7. Cardinality(Occupied') <= GlobalConcurrency
    BY <1>3, <2>2, <2>3, <2>5
  <2>8. \A u \in Users : Cardinality(OccupiedBy(u)') <= PerUserConcurrency
    BY <1>1, <1>3, <2>2, <2>4, <2>6 DEF WithinLimits
  <2> QED
    BY <2>3, <2>5, <2>7, <2>8 DEF WithinLimits
<1>5. CASE ~\E s \in Surveys, a \in Attempts : Reserve(s, a)
  <2>1. Occupied' \subseteq Occupied /\ \A u \in Users : OccupiedBy(u)' \subseteq OccupiedBy(u)
    BY <1>5, ActiveStays DEF Occupied, OccupiedBy
  <2>2. IsFiniteSet(Occupied') /\ Cardinality(Occupied') <= Cardinality(Occupied)
    BY <1>3, <2>1, FS_Subset
  <2>3. \A u \in Users : /\ Cardinality(OccupiedBy(u)') <= Cardinality(OccupiedBy(u))
                         /\ Cardinality(OccupiedBy(u)') \in Nat
    BY <1>3, <2>1, FS_Subset, FS_CardinalityType
  <2>4. Cardinality(Occupied') \in Nat
    BY <2>2, FS_CardinalityType
  <2>5. Cardinality(Occupied') <= GlobalConcurrency
    BY <1>1, <1>3, <2>2, <2>4 DEF WithinLimits
  <2>6. \A u \in Users : Cardinality(OccupiedBy(u)') <= PerUserConcurrency
    BY <1>1, <1>3, <2>3 DEF WithinLimits
  <2> QED
    BY <2>2, <2>5, <2>6 DEF WithinLimits
<1> QED
  BY <1>4, <1>5

-----------------------------------------------------------------------------
(* The tasks, ECS and the control cycle.                                   *)

\* What a step does to the tasks and to what ECS knows of them.
LEMMA TasksMove ==
    ASSUME ComputeInv, [ComputeNext]_computeVars
    PROVE  \/ task' = task /\ \A a \in Attempts : ecs[a] = "running" => ecs'[a] = "running"
           \/ \E a \in Attempts : TaskActs(a)
           \/ \E a \in Attempts : TaskClaims(a)
           \/ \E a \in Attempts : TaskFails(a)
<1>1. ecs \in [Attempts -> {"none", "pending", "running"} \cup Stopped]
  BY DEF ComputeInv, ComputeTypes
<1>2. ASSUME NEW a \in Attempts, RunTask(a) \/ TaskIsNotNeeded(a)
      PROVE  task' = task /\ \A b \in Attempts : ecs[b] = "running" => ecs'[b] = "running"
  BY <1>1, <1>2 DEF RunTask, TaskIsNotNeeded, queueVars
<1>3. ASSUME NEW a \in Attempts,
             \/ MarkLaunching(a) \/ RecordLaunch(a) \/ RecordRefusal(a) \/ BackoffEnds(a)
             \/ CleanExitIsSeen(a) \/ FailureIsSeen(a) \/ RecordFailure(a)
             \/ \E s \in Surveys : Reserve(s, a)
      PROVE  task' = task /\ ecs' = ecs
  BY <1>3 DEF MarkLaunching, RecordLaunch, RecordRefusal, BackoffEnds, CleanExitIsSeen,
              FailureIsSeen, RecordFailure, Reserve, queueVars
<1>4. ASSUME \/ ControlStops \/ UNCHANGED computeVars
             \/ \E s \in Surveys : OwnerStep(s) \/ LeaseExpires(s) \/ DeadlinePasses(s)
      PROVE  task' = task /\ ecs' = ecs
  BY <1>4 DEF ControlStops, OwnerStep, LeaseExpires, DeadlinePasses, computeVars, queueVars
<1> QED
  BY <1>2, <1>3, <1>4 DEF ComputeNext, TaskActs

\* A claim gives its attempt a task that executes, or archives.
LEMMA ClaimBegins ==
    ASSUME ComputeInv, NEW a \in Attempts, TaskClaims(a)
    PROVE  /\ attempt[a].survey \in Surveys
           /\ \E pc \in {"execute", "archive"} : task'[a] = NewTask(attempt[a].survey, pc)
           /\ \A b \in Attempts \ {a} : task'[b] = task[b]
           /\ task' \in [Workers -> Task]
           /\ ecs' = [ecs EXCEPT ![a] = "running"]
           /\ attempt'[a].status = "running" /\ attempt'[a].survey = attempt[a].survey
           /\ job'[attempt[a].survey].status \in Underway
<1> DEFINE s == attempt[a].survey
<1>1. /\ task \in [Workers -> Task] /\ attempt \in [Attempts -> Attempt] /\ AttemptHasSurvey
      /\ StoreInv /\ job \in [Surveys -> JobRow]
  BY DEF ComputeInv, ComputeTypes, StoreInv, StoreTypeOK
<1>2. attempt[a].status \in Launchable
  BY DEF TaskClaims, ExactlyClaimable
<1>3. s \in Surveys
  BY <1>1, <1>2 DEF AttemptHasSurvey, Launchable
<1>4. PICK pc \in {"execute", "archive"} : task' = [task EXCEPT ![a] = NewTask(s, pc)]
  BY DEF TaskClaims, SetTask
<1>5. NewTask(s, pc) \in Task
  BY <1>3 DEF NewTask, IdleTask, Task
<1>6. task' \in [Workers -> Task] /\ task'[a] = NewTask(s, pc)
  BY <1>1, <1>4, <1>5 DEF Attempts
<1>7. \A b \in Attempts \ {a} : task'[b] = task[b]
  BY <1>1, <1>4 DEF Attempts
<1>8. attempt'[a].status = "running" /\ attempt'[a].survey = s
  BY <1>1 DEF TaskClaims, Attempt
<1>9. job'[s].status \in Underway
  <2>1. job' = [job EXCEPT ![s] =
                  [@ EXCEPT !.status = IF job[s].status = "archiving" THEN "archiving"
                                                                      ELSE "running",
                            !.owner = a, !.lease = "live"]]
    BY DEF TaskClaims
  <2> QED
    BY <1>1, <1>3, <2>1 DEF JobRow, Underway
<1>10. ecs' = [ecs EXCEPT ![a] = "running"]
  BY DEF TaskClaims
<1> QED
  BY <1>3, <1>4, <1>6, <1>7, <1>8, <1>9, <1>10

\* Tasks keep their type and their surveys.
LEMMA ComputeTaskStep ==
    ASSUME ComputeInv, [ComputeNext]_computeVars
    PROVE  task' \in [Workers -> Task] /\ TaskHasSurvey' /\ StopWasAsked' /\ TasksRun'
<1>1. /\ task \in [Workers -> Task] /\ TaskHasSurvey /\ StopWasAsked /\ TasksRun /\ StoreInv
      /\ ComputeTypes /\ ecs \in [Attempts -> {"none", "pending", "running"} \cup Stopped]
  BY DEF ComputeInv, ComputeTypes
<1>2. \A s \in Surveys : AskedFor(s) => AskedFor(s)'
  BY ComputeTables DEF TablesFollow
<1>3. IdleTask \in Task /\ IdleTask.pc = "idle" /\ ~IdleTask.beat /\ ~Stopping(IdleTask)
  BY DEF IdleTask, Task, Stopping
<1> DEFINE Fine(b) == /\ task'[b].pc # "idle" \/ task'[b].beat => task'[b].survey \in Surveys
                      /\ Stopping(task'[b]) =>
                           \E s \in Surveys : s = task'[b].survey /\ AskedFor(s)'
                      /\ ecs'[b] # "running" => task'[b] = IdleTask
           Goal == task' \in [Workers -> Task] /\ \A b \in Workers : Fine(b)
<1>4. SUFFICES Goal
  BY DEF TaskHasSurvey, StopWasAsked, TasksRun, Stopping, Attempts
<1>5. ASSUME NEW b \in Workers, task'[b] = task[b], ecs[b] = "running" => ecs'[b] = "running"
      PROVE  Fine(b)
  <2>1. Stopping(task[b]) => \E s \in Surveys : s = task[b].survey /\ AskedFor(s)'
    BY <1>1, <1>2 DEF StopWasAsked
  <2> QED
    BY <1>1, <1>5, <2>1 DEF TaskHasSurvey, TasksRun, Attempts
<1>6. ASSUME NEW b \in Workers, task'[b] = IdleTask
      PROVE  Fine(b)
  BY <1>3, <1>6
<1> HIDE DEF Fine
<1>7. CASE task' = task /\ \A a \in Attempts : ecs[a] = "running" => ecs'[a] = "running"
  BY <1>1, <1>5, <1>7 DEF Attempts
<1>8. ASSUME NEW a \in Attempts, TaskActs(a)
      PROVE  Goal
  <2>1. /\ ecs[a] = "running"
        /\ ecs' = ecs \/ (ecs' = [ecs EXCEPT ![a] = "zero"] /\ task'[a] = IdleTask)
    BY <1>8, TaskIsWorker
  <2>2. \A b \in Attempts \ {a} : ecs'[b] = ecs[b]
    BY <1>1, <2>1
  <2>3. CASE task' = task
    <3>1. \A b \in Workers : Fine(b)
      BY <1>5, <1>6, <2>1, <2>2, <2>3 DEF Attempts
    <3> QED
      BY <1>1, <2>3, <3>1
  <2>4. ASSUME NEW t \in Task, GoesOn(a, t)
        PROVE  Goal
    <3>1. /\ task'[a] = t /\ \A b \in Attempts \ {a} : task'[b] = task[b]
          /\ t = IdleTask \/ (t.survey = task[a].survey /\ t.survey \in Surveys)
      BY <1>1, <2>4, GoesOnBusy
    <3>2. task' \in [Workers -> Task]
      BY <1>1, <2>4 DEF GoesOn
    <3>3. Fine(a)
      <4>1. CASE t = IdleTask
        BY <1>6, <3>1, <4>1 DEF Attempts
      <4>2. CASE t # IdleTask
        <5>1. Stopping(t) => Stopping(task[a]) \/ AskedFor(t.survey)
          BY <2>4, <4>2 DEF GoesOn
        <5>2. Stopping(t) => AskedFor(t.survey)
          BY <1>1, <3>1, <4>2, <5>1 DEF StopWasAsked, Attempts
        <5>3. PICK s \in Surveys : s = t.survey
          BY <3>1, <4>2
        <5>4. Stopping(t) => AskedFor(s)'
          BY <1>2, <5>2, <5>3
        <5>5. ecs'[a] = "running"
          BY <1>1, <2>1, <3>1, <4>2
        <5> QED
          BY <3>1, <5>3, <5>4, <5>5 DEF Fine
      <4> QED
        BY <4>1, <4>2
    <3>4. \A b \in Workers \ {a} : Fine(b)
      BY <1>5, <2>2, <3>1 DEF Attempts
    <3> QED
      BY <3>2, <3>3, <3>4
  <2> QED
    BY <1>1, <1>8, <2>3, <2>4, TaskGoesOn
<1>9. ASSUME NEW a \in Attempts, TaskClaims(a)
      PROVE  Goal
  <2>1. PICK pc \in {"execute", "archive"} : task'[a] = NewTask(attempt[a].survey, pc)
    BY <1>9, ClaimBegins DEF ComputeInv
  <2>2. /\ attempt[a].survey \in Surveys /\ task' \in [Workers -> Task]
        /\ \A b \in Attempts \ {a} : task'[b] = task[b]
        /\ ecs' = [ecs EXCEPT ![a] = "running"]
    BY <1>9, ClaimBegins DEF ComputeInv
  <2>3. \A b \in Attempts : ecs[b] = "running" => ecs'[b] = "running"
    BY <1>1, <2>2
  <2>4. ecs'[a] = "running"
    BY <1>1, <2>2
  <2>5. /\ task'[a].survey \in Surveys /\ ~Stopping(task'[a])
    BY <2>1, <2>2 DEF NewTask, IdleTask, Stopping
  <2>6. Fine(a)
    BY <2>4, <2>5 DEF Fine
  <2>7. \A b \in Workers \ {a} : Fine(b)
    BY <1>5, <2>2, <2>3 DEF Attempts
  <2> QED
    BY <2>2, <2>6, <2>7
<1>10. ASSUME NEW a \in Attempts, TaskFails(a)
       PROVE  Goal
  <2>1. task' = [task EXCEPT ![a] = IdleTask]
    BY <1>10 DEF TaskFails, Ends, SetTask
  <2>2. \A b \in Attempts \ {a} : ecs'[b] = ecs[b]
    BY <1>1, <1>10 DEF TaskFails
  <2>3. task' \in [Workers -> Task]
    BY <1>1, <1>3, <2>1
  <2>4. \A b \in Workers : Fine(b)
    BY <1>1, <1>5, <1>6, <2>1, <2>2 DEF Attempts
  <2> QED
    BY <2>3, <2>4
<1> QED
  BY <1>7, <1>8, <1>9, <1>10, TasksMove

\* A busy task holds its attempt and its job: the attempt is closed only after the task
\* has stopped, removed only with a job that is not underway, and the job is finished
\* only by the one task that works on it.
LEMMA BusyStep ==
    ASSUME ComputeInv, [ComputeNext]_computeVars
    PROVE  BusyHoldsAttempt'
<1>1. /\ task \in [Workers -> Task] /\ attempt \in [Attempts -> Attempt]
      /\ ComputeTypes /\ TaskHasSurvey /\ StoreInv /\ BusyHoldsAttempt /\ OneActive /\ TasksRun
  BY DEF ComputeInv, ComputeTypes
<1>2. TablesFollow
  BY ComputeTables
<1> SUFFICES ASSUME NEW a \in Attempts, Busy(a)'
             PROVE  /\ attempt'[a].status = "running"
                    /\ attempt'[a].survey = task'[a].survey
                    /\ job'[task'[a].survey].status \in Underway
  BY DEF BusyHoldsAttempt, Underway
<1>3. ~Busy(a) => TaskClaims(a)
  <2>1. ASSUME NEW b \in Attempts, TaskClaims(b), b # a
        PROVE  Busy(a)
    <3>1. task'[a] = task[a]
      BY <2>1, ClaimBegins
    <3> QED
      BY <3>1 DEF Busy
  <2>2. ASSUME NEW b \in Attempts, TaskActs(b)
        PROVE  Busy(a)
    BY <1>1, <2>2, TaskGoesOn, GoesOnBusy DEF Busy
  <2>3. ASSUME NEW b \in Attempts, TaskFails(b)
        PROVE  Busy(a)
    <3>1. task'[b] = IdleTask /\ \A c \in Attempts \ {b} : task'[c] = task[c]
      BY <1>1, <2>3 DEF TaskFails, Ends, SetTask, Attempts
    <3> QED
      BY <3>1 DEF Busy, IdleTask
  <2> QED
    BY <2>1, <2>2, <2>3, TasksMove DEF Busy
<1>4. CASE TaskClaims(a)
  <2>1. PICK pc \in {"execute", "archive"} : task'[a] = NewTask(attempt[a].survey, pc)
    BY <1>4, ClaimBegins
  <2>2. task'[a].survey = attempt[a].survey
    BY <2>1 DEF NewTask, IdleTask
  <2> QED
    BY <1>4, <2>2, ClaimBegins
<1>5. CASE Busy(a) /\ ~TaskClaims(a)
  <2>1. task[a] # IdleTask /\ ecs[a] = "running" /\ task[a].survey \in Surveys
    BY <1>1, <1>5 DEF Busy, IdleTask, TasksRun, TaskHasSurvey, Attempts
  <2>2. PICK s \in Surveys : s = task[a].survey
    BY <2>1
  <2>3. attempt[a].status = "running" /\ attempt[a].survey = s /\ job[s].status \in Underway
    BY <1>1, <1>5, <2>2 DEF BusyHoldsAttempt, Underway
  <2>4. task'[a].survey = s
    <3>1. ASSUME NEW b \in Attempts, TaskActs(b)
          PROVE  task'[a].survey = s
      BY <1>1, <2>2, <3>1, TaskGoesOn, GoesOnBusy
    <3>2. ASSUME NEW b \in Attempts, TaskClaims(b)
          PROVE  task'[a].survey = s
      BY <1>5, <2>2, <3>2, ClaimBegins
    <3>3. ASSUME NEW b \in Attempts, TaskFails(b)
          PROVE  task'[a].survey = s
      <4>1. task'[b] = IdleTask /\ \A c \in Attempts \ {b} : task'[c] = task[c]
        BY <1>1, <3>3 DEF TaskFails, Ends, SetTask, Attempts
      <4> QED
        BY <2>2, <4>1 DEF Busy, IdleTask
    <3> QED
      BY <2>2, <3>1, <3>2, <3>3, TasksMove
  <2>5. job'[s].status \in Underway
    <3>1. ASSUME NEW b \in Attempts, FinishedBy(b, s)
          PROVE  FALSE
      <4>1. Busy(b) /\ task[b].survey = s
        BY <3>1 DEF FinishedBy, Busy
      <4>2. attempt[b].status = "running" /\ attempt[b].survey = s
        BY <1>1, <4>1 DEF BusyHoldsAttempt
      <4>3. a = b
        BY <1>1, <2>3, <4>2 DEF OneActive, ActiveOf, Of, Working
      <4> QED
        BY <3>1, <4>3 DEF FinishedBy, Busy
    <3> QED
      BY <1>2, <2>3, <3>1 DEF TablesFollow
  <2>6. attempt'[a].status = "running" /\ attempt'[a].survey = s
    <3>1. ASSUME NEW b \in Attempts, NEW r \in Attempt, Alters(b, r)
          PROVE  attempt'[a].status = "running" /\ attempt'[a].survey = s
      <4>1. ecs[a] \notin Stopped
        BY <2>1 DEF Stopped
      <4> QED
        BY <1>1, <2>3, <3>1, <4>1 DEF Alters
    <3>2. ASSUME NEW t \in Surveys, NEW b \in Attempts, Reserve(t, b)
          PROVE  attempt'[a].status = "running" /\ attempt'[a].survey = s
      BY <2>3, <3>2, ReserveAdds
    <3>3. ASSUME NEW t \in Surveys, Removes(t)
          PROVE  attempt'[a].status = "running" /\ attempt'[a].survey = s
      <4>1. s # t
        BY <2>5, <3>3 DEF Removes, Underway
      <4>2. attempt'[a] = attempt[a]
        BY <2>3, <3>3, <4>1 DEF Removes, Of
      <4> QED
        BY <2>3, <4>2
    <3> QED
      BY <2>3, <3>1, <3>2, <3>3, AttemptMoves
  <2> QED
    BY <2>4, <2>5, <2>6
<1> QED
  BY <1>3, <1>4, <1>5

\* ECS never starts a stopped task again, and no attempt becomes free again.
LEMMA ControlStep ==
    ASSUME ComputeInv, [ComputeNext]_computeVars
    PROVE  /\ ecs' \in [Attempts -> {"none", "pending", "running"} \cup Stopped]
           /\ control' \in Control
           /\ deadline' \in [Surveys -> {"none", "ahead", "passed"}]
           /\ StopHasHappened'
<1>1. /\ ecs \in [Attempts -> {"none", "pending", "running"} \cup Stopped]
      /\ control \in Control /\ deadline \in [Surveys -> {"none", "ahead", "passed"}]
      /\ attempt \in [Attempts -> Attempt]
      /\ StopHasHappened /\ AttemptHasSurvey
  BY DEF ComputeInv, ComputeTypes
<1>2. \A a \in Attempts : attempt[a].status # "free" => attempt'[a].status # "free"
  <2>1. ASSUME NEW a \in Attempts, NEW r \in Attempt, Alters(a, r), NEW b \in Attempts,
               attempt[b].status # "free"
        PROVE  attempt'[b].status # "free"
    BY <1>1, <2>1 DEF Alters
  <2>2. ASSUME NEW s \in Surveys, NEW a \in Attempts, Reserve(s, a), NEW b \in Attempts,
               attempt[b].status # "free"
        PROVE  attempt'[b].status # "free"
    BY <2>2, ReserveAdds
  <2>3. ASSUME NEW s \in Surveys, Removes(s), NEW b \in Attempts, attempt[b].status # "free"
        PROVE  attempt'[b].status # "free"
    BY <2>3 DEF Removes, FreeAttempt
  <2> QED
    BY <2>1, <2>2, <2>3, AttemptMoves
<1>3. /\ ecs' \in [Attempts -> {"none", "pending", "running"} \cup Stopped]
      /\ \A a \in Attempts : ecs[a] \in {"error", "oom"} => ecs'[a] \in {"error", "oom"}
  <2>1. ASSUME NEW a \in Attempts, NEW e \in {"none", "pending", "running"} \cup Stopped,
               ecs' = [ecs EXCEPT ![a] = e], ecs[a] \notin {"error", "oom"}
        PROVE  /\ ecs' \in [Attempts -> {"none", "pending", "running"} \cup Stopped]
               /\ \A b \in Attempts : ecs[b] \in {"error", "oom"} => ecs'[b] \in {"error", "oom"}
    BY <1>1, <2>1
  <2>2. ASSUME NEW a \in Attempts,
               \/ MarkLaunching(a) \/ RecordLaunch(a) \/ RecordRefusal(a) \/ BackoffEnds(a)
               \/ CleanExitIsSeen(a) \/ FailureIsSeen(a) \/ RecordFailure(a)
               \/ \E s \in Surveys : Reserve(s, a)
        PROVE  ecs' = ecs
    BY <2>2 DEF MarkLaunching, RecordLaunch, RecordRefusal, BackoffEnds, CleanExitIsSeen,
                FailureIsSeen, RecordFailure, Reserve
  <2>3. ASSUME \/ ControlStops \/ UNCHANGED computeVars
               \/ \E s \in Surveys : OwnerStep(s) \/ LeaseExpires(s) \/ DeadlinePasses(s)
        PROVE  ecs' = ecs
    BY <2>3 DEF ControlStops, OwnerStep, LeaseExpires, DeadlinePasses, computeVars
  <2>4. ASSUME NEW a \in Attempts, TaskActs(a)
        PROVE  /\ ecs[a] = "running"
               /\ ecs' = ecs \/ ecs' = [ecs EXCEPT ![a] = "zero"]
    BY <2>4, TaskIsWorker
  <2>5. ASSUME NEW a \in Attempts, TaskFails(a)
        PROVE  /\ ecs[a] \in {"pending", "running"}
               /\ ecs' = [ecs EXCEPT ![a] = "error"] \/ ecs' = [ecs EXCEPT ![a] = "oom"]
    BY <2>5 DEF TaskFails
  <2>6. ASSUME NEW a \in Attempts, TaskClaims(a)
        PROVE  ecs[a] = "pending" /\ ecs' = [ecs EXCEPT ![a] = "running"]
    BY <2>6 DEF TaskClaims
  <2>7. ASSUME NEW a \in Attempts, TaskIsNotNeeded(a)
        PROVE  ecs[a] = "pending" /\ ecs' = [ecs EXCEPT ![a] = "zero"]
    BY <2>7 DEF TaskIsNotNeeded
  <2>8. ASSUME NEW a \in Attempts, RunTask(a)
        PROVE  ecs' = ecs \/ (ecs[a] = "none" /\ ecs' = [ecs EXCEPT ![a] = "pending"])
    BY <2>8 DEF RunTask
  <2> QED
    BY <1>1, <2>1, <2>2, <2>3, <2>4, <2>5, <2>6, <2>7, <2>8 DEF ComputeNext, TaskActs, Stopped
<1>4. control' \in Control /\ StopHasHappened'
  <2>1. ASSUME control' = control
        PROVE  control' \in Control /\ StopHasHappened'
    BY <1>1, <1>2, <1>3, <2>1 DEF StopHasHappened
  <2>2. ASSUME control' = IdleControl
        PROVE  control' \in Control /\ StopHasHappened'
    BY <2>2 DEF IdleControl, Control, StopHasHappened
  <2>3. ASSUME NEW a \in Attempts, NEW pc \in {"run", "answered", "refused"},
               control' = InHand(pc, a)
        PROVE  control' \in Control /\ StopHasHappened'
    BY <2>3 DEF InHand, Control, StopHasHappened
  <2>4. ASSUME NEW a \in Attempts, FailureIsSeen(a)
        PROVE  control' \in Control /\ StopHasHappened'
    <3>1. PICK retry \in BOOLEAN : control' = [pc |-> "stop", attempt |-> a, retry |-> retry]
      BY <2>4 DEF FailureIsSeen
    <3>2. ecs[a] \in {"error", "oom"} /\ attempt[a].tracked
      BY <2>4 DEF FailureIsSeen
    <3>3. attempt[a].status # "free"
      BY <1>1, <3>2 DEF AttemptHasSurvey
    <3> QED
      BY <1>2, <1>3, <3>1, <3>2, <3>3 DEF Control, StopHasHappened
  <2>5. ASSUME NEW a \in Attempts,
               \/ \E s \in Surveys : Reserve(s, a)
               \/ BackoffEnds(a) \/ TaskClaims(a) \/ TaskIsNotNeeded(a) \/ TaskFails(a)
               \/ TaskBeats(a) \/ TaskGivesUpLease(a) \/ TaskProceeds(a) \/ CleanExitIsSeen(a)
        PROVE  control' = control
    BY <2>5, TaskIsWorker DEF Reserve, BackoffEnds, TaskClaims, TaskIsNotNeeded, TaskFails,
                              TaskActs, CleanExitIsSeen
  <2>6. ASSUME \/ UNCHANGED computeVars
               \/ \E s \in Surveys : OwnerStep(s) \/ LeaseExpires(s) \/ DeadlinePasses(s)
        PROVE  control' = control
    BY <2>6 DEF OwnerStep, LeaseExpires, DeadlinePasses, computeVars
  <2>7. ASSUME \/ ControlStops
               \/ \E a \in Attempts : RecordLaunch(a) \/ RecordRefusal(a) \/ RecordFailure(a)
        PROVE  control' = IdleControl
    BY <2>7 DEF ControlStops, RecordLaunch, RecordRefusal, RecordFailure
  <2>8. ASSUME NEW a \in Attempts, MarkLaunching(a) \/ RunTask(a)
        PROVE  \E pc \in {"run", "answered", "refused"} : control' = InHand(pc, a)
    BY <2>8 DEF MarkLaunching, RunTask
  <2> QED
    BY <2>1, <2>2, <2>3, <2>4, <2>5, <2>6, <2>7, <2>8 DEF ComputeNext
<1>5. deadline' \in [Surveys -> {"none", "ahead", "passed"}]
  <2>1. deadline' = deadline \/ \E s \in Surveys, d \in {"none", "ahead", "passed"} :
                                    deadline' = [deadline EXCEPT ![s] = d]
    <3>1. ASSUME NEW a \in Attempts, TaskClaims(a)
          PROVE  \E s \in Surveys, d \in {"none", "ahead", "passed"} :
                    deadline' = [deadline EXCEPT ![s] = d]
      <4>1. PICK s \in Surveys : s = attempt[a].survey
        BY <3>1, ClaimBegins
      <4>2. deadline' = [deadline EXCEPT ![s] = IF deadline[s] = "none" THEN "ahead"
                                                                        ELSE deadline[s]]
        BY <3>1, <4>1 DEF TaskClaims
      <4> QED
        BY <1>1, <4>2
    <3>2. ASSUME NEW s \in Surveys, DeadlinePasses(s)
          PROVE  deadline' = [deadline EXCEPT ![s] = "passed"]
      BY <3>2 DEF DeadlinePasses
    <3>3. ASSUME NEW a \in Attempts,
                 \/ MarkLaunching(a) \/ RunTask(a) \/ RecordLaunch(a) \/ RecordRefusal(a)
                 \/ BackoffEnds(a) \/ TaskIsNotNeeded(a) \/ TaskFails(a)
                 \/ TaskBeats(a) \/ TaskGivesUpLease(a) \/ TaskProceeds(a)
                 \/ CleanExitIsSeen(a) \/ FailureIsSeen(a) \/ RecordFailure(a)
                 \/ \E s \in Surveys : Reserve(s, a)
          PROVE  deadline' = deadline
      BY <3>3, TaskIsWorker
         DEF MarkLaunching, RunTask, RecordLaunch, RecordRefusal, BackoffEnds, TaskIsNotNeeded,
             TaskFails, TaskActs, CleanExitIsSeen, FailureIsSeen, RecordFailure, Reserve
    <3>4. ASSUME \/ ControlStops \/ UNCHANGED computeVars
                 \/ \E s \in Surveys : OwnerStep(s) \/ LeaseExpires(s)
          PROVE  deadline' = deadline
      BY <3>4 DEF ControlStops, OwnerStep, LeaseExpires, computeVars
    <3> QED
      BY <3>1, <3>2, <3>3, <3>4 DEF ComputeNext
  <2> QED
    BY <1>1, <2>1
<1> QED
  BY <1>3, <1>4, <1>5

-----------------------------------------------------------------------------
(* The invariant holds in every state.                                     *)

\* It holds of surveys that were started before, with nothing attempted yet.
LEMMA ComputeInitInv == ComputeInit => ComputeInv
<1> SUFFICES ASSUME ComputeInit
             PROVE  ComputeInv
  OBVIOUS
<1>1. \A s \in Surveys : /\ survey[s].status = "queued" /\ survey[s].quota = "reserved"
                         /\ survey[s] \in SurveyRow
  <2>1. \A n \in NotifyChoices : /\ [SurveyIn("queued", "reserved") EXCEPT !.notify = n] \in SurveyRow
                                 /\ [SurveyIn("queued", "reserved") EXCEPT !.notify = n].status = "queued"
                                 /\ [SurveyIn("queued", "reserved") EXCEPT !.notify = n].quota = "reserved"
    BY QueueConstants DEF SurveyIn, SurveyRow, Active, Errors
  <2>2. \A s \in Surveys :
          survey[s] \in {[SurveyIn("queued", "reserved") EXCEPT !.notify = n] : n \in NotifyChoices}
    BY DEF ComputeInit
  <2> SUFFICES ASSUME NEW s \in Surveys
               PROVE  /\ survey[s].status = "queued" /\ survey[s].quota = "reserved"
                      /\ survey[s] \in SurveyRow
    OBVIOUS
  <2>3. PICK n \in NotifyChoices : survey[s] = [SurveyIn("queued", "reserved") EXCEPT !.notify = n]
    BY <2>2
  <2>4. PICK r : r = [SurveyIn("queued", "reserved") EXCEPT !.notify = n]
    OBVIOUS
  <2>5. r \in SurveyRow /\ r.status = "queued" /\ r.quota = "reserved"
    BY <2>1, <2>4
  <2> QED
    BY <2>3, <2>4, <2>5
<1>2. /\ \A s \in Surveys : /\ job[s] = JobIn("queued") /\ draft[s] = DraftIn("none", 1)
                            /\ notification[s] = NoNotification
      /\ cleanup = {} /\ succeeded = [l \in Ledgers |-> 0]
      /\ reserved = [l \in Ledgers |-> Cardinality({s \in Surveys : LedgerOf[s] = l})]
  BY DEF ComputeInit
<1>3. JobIn("queued") \in JobRow /\ NoNotification \in NotificationRow
  BY DEF JobIn, JobRow, NoNotification, NotificationRow, Leases, Outcomes, Errors
<1>4. DraftIn("none", 1) \in DraftRow
  BY StoreConstants, ComputeConstants DEF DraftIn, DraftRow, Leases, Revisions
<1>5. StoreTypeOK
  <2>1. survey \in [Surveys -> SurveyRow]
    <3>1. \E S : survey \in [Surveys -> S]
      BY DEF ComputeInit
    <3> QED
      BY <1>1, <3>1
  <2>2. \A l \in Ledgers : Cardinality({s \in Surveys : LedgerOf[s] = l}) \in Nat
    BY StoreConstants, FS_Subset, FS_CardinalityType
  <2> QED
    BY <1>2, <1>3, <1>4, <2>1, <2>2 DEF ComputeInit, StoreTypeOK
<1>6. LedgerBalanced
  <2> SUFFICES ASSUME NEW l \in Ledgers
               PROVE  /\ reserved[l] = Cardinality(Charged(l, "reserved"))
                      /\ succeeded[l] = Cardinality(Charged(l, "consumed"))
    BY DEF LedgerBalanced
  <2>1. Charged(l, "reserved") = {s \in Surveys : LedgerOf[s] = l} /\ Charged(l, "consumed") = {}
    BY <1>1 DEF Charged
  <2> QED
    BY <1>2, <2>1, FS_EmptySet
<1>7. QuotaFollowsStatus /\ CancelledNeverCharged /\ NotificationTruthful
  BY <1>1, <1>2 DEF QuotaFollowsStatus, QuotaFits, Active, CancelledNeverCharged, CancelFits,
                    JobIn, NotificationTruthful, EmailFits, NoNotification
<1>8. RowsFit
  BY <1>1, <1>2, StoreConstants DEF RowsFit, JobFollows, JobForm, DraftFollows, JobIn, DraftIn
<1>9. CancelsRan
  BY <1>2 DEF CancelsRan, JobIn
<1>10. ComputeTypes
  BY DEF ComputeInit, ComputeTypes, IdleTask, Task, FreeAttempt, Attempt, Attempts, IdleControl,
         Control, None
<1>11. TaskHasSurvey /\ StopWasAsked /\ TasksRun /\ BusyHoldsAttempt
  BY DEF ComputeInit, IdleTask, TaskHasSurvey, StopWasAsked, Stopping, TasksRun,
         BusyHoldsAttempt, Busy, Attempts
<1>12. AttemptHasSurvey /\ OneActive /\ StopHasHappened
  BY DEF ComputeInit, FreeAttempt, AttemptHasSurvey, OneActive, ActiveOf, Of, Working,
         Launchable, IdleControl, StopHasHappened
<1>13. WithinLimits
  <2>1. Occupied = {} /\ \A u \in Users : OccupiedBy(u) = {}
    BY DEF ComputeInit, FreeAttempt, Occupied, OccupiedBy, Working, Launchable
  <2> QED
    BY <2>1, FS_EmptySet, StoreConstants DEF WithinLimits
<1> QED
  BY <1>5, <1>6, <1>7, <1>8, <1>9, <1>10, <1>11, <1>12, <1>13 DEF ComputeInv, StoreInv

LEMMA ComputeInvariant == ComputeSpec => []ComputeInv
<1>1. ComputeInv /\ [ComputeNext]_computeVars => ComputeInv'
  <2> SUFFICES ASSUME ComputeInv, [ComputeNext]_computeVars
               PROVE  ComputeInv'
    OBVIOUS
  <2>1. StoreInv' /\ CancelsRan'
    BY ComputeTables DEF TablesFollow
  <2>2. task' \in [Workers -> Task] /\ TaskHasSurvey' /\ StopWasAsked' /\ TasksRun'
    BY ComputeTaskStep
  <2>3. ComputeTypes' /\ StopHasHappened'
    BY <2>2, AttemptTypes, ControlStep DEF ComputeTypes
  <2> QED
    BY <2>1, <2>2, <2>3, AttemptHasSurveyStep, BusyStep, OneActiveStep, WithinLimitsStep
       DEF ComputeInv
<1> QED
  BY <1>1, ComputeInitInv, PTL DEF ComputeSpec

-----------------------------------------------------------------------------
(* The theorems.                                                           *)

\* No two tasks ever work on one job, and a job never has two attempts that count.
THEOREM TasksAreUnique == ComputeSpec => []OneTaskPerJob
<1>1. ComputeInv => OneTaskPerJob
  <2> SUFFICES ASSUME ComputeInv, NEW a \in AtWork, NEW b \in AtWork,
                      task[a].survey = task[b].survey
               PROVE  a = b
    BY DEF OneTaskPerJob, ComputeInv, OneActive
  <2>1. Busy(a) /\ Busy(b) /\ a \in Attempts /\ b \in Attempts
    BY DEF AtWork, Busy
  <2>2. /\ attempt[a].status = "running" /\ attempt[b].status = "running"
        /\ attempt[a].survey = task[a].survey /\ attempt[b].survey = task[a].survey
    BY <2>1 DEF ComputeInv, BusyHoldsAttempt
  <2>3. task[a].survey \in Surveys
    BY <2>1 DEF ComputeInv, TaskHasSurvey, Busy, Attempts
  <2> QED
    BY <2>1, <2>2, <2>3 DEF ComputeInv, OneActive, ActiveOf, Of, Working
<1> QED
  BY <1>1, ComputeInvariant, PTL

\* The tasks that work on jobs are never more than the limits of the deployment allow,
\* in all and for each user, whatever becomes of their leases.
THEOREM LimitsAreKept == ComputeSpec => []TasksWithinLimits
<1>1. ComputeInv => TasksWithinLimits
  <2> SUFFICES ASSUME ComputeInv
               PROVE  TasksWithinLimits
    OBVIOUS
  <2>1. /\ WithinLimits /\ GlobalConcurrency \in Nat /\ PerUserConcurrency \in Nat
    BY StoreConstants DEF ComputeInv
  <2>2. \A a \in AtWork : a \in Occupied /\ attempt[a].survey = task[a].survey
    BY DEF ComputeInv, BusyHoldsAttempt, AtWork, Busy, Occupied, Working
  <2>3. Cardinality(AtWork) <= GlobalConcurrency
    <3>1. AtWork \subseteq Occupied
      BY <2>2
    <3>2. /\ Cardinality(AtWork) <= Cardinality(Occupied) /\ Cardinality(Occupied) \in Nat
          /\ Cardinality(AtWork) \in Nat
      BY <2>1, <3>1, FS_Subset, FS_CardinalityType DEF WithinLimits
    <3> QED
      BY <2>1, <3>2 DEF WithinLimits
  <2>4. ASSUME NEW u \in Users
        PROVE  Cardinality({a \in AtWork : UserOf[task[a].survey] = u}) <= PerUserConcurrency
    <3> DEFINE mine == {a \in AtWork : UserOf[task[a].survey] = u}
    <3>1. mine \subseteq OccupiedBy(u) /\ OccupiedBy(u) \subseteq Occupied
      BY <2>2 DEF OccupiedBy
    <3> HIDE DEF mine
    <3>2. IsFiniteSet(OccupiedBy(u))
      BY <2>1, <3>1, FS_Subset DEF WithinLimits
    <3>3. /\ Cardinality(mine) <= Cardinality(OccupiedBy(u)) /\ Cardinality(mine) \in Nat
          /\ Cardinality(OccupiedBy(u)) \in Nat
      BY <3>1, <3>2, FS_Subset, FS_CardinalityType
    <3>4. Cardinality(mine) <= PerUserConcurrency
      BY <2>1, <3>3 DEF WithinLimits
    <3> QED
      BY <3>4 DEF mine
  <2> QED
    BY <2>3, <2>4 DEF TasksWithinLimits
<1> QED
  BY <1>1, ComputeInvariant, PTL

HarmlessStop ==
    \A a \in Attempts, s \in Surveys :
        /\ control' # control
        /\ "stop" \in {control.pc, control'.pc}
        /\ a \in {control.attempt, control'.attempt}
        /\ job[s].owner # a
        => job'[s] = job[s]

\* The report of a stopped task changes the job only while its attempt owns it.
THEOREM LateStopsAreHarmless == ComputeSpec => LateStopIsHarmless
<1>1. ComputeInv /\ [ComputeNext]_computeVars => [HarmlessStop]_computeVars
  <2> SUFFICES ASSUME ComputeInv, ComputeNext, NEW a \in Attempts, NEW s \in Surveys,
                      control' # control, "stop" \in {control.pc, control'.pc},
                      a \in {control.attempt, control'.attempt}, job[s].owner # a
               PROVE  job'[s] = job[s]
    BY DEF HarmlessStop
  <2>1. job \in [Surveys -> JobRow] /\ a # None
    BY StoreConstants DEF ComputeInv, StoreInv, StoreTypeOK, Attempts, None
  <2>2. ASSUME NEW b \in Attempts, FailureIsSeen(b)
        PROVE  job'[s] = job[s]
    <3>1. a = b
      BY <2>1, <2>2 DEF FailureIsSeen, IdleControl
    <3>2. CASE SettleExecution(attempt[b].survey, b, "failed", "other", FALSE)
      <4>1. job[attempt[b].survey].owner = b /\ \A t \in Surveys \ {attempt[b].survey} :
               job'[t] = job[t]
        BY <2>1, <3>2 DEF SettleExecution
      <4> QED
        BY <3>1, <4>1
    <3> QED
      BY <2>2, <3>2 DEF FailureIsSeen, FailExhausted, tables
  <2>3. ASSUME NEW b \in Attempts, RecordFailure(b)
        PROVE  job'[s] = job[s]
    <3>1. a = b
      BY <2>1, <2>3 DEF RecordFailure, IdleControl
    <3>2. CASE ReleaseClaim(attempt[b].survey, b)
      BY <2>1, <3>1, <3>2 DEF ReleaseClaim
    <3> QED
      BY <2>3, <3>2 DEF RecordFailure, tables
  <2>4. ASSUME \/ ControlStops
               \/ \E b \in Attempts : MarkLaunching(b) \/ RunTask(b) \/ RecordLaunch(b) \/ RecordRefusal(b)
        PROVE  job'[s] = job[s]
    BY <2>4 DEF ControlStops, MarkLaunching, RunTask, RecordLaunch, RecordRefusal, queueVars,
                tables
  <2>5. ASSUME NEW b \in Attempts,
               \/ \E t \in Surveys : Reserve(t, b)
               \/ BackoffEnds(b) \/ TaskClaims(b) \/ TaskIsNotNeeded(b) \/ TaskFails(b)
               \/ TaskBeats(b) \/ TaskGivesUpLease(b) \/ TaskProceeds(b) \/ CleanExitIsSeen(b)
        PROVE  FALSE
    BY <2>5, TaskIsWorker DEF Reserve, BackoffEnds, TaskClaims, TaskIsNotNeeded, TaskFails,
                              TaskActs, CleanExitIsSeen
  <2>6. ASSUME NEW t \in Surveys, OwnerStep(t) \/ LeaseExpires(t) \/ DeadlinePasses(t)
        PROVE  FALSE
    BY <2>6 DEF OwnerStep, LeaseExpires, DeadlinePasses
  <2> QED
    BY <2>2, <2>3, <2>4, <2>5, <2>6 DEF ComputeNext
<1>2. [][HarmlessStop]_computeVars => LateStopIsHarmless
  BY PTL DEF HarmlessStop, LateStopIsHarmless
<1> QED
  BY <1>1, <1>2, ComputeInvariant, PTL DEF ComputeSpec

\* Attempts, retries and late stops never do to a survey what SurveyLifecycle forbids.
THEOREM ComputeKeepsLifecycle == ComputeSpec => StepsOfLifecycle
<1>1. ComputeInv /\ [ComputeNext]_computeVars => [Lifecycle!Next]_(Lifecycle!vars)
  BY ComputeTables DEF TablesFollow, LifecycleStep
<1> QED
  BY <1>1, ComputeInvariant, PTL DEF ComputeSpec, StepsOfLifecycle

=============================================================================
