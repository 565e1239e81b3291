------------------------------ MODULE SurveyStore ------------------------------
(***************************************************************************)
(* The PostgreSQL tables of the Survey subsystem and every transaction     *)
(* that writes them (db/queries_survey.py, db/queries_survey_drafts.py,    *)
(* and the part of db/queries_survey_notifications.py that the Survey      *)
(* transactions can observe).                                              *)
(*                                                                         *)
(* Each transaction first takes the row locks of its aggregate in the      *)
(* order usage, survey, job, drafts (db/survey_locking.py), and the claim  *)
(* transactions also hold the advisory lock of their queue, so each one is *)
(* an atomic action.  An action that raises changes nothing and is not     *)
(* listed: the caller's reaction to the error is in the composing module.  *)
(* Retries of an already accepted request (same client_request_id) return  *)
(* the stored row and are stuttering steps.                                *)
(*                                                                         *)
(* Time is abstracted: a lease is "live" or "expired" against the          *)
(* database clock, and an archive retry is due or still backing off.       *)
(***************************************************************************)
EXTENDS Integers, FiniteSets

CONSTANTS
    Surveys,               \* survey ids; a survey has at most one job, named alike
    Users,
    Ledgers,               \* survey_daily_usage rows, one per (user, quota_date)
    UserOf, LedgerOf,      \* the creator of a survey and the row it is charged to
    Workers, DraftWorkers, \* lease owners of jobs and of drafts
    NoWorker,
    DailyLimit,            \* daily_limit, or the user's override of it
    GlobalConcurrency, PerUserConcurrency,           \* of jobs
    DraftGlobalConcurrency, DraftPerUserConcurrency, \* of drafts
    MaxRevision            \* 10 in the code

ASSUME StoreConstants ==
    /\ IsFiniteSet(Surveys)
    /\ UserOf \in [Surveys -> Users]
    /\ LedgerOf \in [Surveys -> Ledgers]
    /\ NoWorker \notin Workers \cup DraftWorkers
    /\ {DailyLimit, GlobalConcurrency, PerUserConcurrency, DraftGlobalConcurrency,
        DraftPerUserConcurrency, MaxRevision} \subseteq Nat

VARIABLES
    reserved, succeeded,   \* survey_daily_usage.reserved_count, succeeded_count
    survey, draft, job,    \* one record per survey id
    notification,          \* survey_email_notifications, UNIQUE (survey_id)
    cleanup                \* survey_artifact_cleanup_outbox: the jobs listed in it

ledger == <<reserved, succeeded>>
tables == <<reserved, succeeded, survey, draft, job, notification, cleanup>>

-----------------------------------------------------------------------------
(* Rows.  A deleted survey keeps its quota state in the model, as history. *)

Active == {"drafting", "queued", "running"}
Terminal == {"succeeded", "failed", "cancelled"}
Outcomes == Terminal
Errors == {"none", "degraded", "contract", "other", "archive_pending", "workspace_missing"}
Leases == {"none", "live", "expired"}
Revisions == 0..MaxRevision

SurveyRow == [status : {"absent", "archiving", "deleted"} \cup Active \cup Terminal,
              quota  : {"none", "reserved", "consumed", "released"},
              notify : BOOLEAN,
              error  : Errors]
JobRow == [status   : {"absent", "queued", "running", "archiving", "finished"},
           owner    : Workers \cup {NoWorker},
           lease    : Leases,
           cancel   : BOOLEAN,
           outcome  : Outcomes \cup {"none"},
           due      : BOOLEAN,
           error    : Errors,
           manifest : {"none", "original", "overlay"}]
\* The rows of a survey's drafts that later transactions look at: the one that is
\* queued or running, the revision it is based on (0 is NULL), the latest ready one.
DraftRow == [active : {"none", "queued", "running"},
             owner  : DraftWorkers \cup {NoWorker},
             lease  : Leases,
             base   : Revisions,
             latest : Revisions]
\* "pending" stands for pending and retry, "done" for succeeded and dead.
NotificationRow == [status  : {"absent", "pending", "running", "done"},
                    outcome : {"none", "succeeded", "failed"}]

SurveyIn(status, quota) ==
    [status |-> status, quota |-> quota, notify |-> FALSE, error |-> "none"]
JobIn(status) ==
    [status |-> status, owner |-> NoWorker, lease |-> "none", cancel |-> FALSE,
     outcome |-> "none", due |-> FALSE, error |-> "none", manifest |-> "none"]
DraftIn(active, latest) ==
    [active |-> active, owner |-> NoWorker, lease |-> "none",
     base |-> IF active = "queued" THEN latest ELSE 0, latest |-> latest]

NoSurvey == SurveyIn("absent", "none")
NoJob == JobIn("absent")
NoDraft == DraftIn("none", 0)
NoNotification == [status |-> "absent", outcome |-> "none"]

StoreInit ==
    /\ reserved = [l \in Ledgers |-> 0]
    /\ succeeded = [l \in Ledgers |-> 0]
    /\ survey = [s \in Surveys |-> NoSurvey]
    /\ draft = [s \in Surveys |-> NoDraft]
    /\ job = [s \in Surveys |-> NoJob]
    /\ notification = [s \in Surveys |-> NoNotification]
    /\ cleanup = {}

-----------------------------------------------------------------------------
(* Requests of the owner of the survey.                                    *)

\* Mutant of HasAllowance: only the open reservations count.
HasAllowanceIgnoringCharges(s) == reserved[LedgerOf[s]] < DailyLimit

HasAllowance(s) == reserved[LedgerOf[s]] + succeeded[LedgerOf[s]] < DailyLimit

CreateSurvey(s) ==
    /\ survey[s].status = "absent"
    /\ HasAllowance(s)
    /\ reserved' = [reserved EXCEPT ![LedgerOf[s]] = @ + 1]
    /\ survey' = [survey EXCEPT ![s] = SurveyIn("drafting", "reserved")]
    /\ draft' = [draft EXCEPT ![s] = DraftIn("queued", 0)]
    /\ UNCHANGED <<succeeded, job, notification, cleanup>>

CanRevise(s) ==
    /\ survey[s].status = "drafting"
    /\ draft[s].active = "none"
    /\ draft[s].latest < MaxRevision

RequestGeneratedDraft(s) ==
    /\ CanRevise(s)
    /\ draft' = [draft EXCEPT ![s] = DraftIn("queued", draft[s].latest)]
    /\ UNCHANGED <<ledger, survey, job, notification, cleanup>>

CreateManualDraft(s) ==
    /\ CanRevise(s)
    /\ draft' = [draft EXCEPT ![s] = DraftIn("none", draft[s].latest + 1)]
    /\ UNCHANGED <<ledger, survey, job, notification, cleanup>>

StartSurvey(s, notify) ==
    /\ job[s].status = "absent"
    /\ survey[s].status = "drafting"
    /\ survey[s].quota = "reserved"
    /\ draft[s].active = "none"
    /\ draft[s].latest > 0
    /\ job' = [job EXCEPT ![s] = JobIn("queued")]
    /\ survey' = [survey EXCEPT ![s] = [@ EXCEPT !.status = "queued", !.notify = notify]]
    /\ UNCHANGED <<ledger, draft, notification, cleanup>>

\* Mutant of CancelDrafts: the active draft outlives the drafting of its survey.
CancelDraftsForgotten(s) == UNCHANGED draft

\* The drafts that are queued or running are cancelled, and their leases cleared.
CancelDrafts(s) == draft' = [draft EXCEPT ![s] = DraftIn("none", draft[s].latest)]

\* Mutant of Release: the counter of the day is not written.
ReleaseForgotten(s) == UNCHANGED reserved

Release(s) ==
    /\ reserved[LedgerOf[s]] > 0
    /\ reserved' = [reserved EXCEPT ![LedgerOf[s]] = @ - 1]

\* Cancelling a running survey only leaves a request on its job.
RequestCancel(s) ==
    /\ survey[s].status = "running"
    /\ job[s].status = "running"
    /\ job' = [job EXCEPT ![s].cancel = TRUE]
    /\ UNCHANGED <<ledger, survey, draft, notification, cleanup>>

\* Mutant of CancelBeforeRun: the counter is released, the survey still holds its quota.
CancelBeforeRunHoldingQuota(s) ==
    /\ survey[s].status = "drafting"
    /\ CancelDrafts(s)
    /\ Release(s)
    /\ survey' = [survey EXCEPT ![s].status = "cancelled"]
    /\ UNCHANGED <<succeeded, job, notification, cleanup>>

CancelBeforeRun(s) ==
    /\ survey[s].status \in {"drafting", "queued"}
    /\ survey[s].status = "queued" => job[s].status = "queued"
    /\ job' = [job EXCEPT ![s] = NoJob]
    /\ CancelDrafts(s)
    /\ Release(s)
    /\ survey' = [survey EXCEPT ![s] = [@ EXCEPT !.status = "cancelled", !.quota = "released"]]
    /\ UNCHANGED <<succeeded, notification, cleanup>>

CancelSurvey(s) == RequestCancel(s) \/ CancelBeforeRun(s)

\* The rows that reference the survey go with it; the trigger of 005_survey.sql
\* lists the job for artifact cleanup if it has been archived.
DeleteRows(s, quota) ==
    /\ survey' = [survey EXCEPT ![s] = SurveyIn("deleted", quota)]
    /\ draft' = [draft EXCEPT ![s] = NoDraft]
    /\ job' = [job EXCEPT ![s] = NoJob]
    /\ notification' = [notification EXCEPT ![s] = NoNotification]
    /\ cleanup' = IF job[s].manifest # "none" THEN cleanup \cup {s} ELSE cleanup

DeleteBeforeRun(s) ==
    /\ survey[s].status \in {"drafting", "queued"}
    /\ job[s].status \in {"absent", "queued"}
    /\ IF survey[s].quota = "reserved"
       THEN Release(s) /\ DeleteRows(s, "released")
       ELSE UNCHANGED reserved /\ DeleteRows(s, survey[s].quota)
    /\ UNCHANGED succeeded

\* Mutant of DeleteTerminal: an archiving survey may be deleted.
DeleteTerminalOrArchiving(s) ==
    /\ survey[s].status \in Terminal \cup {"archiving"}
    /\ DeleteRows(s, survey[s].quota)
    /\ UNCHANGED ledger

DeleteTerminal(s) ==
    /\ survey[s].status \in Terminal
    /\ DeleteRows(s, survey[s].quota)
    /\ UNCHANGED ledger

DeleteSurvey(s) == DeleteBeforeRun(s) \/ DeleteTerminal(s)

-----------------------------------------------------------------------------
(* Draft workers.                                                          *)

LiveDrafts == {s \in Surveys : draft[s].active = "running" /\ draft[s].lease = "live"}

ClaimDraft(s, w) ==
    /\ Cardinality(LiveDrafts) < DraftGlobalConcurrency
    /\ Cardinality({t \in LiveDrafts : UserOf[t] = UserOf[s]}) < DraftPerUserConcurrency
    /\ survey[s].status = "drafting"
    /\ draft[s].active = "queued"
    /\ draft' = [draft EXCEPT ![s] = [@ EXCEPT !.active = "running", !.owner = w, !.lease = "live"]]
    /\ UNCHANGED <<ledger, survey, job, notification, cleanup>>

OwnsDraft(s, w) == draft[s].active = "running" /\ draft[s].owner = w

\* Renewal asks for ownership only: it revives a lease that has already expired.
HeartbeatDraft(s, w) ==
    /\ OwnsDraft(s, w)
    /\ draft' = [draft EXCEPT ![s].lease = "live"]
    /\ UNCHANGED <<ledger, survey, job, notification, cleanup>>

CompleteDraft(s, w) ==
    /\ OwnsDraft(s, w)
    /\ survey[s].status = "drafting"
    /\ draft[s].base = draft[s].latest
    /\ draft[s].latest < MaxRevision
    /\ draft' = [draft EXCEPT ![s] = DraftIn("none", draft[s].latest + 1)]
    /\ UNCHANGED <<ledger, survey, job, notification, cleanup>>

FailDraft(s, w) ==
    /\ OwnsDraft(s, w)
    /\ CancelDrafts(s)
    /\ UNCHANGED <<ledger, survey, job, notification, cleanup>>

\* Mutant of RecoverExpiredDraft: the sweep overlooks drafts whose dead owner is recorded.
RecoverExpiredDraftUnowned(s) ==
    /\ draft[s].active = "running"
    /\ draft[s].lease = "none"
    /\ CancelDrafts(s)
    /\ UNCHANGED <<ledger, survey, job, notification, cleanup>>

RecoverExpiredDraft(s) ==
    /\ draft[s].active = "running"
    /\ draft[s].lease = "expired"
    /\ CancelDrafts(s)
    /\ UNCHANGED <<ledger, survey, job, notification, cleanup>>

DraftLeaseExpires(s) ==
    /\ draft[s].lease = "live"
    /\ draft' = [draft EXCEPT ![s].lease = "expired"]
    /\ UNCHANGED <<ledger, survey, job, notification, cleanup>>

-----------------------------------------------------------------------------
(* Job workers.                                                            *)

LiveJobs == {s \in Surveys : job[s].status \in {"running", "archiving"} /\ job[s].lease = "live"}

\* Mutants of Claimable: a live lease does not protect an archive; a dead one blocks it.
ClaimableLeased(s) ==
    \/ job[s].status = "queued" /\ survey[s].status = "queued"
    \/ job[s].status = "archiving" /\ job[s].due

ClaimableUnleased(s) == ClaimableLeased(s) /\ job[s].lease = "none"

Claimable(s) ==
    \/ job[s].status = "queued" /\ survey[s].status = "queued"
    \/ job[s].status = "archiving" /\ job[s].due /\ job[s].lease # "live"

\* The order among candidates (per-user turn, then age) is left open.
ClaimJob(s, w) ==
    /\ Cardinality(LiveJobs) < GlobalConcurrency
    /\ Cardinality({t \in LiveJobs \ {s} : UserOf[t] = UserOf[s]}) < PerUserConcurrency
    /\ Claimable(s)
    /\ IF job[s].status = "queued"
       THEN /\ survey' = [survey EXCEPT ![s].status = "running"]
            /\ job' = [job EXCEPT ![s] = [@ EXCEPT !.status = "running", !.owner = w,
                                                   !.lease = "live"]]
       ELSE /\ job' = [job EXCEPT ![s] = [@ EXCEPT !.owner = w, !.lease = "live"]]
            /\ UNCHANGED survey
    /\ UNCHANGED <<ledger, draft, notification, cleanup>>

OwnsJob(s, w) == job[s].status \in {"running", "archiving"} /\ job[s].owner = w
\* Mutant of OwnsArchive: the status alone admits a worker.
OwnsArchiveUnfenced(s, w) == job[s].status = "archiving"

OwnsArchive(s, w) == job[s].status = "archiving" /\ job[s].owner = w

\* As for drafts, an expired lease is revived if nobody has taken it over.
HeartbeatJob(s, w) ==
    /\ OwnsJob(s, w)
    /\ job' = [job EXCEPT ![s].lease = "live"]
    /\ UNCHANGED <<ledger, survey, draft, notification, cleanup>>

\* Mutant of EffectiveOutcome: the worker's report overrides a cancellation.
EffectiveOutcomeAsReported(s, outcome) == outcome

\* A cancellation request that the transaction finds overrides the reported outcome.
EffectiveOutcome(s, outcome) == IF job[s].cancel THEN "cancelled" ELSE outcome
EffectiveError(s, outcome, error) ==
    IF EffectiveOutcome(s, outcome) = "cancelled" THEN "none" ELSE error

\* The early return of the settlement: somebody settled the job alike before.
AlreadySettled(s, outcome) ==
    job[s].status = "archiving" /\ job[s].outcome = EffectiveOutcome(s, outcome)

SettleExecution(s, w, outcome, error, chargeable) ==
    LET effective == EffectiveOutcome(s, outcome)
        consume == effective = "succeeded" /\ chargeable
        shown == EffectiveError(s, outcome, error)
    IN  /\ job[s].status = "running"
        /\ job[s].owner = w
        /\ survey[s].status = "running"
        /\ survey[s].quota = "reserved"
        /\ Release(s)
        /\ succeeded' = IF consume THEN [succeeded EXCEPT ![LedgerOf[s]] = @ + 1] ELSE succeeded
        /\ survey' = [survey EXCEPT ![s] =
                        [@ EXCEPT !.status = "archiving", !.error = shown,
                                  !.quota = IF consume THEN "consumed" ELSE "released"]]
        /\ job' = [job EXCEPT ![s] = [@ EXCEPT !.status = "archiving", !.outcome = effective,
                                               !.error = shown, !.due = TRUE]]
        /\ UNCHANGED <<draft, notification, cleanup>>

\* Mutant of Notifiable: every user gets an email.
NotifiableUnasked(s, outcome) == outcome \in {"succeeded", "failed"}

Notifiable(s, outcome) == survey[s].notify /\ outcome \in {"succeeded", "failed"}

\* INSERT ... ON CONFLICT (survey_id) DO NOTHING
EnqueueNotification(s, outcome) ==
    notification' = IF Notifiable(s, outcome) /\ notification[s].status = "absent"
                    THEN [notification EXCEPT ![s] = [status |-> "pending", outcome |-> outcome]]
                    ELSE notification

FinishArchive(s, w) ==
    /\ OwnsArchive(s, w)
    /\ job' = [job EXCEPT ![s] = [@ EXCEPT !.status = "finished", !.owner = NoWorker,
                                           !.lease = "none", !.due = FALSE,
                                           !.manifest = "original"]]
    /\ survey' = IF survey[s].status = "archiving"
                 THEN [survey EXCEPT ![s].status = job[s].outcome] ELSE survey
    /\ EnqueueNotification(s, job[s].outcome)
    /\ UNCHANGED <<ledger, draft, cleanup>>

DeferArchive(s, w) ==
    /\ OwnsArchive(s, w)
    /\ job' = [job EXCEPT ![s] = [@ EXCEPT !.owner = NoWorker, !.lease = "none", !.due = FALSE,
                                           !.error = "archive_pending"]]
    /\ UNCHANGED <<ledger, survey, draft, notification, cleanup>>

\* Mutant of MarkWorkspaceMissing: the lost report is refunded in the survey's row.
MarkWorkspaceMissingRefunding(s, w) ==
    /\ OwnsArchive(s, w)
    /\ job' = [job EXCEPT ![s] = [@ EXCEPT !.outcome = "failed", !.error = "workspace_missing"]]
    /\ survey' = [survey EXCEPT ![s] = [@ EXCEPT !.error = "workspace_missing",
                                                 !.quota = "released"]]
    /\ UNCHANGED <<ledger, draft, notification, cleanup>>

MarkWorkspaceMissing(s, w) ==
    /\ OwnsArchive(s, w)
    /\ job' = [job EXCEPT ![s] = [@ EXCEPT !.outcome = "failed", !.error = "workspace_missing"]]
    /\ survey' = [survey EXCEPT ![s].error = "workspace_missing"]
    /\ UNCHANGED <<ledger, draft, notification, cleanup>>

\* Mutant of RecoverExpiredJob: a job whose worker is lost goes back to the queue.
RecoverExpiredJobRequeued(s) ==
    /\ job[s].status = "running"
    /\ job[s].lease = "expired"
    /\ job' = [job EXCEPT ![s] = JobIn("queued")]
    /\ survey' = [survey EXCEPT ![s].status = "queued"]
    /\ UNCHANGED <<ledger, draft, notification, cleanup>>

RecoverExpiredJob(s) ==
    LET outcome == IF job[s].cancel THEN "cancelled" ELSE "failed"
        shown == IF job[s].cancel THEN "none" ELSE "other"  \* survey_worker_lost
    IN  /\ job[s].status = "running"
        /\ job[s].lease = "expired"
        /\ Release(s)
        /\ job' = [job EXCEPT ![s] = [@ EXCEPT !.status = "archiving", !.due = TRUE,
                                               !.outcome = outcome, !.error = shown,
                                               !.owner = NoWorker, !.lease = "none"]]
        /\ survey' = [survey EXCEPT ![s] = [@ EXCEPT !.status = "archiving", !.quota = "released",
                                                     !.error = shown]]
        /\ UNCHANGED <<succeeded, draft, notification, cleanup>>

JobLeaseExpires(s) ==
    /\ job[s].lease = "live"
    /\ job' = [job EXCEPT ![s].lease = "expired"]
    /\ UNCHANGED <<ledger, survey, draft, notification, cleanup>>

\* next_archive_at passes.
ArchiveBecomesDue(s) ==
    /\ job[s].status = "archiving"
    /\ ~job[s].due
    /\ job' = [job EXCEPT ![s].due = TRUE]
    /\ UNCHANGED <<ledger, survey, draft, notification, cleanup>>

-----------------------------------------------------------------------------
(* The operator's repairs of finished surveys.  "contract" stands for the  *)
(* codes in _RECOVERABLE_SURVEY_FINALIZATION_CODES.                        *)

RecoverContractFailure(s, manifest) ==
    /\ survey[s].status = "failed"
    /\ survey[s].quota = "released"
    /\ survey[s].error = "contract"
    /\ job[s].status = "finished"
    /\ job[s].outcome = "failed"
    /\ job[s].error = "contract"
    /\ job[s].manifest = "original"
    /\ notification[s].status # "running"
    /\ succeeded' = [succeeded EXCEPT ![LedgerOf[s]] = @ + 1]
    /\ survey' = [survey EXCEPT ![s] = [@ EXCEPT !.status = "succeeded", !.quota = "consumed",
                                                 !.error = "none"]]
    /\ job' = [job EXCEPT ![s] = [@ EXCEPT !.outcome = "succeeded", !.error = "none",
                                           !.manifest = manifest]]
    /\ notification' = IF notification[s].status # "absent" \/ survey[s].notify
                       THEN [notification EXCEPT
                               ![s] = [status |-> "pending", outcome |-> "succeeded"]]
                       ELSE notification
    /\ UNCHANGED <<reserved, draft, cleanup>>

RepairDegradedEvidence(s) ==
    /\ survey[s].status = "succeeded"
    /\ survey[s].quota = "released"
    /\ survey[s].error = "degraded"
    /\ job[s].status = "finished"
    /\ job[s].outcome = "succeeded"
    /\ job[s].error = "degraded"
    /\ job[s].manifest = "original"
    /\ survey' = [survey EXCEPT ![s].error = "none"]
    /\ job' = [job EXCEPT ![s] = [@ EXCEPT !.error = "none", !.manifest = "overlay"]]
    /\ UNCHANGED <<ledger, draft, notification, cleanup>>

-----------------------------------------------------------------------------
(* The email worker, seen from here: a notification is claimed, and then   *)
(* delivered or given up, or queued again by a retry or lease recovery.    *)

MoveNotification(s, from, to) ==
    /\ notification[s].status = from
    /\ notification' = [notification EXCEPT ![s].status = to]
    /\ UNCHANGED <<ledger, survey, draft, job, cleanup>>

ClaimNotification(s) == MoveNotification(s, "pending", "running")
CloseNotification(s) == MoveNotification(s, "running", "done")
RetryNotification(s) == MoveNotification(s, "running", "pending")

-----------------------------------------------------------------------------
(* Every write of the tables, whoever makes it.                            *)

Request(s) ==
    \/ CreateSurvey(s) \/ RequestGeneratedDraft(s) \/ CreateManualDraft(s)
    \/ \E notify \in BOOLEAN : StartSurvey(s, notify)
    \/ CancelSurvey(s) \/ DeleteSurvey(s)

DraftWrite(s) ==
    \/ RecoverExpiredDraft(s) \/ DraftLeaseExpires(s)
    \/ \E w \in DraftWorkers : \/ ClaimDraft(s, w) \/ HeartbeatDraft(s, w)
                              \/ CompleteDraft(s, w) \/ FailDraft(s, w)

JobWrite(s) ==
    \/ RecoverExpiredJob(s) \/ JobLeaseExpires(s) \/ ArchiveBecomesDue(s)
    \/ \E w \in Workers :
         \/ ClaimJob(s, w) \/ HeartbeatJob(s, w) \/ FinishArchive(s, w)
         \/ DeferArchive(s, w) \/ MarkWorkspaceMissing(s, w)
         \/ \E outcome \in Outcomes, error \in Errors, chargeable \in BOOLEAN :
              SettleExecution(s, w, outcome, error, chargeable)

Repair(s) ==
    \/ \E manifest \in {"original", "overlay"} : RecoverContractFailure(s, manifest)
    \/ RepairDegradedEvidence(s)

Delivery(s) == ClaimNotification(s) \/ CloseNotification(s) \/ RetryNotification(s)

StoreNext ==
    \E s \in Surveys : Request(s) \/ DraftWrite(s) \/ JobWrite(s) \/ Repair(s) \/ Delivery(s)

-----------------------------------------------------------------------------
(* What the tables promise, whoever runs the transactions.                 *)

\* Every column holds a value of its type (the CHECK constraints on single columns).
StoreTypeOK ==
    /\ reserved \in [Ledgers -> Nat]
    /\ succeeded \in [Ledgers -> Nat]
    /\ survey \in [Surveys -> SurveyRow]
    /\ draft \in [Surveys -> DraftRow]
    /\ job \in [Surveys -> JobRow]
    /\ notification \in [Surveys -> NotificationRow]
    /\ cleanup \subseteq Surveys

Charged(l, quota) == {s \in Surveys : LedgerOf[s] = l /\ survey[s].quota = quota}

\* The counters of a day are exactly the surveys charged to that day: creation,
\* cancellation, deletion, settlement by a worker, recovery by a sweep and the
\* operator's recovery each move one survey and its counter together, and no
\* interleaving of them moves a counter twice.
LedgerBalanced ==
    \A l \in Ledgers : /\ reserved[l] = Cardinality(Charged(l, "reserved"))
                       /\ succeeded[l] = Cardinality(Charged(l, "consumed"))

QuotaFits(sv) ==
    /\ sv.status = "absent" <=> sv.quota = "none"
    /\ sv.status \in Active <=> sv.quota = "reserved"
    /\ sv.status = "cancelled" => sv.quota = "released"

\* A survey is charged as its status says: constraint surveys_quota_terminal of
\* migration 013, which no transaction may trip over.
QuotaFollowsStatus == \A s \in Surveys : QuotaFits(survey[s])

JobFollows(st, j) ==
    /\ st \in {"queued", "running", "archiving"} => j.status = st
    /\ j.status \in {"queued", "running", "archiving"} => st = j.status
    /\ j.status = "finished" => st = j.outcome
    /\ st \in {"succeeded", "failed"} => j.status = "finished"

JobForm(j) ==
    /\ j.outcome = "none" <=> j.status \in {"absent", "queued", "running"}
    /\ j.owner = NoWorker <=> j.lease = "none"
    /\ j.owner # NoWorker => j.status \in {"running", "archiving"}
    /\ j.manifest # "none" <=> j.status = "finished"

RunningHasOwner(j) == j.status = "running" => j.owner # NoWorker

DraftFollows(st, d) ==
    /\ d.active # "none" => st = "drafting" /\ d.base = d.latest
    /\ d.owner = NoWorker <=> d.lease = "none"
    /\ d.active = "running" <=> d.owner # NoWorker

\* The survey and its job move together, an outcome exists exactly when the job is
\* settled (survey_jobs_terminal_state), a lease has an owner exactly when it has an
\* expiry (survey_jobs_lease_state), and only a drafting survey has an active draft.
RowsAgree ==
    \A s \in Surveys : /\ JobFollows(survey[s].status, job[s])
                       /\ JobForm(job[s]) /\ RunningHasOwner(job[s])
                       /\ DraftFollows(survey[s].status, draft[s])

CancelFits(sv, j) ==
    /\ j.cancel \/ j.outcome = "cancelled" => sv.quota # "consumed"
    /\ j.cancel => j.outcome # "succeeded"
    /\ j.cancel /\ j.outcome # "none" => j.error # "contract"

\* Once a cancellation of a running survey is accepted its run is never charged and
\* never ends as a success, whatever the worker reports and whoever settles it; nor is
\* it left in the state that the operator may turn into a charged success.
CancelledNeverCharged == \A s \in Surveys : CancelFits(survey[s], job[s])

EmailFits(sv, n) == n.status # "absent" => sv.notify /\ sv.status = n.outcome

\* An email tells what the survey page shows, also after the operator has turned a
\* failure into a success; it is sent only if the user asked for it.
NotificationTruthful == \A s \in Surveys : EmailFits(survey[s], notification[s])

\* Nobody loses track of archived artifacts: a job that has begun to archive leaves
\* the database only when it is listed for cleanup.
ArchiveNeverOrphaned ==
    [][\A s \in Surveys :
         /\ job[s].status \in {"archiving", "finished"}
         /\ job'[s].status \notin {"archiving", "finished"}
         => s \in cleanup']_tables

=============================================================================
