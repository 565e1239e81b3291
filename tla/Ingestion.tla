------------------------------ MODULE Ingestion ------------------------------
(***************************************************************************)
(* Paper ingestion: the daily metadata synchronisation, the durable queue   *)
(* it feeds, and the workers that install the full text of one revision in  *)
(* the vector store.  Three deployments are modelled, chosen by "profile":  *)
(*   "lean"   metadata only; versions are remembered in a ledger,           *)
(*   "full"   the legacy queue, chunks replaced in place,                   *)
(*   "bound"  a queue bound to one verified destination, with a write-ahead *)
(*            manifest, a per-paper database lock and completion receipts.  *)
(* A deployment only moves to the right.  The arXiv feed is a constant.     *)
(***************************************************************************)
EXTENDS Integers, FiniteSets, Sequences

CONSTANTS
  Papers, Workers,
  Pages,           \* Pages[d]: the OAI pages of day d, each a set of <<paper, version>>
  ChunkCount,      \* ChunkCount[v]: how many chunks the parser makes of version v
  MaxAttempts,     \* ingest_max_attempts
  MaxFaults,       \* bound on crashes, expiries, shutdowns and failed syncs
  None

ASSUME IngestionConstants ==
  /\ ChunkCount \in Seq(Nat \ {0})
  /\ Pages \in Seq(Seq(SUBSET (Papers \X DOMAIN ChunkCount)) \ {<< >>})
  /\ None \notin Papers \cup {"pending", "retry", "running", "succeeded", "dead"}
  /\ Workers \cap {None, "gone"} = {}

VARIABLES
  profile,         \* the deployment: settings.runtime_profile and ingestion_target_id
  paper,           \* arxiv_papers: version (0: no row) and has_chunks
  chunks,          \* arxiv_chunks: primary key -> version of the text stored under it
  jobs,            \* ingestion_jobs or target_ingestion_jobs
  ledger,          \* deferred_fulltext and fulltext_scope: version owed, 0 when none
  manifests,       \* S3 recovery manifests: <<paper, version>> -> primary keys it deletes
  receipts,        \* fulltext_receipts
  legacy,          \* once bound: the versions that ingestion_jobs, which stays, had done before
  cursor,          \* ingestion_sync_state.last_successful_date
  sync,            \* the one metadata synchronisation run
  workers,         \* one record per worker lane
  faults

vars == <<profile, paper, chunks, jobs, ledger, manifests, receipts, legacy, cursor, sync, workers, faults>>

Days     == DOMAIN Pages
Versions == DOMAIN ChunkCount
MaxNum(a, b) == IF a > b THEN a ELSE b
Queued   == {"pending", "retry", "running"}
NoJob    == [status |-> None, version |-> 0, attempts |-> 0, owner |-> None, live |-> FALSE]
Row(v)   == [status |-> "pending", version |-> v, attempts |-> 0, owner |-> None, live |-> FALSE]
AtRest   == [pc |-> "idle", paper |-> None, version |-> 0, attempts |-> 0, old |-> {}, todo |-> {}]
NoSync   == [pc |-> "idle", day |-> 0, page |-> 0, got |-> {}, owed |-> {}, source |-> "oai"]

\* Primary keys: legacy keys name only the position, bound keys also the version.
Keys(v)  == IF profile = "bound" THEN {<<v, i>> : i \in 1..ChunkCount[v]}
                                 ELSE {<<0, i>> : i \in 1..ChunkCount[v]}
Stored(p) == DOMAIN chunks[p]
Put(f, ks, v) == [k \in DOMAIN f \cup ks |-> IF k \in ks THEN v ELSE f[k]]
Without(f, ks) == [k \in DOMAIN f \ ks |-> f[k]]
AnnouncedBy(d) == UNION {UNION {Pages[e][i] : i \in DOMAIN Pages[e]} : e \in {x \in Days : x <= d}}

Fault == /\ faults < MaxFaults
         /\ faults' = faults + 1

Init ==
  /\ profile \in {"lean", "full", "bound"}
  /\ paper = [p \in Papers |-> [version |-> 0, text |-> FALSE]]
  /\ chunks = [p \in Papers |-> <<>>]
  /\ jobs = [p \in Papers |-> NoJob]
  /\ ledger = [p \in Papers |-> 0]
  /\ manifests = <<>>
  /\ receipts = {}
  /\ legacy = [p \in Papers |-> 0]
  /\ cursor = 0
  /\ sync = NoSync
  /\ workers = [w \in Workers |-> AtRest]
  /\ faults = 0

-----------------------------------------------------------------------------
(* The queue.                                                               *)

\* A newer version starts its paper over, whoever holds the job; an equal one
\* changes nothing but the priority, an older one nothing at all.
Enqueue(js, p, v) == IF js[p].status = None \/ v > js[p].version THEN [js EXCEPT ![p] = Row(v)] ELSE js

EnqueueAll(js, es) ==
  [p \in Papers |-> LET vs == {e[2] : e \in {x \in es : x[1] = p}}
                        top == {v \in vs : \A u \in vs : u <= v}
                    IN IF top = {} THEN js[p] ELSE Enqueue(js, p, CHOOSE v \in top : TRUE)[p]]

Owe(es) ==
  [p \in Papers |-> LET vs == {e[2] : e \in {x \in es : x[1] = p}} \cup {ledger[p]}
                    IN CHOOSE v \in vs : \A u \in vs : u <= v]

\* The bound queue buries a job whose last attempt died with its lease.
Buried(js) ==
  [p \in Papers |->
     IF profile = "bound" /\ js[p].status = "running" /\ ~js[p].live /\ js[p].attempts >= MaxAttempts
       THEN [js[p] EXCEPT !.status = "dead", !.owner = None]
       ELSE js[p]]

\* Mutant: a job whose worker died is not taken over.
ClaimableQueued(js) == {p \in Papers : js[p].status \in {"pending", "retry"}}

Claimable(js) ==
  {p \in Papers : \/ js[p].status \in {"pending", "retry"}
                  \/ js[p].status = "running" /\ ~js[p].live}

ClaimJob(w) ==
  /\ profile # "lean"
  /\ workers[w].pc = "idle"
  /\ LET js == Buried(jobs) IN
       \/ \E p \in Claimable(js) :
            LET n == js[p].attempts + 1 IN
            /\ jobs' = [js EXCEPT ![p] = [@ EXCEPT !.status = "running", !.attempts = n,
                                                   !.owner = w, !.live = TRUE]]
            /\ workers' = [workers EXCEPT ![w] = [AtRest EXCEPT !.pc = "check", !.paper = p,
                                                  !.version = js[p].version, !.attempts = n]]
       \/ /\ Claimable(js) = {} /\ js # jobs
          /\ jobs' = js
          /\ UNCHANGED workers
  /\ UNCHANGED <<profile, paper, chunks, ledger, manifests, receipts, legacy, cursor, sync, faults>>

\* The WHERE clauses of renew, release, complete and fail.
HoldsRow(w) ==
  LET j == jobs[workers[w].paper]
  IN j.status = "running" /\ j.owner = w /\ (profile = "bound" => j.live)

\* The guard of an installation also compares the version it installs.
Guard(w) == HoldsRow(w) /\ jobs[workers[w].paper].version = workers[w].version

Close(w, status) ==
  /\ jobs' = [jobs EXCEPT ![workers[w].paper] =
                [@ EXCEPT !.status = status, !.owner = None, !.live = FALSE]]
  /\ workers' = [workers EXCEPT ![w] = AtRest]

Goto(w, pc) == workers' = [workers EXCEPT ![w] = [@ EXCEPT !.pc = pc]]

Working(w) == workers[w].pc # "idle"
\* A legacy installation is one blocking call, and a write that was sent is
\* waited for: nothing interrupts them but a crash.
Interruptible(w) == Working(w) /\ workers[w].pc \notin (IF profile = "full" THEN {"gate", "upsert", "delete", "flag"} ELSE {"rpc"})

\* A lease runs out behind a dead worker, or (a fault) behind one that is stuck.
LeaseExpires(p) ==
  /\ IF \E w \in Workers : jobs[p].owner = w /\ workers[w].paper = p THEN Fault ELSE UNCHANGED faults
  /\ jobs[p].status = "running" /\ jobs[p].live
  /\ jobs' = [jobs EXCEPT ![p] = [@ EXCEPT !.live = FALSE]]
  /\ UNCHANGED <<profile, paper, chunks, ledger, manifests, receipts, legacy, cursor, sync, workers>>

\* The heartbeat renews a lease it still holds (the legacy one also revives an
\* expired lease) and cancels the work when the row is gone.
Renew(w) ==
  /\ Working(w) /\ HoldsRow(w)
  /\ jobs' = [jobs EXCEPT ![workers[w].paper] = [@ EXCEPT !.live = TRUE]]
  /\ UNCHANGED <<profile, paper, chunks, ledger, manifests, receipts, legacy, cursor, sync, workers, faults>>

LeaseLost(w) ==
  /\ Interruptible(w) /\ ~HoldsRow(w)
  /\ workers' = [workers EXCEPT ![w] = AtRest]
  /\ UNCHANGED <<profile, paper, chunks, jobs, ledger, manifests, receipts, legacy, cursor, sync, faults>>

\* A shutdown, a cancelled lane and the end of a scheduled slot give the
\* attempt back.
Release(w) ==
  /\ Fault
  /\ Interruptible(w)
  /\ IF HoldsRow(w)
       THEN LET p == workers[w].paper IN
            jobs' = [jobs EXCEPT ![p] = [Row(@.version) EXCEPT !.attempts = MaxNum(jobs[p].attempts - 1, 0)]]
       ELSE UNCHANGED jobs
  /\ workers' = [workers EXCEPT ![w] = AtRest]
  /\ UNCHANGED <<profile, paper, chunks, ledger, manifests, receipts, legacy, cursor, sync>>

\* The process dies; its successor has another owner name.
Crash(w) ==
  /\ Fault
  /\ Working(w)
  /\ workers' = [workers EXCEPT ![w] = AtRest]
  /\ jobs' = [p \in Papers |-> IF jobs[p].owner = w THEN [jobs[p] EXCEPT !.owner = "gone"] ELSE jobs[p]]
  /\ UNCHANGED <<profile, paper, chunks, ledger, manifests, receipts, legacy, cursor, sync>>

\* What the handlers of run_worker_once do of an error: "invalid" is final, a
\* bad source has three attempts, anything else the whole budget.
Budget(kind) == CASE kind = "invalid" -> 0
                  [] kind = "source" -> (IF MaxAttempts < 3 THEN MaxAttempts ELSE 3)
                  [] OTHER -> MaxAttempts

Fail(w, kind) ==
  /\ IF HoldsRow(w)
       THEN Close(w, IF workers[w].attempts < Budget(kind) THEN "retry" ELSE "dead")
       ELSE workers' = [workers EXCEPT ![w] = AtRest] /\ UNCHANGED jobs
  /\ UNCHANGED <<profile, paper, chunks, ledger, manifests, receipts, legacy, cursor, sync, faults>>

\* A store, database or network error can interrupt the work at any stage.
StageFails(w) == Working(w) /\ workers[w].pc # "complete" /\ Fail(w, "temporary")

RetryJob(p) ==
  /\ Fault
  /\ profile # "lean"
  /\ jobs[p].status \in (IF profile = "bound" THEN {"dead"} ELSE {"dead", "succeeded", "pending", "retry"})
  /\ jobs' = [jobs EXCEPT ![p] = Row(@.version)]
  /\ UNCHANGED <<profile, paper, chunks, ledger, manifests, receipts, legacy, cursor, sync, workers>>

-----------------------------------------------------------------------------
(* One job: check the revision, build its chunks, install them.             *)

\* The paper has moved on: the bound queue requeues it, the legacy one closes
\* the job and leaves the newer version to the synchronisation.
Obsolete(w) ==
  LET p == workers[w].paper  v == paper[p].version IN
  IF profile = "bound"
    THEN /\ ledger' = Owe({<<p, v>>})
         /\ jobs' = Enqueue(jobs, p, v)
         /\ workers' = [workers EXCEPT ![w] = AtRest]
         /\ UNCHANGED <<profile, paper, chunks, manifests, receipts, legacy, cursor, sync, faults>>
    ELSE /\ Goto(w, "complete")
         /\ UNCHANGED <<profile, paper, chunks, jobs, ledger, manifests, receipts, legacy, cursor, sync, faults>>

CheckRevision(w) ==
  LET p == workers[w].paper IN
  /\ workers[w].pc = "check"
  /\ \/ paper[p].version > workers[w].version /\ Obsolete(w)
     \/ paper[p].version < workers[w].version /\ Fail(w, "invalid")
     \/ /\ paper[p].version = workers[w].version
        /\ Goto(w, IF profile = "bound" THEN "resume" ELSE "build")
        /\ UNCHANGED <<profile, paper, chunks, jobs, ledger, manifests, receipts, legacy, cursor, sync, faults>>

\* Mutant: no per-paper lock.
LockedNever(p) == p \notin Papers

Locked(p) == \E x \in Workers : workers[x].paper = p
                /\ workers[x].pc \in {"prepare", "record", "write", "rpc", "verify", "clean", "flag", "receipt"}

\* Enter the per-paper lock, to resume a recorded installation or to look for
\* one before anything is downloaded.
Resume(w) ==
  LET p == workers[w].paper IN
  /\ profile = "bound" /\ workers[w].pc = "resume"
  /\ \/ Locked(p) /\ Fail(w, "temporary")
     \/ /\ ~Locked(p) /\ Guard(w)
        /\ IF <<p, workers[w].version>> \in DOMAIN manifests
             THEN Goto(w, "record")
             ELSE Goto(w, "build")
        /\ UNCHANGED <<profile, paper, chunks, jobs, ledger, manifests, receipts, legacy, cursor, sync, faults>>

\* Download, parse, chunk (and embed, in the legacy order).
Build(w) ==
  /\ workers[w].pc = "build"
  /\ \/ Fail(w, "source")
     \/ /\ profile = "bound"
        /\ IF Locked(workers[w].paper) THEN Fail(w, "temporary")
           ELSE /\ Guard(w)
                /\ Goto(w, "prepare")
                /\ UNCHANGED <<profile, paper, chunks, jobs, ledger, manifests, receipts, legacy, cursor, sync, faults>>
     \/ /\ profile = "full"
        /\ Goto(w, "latest")
        /\ UNCHANGED <<profile, paper, chunks, jobs, ledger, manifests, receipts, legacy, cursor, sync, faults>>

\* prepare: under the lock and the guard, save the new chunks, list the old ones
\* and write the manifest that names both.
Prepare(w) ==
  LET p == workers[w].paper  v == workers[w].version IN
  /\ workers[w].pc = "prepare" /\ Guard(w)
  /\ IF \/ paper[p].version # v
        \/ <<p, v>> \notin DOMAIN manifests /\ Keys(v) \cap Stored(p) # {}
       THEN Fail(w, "temporary")
       ELSE /\ manifests' = IF <<p, v>> \in DOMAIN manifests THEN manifests
                            ELSE Put(manifests, {<<p, v>>}, Stored(p))
            /\ Goto(w, "record")
            /\ UNCHANGED <<profile, paper, chunks, jobs, ledger, receipts, legacy, cursor, sync, faults>>

\* Mutant: the old chunks are deleted before the new ones are written.
RecordPreparedDeleteFirst(w) ==
  LET p == workers[w].paper  v == workers[w].version IN
  /\ workers[w].pc = "record" /\ Guard(w)
  /\ chunks' = [chunks EXCEPT ![p] = Without(@, manifests[<<p, v>>])]
  /\ workers' = [workers EXCEPT ![w] = [@ EXCEPT !.pc = "write", !.todo = Keys(v)]]
  /\ UNCHANGED <<profile, paper, jobs, ledger, manifests, receipts, legacy, cursor, sync, faults>>

\* apply: the manifest is read back and recorded before the first write.
RecordPrepared(w) ==
  LET p == workers[w].paper  v == workers[w].version IN
  /\ workers[w].pc = "record" /\ Guard(w)
  /\ IF paper[p].version # v
       THEN Fail(w, "temporary")
       ELSE /\ workers' = [workers EXCEPT ![w] = [@ EXCEPT !.pc = "write", !.todo = Keys(v),
                                                                 !.old = manifests[<<p, v>>]]]
            /\ UNCHANGED <<profile, paper, chunks, jobs, ledger, manifests, receipts, legacy, cursor, sync, faults>>

\* The guard, then the write it allowed: between the two the lease may go, and
\* only the lock keeps the next worker out until the write has landed.
SendWrite(w) ==
  /\ workers[w].pc = "write" /\ Guard(w)
  /\ Goto(w, "rpc")
  /\ UNCHANGED <<profile, paper, chunks, jobs, ledger, manifests, receipts, legacy, cursor, sync, faults>>

LandWrite(w) ==
  /\ workers[w].pc = "rpc"
  /\ \E k \in workers[w].todo :
       /\ chunks' = [chunks EXCEPT ![workers[w].paper] = Put(@, {k}, workers[w].version)]
       /\ workers' = [workers EXCEPT ![w] = [@ EXCEPT !.todo = workers[w].todo \ {k},
                                                      !.pc = IF workers[w].todo = {k} THEN "verify"
                                                             ELSE "write"]]
  /\ UNCHANGED <<profile, paper, jobs, ledger, manifests, receipts, legacy, cursor, sync, faults>>

\* Every new chunk is read back before an old one is deleted.
Verify(w) ==
  LET p == workers[w].paper  v == workers[w].version IN
  /\ workers[w].pc = "verify" /\ Guard(w)
  /\ IF \A k \in Keys(v) : k \in Stored(p) /\ chunks[p][k] = v
       THEN /\ workers' = [workers EXCEPT ![w] = [@ EXCEPT !.pc = "clean", !.todo = workers[w].old]]
            /\ UNCHANGED <<profile, paper, chunks, jobs, ledger, manifests, receipts, legacy, cursor, sync, faults>>
       ELSE Fail(w, "temporary")

Clean(w) ==
  LET p == workers[w].paper  v == workers[w].version IN
  /\ workers[w].pc = "clean" /\ Guard(w)
  /\ IF workers[w].todo = {}
       THEN /\ Goto(w, "flag")
            /\ UNCHANGED <<profile, paper, chunks, jobs, ledger, manifests, receipts, legacy, cursor, sync, faults>>
       ELSE IF paper[p].version # v THEN Fail(w, "temporary")
       ELSE \E k \in workers[w].todo :
              /\ chunks' = [chunks EXCEPT ![p] = Without(@, {k})]
              /\ workers' = [workers EXCEPT ![w] = [@ EXCEPT !.todo = workers[w].todo \ {k}]]
              /\ UNCHANGED <<profile, paper, jobs, ledger, manifests, receipts, legacy, cursor, sync, faults>>

\* The flag of the paper's row, then the receipt: the last two writes.
SetFlag(w) ==
  LET p == workers[w].paper IN
  /\ workers[w].pc = "flag"
  /\ profile = "bound" => Guard(w)
  /\ IF profile = "bound" /\ paper[p].version # workers[w].version
       THEN Fail(w, "temporary")
       ELSE /\ paper' = [paper EXCEPT ![p] = [@ EXCEPT !.text = TRUE]]
            /\ Goto(w, IF profile = "bound" THEN "receipt" ELSE "complete")
            /\ UNCHANGED <<profile, chunks, jobs, ledger, manifests, receipts, legacy, cursor, sync, faults>>

WriteReceipt(w) ==
  /\ workers[w].pc = "receipt" /\ Guard(w)
  /\ receipts' = receipts \cup {<<workers[w].paper, workers[w].version>>}
  /\ Goto(w, "complete")
  /\ UNCHANGED <<profile, paper, chunks, jobs, ledger, manifests, legacy, cursor, sync, faults>>

\* The legacy installation: look at the revision again, list the old keys, and
\* under a lock of this process only, check, upsert, delete and set the flag.
LookAgain(w) ==
  LET p == workers[w].paper IN
  /\ workers[w].pc = "latest"
  /\ \/ paper[p].version > workers[w].version /\ Obsolete(w)
     \/ /\ paper[p].version <= workers[w].version
        /\ workers' = [workers EXCEPT ![w] = [@ EXCEPT !.pc = "gate", !.old = Stored(p)]]
        /\ UNCHANGED <<profile, paper, chunks, jobs, ledger, manifests, receipts, legacy, cursor, sync, faults>>

InstallGate(w) ==
  /\ workers[w].pc = "gate"
  /\ \/ paper[workers[w].paper].version # workers[w].version /\ Fail(w, "invalid")
     \/ /\ paper[workers[w].paper].version = workers[w].version
        /\ Goto(w, "upsert")
        /\ UNCHANGED <<profile, paper, chunks, jobs, ledger, manifests, receipts, legacy, cursor, sync, faults>>

UpsertChunks(w) ==
  LET v == workers[w].version IN
  /\ workers[w].pc = "upsert"
  /\ chunks' = [chunks EXCEPT ![workers[w].paper] = Put(@, Keys(v), v)]
  /\ Goto(w, "delete")
  /\ UNCHANGED <<profile, paper, jobs, ledger, manifests, receipts, legacy, cursor, sync, faults>>

DeleteStale(w) ==
  /\ workers[w].pc = "delete"
  /\ chunks' = [chunks EXCEPT ![workers[w].paper] = Without(@, workers[w].old \ Keys(workers[w].version))]
  /\ Goto(w, "flag")
  /\ UNCHANGED <<profile, paper, jobs, ledger, manifests, receipts, legacy, cursor, sync, faults>>

\* A bound job succeeds only with the receipt of the version it asks for.
Complete(w) ==
  /\ workers[w].pc = "complete"
  /\ IF HoldsRow(w) /\ (profile = "bound" => <<workers[w].paper, jobs[workers[w].paper].version>> \in receipts)
       THEN Close(w, "succeeded")
       ELSE workers' = [workers EXCEPT ![w] = AtRest] /\ UNCHANGED jobs
  /\ UNCHANGED <<profile, paper, chunks, ledger, manifests, receipts, legacy, cursor, sync, faults>>

-----------------------------------------------------------------------------
(* The synchronisation: one day at a time, the cursor last.                 *)

SyncUnchanged == UNCHANGED <<profile, chunks, manifests, receipts, legacy, workers>>

SyncStart ==
  /\ sync.pc = "idle"
  /\ sync' = IF cursor < Cardinality(Days) THEN [NoSync EXCEPT !.pc = "fetch", !.day = cursor + 1]
             ELSE [NoSync EXCEPT !.pc = "reconcile"]
  /\ UNCHANGED <<paper, jobs, ledger, cursor, faults>> /\ SyncUnchanged

\* One OAI page; the last one ends the day's listing.
FetchPage ==
  /\ sync.pc = "fetch" /\ sync.source # "api"
  /\ LET n == sync.page + 1 IN
       sync' = [sync EXCEPT !.page = n, !.got = sync.got \cup Pages[sync.day][n],
                            !.pc = IF n = Len(Pages[sync.day]) THEN "write" ELSE "fetch"]
  /\ UNCHANGED <<paper, jobs, ledger, cursor, faults>> /\ SyncUnchanged

\* An OAI endpoint that fails is left for its mirror and then for the Atom
\* interface; each starts from nothing.
FetchFails ==
  /\ Fault
  /\ sync.pc = "fetch" /\ sync.source # "api"
  /\ \E source \in {"oai", "api"} :
       sync' = [sync EXCEPT !.page = 0, !.got = {}, !.source = source]
  /\ UNCHANGED <<paper, jobs, ledger, cursor>> /\ SyncUnchanged

\* The Atom interface lists the submissions of the day, not its revisions.
FetchApi ==
  /\ sync.pc = "fetch" /\ sync.source = "api"
  /\ sync' = [sync EXCEPT !.pc = "write",
                          !.got = {e \in AnnouncedBy(sync.day) \ AnnouncedBy(sync.day - 1) : e[2] = 1}]
  /\ UNCHANGED <<paper, jobs, ledger, cursor, faults>> /\ SyncUnchanged

\* A batch goes to the vector store first; an older version is not written and
\* the version stored is the one that is owed.
WriteMetadata ==
  /\ sync.pc = "write"
  /\ \/ \E e \in sync.got :
          LET v == MaxNum(e[2], paper[e[1]].version) IN
          /\ paper' = [paper EXCEPT ![e[1]] = [@ EXCEPT !.version = v]]
          /\ sync' = [sync EXCEPT !.got = sync.got \ {e}, !.owed = sync.owed \cup {<<e[1], v>>},
                                  !.pc = IF sync.got = {e} THEN "owe" ELSE "write"]
     \/ /\ sync.got = {}
        /\ sync' = [sync EXCEPT !.pc = "done"]
        /\ UNCHANGED paper
  /\ UNCHANGED <<jobs, ledger, cursor, faults>> /\ SyncUnchanged

\* The ledger of a lean or bound deployment.
RecordOwed ==
  /\ sync.pc = "owe"
  /\ ledger' = IF profile = "full" THEN ledger ELSE Owe(sync.owed)
  /\ sync' = [sync EXCEPT !.pc = IF profile = "lean" THEN "done" ELSE "enqueue",
                          !.owed = IF profile = "lean" THEN {} ELSE sync.owed]
  /\ UNCHANGED <<paper, jobs, cursor, faults>> /\ SyncUnchanged

EnqueueOwed ==
  /\ sync.pc = "enqueue"
  /\ \E e \in sync.owed :
       /\ jobs' = Enqueue(jobs, e[1], e[2])
       /\ sync' = [sync EXCEPT !.owed = sync.owed \ {e}, !.pc = IF sync.owed = {e} THEN "done" ELSE "enqueue"]
  /\ UNCHANGED <<paper, ledger, cursor, faults>> /\ SyncUnchanged

\* Mutant: the cursor trusts the partial listing of the Atom interface.
DayDoneTrusting ==
  /\ sync.pc = "done"
  /\ cursor' = sync.day
  /\ sync' = IF sync.day = Cardinality(Days) THEN [NoSync EXCEPT !.pc = "reconcile"]
             ELSE [NoSync EXCEPT !.pc = "fetch", !.day = sync.day + 1]
  /\ UNCHANGED <<paper, jobs, ledger, faults>> /\ SyncUnchanged

\* The cursor moves by one day, unless the listing could not be complete.
DayDone ==
  /\ sync.pc = "done"
  /\ IF sync.source = "api"
       THEN sync' = NoSync /\ UNCHANGED cursor
       ELSE /\ cursor' = sync.day
            /\ sync' = IF sync.day = Cardinality(Days) THEN [NoSync EXCEPT !.pc = "reconcile"]
                       ELSE [NoSync EXCEPT !.pc = "fetch", !.day = sync.day + 1]
  /\ UNCHANGED <<paper, jobs, ledger, faults>> /\ SyncUnchanged

\* After the last day a full deployment queues the papers without text; the
\* operator's backfill does the same.
Reconcile ==
  /\ sync.pc = "reconcile"
  /\ jobs' = IF profile = "full"
               THEN EnqueueAll(jobs, {<<p, paper[p].version>> :
                                      p \in {q \in Papers : paper[q].version > 0 /\ ~paper[q].text}})
               ELSE jobs
  /\ sync' = NoSync
  /\ UNCHANGED <<paper, ledger, cursor, faults>> /\ SyncUnchanged

\* An error, the time limit or a signal ends the run; the day is replayed.
SyncDies ==
  /\ Fault
  /\ sync.pc # "idle"
  /\ sync' = NoSync
  /\ UNCHANGED <<paper, jobs, ledger, cursor>> /\ SyncUnchanged

-----------------------------------------------------------------------------
(* The operator moves a deployment to the right, with its consumers paused. *)

Paused == sync.pc = "idle" /\ \A w \in Workers : workers[w].pc = "idle"

LeaveLean ==
  /\ profile = "lean" /\ Paused
  /\ profile' = "full"
  /\ UNCHANGED <<paper, chunks, jobs, ledger, manifests, receipts, legacy, cursor, sync, workers, faults>>

\* resume_deferred_fulltext, one entry: drop it when the legacy job has
\* succeeded, else queue it, and queue it again when the job is dead.
ResumeDeferred(p) ==
  /\ profile = "full" /\ ledger[p] > 0
  /\ LET j == jobs[p] IN
       \/ /\ j.status = "succeeded" /\ j.version >= ledger[p]
          /\ ledger' = [ledger EXCEPT ![p] = 0]
          /\ UNCHANGED <<jobs, faults>>
       \/ /\ j.version < ledger[p]
          /\ jobs' = Enqueue(jobs, p, ledger[p])
          /\ UNCHANGED <<ledger, faults>>
       \/ /\ j.status = "dead" /\ j.version >= ledger[p] /\ Fault
          /\ jobs' = [jobs EXCEPT ![p] = Row(@.version)]
          /\ UNCHANGED ledger
  /\ UNCHANGED <<profile, paper, chunks, manifests, receipts, legacy, cursor, sync, workers>>

\* adopt_baseline: the scope is the ledger and the unfinished legacy jobs; the
\* new queue is filled from it and the cursor carried over.  The operator's
\* window of dates is taken to reach back far enough.
AdoptTarget ==
  /\ profile = "full" /\ Paused
  /\ LET unfinished == {<<p, jobs[p].version>> : p \in {q \in Papers : jobs[q].status \in Queued \cup {"dead"}}}
         scope == Owe(unfinished)
     IN /\ ledger' = scope
        /\ jobs' = [p \in Papers |-> IF scope[p] > 0 THEN Row(scope[p]) ELSE NoJob]
  /\ legacy' = [p \in Papers |-> IF jobs[p].status = "succeeded" THEN jobs[p].version ELSE 0]
  /\ profile' = "bound"
  /\ UNCHANGED <<paper, chunks, manifests, receipts, cursor, sync, workers, faults>>

\* resume_scope queues what is owed and has neither a receipt nor a job.
ResumeScope(p) ==
  /\ profile = "bound" /\ ledger[p] > 0 /\ (jobs[p].status = None \/ jobs[p].version < ledger[p])
  /\ <<p, ledger[p]>> \notin receipts
  /\ jobs' = Enqueue(jobs, p, ledger[p])
  /\ UNCHANGED <<profile, paper, chunks, ledger, manifests, receipts, legacy, cursor, sync, workers, faults>>

-----------------------------------------------------------------------------
WorkerStep(w) ==
  \/ CheckRevision(w) \/ Resume(w) \/ Build(w) \/ Prepare(w) \/ RecordPrepared(w) \/ SendWrite(w) \/ LandWrite(w)
  \/ Verify(w) \/ Clean(w) \/ SetFlag(w) \/ WriteReceipt(w) \/ LookAgain(w) \/ InstallGate(w)
  \/ UpsertChunks(w) \/ DeleteStale(w) \/ Complete(w) \/ LeaseLost(w)

SyncStep ==
  \/ SyncStart \/ FetchPage \/ FetchApi \/ WriteMetadata \/ RecordOwed \/ EnqueueOwed \/ DayDone
  \/ Reconcile

Next ==
  \/ \E w \in Workers : WorkerStep(w) \/ ClaimJob(w) \/ Renew(w) \/ Release(w) \/ Crash(w) \/ StageFails(w)
  \/ \E p \in Papers : LeaseExpires(p) \/ RetryJob(p) \/ ResumeDeferred(p) \/ ResumeScope(p)
  \/ SyncStep \/ FetchFails \/ SyncDies \/ LeaveLean \/ AdoptTarget

Spec == Init /\ [][Next]_vars

\* Workers, the synchronisation and the clock behind a dead worker run on;
\* faults and the operator owe nothing.
FairSpec ==
  /\ Spec
  /\ \A w \in Workers : WF_vars(WorkerStep(w)) /\ WF_vars(ClaimJob(w))
  /\ \A p \in Papers : WF_vars(jobs[p].owner = "gone" /\ LeaseExpires(p))
  /\ WF_vars(SyncStep)

-----------------------------------------------------------------------------
(* Properties.                                                              *)

\* The cursor never passes a version that nothing remembers, although the run
\* may die between the two databases and the sources may be partial: its
\* metadata is stored, and it is superseded by a newer one, or a job for it or
\* for a newer one is in the queue or was done there, or the ledger owes it, or
\* the queue before the present one had done it.
CursorCovers ==
  \A e \in AnnouncedBy(cursor) :
    LET p == e[1]  v == e[2] IN
    /\ paper[p].version >= v
    /\ \/ paper[p].version > v
       \/ jobs[p].version >= v
       \/ ledger[p] >= v
       \/ legacy[p] >= v

\* A receipt of the current version means the store holds exactly that version,
\* whatever the workers that came before left behind.
ReceiptMeansInstalled ==
  profile = "bound" => \A p \in Papers :
    (<<p, paper[p].version>> \in receipts) =>
       chunks[p] = [k \in Keys(paper[p].version) |-> paper[p].version]

\* Once a bound destination serves a paper's text, every moment of a later
\* replacement, crash or takeover leaves one complete version to search.
NeverHalfReplaced ==
  profile = "bound" => \A p \in Papers :
    (\E v \in Versions : <<p, v>> \in receipts) =>
       \E v \in Versions : Keys(v) \subseteq Stored(p) /\ \A k \in Keys(v) : chunks[p][k] = v

\* Once the faults are spent, no job stays queued.
QueueDrains ==
  \A p \in Papers : (jobs[p].status \in Queued) ~> (jobs[p].status \notin Queued)

=============================================================================
