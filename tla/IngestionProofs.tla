---------------------------- MODULE IngestionProofs ----------------------------
(***************************************************************************)
(* Ingestion for any papers, pages, workers, budgets and numbers of        *)
(* faults: what the cursor has passed is remembered, and in the store of a *)
(* verified destination nothing is half installed.                         *)
(***************************************************************************)
EXTENDS Ingestion, TLAPS, FiniteSetTheorems

-----------------------------------------------------------------------------
(* Types.                                                                  *)

Numbers == Versions \cup {0}
Announcements == Papers \X Versions
AnyKeys == SUBSET (Nat \X Nat)
Statuses == {"pending", "retry", "running", "succeeded", "dead"}
JobRecord == [status : Statuses \cup {None}, version : Numbers, attempts : Nat,
              owner : Workers \cup {None, "gone"}, live : BOOLEAN]
SyncRecord == [pc : {"idle", "fetch", "write", "owe", "enqueue", "done", "reconcile"},
               day : Nat, page : Nat, got : SUBSET Announcements, owed : SUBSET Announcements,
               source : {"oai", "api"}]

\* The places of both profiles, of the legacy one and of the bound one.
SharedPlaces == {"idle", "check", "build", "flag", "complete"}
LegacyPlaces == {"latest", "gate", "upsert", "delete"}
BoundPlaces  == {"resume", "prepare", "record", "write", "rpc", "verify", "clean", "receipt"}
WorkerRecord == [pc : SharedPlaces \cup LegacyPlaces \cup BoundPlaces, paper : Papers \cup {None},
                 version : Numbers, attempts : Nat, old : AnyKeys, todo : AnyKeys]

\* A job that exists is for a version.
JobsOK(js) ==
  /\ js \in [Papers -> JobRecord]
  /\ \A p \in Papers : js[p].status # None => js[p].version \in Versions

\* So is the work on it; each deployment knows its own places.
Fits(rec) ==
  /\ rec \in WorkerRecord
  /\ rec.pc # "idle" => rec.paper \in Papers /\ rec.version \in Versions /\ profile # "lean"
  /\ profile = "full" => rec.pc \notin BoundPlaces
  /\ profile = "bound" => rec.pc \notin LegacyPlaces
WorkersOK(ws) ==
  /\ ws \in [Workers -> WorkerRecord]
  /\ \A w \in Workers : Fits(ws[w])

IngestionTypeOK ==
  /\ profile \in {"lean", "full", "bound"}
  /\ paper \in [Papers -> [version : Numbers, text : BOOLEAN]]
  /\ JobsOK(jobs)
  /\ ledger \in [Papers -> Numbers]
  /\ legacy \in [Papers -> Numbers]
  /\ cursor \in Nat
  /\ sync \in SyncRecord
  /\ WorkersOK(workers)

-----------------------------------------------------------------------------
(* What the cursor has passed.                                             *)

\* Somebody remembers this version, or a newer one is stored.
Remembered(p, v) ==
  \/ paper[p].version > v
  \/ jobs[p].version >= v
  \/ ledger[p] >= v
  \/ legacy[p] >= v
Covered(p, v) == paper[p].version >= v /\ Remembered(p, v)

\* What is not a row of the queue has no version, and only an adopted queue has one before it.
RowsBeginEmpty ==
  \A p \in Papers : /\ jobs[p].status = None => jobs[p].version = 0
                    /\ profile # "bound" => legacy[p] = 0

\* The announcements of the day that is being synchronised, and what became of each.
OfDay(d) == UNION {Pages[d][i] : i \in DOMAIN Pages[d]}
OwedFor(e) == \E o \in sync.owed : o[1] = e[1] /\ o[2] >= e[2]
Accounted(e) ==
  CASE sync.pc = "fetch" -> e \in sync.got \/ \E i \in DOMAIN Pages[sync.day] : i > sync.page /\ e \in Pages[sync.day][i]
    [] sync.pc = "write" -> e \in sync.got \/ OwedFor(e)
    [] sync.pc = "owe" -> OwedFor(e)
    [] sync.pc = "enqueue" -> OwedFor(e) \/ Covered(e[1], e[2])
    [] sync.pc = "done" -> Covered(e[1], e[2])

SyncIsSound ==
  /\ cursor \in 0..Len(Pages)
  /\ sync.pc \notin {"idle", "reconcile"} => sync.day = cursor + 1 /\ sync.day \in Days
  /\ sync.pc = "fetch" /\ sync.source = "oai" => sync.page < Len(Pages[sync.day])
  /\ \A o \in sync.owed : paper[o[1]].version >= o[2]
  /\ sync.pc = "fetch" \/ (sync.pc = "write" /\ sync.got = {}) => sync.owed = {}
  /\ sync.pc \notin {"idle", "reconcile"} /\ sync.source = "oai" => \A e \in OfDay(sync.day) : Accounted(e)

CursorInv == RowsBeginEmpty /\ SyncIsSound /\ CursorCovers

-----------------------------------------------------------------------------
(* Installations of a bound destination.                                   *)

\* Keys of the legacy name no version; those of a bound destination name what is stored there.
KeysTell ==
  DOMAIN chunks = Papers /\ \A p \in Papers :
    /\ chunks[p] = [k \in Stored(p) |-> chunks[p][k]]
    /\ Stored(p) \subseteq Nat \X Nat
    /\ profile # "bound" => \A k \in Stored(p) : k[1] = 0
    /\ \A k \in Stored(p) : k[1] # 0 => chunks[p][k] = k[1]

BoundKeys(v) == {<<v, i>> : i \in 1..ChunkCount[v]}
Recorded(p, v) == <<p, v>> \in DOMAIN manifests

\* A manifest names what was stored when its version was the current one; while it is, nothing
\* else is stored but the chunks of that version.
ManifestsTell ==
  /\ manifests = [m \in DOMAIN manifests |-> manifests[m]]
  /\ DOMAIN manifests \subseteq Announcements
  /\ profile # "bound" => DOMAIN manifests = {}
  /\ \A p \in Papers, v \in Versions : Recorded(p, v) =>
       /\ v <= paper[p].version
       /\ manifests[<<p, v>>] \in AnyKeys
       /\ manifests[<<p, v>>] \cap BoundKeys(v) = {}
       /\ v = paper[p].version => Stored(p) \subseteq manifests[<<p, v>>] \cup BoundKeys(v)

\* A worker that holds the lock of its paper, from the recorded manifest on.
LockPlaces == {"prepare", "record", "write", "rpc", "verify", "clean", "flag", "receipt"}
Holds(w) == profile = "bound" /\ workers[w].pc \in LockPlaces
OneHolds == \A x, y \in Workers : Holds(x) /\ Holds(y) /\ workers[x].paper = workers[y].paper => x = y

Whole(p, v) == BoundKeys(v) \subseteq Stored(p)
Exactly(p, v) == Stored(p) = BoundKeys(v)

\* How far a worker has come with its version.
Installing(w) ==
  LET p == workers[w].paper  v == workers[w].version IN
  /\ workers[w].pc \in LockPlaces \ {"prepare"} => Recorded(p, v)
  /\ workers[w].pc \in LockPlaces \ {"prepare", "record"} =>
       /\ workers[w].old = manifests[<<p, v>>]
       /\ \A u \in Versions : Recorded(p, u) => u <= v
       /\ Stored(p) \subseteq workers[w].old \cup BoundKeys(v)
  /\ workers[w].pc \in {"write", "rpc"} => workers[w].todo \subseteq BoundKeys(v)
  /\ workers[w].pc = "clean" =>
       /\ Whole(p, v)
       /\ workers[w].todo \subseteq workers[w].old
       /\ Stored(p) \subseteq workers[w].todo \cup BoundKeys(v)
  /\ workers[w].pc \in {"flag", "receipt"} => Exactly(p, v)

\* A receipt is of a recorded version; the last one is of what is stored.
ReceiptsTell ==
  /\ receipts \subseteq DOMAIN manifests
  /\ \A p \in Papers : <<p, paper[p].version>> \in receipts => Exactly(p, paper[p].version)
  /\ \A p \in Papers : (\E v \in Versions : <<p, v>> \in receipts) => \E v \in Versions : Whole(p, v)

InstallInv ==
  /\ KeysTell /\ ManifestsTell /\ OneHolds
  /\ \A w \in Workers : Holds(w) => Installing(w)
  /\ ReceiptsTell

IngestionInv == IngestionTypeOK /\ CursorInv /\ InstallInv

-----------------------------------------------------------------------------
(* The operators.                                                          *)

\* Versions are the numbers from one on.
LEMMA VersionsAreNumbers ==
    /\ Versions = 1..Len(ChunkCount) /\ Len(ChunkCount) \in Nat
    /\ Numbers \subseteq Nat
    /\ \A v \in Versions : v \in Nat /\ v > 0 /\ ChunkCount[v] \in Nat /\ ChunkCount[v] > 0
BY IngestionConstants DEF Versions, Numbers

\* The days are the numbers from one on; each has pages, and each page announces papers.
LEMMA DaysAreNumbers ==
    /\ Days = 1..Len(Pages) /\ Len(Pages) \in Nat /\ Cardinality(Days) = Len(Pages)
    /\ \A d \in Days : /\ Len(Pages[d]) \in Nat \ {0}
                       /\ DOMAIN Pages[d] = 1..Len(Pages[d])
                       /\ \A i \in DOMAIN Pages[d] : Pages[d][i] \subseteq Announcements
<1>1. Pages \in Seq(Seq(SUBSET Announcements) \ {<< >>})
  BY IngestionConstants DEF Announcements, Versions
<1>2. Days = 1..Len(Pages) /\ Len(Pages) \in Nat
  BY <1>1 DEF Days
<1>3. Cardinality(Days) = Len(Pages)
  <2>1. Cardinality(1..Len(Pages)) = IF 1 > Len(Pages) THEN 0 ELSE Len(Pages) - 1 + 1
    BY <1>2, FS_Interval
  <2> QED
    BY <1>2, <2>1
<1>4. ASSUME NEW d \in Days
      PROVE  /\ Len(Pages[d]) \in Nat \ {0}
             /\ DOMAIN Pages[d] = 1..Len(Pages[d])
             /\ \A i \in DOMAIN Pages[d] : Pages[d][i] \subseteq Announcements
  <2>1. Pages[d] \in Seq(SUBSET Announcements) /\ Pages[d] # << >>
    BY <1>1, <1>2
  <2> QED
    BY <2>1
<1> QED
  BY <1>2, <1>3, <1>4

LEMMA RowTypes ==
    ASSUME NEW v \in Numbers
    PROVE  /\ Row(v) \in JobRecord /\ Row(v).version = v /\ Row(v).status = "pending" /\ Row(v).attempts = 0
           /\ NoJob \in JobRecord /\ NoJob.status = None /\ NoJob.version = 0
BY IngestionConstants DEF Row, NoJob, JobRecord, Statuses, Numbers

\* A record that fits takes the place of another.
LEMMA JobWritten ==
    ASSUME NEW js, JobsOK(js), NEW p \in Papers, NEW rec \in JobRecord,
           rec.status # None => rec.version \in Versions
    PROVE  JobsOK([js EXCEPT ![p] = rec])
BY DEF JobsOK

LEMMA WorkerWritten ==
    ASSUME NEW ws, WorkersOK(ws), NEW w \in Workers, NEW rec, Fits(rec)
    PROVE  WorkersOK([ws EXCEPT ![w] = rec])
BY DEF WorkersOK, Fits

LEMMA RestFits == Fits(AtRest)
BY DEF Fits, AtRest, WorkerRecord, AnyKeys, SharedPlaces, BoundPlaces, LegacyPlaces, Numbers

\* What a write to the queue may do to what is remembered.
JobsKept(js, new) ==
  \A p \in Papers : /\ new[p].status = None => js[p].status = None /\ new[p].version = js[p].version
                    /\ new[p].version >= js[p].version

LEMMA JobKept ==
    ASSUME NEW js, JobsOK(js), NEW p \in Papers, NEW rec \in JobRecord, rec.status # None, rec.version >= js[p].version
    PROVE  JobsKept(js, [js EXCEPT ![p] = rec])
<1>1. \A q \in Papers : js[q].version \in Nat
  BY VersionsAreNumbers DEF JobsOK, JobRecord
<1> QED
  BY <1>1 DEF JobsKept, JobsOK

\* Enqueuing keeps the newest version that was asked for.
LEMMA Enqueued ==
    ASSUME NEW js, JobsOK(js), NEW p \in Papers, NEW v \in Versions,
           js[p].status = None => js[p].version = 0
    PROVE  /\ JobsOK(Enqueue(js, p, v)) /\ JobsKept(js, Enqueue(js, p, v))
           /\ Enqueue(js, p, v)[p].version >= v
           /\ Enqueue(js, p, v)[p].status # None
           /\ \A q \in Papers \ {p} : Enqueue(js, p, v)[q] = js[q]
<1>1. ASSUME NEW q \in Papers
      PROVE  js[q] \in JobRecord /\ js[q].version \in Nat /\ js[q].version >= 0
  <2>1. js[q] \in JobRecord
    BY DEF JobsOK
  <2>2. js[q].version \in Numbers
    BY <2>1 DEF JobRecord
  <2>3. js[q].version \in Nat
    BY <2>2, VersionsAreNumbers
  <2> QED
    BY <2>1, <2>3
<1>2. v \in Nat /\ v \in Numbers
  BY VersionsAreNumbers DEF Numbers
<1>3. Row(v) \in JobRecord /\ Row(v).version = v /\ Row(v).status # None
  BY <1>2, RowTypes, IngestionConstants
<1>4. CASE js[p].status = None \/ v > js[p].version
  <2>1. Enqueue(js, p, v) = [js EXCEPT ![p] = Row(v)]
    BY <1>4 DEF Enqueue
  <2>2. JobsOK(Enqueue(js, p, v))
    <3>1. JobsOK([js EXCEPT ![p] = Row(v)])
      BY <1>3, JobWritten
    <3> QED
      BY <2>1, <3>1
  <2>3. Enqueue(js, p, v)[p] = Row(v) /\ \A q \in Papers \ {p} : Enqueue(js, p, v)[q] = js[q]
    BY <2>1 DEF JobsOK
  <2> QED
    BY <1>1, <1>2, <1>3, <1>4, <2>2, <2>3 DEF JobsKept
<1>5. CASE ~(js[p].status = None \/ v > js[p].version)
  <2>1. Enqueue(js, p, v) = js
    BY <1>5 DEF Enqueue
  <2> QED
    BY <1>1, <1>2, <1>5, <2>1 DEF JobsKept
<1> QED
  BY <1>4, <1>5

\* A set of numbers below a bound has a last one.  Without it, counting up would map what is
\* below some member into itself, missing zero only.
LEMMA BoundedSetHasLast ==
    ASSUME NEW n \in Nat, NEW S, S \subseteq 0..n, S # {}
    PROVE  \E v \in S : \A u \in S : u <= v
<1>0. \E u \in S : 0 <= u
  <2>1. PICK u : u \in S
    OBVIOUS
  <2>2. u \in 0..n
    BY <2>1
  <2> QED
    BY <2>1, <2>2
<1> SUFFICES ASSUME \A v \in S : \E u \in S : ~(u <= v)
             PROVE  FALSE
  OBVIOUS
<1> DEFINE below == {m \in 0..n : \E u \in S : m <= u}
           up == [m \in below |-> m + 1]
<1>1. IsFiniteSet(below) /\ 0 \in below
  <2>1. IsFiniteSet(0..n) /\ below \in SUBSET (0..n)
    BY FS_Interval
  <2>2. 0 \in below
    <3>1. 0 \in 0..n
      OBVIOUS
    <3> QED
      BY <1>0, <3>1
  <2> HIDE DEF below
  <2> QED
    BY <2>1, <2>2, FS_Subset
<1>2. /\ IsFiniteSet(below \ {0}) /\ Cardinality(below \ {0}) = Cardinality(below) - 1
      /\ Cardinality(below) \in Nat
  BY <1>1, FS_RemoveElement, FS_CardinalityType
<1>3. up \in [below -> below \ {0}]
  <2> SUFFICES ASSUME NEW m \in below PROVE m + 1 \in below \ {0}
    OBVIOUS
  <2>1. PICK u \in S : m <= u
    OBVIOUS
  <2>2. PICK w \in S : ~(w <= u)
    OBVIOUS
  <2> QED
    BY <2>1, <2>2
<1>4. \E x, y \in below : x # y /\ up[x] = up[y]
  <2> HIDE DEF below, up
  <2> QED
    BY <1>1, <1>2, <1>3, FS_PigeonHole
<1>5. \A m \in below : up[m] = m + 1 /\ m \in Int
  OBVIOUS
<1> HIDE DEF below, up
<1> QED
  BY <1>4, <1>5

\* The ledger keeps the newest version that is owed.
LEMMA Owed ==
    ASSUME IngestionTypeOK, NEW es \in SUBSET Announcements
    PROVE  /\ Owe(es) \in [Papers -> Numbers]
           /\ \A p \in Papers : Owe(es)[p] >= ledger[p]
           /\ \A e \in es : Owe(es)[e[1]] >= e[2]
<1>1. ASSUME NEW p \in Papers
      PROVE  /\ Owe(es)[p] \in Numbers
             /\ Owe(es)[p] >= ledger[p]
             /\ \A e \in es : e[1] = p => Owe(es)[p] >= e[2]
  <2> DEFINE vs == {e[2] : e \in {x \in es : x[1] = p}} \cup {ledger[p]}
  <2>1. vs \subseteq 0..Len(ChunkCount) /\ vs # {}
    BY VersionsAreNumbers DEF IngestionTypeOK, Numbers, Announcements
  <2>2. \E v \in vs : \A u \in vs : u <= v
    BY <2>1, VersionsAreNumbers, BoundedSetHasLast
  <2>3. Owe(es)[p] = CHOOSE v \in vs : \A u \in vs : u <= v
    BY DEF Owe
  <2>4. Owe(es)[p] \in vs /\ \A u \in vs : u <= Owe(es)[p]
    BY <2>2, <2>3
  <2> QED
    BY <2>1, <2>4, VersionsAreNumbers DEF Numbers
<1>2. Owe(es) = [p \in Papers |-> Owe(es)[p]]
  BY DEF Owe
<1> QED
  BY <1>1, <1>2 DEF Announcements

\* Every paper that is queued together with others is queued as it would be alone.
LEMMA AllEnqueued ==
    ASSUME NEW js, JobsOK(js), NEW es \in SUBSET Announcements,
           \A p \in Papers : js[p].status = None => js[p].version = 0
    PROVE  JobsOK(EnqueueAll(js, es)) /\ JobsKept(js, EnqueueAll(js, es))
<1>1. ASSUME NEW p \in Papers
      PROVE  /\ EnqueueAll(js, es)[p] \in JobRecord
             /\ EnqueueAll(js, es)[p].status # None => EnqueueAll(js, es)[p].version \in Versions
             /\ EnqueueAll(js, es)[p].status = None =>
                  js[p].status = None /\ EnqueueAll(js, es)[p].version = js[p].version
             /\ EnqueueAll(js, es)[p].version >= js[p].version
  <2> DEFINE vs == {e[2] : e \in {x \in es : x[1] = p}}
             top == {v \in vs : \A u \in vs : u <= v}
  <2>1. EnqueueAll(js, es)[p] = IF top = {} THEN js[p] ELSE Enqueue(js, p, CHOOSE v \in top : TRUE)[p]
    BY DEF EnqueueAll
  <2>2. top \subseteq Versions
    BY DEF Announcements
  <2>3. CASE top = {}
    <3>1. js[p].version \in Nat
      BY VersionsAreNumbers DEF JobsOK, JobRecord
    <3> QED
      BY <2>1, <2>3, <3>1 DEF JobsOK
  <2>4. CASE top # {}
    <3> HIDE DEF top, vs
    <3>1. PICK v \in Versions : EnqueueAll(js, es)[p] = Enqueue(js, p, v)[p]
      BY <2>1, <2>2, <2>4
    <3>2. JobsOK(Enqueue(js, p, v)) /\ JobsKept(js, Enqueue(js, p, v))
      BY Enqueued
    <3> QED
      BY <3>1, <3>2 DEF JobsOK, JobsKept
  <2> QED
    BY <2>3, <2>4
<1>2. EnqueueAll(js, es) = [p \in Papers |-> EnqueueAll(js, es)[p]]
  BY DEF EnqueueAll
<1>3. JobsOK(EnqueueAll(js, es))
  BY <1>1, <1>2 DEF JobsOK
<1> QED
  BY <1>1, <1>3 DEF JobsKept

\* A buried job keeps its version.
LEMMA BuriedTypes ==
    ASSUME NEW js, JobsOK(js)
    PROVE  /\ JobsOK(Buried(js)) /\ JobsKept(js, Buried(js))
           /\ \A p \in Papers : /\ Buried(js)[p].version = js[p].version
                                /\ Buried(js)[p].status = None => js[p].status = None
<1>1. ASSUME NEW p \in Papers
      PROVE  /\ Buried(js)[p] \in JobRecord
             /\ Buried(js)[p].version = js[p].version
             /\ Buried(js)[p].status = None => Buried(js)[p] = js[p]
             /\ Buried(js)[p].status # None => js[p].version \in Versions
             /\ js[p].version \in Nat
  <2>1. js[p] \in JobRecord /\ (js[p].status # None => js[p].version \in Versions)
    BY DEF JobsOK
  <2>2. js[p].version \in Nat
    BY <2>1, VersionsAreNumbers DEF JobRecord
  <2>3. Buried(js)[p] = js[p] \/ (js[p].status = "running" /\ Buried(js)[p] = [js[p] EXCEPT !.status = "dead", !.owner = None])
    BY DEF Buried
  <2>4. "running" # None /\ "dead" # None
    BY IngestionConstants
  <2> QED
    BY <2>1, <2>2, <2>3, <2>4 DEF JobRecord, Statuses
<1>2. Buried(js) = [p \in Papers |-> Buried(js)[p]]
  BY DEF Buried
<1> QED
  BY <1>1, <1>2 DEF JobsOK, JobsKept

-----------------------------------------------------------------------------
(* Steps of the queue.  Most steps leave the store alone and move a worker *)
(* only outside of the lock, and most forget nothing.                      *)

NothingForgotten ==
  /\ UNCHANGED <<profile, legacy, cursor, sync>>
  /\ JobsKept(jobs, jobs')
  /\ \A p \in Papers : /\ paper'[p].version = paper[p].version
                       /\ ledger'[p] >= ledger[p] \/ jobs'[p].version >= ledger[p]

StoreUntouched ==
  /\ UNCHANGED <<profile, chunks, manifests, receipts>>
  /\ \A p \in Papers : paper'[p].version = paper[p].version
  /\ profile = "bound" => \A w \in Workers : workers'[w] = workers[w] \/ workers'[w].pc \notin LockPlaces

Quiet == IngestionTypeOK' /\ NothingForgotten /\ StoreUntouched

\* What is known of numbers in the tables.
LEMMA TableNumbers ==
    ASSUME IngestionTypeOK, NEW p \in Papers
    PROVE  /\ jobs[p] \in JobRecord /\ jobs[p].version \in Nat /\ jobs[p].version \in Numbers /\ jobs[p].attempts \in Nat
           /\ paper[p].version \in Nat /\ ledger[p] \in Nat
           /\ jobs[p].status # None => jobs[p].version \in Versions
BY VersionsAreNumbers DEF IngestionTypeOK, JobsOK, JobRecord

\* A step that writes the queue and the workers only.
LEMMA QueueStep ==
    ASSUME IngestionTypeOK, JobsOK(jobs'), JobsKept(jobs, jobs'), WorkersOK(workers'),
           UNCHANGED <<profile, paper, chunks, manifests, receipts, legacy, cursor, sync>>,
           ledger' \in [Papers -> Numbers],
           \A p \in Papers : ledger'[p] >= ledger[p] \/ jobs'[p].version >= ledger[p],
           profile = "bound" => \A w \in Workers : workers'[w] = workers[w] \/ workers'[w].pc \notin LockPlaces
    PROVE  Quiet
<1>1. WorkersOK(workers)'
  BY DEF WorkersOK, Fits
<1>2. IngestionTypeOK'
  BY <1>1 DEF IngestionTypeOK, JobsOK
<1> QED
  BY <1>2 DEF Quiet, NothingForgotten, StoreUntouched

LEMMA JobsSame ==
    ASSUME IngestionTypeOK, jobs' = jobs, ledger' = ledger
    PROVE  /\ JobsOK(jobs') /\ JobsKept(jobs, jobs') /\ ledger' \in [Papers -> Numbers]
           /\ \A p \in Papers : ledger'[p] >= ledger[p]
<1>1. \A p \in Papers : jobs[p].version \in Nat /\ ledger[p] \in Nat
  BY TableNumbers
<1> QED
  BY <1>1 DEF IngestionTypeOK, JobsKept

\* A worker that puts its work down.
LEMMA RestStep ==
    ASSUME IngestionTypeOK, NEW w \in Workers, workers' = [workers EXCEPT ![w] = AtRest]
    PROVE  /\ WorkersOK(workers')
           /\ \A x \in Workers : workers'[x] = workers[x] \/ workers'[x].pc \notin LockPlaces
<1>1. WorkersOK(workers')
  BY RestFits, WorkerWritten DEF IngestionTypeOK
<1> QED
  BY <1>1 DEF IngestionTypeOK, WorkersOK, AtRest, LockPlaces

\* A worker that goes on.
LEMMA GotoStep ==
    ASSUME IngestionTypeOK, NEW w \in Workers, Working(w), NEW pc, pc # "idle", Goto(w, pc),
           \/ pc \in SharedPlaces
           \/ profile = "full" /\ pc \in LegacyPlaces
           \/ profile = "bound" /\ pc \in BoundPlaces
    PROVE  /\ WorkersOK(workers')
           /\ workers'[w] = [workers[w] EXCEPT !.pc = pc]
           /\ \A x \in Workers \ {w} : workers'[x] = workers[x]
<1>1. workers[w] \in WorkerRecord /\ Fits(workers[w])
  BY DEF IngestionTypeOK, WorkersOK
<1>2. Fits([workers[w] EXCEPT !.pc = pc])
  BY <1>1 DEF Fits, WorkerRecord, Working, SharedPlaces, LegacyPlaces, BoundPlaces
<1>3. workers' = [workers EXCEPT ![w] = [workers[w] EXCEPT !.pc = pc]]
  BY DEF Goto
<1>4. WorkersOK(workers')
  BY <1>2, <1>3, WorkerWritten DEF IngestionTypeOK
<1> QED
  BY <1>3, <1>4 DEF IngestionTypeOK, WorkersOK

LEMMA GotoQuiet ==
    ASSUME IngestionTypeOK, NEW w \in Workers, Working(w), NEW pc, pc # "idle", Goto(w, pc),
           \/ pc \in SharedPlaces \ {"flag"}
           \/ pc \in SharedPlaces \cup LegacyPlaces /\ profile = "full"
           \/ profile = "bound" /\ pc \in BoundPlaces \ LockPlaces,
           UNCHANGED <<profile, paper, chunks, jobs, ledger, manifests, receipts, legacy, cursor, sync>>
    PROVE  Quiet
<1>1. WorkersOK(workers') /\ workers'[w] = [workers[w] EXCEPT !.pc = pc] /\ \A x \in Workers \ {w} : workers'[x] = workers[x]
  BY GotoStep DEF SharedPlaces, BoundPlaces
<1>2. workers'[w].pc = pc
  BY <1>1 DEF IngestionTypeOK, WorkersOK, WorkerRecord
<1>3. profile = "bound" => pc \notin LockPlaces
  BY DEF LockPlaces, SharedPlaces
<1>4. profile = "bound" => \A x \in Workers : workers'[x] = workers[x] \/ workers'[x].pc \notin LockPlaces
  BY <1>1, <1>2, <1>3
<1> QED
  BY <1>1, <1>4, JobsSame, QueueStep

\* A row that is rewritten with the version it has, or a newer one.
LEMMA RowWritten ==
    ASSUME IngestionTypeOK, NEW p \in Papers, NEW rec \in JobRecord, rec.status # None,
           rec.version \in Versions, rec.version >= jobs[p].version, jobs' = [jobs EXCEPT ![p] = rec]
    PROVE  JobsOK(jobs') /\ JobsKept(jobs, jobs')
<1>1. JobsOK(jobs)
  BY DEF IngestionTypeOK
<1>2. JobsOK([jobs EXCEPT ![p] = rec])
  BY <1>1, JobWritten
<1>3. JobsKept(jobs, [jobs EXCEPT ![p] = rec])
  BY <1>1, JobKept
<1> QED
  BY <1>2, <1>3

LEMMA SameVersionWritten ==
    ASSUME IngestionTypeOK, NEW p \in Papers, NEW rec \in JobRecord, rec.status # None, jobs[p].status # None,
           rec.version = jobs[p].version, jobs' = [jobs EXCEPT ![p] = rec]
    PROVE  JobsOK(jobs') /\ JobsKept(jobs, jobs')
<1>1. rec.version \in Versions /\ rec.version >= jobs[p].version
  BY TableNumbers
<1> QED
  BY <1>1, RowWritten

\* Writing the row of the paper that a worker holds.
LEMMA OwnRow ==
    ASSUME IngestionTypeOK, NEW w \in Workers, Working(w)
    PROVE  /\ workers[w].paper \in Papers /\ workers[w].version \in Versions /\ workers[w] \in WorkerRecord
           /\ Fits(workers[w]) /\ profile # "lean"
           /\ HoldsRow(w) => jobs[workers[w].paper].status = "running"
BY DEF IngestionTypeOK, WorkersOK, Fits, Working, HoldsRow

LEMMA CloseTypes ==
    ASSUME IngestionTypeOK, NEW w \in Workers, Working(w), HoldsRow(w), NEW status \in Statuses, Close(w, status)
    PROVE  /\ JobsOK(jobs') /\ JobsKept(jobs, jobs') /\ WorkersOK(workers')
           /\ \A p \in Papers : jobs'[p].version = jobs[p].version
           /\ \A x \in Workers : workers'[x] = workers[x] \/ workers'[x].pc \notin LockPlaces
<1> DEFINE p == workers[w].paper
           rec == [jobs[p] EXCEPT !.status = status, !.owner = None, !.live = FALSE]
<1>1. p \in Papers /\ jobs[p].status = "running"
  BY OwnRow
<1>2. jobs[p] \in JobRecord /\ jobs[p].version \in Versions /\ jobs[p].version \in Nat
  <2>1. jobs[p].status # None
    BY <1>1, IngestionConstants
  <2> HIDE DEF p
  <2> QED
    BY <1>1, <2>1, TableNumbers
<1>3. rec \in JobRecord /\ rec.status # None /\ rec.version = jobs[p].version
  BY <1>2, IngestionConstants DEF JobRecord, Statuses
<1>4. jobs' = [jobs EXCEPT ![p] = rec] /\ workers' = [workers EXCEPT ![w] = AtRest]
  BY DEF Close
<1> HIDE DEF rec, p
<1>5. JobsOK(jobs') /\ JobsKept(jobs, jobs')
  <2>1. rec.version >= jobs[p].version /\ rec.version \in Versions
    BY <1>2, <1>3
  <2> QED
    BY <1>1, <1>3, <1>4, <2>1, RowWritten
<1>6. \A q \in Papers : jobs'[q].version = jobs[q].version
  BY <1>1, <1>3, <1>4 DEF IngestionTypeOK, JobsOK
<1> QED
  BY <1>4, <1>5, <1>6, RestStep

\* Whatever fails, the row keeps its version and the worker leaves.
LEMMA FailQuiet ==
    ASSUME IngestionTypeOK, NEW w \in Workers, Working(w), NEW kind, Fail(w, kind)
    PROVE  Quiet
<1>1. UNCHANGED <<profile, paper, chunks, ledger, manifests, receipts, legacy, cursor, sync>>
  BY DEF Fail
<1>2. ledger' \in [Papers -> Numbers] /\ \A p \in Papers : ledger'[p] >= ledger[p]
  BY <1>1, TableNumbers DEF IngestionTypeOK
<1>3. CASE HoldsRow(w)
  <2>1. \E status \in Statuses : Close(w, status)
    BY <1>3 DEF Fail, Statuses
  <2> QED
    BY <1>1, <1>2, <1>3, <2>1, CloseTypes, QueueStep
<1>4. CASE ~HoldsRow(w)
  <2>1. workers' = [workers EXCEPT ![w] = AtRest] /\ jobs' = jobs
    BY <1>4 DEF Fail
  <2> QED
    BY <1>1, <2>1, RestStep, JobsSame, QueueStep
<1> QED
  BY <1>3, <1>4

\* A claim takes the version that the row asks for.
LEMMA ClaimQuiet ==
    ASSUME IngestionTypeOK, NEW w \in Workers, ClaimJob(w)
    PROVE  Quiet
<1> DEFINE js == Buried(jobs)
<1>1. /\ JobsOK(js) /\ JobsKept(jobs, js)
      /\ \A p \in Papers : js[p].version = jobs[p].version /\ (js[p].status = None => jobs[p].status = None)
  BY BuriedTypes DEF IngestionTypeOK
<1>2. UNCHANGED <<profile, paper, chunks, ledger, manifests, receipts, legacy, cursor, sync>> /\ profile # "lean"
  BY DEF ClaimJob
<1>3. ledger' \in [Papers -> Numbers] /\ \A p \in Papers : ledger'[p] >= ledger[p]
  BY <1>2, TableNumbers DEF IngestionTypeOK
<1>4. CASE jobs' = js /\ workers' = workers
  <2>1. WorkersOK(workers')
    BY <1>4 DEF IngestionTypeOK
  <2> QED
    BY <1>1, <1>2, <1>3, <1>4, <2>1, QueueStep
<1>5. ASSUME NEW p \in Claimable(js),
             jobs' = [js EXCEPT ![p] = [@ EXCEPT !.status = "running", !.attempts = js[p].attempts + 1,
                                                 !.owner = w, !.live = TRUE]],
             workers' = [workers EXCEPT ![w] = [AtRest EXCEPT !.pc = "check", !.paper = p, !.version = js[p].version,
                                                              !.attempts = js[p].attempts + 1]]
      PROVE  Quiet
  <2> DEFINE rec == [js[p] EXCEPT !.status = "running", !.attempts = js[p].attempts + 1, !.owner = w, !.live = TRUE]
             work == [AtRest EXCEPT !.pc = "check", !.paper = p, !.version = js[p].version, !.attempts = js[p].attempts + 1]
  <2>1. p \in Papers /\ js[p].status # None
    BY <1>5, IngestionConstants DEF Claimable
  <2>2. js[p] \in JobRecord /\ js[p].version \in Versions /\ jobs[p].version \in Nat /\ js[p].version = jobs[p].version
    BY <1>1, <2>1, TableNumbers DEF JobsOK
  <2>3. rec \in JobRecord /\ rec.version = js[p].version /\ rec.status # None
    <3>1. js[p].attempts + 1 \in Nat
      BY <2>2 DEF JobRecord
    <3> HIDE DEF js
    <3> QED
      BY <2>2, <3>1, IngestionConstants DEF JobRecord, Statuses
  <2>4. Fits(work) /\ work.pc = "check"
    <3>1. js[p].attempts + 1 \in Nat /\ js[p].version \in Numbers
      BY <2>2 DEF JobRecord
    <3> HIDE DEF js
    <3>2. AtRest \in WorkerRecord
      BY RestFits DEF Fits
    <3>3. /\ work \in WorkerRecord
          /\ work.pc = "check" /\ work.paper = p /\ work.version = js[p].version
      BY <2>1, <3>1, <3>2 DEF WorkerRecord, SharedPlaces
    <3> HIDE DEF work
    <3> QED
      BY <1>2, <2>1, <2>2, <3>3 DEF Fits, BoundPlaces, LegacyPlaces
  <2> HIDE DEF js, rec, work
  <2>5. jobs' = [js EXCEPT ![p] = rec] /\ workers' = [workers EXCEPT ![w] = work]
    BY <1>5 DEF rec, work
  <2>6. JobsOK(jobs')
    BY <1>1, <2>1, <2>2, <2>3, <2>5, JobWritten
  <2>7. \A q \in Papers : jobs'[q] = IF q = p THEN rec ELSE js[q]
    BY <1>1, <2>1, <2>5 DEF JobsOK
  <2>8. JobsKept(jobs, jobs')
    BY <1>1, <2>1, <2>2, <2>3, <2>7 DEF JobsKept
  <2>9. WorkersOK(workers') /\ \A x \in Workers : workers'[x] = workers[x] \/ workers'[x].pc \notin LockPlaces
    BY <2>4, <2>5, WorkerWritten DEF IngestionTypeOK, WorkersOK, LockPlaces
  <2> QED
    BY <1>2, <1>3, <2>6, <2>8, <2>9, QueueStep
<1> QED
  BY <1>4, <1>5 DEF ClaimJob

\* Clocks, heartbeats and the operator's retries.
LEMMA LeaseQuiet ==
    ASSUME IngestionTypeOK, NEW p \in Papers, LeaseExpires(p)
    PROVE  Quiet
<1> DEFINE rec == [jobs[p] EXCEPT !.live = FALSE]
<1>1. UNCHANGED <<profile, paper, chunks, ledger, manifests, receipts, legacy, cursor, sync, workers>>
      /\ jobs[p].status # None /\ jobs' = [jobs EXCEPT ![p] = rec]
  BY IngestionConstants DEF LeaseExpires
<1>2. rec \in JobRecord /\ rec.version = jobs[p].version /\ rec.status # None
  BY <1>1, TableNumbers DEF JobRecord
<1> HIDE DEF rec
<1>3. JobsOK(jobs') /\ JobsKept(jobs, jobs')
  BY <1>1, <1>2, SameVersionWritten
<1>4. ledger' \in [Papers -> Numbers] /\ WorkersOK(workers') /\ \A q \in Papers : ledger'[q] >= ledger[q]
  BY <1>1, TableNumbers DEF IngestionTypeOK
<1> QED
  BY <1>1, <1>3, <1>4, QueueStep

LEMMA RenewQuiet ==
    ASSUME IngestionTypeOK, NEW w \in Workers, Renew(w)
    PROVE  Quiet
<1> DEFINE p == workers[w].paper  rec == [jobs[p] EXCEPT !.live = TRUE]
<1>1. UNCHANGED <<profile, paper, chunks, ledger, manifests, receipts, legacy, cursor, sync, workers>>
      /\ p \in Papers /\ jobs[p].status # None /\ jobs' = [jobs EXCEPT ![p] = rec]
  BY OwnRow, IngestionConstants DEF Renew
<1> HIDE DEF p
<1>2. rec \in JobRecord /\ rec.version = jobs[p].version /\ rec.status # None
  BY <1>1, TableNumbers DEF JobRecord
<1> HIDE DEF rec
<1>3. JobsOK(jobs') /\ JobsKept(jobs, jobs')
  BY <1>1, <1>2, SameVersionWritten
<1>4. ledger' \in [Papers -> Numbers] /\ WorkersOK(workers') /\ \A q \in Papers : ledger'[q] >= ledger[q]
  BY <1>1, TableNumbers DEF IngestionTypeOK
<1> QED
  BY <1>1, <1>3, <1>4, QueueStep

LEMMA LeaseLostQuiet ==
    ASSUME IngestionTypeOK, NEW w \in Workers, LeaseLost(w)
    PROVE  Quiet
BY RestStep, JobsSame, QueueStep DEF LeaseLost

\* A row that starts over asks for the same version.
LEMMA RestartedRow ==
    ASSUME IngestionTypeOK, NEW p \in Papers, jobs[p].status # None, NEW n \in Nat
    PROVE  /\ [Row(jobs[p].version) EXCEPT !.attempts = n] \in JobRecord
           /\ [Row(jobs[p].version) EXCEPT !.attempts = n].version = jobs[p].version
           /\ [Row(jobs[p].version) EXCEPT !.attempts = n].status # None
<1>1. jobs[p].version \in Numbers
  BY TableNumbers
<1>2. Row(jobs[p].version) \in JobRecord /\ Row(jobs[p].version).version = jobs[p].version
      /\ Row(jobs[p].version).status # None
  BY <1>1, RowTypes, IngestionConstants
<1> QED
  BY <1>2 DEF JobRecord

LEMMA ReleaseQuiet ==
    ASSUME IngestionTypeOK, NEW w \in Workers, Release(w)
    PROVE  Quiet
<1>1. /\ UNCHANGED <<profile, paper, chunks, ledger, manifests, receipts, legacy, cursor, sync>>
      /\ workers' = [workers EXCEPT ![w] = AtRest] /\ Working(w)
  BY DEF Release, Interruptible
<1>2. WorkersOK(workers') /\ \A x \in Workers : workers'[x] = workers[x] \/ workers'[x].pc \notin LockPlaces
  BY <1>1, RestStep
<1>3. ledger' \in [Papers -> Numbers] /\ \A q \in Papers : ledger'[q] >= ledger[q]
  BY <1>1, TableNumbers DEF IngestionTypeOK
<1>4. CASE ~HoldsRow(w)
  <2>1. jobs' = jobs
    BY <1>4 DEF Release
  <2> QED
    BY <1>1, <1>2, <2>1, JobsSame, QueueStep
<1>5. CASE HoldsRow(w)
  <2> DEFINE p == workers[w].paper  n == MaxNum(jobs[p].attempts - 1, 0)
             rec == [Row(jobs[p].version) EXCEPT !.attempts = n]
  <2>1. p \in Papers /\ jobs[p].status # None
    BY <1>1, <1>5, OwnRow, IngestionConstants
  <2>2. jobs' = [jobs EXCEPT ![p] = rec]
    BY <1>5 DEF Release
  <2> HIDE DEF p
  <2>3. n \in Nat
    BY <2>1, TableNumbers DEF MaxNum
  <2> HIDE DEF n
  <2>4. rec \in JobRecord /\ rec.version = jobs[p].version /\ rec.status # None
    BY <2>1, <2>3, RestartedRow
  <2> HIDE DEF rec
  <2>5. JobsOK(jobs') /\ JobsKept(jobs, jobs')
    BY <2>1, <2>2, <2>4, SameVersionWritten
  <2> QED
    BY <1>1, <1>2, <1>3, <2>5, QueueStep
<1> QED
  BY <1>4, <1>5

LEMMA RetryQuiet ==
    ASSUME IngestionTypeOK, NEW p \in Papers, RetryJob(p)
    PROVE  Quiet
<1>1. /\ UNCHANGED <<profile, paper, chunks, ledger, manifests, receipts, legacy, cursor, sync, workers>>
      /\ jobs[p].status # None /\ jobs' = [jobs EXCEPT ![p] = Row(jobs[p].version)]
  BY IngestionConstants DEF RetryJob
<1> DEFINE rec == Row(jobs[p].version)
<1>2. rec \in JobRecord /\ rec.version = jobs[p].version /\ rec.status # None
  <2>1. jobs[p].version \in Numbers
    BY TableNumbers
  <2> QED
    BY <1>1, <2>1, RowTypes, IngestionConstants
<1> HIDE DEF rec
<1>3. JobsOK(jobs') /\ JobsKept(jobs, jobs')
  BY <1>1, <1>2, SameVersionWritten DEF rec
<1>4. ledger' \in [Papers -> Numbers] /\ WorkersOK(workers') /\ \A q \in Papers : ledger'[q] >= ledger[q]
  BY <1>1, TableNumbers DEF IngestionTypeOK
<1> QED
  BY <1>1, <1>3, <1>4, QueueStep

\* A dead worker's row keeps its version.
LEMMA CrashQuiet ==
    ASSUME IngestionTypeOK, NEW w \in Workers, Crash(w)
    PROVE  Quiet
<1>1. /\ UNCHANGED <<profile, paper, chunks, ledger, manifests, receipts, legacy, cursor, sync>>
      /\ workers' = [workers EXCEPT ![w] = AtRest]
      /\ jobs' = [p \in Papers |-> IF jobs[p].owner = w THEN [jobs[p] EXCEPT !.owner = "gone"] ELSE jobs[p]]
  BY DEF Crash
<1>2. WorkersOK(workers') /\ \A x \in Workers : workers'[x] = workers[x] \/ workers'[x].pc \notin LockPlaces
  BY <1>1, RestStep
<1>3. ledger' \in [Papers -> Numbers] /\ \A q \in Papers : ledger'[q] >= ledger[q]
  BY <1>1, TableNumbers DEF IngestionTypeOK
<1>4. ASSUME NEW p \in Papers
      PROVE  /\ jobs'[p] \in JobRecord /\ jobs'[p].version = jobs[p].version /\ jobs'[p].status = jobs[p].status
             /\ jobs'[p].status # None => jobs'[p].version \in Versions
             /\ jobs[p].version \in Nat
  BY <1>1, TableNumbers DEF JobRecord
<1>5. JobsOK(jobs') /\ JobsKept(jobs, jobs')
  <2>1. jobs' = [p \in Papers |-> jobs'[p]]
    BY <1>1
  <2>2. \A p \in Papers : jobs'[p].version >= jobs[p].version
    BY <1>4
  <2> QED
    BY <1>4, <2>1, <2>2 DEF JobsOK, JobsKept
<1> QED
  BY <1>1, <1>2, <1>3, <1>5, QueueStep

\* A worker that finds its paper ahead of it puts the newer version in its place.
LEMMA ObsoleteQuiet ==
    ASSUME IngestionTypeOK, RowsBeginEmpty, NEW w \in Workers, Working(w),
           paper[workers[w].paper].version > workers[w].version, Obsolete(w)
    PROVE  Quiet
<1> DEFINE p == workers[w].paper  v == paper[p].version
<1>1. p \in Papers /\ v \in Versions
  <2>1. p \in Papers /\ workers[w].version \in Nat /\ workers[w].version > 0
    BY OwnRow, VersionsAreNumbers
  <2> QED
    BY <2>1 DEF IngestionTypeOK, Numbers
<1>2. CASE profile = "bound"
  <2>1. /\ ledger' = Owe({<<p, v>>}) /\ jobs' = Enqueue(jobs, p, v) /\ workers' = [workers EXCEPT ![w] = AtRest]
        /\ UNCHANGED <<profile, paper, chunks, manifests, receipts, legacy, cursor, sync>>
    BY <1>2 DEF Obsolete
  <2>2. {<<p, v>>} \in SUBSET Announcements
    BY <1>1 DEF Announcements
  <2> HIDE DEF p, v
  <2>3. ledger' \in [Papers -> Numbers] /\ \A q \in Papers : ledger'[q] >= ledger[q]
    BY <2>1, <2>2, Owed
  <2>4. JobsOK(jobs') /\ JobsKept(jobs, jobs')
    BY <1>1, <1>2, <2>1, Enqueued DEF IngestionTypeOK, RowsBeginEmpty
  <2> QED
    BY <2>1, <2>3, <2>4, RestStep, QueueStep
<1>3. CASE profile # "bound"
  <2>1. Goto(w, "complete") /\ UNCHANGED <<profile, paper, chunks, jobs, ledger, manifests, receipts, legacy, cursor, sync>>
    BY <1>3 DEF Obsolete
  <2>2. "complete" \in SharedPlaces \ {"flag"} /\ "complete" # "idle"
    BY DEF SharedPlaces
  <2> QED
    BY <2>1, <2>2, GotoQuiet
<1> QED
  BY <1>2, <1>3

LEMMA CheckQuiet ==
    ASSUME IngestionTypeOK, RowsBeginEmpty, NEW w \in Workers, CheckRevision(w)
    PROVE  Quiet
<1>1. Working(w)
  BY DEF CheckRevision, Working
<1>2. CASE paper[workers[w].paper].version > workers[w].version /\ Obsolete(w)
  BY <1>1, <1>2, ObsoleteQuiet
<1>3. CASE Fail(w, "invalid")
  BY <1>1, <1>3, FailQuiet
<1>4. CASE /\ Goto(w, IF profile = "bound" THEN "resume" ELSE "build")
           /\ UNCHANGED <<profile, paper, chunks, jobs, ledger, manifests, receipts, legacy, cursor, sync>>
  <2> DEFINE pc == IF profile = "bound" THEN "resume" ELSE "build"
  <2>1. pc # "idle" /\ (pc \in SharedPlaces \ {"flag"} \/ (profile = "bound" /\ pc \in BoundPlaces \ LockPlaces))
    <3>1. /\ "build" # "idle" /\ "build" \in SharedPlaces \ {"flag"}
          /\ "resume" # "idle" /\ "resume" \in BoundPlaces \ LockPlaces
      BY DEF SharedPlaces, BoundPlaces, LockPlaces
    <3>2. (profile = "bound" => pc = "resume") /\ (profile # "bound" => pc = "build")
      OBVIOUS
    <3> HIDE DEF pc
    <3> QED
      BY <3>1, <3>2
  <2>2. Goto(w, pc)
    BY <1>4
  <2> HIDE DEF pc
  <2> QED
    BY <1>1, <1>4, <2>1, <2>2, GotoQuiet
<1> QED
  BY <1>2, <1>3, <1>4 DEF CheckRevision

LEMMA CompleteQuiet ==
    ASSUME IngestionTypeOK, NEW w \in Workers, Complete(w)
    PROVE  Quiet
<1>1. Working(w) /\ UNCHANGED <<profile, paper, chunks, ledger, manifests, receipts, legacy, cursor, sync>>
  BY DEF Complete, Working
<1>2. ledger' \in [Papers -> Numbers] /\ \A p \in Papers : ledger'[p] >= ledger[p]
  BY <1>1, TableNumbers DEF IngestionTypeOK
<1>3. CASE HoldsRow(w) /\ Close(w, "succeeded")
  <2>1. "succeeded" \in Statuses
    BY DEF Statuses
  <2> QED
    BY <1>1, <1>2, <1>3, <2>1, CloseTypes, QueueStep
<1>4. CASE workers' = [workers EXCEPT ![w] = AtRest] /\ jobs' = jobs
  BY <1>1, <1>4, RestStep, JobsSame, QueueStep
<1> QED
  BY <1>3, <1>4 DEF Complete

\* What the scope owes is queued.
LEMMA ScopeQuiet ==
    ASSUME IngestionTypeOK, RowsBeginEmpty, NEW p \in Papers, ResumeScope(p)
    PROVE  Quiet
<1>1. /\ UNCHANGED <<profile, paper, chunks, ledger, manifests, receipts, legacy, cursor, sync, workers>>
      /\ profile = "bound" /\ ledger[p] > 0 /\ jobs' = Enqueue(jobs, p, ledger[p])
  BY DEF ResumeScope
<1>2. ledger[p] \in Versions
  BY <1>1 DEF IngestionTypeOK, Numbers
<1>3. JobsOK(jobs') /\ JobsKept(jobs, jobs')
  BY <1>1, <1>2, Enqueued DEF IngestionTypeOK, RowsBeginEmpty
<1>4. ledger' \in [Papers -> Numbers] /\ WorkersOK(workers') /\ \A q \in Papers : ledger'[q] >= ledger[q]
  BY <1>1, TableNumbers DEF IngestionTypeOK
<1> QED
  BY <1>1, <1>3, <1>4, QueueStep

\* An entry of the ledger goes only when a job for its version has succeeded.
LEMMA DeferredQuiet ==
    ASSUME IngestionTypeOK, RowsBeginEmpty, NEW p \in Papers, ResumeDeferred(p)
    PROVE  Quiet
<1>1. /\ UNCHANGED <<profile, paper, chunks, manifests, receipts, legacy, cursor, sync, workers>>
      /\ profile = "full" /\ ledger[p] > 0 /\ ledger[p] \in Versions
  BY DEF ResumeDeferred, IngestionTypeOK, Numbers
<1>2. WorkersOK(workers')
  BY <1>1 DEF IngestionTypeOK
<1>3. \A q \in Papers : ledger[q] \in Nat /\ jobs[q].version \in Nat
  BY TableNumbers
<1>4. CASE jobs[p].version >= ledger[p] /\ ledger' = [ledger EXCEPT ![p] = 0] /\ jobs' = jobs
  <2>1. JobsOK(jobs') /\ JobsKept(jobs, jobs')
    BY <1>3, <1>4 DEF IngestionTypeOK, JobsKept
  <2>2. ledger' \in [Papers -> Numbers]
    BY <1>4 DEF IngestionTypeOK, Numbers
  <2>3. \A q \in Papers : ledger'[q] >= ledger[q] \/ jobs'[q].version >= ledger[q]
    BY <1>3, <1>4 DEF IngestionTypeOK
  <2> QED
    BY <1>1, <1>2, <2>1, <2>2, <2>3, QueueStep
<1>5. CASE jobs' = Enqueue(jobs, p, ledger[p]) /\ ledger' = ledger
  <2>1. JobsOK(jobs') /\ JobsKept(jobs, jobs')
    BY <1>1, <1>5, Enqueued DEF IngestionTypeOK, RowsBeginEmpty
  <2>2. ledger' \in [Papers -> Numbers] /\ \A q \in Papers : ledger'[q] >= ledger[q]
    BY <1>3, <1>5 DEF IngestionTypeOK
  <2> QED
    BY <1>1, <1>2, <2>1, <2>2, QueueStep
<1>6. CASE jobs[p].status = "dead" /\ jobs' = [jobs EXCEPT ![p] = Row(jobs[p].version)] /\ ledger' = ledger
  <2> DEFINE rec == Row(jobs[p].version)
  <2>1. jobs[p].status # None /\ jobs[p].version \in Numbers
    BY <1>6, TableNumbers, IngestionConstants
  <2>2. rec \in JobRecord /\ rec.version = jobs[p].version /\ rec.status # None
    BY <2>1, RowTypes, IngestionConstants
  <2> HIDE DEF rec
  <2>3. JobsOK(jobs') /\ JobsKept(jobs, jobs')
    BY <1>6, <2>1, <2>2, SameVersionWritten DEF rec
  <2>4. ledger' \in [Papers -> Numbers] /\ \A q \in Papers : ledger'[q] >= ledger[q]
    BY <1>3, <1>6 DEF IngestionTypeOK
  <2> QED
    BY <1>1, <1>2, <2>3, <2>4, QueueStep
<1> QED
  BY <1>4, <1>5, <1>6 DEF ResumeDeferred

\* The legacy installation is outside of the bound destination.
LEMMA LegacyGate ==
    ASSUME IngestionTypeOK, NEW w \in Workers, InstallGate(w)
    PROVE  Quiet
<1>1. Working(w) /\ profile = "full"
  BY OwnRow DEF InstallGate, Working, Fits, LegacyPlaces, IngestionTypeOK
<1>2. CASE Fail(w, "invalid")
  BY <1>1, <1>2, FailQuiet
<1>3. CASE Goto(w, "upsert") /\ UNCHANGED <<profile, paper, chunks, jobs, ledger, manifests, receipts, legacy, cursor, sync>>
  <2>1. "upsert" \in SharedPlaces \cup LegacyPlaces /\ "upsert" # "idle"
    BY DEF LegacyPlaces
  <2> QED
    BY <1>1, <1>3, <2>1, GotoQuiet
<1> QED
  BY <1>2, <1>3 DEF InstallGate

LEMMA LegacyLook ==
    ASSUME IngestionTypeOK, RowsBeginEmpty, KeysTell, NEW w \in Workers, LookAgain(w)
    PROVE  Quiet
<1>1. Working(w) /\ profile = "full" /\ workers[w].paper \in Papers
  BY OwnRow DEF LookAgain, Working, Fits, LegacyPlaces, IngestionTypeOK
<1>2. CASE paper[workers[w].paper].version > workers[w].version /\ Obsolete(w)
  BY <1>1, <1>2, ObsoleteQuiet
<1>3. CASE /\ workers' = [workers EXCEPT ![w] = [@ EXCEPT !.pc = "gate", !.old = Stored(workers[w].paper)]]
           /\ UNCHANGED <<profile, paper, chunks, jobs, ledger, manifests, receipts, legacy, cursor, sync, faults>>
  <2> DEFINE rec == [workers[w] EXCEPT !.pc = "gate", !.old = Stored(workers[w].paper)]
  <2>1. Stored(workers[w].paper) \in AnyKeys
    BY <1>1 DEF KeysTell, AnyKeys
  <2>2. rec \in WorkerRecord /\ rec.pc = "gate" /\ rec.paper = workers[w].paper /\ rec.version = workers[w].version
    BY <1>1, <2>1, OwnRow DEF WorkerRecord, LegacyPlaces
  <2> HIDE DEF rec
  <2>3. Fits(rec)
    BY <1>1, <2>2, OwnRow DEF Fits, BoundPlaces
  <2>4. WorkersOK(workers')
    <3>1. workers' = [workers EXCEPT ![w] = rec]
      BY <1>3 DEF rec
    <3> QED
      BY <2>3, <3>1, WorkerWritten DEF IngestionTypeOK
  <2> QED
    BY <1>1, <1>3, <2>4, JobsSame, QueueStep
<1> QED
  BY <1>2, <1>3 DEF LookAgain

\* The bound queue enters its lock on a guard, or gives the attempt up.
LEMMA BuildQuiet ==
    ASSUME IngestionTypeOK, NEW w \in Workers, Build(w)
    PROVE  \/ Quiet
           \/ /\ profile = "bound" /\ ~Locked(workers[w].paper) /\ Guard(w) /\ Goto(w, "prepare")
              /\ UNCHANGED <<profile, paper, chunks, jobs, ledger, manifests, receipts, legacy, cursor, sync>>
<1>1. Working(w)
  BY DEF Build, Working
<1>2. CASE Fail(w, "source") \/ Fail(w, "temporary")
  BY <1>1, <1>2, FailQuiet
<1>3. CASE /\ profile = "full" /\ Goto(w, "latest")
           /\ UNCHANGED <<profile, paper, chunks, jobs, ledger, manifests, receipts, legacy, cursor, sync>>
  <2>1. "latest" \in SharedPlaces \cup LegacyPlaces /\ "latest" # "idle"
    BY DEF LegacyPlaces
  <2> QED
    BY <1>1, <1>3, <2>1, GotoQuiet
<1> QED
  BY <1>2, <1>3 DEF Build

LEMMA ResumeQuiet ==
    ASSUME IngestionTypeOK, NEW w \in Workers, Resume(w)
    PROVE  \/ Quiet
           \/ /\ profile = "bound" /\ ~Locked(workers[w].paper) /\ Guard(w) /\ Goto(w, "record")
              /\ Recorded(workers[w].paper, workers[w].version)
              /\ UNCHANGED <<profile, paper, chunks, jobs, ledger, manifests, receipts, legacy, cursor, sync>>
<1>1. Working(w)
  BY DEF Resume, Working
<1>2. CASE Fail(w, "temporary")
  BY <1>1, <1>2, FailQuiet
<1>3. CASE Goto(w, "build") /\ UNCHANGED <<profile, paper, chunks, jobs, ledger, manifests, receipts, legacy, cursor, sync>>
  <2>1. "build" \in SharedPlaces \ {"flag"} /\ "build" # "idle"
    BY DEF SharedPlaces
  <2> QED
    BY <1>1, <1>3, <2>1, GotoQuiet
<1> QED
  BY <1>2, <1>3 DEF Resume, Recorded

-----------------------------------------------------------------------------
(* A step that forgets nothing keeps the cursor sound; one that leaves the *)
(* store untouched keeps the installations.                                *)

LEMMA NumbersKept ==
    ASSUME IngestionTypeOK, IngestionTypeOK'
    PROVE  \A p \in Papers : /\ paper[p].version \in Nat /\ jobs[p].version \in Nat /\ ledger[p] \in Nat
                             /\ paper'[p].version \in Nat /\ jobs'[p].version \in Nat /\ ledger'[p] \in Nat
BY VersionsAreNumbers DEF IngestionTypeOK, JobsOK, JobRecord

\* What is announced is of papers, and of versions.
LEMMA AnnouncementsOfDays ==
    /\ \A d \in Days : OfDay(d) \subseteq Announcements
    /\ \A d : AnnouncedBy(d) \subseteq Announcements
    /\ \A e \in Announcements : e[1] \in Papers /\ e[2] \in Versions /\ e[2] \in Nat /\ e[2] > 0
<1>1. \A d \in Days : OfDay(d) \subseteq Announcements
  BY DaysAreNumbers DEF OfDay
<1>2. ASSUME NEW d, NEW e \in AnnouncedBy(d)
      PROVE  e \in Announcements
  <2>1. PICK x \in Days : e \in UNION {Pages[x][i] : i \in DOMAIN Pages[x]}
    BY <1>2 DEF AnnouncedBy
  <2> QED
    BY <1>1, <2>1 DEF OfDay
<1> QED
  BY <1>1, <1>2, VersionsAreNumbers DEF Announcements

\* A step may store newer versions, as long as the rest is remembered.
Remembers ==
  /\ legacy' = legacy
  /\ JobsKept(jobs, jobs')
  /\ \A p \in Papers : /\ paper'[p].version >= paper[p].version
                       /\ ledger'[p] >= ledger[p] \/ jobs'[p].version >= ledger[p]

LEMMA CoveredStays ==
    ASSUME IngestionTypeOK, IngestionTypeOK', Remembers, NEW p \in Papers, NEW v \in Nat, Covered(p, v)
    PROVE  Covered(p, v)'
<1>1. /\ paper'[p].version >= paper[p].version /\ paper[p].version \in Nat /\ paper'[p].version \in Nat
      /\ jobs[p].version \in Nat /\ jobs'[p].version \in Nat /\ ledger[p] \in Nat /\ ledger'[p] \in Nat
  BY NumbersKept DEF Remembers
<1>2. /\ jobs'[p].status = None => jobs[p].status = None /\ jobs'[p].version = jobs[p].version
      /\ jobs'[p].version >= jobs[p].version
      /\ ledger'[p] >= ledger[p] \/ jobs'[p].version >= ledger[p]
      /\ legacy' = legacy
  BY DEF Remembers, JobsKept
<1>3. paper'[p].version >= v
  BY <1>1 DEF Covered
<1>4. CASE paper[p].version > v
  BY <1>1, <1>3, <1>4 DEF Covered, Remembered
<1>5. CASE jobs[p].version >= v
  BY <1>1, <1>2, <1>3, <1>5 DEF Covered, Remembered
<1>6. CASE ledger[p] >= v
  BY <1>1, <1>2, <1>3, <1>6 DEF Covered, Remembered
<1>7. CASE legacy[p] >= v
  BY <1>2, <1>3, <1>7 DEF Covered, Remembered
<1> QED
  BY <1>4, <1>5, <1>6, <1>7 DEF Covered, Remembered

\* What the cursor has passed is covered.
LEMMA CursorMeansCovered ==
    CursorCovers <=> \A e \in AnnouncedBy(cursor) : Covered(e[1], e[2])
BY DEF CursorCovers, Covered, Remembered

LEMMA CursorKept ==
    ASSUME IngestionTypeOK, IngestionTypeOK', NothingForgotten, CursorInv
    PROVE  CursorInv'
<1>1. profile' = profile /\ legacy' = legacy /\ cursor' = cursor /\ sync' = sync
  BY DEF NothingForgotten
<1>2. RowsBeginEmpty'
  BY <1>1 DEF CursorInv, RowsBeginEmpty, NothingForgotten, JobsKept
<1>3. \A e \in Announcements : Covered(e[1], e[2]) => Covered(e[1], e[2])'
  <2>1. Remembers
    BY NumbersKept DEF NothingForgotten, Remembers
  <2> QED
    BY <2>1, CoveredStays, AnnouncementsOfDays
<1>4. CursorCovers'
  <2>1. \A e \in AnnouncedBy(cursor) : Covered(e[1], e[2])'
    BY <1>3, CursorMeansCovered, AnnouncementsOfDays DEF CursorInv
  <2> QED
    BY <1>1, <2>1 DEF CursorCovers, Covered, Remembered
<1>5. SyncIsSound'
  <2>1. \A e \in Announcements : OwedFor(e)' = OwedFor(e)
    BY <1>1 DEF OwedFor
  <2>2. ASSUME NEW e \in Announcements, Accounted(e), sync.pc \notin {"idle", "reconcile"}
        PROVE  Accounted(e)'
    <3>1. sync.pc \in {"fetch", "write", "owe", "enqueue", "done"}
      BY <2>2 DEF IngestionTypeOK, SyncRecord
    <3>2. CASE sync.pc \in {"fetch", "write", "owe"}
      BY <1>1, <2>1, <2>2, <3>2 DEF Accounted
    <3>3. CASE sync.pc \in {"enqueue", "done"}
      BY <1>1, <1>3, <2>1, <2>2, <3>3 DEF Accounted
    <3> QED
      BY <3>1, <3>2, <3>3
  <2>3. \A o \in sync.owed : paper'[o[1]].version >= o[2]
    BY AnnouncementsOfDays DEF CursorInv, SyncIsSound, NothingForgotten, IngestionTypeOK, SyncRecord
  <2>4. ASSUME sync.pc \notin {"idle", "reconcile"}, sync.source = "oai"
        PROVE  \A e \in OfDay(sync.day) : Accounted(e)'
    BY <2>2, <2>4, AnnouncementsOfDays DEF CursorInv, SyncIsSound
  <2> QED
    BY <1>1, <2>3, <2>4 DEF CursorInv, SyncIsSound
<1> QED
  BY <1>2, <1>4, <1>5 DEF CursorInv

\* Those who held a lock after a quiet step held it before, at the same place.
LEMMA InstallKept ==
    ASSUME IngestionTypeOK, StoreUntouched, InstallInv
    PROVE  InstallInv'
<1>1. /\ profile' = profile /\ chunks' = chunks /\ manifests' = manifests /\ receipts' = receipts
      /\ \A p \in Papers : paper'[p].version = paper[p].version
      /\ \A w \in Workers : Holds(w)' => Holds(w) /\ workers'[w] = workers[w]
  BY DEF StoreUntouched, Holds
<1>2. KeysTell'
  BY <1>1 DEF InstallInv, KeysTell, Stored
<1>3. ManifestsTell'
  BY <1>1 DEF InstallInv, ManifestsTell, Stored, Recorded
<1>4. OneHolds'
  BY <1>1 DEF InstallInv, OneHolds
<1>5. ASSUME NEW w \in Workers, Holds(w)'
      PROVE  Installing(w)'
  <2>1. Installing(w) /\ workers'[w] = workers[w]
    BY <1>1, <1>5 DEF InstallInv
  <2> QED
    BY <1>1, <2>1 DEF Installing, Stored, Recorded, Whole, Exactly
<1>6. ReceiptsTell'
  BY <1>1 DEF InstallInv, ReceiptsTell, Stored, Whole, Exactly
<1> QED
  BY <1>2, <1>3, <1>4, <1>5, <1>6 DEF InstallInv

LEMMA QuietKeeps ==
    ASSUME IngestionInv, Quiet
    PROVE  IngestionInv'
BY CursorKept, InstallKept DEF IngestionInv, Quiet

-----------------------------------------------------------------------------
(* The installation: a step of the lock's holder.                          *)

LEMMA KeyFacts ==
    ASSUME NEW v \in Versions
    PROVE  /\ Keys(v) \subseteq Nat \X Nat /\ BoundKeys(v) \subseteq Nat \X Nat
           /\ profile = "bound" => Keys(v) = BoundKeys(v)
           /\ profile # "bound" => \A k \in Keys(v) : k[1] = 0
           /\ \A k \in BoundKeys(v) : k[1] = v /\ v # 0
<1>1. v \in Nat /\ v # 0 /\ ChunkCount[v] \in Nat /\ \A i \in 1..ChunkCount[v] : i \in Nat
  BY VersionsAreNumbers
<1>2. \A k \in BoundKeys(v) : k \in Nat \X Nat /\ k[1] = v
  BY <1>1 DEF BoundKeys
<1>3. CASE profile = "bound"
  <2>1. Keys(v) = BoundKeys(v)
    BY <1>3 DEF Keys, BoundKeys
  <2> QED
    BY <1>1, <1>2, <1>3, <2>1
<1>4. CASE profile # "bound"
  <2>1. \A k \in Keys(v) : k \in Nat \X Nat /\ k[1] = 0
    BY <1>1, <1>4 DEF Keys
  <2> QED
    BY <1>1, <1>2, <1>4, <2>1
<1> QED
  BY <1>3, <1>4

LEMMA StoreWritten ==
    ASSUME KeysTell, NEW p \in Papers, NEW ks, ks \subseteq Nat \X Nat, NEW v,
           \A k \in ks : k[1] # 0 => v = k[1], profile # "bound" => \A k \in ks : k[1] = 0,
           profile' = profile, chunks' = [chunks EXCEPT ![p] = Put(chunks[p], ks, v)]
    PROVE  /\ KeysTell' /\ Stored(p)' = Stored(p) \cup ks
           /\ \A q \in Papers \ {p} : chunks'[q] = chunks[q]
<1>1. /\ DOMAIN chunks' = Papers /\ chunks'[p] = Put(chunks[p], ks, v)
      /\ \A q \in Papers \ {p} : chunks'[q] = chunks[q]
  BY DEF KeysTell
<1>2. /\ DOMAIN chunks'[p] = Stored(p) \cup ks
      /\ chunks'[p] = [k \in DOMAIN chunks'[p] |-> chunks'[p][k]]
      /\ \A k \in Stored(p) \cup ks : chunks'[p][k] = IF k \in ks THEN v ELSE chunks[p][k]
  BY <1>1 DEF Put, Stored
<1>3. KeysTell'
  <2> SUFFICES ASSUME NEW q \in Papers
               PROVE  /\ chunks'[q] = [k \in DOMAIN chunks'[q] |-> chunks'[q][k]]
                      /\ DOMAIN chunks'[q] \subseteq Nat \X Nat
                      /\ profile # "bound" => \A k \in DOMAIN chunks'[q] : k[1] = 0
                      /\ \A k \in DOMAIN chunks'[q] : k[1] # 0 => chunks'[q][k] = k[1]
    BY <1>1 DEF KeysTell, Stored
  <2>1. CASE q = p
    BY <1>2, <2>1 DEF KeysTell, Stored
  <2>2. CASE q # p
    BY <1>1, <2>2 DEF KeysTell, Stored
  <2> QED
    BY <2>1, <2>2
<1> QED
  BY <1>1, <1>2, <1>3 DEF Stored

LEMMA StoreCleared ==
    ASSUME KeysTell, NEW p \in Papers, NEW ks,
           profile' = profile, chunks' = [chunks EXCEPT ![p] = Without(chunks[p], ks)]
    PROVE  /\ KeysTell' /\ Stored(p)' = Stored(p) \ ks
           /\ \A q \in Papers \ {p} : chunks'[q] = chunks[q]
<1>1. /\ DOMAIN chunks' = Papers /\ chunks'[p] = Without(chunks[p], ks)
      /\ \A q \in Papers \ {p} : chunks'[q] = chunks[q]
  BY DEF KeysTell
<1>2. /\ DOMAIN chunks'[p] = Stored(p) \ ks
      /\ chunks'[p] = [k \in DOMAIN chunks'[p] |-> chunks'[p][k]]
      /\ \A k \in Stored(p) \ ks : chunks'[p][k] = chunks[p][k]
  BY <1>1 DEF Without, Stored
<1>3. KeysTell'
  <2> SUFFICES ASSUME NEW q \in Papers
               PROVE  /\ chunks'[q] = [k \in DOMAIN chunks'[q] |-> chunks'[q][k]]
                      /\ DOMAIN chunks'[q] \subseteq Nat \X Nat
                      /\ profile # "bound" => \A k \in DOMAIN chunks'[q] : k[1] = 0
                      /\ \A k \in DOMAIN chunks'[q] : k[1] # 0 => chunks'[q][k] = k[1]
    BY <1>1 DEF KeysTell, Stored
  <2>1. CASE q = p
    BY <1>2, <2>1 DEF KeysTell, Stored
  <2>2. CASE q # p
    BY <1>1, <2>2 DEF KeysTell, Stored
  <2> QED
    BY <2>1, <2>2
<1> QED
  BY <1>1, <1>2, <1>3 DEF Stored

\* A step of one worker for one paper, while nobody else holds that paper's lock.
Alone(w, p) ==
  /\ p \in Papers /\ profile = "bound"
  /\ UNCHANGED <<profile, jobs, ledger, legacy, cursor, sync>>
  /\ \A q \in Papers : paper'[q].version = paper[q].version
  /\ \A x \in Workers \ {w} : Holds(x) => workers[x].paper # p
  /\ \A x \in Workers \ {w} : workers'[x] = workers[x]
  /\ workers'[w].paper = p
  /\ \A q \in Papers \ {p} : chunks'[q] = chunks[q]
  /\ \A q \in Papers \ {p}, v \in Versions :
       /\ Recorded(q, v)' <=> Recorded(q, v)
       /\ Recorded(q, v) => manifests'[<<q, v>>] = manifests[<<q, v>>]
       /\ <<q, v>> \in receipts' <=> <<q, v>> \in receipts

\* The others see nothing of it.
LEMMA OthersKeep ==
    ASSUME IngestionInv, NEW w \in Workers, NEW p, Alone(w, p)
    PROVE  /\ NothingForgotten
           /\ OneHolds'
           /\ \A x \in Workers \ {w} : Holds(x)' => Installing(x)'
<1>1. NothingForgotten
  BY TableNumbers, JobsSame DEF Alone, NothingForgotten, IngestionInv
<1>2. \A x \in Workers \ {w} : /\ workers'[x] = workers[x]
                               /\ Holds(x)' <=> Holds(x)
                               /\ Holds(x) => workers[x].paper # p
  BY DEF Alone, Holds
<1>3. OneHolds'
  BY <1>2 DEF Alone, IngestionInv, InstallInv, OneHolds
<1>4. ASSUME NEW x \in Workers \ {w}, Holds(x)'
      PROVE  Installing(x)'
  <2>1. /\ Holds(x) /\ Installing(x) /\ workers'[x] = workers[x]
        /\ workers[x].paper \in Papers \ {p} /\ workers[x].version \in Versions
    BY <1>2, <1>4, OwnRow DEF IngestionInv, InstallInv, Holds, LockPlaces, Working
  <2> DEFINE q == workers[x].paper
  <2>2. /\ chunks'[q] = chunks[q]
        /\ \A v \in Versions : /\ Recorded(q, v)' <=> Recorded(q, v)
                               /\ Recorded(q, v) => manifests'[<<q, v>>] = manifests[<<q, v>>]
    BY <2>1 DEF Alone
  <2> QED
    BY <2>1, <2>2 DEF Installing, Stored, Whole, Exactly
<1> QED
  BY <1>1, <1>3, <1>4

\* What is left to show of such a step.
LEMMA AloneKeeps ==
    ASSUME IngestionInv, NEW w \in Workers, NEW p, Alone(w, p), IngestionTypeOK',
           KeysTell', ManifestsTell', Holds(w)' => Installing(w)', ReceiptsTell'
    PROVE  IngestionInv'
<1>1. CursorInv'
  BY OthersKeep, CursorKept DEF IngestionInv
<1>2. \A x \in Workers : Holds(x)' => Installing(x)'
  BY OthersKeep
<1> QED
  BY <1>1, <1>2, OthersKeep DEF IngestionInv, InstallInv

LEMMA Holder ==
    ASSUME IngestionInv, NEW w \in Workers, workers[w].pc \in LockPlaces, profile = "bound"
    PROVE  /\ workers[w].paper \in Papers /\ workers[w].version \in Versions /\ Fits(workers[w]) /\ Working(w)
           /\ Installing(w)
           /\ \A x \in Workers \ {w} : Holds(x) => workers[x].paper # workers[w].paper
<1>1. Working(w) /\ Holds(w)
  BY DEF Working, LockPlaces, Holds
<1>2. workers[w].paper \in Papers /\ workers[w].version \in Versions /\ Fits(workers[w])
  BY <1>1, OwnRow DEF IngestionInv
<1> QED
  BY <1>1, <1>2 DEF IngestionInv, InstallInv, OneHolds

\* Where nobody is at a place of the lock, nobody holds it.
LEMMA NotLocked ==
    ASSUME NEW p, ~Locked(p)
    PROVE  \A x \in Workers : Holds(x) => workers[x].paper # p
BY DEF Locked, Holds, LockPlaces

\* A step that moves the holder, or lets one in.
LEMMA HolderMoves ==
    ASSUME IngestionInv, profile = "bound", NEW w \in Workers, workers[w].paper \in Papers,
           \A x \in Workers \ {w} : Holds(x) => workers[x].paper # workers[w].paper,
           NEW rec, Fits(rec), rec.paper = workers[w].paper, workers' = [workers EXCEPT ![w] = rec],
           UNCHANGED <<profile, paper, chunks, jobs, ledger, manifests, receipts, legacy, cursor, sync>>,
           rec.pc \in LockPlaces => Installing(w)'
    PROVE  IngestionInv'
<1>1. /\ WorkersOK(workers') /\ workers'[w] = rec
      /\ \A x \in Workers \ {w} : workers'[x] = workers[x]
  BY WorkerWritten DEF IngestionInv, IngestionTypeOK, WorkersOK
<1>2. IngestionTypeOK'
  <2>1. WorkersOK(workers)'
    BY <1>1 DEF WorkersOK, Fits
  <2> QED
    BY <2>1 DEF IngestionInv, IngestionTypeOK, JobsOK
<1>3. Alone(w, workers[w].paper)
  BY <1>1 DEF Alone, Recorded
<1>4. KeysTell' /\ ManifestsTell' /\ ReceiptsTell'
  <2>1. KeysTell'
    BY DEF IngestionInv, InstallInv, KeysTell, Stored
  <2>2. ManifestsTell'
    BY DEF IngestionInv, InstallInv, ManifestsTell, Stored, Recorded
  <2>3. ReceiptsTell'
    BY DEF IngestionInv, InstallInv, ReceiptsTell, Stored, Whole, Exactly
  <2> QED
    BY <2>1, <2>2, <2>3
<1>5. Holds(w)' => Installing(w)'
  BY <1>1 DEF Holds
<1> QED
  BY <1>2, <1>3, <1>4, <1>5, AloneKeeps

\* A record that fits still does at another place of the bound profile.
LEMMA PlaceFits ==
    ASSUME NEW rec, Fits(rec), rec.pc # "idle", NEW pc \in SharedPlaces \cup BoundPlaces, profile = "bound"
    PROVE  /\ Fits([rec EXCEPT !.pc = pc])
           /\ [rec EXCEPT !.pc = pc].pc = pc /\ [rec EXCEPT !.pc = pc].paper = rec.paper
           /\ [rec EXCEPT !.pc = pc].version = rec.version /\ [rec EXCEPT !.pc = pc].old = rec.old
           /\ [rec EXCEPT !.pc = pc].todo = rec.todo
<1>1. rec \in WorkerRecord
  BY DEF Fits
<1>2. pc \notin LegacyPlaces
  BY DEF SharedPlaces, BoundPlaces, LegacyPlaces
<1> QED
  BY <1>1, <1>2 DEF Fits, WorkerRecord

\* Entering the lock.
LEMMA ResumeKeeps ==
    ASSUME IngestionInv, NEW w \in Workers, Resume(w)
    PROVE  IngestionInv'
<1>1. CASE Quiet
  BY <1>1, QuietKeeps
<1>2. CASE /\ profile = "bound" /\ ~Locked(workers[w].paper) /\ Guard(w) /\ Goto(w, "record")
           /\ Recorded(workers[w].paper, workers[w].version)
           /\ UNCHANGED <<profile, paper, chunks, jobs, ledger, manifests, receipts, legacy, cursor, sync>>
  <2> DEFINE rec == [workers[w] EXCEPT !.pc = "record"]
  <2>1. Working(w) /\ workers[w].paper \in Papers /\ Fits(workers[w])
    BY OwnRow DEF IngestionInv, Resume, Working
  <2>2. "record" \in SharedPlaces \cup BoundPlaces
    BY DEF BoundPlaces
  <2>3. /\ Fits(rec) /\ rec.pc = "record" /\ rec.paper = workers[w].paper /\ rec.version = workers[w].version
    BY <1>2, <2>1, <2>2, PlaceFits DEF Working
  <2>4. workers' = [workers EXCEPT ![w] = rec]
    BY <1>2 DEF Goto
  <2> HIDE DEF rec
  <2>5. workers'[w] = rec
    BY <2>4 DEF IngestionInv, IngestionTypeOK, WorkersOK
  <2>6. Installing(w)'
    BY <1>2, <2>3, <2>5 DEF Installing, Recorded, LockPlaces
  <2> QED
    BY <1>2, <2>1, <2>3, <2>4, <2>6, NotLocked, HolderMoves
<1> QED
  BY <1>1, <1>2, ResumeQuiet DEF IngestionInv

LEMMA BuildKeeps ==
    ASSUME IngestionInv, NEW w \in Workers, Build(w)
    PROVE  IngestionInv'
<1>1. CASE Quiet
  BY <1>1, QuietKeeps
<1>2. CASE /\ profile = "bound" /\ ~Locked(workers[w].paper) /\ Guard(w) /\ Goto(w, "prepare")
           /\ UNCHANGED <<profile, paper, chunks, jobs, ledger, manifests, receipts, legacy, cursor, sync>>
  <2> DEFINE rec == [workers[w] EXCEPT !.pc = "prepare"]
  <2>1. Working(w) /\ workers[w].paper \in Papers /\ Fits(workers[w])
    BY OwnRow DEF IngestionInv, Build, Working
  <2>2. "prepare" \in SharedPlaces \cup BoundPlaces
    BY DEF BoundPlaces
  <2>3. Fits(rec) /\ rec.pc = "prepare" /\ rec.paper = workers[w].paper
    BY <1>2, <2>1, <2>2, PlaceFits DEF Working
  <2>4. workers' = [workers EXCEPT ![w] = rec]
    BY <1>2 DEF Goto
  <2> HIDE DEF rec
  <2>5. workers'[w] = rec
    BY <2>4 DEF IngestionInv, IngestionTypeOK, WorkersOK
  <2>6. Installing(w)'
    BY <2>3, <2>5 DEF Installing, LockPlaces
  <2> QED
    BY <1>2, <2>1, <2>3, <2>4, <2>6, NotLocked, HolderMoves
<1> QED
  BY <1>1, <1>2, BuildQuiet DEF IngestionInv

\* The manifest names what is stored, before anything is written.
LEMMA PrepareKeeps ==
    ASSUME IngestionInv, NEW w \in Workers, Prepare(w)
    PROVE  IngestionInv'
<1> DEFINE p == workers[w].paper  v == workers[w].version
           rec == [workers[w] EXCEPT !.pc = "record"]
<1>0. workers[w].pc = "prepare" /\ workers[w].pc \in LockPlaces /\ Working(w)
  BY DEF Prepare, LockPlaces, Working
<1>1. profile = "bound"
  BY <1>0, OwnRow DEF IngestionInv, IngestionTypeOK, Fits, BoundPlaces
<1>2. /\ p \in Papers /\ v \in Versions /\ Fits(workers[w])
      /\ \A x \in Workers \ {w} : Holds(x) => workers[x].paper # p
  BY <1>0, <1>1, Holder
<1>3. CASE Fail(w, "temporary")
  BY <1>0, <1>3, FailQuiet, QuietKeeps DEF IngestionInv
<1>4. ASSUME paper[p].version = v, Recorded(p, v) \/ Keys(v) \cap Stored(p) = {},
             manifests' = IF Recorded(p, v) THEN manifests ELSE Put(manifests, {<<p, v>>}, Stored(p)),
             Goto(w, "record"),
             UNCHANGED <<profile, paper, chunks, jobs, ledger, receipts, legacy, cursor, sync>>
      PROVE  IngestionInv'
  <2>1. "record" \in SharedPlaces \cup BoundPlaces
    BY DEF BoundPlaces
  <2>2. Fits(rec) /\ rec.pc = "record" /\ rec.paper = p /\ rec.version = v
    BY <1>0, <1>1, <1>2, <2>1, PlaceFits
  <2>3. workers' = [workers EXCEPT ![w] = rec]
    BY <1>4 DEF Goto
  <2> HIDE DEF rec
  <2>4. /\ WorkersOK(workers') /\ workers'[w] = rec
        /\ \A x \in Workers \ {w} : workers'[x] = workers[x]
    BY <2>2, <2>3, WorkerWritten DEF IngestionInv, IngestionTypeOK, WorkersOK
  <2>5. IngestionTypeOK'
    <3>1. WorkersOK(workers)'
      BY <1>4, <2>4 DEF WorkersOK, Fits
    <3> QED
      BY <1>4, <3>1 DEF IngestionInv, IngestionTypeOK, JobsOK
  <2>6. /\ DOMAIN manifests' = DOMAIN manifests \cup {<<p, v>>}
        /\ manifests' = [m \in DOMAIN manifests' |-> manifests'[m]]
        /\ \A m \in DOMAIN manifests : m # <<p, v>> => manifests'[m] = manifests[m]
        /\ manifests'[<<p, v>>] = IF Recorded(p, v) THEN manifests[<<p, v>>] ELSE Stored(p)
    BY <1>4 DEF Put, Recorded, IngestionInv, InstallInv, ManifestsTell
  <2>7. KeysTell'
    BY <1>4 DEF IngestionInv, InstallInv, KeysTell, Stored
  <2>8. ManifestsTell'
    <3>1. DOMAIN manifests' \subseteq Announcements
      BY <1>2, <2>6 DEF Announcements, IngestionInv, InstallInv, ManifestsTell
    <3>2. ASSUME NEW q \in Papers, NEW u \in Versions, Recorded(q, u)'
          PROVE  /\ u <= paper'[q].version
                 /\ manifests'[<<q, u>>] \in AnyKeys
                 /\ manifests'[<<q, u>>] \cap BoundKeys(u) = {}
                 /\ u = paper'[q].version => Stored(q)' \subseteq manifests'[<<q, u>>] \cup BoundKeys(u)
      <4>1. paper' = paper /\ Stored(q)' = Stored(q)
        BY <1>4 DEF Stored
      <4>2. CASE Recorded(q, u)
        <5>1. manifests'[<<q, u>>] = manifests[<<q, u>>]
          BY <2>6, <4>2 DEF Recorded
        <5> QED
          BY <4>1, <4>2, <5>1 DEF IngestionInv, InstallInv, ManifestsTell
      <4>3. CASE ~Recorded(q, u)
        <5>1. q = p /\ u = v
          BY <2>6, <3>2, <4>3 DEF Recorded
        <5>2. manifests'[<<q, u>>] = Stored(p) /\ Stored(p) \cap BoundKeys(v) = {}
          BY <1>1, <1>2, <1>4, <2>6, <4>3, <5>1, KeyFacts
        <5>3. Stored(p) \in AnyKeys
          BY <1>2 DEF IngestionInv, InstallInv, KeysTell, AnyKeys
        <5>4. v <= paper[p].version
          BY <1>2, <1>4, VersionsAreNumbers
        <5> QED
          BY <4>1, <5>1, <5>2, <5>3, <5>4
      <4> QED
        BY <4>2, <4>3
    <3> QED
      BY <1>1, <1>4, <2>6, <3>1, <3>2 DEF ManifestsTell
  <2>9. Installing(w)'
    BY <2>2, <2>4, <2>6 DEF Installing, LockPlaces, Recorded
  <2>10. ReceiptsTell'
    <3>1. receipts' \subseteq DOMAIN manifests'
      BY <1>4, <2>6 DEF IngestionInv, InstallInv, ReceiptsTell
    <3> QED
      BY <1>4, <3>1 DEF IngestionInv, InstallInv, ReceiptsTell, Stored, Whole, Exactly
  <2>11. Alone(w, p)
    <3>1. \A q \in Papers \ {p}, u \in Versions : /\ Recorded(q, u)' <=> Recorded(q, u)
                                                  /\ Recorded(q, u) => manifests'[<<q, u>>] = manifests[<<q, u>>]
      <4> SUFFICES ASSUME NEW q \in Papers \ {p}, NEW u \in Versions
                   PROVE  /\ Recorded(q, u)' <=> Recorded(q, u)
                          /\ Recorded(q, u) => manifests'[<<q, u>>] = manifests[<<q, u>>]
        OBVIOUS
      <4>1. <<q, u>> # <<p, v>>
        OBVIOUS
      <4> QED
        BY <2>6, <4>1 DEF Recorded
    <3> QED
      BY <1>1, <1>2, <1>4, <2>2, <2>4, <3>1 DEF Alone
  <2> QED
    BY <2>5, <2>7, <2>8, <2>9, <2>10, <2>11, AloneKeeps
<1> QED
  BY <1>3, <1>4 DEF Prepare, Recorded

\* The recorded manifest is the newest of its paper, and accounts for all that is stored.
LEMMA RecordKeeps ==
    ASSUME IngestionInv, NEW w \in Workers, RecordPrepared(w)
    PROVE  IngestionInv'
<1> DEFINE p == workers[w].paper  v == workers[w].version
           rec == [workers[w] EXCEPT !.pc = "write", !.todo = Keys(v), !.old = manifests[<<p, v>>]]
<1>0. workers[w].pc = "record" /\ workers[w].pc \in LockPlaces /\ Working(w)
  BY DEF RecordPrepared, LockPlaces, Working
<1>1. profile = "bound"
  BY <1>0, OwnRow DEF IngestionInv, IngestionTypeOK, Fits, BoundPlaces
<1>2. /\ p \in Papers /\ v \in Versions /\ Fits(workers[w])
      /\ \A x \in Workers \ {w} : Holds(x) => workers[x].paper # p
      /\ Recorded(p, v)
  BY <1>0, <1>1, Holder DEF Installing
<1>3. CASE Fail(w, "temporary")
  BY <1>0, <1>3, FailQuiet, QuietKeeps DEF IngestionInv
<1>4. ASSUME paper[p].version = v, workers' = [workers EXCEPT ![w] = rec],
             UNCHANGED <<profile, paper, chunks, jobs, ledger, manifests, receipts, legacy, cursor, sync>>
      PROVE  IngestionInv'
  <2>1. /\ manifests[<<p, v>>] \in AnyKeys /\ Stored(p) \subseteq manifests[<<p, v>>] \cup BoundKeys(v)
        /\ \A u \in Versions : Recorded(p, u) => u <= v
    BY <1>2, <1>4 DEF IngestionInv, InstallInv, ManifestsTell
  <2>2. Keys(v) \in AnyKeys /\ Keys(v) = BoundKeys(v)
    BY <1>1, <1>2, KeyFacts DEF AnyKeys
  <2>3. /\ rec \in WorkerRecord /\ rec.pc = "write" /\ rec.paper = p /\ rec.version = v
        /\ rec.todo = Keys(v) /\ rec.old = manifests[<<p, v>>]
    BY <1>2, <2>1, <2>2 DEF Fits, WorkerRecord, BoundPlaces
  <2> HIDE DEF rec
  <2>4. Fits(rec)
    BY <1>1, <1>2, <2>3 DEF Fits, LegacyPlaces
  <2>5. workers'[w] = rec
    BY <1>4 DEF IngestionInv, IngestionTypeOK, WorkersOK
  <2>6. Installing(w)'
    BY <1>2, <1>4, <2>1, <2>2, <2>3, <2>5 DEF Installing, Recorded, Stored
  <2> QED
    BY <1>1, <1>2, <1>4, <2>3, <2>4, <2>6, HolderMoves
<1> QED
  BY <1>3, <1>4 DEF RecordPrepared

LEMMA SendKeeps ==
    ASSUME IngestionInv, NEW w \in Workers, SendWrite(w)
    PROVE  IngestionInv'
<1> DEFINE rec == [workers[w] EXCEPT !.pc = "rpc"]
<1>0. workers[w].pc = "write" /\ workers[w].pc \in LockPlaces /\ Working(w)
  BY DEF SendWrite, LockPlaces, Working
<1>1. profile = "bound"
  BY <1>0, OwnRow DEF IngestionInv, IngestionTypeOK, Fits, BoundPlaces
<1>2. /\ workers[w].paper \in Papers /\ Fits(workers[w]) /\ Installing(w)
      /\ \A x \in Workers \ {w} : Holds(x) => workers[x].paper # workers[w].paper
  BY <1>0, <1>1, Holder
<1>3. "rpc" \in SharedPlaces \cup BoundPlaces
  BY DEF BoundPlaces
<1>4. /\ Fits(rec) /\ rec.pc = "rpc" /\ rec.paper = workers[w].paper /\ rec.version = workers[w].version
      /\ rec.old = workers[w].old /\ rec.todo = workers[w].todo
  BY <1>0, <1>1, <1>2, <1>3, PlaceFits
<1>5. workers' = [workers EXCEPT ![w] = rec]
  BY DEF SendWrite, Goto
<1> HIDE DEF rec
<1>6. workers'[w] = rec
  BY <1>5 DEF IngestionInv, IngestionTypeOK, WorkersOK
<1>7. UNCHANGED <<profile, paper, chunks, jobs, ledger, manifests, receipts, legacy, cursor, sync>>
  BY DEF SendWrite
<1>8. Installing(w)'
  BY <1>0, <1>2, <1>4, <1>6, <1>7 DEF Installing, Recorded, Stored, LockPlaces
<1> QED
  BY <1>1, <1>2, <1>4, <1>5, <1>7, <1>8, HolderMoves

\* Whoever installs a version that is stored as the current one has the current manifest.
LEMMA NewestIsOwn ==
    ASSUME IngestionInv, NEW w \in Workers, workers[w].pc \in LockPlaces \ {"prepare", "record"}, profile = "bound"
    PROVE  LET p == workers[w].paper  v == workers[w].version IN
           /\ Recorded(p, v) /\ v \in Versions
           /\ Recorded(p, paper[p].version) => paper[p].version = v
           /\ workers[w].old \cap BoundKeys(v) = {}
           /\ Stored(p) \subseteq workers[w].old \cup BoundKeys(v)
<1> DEFINE p == workers[w].paper  v == workers[w].version
<1>1. p \in Papers /\ v \in Versions /\ Installing(w)
  BY Holder
<1>2. Recorded(p, v) /\ v <= paper[p].version /\ paper[p].version \in Numbers
      /\ manifests[<<p, v>>] \cap BoundKeys(v) = {}
  BY <1>1 DEF Installing, IngestionInv, InstallInv, ManifestsTell, IngestionTypeOK
<1>3. paper[p].version \in Versions
  BY <1>1, <1>2, VersionsAreNumbers DEF Numbers
<1>4. Recorded(p, paper[p].version) => paper[p].version <= v
  BY <1>1, <1>3 DEF Installing
<1>5. paper[p].version \in Nat /\ v \in Nat
  BY <1>1, <1>3, VersionsAreNumbers
<1> QED
  BY <1>1, <1>2, <1>4, <1>5 DEF Installing

\* A step of the holder that writes to the store of its paper.
LEMMA HolderWrites ==
    ASSUME IngestionInv, NEW w \in Workers, workers[w].pc \in LockPlaces \ {"prepare", "record"}, profile = "bound",
           NEW p, p = workers[w].paper, NEW v, v = workers[w].version,
           NEW rec, Fits(rec), rec.paper = p, workers' = [workers EXCEPT ![w] = rec],
           UNCHANGED <<profile, paper, jobs, ledger, manifests, receipts, legacy, cursor, sync>>,
           \A q \in Papers \ {p} : chunks'[q] = chunks[q],
           KeysTell', Stored(p)' \subseteq Stored(p) \cup BoundKeys(v),
           \A u \in Versions : Whole(p, u) => Whole(p, u)' \/ Whole(p, v)',
           Exactly(p, v) => Exactly(p, v)',
           Installing(w)'
    PROVE  IngestionInv'
<1>1. /\ WorkersOK(workers') /\ workers'[w] = rec
      /\ \A x \in Workers \ {w} : workers'[x] = workers[x]
  BY WorkerWritten DEF IngestionInv, IngestionTypeOK, WorkersOK
<1>2. IngestionTypeOK'
  <2>1. WorkersOK(workers)'
    BY <1>1 DEF WorkersOK, Fits
  <2> QED
    BY <2>1 DEF IngestionInv, IngestionTypeOK, JobsOK
<1>3. p \in Papers /\ \A x \in Workers \ {w} : Holds(x) => workers[x].paper # p
  BY Holder
<1>4. Alone(w, p)
  BY <1>1, <1>3 DEF Alone, Recorded
<1>5. v \in Versions /\ (Recorded(p, paper[p].version) => paper[p].version = v)
  BY NewestIsOwn
<1>6. ManifestsTell'
  <2>1. ASSUME NEW q \in Papers, NEW u \in Versions, Recorded(q, u), u = paper[q].version
        PROVE  Stored(q)' \subseteq manifests[<<q, u>>] \cup BoundKeys(u)
    <3>1. Stored(q) \subseteq manifests[<<q, u>>] \cup BoundKeys(u)
      BY <2>1 DEF IngestionInv, InstallInv, ManifestsTell
    <3>2. CASE q = p
      <4>1. u = v
        BY <1>5, <2>1, <3>2
      <4> QED
        BY <3>1, <3>2, <4>1
    <3>3. CASE q # p
      BY <3>1, <3>3 DEF Stored
    <3> QED
      BY <3>2, <3>3
  <2> QED
    BY <2>1 DEF IngestionInv, InstallInv, ManifestsTell, Recorded
<1>7. ReceiptsTell'
  <2>1. receipts' \subseteq DOMAIN manifests'
    BY DEF IngestionInv, InstallInv, ReceiptsTell
  <2>2. ASSUME NEW q \in Papers, <<q, paper[q].version>> \in receipts
        PROVE  Exactly(q, paper[q].version)'
    <3>1. Exactly(q, paper[q].version) /\ Recorded(q, paper[q].version)
      BY <2>2 DEF IngestionInv, InstallInv, ReceiptsTell, Recorded
    <3>2. CASE q = p
      <4>1. paper[q].version = v
        BY <1>5, <3>1, <3>2
      <4> QED
        BY <3>1, <3>2, <4>1 DEF Exactly
    <3>3. CASE q # p
      BY <3>1, <3>3 DEF Exactly, Stored
    <3> QED
      BY <3>2, <3>3
  <2>3. ASSUME NEW q \in Papers, \E u \in Versions : <<q, u>> \in receipts
        PROVE  \E u \in Versions : Whole(q, u)'
    <3>1. PICK u \in Versions : Whole(q, u)
      BY <2>3 DEF IngestionInv, InstallInv, ReceiptsTell
    <3>2. CASE q = p
      BY <1>5, <3>1, <3>2
    <3>3. CASE q # p
      BY <3>1, <3>3 DEF Whole, Stored
    <3> QED
      BY <3>2, <3>3
  <2> QED
    BY <2>1, <2>2, <2>3 DEF ReceiptsTell, Whole, Exactly, Stored
<1> QED
  BY <1>2, <1>4, <1>6, <1>7, AloneKeeps

\* A chunk that lands has the key of its version.
LEMMA LandKeeps ==
    ASSUME IngestionInv, NEW w \in Workers, LandWrite(w)
    PROVE  IngestionInv'
<1>0. workers[w].pc = "rpc" /\ workers[w].pc \in LockPlaces \ {"prepare", "record"} /\ Working(w)
  BY DEF LandWrite, LockPlaces, Working
<1>1. profile = "bound"
  BY <1>0, OwnRow DEF IngestionInv, IngestionTypeOK, Fits, BoundPlaces
<1>2. PICK p \in Papers, v \in Versions : p = workers[w].paper /\ v = workers[w].version
  BY <1>0, <1>1, Holder
<1>3. Fits(workers[w]) /\ Installing(w) /\ workers[w].todo \subseteq BoundKeys(v)
  BY <1>0, <1>1, <1>2, Holder DEF Installing
<1>4. PICK k \in workers[w].todo :
        /\ chunks' = [chunks EXCEPT ![p] = Put(chunks[p], {k}, v)]
        /\ workers' = [workers EXCEPT ![w] = [workers[w] EXCEPT !.todo = workers[w].todo \ {k},
                                                !.pc = IF workers[w].todo = {k} THEN "verify" ELSE "write"]]
  BY <1>2 DEF LandWrite
<1> DEFINE rec == [workers[w] EXCEPT !.todo = workers[w].todo \ {k},
                                     !.pc = IF workers[w].todo = {k} THEN "verify" ELSE "write"]
<1>5. /\ rec \in WorkerRecord /\ rec.pc \in {"verify", "write"} /\ rec.paper = p /\ rec.version = v
      /\ rec.todo \subseteq BoundKeys(v) /\ rec.old = workers[w].old
  <2>1. workers[w] \in WorkerRecord /\ workers[w].todo \ {k} \in AnyKeys
    BY <1>3 DEF Fits, WorkerRecord, AnyKeys
  <2>2. (IF workers[w].todo = {k} THEN "verify" ELSE "write") \in {"verify", "write"}
    OBVIOUS
  <2> QED
    BY <1>2, <1>3, <2>1, <2>2 DEF WorkerRecord, BoundPlaces
<1>6. workers' = [workers EXCEPT ![w] = rec]
  BY <1>4
<1> HIDE DEF rec
<1>7. workers'[w] = rec
  BY <1>6 DEF IngestionInv, IngestionTypeOK, WorkersOK
<1>8. Fits(rec)
  BY <1>1, <1>2, <1>5 DEF Fits, LegacyPlaces
<1>9. k \in BoundKeys(v) /\ k[1] = v /\ {k} \subseteq Nat \X Nat
  BY <1>3, <1>4, KeyFacts
<1>10. UNCHANGED <<profile, paper, jobs, ledger, manifests, receipts, legacy, cursor, sync>>
  BY DEF LandWrite
<1>11. /\ KeysTell' /\ Stored(p)' = Stored(p) \cup {k}
       /\ \A q \in Papers \ {p} : chunks'[q] = chunks[q]
  <2>1. KeysTell /\ profile' = profile
    BY <1>10 DEF IngestionInv, InstallInv
  <2>2. PICK ks : ks = {k}
    OBVIOUS
  <2>3. /\ ks \subseteq Nat \X Nat /\ \A j \in ks : j[1] # 0 => v = j[1]
        /\ profile # "bound" => \A j \in ks : j[1] = 0
        /\ chunks' = [chunks EXCEPT ![p] = Put(chunks[p], ks, v)]
    BY <1>1, <1>4, <1>9, <2>2
  <2>4. /\ KeysTell' /\ Stored(p)' = Stored(p) \cup ks
        /\ \A q \in Papers \ {p} : chunks'[q] = chunks[q]
    BY <2>1, <2>3, StoreWritten
  <2> QED
    BY <2>2, <2>4
<1>12. /\ Stored(p)' \subseteq Stored(p) \cup BoundKeys(v)
       /\ \A u \in Versions : Whole(p, u) => Whole(p, u)'
       /\ Exactly(p, v) => Exactly(p, v)'
  BY <1>9, <1>11 DEF Whole, Exactly, BoundKeys
<1>13. Installing(w)'
  <2>1. /\ Recorded(p, v) /\ workers[w].old = manifests[<<p, v>>]
        /\ \A u \in Versions : Recorded(p, u) => u <= v
        /\ Stored(p) \subseteq workers[w].old \cup BoundKeys(v)
    BY <1>0, <1>2, <1>3 DEF Installing
  <2>2. workers'[w].paper = p /\ workers'[w].version = v
    BY <1>5, <1>7
  <2>3. Stored(p)' \subseteq workers'[w].old \cup BoundKeys(v)
    BY <1>5, <1>7, <1>12, <2>1
  <2> QED
    BY <1>5, <1>7, <1>10, <2>1, <2>2, <2>3 DEF Installing, Recorded, Stored, LockPlaces, BoundKeys
<1> QED
  BY <1>0, <1>1, <1>2, <1>5, <1>6, <1>8, <1>10, <1>11, <1>12, <1>13, HolderWrites

\* All of the new version has been read back before an old chunk goes.
LEMMA VerifyKeeps ==
    ASSUME IngestionInv, NEW w \in Workers, Verify(w)
    PROVE  IngestionInv'
<1> DEFINE rec == [workers[w] EXCEPT !.pc = "clean", !.todo = workers[w].old]
<1>0. workers[w].pc = "verify" /\ workers[w].pc \in LockPlaces \ {"prepare", "record"} /\ Working(w)
  BY DEF Verify, LockPlaces, Working
<1>1. profile = "bound"
  BY <1>0, OwnRow DEF IngestionInv, IngestionTypeOK, Fits, BoundPlaces
<1>2. PICK p \in Papers, v \in Versions : p = workers[w].paper /\ v = workers[w].version
  BY <1>0, <1>1, Holder
<1>3. /\ Fits(workers[w]) /\ Installing(w)
      /\ \A x \in Workers \ {w} : Holds(x) => workers[x].paper # workers[w].paper
  BY <1>0, <1>1, Holder
<1>4. CASE Fail(w, "temporary")
  BY <1>0, <1>4, FailQuiet, QuietKeeps DEF IngestionInv
<1>5. ASSUME \A k \in Keys(v) : k \in Stored(p) /\ chunks[p][k] = v, workers' = [workers EXCEPT ![w] = rec],
             UNCHANGED <<profile, paper, chunks, jobs, ledger, manifests, receipts, legacy, cursor, sync>>
      PROVE  IngestionInv'
  <2>1. Whole(p, v)
    BY <1>1, <1>5, KeyFacts DEF Whole
  <2>2. /\ rec \in WorkerRecord /\ rec.pc = "clean" /\ rec.paper = p /\ rec.version = v
        /\ rec.todo = workers[w].old /\ rec.old = workers[w].old
    BY <1>2, <1>3 DEF Fits, WorkerRecord, BoundPlaces
  <2> HIDE DEF rec
  <2>3. Fits(rec)
    BY <1>1, <1>2, <2>2 DEF Fits, LegacyPlaces
  <2>4. workers'[w] = rec
    BY <1>5 DEF IngestionInv, IngestionTypeOK, WorkersOK
  <2>5. Installing(w)'
    <3>1. /\ Recorded(p, v) /\ workers[w].old = manifests[<<p, v>>]
          /\ \A u \in Versions : Recorded(p, u) => u <= v
          /\ Stored(p) \subseteq workers[w].old \cup BoundKeys(v)
      BY <1>0, <1>2, <1>3 DEF Installing
    <3> QED
      BY <1>5, <2>1, <2>2, <2>4, <3>1 DEF Installing, Recorded, Stored, Whole, LockPlaces
  <2> QED
    BY <1>1, <1>2, <1>3, <1>5, <2>2, <2>3, <2>5, HolderMoves
<1> QED
  BY <1>2, <1>4, <1>5 DEF Verify

\* What is deleted is nothing of the new version.
LEMMA CleanKeeps ==
    ASSUME IngestionInv, NEW w \in Workers, Clean(w)
    PROVE  IngestionInv'
<1>0. workers[w].pc = "clean" /\ workers[w].pc \in LockPlaces \ {"prepare", "record"} /\ Working(w)
  BY DEF Clean, LockPlaces, Working
<1>1. profile = "bound"
  BY <1>0, OwnRow DEF IngestionInv, IngestionTypeOK, Fits, BoundPlaces
<1>2. PICK p \in Papers, v \in Versions : p = workers[w].paper /\ v = workers[w].version
  BY <1>0, <1>1, Holder
<1>3. /\ Fits(workers[w]) /\ workers[w] \in WorkerRecord
      /\ \A x \in Workers \ {w} : Holds(x) => workers[x].paper # workers[w].paper
  BY <1>0, <1>1, Holder DEF Fits
<1>4. /\ Recorded(p, v) /\ workers[w].old = manifests[<<p, v>>]
      /\ \A u \in Versions : Recorded(p, u) => u <= v
      /\ Whole(p, v) /\ workers[w].todo \subseteq workers[w].old
      /\ Stored(p) \subseteq workers[w].todo \cup BoundKeys(v)
      /\ workers[w].old \cap BoundKeys(v) = {}
  BY <1>0, <1>1, <1>2, Holder, NewestIsOwn DEF Installing
<1>5. CASE Fail(w, "temporary")
  BY <1>0, <1>5, FailQuiet, QuietKeeps DEF IngestionInv
<1>6. ASSUME workers[w].todo = {}, Goto(w, "flag"),
             UNCHANGED <<profile, paper, chunks, jobs, ledger, manifests, receipts, legacy, cursor, sync>>
      PROVE  IngestionInv'
  <2> DEFINE rec == [workers[w] EXCEPT !.pc = "flag"]
  <2>1. "flag" \in SharedPlaces \cup BoundPlaces
    BY DEF SharedPlaces
  <2>2. Fits(rec) /\ rec.pc = "flag" /\ rec.paper = p /\ rec.version = v /\ rec.old = workers[w].old
    BY <1>0, <1>1, <1>2, <1>3, <2>1, PlaceFits
  <2>3. workers' = [workers EXCEPT ![w] = rec]
    BY <1>6 DEF Goto
  <2> HIDE DEF rec
  <2>4. workers'[w] = rec
    BY <2>3 DEF IngestionInv, IngestionTypeOK, WorkersOK
  <2>5. Exactly(p, v)
    BY <1>4, <1>6 DEF Exactly, Whole
  <2>6. Installing(w)'
    BY <1>4, <1>6, <2>2, <2>4, <2>5 DEF Installing, Recorded, Stored, Exactly, LockPlaces
  <2> QED
    BY <1>1, <1>2, <1>3, <1>6, <2>2, <2>3, <2>6, HolderMoves
<1>7. ASSUME NEW k \in workers[w].todo, chunks' = [chunks EXCEPT ![p] = Without(chunks[p], {k})],
             workers' = [workers EXCEPT ![w] = [workers[w] EXCEPT !.todo = workers[w].todo \ {k}]],
             UNCHANGED <<profile, paper, jobs, ledger, manifests, receipts, legacy, cursor, sync>>
      PROVE  IngestionInv'
  <2> DEFINE rec == [workers[w] EXCEPT !.todo = workers[w].todo \ {k}]
  <2>1. /\ rec \in WorkerRecord /\ rec.pc = "clean" /\ rec.paper = p /\ rec.version = v
        /\ rec.todo = workers[w].todo \ {k} /\ rec.old = workers[w].old
    <3>1. workers[w].todo \ {k} \in AnyKeys
      BY <1>3 DEF WorkerRecord, AnyKeys
    <3> QED
      BY <1>0, <1>2, <1>3, <3>1 DEF WorkerRecord
  <2>2. workers' = [workers EXCEPT ![w] = rec]
    BY <1>7
  <2> HIDE DEF rec
  <2>3. workers'[w] = rec
    BY <2>2 DEF IngestionInv, IngestionTypeOK, WorkersOK
  <2>4. Fits(rec)
    BY <1>1, <1>2, <2>1 DEF Fits, LegacyPlaces
  <2>5. /\ KeysTell' /\ Stored(p)' = Stored(p) \ {k}
        /\ \A q \in Papers \ {p} : chunks'[q] = chunks[q]
    BY <1>7, StoreCleared DEF IngestionInv, InstallInv
  <2>6. k \notin BoundKeys(v)
    BY <1>4, <1>7
  <2>7. /\ Stored(p)' \subseteq Stored(p) \cup BoundKeys(v)
        /\ Whole(p, v)' /\ (Exactly(p, v) => Exactly(p, v)')
    BY <1>4, <2>5, <2>6 DEF Whole, Exactly, BoundKeys
  <2>8. Installing(w)'
    <3>1. Stored(p)' \subseteq workers'[w].todo \cup BoundKeys(v)
      BY <1>4, <2>1, <2>3, <2>5
    <3>2. Stored(p)' \subseteq workers'[w].old \cup BoundKeys(v)
      BY <1>4, <2>1, <2>3, <2>5
    <3>3. workers'[w].todo \subseteq workers'[w].old
      BY <1>4, <2>1, <2>3
    <3>4. workers'[w].pc = "clean" /\ workers'[w].paper = p /\ workers'[w].version = v
      BY <2>1, <2>3
    <3>5. Recorded(p, v)' /\ workers'[w].old = manifests'[<<p, v>>] /\ \A u \in Versions : Recorded(p, u)' => u <= v
      BY <1>4, <1>7, <2>1, <2>3 DEF Recorded
    <3> QED
      BY <2>7, <3>1, <3>2, <3>3, <3>4, <3>5 DEF Installing, Recorded, LockPlaces, Whole, Stored
  <2> QED
    BY <1>0, <1>1, <1>2, <1>7, <2>1, <2>2, <2>4, <2>5, <2>7, <2>8, HolderWrites
<1> QED
  BY <1>2, <1>5, <1>6, <1>7 DEF Clean

\* The flag says nothing of the version.
LEMMA FlagKeeps ==
    ASSUME IngestionInv, NEW w \in Workers, SetFlag(w)
    PROVE  IngestionInv'
<1>0. workers[w].pc = "flag" /\ workers[w].pc \in LockPlaces /\ Working(w)
  BY DEF SetFlag, LockPlaces, Working
<1>1. workers[w].paper \in Papers /\ workers[w].version \in Versions /\ Fits(workers[w]) /\ profile \in {"full", "bound"}
  BY <1>0, OwnRow DEF IngestionInv, IngestionTypeOK
<1>2. CASE Fail(w, "temporary")
  BY <1>0, <1>2, FailQuiet, QuietKeeps DEF IngestionInv
<1>3. ASSUME paper' = [paper EXCEPT ![workers[w].paper] = [@ EXCEPT !.text = TRUE]],
             Goto(w, IF profile = "bound" THEN "receipt" ELSE "complete"),
             UNCHANGED <<profile, chunks, jobs, ledger, manifests, receipts, legacy, cursor, sync>>
      PROVE  IngestionInv'
  <2>1. /\ paper' \in [Papers -> [version : Numbers, text : BOOLEAN]]
        /\ \A q \in Papers : paper'[q].version = paper[q].version
    BY <1>1, <1>3 DEF IngestionInv, IngestionTypeOK
  <2> DEFINE pc == IF profile = "bound" THEN "receipt" ELSE "complete"
             rec == [workers[w] EXCEPT !.pc = pc]
  <2>2. /\ pc # "idle" /\ (profile = "bound" => pc = "receipt") /\ (profile = "full" => pc = "complete")
        /\ (pc \in SharedPlaces \/ (profile = "bound" /\ pc \in BoundPlaces))
    BY <1>1 DEF SharedPlaces, BoundPlaces
  <2>3. Goto(w, pc)
    BY <1>3
  <2> HIDE DEF pc
  <2>4. WorkersOK(workers') /\ workers'[w] = rec /\ \A x \in Workers \ {w} : workers'[x] = workers[x]
    BY <1>0, <2>2, <2>3, GotoStep DEF IngestionInv
  <2>5. IngestionTypeOK'
    <3>1. WorkersOK(workers)'
      BY <1>3, <2>4 DEF WorkersOK, Fits
    <3> QED
      BY <1>3, <2>1, <3>1 DEF IngestionInv, IngestionTypeOK, JobsOK
  <2>6. rec.pc = pc /\ rec.paper = workers[w].paper /\ rec.version = workers[w].version /\ rec.old = workers[w].old
    BY <1>1 DEF Fits, WorkerRecord
  <2> HIDE DEF rec
  <2>7. CASE profile = "full"
    <3>1. NothingForgotten
      BY <1>3, <2>1, TableNumbers, JobsSame DEF NothingForgotten, IngestionInv
    <3>2. StoreUntouched
      BY <1>3, <2>1, <2>7 DEF StoreUntouched
    <3> QED
      BY <2>5, <3>1, <3>2, QuietKeeps DEF Quiet
  <2>8. CASE profile = "bound"
    <3>1. PICK p \in Papers, v \in Versions : p = workers[w].paper /\ v = workers[w].version
      BY <1>1
    <3>2. Installing(w) /\ \A x \in Workers \ {w} : Holds(x) => workers[x].paper # p
      BY <1>0, <2>8, <3>1, Holder
    <3>3. Alone(w, p)
      BY <1>3, <2>1, <2>4, <2>6, <2>8, <3>1, <3>2 DEF Alone, Recorded
    <3>4. KeysTell'
      BY <1>3 DEF IngestionInv, InstallInv, KeysTell, Stored
    <3>5. ManifestsTell'
      BY <1>3, <2>1 DEF IngestionInv, InstallInv, ManifestsTell, Stored, Recorded
    <3>6. ReceiptsTell'
      BY <1>3, <2>1 DEF IngestionInv, InstallInv, ReceiptsTell, Stored, Whole, Exactly
    <3>7. Installing(w)'
      <4>1. /\ Recorded(p, v) /\ workers[w].old = manifests[<<p, v>>]
            /\ \A u \in Versions : Recorded(p, u) => u <= v
            /\ Stored(p) \subseteq workers[w].old \cup BoundKeys(v) /\ Exactly(p, v)
        BY <1>0, <3>1, <3>2 DEF Installing
      <4>2. workers'[w].pc = "receipt"
        BY <2>2, <2>4, <2>6, <2>8
      <4> QED
        BY <1>3, <2>4, <2>6, <3>1, <4>1, <4>2 DEF Installing, Recorded, Stored, Exactly, LockPlaces
    <3> QED
      BY <2>5, <3>3, <3>4, <3>5, <3>6, <3>7, AloneKeeps
  <2> QED
    BY <1>1, <2>7, <2>8
<1> QED
  BY <1>2, <1>3 DEF SetFlag

\* A receipt is written of what is stored, by the one who stored it.
LEMMA ReceiptKeeps ==
    ASSUME IngestionInv, NEW w \in Workers, WriteReceipt(w)
    PROVE  IngestionInv'
<1> DEFINE rec == [workers[w] EXCEPT !.pc = "complete"]
<1>0. workers[w].pc = "receipt" /\ workers[w].pc \in LockPlaces \ {"prepare", "record"} /\ Working(w)
  BY DEF WriteReceipt, LockPlaces, Working
<1>1. profile = "bound"
  BY <1>0, OwnRow DEF IngestionInv, IngestionTypeOK, Fits, BoundPlaces
<1>2. PICK p \in Papers, v \in Versions : p = workers[w].paper /\ v = workers[w].version
  BY <1>0, <1>1, Holder
<1>3. /\ Fits(workers[w]) /\ Installing(w)
      /\ \A x \in Workers \ {w} : Holds(x) => workers[x].paper # p
  BY <1>0, <1>1, <1>2, Holder
<1>4. /\ receipts' = receipts \cup {<<p, v>>} /\ Goto(w, "complete")
      /\ UNCHANGED <<profile, paper, chunks, jobs, ledger, manifests, legacy, cursor, sync>>
  BY <1>2 DEF WriteReceipt
<1>5. WorkersOK(workers') /\ workers'[w] = rec /\ \A x \in Workers \ {w} : workers'[x] = workers[x]
  <2>1. "complete" \in SharedPlaces /\ "complete" # "idle"
    BY DEF SharedPlaces
  <2> QED
    BY <1>0, <1>4, <2>1, GotoStep DEF IngestionInv
<1>6. rec.pc = "complete" /\ rec.paper = p
  BY <1>2, <1>3 DEF Fits, WorkerRecord
<1> HIDE DEF rec
<1>7. IngestionTypeOK'
  <2>1. WorkersOK(workers)'
    BY <1>4, <1>5 DEF WorkersOK, Fits
  <2> QED
    BY <1>4, <2>1 DEF IngestionInv, IngestionTypeOK, JobsOK
<1>8. Alone(w, p)
  BY <1>1, <1>2, <1>3, <1>4, <1>5, <1>6 DEF Alone, Recorded
<1>9. KeysTell'
  BY <1>4 DEF IngestionInv, InstallInv, KeysTell, Stored
<1>10. ManifestsTell'
  BY <1>4 DEF IngestionInv, InstallInv, ManifestsTell, Stored, Recorded
<1>11. ~Holds(w)'
  BY <1>5, <1>6 DEF Holds, LockPlaces
<1>12. ReceiptsTell'
  <2>1. Recorded(p, v) /\ Exactly(p, v) /\ Whole(p, v)
    BY <1>0, <1>2, <1>3 DEF Installing, Exactly, Whole
  <2>2. receipts' \subseteq DOMAIN manifests'
    BY <1>4, <2>1 DEF IngestionInv, InstallInv, ReceiptsTell, Recorded
  <2>3. ASSUME NEW q \in Papers, <<q, paper[q].version>> \in receipts'
        PROVE  Exactly(q, paper[q].version)
    <3>1. CASE <<q, paper[q].version>> \in receipts
      BY <3>1 DEF IngestionInv, InstallInv, ReceiptsTell
    <3>2. CASE <<q, paper[q].version>> = <<p, v>>
      BY <2>1, <3>2
    <3> QED
      BY <1>4, <2>3, <3>1, <3>2
  <2>4. ASSUME NEW q \in Papers, NEW u \in Versions, <<q, u>> \in receipts'
        PROVE  \E t \in Versions : Whole(q, t)
    <3>1. CASE <<q, u>> \in receipts
      BY <3>1 DEF IngestionInv, InstallInv, ReceiptsTell
    <3>2. CASE <<q, u>> = <<p, v>>
      BY <2>1, <3>2
    <3> QED
      BY <1>4, <2>4, <3>1, <3>2
  <2> QED
    BY <1>4, <2>2, <2>3, <2>4 DEF ReceiptsTell, Exactly, Whole, Stored
<1> QED
  BY <1>7, <1>8, <1>9, <1>10, <1>11, <1>12, AloneKeeps

\* The legacy installation writes legacy keys, and no manifest or receipt.
LEMMA LegacyWrites ==
    ASSUME IngestionInv, profile = "full", NEW w \in Workers, Working(w), NEW pc \in {"delete", "flag"}, Goto(w, pc), KeysTell',
           UNCHANGED <<profile, paper, jobs, ledger, manifests, receipts, legacy, cursor, sync>>
    PROVE  IngestionInv'
<1>1. pc # "idle" /\ (pc \in SharedPlaces \/ (profile = "full" /\ pc \in LegacyPlaces))
  BY DEF SharedPlaces, LegacyPlaces
<1>2. WorkersOK(workers')
  BY <1>1, GotoStep DEF IngestionInv
<1>3. IngestionTypeOK'
  <2>1. WorkersOK(workers)'
    BY <1>2 DEF WorkersOK, Fits
  <2> QED
    BY <2>1 DEF IngestionInv, IngestionTypeOK, JobsOK
<1>4. NothingForgotten
  BY TableNumbers, JobsSame DEF NothingForgotten, IngestionInv
<1>5. DOMAIN manifests = {} /\ receipts = {}
  BY DEF IngestionInv, InstallInv, ManifestsTell, ReceiptsTell
<1>6. ManifestsTell' /\ ReceiptsTell'
  BY <1>5 DEF IngestionInv, InstallInv, ManifestsTell, ReceiptsTell, Recorded
<1>7. OneHolds' /\ \A x \in Workers : Holds(x)' => Installing(x)'
  BY DEF OneHolds, Holds
<1> QED
  BY <1>3, <1>4, <1>6, <1>7, CursorKept DEF IngestionInv, InstallInv

LEMMA UpsertKeeps ==
    ASSUME IngestionInv, NEW w \in Workers, UpsertChunks(w)
    PROVE  IngestionInv'
<1>1. Working(w) /\ profile = "full"
  BY OwnRow DEF UpsertChunks, Working, Fits, LegacyPlaces, IngestionInv, IngestionTypeOK
<1>2. PICK p \in Papers, v \in Versions : p = workers[w].paper /\ v = workers[w].version
  BY <1>1, OwnRow DEF IngestionInv
<1>3. /\ chunks' = [chunks EXCEPT ![p] = Put(chunks[p], Keys(v), v)] /\ Goto(w, "delete")
      /\ UNCHANGED <<profile, paper, jobs, ledger, manifests, receipts, legacy, cursor, sync>>
  BY <1>2 DEF UpsertChunks
<1>4. Keys(v) \subseteq Nat \X Nat /\ \A k \in Keys(v) : k[1] = 0
  BY <1>1, KeyFacts
<1>5. KeysTell'
  BY <1>1, <1>3, <1>4, StoreWritten DEF IngestionInv, InstallInv
<1> QED
  BY <1>1, <1>3, <1>5, LegacyWrites

LEMMA StaleKeeps ==
    ASSUME IngestionInv, NEW w \in Workers, DeleteStale(w)
    PROVE  IngestionInv'
<1>1. Working(w) /\ profile = "full"
  BY OwnRow DEF DeleteStale, Working, Fits, LegacyPlaces, IngestionInv, IngestionTypeOK
<1>2. PICK p, ks : p \in Papers /\ p = workers[w].paper /\ ks = workers[w].old \ Keys(workers[w].version)
  BY <1>1, OwnRow DEF IngestionInv
<1>3. /\ chunks' = [chunks EXCEPT ![p] = Without(chunks[p], ks)] /\ Goto(w, "flag")
      /\ UNCHANGED <<profile, paper, jobs, ledger, manifests, receipts, legacy, cursor, sync>>
  BY <1>2 DEF DeleteStale
<1>4. KeysTell'
  BY <1>2, <1>3, StoreCleared DEF IngestionInv, InstallInv
<1> QED
  BY <1>1, <1>3, <1>4, LegacyWrites

-----------------------------------------------------------------------------
(* The synchronisation.                                                    *)

LEMMA SyncTypes ==
    ASSUME IngestionTypeOK, profile' = profile, legacy' = legacy, workers' = workers, JobsOK(jobs'), ledger' \in [Papers -> Numbers],
           paper' \in [Papers -> [version : Numbers, text : BOOLEAN]], cursor' \in Nat, sync' \in SyncRecord
    PROVE  IngestionTypeOK'
<1>1. WorkersOK(workers)'
  BY DEF IngestionTypeOK, WorkersOK, Fits
<1> QED
  BY <1>1 DEF IngestionTypeOK, JobsOK

\* Where the cursor stays, what it has passed stays covered.
LEMMA PassedStays ==
    ASSUME IngestionTypeOK, IngestionTypeOK', CursorCovers, Remembers, cursor' = cursor
    PROVE  CursorCovers'
<1>1. \A e \in AnnouncedBy(cursor) : Covered(e[1], e[2])'
  BY CoveredStays, CursorMeansCovered, AnnouncementsOfDays
<1> QED
  BY <1>1 DEF CursorCovers, Covered, Remembered

\* A step of the synchronisation that leaves the stored metadata alone.
LEMMA SyncKeeps ==
    ASSUME IngestionInv, IngestionTypeOK', Remembers, UNCHANGED <<profile, chunks, manifests, receipts, workers>>,
           \A p \in Papers : paper'[p].version = paper[p].version, SyncIsSound', CursorCovers'
    PROVE  IngestionInv'
<1>1. RowsBeginEmpty'
  BY DEF IngestionInv, CursorInv, RowsBeginEmpty, Remembers, JobsKept
<1>2. InstallInv'
  BY InstallKept DEF StoreUntouched, IngestionInv
<1> QED
  BY <1>1, <1>2 DEF IngestionInv, CursorInv

LEMMA AllRemembered ==
    ASSUME IngestionTypeOK, IngestionTypeOK', UNCHANGED <<profile, paper, jobs, ledger, legacy>>
    PROVE  Remembers /\ \A p \in Papers : paper'[p].version = paper[p].version
<1>1. \A p \in Papers : paper[p].version \in Nat /\ ledger[p] \in Nat
  BY TableNumbers
<1>2. JobsKept(jobs, jobs')
  BY JobsSame
<1> QED
  BY <1>1, <1>2 DEF Remembers

\* A run that is over owes nothing; one that begins a day has all of it before it.
LEMMA RunOver ==
    ASSUME cursor' \in 0..Len(Pages), NEW pc \in {"idle", "reconcile"}, sync' = [NoSync EXCEPT !.pc = pc]
    PROVE  sync' \in SyncRecord /\ SyncIsSound'
<1>1. /\ sync' \in SyncRecord /\ sync'.pc = pc /\ sync'.owed = {}
  BY DEF NoSync, SyncRecord
<1> QED
  BY <1>1 DEF SyncIsSound

LEMMA DayBegins ==
    ASSUME cursor' \in 0..Len(Pages), NEW d \in Days, d = cursor' + 1, sync' = [NoSync EXCEPT !.pc = "fetch", !.day = d]
    PROVE  sync' \in SyncRecord /\ SyncIsSound'
<1>1. d \in Nat
  BY DaysAreNumbers
<1>2. /\ sync' \in SyncRecord /\ sync'.pc = "fetch" /\ sync'.owed = {} /\ sync'.day = d /\ sync'.page = 0
      /\ sync'.got = {}
  BY <1>1 DEF NoSync, SyncRecord
<1>3. 0 < Len(Pages[d]) /\ \A i \in DOMAIN Pages[d] : i > 0
  BY DaysAreNumbers
<1>4. \A e \in OfDay(d) : \E i \in DOMAIN Pages[d] : i > 0 /\ e \in Pages[d][i]
  BY <1>3 DEF OfDay
<1>5. \A e \in OfDay(d) : Accounted(e)'
  BY <1>2, <1>4 DEF Accounted
<1> QED
  BY <1>2, <1>3, <1>5 DEF SyncIsSound

LEMMA StartKeeps ==
    ASSUME IngestionInv, SyncStart
    PROVE  IngestionInv'
<1>1. UNCHANGED <<profile, paper, chunks, jobs, ledger, manifests, receipts, legacy, cursor, workers>>
  BY DEF SyncStart, SyncUnchanged
<1>2. cursor' \in 0..Len(Pages) /\ cursor' \in Nat
  BY <1>1, DaysAreNumbers DEF IngestionInv, CursorInv, SyncIsSound
<1>3. sync' \in SyncRecord /\ SyncIsSound'
  <2>1. CASE cursor < Cardinality(Days)
    <3>1. PICK d \in Days : d = cursor + 1
      BY <1>1, <1>2, <2>1, DaysAreNumbers
    <3>2. sync' = [NoSync EXCEPT !.pc = "fetch", !.day = d]
      BY <2>1, <3>1 DEF SyncStart
    <3> QED
      BY <1>1, <1>2, <3>1, <3>2, DayBegins
  <2>2. CASE ~(cursor < Cardinality(Days))
    BY <1>2, <2>2, RunOver DEF SyncStart
  <2> QED
    BY <2>1, <2>2
<1>4. IngestionTypeOK'
  BY <1>1, <1>2, <1>3, SyncTypes DEF IngestionInv, IngestionTypeOK
<1> QED
  BY <1>1, <1>3, <1>4, AllRemembered, PassedStays, SyncKeeps DEF IngestionInv, CursorInv

LEMMA DiesKeeps ==
    ASSUME IngestionInv, SyncDies
    PROVE  IngestionInv'
<1>1. UNCHANGED <<profile, paper, chunks, jobs, ledger, manifests, receipts, legacy, cursor, workers>>
  BY DEF SyncDies, SyncUnchanged
<1>2. cursor' \in 0..Len(Pages) /\ cursor' \in Nat
  BY <1>1, DaysAreNumbers DEF IngestionInv, CursorInv, SyncIsSound
<1>3. sync' = [NoSync EXCEPT !.pc = "idle"]
  BY DEF SyncDies, NoSync
<1>4. sync' \in SyncRecord /\ SyncIsSound'
  BY <1>2, <1>3, RunOver
<1>5. IngestionTypeOK'
  BY <1>1, <1>2, <1>4, SyncTypes DEF IngestionInv, IngestionTypeOK
<1> QED
  BY <1>1, <1>4, <1>5, AllRemembered, PassedStays, SyncKeeps DEF IngestionInv, CursorInv

\* A step that fetches: the day, the cursor and the tables stay.
LEMMA FetchKeeps ==
    ASSUME IngestionInv, sync.pc = "fetch", sync' \in SyncRecord, sync'.day = sync.day, sync'.owed = {},
           UNCHANGED <<profile, paper, chunks, jobs, ledger, manifests, receipts, legacy, cursor, workers>>,
           sync'.pc \in {"fetch", "write"},
           sync'.pc = "fetch" /\ sync'.source = "oai" => sync'.page < Len(Pages[sync.day]),
           sync'.source = "oai" => \A e \in OfDay(sync.day) : Accounted(e)'
    PROVE  IngestionInv'
<1>1. IngestionTypeOK'
  BY SyncTypes DEF IngestionInv, IngestionTypeOK
<1>2. SyncIsSound'
  BY DEF IngestionInv, CursorInv, SyncIsSound
<1> QED
  BY <1>1, <1>2, AllRemembered, PassedStays, SyncKeeps DEF IngestionInv, CursorInv

LEMMA FetchFacts ==
    ASSUME IngestionInv, sync.pc = "fetch"
    PROVE  /\ sync \in SyncRecord /\ sync.day \in Days /\ sync.day \in Nat /\ sync.page \in Nat /\ sync.owed = {}
           /\ sync.got \subseteq Announcements
           /\ Len(Pages[sync.day]) \in Nat \ {0} /\ DOMAIN Pages[sync.day] = 1..Len(Pages[sync.day])
           /\ sync.source = "oai" => sync.page < Len(Pages[sync.day])
           /\ sync.source = "oai" => \A e \in OfDay(sync.day) : Accounted(e)
           /\ sync.source # "api" => sync.source = "oai"
<1>1. sync \in SyncRecord /\ sync.day \in Days /\ sync.owed = {}
  BY DEF IngestionInv, IngestionTypeOK, CursorInv, SyncIsSound
<1> QED
  BY <1>1, DaysAreNumbers DEF IngestionInv, CursorInv, SyncIsSound, SyncRecord

LEMMA PageKeeps ==
    ASSUME IngestionInv, FetchPage
    PROVE  IngestionInv'
<1> DEFINE n == sync.page + 1
           last == Len(Pages[sync.day])
<1>1. /\ sync.pc = "fetch" /\ sync.source # "api"
      /\ sync' = [sync EXCEPT !.page = n, !.got = sync.got \cup Pages[sync.day][n],
                              !.pc = IF n = last THEN "write" ELSE "fetch"]
      /\ UNCHANGED <<profile, paper, chunks, jobs, ledger, manifests, receipts, legacy, cursor, workers>>
  BY DEF FetchPage, SyncUnchanged
<1>2. /\ sync \in SyncRecord /\ sync.day \in Days /\ sync.owed = {} /\ sync.page \in Nat /\ sync.source = "oai"
      /\ sync.page < last /\ last \in Nat /\ DOMAIN Pages[sync.day] = 1..last /\ sync.got \subseteq Announcements
      /\ \A e \in OfDay(sync.day) : Accounted(e)
  BY <1>1, FetchFacts
<1>3. n \in DOMAIN Pages[sync.day] /\ n \in Nat
  BY <1>2
<1>4. Pages[sync.day][n] \subseteq Announcements
  BY <1>2, <1>3, DaysAreNumbers
<1>5. /\ sync' \in SyncRecord /\ sync'.day = sync.day /\ sync'.owed = {} /\ sync'.source = "oai" /\ sync'.page = n
      /\ sync'.got = sync.got \cup Pages[sync.day][n]
      /\ sync'.pc = IF n = last THEN "write" ELSE "fetch"
  <2>1. sync.got \cup Pages[sync.day][n] \in SUBSET Announcements
    BY <1>2, <1>4
  <2>2. (IF n = last THEN "write" ELSE "fetch") \in {"write", "fetch"}
    OBVIOUS
  <2> HIDE DEF n, last
  <2> QED
    BY <1>1, <1>2, <1>3, <2>1, <2>2 DEF SyncRecord
<1>6. ASSUME NEW e \in OfDay(sync.day)
      PROVE  Accounted(e)'
  <2>1. e \in sync.got \/ \E i \in DOMAIN Pages[sync.day] : i > sync.page /\ e \in Pages[sync.day][i]
    BY <1>1, <1>2 DEF Accounted
  <2>2. e \in sync'.got \/ \E i \in DOMAIN Pages[sync.day] : i > n /\ e \in Pages[sync.day][i]
    <3>1. \A i \in DOMAIN Pages[sync.day] : i > sync.page => i = n \/ i > n
      BY <1>2
    <3> HIDE DEF n
    <3> QED
      BY <1>5, <2>1, <3>1
  <2>3. CASE n = last
    <3>1. \A i \in DOMAIN Pages[sync.day] : ~(i > n)
      BY <1>2, <2>3
    <3> HIDE DEF n, last
    <3> QED
      BY <1>5, <2>2, <2>3, <3>1 DEF Accounted
  <2>4. CASE n # last
    <3> HIDE DEF n, last
    <3> QED
      BY <1>5, <2>2, <2>4 DEF Accounted
  <2> QED
    BY <2>3, <2>4
<1>7. sync'.pc = "fetch" => n < last
  BY <1>2, <1>5
<1> HIDE DEF n
<1> QED
  BY <1>1, <1>5, <1>6, <1>7, FetchKeeps

LEMMA FailsKeeps ==
    ASSUME IngestionInv, FetchFails
    PROVE  IngestionInv'
<1>1. PICK source \in {"oai", "api"} :
        /\ sync.pc = "fetch" /\ sync' = [sync EXCEPT !.page = 0, !.got = {}, !.source = source]
        /\ UNCHANGED <<profile, paper, chunks, jobs, ledger, manifests, receipts, legacy, cursor, workers>>
  BY DEF FetchFails, SyncUnchanged
<1>2. /\ sync \in SyncRecord /\ sync.day \in Days /\ sync.owed = {}
      /\ Len(Pages[sync.day]) \in Nat \ {0} /\ DOMAIN Pages[sync.day] = 1..Len(Pages[sync.day])
  BY <1>1, FetchFacts
<1>3. /\ sync' \in SyncRecord /\ sync'.day = sync.day /\ sync'.owed = {} /\ sync'.page = 0 /\ sync'.got = {}
      /\ sync'.pc = "fetch"
  BY <1>1, <1>2 DEF SyncRecord
<1>4. \A e \in OfDay(sync.day) : Accounted(e)'
  BY <1>2, <1>3 DEF Accounted, OfDay
<1> QED
  BY <1>1, <1>2, <1>3, <1>4, FetchKeeps

LEMMA ApiKeeps ==
    ASSUME IngestionInv, FetchApi
    PROVE  IngestionInv'
<1> DEFINE found == {e \in AnnouncedBy(sync.day) \ AnnouncedBy(sync.day - 1) : e[2] = 1}
<1>1. /\ sync.pc = "fetch" /\ sync.source = "api" /\ sync' = [sync EXCEPT !.pc = "write", !.got = found]
      /\ UNCHANGED <<profile, paper, chunks, jobs, ledger, manifests, receipts, legacy, cursor, workers>>
  BY DEF FetchApi, SyncUnchanged
<1>2. sync \in SyncRecord /\ sync.owed = {}
  BY <1>1, FetchFacts
<1>3. found \in SUBSET Announcements
  BY AnnouncementsOfDays
<1> HIDE DEF found
<1>4. /\ sync' \in SyncRecord /\ sync'.day = sync.day /\ sync'.owed = {} /\ sync'.source = "api" /\ sync'.pc = "write"
  BY <1>1, <1>2, <1>3 DEF SyncRecord
<1> QED
  BY <1>1, <1>4, FetchKeeps

\* A version that is newer than the stored one has neither a manifest nor a receipt.
LEMMA StoredGrows ==
    ASSUME IngestionInv, IngestionTypeOK', UNCHANGED <<profile, chunks, jobs, manifests, receipts, legacy, workers>>,
           \A p \in Papers : paper'[p].version >= paper[p].version
    PROVE  InstallInv'
<1>1. \A p \in Papers : paper[p].version \in Nat /\ paper'[p].version \in Nat
  BY NumbersKept DEF IngestionInv
<1>2. \A p \in Papers, v \in Versions : v \in Nat /\ (Recorded(p, v) => v <= paper[p].version)
  BY VersionsAreNumbers DEF IngestionInv, InstallInv, ManifestsTell
<1>3. ASSUME NEW p \in Papers, Recorded(p, paper'[p].version)
      PROVE  paper'[p].version = paper[p].version
  <2>1. paper'[p].version \in Versions
    BY <1>3 DEF Recorded, Announcements, IngestionInv, InstallInv, ManifestsTell
  <2>2. paper'[p].version <= paper[p].version
    BY <1>2, <1>3, <2>1
  <2> QED
    BY <1>1, <2>2
<1>4. KeysTell'
  BY DEF IngestionInv, InstallInv, KeysTell, Stored
<1>5. ManifestsTell'
  <2>1. ASSUME NEW p \in Papers, NEW v \in Versions, Recorded(p, v)
        PROVE  /\ v <= paper'[p].version
               /\ v = paper'[p].version => Stored(p) \subseteq manifests[<<p, v>>] \cup BoundKeys(v)
    <3>1. v <= paper'[p].version
      BY <1>1, <1>2, <2>1
    <3>2. v = paper'[p].version => v = paper[p].version
      BY <1>3, <2>1
    <3> QED
      BY <2>1, <3>1, <3>2 DEF IngestionInv, InstallInv, ManifestsTell
  <2> QED
    BY <2>1 DEF IngestionInv, InstallInv, ManifestsTell, Stored, Recorded
<1>6. OneHolds'
  BY DEF IngestionInv, InstallInv, OneHolds, Holds
<1>7. \A w \in Workers : Holds(w)' => Installing(w)'
  BY DEF IngestionInv, InstallInv, Holds, Installing, Stored, Recorded, Whole, Exactly
<1>8. ReceiptsTell'
  <2>1. \A p \in Papers : <<p, paper'[p].version>> \in receipts => paper'[p].version = paper[p].version
    BY <1>3 DEF IngestionInv, InstallInv, ReceiptsTell, Recorded
  <2> QED
    BY <2>1 DEF IngestionInv, InstallInv, ReceiptsTell, Whole, Exactly, Stored
<1> QED
  BY <1>4, <1>5, <1>6, <1>7, <1>8 DEF InstallInv

\* What is owed is what has been stored.
LEMMA MetadataKeeps ==
    ASSUME IngestionInv, WriteMetadata
    PROVE  IngestionInv'
<1>1. /\ sync.pc = "write"
      /\ UNCHANGED <<profile, chunks, jobs, ledger, manifests, receipts, legacy, cursor, workers>>
  BY DEF WriteMetadata, SyncUnchanged
<1>2. /\ sync \in SyncRecord /\ cursor \in Nat /\ sync.got \subseteq Announcements /\ sync.owed \subseteq Announcements
      /\ sync.day = cursor + 1 /\ sync.day \in Days /\ cursor \in 0..Len(Pages)
  BY <1>1 DEF IngestionInv, IngestionTypeOK, CursorInv, SyncIsSound, SyncRecord
<1>3. sync.source = "oai" => \A e \in OfDay(sync.day) : e \in sync.got \/ OwedFor(e)
  BY <1>1 DEF IngestionInv, CursorInv, SyncIsSound, Accounted
<1>4. CASE sync.got = {} /\ sync' = [sync EXCEPT !.pc = "done"] /\ paper' = paper
  <2>1. /\ sync' \in SyncRecord /\ sync'.pc = "done" /\ sync'.day = sync.day /\ sync'.owed = sync.owed
        /\ sync'.source = sync.source
    BY <1>2, <1>4 DEF SyncRecord
  <2>2. IngestionTypeOK'
    BY <1>1, <1>4, <2>1, SyncTypes DEF IngestionInv, IngestionTypeOK
  <2>3. sync.owed = {}
    BY <1>1, <1>4 DEF IngestionInv, CursorInv, SyncIsSound
  <2>4. sync.source = "oai" => OfDay(sync.day) = {}
    BY <1>3, <1>4, <2>3 DEF OwedFor
  <2>5. SyncIsSound'
    BY <1>1, <1>2, <2>1, <2>3, <2>4 DEF SyncIsSound
  <2> QED
    BY <1>1, <1>4, <2>2, <2>5, AllRemembered, PassedStays, SyncKeeps DEF IngestionInv, CursorInv
<1>5. ASSUME NEW e \in sync.got, NEW v, v = MaxNum(e[2], paper[e[1]].version),
             paper' = [paper EXCEPT ![e[1]] = [@ EXCEPT !.version = v]],
             sync' = [sync EXCEPT !.got = sync.got \ {e}, !.owed = sync.owed \cup {<<e[1], v>>},
                                  !.pc = IF sync.got = {e} THEN "owe" ELSE "write"]
      PROVE  IngestionInv'
  <2>1. PICK p \in Papers, u \in Versions : e = <<p, u>>
    BY <1>2 DEF Announcements
  <2>2. /\ v \in Versions /\ v \in Nat /\ v >= u /\ v >= paper[p].version
    <3>1. paper[p].version \in Numbers /\ paper[p].version \in Nat /\ u \in Nat /\ u > 0
      BY TableNumbers, VersionsAreNumbers DEF IngestionInv, IngestionTypeOK
    <3>2. v = IF u > paper[p].version THEN u ELSE paper[p].version
      BY <1>5, <2>1 DEF MaxNum
    <3> QED
      BY <3>1, <3>2 DEF Numbers
  <2>3. /\ paper' \in [Papers -> [version : Numbers, text : BOOLEAN]]
        /\ paper'[p].version = v /\ \A q \in Papers \ {p} : paper'[q] = paper[q]
    <3>1. /\ paper \in [Papers -> [version : Numbers, text : BOOLEAN]]
          /\ paper' = [paper EXCEPT ![p] = [paper[p] EXCEPT !.version = v]] /\ v \in Numbers
      BY <1>5, <2>1, <2>2 DEF IngestionInv, IngestionTypeOK, Numbers
    <3>2. /\ [paper[p] EXCEPT !.version = v] \in [version : Numbers, text : BOOLEAN]
          /\ [paper[p] EXCEPT !.version = v].version = v
      BY <3>1
    <3> QED
      BY <3>1, <3>2
  <2>4. \A q \in Papers : paper'[q].version >= paper[q].version /\ paper'[q].version \in Nat /\ paper[q].version \in Nat
    BY <2>2, <2>3, TableNumbers DEF IngestionInv
  <2>5. /\ sync' \in SyncRecord /\ sync'.day = sync.day /\ sync'.source = sync.source /\ sync'.got = sync.got \ {e}
        /\ sync'.owed = sync.owed \cup {<<p, v>>} /\ sync'.pc = IF sync.got = {e} THEN "owe" ELSE "write"
    <3>1. sync.got \ {e} \in SUBSET Announcements /\ sync.owed \cup {<<p, v>>} \in SUBSET Announcements
      BY <1>2, <2>1, <2>2 DEF Announcements
    <3>2. (IF sync.got = {e} THEN "owe" ELSE "write") \in {"owe", "write"} /\ e[1] = p
      BY <2>1
    <3> QED
      BY <1>2, <1>5, <3>1, <3>2 DEF SyncRecord
  <2>6. IngestionTypeOK'
    BY <1>1, <2>3, <2>5, SyncTypes DEF IngestionInv, IngestionTypeOK
  <2>7. InstallInv'
    BY <1>1, <2>4, <2>6, StoredGrows
  <2>8. Remembers
    <3>1. JobsKept(jobs, jobs') /\ \A q \in Papers : ledger'[q] >= ledger[q]
      BY <1>1, JobsSame DEF IngestionInv
    <3> QED
      BY <1>1, <2>4, <3>1 DEF Remembers
  <2>9. CursorCovers'
    BY <1>1, <2>6, <2>8, PassedStays DEF IngestionInv, CursorInv
  <2>10. RowsBeginEmpty'
    BY <1>1 DEF IngestionInv, CursorInv, RowsBeginEmpty
  <2>11. \A o \in sync'.owed : paper'[o[1]].version >= o[2]
    <3>1. ASSUME NEW o \in sync.owed
          PROVE  paper'[o[1]].version >= o[2]
      <4>1. o[1] \in Papers /\ o[2] \in Nat /\ paper[o[1]].version >= o[2]
        BY <1>2, AnnouncementsOfDays DEF IngestionInv, CursorInv, SyncIsSound
      <4> QED
        BY <2>4, <4>1
    <3> QED
      BY <2>2, <2>3, <2>5, <3>1
  <2>12. ASSUME NEW a \in OfDay(sync.day), sync.source = "oai"
         PROVE  Accounted(a)'
    <3>1. a \in sync.got \/ OwedFor(a)
      BY <1>3, <2>12
    <3>2. a \in sync'.got \/ OwedFor(a)'
      <4>1. CASE OwedFor(a)
        BY <2>5, <4>1 DEF OwedFor
      <4>2. CASE a = e
        <5>1. <<p, v>> \in sync'.owed /\ a[1] = p /\ a[2] = u
          BY <2>1, <2>5, <4>2
        <5> QED
          BY <2>2, <5>1 DEF OwedFor
      <4> QED
        BY <2>5, <3>1, <4>1, <4>2
    <3>3. CASE sync.got = {e}
      BY <2>5, <3>2, <3>3 DEF Accounted
    <3>4. CASE sync.got # {e}
      BY <2>5, <3>2, <3>4 DEF Accounted
    <3> QED
      BY <3>3, <3>4
  <2>13. sync'.pc = "write" => sync'.got # {}
    BY <1>5, <2>5
  <2>14. SyncIsSound'
    <3>1. sync'.pc \in {"owe", "write"}
      BY <2>5
    <3> QED
      BY <1>1, <1>2, <2>5, <2>11, <2>12, <2>13, <3>1 DEF SyncIsSound
  <2> QED
    BY <2>6, <2>7, <2>9, <2>10, <2>14 DEF IngestionInv, CursorInv
<1> QED
  BY <1>4, <1>5 DEF WriteMetadata

\* What the run knows of the day when it has stored all of it.
LEMMA RunFacts ==
    ASSUME IngestionInv, sync.pc \in {"owe", "enqueue", "done"}
    PROVE  /\ sync \in SyncRecord /\ cursor \in 0..Len(Pages) /\ cursor \in Nat
           /\ sync.owed \subseteq Announcements /\ sync.day = cursor + 1 /\ sync.day \in Days
           /\ \A o \in sync.owed : /\ o[1] \in Papers /\ o[2] \in Versions /\ o[2] \in Nat
                                   /\ paper[o[1]].version >= o[2] /\ paper[o[1]].version \in Nat
           /\ sync.source = "oai" => \A e \in OfDay(sync.day) : Accounted(e)
<1>1. /\ sync \in SyncRecord /\ sync.day = cursor + 1 /\ sync.day \in Days /\ cursor \in 0..Len(Pages)
      /\ \A o \in sync.owed : paper[o[1]].version >= o[2]
      /\ sync.source = "oai" => \A e \in OfDay(sync.day) : Accounted(e)
  BY DEF IngestionInv, IngestionTypeOK, CursorInv, SyncIsSound
<1>2. sync.owed \subseteq Announcements
  BY <1>1 DEF SyncRecord
<1> QED
  BY <1>1, <1>2, AnnouncementsOfDays, TableNumbers, DaysAreNumbers DEF IngestionInv

\* The ledger of a lean or bound deployment covers what the day owes.
LEMMA OweKeeps ==
    ASSUME IngestionInv, RecordOwed
    PROVE  IngestionInv'
<1>1. /\ sync.pc = "owe"
      /\ ledger' = IF profile = "full" THEN ledger ELSE Owe(sync.owed)
      /\ sync' = [sync EXCEPT !.pc = IF profile = "lean" THEN "done" ELSE "enqueue",
                              !.owed = IF profile = "lean" THEN {} ELSE sync.owed]
      /\ UNCHANGED <<profile, paper, chunks, jobs, manifests, receipts, legacy, cursor, workers>>
  BY DEF RecordOwed, SyncUnchanged
<1>2. /\ sync \in SyncRecord /\ cursor \in 0..Len(Pages) /\ cursor \in Nat
      /\ sync.owed \subseteq Announcements /\ sync.day = cursor + 1 /\ sync.day \in Days
      /\ \A o \in sync.owed : /\ o[1] \in Papers /\ o[2] \in Versions /\ o[2] \in Nat
                              /\ paper[o[1]].version >= o[2] /\ paper[o[1]].version \in Nat
      /\ sync.source = "oai" => \A e \in OfDay(sync.day) : Accounted(e)
  BY <1>1, RunFacts
<1>3. /\ ledger' \in [Papers -> Numbers]
      /\ \A p \in Papers : ledger'[p] >= ledger[p]
      /\ profile = "lean" => \A o \in sync.owed : ledger'[o[1]] >= o[2]
  BY <1>1, <1>2, Owed, TableNumbers DEF IngestionInv, IngestionTypeOK
<1>4. /\ sync' \in SyncRecord /\ sync'.pc = (IF profile = "lean" THEN "done" ELSE "enqueue")
      /\ sync'.owed = (IF profile = "lean" THEN {} ELSE sync.owed)
      /\ sync'.day = sync.day /\ sync'.source = sync.source
  <2>1. (IF profile = "lean" THEN {} ELSE sync.owed) \in SUBSET Announcements
    BY <1>2
  <2>2. (IF profile = "lean" THEN "done" ELSE "enqueue") \in {"done", "enqueue"}
    OBVIOUS
  <2> QED
    BY <1>1, <1>2, <2>1, <2>2 DEF SyncRecord
<1>5. IngestionTypeOK'
  BY <1>1, <1>2, <1>3, <1>4, SyncTypes DEF IngestionInv, IngestionTypeOK
<1>6. Remembers /\ \A p \in Papers : paper'[p].version = paper[p].version
  <2>1. \A p \in Papers : paper[p].version \in Nat
    BY TableNumbers DEF IngestionInv
  <2>2. JobsKept(jobs, jobs')
    <3>1. \A p \in Papers : jobs[p].version \in Nat
      BY TableNumbers DEF IngestionInv
    <3> QED
      BY <1>1, <3>1 DEF JobsKept
  <2> QED
    BY <1>1, <1>3, <2>1, <2>2 DEF Remembers
<1>7. ASSUME NEW e \in OfDay(sync.day), sync.source = "oai"
      PROVE  Accounted(e)'
  <2>1. OwedFor(e)
    BY <1>1, <1>2, <1>7 DEF Accounted
  <2>2. CASE profile = "lean"
    <3>1. PICK o \in sync.owed : o[1] = e[1] /\ o[2] >= e[2]
      BY <2>1 DEF OwedFor
    <3>2. /\ e[1] \in Papers /\ e[2] \in Nat /\ o[2] \in Nat /\ paper[e[1]].version \in Nat
          /\ paper[e[1]].version >= o[2] /\ ledger'[e[1]] >= o[2] /\ ledger'[e[1]] \in Nat
      BY <1>2, <1>3, <1>5, <1>7, <2>2, <3>1, AnnouncementsOfDays, NumbersKept DEF IngestionInv
    <3>3. paper'[e[1]].version >= e[2] /\ ledger'[e[1]] >= e[2]
      BY <1>1, <3>1, <3>2
    <3>4. Covered(e[1], e[2])'
      BY <1>1, <3>3 DEF Covered, Remembered
    <3> QED
      BY <1>4, <2>2, <3>4 DEF Accounted
  <2>3. CASE profile # "lean"
    <3>1. OwedFor(e)'
      BY <1>4, <2>1, <2>3 DEF OwedFor
    <3> QED
      BY <1>4, <2>3, <3>1 DEF Accounted
  <2> QED
    BY <2>2, <2>3
<1>8. SyncIsSound'
  <2>1. sync'.pc \in {"done", "enqueue"}
    BY <1>4
  <2>2. \A o \in sync'.owed : paper'[o[1]].version >= o[2]
    BY <1>1, <1>2, <1>4
  <2> QED
    BY <1>1, <1>2, <1>4, <1>7, <2>1, <2>2 DEF SyncIsSound
<1>9. CursorCovers'
  BY <1>1, <1>5, <1>6, PassedStays DEF IngestionInv, CursorInv
<1> QED
  BY <1>1, <1>5, <1>6, <1>8, <1>9, SyncKeeps

\* One entry is queued: it is covered, and so is every older one of its paper.
LEMMA EnqueueKeeps ==
    ASSUME IngestionInv, EnqueueOwed
    PROVE  IngestionInv'
<1>1. sync.pc = "enqueue" /\ UNCHANGED <<profile, paper, chunks, ledger, manifests, receipts, legacy, cursor, workers>>
  BY DEF EnqueueOwed, SyncUnchanged
<1>2. /\ sync \in SyncRecord /\ cursor \in 0..Len(Pages) /\ cursor \in Nat
      /\ sync.owed \subseteq Announcements /\ sync.day = cursor + 1 /\ sync.day \in Days
      /\ \A o \in sync.owed : /\ o[1] \in Papers /\ o[2] \in Versions /\ o[2] \in Nat
                              /\ paper[o[1]].version >= o[2] /\ paper[o[1]].version \in Nat
      /\ sync.source = "oai" => \A e \in OfDay(sync.day) : Accounted(e)
  BY <1>1, RunFacts
<1>3. PICK o \in sync.owed :
        /\ jobs' = Enqueue(jobs, o[1], o[2])
        /\ sync' = [sync EXCEPT !.owed = sync.owed \ {o}, !.pc = IF sync.owed = {o} THEN "done" ELSE "enqueue"]
  BY DEF EnqueueOwed
<1>4. PICK p \in Papers, v \in Versions : o = <<p, v>>
  BY <1>2 DEF Announcements
<1>5. JobsOK(jobs') /\ JobsKept(jobs, jobs') /\ jobs'[p].version >= v
  <2>1. jobs' = Enqueue(jobs, p, v)
    BY <1>3, <1>4
  <2>2. jobs[p].status = None => jobs[p].version = 0
    BY DEF IngestionInv, CursorInv, RowsBeginEmpty
  <2> QED
    BY <2>1, <2>2, Enqueued DEF IngestionInv, IngestionTypeOK
<1>6. /\ sync' \in SyncRecord /\ sync'.pc = (IF sync.owed = {o} THEN "done" ELSE "enqueue")
      /\ sync'.owed = sync.owed \ {o} /\ sync'.day = sync.day /\ sync'.source = sync.source
  <2>1. sync.owed \ {o} \in SUBSET Announcements
    BY <1>2
  <2>2. (IF sync.owed = {o} THEN "done" ELSE "enqueue") \in {"done", "enqueue"}
    OBVIOUS
  <2> QED
    BY <1>2, <1>3, <2>1, <2>2 DEF SyncRecord
<1>7. IngestionTypeOK'
  BY <1>1, <1>2, <1>5, <1>6, SyncTypes DEF IngestionInv, IngestionTypeOK
<1>8. Remembers /\ \A q \in Papers : paper'[q].version = paper[q].version
  <2>1. \A q \in Papers : paper[q].version \in Nat /\ ledger[q] \in Nat
    BY TableNumbers DEF IngestionInv
  <2> QED
    BY <1>1, <1>5, <2>1 DEF Remembers
<1>9. ASSUME NEW e \in OfDay(sync.day), sync.source = "oai"
      PROVE  Accounted(e)'
  <2>0. e[1] \in Papers /\ e[2] \in Nat
    BY <1>2, AnnouncementsOfDays
  <2>1. OwedFor(e) \/ Covered(e[1], e[2])
    BY <1>1, <1>2, <1>9 DEF Accounted
  <2>2. CASE Covered(e[1], e[2])
    <3>1. Covered(e[1], e[2])'
      BY <1>7, <1>8, <2>0, <2>2, CoveredStays DEF IngestionInv
    <3> QED
      BY <1>6, <3>1 DEF Accounted
  <2>3. CASE OwedFor(e)
    <3>1. PICK x \in sync.owed : x[1] = e[1] /\ x[2] >= e[2]
      BY <2>3 DEF OwedFor
    <3>2. CASE x = o
      <4>1. /\ e[1] = p /\ v >= e[2] /\ v \in Nat /\ paper[p].version >= v /\ paper[p].version \in Nat
            /\ jobs'[p].version \in Nat
        BY <1>2, <1>4, <1>7, <3>1, <3>2, NumbersKept DEF IngestionInv
      <4>2. paper'[e[1]].version >= e[2] /\ jobs'[e[1]].version >= e[2]
        BY <1>1, <1>5, <2>0, <4>1
      <4>3. Covered(e[1], e[2])'
        BY <4>2 DEF Covered, Remembered
      <4> QED
        BY <1>6, <4>3 DEF Accounted
    <3>3. CASE x # o
      <4>1. OwedFor(e)'
        BY <1>6, <3>1, <3>3 DEF OwedFor
      <4>2. sync'.pc = "enqueue"
        BY <1>6, <3>3
      <4> QED
        BY <4>1, <4>2 DEF Accounted
    <3> QED
      BY <3>2, <3>3
  <2> QED
    BY <2>1, <2>2, <2>3
<1>10. SyncIsSound'
  <2>1. sync'.pc \in {"done", "enqueue"}
    BY <1>6
  <2>2. \A x \in sync'.owed : paper'[x[1]].version >= x[2]
    BY <1>1, <1>2, <1>6
  <2> QED
    BY <1>1, <1>2, <1>6, <1>9, <2>1, <2>2 DEF SyncIsSound
<1>11. CursorCovers'
  BY <1>1, <1>7, <1>8, PassedStays DEF IngestionInv, CursorInv
<1> QED
  BY <1>1, <1>7, <1>8, <1>10, <1>11, SyncKeeps

\* The cursor passes a day of which everything is covered.
LEMMA DayKeeps ==
    ASSUME IngestionInv, DayDone
    PROVE  IngestionInv'
<1>1. sync.pc = "done" /\ UNCHANGED <<profile, paper, chunks, jobs, ledger, manifests, receipts, legacy, workers>>
  BY DEF DayDone, SyncUnchanged
<1>2. /\ sync \in SyncRecord /\ cursor \in 0..Len(Pages) /\ cursor \in Nat
      /\ sync.day = cursor + 1 /\ sync.day \in Days
      /\ sync.source = "oai" => \A e \in OfDay(sync.day) : Accounted(e)
  BY <1>1, RunFacts
<1>3. CASE sync.source = "api"
  <2>1. cursor' = cursor /\ sync' = [NoSync EXCEPT !.pc = "idle"]
    BY <1>3 DEF DayDone, NoSync
  <2>2. sync' \in SyncRecord /\ SyncIsSound'
    BY <1>2, <2>1, RunOver
  <2>3. IngestionTypeOK'
    BY <1>1, <1>2, <2>1, <2>2, SyncTypes DEF IngestionInv, IngestionTypeOK
  <2> QED
    BY <1>1, <2>1, <2>2, <2>3, AllRemembered, PassedStays, SyncKeeps DEF IngestionInv, CursorInv
<1>4. CASE sync.source # "api"
  <2>1. sync.source = "oai"
    BY <1>2, <1>4 DEF SyncRecord
  <2>2. cursor' = sync.day /\ cursor' \in 0..Len(Pages) /\ cursor' \in Nat
    BY <1>2, <1>4, DaysAreNumbers DEF DayDone
  <2>3. sync' \in SyncRecord /\ SyncIsSound'
    <3>1. CASE sync.day = Cardinality(Days)
      BY <1>4, <2>2, <3>1, RunOver DEF DayDone
    <3>2. CASE sync.day # Cardinality(Days)
      <4>1. PICK d \in Days : d = sync.day + 1
        BY <1>2, <3>2, DaysAreNumbers
      <4>2. sync' = [NoSync EXCEPT !.pc = "fetch", !.day = d]
        BY <1>4, <3>2, <4>1 DEF DayDone
      <4> QED
        BY <2>2, <4>1, <4>2, DayBegins
    <3> QED
      BY <3>1, <3>2
  <2>4. IngestionTypeOK'
    BY <1>1, <2>2, <2>3, SyncTypes DEF IngestionInv, IngestionTypeOK
  <2>5. Remembers /\ \A p \in Papers : paper'[p].version = paper[p].version
    BY <1>1, <2>4, AllRemembered DEF IngestionInv
  <2>6. CursorCovers'
    <3>1. \A e \in AnnouncedBy(cursor) : Covered(e[1], e[2])
      BY CursorMeansCovered DEF IngestionInv, CursorInv
    <3>2. \A e \in OfDay(sync.day) : Covered(e[1], e[2])
      BY <1>1, <1>2, <2>1 DEF Accounted
    <3>3. AnnouncedBy(sync.day) \subseteq AnnouncedBy(cursor) \cup OfDay(sync.day)
      <4>1. {x \in Days : x <= sync.day} \subseteq {x \in Days : x <= cursor} \cup {sync.day}
        BY <1>2, DaysAreNumbers
      <4> QED
        BY <4>1 DEF AnnouncedBy, OfDay
    <3>4. \A e \in AnnouncedBy(sync.day) : Covered(e[1], e[2])
      BY <3>1, <3>2, <3>3
    <3>5. \A e \in AnnouncedBy(sync.day) : Covered(e[1], e[2])'
      BY <2>4, <2>5, <3>4, CoveredStays, AnnouncementsOfDays DEF IngestionInv
    <3> QED
      BY <2>2, <3>5 DEF CursorCovers, Covered, Remembered
  <2> QED
    BY <1>1, <2>3, <2>4, <2>5, <2>6, SyncKeeps
<1> QED
  BY <1>3, <1>4

\* The papers without text are queued at the version that is stored.
LEMMA ReconcileKeeps ==
    ASSUME IngestionInv, Reconcile
    PROVE  IngestionInv'
<1> DEFINE es == {<<p, paper[p].version>> : p \in {q \in Papers : paper[q].version > 0 /\ ~paper[q].text}}
<1>1. /\ UNCHANGED <<profile, paper, chunks, ledger, manifests, receipts, legacy, cursor, workers>>
      /\ jobs' = IF profile = "full" THEN EnqueueAll(jobs, es) ELSE jobs
      /\ sync' = [NoSync EXCEPT !.pc = "idle"]
  BY DEF Reconcile, SyncUnchanged, NoSync
<1>2. es \in SUBSET Announcements
  <2>1. \A p \in Papers : paper[p].version > 0 => paper[p].version \in Versions
    BY DEF IngestionInv, IngestionTypeOK, Numbers
  <2> QED
    BY <2>1 DEF Announcements
<1> HIDE DEF es
<1>3. JobsOK(jobs') /\ JobsKept(jobs, jobs')
  <2>1. CASE profile = "full"
    <3>1. \A p \in Papers : jobs[p].status = None => jobs[p].version = 0
      BY DEF IngestionInv, CursorInv, RowsBeginEmpty
    <3> QED
      BY <1>1, <1>2, <2>1, <3>1, AllEnqueued DEF IngestionInv, IngestionTypeOK
  <2>2. CASE profile # "full"
    <3>1. \A p \in Papers : jobs[p].version \in Nat
      BY TableNumbers DEF IngestionInv
    <3> QED
      BY <1>1, <2>2, <3>1 DEF IngestionInv, IngestionTypeOK, JobsKept
  <2> QED
    BY <2>1, <2>2
<1>4. cursor' \in 0..Len(Pages) /\ cursor' \in Nat
  BY <1>1, DaysAreNumbers DEF IngestionInv, CursorInv, SyncIsSound
<1>5. sync' \in SyncRecord /\ SyncIsSound'
  BY <1>1, <1>4, RunOver
<1>6. IngestionTypeOK'
  BY <1>1, <1>3, <1>4, <1>5, SyncTypes DEF IngestionInv, IngestionTypeOK
<1>7. Remembers /\ \A p \in Papers : paper'[p].version = paper[p].version
  <2>1. \A p \in Papers : paper[p].version \in Nat /\ ledger[p] \in Nat
    BY TableNumbers DEF IngestionInv
  <2> QED
    BY <1>1, <1>3, <2>1 DEF Remembers
<1>8. CursorCovers'
  BY <1>1, <1>6, <1>7, PassedStays DEF IngestionInv, CursorInv
<1> QED
  BY <1>1, <1>5, <1>6, <1>7, <1>8, SyncKeeps

-----------------------------------------------------------------------------
(* The operator's moves, the first state and the specification.            *)

\* While the consumers are paused nobody holds a lock, before or after.
LEMMA PausedMove ==
    ASSUME IngestionInv, Paused, profile # "bound", UNCHANGED <<paper, chunks, manifests, receipts, cursor, sync, workers>>,
           profile' \in {"full", "bound"}, JobsOK(jobs'), ledger' \in [Papers -> Numbers], legacy' \in [Papers -> Numbers]
    PROVE  IngestionTypeOK' /\ SyncIsSound' /\ InstallInv'
<1>1. IngestionTypeOK'
  <2>1. WorkersOK(workers)'
    BY DEF Paused, IngestionInv, IngestionTypeOK, WorkersOK, Fits, BoundPlaces, LegacyPlaces
  <2> QED
    BY <2>1 DEF IngestionInv, IngestionTypeOK, JobsOK
<1>2. SyncIsSound'
  BY DEF Paused, IngestionInv, CursorInv, SyncIsSound
<1>3. DOMAIN manifests = {} /\ receipts = {}
  BY DEF IngestionInv, InstallInv, ManifestsTell, ReceiptsTell
<1>4. KeysTell'
  BY DEF IngestionInv, InstallInv, KeysTell, Stored
<1>5. ManifestsTell' /\ ReceiptsTell'
  BY <1>3 DEF IngestionInv, InstallInv, ManifestsTell, ReceiptsTell, Recorded
<1>6. OneHolds' /\ \A w \in Workers : Holds(w)' => Installing(w)'
  BY DEF Paused, OneHolds, Holds, LockPlaces
<1> QED
  BY <1>1, <1>2, <1>4, <1>5, <1>6 DEF InstallInv

LEMMA LeanKeeps ==
    ASSUME IngestionInv, LeaveLean
    PROVE  IngestionInv'
<1>1. /\ profile = "lean" /\ profile' = "full" /\ Paused
      /\ UNCHANGED <<paper, chunks, jobs, ledger, manifests, receipts, legacy, cursor, sync, workers>>
  BY DEF LeaveLean
<1>2. IngestionTypeOK' /\ SyncIsSound' /\ InstallInv'
  BY <1>1, PausedMove DEF IngestionInv, IngestionTypeOK
<1>3. RowsBeginEmpty' /\ CursorCovers'
  BY <1>1 DEF IngestionInv, CursorInv, RowsBeginEmpty, CursorCovers
<1> QED
  BY <1>2, <1>3 DEF IngestionInv, CursorInv

\* What the ledger and the unfinished jobs owe is queued anew, and what was done is known.
LEMMA AdoptKeeps ==
    ASSUME IngestionInv, AdoptTarget
    PROVE  IngestionInv'
<1> DEFINE unfinished == {<<p, jobs[p].version>> : p \in {q \in Papers : jobs[q].status \in Queued \cup {"dead"}}}
<1>1. PICK scope :
        /\ scope = Owe(unfinished) /\ ledger' = scope /\ profile = "full" /\ profile' = "bound" /\ Paused
        /\ jobs' = [p \in Papers |-> IF scope[p] > 0 THEN Row(scope[p]) ELSE NoJob]
        /\ legacy' = [p \in Papers |-> IF jobs[p].status = "succeeded" THEN jobs[p].version ELSE 0]
        /\ UNCHANGED <<paper, chunks, manifests, receipts, cursor, sync, workers>>
  BY DEF AdoptTarget
<1>2. unfinished \in SUBSET Announcements
  <2>1. ASSUME NEW p \in Papers, jobs[p].status \in Queued \cup {"dead"}
        PROVE  jobs[p].version \in Versions
    <3>1. jobs[p].status # None
      BY <2>1, IngestionConstants DEF Queued
    <3> QED
      BY <3>1, TableNumbers DEF IngestionInv
  <2> QED
    BY <2>1 DEF Announcements
<1> HIDE DEF unfinished
<1>3. /\ scope \in [Papers -> Numbers] /\ \A p \in Papers : scope[p] >= ledger[p]
      /\ \A e \in unfinished : scope[e[1]] >= e[2]
  BY <1>1, <1>2, Owed DEF IngestionInv
<1>4. ASSUME NEW p \in Papers
      PROVE  /\ jobs'[p] \in JobRecord
             /\ jobs'[p].status # None => jobs'[p].version \in Versions
             /\ jobs'[p].status = None => jobs'[p].version = 0
  <2>1. scope[p] \in Numbers /\ (scope[p] > 0 => scope[p] \in Versions) /\ jobs[p].version \in Numbers
    BY <1>3, TableNumbers DEF Numbers, IngestionInv
  <2>2. /\ Row(scope[p]) \in JobRecord /\ Row(scope[p]).version = scope[p] /\ Row(scope[p]).status # None
        /\ NoJob \in JobRecord /\ NoJob.status = None
    BY <2>1, RowTypes, IngestionConstants
  <2>3. CASE scope[p] > 0
    BY <1>1, <2>1, <2>2, <2>3
  <2>4. CASE ~(scope[p] > 0)
    <3>1. jobs'[p] = NoJob /\ NoJob.version = 0
      BY <1>1, <2>4 DEF NoJob
    <3> QED
      BY <2>2, <3>1
  <2> QED
    BY <2>3, <2>4
<1>5. JobsOK(jobs')
  <2>1. jobs' = [p \in Papers |-> jobs'[p]]
    BY <1>1
  <2> QED
    BY <1>4, <2>1 DEF JobsOK
<1>6. legacy' \in [Papers -> Numbers]
  BY <1>1, TableNumbers DEF IngestionInv, Numbers
<1>7. IngestionTypeOK' /\ SyncIsSound' /\ InstallInv'
  BY <1>1, <1>3, <1>5, <1>6, PausedMove
<1>8. RowsBeginEmpty'
  BY <1>1, <1>4 DEF RowsBeginEmpty
<1>9. CursorCovers'
  <2> SUFFICES ASSUME NEW e \in AnnouncedBy(cursor)
               PROVE  Covered(e[1], e[2])'
    BY <1>1 DEF CursorCovers, Covered, Remembered
  <2>1. Covered(e[1], e[2]) /\ e[1] \in Papers /\ e[2] \in Nat /\ e[2] > 0
    BY CursorMeansCovered, AnnouncementsOfDays DEF IngestionInv, CursorInv
  <2>2. /\ scope[e[1]] \in Nat /\ ledger[e[1]] \in Nat /\ jobs[e[1]].version \in Nat
        /\ scope[e[1]] >= ledger[e[1]] /\ jobs[e[1]].status \in Statuses \cup {None}
    BY <1>3, <2>1, TableNumbers, VersionsAreNumbers DEF IngestionInv, JobRecord
  <2>3. CASE paper[e[1]].version > e[2]
    BY <1>1, <2>1, <2>3 DEF Covered, Remembered
  <2>4. CASE ledger[e[1]] >= e[2]
    BY <1>1, <2>1, <2>2, <2>4 DEF Covered, Remembered
  <2>5. CASE jobs[e[1]].version >= e[2]
    <3>1. jobs[e[1]].status # None
      BY <2>1, <2>5 DEF IngestionInv, CursorInv, RowsBeginEmpty
    <3>2. CASE jobs[e[1]].status = "succeeded"
      <4>1. legacy'[e[1]] = jobs[e[1]].version
        BY <1>1, <2>1, <3>2
      <4> QED
        BY <1>1, <2>1, <2>5, <4>1 DEF Covered, Remembered
    <3>3. CASE jobs[e[1]].status \in Queued \cup {"dead"}
      <4>1. <<e[1], jobs[e[1]].version>> \in unfinished
        BY <2>1, <3>3 DEF unfinished
      <4>2. scope[e[1]] >= jobs[e[1]].version
        BY <1>3, <4>1
      <4> QED
        BY <1>1, <2>1, <2>2, <2>5, <4>2 DEF Covered, Remembered
    <3> QED
      BY <2>2, <3>1, <3>2, <3>3 DEF Statuses, Queued
  <2>6. CASE legacy[e[1]] >= e[2]
    <3>1. legacy[e[1]] = 0
      BY <1>1, <2>1 DEF IngestionInv, CursorInv, RowsBeginEmpty
    <3> QED
      BY <2>1, <2>6, <3>1
  <2> QED
    BY <2>1, <2>3, <2>4, <2>5, <2>6 DEF Covered, Remembered
<1> QED
  BY <1>7, <1>8, <1>9 DEF IngestionInv, CursorInv

LEMMA BeginsSound == Init => IngestionInv
<1> SUFFICES ASSUME Init PROVE IngestionInv
  OBVIOUS
<1>1. IngestionTypeOK
  <2>1. NoJob \in JobRecord /\ NoJob.status = None
    BY RowTypes DEF Numbers
  <2>2. JobsOK(jobs)
    BY <2>1 DEF Init, JobsOK
  <2>3. WorkersOK(workers)
    BY RestFits DEF Init, WorkersOK, Fits
  <2>4. sync \in SyncRecord
    BY DEF Init, NoSync, SyncRecord
  <2>5. paper \in [Papers -> [version : Numbers, text : BOOLEAN]] /\ ledger \in [Papers -> Numbers]
    BY DEF Init, Numbers
  <2> QED
    BY <2>2, <2>3, <2>4, <2>5 DEF Init, IngestionTypeOK
<1>2. CursorInv
  <2>1. RowsBeginEmpty
    BY DEF Init, RowsBeginEmpty, NoJob
  <2>2. SyncIsSound
    BY DaysAreNumbers DEF Init, SyncIsSound, NoSync
  <2>3. AnnouncedBy(cursor) = {}
    BY DaysAreNumbers DEF Init, AnnouncedBy
  <2> QED
    BY <2>1, <2>2, <2>3 DEF CursorInv, CursorCovers
<1>3. InstallInv
  <2>1. KeysTell
    BY DEF Init, KeysTell, Stored
  <2>2. DOMAIN manifests = {} /\ receipts = {} /\ manifests = [m \in DOMAIN manifests |-> manifests[m]]
    BY DEF Init
  <2>3. \A w \in Workers : ~Holds(w)
    BY DEF Init, Holds, AtRest, LockPlaces
  <2> QED
    BY <2>1, <2>2, <2>3 DEF InstallInv, ManifestsTell, OneHolds, ReceiptsTell, Recorded
<1> QED
  BY <1>1, <1>2, <1>3 DEF IngestionInv

LEMMA WorkerKeeps ==
    ASSUME IngestionInv, NEW w \in Workers, WorkerStep(w) \/ ClaimJob(w) \/ Renew(w) \/ Release(w) \/ Crash(w) \/ StageFails(w)
    PROVE  IngestionInv'
<1>1. CASE CheckRevision(w)
  BY <1>1, CheckQuiet, QuietKeeps DEF IngestionInv, CursorInv
<1>2. CASE Resume(w)
  BY <1>2, ResumeKeeps
<1>3. CASE Build(w)
  BY <1>3, BuildKeeps
<1>4. CASE Prepare(w)
  BY <1>4, PrepareKeeps
<1>5. CASE RecordPrepared(w)
  BY <1>5, RecordKeeps
<1>6. CASE SendWrite(w)
  BY <1>6, SendKeeps
<1>7. CASE LandWrite(w)
  BY <1>7, LandKeeps
<1>8. CASE Verify(w)
  BY <1>8, VerifyKeeps
<1>9. CASE Clean(w)
  BY <1>9, CleanKeeps
<1>10. CASE SetFlag(w)
  BY <1>10, FlagKeeps
<1>11. CASE WriteReceipt(w)
  BY <1>11, ReceiptKeeps
<1>12. CASE LookAgain(w)
  BY <1>12, LegacyLook, QuietKeeps DEF IngestionInv, InstallInv, CursorInv
<1>13. CASE InstallGate(w)
  BY <1>13, LegacyGate, QuietKeeps DEF IngestionInv
<1>14. CASE UpsertChunks(w)
  BY <1>14, UpsertKeeps
<1>15. CASE DeleteStale(w)
  BY <1>15, StaleKeeps
<1>16. CASE Complete(w)
  BY <1>16, CompleteQuiet, QuietKeeps DEF IngestionInv
<1>17. CASE LeaseLost(w)
  BY <1>17, LeaseLostQuiet, QuietKeeps DEF IngestionInv
<1>18. CASE ClaimJob(w)
  BY <1>18, ClaimQuiet, QuietKeeps DEF IngestionInv
<1>19. CASE Renew(w)
  BY <1>19, RenewQuiet, QuietKeeps DEF IngestionInv
<1>20. CASE Release(w)
  BY <1>20, ReleaseQuiet, QuietKeeps DEF IngestionInv
<1>21. CASE Crash(w)
  BY <1>21, CrashQuiet, QuietKeeps DEF IngestionInv
<1>22. CASE StageFails(w)
  BY <1>22, FailQuiet, QuietKeeps DEF IngestionInv, StageFails
<1> QED
  BY <1>1, <1>2, <1>3, <1>4, <1>5, <1>6, <1>7, <1>8, <1>9, <1>10, <1>11, <1>12, <1>13, <1>14, <1>15, <1>16, <1>17,
     <1>18, <1>19, <1>20, <1>21, <1>22 DEF WorkerStep

LEMMA StutterKeeps ==
    ASSUME IngestionInv, UNCHANGED vars
    PROVE  IngestionInv'
<1>1. UNCHANGED <<profile, paper, chunks, jobs, ledger, manifests, receipts, legacy, cursor, sync, workers>>
  BY DEF vars
<1>2. ledger' \in [Papers -> Numbers] /\ WorkersOK(workers')
  BY <1>1 DEF IngestionInv, IngestionTypeOK
<1>3. Quiet
  BY <1>1, <1>2, JobsSame, QueueStep DEF IngestionInv
<1> QED
  BY <1>3, QuietKeeps

\* The invariant of every step.
LEMMA StepKeepsAll == IngestionInv /\ [Next]_vars => IngestionInv'
<1> SUFFICES ASSUME IngestionInv, [Next]_vars PROVE IngestionInv'
  OBVIOUS
<1>1. ASSUME NEW w \in Workers, WorkerStep(w) \/ ClaimJob(w) \/ Renew(w) \/ Release(w) \/ Crash(w) \/ StageFails(w)
      PROVE  IngestionInv'
  BY <1>1, WorkerKeeps
<1>2. ASSUME NEW p \in Papers, LeaseExpires(p) \/ RetryJob(p) \/ ResumeDeferred(p) \/ ResumeScope(p)
      PROVE  IngestionInv'
  BY <1>2, LeaseQuiet, RetryQuiet, DeferredQuiet, ScopeQuiet, QuietKeeps DEF IngestionInv, CursorInv
<1>3. ASSUME SyncStep \/ FetchFails \/ SyncDies
      PROVE  IngestionInv'
  BY <1>3, StartKeeps, PageKeeps, FailsKeeps, ApiKeeps, MetadataKeeps, OweKeeps, EnqueueKeeps, DayKeeps, ReconcileKeeps,
     DiesKeeps DEF SyncStep
<1>4. ASSUME LeaveLean \/ AdoptTarget
      PROVE  IngestionInv'
  BY <1>4, LeanKeeps, AdoptKeeps
<1> QED
  BY <1>1, <1>2, <1>3, <1>4, StutterKeeps DEF Next

THEOREM IngestionInvHolds == Spec => []IngestionInv
<1> QED
  BY BeginsSound, StepKeepsAll, PTL DEF Spec

\* The cursor never passes a version that nothing remembers: whatever the sources listed and
\* wherever the run died between the store and the queue, a stored version at least as new, a
\* job or a ledger entry accounts for every announcement up to it.
THEOREM CursorAlwaysCovers == Spec => []CursorCovers
<1>1. IngestionInv => CursorCovers
  BY DEF IngestionInv, CursorInv
<1> QED
  BY <1>1, IngestionInvHolds, PTL

\* The keys of what is whole hold its version.
LEMMA WholeIsRead ==
    ASSUME KeysTell, NEW p \in Papers, NEW v \in Versions
    PROVE  \A k \in Stored(p) \cap BoundKeys(v) : chunks[p][k] = v
BY KeyFacts DEF KeysTell

\* A receipt of the version that is stored means that the destination holds the chunks of that
\* version and no others, whatever earlier workers left behind when they died or were overtaken.
THEOREM ReceiptsAlwaysMean == Spec => []ReceiptMeansInstalled
<1>1. IngestionInv => ReceiptMeansInstalled
  <2> SUFFICES ASSUME IngestionInv, profile = "bound", NEW p \in Papers, <<p, paper[p].version>> \in receipts
               PROVE  chunks[p] = [k \in Keys(paper[p].version) |-> paper[p].version]
    BY DEF ReceiptMeansInstalled
  <2> DEFINE v == paper[p].version
  <2>1. v \in Versions /\ Exactly(p, v)
    BY DEF IngestionInv, InstallInv, ReceiptsTell, ManifestsTell, Announcements
  <2>2. Keys(v) = BoundKeys(v)
    BY <2>1, KeyFacts
  <2>3. chunks[p] = [k \in Stored(p) |-> chunks[p][k]] /\ \A k \in Stored(p) : chunks[p][k] = v
    BY <2>1, WholeIsRead DEF IngestionInv, InstallInv, KeysTell, Exactly
  <2> HIDE DEF v
  <2>4. chunks[p] = [k \in Keys(v) |-> v]
    BY <2>1, <2>2, <2>3 DEF Exactly
  <2> QED
    BY <2>4 DEF v
<1> QED
  BY <1>1, IngestionInvHolds, PTL

\* Once a bound destination serves the text of a paper, every later moment - of a replacement, a
\* crash or a takeover - leaves one complete version of it to search.
THEOREM AlwaysOneWhole == Spec => []NeverHalfReplaced
<1>1. IngestionInv => NeverHalfReplaced
  <2> SUFFICES ASSUME IngestionInv, profile = "bound", NEW p \in Papers, \E v \in Versions : <<p, v>> \in receipts
               PROVE  \E v \in Versions : Keys(v) \subseteq Stored(p) /\ \A k \in Keys(v) : chunks[p][k] = v
    BY DEF NeverHalfReplaced
  <2>1. PICK v \in Versions : Whole(p, v)
    BY DEF IngestionInv, InstallInv, ReceiptsTell
  <2>2. Keys(v) = BoundKeys(v)
    BY KeyFacts
  <2> QED
    BY <2>1, <2>2, WholeIsRead DEF Whole, IngestionInv, InstallInv
<1> QED
  BY <1>1, IngestionInvHolds, PTL

=============================================================================
