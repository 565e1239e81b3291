------------------------------- MODULE WebExtract -------------------------------
(***************************************************************************)
(* The extraction service of one container (web_extract/): one event loop, *)
(* the callers' requests, the static work that callers of one URL share    *)
(* (singleflight.py), the FIFO gates (admission.py), the two serial worker *)
(* processes (worker_supervisor.py), the memory envelopes                  *)
(* (reservations.py) and the scratch files (spool.py).                     *)
(*                                                                         *)
(* A job is one run of engine._perform: the static work of a key, or the   *)
(* work that a caller does for itself, static or in the browser.  A step   *)
(* is a run of one coroutine up to its next await, or shorter.             *)
(***************************************************************************)
EXTENDS Integers, Sequences, FiniteSets, SequencesExt

CONSTANTS
    Callers,    \* requests, each made once
    Keys,       \* URLs asked for without headers or cookies
    Slots,      \* gate |-> its permits
    MaxWaiters, \* gate |-> the length of its queue
    MaxShared,  \* callers of one flight
    Cost,       \* stage |-> its memory envelope; "body" is a download with its body
    High,       \* the memory budget
    Samples,    \* working sets that the cgroup may report
    Limit,      \* scratch reserved for a file; one unit once it is sealed
    MaxScratch, \* Spool.max_bytes
    MaxKills    \* bound on the workers that die or are reclaimed

Jobs == Keys \cup Callers
Workers == {"parser", "browser"}
Gates == {"download"} \cup Workers

ASSUME ExtractConstants ==
    /\ Keys \cap Callers = {}
    /\ IsFiniteSet(Jobs)
    /\ Slots \in [Gates -> Nat \ {0}]
    /\ \A w \in Workers : Slots[w] = 1
    /\ MaxWaiters \in [Gates -> Nat]
    /\ Cost \in [{"download", "body", "parser", "browser", "startup"} -> Nat]
    /\ {MaxShared, High, MaxScratch, MaxKills} \subseteq Nat
    /\ Limit \in Nat \ {0}
    /\ Samples \subseteq Nat

VARIABLES
    caller,   \* where each request is
    flight,   \* key |-> callers that wait for its work, for the keys in flight
    job,      \* where each job is, and the envelope and files it owns
    gate,     \* the gates: permits given, queue, futures that are already done
    worker,   \* the two processes, and the startup allowance of each
    reserved, \* MemoryBudget.reserved_bytes
    scratch,  \* Spool.reserved_bytes
    kills

vars == <<caller, flight, job, gate, worker, reserved, scratch, kills>>

NoJob ==
    [at |-> "none", stage |-> "download", rendered |-> FALSE, asked |-> "no", then |-> "fail",
     attempt |-> 0, permit |-> FALSE, amount |-> 0, body |-> 0, result |-> 0, out |-> "none"]

\* owed: the jobs written to the process whose replies were not read yet.
NoProcess == [proc |-> "none", owed |-> << >>, startup |-> 0]

Init ==
    /\ caller = [c \in Callers |-> [at |-> "idle", key |-> CHOOSE k \in Keys : TRUE, got |-> "none"]]
    /\ flight = << >>
    /\ job = [j \in Jobs |-> NoJob]
    /\ gate = [g \in Gates |-> [active |-> 0, queue |-> << >>, granted |-> {}, cancelled |-> {}]]
    /\ worker = [w \in Workers |-> [NoProcess EXCEPT !.proc = "ready"]]
    /\ reserved = 0
    /\ scratch = 0
    /\ kills = 0

NewJob(rendered) == [NoJob EXCEPT !.at = "new", !.rendered = rendered]

-----------------------------------------------------------------------------
(* Gates.                                                                  *)

\* BoundedGate.release: the slot goes to the first waiter whose future is not done.
Released(q) ==
    LET live == {i \in DOMAIN q.queue : q.queue[i] \notin q.cancelled} IN
    IF live = {}
    THEN [q EXCEPT !.active = @ - 1, !.queue = << >>]
    ELSE LET i == Min(live) IN
         [q EXCEPT !.queue = SubSeq(@, i + 1, Len(@)), !.granted = @ \cup {q.queue[i]}]

\* What the job holds when it ends: fetched.close and the except branches of
\* fetch and render.  G: the gates after the worker's slot was given back.
Ends(j, out, G) ==
    /\ job' = [job EXCEPT ![j] = [NoJob EXCEPT !.at = "done", !.out = out]]
    /\ gate' = IF job[j].permit THEN [G EXCEPT !["download"] = Released(G["download"])] ELSE G
    /\ reserved' = reserved - job[j].amount
    /\ scratch' = scratch - job[j].body - job[j].result

\* BoundedGate.acquire up to its await, for the job record r.
Acquire(j, r, g, G) ==
    \/ /\ G[g].active < Slots[g] /\ G[g].queue = << >>
       /\ gate' = [G EXCEPT ![g].active = @ + 1]
       /\ job' = [job EXCEPT ![j] = [r EXCEPT !.at = "slot", !.stage = g,
                                              !.permit = @ \/ g = "download"]]
    \/ /\ ~(G[g].active < Slots[g] /\ G[g].queue = << >>)
       /\ Len(G[g].queue) < MaxWaiters[g]
       /\ gate' = [G EXCEPT ![g].queue = Append(@, j)]
       /\ job' = [job EXCEPT ![j] = [r EXCEPT !.at = "queue", !.stage = g]]

Full(g, G) ==
    /\ ~(G[g].active < Slots[g] /\ G[g].queue = << >>)
    /\ Len(G[g].queue) >= MaxWaiters[g]

Begin(j) ==
    /\ job[j].at = "new"
    /\ LET g == IF job[j].rendered THEN "browser" ELSE "download" IN
       \/ /\ job[j].asked = "no"
          /\ Acquire(j, job[j], g, gate)
          /\ UNCHANGED <<reserved, scratch>>
       \/ /\ job[j].asked # "no" \/ Full(g, gate)
          /\ Ends(j, "fail", gate)
    /\ UNCHANGED <<caller, flight, worker, kills>>

Granted(j) ==
    LET g == job[j].stage IN
    /\ job[j].at = "queue" /\ job[j].asked = "no"
    /\ j \in gate[g].granted
    /\ gate' = [gate EXCEPT ![g].granted = @ \ {j}]
    /\ job' = [job EXCEPT ![j].at = "slot", ![j].permit = @ \/ g = "download"]
    /\ UNCHANGED <<caller, flight, worker, reserved, scratch, kills>>

\* Mutant of GivesUp: a grant that raced the cancellation is forgotten.
GivesUpTheWait(j) ==
    LET g == job[j].stage IN
    [gate EXCEPT ![g].queue = RemoveFirst(@, j),
                 ![g].cancelled = @ \ {j}, ![g].granted = @ \ {j}]

\* acquire's except branch: a grant that raced the cancellation is given back.
GivesUp(j) ==
    LET g == job[j].stage
        q == gate[g] IN
    IF j \in q.granted
    THEN [gate EXCEPT ![g] = Released([q EXCEPT !.granted = @ \ {j}])]
    ELSE [gate EXCEPT ![g].queue = RemoveFirst(@, j), ![g].cancelled = @ \ {j}]

NotAdmitted(j) ==
    /\ job[j].at = "queue" /\ job[j].asked # "no"
    /\ Ends(j, "fail", GivesUp(j))
    /\ UNCHANGED <<caller, flight, worker, kills>>

-----------------------------------------------------------------------------
(* Cancellation.                                                           *)

\* task.cancel(): a future that is still pending is cancelled at once, any
\* other await of the task raises when the task runs again.
Cancelled(J, j, why) ==
    [J EXCEPT ![j].asked = IF J[j].at \in {"none", "done"} THEN @ ELSE why]

CancelledWait(j) ==
    IF job[j].at = "queue" /\ j \notin gate[job[j].stage].granted
    THEN [gate EXCEPT ![job[j].stage].cancelled = @ \cup {j}]
    ELSE gate

\* A timeout of a wait, of the download, of a startup, or of the shared work.
TimesOut(j) ==
    /\ \/ job[j].at \in {"queue", "fetch", "closing", "spawn"}
       \/ j \in Keys /\ job[j].at \notin {"none", "done"}
    /\ job[j].asked = "no"
    /\ job' = Cancelled(job, j, "timeout")
    /\ gate' = CancelledWait(j)
    /\ UNCHANGED <<caller, flight, worker, reserved, scratch, kills>>

-----------------------------------------------------------------------------
(* Memory and scratch.                                                     *)

\* MemoryBudget._replace with the working set s.
Fits(s, old, new) == s + reserved - old + new <= High
Pressure(s, new, startup) == (s + new > High \/ startup) /\ new <= High

-----------------------------------------------------------------------------
(* Downloads.                                                              *)

StartFetch(j) ==
    /\ job[j].at = "slot" /\ job[j].stage = "download"
    /\ \E s \in Samples :
       \/ /\ Fits(s, job[j].amount, Cost["download"])
          /\ job' = [job EXCEPT ![j].at = "fetch", ![j].amount = Cost["download"]]
          /\ reserved' = reserved - job[j].amount + Cost["download"]
          /\ UNCHANGED <<gate, scratch>>
       \/ /\ ~Fits(s, job[j].amount, Cost["download"])
          /\ Ends(j, "fail", gate)
    /\ UNCHANGED <<caller, flight, worker, kills>>

\* The response is there: a scratch file of the full size, then the chunks.
ReadBody(j) ==
    /\ job[j].at = "fetch" /\ job[j].asked = "no" /\ job[j].body = 0
    /\ scratch + Limit <= MaxScratch
    /\ \E s \in Samples : Fits(s, job[j].amount, Cost["body"])
    /\ job' = [job EXCEPT ![j].body = Limit, ![j].amount = Cost["body"]]
    /\ reserved' = reserved - job[j].amount + Cost["body"]
    /\ scratch' = scratch + Limit
    /\ UNCHANGED <<caller, flight, gate, worker, kills>>

\* A transient error before or in the body, and the second attempt.
RetryFetch(j) ==
    /\ job[j].at = "fetch" /\ job[j].asked = "no" /\ job[j].attempt = 0
    /\ \E s \in Samples : Fits(s, job[j].amount, Cost["download"])
    /\ job' = [job EXCEPT ![j].attempt = 1, ![j].body = 0, ![j].amount = Cost["download"]]
    /\ reserved' = reserved - job[j].amount + Cost["download"]
    /\ scratch' = scratch - job[j].body
    /\ UNCHANGED <<caller, flight, gate, worker, kills>>

FetchFails(j) ==
    /\ job[j].at = "fetch"
    /\ Ends(j, "fail", gate)
    /\ UNCHANGED <<caller, flight, worker, kills>>

\* The result is built; a connector of its own, for a request with headers or
\* cookies, is closed before _fetch returns it.
CloseConnector(j) ==
    /\ job[j].at = "fetch" /\ job[j].asked = "no" /\ job[j].body > 0
    /\ j \in Callers
    /\ job' = [job EXCEPT ![j].at = "closing"]
    /\ UNCHANGED <<caller, flight, gate, worker, reserved, scratch, kills>>

\* The file is sealed, and the job goes on to the parser with its permit.
ToParser(j, r, G) ==
    \/ /\ Acquire(j, [r EXCEPT !.body = 1, !.attempt = 0], "parser", G)
       /\ scratch' = scratch - job[j].body + 1
       /\ reserved' = reserved - job[j].amount + r.amount
    \/ /\ Full("parser", G)
       /\ Ends(j, "fail", G)

Fetched(j) ==
    /\ job[j].asked = "no" /\ job[j].body > 0
    /\ job[j].at = IF j \in Callers THEN "closing" ELSE "fetch"
    /\ \/ ToParser(j, job[j], gate)
       \/ Ends(j, "fail", gate)
    /\ UNCHANGED <<caller, flight, worker, kills>>

\* The await that is interrupted drops the result, and with it the only
\* reference to the file: the branch of fetch that closes it has none.
ResultLost(j) ==
    /\ job[j].at = "closing" /\ job[j].asked # "no"
    /\ job' = [job EXCEPT ![j] = [NoJob EXCEPT !.at = "done", !.out = "fail"]]
    /\ gate' = [gate EXCEPT !["download"] = Released(gate["download"])]
    /\ reserved' = reserved - job[j].amount
    /\ UNCHANGED <<caller, flight, worker, scratch, kills>>

-----------------------------------------------------------------------------
(* The serial workers.                                                     *)

Sibling(w) == IF w = "parser" THEN "browser" ELSE "parser"
SlotBack(j) == [gate EXCEPT ![job[j].stage] = Released(gate[job[j].stage])]
Preparing(j) == job[j].at \in {"slot", "started"} /\ job[j].stage \in Workers
WorkerOf(j) == worker[job[j].stage]

\* A process that is starting is new: nothing of an earlier one is left.
StartWorker(j) ==
    LET w == job[j].stage IN
    /\ job[j].at = "slot" /\ w \in Workers
    /\ worker[w].proc = "none"
    /\ \E s \in Samples : Fits(s, 0, Cost["startup"])
    /\ worker' = [worker EXCEPT ![w].proc = "starting", ![w].startup = Cost["startup"]]
    /\ reserved' = reserved + Cost["startup"]
    /\ job' = [job EXCEPT ![j].at = "spawn"]
    /\ UNCHANGED <<caller, flight, gate, scratch, kills>>

WorkerReady(j) ==
    LET w == job[j].stage IN
    /\ job[j].at = "spawn" /\ job[j].asked = "no"
    /\ worker[w].proc = "starting"
    /\ worker' = [worker EXCEPT ![w].proc = "ready", ![w].startup = 0]
    /\ reserved' = reserved - worker[w].startup
    /\ job' = [job EXCEPT ![j].at = "started"]
    /\ UNCHANGED <<caller, flight, gate, scratch, kills>>

\* close: the process and its family are killed and awaited.
Stops(j, then) == job' = [job EXCEPT ![j].at = "stop", ![j].then = then]

StartFails(j) ==
    /\ job[j].at = "spawn"
    /\ job[j].asked # "no" \/ WorkerOf(j).proc # "starting"
    /\ Stops(j, "fail")
    /\ UNCHANGED <<caller, flight, gate, worker, reserved, scratch, kills>>

\* A process that died while idle is reaped before its successor starts.
ReapDead(j) ==
    /\ job[j].at = "slot" /\ job[j].stage \in Workers
    /\ WorkerOf(j).proc = "dead"
    /\ Stops(j, "slot")
    /\ UNCHANGED <<caller, flight, gate, worker, reserved, scratch, kills>>

\* message() and the write: the envelope of the stage, a file for the result,
\* and the job goes to the process.
Dispatch(j) ==
    LET w == job[j].stage IN
    /\ Preparing(j)
    /\ job[j].at = "started" \/ worker[w].proc = "ready"
    /\ \E s \in Samples : Fits(s, job[j].amount, Cost[w])
    /\ scratch + Limit <= MaxScratch
    /\ job' = [job EXCEPT ![j].at = "run", ![j].amount = Cost[w],
                          ![j].body = IF w = "browser" THEN Limit ELSE @,
                          ![j].result = IF w = "parser" THEN Limit ELSE @]
    /\ reserved' = reserved - job[j].amount + Cost[w]
    /\ scratch' = scratch + Limit
    /\ worker' = IF worker[w].proc = "ready"
                 THEN [worker EXCEPT ![w].owed = Append(@, j)]
                 ELSE worker
    /\ UNCHANGED <<caller, flight, gate, kills>>

\* Admission is paused, the budget or the scratch is exhausted.
NotPrepared(j) ==
    /\ Preparing(j)
    /\ Ends(j, "fail", SlotBack(j))
    /\ UNCHANGED <<caller, flight, worker, kills>>

\* The first RetainedMemoryPressureError: the idle sibling is retired, or else
\* this worker; the slot and the input are kept.
Pressured(j) ==
    LET w == job[j].stage
        s == Sibling(w)
        starts == job[j].at = "slot" /\ worker[w].proc = "none"
        new == Cost[IF starts THEN "startup" ELSE w] IN
    /\ Preparing(j) /\ job[j].attempt = 0
    /\ starts \/ job[j].at = "started" \/ worker[w].proc = "ready"
    /\ \E x \in Samples :
          /\ ~Fits(x, IF starts THEN 0 ELSE job[j].amount, new)
          /\ Pressure(x, new, starts)
    /\ IF worker[s].proc # "none" /\ gate[s].active = 0 /\ gate[s].queue = << >>
       THEN /\ gate' = [gate EXCEPT ![s].active = @ + 1]
            /\ job' = [job EXCEPT ![j].at = "recover", ![j].attempt = 1]
       ELSE /\ job' = [job EXCEPT ![j].at = "stop", ![j].then = "slot", ![j].attempt = 1]
            /\ UNCHANGED gate
    /\ UNCHANGED <<caller, flight, worker, reserved, scratch, kills>>

\* close_if_idle has closed the sibling; a second error or a timeout gives up.
RecoverEnds(j) ==
    LET s == Sibling(job[j].stage)
        G == [gate EXCEPT ![s] = Released(gate[s])] IN
    /\ job[j].at = "recover"
    /\ worker' = [worker EXCEPT ![s] = NoProcess]
    /\ \/ /\ job[j].asked = "no"
          /\ job' = [job EXCEPT ![j].at = "slot"]
          /\ gate' = G
          /\ UNCHANGED <<reserved, scratch>>
       \/ /\ job[j].asked # "no"
          /\ Stops(j, "fail")
          /\ gate' = G
          /\ UNCHANGED <<reserved, scratch>>
       \/ Ends(j, "fail", [G EXCEPT ![job[j].stage] = Released(G[job[j].stage])])
    /\ UNCHANGED <<caller, flight, kills>>

\* The reply at the head of the pipe; a worker to be recycled is closed first.
ReadReply(j) ==
    LET w == job[j].stage IN
    /\ job[j].at = "run" /\ job[j].asked = "no"
    /\ worker[w].proc = "ready" /\ worker[w].owed # << >>
    /\ worker' = [worker EXCEPT ![w].owed = Tail(@)]
    /\ \/ job' = [job EXCEPT ![j].at = "replied"]
       \/ Stops(j, "replied")
    /\ UNCHANGED <<caller, flight, gate, reserved, scratch, kills>>

\* Mutant of CallFails: a cancelled call leaves its worker running.
CallLeavesWorker(j) ==
    /\ job[j].at = "run"
    /\ job[j].asked # "no" \/ WorkerOf(j).proc # "ready"
    /\ IF WorkerOf(j).proc = "ready"
       THEN Ends(j, "fail", SlotBack(j))
       ELSE Stops(j, "fail") /\ UNCHANGED <<gate, reserved, scratch>>
    /\ UNCHANGED <<caller, flight, worker, kills>>

\* call's except branches: cancelled, or the process is gone.
CallFails(j) ==
    /\ job[j].at = "run"
    /\ job[j].asked # "no" \/ WorkerOf(j).proc # "ready"
    /\ Stops(j, "fail")
    /\ UNCHANGED <<caller, flight, gate, worker, reserved, scratch, kills>>

\* Mutant of StopEnds: the allowance of a startup that failed is not released.
StopKeepsAllowance(j) ==
    LET w == job[j].stage IN
    /\ job[j].at = "stop"
    /\ worker' = [worker EXCEPT ![w] = NoProcess]
    /\ IF job[j].asked = "no" /\ job[j].then # "fail"
       THEN /\ job' = [job EXCEPT ![j].at = job[j].then]
            /\ UNCHANGED <<gate, reserved, scratch>>
       ELSE Ends(j, "fail", SlotBack(j))
    /\ UNCHANGED <<caller, flight, kills>>

\* The startup allowance is kept until the process is reaped.
StopEnds(j) ==
    LET w == job[j].stage IN
    /\ job[j].at = "stop"
    /\ worker' = [worker EXCEPT ![w] = NoProcess]
    /\ \/ /\ job[j].asked = "no" /\ job[j].then # "fail"
          /\ job' = [job EXCEPT ![j].at = job[j].then]
          /\ UNCHANGED <<gate, reserved, scratch>>
       \/ /\ job[j].asked # "no" \/ job[j].then = "fail"
          /\ job' = [job EXCEPT ![j] = [NoJob EXCEPT !.at = "done", !.out = "fail"]]
          /\ gate' = LET G == SlotBack(j) IN
                     IF job[j].permit THEN [G EXCEPT !["download"] = Released(G["download"])] ELSE G
          /\ reserved' = reserved - job[j].amount - worker[w].startup
          /\ scratch' = scratch - job[j].body - job[j].result
    /\ UNCHANGED <<caller, flight, kills>>

Parsed(j) ==
    /\ job[j].at = "replied" /\ job[j].stage = "parser"
    /\ \E out \in {"doc", "fail"} \cup IF job[j].rendered THEN {} ELSE {"render"} :
          Ends(j, out, SlotBack(j))
    /\ UNCHANGED <<caller, flight, worker, kills>>

Rendered(j) ==
    /\ job[j].at = "replied" /\ job[j].stage = "browser"
    /\ \/ /\ \E s \in Samples : Fits(s, job[j].amount, Cost["body"])
          /\ ToParser(j, [job[j] EXCEPT !.amount = Cost["body"]], SlotBack(j))
       \/ Ends(j, "fail", SlotBack(j))
    /\ UNCHANGED <<caller, flight, worker, kills>>

\* A worker crashes, or the memory guard reclaims it, busy or not.
Dies(w) ==
    /\ kills < MaxKills
    /\ worker[w].proc \in {"starting", "ready"}
    /\ worker' = [worker EXCEPT ![w].proc = "dead", ![w].owed = << >>]
    /\ kills' = kills + 1
    /\ UNCHANGED <<caller, flight, job, gate, reserved, scratch>>

\* The guard's close awaits the death.
Reclaimed(w) ==
    /\ worker[w].proc = "dead"
    /\ worker' = [worker EXCEPT ![w].proc = "none"]
    /\ UNCHANGED <<caller, flight, job, gate, reserved, scratch, kills>>

-----------------------------------------------------------------------------
(* Requests and flights.                                                   *)

\* Headers, cookies or render = always: the caller works for itself.
RequestOwn(c) ==
    /\ caller[c].at = "idle"
    /\ \E rendered \in BOOLEAN : job' = [job EXCEPT ![c] = NewJob(rendered)]
    /\ caller' = [caller EXCEPT ![c].at = "own"]
    /\ UNCHANGED <<flight, gate, worker, reserved, scratch, kills>>

\* Mutant of MayJoin: work whose last caller has left may still be joined.
MayJoinSettling(k) == Cardinality(flight[k]) < MaxShared

\* Singleflight.do up to its await.
MayJoin(k) == flight[k] # {} /\ Cardinality(flight[k]) < MaxShared

RequestShared(c, k) ==
    /\ caller[c].at = "idle"
    /\ \/ /\ k \notin DOMAIN flight
          /\ flight' = [x \in DOMAIN flight \cup {k} |-> IF x = k THEN {c} ELSE flight[x]]
          /\ job' = [job EXCEPT ![k] = NewJob(FALSE)]
          /\ caller' = [caller EXCEPT ![c].at = "shared", ![c].key = k]
       \/ /\ k \in DOMAIN flight
          /\ MayJoin(k)
          /\ flight' = [flight EXCEPT ![k] = @ \cup {c}]
          /\ caller' = [caller EXCEPT ![c].at = "shared", ![c].key = k]
          /\ UNCHANGED job
       \/ /\ k \in DOMAIN flight
          /\ ~MayJoin(k)
          /\ caller' = [caller EXCEPT ![c].at = "done", ![c].got = "fail"]
          /\ UNCHANGED <<flight, job>>
    /\ UNCHANGED <<gate, worker, reserved, scratch, kills>>

\* After the static work: the document, or a render of the caller's own.
\* J: the jobs, once a key that was freed has lost its own.
Continues(c, got, J) ==
    IF got = "render"
    THEN /\ job' = [J EXCEPT ![c] = NewJob(TRUE)]
         /\ caller' = [caller EXCEPT ![c].at = "own", ![c].got = "none"]
    ELSE /\ job' = J
         /\ caller' = [caller EXCEPT ![c].at = "done", ![c].got = got]

\* do's finally branch: the last caller to depart cancels and awaits the work.
Departs(c, got) ==
    LET k == caller[c].key
        left == flight[k] \ {c} IN
    /\ flight' = [flight EXCEPT ![k] = left]
    /\ IF left = {}
       THEN /\ job' = Cancelled(job, k, "cancel")
            /\ gate' = CancelledWait(k)
            /\ caller' = [caller EXCEPT ![c].at = "settling", ![c].got = got]
       ELSE /\ Continues(c, got, job)
            /\ UNCHANGED gate
    /\ UNCHANGED <<worker, reserved, scratch, kills>>

SharedEnds(c) ==
    /\ caller[c].at = "shared" /\ job[caller[c].key].at = "done"
    /\ Departs(c, job[caller[c].key].out)

\* Mutant of Settled: a caller that leaves during the cleanup does not free the key.
SettledUnlessLeft(c) ==
    LET k == caller[c].key IN
    /\ caller[c].at = "settling" /\ job[k].at = "done"
    /\ flight' = IF caller[c].got = "left" THEN flight ELSE [x \in DOMAIN flight \ {k} |-> flight[x]]
    /\ Continues(c, caller[c].got, [job EXCEPT ![k] = NoJob])
    /\ UNCHANGED <<gate, worker, reserved, scratch, kills>>

\* The key is free once the work has ended and its cleanup with it.
Settled(c) ==
    LET k == caller[c].key IN
    /\ caller[c].at = "settling" /\ job[k].at = "done"
    /\ flight' = [x \in DOMAIN flight \ {k} |-> flight[x]]
    /\ Continues(c, caller[c].got, [job EXCEPT ![k] = NoJob])
    /\ UNCHANGED <<gate, worker, reserved, scratch, kills>>

\* The deadline of the request, or its client disconnects.
Leave(c) ==
    /\ caller[c].got # "left"
    /\ \/ caller[c].at = "shared" /\ Departs(c, "left")
       \/ /\ caller[c].at = "settling"
          /\ caller' = [caller EXCEPT ![c].got = "left"]
          /\ UNCHANGED <<flight, job, gate, worker, reserved, scratch, kills>>
       \/ /\ caller[c].at = "own"
          /\ caller' = [caller EXCEPT ![c].got = "left"]
          /\ job' = Cancelled(job, c, "cancel")
          /\ gate' = CancelledWait(c)
          /\ UNCHANGED <<flight, worker, reserved, scratch, kills>>

OwnEnds(c) ==
    /\ caller[c].at = "own" /\ job[c].at = "done"
    /\ Continues(c, IF caller[c].got = "left" THEN "left" ELSE job[c].out, job)
    /\ UNCHANGED <<flight, gate, worker, reserved, scratch, kills>>

-----------------------------------------------------------------------------

Interrupted(j) ==
    NotAdmitted(j) \/ ResultLost(j) \/ (job[j].asked # "no" /\ FetchFails(j))
    \/ StartFails(j) \/ CallFails(j)

\* What the event loop runs without waiting for the network or a worker.
Runs(j) ==
    \/ Begin(j) \/ Granted(j) \/ StartFetch(j) \/ ReapDead(j) \/ StartWorker(j)
    \/ Dispatch(j) \/ NotPrepared(j) \/ Pressured(j) \/ RecoverEnds(j) \/ StopEnds(j)
    \/ Parsed(j) \/ Rendered(j) \/ Interrupted(j)

Resumes(c) == SharedEnds(c) \/ Settled(c) \/ OwnEnds(c)

Next ==
    \/ \E j \in Jobs :
          \/ Runs(j) \/ TimesOut(j)
          \/ ReadBody(j) \/ RetryFetch(j) \/ FetchFails(j) \/ CloseConnector(j) \/ Fetched(j)
          \/ WorkerReady(j) \/ ReadReply(j)
    \/ \E w \in Workers : Dies(w) \/ Reclaimed(w)
    \/ \E c \in Callers : RequestOwn(c) \/ Resumes(c) \/ Leave(c)
    \/ \E c \in Callers, k \in Keys : RequestShared(c, k)

\* The loop serves every ready task; waits, startups and shared work have
\* timers, and a request its deadline.  A worker may never answer.
Fairness ==
    /\ \A j \in Jobs : WF_vars(Runs(j)) /\ WF_vars(TimesOut(j))
    /\ \A c \in Callers : WF_vars(Resumes(c)) /\ WF_vars(Leave(c))

Spec == Init /\ [][Next]_vars /\ Fairness

-----------------------------------------------------------------------------
(* Properties.                                                             *)

\* The units of memory that are held: owner and number.
Held(amount) == {u \in (DOMAIN amount) \X (1..High) : u[2] <= amount[u[1]]}

Envelopes == [j \in Jobs |-> job[j].amount]
Allowances == [w \in Workers |-> worker[w].startup]

\* The memory budget counts exactly the envelopes of the jobs that execute and
\* the allowances of the processes that start, and never passes its limit.
MemoryIsBalanced ==
    /\ reserved = Cardinality(Held(Envelopes)) + Cardinality(Held(Allowances))
    /\ reserved <= High
    /\ scratch <= MaxScratch

Holders(g) ==
    {j \in Jobs :
        \/ job[j].stage = g /\ j \in gate[g].granted
        \/ g = "download" /\ job[j].permit
        \/ /\ g \in Workers /\ job[j].stage = g
           /\ job[j].at \in {"slot", "spawn", "started", "recover", "run", "replied", "stop"}
        \/ g \in Workers /\ job[j].stage = Sibling(g) /\ job[j].at = "recover"}

\* The permits of a gate are those of the jobs that hold one, also when a
\* cancellation races the grant, and nobody waits beside a free permit.
SlotsAreConserved ==
    \A g \in Gates :
        /\ gate[g].active = Cardinality(Holders(g))
        /\ gate[g].active <= Slots[g]
        /\ gate[g].queue # << >> => gate[g].active = Slots[g]

\* Whatever is cancelled, times out or dies while it is handed on: no permit and no memory
\* is given back twice, and none is kept by a job that has ended.
ResourcesAreBalanced == MemoryIsBalanced /\ SlotsAreConserved

\* Work that a caller still waits for is not cancelled: who leaves cancels only
\* when nobody can have joined, before or after.
SharedWorkIsWanted ==
    \A c \in Callers : caller[c].at = "shared" =>
        /\ c \in flight[caller[c].key]
        /\ job[caller[c].key].at # "none"
        /\ job[caller[c].key].asked # "cancel"

\* The reply that a caller will read is that of its own document: a worker whose
\* call was cancelled never serves the next one.
ReplyIsOwn ==
    /\ \A j \in Jobs : job[j].at = "run" => WorkerOf(j).owed \in {<< >>, <<j>>}
    /\ \A w \in Workers : gate[w].active = 0 => worker[w].owed = << >>

\* Every request ends, although a worker may never answer: the keys, the permits
\* and the memory are free again.
ServiceDrains ==
    <>[](/\ DOMAIN flight = {}
         /\ \A g \in Gates : gate[g].active = 0 /\ gate[g].queue = << >>
         /\ reserved = 0)

================================================================================
