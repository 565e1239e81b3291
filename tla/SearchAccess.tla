------------------------------ MODULE SearchAccess ------------------------------
(***************************************************************************)
(* The public search of one API process around the engine                  *)
(* (api/search_execution.py): the daily quota that is reserved before the  *)
(* search and given back when it fails (search_access.py,                  *)
(* db/queries_quota.py, queries_anonymous_quota.py), and the bounded queue *)
(* and single writer of usage events (usage_tasks.py; the history of       *)
(* history_tasks.py is the same machine, fed by the searches that          *)
(* succeed).  What the engine finds is left out.                           *)
(***************************************************************************)
EXTENDS Naturals, Sequences, FiniteSets, SequencesExt

CONSTANTS
    Searches,    \* requests, each made once
    Users,       \* those of one signed-in user; the others are of one address
    Limit,       \* pool |-> searches per UTC day
    MinuteLimit, \* anonymous attempts per minute
    QueueSize,   \* background_queue_max_size
    MaxDay,      \* bound on the days that pass
    MaxMinutes   \* bound on the minutes that pass

Pools == {"user", "anonymous"}
Days == 1..MaxDay
PoolOf(s) == IF s \in Users THEN "user" ELSE "anonymous"

ASSUME SearchConstants ==
    /\ Users \subseteq Searches
    /\ Limit \in [Pools -> Nat]
    /\ {MinuteLimit, QueueSize, MaxDay, MaxMinutes} \subseteq Nat /\ MaxDay > 0
    /\ IsFiniteSet(Searches)

VARIABLES
    today,  \* the UTC day of the database
    minute, \* the minute, and the anonymous attempts in it
    used,   \* used_count of the rows of the two quota tables
    search, \* where each search is, its reservation and its answer
    queue,  \* the usage events accepted and not written
    writer, \* the event being written, or nothing
    events, \* the rows of usage_events
    api     \* whether the process serves, drains its queue or is down

vars == <<today, minute, used, search, queue, writer, events, api>>

\* row: the day whose row counts the search.  held: the day of the reservation
\* that the process holds.  0: none.
NoSearch == [at |-> "idle", row |-> 0, held |-> 0, compensated |-> FALSE, got |-> "none"]
Nothing == << >>

Search == [at : {"idle", "reserve", "reserved", "search", "enrich", "refund", "refunded", "done"},
           row : {0} \cup Days, held : {0} \cup Days, compensated : BOOLEAN,
           got : {"none", "refused", "failed", "answer"}]
Event == [id : Searches, units : {0, 1}]

Init ==
    /\ today = 1
    /\ minute = [now |-> 1, attempts |-> 0]
    /\ used = [p \in Pools |-> [d \in Days |-> 0]]
    /\ search = [s \in Searches |-> NoSearch]
    /\ queue = << >>
    /\ writer = Nothing
    /\ events = {}
    /\ api = "up"

Midnight ==
    /\ today < MaxDay
    /\ today' = today + 1
    /\ UNCHANGED <<minute, used, search, queue, writer, events, api>>

NextMinute ==
    /\ minute.now < MaxMinutes
    /\ minute' = [now |-> minute.now + 1, attempts |-> 0]
    /\ UNCHANGED <<today, used, search, queue, writer, events, api>>

-----------------------------------------------------------------------------
(* Usage events.                                                           *)

\* schedule_usage_event: an anonymous search has none, a full queue drops it.
Scheduled(s, units) ==
    IF s \in Users /\ Len(queue) < QueueSize
    THEN Append(queue, [id |-> s, units |-> units])
    ELSE queue

TakeEvent ==
    /\ writer = Nothing /\ queue # << >>
    /\ writer' = <<Head(queue)>>
    /\ queue' = Tail(queue)
    /\ UNCHANGED <<today, minute, used, search, events, api>>

\* One row for a request id; a write that fails is only logged.
WriteEvent ==
    /\ writer # Nothing
    /\ events' \in {events, IF \E e \in events : e.id = writer[1].id
                            THEN events ELSE events \cup {writer[1]}}
    /\ writer' = Nothing
    /\ UNCHANGED <<today, minute, used, search, queue, api>>

-----------------------------------------------------------------------------
(* One search.                                                             *)

Ended(s, got) == [search EXCEPT ![s] = [@ EXCEPT !.at = "done", !.got = got]]

\* The minute window of an address is charged for every attempt.
Arrive(s) ==
    /\ api = "up" /\ search[s].at = "idle"
    /\ \/ /\ s \in Users
          /\ search' = [search EXCEPT ![s] = [@ EXCEPT !.at = "reserve"]]
          /\ UNCHANGED minute
       \/ /\ s \notin Users /\ minute.attempts < MinuteLimit
          /\ minute' = [minute EXCEPT !.attempts = @ + 1]
          /\ search' = [search EXCEPT ![s] = [@ EXCEPT !.at = "reserve"]]
       \/ /\ s \notin Users /\ minute.attempts >= MinuteLimit
          /\ search' = Ended(s, "refused")
          /\ UNCHANGED minute
    /\ UNCHANGED <<today, used, queue, writer, events, api>>

\* _RESERVE_SQL: one row is inserted or counted up below the limit.
MayReserve(p) == used[p][today] < Limit[p]

Reserve(s) ==
    LET p == PoolOf(s) IN
    /\ search[s].at = "reserve"
    /\ \/ /\ MayReserve(p)
          /\ used' = [used EXCEPT ![p][today] = @ + 1]
          /\ search' = [search EXCEPT ![s] = [@ EXCEPT !.at = "reserved", !.row = today]]
       \/ /\ ~MayReserve(p)
          /\ search' = Ended(s, "refused")
          /\ UNCHANGED used
    /\ UNCHANGED <<today, minute, queue, writer, events, api>>

Reserved(s) ==
    /\ search[s].at = "reserved"
    /\ search' = [search EXCEPT ![s] = [@ EXCEPT !.at = "search", !.held = search[s].row]]
    /\ UNCHANGED <<today, minute, used, queue, writer, events, api>>

\* The database fails or the request is cancelled, before the statement or
\* after its commit: there is no reservation to give back.
ReserveFails(s) ==
    /\ search[s].at \in {"reserve", "reserved"}
    /\ search' = Ended(s, "failed")
    /\ UNCHANGED <<today, minute, used, queue, writer, events, api>>

\* Mutant of Found: the charge is recorded as soon as the engine has answered.
FoundAndRecorded(s) ==
    /\ search[s].at = "search"
    /\ search' = [search EXCEPT ![s] = [@ EXCEPT !.at = "enrich"]]
    /\ queue' = Scheduled(s, 1)
    /\ UNCHANGED <<today, minute, used, writer, events, api>>

\* SearchEngine.search.
Found(s) ==
    /\ search[s].at = "search"
    /\ search' = [search EXCEPT ![s] = [@ EXCEPT !.at = "enrich"]]
    /\ UNCHANGED <<today, minute, used, queue, writer, events, api>>

\* An error or a cancellation of the engine, an error of the enrichment:
\* compensate_search_quota marks the reservation before its statement.
Fails(s) ==
    /\ search[s].at \in {"search", "enrich"}
    /\ ~search[s].compensated
    /\ search' = [search EXCEPT ![s] = [@ EXCEPT !.at = "refund", !.compensated = TRUE]]
    /\ UNCHANGED <<today, minute, used, queue, writer, events, api>>

\* A cancelled enrichment is caught by nobody: no refund and no event.
EnrichmentCancelled(s) ==
    /\ search[s].at = "enrich"
    /\ search' = Ended(s, "failed")
    /\ UNCHANGED <<today, minute, used, queue, writer, events, api>>

\* Mutant of Refund: the row of today is counted down.
RefundToday(s) ==
    LET p == PoolOf(s) IN
    /\ search[s].at = "refund"
    /\ used' = [used EXCEPT ![p][today] = IF @ > 0 THEN @ - 1 ELSE @]
    /\ search' = [search EXCEPT ![s] = [@ EXCEPT !.at = "refunded", !.row = 0]]
    /\ UNCHANGED <<today, minute, queue, writer, events, api>>

\* _DECREMENT_SQL, for the day that was charged.
Refund(s) ==
    LET p == PoolOf(s)  d == search[s].held IN
    /\ search[s].at = "refund"
    /\ used' = [used EXCEPT ![p][d] = IF @ > 0 THEN @ - 1 ELSE @]
    /\ search' = [search EXCEPT ![s] = [@ EXCEPT !.at = "refunded", !.row = 0]]
    /\ UNCHANGED <<today, minute, queue, writer, events, api>>

\* Mutant of Reported: a refund whose answer was lost is tried again.
ReportedOrRetried(s) ==
    /\ search[s].at \in {"refund", "refunded"}
    /\ \/ /\ search' = Ended(s, "failed")
          /\ queue' = Scheduled(s, 0)
       \/ /\ search' = [search EXCEPT ![s] = [@ EXCEPT !.at = "refund"]]
          /\ UNCHANGED queue
    /\ UNCHANGED <<today, minute, used, writer, events, api>>

\* The refund answered, or failed before or after its commit.
Reported(s) ==
    /\ search[s].at \in {"refund", "refunded"}
    /\ search' = Ended(s, "failed")
    /\ queue' = Scheduled(s, 0)
    /\ UNCHANGED <<today, minute, used, writer, events, api>>

RefundCancelled(s) ==
    /\ search[s].at \in {"refund", "refunded"}
    /\ search' = Ended(s, "failed")
    /\ UNCHANGED <<today, minute, used, queue, writer, events, api>>

\* The response, degraded or not; the events are scheduled before it leaves.
Answer(s) ==
    /\ search[s].at = "enrich"
    /\ search' = Ended(s, "answer")
    /\ queue' = Scheduled(s, 1)
    /\ UNCHANGED <<today, minute, used, writer, events, api>>

-----------------------------------------------------------------------------
(* The shutdown of the process, after its last request.                    *)

Shutdown ==
    /\ api = "up"
    /\ \A s \in Searches : search[s].at \in {"idle", "done"}
    /\ api' = "draining"
    /\ UNCHANGED <<today, minute, used, search, queue, writer, events>>

\* drain_usage_tasks: queue.join, and then the writer is cancelled.
Joined == queue = << >> /\ writer = Nothing

Drained ==
    /\ api = "draining" /\ Joined
    /\ api' = "down"
    /\ queue' = << >>
    /\ writer' = Nothing
    /\ UNCHANGED <<today, minute, used, search, events>>

Next ==
    \/ Midnight \/ NextMinute
    \/ TakeEvent \/ WriteEvent
    \/ Shutdown \/ Drained
    \/ \E s \in Searches :
          \/ Arrive(s) \/ Reserve(s) \/ Reserved(s) \/ ReserveFails(s)
          \/ Found(s) \/ Fails(s) \/ EnrichmentCancelled(s)
          \/ Refund(s) \/ Reported(s) \/ RefundCancelled(s) \/ Answer(s)

Spec == Init /\ [][Next]_vars

-----------------------------------------------------------------------------
(* Properties.                                                             *)

CountedOn(p, d) == {s \in Searches : PoolOf(s) = p /\ search[s].row = d}

\* Every row, reservation and event is of its type.
SearchTypeOK ==
    /\ today \in Days
    /\ minute \in [now : Nat, attempts : Nat]
    /\ used \in [Pools -> [Days -> Nat]]
    /\ search \in [Searches -> Search]
    /\ queue \in Seq(Event) /\ Len(queue) <= QueueSize
    /\ writer \in {Nothing} \cup {<<e>> : e \in Event}
    /\ events \subseteq Event
    /\ api \in {"up", "draining", "down"}

\* The row of a day counts exactly the searches that were charged on it and not
\* given back, whatever day it is when they are.
ChargesAreCounted ==
    \A p \in Pools, d \in Days : used[p][d] = Cardinality(CountedOn(p, d))

\* However the refunds of other searches fall between, before or after midnight,
\* nobody gets more answers on the account of a day than its limit.
AnswersWithinLimit ==
    \A p \in Pools, d \in Days :
        Cardinality({s \in Searches : /\ PoolOf(s) = p /\ search[s].held = d
                                      /\ search[s].got = "answer"}) <= Limit[p]

\* Usage agrees with the quota: an event with a unit is that of an answer which
\* is still charged, one without is that of a search that gave no answer.
UsageIsTruthful ==
    \A e \in events \cup ToSet(queue) \cup ToSet(writer) :
        /\ e.units = 1 <=> search[e.id].got = "answer"
        /\ e.units = 1 => search[e.id].row = search[e.id].held

\* Both, of one row: it counts what it stands for, and what it stands for is within the limit.
QuotaIsKept == ChargesAreCounted /\ AnswersWithinLimit

=============================================================================
