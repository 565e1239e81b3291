--------------------------- MODULE PublicSearchProofs ---------------------------
(***************************************************************************)
(* The daily quota and the usage events of a search, for any number of     *)
(* searches, any limits and any number of days: first of SearchAccess      *)
(* alone, then of PublicSearch, whatever its pipeline answers and the      *)
(* command line asks.  And the answers of the pipeline, for any requests,  *)
(* any collections and any weights of its fusion.                          *)
(***************************************************************************)
EXTENDS PublicSearch, TLAPS, FiniteSetTheorems, SequenceTheorems, WellFoundedInduction

-----------------------------------------------------------------------------
(* The access around the pipeline: SearchAccess!Spec.                      *)

\* What a search holds at each place of its code.
Holding(s) ==
    /\ search[s].at \in {"idle", "reserve"} => search[s].row = 0 /\ search[s].held = 0
    /\ search[s].at = "reserved" => search[s].row \in Days /\ search[s].held = 0
    /\ search[s].at \in {"search", "enrich", "refund"} =>
          search[s].row = search[s].held /\ search[s].held \in Days
    /\ search[s].at = "refunded" => search[s].row = 0 /\ search[s].held \in Days
    /\ search[s].at = "done" <=> search[s].got # "none"
    /\ search[s].got = "answer" => search[s].row = search[s].held

HoldingOK == \A s \in Searches : Holding(s)

\* An event is that of a search which is over, and tells how it ended.
Truthful(e) ==
    /\ search[e.id].at = "done"
    /\ e.units = 1 <=> search[e.id].got = "answer"
    /\ e.units = 1 => search[e.id].row = search[e.id].held

Recorded == events \cup ToSet(queue) \cup ToSet(writer)
EventsOK == \A e \in Recorded : Truthful(e)

WithinLimit == \A p \in Pools, d \in Days : used[p][d] <= Limit[p]

SearchInv == SearchTypeOK /\ HoldingOK /\ ChargesAreCounted /\ WithinLimit /\ EventsOK

-----------------------------------------------------------------------------
(* Types.                                                                  *)

\* Scheduling appends one event to a queue with room, or nothing.
LEMMA ScheduledTypes ==
    ASSUME SearchTypeOK, NEW s \in Searches, NEW units \in {0, 1}
    PROVE  Scheduled(s, units) \in Seq(Event) /\ Len(Scheduled(s, units)) <= QueueSize
<1>1. [id |-> s, units |-> units] \in Event
  BY DEF Event
<1> QED
  BY <1>1, SearchConstants DEF SearchTypeOK, Scheduled

\* Whoever ends a search leaves the record of one that is over.
LEMMA EndedTypes ==
    ASSUME SearchTypeOK, NEW s \in Searches, NEW got \in {"refused", "failed", "answer"}
    PROVE  Ended(s, got) \in [Searches -> Search]
BY DEF SearchTypeOK, Ended, Search

\* Time, the writer and the shutdown leave the searches alone.
LEMMA ServiceTypes ==
    ASSUME SearchTypeOK,
           Midnight \/ NextMinute \/ TakeEvent \/ WriteEvent \/ Shutdown \/ Drained
    PROVE  SearchTypeOK'
<1>1. CASE Midnight
  BY <1>1, SearchConstants DEF SearchTypeOK, Midnight, Days
<1>2. CASE NextMinute
  BY <1>2, SearchConstants DEF SearchTypeOK, NextMinute
<1>3. CASE TakeEvent
  <2>1. queue # << >> /\ queue \in Seq(Event)
    BY <1>3 DEF TakeEvent, SearchTypeOK
  <2>2. Head(queue) \in Event /\ Tail(queue) \in Seq(Event) /\ Len(Tail(queue)) <= Len(queue)
    BY <2>1
  <2> QED
    BY <1>3, <2>1, <2>2, SearchConstants DEF SearchTypeOK, TakeEvent
<1>4. CASE WriteEvent
  <2>1. PICK e \in Event : writer = <<e>>
    BY <1>4 DEF WriteEvent, SearchTypeOK
  <2>2. events' \subseteq Event
    BY <1>4, <2>1 DEF WriteEvent, SearchTypeOK
  <2> QED
    BY <1>4, <2>2 DEF SearchTypeOK, WriteEvent, Nothing
<1>5. CASE Shutdown
  BY <1>5 DEF SearchTypeOK, Shutdown
<1>6. CASE Drained
  BY <1>6, SearchConstants DEF SearchTypeOK, Drained, Nothing
<1> QED
  BY <1>1, <1>2, <1>3, <1>4, <1>5, <1>6

\* A row is counted up, or down if it is above zero.
LEMMA CountedUp ==
    ASSUME SearchTypeOK, NEW s \in Searches
    PROVE  [used EXCEPT ![PoolOf(s)][today] = @ + 1] \in [Pools -> [Days -> Nat]]
<1>1. PoolOf(s) \in Pools /\ today \in Days /\ used \in [Pools -> [Days -> Nat]]
  BY DEF PoolOf, Pools, SearchTypeOK
<1> QED
  BY <1>1

LEMMA CountedDown ==
    ASSUME SearchTypeOK, NEW s \in Searches, NEW d
    PROVE  [used EXCEPT ![PoolOf(s)][d] = IF @ > 0 THEN @ - 1 ELSE @] \in [Pools -> [Days -> Nat]]
<1>1. PoolOf(s) \in Pools /\ used \in [Pools -> [Days -> Nat]]
  BY DEF PoolOf, Pools, SearchTypeOK
<1>2. CASE d \in Days
  BY <1>1, <1>2
<1>3. CASE d \notin Days
  BY <1>1, <1>3
<1> QED
  BY <1>2, <1>3

SearchStep(s) ==
    \/ Arrive(s) \/ Reserve(s) \/ Reserved(s) \/ ReserveFails(s)
    \/ Found(s) \/ Fails(s) \/ EnrichmentCancelled(s)
    \/ Refund(s) \/ Reported(s) \/ RefundCancelled(s) \/ Answer(s)

\* A search writes its own record, the row of its day and the queue.
LEMMA SearchTypes ==
    ASSUME SearchTypeOK, NEW s \in Searches, SearchStep(s)
    PROVE  SearchTypeOK'
<1>0. PoolOf(s) \in Pools /\ today \in Days
  BY DEF PoolOf, Pools, SearchTypeOK
<1>1. CASE Arrive(s)
  <2>1. minute' \in [now : Nat, attempts : Nat]
    BY <1>1 DEF SearchTypeOK, Arrive
  <2>2. search' \in [Searches -> Search]
    <3>1. CASE search' = Ended(s, "refused")
      BY <3>1, EndedTypes
    <3>2. CASE search' = [search EXCEPT ![s] = [@ EXCEPT !.at = "reserve"]]
      BY <3>2 DEF SearchTypeOK, Search
    <3> QED
      BY <1>1, <3>1, <3>2 DEF Arrive
  <2> QED
    BY <1>1, <2>1, <2>2 DEF SearchTypeOK, Arrive
<1>2. CASE Reserve(s)
  <2>1. used' \in [Pools -> [Days -> Nat]]
    <3>1. CASE used' = [used EXCEPT ![PoolOf(s)][today] = @ + 1]
      BY <3>1, CountedUp
    <3>2. CASE used' = used
      BY <3>2 DEF SearchTypeOK
    <3> QED
      BY <1>2, <3>1, <3>2 DEF Reserve
  <2>2. search' \in [Searches -> Search]
    <3>1. CASE search' = Ended(s, "refused")
      BY <3>1, EndedTypes
    <3>2. CASE search' = [search EXCEPT ![s] = [@ EXCEPT !.at = "reserved", !.row = today]]
      BY <1>0, <3>2 DEF SearchTypeOK, Search
    <3> QED
      BY <1>2, <3>1, <3>2 DEF Reserve
  <2> QED
    BY <1>2, <2>1, <2>2 DEF SearchTypeOK, Reserve
<1>3. CASE Reserved(s)
  BY <1>3 DEF SearchTypeOK, Reserved, Search
<1>4. CASE ReserveFails(s)
  BY <1>4, EndedTypes DEF SearchTypeOK, ReserveFails
<1>5. CASE Found(s)
  BY <1>5 DEF SearchTypeOK, Found, Search
<1>6. CASE Fails(s)
  BY <1>6 DEF SearchTypeOK, Fails, Search
<1>7. CASE EnrichmentCancelled(s)
  BY <1>7, EndedTypes DEF SearchTypeOK, EnrichmentCancelled
<1>8. CASE Refund(s)
  <2>1. used' \in [Pools -> [Days -> Nat]]
    BY <1>8, CountedDown DEF Refund
  <2>2. search' \in [Searches -> Search]
    BY <1>8 DEF SearchTypeOK, Refund, Search
  <2> QED
    BY <1>8, <2>1, <2>2 DEF SearchTypeOK, Refund
<1>9. CASE Reported(s)
  BY <1>9, EndedTypes, ScheduledTypes DEF SearchTypeOK, Reported
<1>10. CASE RefundCancelled(s)
  BY <1>10, EndedTypes DEF SearchTypeOK, RefundCancelled
<1>11. CASE Answer(s)
  BY <1>11, EndedTypes, ScheduledTypes DEF SearchTypeOK, Answer
<1> QED
  BY <1>1, <1>2, <1>3, <1>4, <1>5, <1>6, <1>7, <1>8, <1>9, <1>10, <1>11 DEF SearchStep

-----------------------------------------------------------------------------
(* What a search holds.                                                    *)

\* A step of a search changes its own record only, and of one that is over no record.
LEMMA OwnRecord ==
    ASSUME SearchTypeOK, NEW s \in Searches, SearchStep(s)
    PROVE  /\ search[s].at # "done"
           /\ \A t \in Searches \ {s} : search'[t] = search[t]
BY DEF SearchTypeOK, SearchStep, Arrive, Reserve, Reserved, ReserveFails, Found, Fails,
       EnrichmentCancelled, Refund, Reported, RefundCancelled, Answer, Ended

LEMMA HoldingStep ==
    ASSUME SearchTypeOK, HoldingOK, NEW s \in Searches, SearchStep(s)
    PROVE  HoldingOK'
<1>1. Holding(s)'
  <2>0. search[s] \in Search /\ Holding(s) /\ 0 \notin Days /\ today \in Days
    BY SearchConstants DEF SearchTypeOK, HoldingOK, Days
  <2>1. CASE Arrive(s)
    <3>1. /\ search[s].at = "idle"
          /\ \/ search'[s] = [search[s] EXCEPT !.at = "reserve"]
             \/ search'[s] = [search[s] EXCEPT !.at = "done", !.got = "refused"]
      BY <2>1 DEF SearchTypeOK, Arrive, Ended
    <3> QED
      BY <2>0, <3>1 DEF Holding, Search
  <2>2. CASE Reserve(s)
    <3>1. /\ search[s].at = "reserve"
          /\ \/ search'[s] = [search[s] EXCEPT !.at = "reserved", !.row = today]
             \/ search'[s] = [search[s] EXCEPT !.at = "done", !.got = "refused"]
      BY <2>2 DEF SearchTypeOK, Reserve, Ended
    <3> QED
      BY <2>0, <3>1 DEF Holding, Search
  <2>3. CASE Reserved(s)
    BY <2>0, <2>3 DEF SearchTypeOK, Reserved, Holding, Search
  <2>4. CASE ReserveFails(s)
    BY <2>0, <2>4 DEF SearchTypeOK, ReserveFails, Holding, Ended, Search
  <2>5. CASE Found(s)
    BY <2>0, <2>5 DEF SearchTypeOK, Found, Holding, Search
  <2>6. CASE Fails(s)
    BY <2>0, <2>6 DEF SearchTypeOK, Fails, Holding, Search
  <2>7. CASE EnrichmentCancelled(s)
    BY <2>0, <2>7 DEF SearchTypeOK, EnrichmentCancelled, Holding, Ended, Search
  <2>8. CASE Refund(s)
    BY <2>0, <2>8 DEF SearchTypeOK, Refund, Holding, Search
  <2>9. CASE Reported(s)
    BY <2>0, <2>9 DEF SearchTypeOK, Reported, Holding, Ended, Search
  <2>10. CASE RefundCancelled(s)
    BY <2>0, <2>10 DEF SearchTypeOK, RefundCancelled, Holding, Ended, Search
  <2>11. CASE Answer(s)
    BY <2>0, <2>11 DEF SearchTypeOK, Answer, Holding, Ended, Search
  <2> QED
    BY <2>1, <2>2, <2>3, <2>4, <2>5, <2>6, <2>7, <2>8, <2>9, <2>10, <2>11 DEF SearchStep
<1>2. \A t \in Searches \ {s} : Holding(t)'
  BY OwnRecord DEF HoldingOK, Holding
<1> QED
  BY <1>1, <1>2 DEF HoldingOK

-----------------------------------------------------------------------------
(* The daily rows.                                                         *)

\* The searches that a row counts are finitely many.
LEMMA CountedFinite ==
    ASSUME NEW p, NEW d
    PROVE  IsFiniteSet(CountedOn(p, d)) /\ Cardinality(CountedOn(p, d)) \in Nat
<1>1. CountedOn(p, d) \in SUBSET Searches
  BY DEF CountedOn
<1>2. IsFiniteSet(CountedOn(p, d))
  BY <1>1, SearchConstants, FS_Subset
<1> QED
  BY <1>2, FS_CardinalityType

Counting == ChargesAreCounted /\ WithinLimit

\* A step that moves no row and no search between rows.
LEMMA CountingKept ==
    ASSUME Counting, used' = used,
           \A t \in Searches : search'[t].row = search[t].row
    PROVE  Counting'
<1>1. \A p \in Pools, d \in Days : CountedOn(p, d)' = CountedOn(p, d)
  BY DEF CountedOn
<1> QED
  BY <1>1 DEF Counting, ChargesAreCounted, WithinLimit

\* The reservation adds the search to the row of the day, which is below the limit.
LEMMA CountingReserved ==
    ASSUME SearchTypeOK, HoldingOK, Counting, NEW s \in Searches, Reserve(s), MayReserve(PoolOf(s)),
           used' = [used EXCEPT ![PoolOf(s)][today] = @ + 1],
           search' = [search EXCEPT ![s] = [@ EXCEPT !.at = "reserved", !.row = today]]
    PROVE  Counting'
<1>1. /\ PoolOf(s) \in Pools /\ today \in Days
      /\ used \in [Pools -> [Days -> Nat]] /\ Limit \in [Pools -> Nat]
  BY SearchConstants DEF PoolOf, Pools, SearchTypeOK
<1>2. /\ search'[s].row = today /\ search[s].row = 0 /\ 0 \notin Days
      /\ \A t \in Searches \ {s} : search'[t].row = search[t].row
  BY SearchConstants DEF SearchTypeOK, HoldingOK, Holding, Reserve, Search, Days
<1>3. SUFFICES ASSUME NEW p \in Pools, NEW d \in Days
      PROVE  used'[p][d] = Cardinality(CountedOn(p, d)') /\ used'[p][d] <= Limit[p]
  BY DEF Counting, ChargesAreCounted, WithinLimit
<1>4. used[p][d] = Cardinality(CountedOn(p, d)) /\ used[p][d] <= Limit[p]
  BY DEF Counting, ChargesAreCounted, WithinLimit
<1>5. CASE p = PoolOf(s) /\ d = today
  <2>1. CountedOn(p, d)' = CountedOn(p, d) \cup {s} /\ s \notin CountedOn(p, d)
    BY <1>1, <1>2, <1>5 DEF CountedOn
  <2>2. Cardinality(CountedOn(p, d)') = Cardinality(CountedOn(p, d)) + 1
    BY <2>1, CountedFinite, FS_AddElement
  <2>3. used'[p][d] = used[p][d] + 1 /\ used[p][d] < Limit[p]
    BY <1>1, <1>5 DEF MayReserve
  <2> QED
    BY <1>1, <1>4, <2>2, <2>3
<1>6. CASE ~(p = PoolOf(s) /\ d = today)
  <2>1. CountedOn(p, d)' = CountedOn(p, d)
    BY <1>2, <1>6 DEF CountedOn
  <2>2. used'[p][d] = used[p][d]
    BY <1>1, <1>6
  <2> QED
    BY <1>4, <2>1, <2>2
<1> QED
  BY <1>5, <1>6

\* The refund takes the search out of the row that counts it, whichever day it is.
LEMMA CountingRefunded ==
    ASSUME SearchTypeOK, HoldingOK, Counting, NEW s \in Searches, Refund(s)
    PROVE  Counting'
<1> DEFINE h == search[s].held
<1>1. /\ PoolOf(s) \in Pools /\ h \in Days /\ search[s].row = h
      /\ used \in [Pools -> [Days -> Nat]] /\ Limit \in [Pools -> Nat]
  BY SearchConstants DEF PoolOf, Pools, SearchTypeOK, HoldingOK, Holding, Refund
<1>2. /\ search'[s].row = 0 /\ 0 \notin Days
      /\ \A t \in Searches \ {s} : search'[t].row = search[t].row
  BY SearchConstants DEF SearchTypeOK, Refund, Search, Days
<1>0. used' = [used EXCEPT ![PoolOf(s)][h] = IF @ > 0 THEN @ - 1 ELSE @]
  BY DEF Refund
<1> HIDE DEF h
<1>3. SUFFICES ASSUME NEW p \in Pools, NEW d \in Days
      PROVE  used'[p][d] = Cardinality(CountedOn(p, d)') /\ used'[p][d] <= Limit[p]
  BY DEF Counting, ChargesAreCounted, WithinLimit
<1>4. used[p][d] = Cardinality(CountedOn(p, d)) /\ used[p][d] <= Limit[p]
  BY DEF Counting, ChargesAreCounted, WithinLimit
<1>5. CASE p = PoolOf(s) /\ d = h
  <2>1. CountedOn(p, d)' = CountedOn(p, d) \ {s} /\ s \in CountedOn(p, d)
    BY <1>1, <1>2, <1>5 DEF CountedOn
  <2>2. Cardinality(CountedOn(p, d)') = Cardinality(CountedOn(p, d)) - 1
    BY <2>1, CountedFinite, FS_RemoveElement
  <2>3. Cardinality(CountedOn(p, d)) > 0
    BY <2>1, CountedFinite, FS_EmptySet
  <2>4. used'[p][d] = used[p][d] - 1
    BY <1>0, <1>1, <1>4, <1>5, <2>3
  <2> QED
    BY <1>1, <1>4, <2>2, <2>4
<1>6. CASE ~(p = PoolOf(s) /\ d = h)
  <2>1. CountedOn(p, d)' = CountedOn(p, d)
    BY <1>1, <1>2, <1>6 DEF CountedOn
  <2>2. used'[p][d] = used[p][d]
    BY <1>0, <1>1, <1>6
  <2> QED
    BY <1>4, <2>1, <2>2
<1> QED
  BY <1>5, <1>6

\* A search that ends stays in the row that counts it.
LEMMA EndedRow ==
    ASSUME SearchTypeOK, NEW s \in Searches, NEW got, search' = Ended(s, got)
    PROVE  search'[s].row = search[s].row
<1>1. search'[s] = [search[s] EXCEPT !.at = "done", !.got = got] /\ search[s] \in Search
  BY DEF SearchTypeOK, Ended
<1> QED
  BY <1>1 DEF Search

LEMMA CountingStep ==
    ASSUME SearchTypeOK, HoldingOK, Counting, NEW s \in Searches, SearchStep(s)
    PROVE  Counting'
<1>1. CASE Reserve(s)
  <2>1. CASE MayReserve(PoolOf(s))
    BY <1>1, <2>1, CountingReserved DEF Reserve
  <2>2. CASE ~MayReserve(PoolOf(s))
    <3>1. used' = used /\ search' = Ended(s, "refused")
      BY <1>1, <2>2 DEF Reserve
    <3>2. search'[s].row = search[s].row
      BY <3>1, EndedRow
    <3> QED
      BY <3>1, <3>2, OwnRecord, CountingKept
  <2> QED
    BY <2>1, <2>2
<1>2. CASE Refund(s)
  BY <1>2, CountingRefunded
<1>3. CASE ~Reserve(s) /\ ~Refund(s)
  <2>1. used' = used
    BY <1>3 DEF SearchStep, Arrive, Reserved, ReserveFails, Found, Fails, EnrichmentCancelled,
                Reported, RefundCancelled, Answer
  <2>2. CASE \E got \in {"refused", "failed", "answer"} : search' = Ended(s, got)
    BY <2>1, <2>2, EndedRow, OwnRecord, CountingKept
  <2>3. CASE \A got \in {"refused", "failed", "answer"} : search' # Ended(s, got)
    <3>1. Arrive(s) \/ Reserved(s) \/ Found(s) \/ Fails(s)
      BY <1>3, <2>3 DEF SearchStep, ReserveFails, EnrichmentCancelled, Reported,
                        RefundCancelled, Answer
    <3>2. \/ search'[s] = [search[s] EXCEPT !.at = "reserve"]
          \/ search'[s] = [search[s] EXCEPT !.at = "search", !.held = search[s].row]
          \/ search'[s] = [search[s] EXCEPT !.at = "enrich"]
          \/ search'[s] = [search[s] EXCEPT !.at = "refund", !.compensated = TRUE]
      BY <2>3, <3>1 DEF SearchTypeOK, Arrive, Reserved, Found, Fails
    <3>3. search[s] \in Search
      BY DEF SearchTypeOK
    <3>4. search'[s].row = search[s].row
      BY <3>2, <3>3 DEF Search
    <3> QED
      BY <2>1, <3>4, OwnRecord, CountingKept
  <2> QED
    BY <2>2, <2>3
<1> QED
  BY <1>1, <1>2, <1>3

-----------------------------------------------------------------------------
(* The usage events.                                                       *)

LEMMA AppendedSet ==
    ASSUME NEW q \in Seq(Event), NEW e \in Event
    PROVE  ToSet(Append(q, e)) \subseteq ToSet(q) \cup {e}
BY DEF ToSet

LEMMA TailSet ==
    ASSUME NEW q \in Seq(Event), q # << >>
    PROVE  Head(q) \in ToSet(q) /\ ToSet(Tail(q)) \subseteq ToSet(q)
<1>1. Len(q) \in Nat /\ Len(q) > 0 /\ Head(q) = q[1] /\ DOMAIN q = 1..Len(q)
  OBVIOUS
<1>2. Head(q) \in ToSet(q)
  BY <1>1 DEF ToSet
<1>3. ASSUME NEW i \in DOMAIN Tail(q)
      PROVE  Tail(q)[i] \in ToSet(q)
  <2>1. Tail(q)[i] = q[i + 1] /\ i + 1 \in DOMAIN q
    BY <1>1, <1>3
  <2> QED
    BY <2>1 DEF ToSet
<1> QED
  BY <1>2, <1>3 DEF ToSet

\* Everything recorded is an event; the writer holds at most one.
LEMMA RecordedTypes ==
    ASSUME SearchTypeOK
    PROVE  Recorded \subseteq Event /\ (writer # Nothing => ToSet(writer) = {writer[1]})
<1>1. ToSet(queue) \subseteq Event
  BY DEF SearchTypeOK, ToSet
<1>2. CASE writer = Nothing
  BY <1>1, <1>2 DEF SearchTypeOK, Recorded, ToSet, Nothing
<1>3. CASE writer # Nothing
  <2>1. PICK e \in Event : writer = <<e>>
    BY <1>3 DEF SearchTypeOK
  <2>2. ToSet(writer) = {e} /\ writer[1] = e
    BY <2>1 DEF ToSet
  <2> QED
    BY <1>1, <2>2 DEF SearchTypeOK, Recorded
<1> QED
  BY <1>2, <1>3

\* Between the queue, the writer and the table events only move or vanish.
LEMMA EventsMove ==
    ASSUME SearchTypeOK, EventsOK,
           Midnight \/ NextMinute \/ TakeEvent \/ WriteEvent \/ Shutdown \/ Drained
    PROVE  EventsOK'
<1>1. Recorded' \subseteq Recorded
  <2>1. CASE Midnight \/ NextMinute \/ Shutdown
    BY <2>1 DEF Midnight, NextMinute, Shutdown, Recorded
  <2>2. CASE TakeEvent
    <3>1. queue \in Seq(Event) /\ queue # << >>
      BY <2>2 DEF TakeEvent, SearchTypeOK
    <3>2. writer' = <<Head(queue)>> /\ queue' = Tail(queue) /\ events' = events
      BY <2>2 DEF TakeEvent
    <3>3. ToSet(writer') = {Head(queue)}
      BY <3>2 DEF ToSet
    <3> QED
      BY <3>1, <3>2, <3>3, TailSet DEF Recorded
  <2>3. CASE WriteEvent
    <3>1. events' \subseteq events \cup {writer[1]} /\ queue' = queue
      BY <2>3 DEF WriteEvent
    <3>2. writer' = << >> /\ ToSet(writer) = {writer[1]}
      BY <2>3, RecordedTypes DEF WriteEvent, Nothing
    <3>3. ToSet(writer') = {}
      BY <3>2 DEF ToSet
    <3> QED
      BY <3>1, <3>2, <3>3 DEF Recorded
  <2>4. CASE Drained
    BY <2>4 DEF Drained, Joined, Recorded
  <2> QED
    BY <2>1, <2>2, <2>3, <2>4
<1>2. search' = search
  BY DEF Midnight, NextMinute, TakeEvent, WriteEvent, Shutdown, Drained
<1> QED
  BY <1>1, <1>2 DEF EventsOK, Truthful

\* A search schedules its event with the step that ends it.
LEMMA EventsOfSearch ==
    ASSUME SearchTypeOK, HoldingOK, EventsOK, NEW s \in Searches, SearchStep(s)
    PROVE  EventsOK'
<1>1. \A e \in Recorded : Truthful(e)'
  <2>1. SUFFICES ASSUME NEW e \in Recorded PROVE Truthful(e)'
    OBVIOUS
  <2>2. e.id \in Searches /\ Truthful(e)
    BY RecordedTypes DEF Event, EventsOK
  <2>3. e.id # s /\ search'[e.id] = search[e.id]
    BY <2>2, OwnRecord DEF Truthful
  <2> QED
    BY <2>2, <2>3 DEF Truthful
<1>2. ASSUME NEW units \in {0, 1}, queue' = Scheduled(s, units), UNCHANGED <<writer, events>>
      PROVE  Recorded' \subseteq Recorded \cup {[id |-> s, units |-> units]}
  <2>1. [id |-> s, units |-> units] \in Event /\ queue \in Seq(Event)
    BY DEF Event, SearchTypeOK
  <2>2. ToSet(queue') \subseteq ToSet(queue) \cup {[id |-> s, units |-> units]}
    BY <1>2, <2>1, AppendedSet DEF Scheduled
  <2> QED
    BY <1>2, <2>2 DEF Recorded
<1>3. CASE Answer(s)
  <2>1. Truthful([id |-> s, units |-> 1])'
    BY <1>3 DEF SearchTypeOK, HoldingOK, Holding, Answer, Ended, Truthful, Search
  <2> QED
    BY <1>1, <1>2, <1>3, <2>1 DEF Answer, EventsOK
<1>4. CASE Reported(s)
  <2>1. Truthful([id |-> s, units |-> 0])'
    BY <1>4 DEF SearchTypeOK, Reported, Ended, Truthful, Search
  <2> QED
    BY <1>1, <1>2, <1>4, <2>1 DEF Reported, EventsOK
<1>5. CASE ~Answer(s) /\ ~Reported(s)
  <2>1. UNCHANGED <<queue, writer, events>>
    BY <1>5 DEF SearchStep, Arrive, Reserve, Reserved, ReserveFails, Found, Fails,
                EnrichmentCancelled, Refund, RefundCancelled
  <2> QED
    BY <1>1, <2>1 DEF EventsOK, Recorded
<1> QED
  BY <1>3, <1>4, <1>5

-----------------------------------------------------------------------------
(* The theorems.                                                           *)

LEMMA InitInv == Init => SearchInv
<1> SUFFICES ASSUME Init PROVE SearchInv
  OBVIOUS
<1>1. SearchTypeOK
  <2>1. NoSearch \in Search
    BY DEF NoSearch, Search
  <2>2. 1 \in Days
    BY SearchConstants DEF Days
  <2> QED
    BY <2>1, <2>2, SearchConstants DEF Init, SearchTypeOK, Nothing
<1>2. HoldingOK
  BY DEF Init, NoSearch, HoldingOK, Holding
<1>3. \A p \in Pools, d \in Days : CountedOn(p, d) = {}
  BY SearchConstants DEF Init, NoSearch, CountedOn, Days
<1>4. ChargesAreCounted
  BY <1>3, FS_EmptySet DEF Init, ChargesAreCounted
<1>5. WithinLimit
  BY SearchConstants DEF Init, WithinLimit
<1>6. EventsOK
  BY DEF Init, EventsOK, Recorded, ToSet, Nothing
<1> QED
  BY <1>1, <1>2, <1>4, <1>5, <1>6 DEF SearchInv

LEMMA NextInv == SearchInv /\ [Next]_vars => SearchInv'
<1> SUFFICES ASSUME SearchInv, [Next]_vars PROVE SearchInv'
  OBVIOUS
<1> USE DEF SearchInv
<1>1. CASE Midnight \/ NextMinute \/ TakeEvent \/ WriteEvent \/ Shutdown \/ Drained
  <2>1. search' = search /\ used' = used
    BY <1>1 DEF Midnight, NextMinute, TakeEvent, WriteEvent, Shutdown, Drained
  <2>2. HoldingOK' /\ Counting'
    BY <2>1, CountingKept DEF HoldingOK, Holding, Counting
  <2> QED
    BY <1>1, <2>2, ServiceTypes, EventsMove DEF Counting
<1>2. ASSUME NEW s \in Searches, SearchStep(s)
      PROVE  SearchInv'
  BY <1>2, SearchTypes, HoldingStep, CountingStep, EventsOfSearch DEF Counting
<1>3. CASE UNCHANGED vars
  BY <1>3 DEF vars, SearchTypeOK, HoldingOK, Holding, ChargesAreCounted, CountedOn, WithinLimit,
              EventsOK, Recorded, Truthful
<1> QED
  BY <1>1, <1>2, <1>3 DEF Next, SearchStep

THEOREM SearchInvariant == Spec => []SearchInv
BY InitInv, NextInv, PTL DEF Spec

\* The tables, reservations, queued and written events are always of their types, and
\* the queue keeps its bound (background_queue_max_size).
THEOREM SearchTypesHold == Spec => []SearchTypeOK
<1>1. SearchInv => SearchTypeOK
  BY DEF SearchInv
<1> QED
  BY <1>1, SearchInvariant, PTL

\* Each row of the quota tables counts exactly what was charged on its day and not given
\* back, with any number of searches that fail, are cancelled or run over midnight.
THEOREM ChargesAlwaysCounted == Spec => []ChargesAreCounted
<1>1. SearchInv => ChargesAreCounted
  BY DEF SearchInv
<1> QED
  BY <1>1, SearchInvariant, PTL

\* Nobody is answered more often on the account of a day than its limit.
THEOREM AnswersAreLimited == Spec => []AnswersWithinLimit
<1>1. SearchInv => AnswersWithinLimit
  <2> SUFFICES ASSUME SearchInv, NEW p \in Pools, NEW d \in Days
        PROVE  Cardinality({s \in Searches : /\ PoolOf(s) = p /\ search[s].held = d
                                              /\ search[s].got = "answer"}) <= Limit[p]
    BY DEF AnswersWithinLimit
  <2> DEFINE answered == {s \in Searches : /\ PoolOf(s) = p /\ search[s].held = d
                                            /\ search[s].got = "answer"}
  <2>2. answered \in SUBSET CountedOn(p, d)
    BY DEF SearchInv, HoldingOK, Holding, CountedOn
  <2>3. Cardinality(answered) <= Cardinality(CountedOn(p, d)) /\ Cardinality(answered) \in Nat
    BY <2>2, CountedFinite, FS_Subset, FS_CardinalityType
  <2>4. Cardinality(CountedOn(p, d)) <= Limit[p] /\ Cardinality(CountedOn(p, d)) \in Nat
        /\ Limit[p] \in Nat
    BY CountedFinite, SearchConstants DEF SearchInv, ChargesAreCounted, WithinLimit
  <2> QED
    BY <2>3, <2>4
<1> QED
  BY <1>1, SearchInvariant, PTL

\* A row of the quota tables counts what was charged and answers no more than it may.
THEOREM QuotaAlwaysKept == Spec => []QuotaIsKept
BY ChargesAlwaysCounted, AnswersAreLimited, PTL DEF QuotaIsKept

\* A recorded unit is an answer that is still charged, a recorded zero is a failure,
\* whatever of the refunds and of the queue is lost.
THEOREM UsageAlwaysTruthful == Spec => []UsageIsTruthful
<1>1. SearchInv => UsageIsTruthful
  BY DEF SearchInv, EventsOK, Recorded, Truthful, UsageIsTruthful
<1> QED
  BY <1>1, SearchInvariant, PTL

-----------------------------------------------------------------------------
(* The whole: a search of SearchAccess to the tables.                      *)

\* Every step of the whole is a step of the access or leaves it as it is.
LEMMA PublicStep == PublicNext => [Next]_vars
<1> SUFFICES ASSUME PublicNext PROVE [Next]_vars
  OBVIOUS
<1>1. CASE AccessStep
  BY <1>1 DEF AccessStep, Next
<1>2. ASSUME NEW s \in Searches, Returns(s) \/ Leaves(s)
      PROVE  Next
  BY <1>2 DEF Returns, Leaves, Next
<1>3. ASSUME NEW r \in DOMAIN Requests, Prints(r)
      PROVE  UNCHANGED vars
  BY <1>3 DEF Prints
<1> QED
  BY <1>1, <1>2, <1>3 DEF PublicNext

\* api/search_execution.py keeps to the order of api/search_access.py around the pipeline.
THEOREM PublicImplementsAccess == PublicSpec => Spec
<1>1. PublicInit => Init
  BY DEF PublicInit
<1>2. [PublicNext]_PublicVars => [Next]_vars
  <2>1. CASE PublicNext
    BY <2>1, PublicStep
  <2>2. CASE UNCHANGED PublicVars
    BY <2>2 DEF PublicVars
  <2> QED
    BY <2>1, <2>2
<1> QED
  BY <1>1, <1>2, PTL DEF PublicSpec, Spec

\* The rows of the quota tables, beside command-line searches, which are not counted.
THEOREM PublicQuotaKept == PublicSpec => []QuotaIsKept
BY PublicImplementsAccess, QuotaAlwaysKept, PTL

\* What is recorded and charged is truthful for any pipeline.
THEOREM PublicUsageTruthful == PublicSpec => []UsageIsTruthful
BY PublicImplementsAccess, UsageAlwaysTruthful, PTL


-----------------------------------------------------------------------------
(* Sorting: a finite set can be arranged by any order with ties.           *)

\* What sorted() needs of a comparison: pairs that precede one another, and ties that
\* are passed on.
Orders(R, S) ==
    /\ \A x, y \in S : ~(<<x, y>> \in R /\ <<y, x>> \in R)
    /\ \A x, y, z \in S : <<x, y>> \notin R /\ <<y, z>> \notin R => <<x, z>> \notin R

\* The induction over the subsets of a finite set.
LEMMA SmallestSubset ==
    ASSUME NEW S, IsFiniteSet(S), NEW Bad \in SUBSET (SUBSET S), Bad # {}
    PROVE  \E T \in Bad : \A U \in SUBSET T : U # T => U \notin Bad
<1>1. IsWellFoundedOn(StrictSubsetOrdering(S), FiniteSubsetsOf(S))
  BY FS_StrictSubsetOrderingWellFounded
<1>2. Bad \subseteq FiniteSubsetsOf(S)
  BY FS_FiniteSubsetsOfFinite
<1>3. PICK T \in Bad : \A U \in Bad : ~(<<U, T>> \in StrictSubsetOrdering(S))
  BY <1>1, <1>2, WFMin
<1>4. ASSUME NEW U \in SUBSET T, U # T, U \in Bad PROVE FALSE
  <2>1. <<U, T>> \in StrictSubsetOrdering(S)
    BY <1>4 DEF StrictSubsetOrdering
  <2> QED
    BY <1>3, <1>4, <2>1
<1> QED
  BY <1>3, <1>4

\* One element precedes no other.
LEMMA LastExists ==
    ASSUME NEW S, IsFiniteSet(S), S # {}, NEW R, Orders(R, S)
    PROVE  \E m \in S : \A y \in S : <<m, y>> \notin R
<1> DEFINE Bad == {T \in SUBSET S : T # {} /\ \A m \in T : \E y \in T : <<m, y>> \in R}
<1>1. SUFFICES ASSUME Bad # {} PROVE FALSE
  OBVIOUS
<1>2. PICK T \in Bad : \A U \in SUBSET T : U # T => U \notin Bad
  <2>1. Bad \in SUBSET (SUBSET S)
    OBVIOUS
  <2> HIDE DEF Bad
  <2> QED
    BY <1>1, <2>1, SmallestSubset
<1>3. PICK a \in T : TRUE
  OBVIOUS
<1>4. CASE T \ {a} = {}
  <2>1. PICK y \in T : <<a, y>> \in R
    BY <1>3
  <2>2. y = a /\ a \in S
    BY <1>3, <1>4
  <2> QED
    BY <2>1, <2>2 DEF Orders
<1>5. CASE T \ {a} # {}
  <2>1. PICK m \in T \ {a} : \A y \in T \ {a} : <<m, y>> \notin R
    BY <1>2, <1>3, <1>5
  <2>2. <<m, a>> \in R
    BY <2>1
  <2>3. PICK y \in T : <<a, y>> \in R
    BY <1>3
  <2>4. y # a /\ <<y, a>> \notin R /\ <<m, y>> \notin R
    BY <2>1, <2>3, <1>3 DEF Orders
  <2> QED
    BY <2>1, <2>2, <2>4, <1>3 DEF Orders
<1> QED
  BY <1>4, <1>5

LEMMA ArrangementExists ==
    ASSUME NEW S, IsFiniteSet(S), NEW R, Orders(R, S)
    PROVE  \E seq \in SetToSeqs(S) : \A i, j \in DOMAIN seq : i < j => <<seq[j], seq[i]>> \notin R
<1> DEFINE IsGood(T) == \E seq \in SetToSeqs(T) :
                           \A i, j \in DOMAIN seq : i < j => <<seq[j], seq[i]>> \notin R
           Bad == {T \in SUBSET S : ~IsGood(T)}
<1>1. SUFFICES ASSUME Bad # {} PROVE FALSE
  OBVIOUS
<1>2. PICK T \in Bad : \A U \in SUBSET T : U # T => U \notin Bad
  <2>1. Bad \in SUBSET (SUBSET S)
    OBVIOUS
  <2> HIDE DEF Bad
  <2> QED
    BY <1>1, <2>1, SmallestSubset
<1>3. T # {}
  <2> DEFINE none == [i \in 1..0 |-> 0]
  <2>1. none \in SetToSeqs({}) /\ DOMAIN none = {}
    BY FS_EmptySet DEF SetToSeqs
  <2>2. IsGood({})
    <3> HIDE DEF none
    <3> QED
      BY <2>1
  <2> HIDE DEF IsGood
  <2> QED
    BY <2>2
<1>4. IsFiniteSet(T) /\ Orders(R, T)
  BY FS_Subset DEF Orders
<1>5. PICK m \in T : \A y \in T : <<m, y>> \notin R
  BY <1>3, <1>4, LastExists
<1> DEFINE U == T \ {m}
           n == Cardinality(U)
<1>6. /\ n \in Nat /\ Cardinality(T) = n + 1
  <2>1. IsFiniteSet(U) /\ Cardinality(U) = Cardinality(T) - 1
    BY <1>4, <1>5, FS_RemoveElement
  <2> QED
    BY <2>1, <1>4, FS_CardinalityType
<1>7. PICK u \in SetToSeqs(U) : \A i, j \in DOMAIN u : i < j => <<u[j], u[i]>> \notin R
  BY <1>2, <1>5
<1> DEFINE seq == [i \in 1..n + 1 |-> IF i = n + 1 THEN m ELSE u[i]]
<1>8. u \in [1..n -> U] /\ \A i, j \in 1..n : i # j => u[i] # u[j]
  BY <1>7 DEF SetToSeqs
<1>9. seq \in SetToSeqs(T)
  <2>1. \A i \in 1..n + 1 : i # n + 1 => i \in 1..n
    BY <1>6
  <2>2. seq \in [1..n + 1 -> T]
    BY <1>8, <1>5, <2>1
  <2>3. \A i, j \in 1..n + 1 : i # j => seq[i] # seq[j]
    BY <1>8, <2>1
  <2> QED
    BY <2>2, <2>3, <1>6 DEF SetToSeqs
<1>10. ASSUME NEW i \in 1..n + 1, NEW j \in 1..n + 1, i < j PROVE <<seq[j], seq[i]>> \notin R
  <2>1. i \in 1..n
    BY <1>10, <1>6
  <2>2. CASE j = n + 1
    BY <2>1, <2>2, <1>5, <1>8
  <2>3. CASE j # n + 1
    <3>1. j \in 1..n /\ DOMAIN u = 1..n
      BY <2>3, <1>6, <1>8
    <3>2. seq[i] = u[i] /\ seq[j] = u[j]
      BY <2>1, <2>3, <3>1, <1>6
    <3> HIDE DEF seq
    <3> QED
      BY <2>1, <3>1, <3>2, <1>7, <1>10
  <2> QED
    BY <2>2, <2>3
<1>11. IsGood(T)
  <2>1. DOMAIN seq = 1..n + 1
    OBVIOUS
  <2> HIDE DEF seq
  <2> QED
    BY <1>9, <1>10, <2>1
<1> QED
  BY <1>11

-----------------------------------------------------------------------------
(* Scores.                                                                 *)

Fractions == Int \X (Nat \ {0})

LEMMA Cancelling ==
    ASSUME NEW m \in Int, NEW n \in Int, NEW k \in Nat \ {0}
    PROVE  m <= n <=> m * k <= n * k
OBVIOUS

LEMMA FractionsAreOrdered ==
    ASSUME NEW a \in Fractions, NEW b \in Fractions, NEW c \in Fractions
    PROVE  /\ ~(Above(a, b) /\ Above(b, a))
           /\ ~Above(a, b) /\ ~Above(b, c) => ~Above(a, c)
<1>1. PICK x \in Int, p \in Nat \ {0} : a = <<x, p>>
  BY DEF Fractions
<1>2. PICK y \in Int, q \in Nat \ {0} : b = <<y, q>>
  BY DEF Fractions
<1>3. PICK z \in Int, r \in Nat \ {0} : c = <<z, r>>
  BY DEF Fractions
<1>4. /\ Above(a, b) <=> x * q > y * p
      /\ Above(b, a) <=> y * p > x * q
      /\ Above(b, c) <=> y * r > z * q
      /\ Above(a, c) <=> x * r > z * p
  BY <1>1, <1>2, <1>3 DEF Above
<1>5. ASSUME x * q <= y * p, y * r <= z * q PROVE x * r <= z * p
  <2>1. (x * q) * r <= (y * p) * r
    <3> DEFINE s == x * q
               t == y * p
    <3>1. s \in Int /\ t \in Int
      OBVIOUS
    <3> HIDE DEF s, t
    <3> QED
      BY <1>5, <3>1, Cancelling DEF s, t
  <2>2. (y * r) * p <= (z * q) * p
    <3> DEFINE s == y * r
               t == z * q
    <3>1. s \in Int /\ t \in Int
      OBVIOUS
    <3> HIDE DEF s, t
    <3> QED
      BY <1>5, <3>1, Cancelling DEF s, t
  <2>3. (y * p) * r = (y * r) * p /\ (x * q) * r = (x * r) * q /\ (z * q) * p = (z * p) * q
    OBVIOUS
  <2>4. (x * r) * q <= (z * p) * q
    BY <2>1, <2>2, <2>3
  <2> QED
    <3> DEFINE s == x * r
               t == z * p
    <3>1. s \in Int /\ t \in Int
      OBVIOUS
    <3> HIDE DEF s, t
    <3> QED
      BY <2>4, <3>1, Cancelling DEF s, t
<1> QED
  BY <1>4, <1>5

LEMMA PlusIsFraction ==
    ASSUME NEW a \in Fractions, NEW b \in Fractions
    PROVE  Plus(a, b) \in Fractions
BY DEF Plus, Fractions

\* The best of two numbers, and of any finite set of them.
LEMMA MaxIsMember ==
    ASSUME NEW S \in SUBSET Nat, IsFiniteSet(S), S # {}
    PROVE  Max(S) \in S /\ \A x \in S : Max(S) >= x
<1> DEFINE R == {p \in S \X S : p[1] < p[2]}
<1>1. Orders(R, S)
  BY DEF Orders
<1>2. PICK m \in S : \A y \in S : <<m, y>> \notin R
  <2> HIDE DEF R
  <2> QED
    BY <1>1, LastExists
<1>3. \A y \in S : m >= y
  <2> SUFFICES ASSUME NEW y \in S PROVE m >= y
    OBVIOUS
  <2>1. ~(m < y)
    BY <1>2
  <2> QED
    BY <2>1
<1> QED
  BY <1>3 DEF Max

\* A sequence without repetitions of members of a set.
Lists(seq, S) ==
    /\ seq \in Seq(S)
    /\ \A i, j \in 1..Len(seq) : seq[i] = seq[j] => i = j

LEMMA ArrangementLists ==
    ASSUME NEW S, IsFiniteSet(S), NEW seq \in SetToSeqs(S)
    PROVE  Lists(seq, S) /\ ToSet(seq) = S /\ DOMAIN seq = 1..Len(seq)
<1> DEFINE n == Cardinality(S)
<1>1. n \in Nat /\ seq \in [1..n -> S] /\ \A i, j \in 1..n : i # j => seq[i] # seq[j]
  BY FS_CardinalityType DEF SetToSeqs
<1>2. seq \in Seq(S) /\ Len(seq) = n /\ DOMAIN seq = 1..n
  <2> HIDE DEF n
  <2> QED
    BY <1>1
<1>3. seq \in Injection(1..n, S)
  BY <1>1 DEF Injection, IsInjective
<1>4. IsFiniteSet(1..n) /\ Cardinality(1..n) = n
  BY <1>1, FS_Interval
<1>5. seq \in Surjection(1..n, S)
  BY <1>3, <1>4, FS_Injection
<1>6. ToSet(seq) = S
  BY <1>2, <1>5 DEF Surjection, ToSet
<1> QED
  BY <1>1, <1>2, <1>6 DEF Lists

LEMMA ToSetIsFinite ==
    ASSUME NEW S, NEW seq \in Seq(S)
    PROVE  IsFiniteSet(ToSet(seq)) /\ ToSet(seq) \subseteq S
<1>1. DOMAIN seq = 1..Len(seq) /\ Len(seq) \in Nat /\ \A i \in 1..Len(seq) : seq[i] \in S
  OBVIOUS
<1>2. seq \in Surjection(1..Len(seq), ToSet(seq))
  BY <1>1 DEF Surjection, ToSet
<1>3. IsFiniteSet(1..Len(seq))
  BY <1>1, FS_Interval
<1> QED
  BY <1>1, <1>2, <1>3, FS_Surjection DEF ToSet

LEMMA SetToSeqLists ==
    ASSUME NEW S, IsFiniteSet(S)
    PROVE  Lists(SetToSeq(S), S)
<1> DEFINE n == Cardinality(S)
           seq == SetToSeq(S)
<1>1. n \in Nat /\ ExistsBijection(1..n, S)
  BY FS_CardinalityType
<1>2. seq \in [1..n -> S] /\ IsInjective(seq)
  BY <1>1 DEF SetToSeq, ExistsBijection, Bijection, Injection
<1> HIDE DEF seq, n
<1>3. seq \in Seq(S) /\ Len(seq) = n /\ DOMAIN seq = 1..n
  BY <1>1, <1>2
<1> QED
  BY <1>2, <1>3 DEF Lists, IsInjective, seq

LEMMA CutLists ==
    ASSUME NEW S, NEW seq, Lists(seq, S), NEW n \in Nat
    PROVE  /\ Lists(Cut(seq, n), S)
           /\ Len(Cut(seq, n)) = IF Len(seq) < n THEN Len(seq) ELSE n
           /\ \A i \in 1..Len(Cut(seq, n)) : i \in 1..Len(seq) /\ Cut(seq, n)[i] = seq[i]
<1> DEFINE k == IF Len(seq) < n THEN Len(seq) ELSE n
<1>1. Len(seq) \in Nat /\ k \in 0..Len(seq) /\ seq \in Seq(S)
  BY DEF Lists
<1>2. Cut(seq, n) = SubSeq(seq, 1, k)
  BY DEF Cut
<1> HIDE DEF k
<1>3. /\ SubSeq(seq, 1, k) \in Seq(S) /\ Len(SubSeq(seq, 1, k)) = k
      /\ \A i \in 1..k : SubSeq(seq, 1, k)[i] = seq[i]
  BY <1>1
<1>4. \A i \in 1..k : i \in 1..Len(seq)
  BY <1>1
<1> QED
  BY <1>1, <1>2, <1>3, <1>4 DEF Lists, k

\* store/query.py: what comes back is sorted, without repetitions.
LEMMA RankedIsSorted ==
    ASSUME NEW scores, IsFiniteSet(DOMAIN scores), \A x \in DOMAIN scores : scores[x] \in Fractions
    PROVE  /\ Ranked(scores) \in SetToSeqs(DOMAIN scores)
           /\ \A i, j \in DOMAIN Ranked(scores) :
                 i < j => ~Above(scores[Ranked(scores)[j]], scores[Ranked(scores)[i]])
<1> DEFINE S == DOMAIN scores
           R == {p \in S \X S : Above(scores[p[1]], scores[p[2]])}
<1>1. Orders(R, S)
  <2>1. ASSUME NEW x \in S, NEW y \in S PROVE <<x, y>> \in R <=> Above(scores[x], scores[y])
    OBVIOUS
  <2>2. \A x, y \in S : ~(Above(scores[x], scores[y]) /\ Above(scores[y], scores[x]))
    BY FractionsAreOrdered
  <2>3. \A x, y, z \in S : ~Above(scores[x], scores[y]) /\ ~Above(scores[y], scores[z])
                              => ~Above(scores[x], scores[z])
    BY FractionsAreOrdered
  <2> HIDE DEF R
  <2> QED
    BY <2>1, <2>2, <2>3 DEF Orders
<1>2. PICK seq \in SetToSeqs(S) : \A i, j \in DOMAIN seq : i < j => <<seq[j], seq[i]>> \notin R
  <2> HIDE DEF R, S
  <2> QED
    BY <1>1, ArrangementExists DEF S
<1>3. Ranked(scores) = Arranged(S, R)
  BY DEF Ranked
<1> DEFINE best == Ranked(scores)
<1>4. best \in SetToSeqs(S) /\ \A i, j \in DOMAIN best : i < j => <<best[j], best[i]>> \notin R
  <2> HIDE DEF R, S
  <2> QED
    BY <1>2, <1>3 DEF Arranged
<1> HIDE DEF best
<1>5. \A i \in DOMAIN best : best[i] \in S
  BY <1>4, ArrangementLists DEF Lists
<1>6. \A i, j \in DOMAIN best : i < j => ~Above(scores[best[j]], scores[best[i]])
  BY <1>4, <1>5
<1> QED
  BY <1>4, <1>6 DEF best

LEMMA RankedLists ==
    ASSUME NEW scores, IsFiniteSet(DOMAIN scores), \A x \in DOMAIN scores : scores[x] \in Fractions
    PROVE  Lists(Ranked(scores), DOMAIN scores) /\ ToSet(Ranked(scores)) = DOMAIN scores
BY RankedIsSorted, ArrangementLists

LEMMA NearestLists ==
    ASSUME NEW keys, IsFiniteSet(keys), NEW score, \A x \in keys : score[x] \in Int, NEW n \in Nat
    PROVE  Lists(Nearest(keys, score, n), keys)
<1> DEFINE scores == [x \in keys |-> <<score[x], 1>>]
<1>1. DOMAIN scores = keys /\ \A x \in keys : scores[x] \in Fractions
  BY DEF Fractions
<1>2. Nearest(keys, score, n) = Cut(Ranked(scores), n)
  BY DEF Nearest
<1> HIDE DEF scores
<1>3. Lists(Ranked(scores), keys)
  BY <1>1, RankedLists
<1> QED
  BY <1>2, <1>3, CutLists

LEMMA LeastExists ==
    ASSUME NEW Bad \in SUBSET Nat, Bad # {}
    PROVE  \E n \in Bad : \A k \in 0..n - 1 : k \notin Bad
<1>1. IsWellFoundedOn(OpToRel(<, Nat), Nat)
  BY NatLessThanWellFounded
<1>2. PICK n \in Bad : \A y \in Bad : ~(<<y, n>> \in OpToRel(<, Nat))
  BY <1>1, WFMin
<1>3. ASSUME NEW k \in 0..n - 1, k \in Bad PROVE FALSE
  <2>1. <<k, n>> \in OpToRel(<, Nat)
    BY <1>3 DEF OpToRel
  <2> QED
    BY <1>2, <1>3, <2>1
<1> QED
  BY <1>3

\* Folds.tla: the recursion of a fold over the indices of a sequence has a solution.
IsFoldOf(f, D, V, base, step) ==
    /\ f \in [SUBSET D -> V]
    /\ \A s \in SUBSET D : f[s] = IF s = {} THEN base ELSE step[<<f[s \ {Max(s)}], Max(s)>>]

LEMMA FoldExists ==
    ASSUME NEW D, D \in SUBSET Nat, IsFiniteSet(D), NEW V, NEW base \in V,
           NEW step, step \in [V \X D -> V]
    PROVE  \E f : IsFoldOf(f, D, V, base, step)
<1> DEFINE Upto(k) == {s \in SUBSET D : Cardinality(s) <= k}
           IsFold(f, k) == \A s \in Upto(k) :
                              f[s] = IF s = {} THEN base ELSE step[<<f[s \ {Max(s)}], Max(s)>>]
           Good(k) == \E f \in [Upto(k) -> V] : IsFold(f, k)
           Bad == {k \in Nat : ~Good(k)}
<1>1. \A s \in SUBSET D : IsFiniteSet(s) /\ Cardinality(s) \in Nat
  BY FS_Subset, FS_CardinalityType
<1>2. \A s \in SUBSET D : s # {} =>
         Max(s) \in D /\ s \ {Max(s)} \in SUBSET D /\ Cardinality(s \ {Max(s)}) = Cardinality(s) - 1
  BY <1>1, MaxIsMember, FS_RemoveElement
<1>3. ASSUME Bad # {} PROVE FALSE
  <2>1. PICK k \in Bad : \A n \in 0..k - 1 : n \notin Bad
    <3> HIDE DEF Bad
    <3>1. Bad \in SUBSET Nat
      BY DEF Bad
    <3> QED
      BY <1>3, <3>1, LeastExists
  <2>2. CASE k = 0
    <3> DEFINE f == [s \in Upto(0) |-> base]
    <3>1. \A s \in Upto(0) : s = {}
      BY <1>1, FS_EmptySet
    <3>2. f \in [Upto(0) -> V] /\ IsFold(f, 0)
      BY <3>1
    <3>3. Good(0)
      <4> HIDE DEF f, IsFold, Upto
      <4> QED
        BY <3>2
    <3> HIDE DEF Good
    <3> QED
      BY <2>1, <2>2, <3>3
  <2>3. CASE k # 0
    <3>1. k - 1 \in Nat /\ k \in Nat
      BY <2>3
    <3>2. Good(k - 1)
      <4> HIDE DEF Good
      <4> QED
        BY <2>1, <3>1
    <3>3. PICK f \in [Upto(k - 1) -> V] : IsFold(f, k - 1)
      BY <3>2
    <3> DEFINE g == [s \in Upto(k) |-> IF Cardinality(s) <= k - 1 THEN f[s]
                                       ELSE step[<<f[s \ {Max(s)}], Max(s)>>]]
    <3>4. ASSUME NEW s \in Upto(k), s # {}
          PROVE  s \ {Max(s)} \in Upto(k - 1) /\ s \ {Max(s)} \in Upto(k) /\ Max(s) \in D
      BY <1>1, <1>2, <3>1, <3>4
    <3>5. \A s \in Upto(k) : Cardinality(s) <= k - 1 => s \in Upto(k - 1)
      OBVIOUS
    <3>6. \A s \in Upto(k) : s = {} => Cardinality(s) <= k - 1
      BY <3>1, FS_EmptySet
    <3>7. g \in [Upto(k) -> V]
      <4> SUFFICES ASSUME NEW s \in Upto(k)
            PROVE  (IF Cardinality(s) <= k - 1 THEN f[s] ELSE step[<<f[s \ {Max(s)}], Max(s)>>]) \in V
        OBVIOUS
      <4>1. CASE Cardinality(s) <= k - 1
        BY <4>1, <3>5
      <4>2. CASE ~(Cardinality(s) <= k - 1)
        <5>1. f[s \ {Max(s)}] \in V /\ Max(s) \in D
          BY <3>4, <3>6, <4>2
        <5> QED
          BY <5>1, <4>2
      <4> QED
        BY <4>1, <4>2
    <3>8. ASSUME NEW s \in Upto(k)
          PROVE  g[s] = IF s = {} THEN base ELSE step[<<g[s \ {Max(s)}], Max(s)>>]
      <4>1. CASE s = {}
        BY <4>1, <3>3, <3>5, <3>6
      <4>2. CASE s # {}
        <5>1. /\ s \ {Max(s)} \in Upto(k) /\ Cardinality(s \ {Max(s)}) <= k - 1
          BY <3>4, <4>2
        <5>2. g[s \ {Max(s)}] = f[s \ {Max(s)}]
          BY <5>1
        <5>3. g[s] = step[<<f[s \ {Max(s)}], Max(s)>>]
          BY <4>2, <3>3, <3>5
        <5> QED
          BY <4>2, <5>2, <5>3
      <4> QED
        BY <4>1, <4>2
    <3>9. Good(k)
      <4>1. IsFold(g, k)
        BY <3>8
      <4> HIDE DEF g, IsFold, Upto
      <4> QED
        BY <3>7, <4>1
    <3> HIDE DEF Good
    <3> QED
      BY <2>1, <3>9
  <2> QED
    BY <2>2, <2>3
<1> DEFINE n == Cardinality(D)
<1>4. n \in Nat /\ Upto(n) = SUBSET D
  BY FS_Subset, FS_CardinalityType
<1>5. Good(n)
  <2> HIDE DEF Good
  <2> QED
    BY <1>3, <1>4
<1> QED
  BY <1>4, <1>5 DEF IsFoldOf

LEMMA BlendedIsFraction ==
    ASSUME NEW S, NEW best \in Seq(S), best # << >>, NEW scores, \A c \in S : scores[c] \in Fractions
    PROVE  Blended(best, scores) \in Fractions
<1> DEFINE D == DOMAIN best
           all == FoldLeft(LAMBDA sum, c : Plus(sum, scores[c]), <<0, 1>>, best)
           IsFold(f) == f = [s \in SUBSET D |-> IF s = {} THEN <<0, 1>>
                                                ELSE Plus(f[s \ {Max(s)}], scores[best[Max(s)]])]
           iter == CHOOSE f : IsFold(f)
<1>1. D = 1..Len(best) /\ Len(best) \in Nat \ {0} /\ D \in SUBSET Nat /\ IsFiniteSet(D)
  <2>1. D = 1..Len(best) /\ Len(best) \in Nat \ {0}
    OBVIOUS
  <2> QED
    BY <2>1, FS_Interval
<1>2. \A i \in D : best[i] \in S
  OBVIOUS
<1>0. IsFiniteSet(D) /\ D \in SUBSET Nat
  BY <1>1
<1>3. all = iter[D]
  BY SMT DEF FoldLeft, MapThenFoldSet
<1>4. <<0, 1>> \in Fractions
  BY DEF Fractions
<1>5. \A s \in SUBSET D : IsFiniteSet(s) /\ s \in SUBSET Nat
  BY <1>1, FS_Subset
<1>6. \E f : IsFold(f)
  <2> DEFINE step == [p \in Fractions \X D |-> Plus(p[1], scores[best[p[2]]])]
  <2>1. step \in [Fractions \X D -> Fractions]
    BY <1>2, PlusIsFraction
  <2> DEFINE zero == <<0, 1>>
  <2>2. PICK f : IsFoldOf(f, D, Fractions, zero, step)
    <3>1. zero \in Fractions
      BY <1>4
    <3> HIDE DEF step, D, zero
    <3> QED
      BY ONLY <1>0, <3>1, <2>1, FoldExists
  <2>3. ASSUME NEW s \in SUBSET D, s # {}
        PROVE  step[<<f[s \ {Max(s)}], Max(s)>>] = Plus(f[s \ {Max(s)}], scores[best[Max(s)]])
    <3>1. Max(s) \in D
      BY <1>5, <2>3, MaxIsMember
    <3>2. f[s \ {Max(s)}] \in Fractions
      BY <2>2 DEF IsFoldOf
    <3> QED
      BY <3>1, <3>2
  <2>4. \A s \in SUBSET D : f[s] = IF s = {} THEN <<0, 1>>
                                   ELSE Plus(f[s \ {Max(s)}], scores[best[Max(s)]])
    <3> HIDE DEF step, D
    <3> QED
      BY <2>2, <2>3 DEF IsFoldOf
  <2>5. f = [s \in SUBSET D |-> f[s]]
    <3> HIDE DEF step, D
    <3> QED
      BY <2>2 DEF IsFoldOf
  <2> QED
    BY <2>4, <2>5
<1>7. IsFold(iter)
  <2> HIDE DEF IsFold
  <2> QED
    BY <1>6
<1>8. \A s \in SUBSET D : iter[s] = IF s = {} THEN <<0, 1>>
                                    ELSE Plus(iter[s \ {Max(s)}], scores[best[Max(s)]])
  <2> HIDE DEF iter
  <2> QED
    BY <1>7
<1> HIDE DEF iter, IsFold, all
<1>9. \A s \in SUBSET D : iter[s] \in Fractions
  <2> DEFINE Bad == {s \in SUBSET D : iter[s] \notin Fractions}
  <2>1. SUFFICES ASSUME Bad # {} PROVE FALSE
    OBVIOUS
  <2>2. PICK s \in Bad : \A U \in SUBSET s : U # s => U \notin Bad
    <3>1. Bad \in SUBSET (SUBSET D)
      OBVIOUS
    <3> HIDE DEF Bad, D
    <3> QED
      BY ONLY <2>1, <3>1, <1>0, SmallestSubset
  <2>3. s # {}
    BY <1>4, <1>8
  <2>4. Max(s) \in s
    BY <1>5, <2>3, MaxIsMember
  <2>5. iter[s \ {Max(s)}] \in Fractions
    BY <2>2, <2>4
  <2>6. scores[best[Max(s)]] \in Fractions
    BY <1>2, <2>4
  <2>7. iter[s] = Plus(iter[s \ {Max(s)}], scores[best[Max(s)]])
    BY <1>8, <2>3
  <2> QED
    BY <2>5, <2>6, <2>7, PlusIsFraction
<1>10. all \in Fractions
  BY <1>3, <1>9
<1>11. scores[best[1]] \in Fractions
  BY <1>1, <1>2
<1> DEFINE top == scores[best[1]]
<1>12. Blended(best, scores) = Plus(<<top[1], 2 * top[2]>>, <<all[1], 2 * all[2] * Len(best)>>)
  BY DEF Blended, all
<1> HIDE DEF top
<1>13. <<top[1], 2 * top[2]>> \in Fractions
  BY <1>11 DEF Fractions, top
<1>14. <<all[1], 2 * all[2] * Len(best)>> \in Fractions
  <2>1. PICK x \in Int, y \in Nat \ {0} : all = <<x, y>>
    BY <1>10 DEF Fractions
  <2> QED
    BY <1>1, <2>1 DEF Fractions
<1> QED
  BY <1>12, <1>13, <1>14, PlusIsFraction

LEMMA ImageIsFinite ==
    ASSUME NEW S, IsFiniteSet(S), NEW f, f = [x \in S |-> f[x]]
    PROVE  IsFiniteSet({f[x] : x \in S})
<1> DEFINE T == {f[x] : x \in S}
<1>1. f \in Surjection(S, T)
  BY DEF Surjection
<1> HIDE DEF T
<1>2. IsFiniteSet(T)
  BY <1>1, FS_Surjection
<1> QED
  BY <1>2 DEF T

-----------------------------------------------------------------------------
(* The final order: engine.py, _sanitize_and_sort_candidates, _build_hits. *)

AHit == [paper : Nat, score : Fractions]

HitsFit(hits) ==
    /\ hits \in Seq(AHit)
    /\ \A i, j \in 1..Len(hits) : hits[i].paper = hits[j].paper => i = j

\* The hits as they are sorted, before the cut.
Final(hits) ==
    LET keys == DOMAIN hits
    IN  [i \in keys |-> hits[Arranged(keys, {p \in keys \X keys : Before(hits[p[1]], hits[p[2]])})[i]]]

LEMMA BeforeIsOrder ==
    ASSUME NEW g \in AHit, NEW h \in AHit, NEW k \in AHit
    PROVE  /\ ~(Before(g, h) /\ Before(h, g))
           /\ ~Before(g, h) /\ ~Before(h, k) => ~Before(g, k)
           /\ g.paper # h.paper => Before(g, h) \/ Before(h, g)
<1>1. /\ g.score \in Fractions /\ h.score \in Fractions /\ k.score \in Fractions
      /\ g.paper \in Nat /\ h.paper \in Nat /\ k.paper \in Nat
  BY DEF AHit
<1>2. \A a, b \in Fractions : Same(a, b) <=> ~Above(a, b) /\ ~Above(b, a)
  <2> SUFFICES ASSUME NEW a \in Fractions, NEW b \in Fractions
        PROVE  Same(a, b) <=> ~Above(a, b) /\ ~Above(b, a)
    OBVIOUS
  <2>1. a[1] * b[2] \in Int /\ b[1] * a[2] \in Int
    BY DEF Fractions
  <2> QED
    BY <2>1 DEF Same, Above
<1>3. \A a, b \in Fractions : ~(Above(a, b) /\ Above(b, a))
  BY FractionsAreOrdered
<1>4. \A a, b, c \in Fractions : ~Above(a, b) /\ ~Above(b, c) => ~Above(a, c)
  BY FractionsAreOrdered
<1> DEFINE gs == g.score
           hs == h.score
           ks == k.score
           gp == g.paper
           hp == h.paper
           kp == k.paper
<1>5. /\ Before(g, h) <=> Above(gs, hs) \/ (~Above(gs, hs) /\ ~Above(hs, gs) /\ gp < hp)
      /\ Before(h, g) <=> Above(hs, gs) \/ (~Above(gs, hs) /\ ~Above(hs, gs) /\ hp < gp)
      /\ Before(h, k) <=> Above(hs, ks) \/ (~Above(hs, ks) /\ ~Above(ks, hs) /\ hp < kp)
      /\ Before(g, k) <=> Above(gs, ks) \/ (~Above(gs, ks) /\ ~Above(ks, gs) /\ gp < kp)
  BY <1>1, <1>2 DEF Before
<1>6. gs \in Fractions /\ hs \in Fractions /\ ks \in Fractions
  BY <1>1
<1>7. gp \in Nat /\ hp \in Nat /\ kp \in Nat
  BY <1>1
<1> HIDE DEF gs, hs, ks, gp, hp, kp
<1>8. ~(Before(g, h) /\ Before(h, g))
  BY <1>3, <1>5, <1>6, <1>7
<1>9. ASSUME ~Before(g, h), ~Before(h, k) PROVE ~Before(g, k)
  <2>1. ~Above(gs, hs) /\ ~Above(hs, ks) /\ ~Above(gs, ks)
    BY <1>4, <1>5, <1>6, <1>9
  <2>2. CASE ~Above(ks, gs)
    <3>1. ~Above(ks, hs) /\ ~Above(hs, gs)
      BY <1>4, <1>6, <2>1, <2>2
    <3>2. ~(gp < hp) /\ ~(hp < kp)
      BY <1>5, <1>9, <2>1, <3>1
    <3>3. ~(gp < kp)
      BY <3>2, <1>7
    <3> QED
      BY <1>5, <2>1, <3>3
  <2>3. CASE Above(ks, gs)
    BY <1>5, <2>1, <2>3
  <2> QED
    BY <2>2, <2>3
<1>10. gp # hp => Before(g, h) \/ Before(h, g)
  <2>1. gp # hp => gp < hp \/ hp < gp
    BY <1>7
  <2> QED
    BY <2>1, <1>5
<1> QED
  BY <1>8, <1>9, <1>10 DEF gp, hp

LEMMA FinalIsSorted ==
    ASSUME NEW hits, HitsFit(hits)
    PROVE  /\ Final(hits) \in Seq(AHit) /\ Len(Final(hits)) = Len(hits)
           /\ \A i, j \in 1..Len(hits) : i < j => Before(Final(hits)[i], Final(hits)[j])
           /\ \A i \in 1..Len(hits) : \E j \in 1..Len(hits) : Final(hits)[i] = hits[j]
<1> DEFINE D == DOMAIN hits
           R == {p \in D \X D : Before(hits[p[1]], hits[p[2]])}
           order == Arranged(D, R)
<1>1. hits \in Seq(AHit) /\ D = 1..Len(hits) /\ Len(hits) \in Nat /\ \A i \in D : hits[i] \in AHit
  BY DEF HitsFit
<1>2. IsFiniteSet(D)
  BY <1>1, FS_Interval
<1>3. \A x, y \in D : <<x, y>> \in R <=> Before(hits[x], hits[y])
  OBVIOUS
<1>4. Orders(R, D)
  <2>1. \A x, y \in D : ~(Before(hits[x], hits[y]) /\ Before(hits[y], hits[x]))
    BY <1>1, BeforeIsOrder
  <2>2. \A x, y, z \in D : ~Before(hits[x], hits[y]) /\ ~Before(hits[y], hits[z])
                              => ~Before(hits[x], hits[z])
    BY <1>1, BeforeIsOrder
  <2> HIDE DEF R, D
  <2> QED
    BY <1>3, <2>1, <2>2 DEF Orders
<1>5. PICK seq \in SetToSeqs(D) : \A i, j \in DOMAIN seq : i < j => <<seq[j], seq[i]>> \notin R
  <2> HIDE DEF R, D
  <2> QED
    BY <1>2, <1>4, ArrangementExists
<1>6. ASSUME NEW s \in SetToSeqs(D)
      PROVE  /\ DOMAIN s = 1..Len(hits) /\ \A i \in 1..Len(hits) : s[i] \in 1..Len(hits)
             /\ \A i, j \in 1..Len(hits) : s[i] = s[j] => i = j
  <2>1. Cardinality(D) = Len(hits)
    BY <1>1, FS_Interval
  <2> HIDE DEF D
  <2> QED
    BY <1>1, <2>1 DEF SetToSeqs
<1>7. order \in SetToSeqs(D) /\ \A i, j \in DOMAIN order : i < j => <<order[j], order[i]>> \notin R
  <2> HIDE DEF R, D
  <2> QED
    BY <1>5 DEF Arranged
<1>8. \A i, j \in DOMAIN order : i < j => ~Before(hits[order[j]], hits[order[i]])
  <2> HIDE DEF order
  <2>1. \A i \in DOMAIN order : order[i] \in D
    BY <1>1, <1>6, <1>7
  <2> HIDE DEF R, D
  <2> QED
    BY <1>3, <1>7, <2>1
<1>9. Final(hits) = [i \in D |-> hits[order[i]]]
  BY DEF Final
<1> HIDE DEF order
<1>10. /\ DOMAIN order = 1..Len(hits) /\ \A i \in 1..Len(hits) : order[i] \in 1..Len(hits)
       /\ \A i, j \in 1..Len(hits) : order[i] = order[j] => i = j
  BY <1>6, <1>7
<1>11. \A i \in 1..Len(hits) : Final(hits)[i] = hits[order[i]]
  BY <1>1, <1>9
<1>12. Final(hits) \in Seq(AHit) /\ Len(Final(hits)) = Len(hits)
  BY <1>1, <1>9, <1>10
<1>13. ASSUME NEW i \in 1..Len(hits), NEW j \in 1..Len(hits), i < j
       PROVE  Before(Final(hits)[i], Final(hits)[j])
  <2>1. ~Before(hits[order[j]], hits[order[i]])
    BY <1>8, <1>10, <1>13
  <2>2. order[i] # order[j] /\ order[i] \in 1..Len(hits) /\ order[j] \in 1..Len(hits)
    BY <1>10, <1>13
  <2>3. hits[order[i]].paper # hits[order[j]].paper
    BY <2>2 DEF HitsFit
  <2>4. hits[order[i]] \in AHit /\ hits[order[j]] \in AHit
    BY <1>1, <2>2
  <2> QED
    BY <1>11, <2>1, <2>3, <2>4, BeforeIsOrder
<1> QED
  BY <1>10, <1>11, <1>12, <1>13

\* The answer is ordered, of what was found, and the beginning of a longer one.
LEMMA BuiltFits ==
    ASSUME NEW asked, asked.top_k \in Nat, NEW found, HitsFit(found.hits)
    PROVE  /\ Ordered(asked, Built(asked, found))
           /\ Built(asked, found).hits = Cut(Final(found.hits), asked.top_k)
           /\ \A i \in DOMAIN Built(asked, found).hits :
                 \E j \in 1..Len(found.hits) : Built(asked, found).hits[i] = found.hits[j]
           /\ \A p \in DOMAIN Built(asked, found).evidence :
                 p \in DOMAIN found.evidence /\ Built(asked, found).evidence[p] = found.evidence[p]
<1> DEFINE hits == found.hits
           S == Final(hits)
           best == Cut(S, asked.top_k)
           n == asked.top_k
<1>1. /\ Built(asked, found).hits = best
      /\ Built(asked, found).evidence = [p \in PapersOf(best) \cap DOMAIN found.evidence |-> found.evidence[p]]
  BY DEF Built, Final
<1>2. /\ S \in Seq(AHit) /\ Len(S) = Len(hits) /\ Len(hits) \in Nat
      /\ \A i, j \in 1..Len(hits) : i < j => Before(S[i], S[j])
      /\ \A i \in 1..Len(hits) : \E j \in 1..Len(hits) : S[i] = hits[j]
  <2>1. HitsFit(hits)
    OBVIOUS
  <2> HIDE DEF hits
  <2>2. /\ S \in Seq(AHit) /\ Len(S) = Len(hits)
        /\ \A i, j \in 1..Len(hits) : i < j => Before(S[i], S[j])
        /\ \A i \in 1..Len(hits) : \E j \in 1..Len(hits) : S[i] = hits[j]
    BY ONLY <2>1, FinalIsSorted
  <2>3. Len(hits) \in Nat
    BY <2>1 DEF HitsFit
  <2> QED
    BY <2>2, <2>3
<1>3. Lists(S, AHit)
  <2> SUFFICES ASSUME NEW i \in 1..Len(S), NEW j \in 1..Len(S), S[i] = S[j] PROVE i = j
    BY <1>2 DEF Lists
  <2> HIDE DEF S
  <2>1. S[i] \in AHit
    BY <1>2
  <2>2. ~Before(S[i], S[i])
    BY <2>1, BeforeIsOrder
  <2>3. ~(i < j) /\ ~(j < i)
    BY <1>2, <2>2
  <2> QED
    BY <2>3, <1>2
<1> HIDE DEF S
<1>4. /\ best \in Seq(AHit) /\ Len(best) <= n /\ DOMAIN best = 1..Len(best)
      /\ \A i \in 1..Len(best) : i \in 1..Len(S) /\ best[i] = S[i]
  <2>1. /\ Lists(best, AHit) /\ Len(best) = IF Len(S) < n THEN Len(S) ELSE n
        /\ \A i \in 1..Len(best) : i \in 1..Len(S) /\ best[i] = S[i]
    BY <1>3, CutLists
  <2> HIDE DEF best
  <2>2. best \in Seq(AHit) /\ DOMAIN best = 1..Len(best)
    BY <2>1 DEF Lists
  <2>3. Len(best) <= n
    BY <2>1, <1>2
  <2> QED
    BY <2>1, <2>2, <2>3
<1> HIDE DEF best
<1>5. \A i, j \in DOMAIN best : i < j => Before(best[i], best[j])
  BY <1>2, <1>4
<1>6. Ordered(asked, Built(asked, found))
  BY <1>1, <1>4, <1>5 DEF Ordered, Before
<1>7. \A i \in DOMAIN best : \E j \in 1..Len(hits) : best[i] = hits[j]
  BY <1>2, <1>4
<1> QED
  BY <1>1, <1>6, <1>7 DEF best, S

-----------------------------------------------------------------------------
(* The levels, over collections that fit CollectionConstants.              *)

StoreFits(store, query) ==
    /\ store.papers \subseteq Nat /\ IsFiniteSet(store.papers)
    /\ store.fit \subseteq store.papers
    /\ IsFiniteSet(store.chunks) /\ \A c \in store.chunks : c[2] \in Nat
    /\ \A p \in store.papers : p \in DOMAIN query.paper /\ query.paper[p] \in Int
    /\ \A c \in store.chunks : query.bm25[c] \in Int /\ query.chunk[c] \in Int

\* AnnSearchPhase: the papers pass the filters of the request, and no paper is found twice.
LEMMA PaperSearchLists ==
    ASSUME NEW asked, asked.top_k \in Nat, NEW query, NEW store, StoreFits(store, query)
    PROVE  Lists(PaperSearch(asked, query, store), Matching(asked, store))
<1> DEFINE keys == Matching(asked, store)
           n == TopCandidates(asked)
<1>1. keys \in SUBSET store.papers
  BY DEF Matching
<1>2. IsFiniteSet(keys)
  BY <1>1, FS_Subset DEF StoreFits
<1>3. \A p \in keys : query.paper[p] \in Int
  BY <1>1 DEF StoreFits
<1>4. n \in Nat
  BY EngineConstants DEF TopCandidates
<1> HIDE DEF keys, n
<1>5. Lists(Nearest(keys, query.paper, n), keys)
  BY <1>2, <1>3, <1>4, NearestLists
<1> QED
  BY <1>5 DEF PaperSearch, keys, n

\* A scoring gives a number to every paper that a query has one for.
Numbers(scoring, query) == \A p \in DOMAIN query.paper : scoring[p] \in Int

\* FusionPhase: another order of the same papers.
LEMMA RerankedLists ==
    ASSUME NEW S, NEW papers, Lists(papers, S), NEW query, NEW scoring,
           \A p \in S : query.paper[p] \in Int /\ scoring[p] \in Int
    PROVE  Lists(Reranked(papers, query, scoring), S)
<1> DEFINE score == IF Len(papers) > 1 THEN scoring ELSE query.paper
           scores == [p \in ToSet(papers) |-> <<score[p], 1>>]
<1>1. IsFiniteSet(ToSet(papers)) /\ ToSet(papers) \subseteq S
  BY ToSetIsFinite DEF Lists
<1>2. \A p \in ToSet(papers) : score[p] \in Int
  BY <1>1
<1> HIDE DEF score
<1>3. DOMAIN scores = ToSet(papers) /\ \A p \in DOMAIN scores : scores[p] \in Fractions
  BY <1>2 DEF Fractions
<1>4. Reranked(papers, query, scoring) = Ranked(scores)
  BY DEF Reranked, score
<1> HIDE DEF scores
<1>5. Lists(Ranked(scores), ToSet(papers))
  BY <1>1, <1>3, RankedLists
<1>6. \A T : T \subseteq S => (Lists(Ranked(scores), T) => Lists(Ranked(scores), S))
  <2> SUFFICES ASSUME NEW T, T \subseteq S, Lists(Ranked(scores), T) PROVE Lists(Ranked(scores), S)
    OBVIOUS
  <2>1. Ranked(scores) \in Seq(S)
    BY DEF Lists
  <2> QED
    BY <2>1 DEF Lists
<1> QED
  BY <1>1, <1>4, <1>5, <1>6

LEMMA HitsOfLists ==
    ASSUME NEW papers, Lists(papers, Nat), NEW scores, \A p \in ToSet(papers) : scores[p] \in Fractions
    PROVE  /\ HitsFit(Hits(papers, scores)) /\ DOMAIN Hits(papers, scores) = DOMAIN papers
           /\ Len(Hits(papers, scores)) = Len(papers)
           /\ \A i \in DOMAIN papers : /\ Hits(papers, scores)[i].paper = papers[i]
                                       /\ Hits(papers, scores)[i].score = scores[papers[i]]
<1> DEFINE hits == Hits(papers, scores)
<1>1. papers \in Seq(Nat) /\ DOMAIN papers = 1..Len(papers) /\ Len(papers) \in Nat
  BY DEF Lists
<1>2. \A i \in DOMAIN papers : papers[i] \in Nat /\ papers[i] \in ToSet(papers)
  BY <1>1 DEF ToSet
<1>3. hits = [i \in 1..Len(papers) |-> [paper |-> papers[i], score |-> scores[papers[i]]]]
  BY <1>1 DEF Hits
<1> HIDE DEF hits
<1>4. \A i \in 1..Len(papers) : /\ hits[i] \in AHit /\ hits[i].paper = papers[i]
                                /\ hits[i].score = scores[papers[i]]
  BY <1>1, <1>2, <1>3 DEF AHit
<1>5. hits \in Seq(AHit) /\ Len(hits) = Len(papers) /\ DOMAIN hits = 1..Len(papers)
  BY <1>1, <1>3, <1>4
<1>6. HitsFit(hits)
  BY <1>4, <1>5 DEF HitsFit, Lists
<1> QED
  BY <1>1, <1>4, <1>5, <1>6 DEF hits

LEMMA LevelOneFits ==
    ASSUME NEW papers, NEW S \in SUBSET Nat, Lists(papers, S), NEW query, NEW scoring,
           \A p \in S : query.paper[p] \in Int /\ scoring[p] \in Int
    PROVE  /\ HitsFit(LevelOne(papers, query, scoring).hits)
           /\ PapersOf(LevelOne(papers, query, scoring).hits) \subseteq S
<1> DEFINE score == IF Len(papers) > 1 THEN scoring ELSE query.paper
           scores == [p \in ToSet(papers) |-> <<score[p], 1>>]
<1>1. papers \in Seq(S) /\ papers \in Seq(Nat) /\ ToSet(papers) \subseteq S /\ DOMAIN papers = 1..Len(papers)
  <2>1. papers \in Seq(S)
    BY DEF Lists
  <2>0. DOMAIN papers = 1..Len(papers) /\ Len(papers) \in Nat /\ \A i \in 1..Len(papers) : papers[i] \in S
    BY ONLY <2>1
  <2>2. \A i \in 1..Len(papers) : papers[i] \in Nat
    BY <2>0
  <2>3. papers = [i \in 1..Len(papers) |-> papers[i]]
    BY <2>1
  <2>4. papers \in Seq(Nat)
    BY <2>0, <2>2, <2>3
  <2> QED
    BY <2>0, <2>1, <2>4, ToSetIsFinite
<1>2. \A p \in ToSet(papers) : score[p] \in Int
  BY <1>1
<1>3. LevelOne(papers, query, scoring).hits = Hits(papers, scores)
  BY DEF LevelOne
<1> HIDE DEF score
<1>4. \A p \in ToSet(papers) : scores[p] \in Fractions
  BY <1>2 DEF Fractions
<1> HIDE DEF scores
<1>5. Lists(papers, Nat)
  BY <1>1 DEF Lists
<1> QED
  BY <1>1, <1>3, <1>4, <1>5, HitsOfLists DEF PapersOf

-----------------------------------------------------------------------------
(* Level 2.                                                                *)

LEMMA WeightedIsFraction ==
    ASSUME NEW chunks, IsFiniteSet(chunks), NEW score,
           \A d \in chunks : d[2] \in Nat /\ score[d] \in Int, NEW c \in chunks
    PROVE  Weighted(c, chunks, score) \in Fractions
<1> DEFINE own == {e \in chunks : e[1] = c[1]}
           f == [d \in own |-> d[2]]
           places == {d[2] : d \in own}
           last == Max(places)
<1>1. IsFiniteSet(own) /\ own \subseteq chunks
  BY FS_Subset
<1>2. IsFiniteSet({f[d] : d \in own})
  <2> DEFINE O == own
  <2>1. IsFiniteSet(O) /\ f = [d \in O |-> f[d]]
    BY <1>1
  <2> HIDE DEF O, f
  <2>2. IsFiniteSet({f[d] : d \in O})
    BY <2>1, ImageIsFinite
  <2> QED
    BY <2>2 DEF O
<1>3. places = {f[d] : d \in own}
  OBVIOUS
<1>4. places \in SUBSET Nat /\ places # {}
  BY <1>1
<1> HIDE DEF f
<1>5. last \in Nat
  <2>1. IsFiniteSet(places)
    BY <1>2, <1>3
  <2> HIDE DEF places
  <2> QED
    BY <1>4, <2>1, MaxIsMember
<1>6. Weighted(c, chunks, score) = IF last = 0 THEN <<score[c], 1>>
                                   ELSE <<score[c] * (10 * last + Beta * c[2]), 10 * last>>
  BY DEF Weighted
<1>7. Beta \in Nat /\ c[2] \in Nat /\ score[c] \in Int
  BY EngineConstants
<1> HIDE DEF last
<1>8. CASE last = 0
  BY <1>6, <1>7, <1>8 DEF Fractions
<1>9. CASE last # 0
  <2>1. Beta * c[2] \in Int
    BY <1>7
  <2>2. 10 * last + Beta * c[2] \in Int /\ 10 * last \in Nat \ {0}
    BY <1>5, <1>9, <2>1
  <2> DEFINE w == 10 * last + Beta * c[2]
  <2>3. score[c] * w \in Int
    <3>1. w \in Int
      BY <2>2
    <3> HIDE DEF w
    <3> QED
      BY <3>1, <1>7
  <2> QED
    BY <1>6, <1>9, <2>2, <2>3 DEF Fractions
<1> QED
  BY <1>8, <1>9

\* The chunks of each paper, none twice.
Grouped(own, chunks) ==
    /\ DOMAIN own = {c[1] : c \in chunks} /\ IsFiniteSet(DOMAIN own)
    /\ \A p \in DOMAIN own : Lists(own[p], {d \in chunks : d[1] = p}) /\ own[p] # << >>

LEMMA ByPaperFits ==
    ASSUME NEW chunks, IsFiniteSet(chunks), NEW scores, \A c \in chunks : scores[c] \in Fractions,
           NEW own, own = ByPaper(chunks, scores)
    PROVE  Grouped(own, chunks)
<1>1. DOMAIN own = {c[1] : c \in chunks}
  BY DEF ByPaper
<1>2. IsFiniteSet({c[1] : c \in chunks})
  <2> DEFINE f == [c \in chunks |-> c[1]]
  <2>1. f = [c \in chunks |-> f[c]] /\ {c[1] : c \in chunks} = {f[c] : c \in chunks}
    OBVIOUS
  <2> HIDE DEF f
  <2>2. IsFiniteSet({f[c] : c \in chunks})
    BY <2>1, ImageIsFinite
  <2> QED
    BY <2>1, <2>2
<1>3. ASSUME NEW p \in DOMAIN own
      PROVE  Lists(own[p], {d \in chunks : d[1] = p}) /\ own[p] # << >>
  <2> DEFINE T == {d \in chunks : d[1] = p}
             best == [c \in T |-> scores[c]]
  <2>1. own[p] = Ranked(best)
    BY <1>1, <1>3 DEF ByPaper
  <2>2. IsFiniteSet(T)
    BY FS_Subset
  <2>3. DOMAIN best = T /\ \A c \in DOMAIN best : best[c] \in Fractions
    OBVIOUS
  <2>4. T # {}
    BY <1>1, <1>3
  <2> HIDE DEF best, T
  <2>5. Lists(Ranked(best), T) /\ ToSet(Ranked(best)) = T
    BY <2>2, <2>3, RankedLists
  <2>6. Ranked(best) # << >>
    BY <2>4, <2>5 DEF ToSet
  <2> QED
    BY <2>1, <2>5, <2>6 DEF T
<1> QED
  BY <1>1, <1>2, <1>3 DEF Grouped

\* MaxPAggregationPhase: no paper comes twice, and no more than three chunks of each, its own.
LEMMA AggregationFits ==
    ASSUME NEW chunks, IsFiniteSet(chunks), NEW scores, \A c \in chunks : scores[c] \in Fractions,
           NEW own, own = ByPaper(chunks, scores)
    PROVE  /\ Lists(Ranked([p \in DOMAIN own |-> Blended(Cut(own[p], TopChunks), scores)]), DOMAIN own)
           /\ \A p \in DOMAIN own :
                 /\ Len(Cut(own[p], EvidenceChunks)) \in 1..EvidenceChunks
                 /\ \A c \in ToSet(Cut(own[p], EvidenceChunks)) : c[1] = p
<1>1. /\ DOMAIN own = {c[1] : c \in chunks} /\ IsFiniteSet(DOMAIN own)
      /\ \A p \in DOMAIN own : Lists(own[p], {d \in chunks : d[1] = p}) /\ own[p] # << >>
  <2>1. Grouped(own, chunks)
    BY ByPaperFits
  <2> QED
    BY <2>1 DEF Grouped
<1>2. ASSUME NEW p \in DOMAIN own, NEW n \in Nat \ {0}
      PROVE  /\ Cut(own[p], n) \in Seq({d \in chunks : d[1] = p})
             /\ Len(Cut(own[p], n)) \in 1..n
  <2> DEFINE T == {d \in chunks : d[1] = p}
  <2>1. Lists(own[p], T) /\ own[p] # << >>
    BY <1>1, <1>2
  <2> HIDE DEF T
  <2>2. Len(own[p]) \in Nat \ {0}
    BY <2>1 DEF Lists
  <2>3. Lists(Cut(own[p], n), T) /\ Len(Cut(own[p], n)) = IF Len(own[p]) < n THEN Len(own[p]) ELSE n
    BY <2>1, CutLists
  <2> QED
    BY <2>2, <2>3 DEF Lists, T
<1> DEFINE scored == [p \in DOMAIN own |-> Blended(Cut(own[p], TopChunks), scores)]
<1>3. ASSUME NEW p \in DOMAIN own PROVE Blended(Cut(own[p], TopChunks), scores) \in Fractions
  <2> DEFINE T == {d \in chunks : d[1] = p}
             best == Cut(own[p], TopChunks)
  <2>0. TopChunks \in Nat \ {0}
    BY DEF TopChunks
  <2>1. best \in Seq(T) /\ Len(best) \in 1..TopChunks
    BY <1>2, <2>0
  <2>2. \A c \in T : scores[c] \in Fractions
    OBVIOUS
  <2> HIDE DEF best, T
  <2>3. best # << >>
    BY <2>1, <2>0
  <2>4. Blended(best, scores) \in Fractions
    BY <2>1, <2>2, <2>3, BlendedIsFraction
  <2> QED
    BY <2>4 DEF best
<1>4. DOMAIN scored = DOMAIN own /\ \A p \in DOMAIN scored : scored[p] \in Fractions
  BY <1>3
<1>5. Lists(Ranked(scored), DOMAIN own)
  <2> HIDE DEF scored
  <2> QED
    BY <1>1, <1>4, RankedLists
<1>6. ASSUME NEW p \in DOMAIN own
      PROVE  /\ Len(Cut(own[p], EvidenceChunks)) \in 1..EvidenceChunks
             /\ \A c \in ToSet(Cut(own[p], EvidenceChunks)) : c[1] = p
  <2>1. /\ Cut(own[p], EvidenceChunks) \in Seq({d \in chunks : d[1] = p})
        /\ Len(Cut(own[p], EvidenceChunks)) \in 1..EvidenceChunks
    <3>1. EvidenceChunks \in Nat \ {0}
      BY DEF EvidenceChunks
    <3> QED
      BY <1>2, <3>1
  <2>2. ToSet(Cut(own[p], EvidenceChunks)) \subseteq {d \in chunks : d[1] = p}
    BY <2>1, ToSetIsFinite
  <2> QED
    BY <2>1, <2>2
<1> QED
  BY <1>5, <1>6

\* RRFFusionPhase: a ranking gives at most half of 1 / (k + 1).
LEMMA ReciprocalIsBounded ==
    ASSUME NEW S, NEW ranking \in Seq(S), NEW p
    PROVE  \E n \in {0, 1}, d \in Nat \ {0} :
              Reciprocal(ranking, p) = <<n, d>> /\ n * (2 * (RrfK + 1)) <= d
<1>0. RrfK \in Nat
  BY EngineConstants
<1>1. CASE p \notin ToSet(ranking)
  <2>1. Reciprocal(ranking, p) = <<0, 1>> /\ 0 * (2 * (RrfK + 1)) <= 1
    BY <1>0, <1>1 DEF Reciprocal
  <2> QED
    BY <2>1
<1>2. CASE p \in ToSet(ranking)
  <2> DEFINE i == Place(ranking, p)
  <2>1. i \in DOMAIN ranking
    BY <1>2 DEF Place, ToSet
  <2>2. i \in Nat \ {0}
    BY <2>1
  <2>3. Reciprocal(ranking, p) = <<1, 2 * (RrfK + i)>>
    BY <1>2 DEF Reciprocal
  <2> HIDE DEF i
  <2>4. 2 * (RrfK + i) \in Nat \ {0} /\ 1 * (2 * (RrfK + 1)) <= 2 * (RrfK + i)
    BY <1>0, <2>2
  <2> QED
    BY <2>3, <2>4
<1> QED
  BY <1>1, <1>2

\* Every paper has the reciprocal score, which is at most that of two first places.
LEMMA FusedIsBounded ==
    ASSUME NEW S, NEW T, NEW one \in Seq(S), NEW two \in Seq(T), NEW p
    PROVE  LET score == Plus(Reciprocal(one, p), Reciprocal(two, p))
           IN  score \in Fractions /\ ~Above(score, <<1, RrfK + 1>>)
<1>1. PICK m \in {0, 1}, c \in Nat \ {0} :
         Reciprocal(one, p) = <<m, c>> /\ m * (2 * (RrfK + 1)) <= c
  BY ReciprocalIsBounded
<1>2. PICK n \in {0, 1}, d \in Nat \ {0} :
         Reciprocal(two, p) = <<n, d>> /\ n * (2 * (RrfK + 1)) <= d
  BY ReciprocalIsBounded
<1>3. Plus(Reciprocal(one, p), Reciprocal(two, p)) = <<m * d + n * c, c * d>>
  BY <1>1, <1>2 DEF Plus
<1>4. m * d + n * c \in Int /\ c * d \in Nat \ {0}
  BY <1>1, <1>2
<1> DEFINE k == RrfK + 1
<1>5. k \in Nat \ {0}
  BY EngineConstants
<1>6. m * (2 * k) <= c /\ n * (2 * k) <= d
  BY <1>1, <1>2
<1> HIDE DEF k
<1>7. (m * (2 * k)) * d <= c * d
  <2> DEFINE a == m * (2 * k)
  <2>1. a \in Int /\ a <= c
    BY <1>5, <1>6
  <2> HIDE DEF a
  <2>2. a * d <= c * d
    BY <2>1, <1>2, Cancelling
  <2> QED
    BY <2>2 DEF a
<1>8. (n * (2 * k)) * c <= d * c
  <2> DEFINE a == n * (2 * k)
  <2>1. a \in Int /\ a <= d
    BY <1>5, <1>6
  <2> HIDE DEF a
  <2>2. a * c <= d * c
    BY <2>1, <1>1, Cancelling
  <2> QED
    BY <2>2 DEF a
<1>9. (m * d + n * c) * k <= 1 * (c * d)
  <2>1. /\ (m * (2 * k)) * d = 2 * ((m * d) * k) /\ (n * (2 * k)) * c = 2 * ((n * c) * k)
        /\ (m * d + n * c) * k = (m * d) * k + (n * c) * k /\ d * c = c * d
    BY <1>1, <1>2, <1>5
  <2> DEFINE u == (m * d) * k
             v == (n * c) * k
             w == c * d
  <2>2. u \in Int /\ v \in Int /\ w \in Int
    BY <1>1, <1>2, <1>5
  <2>3. 2 * u <= w /\ 2 * v <= w
    BY <1>7, <1>8, <2>1
  <2> HIDE DEF u, v, w
  <2>4. u + v <= w
    BY <2>2, <2>3
  <2>5. 1 * w = w
    BY <2>2
  <2> QED
    BY <2>1, <2>4, <2>5 DEF u, v, w
<1>10. ~Above(<<m * d + n * c, c * d>>, <<1, RrfK + 1>>)
  <2>1. Above(<<m * d + n * c, c * d>>, <<1, RrfK + 1>>) <=> (m * d + n * c) * k > 1 * (c * d)
    BY DEF Above, k
  <2> DEFINE u == (m * d + n * c) * k
             w == 1 * (c * d)
  <2>2. u \in Int /\ w \in Int
    BY <1>4, <1>5
  <2>3. u <= w
    BY <1>9
  <2> HIDE DEF u, w
  <2>4. ~(u > w)
    BY <2>2, <2>3
  <2> QED
    BY <2>1, <2>4 DEF u, w
<1> QED
  BY <1>3, <1>4, <1>10 DEF Fractions

\* Where the papers come from, how high they are ranked, and what is shown for them.
CameFrom(hits, S) == \A i \in DOMAIN hits : hits[i].paper \in S
Bounded(hits) == \A i \in DOMAIN hits : ~Above(hits[i].score, <<1, RrfK + 1>>)
Shown(evidence) ==
    \A p \in DOMAIN evidence :
        /\ Len(evidence[p]) \in 1..EvidenceChunks
        /\ \A c \in ToSet(evidence[p]) : c[1] = p

LEMMA MergedFits ==
    ASSUME NEW S \in SUBSET Nat, NEW papers, Lists(papers, S), NEW T, NEW chunks, Lists(chunks, T),
           NEW store, store.papers \subseteq Nat, NEW hits, hits = Merged(papers, chunks, store)
    PROVE  HitsFit(hits) /\ CameFrom(hits, S \cup (T \cap store.papers)) /\ Bounded(hits)
<1> DEFINE extra == (ToSet(chunks) \ ToSet(papers)) \cap store.papers
           more == SetToSeq(extra)
           both == papers \o more
           scores == [p \in ToSet(both) |-> Plus(Reciprocal(papers, p), Reciprocal(chunks, p))]
<1>1. papers \in Seq(S) /\ Len(papers) \in Nat /\ \A i \in 1..Len(papers) : papers[i] \in S
  BY DEF Lists
<1>2. chunks \in Seq(T) /\ IsFiniteSet(ToSet(chunks)) /\ ToSet(chunks) \subseteq T
  BY ToSetIsFinite DEF Lists
<1>3. IsFiniteSet(extra)
  BY <1>2, FS_Subset
<1>4. extra \subseteq T /\ extra \subseteq store.papers /\ extra \cap ToSet(papers) = {}
  BY <1>2
<1> HIDE DEF extra
<1>5. Lists(more, extra)
  BY <1>3, SetToSeqLists
<1> HIDE DEF more
<1>6. more \in Seq(extra) /\ Len(more) \in Nat /\ \A i \in 1..Len(more) : more[i] \in extra
  BY <1>5 DEF Lists
<1>7. /\ Len(both) = Len(papers) + Len(more) /\ DOMAIN both = 1..Len(papers) + Len(more)
      /\ \A i \in 1..Len(papers) + Len(more) :
            both[i] = IF i <= Len(papers) THEN papers[i] ELSE more[i - Len(papers)]
  BY <1>1, <1>6
<1>8. \A i \in DOMAIN both : both[i] \in S \/ (both[i] \in T /\ both[i] \in store.papers)
  <2> SUFFICES ASSUME NEW i \in DOMAIN both
        PROVE  both[i] \in S \/ (both[i] \in T /\ both[i] \in store.papers)
    OBVIOUS
  <2>1. CASE i <= Len(papers)
    BY <1>1, <1>7, <2>1
  <2>2. CASE ~(i <= Len(papers))
    <3>1. i - Len(papers) \in 1..Len(more)
      BY <1>1, <1>6, <1>7, <2>2
    <3> QED
      BY <1>4, <1>6, <1>7, <2>2, <3>1
  <2> QED
    BY <2>1, <2>2
<1>9. \A i \in DOMAIN both : both[i] \in Nat
  BY <1>8
<1>10. both \in Seq(Nat)
  <2>1. both \in Seq(S \cup extra)
    BY <1>1, <1>6
  <2> HIDE DEF both
  <2>2. Len(both) \in Nat /\ both = [i \in 1..Len(both) |-> both[i]] /\ DOMAIN both = 1..Len(both)
    BY <2>1
  <2> QED
    BY <1>9, <2>2
<1>11. ASSUME NEW i \in 1..Len(both), NEW j \in 1..Len(both), both[i] = both[j] PROVE i = j
  <2>1. \A k \in 1..Len(papers) : papers[k] \in ToSet(papers)
    BY <1>1 DEF ToSet
  <2>2. CASE i <= Len(papers) /\ j <= Len(papers)
    <3>1. i \in 1..Len(papers) /\ j \in 1..Len(papers)
      BY <1>1, <1>7, <2>2
    <3> QED
      BY <1>7, <1>11, <2>2, <3>1 DEF Lists
  <2>3. CASE ~(i <= Len(papers)) /\ ~(j <= Len(papers))
    <3>1. i - Len(papers) \in 1..Len(more) /\ j - Len(papers) \in 1..Len(more)
      BY <1>1, <1>6, <1>7, <2>3
    <3>2. more[i - Len(papers)] = more[j - Len(papers)]
      BY <1>7, <1>11, <2>3
    <3>3. i - Len(papers) = j - Len(papers)
      BY <1>5, <3>1, <3>2 DEF Lists
    <3> QED
      BY <1>1, <1>7, <3>3
  <2>4. ASSUME NEW k \in 1..Len(both), NEW l \in 1..Len(both), k <= Len(papers), ~(l <= Len(papers))
        PROVE  both[k] # both[l]
    <3>1. k \in 1..Len(papers) /\ l - Len(papers) \in 1..Len(more)
      BY <1>1, <1>6, <1>7, <2>4
    <3>2. both[k] \in ToSet(papers) /\ both[l] \in extra
      BY <1>6, <1>7, <2>1, <2>4, <3>1
    <3> QED
      BY <1>4, <3>2
  <2> QED
    BY <1>11, <2>2, <2>3, <2>4
<1>12. Lists(both, Nat)
  BY <1>10, <1>11 DEF Lists
<1>13. \A p \in ToSet(both) : scores[p] \in Fractions /\ ~Above(scores[p], <<1, RrfK + 1>>)
  <2> SUFFICES ASSUME NEW p \in ToSet(both)
        PROVE  LET score == Plus(Reciprocal(papers, p), Reciprocal(chunks, p))
               IN  score \in Fractions /\ ~Above(score, <<1, RrfK + 1>>)
    OBVIOUS
  <2> QED
    BY <1>1, <1>2, FusedIsBounded
<1>14. Merged(papers, chunks, store) = Hits(both, scores)
  BY DEF Merged, more, extra
<1>15. \A i \in DOMAIN both : both[i] \in ToSet(both)
  BY DEF ToSet
<1> HIDE DEF both, scores
<1>16. /\ HitsFit(Hits(both, scores)) /\ DOMAIN Hits(both, scores) = DOMAIN both
       /\ \A i \in DOMAIN both : /\ Hits(both, scores)[i].paper = both[i]
                                 /\ Hits(both, scores)[i].score = scores[both[i]]
  BY <1>12, <1>13, HitsOfLists
<1> QED
  BY <1>8, <1>13, <1>14, <1>15, <1>16 DEF CameFrom, Bounded

\* At every call.
StoresFit(store, query) == \A call \in Calls : StoreFits(store[call], query)

\* The papers that chunks may add.
Late(asked, store) ==
    {p \in store["fusion"].papers : asked.filtered => p \in store["eligible"].fit}

\* The phases of level 2 over whatever the collections hold at each of its calls.
LEMMA LevelTwoFits ==
    ASSUME NEW asked, asked.filtered \in BOOLEAN, NEW query, NEW store,
           StoresFit(store, query), NEW S \in SUBSET Nat, NEW papers, Lists(papers, S),
           NEW found, found = LevelTwo(asked, query, papers, store)
    PROVE  /\ HitsFit(found.hits) /\ CameFrom(found.hits, S \cup Late(asked, store))
           /\ Bounded(found.hits) /\ Shown(found.evidence)
<1> DEFINE eligible == Eligible(asked, Candidates(query, store["coarse"]), store["eligible"])
           keys == {c \in store["refine"].chunks : c[1] \in eligible}
           near == Nearest(keys, query.chunk, RefineTopK)
           chunks == Refined(query, eligible, store["refine"])
           scores == [c \in chunks |-> Weighted(c, chunks, query.chunk)]
           own == ByPaper(chunks, scores)
           ranked == Ranked([p \in DOMAIN own |-> Blended(Cut(own[p], TopChunks), scores)])
<1>1. StoreFits(store["refine"], query) /\ StoreFits(store["fusion"], query)
  BY DEF Calls, StoresFit
<1>2. asked.filtered => \A p \in eligible : p \in store["eligible"].fit
  BY DEF Eligible
<1> HIDE DEF eligible
<1>3. /\ IsFiniteSet(keys) /\ RefineTopK \in Nat
      /\ \A c \in keys : query.chunk[c] \in Int /\ c[2] \in Nat /\ c[1] \in eligible
  BY <1>1, FS_Subset, EngineConstants DEF StoreFits
<1>4. chunks = ToSet(near)
  BY DEF Refined
<1> HIDE DEF keys
<1>5. Lists(near, keys)
  BY <1>3, NearestLists
<1> HIDE DEF near
<1>6. IsFiniteSet(chunks) /\ chunks \subseteq keys
  BY <1>4, <1>5, ToSetIsFinite DEF Lists
<1> HIDE DEF chunks
<1>7. \A d \in chunks : d[2] \in Nat /\ query.chunk[d] \in Int
  BY <1>3, <1>6
<1>8. \A c \in chunks : scores[c] \in Fractions
  BY <1>6, <1>7, WeightedIsFraction
<1> HIDE DEF scores
<1>9. Grouped(own, chunks)
  <2> DEFINE o == own
  <2>1. o = ByPaper(chunks, scores)
    OBVIOUS
  <2> HIDE DEF o
  <2> QED
    BY <2>1, <1>6, <1>8, ByPaperFits
<1>10. /\ Lists(ranked, DOMAIN own)
       /\ \A p \in DOMAIN own :
             /\ Len(Cut(own[p], EvidenceChunks)) \in 1..EvidenceChunks
             /\ \A c \in ToSet(Cut(own[p], EvidenceChunks)) : c[1] = p
  BY <1>6, <1>8, AggregationFits
<1>11. \A p \in DOMAIN own : p \in eligible
  BY <1>3, <1>6, <1>9 DEF Grouped
<1>12. /\ found.hits = Merged(papers, ranked, store["fusion"])
       /\ found.evidence = [p \in DOMAIN own |-> Cut(own[p], EvidenceChunks)]
  BY DEF LevelTwo, eligible, chunks, scores
<1> DEFINE T == DOMAIN own
<1>13. Lists(ranked, T)
  BY <1>10
<1> HIDE DEF ranked, T, own
<1>14. store["fusion"].papers \subseteq Nat
  BY <1>1 DEF StoreFits
<1> DEFINE hits == found.hits
           fusion == store["fusion"]
<1>15. HitsFit(hits) /\ CameFrom(hits, S \cup (T \cap fusion.papers)) /\ Bounded(hits)
  <2>1. hits = Merged(papers, ranked, fusion) /\ fusion.papers \subseteq Nat
    BY <1>12, <1>14
  <2> HIDE DEF hits, fusion
  <2> QED
    BY <2>1, <1>13, MergedFits
<1>16. Shown(found.evidence)
  BY <1>10, <1>12 DEF Shown
<1>17. \A p \in T : p \in eligible
  BY <1>11 DEF T
<1>18. CameFrom(hits, S \cup Late(asked, store))
  BY <1>2, <1>15, <1>17 DEF CameFrom, Late
<1> QED
  BY <1>15, <1>16, <1>18

-----------------------------------------------------------------------------
(* SearchEngine.search.                                                    *)

\* What the phases have found, before the final order.
FoundBy(asked, query, history, v, scoring) ==
    LET papers == Reranked(PaperSearch(asked, query, history[v["papers"]]), query, scoring)
    IN  IF asked.level = 1 THEN LevelOne(papers, query, scoring)
        ELSE LevelTwo(asked, query, papers, [call \in Calls |-> history[v[call]]])

LEMMA HistoriesFit ==
    ASSUME NEW history \in Histories, NEW query \in Queries, NEW i \in DOMAIN history
    PROVE  StoreFits(history[i], query)
BY CollectionConstants DEF StoreFits

LEMMA ScoringsAreNumbers ==
    ASSUME NEW asked, NEW query \in Queries, NEW scoring \in Scorings(asked, query),
           NEW S, \A p \in S : p \in DOMAIN query.paper /\ query.paper[p] \in Int
    PROVE  \A p \in S : query.paper[p] \in Int /\ scoring[p] \in Int
<1>1. CASE scoring = query.paper
  BY <1>1
<1>2. CASE scoring \in [DOMAIN query.paper -> FusedScores]
  BY <1>2, CollectionConstants
<1> QED
  BY <1>1, <1>2 DEF Scorings

\* The papers that passed the filters of the request at some time.
FitFor(asked, history) ==
    {p \in Nat : \E j \in DOMAIN history :
        /\ p \in history[j].papers
        /\ asked.filtered => p \in history[j].fit
        /\ asked.ids # {} /\ asked.level = 1 => p \in asked.ids}

LEMMA FoundFits ==
    ASSUME NEW r \in DOMAIN Requests, NEW asked, asked = Requests[r], NEW query \in Queries,
           NEW history \in Histories, NEW v \in ReadsOf(history),
           NEW scoring \in Scorings(asked, query),
           NEW found, found = FoundBy(asked, query, history, v, scoring)
    PROVE  /\ HitsFit(found.hits)
           /\ CameFrom(found.hits, FitFor(asked, history))
           /\ asked.level = 2 => Bounded(found.hits) /\ Shown(found.evidence)
<1> DEFINE first == history[v["papers"]]
           S == Matching(asked, first)
           searched == PaperSearch(asked, query, first)
           papers == Reranked(searched, query, scoring)
           store == [call \in Calls |-> history[v[call]]]
<1>1. asked.level \in {1, 2} /\ asked.filtered \in BOOLEAN /\ asked.top_k \in Nat \ {0}
  BY EngineConstants
<1>2. \A call \in Calls : v[call] \in DOMAIN history
  BY DEF ReadsOf
<1>3. v["papers"] \in DOMAIN history /\ v["eligible"] \in DOMAIN history /\ v["fusion"] \in DOMAIN history
  BY <1>2 DEF Calls
<1>4. StoreFits(first, query)
  BY <1>3, HistoriesFit
<1>5. /\ S \in SUBSET Nat /\ S \subseteq first.papers
      /\ \A p \in S : p \in DOMAIN query.paper /\ query.paper[p] \in Int
      /\ \A p \in S : /\ asked.filtered => p \in first.fit
                      /\ asked.ids # {} => p \in asked.ids
  BY <1>4 DEF Matching, StoreFits
<1> HIDE DEF first
<1>6. Lists(searched, S)
  BY <1>1, <1>4, PaperSearchLists
<1> HIDE DEF S, searched
<1>7. \A p \in S : query.paper[p] \in Int /\ scoring[p] \in Int
  BY <1>5, ScoringsAreNumbers
<1>8. Lists(papers, S)
  BY <1>6, <1>7, RerankedLists
<1>9. found = IF asked.level = 1 THEN LevelOne(papers, query, scoring)
              ELSE LevelTwo(asked, query, papers, store)
  BY DEF FoundBy, first, searched
<1> HIDE DEF papers
<1>10. \A p \in S : /\ p \in Nat /\ p \in first.papers
                    /\ asked.filtered => p \in first.fit
                    /\ asked.ids # {} => p \in asked.ids
  BY <1>5
<1>11. S \subseteq FitFor(asked, history)
  <2> DEFINE j == v["papers"]
  <2>1. j \in DOMAIN history /\ first = history[j]
    BY <1>3 DEF first
  <2> HIDE DEF j
  <2> QED
    BY <1>10, <2>1 DEF FitFor
<1>12. CASE asked.level = 1
  <2>1. HitsFit(found.hits) /\ PapersOf(found.hits) \subseteq S
    BY <1>5, <1>7, <1>8, <1>9, <1>12, LevelOneFits
  <2>2. CameFrom(found.hits, FitFor(asked, history))
    BY <1>11, <2>1 DEF PapersOf, CameFrom
  <2> QED
    BY <1>12, <2>1, <2>2
<1>13. CASE asked.level = 2
  <2>1. \A call \in Calls : StoreFits(store[call], query)
    BY <1>2, HistoriesFit
  <2>2. /\ store["fusion"] = history[v["fusion"]] /\ store["eligible"] = history[v["eligible"]]
        /\ StoreFits(store["eligible"], query) /\ StoreFits(store["fusion"], query)
    BY <2>1 DEF Calls
  <2>3. found = LevelTwo(asked, query, papers, store) /\ StoresFit(store, query)
    BY <1>9, <1>13, <2>1 DEF StoresFit
  <2> HIDE DEF store
  <2>4. /\ HitsFit(found.hits) /\ CameFrom(found.hits, S \cup Late(asked, store))
        /\ Bounded(found.hits) /\ Shown(found.evidence)
    <3>1. S \in SUBSET Nat
      BY <1>5
    <3>2. asked.filtered \in BOOLEAN
      BY <1>1
    <3> QED
      BY ONLY <1>8, <2>3, <3>1, <3>2, LevelTwoFits
  <2>5. ASSUME NEW p \in Late(asked, store) PROVE p \in FitFor(asked, history)
    <3>1. CASE asked.filtered
      BY <1>3, <1>13, <2>2, <2>5, <3>1 DEF Late, FitFor, StoreFits
    <3>2. CASE ~asked.filtered
      BY <1>3, <1>13, <2>2, <2>5, <3>2 DEF Late, FitFor, StoreFits
    <3> QED
      BY <3>1, <3>2
  <2>6. CameFrom(found.hits, FitFor(asked, history))
    BY <1>11, <2>4, <2>5 DEF CameFrom
  <2> QED
    BY <1>13, <2>4, <2>6
<1> QED
  BY <1>1, <1>12, <1>13

LEMMA CutOfLonger ==
    ASSUME NEW S, NEW seq, Lists(seq, S), NEW n \in Nat
    PROVE  Cut(Cut(seq, n + 1), n) = Cut(seq, n)
<1> DEFINE longer == Cut(seq, n + 1)
           one == Cut(seq, n)
           two == Cut(longer, n)
<1>0. n + 1 \in Nat /\ Len(seq) \in Nat
  BY DEF Lists
<1>1. /\ Lists(longer, S) /\ Len(longer) = IF Len(seq) < n + 1 THEN Len(seq) ELSE n + 1
      /\ \A i \in 1..Len(longer) : longer[i] = seq[i]
  BY <1>0, CutLists
<1>2. /\ Lists(one, S) /\ Len(one) = IF Len(seq) < n THEN Len(seq) ELSE n
      /\ \A i \in 1..Len(one) : one[i] = seq[i]
  BY CutLists
<1> HIDE DEF longer, one
<1>3. /\ Lists(two, S) /\ Len(two) = IF Len(longer) < n THEN Len(longer) ELSE n
      /\ \A i \in 1..Len(two) : i \in 1..Len(longer) /\ two[i] = longer[i]
  BY <1>1, CutLists
<1> HIDE DEF two
<1>4. Len(two) = Len(one)
  BY <1>0, <1>1, <1>2, <1>3
<1>5. \A i \in 1..Len(one) : two[i] = one[i]
  BY <1>1, <1>2, <1>3, <1>4
<1>6. one \in Seq(S) /\ two \in Seq(S)
  BY <1>2, <1>3 DEF Lists
<1>7. one = [i \in 1..Len(one) |-> one[i]] /\ two = [i \in 1..Len(two) |-> two[i]]
  BY <1>6
<1>8. two = one
  BY <1>4, <1>5, <1>7
<1> QED
  BY <1>8 DEF two, one, longer

\* The recall depth does not depend on a small response size, and nothing else does.
LEMMA LongerFindsTheSame ==
    ASSUME NEW r \in DOMAIN Requests, NEW asked, asked = Requests[r],
           NEW longer, longer = [asked EXCEPT !.top_k = @ + 1],
           asked.top_k < PaperCandidates,
           NEW query, NEW history, NEW v, NEW scoring
    PROVE  FoundBy(longer, query, history, v, scoring) = FoundBy(asked, query, history, v, scoring)
<1>1. asked \in [level : {1, 2}, strategy : {"none", "fast", "hybrid_fusion"}, fusion : BOOLEAN,
                 filtered : BOOLEAN, ids : SUBSET Nat, top_k : Nat \ {0}]
  BY EngineConstants
<1>2. /\ longer.level = asked.level /\ longer.filtered = asked.filtered /\ longer.ids = asked.ids
      /\ longer.top_k = asked.top_k + 1 /\ asked.top_k \in Nat
  BY <1>1
<1>3. PaperCandidates \in Nat
  BY EngineConstants
<1>4. TopCandidates(longer) = TopCandidates(asked)
  BY <1>2, <1>3 DEF TopCandidates
<1>5. \A store : Matching(longer, store) = Matching(asked, store)
  BY <1>2 DEF Matching
<1>6. \A store : PaperSearch(longer, query, store) = PaperSearch(asked, query, store)
  BY <1>4, <1>5 DEF PaperSearch
<1>7. \A papers, store : Eligible(longer, papers, store) = Eligible(asked, papers, store)
  BY <1>2 DEF Eligible
<1>8. \A papers, store : LevelTwo(longer, query, papers, store) = LevelTwo(asked, query, papers, store)
  BY <1>7 DEF LevelTwo
<1> QED
  BY <1>2, <1>6, <1>8 DEF FoundBy

LEMMA OutcomesAreSound ==
    ASSUME NEW r \in DOMAIN Requests, NEW found \in Outcomes(Requests[r])
    PROVE  Sound(Requests[r], found)
<1> DEFINE asked == Requests[r]
           more == [asked EXCEPT !.top_k = @ + 1]
<1>0. PICK history \in Histories, query \in Queries :
         \E v \in ReadsOf(history), scoring \in Scorings(asked, query) :
            found = [hits     |-> Answered(asked, query, history, v, scoring).hits,
                     evidence |-> Answered(asked, query, history, v, scoring).evidence,
                     longer   |-> Answered(more, query, history, v, scoring).hits,
                     held     |-> history]
  BY DEF Outcomes
<1>1. PICK v \in ReadsOf(history), scoring \in Scorings(asked, query) :
         found = [hits     |-> Answered(asked, query, history, v, scoring).hits,
                  evidence |-> Answered(asked, query, history, v, scoring).evidence,
                  longer   |-> Answered(more, query, history, v, scoring).hits,
                  held     |-> history]
  BY <1>0
<1>2. \A a : Answered(a, query, history, v, scoring) = Built(a, FoundBy(a, query, history, v, scoring))
  BY DEF Answered, FoundBy
<1> DEFINE all == FoundBy(asked, query, history, v, scoring)
           got == Built(asked, all)
<1>3. /\ found.hits = got.hits /\ found.evidence = got.evidence /\ found.held = history
      /\ found.longer = Built(more, FoundBy(more, query, history, v, scoring)).hits
  BY <1>1, <1>2
<1>4. /\ asked.level \in {1, 2} /\ asked.top_k \in Nat \ {0} /\ more.top_k = asked.top_k + 1
  BY EngineConstants
<1>5. /\ HitsFit(all.hits) /\ CameFrom(all.hits, FitFor(asked, history))
      /\ asked.level = 2 => Bounded(all.hits) /\ Shown(all.evidence)
  <2> DEFINE a == asked
             f == all
  <2>1. a = Requests[r] /\ f = FoundBy(a, query, history, v, scoring)
    OBVIOUS
  <2>2. scoring \in Scorings(a, query)
    OBVIOUS
  <2> HIDE DEF a, f
  <2>3. /\ HitsFit(f.hits) /\ CameFrom(f.hits, FitFor(a, history))
        /\ a.level = 2 => Bounded(f.hits) /\ Shown(f.evidence)
    BY ONLY <2>1, <2>2, FoundFits
  <2> QED
    BY <2>3 DEF a, f
<1> HIDE DEF all
<1>6. asked.top_k \in Nat
  BY <1>4
<1>7. /\ Ordered(asked, got) /\ got.hits = Cut(Final(all.hits), asked.top_k)
      /\ \A i \in DOMAIN got.hits : \E j \in 1..Len(all.hits) : got.hits[i] = all.hits[j]
      /\ \A p \in DOMAIN got.evidence :
            p \in DOMAIN all.evidence /\ got.evidence[p] = all.evidence[p]
  <2> DEFINE a == asked
  <2>1. a.top_k \in Nat
    BY <1>6
  <2> HIDE DEF a
  <2>2. /\ Ordered(a, Built(a, all)) /\ Built(a, all).hits = Cut(Final(all.hits), a.top_k)
        /\ \A i \in DOMAIN Built(a, all).hits :
              \E j \in 1..Len(all.hits) : Built(a, all).hits[i] = all.hits[j]
        /\ \A p \in DOMAIN Built(a, all).evidence :
              p \in DOMAIN all.evidence /\ Built(a, all).evidence[p] = all.evidence[p]
    BY <1>5, <2>1, BuiltFits
  <2> QED
    BY <2>2 DEF a
<1> HIDE DEF got
<1>8. DOMAIN all.hits = 1..Len(all.hits)
  BY <1>5 DEF HitsFit
<1>9. Ordered(asked, found)
  BY <1>3, <1>7 DEF Ordered
<1>10. Fits(asked, found)
  <2> SUFFICES ASSUME NEW p \in PapersOf(found.hits)
        PROVE  \E store \in ToSet(found.held) :
                  /\ p \in store.papers
                  /\ asked.filtered => p \in store.fit
                  /\ asked.ids # {} /\ asked.level = 1 => p \in asked.ids
    BY DEF Fits
  <2>1. PICK i \in DOMAIN found.hits : p = found.hits[i].paper
    BY DEF PapersOf
  <2>2. PICK j \in 1..Len(all.hits) : found.hits[i] = all.hits[j]
    BY <1>3, <1>7
  <2>3. p \in FitFor(asked, history)
    BY <1>5, <1>8, <2>1, <2>2 DEF CameFrom
  <2>4. PICK k \in DOMAIN history :
           /\ p \in history[k].papers
           /\ asked.filtered => p \in history[k].fit
           /\ asked.ids # {} /\ asked.level = 1 => p \in asked.ids
    BY <2>3 DEF FitFor
  <2>5. history[k] \in ToSet(found.held)
    BY <1>3 DEF ToSet
  <2> QED
    BY <2>4, <2>5
<1>11. Thorough(asked, found)
  <2> SUFFICES ASSUME asked.level = 2
        PROVE  /\ \A i \in DOMAIN found.hits : ~Above(found.hits[i].score, <<1, RrfK + 1>>)
               /\ \A p \in DOMAIN found.evidence :
                     /\ Len(found.evidence[p]) \in 1..EvidenceChunks
                     /\ \A c \in ToSet(found.evidence[p]) : c[1] = p
    BY DEF Thorough
  <2>1. Bounded(all.hits) /\ Shown(all.evidence)
    BY <1>5
  <2>2. \A i \in DOMAIN found.hits : ~Above(found.hits[i].score, <<1, RrfK + 1>>)
    BY <1>3, <1>7, <1>8, <2>1 DEF Bounded
  <2> QED
    BY <1>3, <1>7, <2>1, <2>2 DEF Shown
<1>12. SizeOnlyCuts(asked, found)
  <2> SUFFICES ASSUME asked.top_k < PaperCandidates
        PROVE  found.hits = Cut(found.longer, asked.top_k)
    BY DEF SizeOnlyCuts
  <2>1. FoundBy(more, query, history, v, scoring) = all
    <3> DEFINE a == asked
               m == more
    <3>1. a = Requests[r] /\ m = [a EXCEPT !.top_k = @ + 1] /\ a.top_k < PaperCandidates
      OBVIOUS
    <3> HIDE DEF a, m
    <3>2. FoundBy(m, query, history, v, scoring) = FoundBy(a, query, history, v, scoring)
      BY ONLY <3>1, LongerFindsTheSame
    <3> QED
      BY <3>2 DEF a, m, all
  <2>2. found.longer = Cut(Final(all.hits), asked.top_k + 1)
    <3> DEFINE m == more
    <3>1. m.top_k \in Nat /\ m.top_k = asked.top_k + 1
      BY <1>4
    <3>2. found.longer = Built(m, all).hits
      BY <1>3, <2>1
    <3> HIDE DEF m
    <3>3. Built(m, all).hits = Cut(Final(all.hits), m.top_k)
      BY <1>5, <3>1, BuiltFits
    <3> QED
      BY <3>1, <3>2, <3>3
  <2>3. Lists(Final(all.hits), AHit)
    <3> DEFINE S == Final(all.hits)
               n == Len(all.hits)
    <3>1. S \in Seq(AHit) /\ Len(S) = n /\ n \in Nat /\ \A i, j \in 1..n : i < j => Before(S[i], S[j])
      BY <1>5, FinalIsSorted DEF HitsFit
    <3> HIDE DEF S, n
    <3>2. \A i \in 1..n : S[i] \in AHit
      BY <3>1
    <3>3. \A i \in 1..n : ~Before(S[i], S[i])
      BY <3>2, BeforeIsOrder
    <3>4. ASSUME NEW i \in 1..n, NEW j \in 1..n, S[i] = S[j] PROVE i = j
      <4>1. ~(i < j) /\ ~(j < i)
        BY <3>1, <3>3, <3>4
      <4> QED
        BY <4>1, <3>1
    <3> QED
      BY <3>1, <3>4 DEF Lists, S
  <2>4. Cut(Cut(Final(all.hits), asked.top_k + 1), asked.top_k) = Cut(Final(all.hits), asked.top_k)
    BY <1>6, <2>3, CutOfLonger
  <2> QED
    BY <1>3, <1>7, <2>2, <2>4
<1> QED
  BY <1>9, <1>10, <1>11, <1>12 DEF Sound

-----------------------------------------------------------------------------
(* Every answer at hand is an outcome of its request.                      *)

AnswersAreOutcomes ==
    /\ DOMAIN answer = DOMAIN Requests
    /\ \A r \in DOMAIN Requests : answer[r] = NoAnswer \/ answer[r] \in Outcomes(Requests[r])

LEMMA KeepsOutcomes ==
    ASSUME AnswersAreOutcomes, NEW s \in DOMAIN Requests, NEW found, Keep(s, found),
           found = NoAnswer \/ found \in Outcomes(Requests[s])
    PROVE  AnswersAreOutcomes'
BY DEF AnswersAreOutcomes, Keep

\* Whatever was written to the collections between the calls of a search, and whatever the
\* filters, scores and response sizes are: the answer is ordered, of papers that fit,
\* thorough, and the beginning of a larger one.
THEOREM AnswersStaySound == PublicSpec => []AnswersAreSound
<1>1. PublicInit => AnswersAreOutcomes
  BY DEF PublicInit, AnswersAreOutcomes
<1>2. AnswersAreOutcomes /\ [PublicNext]_PublicVars => AnswersAreOutcomes'
  <2> SUFFICES ASSUME AnswersAreOutcomes, [PublicNext]_PublicVars PROVE AnswersAreOutcomes'
    OBVIOUS
  <2>0. \A r \in DOMAIN Requests : OutcomesOf[r] = Outcomes(Requests[r])
    BY DEF OutcomesOf
  <2>1. CASE UNCHANGED answer
    BY <2>1 DEF AnswersAreOutcomes
  <2>2. ASSUME NEW s \in Searches, Returns(s) PROVE AnswersAreOutcomes'
    <3>1. s \in DOMAIN Requests
      BY PublicConstants
    <3>2. PICK found \in OutcomesOf[s] : Keep(s, found)
      BY <2>2 DEF Returns
    <3> QED
      BY <2>0, <3>1, <3>2, KeepsOutcomes
  <2>3. ASSUME NEW s \in Searches, Leaves(s) PROVE AnswersAreOutcomes'
    <3>1. s \in DOMAIN Requests
      BY PublicConstants
    <3>2. Keep(s, NoAnswer)
      BY <2>3 DEF Leaves
    <3> QED
      BY <3>1, <3>2, KeepsOutcomes
  <2>4. ASSUME NEW r \in DOMAIN Requests, Prints(r) PROVE AnswersAreOutcomes'
    <3>1. \/ \E found \in OutcomesOf[r] : Keep(r, found)
          \/ Keep(r, NoAnswer)
      BY <2>4 DEF Prints
    <3>2. CASE Keep(r, NoAnswer)
      BY <3>2, KeepsOutcomes
    <3>3. CASE \E found \in OutcomesOf[r] : Keep(r, found)
      <4>1. PICK found \in OutcomesOf[r] : Keep(r, found)
        BY <3>3
      <4> QED
        BY <2>0, <4>1, KeepsOutcomes
    <3> QED
      BY <3>1, <3>2, <3>3
  <2> QED
    BY <2>1, <2>2, <2>3, <2>4 DEF PublicNext, PublicVars
<1>3. AnswersAreOutcomes => AnswersAreSound
  BY OutcomesAreSound DEF AnswersAreOutcomes, AnswersAreSound
<1> QED
  BY <1>1, <1>2, <1>3, PTL DEF PublicSpec

=============================================================================
