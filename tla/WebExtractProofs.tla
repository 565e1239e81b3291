----------------------------- MODULE WebExtractProofs ----------------------------
(***************************************************************************)
(* The extraction service keeps its books: permits, memory, shared work    *)
(* and worker processes, for any requests, URLs, queues and budgets,       *)
(* whatever is cancelled, times out or dies.                               *)
(***************************************************************************)
EXTENDS WebExtract, TLAPS, FiniteSetTheorems, WellFoundedInduction

-----------------------------------------------------------------------------
(* One gate, with the jobs that own a permit of it and those that wait.    *)

GateRecord(q) ==
    q = [active |-> q.active, queue |-> q.queue, granted |-> q.granted, cancelled |-> q.cancelled]

GateFits(q, n, owners, waiters) ==
    /\ GateRecord(q)
    /\ q.queue \in Seq(waiters)
    /\ \A i, k \in 1..Len(q.queue) : q.queue[i] = q.queue[k] => i = k
    /\ \A i \in 1..Len(q.queue) : q.queue[i] \notin q.granted
    /\ q.granted \subseteq waiters
    /\ waiters \cap owners = {}
    /\ IsFiniteSet(owners \cup q.granted)
    /\ q.active = Cardinality(owners \cup q.granted)
    /\ q.active <= n
    /\ q.queue # << >> => q.active = n

LEMMA MinIsMember ==
    ASSUME NEW S \in SUBSET Nat, S # {}
    PROVE  Min(S) \in S
<1>1. PICK x \in S : \A y \in S : x <= y
  <2>1. SUFFICES ASSUME \A x \in S : \E y \in S : y < x PROVE FALSE
    OBVIOUS
  <2>2. IsWellFoundedOn(OpToRel(<, Nat), Nat)
    BY NatLessThanWellFounded
  <2>3. PICK x \in S : \A y \in S : ~(<<y, x>> \in OpToRel(<, Nat))
    BY <2>2, WFMin
  <2>4. PICK y \in S : y < x
    BY <2>1
  <2>5. <<y, x>> \in OpToRel(<, Nat)
    BY <2>4 DEF OpToRel
  <2> QED
    BY <2>3, <2>5
<1> QED
  BY <1>1 DEF Min

\* The owner that gives its permit back is no owner any more; the first of the queue may be.
LEMMA ReleaseFits ==
    ASSUME NEW q, NEW n \in Nat, NEW owners, NEW waiters, GateFits(q, n, owners, waiters),
           NEW j \in owners
    PROVE  GateFits(Released(q), n, owners \ {j}, waiters)
<1> DEFINE live == {i \in DOMAIN q.queue : q.queue[i] \notin q.cancelled}
           R == Released(q)
           O == owners \ {j}
           S == owners \cup q.granted
<1> SUFFICES GateFits(R, n, O, waiters)
  OBVIOUS
<1>0. /\ q.queue \in Seq(waiters) /\ DOMAIN q.queue = 1..Len(q.queue) /\ Len(q.queue) \in Nat
      /\ j \notin q.granted /\ GateRecord(q) /\ IsFiniteSet(owners \cup q.granted)
      /\ q.active = Cardinality(owners \cup q.granted) /\ waiters \cap owners = {}
      /\ q.granted \subseteq waiters
  BY DEF GateFits
<1>1. /\ O \cup q.granted = (owners \cup q.granted) \ {j}
      /\ IsFiniteSet(O \cup q.granted)
      /\ Cardinality(O \cup q.granted) = q.active - 1
      /\ q.active \in Nat
  <2>1. O \cup q.granted = S \ {j} /\ j \in S /\ IsFiniteSet(S) /\ q.active = Cardinality(S)
    BY <1>0
  <2> HIDE DEF S, O
  <2>2. IsFiniteSet(S \ {j}) /\ Cardinality(S \ {j}) = Cardinality(S) - 1 /\ Cardinality(S) \in Nat
    BY <2>1, FS_RemoveElement, FS_CardinalityType
  <2> QED
    BY <2>1, <2>2 DEF S
<1>2. CASE live = {}
  <2>1. R = [q EXCEPT !.active = q.active - 1, !.queue = << >>]
    BY <1>2 DEF Released
  <2>2. /\ R.active = q.active - 1 /\ R.queue = << >> /\ R.granted = q.granted /\ GateRecord(R)
    BY <1>0, <2>1 DEF GateRecord
  <2>3. q.active <= n /\ q.active \in Nat
    BY <1>1 DEF GateFits
  <2>4. /\ << >> \in Seq(waiters) /\ Len(<< >>) = 0 /\ waiters \cap O = {}
    BY <1>0
  <2> HIDE DEF R, O, live
  <2> QED
    BY <1>0, <1>1, <2>2, <2>3, <2>4 DEF GateFits
<1>3. CASE live # {}
  <2>1. PICK i : i = Min(live)
    OBVIOUS
  <2>2. i \in live
    <3>1. live \in SUBSET Nat
      BY <1>0
    <3> HIDE DEF live
    <3> QED
      BY <1>3, <2>1, <3>1, MinIsMember
  <2>3. i \in 1..Len(q.queue) /\ i \in Nat /\ q.queue # << >>
    BY <1>0, <2>2
  <2> DEFINE k == q.queue[i]
             rest == SubSeq(q.queue, i + 1, Len(q.queue))
  <2>4. R = [q EXCEPT !.queue = rest, !.granted = q.granted \cup {k}]
    BY <1>3, <2>1 DEF Released
  <2>5. /\ R.active = q.active /\ R.queue = rest /\ R.granted = q.granted \cup {k} /\ GateRecord(R)
    BY <1>0, <2>4 DEF GateRecord
  <2>6. k \in waiters /\ k \notin q.granted /\ k \notin owners
    BY <1>0, <2>3 DEF GateFits
  <2>7. /\ rest \in Seq(waiters) /\ Len(rest) = Len(q.queue) - i
        /\ \A x \in 1..Len(rest) : rest[x] = q.queue[x + i] /\ x + i \in 1..Len(q.queue)
    <3>1. \A x \in 1..Len(q.queue) : q.queue[x] \in waiters
      BY <1>0
    <3>2. /\ Len(rest) = Len(q.queue) - i
          /\ \A x \in 1..(Len(q.queue) - i) : rest[x] = q.queue[x + i] /\ x + i \in 1..Len(q.queue)
          /\ rest \in Seq(waiters)
      BY <1>0, <2>3
    <3> QED
      BY <3>2
  <2>8. /\ \A x, y \in 1..Len(rest) : rest[x] = rest[y] => x = y
        /\ \A x \in 1..Len(rest) : rest[x] \notin q.granted /\ rest[x] # k
    <3>1. ASSUME NEW x \in 1..Len(rest) PROVE rest[x] \notin q.granted /\ rest[x] # k
      <4>1. x + i # i /\ x + i \in 1..Len(q.queue) /\ rest[x] = q.queue[x + i]
        BY <2>3, <2>7
      <4> QED
        BY <2>3, <4>1 DEF GateFits
    <3>2. ASSUME NEW x \in 1..Len(rest), NEW y \in 1..Len(rest), rest[x] = rest[y] PROVE x = y
      <4>1. x + i = y + i
        BY <2>7, <3>2 DEF GateFits
      <4> QED
        BY <1>0, <2>3, <2>7, <4>1
    <3> QED
      BY <3>1, <3>2
  <2>9. /\ IsFiniteSet((O \cup q.granted) \cup {k})
        /\ Cardinality((O \cup q.granted) \cup {k}) = q.active
    <3> DEFINE T == O \cup q.granted
    <3>1. IsFiniteSet(T) /\ k \notin T /\ Cardinality(T) = q.active - 1 /\ q.active \in Nat
      BY <1>0, <1>1, <2>6
    <3> HIDE DEF T, k
    <3>2. IsFiniteSet(T \cup {k}) /\ Cardinality(T \cup {k}) = Cardinality(T) + 1
      BY <3>1, FS_AddElement
    <3>3. Cardinality(T \cup {k}) = q.active
      BY <3>1, <3>2
    <3> QED
      BY <3>2, <3>3 DEF T
  <2>10. (O \cup q.granted) \cup {k} = O \cup (q.granted \cup {k}) /\ q.granted \cup {k} \subseteq waiters
    BY <1>0, <2>6
  <2>11. q.active = n /\ waiters \cap O = {} /\ \A x \in 1..Len(rest) : rest[x] \notin R.granted
    BY <1>0, <2>3, <2>5, <2>8 DEF GateFits
  <2>12. /\ R.active = Cardinality(O \cup R.granted) /\ IsFiniteSet(O \cup R.granted)
         /\ R.granted \subseteq waiters /\ R.active = n
    BY <2>5, <2>9, <2>10, <2>11
  <2>13. /\ R.queue \in Seq(waiters)
         /\ \A x, y \in 1..Len(R.queue) : R.queue[x] = R.queue[y] => x = y
         /\ \A x \in 1..Len(R.queue) : R.queue[x] \notin R.granted
    BY <2>5, <2>7, <2>8, <2>11
  <2> HIDE DEF R, O
  <2> QED
    BY <2>5, <2>11, <2>12, <2>13 DEF GateFits
<1> QED
  BY <1>2, <1>3

\* A job that is granted a permit takes it.
LEMMA TakeFits ==
    ASSUME NEW q, NEW n \in Nat, NEW owners, NEW waiters, GateFits(q, n, owners, waiters),
           NEW j \in q.granted
    PROVE  GateFits([q EXCEPT !.granted = q.granted \ {j}], n, owners \cup {j}, waiters \ {j})
<1> DEFINE R == [q EXCEPT !.granted = q.granted \ {j}]
<1> SUFFICES GateFits(R, n, owners \cup {j}, waiters \ {j})
  OBVIOUS
<1>0. GateRecord(q)
  BY DEF GateFits
<1>1. R.active = q.active /\ R.queue = q.queue /\ R.granted = q.granted \ {j} /\ GateRecord(R)
  BY <1>0 DEF GateRecord
<1>2. q.queue \in Seq(waiters \ {j})
  <2>1. q.queue \in Seq(waiters) /\ \A i \in 1..Len(q.queue) : q.queue[i] \in waiters \ {j}
    BY DEF GateFits
  <2> QED
    BY <2>1
<1>3. (owners \cup {j}) \cup (q.granted \ {j}) = owners \cup q.granted
  OBVIOUS
<1> HIDE DEF R
<1> QED
  BY <1>1, <1>2, <1>3 DEF GateFits

\* A free permit is taken by who comes first.
LEMMA EnterFits ==
    ASSUME NEW q, NEW n \in Nat, NEW owners, NEW waiters, GateFits(q, n, owners, waiters),
           NEW j, j \notin owners, j \notin waiters, q.active < n, q.queue = << >>
    PROVE  GateFits([q EXCEPT !.active = q.active + 1], n, owners \cup {j}, waiters)
<1> DEFINE R == [q EXCEPT !.active = q.active + 1]
           S == owners \cup q.granted
<1> SUFFICES GateFits(R, n, owners \cup {j}, waiters)
  OBVIOUS
<1>0. GateRecord(q) /\ IsFiniteSet(S) /\ q.active = Cardinality(S)
  BY DEF GateFits
<1>1. R.active = q.active + 1 /\ R.queue = << >> /\ R.granted = q.granted /\ GateRecord(R)
  BY <1>0 DEF GateRecord
<1>2. (owners \cup {j}) \cup q.granted = (owners \cup q.granted) \cup {j} /\ j \notin owners \cup q.granted
  BY DEF GateFits
<1>3. /\ IsFiniteSet((owners \cup q.granted) \cup {j})
      /\ Cardinality((owners \cup q.granted) \cup {j}) = q.active + 1 /\ q.active \in Nat
  <2>1. j \notin S
    BY <1>2
  <2> HIDE DEF S
  <2>2. /\ IsFiniteSet(S \cup {j})
        /\ Cardinality(S \cup {j}) = q.active + 1 /\ q.active \in Nat
    BY <1>0, <2>1, FS_AddElement, FS_CardinalityType
  <2> QED
    BY <2>2 DEF S
<1>4. /\ R.queue \in Seq(waiters) /\ Len(R.queue) = 0 /\ R.granted \subseteq waiters
      /\ waiters \cap (owners \cup {j}) = {}
      /\ IsFiniteSet((owners \cup {j}) \cup R.granted)
      /\ R.active = Cardinality((owners \cup {j}) \cup R.granted) /\ R.active <= n
  <2>1. (owners \cup {j}) \cup R.granted = (owners \cup q.granted) \cup {j}
    BY <1>1, <1>2
  <2>2. R.active <= n
    BY <1>1, <1>3
  <2>3. q.granted \subseteq waiters /\ waiters \cap owners = {} /\ R.queue \in Seq(waiters) /\ Len(R.queue) = 0
    BY <1>1 DEF GateFits
  <2> HIDE DEF R, S
  <2> QED
    BY <1>1, <1>3, <2>1, <2>2, <2>3
<1> HIDE DEF R, S
<1> QED
  BY <1>1, <1>4 DEF GateFits

\* Who finds no free permit waits.
LEMMA LineUpFits ==
    ASSUME NEW q, NEW n \in Nat, NEW owners, NEW waiters, GateFits(q, n, owners, waiters),
           NEW j, j \notin owners, j \notin waiters, ~(q.active < n /\ q.queue = << >>)
    PROVE  GateFits([q EXCEPT !.queue = Append(q.queue, j)], n, owners, waiters \cup {j})
<1> DEFINE t == Append(q.queue, j)
           R == [q EXCEPT !.queue = t]
<1> SUFFICES GateFits(R, n, owners, waiters \cup {j})
  OBVIOUS
<1>0. GateRecord(q)
  BY DEF GateFits
<1>1. R.active = q.active /\ R.queue = t /\ R.granted = q.granted /\ GateRecord(R)
  <2> HIDE DEF t
  <2> QED
    BY <1>0 DEF GateRecord
<1>2. q.queue \in Seq(waiters) /\ q.granted \subseteq waiters
  BY DEF GateFits
<1>3. /\ t \in Seq(waiters \cup {j}) /\ Len(t) = Len(q.queue) + 1 /\ t[Len(q.queue) + 1] = j
      /\ \A i \in 1..Len(q.queue) : t[i] = q.queue[i] /\ t[i] \in waiters
      /\ Len(q.queue) \in Nat
  BY <1>2
<1>4. q.active = n
  <2> DEFINE S == owners \cup q.granted
  <2>0. IsFiniteSet(S) /\ q.active = Cardinality(S)
    BY DEF GateFits
  <2> HIDE DEF S
  <2>1. q.active \in Nat
    BY <2>0, FS_CardinalityType
  <2> QED
    BY <2>1 DEF GateFits
<1>5. \A i, k \in 1..Len(t) : t[i] = t[k] => i = k
  <2> SUFFICES ASSUME NEW i \in 1..Len(t), NEW k \in 1..Len(t), t[i] = t[k] PROVE i = k
    OBVIOUS
  <2>1. i \in 1..Len(q.queue) \/ i = Len(q.queue) + 1
    BY <1>3
  <2>2. k \in 1..Len(q.queue) \/ k = Len(q.queue) + 1
    BY <1>3
  <2> HIDE DEF t
  <2> QED
    BY <1>3, <2>1, <2>2 DEF GateFits
<1>6. \A i \in 1..Len(t) : t[i] \notin q.granted
  <2> SUFFICES ASSUME NEW i \in 1..Len(t) PROVE t[i] \notin q.granted
    OBVIOUS
  <2>1. i \in 1..Len(q.queue) \/ i = Len(q.queue) + 1
    BY <1>3
  <2> HIDE DEF t
  <2> QED
    BY <1>2, <1>3, <2>1 DEF GateFits
<1> HIDE DEF R, t
<1> QED
  BY <1>1, <1>3, <1>4, <1>5, <1>6 DEF GateFits

LEMMA RemoveFirstFacts ==
    ASSUME NEW S, NEW s \in Seq(S), NEW e,
           \A i, k \in 1..Len(s) : s[i] = s[k] => i = k
    PROVE  LET t == RemoveFirst(s, e)
           IN  /\ t \in Seq(S \ {e})
               /\ \A i, k \in 1..Len(t) : t[i] = t[k] => i = k
               /\ \A i \in 1..Len(t) : \E k \in 1..Len(s) : t[i] = s[k]
               /\ t # << >> => s # << >>
<1> DEFINE t == RemoveFirst(s, e)
<1>0. Len(s) \in Nat /\ \A i \in 1..Len(s) : s[i] \in S
  OBVIOUS
<1>1. CASE \E i \in 1..Len(s) : s[i] = e
  <2> DEFINE I == {i \in 1..Len(s) : s[i] = e}
  <2>1. PICK m : m = Min(I)
    OBVIOUS
  <2>2. m \in I
    <3>1. I \in SUBSET Nat /\ I # {}
      BY <1>0, <1>1
    <3> HIDE DEF I
    <3> QED
      BY <2>1, <3>1, MinIsMember
  <2>3. t = SubSeq(s, 1, m - 1) \o SubSeq(s, m + 1, Len(s))
    <3>1. SelectInSeq(s, LAMBDA v : v = e) = m
      BY <2>1, <1>1 DEF SelectInSeq
    <3>2. t = RemoveAt(s, SelectInSeq(s, LAMBDA v : v = e))
      BY <1>1 DEF RemoveFirst
    <3> QED
      BY <3>1, <3>2 DEF RemoveAt
  <2>4. m \in 1..Len(s) /\ s[m] = e
    BY <2>2
  <2> HIDE DEF t, I
  <2> DEFINE a == SubSeq(s, 1, m - 1)
             b == SubSeq(s, m + 1, Len(s))
             O == S \ {e}
  <2>5. /\ Len(a) = m - 1 /\ \A i \in 1..(m - 1) : a[i] = s[i]
        /\ Len(b) = Len(s) - m /\ \A i \in 1..(Len(s) - m) : b[i] = s[i + m]
        /\ a \in Seq(S) /\ b \in Seq(S)
    BY <1>0, <2>4
  <2>6. a \in Seq(O) /\ b \in Seq(O)
    <3>1. ASSUME NEW i \in 1..(m - 1) PROVE a[i] \in O
      <4>1. i \in 1..Len(s) /\ i # m
        BY <1>0, <2>4
      <4> QED
        BY <1>0, <2>4, <2>5, <4>1
    <3>2. ASSUME NEW i \in 1..(Len(s) - m) PROVE b[i] \in O
      <4>1. i + m \in 1..Len(s) /\ i + m # m
        BY <1>0, <2>4
      <4> QED
        BY <1>0, <2>4, <2>5, <4>1
    <3> HIDE DEF a, b, O
    <3> QED
      BY <2>5, <3>1, <3>2
  <2> HIDE DEF a, b, O
  <2>7. /\ t \in Seq(O) /\ Len(t) = Len(s) - 1
        /\ \A i \in 1..(Len(s) - 1) : t[i] = IF i < m THEN s[i] ELSE s[i + 1]
    <3>1. t = a \o b
      BY <2>3 DEF a, b
    <3>2. t \in Seq(O) /\ Len(t) = Len(a) + Len(b)
      BY <2>6, <3>1
    <3>3. \A i \in 1..(Len(s) - 1) : t[i] = IF i < m THEN s[i] ELSE s[i + 1]
      <4> SUFFICES ASSUME NEW i \in 1..(Len(s) - 1) PROVE t[i] = IF i < m THEN s[i] ELSE s[i + 1]
        OBVIOUS
      <4>1. t[i] = IF i <= Len(a) THEN a[i] ELSE b[i - Len(a)]
        BY <1>0, <2>4, <2>5, <2>6, <3>1
      <4>2. CASE i < m
        BY <1>0, <2>4, <2>5, <4>1, <4>2
      <4>3. CASE ~(i < m)
        <5>1. i - Len(a) \in 1..(Len(s) - m) /\ (i - Len(a)) + m = i + 1 /\ ~(i <= Len(a))
          BY <1>0, <2>4, <2>5, <4>3
        <5> QED
          BY <2>5, <4>1, <4>3, <5>1
      <4> QED
        BY <4>2, <4>3
    <3> QED
      BY <1>0, <2>4, <2>5, <3>2, <3>3
  <2>8. \A i \in 1..Len(t) : \E k \in 1..Len(s) : t[i] = s[k] /\ k = IF i < m THEN i ELSE i + 1
    BY <1>0, <2>4, <2>7
  <2>9. \A i, k \in 1..Len(t) : t[i] = t[k] => i = k
    BY <1>0, <2>4, <2>7, <2>8
  <2>10. s # << >>
    BY <1>0, <2>4
  <2> QED
    BY <2>7, <2>8, <2>9, <2>10 DEF t, O
<1>2. CASE ~\E i \in 1..Len(s) : s[i] = e
  <2>1. t = s
    BY <1>2 DEF RemoveFirst
  <2>2. s \in Seq(S \ {e})
    BY <1>0, <1>2
  <2> QED
    BY <2>1, <2>2
<1> QED
  BY <1>1, <1>2

LEMMA QueueChanges ==
    ASSUME NEW q, GateRecord(q), NEW t, NEW c
    PROVE  LET R == [q EXCEPT !.queue = t, !.cancelled = c]
           IN  R.active = q.active /\ R.queue = t /\ R.granted = q.granted /\ GateRecord(R)
<1> DEFINE Fields == {"active", "queue", "granted", "cancelled"}
           R == [q EXCEPT !.queue = t, !.cancelled = c]
<1> SUFFICES R.active = q.active /\ R.queue = t /\ R.granted = q.granted /\ GateRecord(R)
  OBVIOUS
<1>1. q = [f \in Fields |-> q[f]]
  BY DEF GateRecord
<1>2. R = [f \in Fields |-> R[f]] /\ R.active = q.active /\ R.queue = t /\ R.granted = q.granted
  BY <1>1
<1> HIDE DEF R
<1> QED
  BY <1>2 DEF GateRecord

\* Who gives up the wait is not in the queue any more.
LEMMA GiveUpFits ==
    ASSUME NEW q, NEW n \in Nat, NEW owners, NEW waiters, GateFits(q, n, owners, waiters),
           NEW j, j \notin q.granted
    PROVE  GateFits([q EXCEPT !.queue = RemoveFirst(q.queue, j), !.cancelled = q.cancelled \ {j}],
                    n, owners, waiters \ {j})
<1> DEFINE t == RemoveFirst(q.queue, j)
           c == q.cancelled \ {j}
           R == [q EXCEPT !.queue = t, !.cancelled = c]
<1> SUFFICES GateFits(R, n, owners, waiters \ {j})
  OBVIOUS
<1>0. GateRecord(q) /\ q.queue \in Seq(waiters) /\ \A i, k \in 1..Len(q.queue) : q.queue[i] = q.queue[k] => i = k
  BY DEF GateFits
<1>1. /\ t \in Seq(waiters \ {j})
      /\ \A i, k \in 1..Len(t) : t[i] = t[k] => i = k
      /\ \A i \in 1..Len(t) : \E k \in 1..Len(q.queue) : t[i] = q.queue[k]
      /\ t # << >> => q.queue # << >>
  BY <1>0, RemoveFirstFacts
<1> HIDE DEF t, c
<1>2. R.active = q.active /\ R.queue = t /\ R.granted = q.granted /\ GateRecord(R)
  BY <1>0, QueueChanges
<1> HIDE DEF R
<1> QED
  BY <1>1, <1>2 DEF GateFits

\* A wait that is cancelled stays in the queue.
LEMMA CancelFits ==
    ASSUME NEW q, NEW n, NEW owners, NEW waiters, GateFits(q, n, owners, waiters), NEW c
    PROVE  GateFits([q EXCEPT !.cancelled = c], n, owners, waiters)
<1> DEFINE R == [q EXCEPT !.cancelled = c]
<1> SUFFICES GateFits(R, n, owners, waiters)
  OBVIOUS
<1>0. GateRecord(q)
  BY DEF GateFits
<1>2. R.active = q.active /\ R.queue = q.queue /\ R.granted = q.granted /\ GateRecord(R)
  BY <1>0 DEF GateRecord
<1> HIDE DEF R
<1> QED
  BY <1>2 DEF GateFits
-----------------------------------------------------------------------------
(* The permits that a job owns and the gate it waits at.                   *)

Places == {"none", "new", "queue", "slot", "fetch", "closing", "spawn", "started", "recover", "run",
           "replied", "stop", "done"}
Busy == {"slot", "spawn", "started", "recover", "run", "replied", "stop"}
JobFields == {"at", "stage", "rendered", "asked", "then", "attempt", "permit", "amount", "body",
              "result", "out"}

JobFits(r) ==
    /\ r = [f \in JobFields |-> r[f]]
    /\ r.at \in Places /\ r.stage \in Gates /\ r.asked \in {"no", "timeout", "cancel"}
    /\ r.then \in {"fail", "slot", "replied"}
    /\ r.rendered \in BOOLEAN /\ r.permit \in BOOLEAN
    /\ r.amount \in Nat /\ r.body \in Nat /\ r.result \in Nat
    /\ r.at \in {"none", "new", "done"} => r.permit = FALSE /\ r.amount = 0
    /\ r.at = "queue" /\ r.stage = "download" => r.permit = FALSE
    /\ r.at \in {"fetch", "closing"} => r.stage = "download"
    /\ r.at \in {"slot", "fetch", "closing"} /\ r.stage = "download" => r.permit = TRUE
    /\ r.at \in Busy \ {"slot"} => r.stage \in Workers
    /\ r.stage = "browser" /\ (r.at \in {"run", "replied"} \/ (r.at = "stop" /\ r.then = "replied")) =>
         r.body > 0

Permit(r) == IF r.permit THEN {"download"} ELSE {}

Own(r) ==
    {g \in Gates :
        \/ g = "download" /\ r.permit
        \/ g \in Workers /\ r.stage = g /\ r.at \in Busy
        \/ g \in Workers /\ r.stage = Sibling(g) /\ r.at = "recover"}

Wait(r) == {g \in Gates : r.at = "queue" /\ r.stage = g}

LEMMA JobOwns ==
    ASSUME NEW r, JobFits(r)
    PROVE  /\ r.at \in {"none", "new", "done"} => Own(r) = {} /\ Wait(r) = {}
           /\ r.at \in {"slot", "fetch", "closing"} /\ r.stage = "download" =>
                Own(r) = {"download"} /\ Wait(r) = {}
           /\ r.at \in Busy \ {"recover"} /\ r.stage \in Workers =>
                Own(r) = Permit(r) \cup {r.stage} /\ Wait(r) = {}
           /\ r.at = "recover" =>
                Own(r) = Permit(r) \cup {r.stage, Sibling(r.stage)} /\ Wait(r) = {}
           /\ r.at = "queue" => Own(r) = Permit(r) /\ Wait(r) = {r.stage}
<1>0. Gates = {"download", "parser", "browser"} /\ Workers = {"parser", "browser"}
  BY DEF Gates, Workers
<1>1. CASE r.at \in {"none", "new", "done"}
  BY <1>1, <1>0 DEF JobFits, Own, Wait, Busy, Places
<1>2. CASE r.at \in {"slot", "fetch", "closing"} /\ r.stage = "download"
  BY <1>2, <1>0 DEF JobFits, Own, Wait, Busy, Places, Sibling
<1>3. CASE r.at \in Busy \ {"recover"} /\ r.stage \in Workers
  BY <1>3, <1>0 DEF JobFits, Own, Wait, Busy, Places, Sibling, Permit
<1>4. CASE r.at = "recover"
  BY <1>4, <1>0 DEF JobFits, Own, Wait, Busy, Places, Sibling, Permit
<1>5. CASE r.at = "queue"
  BY <1>5, <1>0 DEF JobFits, Own, Wait, Busy, Places, Sibling, Permit
<1>6. \/ r.at \in {"none", "new", "done"} \/ (r.at \in {"slot", "fetch", "closing"} /\ r.stage = "download")
      \/ (r.at \in Busy \ {"recover"} /\ r.stage \in Workers) \/ r.at = "recover" \/ r.at = "queue"
  BY <1>0 DEF JobFits, Places, Busy
<1> HIDE DEF JobFits
<1> QED
  BY <1>1, <1>2, <1>3, <1>4, <1>5, <1>6 DEF Busy

-----------------------------------------------------------------------------
(* All gates.  J: jobs; os and ws: the permits that the job j owns and the *)
(* gates it waits at, when they are not yet or no more those of J[j].      *)

OwnersBut(J, j, os, g) == {i \in Jobs \ {j} : g \in Own(J[i])} \cup {i \in {j} : g \in os}
WaitersBut(J, j, ws, g) == {i \in Jobs \ {j} : g \in Wait(J[i])} \cup {i \in {j} : g \in ws}

PermitsBut(J, j, os, ws, G) ==
    /\ G = [g \in Gates |-> G[g]]
    /\ \A g \in Gates : GateFits(G[g], Slots[g], OwnersBut(J, j, os, g), WaitersBut(J, j, ws, g))

PermitsFit(J, G) ==
    /\ G = [g \in Gates |-> G[g]]
    /\ \A g \in Gates : GateFits(G[g], Slots[g], {i \in Jobs : g \in Own(J[i])}, {i \in Jobs : g \in Wait(J[i])})

OneJob(J, K, j) == K = [i \in Jobs |-> K[i]] /\ \A i \in Jobs \ {j} : K[i] = J[i]
OneGate(G, H, h) == H = [g \in Gates |-> H[g]] /\ \A g \in Gates \ {h} : H[g] = G[g]

LEMMA PermitsBefore ==
    ASSUME NEW J, NEW G, PermitsFit(J, G), NEW j \in Jobs
    PROVE  PermitsBut(J, j, Own(J[j]), Wait(J[j]), G)
<1>1. ASSUME NEW g \in Gates
      PROVE  /\ OwnersBut(J, j, Own(J[j]), g) = {i \in Jobs : g \in Own(J[i])}
             /\ WaitersBut(J, j, Wait(J[j]), g) = {i \in Jobs : g \in Wait(J[i])}
  BY DEF OwnersBut, WaitersBut
<1> QED
  BY <1>1 DEF PermitsFit, PermitsBut

LEMMA PermitsAfter ==
    ASSUME NEW J, NEW K, NEW j \in Jobs, OneJob(J, K, j), NEW G,
           NEW os, NEW ws, PermitsBut(J, j, os, ws, G), os = Own(K[j]), ws = Wait(K[j])
    PROVE  PermitsFit(K, G)
<1>1. ASSUME NEW g \in Gates
      PROVE  /\ OwnersBut(J, j, os, g) = {i \in Jobs : g \in Own(K[i])}
             /\ WaitersBut(J, j, ws, g) = {i \in Jobs : g \in Wait(K[i])}
  BY DEF OwnersBut, WaitersBut, OneJob
<1> QED
  BY <1>1 DEF PermitsFit, PermitsBut

LEMMA OneGateMoves ==
    ASSUME NEW J, NEW j \in Jobs, NEW os, NEW ws, NEW G, PermitsBut(J, j, os, ws, G),
           NEW h \in Gates, NEW H, OneGate(G, H, h), NEW ot, NEW wt,
           \A g \in Gates \ {h} : (g \in ot <=> g \in os) /\ (g \in wt <=> g \in ws),
           GateFits(H[h], Slots[h], OwnersBut(J, j, ot, h), WaitersBut(J, j, wt, h))
    PROVE  PermitsBut(J, j, ot, wt, H)
<1>1. ASSUME NEW g \in Gates \ {h}
      PROVE  /\ OwnersBut(J, j, ot, g) = OwnersBut(J, j, os, g)
             /\ WaitersBut(J, j, wt, g) = WaitersBut(J, j, ws, g)
             /\ H[g] = G[g]
  BY DEF OwnersBut, WaitersBut, OneGate
<1>2. ASSUME NEW g \in Gates
      PROVE  GateFits(H[g], Slots[g], OwnersBut(J, j, ot, g), WaitersBut(J, j, wt, g))
  <2>1. CASE g = h
    BY <2>1
  <2>2. CASE g # h
    BY <1>1, <2>2 DEF PermitsBut
  <2> QED
    BY <2>1, <2>2
<1> QED
  BY <1>2 DEF PermitsBut, OneGate

LEMMA SlotsType ==
    ASSUME NEW h \in Gates
    PROVE  Slots[h] \in Nat
BY ExtractConstants

\* A permit is given back.
LEMMA GiveBack ==
    ASSUME NEW J, NEW j \in Jobs, NEW os, NEW ws, NEW G, PermitsBut(J, j, os, ws, G),
           NEW h \in Gates, NEW H, OneGate(G, H, h),
           h \in os,
           H[h] = Released(G[h])
    PROVE  PermitsBut(J, j, os \ {h}, ws, H)
<1> DEFINE O == OwnersBut(J, j, os, h)
           W == WaitersBut(J, j, ws, h)
<1>1. GateFits(G[h], Slots[h], O, W) /\ Slots[h] \in Nat /\ j \in O
  BY SlotsType DEF PermitsBut, OwnersBut
<1>2. /\ OwnersBut(J, j, os \ {h}, h) = O \ {j}
      /\ WaitersBut(J, j, ws, h) = W
  BY DEF OwnersBut, WaitersBut
<1> HIDE DEF O, W
<1>3. GateFits(H[h], Slots[h], O \ {j}, W)
  BY <1>1, ReleaseFits
<1>4. GateFits(H[h], Slots[h], OwnersBut(J, j, os \ {h}, h), WaitersBut(J, j, ws, h))
  BY <1>2, <1>3
<1> QED
  BY <1>4, OneGateMoves

\* A permit that was granted is taken.
LEMMA TakeGrant ==
    ASSUME NEW J, NEW j \in Jobs, NEW os, NEW ws, NEW G, PermitsBut(J, j, os, ws, G),
           NEW h \in Gates, NEW H, OneGate(G, H, h),
           j \in G[h].granted,
           H[h] = [G[h] EXCEPT !.granted = G[h].granted \ {j}]
    PROVE  PermitsBut(J, j, os \cup {h}, ws \ {h}, H)
<1> DEFINE O == OwnersBut(J, j, os, h)
           W == WaitersBut(J, j, ws, h)
<1>1. GateFits(G[h], Slots[h], O, W) /\ Slots[h] \in Nat
  BY SlotsType DEF PermitsBut
<1>2. /\ OwnersBut(J, j, os \cup {h}, h) = O \cup {j}
      /\ WaitersBut(J, j, ws \ {h}, h) = W \ {j}
  BY DEF OwnersBut, WaitersBut
<1> HIDE DEF O, W
<1>3. GateFits(H[h], Slots[h], O \cup {j}, W \ {j})
  <2>1. GateFits([G[h] EXCEPT !.granted = G[h].granted \ {j}],
                 Slots[h], O \cup {j}, W \ {j})
    BY <1>1, TakeFits
  <2> QED
    BY <2>1
<1>4. GateFits(H[h], Slots[h], OwnersBut(J, j, os \cup {h}, h), WaitersBut(J, j, ws \ {h}, h))
  BY <1>2, <1>3
<1> QED
  BY <1>4, OneGateMoves

\* A free permit is taken.
LEMMA EnterGate ==
    ASSUME NEW J, NEW j \in Jobs, NEW os, NEW ws, NEW G, PermitsBut(J, j, os, ws, G),
           NEW h \in Gates, NEW H, OneGate(G, H, h),
           h \notin os, h \notin ws, G[h].active < Slots[h], G[h].queue = << >>,
           H[h] = [G[h] EXCEPT !.active = G[h].active + 1]
    PROVE  PermitsBut(J, j, os \cup {h}, ws, H)
<1> DEFINE O == OwnersBut(J, j, os, h)
           W == WaitersBut(J, j, ws, h)
<1>1. GateFits(G[h], Slots[h], O, W) /\ Slots[h] \in Nat /\ j \notin O /\ j \notin W
  BY SlotsType DEF PermitsBut, OwnersBut, WaitersBut
<1>2. /\ OwnersBut(J, j, os \cup {h}, h) = O \cup {j}
      /\ WaitersBut(J, j, ws, h) = W
  BY DEF OwnersBut, WaitersBut
<1> HIDE DEF O, W
<1>3. GateFits(H[h], Slots[h], O \cup {j}, W)
  BY <1>1, EnterFits
<1>4. GateFits(H[h], Slots[h], OwnersBut(J, j, os \cup {h}, h), WaitersBut(J, j, ws, h))
  BY <1>2, <1>3
<1> QED
  BY <1>4, OneGateMoves

\* The job waits.
LEMMA LineUp ==
    ASSUME NEW J, NEW j \in Jobs, NEW os, NEW ws, NEW G, PermitsBut(J, j, os, ws, G),
           NEW h \in Gates, NEW H, OneGate(G, H, h),
           h \notin os, h \notin ws, ~(G[h].active < Slots[h] /\ G[h].queue = << >>),
           H[h] = [G[h] EXCEPT !.queue = Append(G[h].queue, j)]
    PROVE  PermitsBut(J, j, os, ws \cup {h}, H)
<1> DEFINE O == OwnersBut(J, j, os, h)
           W == WaitersBut(J, j, ws, h)
<1>1. GateFits(G[h], Slots[h], O, W) /\ Slots[h] \in Nat /\ j \notin O /\ j \notin W
  BY SlotsType DEF PermitsBut, OwnersBut, WaitersBut
<1>2. /\ OwnersBut(J, j, os, h) = O
      /\ WaitersBut(J, j, ws \cup {h}, h) = W \cup {j}
  BY DEF OwnersBut, WaitersBut
<1> HIDE DEF O, W
<1>3. GateFits(H[h], Slots[h], O, W \cup {j})
  BY <1>1, LineUpFits
<1>4. GateFits(H[h], Slots[h], OwnersBut(J, j, os, h), WaitersBut(J, j, ws \cup {h}, h))
  BY <1>2, <1>3
<1> QED
  BY <1>4, OneGateMoves

\* The job waits no more.
LEMMA GiveUp ==
    ASSUME NEW J, NEW j \in Jobs, NEW os, NEW ws, NEW G, PermitsBut(J, j, os, ws, G),
           NEW h \in Gates, NEW H, OneGate(G, H, h),
           j \notin G[h].granted,
           H[h] = [G[h] EXCEPT !.queue = RemoveFirst(G[h].queue, j), !.cancelled = G[h].cancelled \ {j}]
    PROVE  PermitsBut(J, j, os, ws \ {h}, H)
<1> DEFINE O == OwnersBut(J, j, os, h)
           W == WaitersBut(J, j, ws, h)
<1>1. GateFits(G[h], Slots[h], O, W) /\ Slots[h] \in Nat
  BY SlotsType DEF PermitsBut
<1>2. /\ OwnersBut(J, j, os, h) = O
      /\ WaitersBut(J, j, ws \ {h}, h) = W \ {j}
  BY DEF OwnersBut, WaitersBut
<1> HIDE DEF O, W
<1>3. GateFits(H[h], Slots[h], O, W \ {j})
  <2>1. GateFits([G[h] EXCEPT !.queue = RemoveFirst(G[h].queue, j), !.cancelled = G[h].cancelled \ {j}],
                 Slots[h], O, W \ {j})
    BY <1>1, GiveUpFits
  <2> QED
    BY <2>1
<1>4. GateFits(H[h], Slots[h], OwnersBut(J, j, os, h), WaitersBut(J, j, ws \ {h}, h))
  BY <1>2, <1>3
<1> QED
  BY <1>4, OneGateMoves

\* A wait that is cancelled stays in the queue.
LEMMA CancelWait ==
    ASSUME NEW J, NEW j \in Jobs, NEW os, NEW ws, NEW G, PermitsBut(J, j, os, ws, G),
           NEW h \in Gates, NEW H, OneGate(G, H, h),
           NEW c,
           H[h] = [G[h] EXCEPT !.cancelled = c]
    PROVE  PermitsBut(J, j, os, ws, H)
<1> DEFINE O == OwnersBut(J, j, os, h)
           W == WaitersBut(J, j, ws, h)
<1>1. GateFits(G[h], Slots[h], O, W) /\ Slots[h] \in Nat
  BY SlotsType DEF PermitsBut
<1>2. /\ OwnersBut(J, j, os, h) = O
      /\ WaitersBut(J, j, ws, h) = W
  BY DEF OwnersBut, WaitersBut
<1> HIDE DEF O, W
<1>3. GateFits(H[h], Slots[h], O, W)
  BY <1>1, CancelFits
<1>4. GateFits(H[h], Slots[h], OwnersBut(J, j, os, h), WaitersBut(J, j, ws, h))
  BY <1>2, <1>3
<1> QED
  BY <1>4, OneGateMoves

-----------------------------------------------------------------------------
(* Memory.                                                                 *)

LEMMA UnitsOfOne ==
    ASSUME NEW j, NEW n \in Nat
    PROVE  IsFiniteSet({j} \X (1..n)) /\ Cardinality({j} \X (1..n)) = n
<1>1. IsFiniteSet({j}) /\ Cardinality({j}) = 1
  BY FS_Singleton
<1>2. IsFiniteSet(1..n) /\ Cardinality(1..n) = n
  BY FS_Interval
<1> DEFINE A == {j}
           B == 1..n
<1> HIDE DEF A, B
<1>3. IsFiniteSet(A \X B) /\ Cardinality(A \X B) = Cardinality(A) * Cardinality(B)
  BY <1>1, <1>2, FS_Product DEF A, B
<1> QED
  BY <1>1, <1>2, <1>3 DEF A, B

\* The units that one owner more or less holds.
LEMMA HeldSplits ==
    ASSUME NEW D, IsFiniteSet(D), NEW f \in [D -> 0..High], NEW j \in D
    PROVE  /\ IsFiniteSet(Held(f)) /\ Cardinality(Held(f)) \in Nat
           /\ IsFiniteSet({u \in Held(f) : u[1] # j}) /\ Cardinality({u \in Held(f) : u[1] # j}) \in Nat
           /\ Cardinality(Held(f)) = Cardinality({u \in Held(f) : u[1] # j}) + f[j]
<1> DEFINE A == {u \in Held(f) : u[1] # j}
           B == {j} \X (1..f[j])
           H == Held(f)
<1>0. High \in Nat /\ DOMAIN f = D /\ f[j] \in 0..High /\ f[j] \in Nat
  BY ExtractConstants
<1>1. IsFiniteSet(D \X (1..High))
  <2> DEFINE I == 1..High
  <2>1. IsFiniteSet(I)
    BY <1>0, FS_Interval
  <2> HIDE DEF I
  <2>2. IsFiniteSet(D \X I)
    BY <2>1, FS_Product
  <2> QED
    BY <2>2 DEF I
<1>2. IsFiniteSet(H)
  <2>1. H \subseteq D \X (1..High)
    BY <1>0 DEF Held
  <2> HIDE DEF H
  <2> QED
    BY <1>1, <2>1, FS_Subset
<1>3. IsFiniteSet(A)
  <2>1. A \subseteq H
    OBVIOUS
  <2> HIDE DEF A, H
  <2> QED
    BY <1>2, <2>1, FS_Subset
<1>4. IsFiniteSet(B) /\ Cardinality(B) = f[j]
  BY <1>0, UnitsOfOne
<1>5. H = A \cup B
  <2>1. ASSUME NEW u \in H, u[1] = j PROVE u \in B
    <3>1. u \in D \X (1..High) /\ u[2] <= f[j] /\ u = <<u[1], u[2]>> /\ u[2] \in 1..High
      BY <1>0, <2>1 DEF Held
    <3>2. u[2] \in 1..f[j]
      BY <1>0, <3>1
    <3> QED
      BY <2>1, <3>1, <3>2
  <2>2. ASSUME NEW u \in B PROVE u \in H
    <3>1. u[1] = j /\ u[2] \in 1..f[j] /\ u = <<u[1], u[2]>>
      OBVIOUS
    <3>2. u[2] \in 1..High /\ u[2] <= f[j]
      BY <1>0, <3>1
    <3>3. u \in D \X (1..High)
      BY <3>1, <3>2
    <3> QED
      BY <1>0, <3>1, <3>2, <3>3 DEF Held
  <2> QED
    BY <2>1, <2>2
<1>6. A \cap B = {}
  OBVIOUS
<1> HIDE DEF A, B, H
<1>7. Cardinality(A \cup B) = Cardinality(A) + Cardinality(B)
  <2>1. Cardinality(A \cup B) = Cardinality(A) + Cardinality(B) - Cardinality(A \cap B)
    BY <1>3, <1>4, FS_Union
  <2>2. Cardinality(A \cap B) = 0
    BY <1>6, FS_EmptySet
  <2>3. Cardinality(A) \in Nat /\ Cardinality(B) \in Nat
    BY <1>3, <1>4, FS_CardinalityType
  <2> QED
    BY <2>1, <2>2, <2>3
<1>8. Cardinality(H) = Cardinality(A) + f[j] /\ Cardinality(A) \in Nat /\ Cardinality(H) \in Nat
  BY <1>2, <1>3, <1>4, <1>5, <1>7, FS_CardinalityType
<1> QED
  BY <1>2, <1>3, <1>8 DEF A, H

\* Two accounts that differ in one owner.
LEMMA HeldChanges ==
    ASSUME NEW D, IsFiniteSet(D), NEW f \in [D -> 0..High], NEW e \in [D -> 0..High], NEW j \in D,
           \A i \in D \ {j} : e[i] = f[i]
    PROVE  Cardinality(Held(e)) = Cardinality(Held(f)) - f[j] + e[j]
<1>1. {u \in Held(f) : u[1] # j} = {u \in Held(e) : u[1] # j}
  <2>1. DOMAIN f = D /\ DOMAIN e = D
    OBVIOUS
  <2>2. ASSUME NEW u \in D \X (1..High), u[1] # j PROVE f[u[1]] = e[u[1]]
    <3>1. u[1] \in D
      OBVIOUS
    <3> QED
      BY <2>2, <3>1
  <2> QED
    BY <2>1, <2>2 DEF Held
<1> DEFINE A == {u \in Held(f) : u[1] # j}
<1>2. /\ Cardinality(A) \in Nat /\ Cardinality(Held(f)) = Cardinality(A) + f[j]
      /\ Cardinality(Held(e)) = Cardinality(A) + e[j]
  BY <1>1, HeldSplits
<1>3. f[j] \in Nat /\ e[j] \in Nat
  OBVIOUS
<1> HIDE DEF A
<1> QED
  BY <1>2, <1>3

-----------------------------------------------------------------------------
(* The inductive invariant.  J: jobs; W: worker processes; C: callers; F:  *)
(* flights; m: the reserved memory.                                        *)

JobsFit(J) ==
    /\ J = [i \in Jobs |-> J[i]]
    /\ \A i \in Jobs : JobFits(J[i])

WorkersFit(W) ==
    /\ W = [u \in Workers |-> W[u]]
    /\ \A u \in Workers : W[u] = [f \in {"proc", "owed", "startup"} |-> W[u][f]]

EnvelopesOf(J) == [i \in Jobs |-> J[i].amount]
AllowancesOf(W) == [u \in Workers |-> W[u].startup]

MemoryFits(J, W, m) ==
    /\ EnvelopesOf(J) \in [Jobs -> 0..High] /\ AllowancesOf(W) \in [Workers -> 0..High]
    /\ m = Cardinality(Held(EnvelopesOf(J))) + Cardinality(Held(AllowancesOf(W)))
    /\ m <= High

\* The job whose start the allowance of the process belongs to, and the one it was written.
Starts(r, u) == r.stage = u /\ (r.at = "spawn" \/ (r.at = "stop" /\ r.then = "fail"))
Writes(r, u) == r.stage = u /\ r.at \in {"run", "stop"}

ProcessesFit(J, W) ==
    \A u \in Workers :
        /\ W[u].startup # 0 => \E i \in Jobs : Starts(J[i], u)
        /\ W[u].owed # << >> => \E i \in Jobs : Writes(J[i], u) /\ W[u].owed = <<i>>

CallersShape(C, F) ==
    /\ C = [c \in Callers |-> C[c]]
    /\ \A c \in Callers : C[c] = [f \in {"at", "key", "got"} |-> C[c][f]]
    /\ F = [k \in DOMAIN F |-> F[k]] /\ DOMAIN F \subseteq Keys

\* A flight has the callers that wait for its key, and only who left the last one behind cancels.
FlightsFit(C, F, J) ==
    /\ \A k \in DOMAIN F :
          /\ J[k].at # "none"
          /\ F[k] = {c \in Callers : C[c].at = "shared" /\ C[c].key = k}
    /\ \A k \in Keys \ DOMAIN F : J[k].at = "none"
    /\ \A k \in Keys : J[k].asked = "cancel" => k \in DOMAIN F /\ F[k] = {}

CallsFit(C, F, J) ==
    \A c \in Callers :
        /\ C[c].at = "shared" => C[c].key \in DOMAIN F
        /\ C[c].at = "settling" => C[c].key \in DOMAIN F /\ F[C[c].key] = {}
        /\ C[c].at \in {"idle", "shared", "settling"} => J[c].at = "none"
        /\ C[c].at = "settling" =>
             \A d \in Callers : C[d].at = "settling" /\ C[d].key = C[c].key => c = d

CallersFit(C, F, J) == CallersShape(C, F) /\ FlightsFit(C, F, J) /\ CallsFit(C, F, J)

ExtractInv ==
    /\ JobsFit(job)
    /\ PermitsFit(job, gate)
    /\ WorkersFit(worker)
    /\ MemoryFits(job, worker, reserved)
    /\ scratch \in Int /\ scratch <= MaxScratch
    /\ ProcessesFit(job, worker)
    /\ CallersFit(caller, flight, job)

-----------------------------------------------------------------------------
(* What a step that changes one job keeps.                                 *)

LEMMA JobsKept ==
    ASSUME NEW J, NEW K, NEW j \in Jobs, JobsFit(J), OneJob(J, K, j), JobFits(K[j])
    PROVE  JobsFit(K)
BY DEF JobsFit, OneJob

\* What is reserved is at least what one job and one process account for.
LEMMA MemoryBounds ==
    ASSUME NEW J, NEW W, NEW m, MemoryFits(J, W, m), NEW j \in Jobs, NEW u \in Workers
    PROVE  /\ m \in Nat /\ m <= High /\ J[j].amount \in Nat /\ W[u].startup \in Nat
           /\ J[j].amount + W[u].startup <= m
<1> DEFINE e == EnvelopesOf(J)
           a == AllowancesOf(W)
<1>1. IsFiniteSet(Jobs) /\ IsFiniteSet(Workers)
  <2>1. Workers = {"parser"} \cup {"browser"}
    BY DEF Workers
  <2> QED
    BY <2>1, ExtractConstants, FS_Singleton, FS_Union
<1>2. e \in [Jobs -> 0..High] /\ a \in [Workers -> 0..High] /\ e[j] = J[j].amount /\ a[u] = W[u].startup
  BY DEF MemoryFits, EnvelopesOf, AllowancesOf
<1>3. m = Cardinality(Held(e)) + Cardinality(Held(a)) /\ m <= High
  BY DEF MemoryFits
<1> HIDE DEF e, a
<1>4. /\ Cardinality({x \in Held(e) : x[1] # j}) \in Nat /\ Cardinality({x \in Held(a) : x[1] # u}) \in Nat
      /\ Cardinality(Held(e)) = Cardinality({x \in Held(e) : x[1] # j}) + e[j]
      /\ Cardinality(Held(a)) = Cardinality({x \in Held(a) : x[1] # u}) + a[u]
  BY <1>1, <1>2, HeldSplits
<1>5. e[j] \in Nat /\ a[u] \in Nat
  BY <1>2
<1> QED
  BY <1>2, <1>3, <1>4, <1>5

\* One job and one process change what they account for, and the budget follows.
LEMMA MemoryChanges ==
    ASSUME NEW J, NEW W, NEW m, MemoryFits(J, W, m), NEW j \in Jobs, NEW u \in Workers,
           NEW K, OneJob(J, K, j), NEW V, \A x \in Workers \ {u} : V[x].startup = W[x].startup,
           K[j].amount \in Nat, V[u].startup \in Nat,
           NEW l, l = m - J[j].amount + K[j].amount - W[u].startup + V[u].startup, l <= High
    PROVE  MemoryFits(K, V, l)
<1> DEFINE e == EnvelopesOf(J)
           a == AllowancesOf(W)
           f == EnvelopesOf(K)
           b == AllowancesOf(V)
<1>0. High \in Nat /\ IsFiniteSet(Jobs) /\ IsFiniteSet(Workers)
  <2>1. Workers = {"parser"} \cup {"browser"}
    BY DEF Workers
  <2> QED
    BY <2>1, ExtractConstants, FS_Singleton, FS_Union
<1>1. /\ m \in Nat /\ m <= High /\ J[j].amount \in Nat /\ W[u].startup \in Nat
      /\ J[j].amount + W[u].startup <= m
  BY MemoryBounds
<1>2. K[j].amount \in 0..High /\ V[u].startup \in 0..High
  BY <1>0, <1>1
<1>3. e \in [Jobs -> 0..High] /\ a \in [Workers -> 0..High]
      /\ m = Cardinality(Held(e)) + Cardinality(Held(a))
  BY DEF MemoryFits
<1>4. f \in [Jobs -> 0..High] /\ f[j] = K[j].amount /\ e[j] = J[j].amount /\ \A i \in Jobs \ {j} : f[i] = e[i]
  <2>1. f = [i \in Jobs |-> K[i].amount] /\ e = [i \in Jobs |-> J[i].amount]
    BY DEF EnvelopesOf
  <2>2. \A i \in Jobs \ {j} : K[i].amount = J[i].amount /\ J[i].amount \in 0..High
    BY <1>3, <2>1 DEF OneJob
  <2> HIDE DEF f, e
  <2> QED
    BY <1>2, <2>1, <2>2
<1>5. b \in [Workers -> 0..High] /\ b[u] = V[u].startup /\ a[u] = W[u].startup /\ \A x \in Workers \ {u} : b[x] = a[x]
  <2>1. b = [x \in Workers |-> V[x].startup] /\ a = [x \in Workers |-> W[x].startup]
    BY DEF AllowancesOf
  <2>2. \A x \in Workers \ {u} : W[x].startup \in 0..High
    BY <1>3, <2>1
  <2> HIDE DEF a, b
  <2> QED
    BY <1>2, <2>1, <2>2
<1> HIDE DEF e, a, f, b
<1>6. /\ Cardinality(Held(f)) = Cardinality(Held(e)) - e[j] + f[j]
      /\ Cardinality(Held(b)) = Cardinality(Held(a)) - a[u] + b[u]
  BY <1>0, <1>3, <1>4, <1>5, HeldChanges
<1>7. /\ Cardinality(Held(e)) \in Nat /\ Cardinality(Held(a)) \in Nat
  BY <1>0, <1>3, HeldSplits
<1>8. l = Cardinality(Held(f)) + Cardinality(Held(b))
  BY <1>1, <1>2, <1>3, <1>4, <1>5, <1>6, <1>7
<1> QED
  BY <1>4, <1>5, <1>8 DEF MemoryFits, f, b

LEMMA ProcessesChange ==
    ASSUME NEW J, NEW K, NEW j \in Jobs, OneJob(J, K, j), NEW W, NEW V, ProcessesFit(J, W),
           \A u \in Workers :
              /\ V[u].startup # 0 =>
                   \/ Starts(K[j], u)
                   \/ (W[u].startup # 0 /\ ~Starts(J[j], u))
              /\ V[u].owed # << >> =>
                   \/ (Writes(K[j], u) /\ V[u].owed = <<j>>)
                   \/ (V[u].owed = W[u].owed /\ (Writes(J[j], u) => Writes(K[j], u)))
    PROVE  ProcessesFit(K, V)
<1> SUFFICES ASSUME NEW u \in Workers
             PROVE  /\ V[u].startup # 0 => \E i \in Jobs : Starts(K[i], u)
                    /\ V[u].owed # << >> => \E i \in Jobs : Writes(K[i], u) /\ V[u].owed = <<i>>
  BY DEF ProcessesFit
<1>1. ASSUME V[u].startup # 0 PROVE \E i \in Jobs : Starts(K[i], u)
  <2>1. CASE Starts(K[j], u)
    BY <2>1
  <2>2. CASE W[u].startup # 0 /\ ~Starts(J[j], u)
    <3>1. PICK i \in Jobs : Starts(J[i], u)
      BY <2>2 DEF ProcessesFit
    <3>2. K[i] = J[i]
      BY <2>2, <3>1 DEF OneJob
    <3> QED
      BY <3>1, <3>2
  <2> QED
    BY <1>1, <2>1, <2>2
<1>2. ASSUME V[u].owed # << >> PROVE \E i \in Jobs : Writes(K[i], u) /\ V[u].owed = <<i>>
  <2>1. CASE Writes(K[j], u) /\ V[u].owed = <<j>>
    BY <2>1
  <2>2. CASE V[u].owed = W[u].owed /\ (Writes(J[j], u) => Writes(K[j], u))
    <3>1. PICK i \in Jobs : Writes(J[i], u) /\ W[u].owed = <<i>>
      BY <1>2, <2>2 DEF ProcessesFit
    <3>2. i # j => K[i] = J[i]
      BY DEF OneJob
    <3> QED
      BY <2>2, <3>1, <3>2
  <2> QED
    BY <1>2, <2>1, <2>2
<1> QED
  BY <1>1, <1>2

\* A job goes on or ends: its callers still wait for the same work.
LEMMA CallersKept ==
    ASSUME NEW C, NEW F, NEW J, NEW K, NEW j \in Jobs, CallersFit(C, F, J), OneJob(J, K, j),
           J[j].at # "none", K[j].at # "none", K[j].asked = "cancel" => J[j].asked = "cancel"
    PROVE  CallersFit(C, F, K)
<1>1. /\ Keys \subseteq Jobs /\ Callers \subseteq Jobs
  BY DEF Jobs
<1>2. /\ \A k \in DOMAIN F : K[k].at # "none"
      /\ \A k \in Keys \ DOMAIN F : K[k].at = "none"
      /\ \A k \in Keys : K[k].asked = "cancel" => J[k].asked = "cancel"
  <2>1. \A k \in Keys : k # j => K[k] = J[k]
    BY <1>1 DEF OneJob
  <2> QED
    BY <2>1 DEF CallersFit, CallersShape, FlightsFit
<1>3. ASSUME NEW c \in Callers, C[c].at \in {"idle", "shared", "settling"} PROVE K[c].at = "none"
  BY <1>1, <1>3 DEF CallersFit, CallsFit, OneJob
<1> QED
  BY <1>2, <1>3 DEF CallersFit, FlightsFit, CallsFit

-----------------------------------------------------------------------------
(* The invariant and the steps of one job.                                 *)

\* A job and the process of one worker.
LEMMA JobStep ==
    ASSUME ExtractInv, NEW j \in Jobs, OneJob(job, job', j), JobFits(job'[j]),
           PermitsFit(job', gate'),
           NEW u \in Workers, WorkersFit(worker'), worker'[u].startup \in Nat,
           \A x \in Workers \ {u} : worker'[x].startup = worker[x].startup,
           reserved' = reserved - job[j].amount + job'[j].amount - worker[u].startup + worker'[u].startup,
           reserved' <= High, scratch' \in Int, scratch' <= MaxScratch,
           \A v \in Workers :
              /\ worker'[v].startup # 0 =>
                   \/ Starts(job'[j], v)
                   \/ (worker[v].startup # 0 /\ ~Starts(job[j], v))
              /\ worker'[v].owed # << >> =>
                   \/ (Writes(job'[j], v) /\ worker'[v].owed = <<j>>)
                   \/ (worker'[v].owed = worker[v].owed /\ (Writes(job[j], v) => Writes(job'[j], v))),
           caller' = caller, flight' = flight, job[j].at # "none", job'[j].at # "none",
           job'[j].asked = "cancel" => job[j].asked = "cancel"
    PROVE  ExtractInv'
<1>1. JobsFit(job')
  BY JobsKept DEF ExtractInv
<1>2. MemoryFits(job', worker', reserved')
  <2>1. job'[j].amount \in Nat
    BY DEF JobFits
  <2> QED
    BY <2>1, MemoryChanges DEF ExtractInv
<1>3. ProcessesFit(job', worker')
  BY ProcessesChange DEF ExtractInv
<1>4. CallersFit(caller', flight', job')
  BY CallersKept DEF ExtractInv
<1> QED
  BY <1>1, <1>2, <1>3, <1>4 DEF ExtractInv

\* A job alone.
LEMMA JobMoves ==
    ASSUME ExtractInv, NEW j \in Jobs, OneJob(job, job', j), JobFits(job'[j]),
           PermitsFit(job', gate'),
           reserved' = reserved - job[j].amount + job'[j].amount,
           reserved' <= High, scratch' \in Int, scratch' <= MaxScratch,
           \A v \in Workers :
              /\ Starts(job[j], v) => Starts(job'[j], v)
              /\ Writes(job[j], v) => Writes(job'[j], v),
           caller' = caller, flight' = flight, worker' = worker,
           job[j].at # "none", job'[j].at # "none", job'[j].asked = "cancel" => job[j].asked = "cancel"
    PROVE  ExtractInv'
<1>1. PICK u \in Workers : TRUE
  BY DEF Workers
<1>2. /\ worker[u].startup \in Nat /\ reserved \in Nat /\ job[j].amount \in Nat
  BY <1>1, MemoryBounds DEF ExtractInv
<1>3. job'[j].amount \in Nat
  BY DEF JobFits
<1>4. reserved' = reserved - job[j].amount + job'[j].amount - worker[u].startup + worker'[u].startup
  BY <1>2, <1>3
<1>5. WorkersFit(worker')
  BY DEF ExtractInv
<1> QED
  BY <1>1, <1>2, <1>4, <1>5, JobStep

\* A job that neither takes nor gives a permit.
LEMMA JobStays ==
    ASSUME ExtractInv, NEW j \in Jobs, OneJob(job, job', j), JobFits(job'[j]),
           Own(job'[j]) = Own(job[j]), Wait(job'[j]) = Wait(job[j]),
           reserved' = reserved - job[j].amount + job'[j].amount,
           reserved' <= High, scratch' \in Int, scratch' <= MaxScratch,
           \A v \in Workers :
              /\ Starts(job[j], v) => Starts(job'[j], v)
              /\ Writes(job[j], v) => Writes(job'[j], v),
           caller' = caller, flight' = flight, gate' = gate, worker' = worker,
           job[j].at # "none", job'[j].at # "none", job'[j].asked = "cancel" => job[j].asked = "cancel"
    PROVE  ExtractInv'
<1>1. PermitsBut(job, j, Own(job[j]), Wait(job[j]), gate)
  BY PermitsBefore DEF ExtractInv
<1>2. PermitsFit(job', gate')
  BY <1>1, PermitsAfter
<1> QED
  BY <1>2, JobMoves

\* A job that has ended.
Ended(r) == r = [NoJob EXCEPT !.at = "done", !.out = r.out]

LEMMA EndedFits ==
    ASSUME NEW r, Ended(r)
    PROVE  /\ JobFits(r) /\ r.at = "done" /\ r.amount = 0 /\ r.asked = "no"
           /\ Own(r) = {} /\ Wait(r) = {}
<1>1. /\ r = [f \in JobFields |-> r[f]] /\ r.at = "done" /\ r.amount = 0 /\ r.asked = "no"
      /\ r.stage = "download" /\ r.then = "fail" /\ r.permit = FALSE
      /\ r.body = 0 /\ r.result = 0 /\ r.rendered \in BOOLEAN /\ r.permit \in BOOLEAN
  BY DEF NoJob, JobFields, Ended
<1>2. r.at \in Places /\ r.stage \in Gates /\ r.at \notin Busy
  BY <1>1 DEF Places, Gates, Busy
<1>3. JobFits(r)
  BY <1>1, <1>2 DEF JobFits
<1> QED
  BY <1>1, <1>3, JobOwns

\* G: the gates before the download permit of the job is given back.
LEMMA EndsGates ==
    ASSUME NEW J, NEW j \in Jobs, NEW G, NEW H, J[j].permit \in BOOLEAN,
           PermitsBut(J, j, Permit(J[j]), {}, G), NEW K, OneJob(J, K, j), Ended(K[j]),
           H = IF J[j].permit THEN [G EXCEPT !["download"] = Released(G["download"])] ELSE G
    PROVE  PermitsFit(K, H)
<1>1. PermitsBut(J, j, {}, {}, H)
  <2>1. CASE J[j].permit = TRUE
    <3>1. Permit(J[j]) = {"download"} /\ "download" \in Gates /\ {"download"} \ {"download"} = {}
      BY <2>1 DEF Permit, Gates
    <3>2. OneGate(G, H, "download") /\ H["download"] = Released(G["download"])
      BY <2>1, <3>1 DEF OneGate, PermitsBut
    <3>3. PermitsBut(J, j, {"download"} \ {"download"}, {}, H)
      BY <3>1, <3>2, GiveBack
    <3> QED
      BY <3>1, <3>3
  <2>2. CASE J[j].permit = FALSE
    <3>1. Permit(J[j]) = {} /\ H = G
      BY <2>2 DEF Permit
    <3> QED
      BY <3>1
  <2> QED
    BY <2>1, <2>2
<1> QED
  BY <1>1, EndedFits, PermitsAfter

LEMMA EndsKeeps ==
    ASSUME ExtractInv, NEW j \in Jobs, NEW G, NEW out, Ends(j, out, G),
           PermitsBut(job, j, Permit(job[j]), {}, G),
           job[j].at \notin {"none", "spawn", "run", "stop"},
           caller' = caller, flight' = flight, worker' = worker
    PROVE  ExtractInv'
<1>0. job = [i \in Jobs |-> job[i]] /\ JobFits(job[j])
  BY DEF ExtractInv, JobsFit
<1>1. OneJob(job, job', j) /\ Ended(job'[j])
  <2> DEFINE r == [NoJob EXCEPT !.at = "done", !.out = out]
  <2>1. OneJob(job, job', j) /\ job'[j] = r
    BY <1>0 DEF OneJob, Ends
  <2>2. r.out = out
    BY DEF NoJob
  <2> QED
    BY <2>1, <2>2 DEF Ended
<1>2. /\ JobFits(job'[j]) /\ job'[j].at = "done" /\ job'[j].amount = 0 /\ job'[j].asked = "no"
  BY <1>1, EndedFits
<1>3. PermitsFit(job', gate')
  BY <1>0, <1>1, EndsGates DEF Ends, JobFits
<1>4. /\ reserved \in Nat /\ reserved <= High /\ job[j].amount \in Nat
  <2>1. PICK u \in Workers : TRUE
    BY DEF Workers
  <2> QED
    BY <2>1, MemoryBounds DEF ExtractInv
<1>5. /\ reserved' = reserved - job[j].amount + job'[j].amount /\ reserved' <= High
  <2>1. High \in Nat /\ reserved' = reserved - job[j].amount
    BY ExtractConstants DEF Ends
  <2> QED
    BY <1>2, <1>4, <2>1
<1>6. scratch' \in Int /\ scratch' <= MaxScratch
  <2>1. job[j].body \in Nat /\ job[j].result \in Nat /\ scratch' = scratch - job[j].body - job[j].result
    BY <1>0 DEF JobFits, Ends
  <2>2. scratch \in Int /\ scratch <= MaxScratch /\ MaxScratch \in Nat
    BY ExtractConstants DEF ExtractInv
  <2> QED
    BY <2>1, <2>2
<1>7. \A v \in Workers : ~Starts(job[j], v) /\ ~Writes(job[j], v)
  BY DEF Starts, Writes
<1> QED
  BY <1>1, <1>2, <1>3, <1>5, <1>6, <1>7, JobMoves

LEMMA Facts ==
    ASSUME ExtractInv, NEW j \in Jobs
    PROVE  /\ job = [i \in Jobs |-> job[i]] /\ JobFits(job[j])
           /\ reserved \in Nat /\ reserved <= High /\ job[j].amount \in Nat /\ job[j].amount <= reserved
           /\ scratch \in Int /\ scratch <= MaxScratch /\ MaxScratch \in Nat /\ High \in Nat
           /\ PermitsBut(job, j, Own(job[j]), Wait(job[j]), gate)
<1>1. PICK u \in Workers : TRUE
  BY DEF Workers
<1>2. reserved \in Nat /\ reserved <= High /\ job[j].amount \in Nat /\ job[j].amount <= reserved
  <2>1. /\ reserved \in Nat /\ reserved <= High /\ job[j].amount \in Nat /\ worker[u].startup \in Nat
        /\ job[j].amount + worker[u].startup <= reserved
    BY MemoryBounds DEF ExtractInv
  <2> QED
    BY <2>1
<1>3. PermitsBut(job, j, Own(job[j]), Wait(job[j]), gate)
  BY PermitsBefore DEF ExtractInv
<1> QED
  BY <1>2, <1>3, ExtractConstants DEF ExtractInv, JobsFit

LEMMA Costs ==
    /\ Cost["download"] \in Nat /\ Cost["body"] \in Nat /\ Cost["startup"] \in Nat
    /\ Cost["parser"] \in Nat /\ Cost["browser"] \in Nat
    /\ Limit \in Nat /\ Limit > 0 /\ Samples \subseteq Nat
BY ExtractConstants

\* What fits beside a working set fits the budget.
LEMMA FitsBudget ==
    ASSUME NEW s \in Samples, NEW old \in Nat, NEW new \in Nat, reserved \in Nat, Fits(s, old, new)
    PROVE  reserved - old + new <= High
<1>1. s \in Nat /\ High \in Nat
  BY ExtractConstants
<1> QED
  BY <1>1 DEF Fits

\* acquire, from a record that holds no permit of the gate.
LEMMA AcquireKeeps ==
    ASSUME ExtractInv, NEW j \in Jobs, NEW r, NEW g \in Gates, NEW G, Acquire(j, r, g, G),
           JobFits(r), r.permit = TRUE => g # "download", r.asked = job[j].asked,
           PermitsBut(job, j, Permit(r), {}, G),
           job[j].at \notin {"none", "spawn", "run", "stop"},
           caller' = caller, flight' = flight, worker' = worker,
           reserved' = reserved - job[j].amount + r.amount, reserved' <= High,
           scratch' \in Int, scratch' <= MaxScratch
    PROVE  ExtractInv'
<1>0. /\ job = [i \in Jobs |-> job[i]] /\ r = [f \in JobFields |-> r[f]] /\ r.permit \in BOOLEAN
      /\ Gates = {"download", "parser", "browser"} /\ Workers = {"parser", "browser"}
      /\ G = [x \in Gates |-> G[x]]
  BY DEF ExtractInv, JobsFit, JobFits, Gates, Workers, PermitsBut
<1>1. \A v \in Workers : ~Starts(job[j], v) /\ ~Writes(job[j], v)
  BY DEF Starts, Writes
<1>2. g \notin Permit(r)
  BY DEF Permit
<1>3. CASE G[g].active < Slots[g] /\ G[g].queue = << >>
  <2> DEFINE p == r.permit \/ g = "download"
             R == [r EXCEPT !.at = "slot", !.stage = g, !.permit = p]
  <2>1. gate' = [G EXCEPT ![g].active = G[g].active + 1] /\ job' = [job EXCEPT ![j] = R]
    BY <1>3 DEF Acquire
  <2>2. p \in BOOLEAN /\ (g = "download" => p = TRUE) /\ (g # "download" => p = r.permit)
    BY <1>0
  <2> HIDE DEF p
  <2>3. /\ R = [f \in JobFields |-> R[f]] /\ R.at = "slot" /\ R.stage = g /\ R.permit = p
        /\ R.asked = r.asked /\ R.then = r.then /\ R.rendered = r.rendered /\ R.amount = r.amount
        /\ R.body = r.body /\ R.result = r.result
    BY <1>0 DEF JobFields
  <2>4. OneJob(job, job', j) /\ job'[j] = R
    BY <1>0, <2>1 DEF OneJob
  <2> HIDE DEF R
  <2>5. JobFits(R)
    BY <2>2, <2>3, <1>0 DEF JobFits, Places, Busy
  <2>6. Own(R) = Permit(r) \cup {g} /\ Wait(R) = {}
    <3>1. CASE g = "download"
      <4>1. Permit(r) = {}
        BY <1>0, <3>1 DEF Permit
      <4> QED
        BY <2>3, <2>5, <3>1, <4>1, JobOwns
    <3>2. CASE g \in Workers
      <4>1. Permit(R) = Permit(r)
        BY <1>0, <2>2, <2>3, <3>2 DEF Permit
      <4> QED
        BY <2>3, <2>5, <3>2, <4>1, JobOwns DEF Busy
    <3> QED
      BY <1>0, <3>1, <3>2
  <2>7. OneGate(G, gate', g) /\ gate'[g] = [G[g] EXCEPT !.active = G[g].active + 1]
    BY <1>0, <2>1 DEF OneGate
  <2>8. PermitsBut(job, j, Permit(r) \cup {g}, {}, gate')
    BY <1>2, <1>3, <2>7, EnterGate
  <2>9. PermitsFit(job', gate')
    BY <2>4, <2>6, <2>8, PermitsAfter
  <2>10. /\ JobFits(job'[j]) /\ job'[j].amount = r.amount /\ job'[j].at = "slot" /\ job'[j].asked = job[j].asked
    BY <2>3, <2>4, <2>5
  <2>11. OneJob(job, job', j)
    BY <2>4
  <2> QED
    BY <1>1, <2>9, <2>10, <2>11, JobMoves
<1>4. CASE ~(G[g].active < Slots[g] /\ G[g].queue = << >>)
  <2> DEFINE R == [r EXCEPT !.at = "queue", !.stage = g]
  <2>1. gate' = [G EXCEPT ![g].queue = Append(G[g].queue, j)] /\ job' = [job EXCEPT ![j] = R]
    BY <1>4 DEF Acquire
  <2>3. /\ R = [f \in JobFields |-> R[f]] /\ R.at = "queue" /\ R.stage = g /\ R.permit = r.permit
        /\ R.asked = r.asked /\ R.then = r.then /\ R.rendered = r.rendered /\ R.amount = r.amount
        /\ R.body = r.body /\ R.result = r.result
    BY <1>0 DEF JobFields
  <2>4. OneJob(job, job', j) /\ job'[j] = R
    BY <1>0, <2>1 DEF OneJob
  <2> HIDE DEF R
  <2>5. JobFits(R)
    BY <2>3, <1>0 DEF JobFits, Places, Busy
  <2>6. Own(R) = Permit(r) /\ Wait(R) = {} \cup {g}
    <3>1. Permit(R) = Permit(r)
      BY <2>3 DEF Permit
    <3> QED
      BY <2>3, <2>5, <3>1, JobOwns
  <2>7. OneGate(G, gate', g) /\ gate'[g] = [G[g] EXCEPT !.queue = Append(G[g].queue, j)]
    BY <1>0, <2>1 DEF OneGate
  <2>8. PermitsBut(job, j, Permit(r), {} \cup {g}, gate')
    BY <1>2, <1>4, <2>7, LineUp
  <2>9. PermitsFit(job', gate')
    BY <2>4, <2>6, <2>8, PermitsAfter
  <2>10. /\ JobFits(job'[j]) /\ job'[j].amount = r.amount /\ job'[j].at = "queue" /\ job'[j].asked = job[j].asked
    BY <2>3, <2>4, <2>5
  <2>11. OneJob(job, job', j)
    BY <2>4
  <2> QED
    BY <1>1, <2>9, <2>10, <2>11, JobMoves
<1> QED
  BY <1>3, <1>4

-----------------------------------------------------------------------------
(* The actions, one by one.                                                *)

LEMMA BeginKeeps ==
    ASSUME ExtractInv, NEW j \in Jobs, Begin(j)
    PROVE  ExtractInv'
<1> DEFINE g == IF job[j].rendered THEN "browser" ELSE "download"
<1>0. /\ JobFits(job[j]) /\ job[j].at = "new" /\ PermitsBut(job, j, Own(job[j]), Wait(job[j]), gate)
      /\ reserved \in Nat /\ reserved <= High /\ job[j].amount \in Nat
      /\ scratch \in Int /\ scratch <= MaxScratch
      /\ caller' = caller /\ flight' = flight /\ worker' = worker
  BY Facts DEF Begin
<1>1. Own(job[j]) = {} /\ Wait(job[j]) = {} /\ job[j].permit = FALSE /\ Permit(job[j]) = {} /\ g \in Gates
  BY <1>0, JobOwns DEF JobFits, Permit, Gates, Workers
<1>2. PermitsBut(job, j, Permit(job[j]), {}, gate)
  BY <1>0, <1>1
<1>3. CASE Acquire(j, job[j], g, gate) /\ UNCHANGED <<reserved, scratch>>
  <2>1. reserved' = reserved - job[j].amount + job[j].amount
    BY <1>0, <1>3
  <2> HIDE DEF g
  <2> QED
    BY <1>0, <1>1, <1>2, <1>3, <2>1, AcquireKeeps
<1>4. CASE Ends(j, "fail", gate)
  BY <1>0, <1>2, <1>4, EndsKeeps
<1> QED
  BY <1>3, <1>4 DEF Begin

LEMMA GrantedKeeps ==
    ASSUME ExtractInv, NEW j \in Jobs, Granted(j)
    PROVE  ExtractInv'
<1> DEFINE g == job[j].stage
           p == job[j].permit \/ g = "download"
           R == [job[j] EXCEPT !.at = "slot", !.permit = p]
<1>0. /\ JobFits(job[j]) /\ PermitsBut(job, j, Own(job[j]), Wait(job[j]), gate)
      /\ job = [i \in Jobs |-> job[i]] /\ job[j] = [f \in JobFields |-> job[j][f]]
      /\ reserved \in Nat /\ reserved <= High /\ job[j].amount \in Nat
      /\ scratch \in Int /\ scratch <= MaxScratch /\ g \in Gates /\ job[j].permit \in BOOLEAN
  BY Facts DEF JobFits
<1>1. /\ job[j].at = "queue" /\ j \in gate[g].granted
      /\ gate' = [gate EXCEPT ![g].granted = gate[g].granted \ {j}] /\ job' = [job EXCEPT ![j] = R]
      /\ caller' = caller /\ flight' = flight /\ worker' = worker /\ reserved' = reserved /\ scratch' = scratch
  BY <1>0 DEF Granted
<1>2. p \in BOOLEAN /\ (g = "download" => p = TRUE) /\ (g # "download" => p = job[j].permit)
  BY <1>0
<1>3. Own(job[j]) = Permit(job[j]) /\ Wait(job[j]) = {g}
  BY <1>0, <1>1, JobOwns
<1> HIDE DEF p
<1>4. /\ R = [f \in JobFields |-> R[f]] /\ R.at = "slot" /\ R.stage = g /\ R.permit = p
      /\ R.asked = job[j].asked /\ R.then = job[j].then /\ R.rendered = job[j].rendered
      /\ R.amount = job[j].amount /\ R.body = job[j].body /\ R.result = job[j].result
  BY <1>0 DEF JobFields
<1>5. OneJob(job, job', j) /\ job'[j] = R
  BY <1>0, <1>1 DEF OneJob
<1>6. OneGate(gate, gate', g) /\ gate'[g] = [gate[g] EXCEPT !.granted = gate[g].granted \ {j}]
  BY <1>0, <1>1 DEF OneGate, PermitsBut
<1> HIDE DEF R, g
<1>7. JobFits(R)
  BY <1>0, <1>2, <1>4 DEF JobFits, Places, Busy
<1>8. Own(R) = Permit(job[j]) \cup {g} /\ Wait(R) = {g} \ {g}
  <2>1. CASE g = "download"
    <3>1. Permit(job[j]) = {}
      BY <1>0, <1>1, <2>1 DEF Permit, JobFits, g
    <3> QED
      BY <1>4, <1>7, <2>1, <3>1, JobOwns
  <2>2. CASE g \in Workers
    <3>1. Permit(R) = Permit(job[j])
      BY <1>2, <1>4, <2>2 DEF Permit, Workers
    <3> QED
      BY <1>4, <1>7, <2>2, <3>1, JobOwns DEF Busy
  <2> QED
    BY <1>0, <2>1, <2>2 DEF Gates
<1>9. PermitsBut(job, j, Permit(job[j]) \cup {g}, {g} \ {g}, gate')
  BY <1>0, <1>1, <1>3, <1>6, TakeGrant
<1>10. PermitsFit(job', gate')
  BY <1>5, <1>8, <1>9, PermitsAfter
<1>11. /\ JobFits(job'[j]) /\ job'[j].amount = job[j].amount /\ job'[j].at = "slot"
       /\ job'[j].asked = job[j].asked /\ OneJob(job, job', j)
  BY <1>4, <1>5, <1>7
<1>12. \A v \in Workers : ~Starts(job[j], v) /\ ~Writes(job[j], v)
  BY <1>1 DEF Starts, Writes
<1>13. reserved' = reserved - job[j].amount + job'[j].amount
  BY <1>0, <1>1, <1>11
<1> QED
  BY <1>0, <1>1, <1>10, <1>11, <1>12, <1>13, JobMoves

\* The wait that is given up leaves the gates without the job.
LEMMA GivesUpGates ==
    ASSUME ExtractInv, NEW j \in Jobs, job[j].at = "queue"
    PROVE  PermitsBut(job, j, Permit(job[j]), {}, GivesUp(j))
<1> DEFINE g == job[j].stage
           q == gate[g]
           H == GivesUp(j)
           P == Permit(job[j])
<1> SUFFICES PermitsBut(job, j, P, {}, H)
  OBVIOUS
<1>0. JobFits(job[j]) /\ g \in Gates
  BY Facts DEF JobFits
<1>1. PermitsBut(job, j, P, {g}, gate) /\ {g} \ {g} = {} /\ gate = [x \in Gates |-> gate[x]]
  <2>1. Own(job[j]) = P /\ Wait(job[j]) = {g}
    BY <1>0, JobOwns
  <2> QED
    BY <2>1, Facts DEF PermitsBut
<1>2. CASE j \in q.granted
  <2> DEFINE t == [q EXCEPT !.granted = q.granted \ {j}]
             M == [gate EXCEPT ![g] = t]
  <2>1. H = [gate EXCEPT ![g] = Released(t)]
    BY <1>2 DEF GivesUp
  <2>2. OneGate(gate, M, g) /\ M[g] = t
    BY <1>0, <1>1 DEF OneGate
  <2>3. OneGate(M, H, g) /\ H[g] = Released(t)
    BY <1>0, <1>1, <2>1 DEF OneGate
  <2> HIDE DEF M, H, P, g
  <2>4. PermitsBut(job, j, P \cup {g}, {g} \ {g}, M)
    BY <1>0, <1>1, <1>2, <2>2, TakeGrant
  <2>5. g \notin P
    <3>1. g = "download" => job[j].permit = FALSE
      BY <1>0 DEF JobFits, g
    <3> QED
      BY <3>1 DEF P, Permit
  <2>6. PermitsBut(job, j, (P \cup {g}) \ {g}, {g} \ {g}, H)
    <3>1. H[g] = Released(M[g]) /\ g \in P \cup {g}
      BY <2>2, <2>3
    <3> QED
      BY <1>0, <2>3, <2>4, <3>1, GiveBack
  <2>7. (P \cup {g}) \ {g} = P
    BY <2>5
  <2> QED
    BY <1>1, <2>6, <2>7
<1>3. CASE j \notin q.granted
  <2> DEFINE t == [q EXCEPT !.queue = RemoveFirst(q.queue, j), !.cancelled = q.cancelled \ {j}]
  <2>1. H = [gate EXCEPT ![g] = t]
    BY <1>1, <1>3 DEF GivesUp
  <2>2. OneGate(gate, H, g) /\ H[g] = t
    BY <1>0, <1>1, <2>1 DEF OneGate
  <2> HIDE DEF H, P, g
  <2>4. PermitsBut(job, j, P, {g} \ {g}, H)
    BY <1>0, <1>1, <1>3, <2>2, GiveUp
  <2> QED
    BY <1>1, <2>4
<1> QED
  BY <1>2, <1>3

LEMMA NotAdmittedKeeps ==
    ASSUME ExtractInv, NEW j \in Jobs, NotAdmitted(j)
    PROVE  ExtractInv'
<1>1. /\ job[j].at = "queue" /\ Ends(j, "fail", GivesUp(j))
      /\ caller' = caller /\ flight' = flight /\ worker' = worker
  BY DEF NotAdmitted
<1>2. PermitsBut(job, j, Permit(job[j]), {}, GivesUp(j))
  BY <1>1, GivesUpGates
<1> QED
  BY <1>1, <1>2, EndsKeeps

\* A job that is cancelled where it is keeps what it owns.
LEMMA CancelledFits ==
    ASSUME ExtractInv, NEW j \in Jobs, NEW why \in {"timeout", "cancel"},
           NEW K, K = Cancelled(job, j, why), NEW H, H = CancelledWait(j)
    PROVE  /\ JobsFit(K) /\ PermitsFit(K, H) /\ MemoryFits(K, worker, reserved) /\ ProcessesFit(K, worker)
           /\ OneJob(job, K, j) /\ K[j].at = job[j].at /\ K[j].asked \in {job[j].asked, why}
           /\ K[j].at \in {"none", "done"} => K[j].asked = job[j].asked
<1> DEFINE a == IF job[j].at \in {"none", "done"} THEN job[j].asked ELSE why
           R == [job[j] EXCEPT !.asked = a]
           g == job[j].stage
<1>0. /\ JobFits(job[j]) /\ PermitsBut(job, j, Own(job[j]), Wait(job[j]), gate) /\ JobsFit(job)
      /\ job = [i \in Jobs |-> job[i]] /\ job[j] = [f \in JobFields |-> job[j][f]]
      /\ reserved \in Nat /\ reserved <= High /\ job[j].amount \in Nat
      /\ g \in Gates /\ gate = [x \in Gates |-> gate[x]]
  BY Facts DEF JobFits, ExtractInv, PermitsFit
<1>1. K = [job EXCEPT ![j] = R]
  BY <1>0 DEF Cancelled
<1>2. a \in {job[j].asked, why} /\ a \in {"no", "timeout", "cancel"} /\ (job[j].at \in {"none", "done"} => a = job[j].asked)
  BY <1>0 DEF JobFits
<1> HIDE DEF a
<1>3. /\ R = [f \in JobFields |-> R[f]] /\ R.at = job[j].at /\ R.stage = g /\ R.permit = job[j].permit
      /\ R.asked = a /\ R.then = job[j].then /\ R.rendered = job[j].rendered
      /\ R.amount = job[j].amount /\ R.body = job[j].body /\ R.result = job[j].result
  BY <1>0 DEF JobFields
<1>4. OneJob(job, K, j) /\ K[j] = R
  BY <1>0, <1>1 DEF OneJob
<1> HIDE DEF R
<1>5. JobFits(R)
  BY <1>0, <1>2, <1>3 DEF JobFits
<1>6. Own(R) = Own(job[j]) /\ Wait(R) = Wait(job[j])
  BY <1>3 DEF Own, Wait
<1>7. PermitsBut(job, j, Own(job[j]), Wait(job[j]), H)
  <2>1. CASE job[j].at = "queue" /\ j \notin gate[g].granted
    <3> DEFINE c == gate[g].cancelled \cup {j}
    <3>1. H = [gate EXCEPT ![g] = [gate[g] EXCEPT !.cancelled = c]]
      BY <1>0, <2>1 DEF CancelledWait
    <3> HIDE DEF c
    <3>2. OneGate(gate, H, g) /\ H[g] = [gate[g] EXCEPT !.cancelled = c]
      BY <1>0, <3>1 DEF OneGate
    <3>3. g \in Gates /\ PermitsBut(job, j, Own(job[j]), Wait(job[j]), gate)
      BY <1>0
    <3> HIDE DEF g
    <3> QED
      BY <3>2, <3>3, CancelWait
  <2>2. CASE ~(job[j].at = "queue" /\ j \notin gate[g].granted)
    BY <1>0, <2>2 DEF CancelledWait
  <2> QED
    BY <2>1, <2>2
<1>8. PermitsFit(K, H)
  BY <1>4, <1>6, <1>7, PermitsAfter
<1>9. JobsFit(K)
  BY <1>0, <1>4, <1>5, JobsKept
<1>10. MemoryFits(K, worker, reserved)
  <2>1. PICK u \in Workers : TRUE
    BY DEF Workers
  <2>2. /\ worker[u].startup \in Nat /\ MemoryFits(job, worker, reserved)
    BY <2>1, MemoryBounds DEF ExtractInv
  <2>3. /\ K[j].amount \in Nat
        /\ reserved = reserved - job[j].amount + K[j].amount - worker[u].startup + worker[u].startup
    BY <1>0, <1>3, <1>4, <2>2
  <2> QED
    BY <1>0, <1>4, <2>1, <2>2, <2>3, MemoryChanges
<1>11. ProcessesFit(K, worker)
  <2>1. \A v \in Workers : (Starts(R, v) <=> Starts(job[j], v)) /\ (Writes(R, v) <=> Writes(job[j], v))
    BY <1>3 DEF Starts, Writes
  <2>2. ProcessesFit(job, worker)
    BY DEF ExtractInv
  <2> QED
    BY <1>4, <2>1, <2>2, ProcessesChange
<1> QED
  BY <1>2, <1>3, <1>4, <1>8, <1>9, <1>10, <1>11

LEMMA TimesOutKeeps ==
    ASSUME ExtractInv, NEW j \in Jobs, TimesOut(j)
    PROVE  ExtractInv'
<1>1. /\ job' = Cancelled(job, j, "timeout") /\ gate' = CancelledWait(j)
      /\ caller' = caller /\ flight' = flight /\ worker' = worker /\ reserved' = reserved /\ scratch' = scratch
      /\ job[j].at # "none"
  <2>1. job[j].at # "none"
    BY DEF TimesOut
  <2> QED
    BY <2>1 DEF TimesOut
<1>2. /\ JobsFit(job') /\ PermitsFit(job', gate') /\ MemoryFits(job', worker, reserved) /\ ProcessesFit(job', worker)
      /\ OneJob(job, job', j) /\ job'[j].at = job[j].at /\ job'[j].asked \in {job[j].asked, "timeout"}
  BY <1>1, CancelledFits
<1>3. CallersFit(caller, flight, job')
  <2>1. CallersFit(caller, flight, job)
    BY DEF ExtractInv
  <2> QED
    BY <1>1, <1>2, <2>1, CallersKept
<1> QED
  BY <1>1, <1>2, <1>3 DEF ExtractInv

\* The gates, when the job owns and waits for nothing but the download permit.
LEMMA DownloadGates ==
    ASSUME ExtractInv, NEW j \in Jobs,
           job[j].at \in {"slot", "fetch", "closing"}, job[j].stage = "download"
    PROVE  /\ Own(job[j]) = {"download"} /\ Wait(job[j]) = {} /\ job[j].permit = TRUE
           /\ Permit(job[j]) = {"download"} /\ PermitsBut(job, j, Permit(job[j]), {}, gate)
<1>1. JobFits(job[j]) /\ PermitsBut(job, j, Own(job[j]), Wait(job[j]), gate)
  BY Facts
<1>2. Own(job[j]) = {"download"} /\ Wait(job[j]) = {}
  BY <1>1, JobOwns
<1>3. job[j].permit = TRUE
  BY <1>1 DEF JobFits
<1>4. Permit(job[j]) = {"download"}
  BY <1>3 DEF Permit
<1> QED
  BY <1>1, <1>2, <1>3, <1>4

\* A download that goes on with another envelope and another part of its body.
LEMMA DownloadGoesOn ==
    ASSUME ExtractInv, NEW j \in Jobs, job[j].at \in {"slot", "fetch"}, job[j].stage = "download",
           NEW R, R = [f \in JobFields |-> R[f]], R.at \in {"fetch", "closing"}, R.stage = "download",
           R.permit = job[j].permit, R.asked = job[j].asked, R.then = job[j].then,
           R.rendered = job[j].rendered, R.amount \in Nat, R.body \in Nat, R.result = job[j].result,
           job' = [job EXCEPT ![j] = R],
           reserved' = reserved - job[j].amount + R.amount, reserved' <= High,
           scratch' \in Int, scratch' <= MaxScratch,
           caller' = caller, flight' = flight, gate' = gate, worker' = worker
    PROVE  ExtractInv'
<1>0. /\ JobFits(job[j]) /\ job = [i \in Jobs |-> job[i]] /\ job[j].permit = TRUE
      /\ Own(job[j]) = {"download"} /\ Wait(job[j]) = {}
  BY Facts, DownloadGates
<1>1. JobFits(R)
  <2>1. R.at \in Places /\ R.at \notin Busy /\ R.stage \in Gates
    BY DEF Places, Busy, Gates
  <2> QED
    BY <1>0, <2>1 DEF JobFits
<1>2. Own(R) = {"download"} /\ Wait(R) = {}
  BY <1>1, JobOwns
<1>3. OneJob(job, job', j) /\ job'[j] = R
  BY <1>0 DEF OneJob
<1>4. \A v \in Workers : ~Starts(job[j], v) /\ ~Writes(job[j], v)
  BY DEF Starts, Writes
<1>5. /\ OneJob(job, job', j) /\ JobFits(job'[j]) /\ Own(job'[j]) = Own(job[j]) /\ Wait(job'[j]) = Wait(job[j])
      /\ reserved' = reserved - job[j].amount + job'[j].amount
      /\ job[j].at # "none" /\ job'[j].at # "none" /\ job'[j].asked = job[j].asked
  BY <1>0, <1>1, <1>2, <1>3
<1> QED
  BY <1>4, <1>5, JobStays

LEMMA StartFetchKeeps ==
    ASSUME ExtractInv, NEW j \in Jobs, StartFetch(j)
    PROVE  ExtractInv'
<1>0. /\ JobFits(job[j]) /\ reserved \in Nat /\ reserved <= High /\ job[j].amount \in Nat
      /\ job = [i \in Jobs |-> job[i]] /\ job[j] = [f \in JobFields |-> job[j][f]] /\ Cost["download"] \in Nat
      /\ scratch \in Int /\ scratch <= MaxScratch
  BY Facts, Costs DEF JobFits
<1>1. PICK s \in Samples :
         \/ /\ Fits(s, job[j].amount, Cost["download"])
            /\ job' = [job EXCEPT ![j].at = "fetch", ![j].amount = Cost["download"]]
            /\ reserved' = reserved - job[j].amount + Cost["download"]
            /\ UNCHANGED <<gate, scratch>>
         \/ /\ ~Fits(s, job[j].amount, Cost["download"])
            /\ Ends(j, "fail", gate)
  BY DEF StartFetch
<1>2. job[j].at = "slot" /\ job[j].stage = "download" /\ caller' = caller /\ flight' = flight /\ worker' = worker
  BY DEF StartFetch
<1>3. CASE /\ Fits(s, job[j].amount, Cost["download"])
           /\ job' = [job EXCEPT ![j].at = "fetch", ![j].amount = Cost["download"]]
           /\ reserved' = reserved - job[j].amount + Cost["download"]
           /\ UNCHANGED <<gate, scratch>>
  <2> DEFINE R == [job[j] EXCEPT !.at = "fetch", !.amount = Cost["download"]]
  <2>1. job' = [job EXCEPT ![j] = R]
    BY <1>0, <1>3
  <2>2. /\ R = [f \in JobFields |-> R[f]] /\ R.at = "fetch" /\ R.stage = "download"
        /\ R.permit = job[j].permit /\ R.asked = job[j].asked /\ R.then = job[j].then
        /\ R.rendered = job[j].rendered /\ R.amount = Cost["download"] /\ R.body = job[j].body
        /\ R.result = job[j].result
    BY <1>0, <1>2 DEF JobFields
  <2>3. reserved' <= High
    BY <1>0, <1>3, FitsBudget
  <2>4. R.amount \in Nat /\ R.body \in Nat
    BY <1>0, <2>2 DEF JobFits
  <2> HIDE DEF R
  <2> QED
    BY <1>0, <1>2, <1>3, <2>1, <2>2, <2>3, <2>4, DownloadGoesOn
<1>4. CASE Ends(j, "fail", gate)
  BY <1>2, <1>4, DownloadGates, EndsKeeps
<1> QED
  BY <1>1, <1>3, <1>4

LEMMA ReadBodyKeeps ==
    ASSUME ExtractInv, NEW j \in Jobs, ReadBody(j)
    PROVE  ExtractInv'
<1>0. /\ JobFits(job[j]) /\ reserved \in Nat /\ reserved <= High /\ job[j].amount \in Nat
      /\ job = [i \in Jobs |-> job[i]] /\ job[j] = [f \in JobFields |-> job[j][f]]
      /\ scratch \in Int /\ MaxScratch \in Nat
  BY Facts DEF JobFits
<1>1. /\ job[j].at = "fetch" /\ scratch + Limit <= MaxScratch /\ scratch' = scratch + Limit
      /\ job' = [job EXCEPT ![j].body = Limit, ![j].amount = Cost["body"]]
      /\ reserved' = reserved - job[j].amount + Cost["body"]
      /\ caller' = caller /\ flight' = flight /\ worker' = worker /\ gate' = gate
  BY DEF ReadBody
<1>2. PICK s \in Samples : Fits(s, job[j].amount, Cost["body"])
  BY DEF ReadBody
<1>3. job[j].stage = "download"
  BY <1>0, <1>1 DEF JobFits
<1> DEFINE R == [job[j] EXCEPT !.body = Limit, !.amount = Cost["body"]]
<1>4. job' = [job EXCEPT ![j] = R]
  BY <1>0, <1>1
<1>5. /\ R = [f \in JobFields |-> R[f]] /\ R.at = "fetch" /\ R.stage = "download"
      /\ R.permit = job[j].permit /\ R.asked = job[j].asked /\ R.then = job[j].then
      /\ R.rendered = job[j].rendered /\ R.amount = Cost["body"] /\ R.body = Limit
      /\ R.result = job[j].result
  BY <1>0, <1>1, <1>3 DEF JobFields
<1>6. reserved' <= High
  BY <1>0, <1>1, <1>2, FitsBudget, Costs
<1>7. scratch' \in Int /\ scratch' <= MaxScratch /\ R.amount \in Nat /\ R.body \in Nat
  BY <1>0, <1>1, <1>5, Costs
<1> HIDE DEF R
<1> QED
  BY <1>1, <1>3, <1>4, <1>5, <1>6, <1>7, DownloadGoesOn

LEMMA RetryFetchKeeps ==
    ASSUME ExtractInv, NEW j \in Jobs, RetryFetch(j)
    PROVE  ExtractInv'
<1>0. /\ JobFits(job[j]) /\ reserved \in Nat /\ reserved <= High /\ job[j].amount \in Nat
      /\ job = [i \in Jobs |-> job[i]] /\ job[j] = [f \in JobFields |-> job[j][f]]
      /\ scratch \in Int /\ scratch <= MaxScratch /\ MaxScratch \in Nat /\ job[j].body \in Nat
  BY Facts DEF JobFits
<1>1. /\ job[j].at = "fetch" /\ scratch' = scratch - job[j].body
      /\ job' = [job EXCEPT ![j].attempt = 1, ![j].body = 0, ![j].amount = Cost["download"]]
      /\ reserved' = reserved - job[j].amount + Cost["download"]
      /\ caller' = caller /\ flight' = flight /\ worker' = worker /\ gate' = gate
  BY DEF RetryFetch
<1>2. PICK s \in Samples : Fits(s, job[j].amount, Cost["download"])
  BY DEF RetryFetch
<1>3. job[j].stage = "download"
  BY <1>0, <1>1 DEF JobFits
<1> DEFINE R == [job[j] EXCEPT !.attempt = 1, !.body = 0, !.amount = Cost["download"]]
<1>4. job' = [job EXCEPT ![j] = R]
  BY <1>0, <1>1
<1>5. /\ R = [f \in JobFields |-> R[f]] /\ R.at = "fetch" /\ R.stage = "download"
      /\ R.permit = job[j].permit /\ R.asked = job[j].asked /\ R.then = job[j].then
      /\ R.rendered = job[j].rendered /\ R.amount = Cost["download"] /\ R.body = 0
      /\ R.result = job[j].result
  BY <1>0, <1>1, <1>3 DEF JobFields
<1>6. reserved' <= High
  BY <1>0, <1>1, <1>2, FitsBudget, Costs
<1>7. scratch' \in Int /\ scratch' <= MaxScratch /\ R.amount \in Nat /\ R.body \in Nat
  BY <1>0, <1>1, <1>5, Costs
<1> HIDE DEF R
<1> QED
  BY <1>1, <1>3, <1>4, <1>5, <1>6, <1>7, DownloadGoesOn

LEMMA CloseConnectorKeeps ==
    ASSUME ExtractInv, NEW j \in Jobs, CloseConnector(j)
    PROVE  ExtractInv'
<1>0. /\ JobFits(job[j]) /\ reserved \in Nat /\ reserved <= High /\ job[j].amount \in Nat
      /\ job = [i \in Jobs |-> job[i]] /\ job[j] = [f \in JobFields |-> job[j][f]]
      /\ scratch \in Int /\ scratch <= MaxScratch /\ job[j].body \in Nat
  BY Facts DEF JobFits
<1>1. /\ job[j].at = "fetch" /\ job' = [job EXCEPT ![j].at = "closing"]
      /\ caller' = caller /\ flight' = flight /\ worker' = worker /\ gate' = gate
      /\ reserved' = reserved /\ scratch' = scratch
  BY DEF CloseConnector
<1>3. job[j].stage = "download"
  BY <1>0, <1>1 DEF JobFits
<1> DEFINE R == [job[j] EXCEPT !.at = "closing"]
<1>4. job' = [job EXCEPT ![j] = R]
  BY <1>0, <1>1
<1>5. /\ R = [f \in JobFields |-> R[f]] /\ R.at = "closing" /\ R.stage = "download"
      /\ R.permit = job[j].permit /\ R.asked = job[j].asked /\ R.then = job[j].then
      /\ R.rendered = job[j].rendered /\ R.amount = job[j].amount /\ R.body = job[j].body
      /\ R.result = job[j].result
  BY <1>0, <1>1, <1>3 DEF JobFields
<1>6. reserved' = reserved - job[j].amount + R.amount /\ R.amount \in Nat /\ R.body \in Nat
  BY <1>0, <1>1, <1>5
<1> HIDE DEF R
<1> QED
  BY <1>0, <1>1, <1>3, <1>4, <1>5, <1>6, DownloadGoesOn

LEMMA FetchFailsKeeps ==
    ASSUME ExtractInv, NEW j \in Jobs, FetchFails(j)
    PROVE  ExtractInv'
<1>1. /\ job[j].at = "fetch" /\ Ends(j, "fail", gate) /\ caller' = caller /\ flight' = flight /\ worker' = worker
  BY DEF FetchFails
<1>2. job[j].stage = "download"
  BY <1>1, Facts DEF JobFits
<1> QED
  BY <1>1, <1>2, DownloadGates, EndsKeeps

LEMMA ToParserKeeps ==
    ASSUME ExtractInv, NEW j \in Jobs, NEW r, NEW G, ToParser(j, r, G), JobFits(r),
           r.asked = job[j].asked, r.permit = job[j].permit, job[j].body > 0,
           reserved - job[j].amount + r.amount <= High,
           PermitsBut(job, j, Permit(job[j]), {}, G),
           job[j].at \notin {"none", "spawn", "run", "stop"},
           caller' = caller, flight' = flight, worker' = worker
    PROVE  ExtractInv'
<1>0. /\ r = [f \in JobFields |-> r[f]] /\ "parser" \in Gates /\ job[j].body \in Nat
      /\ scratch \in Int /\ scratch <= MaxScratch /\ MaxScratch \in Nat
  BY Facts DEF JobFits, Gates, Workers
<1> DEFINE s == [r EXCEPT !.body = 1, !.attempt = 0]
<1>1. CASE /\ Acquire(j, s, "parser", G)
           /\ scratch' = scratch - job[j].body + 1
           /\ reserved' = reserved - job[j].amount + r.amount
  <2>1. /\ s = [f \in JobFields |-> s[f]] /\ s.at = r.at /\ s.stage = r.stage /\ s.permit = r.permit
        /\ s.asked = r.asked /\ s.then = r.then /\ s.rendered = r.rendered /\ s.amount = r.amount
        /\ s.body = 1 /\ s.result = r.result
    BY <1>0 DEF JobFields
  <2>2. scratch' \in Int /\ scratch' <= MaxScratch
    BY <1>0, <1>1
  <2> HIDE DEF s
  <2>3. JobFits(s)
    BY <2>1 DEF JobFits
  <2>4. Permit(s) = Permit(job[j])
    BY <2>1 DEF Permit
  <2>5. /\ reserved' = reserved - job[j].amount + s.amount /\ reserved' <= High
        /\ s.asked = job[j].asked
    BY <1>1, <2>1
  <2>6. PermitsBut(job, j, Permit(s), {}, G)
    BY <2>4
  <2>7. Acquire(j, s, "parser", G)
    BY <1>1
  <2> QED
    BY <1>0, <2>2, <2>3, <2>5, <2>6, <2>7, AcquireKeeps
<1>2. CASE Ends(j, "fail", G)
  BY <1>2, EndsKeeps
<1> QED
  BY <1>1, <1>2 DEF ToParser

LEMMA FetchedKeeps ==
    ASSUME ExtractInv, NEW j \in Jobs, Fetched(j)
    PROVE  ExtractInv'
<1>0. /\ JobFits(job[j]) /\ reserved \in Nat /\ reserved <= High /\ job[j].amount \in Nat
  BY Facts
<1>1. /\ job[j].at \in {"closing", "fetch"} /\ job[j].body > 0
      /\ caller' = caller /\ flight' = flight /\ worker' = worker
  BY DEF Fetched
<1>2. job[j].stage = "download"
  BY <1>0, <1>1 DEF JobFits
<1>3. PermitsBut(job, j, Permit(job[j]), {}, gate)
  BY <1>1, <1>2, DownloadGates
<1>4. reserved - job[j].amount + job[j].amount <= High
  BY <1>0
<1>5. CASE ToParser(j, job[j], gate)
  BY <1>0, <1>1, <1>3, <1>4, <1>5, ToParserKeeps
<1>6. CASE Ends(j, "fail", gate)
  BY <1>1, <1>3, <1>6, EndsKeeps
<1> QED
  BY <1>5, <1>6 DEF Fetched

LEMMA ResultLostKeeps ==
    ASSUME ExtractInv, NEW j \in Jobs, ResultLost(j)
    PROVE  ExtractInv'
<1> DEFINE r == [NoJob EXCEPT !.at = "done", !.out = "fail"]
<1>0. /\ JobFits(job[j]) /\ reserved \in Nat /\ reserved <= High /\ job[j].amount \in Nat
      /\ job = [i \in Jobs |-> job[i]] /\ scratch \in Int /\ scratch <= MaxScratch /\ High \in Nat
  BY Facts
<1>1. /\ job[j].at = "closing" /\ job' = [job EXCEPT ![j] = r]
      /\ gate' = [gate EXCEPT !["download"] = Released(gate["download"])]
      /\ reserved' = reserved - job[j].amount /\ scratch' = scratch
      /\ caller' = caller /\ flight' = flight /\ worker' = worker
  BY DEF ResultLost
<1>2. job[j].stage = "download"
  BY <1>0, <1>1 DEF JobFits
<1>3. PermitsBut(job, j, Permit(job[j]), {}, gate) /\ job[j].permit = TRUE
  BY <1>1, <1>2, DownloadGates
<1>4. OneJob(job, job', j) /\ Ended(job'[j])
  <2>1. OneJob(job, job', j) /\ job'[j] = r
    BY <1>0, <1>1 DEF OneJob
  <2>2. r.out = "fail"
    BY DEF NoJob
  <2> QED
    BY <2>1, <2>2 DEF Ended
<1>5. /\ JobFits(job'[j]) /\ job'[j].at = "done" /\ job'[j].amount = 0 /\ job'[j].asked = "no"
  BY <1>4, EndedFits
<1>6. PermitsFit(job', gate')
  <2>1. gate' = IF job[j].permit THEN [gate EXCEPT !["download"] = Released(gate["download"])] ELSE gate
    BY <1>1, <1>3
  <2> QED
    BY <1>0, <1>3, <1>4, <2>1, EndsGates DEF JobFits
<1>7. reserved' = reserved - job[j].amount + job'[j].amount /\ reserved' <= High
  BY <1>0, <1>1, <1>5
<1>8. \A v \in Workers : ~Starts(job[j], v) /\ ~Writes(job[j], v)
  BY <1>1 DEF Starts, Writes
<1> HIDE DEF r
<1> QED
  BY <1>0, <1>1, <1>4, <1>5, <1>6, <1>7, <1>8, JobMoves

\* The gates, when the job has the slot of a worker.
LEMMA SlotGates ==
    ASSUME ExtractInv, NEW j \in Jobs, job[j].at \in Busy \ {"recover"}, job[j].stage \in Workers
    PROVE  /\ Own(job[j]) = Permit(job[j]) \cup {job[j].stage} /\ Wait(job[j]) = {}
           /\ PermitsBut(job, j, Permit(job[j]), {}, SlotBack(j))
<1> DEFINE g == job[j].stage
           P == Permit(job[j])
           H == SlotBack(j)
<1>1. PermitsBut(job, j, Own(job[j]), Wait(job[j]), gate) /\ gate = [x \in Gates |-> gate[x]]
  BY Facts DEF PermitsBut
<1>2. Own(job[j]) = P \cup {g} /\ Wait(job[j]) = {}
  BY Facts, JobOwns
<1>3. g \in Gates /\ g \notin P
  BY DEF Permit, Gates, Workers
<1>4. OneGate(gate, H, g) /\ H[g] = Released(gate[g])
  BY <1>1, <1>3 DEF SlotBack, OneGate
<1>5. (P \cup {g}) \ {g} = P /\ g \in P \cup {g}
  BY <1>3
<1>6. PermitsBut(job, j, P \cup {g}, {}, gate)
  BY <1>1, <1>2
<1> HIDE DEF g, P, H
<1>7. PermitsBut(job, j, (P \cup {g}) \ {g}, {}, H)
  BY <1>3, <1>4, <1>5, <1>6, GiveBack
<1> QED
  BY <1>2, <1>5, <1>7 DEF g, P, H

\* The slot of a worker has one owner.
LEMMA OneOwner ==
    ASSUME ExtractInv, NEW u \in Workers, NEW i \in Jobs, NEW j \in Jobs,
           u \in Own(job[i]), u \in Own(job[j])
    PROVE  i = j
<1> DEFINE O == {x \in Jobs : u \in Own(job[x])}
           S == O \cup gate[u].granted
<1>1. u \in Gates /\ Slots[u] = 1
  BY ExtractConstants DEF Gates
<1>2. IsFiniteSet(S) /\ Cardinality(S) <= 1
  BY <1>1 DEF ExtractInv, PermitsFit, GateFits
<1>3. i \in S /\ j \in S
  OBVIOUS
<1> HIDE DEF S
<1>4. SUFFICES ASSUME i # j PROVE FALSE
  OBVIOUS
<1> DEFINE T == S \ {i}
<1>5. IsFiniteSet(T) /\ Cardinality(T) = Cardinality(S) - 1 /\ Cardinality(S) \in Nat
  BY <1>2, <1>3, FS_RemoveElement, FS_CardinalityType
<1>6. j \in T
  BY <1>3, <1>4
<1> HIDE DEF T
<1>7. Cardinality(T) = 0
  BY <1>2, <1>5, FS_CardinalityType
<1>8. T = {}
  BY <1>5, <1>7, FS_EmptySet
<1> QED
  BY <1>6, <1>8

\* Only the owner of the slot has a startup or a call under way.
LEMMA OwnProcess ==
    ASSUME ExtractInv, NEW u \in Workers, NEW j \in Jobs, u \in Own(job[j])
    PROVE  /\ ~Starts(job[j], u) => worker[u].startup = 0
           /\ ~Writes(job[j], u) => worker[u].owed = << >>
           /\ worker[u].owed \in {<< >>, <<j>>}
<1>1. ASSUME NEW i \in Jobs, Starts(job[i], u) \/ Writes(job[i], u) PROVE i = j
  <2>1. JobFits(job[i]) /\ job[i].stage = u /\ job[i].at \in Busy \ {"recover"}
    BY <1>1, Facts DEF Starts, Writes, Busy
  <2>2. u \in Own(job[i])
    BY <2>1, JobOwns
  <2> QED
    BY <2>2, OneOwner
<1>2. /\ worker[u].startup # 0 => \E i \in Jobs : Starts(job[i], u)
      /\ worker[u].owed # << >> => \E i \in Jobs : Writes(job[i], u) /\ worker[u].owed = <<i>>
  BY DEF ExtractInv, ProcessesFit
<1> QED
  BY <1>1, <1>2

\* A job that keeps the slot of its worker.
LEMMA SlotGoesOn ==
    ASSUME ExtractInv, NEW j \in Jobs, job[j].at \in Busy \ {"recover"}, job[j].stage \in Workers,
           NEW R, R = [f \in JobFields |-> R[f]], R.at \in Busy \ {"recover"}, R.stage = job[j].stage,
           R.permit = job[j].permit, R.asked = job[j].asked, R.rendered = job[j].rendered,
           R.then \in {"fail", "slot", "replied"}, R.amount \in Nat, R.body \in Nat, R.result \in Nat,
           R.stage = "browser" /\ (R.at \in {"run", "replied"} \/ (R.at = "stop" /\ R.then = "replied")) =>
             R.body > 0,
           job' = [job EXCEPT ![j] = R], gate' = gate
    PROVE  OneJob(job, job', j) /\ job'[j] = R /\ JobFits(R) /\ PermitsFit(job', gate')
<1>0. /\ JobFits(job[j]) /\ job = [i \in Jobs |-> job[i]]
      /\ PermitsBut(job, j, Own(job[j]), Wait(job[j]), gate)
  BY Facts
<1>1. JobFits(R)
  <2>1. R.at \in Places /\ R.at \notin {"none", "new", "done", "queue", "fetch", "closing"} /\ R.stage # "download"
    BY DEF Places, Busy, Workers
  <2> QED
    BY <1>0, <2>1 DEF JobFits
<1>2. Permit(R) = Permit(job[j])
  BY DEF Permit
<1>3. Own(R) = Own(job[j]) /\ Wait(R) = Wait(job[j])
  BY <1>0, <1>1, <1>2, JobOwns
<1>4. OneJob(job, job', j) /\ job'[j] = R
  BY <1>0 DEF OneJob
<1>5. PermitsFit(job', gate')
  BY <1>0, <1>3, <1>4, PermitsAfter
<1> QED
  BY <1>1, <1>4, <1>5

LEMMA WorkerChanges ==
    ASSUME ExtractInv, NEW u \in Workers, NEW q, q = [f \in {"proc", "owed", "startup"} |-> q[f]],
           worker' = [worker EXCEPT ![u] = q]
    PROVE  WorkersFit(worker') /\ worker'[u] = q /\ \A x \in Workers \ {u} : worker'[x] = worker[x]
BY DEF ExtractInv, WorkersFit

LEMMA WorkerShape ==
    ASSUME ExtractInv, NEW u \in Workers
    PROVE  /\ worker = [x \in Workers |-> worker[x]]
           /\ worker[u] = [f \in {"proc", "owed", "startup"} |-> worker[u][f]]
           /\ worker[u].startup \in Nat
<1>1. worker[u].startup \in Nat
  <2>1. AllowancesOf(worker) \in [Workers -> 0..High]
    BY DEF ExtractInv, MemoryFits
  <2>2. AllowancesOf(worker)[u] = worker[u].startup
    BY DEF AllowancesOf
  <2> QED
    BY <2>1, <2>2
<1> QED
  BY <1>1 DEF ExtractInv, WorkersFit

LEMMA StartWorkerKeeps ==
    ASSUME ExtractInv, NEW j \in Jobs, StartWorker(j)
    PROVE  ExtractInv'
<1> DEFINE u == job[j].stage
           q == [worker[u] EXCEPT !.proc = "starting", !.startup = Cost["startup"]]
           R == [job[j] EXCEPT !.at = "spawn"]
<1>0. /\ JobFits(job[j]) /\ reserved \in Nat /\ reserved <= High /\ job[j].amount \in Nat
      /\ job = [i \in Jobs |-> job[i]] /\ job[j] = [f \in JobFields |-> job[j][f]]
      /\ scratch \in Int /\ scratch <= MaxScratch /\ Cost["startup"] \in Nat
      /\ job[j].body \in Nat /\ job[j].result \in Nat /\ job[j].then \in {"fail", "slot", "replied"}
  BY Facts, Costs DEF JobFits
<1>1. /\ job[j].at = "slot" /\ u \in Workers /\ job' = [job EXCEPT ![j].at = "spawn"]
      /\ worker' = [worker EXCEPT ![u].proc = "starting", ![u].startup = Cost["startup"]]
      /\ reserved' = reserved + Cost["startup"]
      /\ caller' = caller /\ flight' = flight /\ gate' = gate /\ scratch' = scratch
  BY DEF StartWorker
<1>2. PICK s \in Samples : Fits(s, 0, Cost["startup"])
  BY DEF StartWorker
<1>3. reserved' <= High
  <2>1. reserved - 0 + Cost["startup"] <= High
    BY <1>0, <1>2, FitsBudget
  <2> QED
    BY <1>0, <1>1, <2>1
<1>4. job' = [job EXCEPT ![j] = R] /\ worker' = [worker EXCEPT ![u] = q]
  BY <1>0, <1>1, WorkerShape
<1>5. /\ R = [f \in JobFields |-> R[f]] /\ R.at = "spawn" /\ R.stage = u
      /\ R.permit = job[j].permit /\ R.asked = job[j].asked /\ R.then = job[j].then
      /\ R.rendered = job[j].rendered /\ R.amount = job[j].amount /\ R.body = job[j].body
      /\ R.result = job[j].result
  BY <1>0 DEF JobFields
<1>6. /\ q = [f \in {"proc", "owed", "startup"} |-> q[f]] /\ q.startup = Cost["startup"]
      /\ q.owed = worker[u].owed
  BY <1>1, WorkerShape
<1> HIDE DEF R, q
<1>7. OneJob(job, job', j) /\ job'[j] = R /\ JobFits(R) /\ PermitsFit(job', gate')
  BY <1>0, <1>1, <1>4, <1>5, SlotGoesOn DEF Busy
<1>8. WorkersFit(worker') /\ worker'[u] = q /\ \A x \in Workers \ {u} : worker'[x] = worker[x]
  BY <1>1, <1>4, <1>6, WorkerChanges
<1>9. worker[u].startup = 0
  <2>1. u \in Own(job[j])
    BY <1>1, SlotGates DEF Busy
  <2>2. ~Starts(job[j], u)
    BY <1>1 DEF Starts
  <2> QED
    BY <1>1, <2>1, <2>2, OwnProcess
<1>10. reserved' = reserved - job[j].amount + job'[j].amount - worker[u].startup + worker'[u].startup
  <2>1. job'[j].amount = job[j].amount
    BY <1>5, <1>7
  <2>2. worker'[u].startup = Cost["startup"]
    BY <1>6, <1>8
  <2>3. reserved' = reserved + Cost["startup"] /\ reserved \in Nat /\ job[j].amount \in Nat /\ Cost["startup"] \in Nat
    BY <1>0, <1>1
  <2> QED
    BY <1>9, <2>1, <2>2, <2>3
<1>11. ASSUME NEW v \in Workers
       PROVE  /\ worker'[v].startup # 0 =>
                   \/ Starts(job'[j], v)
                   \/ (worker[v].startup # 0 /\ ~Starts(job[j], v))
              /\ worker'[v].owed # << >> =>
                   \/ (Writes(job'[j], v) /\ worker'[v].owed = <<j>>)
                   \/ (worker'[v].owed = worker[v].owed /\ (Writes(job[j], v) => Writes(job'[j], v)))
  <2>1. ~Starts(job[j], v) /\ ~Writes(job[j], v) /\ Starts(job'[j], u)
    BY <1>1, <1>5, <1>7 DEF Starts, Writes
  <2>2. v # u => worker'[v] = worker[v]
    BY <1>8
  <2> QED
    BY <1>6, <1>8, <2>1, <2>2
<1>12. job'[j].at # "none" /\ job'[j].asked = job[j].asked /\ worker'[u].startup \in Nat /\ job[j].at # "none"
  BY <1>0, <1>1, <1>5, <1>6, <1>7, <1>8
<1>13. OneJob(job, job', j) /\ JobFits(job'[j]) /\ scratch' \in Int /\ scratch' <= MaxScratch
  BY <1>0, <1>1, <1>7
<1> HIDE DEF u
<1> QED
  BY <1>1, <1>3, <1>7, <1>8, <1>10, <1>11, <1>12, <1>13, JobStep

LEMMA WorkerReadyKeeps ==
    ASSUME ExtractInv, NEW j \in Jobs, WorkerReady(j)
    PROVE  ExtractInv'
<1> DEFINE u == job[j].stage
           q == [worker[u] EXCEPT !.proc = "ready", !.startup = 0]
           R == [job[j] EXCEPT !.at = "started"]
<1>0. /\ JobFits(job[j]) /\ reserved \in Nat /\ reserved <= High /\ job[j].amount \in Nat
      /\ job = [i \in Jobs |-> job[i]] /\ job[j] = [f \in JobFields |-> job[j][f]]
      /\ scratch \in Int /\ scratch <= MaxScratch /\ High \in Nat
      /\ job[j].body \in Nat /\ job[j].result \in Nat /\ job[j].then \in {"fail", "slot", "replied"}
  BY Facts DEF JobFits
<1>1. /\ job[j].at = "spawn" /\ u \in Workers /\ job' = [job EXCEPT ![j].at = "started"]
      /\ worker' = [worker EXCEPT ![u].proc = "ready", ![u].startup = 0]
      /\ reserved' = reserved - worker[u].startup
      /\ caller' = caller /\ flight' = flight /\ gate' = gate /\ scratch' = scratch
  BY <1>0 DEF WorkerReady, JobFits, Busy
<1>2. worker[u].startup \in Nat
  BY <1>1, WorkerShape
<1>3. reserved' <= High
  BY <1>0, <1>1, <1>2
<1>4. job' = [job EXCEPT ![j] = R] /\ worker' = [worker EXCEPT ![u] = q]
  BY <1>0, <1>1, WorkerShape
<1>5. /\ R = [f \in JobFields |-> R[f]] /\ R.at = "started" /\ R.stage = u
      /\ R.permit = job[j].permit /\ R.asked = job[j].asked /\ R.then = job[j].then
      /\ R.rendered = job[j].rendered /\ R.amount = job[j].amount /\ R.body = job[j].body
      /\ R.result = job[j].result
  BY <1>0 DEF JobFields
<1>6. /\ q = [f \in {"proc", "owed", "startup"} |-> q[f]] /\ q.startup = 0 /\ q.owed = worker[u].owed
  BY <1>1, WorkerShape
<1> HIDE DEF R, q
<1>7. OneJob(job, job', j) /\ job'[j] = R /\ JobFits(R) /\ PermitsFit(job', gate')
  BY <1>0, <1>1, <1>4, <1>5, SlotGoesOn DEF Busy
<1>8. WorkersFit(worker') /\ worker'[u] = q /\ \A x \in Workers \ {u} : worker'[x] = worker[x]
  BY <1>1, <1>4, <1>6, WorkerChanges
<1>10. reserved' = reserved - job[j].amount + job'[j].amount - worker[u].startup + worker'[u].startup
  <2>1. job'[j].amount = job[j].amount
    BY <1>5, <1>7
  <2>2. worker'[u].startup = 0
    BY <1>6, <1>8
  <2>3. reserved' = reserved - worker[u].startup /\ reserved \in Nat /\ job[j].amount \in Nat
    BY <1>0, <1>1
  <2> QED
    BY <1>2, <2>1, <2>2, <2>3
<1>11. ASSUME NEW v \in Workers
       PROVE  /\ worker'[v].startup # 0 =>
                   \/ Starts(job'[j], v)
                   \/ (worker[v].startup # 0 /\ ~Starts(job[j], v))
              /\ worker'[v].owed # << >> =>
                   \/ (Writes(job'[j], v) /\ worker'[v].owed = <<j>>)
                   \/ (worker'[v].owed = worker[v].owed /\ (Writes(job[j], v) => Writes(job'[j], v)))
  <2>1. ~Writes(job[j], v) /\ (v # u => ~Starts(job[j], v))
    BY <1>1 DEF Starts, Writes
  <2>2. v # u => worker'[v] = worker[v]
    BY <1>8
  <2> QED
    BY <1>6, <1>8, <2>1, <2>2
<1>12. job'[j].at # "none" /\ job'[j].asked = job[j].asked /\ worker'[u].startup \in Nat /\ job[j].at # "none"
  <2>1. job'[j].at = "started" /\ job'[j].asked = job[j].asked
    BY <1>5, <1>7
  <2>2. worker'[u].startup = 0
    BY <1>6, <1>8
  <2> QED
    BY <1>1, <2>1, <2>2
<1>13. OneJob(job, job', j) /\ JobFits(job'[j]) /\ scratch' \in Int /\ scratch' <= MaxScratch
  BY <1>0, <1>1, <1>7
<1> HIDE DEF u
<1> QED
  BY <1>1, <1>3, <1>7, <1>8, <1>10, <1>11, <1>12, <1>13, JobStep

\* The job waits for the end of the process that it kills.
LEMMA StopsKeeps ==
    ASSUME ExtractInv, NEW j \in Jobs, job[j].at \in Busy \ {"recover"}, job[j].stage \in Workers,
           NEW R, R = [f \in JobFields |-> R[f]], R.at = "stop", R.then \in {"fail", "slot"},
           R.stage = job[j].stage, R.permit = job[j].permit, R.asked = job[j].asked,
           R.rendered = job[j].rendered, R.amount = job[j].amount, R.body = job[j].body,
           R.result = job[j].result, R.then = "fail" \/ job[j].at \in {"slot", "started"},
           job' = [job EXCEPT ![j] = R],
           caller' = caller, flight' = flight, gate' = gate, worker' = worker, reserved' = reserved,
           scratch' = scratch
    PROVE  ExtractInv'
<1>0. /\ JobFits(job[j]) /\ reserved \in Nat /\ reserved <= High /\ job[j].amount \in Nat
      /\ scratch \in Int /\ scratch <= MaxScratch
      /\ job[j].body \in Nat /\ job[j].result \in Nat
  BY Facts DEF JobFits
<1>1. OneJob(job, job', j) /\ job'[j] = R /\ JobFits(R) /\ PermitsFit(job', gate')
  BY <1>0, SlotGoesOn DEF Busy
<1>2. \A v \in Workers :
        /\ Starts(job[j], v) => Starts(job'[j], v)
        /\ Writes(job[j], v) => Writes(job'[j], v)
  BY <1>1 DEF Starts, Writes
<1>3. /\ OneJob(job, job', j) /\ JobFits(job'[j]) /\ job[j].at # "none" /\ job'[j].at # "none"
      /\ job'[j].asked = job[j].asked /\ job'[j].amount = job[j].amount
  BY <1>1 DEF Busy
<1>4. reserved' = reserved - job[j].amount + job'[j].amount
  BY <1>0, <1>3
<1> QED
  BY <1>0, <1>1, <1>2, <1>3, <1>4, JobMoves

LEMMA StartFailsKeeps ==
    ASSUME ExtractInv, NEW j \in Jobs, StartFails(j)
    PROVE  ExtractInv'
<1> DEFINE R == [job[j] EXCEPT !.at = "stop", !.then = "fail"]
<1>1. /\ job[j].at = "spawn" /\ job[j].stage \in Workers
      /\ caller' = caller /\ flight' = flight /\ gate' = gate /\ worker' = worker
      /\ reserved' = reserved /\ scratch' = scratch
  BY Facts DEF StartFails, JobFits, Busy
<1>2. job' = [job EXCEPT ![j] = R]
  BY Facts DEF StartFails, Stops
<1>3. /\ R = [f \in JobFields |-> R[f]] /\ R.at = "stop" /\ R.then = "fail"
      /\ R.stage = job[j].stage /\ R.permit = job[j].permit /\ R.asked = job[j].asked
      /\ R.rendered = job[j].rendered /\ R.amount = job[j].amount /\ R.body = job[j].body
      /\ R.result = job[j].result
  <2>1. job[j] = [f \in JobFields |-> job[j][f]]
    BY Facts DEF JobFits
  <2> QED
    BY <2>1 DEF JobFields
<1> HIDE DEF R
<1> QED
  BY <1>1, <1>2, <1>3, StopsKeeps DEF Busy

LEMMA ReapDeadKeeps ==
    ASSUME ExtractInv, NEW j \in Jobs, ReapDead(j)
    PROVE  ExtractInv'
<1> DEFINE R == [job[j] EXCEPT !.at = "stop", !.then = "slot"]
<1>1. /\ job[j].at = "slot" /\ job[j].stage \in Workers
      /\ caller' = caller /\ flight' = flight /\ gate' = gate /\ worker' = worker
      /\ reserved' = reserved /\ scratch' = scratch
  BY DEF ReapDead
<1>2. job' = [job EXCEPT ![j] = R]
  BY Facts DEF ReapDead, Stops
<1>3. /\ R = [f \in JobFields |-> R[f]] /\ R.at = "stop" /\ R.then = "slot"
      /\ R.stage = job[j].stage /\ R.permit = job[j].permit /\ R.asked = job[j].asked
      /\ R.rendered = job[j].rendered /\ R.amount = job[j].amount /\ R.body = job[j].body
      /\ R.result = job[j].result
  <2>1. job[j] = [f \in JobFields |-> job[j][f]]
    BY Facts DEF JobFits
  <2> QED
    BY <2>1 DEF JobFields
<1> HIDE DEF R
<1> QED
  BY <1>1, <1>2, <1>3, StopsKeeps DEF Busy

LEMMA CallFailsKeeps ==
    ASSUME ExtractInv, NEW j \in Jobs, CallFails(j)
    PROVE  ExtractInv'
<1> DEFINE R == [job[j] EXCEPT !.at = "stop", !.then = "fail"]
<1>1. /\ job[j].at = "run" /\ job[j].stage \in Workers
      /\ caller' = caller /\ flight' = flight /\ gate' = gate /\ worker' = worker
      /\ reserved' = reserved /\ scratch' = scratch
  BY Facts DEF CallFails, JobFits, Busy
<1>2. job' = [job EXCEPT ![j] = R]
  BY Facts DEF CallFails, Stops
<1>3. /\ R = [f \in JobFields |-> R[f]] /\ R.at = "stop" /\ R.then = "fail"
      /\ R.stage = job[j].stage /\ R.permit = job[j].permit /\ R.asked = job[j].asked
      /\ R.rendered = job[j].rendered /\ R.amount = job[j].amount /\ R.body = job[j].body
      /\ R.result = job[j].result
  <2>1. job[j] = [f \in JobFields |-> job[j][f]]
    BY Facts DEF JobFits
  <2> QED
    BY <2>1 DEF JobFields
<1> HIDE DEF R
<1> QED
  BY <1>1, <1>2, <1>3, StopsKeeps DEF Busy

LEMMA NotPreparedKeeps ==
    ASSUME ExtractInv, NEW j \in Jobs, NotPrepared(j)
    PROVE  ExtractInv'
<1>1. /\ job[j].at \in {"slot", "started"} /\ job[j].stage \in Workers /\ Ends(j, "fail", SlotBack(j))
      /\ caller' = caller /\ flight' = flight /\ worker' = worker
  BY DEF NotPrepared, Preparing
<1>2. PermitsBut(job, j, Permit(job[j]), {}, SlotBack(j))
  BY <1>1, SlotGates DEF Busy
<1> QED
  BY <1>1, <1>2, EndsKeeps

LEMMA ParsedKeeps ==
    ASSUME ExtractInv, NEW j \in Jobs, Parsed(j)
    PROVE  ExtractInv'
<1>1. PICK out : Ends(j, out, SlotBack(j))
  BY DEF Parsed
<1>2. /\ job[j].at = "replied" /\ job[j].stage \in Workers
      /\ caller' = caller /\ flight' = flight /\ worker' = worker
  BY DEF Parsed, Workers
<1>3. PermitsBut(job, j, Permit(job[j]), {}, SlotBack(j))
  BY <1>2, SlotGates DEF Busy
<1> QED
  BY <1>1, <1>2, <1>3, EndsKeeps

LEMMA RenderedKeeps ==
    ASSUME ExtractInv, NEW j \in Jobs, Rendered(j)
    PROVE  ExtractInv'
<1> DEFINE R == [job[j] EXCEPT !.amount = Cost["body"]]
<1>0. /\ JobFits(job[j]) /\ reserved \in Nat /\ job[j].amount \in Nat
      /\ job[j] = [f \in JobFields |-> job[j][f]] /\ Cost["body"] \in Nat
  BY Facts, Costs DEF JobFits
<1>1. /\ job[j].at = "replied" /\ job[j].stage = "browser" /\ job[j].stage \in Workers
      /\ caller' = caller /\ flight' = flight /\ worker' = worker
  BY DEF Rendered, Workers
<1>2. PermitsBut(job, j, Permit(job[j]), {}, SlotBack(j))
  BY <1>1, SlotGates DEF Busy
<1>3. CASE Ends(j, "fail", SlotBack(j))
  BY <1>1, <1>2, <1>3, EndsKeeps
<1>4. CASE /\ \E s \in Samples : Fits(s, job[j].amount, Cost["body"])
           /\ ToParser(j, R, SlotBack(j))
  <2>1. reserved - job[j].amount + Cost["body"] <= High
    BY <1>0, <1>4, FitsBudget
  <2>2. /\ R = [f \in JobFields |-> R[f]] /\ R.at = job[j].at /\ R.then = job[j].then
        /\ R.stage = job[j].stage /\ R.permit = job[j].permit /\ R.asked = job[j].asked
        /\ R.rendered = job[j].rendered /\ R.amount = Cost["body"] /\ R.body = job[j].body
        /\ R.result = job[j].result
    BY <1>0 DEF JobFields
  <2>3. ToParser(j, R, SlotBack(j)) /\ job[j].body > 0
    BY <1>0, <1>1, <1>4 DEF JobFits
  <2> HIDE DEF R
  <2>4. JobFits(R) /\ reserved - job[j].amount + R.amount <= High
    <3>1. JobFits(R)
      BY <1>0, <1>1, <2>2 DEF JobFits
    <3> QED
      BY <2>1, <2>2, <3>1
  <2> QED
    BY <1>1, <1>2, <2>2, <2>3, <2>4, ToParserKeeps
<1> QED
  BY <1>3, <1>4 DEF Rendered

LEMMA DispatchKeeps ==
    ASSUME ExtractInv, NEW j \in Jobs, Dispatch(j)
    PROVE  ExtractInv'
<1> DEFINE u == job[j].stage
           b == IF u = "browser" THEN Limit ELSE job[j].body
           c == IF u = "parser" THEN Limit ELSE job[j].result
           R == [job[j] EXCEPT !.at = "run", !.amount = Cost[u], !.body = b, !.result = c]
           q == IF worker[u].proc = "ready" THEN [worker[u] EXCEPT !.owed = Append(worker[u].owed, j)]
                ELSE worker[u]
<1>0. /\ JobFits(job[j]) /\ reserved \in Nat /\ reserved <= High /\ job[j].amount \in Nat
      /\ job = [i \in Jobs |-> job[i]] /\ job[j] = [f \in JobFields |-> job[j][f]]
      /\ scratch \in Int /\ MaxScratch \in Nat /\ Limit \in Nat /\ Limit > 0
      /\ job[j].body \in Nat /\ job[j].result \in Nat /\ job[j].then \in {"fail", "slot", "replied"}
  BY Facts, Costs DEF JobFits
<1>1. /\ job[j].at \in {"slot", "started"} /\ u \in Workers
      /\ scratch + Limit <= MaxScratch /\ scratch' = scratch + Limit
      /\ reserved' = reserved - job[j].amount + Cost[u]
      /\ caller' = caller /\ flight' = flight /\ gate' = gate
  BY DEF Dispatch, Preparing
<1>2. PICK s \in Samples : Fits(s, job[j].amount, Cost[u])
  BY DEF Dispatch
<1>3. Cost[u] \in Nat /\ reserved' <= High
  <2>1. Cost[u] \in Nat
    BY <1>1, Costs DEF Workers
  <2> HIDE DEF u
  <2> QED
    BY <1>0, <1>1, <1>2, <2>1, FitsBudget
<1>4. job' = [job EXCEPT ![j] = R]
  BY <1>0 DEF Dispatch
<1>5. worker' = [worker EXCEPT ![u] = q]
  <2>1. CASE worker[u].proc = "ready"
    BY <1>1, <2>1, WorkerShape DEF Dispatch
  <2>2. CASE worker[u].proc # "ready"
    <3>1. worker' = worker /\ q = worker[u]
      BY <2>2 DEF Dispatch
    <3>2. worker = [x \in Workers |-> worker[x]]
      BY <1>1, WorkerShape
    <3> HIDE DEF q, u
    <3> QED
      BY <3>1, <3>2
  <2> QED
    BY <2>1, <2>2
<1>6. b \in Nat /\ c \in Nat /\ (u = "browser" => b > 0)
  BY <1>0
<1>7. worker[u].owed = << >>
  <2>1. u \in Own(job[j])
    BY <1>1, SlotGates DEF Busy
  <2>2. ~Writes(job[j], u)
    BY <1>1 DEF Writes
  <2> QED
    BY <1>1, <2>1, <2>2, OwnProcess
<1> HIDE DEF b, c
<1>8. /\ R = [f \in JobFields |-> R[f]] /\ R.at = "run" /\ R.stage = u
      /\ R.permit = job[j].permit /\ R.asked = job[j].asked /\ R.then = job[j].then
      /\ R.rendered = job[j].rendered /\ R.amount = Cost[u] /\ R.body = b /\ R.result = c
  BY <1>0 DEF JobFields
<1>9. /\ q = [f \in {"proc", "owed", "startup"} |-> q[f]] /\ q.startup = worker[u].startup
      /\ q.owed \in {<< >>, <<j>>}
  <2>1. worker[u] = [f \in {"proc", "owed", "startup"} |-> worker[u][f]]
    BY <1>1, WorkerShape
  <2>2. CASE worker[u].proc = "ready"
    <3>1. q = [worker[u] EXCEPT !.owed = Append(worker[u].owed, j)]
      BY <2>2
    <3>2. Append(worker[u].owed, j) = <<j>>
      BY <1>7
    <3> QED
      BY <2>1, <3>1, <3>2
  <2>3. CASE worker[u].proc # "ready"
    BY <1>7, <2>1, <2>3
  <2> QED
    BY <2>2, <2>3
<1> HIDE DEF R, q
<1>10. OneJob(job, job', j) /\ job'[j] = R /\ JobFits(R) /\ PermitsFit(job', gate')
  <2>1. R.amount \in Nat /\ R.body \in Nat /\ R.result \in Nat /\ (R.stage = "browser" => R.body > 0)
    BY <1>3, <1>6, <1>8
  <2> QED
    BY <1>0, <1>1, <1>4, <1>8, <2>1, SlotGoesOn DEF Busy
<1>11. WorkersFit(worker') /\ worker'[u] = q /\ \A x \in Workers \ {u} : worker'[x] = worker[x]
  BY <1>1, <1>5, <1>9, WorkerChanges
<1>12. worker[u].startup \in Nat /\ worker'[u].startup = worker[u].startup
  BY <1>1, <1>9, <1>11, WorkerShape
<1>13. reserved' = reserved - job[j].amount + job'[j].amount - worker[u].startup + worker'[u].startup
  <2>1. job'[j].amount = Cost[u]
    BY <1>8, <1>10
  <2>2. reserved' = reserved - job[j].amount + Cost[u] /\ reserved \in Nat /\ job[j].amount \in Nat
    BY <1>0, <1>1
  <2> QED
    BY <1>3, <1>12, <2>1, <2>2
<1>14. ASSUME NEW v \in Workers
       PROVE  /\ worker'[v].startup # 0 =>
                   \/ Starts(job'[j], v)
                   \/ (worker[v].startup # 0 /\ ~Starts(job[j], v))
              /\ worker'[v].owed # << >> =>
                   \/ (Writes(job'[j], v) /\ worker'[v].owed = <<j>>)
                   \/ (worker'[v].owed = worker[v].owed /\ (Writes(job[j], v) => Writes(job'[j], v)))
  <2>1. ~Starts(job[j], v) /\ ~Writes(job[j], v) /\ Writes(job'[j], u)
    BY <1>1, <1>8, <1>10 DEF Starts, Writes
  <2>2. v # u => worker'[v] = worker[v]
    BY <1>11
  <2> QED
    BY <1>9, <1>11, <1>12, <2>1, <2>2
<1>15. job'[j].at # "none" /\ job'[j].asked = job[j].asked /\ job[j].at # "none" /\ JobFits(job'[j])
  BY <1>1, <1>8, <1>10
<1>16. scratch' \in Int /\ scratch' <= MaxScratch
  BY <1>0, <1>1
<1> HIDE DEF u
<1> QED
  BY <1>1, <1>3, <1>10, <1>11, <1>12, <1>13, <1>14, <1>15, <1>16, JobStep

LEMMA ReadReplyKeeps ==
    ASSUME ExtractInv, NEW j \in Jobs, ReadReply(j)
    PROVE  ExtractInv'
<1> DEFINE u == job[j].stage
           q == [worker[u] EXCEPT !.owed = Tail(worker[u].owed)]
<1>0. /\ JobFits(job[j]) /\ reserved \in Nat /\ reserved <= High /\ job[j].amount \in Nat
      /\ job = [i \in Jobs |-> job[i]] /\ job[j] = [f \in JobFields |-> job[j][f]]
      /\ scratch \in Int /\ scratch <= MaxScratch
      /\ job[j].body \in Nat /\ job[j].result \in Nat /\ job[j].then \in {"fail", "slot", "replied"}
      /\ (u = "browser" /\ job[j].at = "run" => job[j].body > 0)
  BY Facts DEF JobFits
<1>1. /\ job[j].at = "run" /\ u \in Workers /\ worker[u].owed # << >>
      /\ worker' = [worker EXCEPT ![u].owed = Tail(worker[u].owed)]
      /\ caller' = caller /\ flight' = flight /\ gate' = gate /\ reserved' = reserved /\ scratch' = scratch
  BY <1>0 DEF ReadReply, JobFits, Busy
<1>2. worker' = [worker EXCEPT ![u] = q]
  BY <1>1, WorkerShape
<1>3. Tail(worker[u].owed) = << >>
  <2>1. u \in Own(job[j])
    BY <1>1, SlotGates DEF Busy
  <2>2. worker[u].owed = <<j>>
    BY <1>1, <2>1, OwnProcess
  <2> QED
    BY <2>2
<1>4. /\ q = [f \in {"proc", "owed", "startup"} |-> q[f]] /\ q.startup = worker[u].startup /\ q.owed = << >>
  <2>1. worker[u] = [f \in {"proc", "owed", "startup"} |-> worker[u][f]]
    BY <1>1, WorkerShape
  <2> QED
    BY <1>3, <2>1
<1>5. PICK R :
        /\ job' = [job EXCEPT ![j] = R]
        /\ R = [f \in JobFields |-> R[f]] /\ R.at \in {"replied", "stop"} /\ R.stage = u
        /\ R.permit = job[j].permit /\ R.asked = job[j].asked
        /\ (R.then \in {"fail", "slot", "replied"} /\ (R.at = "stop" => R.then = "replied"))
        /\ R.rendered = job[j].rendered /\ R.amount = job[j].amount /\ R.body = job[j].body
        /\ R.result = job[j].result
  <2>1. CASE job' = [job EXCEPT ![j].at = "replied"]
    <3> DEFINE R == [job[j] EXCEPT !.at = "replied"]
    <3>1. job' = [job EXCEPT ![j] = R]
      BY <1>0, <2>1
    <3>2. /\ R = [f \in JobFields |-> R[f]] /\ R.at = "replied" /\ R.stage = u
          /\ R.permit = job[j].permit /\ R.asked = job[j].asked /\ R.then = job[j].then
          /\ R.rendered = job[j].rendered /\ R.amount = job[j].amount /\ R.body = job[j].body
          /\ R.result = job[j].result
      BY <1>0 DEF JobFields
    <3> HIDE DEF R
    <3> QED
      BY <1>0, <3>1, <3>2
  <2>2. CASE Stops(j, "replied")
    <3> DEFINE R == [job[j] EXCEPT !.at = "stop", !.then = "replied"]
    <3>1. job' = [job EXCEPT ![j] = R]
      BY <1>0, <2>2 DEF Stops
    <3>2. /\ R = [f \in JobFields |-> R[f]] /\ R.at = "stop" /\ R.stage = u
          /\ R.permit = job[j].permit /\ R.asked = job[j].asked /\ R.then = "replied"
          /\ R.rendered = job[j].rendered /\ R.amount = job[j].amount /\ R.body = job[j].body
          /\ R.result = job[j].result
      BY <1>0 DEF JobFields
    <3> HIDE DEF R
    <3> QED
      BY <3>1, <3>2
  <2> QED
    BY <2>1, <2>2 DEF ReadReply
<1> HIDE DEF q
<1>6. OneJob(job, job', j) /\ job'[j] = R /\ JobFits(R) /\ PermitsFit(job', gate')
  <2>1. R.amount \in Nat /\ R.body \in Nat /\ R.result \in Nat /\ (R.stage = "browser" => R.body > 0)
    BY <1>0, <1>1, <1>5
  <2> QED
    BY <1>0, <1>1, <1>5, <2>1, SlotGoesOn DEF Busy
<1>7. WorkersFit(worker') /\ worker'[u] = q /\ \A x \in Workers \ {u} : worker'[x] = worker[x]
  BY <1>1, <1>2, <1>4, WorkerChanges
<1>8. worker[u].startup \in Nat /\ worker'[u].startup = worker[u].startup /\ worker'[u].owed = << >>
  BY <1>1, <1>4, <1>7, WorkerShape
<1>9. reserved' = reserved - job[j].amount + job'[j].amount - worker[u].startup + worker'[u].startup
  <2>1. job'[j].amount = job[j].amount
    BY <1>5, <1>6
  <2>2. reserved' = reserved /\ reserved \in Nat /\ job[j].amount \in Nat
    BY <1>0, <1>1
  <2> QED
    BY <1>8, <2>1, <2>2
<1>10. ASSUME NEW v \in Workers
       PROVE  /\ worker'[v].startup # 0 =>
                   \/ Starts(job'[j], v)
                   \/ (worker[v].startup # 0 /\ ~Starts(job[j], v))
              /\ worker'[v].owed # << >> =>
                   \/ (Writes(job'[j], v) /\ worker'[v].owed = <<j>>)
                   \/ (worker'[v].owed = worker[v].owed /\ (Writes(job[j], v) => Writes(job'[j], v)))
  <2>1. ~Starts(job[j], v) /\ (v # u => ~Writes(job[j], v))
    BY <1>1 DEF Starts, Writes
  <2>2. v # u => worker'[v] = worker[v]
    BY <1>7
  <2> QED
    BY <1>8, <2>1, <2>2
<1>11. job'[j].at # "none" /\ job'[j].asked = job[j].asked /\ job[j].at # "none" /\ JobFits(job'[j])
  BY <1>1, <1>5, <1>6
<1>12. /\ reserved' <= High /\ scratch' \in Int /\ scratch' <= MaxScratch /\ worker'[u].startup \in Nat
       /\ \A x \in Workers \ {u} : worker'[x].startup = worker[x].startup
  BY <1>0, <1>1, <1>7, <1>8
<1> HIDE DEF u
<1> QED
  BY <1>1, <1>6, <1>7, <1>9, <1>10, <1>11, <1>12, JobStep

LEMMA Siblings ==
    ASSUME NEW u \in Workers
    PROVE  Sibling(u) \in Workers /\ Sibling(u) # u /\ u \in Gates /\ u # "download" /\ Slots[u] = 1
BY ExtractConstants DEF Sibling, Workers, Gates

LEMMA PressuredKeeps ==
    ASSUME ExtractInv, NEW j \in Jobs, Pressured(j)
    PROVE  ExtractInv'
<1> DEFINE u == job[j].stage
           s == Sibling(u)
           P == Permit(job[j])
<1>0. /\ JobFits(job[j]) /\ reserved \in Nat /\ reserved <= High /\ job[j].amount \in Nat
      /\ job = [i \in Jobs |-> job[i]] /\ job[j] = [f \in JobFields |-> job[j][f]]
      /\ scratch \in Int /\ scratch <= MaxScratch
      /\ PermitsBut(job, j, Own(job[j]), Wait(job[j]), gate) /\ gate = [x \in Gates |-> gate[x]]
  <2>1. PermitsBut(job, j, Own(job[j]), Wait(job[j]), gate)
    BY Facts
  <2>2. gate = [x \in Gates |-> gate[x]]
    BY <2>1 DEF PermitsBut
  <2>3. job[j] = [f \in JobFields |-> job[j][f]]
    BY Facts DEF JobFits
  <2> QED
    BY <2>1, <2>2, <2>3, Facts
<1>1. /\ job[j].at \in {"slot", "started"} /\ u \in Workers
      /\ caller' = caller /\ flight' = flight /\ worker' = worker /\ reserved' = reserved /\ scratch' = scratch
  BY DEF Pressured, Preparing
<1>2. CASE /\ worker[s].proc # "none" /\ gate[s].active = 0 /\ gate[s].queue = << >>
           /\ gate' = [gate EXCEPT ![s].active = gate[s].active + 1]
           /\ job' = [job EXCEPT ![j].at = "recover", ![j].attempt = 1]
  <2> DEFINE R == [job[j] EXCEPT !.at = "recover", !.attempt = 1]
  <2>1. job' = [job EXCEPT ![j] = R]
    BY <1>0, <1>2
  <2>2. /\ R = [f \in JobFields |-> R[f]] /\ R.at = "recover" /\ R.stage = u
        /\ R.permit = job[j].permit /\ R.asked = job[j].asked /\ R.then = job[j].then
        /\ R.rendered = job[j].rendered /\ R.amount = job[j].amount /\ R.body = job[j].body
        /\ R.result = job[j].result
    BY <1>0 DEF JobFields
  <2>3. OneJob(job, job', j) /\ job'[j] = R
    BY <1>0, <2>1 DEF OneJob
  <2> HIDE DEF R
  <2>4. JobFits(R)
    <3>1. R.at \in Places /\ u # "download"
      BY <1>1, <2>2 DEF Places, Workers
    <3> QED
      BY <1>0, <1>1, <2>2, <3>1 DEF JobFits
  <2>5. s \in Gates /\ s # u /\ s # "download" /\ Slots[s] = 1
    BY <1>1, Siblings
  <2>6. Own(job[j]) = P \cup {u} /\ Wait(job[j]) = {}
    BY <1>1, SlotGates DEF Busy
  <2>7. Own(R) = (P \cup {u}) \cup {s} /\ Wait(R) = {}
    <3>1. Permit(R) = P
      BY <2>2 DEF Permit
    <3>2. Own(R) = Permit(R) \cup {u, s} /\ Wait(R) = {}
      BY <2>2, <2>4, JobOwns
    <3> QED
      BY <3>1, <3>2
  <2>8. OneGate(gate, gate', s) /\ gate'[s] = [gate[s] EXCEPT !.active = gate[s].active + 1]
    BY <1>0, <1>2, <2>5 DEF OneGate
  <2>9. s \notin P \cup {u} /\ gate[s].active < Slots[s] /\ gate[s].queue = << >>
    BY <1>2, <2>5 DEF Permit
  <2>10. PermitsBut(job, j, P \cup {u}, {}, gate)
    BY <1>0, <2>6
  <2>11. \A v \in Workers : ~Starts(job[j], v) /\ ~Writes(job[j], v)
    BY <1>1 DEF Starts, Writes
  <2> HIDE DEF s, P, u
  <2>12. PermitsBut(job, j, (P \cup {u}) \cup {s}, {}, gate')
    BY <2>5, <2>8, <2>9, <2>10, EnterGate
  <2>13. PermitsFit(job', gate')
    BY <2>3, <2>7, <2>12, PermitsAfter
  <2>14. /\ OneJob(job, job', j) /\ JobFits(job'[j]) /\ job[j].at # "none" /\ job'[j].at # "none"
         /\ job'[j].asked = job[j].asked /\ job'[j].amount = job[j].amount
    BY <1>1, <2>2, <2>3, <2>4
  <2>15. reserved' = reserved - job[j].amount + job'[j].amount
    BY <1>0, <1>1, <2>14
  <2> QED
    BY <1>0, <1>1, <2>11, <2>13, <2>14, <2>15, JobMoves
<1>3. CASE /\ job' = [job EXCEPT ![j].at = "stop", ![j].then = "slot", ![j].attempt = 1]
           /\ gate' = gate
  <2> DEFINE R == [job[j] EXCEPT !.at = "stop", !.then = "slot", !.attempt = 1]
  <2>1. job' = [job EXCEPT ![j] = R]
    BY <1>0, <1>3
  <2>2. /\ R = [f \in JobFields |-> R[f]] /\ R.at = "stop" /\ R.stage = job[j].stage
        /\ R.permit = job[j].permit /\ R.asked = job[j].asked /\ R.then = "slot"
        /\ R.rendered = job[j].rendered /\ R.amount = job[j].amount /\ R.body = job[j].body
        /\ R.result = job[j].result
    BY <1>0 DEF JobFields
  <2> HIDE DEF R
  <2> QED
    BY <1>1, <1>3, <2>1, <2>2, StopsKeeps DEF Busy
<1>4. \/ /\ worker[s].proc # "none" /\ gate[s].active = 0 /\ gate[s].queue = << >>
         /\ gate' = [gate EXCEPT ![s].active = gate[s].active + 1]
         /\ job' = [job EXCEPT ![j].at = "recover", ![j].attempt = 1]
      \/ /\ job' = [job EXCEPT ![j].at = "stop", ![j].then = "slot", ![j].attempt = 1]
         /\ gate' = gate
  BY DEF Pressured
<1> QED
  BY <1>2, <1>3, <1>4

LEMMA NoProcessShape ==
    /\ NoProcess = [f \in {"proc", "owed", "startup"} |-> NoProcess[f]]
    /\ NoProcess.startup = 0 /\ NoProcess.owed = << >>
BY DEF NoProcess

\* The process of u has ended: its worker is empty, and the job that owns the slot went on.
LEMMA ProcessEnds ==
    ASSUME ExtractInv, NEW j \in Jobs, NEW u \in Workers, u \in Own(job[j]),
           worker' = [worker EXCEPT ![u] = NoProcess],
           OneJob(job, job', j), JobFits(job'[j]), PermitsFit(job', gate'),
           reserved' = reserved - job[j].amount + job'[j].amount - worker[u].startup,
           scratch' \in Int, scratch' <= MaxScratch,
           \A v \in Workers \ {u} : ~Starts(job[j], v) /\ ~Writes(job[j], v),
           caller' = caller, flight' = flight, job[j].at # "none", job'[j].at # "none",
           job'[j].asked = "cancel" => job[j].asked = "cancel", job'[j].amount <= job[j].amount
    PROVE  ExtractInv'
<1>1. /\ WorkersFit(worker') /\ worker'[u] = NoProcess /\ \A x \in Workers \ {u} : worker'[x] = worker[x]
  BY NoProcessShape, WorkerChanges
<1>2. worker'[u].startup = 0 /\ worker'[u].owed = << >> /\ worker[u].startup \in Nat
  BY <1>1, NoProcessShape, WorkerShape
<1>3. /\ reserved' = reserved - job[j].amount + job'[j].amount - worker[u].startup + worker'[u].startup
      /\ reserved' <= High
  <2>1. reserved \in Nat /\ reserved <= High /\ job[j].amount \in Nat /\ job'[j].amount \in Nat /\ High \in Nat
    BY Facts DEF JobFits
  <2>2. worker'[u].startup = 0 /\ worker[u].startup \in Nat
    BY <1>2
  <2> QED
    BY <2>1, <2>2
<1>4. ASSUME NEW v \in Workers
      PROVE  /\ worker'[v].startup # 0 =>
                  \/ Starts(job'[j], v)
                  \/ (worker[v].startup # 0 /\ ~Starts(job[j], v))
             /\ worker'[v].owed # << >> =>
                  \/ (Writes(job'[j], v) /\ worker'[v].owed = <<j>>)
                  \/ (worker'[v].owed = worker[v].owed /\ (Writes(job[j], v) => Writes(job'[j], v)))
  <2>1. CASE v = u
    BY <1>2, <2>1
  <2>2. CASE v # u
    BY <1>1, <2>2
  <2> QED
    BY <2>1, <2>2
<1>5. worker'[u].startup \in Nat /\ \A x \in Workers \ {u} : worker'[x].startup = worker[x].startup
  BY <1>1, <1>2
<1> QED
  BY <1>1, <1>3, <1>4, <1>5, JobStep

LEMMA StopEndsKeeps ==
    ASSUME ExtractInv, NEW j \in Jobs, StopEnds(j)
    PROVE  ExtractInv'
<1> DEFINE u == job[j].stage
<1>0. /\ JobFits(job[j]) /\ reserved \in Nat /\ reserved <= High /\ job[j].amount \in Nat
      /\ job = [i \in Jobs |-> job[i]] /\ scratch \in Int /\ scratch <= MaxScratch
      /\ MaxScratch \in Nat
  BY Facts
<1>1. /\ job[j].at = "stop" /\ u \in Workers /\ worker' = [worker EXCEPT ![u] = NoProcess]
      /\ caller' = caller /\ flight' = flight
  BY <1>0 DEF StopEnds, JobFits, Busy
<1>2. u \in Own(job[j]) /\ PermitsBut(job, j, Permit(job[j]), {}, SlotBack(j))
  BY <1>1, SlotGates DEF Busy
<1>3. \A v \in Workers \ {u} : ~Starts(job[j], v) /\ ~Writes(job[j], v)
  BY DEF Starts, Writes
<1>4. worker[u].startup \in Nat
  BY <1>1, WorkerShape
<1>5. /\ job[j] = [f \in JobFields |-> job[j][f]] /\ job[j].body \in Nat /\ job[j].result \in Nat
      /\ job[j].then \in {"fail", "slot", "replied"} /\ job[j].permit \in BOOLEAN
      /\ (u = "browser" /\ job[j].then = "replied" => job[j].body > 0)
  BY <1>0, <1>1 DEF JobFits
<1>6. CASE /\ job[j].then # "fail" /\ job' = [job EXCEPT ![j].at = job[j].then]
           /\ UNCHANGED <<gate, reserved, scratch>>
  <2> DEFINE R == [job[j] EXCEPT !.at = job[j].then]
  <2>1. job' = [job EXCEPT ![j] = R] /\ gate' = gate /\ reserved' = reserved /\ scratch' = scratch
    BY <1>0, <1>6
  <2>2. /\ R = [f \in JobFields |-> R[f]] /\ R.at = job[j].then /\ R.stage = job[j].stage
        /\ R.permit = job[j].permit /\ R.asked = job[j].asked /\ R.then = job[j].then
        /\ R.rendered = job[j].rendered /\ R.amount = job[j].amount /\ R.body = job[j].body
        /\ R.result = job[j].result
    BY <1>5 DEF JobFields
  <2>3. R.at \in {"slot", "replied"}
    BY <1>5, <1>6, <2>2
  <2> HIDE DEF R
  <2>4. OneJob(job, job', j) /\ job'[j] = R /\ JobFits(R) /\ PermitsFit(job', gate')
    <3>1. R.stage = "browser" /\ R.at = "replied" => R.body > 0
      BY <1>5, <2>2
    <3>2. R.amount \in Nat /\ R.body \in Nat /\ R.result \in Nat /\ R.at \in Busy \ {"recover"} /\ R.at \notin {"run", "stop"}
      BY <1>0, <1>5, <2>2, <2>3 DEF Busy
    <3> QED
      BY <1>1, <1>5, <2>1, <2>2, <2>3, <3>1, <3>2, SlotGoesOn DEF Busy
  <2>5. worker[u].startup = 0
    <3>1. ~Starts(job[j], u)
      BY <1>1, <1>6 DEF Starts
    <3> QED
      BY <1>1, <1>2, <3>1, OwnProcess
  <2>6. /\ job'[j].amount = job[j].amount /\ job'[j].at # "none" /\ job'[j].asked = job[j].asked
        /\ JobFits(job'[j]) /\ OneJob(job, job', j) /\ PermitsFit(job', gate')
    BY <2>2, <2>3, <2>4
  <2>7. reserved' = reserved - job[j].amount + job'[j].amount - worker[u].startup /\ job'[j].amount <= job[j].amount
    BY <1>0, <2>1, <2>5, <2>6
  <2>8. scratch' \in Int /\ scratch' <= MaxScratch /\ job[j].at # "none"
    BY <1>0, <1>1, <2>1
  <2> HIDE DEF u
  <2> QED
    BY <1>1, <1>2, <1>3, <2>6, <2>7, <2>8, ProcessEnds
<1>7. CASE /\ job' = [job EXCEPT ![j] = [NoJob EXCEPT !.at = "done", !.out = "fail"]]
           /\ gate' = IF job[j].permit THEN [SlotBack(j) EXCEPT !["download"] = Released(SlotBack(j)["download"])]
                      ELSE SlotBack(j)
           /\ reserved' = reserved - job[j].amount - worker[u].startup
           /\ scratch' = scratch - job[j].body - job[j].result
  <2> DEFINE r == [NoJob EXCEPT !.at = "done", !.out = "fail"]
  <2>1. OneJob(job, job', j) /\ Ended(job'[j])
    <3>1. OneJob(job, job', j) /\ job'[j] = r
      BY <1>0, <1>7 DEF OneJob
    <3>2. r.out = "fail"
      BY DEF NoJob
    <3> QED
      BY <3>1, <3>2 DEF Ended
  <2> HIDE DEF r
  <2>2. /\ JobFits(job'[j]) /\ job'[j].at = "done" /\ job'[j].amount = 0 /\ job'[j].asked = "no"
    BY <2>1, EndedFits
  <2>3. PermitsFit(job', gate')
    <3> DEFINE H == SlotBack(j)
    <3>1. gate' = IF job[j].permit THEN [H EXCEPT !["download"] = Released(H["download"])] ELSE H
      BY <1>7
    <3>2. PermitsBut(job, j, Permit(job[j]), {}, H)
      BY <1>2
    <3> HIDE DEF H
    <3> QED
      BY <1>5, <2>1, <3>1, <3>2, EndsGates
  <2>4. reserved' = reserved - job[j].amount + job'[j].amount - worker[u].startup /\ job'[j].amount <= job[j].amount
    <3>1. reserved' = reserved - job[j].amount - worker[u].startup
      BY <1>7
    <3> QED
      BY <1>0, <1>4, <2>2, <3>1
  <2>5. scratch' \in Int /\ scratch' <= MaxScratch
    <3>1. scratch' = scratch - job[j].body - job[j].result
      BY <1>7
    <3> QED
      BY <1>0, <1>5, <3>1
  <2>6. job[j].at # "none" /\ job'[j].at # "none" /\ job'[j].asked # "cancel"
    BY <1>1, <2>2
  <2> HIDE DEF u
  <2> QED
    BY <1>1, <1>2, <1>3, <2>1, <2>2, <2>3, <2>4, <2>5, <2>6, ProcessEnds
<1> QED
  BY <1>6, <1>7 DEF StopEnds

LEMMA RecoverEndsKeeps ==
    ASSUME ExtractInv, NEW j \in Jobs, RecoverEnds(j)
    PROVE  ExtractInv'
<1> DEFINE g == job[j].stage
           u == Sibling(g)
           P == Permit(job[j])
           G == [gate EXCEPT ![u] = Released(gate[u])]
           H == [G EXCEPT ![g] = Released(G[g])]
<1>0. /\ JobFits(job[j]) /\ reserved \in Nat /\ reserved <= High /\ job[j].amount \in Nat
      /\ job = [i \in Jobs |-> job[i]] /\ scratch \in Int /\ scratch <= MaxScratch
      /\ MaxScratch \in Nat /\ PermitsBut(job, j, Own(job[j]), Wait(job[j]), gate)
  BY Facts
<1>1. /\ job[j].at = "recover" /\ g \in Workers /\ worker' = [worker EXCEPT ![u] = NoProcess]
      /\ caller' = caller /\ flight' = flight
  BY <1>0 DEF RecoverEnds, JobFits, Busy
<1>2. u \in Workers /\ u # g /\ g \in Gates /\ u \in Gates /\ g # "download" /\ u # "download"
  BY <1>1, Siblings
<1>3. Own(job[j]) = P \cup {g, u} /\ Wait(job[j]) = {} /\ g \notin P /\ u \notin P
  <2>1. Own(job[j]) = P \cup {g, u} /\ Wait(job[j]) = {}
    BY <1>0, <1>1, JobOwns
  <2> QED
    BY <1>2, <2>1 DEF Permit
<1>4. \A v \in Workers : ~Starts(job[j], v) /\ ~Writes(job[j], v)
  BY <1>1 DEF Starts, Writes
<1>5. worker[u].startup = 0
  BY <1>2, <1>3, <1>4, OwnProcess
<1>6. /\ job[j] = [f \in JobFields |-> job[j][f]] /\ job[j].body \in Nat /\ job[j].result \in Nat
      /\ job[j].then \in {"fail", "slot", "replied"} /\ job[j].permit \in BOOLEAN
      /\ job[j].rendered \in BOOLEAN
  BY <1>0 DEF JobFits
<1>7. gate = [x \in Gates |-> gate[x]]
  BY <1>0 DEF PermitsBut
<1>8. PermitsBut(job, j, P \cup {g}, {}, G)
  <2>1. OneGate(gate, G, u) /\ G[u] = Released(gate[u])
    BY <1>2, <1>7 DEF OneGate
  <2>2. (P \cup {g, u}) \ {u} = P \cup {g} /\ u \in P \cup {g, u}
    BY <1>2, <1>3
  <2>3. PermitsBut(job, j, P \cup {g, u}, {}, gate)
    BY <1>0, <1>3
  <2> HIDE DEF P, G, g, u
  <2>4. PermitsBut(job, j, (P \cup {g, u}) \ {u}, {}, G)
    BY <1>2, <2>1, <2>2, <2>3, GiveBack
  <2> QED
    BY <2>2, <2>4
<1>9. PermitsBut(job, j, P, {}, H)
  <2>1. OneGate(G, H, g) /\ H[g] = Released(G[g])
    BY <1>2, <1>7 DEF OneGate
  <2>2. (P \cup {g}) \ {g} = P /\ g \in P \cup {g}
    BY <1>3
  <2> HIDE DEF P, G, H, g
  <2>3. PermitsBut(job, j, (P \cup {g}) \ {g}, {}, H)
    BY <1>2, <1>8, <2>1, <2>2, GiveBack
  <2> QED
    BY <2>2, <2>3
<1>10. ASSUME NEW R, R = [f \in JobFields |-> R[f]], R.at \in {"slot", "stop"}, R.stage = job[j].stage,
              R.permit = job[j].permit, R.asked = job[j].asked, R.rendered = job[j].rendered,
              R.amount = job[j].amount, R.body = job[j].body, R.result = job[j].result,
              R.then \in {"fail", "slot", "replied"}, R.at = "stop" => R.then = "fail",
              job' = [job EXCEPT ![j] = R], gate' = G, reserved' = reserved, scratch' = scratch
       PROVE  ExtractInv'
  <2>1. OneJob(job, job', j) /\ job'[j] = R
    BY <1>0, <1>10 DEF OneJob
  <2>2. JobFits(R)
    <3>1. R.at \in Places /\ R.stage # "download" /\ R.at \in Busy \ {"recover"} /\ R.stage \in Workers
      BY <1>1, <1>2, <1>10 DEF Places, Busy
    <3> QED
      BY <1>0, <1>10, <3>1 DEF JobFits
  <2>3. Own(R) = P \cup {g} /\ Wait(R) = {}
    <3>1. Permit(R) = P
      BY <1>10 DEF Permit
    <3>2. R.at \in Busy \ {"recover"} /\ R.stage = g
      BY <1>10 DEF Busy
    <3> HIDE DEF P, g
    <3> QED
      BY <1>1, <2>2, <3>1, <3>2, JobOwns
  <2>4. PermitsFit(job', gate')
    <3>1. PermitsBut(job, j, P \cup {g}, {}, gate')
      BY <1>8, <1>10
    <3> HIDE DEF P, G, g
    <3> QED
      BY <2>1, <2>3, <3>1, PermitsAfter
  <2>5. /\ job'[j].amount = job[j].amount /\ job'[j].at # "none" /\ job'[j].asked = job[j].asked
        /\ JobFits(job'[j]) /\ OneJob(job, job', j) /\ job[j].at # "none"
    BY <1>1, <1>10, <2>1, <2>2
  <2>6. reserved' = reserved - job[j].amount + job'[j].amount - worker[u].startup /\ job'[j].amount <= job[j].amount
    <3>1. reserved' = reserved
      BY <1>10
    <3> QED
      BY <1>0, <1>5, <2>5, <3>1
  <2>7. scratch' \in Int /\ scratch' <= MaxScratch
    BY <1>0, <1>10
  <2>8. u \in Own(job[j])
    BY <1>3
  <2> HIDE DEF u
  <2> QED
    BY <1>1, <1>2, <1>4, <2>4, <2>5, <2>6, <2>7, <2>8, ProcessEnds
<1>11. CASE /\ job' = [job EXCEPT ![j].at = "slot"] /\ gate' = G /\ UNCHANGED <<reserved, scratch>>
  <2> DEFINE R == [job[j] EXCEPT !.at = "slot"]
  <2>1. job' = [job EXCEPT ![j] = R]
    BY <1>0, <1>11
  <2>2. /\ R = [f \in JobFields |-> R[f]] /\ R.at = "slot" /\ R.stage = job[j].stage
        /\ R.permit = job[j].permit /\ R.asked = job[j].asked /\ R.then = job[j].then
        /\ R.rendered = job[j].rendered /\ R.amount = job[j].amount /\ R.body = job[j].body
        /\ R.result = job[j].result
    BY <1>6 DEF JobFields
  <2> HIDE DEF R, G
  <2> QED
    BY <1>6, <1>10, <1>11, <2>1, <2>2
<1>12. CASE /\ Stops(j, "fail") /\ gate' = G /\ UNCHANGED <<reserved, scratch>>
  <2> DEFINE R == [job[j] EXCEPT !.at = "stop", !.then = "fail"]
  <2>1. job' = [job EXCEPT ![j] = R]
    BY <1>0, <1>12 DEF Stops
  <2>2. /\ R = [f \in JobFields |-> R[f]] /\ R.at = "stop" /\ R.stage = job[j].stage
        /\ R.permit = job[j].permit /\ R.asked = job[j].asked /\ R.then = "fail"
        /\ R.rendered = job[j].rendered /\ R.amount = job[j].amount /\ R.body = job[j].body
        /\ R.result = job[j].result
    BY <1>6 DEF JobFields
  <2> HIDE DEF R, G
  <2> QED
    BY <1>10, <1>12, <2>1, <2>2
<1>13. CASE Ends(j, "fail", H)
  <2> DEFINE r == [NoJob EXCEPT !.at = "done", !.out = "fail"]
  <2>1. OneJob(job, job', j) /\ Ended(job'[j])
    <3>1. OneJob(job, job', j) /\ job'[j] = r
      BY <1>0, <1>13 DEF OneJob, Ends
    <3>2. r.out = "fail"
      BY DEF NoJob
    <3> QED
      BY <3>1, <3>2 DEF Ended
  <2> HIDE DEF r
  <2>2. /\ JobFits(job'[j]) /\ job'[j].at = "done" /\ job'[j].amount = 0 /\ job'[j].asked = "no"
    BY <2>1, EndedFits
  <2> HIDE DEF H, P
  <2>3. PermitsFit(job', gate')
    <3>1. gate' = IF job[j].permit THEN [H EXCEPT !["download"] = Released(H["download"])] ELSE H
      BY <1>13 DEF Ends
    <3> QED
      BY <1>6, <1>9, <2>1, <3>1, EndsGates DEF P
  <2>4. reserved' = reserved - job[j].amount + job'[j].amount - worker[u].startup /\ job'[j].amount <= job[j].amount
    <3>1. reserved' = reserved - job[j].amount
      BY <1>13 DEF Ends
    <3> QED
      BY <1>0, <1>5, <2>2, <3>1
  <2>5. scratch' \in Int /\ scratch' <= MaxScratch
    <3>1. scratch' = scratch - job[j].body - job[j].result
      BY <1>13 DEF Ends
    <3> QED
      BY <1>0, <1>6, <3>1
  <2>6. job[j].at # "none" /\ job'[j].at # "none" /\ job'[j].asked # "cancel" /\ u \in Own(job[j])
    BY <1>1, <1>3, <2>2
  <2> HIDE DEF u
  <2> QED
    BY <1>1, <1>2, <1>4, <2>1, <2>2, <2>3, <2>4, <2>5, <2>6, ProcessEnds
<1> QED
  BY <1>11, <1>12, <1>13 DEF RecoverEnds

LEMMA WorkersKeep ==
    ASSUME ExtractInv, NEW u \in Workers, Dies(u) \/ Reclaimed(u)
    PROVE  ExtractInv'
<1> DEFINE q == IF Dies(u) THEN [worker[u] EXCEPT !.proc = "dead", !.owed = << >>]
                ELSE [worker[u] EXCEPT !.proc = "none"]
<1>1. /\ job' = job /\ gate' = gate /\ caller' = caller /\ flight' = flight /\ reserved' = reserved
      /\ scratch' = scratch
  BY DEF Dies, Reclaimed
<1>2. worker' = [worker EXCEPT ![u] = q]
  BY WorkerShape DEF Dies, Reclaimed
<1>3. /\ q = [f \in {"proc", "owed", "startup"} |-> q[f]] /\ q.startup = worker[u].startup
      /\ q.owed \in {<< >>, worker[u].owed}
  BY WorkerShape
<1> HIDE DEF q
<1>4. WorkersFit(worker') /\ worker'[u] = q /\ \A x \in Workers \ {u} : worker'[x] = worker[x]
  BY <1>2, <1>3, WorkerChanges
<1>5. \A x \in Workers : worker'[x].startup = worker[x].startup /\ worker'[x].owed \in {<< >>, worker[x].owed}
  BY <1>3, <1>4
<1>6. ProcessesFit(job, worker')
  BY <1>5 DEF ExtractInv, ProcessesFit
<1>7. AllowancesOf(worker') = AllowancesOf(worker)
  BY <1>5 DEF AllowancesOf
<1>8. MemoryFits(job, worker', reserved)
  BY <1>7 DEF ExtractInv, MemoryFits
<1> QED
  BY <1>1, <1>4, <1>6, <1>8 DEF ExtractInv

-----------------------------------------------------------------------------
(* Requests and flights.                                                   *)

\* A job that owns nothing becomes a record that owns nothing.
LEMMA FreshJob ==
    ASSUME NEW J, NEW G, NEW W, NEW m, JobsFit(J), PermitsFit(J, G), MemoryFits(J, W, m), ProcessesFit(J, W),
           NEW j \in Jobs, J[j].at \in {"none", "done"},
           NEW K, OneJob(J, K, j), JobFits(K[j]), K[j].at \in {"none", "new"}
    PROVE  JobsFit(K) /\ PermitsFit(K, G) /\ MemoryFits(K, W, m) /\ ProcessesFit(K, W)
<1>0. JobFits(J[j])
  BY DEF JobsFit
<1>2. Own(J[j]) = {} /\ Wait(J[j]) = {} /\ Own(K[j]) = {} /\ Wait(K[j]) = {}
  BY <1>0, JobOwns
<1>3. PermitsFit(K, G)
  <2>1. PermitsBut(J, j, Own(J[j]), Wait(J[j]), G)
    BY PermitsBefore
  <2> QED
    BY <1>2, <2>1, PermitsAfter
<1>4. JobsFit(K)
  BY JobsKept
<1>5. J[j].amount = 0 /\ K[j].amount = 0
  BY <1>0 DEF JobFits
<1>6. MemoryFits(K, W, m)
  <2>1. PICK u \in Workers : TRUE
    BY DEF Workers
  <2>2. W[u].startup \in Nat /\ m \in Nat /\ m <= High
    BY <2>1, MemoryBounds
  <2>3. K[j].amount \in Nat /\ m = m - J[j].amount + K[j].amount - W[u].startup + W[u].startup
    BY <1>5, <2>2
  <2> QED
    BY <2>1, <2>2, <2>3, MemoryChanges
<1>7. ProcessesFit(K, W)
  <2>1. \A v \in Workers : ~Starts(J[j], v) /\ ~Writes(J[j], v)
    BY DEF Starts, Writes
  <2> QED
    BY <2>1, ProcessesChange
<1> QED
  BY <1>3, <1>4, <1>6, <1>7

LEMMA FreshRecords ==
    /\ JobFits(NoJob) /\ NoJob.at = "none" /\ NoJob.asked = "no"
    /\ \A b \in BOOLEAN : JobFits(NewJob(b)) /\ NewJob(b).at = "new" /\ NewJob(b).asked = "no"
<1>1. ASSUME NEW r, r = [f \in JobFields |-> r[f]], r.at \in {"none", "new"}, r.asked = "no",
             r.stage = "download", r.then = "fail", r.permit = FALSE, r.permit \in BOOLEAN,
             r.rendered \in BOOLEAN, r.amount = 0, r.body = 0, r.result = 0
      PROVE  JobFits(r)
  <2>1. r.at \in Places /\ r.stage \in Gates /\ r.at \notin Busy
    BY <1>1 DEF Places, Gates, Busy
  <2> QED
    BY <1>1, <2>1 DEF JobFits
<1>2. /\ NoJob = [f \in JobFields |-> NoJob[f]] /\ NoJob.at = "none" /\ NoJob.asked = "no"
      /\ NoJob.stage = "download" /\ NoJob.then = "fail" /\ NoJob.permit = FALSE /\ NoJob.permit \in BOOLEAN
      /\ NoJob.rendered \in BOOLEAN /\ NoJob.amount = 0 /\ NoJob.body = 0 /\ NoJob.result = 0
  BY DEF NoJob, JobFields
<1>3. ASSUME NEW b \in BOOLEAN
      PROVE  JobFits(NewJob(b)) /\ NewJob(b).at = "new" /\ NewJob(b).asked = "no"
  <2> DEFINE r == NewJob(b)
  <2>1. r = [NoJob EXCEPT !.at = "new", !.rendered = b]
    BY DEF NewJob
  <2>2. /\ r = [f \in JobFields |-> r[f]] /\ r.at = "new" /\ r.asked = "no"
        /\ r.stage = "download" /\ r.then = "fail" /\ r.permit = FALSE /\ r.permit \in BOOLEAN
        /\ r.rendered \in BOOLEAN /\ r.amount = 0 /\ r.body = 0 /\ r.result = 0
    BY <1>2, <2>1 DEF JobFields
  <2> HIDE DEF r
  <2>3. JobFits(r)
    BY <1>1, <2>2
  <2> QED
    BY <2>2, <2>3 DEF r
<1> QED
  BY <1>1, <1>2, <1>3

CallerRecord(r) == r = [f \in {"at", "key", "got"} |-> r[f]]

OneCaller(C, D, c) ==
    /\ D = [d \in Callers |-> D[d]] /\ \A d \in Callers \ {c} : D[d] = C[d]
    /\ CallerRecord(D[c])

LEMMA CallerChanges ==
    ASSUME ExtractInv, NEW c \in Callers, NEW r, CallerRecord(r), caller' = [caller EXCEPT ![c] = r]
    PROVE  OneCaller(caller, caller', c) /\ caller'[c] = r
BY DEF ExtractInv, CallersFit, CallersShape, OneCaller

LEMMA CallerShape ==
    ASSUME ExtractInv, NEW c \in Callers
    PROVE  CallerRecord(caller[c]) /\ caller = [d \in Callers |-> caller[d]] /\ c \in Jobs
BY DEF ExtractInv, CallersFit, CallersShape, CallerRecord, Jobs

\* A caller goes on by itself: no flight changes.
LEMMA CallerAlone ==
    ASSUME NEW C, NEW F, NEW J, CallersFit(C, F, J), NEW c \in Callers, NEW D, OneCaller(C, D, c),
           NEW K, \A i \in Jobs \ {c} : K[i] = J[i],
           \/ D[c].at = C[c].at /\ D[c].key = C[c].key /\ K[c].at = J[c].at
           \/ C[c].at \notin {"shared", "settling"} /\ D[c].at \notin {"idle", "shared", "settling"}
    PROVE  CallersFit(D, F, K)
<1>1. /\ \A k \in Keys : k \in Jobs \ {c} /\ K[k] = J[k]
      /\ \A d \in Callers \ {c} : d \in Jobs \ {c} /\ K[d] = J[d] /\ D[d] = C[d]
  BY ExtractConstants DEF Jobs, OneCaller
<1>2. \A k \in Keys, d \in Callers :
         (D[d].at = "shared" /\ D[d].key = k) <=> (C[d].at = "shared" /\ C[d].key = k)
  BY <1>1
<1>3. \A k \in Keys : {d \in Callers : D[d].at = "shared" /\ D[d].key = k}
                        = {d \in Callers : C[d].at = "shared" /\ C[d].key = k}
  BY <1>2
<1>4. \A d \in Callers : CallerRecord(D[d])
  BY <1>1 DEF OneCaller, CallersFit, CallersShape, CallerRecord
<1>5. \A k \in DOMAIN F : k \in Keys
  BY DEF CallersFit, CallersShape
<1>6. ASSUME NEW d \in Callers
      PROVE  /\ D[d].at = "shared" => D[d].key \in DOMAIN F
             /\ D[d].at = "settling" => D[d].key \in DOMAIN F /\ F[D[d].key] = {}
             /\ D[d].at \in {"idle", "shared", "settling"} => K[d].at = "none"
             /\ D[d].at \in {"shared", "settling"} => D[d].at = C[d].at /\ D[d].key = C[d].key
  <2>1. CASE d = c
    BY <2>1 DEF CallersFit, CallsFit
  <2>2. CASE d # c
    BY <1>1, <2>2 DEF CallersFit, CallsFit
  <2> QED
    BY <2>1, <2>2
<1>7. ASSUME NEW d \in Callers, NEW e \in Callers, D[d].at = "settling", D[e].at = "settling",
             D[d].key = D[e].key
      PROVE  d = e
  BY <1>6, <1>7 DEF CallersFit, CallsFit
<1>8. /\ D = [d \in Callers |-> D[d]]
      /\ \A d \in Callers : D[d] = [f \in {"at", "key", "got"} |-> D[d][f]]
      /\ F = [k \in DOMAIN F |-> F[k]] /\ DOMAIN F \subseteq Keys
  BY <1>4 DEF CallersFit, CallersShape, OneCaller, CallerRecord
<1>9. \A k \in DOMAIN F :
         K[k].at # "none" /\ F[k] = {d \in Callers : D[d].at = "shared" /\ D[d].key = k}
  BY <1>1, <1>3, <1>5 DEF CallersFit, FlightsFit
<1>10. /\ \A k \in Keys \ DOMAIN F : K[k].at = "none"
       /\ \A k \in Keys : K[k].asked = "cancel" => k \in DOMAIN F /\ F[k] = {}
  BY <1>1 DEF CallersFit, FlightsFit
<1>11. CallersShape(D, F)
  BY <1>8 DEF CallersShape
<1>12. FlightsFit(D, F, K)
  BY <1>9, <1>10 DEF FlightsFit
<1>13. CallsFit(D, F, K)
  BY <1>6, <1>7 DEF CallsFit
<1> QED
  BY <1>11, <1>12, <1>13 DEF CallersFit

\* A caller and one key: its flight, which begins, changes or ends, and its work.
LEMMA CallerMoves ==
    ASSUME NEW C, NEW F, NEW J, CallersFit(C, F, J), NEW c \in Callers, NEW D, OneCaller(C, D, c),
           NEW k \in Keys, NEW E, E = [x \in DOMAIN E |-> E[x]], DOMAIN E \subseteq Keys,
           NEW K, \A i \in Jobs \ {c, k} : K[i] = J[i],
           \A x \in Keys \ {k} : (x \in DOMAIN E <=> x \in DOMAIN F) /\ (x \in DOMAIN F => E[x] = F[x]),
           C[c].at \in {"shared", "settling"} => C[c].key = k,
           D[c].at \in {"shared", "settling"} => D[c].key = k,
           k \in DOMAIN E => K[k].at # "none" /\ E[k] = {d \in Callers : D[d].at = "shared" /\ D[d].key = k},
           k \notin DOMAIN E =>
              K[k].at = "none" /\ \A d \in Callers : D[d].at \in {"shared", "settling"} => D[d].key # k,
           K[k].asked = "cancel" => k \in DOMAIN E /\ E[k] = {},
           \A d \in Callers : D[d].at = "settling" /\ D[d].key = k =>
              E[k] = {} /\ \A e \in Callers : D[e].at = "settling" /\ D[e].key = k => d = e,
           D[c].at \in {"idle", "shared", "settling"} => K[c].at = "none"
    PROVE  CallersFit(D, E, K)
<1>1. /\ \A x \in Keys \ {k} : x \in Jobs \ {c, k} /\ K[x] = J[x]
      /\ \A d \in Callers \ {c} : d \in Jobs \ {c, k} /\ K[d] = J[d] /\ D[d] = C[d]
  BY ExtractConstants DEF Jobs, OneCaller
<1>2. \A x \in Keys \ {k} : {d \in Callers : D[d].at = "shared" /\ D[d].key = x}
                              = {d \in Callers : C[d].at = "shared" /\ C[d].key = x}
  <2>1. \A x \in Keys \ {k}, d \in Callers :
           (D[d].at = "shared" /\ D[d].key = x) <=> (C[d].at = "shared" /\ C[d].key = x)
    BY <1>1
  <2> QED
    BY <2>1
<1>3. /\ D = [d \in Callers |-> D[d]]
      /\ \A d \in Callers : D[d] = [f \in {"at", "key", "got"} |-> D[d][f]]
  BY <1>1 DEF CallersFit, CallersShape, OneCaller, CallerRecord
<1>4. \A x \in DOMAIN E :
         K[x].at # "none" /\ E[x] = {d \in Callers : D[d].at = "shared" /\ D[d].key = x}
  <2> SUFFICES ASSUME NEW x \in DOMAIN E
               PROVE  K[x].at # "none" /\ E[x] = {d \in Callers : D[d].at = "shared" /\ D[d].key = x}
    OBVIOUS
  <2>1. CASE x = k
    BY <2>1
  <2>2. CASE x # k
    <3>1. x \in Keys \ {k} /\ x \in DOMAIN F /\ E[x] = F[x] /\ K[x] = J[x]
      BY <1>1, <2>2
    <3>2. J[x].at # "none" /\ F[x] = {d \in Callers : C[d].at = "shared" /\ C[d].key = x}
      BY <3>1 DEF CallersFit, FlightsFit
    <3> QED
      BY <1>2, <3>1, <3>2
  <2> QED
    BY <2>1, <2>2
<1>5. /\ \A x \in Keys \ DOMAIN E : K[x].at = "none"
      /\ \A x \in Keys : K[x].asked = "cancel" => x \in DOMAIN E /\ E[x] = {}
  <2> SUFFICES ASSUME NEW x \in Keys
               PROVE  /\ x \notin DOMAIN E => K[x].at = "none"
                      /\ K[x].asked = "cancel" => x \in DOMAIN E /\ E[x] = {}
    OBVIOUS
  <2>1. CASE x = k
    BY <2>1
  <2>2. CASE x # k
    BY <1>1, <2>2 DEF CallersFit, FlightsFit
  <2> QED
    BY <2>1, <2>2
<1>6. ASSUME NEW d \in Callers
      PROVE  /\ D[d].at = "shared" => D[d].key \in DOMAIN E
             /\ D[d].at = "settling" => D[d].key \in DOMAIN E /\ E[D[d].key] = {}
             /\ D[d].at \in {"idle", "shared", "settling"} => K[d].at = "none"
  <2>1. CASE d = c
    BY <2>1
  <2>2. CASE d # c
    <3>1. D[d] = C[d] /\ K[d] = J[d]
      BY <1>1, <2>2
    <3>2. CASE D[d].key = k
      BY <3>1, <3>2 DEF CallersFit, CallsFit
    <3>3. CASE D[d].key # k
      <4>1. /\ D[d].at = "shared" => D[d].key \in DOMAIN F
            /\ D[d].at = "settling" => D[d].key \in DOMAIN F /\ F[D[d].key] = {}
            /\ D[d].at \in {"idle", "shared", "settling"} => K[d].at = "none"
            /\ DOMAIN F \subseteq Keys
        BY <3>1 DEF CallersFit, CallersShape, CallsFit
      <4> QED
        BY <3>3, <4>1
    <3> QED
      BY <3>2, <3>3
  <2> QED
    BY <2>1, <2>2
<1>7. ASSUME NEW d \in Callers, NEW e \in Callers, D[d].at = "settling", D[e].at = "settling",
             D[e].key = D[d].key
      PROVE  d = e
  <2>1. CASE D[d].key = k
    BY <1>7, <2>1
  <2>2. CASE D[d].key # k
    <3>1. d # c /\ e # c
      BY <1>7, <2>2
    <3>2. D[d] = C[d] /\ D[e] = C[e]
      BY <1>1, <3>1
    <3> QED
      BY <1>7, <3>2 DEF CallersFit, CallsFit
  <2> QED
    BY <2>1, <2>2
<1>11. CallersShape(D, E)
  BY <1>3 DEF CallersShape
<1>12. FlightsFit(D, E, K)
  BY <1>4, <1>5 DEF FlightsFit
<1>13. CallsFit(D, E, K)
  BY <1>6, <1>7 DEF CallsFit
<1> QED
  BY <1>11, <1>12, <1>13 DEF CallersFit

LEMMA RequestOwnKeeps ==
    ASSUME ExtractInv, NEW c \in Callers, RequestOwn(c)
    PROVE  ExtractInv'
<1>1. PICK b \in BOOLEAN : job' = [job EXCEPT ![c] = NewJob(b)]
  BY DEF RequestOwn
<1>2. /\ caller[c].at = "idle" /\ caller' = [caller EXCEPT ![c].at = "own"]
      /\ flight' = flight /\ gate' = gate /\ worker' = worker /\ reserved' = reserved /\ scratch' = scratch
  BY DEF RequestOwn
<1>3. c \in Jobs /\ job[c].at = "none" /\ JobFits(NewJob(b)) /\ NewJob(b).at = "new"
  BY <1>1, <1>2, CallerShape, FreshRecords DEF ExtractInv, CallersFit, CallsFit
<1> DEFINE r == [caller[c] EXCEPT !.at = "own"]
<1>4. /\ caller' = [caller EXCEPT ![c] = r] /\ CallerRecord(r) /\ r.at = "own"
  BY <1>2, CallerShape DEF CallerRecord
<1> HIDE DEF r
<1>5. OneCaller(caller, caller', c) /\ caller'[c].at = "own"
  BY <1>4, CallerChanges
<1>6. /\ JobsFit(job') /\ PermitsFit(job', gate) /\ MemoryFits(job', worker, reserved)
      /\ ProcessesFit(job', worker) /\ OneJob(job, job', c)
  <2>1. OneJob(job, job', c) /\ job'[c] = NewJob(b)
    BY <1>1, <1>3, Facts DEF OneJob
  <2> QED
    BY <1>3, <2>1, FreshJob DEF ExtractInv
<1>7. CallersFit(caller', flight, job')
  <2>1. \A i \in Jobs \ {c} : job'[i] = job[i]
    BY <1>6 DEF OneJob
  <2>2. /\ caller[c].at \notin {"shared", "settling"}
        /\ caller'[c].at \notin {"idle", "shared", "settling"}
    BY <1>2, <1>5
  <2>3. CallersFit(caller, flight, job) /\ OneCaller(caller, caller', c)
    BY <1>5 DEF ExtractInv
  <2> QED
    BY <2>1, <2>2, <2>3, CallerAlone
<1> QED
  BY <1>2, <1>6, <1>7 DEF ExtractInv

LEMMA RequestSharedKeeps ==
    ASSUME ExtractInv, NEW c \in Callers, NEW k \in Keys, RequestShared(c, k)
    PROVE  ExtractInv'
<1>0. /\ CallerRecord(caller[c]) /\ caller = [d \in Callers |-> caller[d]] /\ k \in Jobs /\ c \in Jobs /\ c # k
      /\ DOMAIN flight \subseteq Keys /\ flight = [x \in DOMAIN flight |-> flight[x]]
  BY CallerShape, ExtractConstants DEF Jobs, ExtractInv, CallersFit, CallersShape
<1>1. /\ caller[c].at = "idle" /\ gate' = gate /\ worker' = worker /\ reserved' = reserved /\ scratch' = scratch
      /\ job[c].at = "none"
  <2>1. caller[c].at = "idle" /\ gate' = gate /\ worker' = worker /\ reserved' = reserved /\ scratch' = scratch
    BY DEF RequestShared
  <2> QED
    BY <2>1 DEF ExtractInv, CallersFit, CallsFit
<1>3. CASE /\ k \notin DOMAIN flight
           /\ flight' = [x \in DOMAIN flight \cup {k} |-> IF x = k THEN {c} ELSE flight[x]]
           /\ job' = [job EXCEPT ![k] = NewJob(FALSE)]
           /\ caller' = [caller EXCEPT ![c].at = "shared", ![c].key = k]
  <2>1. /\ job[k].at = "none" /\ JobFits(NewJob(FALSE)) /\ NewJob(FALSE).at = "new" /\ NewJob(FALSE).asked = "no"
    BY <1>3, FreshRecords DEF ExtractInv, CallersFit, FlightsFit
  <2>2. /\ JobsFit(job') /\ PermitsFit(job', gate) /\ MemoryFits(job', worker, reserved)
        /\ ProcessesFit(job', worker) /\ OneJob(job, job', k) /\ job'[k] = NewJob(FALSE)
    <3>1. OneJob(job, job', k) /\ job'[k] = NewJob(FALSE)
      BY <1>0, <1>3, Facts DEF OneJob
    <3>2. JobsFit(job) /\ PermitsFit(job, gate) /\ MemoryFits(job, worker, reserved) /\ ProcessesFit(job, worker)
      BY DEF ExtractInv
    <3>3. /\ JobsFit(job') /\ PermitsFit(job', gate) /\ MemoryFits(job', worker, reserved)
          /\ ProcessesFit(job', worker)
      BY <1>0, <2>1, <3>1, <3>2, FreshJob
    <3> QED
      BY <3>1, <3>3
  <2>3. OneCaller(caller, caller', c) /\ caller'[c].at = "shared" /\ caller'[c].key = k
    <3> DEFINE r == [caller[c] EXCEPT !.at = "shared", !.key = k]
    <3>1. caller' = [caller EXCEPT ![c] = r] /\ CallerRecord(r) /\ r.at = "shared" /\ r.key = k
      BY <1>0, <1>3 DEF CallerRecord
    <3> HIDE DEF r
    <3> QED
      BY <3>1, CallerChanges
  <2>4. \A d \in Callers \ {c} : caller'[d] = caller[d] /\ (caller[d].at \in {"shared", "settling"} => caller[d].key # k)
    BY <1>3, <2>3 DEF OneCaller, ExtractInv, CallersFit, CallsFit
  <2>5. {d \in Callers : caller'[d].at = "shared" /\ caller'[d].key = k} = {c}
    BY <2>3, <2>4
  <2>6. /\ k \in DOMAIN flight' /\ flight'[k] = {c} /\ DOMAIN flight' \subseteq Keys
        /\ flight' = [x \in DOMAIN flight' |-> flight'[x]]
        /\ \A x \in Keys \ {k} : (x \in DOMAIN flight' <=> x \in DOMAIN flight)
                                 /\ (x \in DOMAIN flight => flight'[x] = flight[x])
    BY <1>0, <1>3
  <2>7. /\ \A i \in Jobs \ {c, k} : job'[i] = job[i]
        /\ job'[c].at = "none" /\ job'[k].at = "new" /\ job'[k].asked = "no"
    BY <1>0, <1>1, <2>1, <2>2 DEF OneJob
  <2>8. CallersFit(caller', flight', job')
    <3>1. \A d \in Callers : ~(caller'[d].at = "settling" /\ caller'[d].key = k)
      BY <2>3, <2>4
    <3> QED
      BY <1>1, <2>3, <2>5, <2>6, <2>7, <3>1, CallerMoves DEF ExtractInv
  <2> QED
    BY <1>1, <2>2, <2>8 DEF ExtractInv
<1>4. CASE /\ k \in DOMAIN flight
           /\ MayJoin(k)
           /\ flight' = [flight EXCEPT ![k] = flight[k] \cup {c}]
           /\ caller' = [caller EXCEPT ![c].at = "shared", ![c].key = k]
           /\ job' = job
  <2>3. OneCaller(caller, caller', c) /\ caller'[c].at = "shared" /\ caller'[c].key = k
    <3> DEFINE r == [caller[c] EXCEPT !.at = "shared", !.key = k]
    <3>1. caller' = [caller EXCEPT ![c] = r] /\ CallerRecord(r) /\ r.at = "shared" /\ r.key = k
      BY <1>0, <1>4 DEF CallerRecord
    <3> HIDE DEF r
    <3> QED
      BY <3>1, CallerChanges
  <2>4. \A d \in Callers \ {c} : caller'[d] = caller[d]
    BY <2>3 DEF OneCaller
  <2>5. /\ flight[k] # {} /\ flight[k] = {d \in Callers : caller[d].at = "shared" /\ caller[d].key = k}
        /\ job[k].at # "none" /\ job[k].asked # "cancel"
        /\ \A d \in Callers : ~(caller[d].at = "settling" /\ caller[d].key = k)
    BY <1>4 DEF ExtractInv, CallersFit, FlightsFit, CallsFit, MayJoin
  <2>6. /\ k \in DOMAIN flight' /\ flight'[k] = flight[k] \cup {c} /\ DOMAIN flight' \subseteq Keys
        /\ flight' = [x \in DOMAIN flight' |-> flight'[x]]
        /\ \A x \in Keys \ {k} : (x \in DOMAIN flight' <=> x \in DOMAIN flight)
                                 /\ (x \in DOMAIN flight => flight'[x] = flight[x])
    BY <1>0, <1>4
  <2>7. flight'[k] = {d \in Callers : caller'[d].at = "shared" /\ caller'[d].key = k}
    BY <1>1, <2>3, <2>4, <2>5, <2>6
  <2>8. CallersFit(caller', flight', job')
    <3>1. \A d \in Callers : ~(caller'[d].at = "settling" /\ caller'[d].key = k)
      BY <2>3, <2>4, <2>5
    <3>2. /\ \A i \in Jobs \ {c, k} : job'[i] = job[i]
          /\ job'[k].at # "none" /\ job'[k].asked # "cancel" /\ job'[c].at = "none"
      BY <1>1, <1>4, <2>5
    <3>3. CallersFit(caller, flight, job) /\ caller[c].at \notin {"shared", "settling"}
      BY <1>1 DEF ExtractInv
    <3> QED
      BY <2>3, <2>6, <2>7, <3>1, <3>2, <3>3, CallerMoves
  <2> QED
    BY <1>1, <1>4, <2>8 DEF ExtractInv
<1>5. CASE /\ caller' = [caller EXCEPT ![c].at = "done", ![c].got = "fail"]
           /\ flight' = flight /\ job' = job
  <2>1. OneCaller(caller, caller', c) /\ caller'[c].at = "done"
    <3> DEFINE r == [caller[c] EXCEPT !.at = "done", !.got = "fail"]
    <3>1. caller' = [caller EXCEPT ![c] = r] /\ CallerRecord(r) /\ r.at = "done"
      BY <1>0, <1>5 DEF CallerRecord
    <3> HIDE DEF r
    <3> QED
      BY <3>1, CallerChanges
  <2>2. CallersFit(caller', flight, job)
    BY <1>1, <2>1, CallerAlone DEF ExtractInv
  <2> QED
    BY <1>1, <1>5, <2>2 DEF ExtractInv
<1> QED
  BY <1>3, <1>4, <1>5 DEF RequestShared

\* What a caller does after the shared work.  J: the jobs before.
LEMMA ContinuesFits ==
    ASSUME ExtractInv, NEW c \in Callers, NEW got, NEW J, Continues(c, got, J),
           JobsFit(J), PermitsFit(J, gate), MemoryFits(J, worker, reserved), ProcessesFit(J, worker),
           J[c].at \in {"none", "done"}
    PROVE  /\ JobsFit(job') /\ PermitsFit(job', gate) /\ MemoryFits(job', worker, reserved)
           /\ ProcessesFit(job', worker)
           /\ \A i \in Jobs \ {c} : job'[i] = J[i]
           /\ OneCaller(caller, caller', c) /\ caller'[c].at \in {"own", "done"}
<1>0. CallerRecord(caller[c]) /\ caller = [d \in Callers |-> caller[d]] /\ c \in Jobs
  BY CallerShape
<1>1. CASE got = "render"
  <2> DEFINE r == [caller[c] EXCEPT !.at = "own", !.got = "none"]
  <2>1. caller' = [caller EXCEPT ![c] = r] /\ CallerRecord(r) /\ r.at = "own"
    BY <1>0, <1>1 DEF Continues, CallerRecord
  <2> HIDE DEF r
  <2>2. OneCaller(caller, caller', c) /\ caller'[c].at = "own"
    BY <2>1, CallerChanges
  <2>3. OneJob(J, job', c) /\ job'[c] = NewJob(TRUE)
    BY <1>0, <1>1 DEF Continues, OneJob, JobsFit
  <2>4. JobFits(NewJob(TRUE)) /\ NewJob(TRUE).at = "new"
    BY FreshRecords
  <2>5. /\ JobsFit(job') /\ PermitsFit(job', gate) /\ MemoryFits(job', worker, reserved)
        /\ ProcessesFit(job', worker)
    BY <1>0, <2>3, <2>4, FreshJob
  <2>6. \A i \in Jobs \ {c} : job'[i] = J[i]
    BY <2>3 DEF OneJob
  <2> QED
    BY <2>2, <2>5, <2>6
<1>2. CASE got # "render"
  <2> DEFINE r == [caller[c] EXCEPT !.at = "done", !.got = got]
  <2>1. caller' = [caller EXCEPT ![c] = r] /\ CallerRecord(r) /\ r.at = "done"
    BY <1>0, <1>2 DEF Continues, CallerRecord
  <2> HIDE DEF r
  <2>2. OneCaller(caller, caller', c) /\ caller'[c].at = "done"
    BY <2>1, CallerChanges
  <2>3. job' = J
    BY <1>2 DEF Continues
  <2> QED
    BY <2>2, <2>3
<1> QED
  BY <1>1, <1>2

\* Who departs takes its place with it, and cancels the work that nobody waits for any more.
LEMMA DepartsKeeps ==
    ASSUME ExtractInv, NEW c \in Callers, NEW got, caller[c].at = "shared", Departs(c, got)
    PROVE  ExtractInv'
<1> DEFINE k == caller[c].key
           left == flight[k] \ {c}
<1>0. /\ worker' = worker /\ reserved' = reserved /\ scratch' = scratch
      /\ flight' = [flight EXCEPT ![k] = left]
  BY DEF Departs
<1>1. /\ JobsFit(job) /\ PermitsFit(job, gate) /\ MemoryFits(job, worker, reserved) /\ ProcessesFit(job, worker)
      /\ CallersFit(caller, flight, job) /\ WorkersFit(worker) /\ scratch \in Int /\ scratch <= MaxScratch
  BY DEF ExtractInv
<1>2. /\ k \in DOMAIN flight /\ k \in Keys /\ k \in Jobs /\ c # k /\ c \in Jobs /\ job[c].at = "none"
      /\ DOMAIN flight \subseteq Keys /\ flight = [x \in DOMAIN flight |-> flight[x]]
      /\ CallerRecord(caller[c]) /\ caller = [d \in Callers |-> caller[d]]
  <2>1. k \in DOMAIN flight /\ job[c].at = "none"
    BY DEF ExtractInv, CallersFit, CallsFit
  <2>2. DOMAIN flight \subseteq Keys /\ flight = [x \in DOMAIN flight |-> flight[x]]
    BY DEF ExtractInv, CallersFit, CallersShape
  <2>3. k \in Keys
    BY <2>1, <2>2
  <2> QED
    BY <2>1, <2>2, <2>3, CallerShape, ExtractConstants DEF Jobs
<1>3. /\ k \in DOMAIN flight' /\ flight'[k] = left /\ DOMAIN flight' \subseteq Keys
      /\ flight' = [x \in DOMAIN flight' |-> flight'[x]]
      /\ \A x \in Keys \ {k} : (x \in DOMAIN flight' <=> x \in DOMAIN flight)
                               /\ (x \in DOMAIN flight => flight'[x] = flight[x])
  <2> HIDE DEF k, left
  <2> QED
    BY <1>0, <1>2
<1>4. /\ flight[k] = {d \in Callers : caller[d].at = "shared" /\ caller[d].key = k}
      /\ job[k].at # "none" /\ (job[k].asked = "cancel" => flight[k] = {})
  BY <1>2 DEF ExtractInv, CallersFit, FlightsFit
<1>5. /\ c \in flight[k] /\ job[k].asked # "cancel"
      /\ \A d \in Callers : ~(caller[d].at = "settling" /\ caller[d].key = k)
  <2>1. c \in flight[k]
    BY <1>4
  <2> QED
    BY <1>4, <2>1 DEF ExtractInv, CallersFit, CallsFit
<1>6. CASE left # {} /\ Continues(c, got, job) /\ gate' = gate
  <2>1. /\ JobsFit(job') /\ PermitsFit(job', gate) /\ MemoryFits(job', worker, reserved)
        /\ ProcessesFit(job', worker)
        /\ \A i \in Jobs \ {c} : job'[i] = job[i]
        /\ OneCaller(caller, caller', c) /\ caller'[c].at \in {"own", "done"}
    BY <1>1, <1>2, <1>6, ContinuesFits
  <2>2. \A d \in Callers \ {c} : caller'[d] = caller[d]
    BY <2>1 DEF OneCaller
  <2>3. left = {d \in Callers : caller'[d].at = "shared" /\ caller'[d].key = k}
    BY <1>4, <2>1, <2>2
  <2>4. \A d \in Callers : ~(caller'[d].at = "settling" /\ caller'[d].key = k)
    BY <1>5, <2>1, <2>2
  <2>5. /\ \A i \in Jobs \ {c, k} : job'[i] = job[i]
        /\ job'[k].at # "none" /\ job'[k].asked # "cancel"
    BY <1>2, <1>4, <1>5, <2>1
  <2>6. /\ caller[c].at \in {"shared", "settling"} => caller[c].key = k
        /\ caller'[c].at \notin {"idle", "shared", "settling"}
    BY <2>1
  <2> HIDE DEF k, left
  <2>7. CallersFit(caller', flight', job')
    BY <1>1, <1>2, <1>3, <2>1, <2>3, <2>4, <2>5, <2>6, CallerMoves
  <2> QED
    BY <1>0, <1>1, <1>6, <2>1, <2>7 DEF ExtractInv
<1>7. CASE /\ left = {} /\ job' = Cancelled(job, k, "cancel") /\ gate' = CancelledWait(k)
           /\ caller' = [caller EXCEPT ![c].at = "settling", ![c].got = got]
  <2>1. /\ JobsFit(job') /\ PermitsFit(job', gate') /\ MemoryFits(job', worker, reserved)
        /\ ProcessesFit(job', worker) /\ OneJob(job, job', k) /\ job'[k].at = job[k].at
    BY <1>2, <1>7, CancelledFits
  <2>2. OneCaller(caller, caller', c) /\ caller'[c].at = "settling" /\ caller'[c].key = k
    <3> DEFINE r == [caller[c] EXCEPT !.at = "settling", !.got = got]
    <3>1. caller' = [caller EXCEPT ![c] = r] /\ CallerRecord(r) /\ r.at = "settling" /\ r.key = k
      BY <1>2, <1>7 DEF CallerRecord
    <3> HIDE DEF r
    <3> QED
      BY <3>1, CallerChanges
  <2>3. \A d \in Callers \ {c} : caller'[d] = caller[d]
    BY <2>2 DEF OneCaller
  <2>4. left = {d \in Callers : caller'[d].at = "shared" /\ caller'[d].key = k}
    BY <1>4, <2>2, <2>3
  <2>5. /\ \A i \in Jobs \ {c, k} : job'[i] = job[i]
        /\ job'[k].at # "none" /\ job'[c].at = "none"
    BY <1>2, <1>4, <2>1 DEF OneJob
  <2>6. \A d \in Callers : caller'[d].at = "settling" /\ caller'[d].key = k => d = c
    BY <1>5, <2>3
  <2>7. flight'[k] = {}
    BY <1>3, <1>7
  <2>8. CallersFit(caller', flight', job')
    <3>1. /\ caller[c].at \in {"shared", "settling"} => caller[c].key = k
          /\ flight'[k] = {d \in Callers : caller'[d].at = "shared" /\ caller'[d].key = k}
      BY <1>3, <2>4
    <3> HIDE DEF k, left
    <3> QED
      BY <1>1, <1>2, <1>3, <2>2, <2>5, <2>6, <2>7, <3>1, CallerMoves
  <2> QED
    BY <1>0, <1>1, <2>1, <2>8 DEF ExtractInv
<1> QED
  BY <1>6, <1>7 DEF Departs

\* The key is freed with the work that has ended, and the caller goes on.
LEMMA SettledKeeps ==
    ASSUME ExtractInv, NEW c \in Callers, Settled(c)
    PROVE  ExtractInv'
<1> DEFINE k == caller[c].key
           M == [job EXCEPT ![k] = NoJob]
<1>0. /\ caller[c].at = "settling" /\ job[k].at = "done"
      /\ flight' = [x \in DOMAIN flight \ {k} |-> flight[x]]
      /\ Continues(c, caller[c].got, M)
      /\ gate' = gate /\ worker' = worker /\ reserved' = reserved /\ scratch' = scratch
  BY DEF Settled
<1>1. /\ JobsFit(job) /\ PermitsFit(job, gate) /\ MemoryFits(job, worker, reserved) /\ ProcessesFit(job, worker)
      /\ CallersFit(caller, flight, job) /\ WorkersFit(worker) /\ scratch \in Int /\ scratch <= MaxScratch
      /\ job = [i \in Jobs |-> job[i]]
  BY DEF ExtractInv, JobsFit
<1>2. /\ k \in DOMAIN flight /\ k \in Keys /\ k \in Jobs /\ c # k /\ c \in Jobs /\ job[c].at = "none"
      /\ DOMAIN flight \subseteq Keys /\ flight = [x \in DOMAIN flight |-> flight[x]]
      /\ flight[k] = {}
  <2>1. k \in DOMAIN flight /\ job[c].at = "none" /\ flight[k] = {}
    BY <1>0 DEF ExtractInv, CallersFit, CallsFit
  <2>2. DOMAIN flight \subseteq Keys /\ flight = [x \in DOMAIN flight |-> flight[x]]
    BY DEF ExtractInv, CallersFit, CallersShape
  <2>3. k \in Keys
    BY <2>1, <2>2
  <2> QED
    BY <2>1, <2>2, <2>3, ExtractConstants DEF Jobs
<1>3. /\ k \notin DOMAIN flight' /\ DOMAIN flight' \subseteq Keys
      /\ flight' = [x \in DOMAIN flight' |-> flight'[x]]
      /\ \A x \in Keys \ {k} : (x \in DOMAIN flight' <=> x \in DOMAIN flight)
                               /\ (x \in DOMAIN flight => flight'[x] = flight[x])
  <2> HIDE DEF k
  <2> QED
    BY <1>0, <1>2
<1>4. OneJob(job, M, k) /\ M[k] = NoJob
  BY <1>1, <1>2 DEF OneJob
<1> HIDE DEF M
<1>5. JobsFit(M) /\ PermitsFit(M, gate) /\ MemoryFits(M, worker, reserved) /\ ProcessesFit(M, worker)
  BY <1>0, <1>1, <1>2, <1>4, FreshRecords, FreshJob
<1>6. /\ \A i \in Jobs \ {k} : M[i] = job[i]
      /\ M[c].at = "none" /\ M[k].at = "none" /\ M[k].asked = "no"
  BY <1>2, <1>4, FreshRecords DEF OneJob
<1>7. /\ JobsFit(job') /\ PermitsFit(job', gate) /\ MemoryFits(job', worker, reserved)
      /\ ProcessesFit(job', worker)
      /\ \A i \in Jobs \ {c} : job'[i] = M[i]
      /\ OneCaller(caller, caller', c) /\ caller'[c].at \in {"own", "done"}
  BY <1>0, <1>5, <1>6, ContinuesFits
<1>8. \A d \in Callers \ {c} : caller'[d] = caller[d]
  BY <1>7 DEF OneCaller
<1>9. \A d \in Callers : caller'[d].at \in {"shared", "settling"} => caller'[d].key # k
  <2>1. flight[k] = {d \in Callers : caller[d].at = "shared" /\ caller[d].key = k}
    BY <1>2 DEF ExtractInv, CallersFit, FlightsFit
  <2>2. \A d \in Callers : ~(caller[d].at = "shared" /\ caller[d].key = k)
    BY <1>2, <2>1
  <2>3. \A d \in Callers : caller[d].at = "settling" /\ caller[d].key = k => c = d
    BY <1>0 DEF ExtractInv, CallersFit, CallsFit
  <2> QED
    BY <1>7, <1>8, <2>2, <2>3
<1>10. /\ \A i \in Jobs \ {c, k} : job'[i] = job[i]
       /\ job'[k].at = "none" /\ job'[k].asked # "cancel"
  BY <1>2, <1>6, <1>7
<1>11. CallersFit(caller', flight', job')
  <2>1. /\ caller[c].at \in {"shared", "settling"} => caller[c].key = k
        /\ caller'[c].at \notin {"idle", "shared", "settling"}
        /\ \A d \in Callers : ~(caller'[d].at = "settling" /\ caller'[d].key = k)
    BY <1>7, <1>9
  <2> HIDE DEF k
  <2> QED
    BY <1>1, <1>2, <1>3, <1>7, <1>9, <1>10, <2>1, CallerMoves
<1> QED
  BY <1>0, <1>1, <1>7, <1>11 DEF ExtractInv

LEMMA LeaveKeeps ==
    ASSUME ExtractInv, NEW c \in Callers, Leave(c)
    PROVE  ExtractInv'
<1>0. CallerRecord(caller[c]) /\ caller = [d \in Callers |-> caller[d]] /\ c \in Jobs
      /\ CallersFit(caller, flight, job)
  BY CallerShape DEF ExtractInv
<1> DEFINE r == [caller[c] EXCEPT !.got = "left"]
<1>1. CallerRecord(r) /\ r.at = caller[c].at /\ r.key = caller[c].key
  BY <1>0 DEF CallerRecord
<1> HIDE DEF r
<1>2. ASSUME caller' = [caller EXCEPT ![c] = r]
      PROVE  /\ OneCaller(caller, caller', c) /\ caller'[c].at = caller[c].at
             /\ caller'[c].key = caller[c].key
  BY <1>1, <1>2, CallerChanges
<1>3. CASE caller[c].at = "shared" /\ Departs(c, "left")
  BY <1>3, DepartsKeeps
<1>4. CASE /\ caller[c].at = "settling"
           /\ caller' = [caller EXCEPT ![c].got = "left"]
           /\ UNCHANGED <<flight, job, gate, worker, reserved, scratch, kills>>
  <2>1. caller' = [caller EXCEPT ![c] = r]
    BY <1>0, <1>4 DEF r
  <2>2. CallersFit(caller', flight, job)
    BY <1>0, <1>2, <2>1, CallerAlone
  <2> QED
    BY <1>4, <2>2 DEF ExtractInv
<1>5. CASE /\ caller[c].at = "own"
           /\ caller' = [caller EXCEPT ![c].got = "left"]
           /\ job' = Cancelled(job, c, "cancel")
           /\ gate' = CancelledWait(c)
           /\ UNCHANGED <<flight, worker, reserved, scratch, kills>>
  <2>1. caller' = [caller EXCEPT ![c] = r]
    BY <1>0, <1>5 DEF r
  <2>2. /\ JobsFit(job') /\ PermitsFit(job', gate') /\ MemoryFits(job', worker, reserved)
        /\ ProcessesFit(job', worker) /\ OneJob(job, job', c) /\ job'[c].at = job[c].at
    BY <1>0, <1>5, CancelledFits
  <2>3. CallersFit(caller', flight, job')
    <3>1. \A i \in Jobs \ {c} : job'[i] = job[i]
      BY <2>2 DEF OneJob
    <3> QED
      BY <1>0, <1>2, <2>1, <2>2, <3>1, CallerAlone
  <2> QED
    BY <1>5, <2>2, <2>3 DEF ExtractInv
<1> QED
  BY <1>3, <1>4, <1>5 DEF Leave

LEMMA OwnEndsKeeps ==
    ASSUME ExtractInv, NEW c \in Callers, OwnEnds(c)
    PROVE  ExtractInv'
<1>1. PICK got : Continues(c, got, job)
  BY DEF OwnEnds
<1>2. /\ caller[c].at = "own" /\ job[c].at = "done" /\ flight' = flight /\ gate' = gate
      /\ worker' = worker /\ reserved' = reserved /\ scratch' = scratch
  BY DEF OwnEnds
<1>3. /\ JobsFit(job) /\ PermitsFit(job, gate) /\ MemoryFits(job, worker, reserved) /\ ProcessesFit(job, worker)
      /\ CallersFit(caller, flight, job)
  BY DEF ExtractInv
<1>4. /\ JobsFit(job') /\ PermitsFit(job', gate) /\ MemoryFits(job', worker, reserved)
      /\ ProcessesFit(job', worker)
      /\ \A i \in Jobs \ {c} : job'[i] = job[i]
      /\ OneCaller(caller, caller', c) /\ caller'[c].at \in {"own", "done"}
  BY <1>1, <1>2, <1>3, ContinuesFits
<1>5. CallersFit(caller', flight, job')
  <2>1. /\ caller[c].at \notin {"shared", "settling"}
        /\ caller'[c].at \notin {"idle", "shared", "settling"}
    BY <1>2, <1>4
  <2> QED
    BY <1>3, <1>4, <2>1, CallerAlone
<1> QED
  BY <1>2, <1>4, <1>5 DEF ExtractInv

-----------------------------------------------------------------------------
(* The invariant holds, and what follows from it.                          *)

\* Who holds nothing is accounted nothing.
LEMMA NothingHeld ==
    ASSUME NEW D, NEW f, f = [d \in D |-> 0]
    PROVE  f \in [D -> 0..High] /\ Cardinality(Held(f)) = 0
<1>1. High \in Nat
  BY ExtractConstants
<1>2. Held(f) = {}
  <2>1. ASSUME NEW u \in Held(f) PROVE FALSE
    <3>1. u \in (DOMAIN f) \X (1..High) /\ u[2] <= f[u[1]]
      BY <2>1 DEF Held
    <3>2. f[u[1]] = 0 /\ u[2] \in 1..High
      BY <3>1
    <3> QED
      BY <1>1, <3>1, <3>2
  <2> QED
    BY <2>1
<1> QED
  BY <1>1, <1>2, FS_EmptySet

LEMMA InitInv ==
    ASSUME Init
    PROVE  ExtractInv
<1>1. /\ job = [j \in Jobs |-> NoJob] /\ flight = << >> /\ reserved = 0 /\ scratch = 0
      /\ caller = [c \in Callers |-> [at |-> "idle", key |-> CHOOSE k \in Keys : TRUE, got |-> "none"]]
      /\ gate = [g \in Gates |-> [active |-> 0, queue |-> << >>, granted |-> {}, cancelled |-> {}]]
      /\ worker = [w \in Workers |-> [NoProcess EXCEPT !.proc = "ready"]]
  BY DEF Init
<1>2. \A j \in Jobs : JobFits(job[j]) /\ job[j].at = "none" /\ job[j].asked = "no" /\ job[j] = NoJob
  BY <1>1, FreshRecords
<1>3. JobsFit(job)
  BY <1>1, <1>2 DEF JobsFit
<1>4. PermitsFit(job, gate)
  <2>1. \A j \in Jobs : Own(job[j]) = {} /\ Wait(job[j]) = {}
    BY <1>2, JobOwns
  <2>2. ASSUME NEW g \in Gates
        PROVE  GateFits(gate[g], Slots[g], {i \in Jobs : g \in Own(job[i])}, {i \in Jobs : g \in Wait(job[i])})
    <3>1. {i \in Jobs : g \in Own(job[i])} = {} /\ {i \in Jobs : g \in Wait(job[i])} = {}
      BY <2>1
    <3>2. /\ GateRecord(gate[g]) /\ gate[g].active = 0 /\ gate[g].queue = << >> /\ gate[g].granted = {}
      BY <1>1 DEF GateRecord
    <3>3. << >> \in Seq({}) /\ Len(<< >>) = 0 /\ Slots[g] \in Nat
      BY SlotsType
    <3>4. IsFiniteSet({}) /\ Cardinality({}) = 0
      BY FS_EmptySet
    <3>5. GateFits(gate[g], Slots[g], {}, {})
      BY <3>2, <3>3, <3>4 DEF GateFits
    <3> QED
      BY <3>1, <3>5
  <2> QED
    BY <1>1, <2>2 DEF PermitsFit
<1>5. /\ WorkersFit(worker) /\ \A u \in Workers : worker[u].startup = 0 /\ worker[u].owed = << >>
  BY <1>1 DEF WorkersFit, NoProcess
<1>6. MemoryFits(job, worker, reserved)
  <2>1. EnvelopesOf(job) = [j \in Jobs |-> 0]
    <3>1. \A j \in Jobs : job[j].amount = 0
      BY <1>2 DEF JobFits
    <3> QED
      BY <3>1 DEF EnvelopesOf
  <2>2. AllowancesOf(worker) = [u \in Workers |-> 0]
    BY <1>5 DEF AllowancesOf
  <2>3. High \in Nat
    BY ExtractConstants
  <2> QED
    <3> DEFINE e == EnvelopesOf(job)
               a == AllowancesOf(worker)
    <3>1. e = [j \in Jobs |-> 0] /\ a = [u \in Workers |-> 0]
      BY <2>1, <2>2
    <3> HIDE DEF e, a
    <3>2. e \in [Jobs -> 0..High] /\ Cardinality(Held(e)) = 0
      BY <3>1, NothingHeld
    <3>3. a \in [Workers -> 0..High] /\ Cardinality(Held(a)) = 0
      BY <3>1, NothingHeld
    <3>4. reserved = Cardinality(Held(e)) + Cardinality(Held(a)) /\ reserved <= High
      BY <1>1, <2>3, <3>2, <3>3
    <3> QED
      BY <3>2, <3>3, <3>4 DEF MemoryFits, e, a
<1>7. ProcessesFit(job, worker)
  BY <1>5 DEF ProcessesFit
<1>8. CallersFit(caller, flight, job)
  <2>1. Keys \subseteq Jobs /\ Callers \subseteq Jobs /\ DOMAIN flight = {}
    BY <1>1 DEF Jobs
  <2>2. \A c \in Callers : caller[c].at = "idle" /\ caller[c] = [f \in {"at", "key", "got"} |-> caller[c][f]]
    BY <1>1
  <2>3. CallersShape(caller, flight)
    BY <1>1, <2>1, <2>2 DEF CallersShape
  <2>4. FlightsFit(caller, flight, job)
    BY <1>2, <2>1 DEF FlightsFit
  <2>5. CallsFit(caller, flight, job)
    BY <1>2, <2>1, <2>2 DEF CallsFit
  <2> QED
    BY <2>3, <2>4, <2>5 DEF CallersFit
<1>9. scratch \in Int /\ scratch <= MaxScratch
  BY <1>1, ExtractConstants
<1> QED
  BY <1>3, <1>4, <1>5, <1>6, <1>7, <1>8, <1>9 DEF ExtractInv

LEMMA NextInv ==
    ASSUME ExtractInv, [Next]_vars
    PROVE  ExtractInv'
<1>1. CASE UNCHANGED vars
  BY <1>1 DEF vars, ExtractInv
<1>2. ASSUME NEW j \in Jobs, Runs(j) PROVE ExtractInv'
  <2>1. CASE Interrupted(j)
    BY <2>1, NotAdmittedKeeps, ResultLostKeeps, FetchFailsKeeps, StartFailsKeeps, CallFailsKeeps DEF Interrupted
  <2>2. CASE ~Interrupted(j)
    BY <1>2, <2>2, BeginKeeps, GrantedKeeps, StartFetchKeeps, ReapDeadKeeps, StartWorkerKeeps,
       DispatchKeeps, NotPreparedKeeps, PressuredKeeps, RecoverEndsKeeps, StopEndsKeeps,
       ParsedKeeps, RenderedKeeps DEF Runs
  <2> QED
    BY <2>1, <2>2
<1>3. ASSUME NEW j \in Jobs,
             \/ TimesOut(j) \/ ReadBody(j) \/ RetryFetch(j) \/ FetchFails(j) \/ CloseConnector(j)
             \/ Fetched(j) \/ WorkerReady(j) \/ ReadReply(j)
      PROVE  ExtractInv'
  BY <1>3, TimesOutKeeps, ReadBodyKeeps, RetryFetchKeeps, FetchFailsKeeps, CloseConnectorKeeps,
     FetchedKeeps, WorkerReadyKeeps, ReadReplyKeeps
<1>4. ASSUME NEW w \in Workers, Dies(w) \/ Reclaimed(w) PROVE ExtractInv'
  BY <1>4, WorkersKeep
<1>5. ASSUME NEW c \in Callers, RequestOwn(c) \/ Resumes(c) \/ Leave(c) PROVE ExtractInv'
  <2>1. CASE RequestOwn(c)
    BY <2>1, RequestOwnKeeps
  <2>2. CASE SharedEnds(c)
    <3>1. caller[c].at = "shared" /\ Departs(c, job[caller[c].key].out)
      BY <2>2 DEF SharedEnds
    <3> QED
      BY <3>1, DepartsKeeps
  <2>3. CASE Settled(c)
    BY <2>3, SettledKeeps
  <2>4. CASE OwnEnds(c)
    BY <2>4, OwnEndsKeeps
  <2>5. CASE Leave(c)
    BY <2>5, LeaveKeeps
  <2> QED
    BY <1>5, <2>1, <2>2, <2>3, <2>4, <2>5 DEF Resumes
<1>6. ASSUME NEW c \in Callers, NEW k \in Keys, RequestShared(c, k) PROVE ExtractInv'
  BY <1>6, RequestSharedKeeps
<1> QED
  BY <1>1, <1>2, <1>3, <1>4, <1>5, <1>6 DEF Next

LEMMA ResourcesFollow ==
    ASSUME ExtractInv
    PROVE  ResourcesAreBalanced
<1>1. MemoryIsBalanced
  <2>1. Envelopes = EnvelopesOf(job) /\ Allowances = AllowancesOf(worker)
    BY DEF Envelopes, EnvelopesOf, Allowances, AllowancesOf
  <2> QED
    BY <2>1 DEF ExtractInv, MemoryFits, MemoryIsBalanced
<1>2. ASSUME NEW g \in Gates
      PROVE  /\ gate[g].active = Cardinality(Holders(g))
             /\ gate[g].active <= Slots[g]
             /\ gate[g].queue # << >> => gate[g].active = Slots[g]
  <2> DEFINE O == {i \in Jobs : g \in Own(job[i])}
             W == {i \in Jobs : g \in Wait(job[i])}
  <2>1. GateFits(gate[g], Slots[g], O, W)
    BY DEF ExtractInv, PermitsFit
  <2>2. gate[g].granted \subseteq W
    BY <2>1 DEF GateFits
  <2>3. Holders(g) = O \cup gate[g].granted
    <3>1. \A i \in Jobs : i \in gate[g].granted => job[i].stage = g
      BY <2>2 DEF Wait
    <3>2. \A i \in gate[g].granted : i \in Jobs
      BY <2>2
    <3>3. \A i \in Jobs : i \in Holders(g) <=> (i \in O \/ i \in gate[g].granted)
      BY <3>1 DEF Holders, Own, Busy
    <3>4. \A i \in Holders(g) : i \in Jobs
      BY DEF Holders
    <3> QED
      BY <3>2, <3>3, <3>4
  <2> HIDE DEF O, W
  <2> QED
    BY <2>1, <2>3 DEF GateFits
<1> QED
  BY <1>1, <1>2 DEF ResourcesAreBalanced, SlotsAreConserved

LEMMA WantedFollows ==
    ASSUME ExtractInv
    PROVE  SharedWorkIsWanted
<1> SUFFICES ASSUME NEW c \in Callers, caller[c].at = "shared"
             PROVE  /\ c \in flight[caller[c].key]
                    /\ job[caller[c].key].at # "none"
                    /\ job[caller[c].key].asked # "cancel"
  BY DEF SharedWorkIsWanted
<1> DEFINE k == caller[c].key
<1>1. k \in DOMAIN flight /\ k \in Keys
  BY DEF ExtractInv, CallersFit, CallersShape, CallsFit
<1>2. /\ flight[k] = {d \in Callers : caller[d].at = "shared" /\ caller[d].key = k}
      /\ job[k].at # "none" /\ (job[k].asked = "cancel" => flight[k] = {})
  BY <1>1 DEF ExtractInv, CallersFit, FlightsFit
<1>3. c \in flight[k]
  BY <1>2
<1> QED
  BY <1>2, <1>3

LEMMA ReplyFollows ==
    ASSUME ExtractInv
    PROVE  ReplyIsOwn
<1>1. ASSUME NEW j \in Jobs, job[j].at = "run" PROVE WorkerOf(j).owed \in {<< >>, <<j>>}
  <2>1. JobFits(job[j]) /\ job[j].stage \in Workers /\ job[j].at \in Busy \ {"recover"}
    BY <1>1, Facts DEF JobFits, Busy
  <2>2. job[j].stage \in Own(job[j])
    BY <2>1, JobOwns
  <2> QED
    BY <2>1, <2>2, OwnProcess DEF WorkerOf
<1>2. ASSUME NEW w \in Workers, gate[w].active = 0 PROVE worker[w].owed = << >>
  <2> DEFINE O == {i \in Jobs : w \in Own(job[i])}
             S == O \cup gate[w].granted
  <2>1. w \in Gates
    BY DEF Gates
  <2>2. IsFiniteSet(S) /\ Cardinality(S) = 0
    BY <1>2, <2>1 DEF ExtractInv, PermitsFit, GateFits
  <2>3. S = {}
    <3> HIDE DEF S
    <3> QED
      BY <2>2, FS_EmptySet
  <2>4. ASSUME NEW i \in Jobs, Writes(job[i], w) PROVE FALSE
    <3>1. JobFits(job[i]) /\ job[i].stage = w /\ job[i].at \in Busy \ {"recover"}
      BY <2>4, Facts DEF Writes, Busy
    <3>2. w \in Own(job[i])
      BY <3>1, JobOwns
    <3> QED
      BY <2>3, <3>2
  <2> QED
    BY <2>4 DEF ExtractInv, ProcessesFit
<1> QED
  BY <1>1, <1>2 DEF ReplyIsOwn

LEMMA ExtractInvHolds == Spec => []ExtractInv
<1>1. Init => ExtractInv
  BY InitInv
<1>2. ExtractInv /\ [Next]_vars => ExtractInv'
  BY NextInv
<1> QED
  BY <1>1, <1>2, PTL DEF Spec

\* For any requests, URLs, permits, queues and budgets: the budget is what the running jobs
\* and the starting processes account for, and the permits given are those that are held,
\* whatever is cancelled, times out or dies on the way (reservations.py, admission.py).
THEOREM ResourcesStayBalanced == Spec => []ResourcesAreBalanced
<1>1. ExtractInv => ResourcesAreBalanced
  BY ResourcesFollow
<1> QED
  BY <1>1, ExtractInvHolds, PTL

\* The work that callers of one URL share is never cancelled under one that still waits for
\* it (singleflight.py).
THEOREM SharedWorkStaysWanted == Spec => []SharedWorkIsWanted
<1>1. ExtractInv => SharedWorkIsWanted
  BY WantedFollows
<1> QED
  BY <1>1, ExtractInvHolds, PTL

\* A call never reads a reply that was meant for an earlier one, and a worker that nobody
\* uses owes none (worker_supervisor.py).
THEOREM RepliesAreOwn == Spec => []ReplyIsOwn
<1>1. ExtractInv => ReplyIsOwn
  BY ReplyFollows
<1> QED
  BY <1>1, ExtractInvHolds, PTL

==================================================================================
