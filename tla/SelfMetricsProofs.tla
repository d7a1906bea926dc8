------------------------- MODULE SelfMetricsProofs -------------------------
(***************************************************************************)
(* Proofs about SelfMetrics for any capacity of the queue and the buffer,  *)
(* any number of entries and endpoints that fail or do not.                *)
(*                                                                         *)
(* Accounting for samples needs to know that a number is queued, buffered  *)
(* and posted once (PointsOnce), and that a single request is in flight.   *)
(* Exactness of the counts needs the order in the queue: before any stop   *)
(* of a worker there are enough starts (StartsFirst), so that the          *)
(* decrement that stops at zero has nothing to stop.                       *)
(***************************************************************************)
EXTENDS SelfMetrics, FunctionTheorems, FiniteSetTheorems, SequenceTheorems, TLAPS

GhostTypes ==
    ghost \in [counted : Nat, started : Nat, accepted : SUBSET Points, full : BOOLEAN,
               overflowed : SUBSET Points, delivered : SUBSET Points, failed : SUBSET Points,
               pushed : SUBSET Points, unpushed : SUBSET Points, seen : Nat]

\* What the Store methods post.
Posts == {Aggregate("inc", "total", 1), Aggregate("set", "target", 1),
          Aggregate("inc", "active", 1), Aggregate("dec", "active", 1)}
           \cup [mode : {"point"}, id : Points]
QueueShape == \A i \in 1 .. Len(queue) : queue[i] \in Posts

\* A sample is numbered when it is posted, and waits in one place of the queue
\* or of the buffer.
PointsOnce ==
    /\ ghost.accepted \subseteq 1 .. posted
    /\ \A i, j \in 1 .. Len(queue) :
         queue[i].mode = "point" /\ queue[j].mode = "point" /\ queue[i].id = queue[j].id => i = j
    /\ \A i, j \in 1 .. Len(samples) : samples[i] = samples[j] => i = j

\* The flag of the compare-and-swap: one request at a time. The worker pushes in
\* its own goroutine, and drains once cancelled.
OneAtATime ==
    /\ flying # {} => inFlight
    /\ \A r, q \in flying : r = q
    /\ pc # "push" => pushing = {}
    /\ pc \in {"drain", "flush", "stopped"} => cancelled

\* SampleAccounting, pair by pair.
Collector(q, s, f, l, d, x, o, all) ==
    /\ q \cap (s \cup f \cup l \cup d \cup x \cup o) = {}
    /\ s \cap (f \cup l \cup d \cup x \cup o) = {}
    /\ f \cap (l \cup d \cup x \cup o) = {}
    /\ l \cap (d \cup x \cup o) = {}
    /\ d \cap (x \cup o) = {} /\ x \cap o = {}
    /\ all = q \cup s \cup f \cup l \cup d \cup x \cup o
Table(q, m, p, d, x, all) ==
    /\ q \cap (m \cup p \cup d \cup x) = {}
    /\ m \cap (p \cup d \cup x) = {}
    /\ p \cap (d \cup x) = {} /\ d \cap x = {}
    /\ q \cup m \cup p \cup d \cup x \subseteq all
    /\ ClickHouse => all = q \cup m \cup p \cup d \cup x
LastPoints == IF pc = "flush" THEN last.points ELSE {}
Accounting ==
    /\ Collector(QueuedPoints, Elements(samples), InFlightPoints, LastPoints,
                 ghost.delivered, ghost.failed, ghost.overflowed, ghost.accepted)
    /\ Table(QueuedPoints, pointMetrics, pushing, ghost.pushed, ghost.unpushed, ghost.accepted)

\* Entries of key k and mode m among the first n of the queue.
Marks(q, k, m, n) == {i \in 1 .. n : q[i].mode = m /\ q[i].key = k}
Count(q, k, m, n) == Cardinality(Marks(q, k, m, n))
StartsFirst ==
    ~ghost.full => \A n \in 0 .. Len(queue) :
        Count(queue, "active", "dec", n) <= metrics["active"] + Count(queue, "active", "inc", n)

\* The counters, in the order a value passes through them.
CountsBounded ==
    /\ ghost.counted <= posted /\ ghost.started <= posted /\ posted <= MaxEntries
    /\ metrics["active"] + Queued("active", "inc") <= ghost.started
    /\ ghost.seen <= metrics["total"]
    /\ \A r \in flying : r.total <= metrics["total"] /\ (pc # "stopped" => ghost.seen <= r.total)

PostedFirst == queue # <<>> => posted > 0

IInv == /\ TypeOK /\ GhostTypes /\ QueueShape /\ PointsOnce /\ OneAtATime /\ Accounting
        /\ StartsFirst /\ CountsBounded /\ PostedFirst /\ ValuesFaithful /\ FlushComplete

USE SelfMetricsAssumption
-----------------------------------------------------------------------------
(* Counting entries of a sequence. *)

Has(e, k, m) == e.mode = m /\ e.key = k
One(b) == IF b THEN 1 ELSE 0

LEMMA CountType ==
    ASSUME NEW q, NEW k, NEW m, NEW n \in Nat
    PROVE  /\ IsFiniteSet(Marks(q, k, m, n))
           /\ Count(q, k, m, n) \in Nat
           /\ Count(q, k, m, 0) = 0
<1>1. IsFiniteSet(1 .. n)
  BY FS_Interval
<1>2. Marks(q, k, m, n) \in SUBSET (1 .. n) /\ Marks(q, k, m, 0) = {}
  BY DEF Marks
<1> QED BY <1>1, <1>2, FS_Subset, FS_CardinalityType, FS_EmptySet DEF Count

LEMMA QueuedCount == \A k, m : Queued(k, m) = Count(queue, k, m, Len(queue))
BY DEF Queued, Count, Marks

LEMMA CountAppend ==
    ASSUME NEW S, NEW q \in Seq(S), NEW e \in S, NEW k, NEW m
    PROVE  /\ \A n \in 0 .. Len(q) : Count(Append(q, e), k, m, n) = Count(q, k, m, n)
           /\ Count(Append(q, e), k, m, Len(q) + 1) = Count(q, k, m, Len(q)) + One(Has(e, k, m))
<1> DEFINE l == Len(q) + 1
           A == Marks(Append(q, e), k, m, l)
           B == Marks(q, k, m, Len(q))
<1>1. \A i \in 1 .. Len(q) : Append(q, e)[i] = q[i]
  OBVIOUS
<1>2. Append(q, e)[l] = e /\ Len(q) \in Nat
  OBVIOUS
<1>3. \A n \in 0 .. Len(q) : Marks(Append(q, e), k, m, n) = Marks(q, k, m, n)
  BY <1>1 DEF Marks
<1>4. l \notin B /\ IsFiniteSet(B) /\ Cardinality(B) \in Nat
  <2>1. l \notin B
    BY <1>2 DEF Marks
  <2> QED BY <1>2, <2>1, CountType DEF Count
<1>5. CASE Has(e, k, m)
  <2>1. A = B \cup {l}
    BY <1>1, <1>2, <1>5 DEF Has, Marks
  <2> HIDE DEF A, B, l
  <2>2. Cardinality(A) = Cardinality(B) + 1
    BY <1>4, <2>1, FS_AddElement
  <2> QED BY <1>3, <1>5, <2>2 DEF Count, One, A, B, l
<1>6. CASE ~Has(e, k, m)
  <2>1. A = B
    BY <1>1, <1>2, <1>6 DEF Has, Marks
  <2> HIDE DEF A, B, l
  <2>2. Cardinality(A) = Cardinality(B) + 0
    BY <1>4, <2>1
  <2> QED BY <1>3, <1>6, <2>2 DEF Count, One, A, B, l
<1> QED BY <1>5, <1>6

LEMMA CountTail ==
    ASSUME NEW S, NEW q \in Seq(S), q # <<>>, NEW k, NEW m, NEW n \in 0 .. Len(q) - 1
    PROVE  Count(q, k, m, n + 1) = Count(Tail(q), k, m, n) + One(Has(Head(q), k, m))
<1> DEFINE A == Marks(q, k, m, n + 1)
           B == Marks(Tail(q), k, m, n)
           f == [i \in A \ {1} |-> i - 1]
<1>1. Len(q) \in Nat \ {0} /\ n \in Nat /\ n + 1 \in Nat
  BY EmptySeq
<1>2. \A i \in 1 .. n : Tail(q)[i] = q[i + 1]
  BY <1>1
<1>3. Head(q) = q[1]
  BY <1>1
<1>5. f \in Bijection(A \ {1}, B)
  <2>1. f \in [A \ {1} -> B]
    BY <1>1, <1>2 DEF Marks
  <2>2. \A a, b \in A \ {1} : f[a] = f[b] => a = b
    BY <1>1 DEF Marks
  <2>3. \A t \in B : \E a \in A \ {1} : f[a] = t
    <3> SUFFICES ASSUME NEW t \in B PROVE t + 1 \in A \ {1} /\ f[t + 1] = t
      OBVIOUS
    <3> QED BY <1>1, <1>2 DEF Marks
  <2> HIDE DEF f, A, B
  <2> QED BY <2>1, <2>2, <2>3, Fun_IsBij
<1>6. IsFiniteSet(A)
  BY <1>1, CountType
<1>4. 1 \in A <=> Has(Head(q), k, m)
  BY <1>1, <1>3 DEF Has, Marks
<1> HIDE DEF A, B, f
<1>7. IsFiniteSet(A \ {1}) /\ Cardinality(A) \in Nat
  BY <1>6, FS_RemoveElement, FS_CardinalityType
<1>8. Cardinality(B) = Cardinality(A \ {1})
  BY <1>5, <1>7, FS_Bijection DEF ExistsBijection
<1>9. Cardinality(B) = IF 1 \in A THEN Cardinality(A) - 1 ELSE Cardinality(A)
  BY <1>6, <1>8, FS_RemoveElement
<1>10. CASE Has(Head(q), k, m)
  BY <1>4, <1>7, <1>9, <1>10 DEF Count, A, B, One
<1>11. CASE ~Has(Head(q), k, m)
  BY <1>4, <1>7, <1>9, <1>11 DEF Count, A, B, One
<1> QED BY <1>10, <1>11
-----------------------------------------------------------------------------
(* Where a sample can be. *)

LEMMA AccountingForm == Accounting => SampleAccounting
<1> SUFFICES ASSUME NEW q, NEW s, NEW f, NEW l, NEW d, NEW x, NEW o, NEW m, NEW p, NEW e, NEW u, NEW all,
                    Collector(q, s, f, l, d, x, o, all), Table(q, m, p, e, u, all)
             PROVE  /\ Disjoint(<<q, s, f, l, d, x, o>>) /\ Union(<<q, s, f, l, d, x, o>>) = all
                    /\ Disjoint(<<q, m, p, e, u>>)
                    /\ ClickHouse => Union(<<q, m, p, e, u>>) = all
  BY DEF Accounting, SampleAccounting, LastPoints
<1>1. Disjoint(<<q, s, f, l, d, x, o>>)
  BY DEF Disjoint, Collector
<1>2. Union(<<q, s, f, l, d, x, o>>) = all
  BY DEF Union, Collector
<1>3. Disjoint(<<q, m, p, e, u>>)
  BY DEF Disjoint, Table
<1>4. ClickHouse => Union(<<q, m, p, e, u>>) = all
  BY DEF Union, Table
<1> QED BY <1>1, <1>2, <1>3, <1>4

\* The moves of a sample: into the queue, to the buffer (with or without the
\* oldest lost), into a request, to its end.
LEMMA CollectorMoves ==
    ASSUME NEW q, NEW s, NEW f, NEW l, NEW d, NEW x, NEW o, NEW all, Collector(q, s, f, l, d, x, o, all)
    PROVE  /\ \A p : p \notin all => Collector(q \cup {p}, s, f, l, d, x, o, all \cup {p})
           /\ \A p \in q : Collector(q \ {p}, s \cup {p}, f, l, d, x, o, all)
           /\ \A p \in q : \A h \in s : Collector(q \ {p}, (s \ {h}) \cup {p}, f, l, d, x, o \cup {h}, all)
           /\ f = {} => Collector(q, {}, s, l, d, x, o, all)
           /\ l = {} => Collector(q, {}, f, s, d, x, o, all)
           /\ Collector(q, s, {}, l, d \cup f, x, o, all) /\ Collector(q, s, {}, l, d, x \cup f, o, all)
           /\ Collector(q, s, f, {}, d \cup l, x, o, all) /\ Collector(q, s, f, {}, d, x \cup l, o, all)
BY DEF Collector

LEMMA TableMoves ==
    ASSUME NEW q, NEW m, NEW p, NEW d, NEW x, NEW all, Table(q, m, p, d, x, all)
    PROVE  /\ \A t : t \notin all => Table(q \cup {t}, m, p, d, x, all \cup {t})
           /\ \A t \in q : Table(q \ {t}, m \cup {t}, p, d, x, all)
           /\ p = {} => Table(q, {}, m, d, x, all)
           /\ ~ClickHouse => Table(q, {}, p, d, x, all)
           /\ Table(q, m, {}, d \cup p, x, all) /\ Table(q, m, {}, d, x \cup p, all)
BY DEF Table

\* What one entry does to the numbers queued and buffered.
Numbers(e) == IF e.mode = "point" THEN {e.id} ELSE {}

LEMMA QueueAppend ==
    ASSUME queue \in Seq(Entries), QueueShape, PointsOnce, NEW e \in Posts, Posts \subseteq Entries,
           e.mode = "point" => e.id \notin QueuedPoints, queue' = Append(queue, e)
    PROVE  /\ QueuedPoints' = QueuedPoints \cup Numbers(e) /\ QueueShape'
           /\ \A i, j \in 1 .. Len(queue') :
                queue'[i].mode = "point" /\ queue'[j].mode = "point" /\ queue'[i].id = queue'[j].id => i = j
<1> HIDE DEF Posts, Entries
<1>1. /\ Len(queue) \in Nat /\ Len(queue') = Len(queue) + 1
      /\ \A i \in 1 .. Len(queue) : queue'[i] = queue[i]
      /\ queue'[Len(queue) + 1] = e
  OBVIOUS
<1>2. \A i \in 1 .. Len(queue') : i \in 1 .. Len(queue) \/ i = Len(queue) + 1
  BY <1>1
<1>3. QueueShape'
  BY <1>1, <1>2 DEF QueueShape
<1>4. QueuedPoints' = QueuedPoints \cup Numbers(e)
  BY <1>1, <1>2 DEF QueuedPoints, Numbers
<1>5. \A i \in 1 .. Len(queue) : queue[i].mode = "point" => queue[i].id \in QueuedPoints
  BY DEF QueuedPoints
<1>6. \A i, j \in 1 .. Len(queue') :
        queue'[i].mode = "point" /\ queue'[j].mode = "point" /\ queue'[i].id = queue'[j].id => i = j
  BY <1>1, <1>2, <1>5 DEF PointsOnce
<1> QED BY <1>3, <1>4, <1>6

LEMMA QueueTail ==
    ASSUME queue \in Seq(Entries), QueueShape, PointsOnce, queue # <<>>, queue' = Tail(queue)
    PROVE  /\ Head(queue) \in Posts /\ Numbers(Head(queue)) \subseteq QueuedPoints
           /\ QueuedPoints' = QueuedPoints \ Numbers(Head(queue)) /\ QueueShape'
           /\ \A i, j \in 1 .. Len(queue') :
                queue'[i].mode = "point" /\ queue'[j].mode = "point" /\ queue'[i].id = queue'[j].id => i = j
<1> HIDE DEF Posts, Entries
<1>1. /\ Len(queue) \in Nat \ {0} /\ Len(queue') = Len(queue) - 1
      /\ \A i \in 1 .. Len(queue') : queue'[i] = queue[i + 1]
      /\ Head(queue) = queue[1]
  BY EmptySeq
<1>2. Head(queue) \in Posts
  BY <1>1 DEF QueueShape
<1>3. QueueShape'
  BY <1>1 DEF QueueShape
<1>4. Numbers(Head(queue)) \subseteq QueuedPoints
  BY <1>1 DEF QueuedPoints, Numbers
<1>5. QueuedPoints' = QueuedPoints \ Numbers(Head(queue))
  <2>1. \A i \in 1 .. Len(queue') : i + 1 \in 1 .. Len(queue) /\ i + 1 # 1
    BY <1>1
  <2>2. \A i \in 1 .. Len(queue) : i # 1 => i - 1 \in 1 .. Len(queue') /\ queue'[i - 1] = queue[i]
    BY <1>1
  <2>3. QueuedPoints' \subseteq QueuedPoints \ Numbers(Head(queue))
    <3> SUFFICES ASSUME NEW i \in 1 .. Len(queue'), queue'[i].mode = "point"
                 PROVE  queue'[i].id \in QueuedPoints /\ queue'[i].id \notin Numbers(Head(queue))
      BY DEF QueuedPoints
    <3>1. queue'[i] = queue[i + 1] /\ i + 1 \in 1 .. Len(queue) /\ i + 1 # 1
      BY <1>1, <2>1
    <3>2. queue'[i].id \in QueuedPoints
      BY <3>1 DEF QueuedPoints
    <3>3. 1 \in 1 .. Len(queue)
      BY <1>1
    <3>4. queue[1].mode = "point" => queue[1].id # queue[i + 1].id
      BY <3>1, <3>3 DEF PointsOnce
    <3> QED BY <1>1, <3>1, <3>2, <3>4 DEF Numbers
  <2>4. QueuedPoints \ Numbers(Head(queue)) \subseteq QueuedPoints'
    <3> SUFFICES ASSUME NEW i \in 1 .. Len(queue), queue[i].mode = "point",
                        queue[i].id \notin Numbers(Head(queue))
                 PROVE  queue[i].id \in QueuedPoints'
      BY DEF QueuedPoints
    <3>1. i # 1
      BY <1>1 DEF Numbers
    <3>2. i - 1 \in 1 .. Len(queue') /\ queue'[i - 1] = queue[i]
      BY <2>2, <3>1
    <3> QED BY <3>2 DEF QueuedPoints
  <2> QED BY <2>3, <2>4
<1>6. \A i, j \in 1 .. Len(queue') :
        queue'[i].mode = "point" /\ queue'[j].mode = "point" /\ queue'[i].id = queue'[j].id => i = j
  <2> SUFFICES ASSUME NEW i \in 1 .. Len(queue'), NEW j \in 1 .. Len(queue'),
                      queue'[i].mode = "point", queue'[j].mode = "point", queue'[i].id = queue'[j].id
               PROVE  i = j
    OBVIOUS
  <2>1. i + 1 \in 1 .. Len(queue) /\ j + 1 \in 1 .. Len(queue) /\ i \in Int /\ j \in Int
    BY <1>1
  <2>2. i + 1 = j + 1
    BY <1>1, <2>1 DEF PointsOnce
  <2> QED BY <2>1, <2>2
<1> QED BY <1>2, <1>3, <1>4, <1>5, <1>6

\* addSample
LEMMA SamplesAppend ==
    ASSUME NEW t \in Seq(Points), NEW n \in Points, n \notin Elements(t),
           \A i, j \in 1 .. Len(t) : t[i] = t[j] => i = j
    PROVE  /\ Elements(Append(t, n)) = Elements(t) \cup {n}
           /\ \A i, j \in 1 .. Len(Append(t, n)) : Append(t, n)[i] = Append(t, n)[j] => i = j
<1> DEFINE u == Append(t, n)
<1> HIDE DEF Points
<1>1. /\ Len(t) \in Nat /\ Len(u) = Len(t) + 1
      /\ \A i \in 1 .. Len(t) : u[i] = t[i] /\ t[i] \in Elements(t)
      /\ u[Len(t) + 1] = n
  BY DEF Elements
<1>2. \A i \in 1 .. Len(u) : i \in 1 .. Len(t) \/ i = Len(t) + 1
  BY <1>1
<1> HIDE DEF u
<1>3. Elements(u) = Elements(t) \cup {n}
  BY <1>1, <1>2 DEF Elements
<1>4. \A i, j \in 1 .. Len(u) : u[i] = u[j] => i = j
  BY <1>1, <1>2
<1> QED BY <1>3, <1>4 DEF u

LEMMA SamplesTail ==
    ASSUME NEW t \in Seq(Points), t # <<>>,
           \A i, j \in 1 .. Len(t) : t[i] = t[j] => i = j
    PROVE  /\ Elements(Tail(t)) = Elements(t) \ {Head(t)} /\ Head(t) \in Elements(t)
           /\ \A i, j \in 1 .. Len(Tail(t)) : Tail(t)[i] = Tail(t)[j] => i = j
<1> DEFINE u == Tail(t)
<1> HIDE DEF Points
<1>1. /\ Len(t) \in Nat \ {0} /\ Len(u) = Len(t) - 1
      /\ \A i \in 1 .. Len(u) : u[i] = t[i + 1]
      /\ Head(t) = t[1]
  BY EmptySeq
<1>2. \A i \in 1 .. Len(u) : i + 1 \in 1 .. Len(t) /\ i + 1 # 1
  BY <1>1
<1>3. \A i \in 1 .. Len(t) : i # 1 => i - 1 \in 1 .. Len(u) /\ u[i - 1] = t[i]
  BY <1>1
<1> HIDE DEF u
<1>4. Elements(u) \subseteq Elements(t) \ {Head(t)}
  BY <1>1, <1>2 DEF Elements
<1>5. Elements(t) \ {Head(t)} \subseteq Elements(u)
  BY <1>1, <1>3 DEF Elements
<1>6. Head(t) \in Elements(t)
  BY <1>1 DEF Elements
<1>7. \A i, j \in 1 .. Len(u) : u[i] = u[j] => i = j
  <2> SUFFICES ASSUME NEW i \in 1 .. Len(u), NEW j \in 1 .. Len(u), u[i] = u[j] PROVE i = j
    OBVIOUS
  <2>1. i + 1 = j + 1
    BY <1>1, <1>2
  <2> QED BY <2>1
<1> QED BY <1>4, <1>5, <1>6, <1>7 DEF u
-----------------------------------------------------------------------------
(* The steps. *)

LEMMA InitIInv == Init => IInv
<1> SUFFICES ASSUME Init PROVE IInv
  OBVIOUS
<1>1. TypeOK
  <2>1. queue \in Seq(Entries) /\ samples \in Seq(Points) /\ Len(queue) = 0 /\ Len(samples) = 0
    BY EmptySeq DEF Init
  <2>2. metrics \in [Keys -> 0..(Modulus - 1)]
    BY DEF Init
  <2>3. last \in Requests
    BY DEF Init, Requests
  <2>4. inFlight \in BOOLEAN /\ cancelled \in BOOLEAN
    BY DEF Init
  <2>5. 0 <= QueueCap /\ 0 <= BufferCap
    OBVIOUS
  <2> QED BY <2>1, <2>2, <2>3, <2>4, <2>5 DEF Init, TypeOK
<1>2. GhostTypes
  BY DEF Init, GhostTypes
<1>3. queue = <<>> /\ samples = <<>> /\ Len(queue) = 0 /\ Len(samples) = 0
  BY DEF Init
<1>4. QueueShape /\ PointsOnce /\ OneAtATime
  BY <1>3 DEF Init, QueueShape, PointsOnce, OneAtATime
<1>5. Accounting
  <2>1. QueuedPoints = {} /\ Elements(samples) = {} /\ InFlightPoints = {} /\ LastPoints = {}
    BY <1>3 DEF Init, QueuedPoints, Elements, InFlightPoints, LastPoints
  <2> QED BY <2>1 DEF Init, Accounting, Collector, Table
<1>6. \A k, m : Queued(k, m) = 0 /\ Count(queue, k, m, 0) = 0
  BY <1>3, CountType, QueuedCount
<1>7. StartsFirst /\ CountsBounded /\ ValuesFaithful /\ FlushComplete /\ PostedFirst
  BY <1>3, <1>6 DEF Init, StartsFirst, CountsBounded, ValuesFaithful, FlushComplete, PostedFirst, Keys
<1> QED BY <1>1, <1>2, <1>4, <1>5, <1>7 DEF IInv


LEMMA PostKinds ==
    /\ Posts \subseteq Entries
    /\ \A e \in Posts : \/ e.mode = "inc" /\ e.key = "total" /\ e.value = 1
                        \/ e.mode = "set" /\ e.key = "target" /\ e.value = 1
                        \/ e.mode = "inc" /\ e.key = "active" /\ e.value = 1
                        \/ e.mode = "dec" /\ e.key = "active" /\ e.value = 1
                        \/ e.mode = "point" /\ e.id \in Points
<1>1. \A e \in Posts : e \in Entries
  BY DEF Posts, Entries, Aggregate, Keys
<1>2. \A e \in Posts : \/ e.mode = "inc" /\ e.key = "total" /\ e.value = 1
                       \/ e.mode = "set" /\ e.key = "target" /\ e.value = 1
                       \/ e.mode = "inc" /\ e.key = "active" /\ e.value = 1
                       \/ e.mode = "dec" /\ e.key = "active" /\ e.value = 1
                       \/ e.mode = "point" /\ e.id \in Points
  BY DEF Posts, Aggregate
<1> QED BY <1>1, <1>2

\* What posting e says about the workers the schedulers run.
WorkersWith(e) ==
    /\ workers' \in Nat
    /\ workers' + One(Has(e, "active", "dec")) = workers + One(Has(e, "active", "inc"))

LEMMA PostIInv ==
    ASSUME IInv, NEW e \in Posts, Post(e), WorkersWith(e), e.mode = "point" => e.id = posted + 1
    PROVE  IInv'
<1>0. /\ TypeOK /\ GhostTypes /\ QueueShape /\ PointsOnce /\ OneAtATime /\ Accounting
      /\ StartsFirst /\ CountsBounded /\ ValuesFaithful
  BY DEF IInv
<1>1. /\ ~cancelled /\ posted < MaxEntries /\ posted' = posted + 1 /\ posted \in Nat /\ posted' \in Nat
      /\ UNCHANGED <<metrics, pointMetrics, samples, inFlight, flying, pushing, last, pc, cancelled>>
      /\ pc \in {"loop", "push"} /\ pc' \in {"loop", "push"}
  BY <1>0 DEF Post, TypeOK, OneAtATime
<1>2. /\ queue \in Seq(Entries) /\ e \in Entries /\ Posts \subseteq Entries /\ Len(queue) \in Nat
      /\ e.mode = "point" => e.id \notin ghost.accepted /\ e.id \in Points
  BY <1>0, <1>1, PostKinds DEF TypeOK, PointsOnce
<1>3. QueuedPoints \subseteq ghost.accepted
  BY <1>0 DEF Accounting, Collector
<1>4. UNCHANGED <<Elements(samples), InFlightPoints, LastPoints>> /\ FlushComplete' /\ OneAtATime' /\ PostedFirst'
  BY <1>0, <1>1 DEF Elements, InFlightPoints, LastPoints, FlushComplete, OneAtATime, PostedFirst
<1>5. CASE Len(queue) < QueueCap
  <2>1. queue' = Append(queue, e)
    BY <1>5 DEF Post
  <2>2. /\ QueuedPoints' = QueuedPoints \cup Numbers(e) /\ QueueShape'
        /\ \A i, j \in 1 .. Len(queue') :
             queue'[i].mode = "point" /\ queue'[j].mode = "point" /\ queue'[i].id = queue'[j].id => i = j
    BY <1>0, <1>2, <1>3, <2>1, QueueAppend
  <2>3. /\ ghost' \in [counted : Nat, started : Nat, accepted : SUBSET Points, full : BOOLEAN,
                       overflowed : SUBSET Points, delivered : SUBSET Points, failed : SUBSET Points,
                       pushed : SUBSET Points, unpushed : SUBSET Points, seen : Nat]
        /\ ghost'.counted = ghost.counted + One(Has(e, "total", "inc"))
        /\ ghost'.started = ghost.started + One(Has(e, "active", "inc"))
        /\ ghost'.accepted = ghost.accepted \cup Numbers(e)
        /\ ghost'.full = ghost.full /\ ghost'.overflowed = ghost.overflowed
        /\ ghost'.delivered = ghost.delivered /\ ghost'.failed = ghost.failed
        /\ ghost'.pushed = ghost.pushed /\ ghost'.unpushed = ghost.unpushed /\ ghost'.seen = ghost.seen
    <3>1. ghost' = [ghost EXCEPT
                 !.counted = IF e.mode = "inc" /\ e.key = "total" THEN @ + 1 ELSE @,
                 !.started = IF e.mode = "inc" /\ e.key = "active" THEN @ + 1 ELSE @,
                 !.accepted = IF e.mode = "point" THEN @ \cup {e.id} ELSE @]
      BY <1>5 DEF Post
    <3>2. ghost \in [counted : Nat, started : Nat, accepted : SUBSET Points, full : BOOLEAN,
                       overflowed : SUBSET Points, delivered : SUBSET Points, failed : SUBSET Points,
                       pushed : SUBSET Points, unpushed : SUBSET Points, seen : Nat]
      BY <1>0 DEF GhostTypes
    <3> DEFINE c == IF e.mode = "inc" /\ e.key = "total" THEN ghost.counted + 1 ELSE ghost.counted
               t == IF e.mode = "inc" /\ e.key = "active" THEN ghost.started + 1 ELSE ghost.started
               a == IF e.mode = "point" THEN ghost.accepted \cup {e.id} ELSE ghost.accepted
    <3>3. c \in Nat /\ c = ghost.counted + One(Has(e, "total", "inc"))
      BY <3>2 DEF Has, One
    <3>4. t \in Nat /\ t = ghost.started + One(Has(e, "active", "inc"))
      BY <3>2 DEF Has, One
    <3>5. a \in SUBSET Points /\ a = ghost.accepted \cup Numbers(e)
      BY <1>2, <3>2 DEF Numbers
    <3>6. ghost' = [ghost EXCEPT !.counted = c, !.started = t, !.accepted = a]
      BY <3>1
    <3> HIDE DEF c, t, a
    <3> QED BY <3>2, <3>3, <3>4, <3>5, <3>6
  <2>4. Accounting'
    <3>1. CASE e.mode = "point"
      <4>1. /\ QueuedPoints' = QueuedPoints \cup {e.id} /\ ghost'.accepted = ghost.accepted \cup {e.id}
            /\ e.id \notin ghost.accepted
        BY <1>2, <2>2, <2>3, <3>1 DEF Numbers
      <4>2. Collector(QueuedPoints \cup {e.id}, Elements(samples), InFlightPoints, LastPoints,
                      ghost.delivered, ghost.failed, ghost.overflowed, ghost.accepted \cup {e.id})
        BY <1>0, <4>1, CollectorMoves DEF Accounting
      <4>3. Table(QueuedPoints \cup {e.id}, pointMetrics, pushing, ghost.pushed, ghost.unpushed,
                  ghost.accepted \cup {e.id})
        BY <1>0, <4>1, TableMoves DEF Accounting
      <4> QED BY <1>1, <1>4, <2>3, <4>1, <4>2, <4>3 DEF Accounting
    <3>2. CASE e.mode # "point"
      BY <1>0, <1>1, <1>4, <2>2, <2>3, <3>2 DEF Accounting, Numbers
    <3> QED BY <3>1, <3>2
  <2>5. PointsOnce'
    <3>1. ghost'.accepted \subseteq 1 .. posted'
      BY <1>0, <1>1, <2>3 DEF PointsOnce, Numbers
    <3>2. \A i, j \in 1 .. Len(samples') : samples'[i] = samples'[j] => i = j
      BY <1>0, <1>1 DEF PointsOnce
    <3> QED BY <2>2, <3>1, <3>2 DEF PointsOnce
  <2>6. \A k, m : /\ \A n \in 0 .. Len(queue) : Count(queue', k, m, n) = Count(queue, k, m, n)
                  /\ Queued(k, m)' = Queued(k, m) + One(Has(e, k, m))
    <3>1. Len(queue') = Len(queue) + 1
      BY <1>2, <2>1
    <3>2. \A k, m : Queued(k, m)' = Count(queue', k, m, Len(queue'))
      BY DEF Queued, Count, Marks
    <3> QED BY <1>2, <2>1, <3>1, <3>2, CountAppend, QueuedCount
  <2>7. \A k, m : Queued(k, m) \in Nat /\ Queued(k, m)' \in Nat /\ One(Has(e, k, m)) \in {0, 1}
    BY <1>2, <2>6, CountType, QueuedCount DEF One
  <2>8. One(Has(e, "total", "inc")) + One(Has(e, "active", "inc")) + One(Has(e, "active", "dec")) <= 1
    BY PostKinds DEF One, Has
  <2>9. metrics["total"] \in Nat /\ metrics["active"] \in Nat /\ ghost.counted \in Nat /\ ghost.started \in Nat
    BY <1>0 DEF TypeOK, GhostTypes, Keys
  <2>10. ValuesFaithful' /\ CountsBounded'
    <3> DEFINE ti == One(Has(e, "total", "inc"))
               ai == One(Has(e, "active", "inc"))
               ad == One(Has(e, "active", "dec"))
    <3>1. ti \in {0, 1} /\ ai \in {0, 1} /\ ad \in {0, 1} /\ ti + ai + ad <= 1
      BY <2>7, <2>8
    <3>2. /\ Queued("total", "inc")' = Queued("total", "inc") + ti /\ Queued("total", "inc") \in Nat
          /\ Queued("active", "inc")' = Queued("active", "inc") + ai /\ Queued("active", "inc") \in Nat
          /\ Queued("active", "dec")' = Queued("active", "dec") + ad /\ Queued("active", "dec") \in Nat
      BY <2>6, <2>7
    <3>3. ghost'.counted = ghost.counted + ti /\ ghost'.started = ghost.started + ai
      BY <2>3
    <3>4. workers' \in Nat /\ workers \in Nat /\ workers' + ad = workers + ai
      BY <1>0 DEF WorkersWith, TypeOK
    <3> HIDE DEF ti, ai, ad
    <3>5. /\ metrics'["total"] + Queued("total", "inc")' = ghost'.counted
          /\ metrics'["active"] <= ghost'.started
      BY <1>0, <1>1, <2>9, <3>1, <3>2, <3>3 DEF ValuesFaithful
    <3>6. ~ghost'.full => metrics'["active"] + Queued("active", "inc")' = workers' + Queued("active", "dec")'
      <4> SUFFICES ASSUME ~ghost'.full
                   PROVE  metrics'["active"] + Queued("active", "inc")' = workers' + Queued("active", "dec")'
        OBVIOUS
      <4>1. ~ghost.full
        BY <2>3
      <4>2. metrics["active"] + Queued("active", "inc") = workers + Queued("active", "dec")
        BY <1>0, <4>1 DEF ValuesFaithful
      <4>3. metrics'["active"] = metrics["active"]
        BY <1>1
      <4>4. metrics["active"] \in Nat /\ ai \in {0, 1} /\ ad \in {0, 1}
        BY <2>9, <3>1
      <4> DEFINE a == metrics["active"]
                 i == Queued("active", "inc")
                 d == Queued("active", "dec")
                 v == workers'
      <4>5. /\ a \in Nat /\ i \in Nat /\ d \in Nat /\ v \in Nat /\ workers \in Nat
            /\ a + i = workers + d /\ v + ad = workers + ai
        BY <3>2, <3>4, <4>2, <4>4, Zenon
      <4> HIDE DEF a, i, d, v
      <4>6. a + (i + ai) = v + (d + ad)
        BY <4>4, <4>5
      <4> QED BY <3>2, <4>3, <4>6, Zenon DEF a, i, d, v
    <3>7. ValuesFaithful'
      BY <3>5, <3>6 DEF ValuesFaithful
    <3>8. /\ ghost'.counted <= posted' /\ ghost'.started <= posted' /\ posted' <= MaxEntries
          /\ metrics'["active"] + Queued("active", "inc")' <= ghost'.started
      BY <1>0, <1>1, <2>9, <3>1, <3>2, <3>3 DEF CountsBounded
    <3>9. CountsBounded'
      BY <1>0, <1>1, <2>3, <3>8 DEF CountsBounded
    <3> QED BY <3>7, <3>9
  <2>11. StartsFirst'
    <3> SUFFICES ASSUME ~ghost.full, NEW n \in 0 .. Len(queue')
                 PROVE  Count(queue', "active", "dec", n) <= metrics["active"] + Count(queue', "active", "inc", n)
      BY <1>1, <2>3 DEF StartsFirst
    <3>1. CASE n \in 0 .. Len(queue)
      BY <1>0, <2>6, <3>1 DEF StartsFirst
    <3>2. CASE n = Len(queue')
      <4>1. \A k, m : Count(queue', k, m, n) = Queued(k, m)'
        BY <3>2 DEF Queued, Count, Marks
      <4>2. metrics["active"] + Queued("active", "inc")' = workers' + Queued("active", "dec")'
        BY <1>1, <2>3, <2>10 DEF ValuesFaithful
      <4> QED BY <2>7, <2>9, <4>1, <4>2 DEF WorkersWith
    <3> QED BY <1>2, <2>1, <3>1, <3>2
  <2>12. TypeOK'
    <3>1. queue' \in Seq(Entries) /\ Len(queue') <= QueueCap
      BY <1>2, <1>5, <2>1
    <3> QED BY <1>0, <1>1, <3>1 DEF TypeOK, WorkersWith
  <2> QED BY <1>4, <2>2, <2>3, <2>4, <2>5, <2>10, <2>11, <2>12 DEF IInv, GhostTypes
<1>6. CASE ~(Len(queue) < QueueCap)
  <2>1. queue' = queue /\ ghost' = [ghost EXCEPT !.full = TRUE]
    BY <1>6 DEF Post
  <2>2. /\ ghost' \in [counted : Nat, started : Nat, accepted : SUBSET Points, full : BOOLEAN,
                       overflowed : SUBSET Points, delivered : SUBSET Points, failed : SUBSET Points,
                       pushed : SUBSET Points, unpushed : SUBSET Points, seen : Nat]
        /\ ghost'.counted = ghost.counted /\ ghost'.started = ghost.started
        /\ ghost'.accepted = ghost.accepted
        /\ ghost'.full = TRUE /\ ghost'.overflowed = ghost.overflowed
        /\ ghost'.delivered = ghost.delivered /\ ghost'.failed = ghost.failed
        /\ ghost'.pushed = ghost.pushed /\ ghost'.unpushed = ghost.unpushed /\ ghost'.seen = ghost.seen
    BY <1>0, <2>1 DEF GhostTypes
  <2>3. QueuedPoints' = QueuedPoints /\ \A k, m : Queued(k, m)' = Queued(k, m)
    BY <2>1 DEF QueuedPoints, Queued
  <2>4. Accounting' /\ QueueShape'
    BY <1>0, <1>1, <1>4, <2>1, <2>2, <2>3 DEF Accounting, QueueShape
  <2>5. PointsOnce'
    BY <1>0, <1>1, <2>1, <2>2 DEF PointsOnce
  <2>6. ValuesFaithful' /\ CountsBounded' /\ StartsFirst'
    BY <1>0, <1>1, <2>1, <2>2, <2>3 DEF ValuesFaithful, CountsBounded, StartsFirst, GhostTypes
  <2>7. TypeOK'
    BY <1>0, <1>1, <2>1 DEF TypeOK, WorkersWith
  <2> QED BY <1>4, <2>2, <2>4, <2>5, <2>6, <2>7 DEF IInv, GhostTypes
<1> QED BY <1>5, <1>6

\* The entry at the head of the queue is applied.
LEMMA ApplyIInv ==
    ASSUME IInv, ApplyMetricEntry, pc \in {"loop", "drain"}
    PROVE  IInv'
<1> DEFINE e == Head(queue)
<1>0. /\ TypeOK /\ GhostTypes /\ QueueShape /\ PointsOnce /\ OneAtATime /\ Accounting
      /\ StartsFirst /\ CountsBounded /\ ValuesFaithful
  BY DEF IInv
<1>1. /\ queue # <<>> /\ queue' = Tail(queue) /\ queue \in Seq(Entries)
      /\ UNCHANGED <<inFlight, flying, pushing, last, pc, cancelled, posted, workers>>
  BY <1>0 DEF ApplyMetricEntry, Producers, TypeOK
<1>2. /\ e \in Posts /\ Numbers(e) \subseteq QueuedPoints
      /\ QueuedPoints' = QueuedPoints \ Numbers(e) /\ QueueShape'
      /\ \A i, j \in 1 .. Len(queue') :
           queue'[i].mode = "point" /\ queue'[j].mode = "point" /\ queue'[i].id = queue'[j].id => i = j
  BY <1>0, <1>1, QueueTail
<1>3. Len(queue) \in Nat \ {0} /\ Len(queue') = Len(queue) - 1 /\ queue' \in Seq(Entries)
  <2> HIDE DEF Entries
  <2> QED BY <1>1, EmptySeq
<1>4. \A k, m : \A n \in 0 .. Len(queue') : Count(queue, k, m, n + 1) = Count(queue', k, m, n) + One(Has(e, k, m))
  BY <1>1, <1>3, CountTail
<1>5. \A k, m : /\ Queued(k, m) = Queued(k, m)' + One(Has(e, k, m))
                /\ Queued(k, m) \in Nat /\ Queued(k, m)' \in Nat /\ One(Has(e, k, m)) \in {0, 1}
  <2>1. \A k, m : Queued(k, m)' = Count(queue', k, m, Len(queue'))
    BY DEF Queued, Count, Marks
  <2>2. Len(queue') \in 0 .. Len(queue') /\ Len(queue') + 1 = Len(queue)
    BY <1>3
  <2>3. \A k, m : Queued(k, m) = Queued(k, m)' + One(Has(e, k, m))
    BY <1>4, <2>1, <2>2, QueuedCount
  <2>4. \A k, m : Count(queue, k, m, Len(queue)) \in Nat /\ Count(queue', k, m, Len(queue')) \in Nat
    BY <1>3, CountType
  <2> QED BY <2>1, <2>3, <2>4, QueuedCount DEF One
<1>6. metrics["total"] \in Nat /\ metrics["active"] \in Nat /\ ghost.counted \in Nat /\ ghost.started \in Nat
      /\ posted \in Nat /\ metrics \in [Keys -> 0..(Modulus - 1)]
  BY <1>0 DEF TypeOK, GhostTypes, Keys
<1>7. /\ metrics["total"] + Queued("total", "inc") =< MaxEntries
      /\ metrics["active"] + Queued("active", "inc") =< MaxEntries
      /\ MaxEntries \in Nat /\ Modulus \in Nat /\ MaxEntries < Modulus
  BY <1>0, <1>5, <1>6 DEF CountsBounded, ValuesFaithful
<1> HIDE DEF e
<1>8. /\ FlushComplete' /\ OneAtATime' /\ PostedFirst'
      /\ LastPoints' = LastPoints /\ InFlightPoints' = InFlightPoints
  BY <1>0, <1>1 DEF FlushComplete, OneAtATime, PostedFirst, LastPoints, InFlightPoints, IInv
<1>9. CASE e.mode # "point"
  <2>1. metrics' = Aggregated(e) /\ UNCHANGED <<pointMetrics, samples, ghost>>
    BY <1>9 DEF ApplyMetricEntry, e
  <2>2. /\ Accounting' /\ PointsOnce' /\ GhostTypes'
    <3>1. QueuedPoints' = QueuedPoints
      BY <1>2, <1>9 DEF Numbers
    <3>2. Elements(samples)' = Elements(samples)
      BY <2>1 DEF Elements
    <3>3. Accounting'
      BY <1>0, <1>1, <1>8, <2>1, <3>1, <3>2 DEF Accounting
    <3>4. PointsOnce'
      BY <1>0, <1>1, <1>2, <2>1 DEF PointsOnce
    <3> QED BY <1>0, <2>1, <3>3, <3>4 DEF GhostTypes
  <2> DEFINE ti == One(Has(e, "total", "inc"))
             ai == One(Has(e, "active", "inc"))
             ad == One(Has(e, "active", "dec"))
  <2>3. /\ metrics' \in [Keys -> 0..(Modulus - 1)]
        /\ metrics'["total"] = metrics["total"] + ti
        /\ metrics'["active"] = IF ad = 1 THEN (IF metrics["active"] = 0 THEN 0 ELSE metrics["active"] - 1)
                                ELSE metrics["active"] + ai
    <3>1. CASE e.mode = "inc" /\ e.key = "total" /\ e.value = 1
      <4>1. metrics' = [metrics EXCEPT !["total"] = (@ + 1) % Modulus]
        BY <2>1, <3>1 DEF Aggregated
      <4>2. ti = 1 /\ ai = 0 /\ ad = 0
        BY <3>1 DEF One, Has
      <4>3. metrics["total"] + 1 < Modulus
        BY <1>5, <1>6, <1>7, <4>2
      <4>4. (metrics["total"] + 1) % Modulus = metrics["total"] + 1
        BY <1>6, <1>7, <4>3
      <4> HIDE DEF ti, ai, ad
      <4> QED BY <1>6, <1>7, <4>1, <4>2, <4>3, <4>4 DEF Keys
    <3>2. CASE e.mode = "inc" /\ e.key = "active" /\ e.value = 1
      <4>1. metrics' = [metrics EXCEPT !["active"] = (@ + 1) % Modulus]
        BY <2>1, <3>2 DEF Aggregated
      <4>2. ti = 0 /\ ai = 1 /\ ad = 0
        BY <3>2 DEF One, Has
      <4>3. metrics["active"] + 1 < Modulus
        BY <1>5, <1>6, <1>7, <4>2
      <4>4. (metrics["active"] + 1) % Modulus = metrics["active"] + 1
        BY <1>6, <1>7, <4>3
      <4> HIDE DEF ti, ai, ad
      <4> QED BY <1>6, <1>7, <4>1, <4>2, <4>3, <4>4 DEF Keys
    <3>3. CASE e.mode = "dec" /\ e.key = "active" /\ e.value = 1
      <4>1. metrics' = [metrics EXCEPT !["active"] = IF 1 >= @ THEN 0 ELSE @ - 1]
        BY <2>1, <3>3 DEF Aggregated, Decrement
      <4>2. ti = 0 /\ ai = 0 /\ ad = 1
        BY <3>3 DEF One, Has
      <4> HIDE DEF ti, ai, ad
      <4>3. metrics["active"] \in 0 .. (Modulus - 1) /\ Modulus \in Nat \ {0}
        BY <1>6 DEF Keys
      <4> DEFINE v == IF 1 >= metrics["active"] THEN 0 ELSE metrics["active"] - 1
      <4>4. v \in 0 .. (Modulus - 1) /\ v = IF metrics["active"] = 0 THEN 0 ELSE metrics["active"] - 1
        BY <4>3
      <4>5. metrics' = [metrics EXCEPT !["active"] = v]
        BY <4>1
      <4> HIDE DEF v
      <4> QED BY <1>6, <4>2, <4>4, <4>5 DEF Keys
    <3>4. CASE e.mode = "set" /\ e.key = "target" /\ e.value = 1
      <4>1. metrics' = [metrics EXCEPT !["target"] = 1]
        BY <2>1, <3>4 DEF Aggregated
      <4>2. ti = 0 /\ ai = 0 /\ ad = 0
        BY <3>4 DEF One, Has
      <4>3. 1 \in 0 .. (Modulus - 1)
        <5>1. posted > 0 /\ posted <= MaxEntries
          BY <1>0, <1>1 DEF CountsBounded, PostedFirst, IInv
        <5> QED BY <1>6, <1>7, <5>1
      <4> HIDE DEF ti, ai, ad
      <4> QED BY <1>6, <4>1, <4>2, <4>3 DEF Keys
    <3> QED BY <1>2, <1>9, <3>1, <3>2, <3>3, <3>4, PostKinds
  <2>4. /\ ti \in {0, 1} /\ ai \in {0, 1} /\ ad \in {0, 1} /\ ad + ai <= 1
        /\ Queued("total", "inc") = Queued("total", "inc")' + ti
        /\ Queued("active", "inc") = Queued("active", "inc")' + ai
        /\ Queued("active", "dec") = Queued("active", "dec")' + ad
        /\ Queued("total", "inc")' \in Nat /\ Queued("active", "inc")' \in Nat /\ Queued("active", "dec")' \in Nat
    BY <1>5 DEF One, Has
  <2>5. ~ghost.full /\ ad = 1 => metrics["active"] >= 1
    <3> SUFFICES ASSUME ~ghost.full, ad = 1 PROVE metrics["active"] >= 1
      OBVIOUS
    <3>1. 1 \in 0 .. Len(queue) /\ 0 \in 0 .. Len(queue') /\ 0 + 1 = 1
      BY <1>3
    <3>2. Count(queue, "active", "dec", 1) <= metrics["active"] + Count(queue, "active", "inc", 1)
      BY <1>0, <3>1 DEF StartsFirst
    <3>3. \A k, m : Count(queue, k, m, 1) = Count(queue', k, m, 0) + One(Has(e, k, m)) /\ Count(queue', k, m, 0) = 0
      BY <1>4, <3>1, CountType
    <3>4. Count(queue, "active", "dec", 1) = 1 /\ Count(queue, "active", "inc", 1) = 0
      BY <2>4, <3>3
    <3> QED BY <1>6, <3>2, <3>4
  <2> HIDE DEF ti, ai, ad
  <2>6. ValuesFaithful'
    <3>1. metrics'["total"] + Queued("total", "inc")' = ghost'.counted
      BY <1>0, <1>6, <2>1, <2>3, <2>4 DEF ValuesFaithful
    <3>2. metrics'["active"] <= ghost'.started
      BY <1>0, <1>6, <2>1, <2>3, <2>4 DEF CountsBounded
    <3>3. ASSUME ~ghost'.full
          PROVE  metrics'["active"] + Queued("active", "inc")' = workers' + Queued("active", "dec")'
      <4>1. ~ghost.full /\ workers' = workers /\ workers \in Nat
        BY <1>0, <1>1, <2>1, <3>3 DEF TypeOK
      <4>2. metrics["active"] + Queued("active", "inc") = workers + Queued("active", "dec")
        BY <1>0, <4>1 DEF ValuesFaithful
      <4> QED BY <1>6, <2>3, <2>4, <2>5, <4>1, <4>2
    <3> QED BY <3>1, <3>2, <3>3 DEF ValuesFaithful
  <2>7. CountsBounded'
    <3>1. metrics'["active"] + Queued("active", "inc")' <= ghost'.started
      BY <1>0, <1>6, <2>1, <2>3, <2>4 DEF CountsBounded
    <3>2. metrics["total"] <= metrics'["total"] /\ metrics'["total"] \in Nat
      BY <1>6, <2>3, <2>4
    <3>3. ghost'.seen <= metrics'["total"]
      BY <1>0, <1>6, <2>1, <3>2 DEF CountsBounded, GhostTypes
    <3>4. \A r \in flying' : r.total <= metrics'["total"] /\ (pc' # "stopped" => ghost'.seen <= r.total)
      <4> SUFFICES ASSUME NEW r \in flying
                   PROVE  r.total <= metrics'["total"] /\ (pc # "stopped" => ghost.seen <= r.total)
        BY <1>1, <2>1
      <4>1. r.total \in Nat
        BY <1>0 DEF TypeOK, Requests
      <4> QED BY <1>0, <1>6, <3>2, <4>1 DEF CountsBounded
    <3> QED BY <1>0, <1>1, <2>1, <3>1, <3>3, <3>4 DEF CountsBounded
  <2>8. StartsFirst'
    <3> SUFFICES ASSUME ~ghost.full, NEW n \in 0 .. Len(queue')
                 PROVE  Count(queue', "active", "dec", n) <= metrics'["active"] + Count(queue', "active", "inc", n)
      BY <2>1 DEF StartsFirst
    <3>1. n + 1 \in 0 .. Len(queue) /\ n \in Nat
      BY <1>3
    <3>2. Count(queue, "active", "dec", n + 1) <= metrics["active"] + Count(queue, "active", "inc", n + 1)
      BY <1>0, <3>1 DEF StartsFirst
    <3>3. /\ Count(queue, "active", "dec", n + 1) = Count(queue', "active", "dec", n) + ad
          /\ Count(queue, "active", "inc", n + 1) = Count(queue', "active", "inc", n) + ai
          /\ Count(queue', "active", "dec", n) \in Nat /\ Count(queue', "active", "inc", n) \in Nat
      BY <1>4, <3>1, CountType DEF ad, ai
    <3>4. ad = 1 => metrics["active"] >= 1
      BY <2>5
    <3> DEFINE a == metrics["active"]
               i == Count(queue', "active", "inc", n)
               d == Count(queue', "active", "dec", n)
    <3>7. a \in Nat /\ i \in Nat /\ d \in Nat /\ d + ad <= a + (i + ai)
      <4>1. metrics["active"] \in Nat
        BY <1>6
      <4> QED BY <3>2, <3>3, <4>1, Zenon
    <3> HIDE DEF a, i, d
    <3>5. CASE ad = 1
      <4>1. metrics'["active"] = metrics["active"] - 1 /\ ai = 0
        <5>1. ai = 0
          BY <2>4, <3>5
        <5>2. metrics["active"] # 0
          BY <3>4, <3>5
        <5> QED BY <2>3, <3>5, <5>1, <5>2, Zenon
      <4>2. metrics'["active"] = a - 1
        BY <4>1 DEF a
      <4>3. d <= (a - 1) + i
        BY <3>7, <3>5, <4>1
      <4> QED BY <4>2, <4>3, Zenon DEF d, i
    <3>6. CASE ad = 0
      <4>1. metrics'["active"] = metrics["active"] + ai
        BY <2>3, <3>6
      <4>2. metrics'["active"] = a + ai
        BY <4>1 DEF a
      <4>3. d <= (a + ai) + i
        BY <2>4, <3>7, <3>6
      <4> QED BY <4>2, <4>3, Zenon DEF d, i
    <3> QED BY <2>4, <3>5, <3>6
  <2>9. TypeOK'
    <3>1. Len(queue') <= QueueCap
      BY <1>0, <1>3 DEF TypeOK
    <3> QED BY <1>0, <1>1, <1>3, <2>1, <2>3, <3>1 DEF TypeOK
  <2> QED BY <1>2, <1>8, <2>2, <2>6, <2>7, <2>8, <2>9 DEF IInv
<1>10. CASE e.mode = "point"
  <2> DEFINE kept == IF Len(samples) >= BufferCap THEN Tail(samples) ELSE samples
             lost == IF Len(samples) >= BufferCap THEN {Head(samples)} ELSE {}
  <2>1. /\ pointMetrics' = pointMetrics \cup {e.id} /\ metrics' = metrics
        /\ samples' = Append(kept, e.id)
        /\ ghost' = [ghost EXCEPT !.overflowed = @ \cup lost]
    BY <1>0, <1>10 DEF ApplyMetricEntry, AddSample, e, GhostTypes
  <2>2. e.id \in Points /\ e.id \in QueuedPoints /\ QueuedPoints' = QueuedPoints \ {e.id}
    BY <1>2, <1>10, PostKinds DEF Numbers
  <2>3. samples \in Seq(Points) /\ Len(samples) \in Nat /\ Len(samples) <= BufferCap
    BY <1>0 DEF TypeOK
  <2>4. /\ kept \in Seq(Points) /\ Len(kept) < BufferCap /\ lost \subseteq Elements(samples)
        /\ Elements(kept) = Elements(samples) \ lost
        /\ \A i, j \in 1 .. Len(kept) : kept[i] = kept[j] => i = j
    <3>1. CASE Len(samples) >= BufferCap
      <4>1. samples # <<>> /\ Len(samples) = BufferCap
        BY <2>3, <3>1
      <4>2. Tail(samples) \in Seq(Points) /\ Len(Tail(samples)) = Len(samples) - 1
        BY <2>3, <4>1, HeadTailProperties
      <4>3. /\ Elements(Tail(samples)) = Elements(samples) \ {Head(samples)} /\ Head(samples) \in Elements(samples)
            /\ \A i, j \in 1 .. Len(Tail(samples)) : Tail(samples)[i] = Tail(samples)[j] => i = j
        BY <1>0, <2>3, <4>1, SamplesTail DEF PointsOnce
      <4> QED BY <2>3, <3>1, <4>1, <4>2, <4>3
    <3>2. CASE ~(Len(samples) >= BufferCap)
      BY <1>0, <2>3, <3>2 DEF PointsOnce
    <3> QED BY <3>1, <3>2
  <2>5. e.id \notin Elements(samples) /\ lost \subseteq Points /\ (lost = {} \/ \E h \in Elements(samples) : lost = {h})
    <3>1. QueuedPoints \cap Elements(samples) = {}
      BY <1>0 DEF Accounting, Collector
    <3>2. \A h \in Elements(samples) : h \in Points
      BY <2>3, ElementOfSeq DEF Elements
    <3>3. lost = {} \/ \E h \in Elements(samples) : lost = {h}
      BY <2>4
    <3> QED BY <2>2, <2>4, <3>1, <3>2, <3>3
  <2> HIDE DEF kept, lost
  <2>6. /\ Elements(samples)' = (Elements(samples) \ lost) \cup {e.id}
        /\ \A i, j \in 1 .. Len(samples') : samples'[i] = samples'[j] => i = j
        /\ samples' \in Seq(Points) /\ Len(samples') <= BufferCap
    <3>1. e.id \notin Elements(kept)
      BY <2>4, <2>5, <2>2, <1>0 DEF Accounting, Collector
    <3>2. /\ Elements(Append(kept, e.id)) = Elements(kept) \cup {e.id}
          /\ \A i, j \in 1 .. Len(Append(kept, e.id)) : Append(kept, e.id)[i] = Append(kept, e.id)[j] => i = j
      BY <2>2, <2>4, <3>1, SamplesAppend
    <3>3. Append(kept, e.id) \in Seq(Points) /\ Len(Append(kept, e.id)) <= BufferCap
      BY <2>2, <2>4
    <3>4. Elements(samples)' = Elements(Append(kept, e.id))
      BY <2>1 DEF Elements
    <3> QED BY <2>1, <2>4, <3>2, <3>3, <3>4
  <2>7. /\ ghost' \in [counted : Nat, started : Nat, accepted : SUBSET Points, full : BOOLEAN,
                       overflowed : SUBSET Points, delivered : SUBSET Points, failed : SUBSET Points,
                       pushed : SUBSET Points, unpushed : SUBSET Points, seen : Nat]
        /\ ghost'.counted = ghost.counted /\ ghost'.started = ghost.started
        /\ ghost'.accepted = ghost.accepted
        /\ ghost'.full = ghost.full /\ ghost'.overflowed = ghost.overflowed \cup lost
        /\ ghost'.delivered = ghost.delivered /\ ghost'.failed = ghost.failed
        /\ ghost'.pushed = ghost.pushed /\ ghost'.unpushed = ghost.unpushed /\ ghost'.seen = ghost.seen
    <3>1. lost \subseteq Points
      BY <2>3, <2>4, ElementOfSeq DEF Elements
    <3> QED BY <1>0, <2>1, <3>1 DEF GhostTypes
  <2>8. Accounting'
    <3>1. Table(QueuedPoints \ {e.id}, pointMetrics \cup {e.id}, pushing, ghost.pushed, ghost.unpushed, ghost.accepted)
      BY <1>0, <2>2, TableMoves DEF Accounting
    <3>2. Collector(QueuedPoints \ {e.id}, (Elements(samples) \ lost) \cup {e.id}, InFlightPoints, LastPoints,
                    ghost.delivered, ghost.failed, ghost.overflowed \cup lost, ghost.accepted)
      <4>1. Collector(QueuedPoints, Elements(samples), InFlightPoints, LastPoints,
                      ghost.delivered, ghost.failed, ghost.overflowed, ghost.accepted)
        BY <1>0 DEF Accounting
      <4> QED BY <2>2, <2>4, <4>1 DEF Collector
    <3> QED BY <1>1, <1>8, <2>1, <2>2, <2>6, <2>7, <3>1, <3>2 DEF Accounting
  <2>9. PointsOnce'
    BY <1>0, <1>1, <1>2, <2>6, <2>7 DEF PointsOnce
  <2>10. /\ \A k : Queued(k, "inc")' = Queued(k, "inc") /\ Queued(k, "dec")' = Queued(k, "dec")
         /\ \A k : \A n \in 0 .. Len(queue') : /\ Count(queue', k, "inc", n) = Count(queue, k, "inc", n + 1)
                                               /\ Count(queue', k, "dec", n) = Count(queue, k, "dec", n + 1)
    <3>1. \A k : One(Has(e, k, "inc")) = 0 /\ One(Has(e, k, "dec")) = 0
      BY <1>10 DEF One, Has
    <3>2. \A k, m : \A n \in 0 .. Len(queue') : Count(queue', k, m, n) \in Nat
      BY <1>3, CountType
    <3> QED BY <1>4, <1>5, <3>1, <3>2
  <2>11. ValuesFaithful' /\ CountsBounded'
    BY <1>0, <1>1, <2>1, <2>7, <2>10 DEF ValuesFaithful, CountsBounded
  <2>12. StartsFirst'
    <3> SUFFICES ASSUME ~ghost.full, NEW n \in 0 .. Len(queue')
                 PROVE  Count(queue', "active", "dec", n) <= metrics["active"] + Count(queue', "active", "inc", n)
      BY <2>1, <2>7 DEF StartsFirst
    <3>1. n + 1 \in 0 .. Len(queue) /\ n \in Nat
      BY <1>3
    <3> QED BY <1>0, <2>10, <3>1 DEF StartsFirst
  <2>13. TypeOK'
    <3>1. Len(queue') <= QueueCap
      BY <1>0, <1>3 DEF TypeOK
    <3>2. pointMetrics' \in SUBSET Points
      BY <1>0, <2>1, <2>2 DEF TypeOK
    <3> QED BY <1>0, <1>1, <1>3, <2>1, <2>6, <3>1, <3>2 DEF TypeOK
  <2> QED BY <1>2, <1>8, <2>7, <2>8, <2>9, <2>11, <2>12, <2>13 DEF IInv, GhostTypes
<1> QED BY <1>9, <1>10

\* A step that neither posts nor applies an entry.
Quiet == /\ UNCHANGED <<queue, metrics, posted, workers>>
         /\ ghost'.counted = ghost.counted /\ ghost'.started = ghost.started
         /\ ghost'.accepted = ghost.accepted /\ ghost'.full = ghost.full
LEMMA QuietSteps ==
    ASSUME IInv, Quiet
    PROVE  /\ QueueShape' /\ QueuedPoints' = QueuedPoints
           /\ StartsFirst' /\ ValuesFaithful' /\ PostedFirst'
<1>0. QueueShape /\ StartsFirst /\ ValuesFaithful /\ PostedFirst
  BY DEF IInv
<1>1. QueuedPoints' = QueuedPoints /\ \A k, m : Queued(k, m)' = Queued(k, m)
  BY DEF Quiet, QueuedPoints, Queued
<1>2. QueueShape' /\ PostedFirst'
  BY <1>0 DEF Quiet, QueueShape, PostedFirst
<1>3. StartsFirst'
  BY <1>0 DEF Quiet, StartsFirst
<1>4. ValuesFaithful'
  BY <1>0, <1>1 DEF Quiet, ValuesFaithful
<1> QED BY <1>1, <1>2, <1>3, <1>4

\* Counts of a step that also starts no request and ends none.
LEMMA CountsKept ==
    ASSUME IInv, Quiet, flying' \subseteq flying, ghost'.seen = ghost.seen,
           pc = "stopped" => pc' = "stopped"
    PROVE  CountsBounded'
<1>1. Queued("active", "inc")' = Queued("active", "inc")
  BY DEF Quiet, Queued
<1> QED BY <1>1 DEF IInv, CountsBounded, Quiet

\* The worker's own steps that touch no sample on its way to the collector.
LEMMA PushIInv ==
    ASSUME IInv, PushTick \/ PushEnds \/ CtxDone \/ Cancel
    PROVE  IInv'
<1>0. TypeOK /\ GhostTypes /\ PointsOnce /\ OneAtATime /\ Accounting /\ FlushComplete
  BY DEF IInv
<1>1. /\ UNCHANGED <<queue, metrics, samples, inFlight, flying, last, posted, workers>>
      /\ pc \notin {"flush", "stopped"} \/ UNCHANGED <<pc, pointMetrics, pushing, ghost>>
      /\ pc' \notin {"flush", "stopped"} \/ pc' = pc
  BY DEF PushTick, PushEnds, CtxDone, Cancel, Producers
<1>2. GhostTypes' /\ Quiet /\ ghost'.seen = ghost.seen
      /\ ghost'.delivered = ghost.delivered /\ ghost'.failed = ghost.failed /\ ghost'.overflowed = ghost.overflowed
  <2>1. CASE ghost' = ghost
    BY <1>0, <1>1, <2>1 DEF GhostTypes, Quiet
  <2>2. CASE ghost' = [ghost EXCEPT !.pushed = @ \cup pushing]
    BY <1>0, <1>1, <2>2 DEF GhostTypes, Quiet, TypeOK
  <2>3. CASE ghost' = [ghost EXCEPT !.unpushed = @ \cup pushing]
    BY <1>0, <1>1, <2>3 DEF GhostTypes, Quiet, TypeOK
  <2> QED BY <2>1, <2>2, <2>3 DEF PushTick, PushEnds, CtxDone, Cancel
<1>3. PointsOnce' /\ CountsBounded' /\ FlushComplete'
  <2>1. PointsOnce'
    BY <1>0, <1>1, <1>2 DEF PointsOnce, Quiet
  <2>2. CountsBounded'
    BY <1>1, <1>2, CountsKept
  <2>3. FlushComplete'
    BY <1>0, <1>1, <1>2 DEF FlushComplete, Quiet
  <2> QED BY <2>1, <2>2, <2>3
<1>4. TypeOK' /\ OneAtATime'
  <2>1. cancelled' \in BOOLEAN /\ pc' \in {"loop", "push", "drain", "flush", "stopped"}
        /\ pointMetrics' \in SUBSET Points /\ pushing' \in SUBSET Points
    <3>1. /\ cancelled \in BOOLEAN /\ pc \in {"loop", "push", "drain", "flush", "stopped"}
          /\ pointMetrics \in SUBSET Points /\ pushing \in SUBSET Points
      BY <1>0 DEF TypeOK
    <3>2. CASE Cancel
      BY <3>1, <3>2 DEF Cancel
    <3>3. CASE PushTick \/ PushEnds \/ CtxDone
      BY <3>1, <3>3 DEF PushTick, PushEnds, CtxDone, Producers
    <3> QED BY <3>2, <3>3
  <2>2. TypeOK'
    BY <1>0, <1>1, <2>1 DEF TypeOK
  <2>3. OneAtATime'
    <3>1. CASE Cancel
      BY <1>0, <1>1, <3>1 DEF OneAtATime, Cancel
    <3>2. CASE PushTick
      BY <1>0, <1>1, <3>2 DEF OneAtATime, PushTick, Producers
    <3>3. CASE PushEnds
      BY <1>0, <1>1, <3>3 DEF OneAtATime, PushEnds, Producers
    <3>4. CASE CtxDone
      BY <1>0, <1>1, <3>4 DEF OneAtATime, CtxDone, Producers
    <3> QED BY <3>1, <3>2, <3>3, <3>4
  <2> QED BY <2>2, <2>3
<1>5. Accounting'
  <2>1. /\ QueuedPoints' = QueuedPoints /\ Elements(samples)' = Elements(samples)
        /\ InFlightPoints' = InFlightPoints /\ LastPoints' = LastPoints
    BY <1>1, <1>2, QuietSteps DEF Elements, InFlightPoints, LastPoints
  <2>2. Collector(QueuedPoints, Elements(samples), InFlightPoints, LastPoints,
                  ghost.delivered, ghost.failed, ghost.overflowed, ghost.accepted)'
    BY <1>0, <1>2, <2>1 DEF Accounting, Quiet
  <2>3. Table(QueuedPoints, pointMetrics, pushing, ghost.pushed, ghost.unpushed, ghost.accepted)
    BY <1>0 DEF Accounting
  <2>4. Table(QueuedPoints, pointMetrics', pushing', ghost'.pushed, ghost'.unpushed, ghost.accepted)
    <3>1. CASE CtxDone \/ Cancel
      BY <2>3, <3>1 DEF CtxDone, Cancel
    <3>2. CASE PushTick /\ ClickHouse
      <4>1. pushing = {} /\ pushing' = pointMetrics /\ pointMetrics' = {} /\ ghost' = ghost
        BY <1>0, <3>2 DEF PushTick, OneAtATime
      <4> QED BY <2>3, <4>1, TableMoves
    <3>3. CASE PushTick /\ ~ClickHouse
      <4>1. pushing' = pushing /\ pointMetrics' = {} /\ ghost' = ghost
        BY <3>3 DEF PushTick
      <4> QED BY <2>3, <3>3, <4>1, TableMoves
    <3>4. CASE PushEnds
      <4>1. pushing' = {} /\ pointMetrics' = pointMetrics
        BY <3>4 DEF PushEnds
      <4>2. \/ ghost'.pushed = ghost.pushed \cup pushing /\ ghost'.unpushed = ghost.unpushed
            \/ ghost'.pushed = ghost.pushed /\ ghost'.unpushed = ghost.unpushed \cup pushing
        BY <1>0, <3>4 DEF PushEnds, GhostTypes
      <4>3. /\ Table(QueuedPoints, pointMetrics, {}, ghost.pushed \cup pushing, ghost.unpushed, ghost.accepted)
            /\ Table(QueuedPoints, pointMetrics, {}, ghost.pushed, ghost.unpushed \cup pushing, ghost.accepted)
        BY <2>3, TableMoves
      <4> QED BY <4>1, <4>2, <4>3
    <3> QED BY <3>1, <3>2, <3>3, <3>4
  <2> QED BY <1>2, <2>1, <2>2, <2>4 DEF Accounting, Quiet
<1> QED BY <1>2, <1>3, <1>4, <1>5, QuietSteps DEF IInv

\* The buffer leaves as a request: of a tick, or the last one.
LEMMA RequestIInv ==
    ASSUME IInv, OtlpTick \/ Flush
    PROVE  IInv'
<1>0. TypeOK /\ GhostTypes /\ PointsOnce /\ OneAtATime /\ Accounting /\ CountsBounded /\ ValuesFaithful
  BY DEF IInv
<1>1. UNCHANGED <<queue, metrics, pointMetrics, pushing, cancelled, posted, workers, ghost>> /\ samples' = <<>>
  BY DEF OtlpTick, Flush, Producers
<1>2. Quiet /\ GhostTypes'
  BY <1>0, <1>1 DEF Quiet, GhostTypes
<1>3. /\ samples' \in Seq(Points) /\ Len(samples') = 0 /\ Elements(samples)' = {}
  BY <1>1, EmptySeq DEF Elements
<1>4. Request \in Requests /\ Request.total = metrics["total"] /\ Request.points = Elements(samples)
      /\ metrics["total"] \in Nat
  <2>1. metrics["total"] \in Nat
    BY <1>0 DEF TypeOK, Keys
  <2>2. samples \in Seq(Points)
    BY <1>0 DEF TypeOK
  <2>3. Elements(samples) \in SUBSET Points
    BY <2>2, ElementOfSeq DEF Elements
  <2> QED BY <2>1, <2>3 DEF Request, Requests
<1>5. PointsOnce'
  BY <1>0, <1>1, <1>3 DEF PointsOnce
<1>6. QueuedPoints' = QueuedPoints
  BY <1>2, QuietSteps
<1>7. /\ Collector(QueuedPoints, Elements(samples), InFlightPoints, LastPoints,
                   ghost.delivered, ghost.failed, ghost.overflowed, ghost.accepted)
      /\ Table(QueuedPoints, pointMetrics, pushing, ghost.pushed, ghost.unpushed, ghost.accepted)
  BY <1>0 DEF Accounting
<1>8. CASE OtlpTick
  <2>1. /\ pc = "loop" /\ pc' = pc /\ ~inFlight /\ inFlight' = TRUE /\ last' = last
        /\ flying' = flying \cup {Request} /\ flying = {}
    BY <1>0, <1>8 DEF OtlpTick, OneAtATime
  <2>2. flying' = {Request}
    BY <2>1
  <2>3. TypeOK'
    BY <1>0, <1>1, <1>3, <1>4, <2>1, <2>2 DEF TypeOK
  <2>4. OneAtATime' /\ FlushComplete'
    BY <1>0, <1>1, <2>1, <2>2 DEF OneAtATime, FlushComplete
  <2>5. InFlightPoints = {} /\ InFlightPoints' = Elements(samples) /\ LastPoints' = LastPoints
    BY <1>4, <2>1, <2>2 DEF InFlightPoints, LastPoints
  <2>6. Accounting'
    <3>1. Collector(QueuedPoints, {}, Elements(samples), LastPoints,
                    ghost.delivered, ghost.failed, ghost.overflowed, ghost.accepted)
      BY <1>7, <2>5, CollectorMoves
    <3> QED BY <1>1, <1>3, <1>6, <1>7, <2>5, <3>1 DEF Accounting
  <2>7. CountsBounded'
    <3>1. Queued("active", "inc")' = Queued("active", "inc")
      BY <1>1 DEF Queued
    <3>2. \A r \in flying' : r.total <= metrics["total"] /\ (pc' # "stopped" => ghost.seen <= r.total)
      BY <1>0, <1>4, <2>2 DEF CountsBounded
    <3> QED BY <1>0, <1>1, <3>1, <3>2 DEF CountsBounded
  <2> QED BY <1>2, <1>5, <2>3, <2>4, <2>6, <2>7, QuietSteps DEF IInv
<1>9. CASE Flush
  <2>1. /\ pc = "drain" /\ pc' = "flush" /\ queue = <<>> /\ last' = Request /\ UNCHANGED <<inFlight, flying>>
    BY <1>9 DEF Flush
  <2>2. TypeOK'
    BY <1>0, <1>1, <1>3, <1>4, <2>1 DEF TypeOK
  <2>3. OneAtATime'
    BY <1>0, <1>1, <2>1 DEF OneAtATime
  <2>4. InFlightPoints' = InFlightPoints /\ LastPoints = {} /\ LastPoints' = Elements(samples)
    BY <1>4, <2>1 DEF InFlightPoints, LastPoints
  <2>5. Accounting'
    <3>1. Collector(QueuedPoints, {}, InFlightPoints, Elements(samples),
                    ghost.delivered, ghost.failed, ghost.overflowed, ghost.accepted)
      BY <1>7, <2>4, CollectorMoves
    <3> QED BY <1>1, <1>3, <1>6, <1>7, <2>4, <3>1 DEF Accounting
  <2>6. CountsBounded'
    BY <1>1, <1>2, <2>1, CountsKept
  <2>7. FlushComplete'
    <3>1. Len(queue) = 0
      BY <2>1
    <3>2. Queued("total", "inc") = 0
      BY <3>1, QueuedCount, CountType
    <3>3. metrics["total"] = ghost.counted
      BY <1>0, <1>4, <3>2 DEF ValuesFaithful
    <3> QED BY <1>1, <1>4, <2>1, <3>3 DEF FlushComplete
  <2> QED BY <1>2, <1>5, <2>2, <2>3, <2>5, <2>6, <2>7, QuietSteps DEF IInv
<1> QED BY <1>8, <1>9

\* A step of ReceivedInOrder.
Ordered ==
    \/ ghost'.seen >= ghost.seen
    \/ pc = "stopped" /\ \E r \in flying :
           flying = {r} /\ flying' = {} /\ ghost'.seen = r.total

\* A request is answered or fails.
LEMMA AnswerIInv ==
    ASSUME IInv, FlushEnds \/ \E r \in flying : ExportEnds(r)
    PROVE  IInv' /\ Ordered
<1>0. /\ TypeOK /\ GhostTypes /\ PointsOnce /\ OneAtATime /\ Accounting /\ CountsBounded
      /\ ValuesFaithful /\ FlushComplete
  BY DEF IInv
<1>1. UNCHANGED <<queue, metrics, pointMetrics, samples, pushing, last, cancelled, posted, workers>>
  BY DEF FlushEnds, ExportEnds, Producers
<1>2. /\ Collector(QueuedPoints, Elements(samples), InFlightPoints, LastPoints,
                   ghost.delivered, ghost.failed, ghost.overflowed, ghost.accepted)
      /\ Table(QueuedPoints, pointMetrics, pushing, ghost.pushed, ghost.unpushed, ghost.accepted)
  BY <1>0 DEF Accounting
<1>3. Elements(samples)' = Elements(samples)
  BY <1>1 DEF Elements
<1> DEFINE Kept == /\ ghost'.counted = ghost.counted /\ ghost'.started = ghost.started
                   /\ ghost'.accepted = ghost.accepted /\ ghost'.full = ghost.full
                   /\ ghost'.overflowed = ghost.overflowed
                   /\ ghost'.pushed = ghost.pushed /\ ghost'.unpushed = ghost.unpushed
           Ended(r) == \/ ghost'.delivered = ghost.delivered \cup r.points /\ ghost'.failed = ghost.failed
                       \/ ghost'.delivered = ghost.delivered /\ ghost'.failed = ghost.failed \cup r.points
<1>4. CASE FlushEnds
  <2>1. pc = "flush" /\ pc' = "stopped" /\ UNCHANGED <<inFlight, flying>>
    BY <1>4 DEF FlushEnds
  <2>2. GhostTypes' /\ Kept /\ Ended(last) /\ ghost'.seen \in {ghost.seen, last.total}
    <3>1. last.points \in SUBSET Points /\ last.total \in Nat
      BY <1>0 DEF TypeOK, Requests
    <3>2. CASE ghost' = [ghost EXCEPT !.delivered = @ \cup last.points, !.seen = last.total]
      BY <1>0, <3>1, <3>2 DEF GhostTypes
    <3>3. CASE ghost' = [ghost EXCEPT !.failed = @ \cup last.points]
      BY <1>0, <3>1, <3>3 DEF GhostTypes
    <3> QED BY <1>4, <3>2, <3>3 DEF FlushEnds, Delivered, Failed
  <2>3. Quiet
    BY <1>1, <2>2 DEF Quiet
  <2>4. TypeOK' /\ OneAtATime'
    BY <1>0, <1>1, <2>1 DEF TypeOK, OneAtATime
  <2>5. PointsOnce' /\ FlushComplete'
    BY <1>0, <1>1, <2>1, <2>2 DEF PointsOnce, FlushComplete
  <2>6. LastPoints = last.points /\ LastPoints' = {} /\ InFlightPoints' = InFlightPoints
    BY <2>1 DEF LastPoints, InFlightPoints
  <2>7. QueuedPoints' = QueuedPoints
    BY <2>3, QuietSteps
  <2>8. Accounting'
    <3>1. /\ Collector(QueuedPoints, Elements(samples), InFlightPoints, {},
                       ghost.delivered \cup LastPoints, ghost.failed, ghost.overflowed, ghost.accepted)
          /\ Collector(QueuedPoints, Elements(samples), InFlightPoints, {},
                       ghost.delivered, ghost.failed \cup LastPoints, ghost.overflowed, ghost.accepted)
      BY <1>2, CollectorMoves
    <3> QED BY <1>1, <1>2, <1>3, <2>2, <2>6, <2>7, <3>1 DEF Accounting
  <2>9. last.total = metrics["total"] /\ last.total \in Nat
    <3>1. Len(queue) = 0
      BY <1>0, <2>1 DEF FlushComplete
    <3>2. Queued("total", "inc") = 0
      BY <3>1, QueuedCount, CountType
    <3> QED BY <1>0, <2>1, <3>2 DEF ValuesFaithful, FlushComplete, TypeOK, Keys
  <2>10. Ordered /\ CountsBounded'
    <3>1. Queued("active", "inc")' = Queued("active", "inc")
      BY <1>1 DEF Queued
    <3>2. ghost.seen \in Nat /\ ghost.seen <= metrics["total"]
      BY <1>0 DEF GhostTypes, CountsBounded
    <3>3. ghost'.seen >= ghost.seen /\ ghost'.seen <= metrics["total"]
      BY <2>2, <2>9, <3>2
    <3> QED BY <1>0, <1>1, <2>1, <2>2, <3>1, <3>3 DEF CountsBounded, Ordered
  <2> QED BY <2>2, <2>3, <2>4, <2>5, <2>8, <2>10, QuietSteps DEF IInv
<1>5. CASE \E r \in flying : ExportEnds(r)
  <2>1. PICK r \in flying : ExportEnds(r)
    BY <1>5
  <2>2. /\ flying = {r} /\ flying' = {} /\ inFlight' = FALSE /\ pc' = pc
        /\ r \in Requests
    BY <1>0, <2>1 DEF ExportEnds, OneAtATime, TypeOK
  <2>3. GhostTypes' /\ Kept /\ Ended(r) /\ ghost'.seen \in {ghost.seen, r.total}
    <3>1. r.points \in SUBSET Points /\ r.total \in Nat
      BY <2>2 DEF Requests
    <3>2. CASE ghost' = [ghost EXCEPT !.delivered = @ \cup r.points, !.seen = r.total]
      BY <1>0, <3>1, <3>2 DEF GhostTypes
    <3>3. CASE ghost' = [ghost EXCEPT !.failed = @ \cup r.points]
      BY <1>0, <3>1, <3>3 DEF GhostTypes
    <3> QED BY <2>1, <3>2, <3>3 DEF ExportEnds, ExportOutcome, Delivered, Failed
  <2>4. Quiet
    BY <1>1, <2>3 DEF Quiet
  <2>5. TypeOK' /\ OneAtATime'
    BY <1>0, <1>1, <2>2 DEF TypeOK, OneAtATime
  <2>6. PointsOnce' /\ FlushComplete'
    BY <1>0, <1>1, <2>2, <2>3 DEF PointsOnce, FlushComplete
  <2>7. LastPoints' = LastPoints /\ InFlightPoints = r.points /\ InFlightPoints' = {}
    BY <1>1, <2>2 DEF LastPoints, InFlightPoints
  <2>8. QueuedPoints' = QueuedPoints
    BY <2>4, QuietSteps
  <2>9. Accounting'
    <3>1. /\ Collector(QueuedPoints, Elements(samples), {}, LastPoints,
                       ghost.delivered \cup InFlightPoints, ghost.failed, ghost.overflowed, ghost.accepted)
          /\ Collector(QueuedPoints, Elements(samples), {}, LastPoints,
                       ghost.delivered, ghost.failed \cup InFlightPoints, ghost.overflowed, ghost.accepted)
      BY <1>2, CollectorMoves
    <3> QED BY <1>1, <1>2, <1>3, <2>3, <2>7, <2>8, <3>1 DEF Accounting
  <2>10. /\ ghost.seen \in Nat /\ r.total \in Nat /\ metrics["total"] \in Nat
         /\ ghost.seen <= metrics["total"] /\ r.total <= metrics["total"]
         /\ pc # "stopped" => ghost.seen <= r.total
    BY <1>0, <2>2 DEF GhostTypes, CountsBounded, Requests, TypeOK, Keys
  <2>11. CountsBounded'
    <3>1. Queued("active", "inc")' = Queued("active", "inc")
      BY <1>1 DEF Queued
    <3>2. ghost'.seen <= metrics["total"]
      BY <2>3, <2>10
    <3> QED BY <1>0, <1>1, <2>2, <2>3, <3>1, <3>2 DEF CountsBounded
  <2>12. Ordered
    <3>1. CASE pc # "stopped" \/ ghost'.seen = ghost.seen
      BY <2>3, <2>10, <3>1 DEF Ordered
    <3>2. CASE pc = "stopped" /\ ghost'.seen = r.total
      BY <2>2, <3>2 DEF Ordered
    <3> QED BY <2>3, <3>1, <3>2
  <2> QED BY <2>3, <2>4, <2>5, <2>6, <2>9, <2>11, <2>12, QuietSteps DEF IInv
<1> QED BY <1>4, <1>5

LEMMA PostsIInv ==
    ASSUME IInv, IncrementMetric \/ SetMetric \/ AddMetricPoint \/ WorkerStarts \/ WorkerStops
    PROVE  IInv' /\ ghost'.seen = ghost.seen
<1>0. workers \in Nat /\ posted \in Nat /\ GhostTypes
  BY DEF IInv, TypeOK
<1>1. ASSUME NEW e, Post(e) PROVE ghost'.seen = ghost.seen
  BY <1>0, <1>1 DEF Post, GhostTypes
<1>2. CASE IncrementMetric
  <2> DEFINE e == Aggregate("inc", "total", 1)
  <2>1. e \in Posts /\ Post(e) /\ WorkersWith(e) /\ e.mode # "point"
    BY <1>0, <1>2 DEF IncrementMetric, Posts, Aggregate, WorkersWith, One, Has
  <2> HIDE DEF e
  <2> QED BY <1>1, <2>1, PostIInv
<1>3. CASE SetMetric
  <2> DEFINE e == Aggregate("set", "target", 1)
  <2>1. e \in Posts /\ Post(e) /\ WorkersWith(e) /\ e.mode # "point"
    BY <1>0, <1>3 DEF SetMetric, Posts, Aggregate, WorkersWith, One, Has
  <2> HIDE DEF e
  <2> QED BY <1>1, <2>1, PostIInv
<1>4. CASE AddMetricPoint
  <2> DEFINE e == [mode |-> "point", id |-> posted + 1]
  <2>1. Post(e) /\ workers' = workers
    BY <1>4 DEF AddMetricPoint
  <2>2. posted + 1 \in Points
    BY <1>0, <2>1 DEF Post, Points
  <2>3. e \in Posts /\ WorkersWith(e) /\ e.id = posted + 1
    BY <1>0, <2>1, <2>2 DEF Posts, WorkersWith, One, Has
  <2> HIDE DEF e
  <2> QED BY <1>1, <2>1, <2>3, PostIInv
<1>5. CASE WorkerStarts
  <2> DEFINE e == Aggregate("inc", "active", 1)
  <2>1. e \in Posts /\ Post(e) /\ WorkersWith(e) /\ e.mode # "point"
    BY <1>0, <1>5 DEF WorkerStarts, Posts, Aggregate, WorkersWith, One, Has
  <2> HIDE DEF e
  <2> QED BY <1>1, <2>1, PostIInv
<1>6. CASE WorkerStops
  <2> DEFINE e == Aggregate("dec", "active", 1)
  <2>1. e \in Posts /\ Post(e) /\ WorkersWith(e) /\ e.mode # "point"
    BY <1>0, <1>6 DEF WorkerStops, Posts, Aggregate, WorkersWith, One, Has
  <2> HIDE DEF e
  <2> QED BY <1>1, <2>1, PostIInv
<1> QED BY <1>2, <1>3, <1>4, <1>5, <1>6

LEMMA NextIInv ==
    ASSUME IInv, [Next]_vars
    PROVE  IInv' /\ Ordered
<1>0. ghost.seen \in Nat /\ (ghost'.seen = ghost.seen => Ordered)
  BY DEF IInv, GhostTypes, Ordered
<1>1. CASE IncrementMetric \/ SetMetric \/ AddMetricPoint \/ WorkerStarts \/ WorkerStops
  BY <1>0, <1>1, PostsIInv
<1>2. CASE Apply \/ DrainQueue
  <2>1. ApplyMetricEntry /\ pc \in {"loop", "drain"}
    BY <1>2 DEF Apply, DrainQueue
  <2>2. ghost'.seen = ghost.seen
    BY <2>1 DEF ApplyMetricEntry, AddSample, IInv, GhostTypes
  <2> QED BY <1>0, <2>1, <2>2, ApplyIInv
<1>3. CASE PushTick \/ PushEnds \/ CtxDone \/ Cancel
  <2>1. ghost'.seen = ghost.seen
    BY <1>3 DEF PushTick, PushEnds, CtxDone, Cancel, IInv, GhostTypes
  <2> QED BY <1>0, <1>3, <2>1, PushIInv
<1>4. CASE OtlpTick \/ Flush
  <2>1. ghost'.seen = ghost.seen
    BY <1>4 DEF OtlpTick, Flush
  <2> QED BY <1>0, <1>4, <2>1, RequestIInv
<1>5. CASE FlushEnds \/ \E r \in flying : ExportEnds(r)
  BY <1>5, AnswerIInv
<1>6. CASE UNCHANGED vars
  <2>1. Quiet /\ UNCHANGED vars
    BY <1>6 DEF vars, Quiet
  <2>2. TypeOK' /\ GhostTypes' /\ PointsOnce' /\ OneAtATime' /\ FlushComplete'
    BY <2>1 DEF vars, IInv, TypeOK, GhostTypes, PointsOnce, OneAtATime, FlushComplete
  <2>3. Accounting'
    BY <2>1 DEF vars, IInv, Accounting, QueuedPoints, Elements, InFlightPoints, LastPoints
  <2>4. CountsBounded'
    BY <2>1, CountsKept DEF vars
  <2> QED BY <1>0, <2>1, <2>2, <2>3, <2>4, QuietSteps DEF IInv, vars
<1> QED BY <1>1, <1>2, <1>3, <1>4, <1>5, <1>6 DEF Next, Stopped

LEMMA InvariantHolds == Spec => []IInv
<1>1. IInv /\ [Next]_vars => IInv'
  BY NextIInv
<1> QED BY <1>1, InitIInv, PTL DEF Spec
-----------------------------------------------------------------------------
\* The state of the metrics worker, its queue and the emitter keeps its types,
\* within the capacities of queue and buffer.
THEOREM TypeCorrect == Spec => []TypeOK
<1>1. IInv => TypeOK
  BY DEF IInv
<1> QED BY <1>1, InvariantHolds, PTL

\* worker.go, otlp.go: every sample the queue took is in one place on its way to
\* the collector and one on its way to the table, or lost in an admitted way.
THEOREM SamplesAccountedFor == Spec => []SampleAccounting
<1>1. IInv => SampleAccounting
  BY AccountingForm DEF IInv
<1> QED BY <1>1, InvariantHolds, PTL

\* applyMetricEntry: no increment the queue took is lost or counted twice, and
\* the count of running workers is exact until the queue overflows.
THEOREM CountsExact == Spec => []ValuesFaithful
<1>1. IInv => ValuesFaithful
  BY DEF IInv
<1> QED BY <1>1, InvariantHolds, PTL

\* drainQueue, flush: the last request carries every increment ever queued, and
\* neither queue nor buffer keeps anything back.
THEOREM LastFlushComplete == Spec => []FlushComplete
<1>1. IInv => FlushComplete
  BY DEF IInv
<1> QED BY <1>1, InvariantHolds, PTL

\* otlp.go, inFlight: the totals the collector answers for never step back, but
\* for the one export still in flight when the last request was answered.
THEOREM TotalsInOrder == Spec => ReceivedInOrder
<1>1. IInv /\ [Next]_vars =>
        [\/ ghost'.seen >= ghost.seen
         \/ pc = "stopped" /\ \E r \in flying :
                flying = {r} /\ flying' = {} /\ ghost'.seen = r.total]_vars
  BY NextIInv DEF Ordered
<1> QED BY <1>1, InvariantHolds, PTL DEF Spec, ReceivedInOrder
=============================================================================
