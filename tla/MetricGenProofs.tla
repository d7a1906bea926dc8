-------------------------- MODULE MetricGenProofs --------------------------
(***************************************************************************)
(* Proofs about MetricGen.tla for every number of workers, resources and   *)
(* series, every lifetime of a resource, every request size and every hash *)
(* function: the shared cache of resources never gives a point the         *)
(* resource of another generation; every point of the plan is added once,  *)
(* in order, and meets its fate once; the points of a series follow each   *)
(* other as their temporality wants it; and the functions of               *)
(* MetricPlan.tla that say when a resource is replaced agree at every      *)
(* sweep. The last part is about the plan itself: for every configuration, *)
(* cardinality and set of weights it keeps what its comments promise.      *)
(***************************************************************************)
EXTENDS MetricGen, FiniteSetTheorems, WellFoundedInduction, TLAPS

-----------------------------------------------------------------------------
(* Arithmetic *)

\* Division with remainder by a positive number.
LEMMA Quotient ==
    ASSUME NEW a \in Nat, NEW b \in Nat \ {0}
    PROVE  /\ a \div b \in Nat /\ a % b \in 0 .. b - 1
           /\ a = b * (a \div b) + (a % b)
OBVIOUS

\* A quotient is the multiple a number lies above.
LEMMA QuotientUnique ==
    ASSUME NEW a \in Nat, NEW b \in Nat \ {0}, NEW g \in Nat, b * g =< a, a < b * g + b
    PROVE  a \div b = g
OBVIOUS

\* A number below a multiple has a smaller quotient.
LEMMA QuotientBelow ==
    ASSUME NEW a \in Nat, NEW b \in Nat \ {0}, NEW g \in Nat, a < b * g
    PROVE  a \div b < g
OBVIOUS

LEMMA LifetimeNat == lifetimeSwps \in Nat
<1>1. LifetimeMs \in Nat /\ IntervalMs \in Nat \ {0}
    BY PlanAssumption, GenAssumption DEF ValidTimes
<1> QED
    BY <1>1, Quotient DEF lifetimeSwps

LEMMA MixNat == \A x, q, salt : mix(x, q, salt) \in Nat
BY DEF mix

\* A resource's phase lies within its lifetime.
LEMMA PhaseBounds ==
    ASSUME NEW r, lifetimeSwps # 0
    PROVE  Phase(r) \in 0 .. lifetimeSwps - 1
<1> DEFINE l == lifetimeSwps
<1>1. l \in Nat \ {0}
    BY LifetimeNat
<1> HIDE DEF l
<1>2. Greater(1, l) = l
    BY <1>1 DEF Greater
<1>3. mix(r, 0, LifeSalt) % l \in 0 .. l - 1
    BY <1>1, Quotient, MixNat
<1>4. Phase(r) = mix(r, 0, LifeSalt) % Greater(1, l)
    BY DEF Phase, l
<1> QED
    BY <1>2, <1>3, <1>4 DEF l

\* Generations are counted from 0.
LEMMA GenerationNat ==
    ASSUME NEW r, NEW q \in Nat
    PROVE  generation(r, q) \in Nat
<1>1. CASE lifetimeSwps = 0
    BY <1>1 DEF generation
<1>2. CASE lifetimeSwps # 0
  <2>1. lifetimeSwps \in Nat \ {0} /\ Phase(r) \in 0 .. lifetimeSwps - 1
    BY <1>2, LifetimeNat, PhaseBounds
  <2> DEFINE a == q + Phase(r)
             l == lifetimeSwps
  <2>2. a \in Nat /\ l \in Nat \ {0}
    BY <2>1
  <2>3. generation(r, q) = a \div l
    BY <1>2 DEF generation
  <2> HIDE DEF a, l
  <2> QED
    BY <2>2, <2>3, Quotient
<1> QED
    BY <1>1, <1>2

\* plan.go:536-571. For every resource, every sweep and every lifetime: the
\* sweep generationStart names is not in the future and is the first of its
\* generation, generations go up by one, and generationChanged is true exactly
\* at the sweeps where the generation is not the one before.
THEOREM GenerationsTellOneStory == \A r, q \in Nat : GenerationAgrees(r, q)
<1> SUFFICES ASSUME NEW r \in Nat, NEW q \in Nat PROVE GenerationAgrees(r, q)
    OBVIOUS
<1>1. CASE lifetimeSwps = 0
    BY <1>1 DEF GenerationAgrees, generationStart, generation, generationChanged
<1>2. CASE lifetimeSwps # 0
  <2> DEFINE l == lifetimeSwps
             p == Phase(r)
             g == (q + p) \div l
  <2>1. l \in Nat \ {0} /\ p \in 0 .. l - 1 /\ p \in Nat
    BY <1>2, LifetimeNat, PhaseBounds
  <2>2. \A s : generation(r, s) = (s + p) \div l
    BY <1>2 DEF generation
  <2>3. generationStart(r, q) = IF g = 0 THEN 0 ELSE g * l - p
    BY <2>2 DEF generationStart
  <2>4. generationChanged(r, q) <=> q # 0 /\ (q + p) % l = 0
    BY <1>2 DEF generationChanged
  <2> HIDE DEF l, p
  <2>5. g \in Nat /\ (q + p) % l \in 0 .. l - 1 /\ q + p = l * g + ((q + p) % l)
    <3>1. q + p \in Nat
      BY <2>1
    <3> QED
      BY <2>1, <3>1, Quotient, Zenon
  <2> DEFINE m == (q + p) % l
             st == generationStart(r, q)
  <2>6. g \in Nat /\ m \in 0 .. l - 1 /\ q + p = l * g + m
    BY <2>5, Zenon
  <2>7. generation(r, q) = g
    BY <2>2
  <2> HIDE DEF g, m
  <2>8. st \in 0 .. q
    <3>1. CASE g = 0
      BY <2>3, <3>1
    <3>2. CASE g # 0
      <4>1. g * l = l * g /\ l * g >= l
        BY <2>1, <2>6, <3>2
      <4>2. st = g * l - p
        BY <2>3, <3>2
      <4> DEFINE x == l * g
      <4>3. x \in Nat
        BY <2>1, <2>6
      <4>4. g * l = x /\ x >= l /\ q + p = x + m
        BY <2>6, <4>1
      <4> HIDE DEF x, st
      <4> QED
        BY <2>1, <2>6, <4>2, <4>3, <4>4
    <3> QED
      BY <3>1, <3>2
  <2>9. generation(r, st) = g
    <3>1. CASE g = 0
      <4>1. st = 0
        BY <2>3, <3>1
      <4>2. (0 + p) \div l = 0
        BY <2>1, QuotientUnique
      <4> QED
        BY <2>2, <3>1, <4>1, <4>2
    <3>2. CASE g # 0
      <4>1. st + p = l * g
        BY <2>1, <2>3, <2>6, <3>2
      <4>2. l * g \in Nat
        BY <2>1, <2>6
      <4>3. (l * g) \div l = g
        BY <2>1, <2>6, <4>2, QuotientUnique
      <4> HIDE DEF st
      <4> QED
        BY <2>2, <4>1, <4>3
    <3> QED
      BY <3>1, <3>2
  <2>10. ASSUME NEW s \in 0 .. q, s < st PROVE generation(r, s) < g
    <3>1. g # 0
      BY <2>3, <2>10
    <3>2. st = g * l - p
      BY <2>3, <3>1
    <3>3. s + p < l * g
      BY <2>1, <2>6, <2>10, <3>2
    <3>4. s + p \in Nat
      BY <2>1
    <3>5. (s + p) \div l < g
      BY <2>1, <2>6, <3>3, <3>4, QuotientBelow
    <3> QED
      BY <2>2, <3>5
  <2>11. ASSUME q > 0
         PROVE  /\ g - generation(r, q - 1) \in {0, 1}
                /\ generationChanged(r, q) <=> g # generation(r, q - 1)
    <3> DEFINE y == l * g
    <3>0. y \in Nat /\ q + p = y + m /\ (q - 1) + p \in Nat /\ (q - 1) + p = y + m - 1
      BY <2>1, <2>6, <2>11
    <3>1. CASE m = 0
      <4>1. g # 0
        BY <2>1, <2>6, <2>11, <3>1
      <4>2. g - 1 \in Nat /\ l * (g - 1) = y - l
        BY <2>1, <2>6, <4>1
      <4>3. l * (g - 1) =< (q - 1) + p /\ (q - 1) + p < l * (g - 1) + l
        <5> HIDE DEF y
        <5> QED
          BY <2>1, <3>0, <3>1, <4>2
      <4>4. ((q - 1) + p) \div l = g - 1
        BY <2>1, <3>0, <4>2, <4>3, QuotientUnique
      <4>5. generation(r, q - 1) = g - 1
        BY <2>2, <4>4
      <4>6. generationChanged(r, q)
        BY <2>4, <2>11, <3>1 DEF m
      <4> QED
        BY <2>6, <4>5, <4>6
    <3>2. CASE m # 0
      <4>1. l * g =< (q - 1) + p /\ (q - 1) + p < l * g + l
        BY <2>1, <2>6, <3>0, <3>2
      <4>2. ((q - 1) + p) \div l = g
        BY <2>1, <2>6, <3>0, <4>1, QuotientUnique
      <4>3. generation(r, q - 1) = g
        BY <2>2, <4>2
      <4>4. ~ generationChanged(r, q)
        BY <2>4, <3>2 DEF m
      <4> QED
        BY <2>6, <4>3, <4>4
    <3> QED
      BY <3>1, <3>2
  <2> HIDE DEF st
  <2>12. /\ st \in 0 .. q /\ generation(r, st) = generation(r, q)
         /\ \A s \in 0 .. q : s < st => generation(r, s) < generation(r, q)
         /\ q > 0 => /\ generation(r, q) - generation(r, q - 1) \in {0, 1}
                     /\ generationChanged(r, q) <=> generation(r, q) # generation(r, q - 1)
    BY <2>7, <2>8, <2>9, <2>10, <2>11
  <2> QED
    BY <2>12 DEF GenerationAgrees, st
<1> QED
    BY <1>1, <1>2

-----------------------------------------------------------------------------
(* The series of a stripe *)

\* A non-empty set of naturals has a least element.
LEMMA LeastNat ==
    ASSUME NEW T, T \subseteq Nat, T # {}
    PROVE  \E x \in T : \A y \in T : x =< y
<1> DEFINE R == OpToRel(<, Nat)
<1>1. IsWellFoundedOn(R, Nat)
    BY NatLessThanWellFounded
<1>2. \A x, y \in Nat : y < x => <<y, x>> \in R
    BY DEF OpToRel
<1> HIDE DEF R
<1>3. PICK x \in T : \A y \in T : ~ (<<y, x>> \in R)
    BY <1>1, WFMin
<1>4. ASSUME NEW y \in T PROVE x =< y
  <2>1. x \in Nat /\ y \in Nat
    OBVIOUS
  <2>2. ~ (y < x)
    BY <1>2, <1>3, <2>1
  <2> QED
    BY <2>1, <2>2
<1> QED
    BY <1>4

\* Induction, over a set in place of a predicate.
LEMMA InductionOnNat ==
    ASSUME NEW S, 0 \in S, \A m \in Nat : m \in S => m + 1 \in S
    PROVE  Nat \subseteq S
<1> SUFFICES ASSUME Nat \ S # {} PROVE FALSE
    OBVIOUS
<1>1. PICK x \in Nat \ S : \A y \in Nat \ S : x =< y
    BY LeastNat
<1>2. x # 0 /\ x - 1 \in Nat /\ x - 1 \in S
    BY <1>1
<1> QED
    BY <1>1, <1>2

\* What the settings of a run are.
LEMMA RunFacts ==
    ASSUME run \in Runs
    PROVE  /\ run.metrics \in Seq(MetricDef) /\ run.sweeps \in Nat /\ Len(run.metrics) \in Nat
           /\ \A m \in 0 .. Len(run.metrics) - 1 : Card(m) \in Nat \ {0}
<1>1. run.metrics \in Seq(MetricDef) /\ run.sweeps \in Nat
    BY GenAssumption
<1>2. ASSUME NEW m \in 0 .. Len(run.metrics) - 1 PROVE Card(m) \in Nat \ {0}
  <2>1. m + 1 \in 1 .. Len(run.metrics)
    BY <1>1
  <2>2. run.metrics[m + 1] \in MetricDef
    BY <1>1, <2>1
  <2> QED
    BY <2>2 DEF Card, MetricDef
<1> QED
    BY <1>1, <1>2

-----------------------------------------------------------------------------
(* The inductive invariant *)

SlotOf == [gen : Int, prev : Int, res : Int]
GroupOf == [r : Int, gen : Int, scope : Int, res : Int]

Typed ==
    /\ TypeOK /\ run \in Runs
    /\ slots \in [0 .. Resources - 1 -> SlotOf] /\ loaded \in [Workers -> SlotOf]
    /\ todo \in [Workers -> Seq(Int)] /\ groups \in [Workers -> SUBSET GroupOf]

\* A slot holds the resource of the generation it names.
SlotsFaithful == \A r \in 0 .. Resources - 1 : slots[r].res = slots[r].gen

\* A worker at work on a point has a series to make it for and one or two
\* groups to find; one in its backoff has an attempt left.
AtWork(w) == pc[w] \in {"group", "publish"}
Place(w) ==
    /\ AtWork(w) => Len(todo[w]) \in 1 .. 2
    /\ pc[w] = "backoff" => attempt[w] < MaxFlushAttempts

\* Between points a request is not full, and what is still to come of the point
\* under way outgrows it by one at most.
Room(w) ==
    /\ pc[w] \in {"dial", "loop", "wait"} => points[w] < PointsPerRequest
    /\ AtWork(w) => points[w] + Len(todo[w]) =< PointsPerRequest + 1
    /\ RequestBounded(w)

\* The part of OwnIdentity that is inductive; the other part follows from it.
Own(w) == \A g \in groups[w] : g.res = g.gen

WorkerInv(w) == Place(w) /\ Room(w) /\ Own(w)
IInv == Typed /\ SlotsFaithful /\ \A w \in Workers : WorkerInv(w)

\* What the invariant of worker v speaks of, apart from the settings.
Untouched(v) ==
    /\ pc'[v] = pc[v] /\ todo'[v] = todo[v]
    /\ groups'[v] = groups[v] /\ points'[v] = points[v] /\ attempt'[v] = attempt[v]

\* A step of one worker leaves the invariant of the others alone.
LEMMA OtherWorkers ==
    ASSUME NEW v \in Workers, WorkerInv(v), run' = run, Untouched(v)
    PROVE  WorkerInv(v)'
<1>2. Place(v)'
    BY DEF WorkerInv, Place, AtWork, Untouched
<1>3. Room(v)'
    BY DEF WorkerInv, Room, AtWork, Untouched, RequestBounded
<1>4. Own(v)'
    BY DEF WorkerInv, Own, Untouched
<1> QED
    BY <1>2, <1>3, <1>4 DEF WorkerInv

\* A step of one worker that leaves the others alone.
LEMMA OneWorker ==
    ASSUME IInv, NEW w \in Workers, Typed', SlotsFaithful', WorkerInv(w)', run' = run,
           \A v \in Workers \ {w} : Untouched(v)
    PROVE  IInv'
<1>1. ASSUME NEW v \in Workers, v # w PROVE WorkerInv(v)'
    BY <1>1, OtherWorkers DEF IInv
<1>2. \A v \in Workers : WorkerInv(v)'
    BY <1>1
<1> QED
    BY <1>2 DEF IInv

\* A step that leaves the cache alone keeps what holds of it.
LEMMA SlotsKept ==
    ASSUME SlotsFaithful, slots' = slots
    PROVE  SlotsFaithful'
BY DEF SlotsFaithful

-----------------------------------------------------------------------------
(* The series a worker is at *)

\* Series are pinned to a numbered resource.
LEMMA CurrentResource ==
    \A s : /\ ResourceOf(s) \in 0 .. Resources - 1 /\ ResourceOf(s) \in Nat
           /\ scopeIdx(s) \in Int
<1> SUFFICES ASSUME NEW s
             PROVE  /\ ResourceOf(s) \in 0 .. Resources - 1 /\ ResourceOf(s) \in Nat
                    /\ scopeIdx(s) \in Int
    OBVIOUS
<1>1. mix(s, 0, StructSalt) % Resources \in 0 .. Resources - 1
    BY MixNat, PlanAssumption, Quotient
<1> QED
    BY <1>1, MixNat, PlanAssumption DEF ResourceOf, scopeIdx

-----------------------------------------------------------------------------
(* The steps *)

\* The head of what a point under way still needs, and what is left of it.
LEMMA TodoFacts ==
    ASSUME Typed, NEW w \in Workers, Len(todo[w]) \in 1 .. 2
    PROVE  /\ Head(todo[w]) \in Int /\ Tail(todo[w]) \in Seq(Int)
           /\ Len(Tail(todo[w])) = Len(todo[w]) - 1
<1>1. todo[w] \in Seq(Int)
    BY DEF Typed
<1> DEFINE q == todo[w]
<1>2. q \in Seq(Int) /\ Len(q) \in 1 .. 2 /\ q # <<>>
    BY <1>1
<1> HIDE DEF q
<1>3. Head(q) \in Int /\ Tail(q) \in Seq(Int) /\ Len(Tail(q)) = Len(q) - 1
    BY <1>2
<1> QED
    BY <1>3 DEF q

\* builder.addPoint, whichever way the resource was found: one of the
\* generation asked for.
LEMMA AddToKeeps ==
    ASSUME IInv, NEW w \in Workers, AtWork(w), AddTo(w, Head(todo[w])),
           UNCHANGED <<run, cancelled, k, allowance, settled>>,
           slots' \in [0 .. Resources - 1 -> SlotOf], SlotsFaithful'
    PROVE  IInv'
<1> DEFINE gen == Head(todo[w])
           rest == Tail(todo[w])
           e == [r |-> ResourceOf(Current(w)), gen |-> gen, scope |-> scopeIdx(Current(w)), res |-> gen]
<1>0. Typed /\ WorkerInv(w) /\ Len(todo[w]) \in 1 .. 2
    BY DEF IInv, WorkerInv, Place
<1>1. gen \in Int /\ rest \in Seq(Int) /\ Len(rest) = Len(todo[w]) - 1
    BY <1>0, TodoFacts
<1>2. e \in GroupOf /\ e.res = e.gen
    BY <1>0, <1>1, CurrentResource DEF GroupOf
<1>3. /\ groups' = [groups EXCEPT ![w] = @ \cup {e}]
      /\ points' = [points EXCEPT ![w] = @ + 1]
      /\ todo' = [todo EXCEPT ![w] = rest]
      /\ loaded' = [loaded EXCEPT ![w] = NoSlot]
    BY DEF AddTo, AddStalenessMarker, AddPoint, Insert
<1> HIDE DEF e, rest
<1>4. /\ groups' \in [Workers -> SUBSET GroupOf] /\ groups'[w] = groups[w] \cup {e}
      /\ \A v \in Workers \ {w} : groups'[v] = groups[v]
    BY <1>0, <1>2, <1>3 DEF Typed
<1>5. /\ points' \in [Workers -> Nat] /\ points'[w] = points[w] + 1
      /\ \A v \in Workers \ {w} : points'[v] = points[v]
    BY <1>0, <1>3 DEF Typed, TypeOK
<1>6. /\ todo' \in [Workers -> Seq(Int)] /\ todo'[w] = rest
      /\ \A v \in Workers \ {w} : todo'[v] = todo[v]
    BY <1>0, <1>1, <1>3 DEF Typed
<1>7. NoSlot \in SlotOf
    BY DEF NoSlot, SlotOf
<1>8. loaded' \in [Workers -> SlotOf]
    BY <1>0, <1>3, <1>7 DEF Typed
<1>9. Own(w)'
    BY <1>0, <1>2, <1>4 DEF WorkerInv, Own
<1>10. points[w] \in Nat /\ points[w] + Len(todo[w]) =< PointsPerRequest + 1 /\ PointsPerRequest \in Nat \ {0}
    BY <1>0, GenAssumption DEF WorkerInv, Room, Typed, TypeOK
<1>11. CASE AddStalenessMarker(w, gen)
  <2>0. Len(todo[w]) > 1
    BY <1>11, Zenon DEF AddStalenessMarker
  <2>1. Len(todo[w]) = 2
    <3> DEFINE len == Len(todo[w])
    <3>1. len \in 1 .. 2 /\ len > 1
      BY <1>0, <2>0
    <3> HIDE DEF len
    <3>2. len = 2
      BY <3>1
    <3> QED
      BY <3>2 DEF len
  <2>2. pc' = [pc EXCEPT ![w] = "group"] /\ UNCHANGED <<pos, ser, attempt, then>>
    BY <1>11 DEF AddStalenessMarker, Goto
  <2>3. /\ pc' \in [Workers -> {"dial", "loop", "wait", "group", "publish", "export", "backoff", "returned", "ended"}]
        /\ pc'[w] = "group" /\ \A v \in Workers \ {w} : pc'[v] = pc[v]
    BY <1>0, <2>2 DEF Typed, TypeOK
  <2>4. Typed'
    BY <1>0, <1>4, <1>5, <1>6, <1>8, <2>2, <2>3 DEF Typed, TypeOK
  <2>6. Place(w)'
    BY <1>0, <1>1, <1>6, <2>1, <2>2, <2>3 DEF Place, AtWork
  <2>7. Room(w)'
    <3>1. points'[w] =< PointsPerRequest /\ points'[w] + Len(todo'[w]) =< PointsPerRequest + 1
      <4>1. Len(todo'[w]) = 2 - 1 /\ points[w] + 2 =< PointsPerRequest + 1
        BY <1>1, <1>6, <1>10, <2>1, Zenon
      <4> QED
        BY <1>5, <1>10, <4>1
    <3>2. points'[w] =< PointsPerRequest + 1
      BY <1>5, <1>10, <2>1
    <3> QED
      BY <2>3, <3>1, <3>2 DEF Room, AtWork, RequestBounded
  <2>8. \A v \in Workers \ {w} : Untouched(v)
    BY <1>4, <1>5, <1>6, <2>2, <2>3 DEF Untouched
  <2> QED
    BY <1>9, <2>4, <2>6, <2>7, <2>8, OneWorker DEF WorkerInv
<1>12. CASE AddPoint(w, gen)
  <2> DEFINE full == points[w] + 1 >= PointsPerRequest
             to == IF full THEN "export" ELSE "loop"
  <2>1. Len(todo[w]) = 1 /\ ser' = [ser EXCEPT ![w] = @ + Threads] /\ pos' = pos
    BY <1>12 DEF AddPoint
  <2>2. /\ pc' = [pc EXCEPT ![w] = to]
        /\ attempt' \in {attempt, [attempt EXCEPT ![w] = 1]}
        /\ then' \in {then, [then EXCEPT ![w] = "loop"]}
    BY <1>12 DEF AddPoint, Goto
  <2>3. /\ pc' \in [Workers -> {"dial", "loop", "wait", "group", "publish", "export", "backoff", "returned", "ended"}]
        /\ pc'[w] = to /\ \A v \in Workers \ {w} : pc'[v] = pc[v]
    BY <1>0, <2>2 DEF Typed, TypeOK
  <2>4. ser' \in [Workers -> Nat] /\ pos' \in [Workers -> Nat]
    BY <1>0, <2>1, GenAssumption DEF Typed, TypeOK
  <2>5. /\ attempt' \in [Workers -> 0 .. MaxFlushAttempts]
        /\ \A v \in Workers \ {w} : attempt'[v] = attempt[v]
    <3>1. 1 \in 0 .. MaxFlushAttempts /\ attempt \in [Workers -> 0 .. MaxFlushAttempts]
      BY <1>0, GenAssumption DEF Typed, TypeOK
    <3>2. CASE attempt' = attempt
      BY <3>1, <3>2
    <3>3. CASE attempt' = [attempt EXCEPT ![w] = 1]
      BY <3>1, <3>3
    <3> QED
      BY <2>2, <3>2, <3>3
  <2>6. then' \in [Workers -> {"loop", "wait", "ended"}]
    BY <1>0, <2>2 DEF Typed, TypeOK
  <2>7. Typed'
    BY <1>0, <1>4, <1>5, <1>6, <1>8, <2>3, <2>4, <2>5, <2>6 DEF Typed, TypeOK
  <2>8. Place(w)'
    BY <2>3 DEF Place, AtWork
  <2>9. Room(w)'
    BY <1>5, <1>10, <2>1, <2>3 DEF Room, AtWork, RequestBounded
  <2>10. \A v \in Workers \ {w} : Untouched(v)
    BY <1>4, <1>5, <1>6, <2>3, <2>5 DEF Untouched
  <2> QED
    BY <1>9, <2>7, <2>8, <2>9, <2>10, OneWorker DEF WorkerInv
<1> QED
    BY <1>11, <1>12 DEF AddTo

\* resourcePool.get, up to the load of the slot.
LEMMA GroupKeeps ==
    ASSUME IInv, NEW w \in Workers, Group(w)
    PROVE  IInv'
<1> DEFINE gen == Head(todo[w])
           r == ResourceOf(Current(w))
           slot == slots[r]
<1>0. /\ Typed /\ SlotsFaithful /\ WorkerInv(w) /\ AtWork(w) /\ Len(todo[w]) \in 1 .. 2
      /\ slots' = slots
      /\ UNCHANGED <<run, cancelled, k, allowance, settled>>
    BY DEF IInv, WorkerInv, Place, Group, AtWork
<1>1. slots' \in [0 .. Resources - 1 -> SlotOf] /\ SlotsFaithful'
    BY <1>0, SlotsKept DEF Typed
<1>2. r \in 0 .. Resources - 1
    BY <1>0, CurrentResource
<1>3. slot \in SlotOf /\ slot.res = slot.gen
    BY <1>0, <1>2 DEF Typed, SlotsFaithful
<1>4. CASE \E g \in Known(w) : AddTo(w, g.res)
  <2>1. PICK g \in Known(w) : AddTo(w, g.res)
    BY <1>4
  <2>2. g.res = gen
    BY <1>0 DEF Known, WorkerInv, Own
  <2>3. AddTo(w, gen)
    BY <2>1, <2>2
  <2> QED
    BY <1>0, <1>1, <2>3, AddToKeeps
<1>5. CASE Hit(slot, gen) /\ AddTo(w, IF slot.prev = gen THEN slot.prev ELSE slot.res)
  <2>1. (IF slot.prev = gen THEN slot.prev ELSE slot.res) = gen
    BY <1>3, <1>5 DEF Hit
  <2>2. AddTo(w, gen)
    BY <1>5, <2>1
  <2> QED
    BY <1>0, <1>1, <2>2, AddToKeeps
<1>6. CASE /\ loaded' = [loaded EXCEPT ![w] = slot] /\ Goto(w, "publish")
           /\ UNCHANGED <<groups, points, todo, last, pos, ser, attempt, then>>
  <2> HIDE DEF slot
  <2>1. loaded' \in [Workers -> SlotOf]
    BY <1>0, <1>3, <1>6 DEF Typed
  <2>2. /\ pc' \in [Workers -> {"dial", "loop", "wait", "group", "publish", "export", "backoff", "returned", "ended"}]
        /\ pc'[w] = "publish" /\ \A v \in Workers \ {w} : pc'[v] = pc[v]
    BY <1>0, <1>6 DEF Typed, TypeOK, Goto
  <2>3. Typed'
    BY <1>0, <1>6, <2>1, <2>2 DEF Typed, TypeOK
  <2>5. Place(w)'
    BY <1>0, <1>6, <2>2 DEF Place, AtWork
  <2>6. Room(w)'
    BY <1>0, <1>6, <2>2 DEF WorkerInv, Room, AtWork, RequestBounded
  <2>7. Own(w)'
    BY <1>0, <1>6 DEF WorkerInv, Own
  <2>8. \A v \in Workers \ {w} : Untouched(v)
    BY <1>0, <1>6, <2>2 DEF Untouched
  <2> QED
    BY <1>0, <1>1, <2>3, <2>5, <2>6, <2>7, <2>8, OneWorker DEF WorkerInv
<1> QED
    BY <1>4, <1>5, <1>6 DEF Group

\* What a publication does to the cache: nothing, or a step to the generation
\* published, which remembers the one before it.
Advanced(w) == [gen |-> Head(todo[w]), prev |-> loaded[w].gen, res |-> Head(todo[w])]

\* A slot is only replaced by a newer one that remembers it.
LEMMA Published ==
    ASSUME IInv, NEW w \in Workers, Publish(w)
    PROVE  \/ slots' = slots
           \/ LET r == ResourceOf(Current(w)) IN
              /\ r \in 0 .. Resources - 1 /\ slots[r] = loaded[w] /\ loaded[w].gen < Head(todo[w])
              /\ Advanced(w) \in SlotOf /\ slots' = [slots EXCEPT ![r] = Advanced(w)]
<1>0. /\ Typed /\ Len(todo[w]) \in 1 .. 2 /\ loaded[w] \in SlotOf
    BY DEF IInv, WorkerInv, Place, Publish, AtWork, Typed
<1>1. Head(todo[w]) \in Int /\ ResourceOf(Current(w)) \in 0 .. Resources - 1
    BY <1>0, TodoFacts, CurrentResource
<1>2. Advanced(w) \in SlotOf
    BY <1>0, <1>1 DEF Advanced, SlotOf
<1> QED
    BY <1>1, <1>2, Zenon DEF Publish, Advanced

\* The resource is built and published, if nobody was faster.
LEMMA PublishKeeps ==
    ASSUME IInv, NEW w \in Workers, Publish(w)
    PROVE  IInv'
<1>0. /\ Typed /\ SlotsFaithful /\ AtWork(w) /\ AddTo(w, Head(todo[w]))
      /\ UNCHANGED <<run, cancelled, k, allowance, settled>>
    BY DEF IInv, Publish, AtWork
<1>1. slots' \in [0 .. Resources - 1 -> SlotOf] /\ SlotsFaithful'
  <2>1. CASE slots' = slots
    BY <1>0, <2>1, SlotsKept DEF Typed
  <2>2. CASE /\ Advanced(w) \in SlotOf
             /\ slots' = [slots EXCEPT ![ResourceOf(Current(w))] = Advanced(w)]
    <3>1. Advanced(w).res = Advanced(w).gen
      BY DEF Advanced
    <3> QED
      BY <1>0, <2>2, <3>1 DEF Typed, SlotsFaithful
  <2> QED
    BY <2>1, <2>2, Published
<1> QED
    BY <1>0, <1>1, AddToKeeps

\* A worker goes from one place to another, neither of which has a point under
\* way, and keeps its request.
LEMMA MoveKeeps ==
    ASSUME IInv, NEW w \in Workers, UNCHANGED <<run, cancelled, todo, loaded, groups, points, settled, slots>>,
           NEW l \in {"loop", "wait", "export", "backoff", "returned", "ended"},
           pc' = [pc EXCEPT ![w] = l],
           l \in {"loop", "wait"} => points[w] < PointsPerRequest,
           l = "ended" => points[w] = 0,
           k' \in [Workers -> Nat], pos' \in [Workers -> Nat], ser' \in [Workers -> Nat],
           allowance' \in [Workers -> 0 .. ChunkSize],
           attempt' \in [Workers -> 0 .. MaxFlushAttempts],
           then' \in [Workers -> {"loop", "wait", "ended"}],
           l = "backoff" => attempt'[w] < MaxFlushAttempts,
           \A v \in Workers \ {w} : attempt'[v] = attempt[v]
    PROVE  IInv'
<1>0. Typed /\ SlotsFaithful /\ WorkerInv(w)
    BY DEF IInv
<1>1. /\ pc' \in [Workers -> {"dial", "loop", "wait", "group", "publish", "export", "backoff", "returned", "ended"}]
      /\ pc'[w] = l /\ \A v \in Workers \ {w} : pc'[v] = pc[v]
    BY <1>0 DEF Typed, TypeOK
<1>2. Typed'
    BY <1>0, <1>1 DEF Typed, TypeOK
<1>3. Place(w)'
    BY <1>1 DEF Place, AtWork
<1>4. Room(w)'
    BY <1>0, <1>1 DEF WorkerInv, Room, AtWork, RequestBounded
<1>5. Own(w)'
    BY <1>0 DEF WorkerInv, Own
<1>6. \A v \in Workers \ {w} : Untouched(v)
    BY <1>1 DEF Untouched
<1>7. SlotsFaithful'
    BY <1>0, SlotsKept
<1> QED
    BY <1>2, <1>3, <1>4, <1>5, <1>6, <1>7, OneWorker DEF WorkerInv

\* The types of what a step changes for one worker at a time.
LEMMA Kept ==
    ASSUME IInv, NEW w \in Workers
    PROVE  /\ pc \in [Workers -> {"dial", "loop", "wait", "group", "publish", "export", "backoff", "returned", "ended"}]
           /\ k \in [Workers -> Nat] /\ pos \in [Workers -> Nat] /\ ser \in [Workers -> Nat]
           /\ allowance \in [Workers -> 0 .. ChunkSize]
           /\ points \in [Workers -> Nat] /\ attempt \in [Workers -> 0 .. MaxFlushAttempts]
           /\ then \in [Workers -> {"loop", "wait", "ended"}]
           /\ ChunkSize \in 0 .. ChunkSize /\ ChunkSize \in Nat /\ MaxFlushAttempts \in Nat \ {0}
           /\ PointsPerRequest \in Nat \ {0}
           /\ 0 \in 0 .. MaxFlushAttempts /\ 1 \in 0 .. MaxFlushAttempts
           /\ pc[w] \in {"dial", "loop", "wait"} => points[w] < PointsPerRequest
<1>1. /\ pc \in [Workers -> {"dial", "loop", "wait", "group", "publish", "export", "backoff", "returned", "ended"}]
      /\ k \in [Workers -> Nat] /\ pos \in [Workers -> Nat] /\ ser \in [Workers -> Nat]
      /\ allowance \in [Workers -> 0 .. ChunkSize]
      /\ points \in [Workers -> Nat] /\ attempt \in [Workers -> 0 .. MaxFlushAttempts]
      /\ then \in [Workers -> {"loop", "wait", "ended"}]
    BY DEF IInv, Typed, TypeOK
<1>2. /\ ChunkSize \in 0 .. ChunkSize /\ ChunkSize \in Nat /\ MaxFlushAttempts \in Nat \ {0}
      /\ PointsPerRequest \in Nat \ {0}
      /\ 0 \in 0 .. MaxFlushAttempts /\ 1 \in 0 .. MaxFlushAttempts
    BY GenAssumption
<1>3. pc[w] \in {"dial", "loop", "wait"} => points[w] < PointsPerRequest
    BY DEF IInv, WorkerInv, Room
<1> QED
    BY <1>1, <1>2, <1>3

LEMMA WorkerNat == Threads \in Nat \ {0} /\ \A w \in Workers : w \in Nat /\ w < Threads
BY GenAssumption DEF Workers

LEMMA DialKeeps ==
    ASSUME IInv, NEW w \in Workers, Dial(w)
    PROVE  IInv'
<1>1. PICK l \in {"loop", "returned"} : pc' = [pc EXCEPT ![w] = l]
    BY DEF Dial, Goto
<1>2. pc[w] = "dial"
    BY DEF Dial
<1>3. UNCHANGED <<run, cancelled, k, pos, ser, allowance, todo, loaded, groups, points, attempt, then, settled, slots>>
    BY DEF Dial, request
<1>4. points[w] < PointsPerRequest
    BY <1>2, Kept
<1> QED
    BY <1>1, <1>3, <1>4, Kept, MoveKeeps

LEMMA CheckpointKeeps ==
    ASSUME IInv, NEW w \in Workers, Checkpoint(w)
    PROVE  IInv'
<1>1. UNCHANGED <<run, cancelled, k, pos, ser, allowance, todo, loaded, groups, points, settled, slots>>
    BY DEF Checkpoint
<1>2. points[w] < PointsPerRequest
    BY Kept DEF Checkpoint
<1>3. CASE (Goto(w, "returned") \/ Goto(w, "wait")) /\ UNCHANGED <<attempt, then>>
  <2>1. PICK l \in {"returned", "wait"} : pc' = [pc EXCEPT ![w] = l]
    BY <1>3 DEF Goto
  <2> QED
    BY <1>1, <1>2, <1>3, <2>1, Kept, MoveKeeps
<1>4. CASE /\ Goto(w, "export") /\ attempt' = [attempt EXCEPT ![w] = 1]
           /\ then' = [then EXCEPT ![w] = "wait"]
  <2>1. /\ attempt' \in [Workers -> 0 .. MaxFlushAttempts] /\ then' \in [Workers -> {"loop", "wait", "ended"}]
        /\ \A v \in Workers \ {w} : attempt'[v] = attempt[v]
    BY <1>4, Kept
  <2>2. pc' = [pc EXCEPT ![w] = "export"]
    BY <1>4 DEF Goto
  <2> QED
    BY <1>1, <2>1, <2>2, Kept, MoveKeeps
<1> QED
    BY <1>3, <1>4 DEF Checkpoint

LEMMA LimiterWaitKeeps ==
    ASSUME IInv, NEW w \in Workers, LimiterWait(w)
    PROVE  IInv'
<1>1. UNCHANGED <<run, cancelled, k, pos, ser, todo, loaded, groups, points, attempt, then, settled, slots>>
    BY DEF LimiterWait, request
<1>2. points[w] < PointsPerRequest
    BY Kept DEF LimiterWait
<1>3. PICK l \in {"loop", "returned"} : pc' = [pc EXCEPT ![w] = l]
    BY DEF LimiterWait, Goto
<1>4. allowance' \in [Workers -> 0 .. ChunkSize]
    BY Kept DEF LimiterWait
<1> QED
    BY <1>1, <1>2, <1>3, <1>4, Kept, MoveKeeps

LEMMA NextMetricKeeps ==
    ASSUME IInv, NEW w \in Workers, NextMetric(w)
    PROVE  IInv'
<1>1. UNCHANGED <<run, cancelled, pc, k, allowance, todo, loaded, groups, points, attempt, then, settled, slots>>
    BY DEF NextMetric, request
<1>2. points[w] < PointsPerRequest /\ pc[w] = "loop"
    BY Kept DEF NextMetric
<1>3. pos' \in [Workers -> Nat] /\ ser' \in [Workers -> Nat]
    BY Kept, WorkerNat DEF NextMetric
<1>4. pc' = [pc EXCEPT ![w] = "loop"]
    BY <1>1, <1>2, Kept
<1> QED
    BY <1>1, <1>2, <1>3, <1>4, Kept, MoveKeeps

LEMMA EndSweepKeeps ==
    ASSUME IInv, NEW w \in Workers, EndSweep(w)
    PROVE  IInv'
<1>1. UNCHANGED <<run, cancelled, allowance, todo, loaded, groups, points, settled, slots>>
    BY DEF EndSweep
<1>2. points[w] < PointsPerRequest /\ pc[w] = "loop"
    BY Kept DEF EndSweep
<1>3. CASE /\ k' = [k EXCEPT ![w] = IF AtBound(w) THEN @ ELSE @ + 1] /\ pos' = [pos EXCEPT ![w] = 0]
           /\ ser' = [ser EXCEPT ![w] = w] /\ UNCHANGED <<pc, attempt, then>>
  <2>1. k' \in [Workers -> Nat] /\ pos' \in [Workers -> Nat] /\ ser' \in [Workers -> Nat]
    BY <1>3, Kept, WorkerNat
  <2>2. pc' = [pc EXCEPT ![w] = "loop"]
    BY <1>2, <1>3, Kept
  <2> QED
    BY <1>1, <1>2, <1>3, <2>1, <2>2, Kept, MoveKeeps
<1>4. CASE /\ Goto(w, IF points[w] > 0 THEN "export" ELSE "ended")
           /\ attempt' = [attempt EXCEPT ![w] = IF points[w] > 0 THEN 1 ELSE 0]
           /\ then' = [then EXCEPT ![w] = "ended"] /\ UNCHANGED <<k, pos, ser>>
  <2>1. /\ attempt' \in [Workers -> 0 .. MaxFlushAttempts] /\ then' \in [Workers -> {"loop", "wait", "ended"}]
        /\ \A v \in Workers \ {w} : attempt'[v] = attempt[v]
    BY <1>4, Kept
  <2>2. PICK l \in {"export", "ended"} : pc' = [pc EXCEPT ![w] = l] /\ (l = "ended" => ~ (points[w] > 0))
    BY <1>4 DEF Goto
  <2>3. l = "ended" => points[w] = 0
    BY <2>2, Kept
  <2> QED
    BY <1>1, <1>4, <2>1, <2>2, <2>3, Kept, MoveKeeps
<1> QED
    BY <1>3, <1>4 DEF EndSweep

\* The builder is reset: Run goes on where flush was called from.
LEMMA SettleKeeps ==
    ASSUME IInv, NEW w \in Workers, Settle(w),
           UNCHANGED <<run, cancelled, k, pos, ser, allowance, todo, loaded, slots>>
    PROVE  IInv'
<1>0. Typed /\ SlotsFaithful /\ WorkerInv(w) /\ then[w] \in {"loop", "wait", "ended"}
    BY Kept DEF IInv
<1>1. /\ groups' = [groups EXCEPT ![w] = {}] /\ points' = [points EXCEPT ![w] = 0]
      /\ attempt' = [attempt EXCEPT ![w] = 0] /\ pc' = [pc EXCEPT ![w] = then[w]] /\ then' = then
    BY DEF Settle, Goto
<1>2. settled' \in [Workers -> Nat]
    BY <1>0 DEF Settle, Typed, TypeOK
<1>3. /\ pc' \in [Workers -> {"dial", "loop", "wait", "group", "publish", "export", "backoff", "returned", "ended"}]
      /\ pc'[w] = then[w] /\ \A v \in Workers \ {w} : pc'[v] = pc[v]
    BY <1>0, <1>1 DEF Typed, TypeOK
<1>4. /\ groups' \in [Workers -> SUBSET GroupOf] /\ groups'[w] = {}
      /\ \A v \in Workers \ {w} : groups'[v] = groups[v]
    BY <1>0, <1>1 DEF Typed
<1>5. /\ points' \in [Workers -> Nat] /\ points'[w] = 0
      /\ \A v \in Workers \ {w} : points'[v] = points[v]
    BY <1>1, Kept
<1>6. /\ attempt' \in [Workers -> 0 .. MaxFlushAttempts]
      /\ \A v \in Workers \ {w} : attempt'[v] = attempt[v]
    BY <1>1, Kept
<1>7. Typed'
    BY <1>0, <1>1, <1>2, <1>3, <1>4, <1>5, <1>6 DEF Typed, TypeOK
<1>8. Place(w)'
    BY <1>0, <1>3 DEF Place, AtWork
<1>9. Room(w)'
    BY <1>0, <1>3, <1>5, Kept DEF Room, AtWork, RequestBounded
<1>10. Own(w)'
    BY <1>4 DEF Own
<1>11. \A v \in Workers \ {w} : Untouched(v)
    BY <1>3, <1>4, <1>5, <1>6 DEF Untouched
<1>12. SlotsFaithful'
    BY <1>0, SlotsKept
<1> QED
    BY <1>7, <1>8, <1>9, <1>10, <1>11, <1>12, OneWorker DEF WorkerInv

LEMMA ExportKeeps ==
    ASSUME IInv, NEW w \in Workers, Export(w)
    PROVE  IInv'
<1>1. UNCHANGED <<run, cancelled, k, pos, ser, allowance, todo, loaded, slots>>
    BY DEF Export
<1>2. CASE Settle(w)
    BY <1>1, <1>2, SettleKeeps
<1>3. CASE ~ (attempt[w] >= MaxFlushAttempts) /\ Goto(w, "backoff") /\ UNCHANGED request
  <2>1. pc' = [pc EXCEPT ![w] = "backoff"] /\ UNCHANGED <<groups, points, attempt, then, settled>>
    BY <1>3 DEF Goto, request
  <2>2. attempt'[w] < MaxFlushAttempts
    BY <1>3, <2>1, Kept
  <2> QED
    BY <1>1, <2>1, <2>2, Kept, MoveKeeps
<1> QED
    BY <1>2, <1>3, Zenon DEF Export

LEMMA BackoffKeeps ==
    ASSUME IInv, NEW w \in Workers, Backoff(w)
    PROVE  IInv'
<1>1. UNCHANGED <<run, cancelled, k, pos, ser, allowance, todo, loaded, slots>> /\ pc[w] = "backoff"
    BY DEF Backoff
<1>2. CASE Settle(w)
    BY <1>1, <1>2, SettleKeeps
<1>3. CASE /\ attempt' = [attempt EXCEPT ![w] = @ + 1] /\ Goto(w, "export")
           /\ UNCHANGED <<groups, points, then, settled>>
  <2>0. attempt[w] < MaxFlushAttempts
    BY <1>1 DEF IInv, WorkerInv, Place
  <2>1. /\ attempt' \in [Workers -> 0 .. MaxFlushAttempts]
        /\ \A v \in Workers \ {w} : attempt'[v] = attempt[v]
    BY <1>3, <2>0, Kept
  <2>2. pc' = [pc EXCEPT ![w] = "export"]
    BY <1>3 DEF Goto
  <2> QED
    BY <1>1, <1>3, <2>1, <2>2, Kept, MoveKeeps
<1> QED
    BY <1>2, <1>3 DEF Backoff

\* addPoint begins: the generations a point needs, one or two.
LEMMA BeginPointKeeps ==
    ASSUME IInv, NEW w \in Workers, BeginPoint(w)
    PROVE  IInv'
<1> DEFINE gen == generation(ResourceOf(Current(w)), k[w])
           needs == IF StalenessMarkers /\ generationChanged(ResourceOf(Current(w)), k[w])
                    THEN <<gen - 1, gen>> ELSE <<gen>>
<1>0. Typed /\ SlotsFaithful /\ WorkerInv(w) /\ k[w] \in Nat
    BY Kept DEF IInv, BeginPoint, MorePoints
<1>1. UNCHANGED <<run, cancelled, k, pos, ser, loaded, groups, points, attempt, then, settled, slots>>
    BY DEF BeginPoint, request
<1>2. pc[w] = "loop" /\ points[w] < PointsPerRequest /\ points[w] \in Nat
    BY Kept DEF BeginPoint
<1>3. todo' = [todo EXCEPT ![w] = needs] /\ pc' = [pc EXCEPT ![w] = "group"]
    BY Zenon DEF BeginPoint, Goto
<1>4. gen \in Nat
    BY <1>0, GenerationNat
<1>5. needs \in Seq(Int) /\ Len(needs) \in 1 .. 2
  <2> HIDE DEF gen
  <2>1. <<gen>> \in Seq(Int) /\ <<gen - 1, gen>> \in Seq(Int) /\ Len(<<gen>>) = 1 /\ Len(<<gen - 1, gen>>) = 2
    BY <1>4
  <2> QED
    BY <2>1
<1> HIDE DEF needs
<1>6. /\ todo' \in [Workers -> Seq(Int)] /\ todo'[w] = needs
      /\ \A v \in Workers \ {w} : todo'[v] = todo[v]
    BY <1>0, <1>3, <1>5 DEF Typed
<1>7. /\ pc' \in [Workers -> {"dial", "loop", "wait", "group", "publish", "export", "backoff", "returned", "ended"}]
      /\ pc'[w] = "group" /\ \A v \in Workers \ {w} : pc'[v] = pc[v]
    BY <1>3, Kept
<1>8. allowance' \in [Workers -> 0 .. ChunkSize]
    BY Kept DEF BeginPoint
<1>9. Typed'
    BY <1>0, <1>1, <1>6, <1>7, <1>8 DEF Typed, TypeOK
<1>11. Place(w)'
    BY <1>0, <1>1, <1>5, <1>6, <1>7 DEF Place, AtWork
<1>12. Room(w)'
  <2> DEFINE len == Len(needs)
  <2>1. len \in 1 .. 2 /\ len = Len(todo'[w])
    BY <1>5, <1>6
  <2> HIDE DEF len
  <2>2. PointsPerRequest \in Nat
    BY Kept
  <2>3. points[w] + len =< PointsPerRequest + 1 /\ points[w] =< PointsPerRequest + 1
    <3> DEFINE p == points[w]
    <3>1. p \in Nat /\ p < PointsPerRequest /\ len \in 1 .. 2
      BY <1>2, <2>1
    <3> HIDE DEF p
    <3>2. p + len =< PointsPerRequest + 1 /\ p =< PointsPerRequest + 1
      BY <2>2, <3>1
    <3> QED
      BY <3>2 DEF p
  <2> QED
    BY <1>1, <1>7, <2>1, <2>3 DEF Room, AtWork, RequestBounded
<1>13. Own(w)'
    BY <1>0, <1>1 DEF WorkerInv, Own
<1>14. \A v \in Workers \ {w} : Untouched(v)
    BY <1>1, <1>6, <1>7 DEF Untouched
<1>15. SlotsFaithful'
    BY <1>0, <1>1, SlotsKept
<1> QED
    BY <1>1, <1>9, <1>11, <1>12, <1>13, <1>14, <1>15, OneWorker DEF WorkerInv

-----------------------------------------------------------------------------
(* The theorems *)

LEMMA InitHolds == Init => IInv
<1> SUFFICES ASSUME Init PROVE IInv
    OBVIOUS
<1>1. NoSlot \in SlotOf /\ NoSlot.res = NoSlot.gen
    BY DEF NoSlot, SlotOf
<1>2. TypeOK /\ run \in Runs
  <2>1. 0 \in 0 .. ChunkSize /\ 0 \in 0 .. MaxFlushAttempts
    BY GenAssumption
  <2>2. cancelled \in BOOLEAN /\ run \in Runs
    BY Zenon DEF Init
  <2>3. pc \in [Workers -> {"dial", "loop", "wait", "group", "publish", "export", "backoff", "returned", "ended"}]
    BY DEF Init
  <2>4. /\ k \in [Workers -> Nat] /\ pos \in [Workers -> Nat] /\ ser \in [Workers -> Nat]
        /\ points \in [Workers -> Nat]
        /\ settled \in [Workers -> Nat]
    BY WorkerNat DEF Init
  <2>5. allowance \in [Workers -> 0 .. ChunkSize] /\ attempt \in [Workers -> 0 .. MaxFlushAttempts]
    BY <2>1 DEF Init
  <2>6. then \in [Workers -> {"loop", "wait", "ended"}]
    BY DEF Init
  <2> QED
    BY <2>2, <2>3, <2>4, <2>5, <2>6, Zenon DEF TypeOK
<1>3. /\ slots \in [0 .. Resources - 1 -> SlotOf] /\ loaded \in [Workers -> SlotOf]
      /\ todo \in [Workers -> Seq(Int)] /\ groups \in [Workers -> SUBSET GroupOf]
    BY <1>1 DEF Init
<1>4. SlotsFaithful
    BY <1>1 DEF Init, SlotsFaithful
<1>5. ASSUME NEW w \in Workers PROVE WorkerInv(w)
    BY GenAssumption DEF Init, WorkerInv, Place, Room, Own, AtWork, RequestBounded
<1> QED
    BY <1>2, <1>3, <1>4, <1>5 DEF IInv, Typed

LEMMA StepHolds == IInv /\ [Next]_vars => IInv'
<1> SUFFICES ASSUME IInv, [Next]_vars PROVE IInv'
    OBVIOUS
<1>1. CASE Cancel \/ UNCHANGED vars
  <2>1. UNCHANGED <<run, pc, k, pos, ser, allowance, todo, loaded, groups, points, attempt, then, settled, slots>>
    BY <1>1 DEF Cancel, vars, place, request
  <2>2. cancelled' \in BOOLEAN
    BY <1>1 DEF Cancel, vars, IInv, Typed, TypeOK
  <2>3. Typed' /\ SlotsFaithful'
    BY <2>1, <2>2, SlotsKept DEF IInv, Typed, TypeOK
  <2>4. ASSUME NEW v \in Workers PROVE WorkerInv(v)'
    BY <2>1, OtherWorkers DEF IInv, Untouched
  <2> QED
    BY <2>3, <2>4 DEF IInv
<1>2. ASSUME NEW w \in Workers, Worker(w) PROVE IInv'
    BY <1>2, DialKeeps, CheckpointKeeps, LimiterWaitKeeps, BeginPointKeeps, NextMetricKeeps, EndSweepKeeps,
       GroupKeeps, PublishKeeps, ExportKeeps, BackoffKeeps DEF Worker
<1> QED
    BY <1>1, <1>2 DEF Next, Rest

\* resources.go, builder.go, worker.go: the invariant above holds of every
\* interleaving of the workers.
THEOREM Invariance == Spec => []IInv
BY InitHolds, StepHolds, PTL DEF Spec

\* The types of the state of every worker; the number of a flush attempt stays
\* within maxFlushAttempts, however failures and cancellations fall.
THEOREM TypeCorrect == Spec => []TypeOK
<1>1. IInv => TypeOK
    BY DEF IInv, Typed
<1> QED
    BY <1>1, Invariance, PTL

\* A slot changes only forward and remembers the generation it replaces.
SlotsAdvance == \A r \in DOMAIN slots : slots'[r] # slots[r] =>
                    slots'[r].gen > slots[r].gen /\ slots'[r].prev = slots[r].gen

LEMMA StepAdvances == IInv /\ [Next]_vars => SlotsAdvance
<1> SUFFICES ASSUME IInv, [Next]_vars PROVE SlotsAdvance
    OBVIOUS
<1>1. CASE slots' = slots
    BY <1>1 DEF SlotsAdvance
<1>2. ASSUME NEW w \in Workers, Publish(w) PROVE SlotsAdvance
  <2> DEFINE r == ResourceOf(Current(w))
  <2> HIDE DEF r
  <2>1. CASE /\ r \in 0 .. Resources - 1 /\ slots[r] = loaded[w] /\ loaded[w].gen < Head(todo[w])
             /\ Advanced(w) \in SlotOf /\ slots' = [slots EXCEPT ![r] = Advanced(w)]
    <3>1. slots \in [0 .. Resources - 1 -> SlotOf] /\ loaded[w] \in SlotOf
      BY DEF IInv, Typed
    <3>2. /\ slots'[r] = Advanced(w)
          /\ \A q \in DOMAIN slots : q # r => slots'[q] = slots[q]
      BY <2>1, <3>1
    <3>3. Advanced(w).gen > slots[r].gen /\ Advanced(w).prev = slots[r].gen
      <4>1. Advanced(w).gen = Head(todo[w]) /\ Advanced(w).prev = loaded[w].gen
        BY DEF Advanced
      <4>2. Advanced(w).gen \in Int /\ loaded[w].gen \in Int
        BY <2>1, <3>1 DEF SlotOf
      <4> QED
        BY <2>1, <4>1, <4>2
    <3> QED
      BY <3>2, <3>3 DEF SlotsAdvance
  <2> QED
    BY <1>1, <1>2, <2>1, Published DEF r
<1>3. \/ slots' = slots
      \/ \E w \in Workers : Publish(w)
    BY DEF Next, Cancel, Rest, Worker, Dial, Checkpoint, LimiterWait, BeginPoint, NextMetric,
       EndSweep, Group,
       Export, Backoff, vars
<1> QED
    BY <1>1, <1>2, <1>3

\* resources.go:55-81, builder.go:49-67, for every number of workers, resources
\* and sweeps: whichever workers race for a slot, a group carries the resource of
\* its own generation, a request has one group per resource, generation and scope,
\* and the cache only moves forward.
THEOREM CacheNeverMixesUp == Spec => CacheSound
<1>1. IInv => OwnIdentity
  <2> SUFFICES ASSUME IInv, NEW w \in Workers
               PROVE  /\ \A g \in groups[w] : g.res = g.gen
                      /\ \A g, h \in groups[w] : g.r = h.r /\ g.gen = h.gen /\ g.scope = h.scope => g = h
    BY DEF OwnIdentity
  <2>1. groups[w] \subseteq GroupOf /\ \A g \in groups[w] : g.res = g.gen
    BY DEF IInv, Typed, WorkerInv, Own
  <2>2. ASSUME NEW g \in groups[w], NEW h \in groups[w], g.r = h.r, g.gen = h.gen, g.scope = h.scope
        PROVE  g = h
    <3>1. g \in GroupOf /\ h \in GroupOf /\ g.res = h.res
      BY <2>1, <2>2
    <3>2. \A x \in GroupOf : x = [r |-> x.r, gen |-> x.gen, scope |-> x.scope, res |-> x.res]
      BY DEF GroupOf
    <3> QED
      BY <2>2, <3>1, <3>2
  <2> QED
    BY <2>1, <2>2
<1>2. IInv /\ [Next]_vars => [\A r \in DOMAIN slots : slots'[r] # slots[r] =>
              slots'[r].gen > slots[r].gen /\ slots'[r].prev = slots[r].gen]_vars
    BY StepAdvances DEF SlotsAdvance
<1> QED
    BY <1>1, <1>2, Invariance, PTL DEF Spec, CacheSound

\* worker.go:43-46, 154-209, for every request size: a request outgrows its limit
\* by at most the point that came with a staleness marker, and a worker that
\* has come to its end leaves no point behind.
THEOREM RequestsBounded == Spec => [](\A w \in Workers : RequestBounded(w))
<1>1. IInv => \A w \in Workers : RequestBounded(w)
    BY DEF IInv, WorkerInv, Room
<1> QED
    BY <1>1, Invariance, PTL

\* A staleness marker goes before the point of sweep q, and the generations that
\* point needs a group of.
Due(s, q) == StalenessMarkers /\ generationChanged(ResourceOf(s), q)
Needs(s, q) == LET gen == generation(ResourceOf(s), q) IN
    IF Due(s, q) THEN <<gen - 1, gen>> ELSE <<gen>>

\* A worker after its last sweep.
Ending(w) == pc[w] = "ended" \/ (pc[w] \in {"export", "backoff"} /\ then[w] = "ended")

\* Where the loops of Run may be: on a series of the worker's own stripe, short
\* of the end of the table, and after the last sweep at the start of none. A
\* point under way is one of the plan and what it still needs is known.
Course(w) ==
    /\ ser[w] % Threads = w /\ pos[w] =< Len(run.metrics)
    /\ MoreSweeps(w) \/ (k[w] = run.sweeps /\ pos[w] = 0 /\ ser[w] = w)
    /\ AtWork(w) => /\ MorePoints(w) /\ ~AtBound(w)
                    /\ todo[w] \in {Needs(Current(w), k[w]), <<generation(ResourceOf(Current(w)), k[w])>>}
    /\ Ending(w) => ~MoreSweeps(w)
    /\ AtBound(w) => \A s \in Owned(w) : ~Behind(w, s)

\* The point and the marker of series s at sweep q.
PointAt(s, q) == [k |-> q, gen |-> generation(ResourceOf(s), q), marker |-> FALSE, ts |-> PointTime(s, q),
                  start |-> StartTime(s, q), value |-> Value(s, q)]
MarkerAt(s, q) == [k |-> q, gen |-> generation(ResourceOf(s), q) - 1, marker |-> TRUE, ts |-> PointTime(s, q),
                   start |-> MarkerStart(s, q), value |-> <<>>]

\* What the last point or marker of a series is, read off its worker's place.
Owner(s) == s[2] % Threads
Marked(w, s) == AtWork(w) /\ Current(w) = s /\ Len(todo[w]) = 1 /\ Due(s, k[w])
Expected(w, s) ==
    IF Behind(w, s) THEN PointAt(s, k[w])
    ELSE IF Marked(w, s) THEN MarkerAt(s, k[w])
    ELSE IF k[w] = 0 THEN NoPoint ELSE PointAt(s, k[w] - 1)
History == /\ DOMAIN last = AllSeries
           /\ \A s \in Series : last[s] = Expected(Owner(s), s)

-----------------------------------------------------------------------------
(* What a step of a worker does to its place and to the history *)

Handled(w) == settled[w] + points[w]
Stays(w) == k'[w] = k[w] /\ pos'[w] = pos[w] /\ ser'[w] = ser[w]
Same(v) == /\ Stays(v) /\ todo'[v] = todo[v] /\ pc'[v] = pc[v] /\ then'[v] = then[v]
           /\ settled'[v] = settled[v] /\ points'[v] = points[v]

Quiet(w) ==
    /\ Stays(w) /\ todo'[w] = todo[w] /\ last' = last /\ Handled(w)' = Handled(w)
    /\ AtWork(w)' <=> AtWork(w)
    /\ Ending(w)' => Ending(w) \/ ~MoreSweeps(w)
Begins(w) ==
    /\ Stays(w) /\ last' = last /\ Handled(w)' = Handled(w)
    /\ ~AtWork(w) /\ AtWork(w)' /\ ~Ending(w)'
    /\ MorePoints(w) /\ ~AtBound(w) /\ todo'[w] = Needs(Current(w), k[w])
Marks(w) ==
    /\ Stays(w) /\ Handled(w)' = Handled(w) + 1
    /\ AtWork(w) /\ AtWork(w)' /\ ~Ending(w)'
    /\ Len(todo[w]) = 2 /\ todo'[w] = Tail(todo[w])
    /\ last' = [last EXCEPT ![Current(w)] =
                  [k |-> k[w], gen |-> Head(todo[w]), marker |-> TRUE, ts |-> PointTime(Current(w), k[w]),
                   start |-> MarkerStart(Current(w), k[w]), value |-> <<>>]]
Adds(w) ==
    /\ k'[w] = k[w] /\ pos'[w] = pos[w] /\ ser'[w] = ser[w] + Threads /\ Handled(w)' = Handled(w) + 1
    /\ AtWork(w) /\ ~AtWork(w)' /\ ~Ending(w)' /\ Len(todo[w]) = 1
    /\ last' = [last EXCEPT ![Current(w)] =
                  [k |-> k[w], gen |-> Head(todo[w]), marker |-> FALSE, ts |-> PointTime(Current(w), k[w]),
                   start |-> StartTime(Current(w), k[w]), value |-> Value(Current(w), k[w])]]
Moves(w) ==
    /\ k'[w] = k[w] /\ pos'[w] = pos[w] + 1 /\ ser'[w] = w /\ last' = last /\ Handled(w)' = Handled(w)
    /\ ~AtWork(w) /\ ~AtWork(w)' /\ ~Ending(w)'
    /\ MoreMetrics(w) /\ ~MorePoints(w)
Sweeps(w) ==
    /\ k'[w] = (IF AtBound(w) THEN k[w] ELSE k[w] + 1) /\ pos'[w] = 0 /\ ser'[w] = w
    /\ last' = last /\ Handled(w)' = Handled(w)
    /\ ~AtWork(w) /\ ~AtWork(w)' /\ ~Ending(w)'
    /\ MoreSweeps(w) /\ ~MoreMetrics(w)

Shape(w) == /\ run' = run /\ \A v \in Workers \ {w} : Same(v)
            /\ Quiet(w) \/ Begins(w) \/ Marks(w) \/ Adds(w) \/ Moves(w) \/ Sweeps(w)

\* A step that leaves the place, the history and the request of a worker alone.
LEMMA QuietShape ==
    ASSUME IInv, NEW w \in Workers, NEW l,
           UNCHANGED <<run, k, pos, ser, todo, last, settled, points>>,
           pc' = [pc EXCEPT ![w] = l],
           l \in {"group", "publish"} <=> AtWork(w),
           \A v \in Workers \ {w} : then'[v] = then[v],
           l = "ended" \/ (l \in {"export", "backoff"} /\ then'[w] = "ended") => Ending(w) \/ ~MoreSweeps(w)
    PROVE  Shape(w)
<1>1. pc'[w] = l /\ \A v \in Workers \ {w} : pc'[v] = pc[v]
    BY DEF IInv, Typed, TypeOK
<1>2. \A v \in Workers \ {w} : Same(v)
    BY <1>1 DEF Same, Stays
<1>3. Quiet(w)
    BY <1>1 DEF Quiet, Stays, Handled, AtWork, Ending
<1> QED
    BY <1>2, <1>3 DEF Shape

\* The end of a request moves its points from the builder to the settled.
LEMMA SettleShape ==
    ASSUME IInv, NEW w \in Workers, Settle(w), pc[w] \in {"export", "backoff"},
           UNCHANGED <<run, k, pos, ser, todo, last>>
    PROVE  Shape(w)
<1>1. /\ pc'[w] = then[w] /\ then' = then /\ then[w] \in {"loop", "wait", "ended"}
      /\ \A v \in Workers \ {w} : pc'[v] = pc[v]
    BY DEF Settle, Goto, IInv, Typed, TypeOK
<1>2. /\ points'[w] = 0 /\ settled'[w] = settled[w] + points[w] /\ settled[w] \in Nat /\ points[w] \in Nat
      /\ \A v \in Workers \ {w} : points'[v] = points[v] /\ settled'[v] = settled[v]
    BY DEF Settle, IInv, Typed, TypeOK
<1>3. \A v \in Workers \ {w} : Same(v)
    BY <1>1, <1>2 DEF Same, Stays
<1>4. Handled(w)' = Handled(w)
    BY <1>2 DEF Handled
<1>5. Quiet(w)
    BY <1>1, <1>4 DEF Quiet, Stays, AtWork, Ending
<1> QED
    BY <1>3, <1>5 DEF Shape

\* A marker or a point is added to the request and to the history.
LEMMA AddToShape ==
    ASSUME IInv, NEW w \in Workers, NEW res, AtWork(w), AddTo(w, res), UNCHANGED <<run, k, settled>>
    PROVE  Shape(w)
<1> DEFINE s == Current(w)
<1>0. /\ pc \in [Workers -> {"dial", "loop", "wait", "group", "publish", "export", "backoff", "returned", "ended"}]
      /\ points \in [Workers -> Nat] /\ settled \in [Workers -> Nat] /\ todo \in [Workers -> Seq(Int)]
      /\ ser \in [Workers -> Nat] /\ pos \in [Workers -> Nat] /\ then \in [Workers -> {"loop", "wait", "ended"}]
      /\ Len(todo[w]) \in 1 .. 2
    BY DEF IInv, Typed, TypeOK, WorkerInv, Place
<1>1. points' = [points EXCEPT ![w] = @ + 1] /\ todo' = [todo EXCEPT ![w] = Tail(todo[w])]
    BY DEF AddTo, AddStalenessMarker, AddPoint, Insert
<1>2. /\ points'[w] = points[w] + 1 /\ todo'[w] = Tail(todo[w])
      /\ \A v \in Workers \ {w} : points'[v] = points[v] /\ todo'[v] = todo[v]
    BY <1>0, <1>1
<1>3. Handled(w)' = Handled(w) + 1
    BY <1>0, <1>2 DEF Handled
<1>4. CASE AddStalenessMarker(w, res)
  <2>1. pc' = [pc EXCEPT ![w] = "group"] /\ UNCHANGED <<pos, ser, then>>
    BY <1>4 DEF AddStalenessMarker, Goto
  <2>2. pc'[w] = "group" /\ \A v \in Workers \ {w} : pc'[v] = pc[v]
    BY <1>0, <2>1
  <2>3. \A v \in Workers \ {w} : Same(v)
    BY <1>2, <2>1, <2>2 DEF Same, Stays
  <2>4. Len(todo[w]) = 2
    <3>1. Len(todo[w]) > 1
      BY <1>4 DEF AddStalenessMarker
    <3> DEFINE len == Len(todo[w])
    <3>2. len \in 1 .. 2 /\ len > 1
      BY <1>0, <3>1
    <3> HIDE DEF len
    <3>3. len = 2
      BY <3>2
    <3> QED
      BY <3>3 DEF len
  <2>5. last' = [last EXCEPT ![s] =
                  [k |-> k[w], gen |-> Head(todo[w]), marker |-> TRUE, ts |-> PointTime(s, k[w]),
                   start |-> MarkerStart(s, k[w]), value |-> <<>>]]
    BY <1>4, Zenon DEF AddStalenessMarker
  <2>6. Stays(w) /\ AtWork(w)' /\ ~Ending(w)'
    BY <2>1, <2>2 DEF Stays, AtWork, Ending
  <2>7. Marks(w)
    BY <1>2, <1>3, <2>4, <2>5, <2>6 DEF Marks
  <2> QED
    BY <2>3, <2>7 DEF Shape
<1>5. CASE AddPoint(w, res)
  <2>1. \/ pc' = [pc EXCEPT ![w] = "loop"] /\ then' = then
        \/ pc' = [pc EXCEPT ![w] = "export"] /\ then' = [then EXCEPT ![w] = "loop"]
    BY <1>5 DEF AddPoint, Goto
  <2>2. /\ pc'[w] = "loop" \/ (pc'[w] = "export" /\ then'[w] = "loop")
        /\ \A v \in Workers \ {w} : pc'[v] = pc[v] /\ then'[v] = then[v]
    BY <1>0, <2>1
  <2>3. ser' = [ser EXCEPT ![w] = @ + Threads] /\ pos' = pos /\ Len(todo[w]) = 1
    BY <1>5 DEF AddPoint
  <2>4. ser'[w] = ser[w] + Threads /\ \A v \in Workers \ {w} : ser'[v] = ser[v]
    BY <1>0, <2>3
  <2>5. \A v \in Workers \ {w} : Same(v)
    BY <1>2, <2>2, <2>3, <2>4 DEF Same, Stays
  <2>6. last' = [last EXCEPT ![s] =
                  [k |-> k[w], gen |-> Head(todo[w]), marker |-> FALSE, ts |-> PointTime(s, k[w]),
                   start |-> StartTime(s, k[w]), value |-> Value(s, k[w])]]
    BY <1>5, Zenon DEF AddPoint
  <2>7. ~AtWork(w)' /\ ~Ending(w)'
    BY <2>2 DEF AtWork, Ending
  <2>8. Adds(w)
    BY <1>3, <2>3, <2>4, <2>6, <2>7 DEF Adds
  <2> QED
    BY <2>5, <2>8 DEF Shape
<1> QED
    BY <1>4, <1>5 DEF AddTo

\* Every step of a worker has one of the shapes above.
LEMMA WorkerShape ==
    ASSUME IInv, NEW w \in Workers, Worker(w)
    PROVE  Shape(w)
<1>0. /\ pc \in [Workers -> {"dial", "loop", "wait", "group", "publish", "export", "backoff", "returned", "ended"}]
      /\ then \in [Workers -> {"loop", "wait", "ended"}] /\ todo \in [Workers -> Seq(Int)]
      /\ k \in [Workers -> Nat] /\ pos \in [Workers -> Nat] /\ ser \in [Workers -> Nat]
      /\ settled \in [Workers -> Nat] /\ points \in [Workers -> Nat]
    BY DEF IInv, Typed, TypeOK
<1>1. CASE Dial(w)
  <2>1. UNCHANGED <<run, k, pos, ser, todo, last, settled, points, then>> /\ pc[w] = "dial"
    BY <1>1 DEF Dial, request
  <2>2. PICK l \in {"loop", "returned"} : pc' = [pc EXCEPT ![w] = l]
    BY <1>1 DEF Dial, Goto
  <2> QED
    BY <2>1, <2>2, QuietShape DEF AtWork
<1>2. CASE Checkpoint(w)
  <2>1. UNCHANGED <<run, k, pos, ser, todo, last, settled, points>> /\ pc[w] = "loop"
    BY <1>2 DEF Checkpoint
  <2>2. CASE (Goto(w, "returned") \/ Goto(w, "wait")) /\ UNCHANGED then
    <3>1. PICK l \in {"returned", "wait"} : pc' = [pc EXCEPT ![w] = l]
      BY <2>2 DEF Goto
    <3> QED
      BY <2>1, <2>2, <3>1, QuietShape DEF AtWork
  <2>3. CASE Goto(w, "export") /\ then' = [then EXCEPT ![w] = "wait"]
    <3>1. then'[w] = "wait" /\ \A v \in Workers \ {w} : then'[v] = then[v]
      BY <1>0, <2>3
    <3>2. pc' = [pc EXCEPT ![w] = "export"]
      BY <2>3 DEF Goto
    <3> QED
      BY <2>1, <3>1, <3>2, QuietShape DEF AtWork
  <2> QED
    BY <1>2, <2>2, <2>3 DEF Checkpoint
<1>3. CASE LimiterWait(w)
  <2>1. UNCHANGED <<run, k, pos, ser, todo, last, settled, points, then>> /\ pc[w] = "wait"
    BY <1>3 DEF LimiterWait, request
  <2>2. PICK l \in {"loop", "returned"} : pc' = [pc EXCEPT ![w] = l]
    BY <1>3 DEF LimiterWait, Goto
  <2> QED
    BY <2>1, <2>2, QuietShape DEF AtWork
<1>4. CASE BeginPoint(w)
  <2>1. /\ UNCHANGED <<run, k, pos, ser, last, settled, points, then>> /\ pc[w] = "loop"
        /\ MorePoints(w) /\ ~AtBound(w)
    BY <1>4 DEF BeginPoint, request
  <2>2. todo' = [todo EXCEPT ![w] = Needs(Current(w), k[w])] /\ pc' = [pc EXCEPT ![w] = "group"]
    BY <1>4, Zenon DEF BeginPoint, Goto, Needs, Due
  <2>3. /\ todo'[w] = Needs(Current(w), k[w]) /\ pc'[w] = "group"
        /\ \A v \in Workers \ {w} : todo'[v] = todo[v] /\ pc'[v] = pc[v]
    BY <1>0, <2>2
  <2>4. \A v \in Workers \ {w} : Same(v)
    BY <2>1, <2>3 DEF Same, Stays
  <2>5. Begins(w)
    BY <2>1, <2>3 DEF Begins, Stays, Handled, AtWork, Ending
  <2> QED
    BY <2>1, <2>4, <2>5 DEF Shape
<1>5. CASE NextMetric(w)
  <2>1. /\ UNCHANGED <<run, pc, k, todo, last, settled, points, then>> /\ pc[w] = "loop"
        /\ MoreMetrics(w) /\ ~MorePoints(w)
    BY <1>5 DEF NextMetric, request
  <2>2. pos' = [pos EXCEPT ![w] = @ + 1] /\ ser' = [ser EXCEPT ![w] = w]
    BY <1>5 DEF NextMetric
  <2>3. /\ pos'[w] = pos[w] + 1 /\ ser'[w] = w
        /\ \A v \in Workers \ {w} : pos'[v] = pos[v] /\ ser'[v] = ser[v]
    BY <1>0, <2>2
  <2>4. \A v \in Workers \ {w} : Same(v)
    BY <2>1, <2>3 DEF Same, Stays
  <2>5. Moves(w)
    BY <2>1, <2>3 DEF Moves, Handled, AtWork, Ending
  <2> QED
    BY <2>1, <2>4, <2>5 DEF Shape
<1>6. CASE EndSweep(w)
  <2>1. /\ UNCHANGED <<run, todo, last, settled, points>> /\ pc[w] = "loop" /\ ~MoreMetrics(w)
    BY <1>6 DEF EndSweep
  <2>2. CASE MoreSweeps(w)
    <3>1. /\ k' = [k EXCEPT ![w] = IF AtBound(w) THEN @ ELSE @ + 1]
          /\ pos' = [pos EXCEPT ![w] = 0] /\ ser' = [ser EXCEPT ![w] = w] /\ UNCHANGED <<pc, then>>
      BY <1>6, <2>2 DEF EndSweep
    <3>2. /\ k'[w] = (IF AtBound(w) THEN k[w] ELSE k[w] + 1) /\ pos'[w] = 0 /\ ser'[w] = w
          /\ \A v \in Workers \ {w} : k'[v] = k[v] /\ pos'[v] = pos[v] /\ ser'[v] = ser[v]
      BY <1>0, <3>1
    <3>3. \A v \in Workers \ {w} : Same(v)
      BY <2>1, <3>1, <3>2 DEF Same, Stays
    <3>4. Sweeps(w)
      BY <2>1, <2>2, <3>1, <3>2 DEF Sweeps, Handled, AtWork, Ending
    <3> QED
      BY <2>1, <3>3, <3>4 DEF Shape
  <2>3. CASE ~MoreSweeps(w)
    <3>1. /\ Goto(w, IF points[w] > 0 THEN "export" ELSE "ended")
          /\ then' = [then EXCEPT ![w] = "ended"] /\ UNCHANGED <<k, pos, ser>>
      BY <1>6, <2>3 DEF EndSweep
    <3>2. PICK l \in {"export", "ended"} : pc' = [pc EXCEPT ![w] = l]
      BY <3>1 DEF Goto
    <3>3. \A v \in Workers \ {w} : then'[v] = then[v]
      BY <1>0, <3>1
    <3> QED
      BY <2>1, <2>3, <3>1, <3>2, <3>3, QuietShape DEF AtWork
  <2> QED
    BY <2>2, <2>3
<1>7. CASE Group(w)
  <2>1. AtWork(w) /\ UNCHANGED <<run, k, settled>>
    BY <1>7 DEF Group, AtWork
  <2>2. CASE \E res : AddTo(w, res)
    BY <2>1, <2>2, AddToShape
  <2>3. CASE Goto(w, "publish") /\ UNCHANGED <<points, todo, last, pos, ser, then>>
    <3>1. pc' = [pc EXCEPT ![w] = "publish"]
      BY <2>3 DEF Goto
    <3> QED
      BY <2>1, <2>3, <3>1, QuietShape
  <2> QED
    BY <1>7, <2>2, <2>3 DEF Group
<1>8. CASE Publish(w)
  <2>1. AtWork(w) /\ UNCHANGED <<run, k, settled>> /\ AddTo(w, Head(todo[w]))
    BY <1>8, Zenon DEF Publish, AtWork
  <2> QED
    BY <2>1, AddToShape
<1>9. CASE Export(w)
  <2>1. UNCHANGED <<run, k, pos, ser, todo, last>> /\ pc[w] = "export"
    BY <1>9 DEF Export
  <2>2. CASE Settle(w)
    BY <2>1, <2>2, SettleShape
  <2>3. CASE Goto(w, "backoff") /\ UNCHANGED request
    <3>1. pc' = [pc EXCEPT ![w] = "backoff"] /\ UNCHANGED <<settled, points, then>>
      BY <2>3 DEF Goto, request
    <3> QED
      BY <2>1, <3>1, QuietShape DEF AtWork, Ending
  <2> QED
    BY <1>9, <2>2, <2>3, Zenon DEF Export
<1>10. CASE Backoff(w)
  <2>1. UNCHANGED <<run, k, pos, ser, todo, last>> /\ pc[w] = "backoff"
    BY <1>10 DEF Backoff
  <2>2. CASE Settle(w)
    BY <2>1, <2>2, SettleShape
  <2>3. CASE Goto(w, "export") /\ UNCHANGED <<points, then, settled>>
    <3>1. pc' = [pc EXCEPT ![w] = "export"]
      BY <2>3 DEF Goto
    <3> QED
      BY <2>1, <2>3, <3>1, QuietShape DEF AtWork, Ending
  <2> QED
    BY <1>10, <2>2, <2>3 DEF Backoff
<1> QED
    BY <1>1, <1>2, <1>3, <1>4, <1>5, <1>6, <1>7, <1>8, <1>9, <1>10 DEF Worker

-----------------------------------------------------------------------------
(* The order of the table *)

\* A number below the divisor is its own remainder.
LEMMA ModBelow ==
    ASSUME NEW a \in Nat, NEW b \in Nat \ {0}
    PROVE  /\ a < b => a % b = a
           /\ (a >= b /\ a < 2 * b) => a % b = a - b
           /\ (a + b) % b = a % b
<1> DEFINE q == a \div b
           r == a % b
<1>1. q \in Nat /\ r \in 0 .. b - 1 /\ a = b * q + r
    BY Quotient
<1>2. a < b => a % b = a
    OBVIOUS
<1>3. (a >= b /\ a < 2 * b) => a % b = a - b
    OBVIOUS
<1>4. (a + b) % b = a % b
  <2> HIDE DEF q, r
  <2>1. a + b \in Nat /\ b * (q + 1) = b * q + b
    BY <1>1
  <2>2. b * (q + 1) =< a + b /\ a + b < b * (q + 1) + b
    BY <1>1, <2>1
  <2>3. (a + b) \div b = q + 1
    BY <1>1, <2>1, <2>2, QuotientUnique
  <2>4. a + b = b * (q + 1) + ((a + b) % b) /\ (a + b) % b \in Int
    <3> DEFINE c == a + b
    <3>1. c \in Nat /\ c \div b = q + 1
      BY <2>1, <2>3
    <3> HIDE DEF c
    <3>2. c = b * (q + 1) + (c % b) /\ c % b \in 0 .. b - 1
      BY <3>1, Quotient
    <3> QED
      BY <3>2 DEF c
  <2>5. (a + b) % b = r
    BY <1>1, <2>1, <2>4
  <2> QED
    BY <2>5 DEF r
<1> QED
    BY <1>2, <1>3, <1>4

\* Every metric has one position in the table of a sweep.
LEMMA TableOrder ==
    ASSUME NEW n \in Nat \ {0}, NEW q \in Nat
    PROVE  /\ \A i \in 0 .. n - 1 : metricAt(n, i, q) \in 0 .. n - 1
           /\ \A i, j \in 0 .. n - 1 : metricAt(n, i, q) = metricAt(n, j, q) => i = j
           /\ \A m \in 0 .. n - 1 : \E i \in 0 .. n - 1 : metricAt(n, i, q) = m
<1> DEFINE r == q % n
<1>1. r \in 0 .. n - 1
    BY Quotient
<1> HIDE DEF r
<1>2. \A i \in 0 .. n - 1 : metricAt(n, i, q) = IF i + r < n THEN i + r ELSE i + r - n
  <2> SUFFICES ASSUME NEW i \in 0 .. n - 1
               PROVE  (i + r) % n = IF i + r < n THEN i + r ELSE i + r - n
    BY DEF metricAt, r
  <2> DEFINE x == i + r
  <2>1. x \in Nat /\ x < 2 * n
    BY <1>1
  <2> HIDE DEF x
  <2>2. x < n => x % n = x
    BY <2>1, ModBelow
  <2>3. (x >= n /\ x < 2 * n) => x % n = x - n
    BY <2>1, ModBelow
  <2>4. x % n = IF x < n THEN x ELSE x - n
    BY <2>1, <2>2, <2>3
  <2> QED
    BY <1>1, <2>4 DEF x
<1>3. \A i \in 0 .. n - 1 : metricAt(n, i, q) \in 0 .. n - 1
    BY <1>1, <1>2
<1>4. \A i, j \in 0 .. n - 1 : metricAt(n, i, q) = metricAt(n, j, q) => i = j
    BY <1>1, <1>2
<1>5. ASSUME NEW m \in 0 .. n - 1 PROVE \E i \in 0 .. n - 1 : metricAt(n, i, q) = m
  <2> DEFINE i == IF r =< m THEN m - r ELSE m - r + n
  <2>1. i \in 0 .. n - 1 /\ (IF i + r < n THEN i + r ELSE i + r - n) = m
    BY <1>1
  <2> QED
    BY <1>2, <2>1
<1> QED
    BY <1>3, <1>4, <1>5

\* The next series of the stripe is one stripe further.
LEMMA OwnedAbove ==
    ASSUME NEW x \in Nat, NEW w \in Workers, x % Threads = w
    PROVE  x >= w /\ w \in Nat
<1>1. Threads \in Nat \ {0} /\ w \in Nat
    BY WorkerNat
<1> DEFINE q == x \div Threads
<1>2. q \in Nat /\ x = Threads * q + w
    BY <1>1, Quotient
<1> HIDE DEF q
<1>3. Threads * q \in Nat
    BY <1>1, <1>2
<1> QED
    BY <1>1, <1>2, <1>3

\* A series has one owner, and its metric one place in the table.
LEMMA SeriesFacts ==
    ASSUME run \in Runs, NEW s \in Series
    PROVE  /\ s[1] \in 0 .. Len(run.metrics) - 1 /\ s[2] \in 0 .. Card(s[1]) - 1 /\ s[2] \in Nat
           /\ s = <<s[1], s[2]>> /\ Owner(s) \in Workers /\ s \in Owned(Owner(s)) /\ s \in AllSeries
           /\ Len(run.metrics) \in Nat \ {0}
<1>1. /\ run.metrics \in Seq(MetricDef) /\ Len(run.metrics) \in Nat
      /\ \A m \in 0 .. Len(run.metrics) - 1 : Card(m) \in Nat \ {0}
    BY RunFacts
<1>2. PICK m \in 0 .. Len(run.metrics) - 1 : s \in {<<m, x>> : x \in 0 .. Card(m) - 1}
    BY DEF Series, SeriesOf, Card
<1>3. PICK x \in 0 .. Card(m) - 1 : s = <<m, x>>
    BY <1>2
<1>4. s[1] = m /\ s[2] = x
    BY <1>3
<1>5. s[2] \in Nat
    BY <1>1, <1>4
<1>6. Owner(s) \in Workers
    BY <1>5, WorkerNat, Quotient DEF Owner, Workers
<1>7. s \in AllSeries
    BY DEF AllSeries, Series
<1> QED
    BY <1>1, <1>3, <1>4, <1>5, <1>6, <1>7 DEF Owned, Owner

\* A place at which there is a point to add is one of a series, not yet passed.
LEMMA AtSeries ==
    ASSUME Typed, NEW w \in Workers, Course(w), MorePoints(w)
    PROVE  /\ Current(w) \in Owned(w) /\ Current(w) \in Series /\ Owner(Current(w)) = w
           /\ ~Behind(w, Current(w)) /\ k[w] \in Nat
<1> DEFINE n == Len(run.metrics)
           m == MetricAt(pos[w], k[w])
<1>1. /\ run \in Runs /\ k[w] \in Nat /\ pos[w] \in Nat /\ ser[w] \in Nat
      /\ n \in Nat /\ pos[w] < n /\ ser[w] < Card(m) /\ ser[w] % Threads = w
    BY RunFacts DEF Typed, TypeOK, MorePoints, MoreMetrics, Course
<1>2. n \in Nat \ {0} /\ pos[w] \in 0 .. n - 1
    BY <1>1
<1>3. m \in 0 .. n - 1
    BY <1>1, <1>2, TableOrder DEF MetricAt
<1>4. Card(m) \in Nat \ {0}
    BY <1>1, <1>3, RunFacts
<1>5. ser[w] \in 0 .. Card(m) - 1
    BY <1>1, <1>4
<1>6. Current(w) = <<m, ser[w]>>
    BY DEF Current
<1>7. Current(w) \in Series
    BY <1>3, <1>5, <1>6 DEF Series, SeriesOf, Card
<1>8. Current(w) \in Owned(w) /\ Owner(Current(w)) = w
    BY <1>1, <1>6, <1>7 DEF Owned, Owner
<1>9. ASSUME Behind(w, Current(w)) PROVE FALSE
  <2>1. PICK p \in 0 .. n - 1 : MetricAt(p, k[w]) = m /\ (p < pos[w] \/ (p = pos[w] /\ ser[w] < ser[w]))
    BY <1>6, <1>9 DEF Behind
  <2>2. p = pos[w]
    BY <1>1, <1>2, <2>1, TableOrder DEF MetricAt
  <2> QED
    BY <1>1, <2>1, <2>2
<1> QED
    BY <1>1, <1>7, <1>8, <1>9

\* Behind, as places change. It depends on the sweep and the place only.
LEMMA BehindSame ==
    ASSUME NEW w, NEW s, run' = run, Stays(w)
    PROVE  Behind(w, s)' = Behind(w, s)
BY DEF Behind, Stays, MetricAt

\* A point added puts its series, and no other, behind the worker.
LEMMA BehindAdds ==
    ASSUME Typed, NEW w \in Workers, Course(w), MorePoints(w), run' = run,
           k'[w] = k[w], pos'[w] = pos[w], ser'[w] = ser[w] + Threads,
           NEW s \in Owned(w)
    PROVE  Behind(w, s)' <=> Behind(w, s) \/ s = Current(w)
<1> DEFINE n == Len(run.metrics)
           At(p) == MetricAt(p, k[w])
<1>1. /\ run \in Runs /\ k[w] \in Nat /\ pos[w] \in Nat /\ ser[w] \in Nat
      /\ n \in Nat /\ pos[w] < n /\ ser[w] % Threads = w
    BY RunFacts DEF Typed, TypeOK, MorePoints, MoreMetrics, Course
<1>2. n \in Nat \ {0} /\ pos[w] \in 0 .. n - 1
    BY <1>1
<1>3. s \in Series /\ s[2] % Threads = w
    BY DEF Owned
<1>4. s = <<s[1], s[2]>> /\ s[2] \in Nat
    BY <1>1, <1>3, SeriesFacts
<1>5. Threads \in Nat \ {0} /\ w \in Nat
    BY WorkerNat
<1>6. s[2] < ser[w] + Threads <=> s[2] < ser[w] \/ s[2] = ser[w]
  <2>1. ASSUME s[2] >= ser[w], s[2] < ser[w] + Threads PROVE s[2] = ser[w]
    <3> DEFINE x == s[2]
               y == ser[w]
    <3>1. x \in Nat /\ y \in Nat /\ x % Threads = w /\ y % Threads = w /\ x >= y /\ x < y + Threads
      BY <1>1, <1>3, <1>4, <2>1
    <3> HIDE DEF x, y
    <3>2. /\ x \div Threads \in Nat /\ x = Threads * (x \div Threads) + w
          /\ y \div Threads \in Nat /\ y = Threads * (y \div Threads) + w
      BY <1>5, <3>1, Quotient
    <3> DEFINE a == x \div Threads
               b == y \div Threads
    <3>3. a \in Nat /\ b \in Nat /\ x = Threads * a + w /\ y = Threads * b + w
      BY <3>2
    <3> HIDE DEF a, b
    <3>4. a = b
      <4>1. ASSUME a >= b + 1 PROVE FALSE
        <5>1. Threads * a >= Threads * b + Threads
          BY <1>5, <3>3, <4>1
        <5> QED
          BY <1>5, <3>1, <3>3, <5>1
      <4>2. ASSUME b >= a + 1 PROVE FALSE
        <5>1. Threads * b >= Threads * a + Threads
          BY <1>5, <3>3, <4>2
        <5> QED
          BY <1>5, <3>1, <3>3, <5>1
      <4> QED
        BY <3>3, <4>1, <4>2
    <3>5. x = y
      BY <3>3, <3>4
    <3> QED
      BY <3>5 DEF x, y
  <2> QED
    BY <1>1, <1>4, <1>5, <2>1
<1>7. Behind(w, s)' <=> \E p \in 0 .. n - 1 : At(p) = s[1] /\ (p < pos[w] \/ (p = pos[w] /\ s[2] < ser[w] + Threads))
    BY DEF Behind, MetricAt
<1>8. Behind(w, s) <=> \E p \in 0 .. n - 1 : At(p) = s[1] /\ (p < pos[w] \/ (p = pos[w] /\ s[2] < ser[w]))
    BY DEF Behind
<1>9. s = Current(w) <=> At(pos[w]) = s[1] /\ s[2] = ser[w]
    BY <1>4 DEF Current
<1> HIDE DEF At, n
<1> QED
    BY <1>2, <1>6, <1>7, <1>8, <1>9

\* Going on to the next metric leaves the same series behind.
LEMMA BehindMoves ==
    ASSUME Typed, NEW w \in Workers, Course(w), run' = run, Moves(w), NEW s \in Owned(w)
    PROVE  Behind(w, s)' <=> Behind(w, s)
<1> DEFINE n == Len(run.metrics)
           At(p) == MetricAt(p, k[w])
<1>1. /\ run \in Runs /\ k[w] \in Nat /\ pos[w] \in Nat /\ ser[w] \in Nat
      /\ n \in Nat /\ pos[w] < n
    BY RunFacts DEF Typed, TypeOK, MoreMetrics, Moves
<1>2. s \in Series /\ s[2] % Threads = w
    BY DEF Owned
<1>3. s[2] \in Nat /\ s[1] \in 0 .. n - 1 /\ s[2] < Card(s[1]) /\ Card(s[1]) \in Nat
    BY <1>1, <1>2, SeriesFacts, RunFacts
<1>4. ~ (ser[w] < Card(At(pos[w])))
    BY DEF Moves, MorePoints
<1>5. s[2] >= w /\ w \in Nat
    BY <1>2, <1>3, OwnedAbove
<1>6. Behind(w, s)' <=> \E p \in 0 .. n - 1 : At(p) = s[1] /\ (p < pos[w] + 1 \/ (p = pos[w] + 1 /\ s[2] < w))
    BY DEF Behind, MetricAt, Moves
<1>7. Behind(w, s) <=> \E p \in 0 .. n - 1 : At(p) = s[1] /\ (p < pos[w] \/ (p = pos[w] /\ s[2] < ser[w]))
    BY DEF Behind
<1>8. At(pos[w]) = s[1] => s[2] < ser[w]
    BY <1>1, <1>3, <1>4
<1> HIDE DEF At, n
<1> QED
    BY <1>1, <1>3, <1>5, <1>6, <1>7, <1>8

\* At the start of a sweep no series is behind its worker.
LEMMA BehindStart ==
    ASSUME Typed, NEW w \in Workers, pos[w] = 0, ser[w] = w, NEW s \in Owned(w)
    PROVE  ~Behind(w, s)
<1>1. s \in Series /\ s[2] % Threads = w /\ run \in Runs
    BY DEF Owned, Typed
<1>2. s[2] \in Nat
    BY <1>1, SeriesFacts
<1>3. s[2] >= w /\ w \in Nat
    BY <1>1, <1>2, OwnedAbove
<1> QED
    BY <1>2, <1>3 DEF Behind

\* At the end of a sweep every series of the worker is behind it.
LEMMA BehindEnd ==
    ASSUME Typed, NEW w \in Workers, pos[w] >= Len(run.metrics), NEW s \in Owned(w)
    PROVE  Behind(w, s)
<1> DEFINE n == Len(run.metrics)
<1>1. s \in Series /\ run \in Runs /\ k[w] \in Nat /\ pos[w] \in Nat
    BY DEF Owned, Typed, TypeOK
<1>2. n \in Nat \ {0} /\ s[1] \in 0 .. n - 1
    BY <1>1, SeriesFacts
<1>3. PICK i \in 0 .. n - 1 : MetricAt(i, k[w]) = s[1]
    BY <1>1, <1>2, TableOrder DEF MetricAt
<1>4. i < pos[w]
    BY <1>1, <1>2
<1> QED
    BY <1>3, <1>4 DEF Behind

\* A sweep ends when all its points are added, and the next starts with none.
LEMMA SweepOver ==
    ASSUME Typed, NEW w \in Workers, Course(w), Sweeps(w), NEW s \in Owned(w)
    PROVE  Behind(w, s) /\ ~AtBound(w)
<1>1. pos[w] \in Nat /\ Len(run.metrics) \in Nat /\ ~ (pos[w] < Len(run.metrics))
    BY RunFacts DEF Typed, TypeOK, Sweeps, MoreMetrics
<1>2. Behind(w, s)
    BY <1>1, BehindEnd
<1> QED
    BY <1>2 DEF Course

\* A new sweep starts before every series.
LEMMA SweepStart ==
    ASSUME Typed, NEW w \in Workers, run' = run, pos'[w] = 0, ser'[w] = w, NEW s \in Owned(w)
    PROVE  ~Behind(w, s)'
<1>1. s \in Series /\ s[2] % Threads = w /\ run \in Runs
    BY DEF Owned, Typed
<1>2. s[2] \in Nat
    BY <1>1, SeriesFacts
<1>3. s[2] >= w /\ w \in Nat
    BY <1>1, <1>2, OwnedAbove
<1> QED
    BY <1>2, <1>3 DEF Behind

-----------------------------------------------------------------------------
(* The course of a worker *)

Courses == \A w \in Workers : Course(w)

\* What a point needs: one generation, or two when a marker is due.
LEMMA NeedsFacts ==
    ASSUME NEW s, NEW q \in Nat
    PROVE  LET gen == generation(ResourceOf(s), q) IN
           /\ gen \in Nat /\ Len(<<gen>>) = 1 /\ Head(<<gen>>) = gen
           /\ Due(s, q) => /\ Len(Needs(s, q)) = 2 /\ Head(Needs(s, q)) = gen - 1
                           /\ Tail(Needs(s, q)) = <<gen>>
           /\ ~Due(s, q) => Needs(s, q) = <<gen>>
<1> DEFINE gen == generation(ResourceOf(s), q)
<1>1. gen \in Nat
    BY GenerationNat
<1>2. /\ Due(s, q) => Needs(s, q) = <<gen - 1, gen>>
      /\ ~Due(s, q) => Needs(s, q) = <<gen>>
    BY DEF Needs
<1> HIDE DEF gen
<1>3. /\ Len(<<gen>>) = 1 /\ Head(<<gen>>) = gen /\ Len(<<gen - 1, gen>>) = 2
      /\ Head(<<gen - 1, gen>>) = gen - 1 /\ Tail(<<gen - 1, gen>>) = <<gen>>
    BY <1>1
<1>4. /\ gen \in Nat /\ Len(<<gen>>) = 1 /\ Head(<<gen>>) = gen
      /\ Due(s, q) => /\ Len(Needs(s, q)) = 2 /\ Head(Needs(s, q)) = gen - 1
                      /\ Tail(Needs(s, q)) = <<gen>>
      /\ ~Due(s, q) => Needs(s, q) = <<gen>>
    BY <1>1, <1>2, <1>3
<1> QED
    BY <1>4 DEF gen

\* A worker that stays is at the same series.
LEMMA SamePlace ==
    ASSUME NEW w, run' = run, Stays(w)
    PROVE  /\ MoreSweeps(w)' = MoreSweeps(w) /\ MorePoints(w)' = MorePoints(w)
           /\ AtBound(w)' = AtBound(w) /\ Current(w)' = Current(w) /\ Owned(w)' = Owned(w)
           /\ Endless' = Endless
BY DEF MoreSweeps, MorePoints, MoreMetrics, AtBound, Current, Owned, Endless, Stays, MetricAt, Card, Series

\* A worker that stays, keeps its course.
LEMMA CourseSame ==
    ASSUME NEW w, Course(w), run' = run, Stays(w), todo'[w] = todo[w],
           AtWork(w)' <=> AtWork(w), Ending(w)' => Ending(w) \/ ~MoreSweeps(w)
    PROVE  Course(w)'
<1>1. /\ MoreSweeps(w)' = MoreSweeps(w) /\ MorePoints(w)' = MorePoints(w)
      /\ AtBound(w)' = AtBound(w) /\ Current(w)' = Current(w) /\ Owned(w)' = Owned(w)
    BY SamePlace
<1>2. ser'[w] = ser[w] /\ pos'[w] = pos[w] /\ k'[w] = k[w]
    BY DEF Stays
<1>3. /\ (ser[w] % Threads = w /\ pos[w] =< Len(run.metrics))'
      /\ (MoreSweeps(w) \/ (k[w] = run.sweeps /\ pos[w] = 0 /\ ser[w] = w))'
    BY <1>1, <1>2 DEF Course
<1>4. AtWork(w)' => (/\ MorePoints(w) /\ ~AtBound(w)
            /\ todo[w] \in {Needs(Current(w), k[w]), <<generation(ResourceOf(Current(w)), k[w])>>})'
  <2> SUFFICES ASSUME AtWork(w)'
        PROVE /\ MorePoints(w)' /\ ~AtBound(w)'
              /\ todo'[w] \in {Needs(Current(w)', k'[w]), <<generation(ResourceOf(Current(w)'), k'[w])>>}
    BY DEF Needs, Due, ResourceOf
  <2>1. /\ MorePoints(w) /\ ~AtBound(w)
        /\ todo[w] \in {Needs(Current(w), k[w]), <<generation(ResourceOf(Current(w)), k[w])>>}
    BY DEF Course
  <2> QED
    BY <1>1, <1>2, <2>1
<1>5. Ending(w)' => ~MoreSweeps(w)'
    BY <1>1 DEF Course
<1>6. AtBound(w)' => \A s \in Owned(w)' : ~Behind(w, s)'
    BY <1>1, BehindSame DEF Course
<1> QED
    BY <1>3, <1>4, <1>5, <1>6 DEF Course

\* Every worker keeps to its course.
LEMMA CourseStep ==
    ASSUME IInv, Typed', NEW w \in Workers, Courses, Shape(w)
    PROVE  Courses'
<1>0. Typed /\ Course(w) /\ run' = run /\ run \in Runs /\ Threads \in Nat \ {0} /\ w \in Nat
    BY WorkerNat DEF IInv, Courses, Shape, Typed
<1>1. /\ k[w] \in Nat /\ pos[w] \in Nat /\ ser[w] \in Nat /\ run.sweeps \in Nat /\ Len(run.metrics) \in Nat
    BY <1>0, RunFacts DEF Typed, TypeOK
<1>2. w % Threads = w
    BY <1>0, WorkerNat, ModBelow
<1>3. ASSUME NEW v \in Workers, v # w PROVE Course(v)'
  <2>1. Same(v) /\ Course(v)
    BY <1>3 DEF Shape, Courses
  <2> QED
    BY <1>0, <2>1, CourseSame DEF Same, AtWork, Ending
<1>4. Course(w)'
  <2>1. CASE Quiet(w)
    BY <1>0, <2>1, CourseSame DEF Quiet
  <2>2. CASE Begins(w)
    <3>1. Stays(w) /\ MorePoints(w) /\ ~AtBound(w) /\ ~Ending(w)' /\ todo'[w] = Needs(Current(w), k[w])
      BY <2>2 DEF Begins
    <3>2. /\ MoreSweeps(w)' = MoreSweeps(w) /\ MorePoints(w)' = MorePoints(w)
          /\ AtBound(w)' = AtBound(w) /\ Current(w)' = Current(w) /\ Owned(w)' = Owned(w)
      BY <1>0, <3>1, SamePlace
    <3>3. k'[w] = k[w] /\ pos'[w] = pos[w] /\ ser'[w] = ser[w]
      BY <3>1 DEF Stays
    <3>4. Needs(Current(w), k[w])' = Needs(Current(w), k[w])
      BY <3>2, <3>3 DEF Needs, Due, ResourceOf
    <3> QED
      BY <1>0, <3>1, <3>2, <3>3, <3>4 DEF Course
  <2>3. CASE Marks(w)
    <3>1. Stays(w) /\ AtWork(w) /\ ~Ending(w)' /\ Len(todo[w]) = 2 /\ todo'[w] = Tail(todo[w])
      BY <2>3 DEF Marks
    <3>2. /\ MoreSweeps(w)' = MoreSweeps(w) /\ MorePoints(w)' = MorePoints(w)
          /\ AtBound(w)' = AtBound(w) /\ Current(w)' = Current(w) /\ Owned(w)' = Owned(w)
      BY <1>0, <3>1, SamePlace
    <3>3. k'[w] = k[w] /\ pos'[w] = pos[w] /\ ser'[w] = ser[w]
      BY <3>1 DEF Stays
    <3>4. /\ MorePoints(w) /\ ~AtBound(w)
          /\ todo[w] \in {Needs(Current(w), k[w]), <<generation(ResourceOf(Current(w)), k[w])>>}
      BY <1>0, <3>1 DEF Course
    <3>5. Tail(todo[w]) = <<generation(ResourceOf(Current(w)), k[w])>>
      <4> DEFINE gen == generation(ResourceOf(Current(w)), k[w])
                 needs == Needs(Current(w), k[w])
      <4>1. /\ Len(<<gen>>) = 1 /\ Due(Current(w), k[w]) => Tail(needs) = <<gen>>
            /\ ~Due(Current(w), k[w]) => needs = <<gen>>
        BY <1>1, NeedsFacts
      <4>2. todo[w] = needs \/ todo[w] = <<gen>>
        BY <3>4
      <4> HIDE DEF gen, needs
      <4>3. Tail(todo[w]) = <<gen>>
        BY <3>1, <4>1, <4>2
      <4> QED
        BY <4>3 DEF gen
    <3>6. (<<generation(ResourceOf(Current(w)), k[w])>>)' = <<generation(ResourceOf(Current(w)), k[w])>>
      BY <3>2, <3>3 DEF ResourceOf
    <3> QED
      BY <1>0, <3>1, <3>2, <3>3, <3>4, <3>5, <3>6 DEF Course
  <2>4. CASE Adds(w)
    <3>1. /\ k'[w] = k[w] /\ pos'[w] = pos[w] /\ ser'[w] = ser[w] + Threads
          /\ AtWork(w) /\ ~AtWork(w)' /\ ~Ending(w)'
      BY <2>4 DEF Adds
    <3>2. MorePoints(w) /\ ~AtBound(w)
      BY <1>0, <3>1 DEF Course
    <3>3. MoreSweeps(w)' /\ ~AtBound(w)'
      BY <1>0, <3>1, <3>2 DEF MorePoints, MoreMetrics, MoreSweeps, AtBound, Endless
    <3>4. (ser[w] + Threads) % Threads = w
      BY <1>0, <1>1, ModBelow DEF Course
    <3> QED
      BY <1>0, <3>1, <3>3, <3>4 DEF Course
  <2>5. CASE Moves(w)
    <3>1. /\ k'[w] = k[w] /\ pos'[w] = pos[w] + 1 /\ ser'[w] = w
          /\ MoreMetrics(w) /\ ~AtWork(w)' /\ ~Ending(w)'
      BY <2>5 DEF Moves
    <3>2. MoreSweeps(w)' /\ AtBound(w)' = AtBound(w) /\ Owned(w)' = Owned(w)
      BY <1>0, <3>1 DEF MoreMetrics, MoreSweeps, AtBound, Endless, Owned, Series
    <3>3. pos'[w] =< Len(run.metrics)
      BY <1>1, <3>1 DEF MoreMetrics
    <3>4. \A s \in Owned(w) : Behind(w, s)' <=> Behind(w, s)
      BY <1>0, <2>5, BehindMoves
    <3> QED
      BY <1>0, <1>2, <3>1, <3>2, <3>3, <3>4 DEF Course
  <2>6. CASE Sweeps(w)
    <3>1. /\ k'[w] = (IF AtBound(w) THEN k[w] ELSE k[w] + 1) /\ pos'[w] = 0 /\ ser'[w] = w
          /\ ~AtWork(w)' /\ ~Ending(w)' /\ MoreSweeps(w)
      BY <2>6 DEF Sweeps
    <3>2. MoreSweeps(w)' \/ k'[w] = run.sweeps
      BY <1>0, <1>1, <3>1 DEF MoreSweeps, Endless, AtBound
    <3>3. \A s \in Owned(w)' : ~Behind(w, s)'
      <4> SUFFICES ASSUME NEW s \in Owned(w)' PROVE ~Behind(w, s)'
        OBVIOUS
      <4>1. s \in Owned(w)
        BY <1>0 DEF Owned, Series
      <4>2. s[2] \in Nat /\ s[2] >= w
        BY <1>0, <4>1, SeriesFacts, OwnedAbove DEF Owned
      <4> QED
        BY <1>0, <3>1, <4>2 DEF Behind
    <3> QED
      BY <1>0, <1>1, <1>2, <3>1, <3>2, <3>3 DEF Course
  <2> QED
    BY <2>1, <2>2, <2>3, <2>4, <2>5, <2>6 DEF Shape
<1> QED
    BY <1>3, <1>4 DEF Courses

-----------------------------------------------------------------------------
(* The last point of each series *)

\* The points of the plan do not depend on the state.
LEMMA RecordsNext ==
    ASSUME NEW s, NEW w \in Workers, run' = run
    PROVE  /\ PointAt(s, k[w])' = PointAt(s, k'[w]) /\ PointAt(s, k[w] - 1)' = PointAt(s, k'[w] - 1)
           /\ MarkerAt(s, k[w])' = MarkerAt(s, k'[w])
BY DEF PointAt, MarkerAt, StartTime, MarkerStart, Value, Epoch, Def, Cumulative, PointTime, ResourceOf

\* What is expected after a step, by the place after it.
LEMMA ExpectedNext ==
    ASSUME NEW s, NEW w \in Workers, run' = run
    PROVE  Expected(w, s)' = (IF Behind(w, s)' THEN PointAt(s, k'[w])
                              ELSE IF Marked(w, s)' THEN MarkerAt(s, k'[w])
                              ELSE IF k'[w] = 0 THEN NoPoint ELSE PointAt(s, k'[w] - 1))
BY RecordsNext DEF Expected, NoPoint

\* The history as far as series s goes, when its place or its last point changes.
LEMMA ExpectedSame ==
    ASSUME NEW s, NEW w \in Workers, run' = run, k'[w] = k[w],
           Behind(w, s)' <=> Behind(w, s), Marked(w, s)' <=> Marked(w, s)
    PROVE  Expected(w, s)' = Expected(w, s)
BY ExpectedNext DEF Expected

\* A point under way, by what it still needs.
LEMMA UnderWayFacts ==
    ASSUME Typed, NEW w \in Workers, Course(w), AtWork(w)
    PROVE  LET s == Current(w)
               gen == generation(ResourceOf(s), k[w])
           IN  /\ Len(todo[w]) = 2 => Due(s, k[w]) /\ Head(todo[w]) = gen - 1
               /\ Len(todo[w]) = 1 => Head(todo[w]) = gen /\ todo[w] = <<gen>>
               /\ Len(todo[w]) \in 1 .. 2
<1> DEFINE s == Current(w)
           gen == generation(ResourceOf(s), k[w])
           needs == Needs(s, k[w])
<1>1. k[w] \in Nat /\ todo[w] \in {needs, <<gen>>}
    BY DEF Typed, TypeOK, Course
<1>2. /\ Len(<<gen>>) = 1 /\ Head(<<gen>>) = gen
      /\ Due(s, k[w]) => Len(needs) = 2 /\ Head(needs) = gen - 1
      /\ ~Due(s, k[w]) => needs = <<gen>>
    BY <1>1, NeedsFacts
<1> HIDE DEF gen, needs, s
<1>3. /\ Len(todo[w]) = 2 => Due(s, k[w]) /\ Head(todo[w]) = gen - 1
      /\ Len(todo[w]) = 1 => Head(todo[w]) = gen /\ todo[w] = <<gen>>
      /\ Len(todo[w]) \in 1 .. 2
    BY <1>1, <1>2
<1> QED
    BY <1>3 DEF gen, s

\* The last point of every series is the one its worker's place says.
LEMMA HistoryStep ==
    ASSUME IInv, Typed', NEW w \in Workers, Courses, Shape(w), History
    PROVE  History'
<1>0. Typed /\ Course(w) /\ run' = run /\ run \in Runs /\ k[w] \in Nat
    BY DEF IInv, Courses, Shape, Typed, TypeOK
<1>1. \/ last' = last
      \/ AtWork(w) /\ \E e : last' = [last EXCEPT ![Current(w)] = e]
    BY DEF Shape, Quiet, Begins, Marks, Adds, Moves, Sweeps
<1>2. AtWork(w) => /\ MorePoints(w) /\ Owner(Current(w)) = w /\ Current(w) \in AllSeries
                   /\ ~Behind(w, Current(w))
    BY <1>0, AtSeries, SeriesFacts DEF Course
<1>3. DOMAIN last' = AllSeries' /\ Series' = Series /\ AllSeries' = AllSeries
    BY <1>0, <1>1 DEF History, AllSeries, Series
<1>4. ASSUME NEW s \in Series PROVE last'[s] = Expected(Owner(s), s)'
  <2> DEFINE v == Owner(s)
  <2>0. v \in Workers /\ s \in Owned(v) /\ s \in AllSeries /\ last[s] = Expected(v, s)
    BY <1>0, SeriesFacts DEF History
  <2>1. CASE v # w
    <3>1. Same(v)
      BY <2>0, <2>1 DEF Shape
    <3>2. last'[s] = last[s]
      BY <1>1, <1>2, <2>0, <2>1 DEF History
    <3>3. Behind(v, s)' <=> Behind(v, s)
      BY <1>0, <3>1, BehindSame DEF Same
    <3>4. Current(v)' = Current(v)
      BY <1>0, <3>1, SamePlace DEF Same
    <3>5. Marked(v, s)' <=> Marked(v, s)
      BY <3>1, <3>4 DEF Marked, Same, AtWork, Stays, Due, ResourceOf
    <3> QED
      BY <1>0, <2>0, <3>1, <3>2, <3>3, <3>5, ExpectedSame DEF Same, Stays
  <2>2. CASE v = w
    <3>0. s \in Owned(w) /\ last[s] = Expected(w, s)
      BY <2>0, <2>2
    <3>1. CASE Quiet(w)
      <4>1. Stays(w) /\ last' = last /\ todo'[w] = todo[w] /\ (AtWork(w)' <=> AtWork(w))
        BY <3>1 DEF Quiet
      <4>2. Behind(w, s)' <=> Behind(w, s)
        BY <1>0, <4>1, BehindSame
      <4>3. Current(w)' = Current(w)
        BY <1>0, <4>1, SamePlace
      <4>4. Marked(w, s)' <=> Marked(w, s)
        BY <4>1, <4>3 DEF Marked, Stays, Due, ResourceOf
      <4> QED
        BY <1>0, <2>2, <3>0, <4>1, <4>2, <4>4, ExpectedSame DEF Stays
    <3>2. CASE Begins(w)
      <4>1. Stays(w) /\ last' = last /\ ~AtWork(w) /\ todo'[w] = Needs(Current(w), k[w])
        BY <3>2 DEF Begins
      <4>2. Behind(w, s)' <=> Behind(w, s)
        BY <1>0, <4>1, BehindSame
      <4>3. Current(w)' = Current(w)
        BY <1>0, <4>1, SamePlace
      <4>4. ~Marked(w, s)'
        <5> SUFFICES ASSUME Current(w) = s, Len(todo'[w]) = 1, Due(s, k[w]) PROVE FALSE
          BY <4>1, <4>3 DEF Marked, Stays, Due, ResourceOf
        <5>1. Len(Needs(s, k[w])) = 2
          BY <1>0, NeedsFacts
        <5> QED
          BY <4>1, <5>1
      <4>5. ~Marked(w, s)
        BY <4>1 DEF Marked
      <4> QED
        BY <1>0, <2>2, <3>0, <4>1, <4>2, <4>4, <4>5, ExpectedSame DEF Stays
    <3>3. CASE Marks(w)
      <4>1. /\ Stays(w) /\ AtWork(w) /\ AtWork(w)' /\ Len(todo[w]) = 2 /\ todo'[w] = Tail(todo[w])
            /\ last' = [last EXCEPT ![Current(w)] =
                  [k |-> k[w], gen |-> Head(todo[w]), marker |-> TRUE, ts |-> PointTime(Current(w), k[w]),
                   start |-> MarkerStart(Current(w), k[w]), value |-> <<>>]]
        BY <3>3 DEF Marks
      <4>2. Behind(w, s)' <=> Behind(w, s)
        BY <1>0, <4>1, BehindSame
      <4>3. Current(w)' = Current(w)
        BY <1>0, <4>1, SamePlace
      <4>4. CASE s # Current(w)
        <5>1. ~Marked(w, s) /\ ~Marked(w, s)' /\ last'[s] = last[s]
          BY <4>1, <4>3, <4>4 DEF Marked
        <5> QED
          BY <1>0, <2>2, <3>0, <4>1, <4>2, <5>1, ExpectedSame DEF Stays
      <4>5. CASE s = Current(w)
        <5>1. Due(s, k[w]) /\ Head(todo[w]) = generation(ResourceOf(s), k[w]) - 1
          BY <1>0, <4>1, <4>5, UnderWayFacts
        <5>2. last'[s] = MarkerAt(s, k[w])
          BY <2>0, <4>1, <4>5, <5>1 DEF MarkerAt, History
        <5>3. Marked(w, s)'
          <6>1. Len(Tail(todo[w])) = 1
            BY <1>0, <4>1, TodoFacts
          <6> QED
            BY <4>1, <4>3, <4>5, <5>1, <6>1 DEF Marked, Stays, Due, ResourceOf
        <5>4. ~Behind(w, s)'
          BY <1>2, <4>1, <4>2, <4>5
        <5> QED
          BY <1>0, <2>2, <4>1, <5>2, <5>3, <5>4, ExpectedNext DEF Stays
      <4> QED
        BY <4>4, <4>5
    <3>4. CASE Adds(w)
      <4>1. /\ k'[w] = k[w] /\ pos'[w] = pos[w] /\ ser'[w] = ser[w] + Threads
            /\ AtWork(w) /\ ~AtWork(w)' /\ Len(todo[w]) = 1
            /\ last' = [last EXCEPT ![Current(w)] =
                  [k |-> k[w], gen |-> Head(todo[w]), marker |-> FALSE, ts |-> PointTime(Current(w), k[w]),
                   start |-> StartTime(Current(w), k[w]), value |-> Value(Current(w), k[w])]]
        BY <3>4 DEF Adds
      <4>2. Behind(w, s)' <=> Behind(w, s) \/ s = Current(w)
        BY <1>0, <1>2, <3>0, <4>1, BehindAdds
      <4>3. ~Marked(w, s)'
        BY <4>1 DEF Marked
      <4>4. CASE s # Current(w)
        <5>1. ~Marked(w, s) /\ last'[s] = last[s]
          BY <4>1, <4>4 DEF Marked
        <5> QED
          BY <1>0, <2>2, <3>0, <4>1, <4>2, <4>3, <4>4, <5>1, ExpectedSame
      <4>5. CASE s = Current(w)
        <5>1. Head(todo[w]) = generation(ResourceOf(s), k[w])
          BY <1>0, <4>1, <4>5, UnderWayFacts
        <5>2. last'[s] = PointAt(s, k[w])
          BY <2>0, <4>1, <4>5, <5>1 DEF PointAt, History
        <5> QED
          BY <1>0, <2>2, <4>1, <4>2, <4>5, <5>2, ExpectedNext
      <4> QED
        BY <4>4, <4>5
    <3>5. CASE Moves(w)
      <4>1. k'[w] = k[w] /\ last' = last /\ ~AtWork(w) /\ ~AtWork(w)'
        BY <3>5 DEF Moves
      <4>2. Behind(w, s)' <=> Behind(w, s)
        BY <1>0, <3>0, <3>5, BehindMoves
      <4>3. ~Marked(w, s) /\ ~Marked(w, s)'
        BY <4>1 DEF Marked
      <4> QED
        BY <1>0, <2>2, <3>0, <4>1, <4>2, <4>3, ExpectedSame
    <3>6. CASE Sweeps(w)
      <4>1. /\ k'[w] = (IF AtBound(w) THEN k[w] ELSE k[w] + 1) /\ pos'[w] = 0 /\ ser'[w] = w
            /\ last' = last /\ ~AtWork(w) /\ ~AtWork(w)'
        BY <3>6 DEF Sweeps
      <4>2. Behind(w, s) /\ ~AtBound(w)
        BY <1>0, <3>0, <3>6, SweepOver
      <4>3. ~Behind(w, s)'
        BY <1>0, <3>0, <4>1, SweepStart
      <4>4. ~Marked(w, s)'
        BY <4>1 DEF Marked
      <4>5. last'[s] = PointAt(s, k[w])
        BY <3>0, <4>1, <4>2 DEF Expected
      <4>6. k'[w] # 0 /\ k'[w] - 1 = k[w]
        BY <1>0, <4>1, <4>2
      <4> QED
        BY <1>0, <2>2, <4>3, <4>4, <4>5, <4>6, ExpectedNext
    <3> QED
      BY <3>1, <3>2, <3>3, <3>4, <3>5, <3>6 DEF Shape
  <2> QED
    BY <2>1, <2>2
<1> QED
  <2>1. \A s \in Series' : last'[s] = Expected(Owner(s), s)'
    BY <1>3, <1>4
  <2> QED
    BY <1>3, <2>1 DEF History

-----------------------------------------------------------------------------
(* The points a worker has handled *)

\* A table has finitely many series.
LEMMA SeriesFinite ==
    ASSUME run \in Runs
    PROVE  IsFiniteSet(Series)
<1> DEFINE I == 0 .. Len(run.metrics) - 1
           Of(m) == {<<m, x>> : x \in 0 .. Card(m) - 1}
           f == [m \in I |-> Of(m)]
           T == {Of(m) : m \in I}
<1>1. Len(run.metrics) \in Nat /\ \A m \in I : Card(m) \in Nat \ {0}
    BY RunFacts
<1>2. IsFiniteSet(I)
    BY <1>1, FS_Interval
<1>3. f \in Surjection(I, T)
    BY DEF Surjection
<1>4. IsFiniteSet(T)
    BY <1>2, <1>3, FS_Surjection
<1>5. ASSUME NEW m \in I PROVE IsFiniteSet(Of(m))
  <2>1. IsFiniteSet(0 .. Card(m) - 1)
    <3>1. 0 \in Int /\ Card(m) - 1 \in Int
      BY <1>1
    <3> QED
      BY <3>1, FS_Interval
  <2>2. IsFiniteSet({m} \X (0 .. Card(m) - 1))
    BY <2>1, FS_Singleton, FS_Product
  <2>3. Of(m) \in SUBSET ({m} \X (0 .. Card(m) - 1))
    OBVIOUS
  <2> QED
    BY <2>2, <2>3, FS_Subset
<1>6. IsFiniteSet(UNION T)
    BY <1>4, <1>5, FS_UNION
<1>7. Series = UNION T
    BY DEF Series, SeriesOf, Card
<1> QED
    BY <1>6, <1>7

\* A worker has finitely many points behind it.
LEMMA DoneFinite ==
    ASSUME Typed, NEW w \in Workers
    PROVE  /\ IsFiniteSet(Done(w)) /\ IsFiniteSet(Markers(w))
           /\ Cardinality(Done(w)) \in Nat /\ Cardinality(Markers(w)) \in Nat
<1>1. run \in Runs /\ k[w] \in Nat
    BY DEF Typed, TypeOK
<1>2. IsFiniteSet(Series) /\ Owned(w) \in SUBSET Series
    BY <1>1, SeriesFinite DEF Owned
<1>3. IsFiniteSet(Owned(w)) /\ IsFiniteSet(0 .. k[w])
  <2>1. 0 \in Int /\ k[w] \in Int
    BY <1>1
  <2> QED
    BY <1>2, <2>1, FS_Subset, FS_Interval
<1>4. IsFiniteSet(Owned(w) \X (0 .. k[w])) /\ Done(w) \in SUBSET (Owned(w) \X (0 .. k[w]))
    BY <1>3, FS_Product DEF Done
<1>5. IsFiniteSet(Done(w))
    BY <1>4, FS_Subset
<1>6. IsFiniteSet(Done(w) \cup {<<Current(w), k[w]>>})
    BY <1>5, FS_AddElement
<1>7. Markers(w) \in SUBSET (Done(w) \cup {<<Current(w), k[w]>>})
    BY DEF Markers, MarkedOnly
<1>8. IsFiniteSet(Markers(w))
    BY <1>6, <1>7, FS_Subset
<1> QED
    BY <1>5, <1>8, FS_CardinalityType

Counted(w) == Handled(w) = Added(w)
Counts == \A w \in Workers : Counted(w)

\* Markers, with the point under way in the place of MarkedOnly.
LEMMA MarkersAre ==
    \A w : Markers(w) = {p \in Done(w) : Due(p[1], p[2])}
                        \cup (IF AtWork(w) /\ Len(todo[w]) = 1 /\ Due(Current(w), k[w])
                              THEN {<<Current(w), k[w]>>} ELSE {})
<1> SUFFICES ASSUME NEW w
             PROVE  Markers(w) = {p \in Done(w) : Due(p[1], p[2])}
                        \cup (IF AtWork(w) /\ Len(todo[w]) = 1 /\ Due(Current(w), k[w])
                              THEN {<<Current(w), k[w]>>} ELSE {})
    OBVIOUS
<1> DEFINE c == <<Current(w), k[w]>>
<1>1. c[1] = Current(w) /\ c[2] = k[w]
    OBVIOUS
<1>2. Markers(w) = {p \in Done(w) \cup MarkedOnly(w) : Due(p[1], p[2])}
    BY DEF Markers, Due
<1>3. MarkedOnly(w) = IF AtWork(w) /\ Len(todo[w]) = 1 THEN {c} ELSE {}
    BY DEF MarkedOnly, UnderWay, AtWork
<1> HIDE DEF c
<1>4. Markers(w) = {p \in Done(w) : Due(p[1], p[2])}
                   \cup (IF AtWork(w) /\ Len(todo[w]) = 1 /\ Due(Current(w), k[w]) THEN {c} ELSE {})
    BY <1>1, <1>2, <1>3
<1> QED
    BY <1>4 DEF c

\* The markers after a step, by the points after it.
LEMMA MarkersNext ==
    (\A w : Markers(w) = {p \in Done(w) : Due(p[1], p[2])}
                        \cup (IF AtWork(w) /\ Len(todo[w]) = 1 /\ Due(Current(w), k[w])
                              THEN {<<Current(w), k[w]>>} ELSE {}))'
BY MarkersAre, PTL

\* Nothing is counted of a worker whose points and markers stay as they are.
LEMMA SameCount ==
    ASSUME NEW w, Counted(w), Handled(w)' = Handled(w), Done(w)' = Done(w), Markers(w)' = Markers(w)
    PROVE  Counted(w)'
BY DEF Counted, Added

\* The points done stay the same when the place does.
LEMMA SameDone ==
    ASSUME NEW w, run' = run, k'[w] = k[w], \A s \in Owned(w) : Behind(w, s)' <=> Behind(w, s)
    PROVE  Done(w)' = Done(w)
<1>1. Owned(w)' = Owned(w)
    BY DEF Owned, Series
<1>2. Done(w)' = {p \in Owned(w)' \X (0 .. k'[w]) : p[2] < k'[w] \/ Behind(w, p[1])'}
    BY DEF Done
<1>3. Done(w) = {p \in Owned(w) \X (0 .. k[w]) : p[2] < k[w] \/ Behind(w, p[1])}
    BY DEF Done
<1>4. \A p \in Owned(w) \X (0 .. k[w]) : p[1] \in Owned(w)
    OBVIOUS
<1> QED
    BY <1>1, <1>2, <1>3, <1>4

\* Every step counts the points and markers it adds, once.
LEMMA CountStep ==
    ASSUME IInv, Typed', NEW w \in Workers, Courses, Shape(w), Counts
    PROVE  Counts'
<1>0. Typed /\ Course(w) /\ run' = run /\ run \in Runs /\ k[w] \in Nat /\ Counted(w)
    BY DEF IInv, Courses, Shape, Typed, TypeOK, Counts
<1> DEFINE c == <<Current(w), k[w]>>
           M(D) == {p \in D : Due(p[1], p[2])}
<1>1. \A v \in Workers : Markers(v)' = {p \in Done(v)' : Due(p[1], p[2])}
             \cup (IF AtWork(v)' /\ Len(todo'[v]) = 1 /\ Due(Current(v)', k'[v])
                   THEN {<<Current(v)', k'[v]>>} ELSE {})
    BY MarkersNext DEF Due, ResourceOf
<1>2. \A v \in Workers : Markers(v) = {p \in Done(v) : Due(p[1], p[2])}
             \cup (IF AtWork(v) /\ Len(todo[v]) = 1 /\ Due(Current(v), k[v])
                   THEN {<<Current(v), k[v]>>} ELSE {})
    BY MarkersAre
<1>3. AtWork(w) => MorePoints(w) /\ Current(w) \in Owned(w) /\ ~Behind(w, Current(w))
    BY <1>0, AtSeries DEF Course
<1>4. AtWork(w) => c \notin Done(w)
    BY <1>0, <1>3 DEF Done
<1>5. ASSUME NEW v \in Workers, v # w PROVE Counted(v)'
  <2>1. Same(v) /\ Counted(v)
    BY <1>5 DEF Shape, Counts
  <2>2. Done(v)' = Done(v)
    BY <1>0, <2>1, SameDone, BehindSame DEF Same, Stays
  <2>3. Current(v)' = Current(v)
    BY <1>0, <2>1, SamePlace DEF Same
  <2>4. /\ k'[v] = k[v] /\ todo'[v] = todo[v] /\ (AtWork(v)' <=> AtWork(v)) /\ Handled(v)' = Handled(v)
    BY <2>1 DEF Same, Stays, AtWork, Handled
  <2>5. Markers(v)' = Markers(v)
    BY <1>1, <1>2, <2>2, <2>3, <2>4
  <2> QED
    BY <2>1, <2>2, <2>4, <2>5, SameCount
<1>6. Counted(w)'
  <2>1. CASE Quiet(w)
    <3>1. /\ Stays(w) /\ todo'[w] = todo[w] /\ (AtWork(w)' <=> AtWork(w)) /\ Handled(w)' = Handled(w)
          /\ k'[w] = k[w]
      BY <2>1 DEF Quiet, Stays
    <3>2. Done(w)' = Done(w)
      BY <1>0, <3>1, SameDone, BehindSame
    <3>3. Current(w)' = Current(w)
      BY <1>0, <3>1, SamePlace
    <3>4. Markers(w)' = Markers(w)
      BY <1>1, <1>2, <3>1, <3>2, <3>3
    <3> QED
      BY <1>0, <3>1, <3>2, <3>4, SameCount
  <2>2. CASE Begins(w)
    <3>1. /\ Stays(w) /\ todo'[w] = Needs(Current(w), k[w]) /\ ~AtWork(w) /\ Handled(w)' = Handled(w)
          /\ k'[w] = k[w]
      BY <2>2 DEF Begins, Stays
    <3>2. Done(w)' = Done(w)
      BY <1>0, <3>1, SameDone, BehindSame
    <3>3. Current(w)' = Current(w)
      BY <1>0, <3>1, SamePlace
    <3>4. ~ (Len(todo'[w]) = 1 /\ Due(Current(w), k[w]))
      <4>1. Due(Current(w), k[w]) => Len(Needs(Current(w), k[w])) = 2
        BY <1>0, NeedsFacts
      <4> QED
        BY <3>1, <4>1
    <3>5. Markers(w)' = Markers(w)
      BY <1>1, <1>2, <3>1, <3>2, <3>3, <3>4
    <3> QED
      BY <1>0, <3>1, <3>2, <3>5, SameCount
  <2>3. CASE Marks(w)
    <3>1. /\ Stays(w) /\ AtWork(w) /\ AtWork(w)' /\ Len(todo[w]) = 2 /\ todo'[w] = Tail(todo[w])
          /\ k'[w] = k[w] /\ Handled(w)' = Handled(w) + 1
      BY <2>3 DEF Marks, Stays
    <3>2. Done(w)' = Done(w)
      BY <1>0, <3>1, SameDone, BehindSame
    <3>3. Current(w)' = Current(w)
      BY <1>0, <3>1, SamePlace
    <3>4. Len(todo'[w]) = 1 /\ Due(Current(w), k[w])
      BY <1>0, <3>1, TodoFacts, UnderWayFacts
    <3>5. Markers(w) = M(Done(w))
      BY <1>2, <3>1
    <3>6. Markers(w)' = Markers(w) \cup {c}
      BY <1>1, <3>1, <3>2, <3>3, <3>4, <3>5
    <3>7. c \notin Markers(w)
      BY <1>4, <3>1, <3>5
    <3>8. Cardinality(Markers(w)') = Cardinality(Markers(w)) + 1
      BY <1>0, <3>6, <3>7, DoneFinite, FS_AddElement
    <3>9. Cardinality(Done(w)) \in Nat /\ Cardinality(Markers(w)) \in Nat
      BY <1>0, DoneFinite
    <3>10. Added(w)' = Added(w) + 1
      <4>1. Added(w)' = Cardinality(Done(w)') + Cardinality(Markers(w)')
        BY DEF Added
      <4> QED
        BY <3>2, <3>8, <3>9, <4>1 DEF Added
    <3> QED
      BY <1>0, <3>1, <3>10 DEF Counted
  <2>4. CASE Adds(w)
    <3>1. /\ k'[w] = k[w] /\ pos'[w] = pos[w] /\ ser'[w] = ser[w] + Threads
          /\ AtWork(w) /\ ~AtWork(w)' /\ Len(todo[w]) = 1 /\ Handled(w)' = Handled(w) + 1
      BY <2>4 DEF Adds
    <3>2. \A s \in Owned(w) : Behind(w, s)' <=> Behind(w, s) \/ s = Current(w)
      BY <1>0, <1>3, <3>1, BehindAdds
    <3>3. Done(w)' = Done(w) \cup {c}
      <4>1. Owned(w)' = Owned(w)
        BY <1>0 DEF Owned, Series
      <4>2. Done(w)' = {p \in Owned(w) \X (0 .. k[w]) : p[2] < k[w] \/ Behind(w, p[1])'}
        BY <3>1, <4>1 DEF Done
      <4>3. Done(w) = {p \in Owned(w) \X (0 .. k[w]) : p[2] < k[w] \/ Behind(w, p[1])}
        BY DEF Done
      <4>4. ASSUME NEW p PROVE p \in Done(w)' <=> p \in Done(w) \cup {c}
        <5>1. CASE p \in Owned(w) \X (0 .. k[w])
          <6>1. p[1] \in Owned(w) /\ p[2] \in 0 .. k[w] /\ p = <<p[1], p[2]>>
            BY <5>1
          <6>2. ~ (p[2] < k[w]) => p[2] = k[w]
            BY <1>0, <6>1
          <6>3. p = c <=> p[1] = Current(w) /\ p[2] = k[w]
            BY <6>1
          <6>4. p \in Done(w)' <=> p[2] < k[w] \/ Behind(w, p[1]) \/ p[1] = Current(w)
            BY <3>2, <4>2, <5>1, <6>1
          <6>5. p \in Done(w) <=> p[2] < k[w] \/ Behind(w, p[1])
            BY <4>3, <5>1
          <6> QED
            BY <6>2, <6>3, <6>4, <6>5
        <5>2. CASE p \notin Owned(w) \X (0 .. k[w])
          <6>1. c \in Owned(w) \X (0 .. k[w])
            BY <1>0, <1>3, <3>1
          <6> QED
            BY <4>2, <4>3, <5>2, <6>1
        <5> QED
          BY <5>1, <5>2
      <4> QED
        BY <4>4
    <3>4. Markers(w)' = M(Done(w) \cup {c})
      BY <1>1, <3>1, <3>3
    <3>5. Markers(w) = M(Done(w)) \cup (IF Due(Current(w), k[w]) THEN {c} ELSE {})
      BY <1>2, <3>1
    <3>6. c[1] = Current(w) /\ c[2] = k[w]
      OBVIOUS
    <3> HIDE DEF c
    <3>7. Markers(w)' = Markers(w)
      BY <3>4, <3>5, <3>6
    <3>8. Cardinality(Done(w)') = Cardinality(Done(w)) + 1
      BY <1>0, <1>4, <3>1, <3>3, DoneFinite, FS_AddElement
    <3>9. Cardinality(Done(w)) \in Nat /\ Cardinality(Markers(w)) \in Nat
      BY <1>0, DoneFinite
    <3>10. Added(w)' = Added(w) + 1
      <4>1. Added(w)' = Cardinality(Done(w)') + Cardinality(Markers(w)')
        BY DEF Added
      <4> QED
        BY <3>7, <3>8, <3>9, <4>1 DEF Added
    <3> QED
      BY <1>0, <3>1, <3>10 DEF Counted
  <2>5. CASE Moves(w)
    <3>1. k'[w] = k[w] /\ ~AtWork(w) /\ ~AtWork(w)' /\ Handled(w)' = Handled(w)
      BY <2>5 DEF Moves
    <3>2. Done(w)' = Done(w)
      BY <1>0, <2>5, <3>1, SameDone, BehindMoves
    <3>3. Markers(w)' = Markers(w)
      BY <1>1, <1>2, <3>1, <3>2
    <3> QED
      BY <1>0, <3>1, <3>2, <3>3, SameCount
  <2>6. CASE Sweeps(w)
    <3>1. /\ k'[w] = (IF AtBound(w) THEN k[w] ELSE k[w] + 1) /\ pos'[w] = 0 /\ ser'[w] = w
          /\ ~AtWork(w) /\ ~AtWork(w)' /\ Handled(w)' = Handled(w)
      BY <2>6 DEF Sweeps
    <3>2. Done(w)' = Done(w)
      <4>1. Owned(w)' = Owned(w)
        BY <1>0 DEF Owned, Series
      <4>2. Done(w)' = {p \in Owned(w) \X (0 .. k'[w]) : p[2] < k'[w] \/ Behind(w, p[1])'}
        BY <4>1 DEF Done
      <4>3. Done(w) = {p \in Owned(w) \X (0 .. k[w]) : p[2] < k[w] \/ Behind(w, p[1])}
        BY DEF Done
      <4>4. \A s \in Owned(w) : Behind(w, s) /\ ~Behind(w, s)' /\ ~AtBound(w)
        BY <1>0, <2>6, <3>1, SweepOver, SweepStart
      <4>5. ASSUME NEW p PROVE p \in Done(w)' <=> p \in Owned(w) \X (0 .. k[w])
        <5>1. CASE p[1] \in Owned(w) /\ p = <<p[1], p[2]>>
          <6>1. k'[w] = k[w] + 1 /\ ~Behind(w, p[1])'
            BY <3>1, <4>4, <5>1
          <6>2. p[2] \in 0 .. k[w] + 1 /\ p[2] < k[w] + 1 <=> p[2] \in 0 .. k[w]
            BY <1>0
          <6>3. /\ p \in Owned(w) \X (0 .. k[w] + 1) <=> p[2] \in 0 .. k[w] + 1
                /\ p \in Owned(w) \X (0 .. k[w]) <=> p[2] \in 0 .. k[w]
            BY <5>1
          <6> QED
            BY <4>2, <6>1, <6>2, <6>3
        <5>2. CASE ~ (p[1] \in Owned(w) /\ p = <<p[1], p[2]>>)
          BY <4>2, <5>2
        <5> QED
          BY <5>1, <5>2
      <4>6. ASSUME NEW p PROVE p \in Done(w) <=> p \in Owned(w) \X (0 .. k[w])
        BY <4>3, <4>4
      <4> QED
        BY <4>5, <4>6
    <3>3. Markers(w)' = Markers(w)
      BY <1>1, <1>2, <3>1, <3>2
    <3> QED
      BY <1>0, <3>1, <3>2, <3>3, SameCount
  <2> QED
    BY <2>1, <2>2, <2>3, <2>4, <2>5, <2>6 DEF Shape
<1> QED
    BY <1>5, <1>6 DEF Counts

-----------------------------------------------------------------------------
(* Every point once *)

FullInv == IInv /\ Courses /\ History /\ Counts

\* The layers hold at the start of a run.
LEMMA FullInit == Init => FullInv
<1> SUFFICES ASSUME Init PROVE FullInv
    OBVIOUS
<1>1. IInv /\ Typed /\ run \in Runs
    BY InitHolds DEF IInv, Typed
<1>2. ASSUME NEW w \in Workers
      PROVE  k[w] = 0 /\ pos[w] = 0 /\ ser[w] = w /\ pc[w] = "dial" /\ settled[w] = 0 /\ points[w] = 0
    BY DEF Init
<1>3. run.sweeps \in Nat /\ Len(run.metrics) \in Nat
    BY <1>1, RunFacts
<1>4. ASSUME NEW w \in Workers, NEW s \in Owned(w) PROVE ~Behind(w, s)
    BY <1>1, <1>2, BehindStart
<1>5. ASSUME NEW w \in Workers PROVE Course(w)
  <2>1. w % Threads = w
    BY WorkerNat, ModBelow
  <2>2. MoreSweeps(w)
    BY <1>2, <1>3 DEF MoreSweeps, Endless
  <2>3. ~AtWork(w) /\ ~Ending(w)
    BY <1>2 DEF AtWork, Ending
  <2> QED
    BY <1>2, <1>3, <1>4, <2>1, <2>2, <2>3 DEF Course
<1>6. History
  <2>1. last = [s \in AllSeries |-> NoPoint]
    BY DEF Init
  <2>2. ASSUME NEW s \in Series PROVE last[s] = Expected(Owner(s), s)
    <3>1. s \in AllSeries /\ Owner(s) \in Workers /\ s \in Owned(Owner(s))
      BY <1>1, SeriesFacts
    <3>2. ~Behind(Owner(s), s) /\ ~Marked(Owner(s), s) /\ k[Owner(s)] = 0
      BY <1>2, <1>4, <3>1 DEF Marked, AtWork
    <3> QED
      BY <2>1, <3>1, <3>2 DEF Expected
  <2> QED
    BY <2>1, <2>2 DEF History
<1>7. ASSUME NEW w \in Workers PROVE Counted(w)
  <2>1. Done(w) = {}
    <3>1. \A p \in Owned(w) \X (0 .. k[w]) : p[1] \in Owned(w) /\ ~ (p[2] < k[w])
      BY <1>2
    <3> QED
      BY <1>4, <3>1 DEF Done
  <2>2. Markers(w) = {}
    BY <1>2, <2>1 DEF Markers, MarkedOnly, UnderWay
  <2> QED
    BY <1>2, <2>1, <2>2, FS_EmptySet DEF Counted, Handled, Added
<1> QED
    BY <1>1, <1>5, <1>6, <1>7 DEF FullInv, Courses, Counts

\* The layers hold after every step.
LEMMA FullStep == FullInv /\ [Next]_vars => FullInv'
<1> SUFFICES ASSUME FullInv, [Next]_vars PROVE FullInv'
    OBVIOUS
<1>0. IInv /\ IInv' /\ Typed' /\ Courses /\ History /\ Counts
    BY StepHolds DEF FullInv, IInv
<1>1. CASE UNCHANGED <<run, pc, k, pos, ser, todo, then, settled, points, last>>
  <2>1. ASSUME NEW w \in Workers PROVE Course(w)'
    BY <1>0, <1>1, CourseSame DEF Courses, Stays, AtWork, Ending
  <2>2. History'
    <3>1. \A s \in Series : Owner(s) \in Workers
      BY <1>0, SeriesFacts DEF IInv, Typed
    <3>2. ASSUME NEW s \in Series PROVE Expected(Owner(s), s)' = Expected(Owner(s), s)
      <4>1. Behind(Owner(s), s)' <=> Behind(Owner(s), s)
        BY <1>1, BehindSame DEF Stays
      <4>2. Current(Owner(s))' = Current(Owner(s))
        BY <1>1, SamePlace DEF Stays
      <4>3. Marked(Owner(s), s)' <=> Marked(Owner(s), s)
        BY <1>1, <4>2 DEF Marked, AtWork, Due, ResourceOf
      <4> QED
        BY <1>1, <3>1, <4>1, <4>3, ExpectedSame
    <3>3. Series' = Series /\ AllSeries' = AllSeries
      BY <1>1 DEF Series, AllSeries
    <3>4. \A s \in Series' : last'[s] = Expected(Owner(s), s)'
      BY <1>0, <1>1, <3>2, <3>3 DEF History
    <3> QED
      BY <1>0, <1>1, <3>3, <3>4 DEF History
  <2>3. ASSUME NEW w \in Workers PROVE Counted(w)'
    <3>1. Done(w)' = Done(w)
      BY <1>1, SameDone, BehindSame DEF Stays
    <3>2. Current(w)' = Current(w)
      BY <1>1, SamePlace DEF Stays
    <3>3. Markers(w)' = Markers(w)
      BY <1>1, <3>1, <3>2 DEF Markers, MarkedOnly, UnderWay, ResourceOf
    <3>4. Handled(w)' = Handled(w)
      BY <1>1 DEF Handled
    <3> QED
      BY <1>0, <3>1, <3>3, <3>4, SameCount DEF Counts
  <2> QED
    BY <1>0, <2>1, <2>2, <2>3 DEF FullInv, Courses, Counts
<1>2. ASSUME NEW w \in Workers, Worker(w) PROVE FullInv'
    BY <1>0, <1>2, WorkerShape, CourseStep, HistoryStep, CountStep DEF FullInv
<1>3. CASE Cancel \/ Rest \/ UNCHANGED vars
    BY <1>1, <1>3 DEF Cancel, Rest, vars, place, request
<1> QED
    BY <1>2, <1>3 DEF Next

\* worker.go:150-209. At every moment the place of each worker says exactly which
\* points and markers its series have had, and so how many.
THEOREM FullInvariance == Spec => []FullInv
BY FullInit, FullStep, PTL DEF Spec

\* Read off the layers: what is settled and what is held is what was added.
LEMMA SettledHolds == FullInv => SettledOnce
<1> SUFFICES ASSUME FullInv PROVE SettledOnce
    OBVIOUS
<1>1. \A w \in Workers : RequestBounded(w) /\ settled[w] + points[w] = Added(w)
    BY DEF FullInv, IInv, WorkerInv, Room, Counts, Counted, Handled
<1>2. ASSUME \A w \in Workers : pc[w] = "ended", NEW s \in Series PROVE last[s].k = run.sweeps - 1
  <2> DEFINE w == Owner(s)
  <2>0. Typed /\ run \in Runs /\ run.sweeps \in Nat
    BY RunFacts DEF FullInv, IInv, Typed
  <2>1. w \in Workers /\ s \in Owned(w) /\ pc[w] = "ended" /\ Course(w) /\ last[s] = Expected(w, s)
    BY <1>2, <2>0, SeriesFacts DEF FullInv, Courses, History
  <2>2. ~MoreSweeps(w)
    BY <2>1 DEF Course, Ending
  <2>3. k[w] = run.sweeps /\ pos[w] = 0 /\ ser[w] = w /\ run.sweeps # 0
    BY <2>1, <2>2 DEF Course, MoreSweeps, Endless
  <2>4. ~Behind(w, s)
    BY <2>0, <2>1, <2>3, BehindStart
  <2>5. ~Marked(w, s)
    BY <2>1 DEF Marked, AtWork
  <2>6. last[s] = PointAt(s, run.sweeps - 1)
    BY <2>1, <2>3, <2>4, <2>5 DEF Expected
  <2> QED
    BY <2>6 DEF PointAt
<1> QED
    BY <1>1, <1>2 DEF SettledOnce

\* worker.go:43-46, 72-148, 175-209. For every table, stripe and number of
\* workers: what a builder holds and what its worker has settled are together the
\* points and markers that were due so far, no request outgrows its limit, and
\* when the workers have ended every series has had every sweep.
THEOREM PointsSettledOnce == Spec => []SettledOnce
BY FullInvariance, SettledHolds, PTL

-----------------------------------------------------------------------------
(* Recursive functions *)

\* G[i] makes the value at i of the value before it; a function defined by
\* recursion up to n is one that starts from x0 and follows G.
Closed(X, n, G) == \A i \in 1 .. n : \A x \in X : G[i][x] \in X
Defined(X, x0, n, G) ==
    \E g \in [0 .. n -> X] : g[0] = x0 /\ \A i \in 1 .. n : g[i] = G[i][g[i - 1]]

\* A function defined by recursion up to n exists.
LEMMA Recursion ==
    ASSUME NEW X, NEW x0 \in X, NEW n \in Nat, NEW G, Closed(X, n, G)
    PROVE  Defined(X, x0, n, G)
<1>0. \A i \in 1 .. n : \A x \in X : G[i][x] \in X
    BY DEF Closed
<1> DEFINE To(m, g) == /\ g \in [0 .. m -> X] /\ g[0] = x0
                       /\ \A i \in 1 .. m : g[i] = G[i][g[i - 1]]
           S == {m \in Nat : m =< n => \E g : To(m, g)}
<1>1. 0 \in S
  <2>1. To(0, [i \in 0 .. 0 |-> x0])
    OBVIOUS
  <2> QED
    BY <2>1
<1>2. ASSUME NEW m \in Nat, m \in S PROVE m + 1 \in S
  <2> SUFFICES ASSUME m + 1 =< n PROVE \E g : To(m + 1, g)
    OBVIOUS
  <2>1. PICK g : To(m, g)
    BY <1>2
  <2> DEFINE e == G[m + 1][g[m]]
             h == [i \in 0 .. m + 1 |-> IF i = m + 1 THEN e ELSE g[i]]
  <2>2. g \in [0 .. m -> X] /\ m \in 0 .. m /\ m + 1 \in 0 .. m + 1 /\ m + 1 \in 1 .. n
    BY <2>1
  <2>3. g[m] \in X
    BY <2>2
  <2>4. e \in X
    BY <1>0, <2>2, <2>3
  <2> HIDE DEF e
  <2>5. ASSUME NEW i \in 0 .. m PROVE h[i] = g[i] /\ g[i] \in X
    <3>1. i \in 0 .. m + 1 /\ i # m + 1
      OBVIOUS
    <3> QED
      BY <2>2, <3>1
  <2>6. h[m + 1] = e
    BY <2>2
  <2>7. h \in [0 .. m + 1 -> X]
    BY <2>2, <2>4
  <2> HIDE DEF h
  <2>8. ASSUME NEW i \in 1 .. m + 1 PROVE h[i] = G[i][h[i - 1]]
    <3>1. CASE i = m + 1
      <4>1. i - 1 = m /\ h[m] = g[m]
        BY <2>2, <2>5, <3>1
      <4> QED
        BY <2>6, <3>1, <4>1 DEF e
    <3>2. CASE i # m + 1
      <4>1. i \in 1 .. m /\ i \in 0 .. m /\ i - 1 \in 0 .. m
        BY <3>2
      <4> QED
        BY <2>1, <2>5, <4>1
    <3> QED
      BY <3>1, <3>2
  <2>9. h[0] = x0
    BY <2>1, <2>5
  <2> QED
    BY <2>7, <2>8, <2>9
<1>3. n \in S
  <2> HIDE DEF S
  <2> QED
    BY <1>1, <1>2, InductionOnNat
<1>4. PICK g : To(n, g)
    BY <1>3
<1> QED
    BY <1>4 DEF Defined

\* What holds at 0 and is kept from one number to the next holds up to n.
LEMMA InductionUpTo ==
    ASSUME NEW n \in Nat, NEW S, 0 \in S, \A i \in 1 .. n : i - 1 \in S => i \in S
    PROVE  0 .. n \subseteq S
<1> DEFINE T == {m \in Nat : m =< n => m \in S}
<1>1. 0 \in T
    OBVIOUS
<1>2. ASSUME NEW m \in Nat, m \in T PROVE m + 1 \in T
  <2>1. CASE m + 1 =< n
    <3>1. m + 1 \in 1 .. n /\ (m + 1) - 1 = m /\ m \in S
      BY <1>2, <2>1
    <3> QED
      BY <3>1
  <2>2. CASE ~ (m + 1 =< n)
    BY <2>2
  <2> QED
    BY <2>1, <2>2
<1>3. Nat \subseteq T
  <2> HIDE DEF T
  <2> QED
    BY <1>1, <1>2, InductionOnNat
<1> QED
    BY <1>3

\* Total, by its partial sums.
LEMMA TotalSums ==
    ASSUME NEW w \in Seq(Int)
    PROVE  \E f \in [0 .. Len(w) -> Int] : /\ f[0] = 0 /\ Total(w) = f[Len(w)]
                                          /\ \A i \in 1 .. Len(w) : f[i] = f[i - 1] + w[i]
<1> DEFINE n == Len(w)
           G == [i \in 1 .. n |-> [x \in Int |-> x + w[i]]]
           P(f) == f = [i \in 0 .. n |-> IF i = 0 THEN 0 ELSE f[i - 1] + w[i]]
           sum == CHOOSE f : P(f)
<1>1. n \in Nat /\ \A i \in 1 .. n : w[i] \in Int
    OBVIOUS
<1>2. Total(w) = sum[n]
    BY DEF Total
<1> HIDE DEF n
<1>3. \A i \in 1 .. n : \A x \in Int : G[i][x] = x + w[i] /\ G[i][x] \in Int
    BY <1>1
<1> HIDE DEF G
<1>4. PICK g \in [0 .. n -> Int] : g[0] = 0 /\ \A i \in 1 .. n : g[i] = G[i][g[i - 1]]
  <2>1. Closed(Int, n, G)
    BY <1>3 DEF Closed
  <2>2. Defined(Int, 0, n, G)
    <3>1. 0 \in Int /\ n \in Nat
      BY <1>1
    <3> QED
      BY <2>1, <3>1, Recursion, Zenon
  <2> QED
    BY <2>2 DEF Defined
<1>5. \A i \in 1 .. n : g[i] = g[i - 1] + w[i]
  <2> SUFFICES ASSUME NEW i \in 1 .. n PROVE g[i] = g[i - 1] + w[i]
    OBVIOUS
  <2>1. i - 1 \in 0 .. n
    BY <1>1
  <2> QED
    BY <1>3, <1>4, <2>1
<1>6. P(g)
  <2>1. \A i \in 0 .. n : g[i] = IF i = 0 THEN 0 ELSE g[i - 1] + w[i]
    BY <1>1, <1>4, <1>5
  <2> QED
    BY <1>4, <2>1
<1>7. P(sum)
  <2> HIDE DEF P
  <2> QED
    BY <1>6
<1> HIDE DEF sum
<1>8. DOMAIN sum = 0 .. n /\ sum[0] = 0 /\ \A i \in 1 .. n : sum[i] = sum[i - 1] + w[i]
    BY <1>1, <1>7
<1> DEFINE S == {i \in 0 .. n : sum[i] \in Int}
<1>9. 0 .. n \subseteq S
  <2>1. 0 \in S
    BY <1>1, <1>8
  <2>2. ASSUME NEW i \in 1 .. n, i - 1 \in S PROVE i \in S
    <3>1. i \in 0 .. n /\ sum[i] = sum[i - 1] + w[i] /\ w[i] \in Int /\ sum[i - 1] \in Int
      BY <1>1, <1>8, <2>2
    <3>2. sum[i] \in Int
      BY <3>1
    <3> QED
      BY <3>1, <3>2
  <2> HIDE DEF S
  <2> QED
    BY <1>1, <2>1, <2>2, InductionUpTo
<1>10. sum \in [0 .. n -> Int]
    BY <1>7, <1>9
<1> QED
    BY <1>2, <1>8, <1>10 DEF n

Within(a, b) == /\ a \in Seq(Nat) /\ b \in Seq(Nat) /\ Len(a) = Len(b)
                   /\ \A i \in 1 .. Len(a) : a[i] =< b[i]

\* A total grows with its parts.
LEMMA TotalMonotone ==
    ASSUME NEW a, NEW b, Within(a, b)
    PROVE  Total(a) =< Total(b) /\ Total(a) \in Nat /\ Total(b) \in Nat
<1> DEFINE n == Len(a)
<1>1. /\ n \in Nat /\ a \in Seq(Nat) /\ b \in Seq(Nat) /\ a \in Seq(Int) /\ b \in Seq(Int) /\ Len(b) = n
      /\ \A i \in 1 .. n : a[i] \in Nat /\ b[i] \in Nat /\ a[i] =< b[i]
    BY DEF Within
<1>2. PICK f \in [0 .. n -> Int] : f[0] = 0 /\ Total(a) = f[n] /\ \A i \in 1 .. n : f[i] = f[i - 1] + a[i]
    BY <1>1, TotalSums
<1>3. PICK g \in [0 .. n -> Int] : g[0] = 0 /\ Total(b) = g[n] /\ \A i \in 1 .. n : g[i] = g[i - 1] + b[i]
  <2>1. \E g \in [0 .. Len(b) -> Int] : /\ g[0] = 0 /\ Total(b) = g[Len(b)]
                                       /\ \A i \in 1 .. Len(b) : g[i] = g[i - 1] + b[i]
    BY <1>1, TotalSums
  <2> QED
    BY <1>1, <2>1, Zenon
<1> HIDE DEF n
<1> DEFINE S == {i \in 0 .. n : f[i] =< g[i] /\ f[i] \in Nat /\ g[i] \in Nat}
<1>4. 0 \in S
    BY <1>1, <1>2, <1>3
<1>5. ASSUME NEW i \in 1 .. n, i - 1 \in S PROVE i \in S
  <2>1. f[i] = f[i - 1] + a[i] /\ g[i] = g[i - 1] + b[i] /\ a[i] \in Nat /\ b[i] \in Nat /\ a[i] =< b[i]
    BY <1>1, <1>2, <1>3
  <2>2. f[i - 1] =< g[i - 1] /\ f[i - 1] \in Nat /\ g[i - 1] \in Nat
    BY <1>5
  <2> DEFINE x == f[i - 1]
             y == g[i - 1]
             c == a[i]
             d == b[i]
  <2>3. x \in Nat /\ y \in Nat /\ c \in Nat /\ d \in Nat /\ x =< y /\ c =< d
    BY <2>1, <2>2
  <2>4. f[i] = x + c /\ g[i] = y + d
    BY <2>1
  <2> HIDE DEF x, y, c, d
  <2>5. f[i] =< g[i] /\ f[i] \in Nat /\ g[i] \in Nat
    BY <2>3, <2>4
  <2>6. i \in 0 .. n
    BY <1>1
  <2> QED
    BY <2>5, <2>6
<1>6. 0 .. n \subseteq S
  <2> HIDE DEF S
  <2> QED
    BY <1>1, <1>4, <1>5, InductionUpTo
<1> QED
    BY <1>1, <1>2, <1>3, <1>6

-----------------------------------------------------------------------------
(* Virtual time *)

\* The types and temporalities that go together.
LEMMA DefFacts ==
    ASSUME run \in Runs, NEW s \in Series
    PROVE  /\ Def(s).typ \in MetricTypes /\ Def(s).monotonic \in BOOLEAN
           /\ Def(s).typ \in {"gauge", "summary"} => Def(s).temporality = "unspecified"
           /\ Def(s).typ \notin {"gauge", "summary"} => Def(s).temporality \in {"delta", "cumulative"}
<1>1. /\ run.metrics \in Seq(MetricDef)
      /\ \A i \in DOMAIN run.metrics :
            run.metrics[i] \in MetricDefs(run.metrics[i].typ, run.metrics[i].card)
    BY GenAssumption
<1>2. s[1] \in 0 .. Len(run.metrics) - 1 /\ Len(run.metrics) \in Nat
    BY <1>1, SeriesFacts
<1>3. s[1] + 1 \in 1 .. Len(run.metrics)
    BY <1>2
<1>4. Def(s) \in MetricDef /\ Def(s) \in MetricDefs(Def(s).typ, Def(s).card)
    BY <1>1, <1>3 DEF Def
<1> HIDE DEF Def
<1> QED
    BY <1>4 DEF MetricDef, MetricDefs

\* plan.go: two points of a series are a jitter each away from sweeps that are an
\* interval apart, and the jitter is less than half of it.
LEMMA TimeMovesOn ==
    ASSUME NEW s, NEW p \in Int, NEW q \in Int
    PROVE  /\ PointTime(s, p) \in Int /\ PointTime(s, q) \in Int
           /\ p < q => PointTime(s, p) < PointTime(s, q)
<1> DEFINE j == JitterMs
           iv == IntervalMs
           off == Offset(ResourceOf(s))
           wp == Wobble(s, p)
           wq == Wobble(s, q)
<1>1. j \in Nat /\ iv \in Nat \ {0} /\ 2 * j < iv /\ StartMs \in Nat
    BY PlanAssumption, GenAssumption DEF ValidTimes
<1>2. off \in Nat
    BY <1>1, MixNat, Quotient DEF Offset
<1>3. \A x : Wobble(s, x) \in -j .. j
  <2> SUFFICES ASSUME NEW x PROVE Wobble(s, x) \in -j .. j
    OBVIOUS
  <2> DEFINE d == 2 * JitterMs + 1
             m == mix(s, x, JitterSalt)
  <2>1. d \in Nat \ {0} /\ d = 2 * j + 1 /\ m \in Nat
    BY <1>1, MixNat
  <2>2. Wobble(s, x) = (m % d) - j
    BY DEF Wobble
  <2> HIDE DEF d, m, j
  <2>3. m % d \in 0 .. d - 1
    BY <2>1, Quotient
  <2> QED
    BY <1>1, <2>1, <2>2, <2>3
<1>4. wp \in -j .. j /\ wq \in -j .. j
    BY <1>3
<1>5. /\ PointTime(s, p) = StartMs + p * iv + off + wp
      /\ PointTime(s, q) = StartMs + q * iv + off + wq
    BY DEF PointTime, pointTimeMs, sweepTimeMs
<1> HIDE DEF j, iv, off, wp, wq
<1>6. p * iv \in Int /\ q * iv \in Int
    BY <1>1
<1>7. p < q => q * iv >= p * iv + iv
  <2> SUFFICES ASSUME p < q PROVE q * iv >= p * iv + iv
    OBVIOUS
  <2> DEFINE d == q - p - 1
  <2>1. d \in Nat /\ q = p + d + 1
    OBVIOUS
  <2>2. q * iv = p * iv + d * iv + iv
    BY <1>1, <2>1
  <2>3. d * iv \in Nat
    BY <1>1, <2>1
  <2> QED
    BY <1>1, <1>6, <2>2, <2>3
<1> QED
    BY <1>1, <1>2, <1>4, <1>5, <1>6, <1>7

\* The remainder goes up by one or starts again.
LEMMA ModStep ==
    ASSUME NEW a \in Nat, NEW b \in Nat \ {0}
    PROVE  (a + 1) % b = 0 \/ (a + 1) % b = (a % b) + 1
<1> DEFINE q == a \div b
           r == a % b
           c == a + 1
<1>1. q \in Nat /\ r \in 0 .. b - 1 /\ a = b * q + r
    BY Quotient
<1>2. c \in Nat /\ c = b * q + r + 1
    BY <1>1
<1> HIDE DEF q, r, c
<1>3. c \div b \in Nat /\ c % b \in 0 .. b - 1 /\ c = b * (c \div b) + (c % b)
    BY <1>2, Quotient
<1>4. b * q \in Nat /\ b * (q + 1) = b * q + b
    BY <1>1
<1>5. CASE r = b - 1
  <2>1. c = b * (q + 1) /\ q + 1 \in Nat
    BY <1>1, <1>2, <1>4, <1>5
  <2>2. b * (q + 1) =< c /\ c < b * (q + 1) + b
    BY <1>4, <2>1
  <2>3. c \div b = q + 1
    BY <1>2, <2>1, <2>2, QuotientUnique
  <2>4. c % b = 0
    <3>1. c = b * (q + 1) + (c % b) /\ c % b \in Int
      BY <1>3, <2>3
    <3>2. b * (q + 1) \in Int
      BY <1>4
    <3> DEFINE x == b * (q + 1)
               m == c % b
    <3>3. x \in Int /\ m \in Int /\ c = x /\ c = x + m
      BY <2>1, <3>1, <3>2
    <3> HIDE DEF x, m
    <3>4. m = 0
      BY <3>3
    <3> QED
      BY <3>4 DEF m
  <2> QED
    BY <2>4 DEF c
<1>6. CASE r # b - 1
  <2>1. b * q =< c /\ c < b * q + b
    BY <1>1, <1>2, <1>4, <1>6
  <2>2. c \div b = q
    BY <1>1, <1>2, <2>1, QuotientUnique
  <2>3. c % b = r + 1
    BY <1>1, <1>2, <1>3, <1>4, <2>2
  <2> QED
    BY <2>3 DEF c, r
<1> QED
    BY <1>5, <1>6

\* A cumulative series' epoch begins at the present sweep, or is that of the sweep
\* before and of the same generation.
LEMMA ResetFacts ==
    ASSUME NEW s, NEW q \in Nat
    PROVE  /\ resetStart(s, q) \in Int /\ resetStart(s, q) =< q
           /\ q > 0 => resetStart(s, q) = q \/ resetStart(s, q) = resetStart(s, q - 1)
<1> DEFINE t == Period(s)
           r == ResetPhase(s)
           a == (q - 1) + r
<1>1. t \in Nat \ {0}
  <2> DEFINE d == 10 * ResetPeriod
             m == mix(s, 0, 8)
  <2>1. d \in Nat \ {0} /\ m \in Nat /\ ResetPeriod \in Nat \ {0}
    BY PlanAssumption, MixNat
  <2>2. t = ResetPeriod + (m % d)
    BY DEF Period
  <2> HIDE DEF d, m, t
  <2>3. m % d \in 0 .. d - 1
    BY <2>1, Quotient
  <2> QED
    BY <2>1, <2>2, <2>3
<1>2. r \in Nat
  <2> DEFINE m == mix(s, 0, 9)
  <2>1. m \in Nat /\ r = m % t
    BY MixNat DEF ResetPhase
  <2> HIDE DEF m, r, t
  <2>2. m % t \in 0 .. t - 1
    BY <1>1, <2>1, Quotient
  <2> QED
    BY <1>1, <2>1, <2>2
<1>3. /\ resetStart(s, q) = q - ((q + r) % t)
      /\ resetStart(s, q - 1) = (q - 1) - (((q - 1) + r) % t)
    BY DEF resetStart
<1> HIDE DEF t, r
<1>4. q + r \in Nat /\ (q + r) % t \in 0 .. t - 1
  <2> DEFINE c == q + r
  <2>1. c \in Nat
    BY <1>2
  <2> HIDE DEF c
  <2>2. c % t \in 0 .. t - 1
    BY <1>1, <2>1, Quotient
  <2> QED
    BY <2>1, <2>2 DEF c
<1>5. ASSUME q > 0 PROVE resetStart(s, q) = q \/ resetStart(s, q) = resetStart(s, q - 1)
  <2>1. a \in Nat /\ a + 1 = q + r
    BY <1>2, <1>5
  <2>2. a % t \in 0 .. t - 1 /\ ((a + 1) % t = 0 \/ (a + 1) % t = (a % t) + 1)
    <3> HIDE DEF a
    <3> QED
      BY <1>1, <2>1, Quotient, ModStep
  <2>3. resetStart(s, q - 1) = (q - 1) - (a % t)
    BY <1>3
  <2> DEFINE x == a % t
             y == (q + r) % t
  <2>4. x \in 0 .. t - 1 /\ y \in 0 .. t - 1 /\ (y = 0 \/ y = x + 1)
    BY <1>4, <2>1, <2>2
  <2>5. resetStart(s, q - 1) = (q - 1) - x /\ resetStart(s, q) = q - y
    BY <1>3, <2>3
  <2> HIDE DEF x, y, a
  <2> QED
    BY <1>1, <2>4, <2>5
<1>6. resetStart(s, q) \in Int /\ resetStart(s, q) =< q
    BY <1>1, <1>3, <1>4
<1> QED
    BY <1>5, <1>6

\* The start of a generation moves exactly when the generation changes.
LEMMA GenerationStartFacts ==
    ASSUME NEW r \in Nat, NEW q \in Nat
    PROVE  /\ generationStart(r, q) \in 0 .. q
           /\ generationChanged(r, q) => generationStart(r, q) = q
           /\ (q > 0 /\ ~generationChanged(r, q)) => /\ generationStart(r, q) = generationStart(r, q - 1)
                                                     /\ generation(r, q) = generation(r, q - 1)
           /\ generationChanged(r, q) => q > 0 /\ generation(r, q - 1) = generation(r, q) - 1
           /\ generation(r, q) \in Nat
<1>1. GenerationAgrees(r, q)
    BY GenerationsTellOneStory
<1>2. generationStart(r, q) \in 0 .. q
    BY <1>1 DEF GenerationAgrees
<1>3. ASSUME q > 0, ~generationChanged(r, q) PROVE generation(r, q) = generation(r, q - 1)
    BY <1>1, <1>3 DEF GenerationAgrees
<1>4. ASSUME q > 0, ~generationChanged(r, q) PROVE generationStart(r, q) = generationStart(r, q - 1)
    BY <1>3, <1>4 DEF generationStart
<1>5. ASSUME generationChanged(r, q) PROVE q > 0 /\ generation(r, q - 1) = generation(r, q) - 1
  <2>1. q > 0
    BY <1>5 DEF generationChanged
  <2>2. generation(r, q) \in Nat /\ generation(r, q - 1) \in Nat
    BY <2>1, GenerationNat
  <2>3. /\ generation(r, q) - generation(r, q - 1) \in {0, 1}
        /\ generation(r, q) # generation(r, q - 1)
    BY <1>1, <1>5, <2>1 DEF GenerationAgrees
  <2> QED
    BY <2>1, <2>2, <2>3
<1>6. ASSUME generationChanged(r, q) PROVE generationStart(r, q) = q
  <2> DEFINE l == lifetimeSwps
             a == q + Phase(r)
  <2>1. l \in Nat /\ l # 0 /\ q # 0 /\ a % l = 0
    BY <1>6, LifetimeNat DEF generationChanged
  <2>2. Phase(r) \in 0 .. l - 1
    BY <2>1, PhaseBounds
  <2>3. a \in Nat /\ a # 0
    BY <2>1, <2>2
  <2>4. generation(r, q) = a \div l
    BY <2>1 DEF generation
  <2>5. generationStart(r, q) = IF generation(r, q) = 0 THEN 0 ELSE generation(r, q) * l - Phase(r)
    BY DEF generationStart
  <2>6. a - Phase(r) = q
    BY <2>1, <2>2
  <2> HIDE DEF a, l
  <2>7. a \div l \in Nat /\ a = l * (a \div l) + 0
    BY <2>1, <2>3, Quotient
  <2>8. a \div l # 0 /\ (a \div l) * l = a
    BY <2>1, <2>3, <2>7
  <2> QED
    BY <2>4, <2>5, <2>6, <2>8
<1> QED
    BY <1>2, <1>3, <1>4, <1>5, <1>6, GenerationNat

\* An epoch begins at the present sweep, or is the one of the sweep before and of
\* the same generation.
LEMMA EpochFacts ==
    ASSUME NEW s, NEW q \in Nat, Cumulative(s)
    PROVE  LET r == ResourceOf(s) IN
           /\ Epoch(s, q) \in 0 .. q
           /\ generationChanged(r, q) => Epoch(s, q) = q
           /\ q > 0 => \/ Epoch(s, q) = q
                       \/ /\ Epoch(s, q) = Epoch(s, q - 1) /\ ~generationChanged(r, q)
                          /\ generation(r, q) = generation(r, q - 1)
<1> DEFINE r == ResourceOf(s)
<1>0. r \in Nat
    BY CurrentResource
<1>1. \A x : Epoch(s, x) = Greater(generationStart(r, x), resetStart(s, x))
    BY DEF Epoch, epochStart
<1> HIDE DEF r
<1>2. /\ generationStart(r, q) \in 0 .. q
      /\ generationChanged(r, q) => generationStart(r, q) = q
      /\ (q > 0 /\ ~generationChanged(r, q)) => /\ generationStart(r, q) = generationStart(r, q - 1)
                                                /\ generation(r, q) = generation(r, q - 1)
    BY <1>0, GenerationStartFacts
<1>3. /\ resetStart(s, q) \in Int /\ resetStart(s, q) =< q
      /\ q > 0 => resetStart(s, q) = q \/ resetStart(s, q) = resetStart(s, q - 1)
    BY ResetFacts
<1>4. Epoch(s, q) \in 0 .. q
    BY <1>1, <1>2, <1>3 DEF Greater
<1>5. generationStart(r, q) = q \/ resetStart(s, q) = q => Epoch(s, q) = q
    BY <1>1, <1>2, <1>3 DEF Greater
<1>6. ASSUME q > 0, generationStart(r, q) # q, resetStart(s, q) # q
      PROVE  /\ Epoch(s, q) = Epoch(s, q - 1) /\ ~generationChanged(r, q)
             /\ generation(r, q) = generation(r, q - 1)
    BY <1>1, <1>2, <1>3, <1>6
<1>7. /\ Epoch(s, q) \in 0 .. q
      /\ generationChanged(r, q) => Epoch(s, q) = q
      /\ q > 0 => \/ Epoch(s, q) = q
                  \/ /\ Epoch(s, q) = Epoch(s, q - 1) /\ ~generationChanged(r, q)
                     /\ generation(r, q) = generation(r, q - 1)
    BY <1>2, <1>4, <1>5, <1>6
<1> QED
    BY <1>7 DEF r

-----------------------------------------------------------------------------
(* Values *)

\* Quotients grow with the dividend.
LEMMA DivMonotone ==
    ASSUME NEW a \in Nat, NEW b \in Nat, a =< b, NEW c \in Nat \ {0}
    PROVE  a \div c =< b \div c /\ a \div c \in Nat /\ b \div c \in Nat
<1> DEFINE x == a \div c
           y == b \div c
           u == a % c
           v == b % c
<1>1. x \in Nat /\ u \in 0 .. c - 1 /\ a = c * x + u /\ y \in Nat /\ v \in 0 .. c - 1 /\ b = c * y + v
    BY Quotient
<1> HIDE DEF x, y, u, v
<1>2. ASSUME x >= y + 1 PROVE FALSE
  <2>1. c * x >= c * y + c
    BY <1>1, <1>2
  <2>2. c * x \in Nat /\ c * y \in Nat
    BY <1>1
  <2> QED
    BY <1>1, <2>1, <2>2
<1>3. x =< y
    BY <1>1, <1>2
<1> QED
    BY <1>1, <1>3 DEF x, y

\* Products grow with a factor.
LEMMA TimesMonotone ==
    ASSUME NEW a \in Nat, NEW b \in Nat, a =< b, NEW r \in Nat
    PROVE  r * a =< r * b /\ r * a \in Nat /\ r * b \in Nat
<1>1. b - a \in Nat /\ b = a + (b - a)
    OBVIOUS
<1> DEFINE d == b - a
<1>2. r * b = r * a + r * d
    BY <1>1
<1>3. d \in Nat
    BY <1>1
<1> HIDE DEF d
<1>4. r * a \in Nat /\ r * d \in Nat /\ r * b \in Nat
    BY <1>3
<1> QED
    BY <1>2, <1>4

\* A random part is less than one.
LEMMA FracRange == \A s, q, salt : frac(s, q, salt) \in 0 .. 9
<1> SUFFICES ASSUME NEW s, NEW q, NEW salt PROVE frac(s, q, salt) \in 0 .. 9
    OBVIOUS
<1> DEFINE m == mix(s, q, salt)
<1>1. m \in Nat
    BY MixNat
<1> HIDE DEF m
<1>2. m % 10 \in 0 .. 10 - 1
    BY <1>1, Quotient
<1>3. frac(s, q, salt) = m % 10
    BY DEF frac, m
<1> QED
    BY <1>2, <1>3

\* Rates are not negative.
LEMMA RatesNat == \A s, e : epochRate(s, e) \in Nat /\ perSweepRate(s) \in Nat
<1> SUFFICES ASSUME NEW s, NEW e PROVE epochRate(s, e) \in Nat /\ perSweepRate(s) \in Nat
    OBVIOUS
<1> DEFINE m == mix(s, e, 6)
           o == mix(s, 0, RateSalt)
<1>1. m \in Nat /\ o \in Nat
    BY MixNat
<1>2. epochRate(s, e) = 1 + (m % 9999) /\ perSweepRate(s) = 1 + (o % 9999)
    BY DEF epochRate, perSweepRate
<1> HIDE DEF m, o
<1> DEFINE x == m % 9999
           y == o % 9999
<1>3. x \in Nat /\ y \in Nat
    BY <1>1, Quotient
<1> HIDE DEF x, y
<1>4. 1 + x \in Nat /\ 1 + y \in Nat
    BY <1>3
<1> QED
    BY <1>2, <1>4 DEF x, y

\* How much of an epoch has gone at a sweep, in hundredths: always more than at
\* the sweep before, whatever the random part.
Age(s, q, e, salt) == 100 * (q - e) + 9 * frac(s, q, salt)

\* A sweep more outweighs any random part.
LEMMA AgeGrows ==
    ASSUME NEW s, NEW q \in Nat, NEW e \in Nat, NEW salt, e =< q
    PROVE  /\ Age(s, q, e, salt) \in Nat
           /\ e =< q - 1 => /\ Age(s, q - 1, e, salt) \in Nat
                            /\ Age(s, q - 1, e, salt) =< Age(s, q, e, salt)
BY FracRange DEF Age

\* monotoneCount never falls within an epoch.
LEMMA MonotoneCountGrows ==
    ASSUME NEW s, NEW q \in Nat, NEW e \in Nat, NEW salt, NEW rate \in Nat, e =< q
    PROVE  /\ monotoneCount(s, q, e, rate, salt) \in Nat
           /\ e =< q - 1 => /\ monotoneCount(s, q - 1, e, rate, salt) \in Nat
                            /\ monotoneCount(s, q - 1, e, rate, salt) =< monotoneCount(s, q, e, rate, salt)
<1> DEFINE a == Age(s, q - 1, e, salt)
           b == Age(s, q, e, salt)
<1>1. b \in Nat /\ (e =< q - 1 => a \in Nat /\ a =< b)
    BY AgeGrows
<1>2. /\ monotoneCount(s, q, e, rate, salt) = (rate * b) \div 1000
      /\ monotoneCount(s, q - 1, e, rate, salt) = (rate * a) \div 1000
    BY DEF monotoneCount, Age
<1> HIDE DEF a, b
<1>3. rate * b \in Nat /\ (e =< q - 1 => rate * a \in Nat /\ rate * a =< rate * b)
    BY <1>1, TimesMonotone
<1> DEFINE x == rate * a
           y == rate * b
<1>4. y \in Nat /\ (e =< q - 1 => x \in Nat /\ x =< y)
    BY <1>3
<1> HIDE DEF x, y
<1>5. y \div 1000 \in Nat
    BY <1>4, Quotient
<1>6. e =< q - 1 => x \div 1000 \in Nat /\ x \div 1000 =< y \div 1000
    BY <1>4, DivMonotone
<1> QED
    BY <1>2, <1>5, <1>6 DEF x, y

\* Rounding keeps the order.
LEMMA QuantizeMonotone ==
    ASSUME NEW a \in Nat, NEW b \in Nat, a =< b, NEW c
    PROVE  quantize(a, c) =< quantize(b, c) /\ quantize(a, c) \in Nat /\ quantize(b, c) \in Nat
<1>1. CASE c = "int"
  <2> DEFINE x == a \div 1000
             y == b \div 1000
  <2>1. x \in Nat /\ y \in Nat /\ x =< y
    BY DivMonotone
  <2>2. quantize(a, c) = x * 1000 /\ quantize(b, c) = y * 1000
    BY <1>1 DEF quantize
  <2> HIDE DEF x, y
  <2> QED
    BY <2>1, <2>2
<1>2. CASE c = "decimal"
  <2> DEFINE u == a + 50
             v == b + 50
             x == u \div 100
             y == v \div 100
  <2>1. u \in Nat /\ v \in Nat /\ u =< v
    OBVIOUS
  <2>2. quantize(a, c) = x * 100 /\ quantize(b, c) = y * 100
    BY <1>2 DEF quantize
  <2>3. x \in Nat /\ y \in Nat /\ x =< y
    <3> HIDE DEF u, v
    <3> QED
      BY <2>1, DivMonotone
  <2> HIDE DEF x, y
  <2> QED
    BY <2>2, <2>3
<1>3. CASE c # "int" /\ c # "decimal"
    BY <1>3 DEF quantize
<1> QED
    BY <1>1, <1>2, <1>3

\* counterValue never falls within an epoch, whatever the class of the series.
LEMMA CounterGrows ==
    ASSUME NEW s, NEW q \in Nat, NEW e \in Nat, e =< q - 1
    PROVE  counterValue(s, q - 1, e) =< counterValue(s, q, e)
<1> DEFINE r == epochRate(s, e)
           a == Age(s, q - 1, e, 7)
           b == Age(s, q, e, 7)
<1>1. r \in Nat /\ a \in Nat /\ b \in Nat /\ a =< b
    BY RatesNat, AgeGrows
<1>2. CASE class(s) = "idle"
  <2> DEFINE u == 2 * r * ((q - 1) - e)
             v == 2 * r * (q - e)
             x == u \div 1000
             y == v \div 1000
  <2>1. counterValue(s, q - 1, e) = x * 1000 /\ counterValue(s, q, e) = y * 1000
    BY <1>2 DEF counterValue
  <2>2. 2 * r \in Nat /\ (q - 1) - e \in Nat /\ q - e \in Nat /\ (q - 1) - e =< q - e
    BY <1>1
  <2>3. u \in Nat /\ v \in Nat /\ u =< v
    <3> DEFINE t == 2 * r
    <3>1. t \in Nat
      BY <2>2
    <3> HIDE DEF t
    <3>2. t * ((q - 1) - e) =< t * (q - e) /\ t * ((q - 1) - e) \in Nat /\ t * (q - e) \in Nat
      BY <2>2, <3>1, TimesMonotone
    <3> QED
      BY <3>2 DEF t
  <2> HIDE DEF u, v
  <2>4. x \in Nat /\ y \in Nat /\ x =< y
    BY <2>3, DivMonotone
  <2> HIDE DEF x, y
  <2> QED
    BY <2>1, <2>4
<1>3. CASE class(s) # "idle"
  <2>1. /\ counterValue(s, q - 1, e) = quantize(r * a, class(s))
        /\ counterValue(s, q, e) = quantize(r * b, class(s))
    BY <1>3 DEF counterValue, Age
  <2> HIDE DEF r, a, b
  <2>2. r * a =< r * b /\ r * a \in Nat /\ r * b \in Nat
    BY <1>1, TimesMonotone
  <2> QED
    BY <2>1, <2>2, QuantizeMonotone
<1> QED
    BY <1>2, <1>3

\* A bucket is not negative, and does not fall within an epoch.
LEMMA BucketGrows ==
    ASSUME NEW s, NEW q \in Nat, NEW e, NEW cumulative \in BOOLEAN, NEW weight \in Nat, NEW salt,
           cumulative => e \in Nat /\ e =< q
    PROVE  /\ bucketCount(s, q, e, cumulative, weight, salt) \in Nat
           /\ cumulative /\ e =< q - 1 =>
                 /\ bucketCount(s, q - 1, e, cumulative, weight, salt) \in Nat
                 /\ bucketCount(s, q - 1, e, cumulative, weight, salt)
                        =< bucketCount(s, q, e, cumulative, weight, salt)
<1>1. CASE cumulative
  <2> DEFINE rate == (epochRate(s, e) * weight) \div 10
  <2>1. epochRate(s, e) * weight \in Nat
    BY RatesNat
  <2>2. rate \in Nat
    <3> DEFINE x == epochRate(s, e) * weight
    <3>1. x \in Nat
      BY <2>1
    <3> HIDE DEF x
    <3>2. x \div 10 \in Nat
      BY <3>1, Quotient
    <3> QED
      BY <3>2 DEF x
  <2>3. \A x : bucketCount(s, x, e, cumulative, weight, salt) = monotoneCount(s, x, e, rate, salt)
    BY <1>1 DEF bucketCount
  <2> HIDE DEF rate
  <2>4. e \in Nat /\ e =< q
    BY <1>1
  <2>5. /\ monotoneCount(s, q, e, rate, salt) \in Nat
        /\ e =< q - 1 => /\ monotoneCount(s, q - 1, e, rate, salt) \in Nat
                         /\ monotoneCount(s, q - 1, e, rate, salt) =< monotoneCount(s, q, e, rate, salt)
    BY <2>2, <2>4, MonotoneCountGrows
  <2>6. /\ bucketCount(s, q, e, cumulative, weight, salt) = monotoneCount(s, q, e, rate, salt)
        /\ bucketCount(s, q - 1, e, cumulative, weight, salt) = monotoneCount(s, q - 1, e, rate, salt)
    BY <2>3
  <2> QED
    BY <2>5, <2>6
<1>2. CASE ~cumulative
  <2> DEFINE u == perSweepRate(s) * weight
             rate == u \div 10
             f == 5 + frac(s, q, salt)
             v == rate * f
  <2>1. u \in Nat /\ f \in Nat
    BY RatesNat, FracRange
  <2>2. bucketCount(s, q, e, cumulative, weight, salt) = v \div 100
    BY <1>2 DEF bucketCount, deltaCount
  <2>3. rate \in Nat
    <3> HIDE DEF u
    <3> QED
      BY <2>1, Quotient
  <2>4. v \in Nat
    <3> HIDE DEF rate, f
    <3> QED
      BY <2>1, <2>3
  <2> HIDE DEF v
  <2>5. v \div 100 \in Nat
    BY <2>4, Quotient
  <2> QED
    BY <1>2, <2>2, <2>5
<1> QED
    BY <1>1, <1>2

\* Counts and their total.
LEMMA FunctionSeq ==
    ASSUME NEW n \in Nat, NEW f \in [1 .. n -> Nat]
    PROVE  f \in Seq(Nat) /\ Len(f) = n
OBVIOUS

\* The length of two lists put together.
LEMMA ConcatFacts ==
    ASSUME NEW a \in Seq(Nat), NEW b \in Seq(Nat)
    PROVE  a \o b \in Seq(Nat) /\ Len(a \o b) = Len(a) + Len(b)
OBVIOUS

\* Lists that grow, put together, grow.
LEMMA WithinConcat ==
    ASSUME NEW a, NEW b, NEW c, NEW d, Within(a, b), Within(c, d)
    PROVE  Within(a \o c, b \o d)
<1>1. /\ a \in Seq(Nat) /\ b \in Seq(Nat) /\ Len(a) = Len(b) /\ Len(a) \in Nat
      /\ c \in Seq(Nat) /\ d \in Seq(Nat) /\ Len(c) = Len(d) /\ Len(c) \in Nat
      /\ \A i \in 1 .. Len(a) : a[i] =< b[i]
      /\ \A i \in 1 .. Len(c) : c[i] =< d[i]
    BY DEF Within
<1>2. /\ a \o c \in Seq(Nat) /\ b \o d \in Seq(Nat) /\ Len(a \o c) = Len(a) + Len(c)
      /\ Len(b \o d) = Len(a) + Len(c)
  <2>1. a \o c \in Seq(Nat) /\ b \o d \in Seq(Nat)
    BY <1>1
  <2>2. Len(a \o c) = Len(a) + Len(c) /\ Len(b \o d) = Len(b) + Len(d)
    BY <1>1, ConcatFacts, Zenon
  <2>3. Len(b \o d) = Len(a) + Len(c)
    BY <1>1, <2>2, Zenon
  <2> QED
    BY <2>1, <2>2, <2>3, Zenon
<1>3. ASSUME NEW i \in 1 .. Len(a) + Len(c) PROVE (a \o c)[i] =< (b \o d)[i]
  <2>1. CASE i =< Len(a)
    <3>1. (a \o c)[i] = a[i] /\ (b \o d)[i] = b[i] /\ i \in 1 .. Len(a)
      BY <1>1, <2>1
    <3> QED
      BY <1>1, <3>1
  <2>2. CASE i > Len(a)
    <3>1. (a \o c)[i] = c[i - Len(a)] /\ (b \o d)[i] = d[i - Len(a)] /\ i - Len(a) \in 1 .. Len(c)
      BY <1>1, <2>2
    <3> QED
      BY <1>1, <3>1
  <2> QED
    BY <1>1, <2>1, <2>2
<1> QED
    BY <1>2, <1>3 DEF Within

\* Lists of one entry, and of none.
LEMMA WithinOne ==
    /\ \A a, b \in Nat : a =< b => Within(<<a>>, <<b>>)
    /\ Within(<<>>, <<>>)
BY DEF Within

\* Where no bucket falls, the count does not fall either.
LEMMA WithCountGrows ==
    ASSUME NEW a, NEW b, Within(a, b)
    PROVE  \A i \in DOMAIN WithCount(b) : WithCount(b)[i] >= WithCount(a)[i]
<1>1. Total(a) =< Total(b) /\ Total(a) \in Nat /\ Total(b) \in Nat
    BY TotalMonotone
<1>2. Within(<<Total(a)>>, <<Total(b)>>)
    BY <1>1, WithinOne
<1>3. Within(WithCount(a), WithCount(b))
    BY <1>2, WithinConcat DEF WithCount
<1> DEFINE x == WithCount(a)
           y == WithCount(b)
<1>4. /\ x \in Seq(Nat) /\ y \in Seq(Nat) /\ Len(x) = Len(y)
      /\ \A i \in 1 .. Len(x) : x[i] =< y[i]
    BY <1>3 DEF Within
<1> HIDE DEF x, y
<1>5. \A i \in DOMAIN y : y[i] >= x[i]
    BY <1>4
<1> QED
    BY <1>5 DEF x, y

\* The count of a histogram is the total of the buckets that follow it.
LEMMA CountIsTotal ==
    ASSUME NEW b \in Seq(Nat)
    PROVE  Head(WithCount(b)) = Total(Tail(WithCount(b)))
<1> DEFINE t == Total(b)
           v == <<t>> \o b
<1>1. v \in Seq(Nat \cup {t}) /\ Len(v) = Len(b) + 1 /\ v[1] = t
    OBVIOUS
<1>2. Head(v) = t
    BY <1>1
<1>3. Tail(v) = b
  <2>1. Tail(v) \in Seq(Nat \cup {t}) /\ Len(Tail(v)) = Len(b)
    BY <1>1
  <2>2. \A i \in 1 .. Len(b) : Tail(v)[i] = b[i]
    OBVIOUS
  <2> QED
    BY <2>1, <2>2
<1>4. WithCount(b) = v
    BY DEF WithCount
<1> HIDE DEF v
<1> QED
    BY <1>2, <1>3, <1>4

\* The buckets of a histogram and of an exponential histogram.
HistBuckets(s, q, e, cumulative) ==
    [l \in 1 .. 2 |-> bucketCount(s, q, e, cumulative, <<3, 7>>[l], l + 16)]
ExpBuckets(s, q, e, cumulative) ==
    [l \in 1 .. 2 |-> bucketCount(s, q, e, cumulative, <<3, 7>>[l], l + 64)]
    \o (IF mix(s, 0, 19) % 3 = 0 THEN <<bucketCount(s, q, e, cumulative, 1, 128)>> ELSE <<>>)
    \o (IF mix(s, 0, 15) % 4 = 0 THEN <<bucketCount(s, q, e, cumulative, 1, 192)>> ELSE <<>>)

\* The points are their buckets with a count.
LEMMA PointsAreBuckets ==
    \A s, q, e, cumulative : /\ histPoint(s, q, e, cumulative) = WithCount(HistBuckets(s, q, e, cumulative))
                             /\ expHistPoint(s, q, e, cumulative) = WithCount(ExpBuckets(s, q, e, cumulative))
BY DEF histPoint, HistBuckets, expHistPoint, ExpBuckets

\* Buckets are counts.
LEMMA BucketsNat ==
    ASSUME NEW s, NEW q \in Nat, NEW e, NEW cumulative \in BOOLEAN, cumulative => e \in Nat /\ e =< q
    PROVE  HistBuckets(s, q, e, cumulative) \in Seq(Nat) /\ ExpBuckets(s, q, e, cumulative) \in Seq(Nat)
<1> DEFINE B(weight, salt) == bucketCount(s, q, e, cumulative, weight, salt)
           x == IF mix(s, 0, 19) % 3 = 0 THEN <<B(1, 128)>> ELSE <<>>
           y == IF mix(s, 0, 15) % 4 = 0 THEN <<B(1, 192)>> ELSE <<>>
           h == [l \in 1 .. 2 |-> B(<<3, 7>>[l], l + 64)]
           g == [l \in 1 .. 2 |-> B(<<3, 7>>[l], l + 16)]
<1>1. \A weight \in Nat : \A salt : B(weight, salt) \in Nat
    BY BucketGrows
<1>2. HistBuckets(s, q, e, cumulative) = g /\ ExpBuckets(s, q, e, cumulative) = h \o x \o y
    BY DEF HistBuckets, ExpBuckets
<1>3. \A l \in 1 .. 2 : <<3, 7>>[l] \in Nat
    OBVIOUS
<1> HIDE DEF B
<1>4. g \in [1 .. 2 -> Nat] /\ h \in [1 .. 2 -> Nat]
    BY <1>1, <1>3
<1>5. <<B(1, 128)>> \in Seq(Nat) /\ <<B(1, 192)>> \in Seq(Nat) /\ <<>> \in Seq(Nat)
    BY <1>1
<1>6. x \in Seq(Nat) /\ y \in Seq(Nat)
    BY <1>5
<1> HIDE DEF g, h, x, y
<1>7. g \in Seq(Nat) /\ h \in Seq(Nat)
    BY <1>4, FunctionSeq
<1> QED
    BY <1>2, <1>6, <1>7

\* No bucket falls within an epoch.
LEMMA BucketsGrow ==
    ASSUME NEW s, NEW q \in Nat, NEW e \in Nat, e =< q - 1
    PROVE  /\ Within(HistBuckets(s, q - 1, e, TRUE), HistBuckets(s, q, e, TRUE))
           /\ Within(ExpBuckets(s, q - 1, e, TRUE), ExpBuckets(s, q, e, TRUE))
<1> DEFINE B(t, weight, salt) == bucketCount(s, t, e, TRUE, weight, salt)
           x(t) == IF mix(s, 0, 19) % 3 = 0 THEN <<B(t, 1, 128)>> ELSE <<>>
           y(t) == IF mix(s, 0, 15) % 4 = 0 THEN <<B(t, 1, 192)>> ELSE <<>>
           h(t) == [l \in 1 .. 2 |-> B(t, <<3, 7>>[l], l + 64)]
           g(t) == [l \in 1 .. 2 |-> B(t, <<3, 7>>[l], l + 16)]
<1>1. \A weight \in Nat : \A salt : /\ B(q, weight, salt) \in Nat /\ B(q - 1, weight, salt) \in Nat
                                    /\ B(q - 1, weight, salt) =< B(q, weight, salt)
  <2> SUFFICES ASSUME NEW weight \in Nat, NEW salt
               PROVE  /\ B(q, weight, salt) \in Nat /\ B(q - 1, weight, salt) \in Nat
                      /\ B(q - 1, weight, salt) =< B(q, weight, salt)
    OBVIOUS
  <2>1. e \in Nat /\ e =< q /\ TRUE \in BOOLEAN
    OBVIOUS
  <2>2. /\ bucketCount(s, q, e, TRUE, weight, salt) \in Nat
        /\ TRUE /\ e =< q - 1 => /\ bucketCount(s, q - 1, e, TRUE, weight, salt) \in Nat
                                 /\ bucketCount(s, q - 1, e, TRUE, weight, salt)
                                        =< bucketCount(s, q, e, TRUE, weight, salt)
    BY <2>1, BucketGrows, Zenon
  <2> QED
    BY <2>2
<1>2. \A t : HistBuckets(s, t, e, TRUE) = g(t) /\ ExpBuckets(s, t, e, TRUE) = h(t) \o x(t) \o y(t)
    BY DEF HistBuckets, ExpBuckets
<1>3. \A l \in 1 .. 2 : <<3, 7>>[l] \in Nat
    OBVIOUS
<1> HIDE DEF B
<1>4. /\ g(q) \in [1 .. 2 -> Nat] /\ h(q) \in [1 .. 2 -> Nat]
      /\ g(q - 1) \in [1 .. 2 -> Nat] /\ h(q - 1) \in [1 .. 2 -> Nat]
    BY <1>1, <1>3
<1>5. \A l \in 1 .. 2 : g(q - 1)[l] =< g(q)[l] /\ h(q - 1)[l] =< h(q)[l]
    BY <1>1, <1>3
<1>6. Within(x(q - 1), x(q)) /\ Within(y(q - 1), y(q))
    BY <1>1, WithinOne
<1> HIDE DEF g, h, x, y
<1>7. Within(g(q - 1), g(q)) /\ Within(h(q - 1), h(q))
  <2>1. /\ g(q) \in Seq(Nat) /\ Len(g(q)) = 2 /\ g(q - 1) \in Seq(Nat) /\ Len(g(q - 1)) = 2
        /\ h(q) \in Seq(Nat) /\ Len(h(q)) = 2 /\ h(q - 1) \in Seq(Nat) /\ Len(h(q - 1)) = 2
    BY <1>4, FunctionSeq
  <2> QED
    BY <1>5, <2>1, Zenon DEF Within
<1>8. Within(h(q - 1) \o x(q - 1) \o y(q - 1), h(q) \o x(q) \o y(q))
    BY <1>6, <1>7, WithinConcat
<1>9. /\ HistBuckets(s, q, e, TRUE) = g(q) /\ HistBuckets(s, q - 1, e, TRUE) = g(q - 1)
      /\ ExpBuckets(s, q, e, TRUE) = h(q) \o x(q) \o y(q)
      /\ ExpBuckets(s, q - 1, e, TRUE) = h(q - 1) \o x(q - 1) \o y(q - 1)
    BY <1>2
<1> QED
    BY <1>7, <1>8, <1>9

-----------------------------------------------------------------------------
(* The timeline of a series *)

\* The count of a histogram's point is the sum of its buckets.
LEMMA ValueConsistent ==
    ASSUME run \in Runs, NEW s \in Series, NEW q \in Nat
    PROVE  Consistent(s, PointAt(s, q))
<1> DEFINE e == Epoch(s, q)
           cumulative == Def(s).temporality = "cumulative"
           typ == Def(s).typ
<1>1. PointAt(s, q).value = Value(s, q)
    BY DEF PointAt
<1>2. cumulative => e \in Nat /\ e =< q
    BY EpochFacts DEF Cumulative
<1>3. cumulative \in BOOLEAN
    OBVIOUS
<1>4. HistBuckets(s, q, e, cumulative) \in Seq(Nat) /\ ExpBuckets(s, q, e, cumulative) \in Seq(Nat)
  <2> HIDE DEF cumulative, e
  <2> QED
    BY <1>2, <1>3, BucketsNat
<1>5. CASE typ = "histogram"
  <2>1. Value(s, q) = WithCount(HistBuckets(s, q, e, cumulative))
    BY <1>5, PointsAreBuckets DEF Value
  <2> QED
    BY <1>1, <1>4, <2>1, CountIsTotal DEF Consistent
<1>6. CASE typ = "exponential_histogram"
  <2>1. Value(s, q) = WithCount(ExpBuckets(s, q, e, cumulative))
    BY <1>6, PointsAreBuckets DEF Value
  <2> QED
    BY <1>1, <1>4, <2>1, CountIsTotal DEF Consistent
<1> QED
    BY <1>5, <1>6 DEF Consistent

\* Within an epoch no count and no monotonic sum falls.
LEMMA ValueGrows ==
    ASSUME run \in Runs, NEW s \in Series, NEW q \in Nat, q > 0, Monotonic(s), Epoch(s, q) = Epoch(s, q - 1)
    PROVE  \A i \in DOMAIN Value(s, q) : Value(s, q)[i] >= Value(s, q - 1)[i]
<1> DEFINE e == Epoch(s, q)
           typ == Def(s).typ
<1>0. Cumulative(s) /\ q - 1 \in Nat
    BY DEF Monotonic
<1>1. e \in Nat /\ e =< q - 1 /\ e =< q
    BY <1>0, EpochFacts
<1>2. typ \in {"sum", "histogram", "exponential_histogram", "summary"}
    BY <1>0, DefFacts DEF Cumulative, MetricTypes
<1>3. typ # "summary" => Def(s).temporality = "cumulative"
    BY <1>0 DEF Cumulative
<1>4. CASE typ = "sum"
  <2>1. Value(s, q) = <<counterValue(s, q, e)>> /\ Value(s, q - 1) = <<counterValue(s, q - 1, e)>>
    BY <1>3, <1>4 DEF Value, Monotonic
  <2>2. counterValue(s, q - 1, e) =< counterValue(s, q, e)
    BY <1>1, CounterGrows
  <2> QED
    BY <2>1, <2>2
<1>5. CASE typ = "histogram"
  <2>0. Value(s, q) = histPoint(s, q, e, TRUE) /\ Value(s, q - 1) = histPoint(s, q - 1, e, TRUE)
    BY <1>3, <1>5 DEF Value
  <2>1. /\ Value(s, q) = WithCount(HistBuckets(s, q, e, TRUE))
        /\ Value(s, q - 1) = WithCount(HistBuckets(s, q - 1, e, TRUE))
    BY <2>0, PointsAreBuckets, Zenon
  <2> QED
    BY <1>1, <2>1, BucketsGrow, WithCountGrows
<1>6. CASE typ = "exponential_histogram"
  <2>0. Value(s, q) = expHistPoint(s, q, e, TRUE) /\ Value(s, q - 1) = expHistPoint(s, q - 1, e, TRUE)
    BY <1>3, <1>6 DEF Value
  <2>1. /\ Value(s, q) = WithCount(ExpBuckets(s, q, e, TRUE))
        /\ Value(s, q - 1) = WithCount(ExpBuckets(s, q - 1, e, TRUE))
    BY <2>0, PointsAreBuckets, Zenon
  <2> QED
    BY <1>1, <2>1, BucketsGrow, WithCountGrows
<1>7. CASE typ = "summary"
  <2> DEFINE r == epochRate(s, e)
  <2>1. /\ Value(s, q) = <<monotoneCount(s, q, e, r, 20)>>
        /\ Value(s, q - 1) = <<monotoneCount(s, q - 1, e, r, 20)>>
    BY <1>7 DEF Value, summaryPoint
  <2>2. r \in Nat
    BY RatesNat
  <2> HIDE DEF r
  <2>3. /\ monotoneCount(s, q, e, r, 20) \in Nat /\ monotoneCount(s, q - 1, e, r, 20) \in Nat
        /\ monotoneCount(s, q - 1, e, r, 20) =< monotoneCount(s, q, e, r, 20)
    BY <1>1, <2>2, MonotoneCountGrows
  <2> QED
    BY <2>1, <2>3
<1> QED
    BY <1>2, <1>4, <1>5, <1>6, <1>7

\* Where the window of a point and of a marker starts.
LEMMA Windows ==
    ASSUME run \in Runs, NEW s \in Series, NEW q \in Nat
    PROVE  /\ Cumulative(s) => /\ StartTime(s, q) = PointTime(s, Epoch(s, q))
                               /\ MarkerStart(s, q) = PointTime(s, Epoch(s, q - 1))
                               /\ Def(s).temporality # "delta"
           /\ Def(s).temporality = "delta" => /\ StartTime(s, q) = PointTime(s, q - 1)
                                              /\ MarkerStart(s, q) = PointTime(s, q - 1)
           /\ Def(s).typ # "gauge" => StartTime(s, q) =< PointTime(s, q)
<1>1. Cumulative(s) \/ Def(s).temporality = "delta" => Def(s).typ # "gauge"
    BY DefFacts DEF Cumulative
<1>2. Cumulative(s) => Def(s).temporality # "delta"
    BY DefFacts DEF Cumulative
<1>3. Cumulative(s) => /\ StartTime(s, q) = PointTime(s, Epoch(s, q))
                       /\ MarkerStart(s, q) = PointTime(s, Epoch(s, q - 1))
    BY <1>1 DEF StartTime, MarkerStart
<1>4. Def(s).temporality = "delta" => /\ StartTime(s, q) = PointTime(s, q - 1)
                                      /\ MarkerStart(s, q) = PointTime(s, q - 1)
    BY <1>1, <1>2 DEF StartTime, MarkerStart, Epoch
<1>5. ASSUME Def(s).typ # "gauge" PROVE StartTime(s, q) =< PointTime(s, q)
  <2>1. StartTime(s, q) = PointTime(s, Epoch(s, q))
    BY <1>5 DEF StartTime
  <2>2. Epoch(s, q) \in Int /\ Epoch(s, q) =< q
    <3>1. CASE Cumulative(s)
      BY <3>1, EpochFacts
    <3>2. CASE ~Cumulative(s)
      BY <3>2 DEF Epoch
    <3> QED
      BY <3>1, <3>2
  <2>3. CASE Epoch(s, q) = q
    <3>1. PointTime(s, q) \in Int
      BY TimeMovesOn
    <3> QED
      BY <2>1, <2>3, <3>1
  <2>4. CASE Epoch(s, q) < q
    <3> DEFINE e == Epoch(s, q)
    <3>1. e \in Int /\ e < q
      BY <2>2, <2>4
    <3> HIDE DEF e
    <3>2. PointTime(s, e) \in Int /\ PointTime(s, q) \in Int /\ PointTime(s, e) < PointTime(s, q)
      BY <3>1, TimeMovesOn
    <3> QED
      BY <2>1, <3>2 DEF e
  <2> QED
    BY <2>2, <2>3, <2>4
<1> QED
    BY <1>2, <1>3, <1>4, <1>5

\* The fields of the points and markers of the plan.
LEMMA RecordFacts ==
    ASSUME NEW s, NEW q \in Nat
    PROVE  /\ PointAt(s, q).k = q /\ PointAt(s, q).gen = generation(ResourceOf(s), q)
           /\ ~PointAt(s, q).marker /\ PointAt(s, q).ts = PointTime(s, q)
           /\ PointAt(s, q).start = StartTime(s, q) /\ PointAt(s, q).value = Value(s, q)
           /\ MarkerAt(s, q).k = q /\ MarkerAt(s, q).gen = generation(ResourceOf(s), q) - 1
           /\ MarkerAt(s, q).marker /\ MarkerAt(s, q).ts = PointTime(s, q)
           /\ MarkerAt(s, q).start = MarkerStart(s, q)
           /\ PointAt(s, q) # NoPoint /\ MarkerAt(s, q) # NoPoint
           /\ ~NoPoint.marker
<1>1. /\ PointAt(s, q).k = q /\ PointAt(s, q).gen = generation(ResourceOf(s), q)
      /\ ~PointAt(s, q).marker /\ PointAt(s, q).ts = PointTime(s, q)
      /\ PointAt(s, q).start = StartTime(s, q) /\ PointAt(s, q).value = Value(s, q)
    BY DEF PointAt
<1>2. /\ MarkerAt(s, q).k = q /\ MarkerAt(s, q).gen = generation(ResourceOf(s), q) - 1
      /\ MarkerAt(s, q).marker /\ MarkerAt(s, q).ts = PointTime(s, q)
      /\ MarkerAt(s, q).start = MarkerStart(s, q)
    BY DEF MarkerAt
<1>3. NoPoint.k = -1 /\ ~NoPoint.marker
    BY DEF NoPoint
<1> QED
    BY <1>1, <1>2, <1>3

\* A marker follows the last point of its generation, and the first point of the
\* next one follows the marker.
LEMMA MarkerComes ==
    ASSUME run \in Runs, NEW s \in Series, NEW q \in Nat, Due(s, q)
    PROVE  /\ q # 0 /\ Follows(s, PointAt(s, q - 1), MarkerAt(s, q))
           /\ Follows(s, MarkerAt(s, q), PointAt(s, q))
<1> DEFINE r == ResourceOf(s)
           p == PointAt(s, q - 1)
           m == MarkerAt(s, q)
           n == PointAt(s, q)
<1>0. r \in Nat /\ generationChanged(r, q)
    BY CurrentResource DEF Due
<1>1. q > 0 /\ q - 1 \in Nat /\ generation(r, q - 1) = generation(r, q) - 1 /\ generation(r, q) \in Nat
  <2> HIDE DEF r
  <2> QED
    BY <1>0, GenerationStartFacts
<1>2. Cumulative(s) => Epoch(s, q) = q
    BY <1>0, EpochFacts
<1>3. PointTime(s, q - 1) < PointTime(s, q) /\ PointTime(s, q - 1) \in Int /\ PointTime(s, q) \in Int
    BY <1>1, TimeMovesOn
<1>4. /\ p.k = q - 1 /\ p.gen = generation(r, q - 1) /\ ~p.marker
      /\ p.ts = PointTime(s, q - 1) /\ p.start = StartTime(s, q - 1)
    BY <1>1, RecordFacts
<1>5. /\ m.k = q /\ m.gen = generation(r, q) - 1 /\ m.marker
      /\ m.ts = PointTime(s, q) /\ m.start = MarkerStart(s, q) /\ m # NoPoint
    BY RecordFacts
<1>6. /\ n.k = q /\ n.gen = generation(r, q) /\ ~n.marker
      /\ n.ts = PointTime(s, q) /\ n.start = StartTime(s, q)
    BY RecordFacts
<1>7. Consistent(s, n)
    BY ValueConsistent
<1>8. /\ Cumulative(s) => /\ StartTime(s, q) = PointTime(s, q)
                          /\ MarkerStart(s, q) = StartTime(s, q - 1)
      /\ Def(s).temporality = "delta" => /\ StartTime(s, q) = PointTime(s, q - 1)
                                         /\ MarkerStart(s, q) = PointTime(s, q - 1)
      /\ Def(s).typ # "gauge" => StartTime(s, q) =< PointTime(s, q)
    BY <1>1, <1>2, Windows
<1> HIDE DEF p, m, n, r
<1>9. MarkerFollows(s, p, m)
    BY <1>1, <1>3, <1>4, <1>5, <1>8 DEF MarkerFollows
<1>10. PointAfterMarker(s, m, n)
    BY <1>1, <1>3, <1>5, <1>6, <1>8 DEF PointAfterMarker
<1>11. Follows(s, p, m)
    BY <1>4, <1>5, <1>9 DEF Follows
<1>12. Follows(s, m, n)
    BY <1>5, <1>6, <1>7, <1>8, <1>10 DEF Follows
<1> QED
    BY <1>1, <1>11, <1>12 DEF p, m, n

\* The first point of a series is that of sweep 0.
LEMMA FirstPoint ==
    ASSUME run \in Runs, NEW s \in Series
    PROVE  Follows(s, NoPoint, PointAt(s, 0))
<1> DEFINE n == PointAt(s, 0)
<1>1. n.k = 0 /\ ~n.marker /\ n.ts = PointTime(s, 0) /\ n.start = StartTime(s, 0) /\ ~NoPoint.marker
    BY RecordFacts
<1>2. Consistent(s, n)
    BY ValueConsistent
<1>3. Def(s).typ # "gauge" => StartTime(s, 0) =< PointTime(s, 0)
    BY Windows
<1> HIDE DEF n
<1>4. Follows(s, NoPoint, n)
    BY <1>1, <1>2, <1>3 DEF Follows
<1> QED
    BY <1>4 DEF n

\* Without a marker, a point follows the point of the sweep before.
LEMMA PointComes ==
    ASSUME run \in Runs, NEW s \in Series, NEW q \in Nat, q > 0, ~Due(s, q)
    PROVE  Follows(s, PointAt(s, q - 1), PointAt(s, q))
<1> DEFINE r == ResourceOf(s)
           p == PointAt(s, q - 1)
           n == PointAt(s, q)
<1>0. r \in Nat /\ q - 1 \in Nat
    BY CurrentResource
<1>1. StalenessMarkers => generation(r, q) = generation(r, q - 1)
  <2>1. StalenessMarkers => ~generationChanged(r, q)
    BY DEF Due
  <2> HIDE DEF r
  <2> QED
    BY <1>0, <2>1, GenerationStartFacts
<1>2. Cumulative(s) => \/ Epoch(s, q) = q /\ Epoch(s, q - 1) \in Int /\ Epoch(s, q - 1) < q
                       \/ Epoch(s, q) = Epoch(s, q - 1) /\ generation(r, q) = generation(r, q - 1)
    BY <1>0, EpochFacts
<1>3. PointTime(s, q - 1) < PointTime(s, q) /\ PointTime(s, q - 1) \in Int /\ PointTime(s, q) \in Int
    BY <1>0, TimeMovesOn
<1>4. /\ p.k = q - 1 /\ p.gen = generation(r, q - 1) /\ ~p.marker /\ p # NoPoint
      /\ p.ts = PointTime(s, q - 1) /\ p.start = StartTime(s, q - 1) /\ p.value = Value(s, q - 1)
    BY <1>0, RecordFacts
<1>5. /\ n.k = q /\ n.gen = generation(r, q) /\ ~n.marker
      /\ n.ts = PointTime(s, q) /\ n.start = StartTime(s, q) /\ n.value = Value(s, q)
    BY RecordFacts
<1>6. Consistent(s, n)
    BY ValueConsistent
<1>7. /\ Cumulative(s) => /\ StartTime(s, q) = PointTime(s, Epoch(s, q))
                          /\ StartTime(s, q - 1) = PointTime(s, Epoch(s, q - 1))
      /\ Def(s).temporality = "delta" => StartTime(s, q) = PointTime(s, q - 1)
      /\ Def(s).typ # "gauge" => StartTime(s, q) =< PointTime(s, q)
    BY <1>0, Windows
<1>8. Monotonic(s) /\ Epoch(s, q) = Epoch(s, q - 1)
          => \A i \in DOMAIN n.value : n.value[i] >= p.value[i]
  <2> HIDE DEF n, p
  <2> QED
    BY <1>4, <1>5, ValueGrows
<1> HIDE DEF p, n, r
<1>9. Cumulative(s) => \/ n.start = n.ts /\ n.start # p.start
                       \/ Epoch(s, q) = Epoch(s, q - 1) /\ n.start = p.start /\ n.gen = p.gen
  <2>1. ASSUME Cumulative(s), Epoch(s, q) = q, Epoch(s, q - 1) \in Int, Epoch(s, q - 1) < q
        PROVE  n.start = n.ts /\ n.start # p.start
    <3> DEFINE e == Epoch(s, q - 1)
    <3>1. e \in Int /\ e < q
      BY <2>1
    <3> HIDE DEF e
    <3>2. PointTime(s, e) < PointTime(s, q) /\ PointTime(s, e) \in Int
      BY <3>1, TimeMovesOn
    <3>3. n.start = PointTime(s, q) /\ p.start = PointTime(s, e)
      BY <1>4, <1>5, <1>7, <2>1 DEF e
    <3> QED
      BY <1>3, <1>5, <3>2, <3>3
  <2>2. ASSUME Cumulative(s), Epoch(s, q) = Epoch(s, q - 1), generation(r, q) = generation(r, q - 1)
        PROVE  n.start = p.start /\ n.gen = p.gen
    BY <1>4, <1>5, <1>7, <2>2
  <2> QED
    BY <1>2, <2>1, <2>2
<1>10. PointAfterPoint(s, p, n)
  <2>1. n.k = p.k + 1 /\ n.ts > p.ts /\ (StalenessMarkers => n.gen = p.gen)
    BY <1>0, <1>1, <1>3, <1>4, <1>5
  <2>2. Def(s).temporality = "delta" => n.start = p.ts
    BY <1>4, <1>5, <1>7
  <2>3. Monotonic(s) => Cumulative(s)
    BY DEF Monotonic
  <2> QED
    BY <1>8, <1>9, <2>1, <2>2, <2>3 DEF PointAfterPoint
<1>11. Follows(s, p, n)
    BY <1>4, <1>5, <1>6, <1>7, <1>10 DEF Follows
<1> QED
    BY <1>11 DEF p, n

\* Every step adds at most what is next for its series.
LEMMA TimelineStep ==
    ASSUME FullInv, [Next]_vars, NEW s \in AllSeries
    PROVE  last'[s] = last[s] \/ Follows(s, last[s], last'[s])
<1>0. IInv /\ IInv' /\ Typed /\ Typed' /\ Courses /\ History /\ run \in Runs
    BY StepHolds DEF FullInv, IInv, Typed
<1>1. CASE UNCHANGED vars \/ Cancel \/ Rest
    BY <1>1 DEF Cancel, Rest, vars
<1>2. ASSUME NEW w \in Workers, Worker(w)
      PROVE  last'[s] = last[s] \/ Follows(s, last[s], last'[s])
  <2>1. Shape(w) /\ Course(w) /\ k[w] \in Nat
    BY <1>0, <1>2, WorkerShape DEF Courses, Typed, TypeOK
  <2> DEFINE c == Current(w)
  <2>2. CASE last' = last
    BY <2>2
  <2>3. CASE Marks(w) \/ Adds(w)
    <3>1. AtWork(w) /\ MorePoints(w)
      BY <2>1, <2>3 DEF Marks, Adds, Course
    <3>2. c \in Series /\ Owner(c) = w /\ c \in AllSeries /\ ~Behind(w, c) /\ DOMAIN last = AllSeries
      BY <1>0, <2>1, <3>1, AtSeries, SeriesFacts DEF Course, History
    <3>3. last[c] = Expected(w, c)
      BY <1>0, <3>2 DEF History
    <3>4. /\ Len(todo[w]) = 2 => Due(c, k[w]) /\ Head(todo[w]) = generation(ResourceOf(c), k[w]) - 1
          /\ Len(todo[w]) = 1 => Head(todo[w]) = generation(ResourceOf(c), k[w])
      BY <1>0, <2>1, <3>1, UnderWayFacts
    <3>5. s # c => last'[s] = last[s]
      BY <2>3, <3>2 DEF Marks, Adds
    <3>6. CASE Marks(w)
      <4>1. Len(todo[w]) = 2 /\ last'[c] = MarkerAt(c, k[w])
        BY <3>2, <3>4, <3>6 DEF Marks, MarkerAt
      <4>2. Due(c, k[w]) /\ ~Marked(w, c)
        BY <3>4, <4>1 DEF Marked
      <4>3. k[w] # 0 /\ Follows(c, PointAt(c, k[w] - 1), MarkerAt(c, k[w]))
        BY <1>0, <2>1, <3>2, <4>2, MarkerComes
      <4>4. last[c] = PointAt(c, k[w] - 1)
        BY <3>2, <3>3, <4>2, <4>3 DEF Expected
      <4> QED
        BY <3>5, <4>1, <4>3, <4>4
    <3>7. CASE Adds(w)
      <4>1. Len(todo[w]) = 1 /\ last'[c] = PointAt(c, k[w])
        BY <3>2, <3>4, <3>7 DEF Adds, PointAt
      <4>2. Follows(c, last[c], PointAt(c, k[w]))
        <5>1. CASE Due(c, k[w])
          <6>1. last[c] = MarkerAt(c, k[w])
            BY <3>1, <3>2, <3>3, <4>1, <5>1 DEF Expected, Marked
          <6> QED
            BY <1>0, <2>1, <3>2, <5>1, <6>1, MarkerComes
        <5>2. CASE ~Due(c, k[w]) /\ k[w] = 0
          <6>1. last[c] = NoPoint
            BY <3>2, <3>3, <5>2 DEF Expected, Marked
          <6> QED
            BY <1>0, <3>2, <5>2, <6>1, FirstPoint
        <5>3. CASE ~Due(c, k[w]) /\ k[w] # 0
          <6>1. last[c] = PointAt(c, k[w] - 1)
            BY <3>2, <3>3, <5>3 DEF Expected, Marked
          <6>2. k[w] \in Nat /\ k[w] > 0
            BY <2>1, <5>3
          <6> QED
            BY <1>0, <3>2, <5>3, <6>1, <6>2, PointComes
        <5> QED
          BY <5>1, <5>2, <5>3
      <4> QED
        BY <3>5, <4>1, <4>2
    <3> QED
      BY <2>3, <3>6, <3>7
  <2> QED
    BY <2>1, <2>2, <2>3 DEF Shape, Quiet, Begins, Moves, Sweeps
<1> QED
    BY <1>1, <1>2 DEF Next

\* worker.go:175-209, values.go:5-12, builder.go:113-330. Whatever the hashes and
\* however the workers interleave, the points and markers of a series come in the
\* order of the plan: time moves on, windows join, counts and monotonic sums do
\* not fall within an epoch, and no generation ends without its marker.
THEOREM SeriesInOrder == Spec => Timeline
<1>1. FullInv /\ [Next]_vars => [\A s \in AllSeries : last'[s] = last[s] \/ Follows(s, last[s], last'[s])]_vars
    BY TimelineStep
<1> QED
    BY <1>1, FullInvariance, PTL DEF Spec, Timeline

-----------------------------------------------------------------------------
(* The attributes of a series *)

\* A function that tells the first n numbers apart has n values.
LEMMA ImageSize ==
    ASSUME NEW n \in Nat, NEW f, \A i, j \in 0 .. n - 1 : f[i] = f[j] => i = j
    PROVE  Cardinality({f[i] : i \in 0 .. n - 1}) = n
<1> DEFINE S == 0 .. n - 1
           T == {f[i] : i \in S}
           g == [i \in S |-> f[i]]
<1>1. IsFiniteSet(S) /\ Cardinality(S) = n
  <2>1. n - 1 \in Int /\ 0 \in Int
    OBVIOUS
  <2>2. IsFiniteSet(S) /\ Cardinality(S) = IF 0 > n - 1 THEN 0 ELSE (n - 1) - 0 + 1
    BY <2>1, FS_Interval, Zenon
  <2> HIDE DEF S
  <2> QED
    BY <2>2
<1> HIDE DEF S
<1>2. g \in [S -> T] /\ \A t \in T : \E i \in S : g[i] = t
    OBVIOUS
<1>3. \A i, j \in S : g[i] = g[j] => i = j
    BY DEF S
<1>4. g \in Surjection(S, T) /\ g \in Injection(S, T)
  <2> HIDE DEF g, T
  <2> QED
    BY <1>2, <1>3 DEF Surjection, Injection, IsInjective
<1>5. Cardinality(T) = Cardinality(S)
  <2> HIDE DEF g, T
  <2> QED
    BY <1>1, <1>4, FS_Surjection
<1> QED
    BY <1>1, <1>5 DEF S

\* Two numbers with the same quotient and the same remainder are the same.
LEMMA DigitsTell ==
    ASSUME NEW a \in Nat, NEW b \in Nat, NEW m \in Nat \ {0}, a % m = b % m, a \div m = b \div m
    PROVE  a = b
<1>1. a = m * (a \div m) + (a % m) /\ b = m * (b \div m) + (b % m)
    BY Quotient
<1> QED
    BY <1>1, Zenon

LEMMA SmallRemainder ==
    ASSUME NEW a \in Nat, NEW m \in Nat, a < m
    PROVE  a % m = a
OBVIOUS

\* The two words of an operation, of which a list has forty, tell 280 apart.
LEMMA OperationsTell ==
    ASSUME NEW a \in 0 .. 279, NEW b \in 0 .. 279,
           a % 40 = b % 40, (a \div 7) % 40 = (b \div 7) % 40
    PROVE  a = b
<1> DEFINE p == a \div 40
           q == b \div 40
           r == a % 40
           x == a \div 7
           y == b \div 7
<1>1. p \in Int /\ q \in Int /\ r \in 0 .. 39 /\ a = 40 * p + r /\ b = 40 * q + r
    OBVIOUS
<1>2. x \in Int /\ 7 * x =< a /\ a < 7 * x + 7 /\ x \in 0 .. 39
    OBVIOUS
<1>3. y \in Int /\ 7 * y =< b /\ b < 7 * y + 7 /\ y \in 0 .. 39
    OBVIOUS
<1>4. x = y
    BY <1>2, <1>3
<1> HIDE DEF p, q, r, x, y
<1> QED
    BY <1>1, <1>2, <1>3, <1>4

Limited == {"rpc.service", "operation"}

\* values.go:89-101. The values of a key tell their numbers apart, of a service
\* the first 40 and of an operation the first 280.
LEMMA ValuesTell ==
    ASSUME NEW key \in AttrKeys, NEW a \in Nat, NEW b \in Nat,
           key \in Limited => a < Reach(key) /\ b < Reach(key),
           attrValue(key, a) = attrValue(key, b)
    PROVE  a = b
<1>1. CASE key = "listed"
  <2>1. a % 4 = b % 4 /\ a \div 4 = b \div 4
    BY <1>1 DEF attrValue
  <2> QED
    BY <2>1
<1>2. CASE key = "http.route"
  <2>1. a % 40 = b % 40 /\ a \div 40 = b \div 40
    BY <1>2 DEF attrValue
  <2> QED
    BY <2>1
<1>3. CASE key = "rpc.service"
  <2>1. a % 40 = b % 40 /\ a < 40 /\ b < 40
    BY <1>3 DEF attrValue, Limited, Reach
  <2> QED
    BY <2>1
<1>4. CASE key = "db.table"
  <2>1. a % 40 = b % 40 /\ a \div 40 = b \div 40
    BY <1>4 DEF attrValue
  <2> QED
    BY <2>1
<1>5. CASE key = "operation"
  <2>1. a % 40 = b % 40 /\ (a \div 7) % 40 = (b \div 7) % 40 /\ a < 280 /\ b < 280
    BY <1>5 DEF attrValue, Limited, Reach
  <2> QED
    BY <2>1, OperationsTell
<1>6. CASE key = "other"
    BY <1>6 DEF attrValue
<1> QED
    BY <1>1, <1>2, <1>3, <1>4, <1>5, <1>6 DEF AttrKeys

LEMMA ValuesAreDistinct == ValuesDistinct
<1> SUFFICES ASSUME NEW key \in AttrKeys
             PROVE  /\ Cardinality({attrValue(key, i) : i \in 0 .. Reach(key) - 1}) = Reach(key)
                    /\ Reach(key) < 320 => attrValue(key, Reach(key)) = attrValue(key, 0)
    BY DEF ValuesDistinct
<1>1. Reach(key) \in Nat
    BY DEF Reach
<1>2. Reach(key) < 320 => attrValue(key, Reach(key)) = attrValue(key, 0)
  <2>1. CASE key = "rpc.service"
    <3>1. Reach(key) = 40 /\ 40 % 40 = 0 /\ 0 % 40 = 0
      BY <2>1 DEF Reach
    <3> QED
      BY <2>1, <3>1 DEF attrValue
  <2>2. CASE key = "operation"
    <3>1. Reach(key) = 280 /\ 280 % 40 = 0 /\ 0 % 40 = 0 /\ (280 \div 7) % 40 = 0 /\ (0 \div 7) % 40 = 0
      BY <2>2 DEF Reach
    <3> QED
      BY <2>2, <3>1 DEF attrValue
  <2>3. CASE key \notin Limited
    BY <2>3 DEF Reach, Limited
  <2> QED
    BY <2>1, <2>2, <2>3 DEF Limited
<1> DEFINE n == Reach(key)
           f == [i \in 0 .. n - 1 |-> attrValue(key, i)]
<1>3. ASSUME NEW i \in 0 .. n - 1, NEW j \in 0 .. n - 1, f[i] = f[j] PROVE i = j
  <2>1. i \in Nat /\ j \in Nat /\ i < n /\ j < n
    BY <1>1
  <2>2. attrValue(key, i) = attrValue(key, j)
    BY <1>3
  <2> QED
    BY <2>1, <2>2, ValuesTell
<1>4. {f[i] : i \in 0 .. n - 1} = {attrValue(key, i) : i \in 0 .. n - 1}
    OBVIOUS
<1>5. Cardinality({f[i] : i \in 0 .. n - 1}) = n
  <2> HIDE DEF f, n
  <2> QED
    BY <1>1, <1>3, ImageSize DEF n
<1> QED
    BY <1>2, <1>4, <1>5

Pos == Nat \ {0}

\* The least number whose power reaches v, or v, is one of 1 .. v.
LEMMA CeilRootBounds ==
    ASSUME NEW v \in Pos, NEW left
    PROVE  CeilRoot(v, left) \in Pos
<1> DEFINE reach == {v} \cup {t \in 1 .. v : t ^ left >= v}
           Least(t) == \A u \in reach : t =< u
<1>1. reach \subseteq Pos /\ reach # {}
    BY DEF Pos
<1>2. CeilRoot(v, left) = CHOOSE t \in reach : Least(t)
    BY DEF CeilRoot
<1> HIDE DEF reach
<1>3. \E t \in reach : Least(t)
    BY <1>1, LeastNat DEF Pos
<1> HIDE DEF Least
<1>4. CeilRoot(v, left) \in reach
    BY <1>2, <1>3
<1> QED
    BY <1>1, <1>4

\* Rounded up, a quotient of positive numbers is positive.
LEMMA RoundedUp ==
    ASSUME NEW v \in Pos, NEW t \in Pos
    PROVE  (v + t - 1) \div t \in Pos
<1>1. v + t - 1 \in Nat /\ t \in Nat \ {0} /\ v + t - 1 >= t
    BY DEF Pos
<1> DEFINE a == v + t - 1
           x == a \div t
           u == a % t
<1>2. x \in Nat /\ u \in 0 .. t - 1 /\ a = t * x + u
    BY <1>1, Quotient
<1>3. a >= t
    BY <1>1
<1> HIDE DEF x, a, u
<1>4. x # 0
    BY <1>1, <1>2, <1>3
<1> QED
    BY <1>2, <1>4 DEF Pos, x, a

\* What is left of a number below v after one digit is below what DimStep leaves.
LEMMA DigitLeaves ==
    ASSUME NEW v \in Pos, NEW t \in Pos, NEW x \in Nat, x < v
    PROVE  x \div t \in Nat /\ x \div t < (v + t - 1) \div t
<1> DEFINE p == x \div t
           q == (v + t - 1) \div t
           u == x % t
           w == (v + t - 1) % t
<1>0. t \in Nat \ {0} /\ v \in Nat /\ v + t - 1 \in Nat
    BY DEF Pos
<1>1. p \in Nat /\ u \in 0 .. t - 1 /\ x = t * p + u
    BY <1>0, Quotient
<1>2. q \in Nat /\ w \in 0 .. t - 1 /\ v + t - 1 = t * q + w
    BY <1>0, Quotient
<1> HIDE DEF p, q, u, w
<1>3. t * p \in Nat /\ t * q \in Nat
    BY <1>0, <1>1, <1>2
<1>4. t * q > t * p
    BY <1>0, <1>1, <1>2, <1>3
<1>5. ASSUME q =< p PROVE FALSE
  <2>1. t * q =< t * p
    BY <1>0, <1>1, <1>2, <1>5, TimesMonotone
  <2> QED
    BY <1>3, <1>4, <2>1
<1>6. p < q
    BY <1>1, <1>2, <1>5
<1> QED
    BY <1>1, <1>6 DEF p, q

\* The last dimension, which takes all that remains, leaves one value.
LEMMA LastLeaves ==
    ASSUME NEW v \in Pos
    PROVE  (v + v - 1) \div v = 1
<1>1. v + v - 1 \in Nat /\ v \in Nat \ {0} /\ v * 1 =< v + v - 1 /\ v + v - 1 < v * 1 + v
    BY DEF Pos
<1> QED
    BY <1>1, QuotientUnique

\* The size that DimStep gives dimension d when v remains.
SizeFor(v, d, dims, head) ==
    IF dims - d + 1 = 1 THEN v
    ELSE IF d = 1 THEN Lesser(head, CeilRoot(v, dims - d + 1)) ELSE CeilRoot(v, dims - d + 1)

DimStates == [sizes : Seq(Pos), remaining : Pos]

DimStepped(s, r, t) ==
    /\ t \in Pos
    /\ r.sizes = Append(s.sizes, t) /\ r.remaining = (s.remaining + t - 1) \div t

LEMMA DimStepFacts ==
    ASSUME NEW s \in DimStates, NEW d \in Nat, NEW dims \in Nat, NEW head \in Pos
    PROVE  /\ DimStep(s, d, dims, head) \in DimStates
           /\ DimStepped(s, DimStep(s, d, dims, head), SizeFor(s.remaining, d, dims, head))
<1> DEFINE t == SizeFor(s.remaining, d, dims, head)
           left == dims - d + 1
<1>1. s.remaining \in Pos /\ s.sizes \in Seq(Pos)
    BY DEF DimStates
<1>2. CeilRoot(s.remaining, left) \in Pos
  <2> HIDE DEF left
  <2> QED
    BY <1>1, CeilRootBounds
<1>3. t \in Pos
  <2>1. t = IF left = 1 THEN s.remaining
            ELSE IF d = 1 THEN Lesser(head, CeilRoot(s.remaining, left)) ELSE CeilRoot(s.remaining, left)
    BY DEF SizeFor
  <2> HIDE DEF t, left
  <2> QED
    BY <1>1, <1>2, <2>1 DEF Lesser
<1>4. DimStep(s, d, dims, head) =
        [sizes |-> Append(s.sizes, t), remaining |-> (s.remaining + t - 1) \div t]
    BY DEF DimStep, SizeFor
<1> HIDE DEF t
<1>5. (s.remaining + t - 1) \div t \in Pos
    BY <1>1, <1>3, RoundedUp
<1>6. Append(s.sizes, t) \in Seq(Pos)
    BY <1>1, <1>3
<1>7. DimStep(s, d, dims, head) \in DimStates
    BY <1>4, <1>5, <1>6 DEF DimStates
<1> QED
    BY <1>3, <1>4, <1>7 DEF t, DimStepped

\* f is the states that dimSizes goes through.
DimSteps(f, c, dims, head) ==
    /\ f \in [0 .. dims -> DimStates]
    /\ f[0] = [sizes |-> <<>>, remaining |-> c]
    /\ \A d \in 1 .. dims : f[d] = DimStep(f[d - 1], d, dims, head)
    /\ dimSizes(c, dims, head) = f[dims].sizes

LEMMA DimStepsTaken ==
    ASSUME NEW c \in Pos, NEW dims \in Nat, NEW head \in Pos
    PROVE  \E f : DimSteps(f, c, dims, head)
<1> DEFINE first == [sizes |-> <<>>, remaining |-> c]
           G == [d \in 1 .. dims |-> [x \in DimStates |-> DimStep(x, d, dims, head)]]
           P(f) == f = [d \in 0 .. dims |-> IF d = 0 THEN first ELSE DimStep(f[d - 1], d, dims, head)]
           step == CHOOSE f : P(f)
<1>1. dimSizes(c, dims, head) = step[dims].sizes
    BY DEF dimSizes
<1>2. first \in DimStates
    BY DEF DimStates
<1> HIDE DEF first
<1>3. \A d \in 1 .. dims : \A x \in DimStates :
         G[d][x] = DimStep(x, d, dims, head) /\ G[d][x] \in DimStates
  <2> SUFFICES ASSUME NEW d \in 1 .. dims, NEW x \in DimStates
               PROVE  G[d][x] = DimStep(x, d, dims, head) /\ G[d][x] \in DimStates
    OBVIOUS
  <2>1. G[d][x] = DimStep(x, d, dims, head)
    OBVIOUS
  <2>2. DimStep(x, d, dims, head) \in DimStates
    <3>1. d \in Nat
      OBVIOUS
    <3> QED
      BY <3>1, DimStepFacts
  <2> QED
    BY <2>1, <2>2
<1> HIDE DEF G
<1>4. PICK g \in [0 .. dims -> DimStates] : g[0] = first /\ \A d \in 1 .. dims : g[d] = G[d][g[d - 1]]
  <2>1. Closed(DimStates, dims, G)
    BY <1>3 DEF Closed
  <2>2. Defined(DimStates, first, dims, G)
    BY <1>2, <2>1, Recursion, Zenon
  <2> QED
    BY <2>2 DEF Defined
<1>5. ASSUME NEW d \in 1 .. dims PROVE g[d] = DimStep(g[d - 1], d, dims, head)
  <2>1. d - 1 \in 0 .. dims
    OBVIOUS
  <2> QED
    BY <1>3, <1>4, <2>1
<1>6. P(g)
  <2>1. ASSUME NEW d \in 0 .. dims
        PROVE  g[d] = IF d = 0 THEN first ELSE DimStep(g[d - 1], d, dims, head)
    <3>1. CASE d = 0
      BY <1>4, <3>1
    <3>2. CASE d # 0
      <4>1. d \in 1 .. dims
        BY <3>2
      <4> QED
        BY <1>5, <3>2, <4>1
    <3> QED
      BY <3>1, <3>2
  <2> QED
    BY <1>4, <2>1
<1>7. P(step)
  <2> HIDE DEF P
  <2> QED
    BY <1>6
<1> HIDE DEF step
<1>8. /\ step = [d \in 0 .. dims |-> step[d]]
      /\ \A d \in 0 .. dims : step[d] = IF d = 0 THEN first ELSE DimStep(step[d - 1], d, dims, head)
    BY <1>7
<1>9. step[0] = first /\ \A d \in 1 .. dims : step[d] = DimStep(step[d - 1], d, dims, head)
  <2>1. 0 \in 0 .. dims /\ \A d \in 1 .. dims : d \in 0 .. dims /\ d # 0
    OBVIOUS
  <2> QED
    BY <1>8, <2>1
<1> DEFINE S == {d \in 0 .. dims : step[d] = g[d]}
<1>10. 0 .. dims \subseteq S
  <2>1. 0 \in S
    BY <1>4, <1>9
  <2>2. ASSUME NEW d \in 1 .. dims, d - 1 \in S PROVE d \in S
    <3>1. step[d] = DimStep(step[d - 1], d, dims, head) /\ step[d - 1] = g[d - 1] /\ d \in 0 .. dims
      BY <1>9, <2>2
    <3> QED
      BY <1>5, <3>1
  <2> HIDE DEF S
  <2> QED
    BY <2>1, <2>2, InductionUpTo
<1>11. dims \in 0 .. dims /\ step[dims] = g[dims]
    BY <1>10
<1> QED
    BY <1>1, <1>4, <1>5, <1>11 DEF first, DimSteps

\* m is what remains of c after each of the dimensions of the given sizes.
Remains(m, c, sizes) ==
    /\ m \in [0 .. Len(sizes) -> Pos] /\ m[0] = c
    /\ \A d \in 1 .. Len(sizes) : m[d] = (m[d - 1] + sizes[d] - 1) \div sizes[d]

\* plan.go:445-482. dimSizes by what remains after each dimension: the last takes
\* what the others leave.
LEMMA SizesFacts ==
    ASSUME NEW c \in Pos, NEW dims \in Pos, NEW head \in Pos
    PROVE  /\ dimSizes(c, dims, head) \in Seq(Pos) /\ Len(dimSizes(c, dims, head)) = dims
           /\ \E m : Remains(m, c, dimSizes(c, dims, head)) /\ m[dims] = 1
<1>0. dims \in Nat /\ dims >= 1
    BY DEF Pos
<1>f. PICK f : DimSteps(f, c, dims, head)
    BY <1>0, DimStepsTaken
<1>1. /\ f \in [0 .. dims -> DimStates]
      /\ f[0] = [sizes |-> <<>>, remaining |-> c]
      /\ \A d \in 1 .. dims : f[d] = DimStep(f[d - 1], d, dims, head)
      /\ dimSizes(c, dims, head) = f[dims].sizes
    BY <1>f DEF DimSteps
<1> DEFINE sizes == dimSizes(c, dims, head)
           m == [d \in 0 .. dims |-> f[d].remaining]
           T(d) == SizeFor(f[d - 1].remaining, d, dims, head)
<1>2. \A d \in 0 .. dims : f[d] \in DimStates /\ f[d].remaining \in Pos /\ f[d].sizes \in Seq(Pos)
    BY <1>1 DEF DimStates
<1>3. m \in [0 .. dims -> Pos] /\ m[0] = c
    BY <1>0, <1>1, <1>2
<1>4. ASSUME NEW d \in 1 .. dims
      PROVE  /\ T(d) \in Pos
             /\ f[d].sizes = Append(f[d - 1].sizes, T(d))
             /\ f[d].remaining = (f[d - 1].remaining + T(d) - 1) \div T(d)
  <2>1. d \in Nat /\ d - 1 \in 0 .. dims /\ f[d - 1] \in DimStates
    BY <1>0, <1>2
  <2>2. f[d] = DimStep(f[d - 1], d, dims, head)
    BY <1>1
  <2>3. DimStepped(f[d - 1], f[d], T(d))
    BY <1>0, <2>1, <2>2, DimStepFacts
  <2> HIDE DEF T
  <2> QED
    BY <2>3 DEF DimStepped
<1>T. \A d : T(d) = SizeFor(f[d - 1].remaining, d, dims, head)
    OBVIOUS
<1> HIDE DEF T
<1> DEFINE S == {d \in 0 .. dims : Len(f[d].sizes) = d /\ \A e \in 1 .. d : f[d].sizes[e] = T(e)}
<1>5. 0 .. dims \subseteq S
  <2>1. 0 \in S
    BY <1>0, <1>1
  <2>2. ASSUME NEW d \in 1 .. dims, d - 1 \in S PROVE d \in S
    <3>0. d \in 0 .. dims /\ d - 1 \in 0 .. dims
      BY <1>0
    <3>1. /\ f[d - 1].sizes \in Seq(Pos)
          /\ Len(f[d - 1].sizes) = d - 1 /\ \A e \in 1 .. d - 1 : f[d - 1].sizes[e] = T(e)
      BY <1>0, <1>2, <2>2, Zenon
    <3>2. f[d].sizes = Append(f[d - 1].sizes, T(d)) /\ T(d) \in Pos
      BY <1>4
    <3>3. Len(f[d].sizes) = d
      BY <3>0, <3>1, <3>2
    <3>4. ASSUME NEW e \in 1 .. d PROVE f[d].sizes[e] = T(e)
      <4>1. CASE e = d
        BY <3>1, <3>2, <4>1
      <4>2. CASE e # d
        <5>1. e \in 1 .. d - 1
          BY <4>2
        <5> QED
          BY <3>1, <3>2, <5>1
      <4> QED
        BY <4>1, <4>2
    <3> QED
      BY <3>0, <3>3, <3>4
  <2> HIDE DEF S
  <2> QED
    BY <1>0, <2>1, <2>2, InductionUpTo
<1>6. dims \in 0 .. dims /\ Len(sizes) = dims /\ sizes \in Seq(Pos)
      /\ \A e \in 1 .. dims : sizes[e] = T(e)
    BY <1>0, <1>1, <1>2, <1>5
<1> HIDE DEF sizes
<1>7. ASSUME NEW d \in 1 .. dims PROVE m[d] = (m[d - 1] + sizes[d] - 1) \div sizes[d]
  <2>1. d \in 0 .. dims /\ d - 1 \in 0 .. dims
    BY <1>0
  <2>2. m[d] = f[d].remaining /\ m[d - 1] = f[d - 1].remaining
    BY <2>1
  <2> QED
    BY <1>4, <1>6, <2>2
<1>8. m[dims] = 1
  <2>1. dims \in 1 .. dims /\ dims - 1 \in 0 .. dims /\ dims - dims + 1 = 1
    BY <1>0
  <2>2. sizes[dims] = m[dims - 1]
    BY <1>6, <1>T, <2>1 DEF SizeFor
  <2>3. m[dims - 1] \in Pos
    BY <1>3, <2>1
  <2> HIDE DEF m
  <2>4. m[dims] = (m[dims - 1] + m[dims - 1] - 1) \div m[dims - 1]
    BY <1>7, <2>1, <2>2
  <2> QED
    BY <2>3, <2>4, LastLeaves
<1> HIDE DEF m
<1>9. Remains(m, c, sizes)
    BY <1>3, <1>6, <1>7, Zenon DEF Remains
<1> QED
    BY <1>6, <1>8, <1>9, Zenon DEF sizes

\* g is what is left of j before each digit, and at the end.
DigitsOf(g, j, sizes, keys) ==
    /\ g \in [0 .. Len(sizes) -> Nat] /\ g[0] = j
    /\ \A d \in 1 .. Len(sizes) : g[d] = g[d - 1] \div sizes[d]
    /\ appendAttrs(j, sizes, keys) =
          [d \in 1 .. Len(sizes) |-> attrValue(keys[d], g[d - 1] % sizes[d])]

\* plan.go:484-504. The values of series j by what is left of j before each digit.
LEMMA AttrsFacts ==
    ASSUME NEW j \in Nat, NEW sizes \in Seq(Pos), NEW keys
    PROVE  \E g : DigitsOf(g, j, sizes, keys)
<1> DEFINE n == Len(sizes)
           G == [d \in 1 .. n |-> [x \in Nat |-> x \div sizes[d]]]
           P(f) == f = [d \in 1 .. n |-> IF d = 1 THEN j ELSE f[d - 1] \div sizes[d - 1]]
           rem == CHOOSE f : P(f)
<1>1. n \in Nat /\ \A d \in 1 .. n : sizes[d] \in Nat \ {0}
    BY DEF Pos
<1>2. appendAttrs(j, sizes, keys) = [d \in 1 .. n |-> attrValue(keys[d], rem[d] % sizes[d])]
    BY DEF appendAttrs
<1> HIDE DEF n
<1>3. \A d \in 1 .. n : \A x \in Nat : G[d][x] = x \div sizes[d] /\ G[d][x] \in Nat
  <2> SUFFICES ASSUME NEW d \in 1 .. n, NEW x \in Nat
               PROVE  G[d][x] = x \div sizes[d] /\ G[d][x] \in Nat
    OBVIOUS
  <2>1. G[d][x] = x \div sizes[d]
    OBVIOUS
  <2>2. x \div sizes[d] \in Nat
    BY <1>1, Quotient, Zenon
  <2> QED
    BY <2>1, <2>2, Zenon
<1> HIDE DEF G
<1>4. PICK g \in [0 .. n -> Nat] : g[0] = j /\ \A d \in 1 .. n : g[d] = G[d][g[d - 1]]
  <2>1. Closed(Nat, n, G)
    BY <1>3 DEF Closed
  <2>2. Defined(Nat, j, n, G)
    BY <1>1, <2>1, Recursion, Zenon
  <2> QED
    BY <2>2 DEF Defined
<1>5. ASSUME NEW d \in 1 .. n PROVE g[d] = g[d - 1] \div sizes[d]
  <2>1. d - 1 \in 0 .. n
    BY <1>1
  <2>2. g[d - 1] \in Nat /\ g[d] = G[d][g[d - 1]]
    BY <1>4, <2>1
  <2> QED
    BY <1>3, <2>2, Zenon
<1> DEFINE h == [d \in 1 .. n |-> g[d - 1]]
<1>6. P(h)
  <2>1. ASSUME NEW d \in 1 .. n PROVE h[d] = IF d = 1 THEN j ELSE h[d - 1] \div sizes[d - 1]
    <3>1. h[d] = g[d - 1]
      OBVIOUS
    <3>2. CASE d = 1
      BY <1>4, <3>1, <3>2
    <3>3. CASE d # 1
      <4>1. d - 1 \in 1 .. n /\ h[d - 1] = g[(d - 1) - 1]
        BY <1>1, <3>3
      <4>2. g[d - 1] = g[(d - 1) - 1] \div sizes[d - 1]
        BY <1>5, <4>1, Zenon
      <4> HIDE DEF h
      <4> QED
        BY <3>1, <3>3, <4>1, <4>2, Zenon
    <3> QED
      BY <3>2, <3>3
  <2>2. h = [d \in 1 .. n |-> h[d]]
    OBVIOUS
  <2> HIDE DEF h
  <2> QED
    BY <2>1, <2>2, Zenon
<1>7. P(rem)
  <2> HIDE DEF P, h
  <2> QED
    BY <1>6
<1> HIDE DEF rem
<1>8. \A d \in 1 .. n : rem[d] = IF d = 1 THEN j ELSE rem[d - 1] \div sizes[d - 1]
    BY <1>7, Zenon
<1> DEFINE S == {d \in 0 .. n : d < n => rem[d + 1] = g[d]}
<1>9. 0 .. n \subseteq S
  <2>1. 0 \in S
    <3>1. ASSUME 0 < n PROVE rem[0 + 1] = g[0]
      <4>1. 1 \in 1 .. n /\ 0 + 1 = 1
        BY <1>1, <3>1
      <4> QED
        BY <1>4, <1>8, <4>1, Zenon
    <3> QED
      BY <1>1, <3>1
  <2>2. ASSUME NEW d \in 1 .. n, d - 1 \in S PROVE d \in S
    <3>1. ASSUME d < n PROVE rem[d + 1] = g[d]
      <4>1. d + 1 \in 1 .. n /\ d + 1 # 1 /\ (d + 1) - 1 = d /\ (d - 1) + 1 = d /\ d - 1 < n
        BY <1>1, <3>1
      <4>2. rem[d + 1] = rem[d] \div sizes[d]
        BY <1>8, <4>1
      <4>3. rem[d] = g[d - 1]
        BY <2>2, <4>1
      <4> QED
        BY <1>5, <4>2, <4>3, Zenon
    <3>2. d \in 0 .. n
      BY <1>1
    <3> QED
      BY <3>1, <3>2
  <2> HIDE DEF S
  <2> QED
    BY <1>1, <2>1, <2>2, InductionUpTo
<1>10. ASSUME NEW d \in 1 .. n PROVE rem[d] = g[d - 1]
  <2>1. d - 1 \in 0 .. n /\ d - 1 < n /\ (d - 1) + 1 = d
    BY <1>1
  <2>2. d - 1 \in S
    BY <1>9, <2>1, Zenon
  <2> QED
    BY <2>1, <2>2
<1>11. appendAttrs(j, sizes, keys) = [d \in 1 .. n |-> attrValue(keys[d], g[d - 1] % sizes[d])]
    BY <1>2, <1>10, Zenon
<1> QED
    BY <1>4, <1>5, <1>11, Zenon DEF n, DigitsOf

\* plan.go:445-504 ("Each j < cardinality yields a unique attribute vector").
\* For every cardinality, number of dimensions and bound on the first, and for any
\* keys: as long as no dimension outgrows a key that has only so many values,
\* series with different numbers have different attributes.
THEOREM SeriesTellApart ==
    ASSUME NEW c \in Pos, NEW dims \in Pos, NEW head \in Pos, NEW keys,
           \A d \in 1 .. dims :
              /\ keys[d] \in AttrKeys
              /\ keys[d] \in Limited => dimSizes(c, dims, head)[d] =< Reach(keys[d])
    PROVE  \A i, j \in 0 .. c - 1 :
              appendAttrs(i, dimSizes(c, dims, head), keys) = appendAttrs(j, dimSizes(c, dims, head), keys)
                 => i = j
<1> DEFINE sizes == dimSizes(c, dims, head)
<1>0. dims \in Nat /\ dims >= 1 /\ c \in Nat /\ c >= 1
    BY DEF Pos
<1>1. /\ sizes \in Seq(Pos) /\ Len(sizes) = dims
      /\ \E m : Remains(m, c, sizes) /\ m[dims] = 1
    BY SizesFacts
<1>2. ASSUME NEW d \in 1 .. dims
      PROVE  keys[d] \in AttrKeys /\ (keys[d] \in Limited => sizes[d] =< Reach(keys[d]))
    OBVIOUS
<1> HIDE DEF sizes
<1>m. PICK m : Remains(m, c, sizes) /\ m[dims] = 1
    BY <1>1
<1>3. /\ m \in [0 .. dims -> Pos] /\ m[0] = c /\ m[dims] = 1
      /\ \A d \in 1 .. dims : m[d] = (m[d - 1] + sizes[d] - 1) \div sizes[d]
    BY <1>1, <1>m, Zenon DEF Remains
<1>4. \A d \in 1 .. dims : sizes[d] \in Pos /\ sizes[d] \in Nat \ {0}
    BY <1>1 DEF Pos
<1> SUFFICES ASSUME NEW i \in 0 .. c - 1, NEW j \in 0 .. c - 1,
                    appendAttrs(i, sizes, keys) = appendAttrs(j, sizes, keys)
             PROVE  i = j
    BY DEF sizes
<1> DEFINE Digits(x, g) ==
             /\ g \in [0 .. dims -> Nat] /\ g[0] = x
             /\ \A d \in 1 .. dims : g[d] = g[d - 1] \div sizes[d]
             /\ appendAttrs(x, sizes, keys) =
                   [d \in 1 .. dims |-> attrValue(keys[d], g[d - 1] % sizes[d])]
<1>5. ASSUME NEW x \in 0 .. c - 1 PROVE \E g : Digits(x, g)
  <2>1. x \in Nat
    BY <1>0
  <2>2. PICK g : DigitsOf(g, x, sizes, keys)
    BY <1>1, <2>1, AttrsFacts, Zenon
  <2>3. Digits(x, g)
    BY <1>1, <2>2, Zenon DEF DigitsOf
  <2> HIDE DEF Digits
  <2> QED
    BY <2>3
<1>6. ASSUME NEW x \in 0 .. c - 1, NEW g, Digits(x, g)
      PROVE  g[dims] = 0
  <2> DEFINE S == {d \in 0 .. dims : g[d] \in Nat /\ g[d] < m[d]}
  <2>1. 0 \in S
    BY <1>0, <1>3, <1>6
  <2>2. ASSUME NEW d \in 1 .. dims, d - 1 \in S PROVE d \in S
    <3>1. d \in 0 .. dims /\ d - 1 \in 0 .. dims
      BY <1>0
    <3>2. g[d - 1] \in Nat /\ g[d - 1] < m[d - 1] /\ m[d - 1] \in Pos /\ sizes[d] \in Pos
      BY <1>3, <1>4, <2>2, <3>1
    <3>3. g[d] = g[d - 1] \div sizes[d] /\ m[d] = (m[d - 1] + sizes[d] - 1) \div sizes[d]
      BY <1>3, <1>6
    <3>4. g[d] \in Nat /\ g[d] < m[d]
      BY <3>2, <3>3, DigitLeaves
    <3> QED
      BY <3>1, <3>4, Zenon
  <2>3. 0 .. dims \subseteq S
    <3> HIDE DEF S
    <3> QED
      BY <1>0, <2>1, <2>2, InductionUpTo
  <2>4. g[dims] \in Nat /\ g[dims] < 1
    BY <1>0, <1>3, <2>3
  <2> QED
    BY <2>4
<1>7. PICK f : Digits(i, f)
    BY <1>5
<1>8. PICK g : Digits(j, g)
    BY <1>5
<1>9. ASSUME NEW d \in 1 .. dims, f[d] = g[d] PROVE f[d - 1] = g[d - 1]
  <2>0. d - 1 \in 0 .. dims
    BY <1>0
  <2>1. attrValue(keys[d], f[d - 1] % sizes[d]) = attrValue(keys[d], g[d - 1] % sizes[d])
    <3>1. [e \in 1 .. dims |-> attrValue(keys[e], f[e - 1] % sizes[e])]
          = [e \in 1 .. dims |-> attrValue(keys[e], g[e - 1] % sizes[e])]
      BY <1>7, <1>8, Zenon
    <3>2. [e \in 1 .. dims |-> attrValue(keys[e], f[e - 1] % sizes[e])][d]
          = [e \in 1 .. dims |-> attrValue(keys[e], g[e - 1] % sizes[e])][d]
      BY <3>1, Zenon
    <3> QED
      BY <3>2, Zenon
  <2>2. f[d - 1] \in Nat /\ g[d - 1] \in Nat /\ sizes[d] \in Nat \ {0}
    BY <1>4, <1>7, <1>8, <2>0, Zenon
  <2>3. f[d - 1] \div sizes[d] = g[d - 1] \div sizes[d]
    BY <1>7, <1>8, <1>9, Zenon
  <2> DEFINE a == f[d - 1]
             b == g[d - 1]
             t == sizes[d]
             u == a % t
             v == b % t
  <2>4. a \in Nat /\ b \in Nat /\ t \in Nat \ {0} /\ a \div t = b \div t
    BY <2>2, <2>3, Zenon
  <2>5. attrValue(keys[d], u) = attrValue(keys[d], v)
    BY <2>1, Zenon
  <2>6. keys[d] \in Limited => t =< Reach(keys[d])
    BY <1>2, Zenon
  <2>7. keys[d] \in AttrKeys
    BY <1>2, Zenon
  <2> HIDE DEF a, b, t
  <2>8. u \in 0 .. t - 1 /\ v \in 0 .. t - 1
    BY <2>4, Quotient, Zenon
  <2> HIDE DEF u, v
  <2>9. u \in Nat /\ v \in Nat /\ (keys[d] \in Limited => u < Reach(keys[d]) /\ v < Reach(keys[d]))
    <3>1. Reach(keys[d]) \in Nat
      BY DEF Reach
    <3> QED
      BY <2>4, <2>6, <2>8, <3>1
  <2>10. u = v
    BY <2>5, <2>7, <2>9, ValuesTell, Zenon
  <2>11. a % t = b % t
    BY <2>10, Zenon DEF u, v
  <2>12. a = b
    BY <2>4, <2>11, DigitsTell, Zenon
  <2> QED
    BY <2>12, Zenon DEF a, b
<1>10. f[dims] = 0 /\ g[dims] = 0
  <2> HIDE DEF Digits
  <2> QED
    BY <1>6, <1>7, <1>8, Zenon
<1>11. f[0] = i /\ g[0] = j
    BY <1>7, <1>8
<1> HIDE DEF Digits
<1> DEFINE S == {e \in 0 .. dims : f[dims - e] = g[dims - e]}
<1>12. 0 .. dims \subseteq S
  <2>1. 0 \in S
    BY <1>0, <1>10
  <2>2. ASSUME NEW e \in 1 .. dims, e - 1 \in S PROVE e \in S
    <3>1. e \in 0 .. dims /\ dims - (e - 1) \in 1 .. dims /\ (dims - (e - 1)) - 1 = dims - e
      BY <1>0
    <3>2. f[dims - (e - 1)] = g[dims - (e - 1)]
      BY <2>2
    <3>3. f[(dims - (e - 1)) - 1] = g[(dims - (e - 1)) - 1]
      BY <1>9, <3>1, <3>2, Zenon
    <3> QED
      BY <3>1, <3>3
  <2> HIDE DEF S
  <2> QED
    BY <1>0, <2>1, <2>2, InductionUpTo
<1>13. dims \in S /\ dims - dims = 0
    BY <1>0, <1>12
<1>14. f[0] = g[0]
    BY <1>13
<1> QED
    BY <1>11, <1>14, Zenon

\* So it is, whatever the sizes, when one key is used for the last dimension.
LastKey(dims, key) == [d \in 1 .. dims |-> IF d = dims THEN key ELSE "other"]

LEMMA SeriesCounted ==
    ASSUME NEW c \in Pos, NEW dims \in Pos, NEW head \in Pos, NEW key \in AttrKeys,
           dimSizes(c, dims, head)[dims] =< Reach(key)
    PROVE  Cardinality({appendAttrs(j, dimSizes(c, dims, head), LastKey(dims, key)) : j \in 0 .. c - 1}) = c
<1> DEFINE sizes == dimSizes(c, dims, head)
           keys == LastKey(dims, key)
           f == [j \in 0 .. c - 1 |-> appendAttrs(j, sizes, keys)]
<1>1. c \in Nat
    BY DEF Pos
<1>2. ASSUME NEW d \in 1 .. dims
      PROVE  keys[d] \in AttrKeys /\ (keys[d] \in Limited => sizes[d] =< Reach(keys[d]))
  <2>1. keys[d] = IF d = dims THEN key ELSE "other"
    BY DEF LastKey
  <2>2. "other" \in AttrKeys /\ "other" \notin Limited
    BY DEF AttrKeys, Limited
  <2> HIDE DEF keys
  <2> QED
    BY <2>1, <2>2
<1> HIDE DEF keys
<1>3. \A i, j \in 0 .. c - 1 : appendAttrs(i, sizes, keys) = appendAttrs(j, sizes, keys) => i = j
  <2>1. \A d \in 1 .. dims : /\ keys[d] \in AttrKeys
                             /\ keys[d] \in Limited => dimSizes(c, dims, head)[d] =< Reach(keys[d])
    BY <1>2
  <2> QED
    BY <2>1, SeriesTellApart, Zenon
<1> HIDE DEF sizes
<1>4. \A i, j \in 0 .. c - 1 : f[i] = f[j] => i = j
    BY <1>3
<1>5. {f[j] : j \in 0 .. c - 1} = {appendAttrs(j, sizes, keys) : j \in 0 .. c - 1}
    OBVIOUS
<1> HIDE DEF f
<1>6. Cardinality({f[j] : j \in 0 .. c - 1}) = c
    BY <1>1, <1>4, ImageSize
<1> QED
    BY <1>5, <1>6 DEF sizes, keys

LEMMA SeriesAreDistinct == SeriesDistinct
<1> DEFINE C == (1 .. 12) \cup {100}
           D == 1 .. 3
           H == {3, 8}
<1>1. C \subseteq Pos /\ D \subseteq Pos /\ H \subseteq Pos
    BY DEF Pos
<1>2. SeriesDistinct <=>
        \A c \in C, dims \in D, head \in H, key \in AttrKeys :
           dimSizes(c, dims, head)[dims] =< Reach(key) =>
              Cardinality({appendAttrs(j, dimSizes(c, dims, head), LastKey(dims, key)) : j \in 0 .. c - 1}) = c
    BY DEF SeriesDistinct, LastKey
<1> HIDE DEF C, D, H
<1> QED
    BY <1>1, <1>2, SeriesCounted

-----------------------------------------------------------------------------
(* The cycle of metric types *)

\* f is the partial sums of a.
Sums(f, a) == /\ f \in [0 .. Len(a) -> Int] /\ f[0] = 0 /\ Total(a) = f[Len(a)]
              /\ \A i \in 1 .. Len(a) : f[i] = f[i - 1] + a[i]

LEMMA SumsExist ==
    ASSUME NEW a \in Seq(Int)
    PROVE  \E f : Sums(f, a)
BY TotalSums, Zenon DEF Sums

\* The total of sums is the sum of the totals.
LEMMA TotalAdds ==
    ASSUME NEW a \in Seq(Int), NEW b \in Seq(Int), NEW c \in Seq(Int), NEW n \in Nat,
           Len(a) = n, Len(b) = n, Len(c) = n, \A i \in 1 .. n : c[i] = a[i] + b[i]
    PROVE  Total(c) = Total(a) + Total(b)
<1>1. PICK f : Sums(f, a)
    BY SumsExist
<1>2. PICK g : Sums(g, b)
    BY SumsExist
<1>3. PICK h : Sums(h, c)
    BY SumsExist
<1>4. /\ f \in [0 .. n -> Int] /\ f[0] = 0 /\ Total(a) = f[n] /\ \A i \in 1 .. n : f[i] = f[i - 1] + a[i]
      /\ g \in [0 .. n -> Int] /\ g[0] = 0 /\ Total(b) = g[n] /\ \A i \in 1 .. n : g[i] = g[i - 1] + b[i]
      /\ h \in [0 .. n -> Int] /\ h[0] = 0 /\ Total(c) = h[n] /\ \A i \in 1 .. n : h[i] = h[i - 1] + c[i]
    BY <1>1, <1>2, <1>3, Zenon DEF Sums
<1>5. \A i \in 1 .. n : a[i] \in Int /\ b[i] \in Int
    OBVIOUS
<1> DEFINE S == {i \in 0 .. n : h[i] = f[i] + g[i]}
<1>6. 0 \in S
    BY <1>4
<1>7. ASSUME NEW i \in 1 .. n, i - 1 \in S PROVE i \in S
  <2>1. i \in 0 .. n /\ i - 1 \in 0 .. n
    OBVIOUS
  <2>2. f[i - 1] \in Int /\ g[i - 1] \in Int /\ h[i - 1] = f[i - 1] + g[i - 1]
    BY <1>4, <1>7, <2>1
  <2>3. h[i] = f[i] + g[i]
    BY <1>4, <1>5, <2>2
  <2> QED
    BY <2>1, <2>3
<1>8. 0 .. n \subseteq S
  <2> HIDE DEF S
  <2> QED
    BY <1>6, <1>7, InductionUpTo
<1> QED
    BY <1>4, <1>8

\* One part less some number takes that number from the total.
LEMMA TotalCharged ==
    ASSUME NEW a \in Seq(Int), NEW b \in 1 .. Len(a), NEW x \in Int
    PROVE  Total([a EXCEPT ![b] = @ - x]) = Total(a) - x
<1> DEFINE c == [a EXCEPT ![b] = @ - x]
           n == Len(a)
<1>0. n \in Nat /\ a \in [1 .. n -> Int] /\ b \in 1 .. n
    OBVIOUS
<1>1. c \in Seq(Int) /\ Len(c) = n
    BY <1>0
<1>2. ASSUME NEW i \in 1 .. n PROVE c[i] = (IF i = b THEN a[i] - x ELSE a[i]) /\ a[i] \in Int
    BY <1>0
<1>3. PICK f : Sums(f, a)
    BY SumsExist
<1> HIDE DEF c
<1>4. PICK h : Sums(h, c)
    BY <1>1, SumsExist
<1>5. /\ f \in [0 .. n -> Int] /\ f[0] = 0 /\ Total(a) = f[n] /\ \A i \in 1 .. n : f[i] = f[i - 1] + a[i]
    BY <1>3, Zenon DEF Sums
<1>6. /\ h \in [0 .. n -> Int] /\ h[0] = 0 /\ Total(c) = h[n] /\ \A i \in 1 .. n : h[i] = h[i - 1] + c[i]
    BY <1>1, <1>4, Zenon DEF Sums
<1> HIDE DEF n
<1> DEFINE S == {i \in 0 .. n : h[i] = IF i >= b THEN f[i] - x ELSE f[i]}
<1>7. 0 \in S
    BY <1>0, <1>5, <1>6
<1>8. ASSUME NEW i \in 1 .. n, i - 1 \in S PROVE i \in S
  <2>1. i \in 0 .. n /\ i - 1 \in 0 .. n
    BY <1>0
  <2>2. f[i - 1] \in Int /\ h[i - 1] = IF i - 1 >= b THEN f[i - 1] - x ELSE f[i - 1]
    BY <1>5, <1>8, <2>1
  <2>3. f[i] = f[i - 1] + a[i] /\ h[i] = h[i - 1] + c[i]
    BY <1>5, <1>6
  <2>4. h[i] = IF i >= b THEN f[i] - x ELSE f[i]
    BY <1>0, <1>2, <2>2, <2>3
  <2> QED
    BY <2>1, <2>4
<1>9. 0 .. n \subseteq S
  <2> HIDE DEF S
  <2> QED
    BY <1>0, <1>7, <1>8, InductionUpTo
<1>10. n \in 0 .. n /\ n >= b
    BY <1>0
<1>11. h[n] = f[n] - x
    BY <1>9, <1>10
<1> QED
    BY <1>5, <1>6, <1>11 DEF c

\* Parts that are not positive have no positive total.
LEMMA TotalNotPositive ==
    ASSUME NEW a \in Seq(Int), \A i \in 1 .. Len(a) : a[i] =< 0
    PROVE  Total(a) =< 0
<1> DEFINE n == Len(a)
<1>0. n \in Nat /\ \A i \in 1 .. n : a[i] \in Int /\ a[i] =< 0
    OBVIOUS
<1>1. PICK f : Sums(f, a)
    BY SumsExist
<1>2. /\ f \in [0 .. n -> Int] /\ f[0] = 0 /\ Total(a) = f[n] /\ \A i \in 1 .. n : f[i] = f[i - 1] + a[i]
    BY <1>1, Zenon DEF Sums
<1> HIDE DEF n
<1> DEFINE S == {i \in 0 .. n : f[i] =< 0}
<1>3. 0 \in S
    BY <1>0, <1>2
<1>4. ASSUME NEW i \in 1 .. n, i - 1 \in S PROVE i \in S
  <2>1. i \in 0 .. n /\ i - 1 \in 0 .. n
    BY <1>0
  <2>2. f[i - 1] \in Int /\ f[i - 1] =< 0 /\ f[i] = f[i - 1] + a[i]
    BY <1>2, <1>4, <2>1
  <2>3. f[i] =< 0
    BY <1>0, <2>2
  <2> QED
    BY <2>1, <2>3
<1>5. 0 .. n \subseteq S
  <2> HIDE DEF S
  <2> QED
    BY <1>0, <1>3, <1>4, InductionUpTo
<1> QED
    BY <1>0, <1>2, <1>5

\* Parts that are not negative and have a total of zero are zero.
LEMMA TotalZero ==
    ASSUME NEW a \in Seq(Int), \A i \in 1 .. Len(a) : a[i] >= 0
    PROVE  Total(a) = 0 <=> \A i \in 1 .. Len(a) : a[i] = 0
<1> DEFINE n == Len(a)
<1>0. n \in Nat /\ \A i \in 1 .. n : a[i] \in Int /\ a[i] >= 0
    OBVIOUS
<1>1. PICK f : Sums(f, a)
    BY SumsExist
<1>2. /\ f \in [0 .. n -> Int] /\ f[0] = 0 /\ Total(a) = f[n] /\ \A i \in 1 .. n : f[i] = f[i - 1] + a[i]
    BY <1>1, Zenon DEF Sums
<1>a. SUFFICES Total(a) = 0 <=> \A i \in 1 .. n : a[i] = 0
    OBVIOUS
<1> HIDE DEF n
<1> DEFINE S == {i \in 0 .. n : f[i] >= 0 /\ (f[i] = 0 <=> \A e \in 1 .. i : a[e] = 0)}
<1>3. 0 \in S
    BY <1>0, <1>2
<1>4. ASSUME NEW i \in 1 .. n, i - 1 \in S PROVE i \in S
  <2>1. i \in 0 .. n /\ i - 1 \in 0 .. n
    BY <1>0
  <2>2. f[i - 1] \in Int /\ f[i - 1] >= 0 /\ f[i] = f[i - 1] + a[i] /\ a[i] \in Int /\ a[i] >= 0
    BY <1>0, <1>2, <1>4, <2>1
  <2>3. f[i] >= 0 /\ (f[i] = 0 <=> f[i - 1] = 0 /\ a[i] = 0)
    BY <2>2
  <2>4. f[i - 1] = 0 <=> \A e \in 1 .. i - 1 : a[e] = 0
    BY <1>4
  <2>5. (\A e \in 1 .. i : a[e] = 0) <=> (\A e \in 1 .. i - 1 : a[e] = 0) /\ a[i] = 0
    <3>1. 1 .. i = (1 .. i - 1) \cup {i}
      BY <1>0
    <3> QED
      BY <3>1, Zenon
  <2> QED
    BY <2>1, <2>3, <2>4, <2>5
<1>5. 0 .. n \subseteq S
  <2> HIDE DEF S
  <2> QED
    BY <1>0, <1>3, <1>4, InductionUpTo
<1>6. n \in S
    BY <1>0, <1>5
<1> QED
    BY <1>2, <1>6

\* How often e is in a list.
Count(c, e) == Cardinality({i \in DOMAIN c : c[i] = e})

CountedOn(r, c, b, e) == Count(r, e) = IF b = e THEN Count(c, e) + 1 ELSE Count(c, e)

LEMMA CountAppend ==
    ASSUME NEW X, NEW c \in Seq(X), NEW b \in X, NEW e
    PROVE  Count(c, e) \in Nat /\ CountedOn(Append(c, b), c, b, e)
<1> DEFINE n == Len(c)
           I == {i \in 1 .. n : c[i] = e}
           J == {i \in 1 .. n + 1 : Append(c, b)[i] = e}
<1>1. n \in Nat /\ DOMAIN c = 1 .. n /\ DOMAIN Append(c, b) = 1 .. n + 1
      /\ Append(c, b)[n + 1] = b /\ \A i \in 1 .. n : Append(c, b)[i] = c[i]
    OBVIOUS
<1>2. Count(c, e) = Cardinality(I) /\ Count(Append(c, b), e) = Cardinality(J)
    BY <1>1, Zenon DEF Count
<1> HIDE DEF n
<1>3. IsFiniteSet(I) /\ n + 1 \notin I
  <2>1. I \in SUBSET Nat /\ \A i \in I : i =< n
    BY <1>1
  <2>2. n + 1 \notin I
    BY <1>1
  <2>3. IsFiniteSet(I)
    <3> HIDE DEF I
    <3> QED
      BY <1>1, <2>1, FS_BoundedSetOfNaturals
  <2> QED
    BY <2>2, <2>3
<1>4. 1 .. n + 1 = (1 .. n) \cup {n + 1}
    BY <1>1
<1>5. J = IF b = e THEN I \cup {n + 1} ELSE I
    BY <1>1, <1>4, Zenon
<1> HIDE DEF I, J
<1>6. Cardinality(I) \in Nat /\ Cardinality(I \cup {n + 1}) = Cardinality(I) + 1
    BY <1>3, FS_AddElement, FS_CardinalityType, Zenon
<1> QED
    BY <1>2, <1>5, <1>6 DEF CountedOn

LEMMA CountEmpty == \A e : Count(<<>>, e) = 0
<1> SUFFICES ASSUME NEW e PROVE Count(<<>>, e) = 0
    OBVIOUS
<1>1. {i \in DOMAIN <<>> : <<>>[i] = e} = {}
    OBVIOUS
<1> QED
    BY <1>1, FS_EmptySet, Zenon DEF Count

\* e is the first of the largest credits with a weight, of those up to i.
BestTo(e, c, w, i) ==
    /\ e \in 1 .. i /\ w[e] > 0
    /\ \A f \in 1 .. i : w[f] > 0 => c[e] > c[f] \/ (c[e] = c[f] /\ e =< f)

LEMMA BestExists ==
    ASSUME NEW n \in Nat, NEW w \in [1 .. n -> Nat], NEW c \in [1 .. n -> Int],
           NEW e0 \in 1 .. n, w[e0] > 0
    PROVE  \E e : BestTo(e, c, w, n)
<1> DEFINE Some(i) == \E e \in 1 .. i : w[e] > 0
           S == {i \in 0 .. n : Some(i) => \E e : BestTo(e, c, w, i)}
<1>1. 0 \in S
    OBVIOUS
<1>2. ASSUME NEW i \in 1 .. n, i - 1 \in S PROVE i \in S
  <2>0. /\ i \in 0 .. n /\ i - 1 \in 0 .. n /\ i \in Nat
        /\ 1 .. i = (1 .. i - 1) \cup {i} /\ i \notin 1 .. i - 1
        /\ \A f \in 1 .. i : f \in Int /\ c[f] \in Int /\ w[f] \in Nat
    OBVIOUS
  <2>1. CASE ~ Some(i - 1)
    <3>1. \A f \in 1 .. i - 1 : ~ (w[f] > 0)
      BY <2>1
    <3>2. w[i] > 0 => BestTo(i, c, w, i)
      BY <2>0, <3>1 DEF BestTo
    <3>3. Some(i) => w[i] > 0
      BY <2>0, <3>1
    <3> QED
      BY <2>0, <3>2, <3>3
  <2>2. CASE Some(i - 1)
    <3>1. PICK e : BestTo(e, c, w, i - 1)
      BY <1>2, <2>2
    <3>2. /\ e \in 1 .. i - 1 /\ w[e] > 0 /\ e \in 1 .. i /\ e < i
          /\ \A f \in 1 .. i - 1 : w[f] > 0 => c[e] > c[f] \/ (c[e] = c[f] /\ e =< f)
      BY <2>0, <3>1 DEF BestTo
    <3>3. CASE w[i] > 0 /\ c[i] > c[e]
      <4>1. ASSUME NEW f \in 1 .. i, w[f] > 0 PROVE c[i] > c[f] \/ (c[i] = c[f] /\ i =< f)
        <5>1. CASE f = i
          BY <2>0, <5>1
        <5>2. CASE f \in 1 .. i - 1
          <6>1. c[e] >= c[f] /\ c[e] \in Int /\ c[f] \in Int /\ c[i] \in Int
            <7>1. c[e] \in Int /\ c[f] \in Int /\ c[i] \in Int
              BY <2>0, <3>2, Zenon
            <7>2. c[e] > c[f] \/ c[e] = c[f]
              BY <3>2, <4>1, <5>2, Zenon
            <7> QED
              BY <7>1, <7>2
          <6> QED
            BY <3>3, <6>1
        <5> QED
          BY <2>0, <5>1, <5>2
      <4>2. BestTo(i, c, w, i)
        BY <2>0, <3>3, <4>1 DEF BestTo
      <4> QED
        BY <2>0, <4>2
    <3>4. CASE ~ (w[i] > 0 /\ c[i] > c[e])
      <4>1. ASSUME NEW f \in 1 .. i, w[f] > 0 PROVE c[e] > c[f] \/ (c[e] = c[f] /\ e =< f)
        <5>1. CASE f = i
          BY <2>0, <3>2, <3>4, <4>1, <5>1
        <5>2. CASE f \in 1 .. i - 1
          BY <3>2, <4>1, <5>2
        <5> QED
          BY <2>0, <5>1, <5>2
      <4>2. BestTo(e, c, w, i)
        BY <3>2, <4>1 DEF BestTo
      <4> QED
        BY <2>0, <4>2
    <3> QED
      BY <3>3, <3>4
  <2> QED
    BY <2>1, <2>2
<1>3. 0 .. n \subseteq S
  <2> HIDE DEF S
  <2> QED
    BY <1>1, <1>2, InductionUpTo
<1>4. n \in S /\ Some(n)
    BY <1>3
<1> QED
    BY <1>4

LEMMA BestIs ==
    ASSUME NEW n \in Nat, NEW w \in [1 .. n -> Nat], NEW c \in [1 .. n -> Int],
           NEW e0 \in 1 .. n, w[e0] > 0
    PROVE  BestTo(Best(c, w), c, w, n)
<1> DEFINE P(e) == /\ w[e] > 0
                   /\ \A f \in 1 .. n : w[f] > 0 => c[e] > c[f] \/ (c[e] = c[f] /\ e =< f)
<1>1. Best(c, w) = CHOOSE e \in 1 .. n : P(e)
  <2>1. DOMAIN w = 1 .. n
    OBVIOUS
  <2> QED
    BY <2>1, Zenon DEF Best
<1>2. \E e \in 1 .. n : P(e)
    BY BestExists DEF BestTo
<1> HIDE DEF P
<1>3. Best(c, w) \in 1 .. n /\ P(Best(c, w))
    BY <1>1, <1>2
<1> QED
    BY <1>3 DEF P, BestTo

CycleStates(n) == [cur : [1 .. n -> Int], cycle : Seq(1 .. n)]

\* r is s after a turn, in which c were the credits and b was picked.
Turned(s, r, w, n, c, b) ==
    /\ c \in [1 .. n -> Int] /\ BestTo(b, c, w, n)
    /\ r.cur = [c EXCEPT ![b] = @ - Total(w)] /\ r.cycle = Append(s.cycle, b)

LEMMA TurnTyped ==
    ASSUME NEW n \in Nat, NEW w \in Seq(Nat), Len(w) = n, NEW s \in CycleStates(n),
           NEW e0 \in 1 .. n, w[e0] > 0
    PROVE  /\ Turn(s, w) \in CycleStates(n)
           /\ Turned(s, Turn(s, w), w, n, Credit(s.cur, w), Best(Credit(s.cur, w), w))
<1> DEFINE c == Credit(s.cur, w)
           b == Best(c, w)
<1>1. w \in [1 .. n -> Nat] /\ s.cur \in [1 .. n -> Int] /\ s.cycle \in Seq(1 .. n)
    BY DEF CycleStates
<1>2. c \in [1 .. n -> Int]
    BY <1>1 DEF Credit
<1>3. Total(w) \in Nat
    BY TotalMonotone DEF Within
<1>4. Turn(s, w) = [cur |-> [c EXCEPT ![b] = @ - Total(w)], cycle |-> Append(s.cycle, b)]
    BY DEF Turn
<1> HIDE DEF c
<1>5. BestTo(b, c, w, n)
    BY <1>1, <1>2, BestIs
<1>6. b \in 1 .. n
    BY <1>5 DEF BestTo
<1> HIDE DEF b
<1>7. [c EXCEPT ![b] = @ - Total(w)] \in [1 .. n -> Int] /\ Append(s.cycle, b) \in Seq(1 .. n)
  <2>1. ASSUME NEW t \in Nat PROVE [c EXCEPT ![b] = @ - t] \in [1 .. n -> Int]
    BY <1>2, <1>6
  <2>2. ASSUME NEW l \in Seq(1 .. n) PROVE Append(l, b) \in Seq(1 .. n)
    BY <1>6
  <2> QED
    BY <1>1, <1>3, <2>1, <2>2, Zenon
<1>8. Turn(s, w) \in CycleStates(n)
    BY <1>4, <1>7 DEF CycleStates
<1> QED
    BY <1>2, <1>4, <1>5, <1>8 DEF c, b, Turned

\* What holds of the credits cur and the counts x after i turns: every type has
\* been credited its weight i times and charged the total each time it was
\* picked, and owes less than one total.
Balanced(cur, x, w, n, t, i) ==
    /\ Total(cur) = 0
    /\ \A e \in 1 .. n : /\ cur[e] = i * w[e] - t * x[e]
                         /\ cur[e] > - t
                         /\ w[e] = 0 => cur[e] = 0

LEMMA ListOf ==
    ASSUME NEW n \in Nat, NEW f \in [1 .. n -> Int]
    PROVE  f \in Seq(Int) /\ Len(f) = n
OBVIOUS

\* The credits c after a turn's weights, and the counts y after b was picked.
Credited(c, cur, w, n) == \A e \in 1 .. n : c[e] = cur[e] + w[e]
Picked(y, x, b, n) == \A e \in 1 .. n : y[e] = IF b = e THEN x[e] + 1 ELSE x[e]

LEMMA BalanceKept ==
    ASSUME NEW n \in Nat, NEW w \in [1 .. n -> Nat], NEW t \in Nat, Total(w) = t, t > 0,
           NEW cur \in [1 .. n -> Int], NEW x \in [1 .. n -> Nat], NEW i \in Nat,
           Balanced(cur, x, w, n, t, i),
           NEW c \in [1 .. n -> Int], Credited(c, cur, w, n),
           NEW b, BestTo(b, c, w, n),
           NEW y \in [1 .. n -> Nat], Picked(y, x, b, n)
    PROVE  Balanced([c EXCEPT ![b] = @ - t], y, w, n, t, i + 1)
<1> DEFINE new == [c EXCEPT ![b] = @ - t]
<1> HIDE DEF new
<1>1. \A e \in 1 .. n : w[e] \in Nat /\ cur[e] \in Int /\ x[e] \in Nat /\ c[e] \in Int
    OBVIOUS
<1>2. /\ b \in 1 .. n /\ w[b] > 0
      /\ \A f \in 1 .. n : w[f] > 0 => c[b] > c[f] \/ (c[b] = c[f] /\ b =< f)
    BY DEF BestTo
<1>3. ASSUME NEW f \in 1 .. n, w[f] > 0 PROVE c[b] >= c[f]
  <2> DEFINE u == c[b]
             v == c[f]
  <2>1. u \in Int /\ v \in Int /\ (u > v \/ u = v)
    BY <1>1, <1>2, <1>3, Zenon
  <2> HIDE DEF u, v
  <2>2. u >= v
    BY <2>1
  <2> QED
    BY <2>2 DEF u, v
<1>4. /\ Total(cur) = 0
      /\ \A e \in 1 .. n : /\ cur[e] = i * w[e] - t * x[e]
                           /\ cur[e] > - t
                           /\ w[e] = 0 => cur[e] = 0
    BY DEF Balanced
<1>5. Total(c) = t
  <2>1. w \in [1 .. n -> Int]
    OBVIOUS
  <2>2. w \in Seq(Int) /\ cur \in Seq(Int) /\ c \in Seq(Int) /\ Len(w) = n /\ Len(cur) = n /\ Len(c) = n
    BY <2>1, ListOf, Zenon
  <2>3. Total(c) = Total(cur) + Total(w)
    BY <2>2, TotalAdds, Zenon DEF Credited
  <2> QED
    BY <1>4, <2>3
<1>6. c[b] > 0
  <2>1. PICK e \in 1 .. n : c[e] > 0
    <3>1. c \in Seq(Int) /\ Len(c) = n
      BY ListOf, Zenon
    <3>2. ASSUME \A e \in 1 .. n : ~ (c[e] > 0) PROVE FALSE
      <4>1. \A e \in 1 .. n : c[e] =< 0
        BY <1>1, <3>2
      <4>2. Total(c) =< 0
        BY <3>1, <4>1, TotalNotPositive, Zenon
      <4> QED
        BY <1>5, <4>2
    <3> QED
      BY <3>2
  <2>2. w[e] # 0
    BY <1>1, <1>4, <2>1 DEF Credited
  <2>3. w[e] > 0 /\ c[e] \in Int /\ c[b] \in Int
    BY <1>1, <1>2, <2>2
  <2>4. c[b] >= c[e]
    BY <1>3, <2>3, Zenon
  <2> QED
    BY <2>1, <2>3, <2>4
<1>7. Total(new) = 0
  <2>1. c \in Seq(Int) /\ Len(c) = n /\ t \in Int
    BY ListOf
  <2>2. Total(new) = Total(c) - t
    BY <1>2, <2>1, TotalCharged, Zenon DEF new
  <2> QED
    BY <1>5, <2>2
<1>8. ASSUME NEW e \in 1 .. n
      PROVE  /\ new[e] = (i + 1) * w[e] - t * y[e]
             /\ new[e] > - t
             /\ w[e] = 0 => new[e] = 0
  <2> DEFINE u == cur[e]
             v == w[e]
             p == i * v
             q == t * x[e]
  <2>1. u \in Int /\ v \in Nat /\ u = p - q /\ u > - t /\ (v = 0 => u = 0)
    BY <1>1, <1>4
  <2>2. new[e] = IF b = e THEN (u + v) - t ELSE u + v
    BY <1>2 DEF new, Credited
  <2>3. b = e => u + v > 0 /\ v > 0
    BY <1>2, <1>6 DEF Credited
  <2>4. p \in Int /\ (i + 1) * v = p + v
    <3> HIDE DEF v
    <3> QED
      BY <2>1
  <2>5. q \in Int /\ t * y[e] = IF b = e THEN q + t ELSE q
    <3>1. t * (x[e] + 1) = t * x[e] + t /\ x[e] \in Nat
      BY <1>1
    <3>2. y[e] = IF b = e THEN x[e] + 1 ELSE x[e]
      BY DEF Picked
    <3>3. q \in Int
      BY <3>1
    <3> QED
      BY <3>1, <3>2, <3>3
  <2> DEFINE z == t * y[e]
             r == (i + 1) * v
             k1 == new[e]
  <2>6. z = (IF b = e THEN q + t ELSE q) /\ r = p + v /\ k1 = IF b = e THEN (u + v) - t ELSE u + v
    BY <2>2, <2>4, <2>5
  <2>t. t \in Int
    OBVIOUS
  <2> HIDE DEF u, v, p, q, z, r, k1
  <2>7. k1 = r - z /\ k1 > - t /\ (v = 0 => k1 = 0)
    <3>1. CASE b = e
      <4>1. z = q + t /\ r = p + v /\ k1 = (u + v) - t /\ u + v > 0 /\ v > 0
        BY <2>3, <2>6, <3>1, Zenon
      <4> QED
        BY <2>1, <2>4, <2>5, <4>1
    <3>2. CASE b # e
      <4>1. z = q /\ r = p + v /\ k1 = u + v
        BY <2>6, <3>2, Zenon
      <4> QED
        BY <2>1, <2>4, <2>5, <4>1
    <3> QED
      BY <3>1, <3>2
  <2> QED
    BY <2>7 DEF z, r, k1, v
<1>9. Balanced(new, y, w, n, t, i + 1)
    BY <1>7, <1>8 DEF Balanced
<1> QED
    BY <1>9 DEF new

CountsOf(s, n) == [e \in 1 .. n |-> Count(s.cycle, e)]

LEMMA CountsTyped ==
    ASSUME NEW n \in Nat, NEW s \in CycleStates(n)
    PROVE  CountsOf(s, n) \in [1 .. n -> Nat]
<1>1. ASSUME NEW e \in 1 .. n PROVE Count(s.cycle, e) \in Nat
    BY CountAppend DEF CycleStates
<1> QED
    BY <1>1 DEF CountsOf

LEMMA TurnKeeps ==
    ASSUME NEW n \in Nat, NEW w \in Seq(Nat), Len(w) = n, NEW s \in CycleStates(n), NEW i \in Nat,
           Total(w) > 0, Balanced(s.cur, CountsOf(s, n), w, n, Total(w), i), NEW e0 \in 1 .. n, w[e0] > 0
    PROVE  Balanced(Turn(s, w).cur, CountsOf(Turn(s, w), n), w, n, Total(w), i + 1)
<1> DEFINE c == Credit(s.cur, w)
           b == Best(c, w)
           r == Turn(s, w)
<1>1. w \in [1 .. n -> Nat]
    OBVIOUS
<1>2. s.cur \in [1 .. n -> Int] /\ s.cycle \in Seq(1 .. n)
    BY DEF CycleStates
<1>3. Total(w) \in Nat
    BY TotalMonotone DEF Within
<1>4. r \in CycleStates(n) /\ Turned(s, r, w, n, c, b)
    BY TurnTyped, Zenon
<1>5. Credited(c, s.cur, w, n)
    BY <1>1 DEF Credited, Credit
<1> HIDE DEF c, b, r
<1>6. /\ c \in [1 .. n -> Int] /\ BestTo(b, c, w, n)
      /\ r.cur = [c EXCEPT ![b] = @ - Total(w)] /\ r.cycle = Append(s.cycle, b)
    BY <1>4, Zenon DEF Turned
<1>7. b \in 1 .. n
    BY <1>6 DEF BestTo
<1>8. Picked(CountsOf(r, n), CountsOf(s, n), b, n)
  <2>1. ASSUME NEW e \in 1 .. n
        PROVE  Count(r.cycle, e) = IF b = e THEN Count(s.cycle, e) + 1 ELSE Count(s.cycle, e)
    <3> DEFINE l == s.cycle
    <3>1. l \in Seq(1 .. n)
      BY <1>2
    <3> HIDE DEF l
    <3>2. CountedOn(Append(l, b), l, b, e)
      BY <1>7, <3>1, CountAppend, Zenon
    <3> QED
      BY <1>6, <3>2, Zenon DEF l, CountedOn
  <2> QED
    BY <2>1, Zenon DEF Picked, CountsOf
<1>9. CountsOf(r, n) \in [1 .. n -> Nat] /\ CountsOf(s, n) \in [1 .. n -> Nat]
    BY <1>4, CountsTyped
<1> DEFINE x == CountsOf(s, n)
           y == CountsOf(r, n)
           t == Total(w)
           u == s.cur
<1>10. /\ t \in Nat /\ t > 0 /\ u \in [1 .. n -> Int] /\ x \in [1 .. n -> Nat] /\ y \in [1 .. n -> Nat]
       /\ Total(w) = t /\ Balanced(u, x, w, n, t, i) /\ Credited(c, u, w, n) /\ Picked(y, x, b, n)
    BY <1>2, <1>3, <1>5, <1>8, <1>9
<1> HIDE DEF x, y, t, u
<1>11. Balanced([c EXCEPT ![b] = @ - t], y, w, n, t, i + 1)
    BY <1>1, <1>6, <1>10, BalanceKept, Zenon
<1> QED
    BY <1>6, <1>11, Zenon DEF y, t, r

\* turns is what typeCycle goes through.
Turns(f, w) ==
    /\ f \in [0 .. Total(w) -> CycleStates(Len(w))]
    /\ f[0] = [cur |-> [e \in 1 .. Len(w) |-> 0], cycle |-> <<>>]
    /\ \A i \in 1 .. Total(w) : f[i] = Turn(f[i - 1], w)
    /\ typeCycle(w) = f[Total(w)].cycle

LEMMA TurnsTaken ==
    ASSUME NEW w \in Seq(Nat)
    PROVE  \E f : Turns(f, w)
<1> DEFINE n == Len(w)
           t == Total(w)
           X == CycleStates(n)
           first == [cur |-> [e \in 1 .. n |-> 0], cycle |-> <<>>]
           G == [i \in 1 .. t |-> [s \in X |-> Turn(s, w)]]
           P(f) == f = [i \in 0 .. t |-> IF i = 0 THEN first ELSE Turn(f[i - 1], w)]
           turns == CHOOSE f : P(f)
<1>0. n \in Nat /\ DOMAIN w = 1 .. n /\ \A e \in 1 .. n : w[e] \in Nat
    OBVIOUS
<1>1. typeCycle(w) = turns[t].cycle
    BY <1>0, Zenon DEF typeCycle
<1>2. first \in X
    BY <1>0 DEF CycleStates
<1>3. t \in Nat
    BY TotalMonotone DEF Within
<1>4. ASSUME NEW i \in 1 .. t PROVE \E e \in 1 .. n : w[e] > 0
  <2>1. ASSUME \A e \in 1 .. n : ~ (w[e] > 0) PROVE FALSE
    <3>1. w \in Seq(Int) /\ \A e \in 1 .. n : w[e] =< 0
      BY <1>0, <2>1
    <3>2. t =< 0
      BY <3>1, TotalNotPositive, Zenon
    <3> QED
      BY <1>3, <3>2
  <2> QED
    BY <2>1
<1>5. ASSUME NEW i \in 1 .. t, NEW s \in X PROVE Turn(s, w) \in X
  <2>1. PICK e \in 1 .. n : w[e] > 0
    BY <1>4
  <2> QED
    BY <1>0, <2>1, TurnTyped, Zenon
<1> HIDE DEF first, X, t, n
<1>6. \A i \in 1 .. t : \A s \in X : G[i][s] = Turn(s, w) /\ G[i][s] \in X
    BY <1>5
<1> HIDE DEF G
<1>7. PICK g \in [0 .. t -> X] : g[0] = first /\ \A i \in 1 .. t : g[i] = G[i][g[i - 1]]
  <2>1. Closed(X, t, G)
    BY <1>6 DEF Closed
  <2>2. Defined(X, first, t, G)
    BY <1>2, <1>3, <2>1, Recursion, Zenon
  <2> QED
    BY <2>2 DEF Defined
<1>8. ASSUME NEW i \in 1 .. t PROVE g[i] = Turn(g[i - 1], w)
  <2>1. i - 1 \in 0 .. t
    BY <1>3
  <2> QED
    BY <1>6, <1>7, <2>1
<1>9. P(g)
  <2>1. ASSUME NEW i \in 0 .. t PROVE g[i] = IF i = 0 THEN first ELSE Turn(g[i - 1], w)
    <3>1. CASE i = 0
      BY <1>7, <3>1
    <3>2. CASE i # 0
      <4>1. i \in 1 .. t
        BY <1>3, <3>2
      <4> QED
        BY <1>8, <3>2, <4>1
    <3> QED
      BY <3>1, <3>2
  <2> QED
    BY <1>7, <2>1
<1>10. P(turns)
  <2> HIDE DEF P
  <2> QED
    BY <1>9
<1> HIDE DEF turns
<1>11. \A i \in 0 .. t : turns[i] = IF i = 0 THEN first ELSE Turn(turns[i - 1], w)
    BY <1>10, Zenon
<1> DEFINE S == {i \in 0 .. t : turns[i] = g[i]}
<1>12. 0 .. t \subseteq S
  <2>1. 0 \in S
    BY <1>3, <1>7, <1>11
  <2>2. ASSUME NEW i \in 1 .. t, i - 1 \in S PROVE i \in S
    <3>1. i \in 0 .. t /\ i # 0
      BY <1>3
    <3>2. turns[i] = Turn(turns[i - 1], w) /\ turns[i - 1] = g[i - 1]
      BY <1>11, <2>2, <3>1
    <3> QED
      BY <1>8, <3>1, <3>2
  <2> HIDE DEF S
  <2> QED
    BY <1>3, <2>1, <2>2, InductionUpTo
<1>13. turns[t] = g[t]
    BY <1>3, <1>12
<1> QED
    BY <1>1, <1>7, <1>8, <1>13, Zenon DEF Turns, first, X, t, n

\* plan.go:243-279 ("matching the weight proportions exactly per cycle"). For any
\* number of types and any weights, one cycle has each type exactly as often as
\* its weight says.
THEOREM CyclesAreExact ==
    ASSUME NEW w \in Seq(Nat)
    PROVE  \A e \in DOMAIN w : Count(typeCycle(w), e) = w[e]
<1> DEFINE n == Len(w)
           t == Total(w)
<1>0. n \in Nat /\ DOMAIN w = 1 .. n /\ w \in [1 .. n -> Nat] /\ \A e \in 1 .. n : w[e] \in Nat
    OBVIOUS
<1>1. t \in Nat
    BY TotalMonotone DEF Within
<1>2. PICK f : Turns(f, w)
    BY TurnsTaken
<1>3. /\ f \in [0 .. t -> CycleStates(n)] /\ f[0] = [cur |-> [e \in 1 .. n |-> 0], cycle |-> <<>>]
      /\ \A i \in 1 .. t : f[i] = Turn(f[i - 1], w)
      /\ typeCycle(w) = f[t].cycle
    BY <1>2, Zenon DEF Turns
<1>w. w \in Seq(Int)
    OBVIOUS
<1>4. CASE t = 0
  <2>1. \A e \in 1 .. n : w[e] >= 0
    BY <1>0
  <2>2. \A e \in 1 .. n : w[e] = 0
    BY <1>4, <1>w, <2>1, TotalZero, Zenon
  <2>3. typeCycle(w) = <<>>
    BY <1>3, <1>4
  <2> QED
    BY <1>0, <2>2, <2>3, CountEmpty
<1>5. CASE t # 0
  <2>0. t > 0
    BY <1>1, <1>5
  <2>1. PICK e0 \in 1 .. n : w[e0] > 0
    <3>1. ASSUME \A e \in 1 .. n : ~ (w[e] > 0) PROVE FALSE
      <4>1. \A e \in 1 .. n : w[e] =< 0
        BY <1>0, <3>1
      <4>2. t =< 0
        BY <1>w, <4>1, TotalNotPositive, Zenon
      <4> QED
        BY <1>1, <2>0, <4>2
    <3> QED
      BY <3>1
  <2> DEFINE Good(i) == Balanced(f[i].cur, CountsOf(f[i], n), w, n, t, i)
             S == {i \in 0 .. t : Good(i)}
  <2>2. Good(0)
    <3> DEFINE z == f[0].cur
    <3>1. z = [e \in 1 .. n |-> 0] /\ f[0].cycle = <<>>
      BY <1>3
    <3>2. z \in [1 .. n -> Int] /\ \A e \in 1 .. n : z[e] = 0 /\ z[e] >= 0
      BY <3>1
    <3>3. z \in Seq(Int) /\ Len(z) = n
      BY <1>0, <3>2, ListOf
    <3>4. Total(z) = 0
      BY <3>2, <3>3, TotalZero, Zenon
    <3>5. \A e \in 1 .. n : CountsOf(f[0], n)[e] = 0
      BY <3>1, CountEmpty DEF CountsOf
    <3> HIDE DEF z, t
    <3>6. ASSUME NEW e \in 1 .. n
          PROVE  z[e] = 0 * w[e] - t * CountsOf(f[0], n)[e] /\ z[e] > - t
      BY <1>0, <1>1, <2>0, <3>2, <3>5
    <3>7. Balanced(z, CountsOf(f[0], n), w, n, t, 0)
      BY <3>2, <3>4, <3>6 DEF Balanced
    <3> QED
      BY <3>7 DEF z
  <2>3. ASSUME NEW i \in 1 .. t, Good(i - 1) PROVE Good(i)
    <3>1. i - 1 \in Nat /\ i - 1 \in 0 .. t /\ (i - 1) + 1 = i
      BY <1>1
    <3>2. f[i - 1] \in CycleStates(n) /\ f[i] = Turn(f[i - 1], w)
      BY <1>3, <3>1, Zenon
    <3>3. Balanced(Turn(f[i - 1], w).cur, CountsOf(Turn(f[i - 1], w), n), w, n, t, (i - 1) + 1)
      BY <1>0, <2>0, <2>1, <2>3, <3>1, <3>2, TurnKeeps, Zenon
    <3> QED
      BY <3>1, <3>2, <3>3
  <2> HIDE DEF Good
  <2>4. 0 .. t \subseteq S
    <3>1. 0 \in S
      BY <1>1, <2>2
    <3>2. ASSUME NEW i \in 1 .. t, i - 1 \in S PROVE i \in S
      <4>1. i \in 0 .. t
        BY <1>1
      <4> QED
        BY <2>3, <3>2, <4>1
    <3> HIDE DEF S
    <3> QED
      BY <1>1, <3>1, <3>2, InductionUpTo
  <2>5. Good(t) /\ t \in 0 .. t
    BY <1>1, <2>4
  <2> DEFINE u == f[t].cur
             x == CountsOf(f[t], n)
  <2>6. Balanced(u, x, w, n, t, t)
    BY <2>5 DEF Good
  <2>7. f[t] \in CycleStates(n)
    BY <1>3, <2>5, Zenon
  <2>8. u \in [1 .. n -> Int] /\ x \in [1 .. n -> Nat]
    BY <1>0, <2>7, CountsTyped DEF CycleStates
  <2> HIDE DEF u, x, t
  <2>9. ASSUME NEW e \in 1 .. n PROVE u[e] = t * w[e] - t * x[e] /\ u[e] > - t /\ x[e] \in Nat /\ u[e] \in Int
    BY <2>6, <2>8 DEF Balanced
  <2>10. ASSUME NEW e \in 1 .. n PROVE u[e] >= 0 /\ (u[e] = 0 => x[e] = w[e])
    <3> DEFINE a == w[e]
               b == x[e]
               d == a - b
               p == u[e]
    <3>1. a \in Nat /\ b \in Nat /\ p = t * a - t * b /\ p > - t
      BY <1>0, <2>9
    <3>2. d \in Int
      BY <3>1
    <3>3. t * a - t * b = t * d
      <4> HIDE DEF a, b
      <4> QED
        BY <1>1, <3>1
    <3> HIDE DEF a, b, p
    <3>d. d = a - b
      OBVIOUS
    <3> HIDE DEF d
    <3>4. p = t * d /\ p > - t
      BY <3>1, <3>3
    <3>5. d >= 0
      <4>1. ASSUME d =< -1 PROVE FALSE
        <5> DEFINE m == -1 - d
        <5>1. m \in Nat /\ d = -1 - m
          BY <3>2, <4>1
        <5> HIDE DEF m
        <5>2. t * d = - t - t * m /\ t * m \in Nat
          BY <1>1, <5>1
        <5> QED
          BY <1>1, <3>4, <5>2
      <4> QED
        BY <3>2, <4>1
    <3>6. p >= 0
      BY <1>1, <3>2, <3>4, <3>5
    <3>7. ASSUME p = 0 PROVE d = 0
      BY <1>1, <2>0, <3>2, <3>4, <3>7
    <3>8. p = 0 => b = a
      BY <3>1, <3>7, <3>d
    <3> QED
      BY <3>6, <3>8 DEF p, a, b
  <2>11. u \in Seq(Int) /\ Len(u) = n /\ Total(u) = 0
    BY <1>0, <2>6, <2>8, ListOf, Zenon DEF Balanced
  <2>12. \A e \in 1 .. n : u[e] = 0
    BY <2>10, <2>11, TotalZero, Zenon
  <2>13. \A e \in 1 .. n : x[e] = w[e]
    BY <2>10, <2>12
  <2>14. \A e \in 1 .. n : x[e] = Count(f[t].cycle, e)
    BY Zenon DEF x, CountsOf
  <2>15. typeCycle(w) = f[t].cycle
    BY <1>3 DEF t
  <2> QED
    BY <1>0, <2>13, <2>14, <2>15, Zenon
<1> QED
    BY <1>4, <1>5

LEMMA CyclesExact == CycleExact
<1> SUFFICES ASSUME NEW w \in Weights
             PROVE  \A e \in DOMAIN w :
                       Cardinality({i \in DOMAIN typeCycle(w) : typeCycle(w)[i] = e}) = w[e]
    BY DEF CycleExact
<1>1. w \in Seq(Nat)
  <2>1. w \in [1 .. 3 -> Nat] /\ 3 \in Nat
    BY DEF Weights
  <2> QED
    BY <2>1, FunctionSeq
<1> QED
    BY <1>1, CyclesAreExact, Zenon DEF Count

-----------------------------------------------------------------------------
(* The plan of a configuration *)

DefinedOnNat(X, x0, G) ==
    \E g \in [Nat -> X] : g[0] = x0 /\ \A i \in Nat \ {0} : g[i] = G[i][g[i - 1]]

\* A function defined by recursion on the naturals exists.
LEMMA RecursionOnNat ==
    ASSUME NEW X, NEW x0 \in X, NEW G, \A n \in Nat : Closed(X, n, G)
    PROVE  DefinedOnNat(X, x0, G)
<1> DEFINE To(n, h) == h \in [0 .. n -> X] /\ h[0] = x0 /\ \A i \in 1 .. n : h[i] = G[i][h[i - 1]]
           H(n) == CHOOSE h : To(n, h)
           g == [n \in Nat |-> H(n)[n]]
<1>1. ASSUME NEW n \in Nat PROVE To(n, H(n))
  <2>1. Defined(X, x0, n, G)
    BY Recursion, Zenon
  <2>2. \E h : To(n, h)
    BY <2>1 DEF Defined
  <2> HIDE DEF To
  <2> QED
    BY <2>2
<1> HIDE DEF H
<1>2. ASSUME NEW n \in Nat, NEW m \in Nat, m =< n, NEW h, NEW l, To(n, h), To(m, l) PROVE h[m] = l[m]
  <2> DEFINE S == {i \in 0 .. m : h[i] = l[i]}
  <2>1. 0 \in S
    BY <1>2
  <2>2. ASSUME NEW i \in 1 .. m, i - 1 \in S PROVE i \in S
    <3>1. i \in 1 .. n /\ i \in 0 .. m
      BY <1>2
    <3>2. h[i] = G[i][h[i - 1]] /\ l[i] = G[i][l[i - 1]] /\ h[i - 1] = l[i - 1]
      BY <1>2, <2>2, <3>1
    <3> QED
      BY <3>1, <3>2
  <2>3. 0 .. m \subseteq S
    <3> HIDE DEF S
    <3> QED
      BY <2>1, <2>2, InductionUpTo
  <2> QED
    BY <2>3
<1>3. ASSUME NEW n \in Nat PROVE g[n] = H(n)[n] /\ g[n] \in X
  <2>1. g[n] = H(n)[n]
    OBVIOUS
  <2>2. n \in 0 .. n /\ H(n) \in [0 .. n -> X]
    BY <1>1
  <2> QED
    BY <2>1, <2>2, Zenon
<1>4. g \in [Nat -> X]
  <2>1. \A n \in Nat : H(n)[n] \in X
    BY <1>3
  <2> QED
    BY <2>1
<1>5. g[0] = x0
    BY <1>1, <1>3
<1>6. ASSUME NEW i \in Nat \ {0} PROVE g[i] = G[i][g[i - 1]]
  <2>1. i \in Nat /\ i - 1 \in Nat /\ i - 1 =< i /\ i \in 1 .. i
    OBVIOUS
  <2>2. To(i, H(i)) /\ To(i - 1, H(i - 1))
    BY <1>1, <2>1
  <2>3. H(i)[i - 1] = H(i - 1)[i - 1]
    <3> HIDE DEF To
    <3> QED
      BY <1>2, <2>1, <2>2
  <2>4. H(i)[i] = G[i][H(i)[i - 1]]
    BY <2>1, <2>2
  <2>5. g[i] = H(i)[i] /\ g[i - 1] = H(i - 1)[i - 1]
    BY <1>3, <2>1
  <2> HIDE DEF g
  <2> QED
    BY <2>3, <2>4, <2>5, Zenon
<1> HIDE DEF g
<1> QED
    BY <1>4, <1>5, <1>6 DEF DefinedOnNat

\* The bases of the decaying cardinalities are positive.
LEMMA DecayPositive == \A x \in Nat : Decay[x] \in Pos
<1> DEFINE G == [i \in Nat |-> [x \in Pos |-> 2 * x]]
           P(f) == f = [x \in Nat |-> IF x = 0 THEN 1 ELSE 2 * f[x - 1]]
<1>1. \A i \in Nat : \A x \in Pos : G[i][x] = 2 * x /\ G[i][x] \in Pos
    BY DEF Pos
<1> HIDE DEF G
<1>2. ASSUME NEW n \in Nat PROVE Closed(Pos, n, G)
    BY <1>1 DEF Closed
<1>3. 1 \in Pos
    BY DEF Pos
<1>4. PICK g \in [Nat -> Pos] : g[0] = 1 /\ \A i \in Nat \ {0} : g[i] = G[i][g[i - 1]]
  <2>1. \A n \in Nat : Closed(Pos, n, G)
    BY <1>2
  <2>2. DefinedOnNat(Pos, 1, G)
    BY <1>3, <2>1, RecursionOnNat, Zenon
  <2> QED
    BY <2>2 DEF DefinedOnNat
<1>5. P(g)
  <2>1. ASSUME NEW x \in Nat PROVE g[x] = IF x = 0 THEN 1 ELSE 2 * g[x - 1]
    <3>1. CASE x = 0
      BY <1>4, <3>1
    <3>2. CASE x # 0
      <4>1. x \in Nat \ {0} /\ x - 1 \in Nat
        BY <3>2
      <4> QED
        BY <1>1, <1>4, <3>2, <4>1
    <3> QED
      BY <3>1, <3>2
  <2> QED
    BY <1>4, <2>1
<1>6. Decay = CHOOSE f : P(f)
    BY DEF Decay
<1>7. P(Decay)
  <2> HIDE DEF P
  <2> QED
    BY <1>5, <1>6
<1>8. \A x \in Nat : Decay[x] = IF x = 0 THEN 1 ELSE 2 * Decay[x - 1]
    BY <1>7
<1> DEFINE S == {x \in Nat : Decay[x] \in Pos}
<1>9. 0 \in S
    BY <1>3, <1>8
<1>10. ASSUME NEW m \in Nat, m \in S PROVE m + 1 \in S
  <2>1. m + 1 \in Nat /\ m + 1 # 0 /\ (m + 1) - 1 = m
    OBVIOUS
  <2>2. Decay[m + 1] = 2 * Decay[m] /\ Decay[m] \in Pos
    BY <1>8, <1>10, <2>1
  <2>3. Decay[m + 1] \in Pos
    BY <2>2 DEF Pos
  <2> QED
    BY <2>1, <2>3
<1>11. Nat \subseteq S
  <2> HIDE DEF S
  <2> QED
    BY <1>9, <1>10, InductionOnNat
<1> QED
    BY <1>11

LEMMA CeilPositive ==
    ASSUME NEW x \in Int, NEW y \in Pos
    PROVE  Greater(1, (2 * x + y) \div (2 * y)) \in Pos
<1> DEFINE a == 2 * x + y
           b == 2 * y
           q == a \div b
<1>1. a \in Int /\ b \in Nat \ {0}
    BY DEF Pos
<1> HIDE DEF a, b
<1>2. q \in Int
    BY <1>1
<1> HIDE DEF q
<1>3. Greater(1, q) \in Pos
    BY <1>2 DEF Greater, Pos
<1> QED
    BY <1>3 DEF q, a, b

\* Every configuration that a file can hold, whatever its numbers and lists; a
\* type that is not one of the five is unknown.
TypeWords == MetricTypes \cup {"unknown"}
AllConfigs ==
    [names : Seq(Nat), types : Seq(TypeWords), cards : Seq(Int), count : Int, cardM : Int,
     weights : {w \in Seq(Int) : Len(w) = 5}, resources : Int,
     interval : Int, jitter : Int, lifetime : Int, markers : BOOLEAN,
     attrsMin : Int, attrsMax : Int, threads : Int, pps : Int]

LEMMA DefaultsFacts ==
    ASSUME NEW c \in AllConfigs
    PROVE  LET d == withDefaults(c) IN
           /\ d.threads = Positive(c.threads, 4) /\ d.interval = Positive(c.interval, 5)
           /\ d.cardM = Positive(c.cardM, 4) /\ d.resources = Positive(c.resources, 3)
           /\ d.count = IF c.names # <<>> THEN Len(c.names) ELSE Positive(c.count, DefaultMetricCount)
           /\ d.weights = IF Total(c.weights) =< 0 THEN DefaultWeights ELSE c.weights
           /\ d.types = c.types /\ d.cards = c.cards /\ d.names = c.names
           /\ d.jitter = c.jitter /\ d.lifetime = c.lifetime /\ d.pps = c.pps
BY DEF withDefaults, AllConfigs

LEMMA PositiveIs ==
    ASSUME NEW x \in Int, NEW y \in Pos
    PROVE  Positive(x, y) \in Pos
BY DEF Positive, Pos

\* Nothing that a range of positive numbers holds is less than one.
LEMMA CardinalityPositive ==
    ASSUME NEW cards \in Seq(Int), cards # <<>> => Range(cards) \subseteq 1 .. MaxSeriesPerMetric,
           NEW d, d.cards = cards, d.cardM \in Int, NEW x \in Pos
    PROVE  cardinality(d, x) \in Pos
<1>1. CASE x =< Len(cards)
  <2>1. x \in DOMAIN cards /\ cards # <<>>
    BY <1>1 DEF Pos
  <2>2. cards[x] \in 1 .. MaxSeriesPerMetric
    BY <2>1 DEF Range
  <2>3. cardinality(d, x) = cards[x]
    BY <1>1 DEF cardinality
  <2> QED
    BY <2>2, <2>3 DEF Pos, MaxSeriesPerMetric
<1>2. CASE ~ (x =< Len(cards))
  <2>1. cardinality(d, x) = Greater(1, (2 * d.cardM + Decay[x]) \div (2 * Decay[x]))
    BY <1>2 DEF cardinality
  <2>2. Decay[x] \in Pos
    BY DecayPositive DEF Pos
  <2> QED
    BY <2>1, <2>2, CeilPositive
<1> QED
    BY <1>1, <1>2

\* A cycle of weights that are not all zero has an entry, and only types.
LEMMA CycleUsable ==
    ASSUME NEW w \in Seq(Nat), Total(w) > 0
    PROVE  typeCycle(w) \in Seq(1 .. Len(w)) /\ Len(typeCycle(w)) \in Pos
<1> DEFINE n == Len(w)
           y == typeCycle(w)
<1>0. n \in Nat /\ DOMAIN w = 1 .. n /\ w \in Seq(Int) /\ \A e \in 1 .. n : w[e] \in Nat
    OBVIOUS
<1>1. Total(w) \in Nat
    BY TotalMonotone DEF Within
<1>2. PICK f : Turns(f, w)
    BY TurnsTaken
<1>3. f[Total(w)] \in CycleStates(n) /\ y = f[Total(w)].cycle
  <2>1. Total(w) \in 0 .. Total(w)
    BY <1>1
  <2> QED
    BY <1>2, <2>1, Zenon DEF Turns
<1>4. y \in Seq(1 .. n)
    BY <1>3 DEF CycleStates
<1>5. PICK e \in 1 .. n : w[e] > 0
  <2>1. ASSUME \A e \in 1 .. n : ~ (w[e] > 0) PROVE FALSE
    <3>1. \A e \in 1 .. n : w[e] =< 0
      BY <1>0, <2>1
    <3>2. Total(w) =< 0
      BY <1>0, <3>1, TotalNotPositive, Zenon
    <3> QED
      BY <1>1, <3>2
  <2> QED
    BY <2>1
<1>6. Count(y, e) = w[e]
    BY <1>0, CyclesAreExact
<1> HIDE DEF y
<1>7. y # <<>>
  <2>1. w[e] # 0
    BY <1>0, <1>5
  <2> QED
    BY <1>6, <2>1, CountEmpty
<1>8. Len(y) \in Pos
    BY <1>4, <1>7 DEF Pos
<1> QED
    BY <1>4, <1>8 DEF y

LEMMA TotalNat ==
    ASSUME NEW w \in Seq(Nat)
    PROVE  Total(w) \in Nat /\ w \in Seq(Int) /\ \A e \in 1 .. Len(w) : w[e] \in Nat /\ w[e] >= 0
<1>1. w \in Seq(Int) /\ \A e \in 1 .. Len(w) : w[e] \in Nat /\ w[e] >= 0
    OBVIOUS
<1>2. Total(w) \in Nat
    BY TotalMonotone DEF Within
<1> QED
    BY <1>1, <1>2

LEMMA NoneNegative ==
    ASSUME NEW w \in Seq(Int), \A e \in DOMAIN w : w[e] >= 0
    PROVE  w \in Seq(Nat)
<1> DEFINE n == Len(w)
<1>1. n \in Nat /\ w \in [1 .. n -> Int] /\ DOMAIN w = 1 .. n
    OBVIOUS
<1> HIDE DEF n
<1>2. \A e \in 1 .. n : w[e] \in Nat
    BY <1>1
<1>3. w \in [1 .. n -> Nat]
    BY <1>1, <1>2
<1> QED
    BY <1>1, <1>3, FunctionSeq

LEMMA DefaultsUsable == DefaultWeights \in Seq(Nat) /\ Len(DefaultWeights) = 5 /\ Total(DefaultWeights) > 0
<1> DEFINE v == DefaultWeights
<1>1. v \in Seq(Nat) /\ Len(v) = 5
    BY DEF DefaultWeights
<1>2. v[1] = 1
    BY DEF DefaultWeights
<1> HIDE DEF v
<1>3. v \in Seq(Int) /\ \A e \in 1 .. Len(v) : v[e] \in Nat /\ v[e] >= 0
    BY <1>1, TotalNat, Zenon
<1>5. Total(v) \in Nat
    BY <1>1, TotalNat, Zenon
<1>6. 1 \in 1 .. Len(v) /\ v[1] # 0
    BY <1>1, <1>2
<1>7. Total(v) # 0
    BY <1>3, <1>6, TotalZero, Zenon
<1> QED
    BY <1>1, <1>5, <1>7 DEF v

LEMMA WeightsUsable ==
    ASSUME NEW w \in Seq(Int), Len(w) = 5, \A e \in DOMAIN w : w[e] >= 0,
           NEW v, v = IF Total(w) =< 0 THEN DefaultWeights ELSE w
    PROVE  v \in Seq(Nat) /\ Len(v) = 5 /\ Total(v) > 0
<1>1. w \in Seq(Nat)
    BY NoneNegative, Zenon
<1>3. Total(w) \in Nat
    BY <1>1, TotalNat, Zenon
<1> QED
    BY <1>1, <1>3, DefaultsUsable

\* What buildMetricDef makes of a type is a metric.
LEMMA MetricDefsUsable ==
    ASSUME NEW typ \in MetricTypes, NEW card \in Pos
    PROVE  MetricDefs(typ, card) # {} /\ MetricDefs(typ, card) \subseteq MetricDef
<1>1. MetricDefs(typ, card) \subseteq MetricDef
    BY DEF MetricDefs, MetricDef, Pos
<1>2. [typ |-> typ, card |-> card,
       temporality |-> IF typ \in {"gauge", "summary"} THEN "unspecified" ELSE "delta",
       monotonic |-> FALSE] \in MetricDefs(typ, card)
    BY DEF MetricDefs
<1> QED
    BY <1>1, <1>2

LEMMA LimiterUsable ==
    ASSUME NEW d, d.threads \in Pos, d.pps \in Int
    PROVE  chunk(d) >= 1 /\ chunk(d) =< burst(d)
<1> DEFINE a == d.threads * 10
           p == d.pps \div a
           q == d.pps \div 10
           x == chunk(d)
           y == x * d.threads * 2
<1>1. a \in Nat \ {0}
    BY DEF Pos
<1> HIDE DEF a
<1>2. p \in Int /\ q \in Int
    BY <1>1
<1>3. x = Greater(1, Lesser(256, p))
    BY DEF chunk, a
<1>4. burst(d) = Greater(y, q)
    BY DEF burst
<1> HIDE DEF p, q, x
<1>5. x \in Pos
    BY <1>2, <1>3 DEF Greater, Lesser, Pos
<1>6. y \in Nat /\ y >= x
    BY <1>5 DEF Pos
<1> HIDE DEF y
<1>7. Greater(y, q) >= x /\ x >= 1
    BY <1>2, <1>5, <1>6 DEF Greater, Pos
<1> QED
    BY <1>4, <1>7 DEF x

\* What PlanDefined says of one configuration c, d with its defaults, and more:
\* what a metric may be is a metric.
Resolved(d) ==
    /\ Len(newPlan(d)) = d.count /\ d.count >= 1
    /\ \A i \in 1 .. d.count : /\ newPlan(d)[i] # {} /\ newPlan(d)[i] \subseteq MetricDef
                               /\ cardinality(d, i) >= 1
    /\ d.resources >= 1 /\ d.threads >= 1
    /\ chunk(d) >= 1 /\ chunk(d) =< burst(d)
    /\ d.lifetime # 0 => d.lifetime \div d.interval >= 1
    /\ \A a, b \in -d.jitter .. d.jitter : a < d.interval + b

LEMMA TimesUsable ==
    ASSUME NEW i \in Int, NEW j \in Int, NEW l \in Int, NEW m, ValidTimes(i, j, l, m)
    PROVE  /\ l # 0 => l \div i >= 1
           /\ \A a, b \in -j .. j : a < i + b
<1>1. i >= 1 /\ j >= 0 /\ 2 * j < i /\ (l # 0 => l >= i)
    BY DEF ValidTimes
<1>2. ASSUME l # 0 PROVE l \div i >= 1
  <2> DEFINE q == l \div i
             r == l % i
  <2>1. q \in Int /\ r \in 0 .. i - 1 /\ l = i * q + r
    BY <1>1
  <2> HIDE DEF q, r
  <2>2. ASSUME q =< 0 PROVE FALSE
    <3>1. i * q =< 0 /\ i * q \in Int
      BY <1>1, <2>1, <2>2
    <3> QED
      BY <1>1, <1>2, <2>1, <3>1
  <2>3. q >= 1
    BY <2>1, <2>2
  <2> QED
    BY <2>3 DEF q
<1>3. \A a, b \in -j .. j : a < i + b
    BY <1>1
<1> QED
    BY <1>2, <1>3

LEMMA MetricsUsable ==
    ASSUME NEW d, d.count \in Pos, d.weights \in Seq(Nat), Len(d.weights) = 5, Total(d.weights) > 0,
           d.types \in Seq(TypeWords), d.types # <<>> => Range(d.types) \subseteq MetricTypes,
           \A i \in Pos : cardinality(d, i) \in Pos
    PROVE  /\ Len(newPlan(d)) = d.count
           /\ \A i \in 1 .. d.count : newPlan(d)[i] # {} /\ newPlan(d)[i] \subseteq MetricDef
<1> DEFINE y == typeCycle(d.weights)
           n == d.count
           T(i) == IF i =< Len(d.types) THEN d.types[i] ELSE TypeNames[y[1 + ((i - 1) % Len(y))]]
<1>1. newPlan(d) = [i \in 1 .. n |-> MetricDefs(T(i), cardinality(d, i))]
    BY DEF newPlan
<1>2. y \in Seq(1 .. 5) /\ Len(y) \in Pos
  <2>1. y \in Seq(1 .. Len(d.weights)) /\ Len(y) \in Pos
    BY CycleUsable, Zenon
  <2> HIDE DEF y
  <2> QED
    BY <2>1
<1> HIDE DEF y
<1>3. ASSUME NEW i \in 1 .. n PROVE T(i) \in MetricTypes
  <2>0. i \in Nat /\ i >= 1 /\ i - 1 \in Nat
    BY DEF Pos
  <2>1. CASE i =< Len(d.types)
    <3>1. i \in DOMAIN d.types /\ d.types # <<>>
      BY <2>0, <2>1
    <3>2. d.types[i] \in MetricTypes
      BY <3>1 DEF Range
    <3> QED
      BY <2>1, <3>2
  <2>2. CASE ~ (i =< Len(d.types))
    <3> DEFINE m == (i - 1) % Len(y)
    <3>1. m \in 0 .. Len(y) - 1
      <4> DEFINE a == i - 1
                 l == Len(y)
      <4>1. a \in Nat /\ l \in Nat \ {0}
        BY <1>2, <2>0 DEF Pos
      <4> HIDE DEF a, l
      <4>2. a % l \in 0 .. l - 1
        BY <4>1, Quotient
      <4> QED
        BY <4>2 DEF a, l
    <3> HIDE DEF m
    <3>2. 1 + m \in 1 .. Len(y)
      BY <1>2, <3>1 DEF Pos
    <3>3. y[1 + m] \in 1 .. 5
      BY <1>2, <3>2
    <3>4. \A e \in 1 .. 5 : TypeNames[e] \in MetricTypes
      BY DEF TypeNames, MetricTypes
    <3>5. TypeNames[y[1 + m]] \in MetricTypes
      BY <3>3, <3>4, Zenon
    <3> QED
      BY <2>2, <3>5 DEF m
  <2> QED
    BY <2>1, <2>2
<1> HIDE DEF T
<1>4. ASSUME NEW i \in 1 .. n
      PROVE  newPlan(d)[i] # {} /\ newPlan(d)[i] \subseteq MetricDef
  <2>1. newPlan(d)[i] = MetricDefs(T(i), cardinality(d, i))
    BY <1>1
  <2>2. i \in Pos
    BY DEF Pos
  <2> QED
    BY <1>3, <2>1, <2>2, MetricDefsUsable, Zenon
<1>5. Len(newPlan(d)) = n
  <2> DEFINE D(i) == MetricDefs(T(i), cardinality(d, i))
  <2>1. n \in Nat /\ newPlan(d) = [i \in 1 .. n |-> D(i)]
    BY <1>1 DEF Pos
  <2> HIDE DEF D, n
  <2> QED
    BY <2>1
<1> QED
    BY <1>4, <1>5

\* config.go:222-399, scheduler.go:70-87, plan.go:280-330. Every configuration
\* that passes the validation, whatever its numbers and lists, resolves to a plan:
\* it has a metric, each is of one of the five types and has a series, nothing is
\* divided by zero, a wait asks the limiter for no more than its burst, a lifetime
\* has a sweep, and the jitter keeps the points of a series in order.
THEOREM PlansAreDefined == \A c \in AllConfigs : Validate(c) => Resolved(withDefaults(c))
<1> SUFFICES ASSUME NEW c \in AllConfigs, Validate(c) PROVE Resolved(withDefaults(c))
    OBVIOUS
<1> DEFINE d == withDefaults(c)
<1>1. /\ c.names \in Seq(Nat) /\ c.types \in Seq(TypeWords) /\ c.cards \in Seq(Int)
      /\ c.count \in Int /\ c.cardM \in Int /\ c.weights \in Seq(Int) /\ Len(c.weights) = 5
      /\ c.resources \in Int /\ c.interval \in Int /\ c.jitter \in Int /\ c.lifetime \in Int
      /\ c.threads \in Int /\ c.pps \in Int
    BY DEF AllConfigs
<1>2. /\ d.threads = Positive(c.threads, 4) /\ d.interval = Positive(c.interval, 5)
      /\ d.cardM = Positive(c.cardM, 4) /\ d.resources = Positive(c.resources, 3)
      /\ d.count = IF c.names # <<>> THEN Len(c.names) ELSE Positive(c.count, DefaultMetricCount)
      /\ d.weights = IF Total(c.weights) =< 0 THEN DefaultWeights ELSE c.weights
      /\ d.types = c.types /\ d.cards = c.cards /\ d.names = c.names
      /\ d.jitter = c.jitter /\ d.lifetime = c.lifetime /\ d.pps = c.pps
    BY DefaultsFacts
<1>3. /\ \A e \in DOMAIN c.weights : c.weights[e] >= 0
      /\ ValidLists(c) /\ ValidTimes(d.interval, c.jitter, d.lifetime, c.markers)
    BY DEF Validate
<1> HIDE DEF d
<1>4. 2 \in Pos /\ 3 \in Pos /\ 4 \in Pos /\ 5 \in Pos /\ DefaultMetricCount \in Pos
    BY DEF Pos, DefaultMetricCount
<1>5. d.threads \in Pos /\ d.interval \in Pos /\ d.cardM \in Pos /\ d.resources \in Pos
    BY <1>1, <1>2, <1>4, PositiveIs
<1>6. d.count \in Pos
  <2>1. CASE c.names # <<>>
    <3>1. Len(c.names) \in Pos
      BY <1>1, <2>1 DEF Pos
    <3> QED
      BY <1>2, <2>1, <3>1
  <2>2. CASE c.names = <<>>
    BY <1>1, <1>2, <1>4, <2>2, PositiveIs
  <2> QED
    BY <2>1, <2>2
<1>7. d.weights \in Seq(Nat) /\ Len(d.weights) = 5 /\ Total(d.weights) > 0
    BY <1>1, <1>2, <1>3, WeightsUsable, Zenon
<1>8. /\ d.types # <<>> => Range(d.types) \subseteq MetricTypes
      /\ d.cards # <<>> => Range(d.cards) \subseteq 1 .. MaxSeriesPerMetric
    BY <1>2, <1>3, Zenon DEF ValidLists
<1>9. \A i \in Pos : cardinality(d, i) \in Pos
  <2>1. d.cards \in Seq(Int) /\ d.cardM \in Int
    BY <1>1, <1>2, <1>5 DEF Pos
  <2> QED
    BY <1>8, <2>1, CardinalityPositive, Zenon
<1>10. /\ Len(newPlan(d)) = d.count
       /\ \A i \in 1 .. d.count : newPlan(d)[i] # {} /\ newPlan(d)[i] \subseteq MetricDef
  <2>1. d.types \in Seq(TypeWords)
    BY <1>1, <1>2
  <2> QED
    BY <1>6, <1>7, <1>8, <1>9, <2>1, MetricsUsable, Zenon
<1>11. chunk(d) >= 1 /\ chunk(d) =< burst(d)
    BY <1>1, <1>2, <1>5, LimiterUsable
<1>12. /\ d.lifetime # 0 => d.lifetime \div d.interval >= 1
       /\ \A a, b \in -d.jitter .. d.jitter : a < d.interval + b
  <2>1. d.interval \in Int /\ d.jitter \in Int /\ d.lifetime \in Int
    BY <1>1, <1>2, <1>5 DEF Pos
  <2>2. ValidTimes(d.interval, d.jitter, d.lifetime, c.markers)
    BY <1>2, <1>3
  <2> QED
    BY <2>1, <2>2, TimesUsable, Zenon
<1>13. \A i \in 1 .. d.count : cardinality(d, i) >= 1
  <2>1. ASSUME NEW i \in 1 .. d.count PROVE cardinality(d, i) >= 1
    <3>1. i \in Pos
      BY <1>6 DEF Pos
    <3>2. cardinality(d, i) \in Pos
      BY <1>9, <3>1
    <3> QED
      BY <3>2 DEF Pos
  <2> QED
    BY <2>1
<1>14. d.count >= 1 /\ d.resources >= 1 /\ d.threads >= 1
    BY <1>5, <1>6 DEF Pos
<1>15. Resolved(d)
    BY <1>10, <1>11, <1>12, <1>13, <1>14, Zenon DEF Resolved
<1> QED
    BY <1>15 DEF d

LEMMA PlansDefined == PlanDefined
<1> SUFFICES ASSUME NEW c \in Configs, Validate(c)
             PROVE  LET d == withDefaults(c) plan == newPlan(d) IN
                    /\ Len(plan) = d.count /\ d.count >= 1
                    /\ \A i \in 1 .. d.count : plan[i] # {} /\ cardinality(d, i) >= 1
                    /\ d.resources >= 1 /\ d.threads >= 1
                    /\ chunk(d) >= 1 /\ chunk(d) =< burst(d)
                    /\ d.lifetime # 0 => d.lifetime \div d.interval >= 1
                    /\ \A a, b \in -d.jitter .. d.jitter : a < d.interval + b
    BY DEF PlanDefined
<1>1. c \in AllConfigs
  <2> DEFINE N == {<<>>, <<1, 2>>, <<1, 1>>}
             T == {<<>>, <<"sum", "summary">>}
             C == {<<>>, <<1, 3>>, <<0, 1>>}
             W == {<<0, 0, 0, 0, 0>>, <<0, 2, 0, 1, 0>>, <<-1, 2, 0, 0, 0>>}
  <2>1. N \subseteq Seq(Nat)
    OBVIOUS
  <2>2. T \subseteq Seq(TypeWords)
    <3>1. "sum" \in TypeWords /\ "summary" \in TypeWords
      BY DEF TypeWords, MetricTypes
    <3>2. <<>> \in Seq(TypeWords) /\ <<"sum", "summary">> \in Seq(TypeWords)
      <4>1. \A X : \A a, b \in X : <<>> \in Seq(X) /\ <<a, b>> \in Seq(X)
        OBVIOUS
      <4> QED
        BY <3>1, <4>1, Zenon
    <3> QED
      BY <3>2, Zenon
  <2>3. C \subseteq Seq(Int)
    OBVIOUS
  <2>4. W \subseteq {w \in Seq(Int) : Len(w) = 5}
    <3>1. <<0, 0, 0, 0, 0>> \in Seq(Int) /\ Len(<<0, 0, 0, 0, 0>>) = 5
      OBVIOUS
    <3>2. <<0, 2, 0, 1, 0>> \in Seq(Int) /\ Len(<<0, 2, 0, 1, 0>>) = 5
      OBVIOUS
    <3>3. <<-1, 2, 0, 0, 0>> \in Seq(Int) /\ Len(<<-1, 2, 0, 0, 0>>) = 5
      OBVIOUS
    <3> QED
      BY <3>1, <3>2, <3>3, Zenon
  <2> DEFINE I1 == {0, 1}
             I2 == {0, 9}
             I3 == {0, 2}
             I4 == {0, 4}
             I5 == {0, 2, 5}
             I6 == {-1, 0, 2}
             I7 == {0, 30}
  <2>5. /\ I1 \subseteq Int /\ I2 \subseteq Int /\ I3 \subseteq Int /\ I4 \subseteq Int
        /\ I5 \subseteq Int /\ I6 \subseteq Int /\ I7 \subseteq Int
    OBVIOUS
  <2>6. c \in [names : N, types : T, cards : C, count : I1, cardM : I2, weights : W, resources : I3,
               interval : I4, jitter : I3, lifetime : I5, markers : BOOLEAN,
               attrsMin : I1, attrsMax : I1, threads : I6, pps : I7]
    BY DEF Configs
  <2> HIDE DEF N, T, C, W, I1, I2, I3, I4, I5, I6, I7
  <2> QED
    BY <2>1, <2>2, <2>3, <2>4, <2>5, <2>6 DEF AllConfigs
<1>2. Resolved(withDefaults(c))
    BY <1>1, PlansAreDefined
<1> QED
    BY <1>2, Zenon DEF Resolved

\* config.go, plan.go, values.go. The plan keeps what the comments of the code
\* promise: what PlanExact states over its bounded inputs holds, and does so
\* whatever the number of resources and the lifetime.
THEOREM PlanIsExact == PlanExact
<1>1. GenerationsAgree
  <2>1. 0 .. Resources - 1 \subseteq Nat /\ 0 .. MaxSweeps \subseteq Nat
    BY PlanAssumption DEF MaxSweeps
  <2> QED
    BY <2>1, GenerationsTellOneStory DEF GenerationsAgree
<1> QED
    BY <1>1, CyclesExact, PlansDefined, ValuesAreDistinct, SeriesAreDistinct DEF PlanExact
=============================================================================
