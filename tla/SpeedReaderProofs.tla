------------------------- MODULE SpeedReaderProofs -------------------------
(***************************************************************************)
(* Proofs about SpeedReader.tla for every capacity of the ring, every set  *)
(* of targets and requests, and every window length. The total of the      *)
(* window is a recursive sum over the ring; the library's induction        *)
(* theorems cannot be instantiated here, so the few facts about the sum    *)
(* are proved by induction on a set of naturals (InductionOnNat), which    *)
(* rests on the well-foundedness of <. From them: the window stays sound   *)
(* (Sound), a read pays the bucket for what it takes past its headroom     *)
(* (PaidFromBucket), and every tail of the window is bounded (Throughput). *)
(***************************************************************************)
EXTENDS SpeedReader, WellFoundedInduction, TLAPS

\* A non-empty set of naturals has a least element.
LEMMA LeastNat ==
    ASSUME NEW T, T \subseteq Nat, T # {}
    PROVE  \E x \in T : \A y \in T : x =< y
<1> DEFINE R == OpToRel(<, Nat)
<1>1. IsWellFoundedOn(R, Nat)
    BY NatLessThanWellFounded
<1>2. \A x, y \in Nat : y < x => <<y, x>> \in R
    BY DEF OpToRel
<1> HIDE DEF R
<1>3. PICK x \in T : \A y \in T : ~ (<<y, x>> \in R)
    BY <1>1, WFMin
<1>4. ASSUME NEW y \in T PROVE x =< y
  <2>1. x \in Nat /\ y \in Nat
    OBVIOUS
  <2>2. ~ (y < x)
    BY <1>2, <1>3, <2>1
  <2> QED
    BY <2>1, <2>2
<1> QED
    BY <1>4

\* Induction, over a set in place of a predicate.
LEMMA InductionOnNat ==
    ASSUME NEW S, 0 \in S, \A n \in Nat : n \in S => n + 1 \in S
    PROVE  Nat \subseteq S
<1> SUFFICES ASSUME Nat \ S # {} PROVE FALSE
    OBVIOUS
<1>1. PICK x \in Nat \ S : \A y \in Nat \ S : x =< y
    BY LeastNat
<1>2. x # 0 /\ x - 1 \in Nat /\ x - 1 \in S
    BY <1>1
<1> QED
    BY <1>1, <1>2

\* The recursive sum of a sequence of naturals exists: for every n the sums up
\* to n do, and the sums up to n + 1 extend them.
LEMMA PrefixSums ==
    ASSUME NEW a \in [Nat -> Nat]
    PROVE  \E g \in [Nat -> Nat] :
               g = [i \in Nat |-> IF i = 0 THEN 0 ELSE g[i - 1] + a[i - 1]]
<1> DEFINE Sums(n, f) == /\ f \in [0 .. n -> Nat] /\ f[0] = 0
                         /\ \A i \in 1 .. n : f[i] = f[i - 1] + a[i - 1]
           S == {n \in Nat : \E f : Sums(n, f)}
<1>1. 0 \in S
  <2>1. Sums(0, [i \in 0 .. 0 |-> 0])
    OBVIOUS
  <2> QED
    BY <2>1
<1>2. \A n \in Nat : n \in S => n + 1 \in S
  <2> SUFFICES ASSUME NEW n \in Nat, n \in S PROVE n + 1 \in S
    OBVIOUS
  <2>1. PICK f : Sums(n, f)
    OBVIOUS
  <2> DEFINE f2 == [i \in 0 .. n + 1 |-> IF i = n + 1 THEN f[n] + a[n] ELSE f[i]]
  <2>0. f \in [0 .. n -> Nat]
    BY <2>1
  <2> HIDE DEF Sums, S
  <2>2. n \in 0 .. n /\ n + 1 \in 0 .. n + 1 /\ f[n] + a[n] \in Nat
    <3>1. n \in 0 .. n /\ n + 1 \in 0 .. n + 1
      OBVIOUS
    <3>2. f[n] \in Nat /\ a[n] \in Nat
      BY <2>0, <3>1
    <3> QED
      BY <3>1, <3>2
  <2>3. ASSUME NEW i \in 0 .. n PROVE i \in 0 .. n + 1 /\ f2[i] = f[i] /\ f[i] \in Nat
    <3>1. i \in 0 .. n + 1 /\ i # n + 1
      OBVIOUS
    <3>2. f[i] \in Nat
      BY <2>0
    <3> QED
      BY <3>1, <3>2
  <2>4. f2[n + 1] = f[n] + a[n]
    BY <2>2
  <2>5. f2 \in [0 .. n + 1 -> Nat]
    <3>1. \A i \in 0 .. n + 1 : f2[i] \in Nat
      <4> SUFFICES ASSUME NEW i \in 0 .. n + 1 PROVE f2[i] \in Nat
        OBVIOUS
      <4>1. i = n + 1 \/ i \in 0 .. n
        OBVIOUS
      <4> HIDE DEF f2
      <4> QED
        BY <2>2, <2>3, <2>4, <4>1
    <3> QED
      BY <3>1
  <2> HIDE DEF f2
  <2>6. ASSUME NEW i \in 1 .. n + 1 PROVE f2[i] = f2[i - 1] + a[i - 1]
    <3>1. CASE i = n + 1
      <4>1. i - 1 = n
        BY <3>1
      <4> QED
        BY <2>2, <2>3, <2>4, <3>1, <4>1
    <3>2. CASE i # n + 1
      <4>1. i \in 1 .. n /\ i \in 0 .. n /\ i - 1 \in 0 .. n
        BY <3>2
      <4>2. f[i] = f[i - 1] + a[i - 1]
        BY <2>1, <4>1 DEF Sums
      <4> QED
        BY <2>3, <4>1, <4>2
    <3> QED
      BY <3>1, <3>2
  <2>7. f2[0] = 0
    BY <2>1, <2>3 DEF Sums
  <2>8. Sums(n + 1, f2)
    BY <2>5, <2>6, <2>7 DEF Sums
  <2>9. n + 1 \in Nat /\ \E f3 : Sums(n + 1, f3)
    BY <2>8
  <2> QED
    BY <2>9 DEF S
<1>3. \A n \in Nat : \E f : Sums(n, f)
  <2> HIDE DEF Sums
  <2>1. Nat \subseteq S
    <3> HIDE DEF S
    <3> QED
      BY <1>1, <1>2, InductionOnNat
  <2> QED
    BY <2>1
<1> DEFINE F(n) == CHOOSE f : Sums(n, f)
<1>4. \A n \in Nat : Sums(n, F(n))
  <2> HIDE DEF Sums
  <2> QED
    BY <1>3
<1>5. \A n \in Nat : F(n + 1)[n] = F(n)[n]
  <2> SUFFICES ASSUME NEW n \in Nat PROVE F(n + 1)[n] = F(n)[n]
    OBVIOUS
  <2> DEFINE f == F(n)
             g == F(n + 1)
             A == {i \in Nat : i =< n => g[i] = f[i]}
  <2>1. Sums(n, f) /\ Sums(n + 1, g)
    <3>1. n + 1 \in Nat
      OBVIOUS
    <3> HIDE DEF Sums, F
    <3> QED
      BY <1>4, <3>1
  <2> HIDE DEF f, g, F
  <2>2. 0 \in A
    BY <2>1
  <2>3. ASSUME NEW i \in Nat, i \in A PROVE i + 1 \in A
    <3> SUFFICES ASSUME i + 1 =< n PROVE g[i + 1] = f[i + 1]
      OBVIOUS
    <3>1. i + 1 \in 1 .. n /\ i + 1 \in 1 .. n + 1 /\ (i + 1) - 1 = i /\ g[i] = f[i]
      BY <2>3
    <3> QED
      BY <2>1, <3>1
  <2>4. Nat \subseteq A
    <3> HIDE DEF A
    <3> QED
      BY <2>2, <2>3, InductionOnNat
  <2> QED
    BY <2>4 DEF f, g
<1> DEFINE G == [n \in Nat |-> F(n)[n]]
<1>6. \A n \in Nat : F(n)[n] \in Nat
  <2> SUFFICES ASSUME NEW n \in Nat PROVE F(n)[n] \in Nat
    OBVIOUS
  <2>1. Sums(n, F(n))
    BY <1>4
  <2> HIDE DEF F
  <2> QED
    BY <2>1
<1>7. ASSUME NEW i \in Nat
      PROVE  G[i] = IF i = 0 THEN 0 ELSE G[i - 1] + a[i - 1]
  <2>1. Sums(i, F(i))
    BY <1>4
  <2>2. i # 0 => i - 1 \in Nat /\ i \in 1 .. i /\ (i - 1) + 1 = i
    OBVIOUS
  <2>3. i # 0 => F(i)[i - 1] = F(i - 1)[i - 1]
    BY <1>5, <2>2
  <2> HIDE DEF F
  <2> QED
    BY <2>1, <2>2, <2>3
<1>8. G \in [Nat -> Nat]
  <2> HIDE DEF F
  <2> QED
    BY <1>6
<1>9. G = [i \in Nat |-> IF i = 0 THEN 0 ELSE G[i - 1] + a[i - 1]]
  <2>1. G = [i \in Nat |-> G[i]]
    BY <1>8
  <2> HIDE DEF G
  <2> QED
    BY <1>7, <2>1
<1> HIDE DEF G
<1> QED
    BY <1>8, <1>9

-----------------------------------------------------------------------------
(* Arithmetic of the ring *)

\* A position less than two rounds from slot 0 is taken back at most once.
Wrapped(x) == IF x < Capacity THEN x ELSE x - Capacity

LEMMA ModSmall ==
    \A x : x \in 0 .. 2 * Capacity - 1 => x % Capacity = Wrapped(x)
BY LimiterAssumption DEF Wrapped

LEMMA ModSlot == \A x \in Nat : x % Capacity \in Slots
BY LimiterAssumption DEF Slots

Entry == [age : Ages, bytes : Nat]
Ring == [Slots -> Entry]

LEMMA SlotFacts ==
    /\ Capacity \in Nat \ {0}
    /\ \A h \in Slots : h \in Nat /\ h < Capacity
    /\ \A h \in Nat : h < Capacity => h \in Slots
BY LimiterAssumption DEF Slots

\* What the sum over the ring satisfies.
LEMMA BytesFromRecursive ==
    ASSUME NEW e \in Ring, NEW h \in Nat
    PROVE  /\ BytesFrom(e, h, 0) = 0
           /\ \A n \in Nat : BytesFrom(e, h, n) \in Nat
           /\ \A n \in Nat : BytesFrom(e, h, n + 1)
                               = BytesFrom(e, h, n) + e[(h + n) % Capacity].bytes
<1> DEFINE a == [i \in Nat |-> e[(h + i) % Capacity].bytes]
           P(g) == g = [i \in Nat |-> IF i = 0 THEN 0
                                      ELSE g[i - 1] + e[(h + i - 1) % Capacity].bytes]
           sum == CHOOSE g : P(g)
<1>1. a \in [Nat -> Nat]
  <2>1. \A i \in Nat : (h + i) % Capacity \in Slots
    BY ModSlot
  <2> QED
    BY <2>1 DEF Ring, Entry
<1>2. PICK g \in [Nat -> Nat] : g = [i \in Nat |-> IF i = 0 THEN 0 ELSE g[i - 1] + a[i - 1]]
  <2> HIDE DEF a
  <2> QED
    BY <1>1, PrefixSums
<1>3. P(g)
  <2>1. \A i \in Nat : i # 0 => a[i - 1] = e[(h + i - 1) % Capacity].bytes
    <3> SUFFICES ASSUME NEW i \in Nat, i # 0
                 PROVE  a[i - 1] = e[(h + i - 1) % Capacity].bytes
      OBVIOUS
    <3>1. i - 1 \in Nat /\ h + (i - 1) = h + i - 1
      OBVIOUS
    <3> QED
      BY <3>1
  <2> HIDE DEF a
  <2> QED
    BY <1>2, <2>1
<1>4. P(sum)
  <2> HIDE DEF P
  <2> QED
    BY <1>3
<1>5. \A n : BytesFrom(e, h, n) = sum[n]
    BY DEF BytesFrom
<1>6. sum \in [Nat -> Nat]
  <2>1. g = sum
    <3> DEFINE A == {i \in Nat : g[i] = sum[i]}
    <3>1. sum = [i \in Nat |-> sum[i]]
      BY <1>4
    <3> HIDE DEF sum
    <3>2. 0 \in A
      BY <1>3, <1>4
    <3>3. ASSUME NEW i \in Nat, i \in A PROVE i + 1 \in A
      <4>1. i + 1 \in Nat /\ i + 1 # 0 /\ (i + 1) - 1 = i
        OBVIOUS
      <4> QED
        BY <1>3, <1>4, <3>3, <4>1
    <3>4. Nat \subseteq A
      <4> HIDE DEF A
      <4> QED
        BY <3>2, <3>3, InductionOnNat
    <3> HIDE DEF P
    <3> QED
      BY <3>1, <3>4
  <2> QED
    BY <2>1
<1> HIDE DEF sum
<1>7. sum[0] = 0
    BY <1>4
<1>8. ASSUME NEW n \in Nat PROVE sum[n + 1] = sum[n] + e[(h + n) % Capacity].bytes
  <2>1. n + 1 \in Nat /\ n + 1 # 0 /\ (n + 1) - 1 = n /\ h + (n + 1) - 1 = h + n
    OBVIOUS
  <2> QED
    BY <1>4, <2>1
<1>9. \A n \in Nat : sum[n] \in Nat /\ n + 1 \in Nat
    BY <1>6
<1> HIDE DEF P
<1> QED
    BY <1>5, <1>7, <1>8, <1>9

\* Two rings that agree on n slots from h have the same sum there.
LEMMA SameBytes ==
    ASSUME NEW e \in Ring, NEW f \in Ring, NEW h \in Nat, NEW n \in Nat,
           \A i \in 0 .. n - 1 : e[(h + i) % Capacity].bytes = f[(h + i) % Capacity].bytes
    PROVE  BytesFrom(e, h, n) = BytesFrom(f, h, n)
<1> DEFINE A == {m \in Nat : m =< n => BytesFrom(e, h, m) = BytesFrom(f, h, m)}
<1>1. 0 \in A
    BY BytesFromRecursive
<1>2. ASSUME NEW m \in Nat, m \in A PROVE m + 1 \in A
  <2> SUFFICES ASSUME m + 1 =< n PROVE BytesFrom(e, h, m + 1) = BytesFrom(f, h, m + 1)
    OBVIOUS
  <2>1. m \in 0 .. n - 1 /\ BytesFrom(e, h, m) = BytesFrom(f, h, m)
    BY <1>2
  <2>2. BytesFrom(e, h, m + 1) = BytesFrom(e, h, m) + e[(h + m) % Capacity].bytes
    BY BytesFromRecursive, Zenon
  <2>3. BytesFrom(f, h, m + 1) = BytesFrom(f, h, m) + f[(h + m) % Capacity].bytes
    BY BytesFromRecursive, Zenon
  <2>4. e[(h + m) % Capacity].bytes = f[(h + m) % Capacity].bytes
    BY <2>1, Zenon
  <2> QED
    BY <2>1, <2>2, <2>3, <2>4, Zenon
<1>3. Nat \subseteq A
  <2> HIDE DEF A
  <2> QED
    BY <1>1, <1>2, InductionOnNat
<1> QED
    BY <1>3

\* Going on from where m entries end reaches the same slots.
LEMMA RingAdvance ==
    ASSUME NEW h \in Slots, NEW m \in Nat, NEW i \in Nat, m =< Capacity, i < Capacity
    PROVE  (((h + m) % Capacity) + i) % Capacity =
               IF h + m < Capacity
               THEN IF h + m + i < Capacity THEN h + m + i ELSE h + m + i - Capacity
               ELSE IF h + m + i < 2 * Capacity THEN h + m + i - Capacity
                    ELSE h + m + i - 2 * Capacity
<1>1. h + m \in 0 .. 2 * Capacity - 1
    BY SlotFacts
<1>2. (h + m) % Capacity = Wrapped(h + m)
    BY <1>1, ModSmall, Zenon
<1> DEFINE k == (h + m) % Capacity
<1>3. k \in 0 .. Capacity - 1
    BY <1>1, <1>2, SlotFacts DEF Wrapped
<1>4. k + i \in 0 .. 2 * Capacity - 1
  <2> HIDE DEF k
  <2> QED
    BY <1>3, SlotFacts
<1>5. (k + i) % Capacity = Wrapped(k + i)
  <2> HIDE DEF k
  <2> QED
    BY <1>4, ModSmall, Zenon
<1>6. k = Wrapped(h + m)
    BY <1>2
<1> HIDE DEF k
<1>7. (k + i) % Capacity =
               IF h + m < Capacity
               THEN IF h + m + i < Capacity THEN h + m + i ELSE h + m + i - Capacity
               ELSE IF h + m + i < 2 * Capacity THEN h + m + i - Capacity
                    ELSE h + m + i - 2 * Capacity
    BY <1>5, <1>6, SlotFacts DEF Wrapped
<1> QED
    BY <1>7 DEF k

LEMMA RingJoin ==
    ASSUME NEW h \in Slots, NEW m \in Nat, NEW i \in Nat, m + i < Capacity
    PROVE  (((h + m) % Capacity) + i) % Capacity = (h + (m + i)) % Capacity
<1>1. h + (m + i) \in 0 .. 2 * Capacity - 1 /\ m =< Capacity /\ i < Capacity
    BY SlotFacts
<1>2. (h + (m + i)) % Capacity = Wrapped(h + (m + i))
    BY <1>1, ModSmall, Zenon
<1>3. (((h + m) % Capacity) + i) % Capacity =
               IF h + m < Capacity
               THEN IF h + m + i < Capacity THEN h + m + i ELSE h + m + i - Capacity
               ELSE IF h + m + i < 2 * Capacity THEN h + m + i - Capacity
                    ELSE h + m + i - 2 * Capacity
    BY <1>1, RingAdvance
<1>4. (IF h + m < Capacity
               THEN IF h + m + i < Capacity THEN h + m + i ELSE h + m + i - Capacity
               ELSE IF h + m + i < 2 * Capacity THEN h + m + i - Capacity
                    ELSE h + m + i - 2 * Capacity)
       = Wrapped(h + (m + i))
    BY <1>1, SlotFacts DEF Wrapped
<1> QED
    BY <1>2, <1>3, <1>4

\* Different distances of less than a round from h are different slots.
LEMMA RingApart ==
    ASSUME NEW h \in Slots, NEW i \in Nat, NEW j \in Nat,
           i < Capacity, j < Capacity, (h + i) % Capacity = (h + j) % Capacity
    PROVE  i = j
<1>1. h + i \in 0 .. 2 * Capacity - 1 /\ h + j \in 0 .. 2 * Capacity - 1
    BY SlotFacts
<1>2. /\ (h + i) % Capacity = Wrapped(h + i)
      /\ (h + j) % Capacity = Wrapped(h + j)
    BY <1>1, ModSmall, Zenon
<1>3. Wrapped(h + i) = Wrapped(h + j)
    BY <1>2
<1> QED
    BY <1>3, SlotFacts DEF Wrapped

\* The sum of m + n entries is that of the first m and that of the next n.
LEMMA SplitBytes ==
    ASSUME NEW e \in Ring, NEW h \in Slots, NEW m \in Nat, NEW n \in Nat, m + n =< Capacity
    PROVE  BytesFrom(e, h, m + n) = BytesFrom(e, h, m) + BytesFrom(e, (h + m) % Capacity, n)
<1> DEFINE k == (h + m) % Capacity
           A == {i \in Nat : i =< n => BytesFrom(e, h, m + i) = BytesFrom(e, h, m) + BytesFrom(e, k, i)}
<1>0. h \in Nat /\ k \in Nat
  <2>1. h \in Nat /\ h + m \in Nat
    BY SlotFacts
  <2> QED
    BY <2>1, ModSlot, SlotFacts
<1>1. 0 \in A
  <2> HIDE DEF k
  <2>1. BytesFrom(e, k, 0) = 0 /\ BytesFrom(e, h, m) \in Nat
    BY <1>0, BytesFromRecursive, Zenon
  <2>2. m + 0 = m
    OBVIOUS
  <2> QED
    BY <2>1, <2>2
<1>2. ASSUME NEW i \in Nat, i \in A PROVE i + 1 \in A
  <2> SUFFICES ASSUME i + 1 =< n
               PROVE  BytesFrom(e, h, m + (i + 1)) = BytesFrom(e, h, m) + BytesFrom(e, k, i + 1)
    OBVIOUS
  <2>1. (k + i) % Capacity = (h + (m + i)) % Capacity
    <3>1. m + i < Capacity
      BY SlotFacts
    <3> QED
      BY <3>1, RingJoin, Zenon
  <2> HIDE DEF k
  <2>2. BytesFrom(e, h, m + i) = BytesFrom(e, h, m) + BytesFrom(e, k, i)
    BY <1>2
  <2>3. BytesFrom(e, k, i + 1) = BytesFrom(e, k, i) + e[(k + i) % Capacity].bytes
    BY <1>0, BytesFromRecursive
  <2>4. m + i \in Nat /\ m + (i + 1) = (m + i) + 1
    OBVIOUS
  <2>5. BytesFrom(e, h, m + (i + 1)) = BytesFrom(e, h, m + i) + e[(h + (m + i)) % Capacity].bytes
    <3>1. BytesFrom(e, h, (m + i) + 1) = BytesFrom(e, h, m + i) + e[(h + (m + i)) % Capacity].bytes
      BY <1>0, <2>4, BytesFromRecursive, Zenon
    <3> QED
      BY <2>4, <3>1, Zenon
  <2>6. BytesFrom(e, h, m) \in Nat /\ BytesFrom(e, k, i) \in Nat /\ e[(k + i) % Capacity].bytes \in Nat
    <3>1. k + i \in Nat
      BY <1>0
    <3>2. (k + i) % Capacity \in Slots
      BY <3>1, ModSlot
    <3> QED
      BY <1>0, <3>2, BytesFromRecursive DEF Ring, Entry
  <2> QED
    BY <2>1, <2>2, <2>3, <2>5, <2>6
<1>3. Nat \subseteq A
  <2> HIDE DEF A
  <2> QED
    BY <1>1, <1>2, InductionOnNat
<1> HIDE DEF k
<1>4. BytesFrom(e, h, m + n) = BytesFrom(e, h, m) + BytesFrom(e, k, n)
    BY <1>3
<1> QED
    BY <1>4 DEF k

-----------------------------------------------------------------------------
(* The sliding window *)

\* WindowConsistent of any ring e, from h, of n entries and b bytes, written at t.
Sound(e, h, t, n, b) ==
    /\ e \in Ring /\ h \in Slots /\ n \in 0 .. Capacity
    /\ b = BytesFrom(e, h, n)
    /\ t = (h + n) % Capacity
    /\ \A i \in 1 .. n - 1 : e[(h + i - 1) % Capacity].age >= e[(h + i) % Capacity].age

WindowTypes ==
    /\ entries \in Ring /\ head \in Slots /\ tail \in Slots
    /\ count \in 0 .. Capacity /\ totalBytes \in Nat

LEMMA SoundTypes ==
    ASSUME NEW e, NEW h, NEW t, NEW n, NEW b, Sound(e, h, t, n, b)
    PROVE  e \in Ring /\ h \in Slots /\ t \in Slots /\ n \in 0 .. Capacity /\ b \in Nat
<1>1. h \in Nat /\ n \in Nat /\ h + n \in Nat
    BY SlotFacts DEF Sound
<1>2. t \in Slots
    BY <1>1, ModSlot DEF Sound
<1>3. b \in Nat
    BY <1>1, BytesFromRecursive DEF Sound
<1> QED
    BY <1>2, <1>3 DEF Sound

LEMMA SoundIsConsistent ==
    ASSUME WindowTypes
    PROVE  WindowConsistent <=> Sound(entries, head, tail, count, totalBytes)
BY DEF WindowTypes, WindowConsistent, Sound

\* Taking n entries from the head of a sound window leaves it sound: what is
\* taken from the total is what the slots taken held, and no other slot changes.
LEMMA DroppedSound ==
    ASSUME Sound(entries, head, tail, count, totalBytes), NEW n \in 0 .. count
    PROVE  LET c == Dropped(n)
           IN  /\ Sound(c.entries, c.head, tail, c.count, c.totalBytes)
               /\ c.count = count - n
<1> DEFINE e == [s \in Slots |-> IF s \in Live(head, n) THEN Empty ELSE entries[s]]
           k == (head + n) % Capacity
           b == totalBytes - BytesFrom(entries, head, n)
           m == count - n
<1>1. Dropped(n) = [entries |-> e, head |-> k, count |-> m, totalBytes |-> b]
    BY DEF Dropped
<1>2. /\ entries \in Ring /\ head \in Slots /\ count \in Nat /\ n \in Nat /\ m \in Nat
      /\ count =< Capacity /\ n =< count /\ n + m = count /\ Capacity \in Nat \ {0}
      /\ head \in Nat
    BY SlotFacts DEF Sound
<1>3. e \in Ring
  <2>1. Empty \in Entry
    BY LimiterAssumption DEF Empty, Entry, Ages
  <2> QED
    BY <1>2, <2>1 DEF Ring
<1>4. k \in Slots /\ k \in Nat
  <2>1. head + n \in Nat
    BY <1>2
  <2> QED
    BY <2>1, ModSlot, SlotFacts
<1>5. ASSUME NEW i \in 0 .. m - 1
      PROVE  /\ (k + i) % Capacity = (head + (n + i)) % Capacity
             /\ (k + i) % Capacity \in Slots
             /\ e[(k + i) % Capacity] = entries[(k + i) % Capacity]
  <2>1. i \in Nat /\ n + i \in Nat /\ n + i < Capacity /\ k + i \in Nat
    <3> HIDE DEF k
    <3> QED
      BY <1>2, <1>4
  <2>2. (k + i) % Capacity = (head + (n + i)) % Capacity
    BY <1>2, <2>1, RingJoin, Zenon
  <2>3. (k + i) % Capacity \in Slots
    BY <2>1, ModSlot, Zenon
  <2>4. (k + i) % Capacity \notin Live(head, n)
    <3> SUFFICES ASSUME NEW j \in 0 .. n - 1, (k + i) % Capacity = (head + j) % Capacity
                 PROVE  FALSE
      BY DEF Live
    <3>1. (head + (n + i)) % Capacity = (head + j) % Capacity
      BY <2>2
    <3>2. j \in Nat /\ j < Capacity /\ n + i # j
      <4> HIDE DEF k, e, b, m
      <4> QED
        BY <1>2, <2>1
    <3> QED
      BY <1>2, <2>1, <3>1, <3>2, RingApart, Zenon
  <2> HIDE DEF k
  <2> QED
    BY <2>2, <2>3, <2>4
<1>6. tail = (k + m) % Capacity
  <2>1. CASE m < Capacity /\ n + m < Capacity
    <3>1. (k + m) % Capacity = (head + (n + m)) % Capacity
      BY <1>2, <2>1, RingJoin, Zenon
    <3> QED
      BY <1>2, <3>1 DEF Sound
  <2>2. CASE n + m = Capacity
    <3>1. tail = (head + Capacity) % Capacity
      BY <1>2, <2>2 DEF Sound
    <3>2. head + n \in 0 .. 2 * Capacity - 1 /\ head + Capacity \in 0 .. 2 * Capacity - 1
      BY <1>2, SlotFacts
    <3>3. k = Wrapped(head + n) /\ tail = Wrapped(head + Capacity)
      BY <3>1, <3>2, ModSmall, Zenon
    <3>4. tail = head
      BY <1>2, <3>3, SlotFacts DEF Wrapped
    <3> HIDE DEF k
    <3>5. k + m \in 0 .. 2 * Capacity - 1
      BY <1>2, <1>4, SlotFacts
    <3>6. (k + m) % Capacity = Wrapped(k + m)
      BY <3>5, ModSmall, Zenon
    <3>7. Wrapped(k + m) = head
      <4> HIDE DEF m
      <4> QED
        BY <1>2, <2>2, <3>3, SlotFacts DEF Wrapped
    <3> QED
      BY <3>4, <3>6, <3>7
  <2> HIDE DEF k
  <2> QED
    BY <1>2, <2>1, <2>2
<1>7. b = BytesFrom(e, k, m)
  <2>1. totalBytes = BytesFrom(entries, head, n) + BytesFrom(entries, k, m)
    <3>1. n + m =< Capacity
      BY <1>2
    <3>2. BytesFrom(entries, head, n + m) = BytesFrom(entries, head, n) + BytesFrom(entries, k, m)
      <4> HIDE DEF m
      <4>1. entries \in Ring /\ head \in Slots /\ n \in Nat /\ m \in Nat
        BY <1>2
      <4> QED
        BY <3>1, <4>1, SplitBytes, Zenon
    <3> QED
      BY <1>2, <3>2 DEF Sound
  <2>2. BytesFrom(entries, k, m) = BytesFrom(e, k, m)
    <3>1. \A i \in 0 .. m - 1 : entries[(k + i) % Capacity].bytes = e[(k + i) % Capacity].bytes
      BY <1>5, Zenon
    <3>2. entries \in Ring /\ m \in Nat
      BY <1>2
    <3> HIDE DEF k, m, e
    <3> QED
      BY <1>3, <1>4, <3>1, <3>2, SameBytes
  <2>3. BytesFrom(entries, head, n) \in Nat /\ BytesFrom(entries, k, m) \in Nat
    <3> HIDE DEF k, m, e
    <3> QED
      BY <1>2, <1>4, BytesFromRecursive, Zenon
  <2> HIDE DEF k, m, e
  <2> QED
    BY <2>1, <2>2, <2>3
<1>8. ASSUME NEW i \in 1 .. m - 1
      PROVE  e[(k + i - 1) % Capacity].age >= e[(k + i) % Capacity].age
  <2>1. /\ i \in 0 .. m - 1 /\ i - 1 \in 0 .. m - 1 /\ k + (i - 1) = k + i - 1
        /\ n + i \in 1 .. count - 1 /\ head + (n + (i - 1)) = head + (n + i) - 1
    <3> HIDE DEF k, e, b
    <3> QED
      BY <1>2, <1>4
  <2>2. entries[(head + (n + i) - 1) % Capacity].age >= entries[(head + (n + i)) % Capacity].age
    BY <2>1 DEF Sound
  <2>3. e[(k + i) % Capacity] = entries[(head + (n + i)) % Capacity]
    BY <1>5, <2>1, Zenon
  <2>4. e[(k + (i - 1)) % Capacity] = entries[(head + (n + (i - 1))) % Capacity]
    BY <1>5, <2>1, Zenon
  <2>5. e[(k + i - 1) % Capacity] = entries[(head + (n + i) - 1) % Capacity]
    BY <2>1, <2>4, Zenon
  <2> HIDE DEF k, e, b, m
  <2> QED
    BY <2>2, <2>3, <2>5, Zenon
<1>9. m \in 0 .. Capacity
    BY <1>2
<1>10. Sound(e, k, tail, m, b)
  <2> HIDE DEF k, e, b, m
  <2> QED
    BY <1>3, <1>4, <1>6, <1>7, <1>8, <1>9 DEF Sound
<1> HIDE DEF k, e, b
<1> QED
    BY <1>1, <1>10

\* cleanOldEntries stops within the window.
LEMMA OldBounds ==
    ASSUME WindowTypes
    PROVE  Old \in 0 .. count
<1> DEFINE T == {i \in 0 .. count - 1 : entries[(head + i) % Capacity].age =< Second}
<1>1. CASE T = {}
    BY <1>1 DEF Old, WindowTypes
<1>2. CASE T # {}
  <2>1. T \subseteq Nat /\ T \subseteq 0 .. count
    BY DEF WindowTypes
  <2>2. \E x \in T : \A y \in T : x =< y
    <3> HIDE DEF T
    <3> QED
      BY <1>2, <2>1, LeastNat
  <2>3. Min(T) \in T
    <3> HIDE DEF T
    <3> QED
      BY <2>2 DEF Min
  <2>4. Old = Min(T)
    <3>1. \E i \in 0 .. count - 1 : entries[(head + i) % Capacity].age =< Second
      BY <1>2
    <3> QED
      BY <3>1, Zenon DEF Old
  <2> HIDE DEF T
  <2> QED
    BY <2>1, <2>3, <2>4
<1> QED
    BY <1>1, <1>2

LEMMA CleanedSound ==
    ASSUME WindowTypes, WindowConsistent
    PROVE  LET c == Cleaned
           IN  /\ Sound(c.entries, c.head, tail, c.count, c.totalBytes)
               /\ c.count \in 0 .. count
<1>1. Sound(entries, head, tail, count, totalBytes)
    BY SoundIsConsistent
<1>2. Old \in 0 .. count
    BY OldBounds
<1> DEFINE c == Dropped(Old)
<1>3. Sound(c.entries, c.head, tail, c.count, c.totalBytes) /\ c.count = count - Old
    BY <1>1, <1>2, DroppedSound
<1>4. count \in Nat
    BY DEF WindowTypes
<1>5. c.count \in 0 .. count
  <2> HIDE DEF c
  <2> QED
    BY <1>2, <1>3, <1>4
<1> HIDE DEF c
<1>6. Cleaned = c
    BY DEF Cleaned, c
<1> QED
    BY <1>3, <1>5, <1>6

\* Appending at the tail of a window with room.
LEMMA AppendSound ==
    ASSUME NEW e, NEW h, NEW t, NEW n, NEW b, Sound(e, h, t, n, b), n < Capacity,
           NEW x \in Nat
    PROVE  Sound([e EXCEPT ![t] = [age |-> 0, bytes |-> x]], h, (t + 1) % Capacity, n + 1, b + x)
<1> DEFINE new == [age |-> 0, bytes |-> x]
           f == [e EXCEPT ![t] = new]
<1>1. /\ e \in Ring /\ h \in Slots /\ t \in Slots /\ n \in Nat /\ b \in Nat
      /\ h \in Nat /\ h < Capacity /\ Capacity \in Nat \ {0}
  <2>1. e \in Ring /\ h \in Slots /\ t \in Slots /\ n \in 0 .. Capacity /\ b \in Nat
    BY SoundTypes, Zenon
  <2> QED
    BY <2>1, SlotFacts
<1>2. t = (h + n) % Capacity
    BY DEF Sound
<1>3. new \in Entry /\ f \in Ring
  <2>1. new \in Entry
    BY LimiterAssumption DEF Entry, Ages
  <2> HIDE DEF new
  <2> QED
    BY <1>1, <2>1 DEF Ring
<1>4. f[t] = new
    BY <1>1 DEF Ring
<1>5. ASSUME NEW i \in 0 .. n - 1
      PROVE  /\ (h + i) % Capacity \in Slots
             /\ f[(h + i) % Capacity] = e[(h + i) % Capacity]
  <2>1. i \in Nat /\ i < Capacity /\ i # n /\ h + i \in Nat
    BY <1>1
  <2>2. (h + i) % Capacity # t
    BY <1>1, <1>2, <2>1, RingApart
  <2>3. (h + i) % Capacity \in Slots
    BY <2>1, ModSlot, Zenon
  <2> HIDE DEF new
  <2> QED
    BY <1>1, <2>2, <2>3 DEF Ring
<1> HIDE DEF f
<1>6. b + x = BytesFrom(f, h, n + 1)
  <2>1. BytesFrom(e, h, n) = BytesFrom(f, h, n)
    <3>1. \A i \in 0 .. n - 1 : e[(h + i) % Capacity].bytes = f[(h + i) % Capacity].bytes
      BY <1>5, Zenon
    <3> QED
      BY <1>1, <1>3, <3>1, SameBytes
  <2>2. BytesFrom(f, h, n + 1) = BytesFrom(f, h, n) + f[(h + n) % Capacity].bytes
    BY <1>1, <1>3, BytesFromRecursive, Zenon
  <2>3. f[(h + n) % Capacity].bytes = x
    BY <1>2, <1>4
  <2>4. b = BytesFrom(e, h, n)
    BY DEF Sound
  <2> QED
    BY <2>1, <2>2, <2>3, <2>4, Zenon
<1>7. (t + 1) % Capacity = (h + (n + 1)) % Capacity
  <2>1. /\ h + n \in 0 .. 2 * Capacity - 1 /\ t + 1 \in 0 .. 2 * Capacity - 1
        /\ h + (n + 1) \in 0 .. 2 * Capacity - 1
    BY <1>1, SlotFacts
  <2>2. /\ t = Wrapped(h + n) /\ (t + 1) % Capacity = Wrapped(t + 1)
        /\ (h + (n + 1)) % Capacity = Wrapped(h + (n + 1))
    BY <1>2, <2>1, ModSmall, Zenon
  <2>3. Wrapped(t + 1) = Wrapped(h + (n + 1))
    BY <1>1, <2>2 DEF Wrapped
  <2> QED
    BY <2>2, <2>3
<1>8. ASSUME NEW i \in 1 .. n
      PROVE  f[(h + i - 1) % Capacity].age >= f[(h + i) % Capacity].age
  <2>0. i - 1 \in 0 .. n - 1 /\ h + (i - 1) = h + i - 1
    BY <1>1
  <2>1. f[(h + i - 1) % Capacity] = e[(h + i - 1) % Capacity] /\ (h + i - 1) % Capacity \in Slots
    <3>1. f[(h + (i - 1)) % Capacity] = e[(h + (i - 1)) % Capacity] /\ (h + (i - 1)) % Capacity \in Slots
      BY <1>5, <2>0, Zenon
    <3> QED
      BY <2>0, <3>1, Zenon
  <2>2. CASE i = n
    <3>1. f[(h + i) % Capacity].age = 0
      BY <1>2, <1>4, <2>2
    <3>2. e[(h + i - 1) % Capacity].age \in Nat
      BY <1>1, <2>1 DEF Ring, Entry, Ages
    <3> QED
      BY <2>1, <3>1, <3>2
  <2>3. CASE i # n
    <3>1. i \in 0 .. n - 1 /\ i \in 1 .. n - 1
      BY <1>1, <2>3
    <3>2. f[(h + i) % Capacity] = e[(h + i) % Capacity]
      BY <1>5, <3>1, Zenon
    <3>3. e[(h + i - 1) % Capacity].age >= e[(h + i) % Capacity].age
      BY <3>1 DEF Sound
    <3> QED
      BY <2>1, <3>2, <3>3, Zenon
  <2> QED
    BY <2>2, <2>3
<1>9. n + 1 \in 0 .. Capacity /\ (n + 1) - 1 = n
    BY <1>1
<1>10. Sound(f, h, (t + 1) % Capacity, n + 1, b + x)
    BY <1>1, <1>3, <1>6, <1>7, <1>8, <1>9, Zenon DEF Sound
<1> QED
    BY <1>10 DEF f

\* Add leaves a sound window: a full ring first loses its oldest entry.
LEMMA AddSound ==
    ASSUME WindowTypes, WindowConsistent, NEW x \in Nat, Add(x)
    PROVE  WindowTypes' /\ WindowConsistent'
<1> DEFINE n == IF Old = 0 /\ count = Capacity THEN 1 ELSE Old
           c == Dropped(n)
<1>1. Sound(entries, head, tail, count, totalBytes)
    BY SoundIsConsistent
<1>2. n \in 0 .. count /\ count - n < Capacity
  <2>1. Old \in 0 .. count
    BY OldBounds
  <2>2. count \in 0 .. Capacity /\ Capacity \in Nat \ {0}
    BY SlotFacts DEF WindowTypes
  <2> QED
    BY <2>1, <2>2
<1>3. /\ entries' = [c.entries EXCEPT ![tail] = [age |-> 0, bytes |-> x]]
      /\ head' = c.head /\ tail' = (tail + 1) % Capacity
      /\ count' = c.count + 1 /\ totalBytes' = c.totalBytes + x
    BY DEF Add
<1> HIDE DEF n
<1>4. Sound(c.entries, c.head, tail, c.count, c.totalBytes) /\ c.count = count - n
    BY <1>1, <1>2, DroppedSound
<1> HIDE DEF c
<1>5. Sound(entries', head', tail', count', totalBytes')
  <2>1. c.count < Capacity
    BY <1>2, <1>4
  <2>2. Sound([c.entries EXCEPT ![tail] = [age |-> 0, bytes |-> x]], c.head, (tail + 1) % Capacity,
              c.count + 1, c.totalBytes + x)
    BY <1>4, <2>1, AppendSound, Zenon
  <2> QED
    BY <1>3, <2>2, Zenon
<1>6. WindowTypes'
  <2>1. entries' \in Ring /\ head' \in Slots /\ tail' \in Slots /\ count' \in 0 .. Capacity /\ totalBytes' \in Nat
    BY <1>5, SoundTypes, Zenon
  <2> QED
    BY <2>1 DEF WindowTypes
<1>7. WindowConsistent'
    BY <1>5 DEF Sound, WindowConsistent
<1> QED
    BY <1>6, <1>7

\* So does a cleaning on its own.
LEMMA CleaningSound ==
    ASSUME WindowTypes, WindowConsistent,
           LET c == Cleaned IN /\ entries' = c.entries /\ head' = c.head
                               /\ count' = c.count /\ totalBytes' = c.totalBytes,
           tail' = tail
    PROVE  WindowTypes' /\ WindowConsistent'
<1> DEFINE c == Cleaned
<1>1. Sound(c.entries, c.head, tail, c.count, c.totalBytes)
    BY CleanedSound
<1>2. entries' = c.entries /\ head' = c.head /\ count' = c.count /\ totalBytes' = c.totalBytes
    OBVIOUS
<1> HIDE DEF c
<1>3. Sound(entries', head', tail', count', totalBytes')
    BY <1>1, <1>2, Zenon
<1>4. WindowTypes'
  <2>1. entries' \in Ring /\ head' \in Slots /\ tail' \in Slots /\ count' \in 0 .. Capacity /\ totalBytes' \in Nat
    BY <1>3, SoundTypes, Zenon
  <2> QED
    BY <2>1 DEF WindowTypes
<1>5. WindowConsistent'
    BY <1>3 DEF Sound, WindowConsistent
<1> QED
    BY <1>4, <1>5

LEMMA NewWindowSound ==
    ASSUME NEW e, e = [s \in Slots |-> Empty]
    PROVE  Sound(e, 0, 0, 0, 0)
<1>1. e \in Ring
    BY LimiterAssumption DEF Ring, Entry, Empty, Ages
<1>2. 0 \in Slots /\ 0 \in 0 .. Capacity /\ (0 + 0) % Capacity = 0
    BY LimiterAssumption DEF Slots
<1>3. BytesFrom(e, 0, 0) = 0
    BY <1>1, BytesFromRecursive
<1>4. \A i \in 1 .. 0 - 1 : e[(0 + i - 1) % Capacity].age >= e[(0 + i) % Capacity].age
    OBVIOUS
<1> QED
    BY <1>1, <1>2, <1>3, <1>4 DEF Sound

\* Time passes for all live entries alike, up to the age past which they are equal.
LEMMA TickSound ==
    ASSUME WindowTypes, WindowConsistent, Tick
    PROVE  WindowTypes' /\ WindowConsistent'
<1> DEFINE older(s) == Minimum(entries[s].age + 1, Second + 1)
<1>1. /\ entries \in Ring /\ head \in Slots /\ count \in 0 .. Capacity
      /\ head' = head /\ tail' = tail /\ count' = count /\ totalBytes' = totalBytes
      /\ head \in Nat /\ count \in Nat /\ Second \in Nat
    BY SlotFacts, LimiterAssumption DEF WindowTypes, Tick
<1>2. ASSUME NEW s \in Slots
      PROVE  /\ entries[s] \in Entry /\ entries'[s] \in Entry
             /\ entries'[s].bytes = entries[s].bytes
             /\ s \in Live(head, count) => entries'[s].age = older(s)
  <2>1. entries[s] \in Entry
    BY <1>1 DEF Ring
  <2>2. entries[s].age \in 0 .. Second + 1 /\ entries[s].bytes \in Nat
    BY <2>1 DEF Entry, Ages
  <2>3. older(s) \in Ages
    BY <1>1, <2>2 DEF Minimum, Ages
  <2>4. entries'[s] = IF s \in Live(head, count) THEN [entries[s] EXCEPT !.age = older(s)]
                      ELSE entries[s]
    BY DEF Tick
  <2> HIDE DEF older
  <2>5. CASE s \in Live(head, count)
    <3>1. entries'[s] = [entries[s] EXCEPT !.age = older(s)]
      BY <2>4, <2>5
    <3> QED
      BY <2>1, <2>3, <3>1 DEF Entry
  <2>6. CASE s \notin Live(head, count)
    BY <2>1, <2>4, <2>6
  <2> QED
    BY <2>5, <2>6
<1>3. entries' \in Ring
  <2>1. entries' = [s \in Slots |-> entries'[s]]
    BY DEF Tick
  <2> QED
    BY <1>2, <2>1 DEF Ring
<1>4. WindowTypes'
    BY <1>1, <1>3 DEF WindowTypes
<1>5. BytesFrom(entries', head, count) = BytesFrom(entries, head, count)
  <2>1. \A i \in 0 .. count - 1 : (head + i) % Capacity \in Slots
    <3> SUFFICES ASSUME NEW i \in 0 .. count - 1 PROVE (head + i) % Capacity \in Slots
      OBVIOUS
    <3>1. head + i \in Nat
      BY <1>1
    <3> QED
      BY <3>1, ModSlot, Zenon
  <2>2. \A i \in 0 .. count - 1 : entries'[(head + i) % Capacity].bytes = entries[(head + i) % Capacity].bytes
    BY <1>2, <2>1, Zenon
  <2> QED
    BY <1>1, <1>3, <2>2, SameBytes
<1>6. ASSUME NEW i \in 1 .. count - 1
      PROVE  entries'[(head + i - 1) % Capacity].age >= entries'[(head + i) % Capacity].age
  <2> DEFINE s == (head + i - 1) % Capacity
             t == (head + i) % Capacity
  <2>1. s \in Slots /\ t \in Slots
    <3>1. head + i - 1 \in Nat /\ head + i \in Nat
      BY <1>1
    <3> QED
      BY <3>1, ModSlot, Zenon
  <2>2. s \in Live(head, count) /\ t \in Live(head, count)
    <3>1. i \in 0 .. count - 1 /\ i - 1 \in 0 .. count - 1 /\ head + (i - 1) = head + i - 1
      BY <1>1
    <3>2. (head + (i - 1)) % Capacity \in Live(head, count) /\ t \in Live(head, count)
      BY <3>1, Zenon DEF Live
    <3> QED
      BY <3>1, <3>2, Zenon
  <2>3. entries[s].age >= entries[t].age
    BY DEF WindowConsistent
  <2> HIDE DEF s, t
  <2>4. entries'[s].age = older(s) /\ entries'[t].age = older(t)
    <3> HIDE DEF older
    <3> QED
      BY <1>2, <2>1, <2>2
  <2>5. entries[s].age \in 0 .. Second + 1 /\ entries[t].age \in 0 .. Second + 1
    BY <1>2, <2>1 DEF Entry, Ages
  <2>6. older(s) >= older(t)
    BY <1>1, <2>3, <2>5 DEF Minimum
  <2>7. entries'[s].age >= entries'[t].age
    <3> HIDE DEF older
    <3> QED
      BY <2>4, <2>6
  <2> QED
    BY <2>7 DEF s, t
<1>7. WindowConsistent'
  <2>1. totalBytes = BytesFrom(entries, head, count) /\ tail = (head + count) % Capacity
    BY DEF WindowConsistent
  <2> HIDE DEF older
  <2>2. totalBytes' = BytesFrom(entries', head', count')
    BY <1>1, <1>5, <2>1
  <2>3. tail' = (head' + count') % Capacity
    BY <1>1, <2>1
  <2>4. \A i \in 1 .. count' - 1 : entries'[(head' + i - 1) % Capacity].age >= entries'[(head' + i) % Capacity].age
    BY <1>1, <1>6
  <2> QED
    BY <2>2, <2>3, <2>4, Zenon DEF WindowConsistent
<1> QED
    BY <1>4, <1>7

-----------------------------------------------------------------------------
(* The bucket and the limit *)

LEMMA DivNat == \A a \in Nat, b \in Nat \ {0} : a \div b \in Nat
OBVIOUS

LEMMA ProductNat == \A a \in Nat, b \in Nat : a * b \in Nat
OBVIOUS

LEMMA Clamp == \A t \in Nat : Low(t) \in Nat /\ High(t) \in Nat /\ t \in Low(t) .. High(t)
BY DEF Low, High

\* What a refilled bucket holds, and what a call can take from it.
LEMMA PaidFromBucket ==
    ASSUME TypeOK, WindowConsistent, LimitNearTarget
    PROVE  /\ Allowed(Cleaned) \in Nat
           /\ Refilled - Paid(Cleaned) \in 0 .. BurstCapacity
<1> DEFINE c == Cleaned
           r == Rate(c)
<1>1. r \in Nat
  <2>1. WindowTypes
    BY DEF TypeOK, WindowTypes, Ring, Entry
  <2>2. Sound(c.entries, c.head, tail, c.count, c.totalBytes)
    BY <2>1, CleanedSound
  <2> HIDE DEF c
  <2>3. c.entries \in Ring /\ c.head \in Slots /\ c.totalBytes \in Nat
    BY <2>2, SoundTypes, Zenon
  <2>4. c.entries[c.head].age \in Nat
    BY <2>3 DEF Ring, Entry, Ages
  <2>5. c.totalBytes * Second \in Nat
    BY <2>3, ProductNat, LimiterAssumption
  <2> DEFINE a == c.entries[c.head].age
             p == c.totalBytes * Second
  <2>6. a # 0 => p \div a \in Nat
    <3> HIDE DEF a, p
    <3>1. a # 0 => a \in Nat \ {0}
      BY <2>4 DEF a
    <3>2. p \in Nat
      BY <2>5 DEF p
    <3> QED
      BY <3>1, <3>2, DivNat, Zenon
  <2>7. Rate(c) = IF c.count = 0 \/ a = 0 THEN 0 ELSE p \div a
    BY DEF Rate
  <2> HIDE DEF a, p
  <2> QED
    BY <2>6, <2>7
<1>2. currentLimit \in Nat /\ requested \in Nat /\ burstTokens \in Nat
    BY LimiterAssumption DEF TypeOK
<1>3. BurstCapacity \in Nat
  <2>1. target \in Nat /\ BurstDivisor \in Nat \ {0}
    BY LimiterAssumption DEF TypeOK
  <2> QED
    BY <2>1, DivNat, Zenon DEF BurstCapacity
<1>4. Refilled \in 0 .. BurstCapacity
  <2>1. currentLimit * fillAge \in Nat
    <3>1. fillAge \in Nat
      BY LimiterAssumption DEF TypeOK, Ages
    <3> QED
      BY <1>2, <3>1, ProductNat, Zenon
  <2>2. (currentLimit * fillAge) \div Second \in Nat
    <3>1. Second \in Nat \ {0}
      BY LimiterAssumption
    <3> QED
      BY <2>1, <3>1, DivNat, Zenon
  <2> DEFINE gain == (currentLimit * fillAge) \div Second
  <2>3. Refilled = Minimum(burstTokens + gain, BurstCapacity)
    BY DEF Refilled
  <2>4. gain \in Nat
    BY <2>2
  <2> HIDE DEF gain
  <2> QED
    BY <1>2, <1>3, <2>3, <2>4 DEF Minimum
<1> HIDE DEF r, c
<1>5. /\ Allowed(c) = IF r < currentLimit THEN Minimum(requested, (currentLimit - r) + Refilled)
                      ELSE Minimum(requested, Refilled)
      /\ Paid(c) = IF r >= currentLimit THEN Allowed(c)
                   ELSE IF Allowed(c) > currentLimit - r THEN Allowed(c) - (currentLimit - r) ELSE 0
    BY DEF Allowed, Paid, Headroom, r
<1>6. Allowed(c) \in Nat
    BY <1>1, <1>2, <1>3, <1>4, <1>5 DEF Minimum
<1>7. Paid(c) \in 0 .. Refilled
  <2>1. CASE r < currentLimit
    <3>1. Allowed(c) =< (currentLimit - r) + Refilled
      BY <1>1, <1>2, <1>3, <1>4, <1>5, <2>1 DEF Minimum
    <3> QED
      BY <1>1, <1>2, <1>3, <1>4, <1>5, <1>6, <2>1, <3>1
  <2>2. CASE ~ (r < currentLimit)
    <3>1. Allowed(c) =< Refilled
      BY <1>1, <1>2, <1>3, <1>4, <1>5, <2>2 DEF Minimum
    <3> QED
      BY <1>1, <1>2, <1>3, <1>4, <1>5, <1>6, <2>2, <3>1
  <2> QED
    BY <2>1, <2>2
<1>8. Refilled - Paid(c) \in 0 .. BurstCapacity
    BY <1>3, <1>4, <1>7
<1> QED
    BY <1>6, <1>8 DEF c

\* The part of the state a limiter decides by, apart from the window.
LimitTypes ==
    /\ target \in Targets /\ currentLimit \in Nat
    /\ burstTokens \in Nat /\ fillAge \in Ages

CallTypes ==
    /\ pc \in {"idle", "first", "again", "chunk", "read", "add"}
    /\ requested \in Requests \cup {0} /\ readSize \in Nat
    /\ detached \in BOOLEAN /\ open \in BOOLEAN

LEMMA TypeParts == TypeOK <=> LimitTypes /\ WindowTypes /\ CallTypes
BY DEF TypeOK, LimitTypes, WindowTypes, CallTypes, Ring, Entry

LEMMA SameWindow ==
    ASSUME WindowTypes, WindowConsistent, UNCHANGED window
    PROVE  WindowTypes' /\ WindowConsistent'
BY DEF WindowTypes, WindowConsistent, window

LEMMA SameLimit ==
    ASSUME LimitTypes, LimitNearTarget, UNCHANGED limiter, UNCHANGED bucket
    PROVE  LimitTypes' /\ LimitNearTarget'
BY DEF LimitTypes, LimitNearTarget, limiter, bucket, BurstCapacity

\* calculateAllowedBytes, whichever of the three calls of Read makes it.
LEMMA CalculateStep ==
    ASSUME TypeOK, WindowConsistent, LimitNearTarget, CalculateAllowedBytes, UNCHANGED limiter
    PROVE  /\ WindowTypes' /\ WindowConsistent' /\ LimitTypes' /\ LimitNearTarget'
           /\ readSize' \in Nat
<1>1. WindowTypes' /\ WindowConsistent'
  <2>1. WindowTypes
    BY TypeParts
  <2>2. /\ LET c == Cleaned IN /\ entries' = c.entries /\ head' = c.head
                               /\ count' = c.count /\ totalBytes' = c.totalBytes
        /\ tail' = tail
    BY DEF CalculateAllowedBytes
  <2> QED
    BY <2>1, <2>2, CleaningSound
<1>2. /\ Allowed(Cleaned) \in Nat
      /\ Refilled - Paid(Cleaned) \in 0 .. BurstCapacity
    BY PaidFromBucket
<1>3. /\ readSize' = Allowed(Cleaned) /\ burstTokens' = Refilled - Paid(Cleaned)
      /\ fillAge' = 0
    BY DEF CalculateAllowedBytes
<1>4. target' = target /\ currentLimit' = currentLimit /\ BurstCapacity' = BurstCapacity
    BY DEF limiter, BurstCapacity
<1>5. readSize' \in Nat /\ burstTokens' \in 0 .. BurstCapacity'
    BY <1>2, <1>3, <1>4, Zenon
<1>6. fillAge' \in Ages
    BY <1>3, LimiterAssumption DEF Ages
<1>7. burstTokens' \in Nat
    BY <1>5
<1>8. LimitTypes'
    BY <1>4, <1>6, <1>7, TypeParts DEF LimitTypes
<1>9. LimitNearTarget'
    BY <1>4, <1>5 DEF LimitNearTarget
<1> QED
    BY <1>1, <1>5, <1>8, <1>9

LEMMA NewTarget ==
    ASSUME NEW t \in Targets
    PROVE  /\ t \in Nat /\ t \in Low(t) .. High(t)
           /\ t \div BurstDivisor \in Nat
           /\ t \div BurstDivisor \in 0 .. t \div BurstDivisor
<1>1. t \in Nat /\ BurstDivisor \in Nat \ {0}
    BY LimiterAssumption
<1>2. t \div BurstDivisor \in Nat
    BY <1>1, DivNat, Zenon
<1> DEFINE d == t \div BurstDivisor
<1>3. d \in 0 .. d
  <2>1. d \in Nat
    BY <1>2
  <2> HIDE DEF d
  <2> QED
    BY <2>1
<1> QED
    BY <1>1, <1>2, <1>3, Clamp, Zenon

LEMMA InvInit == Init => TypeOK /\ WindowConsistent /\ LimitNearTarget
<1> SUFFICES ASSUME Init PROVE TypeOK /\ WindowConsistent /\ LimitNearTarget
    OBVIOUS
<1>1. Sound(entries, head, tail, count, totalBytes)
    BY NewWindowSound DEF Init
<1>2. WindowTypes /\ WindowConsistent
  <2>1. entries \in Ring /\ head \in Slots /\ tail \in Slots /\ count \in 0 .. Capacity /\ totalBytes \in Nat
    BY <1>1, SoundTypes, Zenon
  <2>2. WindowTypes
    BY <2>1 DEF WindowTypes
  <2> QED
    BY <1>1, <2>2, SoundIsConsistent
<1>3. target \in Targets /\ currentLimit = target /\ burstTokens = target \div BurstDivisor /\ fillAge = 0
    BY DEF Init, BurstCapacity
<1>4. LimitTypes
    BY <1>3, NewTarget, LimiterAssumption DEF LimitTypes, Ages
<1>5. LimitNearTarget
    BY <1>3, NewTarget, Zenon DEF LimitNearTarget, BurstCapacity
<1>6. CallTypes
    BY DEF Init, CallTypes
<1> QED
    BY <1>2, <1>4, <1>5, <1>6, TypeParts

LEMMA InvStep ==
    ASSUME TypeOK, WindowConsistent, LimitNearTarget, [Next]_vars
    PROVE  TypeOK' /\ WindowConsistent' /\ LimitNearTarget'
<1>0. LimitTypes /\ WindowTypes /\ CallTypes
    BY TypeParts
<1> SUFFICES /\ LimitTypes' /\ WindowTypes' /\ CallTypes'
             /\ WindowConsistent' /\ LimitNearTarget'
    BY TypeParts, PTL
<1>1. CASE Begin
  <2>1. UNCHANGED <<window, limiter, bucket>>
    BY <1>1 DEF Begin
  <2>2. CallTypes'
    BY <1>0, <1>1 DEF Begin, CallTypes
  <2> QED
    BY <1>0, <2>1, <2>2, SameWindow, SameLimit
<1>2. CASE First
  <2>1. CalculateAllowedBytes /\ UNCHANGED limiter
    BY <1>2 DEF First
  <2>2. /\ WindowTypes' /\ WindowConsistent' /\ LimitTypes' /\ LimitNearTarget'
        /\ readSize' \in Nat
    BY <2>1, CalculateStep
  <2>3. pc' \in {"again", "chunk", "read"} /\ UNCHANGED <<requested, detached, open>>
    BY <1>2 DEF First, After
  <2>4. CallTypes'
    BY <1>0, <2>2, <2>3 DEF CallTypes
  <2> QED
    BY <2>2, <2>4
<1>3. CASE Again
  <2>1. CalculateAllowedBytes /\ UNCHANGED limiter
    BY <1>3 DEF Again
  <2>2. /\ WindowTypes' /\ WindowConsistent' /\ LimitTypes' /\ LimitNearTarget'
        /\ readSize' \in Nat
    BY <2>1, CalculateStep
  <2>3. pc' \in {"again", "chunk", "read"} /\ UNCHANGED <<requested, detached, open>>
    BY <1>3 DEF Again, After
  <2>4. CallTypes'
    BY <1>0, <2>2, <2>3 DEF CallTypes
  <2> QED
    BY <2>2, <2>4
<1>4. CASE Chunk
  <2>1. CalculateAllowedBytes /\ UNCHANGED limiter
    BY <1>4 DEF Chunk
  <2>2. /\ WindowTypes' /\ WindowConsistent' /\ LimitTypes' /\ LimitNearTarget'
        /\ readSize' \in Nat
    BY <2>1, CalculateStep
  <2>3. pc' = "read" /\ UNCHANGED <<requested, detached, open>>
    BY <1>4 DEF Chunk
  <2>4. CallTypes'
    BY <1>0, <2>2, <2>3 DEF CallTypes
  <2> QED
    BY <2>2, <2>4
<1>5. CASE UnderlyingRead
  <2>1. UNCHANGED <<window, limiter, bucket>>
    BY <1>5 DEF UnderlyingRead
  <2>2. CallTypes'
    BY <1>0, <1>5 DEF UnderlyingRead, CallTypes
  <2> QED
    BY <1>0, <2>1, <2>2, SameWindow, SameLimit
<1>6. CASE Count
  <2>1. UNCHANGED <<limiter, bucket>>
    BY <1>6 DEF Count
  <2>2. CallTypes'
    BY <1>0, <1>6 DEF Count, CallTypes
  <2>3. WindowTypes' /\ WindowConsistent'
    <3>1. CASE detached
      <4>1. UNCHANGED window
        BY <1>6, <3>1 DEF Count
      <4> QED
        BY <1>0, <4>1, SameWindow
    <3>2. CASE ~ detached
      <4>1. Add(readSize) /\ readSize \in Nat
        BY <1>0, <1>6, <3>2 DEF Count, CallTypes
      <4> QED
        BY <1>0, <4>1, AddSound
    <3> QED
      BY <3>1, <3>2
  <2> QED
    BY <1>0, <2>1, <2>2, <2>3, SameLimit
<1>7. CASE Reset
  <2>1. PICK t \in Targets : target' = t /\ currentLimit' = t /\ burstTokens' = t \div BurstDivisor
    BY <1>7 DEF Reset
  <2>2. fillAge' = 0 /\ NewWindow /\ detached' = (pc = "add") /\ UNCHANGED <<pc, requested, readSize, open>>
    BY <1>7 DEF Reset
  <2>3. LimitTypes'
    BY <2>1, <2>2, NewTarget, LimiterAssumption DEF LimitTypes, Ages
  <2>4. LimitNearTarget'
    BY <2>1, NewTarget, Zenon DEF LimitNearTarget, BurstCapacity
  <2>5. CallTypes'
    BY <1>0, <2>2 DEF CallTypes
  <2>6. Sound(entries', head', tail', count', totalBytes')
    <3>1. /\ entries' = [s \in Slots |-> Empty]
          /\ head' = 0 /\ tail' = 0 /\ count' = 0 /\ totalBytes' = 0
      BY <2>2 DEF NewWindow
    <3>2. Sound(entries', 0, 0, 0, 0)
      BY <3>1, NewWindowSound
    <3> QED
      BY <3>1, <3>2, Zenon
  <2>7. WindowTypes'
    <3>1. entries' \in Ring /\ head' \in Slots /\ tail' \in Slots /\ count' \in 0 .. Capacity /\ totalBytes' \in Nat
      BY <2>6, SoundTypes, Zenon
    <3> QED
      BY <3>1 DEF WindowTypes
  <2>8. WindowConsistent'
    BY <2>6 DEF Sound, WindowConsistent
  <2> QED
    BY <2>3, <2>4, <2>5, <2>7, <2>8
<1>8. CASE OptimizeLimit
  <2>1. WindowTypes' /\ WindowConsistent'
    <3>1. /\ LET c == Cleaned IN /\ entries' = c.entries /\ head' = c.head
                                 /\ count' = c.count /\ totalBytes' = c.totalBytes
          /\ tail' = tail
      BY <1>8 DEF OptimizeLimit
    <3> QED
      BY <1>0, <3>1, CleaningSound
  <2>2. CallTypes'
    BY <1>0, <1>8 DEF OptimizeLimit, CallTypes, call
  <2>3. /\ currentLimit' \in Low(target) .. High(target)
        /\ target' = target /\ burstTokens' = burstTokens /\ fillAge' = fillAge
    BY <1>8 DEF OptimizeLimit, bucket
  <2>4. currentLimit' \in Nat
    <3>1. target \in Nat
      BY <1>0, LimiterAssumption DEF LimitTypes
    <3>2. Low(target) \in Nat /\ High(target) \in Nat
      BY <3>1, Clamp
    <3> QED
      BY <2>3, <3>2
  <2>5. LimitTypes'
    BY <1>0, <2>3, <2>4 DEF LimitTypes
  <2>6. LimitNearTarget'
    BY <2>3 DEF LimitNearTarget, BurstCapacity
  <2> QED
    BY <2>1, <2>2, <2>5, <2>6
<1>9. CASE Close
  <2>1. UNCHANGED <<window, limiter, bucket>>
    BY <1>9 DEF Close
  <2>2. CallTypes'
    BY <1>0, <1>9 DEF Close, CallTypes, call
  <2> QED
    BY <1>0, <2>1, <2>2, SameWindow, SameLimit
<1>10. CASE Tick
  <2>1. WindowTypes' /\ WindowConsistent'
    BY <1>0, <1>10, TickSound
  <2>2. CallTypes'
    BY <1>0, <1>10 DEF Tick, CallTypes, call
  <2>3. UNCHANGED <<limiter, burstTokens>> /\ fillAge' = Minimum(fillAge + 1, Second + 1)
    BY <1>10 DEF Tick
  <2>4. fillAge' \in Ages
    BY <1>0, <2>3, LimiterAssumption DEF LimitTypes, Ages, Minimum
  <2>5. LimitTypes'
    BY <1>0, <2>3, <2>4 DEF LimitTypes, limiter
  <2>6. LimitNearTarget'
    BY <2>3 DEF LimitNearTarget, BurstCapacity, limiter
  <2> QED
    BY <2>1, <2>2, <2>5, <2>6
<1>11. CASE UNCHANGED vars
  <2>1. UNCHANGED <<window, limiter, bucket>>
    BY <1>11 DEF vars
  <2>2. CallTypes'
    BY <1>0, <1>11 DEF vars, CallTypes, call
  <2> QED
    BY <1>0, <2>1, <2>2, SameWindow, SameLimit
<1> QED
    BY <1>1, <1>2, <1>3, <1>4, <1>5, <1>6, <1>7, <1>8, <1>9, <1>10, <1>11 DEF Next

-----------------------------------------------------------------------------
(* What a second lets through                                              *)
(*                                                                         *)
(* WindowBounded is not inductive: entries leave the window from the head, *)
(* so every tail of the window needs a bound of its own, and the bytes a   *)
(* read was allowed and has not counted yet belong to it. A tail of k      *)
(* entries has at most k bursts in it; and since its oldest entry, of age  *)
(* a, was counted, at most a ticks of refill, next to the burst that entry *)
(* was given and the one that was in the bucket then.                      *)

TopLimit == High(Max(Targets))
TopBurst == Max(Targets) \div BurstDivisor

\* The bytes of the entries from the i-th on.
Tail(e, h, n, i) == BytesFrom(e, (h + i) % Capacity, n - i)

\* A tail of t bytes in k entries, the oldest of age a, with x bytes allowed and
\* not counted, tokens in the bucket and its last refill f ticks ago.
Fits(t, a, k, x, tokens, f) ==
    /\ t =< TopLimit + k * TopBurst
    /\ t + x =< TopLimit + (k + 1) * TopBurst
    /\ t =< 2 * TopLimit + 2 * TopBurst
    /\ a =< Second =>
         \/ Second * (t + x) =< Second * (TopLimit + TopBurst) + TopLimit * a
         \/ Second * (t + x + tokens) + TopLimit * f
              =< Second * (TopLimit + 2 * TopBurst) + TopLimit * a

TailsFit(e, h, n, x, tokens, f) ==
    \A i \in 0 .. n - 1 : Fits(Tail(e, h, n, i), e[(h + i) % Capacity].age, n - i, x, tokens, f)

Throughput ==
    /\ TailsFit(entries, head, count, readSize, burstTokens, fillAge)
    /\ readSize =< TopLimit + TopBurst

\* Throughput in the next state, spelled out.
LEMMA ThroughputNext ==
    Throughput' <=> /\ TailsFit(entries', head', count', readSize', burstTokens', fillAge')
                    /\ readSize' =< TopLimit + TopBurst
BY DEF Throughput, TailsFit, Fits, Tail, TopLimit, TopBurst, BytesFrom, High

LEMMA TopFacts ==
    /\ TopLimit \in Nat /\ TopBurst \in Nat /\ Second \in Nat \ {0}
    /\ \A t \in Targets : High(t) =< TopLimit /\ t \div BurstDivisor =< TopBurst
<1> DEFINE m == Max(Targets)
<1>1. m \in Targets /\ \A t \in Targets : t =< m
  <2>1. \E t \in Targets : \A u \in Targets : t >= u
    <3>1. PICK t \in Targets : \A u \in Targets : u =< t
      BY LimiterAssumption
    <3>2. \A u \in Targets : t >= u
      BY <3>1, LimiterAssumption
    <3> QED
      BY <3>2
  <2>2. m \in Targets /\ \A u \in Targets : m >= u
    BY <2>1 DEF Max
  <2> HIDE DEF m
  <2> QED
    BY <2>2, LimiterAssumption
<1>2. TopLimit = High(m) /\ TopBurst = m \div BurstDivisor
    BY DEF TopLimit, TopBurst
<1> HIDE DEF m
<1>3. m \in Nat /\ BurstDivisor \in Nat \ {0} /\ Second \in Nat \ {0} /\ \A t \in Targets : t \in Nat
    BY <1>1, LimiterAssumption
<1>4. TopLimit \in Nat
    BY <1>2, <1>3, Clamp
<1>5. TopBurst \in Nat
    BY <1>2, <1>3, DivNat
<1>6. ASSUME NEW t \in Targets PROVE High(t) =< TopLimit
    BY <1>1, <1>2, <1>3 DEF High
<1>7. ASSUME NEW t \in Targets PROVE t \div BurstDivisor =< TopBurst
    BY <1>1, <1>2, <1>3
<1> QED
    BY <1>3, <1>4, <1>5, <1>6, <1>7

LEMMA Scaled == \A a, b \in Nat, s \in Nat : a =< b => s * a =< s * b /\ a * s =< b * s
OBVIOUS

LEMMA QuotientAtLeast ==
    ASSUME NEW p \in Nat, NEW s \in Nat, NEW a \in Nat \ {0}, a =< s
    PROVE  (p * s) \div a >= p
OBVIOUS

\* Fewer bytes not counted, time passing, and the two ways a read is counted.
LEMMA FitsLess ==
    ASSUME NEW t \in Nat, NEW a \in Nat, NEW k \in Nat, NEW x \in Nat, NEW r \in Nat,
           NEW f \in Nat, NEW y \in Nat, y =< x, Fits(t, a, k, x, r, f)
    PROVE  Fits(t, a, k, y, r, f)
<1>1. TopLimit \in Nat /\ TopBurst \in Nat /\ Second \in Nat
    BY TopFacts
<1>2. Second * (t + y) =< Second * (t + x) /\ Second * (t + y + r) =< Second * (t + x + r)
    BY <1>1, Scaled
<1>3. t + y =< t + x
    OBVIOUS
<1> QED
    BY <1>1, <1>2, <1>3 DEF Fits

LEMMA FitsTick ==
    ASSUME NEW t \in Nat, NEW a \in Nat, NEW k \in Nat, NEW x \in Nat, NEW r \in Nat,
           NEW f \in Nat, NEW g \in Nat, g =< f + 1, Fits(t, a, k, x, r, f)
    PROVE  Fits(t, Minimum(a + 1, Second + 1), k, x, r, g)
<1>1. TopLimit \in Nat /\ TopBurst \in Nat /\ Second \in Nat
    BY TopFacts
<1> DEFINE b == Minimum(a + 1, Second + 1)
<1>2. b \in Nat /\ (b =< Second => a =< Second /\ b = a + 1)
    BY <1>1 DEF Minimum
<1> HIDE DEF b
<1>3. TopLimit * g =< TopLimit * (f + 1) /\ TopLimit * (f + 1) = TopLimit * f + TopLimit
    BY <1>1, Scaled
<1>4. TopLimit * (a + 1) = TopLimit * a + TopLimit
    BY <1>1
<1>5. ASSUME b =< Second
      PROVE  \/ Second * (t + x) =< Second * (TopLimit + TopBurst) + TopLimit * b
             \/ Second * (t + x + r) + TopLimit * g
                  =< Second * (TopLimit + 2 * TopBurst) + TopLimit * b
  <2>1. a =< Second /\ b = a + 1
    BY <1>2, <1>5
  <2> DEFINE A == Second * (t + x)
             A2 == Second * (t + x + r)
             C == Second * (TopLimit + TopBurst)
             C2 == Second * (TopLimit + 2 * TopBurst)
             u == TopLimit * a
             v == TopLimit * f
             w == TopLimit * g
  <2>2. A =< C + u \/ A2 + v =< C2 + u
    BY <2>1 DEF Fits
  <2>3. TopLimit * b = u + TopLimit
    BY <1>4, <2>1
  <2>4. w =< v + TopLimit
    BY <1>3
  <2>5. A \in Nat /\ A2 \in Nat /\ C \in Nat /\ C2 \in Nat /\ u \in Nat /\ v \in Nat /\ w \in Nat
    BY <1>1, ProductNat
  <2>6. A =< C + TopLimit * b \/ A2 + w =< C2 + TopLimit * b
    <3> HIDE DEF A, A2, C, C2, u, v, w
    <3> QED
      BY <1>1, <2>2, <2>3, <2>4, <2>5
  <2> QED
    BY <2>6
<1>6. Fits(t, b, k, x, r, g)
    BY <1>5 DEF Fits
<1> QED
    BY <1>6 DEF b

LEMMA FitsAdded ==
    ASSUME NEW t \in Nat, NEW a \in Nat, NEW k \in Nat, NEW x \in Nat, NEW r \in Nat,
           NEW f \in Nat, a =< Second, Fits(t, a, k, x, r, f)
    PROVE  Fits(t + x, a, k + 1, 0, r, f)
<1>1. TopLimit \in Nat /\ TopBurst \in Nat /\ Second \in Nat \ {0}
    BY TopFacts
<1>2. t + x + 0 = t + x /\ t + x + 0 + r = t + x + r
    OBVIOUS
<1>3. t + x =< 2 * TopLimit + 2 * TopBurst
  <2>1. TopLimit * a =< Second * TopLimit
    BY <1>1, Scaled
  <2>2. CASE Second * (t + x) =< Second * (TopLimit + TopBurst) + TopLimit * a
    <3>1. Second * (t + x) =< Second * (2 * TopLimit + TopBurst)
      BY <1>1, <2>1, <2>2
    <3>2. t + x =< 2 * TopLimit + TopBurst
      BY <1>1, <3>1
    <3> QED
      BY <1>1, <3>2
  <2>3. CASE Second * (t + x + r) + TopLimit * f
              =< Second * (TopLimit + 2 * TopBurst) + TopLimit * a
    <3>1. Second * (t + x) =< Second * (t + x + r) + TopLimit * f
      <4>1. Second * (t + x) =< Second * (t + x + r) /\ TopLimit * f \in Nat
        BY <1>1, Scaled, ProductNat
      <4> QED
        BY <1>1, <4>1
    <3>2. Second * (t + x) =< Second * (2 * TopLimit + 2 * TopBurst)
      BY <1>1, <2>1, <2>3, <3>1
    <3>3. t + x =< 2 * TopLimit + 2 * TopBurst
      BY <1>1, <3>2
    <3> QED
      BY <3>3
  <2> QED
    BY <2>2, <2>3 DEF Fits
<1>4. t + x =< TopLimit + ((k + 1) + 1) * TopBurst
  <2>1. (k + 1) * TopBurst =< ((k + 1) + 1) * TopBurst
    BY <1>1, Scaled
  <2> QED
    BY <1>1, <2>1 DEF Fits
<1> QED
    BY <1>1, <1>2, <1>3, <1>4 DEF Fits

LEMMA FitsNew ==
    ASSUME NEW x \in Nat, NEW r \in Nat, NEW f \in Nat, x =< TopLimit + TopBurst
    PROVE  Fits(x, 0, 1, 0, r, f)
<1>1. TopLimit \in Nat /\ TopBurst \in Nat /\ Second \in Nat \ {0}
    BY TopFacts
<1>2. Second * (x + 0) =< Second * (TopLimit + TopBurst) + TopLimit * 0
    BY <1>1, Scaled
<1> QED
    BY <1>1, <1>2 DEF Fits

\* A new answer: the bucket is refilled to q and pays y for a read of x bytes.
LEMMA FitsAnswer ==
    ASSUME NEW t \in Nat, NEW a \in Nat, NEW k \in Nat, NEW z \in Nat, NEW r \in Nat,
           NEW f \in Nat, a =< Second, Fits(t, a, k, z, r, f),
           NEW q \in Nat, q =< TopBurst, Second * q =< Second * r + TopLimit * f,
           NEW y \in Nat, y =< q, NEW x \in Nat, x =< y \/ t + x =< TopLimit + y
    PROVE  Fits(t, a, k, x, q - y, 0)
<1>1. TopLimit \in Nat /\ TopBurst \in Nat /\ Second \in Nat \ {0}
    BY TopFacts
<1>2. t + x =< TopLimit + (k + 1) * TopBurst
  <2>1. (k + 1) * TopBurst = k * TopBurst + TopBurst /\ k * TopBurst \in Nat
    BY <1>1, ProductNat
  <2>2. t =< TopLimit + k * TopBurst
    BY DEF Fits
  <2> QED
    BY <1>1, <2>1, <2>2
<1>3. Second * (t + x + (q - y)) + TopLimit * 0 =< Second * (TopLimit + 2 * TopBurst) + TopLimit * a
  <2>0. TopLimit * a \in Nat
    BY <1>1, ProductNat
  <2>1. CASE t + x =< TopLimit + y
    <3>1. t + x + (q - y) =< TopLimit + 2 * TopBurst /\ t + x + (q - y) \in Nat
      BY <1>1, <2>1
    <3>2. Second * (t + x + (q - y)) =< Second * (TopLimit + 2 * TopBurst)
      BY <1>1, <3>1, Scaled
    <3> QED
      BY <1>1, <2>0, <3>2
  <2>2. CASE x =< y
    <3>1. t + x + (q - y) =< t + q /\ t + x + (q - y) \in Nat
      BY <2>2
    <3>2. Second * (t + x + (q - y)) =< Second * (t + q)
      BY <1>1, <3>1, Scaled
    <3>3. CASE Second * (t + z) =< Second * (TopLimit + TopBurst) + TopLimit * a
      <4>1. Second * t =< Second * (t + z) /\ Second * q =< Second * TopBurst
        BY <1>1, Scaled
      <4> QED
        BY <1>1, <2>0, <3>2, <3>3, <4>1
    <3>4. CASE Second * (t + z + r) + TopLimit * f
              =< Second * (TopLimit + 2 * TopBurst) + TopLimit * a
      <4>1. Second * (t + r) =< Second * (t + z + r)
        BY <1>1, Scaled
      <4>2. Second * (t + q) =< Second * (t + r) + TopLimit * f
        BY <1>1
      <4> QED
        BY <1>1, <2>0, <3>2, <3>4, <4>1, <4>2
    <3> QED
      BY <3>3, <3>4 DEF Fits
  <2> QED
    BY <2>1, <2>2
<1> QED
    BY <1>2, <1>3 DEF Fits

LEMMA TailNat ==
    ASSUME NEW e \in Ring, NEW h \in Slots, NEW n \in Nat, NEW i \in 0 .. n
    PROVE  Tail(e, h, n, i) \in Nat
<1>1. h + i \in Nat /\ n - i \in Nat
    BY SlotFacts
<1>2. (h + i) % Capacity \in Slots
    BY <1>1, ModSlot, Zenon
<1>3. (h + i) % Capacity \in Nat
    BY <1>2, SlotFacts
<1> QED
    BY <1>1, <1>3, BytesFromRecursive, Zenon DEF Tail

\* The age of the i-th entry is that of a ring entry.
LEMMA EntryAt ==
    ASSUME NEW e \in Ring, NEW h \in Slots, NEW i \in Nat
    PROVE  /\ (h + i) % Capacity \in Slots
           /\ e[(h + i) % Capacity].age \in Nat /\ e[(h + i) % Capacity].age =< Second + 1
<1>1. h + i \in Nat
    BY SlotFacts
<1>2. (h + i) % Capacity \in Slots
    BY <1>1, ModSlot, Zenon
<1>3. e[(h + i) % Capacity] \in Entry
    BY <1>2 DEF Ring
<1> QED
    BY <1>2, <1>3, LimiterAssumption DEF Entry, Ages

\* Two rings that agree from h on have the same tails.
LEMMA SameTails ==
    ASSUME NEW e \in Ring, NEW f \in Ring, NEW h \in Slots, NEW n \in 0 .. Capacity,
           \A j \in 0 .. n - 1 : e[(h + j) % Capacity].bytes = f[(h + j) % Capacity].bytes,
           NEW i \in 0 .. n - 1
    PROVE  Tail(e, h, n, i) = Tail(f, h, n, i)
<1> DEFINE k == (h + i) % Capacity
<1>1. /\ n \in Nat /\ i \in Nat /\ n - i \in Nat /\ Capacity \in Nat
    BY SlotFacts
<1>2. k \in Nat
  <2>1. k \in Slots
    BY <1>1, EntryAt, Zenon
  <2> QED
    BY <2>1, SlotFacts
<1>3. ASSUME NEW j \in 0 .. (n - i) - 1
      PROVE  e[(k + j) % Capacity].bytes = f[(k + j) % Capacity].bytes
  <2>1. j \in Nat /\ i + j \in 0 .. n - 1 /\ i + j < Capacity
    BY <1>1
  <2>2. (k + j) % Capacity = (h + (i + j)) % Capacity
    BY <1>1, <2>1, RingJoin, Zenon
  <2> HIDE DEF k
  <2> QED
    BY <2>1, <2>2, Zenon
<1> HIDE DEF k
<1>4. BytesFrom(e, k, n - i) = BytesFrom(f, k, n - i)
    BY <1>1, <1>2, <1>3, SameBytes
<1> QED
    BY <1>4 DEF Tail, k

\* What is left after n entries were taken are tails of what there was.
LEMMA DroppedTails ==
    ASSUME Sound(entries, head, tail, count, totalBytes), NEW n \in 0 .. count,
           NEW c, c = Dropped(n), NEW i \in 0 .. c.count - 1
    PROVE  /\ n + i \in 0 .. count - 1 /\ c.count - i = count - (n + i)
           /\ c.entries[(c.head + i) % Capacity] = entries[(head + (n + i)) % Capacity]
           /\ Tail(c.entries, c.head, c.count, i) = Tail(entries, head, count, n + i)
<1> DEFINE k == (head + n) % Capacity
           m == count - n
           e == [s \in Slots |-> IF s \in Live(head, n) THEN Empty ELSE entries[s]]
<1>1. c.entries = e /\ c.head = k /\ c.count = m
    BY DEF Dropped
<1>2. /\ entries \in Ring /\ head \in Slots /\ count \in Nat /\ n \in Nat /\ m \in Nat
      /\ count =< Capacity /\ n =< count /\ n + m = count /\ Capacity \in Nat \ {0}
      /\ head \in Nat /\ m \in 0 .. Capacity
    BY SlotFacts DEF Sound
<1>3. i \in 0 .. m - 1 /\ i \in Nat
    BY <1>1, <1>2
<1>4. Sound(c.entries, c.head, tail, c.count, c.totalBytes)
    BY DroppedSound
<1>5. e \in Ring /\ k \in Slots
    BY <1>1, <1>4 DEF Sound
<1>6. ASSUME NEW j \in 0 .. m - 1
      PROVE  /\ (k + j) % Capacity = (head + (n + j)) % Capacity
             /\ e[(k + j) % Capacity] = entries[(k + j) % Capacity]
  <2>1. j \in Nat /\ n + j \in Nat /\ n + j < Capacity
    BY <1>2
  <2>2. (k + j) % Capacity = (head + (n + j)) % Capacity
    BY <1>2, <2>1, RingJoin, Zenon
  <2>3. (k + j) % Capacity \in Slots
    BY <1>5, <2>1, EntryAt, Zenon
  <2>4. (k + j) % Capacity \notin Live(head, n)
    <3> SUFFICES ASSUME NEW l \in 0 .. n - 1, (k + j) % Capacity = (head + l) % Capacity
                 PROVE  FALSE
      BY DEF Live
    <3>1. (head + (n + j)) % Capacity = (head + l) % Capacity
      BY <2>2
    <3>2. l \in Nat /\ l < Capacity /\ n + j # l
      <4> HIDE DEF k, e, m
      <4> QED
        BY <1>2, <2>1
    <3> QED
      BY <1>2, <2>1, <3>1, <3>2, RingApart, Zenon
  <2> HIDE DEF k
  <2> QED
    BY <2>2, <2>3, <2>4
<1>7. Tail(e, k, m, i) = Tail(entries, head, count, n + i)
  <2>1. \A j \in 0 .. m - 1 : e[(k + j) % Capacity].bytes = entries[(k + j) % Capacity].bytes
    BY <1>6, Zenon
  <2>2. Tail(e, k, m, i) = Tail(entries, k, m, i)
    <3> HIDE DEF e, k, m
    <3> QED
      BY <1>2, <1>3, <1>5, <2>1, SameTails
  <2>3. (k + i) % Capacity = (head + (n + i)) % Capacity
    BY <1>3, <1>6, Zenon
  <2>4. m - i = count - (n + i)
    <3> HIDE DEF e, k
    <3> QED
      BY <1>2, <1>3
  <2> QED
    BY <2>2, <2>3, <2>4, Zenon DEF Tail
<1>8. n + i \in 0 .. count - 1 /\ m - i = count - (n + i)
    BY <1>2, <1>3
<1>9. e[(k + i) % Capacity] = entries[(head + (n + i)) % Capacity]
    BY <1>3, <1>6, Zenon
<1> HIDE DEF e, k, m
<1> QED
    BY <1>1, <1>7, <1>8, <1>9, Zenon

\* Along the window ages fall.
LEMMA AgesFall ==
    ASSUME Sound(entries, head, tail, count, totalBytes),
           NEW i \in 0 .. count - 1, NEW j \in 0 .. count - 1, i =< j
    PROVE  entries[(head + j) % Capacity].age =< entries[(head + i) % Capacity].age
<1> DEFINE g(l) == entries[(head + l) % Capacity].age
           A == {l \in Nat : i + l =< count - 1 => g(i + l) =< g(i)}
<1>1. \A l \in Nat : g(l) \in Nat
    BY EntryAt DEF Sound
<1>2. count \in Nat /\ i \in Nat /\ j \in Nat /\ head \in Nat
    BY SlotFacts DEF Sound
<1>3. \A l \in 1 .. count - 1 : g(l - 1) >= g(l)
  <2> SUFFICES ASSUME NEW l \in 1 .. count - 1 PROVE g(l - 1) >= g(l)
    OBVIOUS
  <2>1. entries[(head + l - 1) % Capacity].age >= entries[(head + l) % Capacity].age
    BY DEF Sound
  <2>2. head + l - 1 = head + (l - 1)
    BY <1>2
  <2> QED
    BY <2>1, <2>2, Zenon
<1> HIDE DEF g
<1>4. 0 \in A
  <2>1. i + 0 = i /\ g(i) =< g(i)
    BY <1>1, <1>2
  <2> QED
    BY <2>1
<1>5. ASSUME NEW l \in Nat, l \in A PROVE l + 1 \in A
  <2> SUFFICES ASSUME i + (l + 1) =< count - 1 PROVE g(i + (l + 1)) =< g(i)
    OBVIOUS
  <2>1. g(i + l) =< g(i)
    BY <1>2, <1>5
  <2>2. i + (l + 1) \in 1 .. count - 1 /\ (i + (l + 1)) - 1 = i + l /\ i + l \in Nat /\ i + (l + 1) \in Nat
    BY <1>2
  <2>3. g(i + l) >= g(i + (l + 1))
    BY <1>3, <2>2
  <2> QED
    BY <1>1, <1>2, <2>1, <2>2, <2>3
<1>6. Nat \subseteq A
  <2> HIDE DEF A
  <2> QED
    BY <1>4, <1>5, InductionOnNat
<1>7. j - i \in Nat /\ i + (j - i) = j /\ j =< count - 1
    BY <1>2
<1>8. j - i \in A
    BY <1>6, <1>7
<1>9. g(j) =< g(i)
    BY <1>7, <1>8
<1> QED
    BY <1>9 DEF g

\* What cleanOldEntries leaves is not older than the window.
LEMMA YoungLeft ==
    ASSUME WindowTypes, WindowConsistent, NEW i \in Nat, Old =< i, i =< count - 1
    PROVE  entries[(head + i) % Capacity].age =< Second
<1> DEFINE T == {j \in 0 .. count - 1 : entries[(head + j) % Capacity].age =< Second}
<1>0. count \in Nat /\ i \in 0 .. count - 1
    BY DEF WindowTypes
<1>1. CASE T = {}
  <2>1. Old = count
    BY <1>1, Zenon DEF Old
  <2> QED
    BY <1>0, <2>1
<1>2. CASE T # {}
  <2>1. T \subseteq Nat
    OBVIOUS
  <2>2. \E x \in T : \A y \in T : x =< y
    <3> HIDE DEF T
    <3> QED
      BY <1>2, <2>1, LeastNat
  <2>3. Min(T) \in T
    <3> HIDE DEF T
    <3> QED
      BY <2>2 DEF Min
  <2>4. Old = Min(T)
    <3>1. \E j \in 0 .. count - 1 : entries[(head + j) % Capacity].age =< Second
      BY <1>2
    <3> QED
      BY <3>1, Zenon DEF Old
  <2>5. Old \in 0 .. count - 1 /\ entries[(head + Old) % Capacity].age =< Second
    <3>1. Old \in T
      BY <2>3, <2>4, Zenon
    <3> QED
      BY <3>1
  <2>6. Sound(entries, head, tail, count, totalBytes)
    BY SoundIsConsistent
  <2> HIDE DEF T
  <2>7. entries[(head + i) % Capacity].age =< entries[(head + Old) % Capacity].age
    BY <1>0, <2>5, <2>6, AgesFall, Zenon
  <2>8. Old \in Nat /\ entries \in Ring /\ head \in Slots /\ Second \in Nat
    BY <2>5, LimiterAssumption DEF WindowTypes
  <2>9. entries[(head + i) % Capacity].age \in Nat /\ entries[(head + Old) % Capacity].age \in Nat
    BY <2>8, EntryAt, Zenon
  <2> QED
    BY <2>5, <2>7, <2>8, <2>9
<1> QED
    BY <1>1, <1>2

LEMMA DroppedFit ==
    ASSUME Sound(entries, head, tail, count, totalBytes), NEW n \in 0 .. count,
           NEW c, c = Dropped(n), NEW x, NEW r, NEW f,
           TailsFit(entries, head, count, x, r, f)
    PROVE  TailsFit(c.entries, c.head, c.count, x, r, f)
<1> SUFFICES ASSUME NEW i \in 0 .. c.count - 1
             PROVE  Fits(Tail(c.entries, c.head, c.count, i), c.entries[(c.head + i) % Capacity].age,
                         c.count - i, x, r, f)
    BY DEF TailsFit
<1>1. /\ n + i \in 0 .. count - 1 /\ c.count - i = count - (n + i)
      /\ c.entries[(c.head + i) % Capacity] = entries[(head + (n + i)) % Capacity]
      /\ Tail(c.entries, c.head, c.count, i) = Tail(entries, head, count, n + i)
    BY DroppedTails
<1>2. Fits(Tail(entries, head, count, n + i), entries[(head + (n + i)) % Capacity].age,
           count - (n + i), x, r, f)
    BY <1>1, Zenon DEF TailsFit
<1> QED
    BY <1>1, <1>2, Zenon

\* A tail holds no more than the window.
LEMMA TailWithin ==
    ASSUME NEW e, NEW h, NEW t, NEW n, NEW b, Sound(e, h, t, n, b), NEW i \in 0 .. n - 1
    PROVE  Tail(e, h, n, i) =< b
<1>1. e \in Ring /\ h \in Slots /\ n \in 0 .. Capacity /\ b = BytesFrom(e, h, n) /\ h \in Nat
    BY SlotFacts DEF Sound
<1>2. i \in Nat /\ n - i \in Nat /\ i + (n - i) = n /\ i + (n - i) =< Capacity /\ n \in Nat /\ i \in 0 .. n
    BY <1>1, SlotFacts
<1>3. BytesFrom(e, h, i + (n - i)) = BytesFrom(e, h, i) + BytesFrom(e, (h + i) % Capacity, n - i)
    BY <1>1, <1>2, SplitBytes, Zenon
<1>4. b = BytesFrom(e, h, i) + Tail(e, h, n, i)
    BY <1>1, <1>2, <1>3, Zenon DEF Tail
<1>5. Tail(e, h, n, i) \in Nat /\ BytesFrom(e, h, i) \in Nat
    BY <1>1, <1>2, TailNat, BytesFromRecursive
<1> QED
    BY <1>4, <1>5

\* The rate over a second is at least what the cleaned window holds.
LEMMA RateCovers ==
    ASSUME WindowTypes, WindowConsistent, ClockMoved
    PROVE  Rate(Cleaned) \in Nat /\ Cleaned.totalBytes =< Rate(Cleaned)
<1> DEFINE c == Cleaned
           a == c.entries[c.head].age
<1>1. Sound(entries, head, tail, count, totalBytes) /\ Old \in 0 .. count
    BY SoundIsConsistent, OldBounds
<1>2. c = Dropped(Old)
    BY DEF Cleaned
<1>3. Sound(c.entries, c.head, tail, c.count, c.totalBytes)
    BY CleanedSound
<1> HIDE DEF c
<1>4. c.entries \in Ring /\ c.head \in Slots /\ c.count \in 0 .. Capacity /\ c.totalBytes \in Nat
    BY <1>3, SoundTypes, Zenon
<1>5. CASE c.count = 0
  <2>1. Rate(c) = 0
    BY <1>5 DEF Rate
  <2>2. c.totalBytes = 0
    <3>1. c.totalBytes = BytesFrom(c.entries, c.head, 0) /\ c.head \in Nat
      BY <1>3, <1>4, <1>5, SlotFacts DEF Sound
    <3> QED
      BY <1>4, <3>1, BytesFromRecursive
  <2> QED
    BY <2>1, <2>2 DEF c
<1>6. CASE c.count # 0
  <2>1. 0 \in 0 .. c.count - 1
    BY <1>4, <1>6
  <2>2. /\ Old + 0 \in 0 .. count - 1
        /\ c.entries[(c.head + 0) % Capacity] = entries[(head + (Old + 0)) % Capacity]
    BY <1>1, <1>2, <2>1, DroppedTails
  <2>3. (c.head + 0) % Capacity = c.head
    BY <1>4, SlotFacts
  <2>4. Old + 0 = Old /\ Old \in Nat /\ Old =< Old /\ Old =< count - 1 /\ Old \in 0 .. count - 1
    BY <1>1, <2>2 DEF WindowTypes
  <2>5. c.entries[c.head] = entries[(head + Old) % Capacity]
    BY <2>2, <2>3, <2>4, Zenon
  <2>6. entries[(head + Old) % Capacity].age =< Second
    BY <2>4, YoungLeft, Zenon
  <2>7. entries[(head + Old) % Capacity].age > 0
    <3>1. (head + Old) % Capacity \in Live(head, count)
      BY <2>4, Zenon DEF Live
    <3> QED
      BY <3>1, Zenon DEF ClockMoved
  <2>8. a \in Nat
    BY <1>4 DEF Ring, Entry, Ages
  <2>9. a =< Second /\ a > 0
    BY <2>5, <2>6, <2>7, Zenon
  <2>10. Rate(c) = IF c.count = 0 \/ a = 0 THEN 0 ELSE (c.totalBytes * Second) \div a
    BY DEF Rate
  <2> HIDE DEF a
  <2>11. a \in Nat \ {0} /\ a # 0 /\ Second \in Nat
    BY <2>8, <2>9, LimiterAssumption
  <2>12. (c.totalBytes * Second) \div a >= c.totalBytes
    BY <1>4, <2>9, <2>11, QuotientAtLeast, Zenon
  <2>13. (c.totalBytes * Second) \div a \in Nat
    <3>1. c.totalBytes * Second \in Nat
      BY <1>4, <2>11, ProductNat, Zenon
    <3> QED
      BY <2>11, <3>1, DivNat, Zenon
  <2>14. Rate(c) = (c.totalBytes * Second) \div a
    BY <1>6, <2>10, <2>11, Zenon
  <2> DEFINE q == (c.totalBytes * Second) \div a
  <2>15. q >= c.totalBytes /\ q \in Nat /\ Rate(c) = q
    BY <2>12, <2>13, <2>14
  <2> HIDE DEF q
  <2>16. Rate(c) \in Nat /\ c.totalBytes =< Rate(c)
    BY <1>4, <2>15
  <2> QED
    BY <2>16 DEF c
<1> QED
    BY <1>5, <1>6

\* A new answer of calculateAllowedBytes keeps the bounds: what it allows past
\* the headroom it takes from the bucket.
LEMMA AnswerFits ==
    ASSUME TypeOK, WindowConsistent, LimitNearTarget, Throughput, CalculateAllowedBytes,
           UNCHANGED limiter
    PROVE  Throughput'
<1> DEFINE c == Cleaned
           v == Rate(c)
           q == Refilled
           y == Paid(c)
           x == Allowed(c)
<1>0. WindowTypes /\ LimitTypes /\ CallTypes /\ ClockMoved
    BY TypeParts DEF CalculateAllowedBytes
<1>1. Sound(entries, head, tail, count, totalBytes) /\ Old \in 0 .. count /\ c = Dropped(Old)
    BY <1>0, SoundIsConsistent, OldBounds DEF Cleaned
<1>2. Sound(c.entries, c.head, tail, c.count, c.totalBytes)
    BY <1>0, CleanedSound
<1>3. v \in Nat /\ c.totalBytes =< v
    BY <1>0, RateCovers
<1>4. TopLimit \in Nat /\ TopBurst \in Nat /\ Second \in Nat \ {0}
    BY TopFacts
<1>5. /\ currentLimit \in Nat /\ currentLimit =< TopLimit
      /\ BurstCapacity \in Nat /\ BurstCapacity =< TopBurst
  <2>1. target \in Targets /\ currentLimit \in Nat /\ currentLimit =< High(target) /\ target \in Nat
    <3>1. target \in Targets /\ currentLimit \in Low(target) .. High(target) /\ currentLimit \in Nat
      BY <1>0 DEF LimitTypes, LimitNearTarget
    <3>2. target \in Nat
      BY <3>1, LimiterAssumption
    <3>3. Low(target) \in Nat /\ High(target) \in Nat
      BY <3>2, Clamp
    <3> QED
      BY <3>1, <3>2, <3>3
  <2>2. High(target) =< TopLimit /\ High(target) \in Nat
    BY <2>1, TopFacts, Clamp
  <2>3. BurstCapacity =< TopBurst /\ BurstCapacity \in Nat
    BY <2>1, TopFacts, NewTarget DEF BurstCapacity
  <2> QED
    BY <1>4, <2>1, <2>2, <2>3
<1>6. requested \in Nat /\ burstTokens \in Nat /\ fillAge \in Nat /\ readSize \in Nat
    BY <1>0, LimiterAssumption DEF LimitTypes, CallTypes, Ages
<1> DEFINE gain == (currentLimit * fillAge) \div Second
<1>7. gain \in Nat /\ Second * gain =< TopLimit * fillAge
  <2>1. currentLimit * fillAge \in Nat
    BY <1>5, <1>6, ProductNat, Zenon
  <2> DEFINE p == currentLimit * fillAge
  <2>2. p \div Second \in Nat /\ Second * (p \div Second) =< p
    <3>1. p \in Nat
      BY <2>1
    <3> HIDE DEF p
    <3> QED
      BY <1>4, <3>1
  <2>3. p =< TopLimit * fillAge
    BY <1>4, <1>5, <1>6, Scaled
  <2>4. TopLimit * fillAge \in Nat
    BY <1>4, <1>6, ProductNat, Zenon
  <2> DEFINE g2 == p \div Second
             s2 == Second * g2
             u2 == TopLimit * fillAge
  <2>5. s2 =< p /\ p =< u2 /\ g2 \in Nat /\ p \in Nat /\ u2 \in Nat /\ s2 \in Nat
    <3>1. s2 \in Nat
      BY <1>4, <2>2, ProductNat
    <3> QED
      BY <2>1, <2>2, <2>3, <2>4, <3>1
  <2>6. s2 =< u2
    <3> HIDE DEF p, g2, s2, u2
    <3> QED
      BY <2>5
  <2> QED
    BY <2>5, <2>6
<1>8. q = Minimum(burstTokens + gain, BurstCapacity)
    BY DEF Refilled
<1> HIDE DEF gain
<1>9. /\ q \in Nat /\ q =< TopBurst /\ q =< burstTokens + gain
    BY <1>4, <1>5, <1>6, <1>7, <1>8 DEF Minimum
<1>10. Second * q =< Second * burstTokens + TopLimit * fillAge
  <2> HIDE DEF q
  <2>1. Second * q =< Second * (burstTokens + gain)
    BY <1>4, <1>6, <1>7, <1>9, Scaled
  <2>2. Second * (burstTokens + gain) = Second * burstTokens + Second * gain
    BY <1>4, <1>6, <1>7
  <2>3. Second * q \in Nat /\ Second * gain \in Nat /\ Second * burstTokens \in Nat /\ TopLimit * fillAge \in Nat
    BY <1>4, <1>6, <1>7, <1>9, ProductNat
  <2> QED
    BY <1>7, <2>1, <2>2, <2>3
<1>11. /\ x = IF v < currentLimit THEN Minimum(requested, (currentLimit - v) + q)
                      ELSE Minimum(requested, q)
       /\ y = IF v >= currentLimit THEN x
                   ELSE IF x > currentLimit - v THEN x - (currentLimit - v) ELSE 0
    BY DEF Allowed, Paid, Headroom
<1>12. /\ readSize' = x /\ burstTokens' = q - y /\ fillAge' = 0
       /\ entries' = c.entries /\ head' = c.head /\ count' = c.count
    BY DEF CalculateAllowedBytes
<1> HIDE DEF v, q, y, x, c
<1>13. x \in Nat /\ y \in Nat /\ y =< q /\ (x =< y \/ (v =< currentLimit /\ v + x =< currentLimit + y))
  <2>1. CASE v < currentLimit
    BY <1>3, <1>5, <1>6, <1>9, <1>11, <2>1 DEF Minimum
  <2>2. CASE ~ (v < currentLimit)
    BY <1>3, <1>5, <1>6, <1>9, <1>11, <2>2 DEF Minimum
  <2> QED
    BY <2>1, <2>2
<1>14. x =< TopLimit + TopBurst
    BY <1>3, <1>4, <1>5, <1>9, <1>13
<1>15. TailsFit(c.entries, c.head, c.count, readSize, burstTokens, fillAge)
    BY <1>1, DroppedFit DEF Throughput
<1>16. c.entries \in Ring /\ c.head \in Slots /\ c.count \in 0 .. Capacity /\ c.totalBytes \in Nat
    BY <1>2, SoundTypes, Zenon
<1>17. ASSUME NEW i \in 0 .. c.count - 1
       PROVE  Fits(Tail(c.entries, c.head, c.count, i), c.entries[(c.head + i) % Capacity].age,
                   c.count - i, x, q - y, 0)
  <2> DEFINE t == Tail(c.entries, c.head, c.count, i)
             a == c.entries[(c.head + i) % Capacity].age
             k == c.count - i
  <2>1. i \in Nat /\ i \in 0 .. c.count /\ k \in Nat /\ c.count \in Nat
    BY <1>16, SlotFacts
  <2>2. t \in Nat /\ a \in Nat
    BY <1>16, <2>1, TailNat, EntryAt
  <2>3. t =< c.totalBytes
    BY <1>2, TailWithin, Zenon
  <2>4. a =< Second
    <3>1. /\ Old + i \in 0 .. count - 1
          /\ c.entries[(c.head + i) % Capacity] = entries[(head + (Old + i)) % Capacity]
      BY <1>1, DroppedTails
    <3>2. Old + i \in Nat /\ Old =< Old + i /\ Old + i =< count - 1
      BY <1>0, <1>1, <2>1, <3>1 DEF WindowTypes
    <3>3. entries[(head + (Old + i)) % Capacity].age =< Second
      BY <1>0, <3>2, YoungLeft, Zenon
    <3> QED
      BY <3>1, <3>3, Zenon
  <2>5. Fits(t, a, k, readSize, burstTokens, fillAge)
    BY <1>15, Zenon DEF TailsFit
  <2> HIDE DEF t, a, k
  <2>6. x =< y \/ t + x =< TopLimit + y
    BY <1>3, <1>4, <1>5, <1>13, <1>16, <2>2, <2>3
  <2>7. Fits(t, a, k, x, q - y, 0)
    BY <1>6, <1>9, <1>10, <1>13, <2>1, <2>2, <2>4, <2>5, <2>6, FitsAnswer
  <2> QED
    BY <2>7 DEF t, a, k
<1>18. TailsFit(entries', head', count', readSize', burstTokens', fillAge')
  <2>1. TailsFit(c.entries, c.head, c.count, x, q - y, 0)
    BY <1>17, Zenon DEF TailsFit
  <2> QED
    BY <1>12, <2>1, Zenon
<1>19. readSize' =< TopLimit + TopBurst
    BY <1>12, <1>14
<1> QED
    BY <1>18, <1>19, ThroughputNext

Appended(e, t, x) == [e EXCEPT ![t] = [age |-> 0, bytes |-> x]]

LEMMA AppendTails ==
    ASSUME NEW e, NEW h, NEW t, NEW n, NEW b, Sound(e, h, t, n, b), n < Capacity,
           NEW x \in Nat, NEW f, f = Appended(e, t, x), NEW i \in 0 .. n
    PROVE  /\ i < n => /\ Tail(f, h, n + 1, i) = Tail(e, h, n, i) + x
                       /\ f[(h + i) % Capacity] = e[(h + i) % Capacity]
           /\ i = n => /\ Tail(f, h, n + 1, i) = x
                       /\ f[(h + i) % Capacity].age = 0
<1>1. /\ e \in Ring /\ h \in Slots /\ t \in Slots /\ n \in Nat /\ n \in 0 .. Capacity
      /\ h \in Nat /\ Capacity \in Nat \ {0} /\ i \in Nat
  <2>1. e \in Ring /\ h \in Slots /\ t \in Slots /\ n \in 0 .. Capacity /\ b \in Nat
    BY SoundTypes, Zenon
  <2> QED
    BY <2>1, SlotFacts
<1>2. t = (h + n) % Capacity
    BY DEF Sound
<1>3. f \in Ring /\ f[t].bytes = x /\ f[t].age = 0
  <2>1. [age |-> 0, bytes |-> x] \in Entry
    BY LimiterAssumption DEF Entry, Ages
  <2> DEFINE new == [age |-> 0, bytes |-> x]
  <2>2. f[t] = new
    BY <1>1 DEF Ring, Appended
  <2>3. f \in Ring
    <3>1. new \in Entry /\ f = [e EXCEPT ![t] = new]
      BY <2>1 DEF Appended
    <3> HIDE DEF new
    <3> QED
      BY <1>1, <3>1 DEF Ring
  <2> QED
    BY <2>2, <2>3
<1>4. ASSUME NEW j \in 0 .. n - 1
      PROVE  f[(h + j) % Capacity] = e[(h + j) % Capacity]
  <2>1. j \in Nat /\ j < Capacity /\ j # n
    BY <1>1
  <2>2. (h + j) % Capacity # t
    BY <1>1, <1>2, <2>1, RingApart
  <2>3. (h + j) % Capacity \in Slots
    BY <1>1, <2>1, EntryAt, Zenon
  <2> QED
    BY <1>1, <2>2, <2>3 DEF Ring, Appended
<1> DEFINE k == (h + i) % Capacity
<1>5. k \in Nat
  <2>1. k \in Slots
    BY <1>1, EntryAt, Zenon
  <2> QED
    BY <2>1, SlotFacts
<1>6. Tail(f, h, n + 1, i) = BytesFrom(f, k, n - i) + x
  <2>1. n - i \in Nat /\ (n + 1) - i = (n - i) + 1 /\ i + (n - i) = n /\ i + (n - i) < Capacity
    BY <1>1
  <2>2. BytesFrom(f, k, (n - i) + 1) = BytesFrom(f, k, n - i) + f[(k + (n - i)) % Capacity].bytes
    <3> HIDE DEF k
    <3> QED
      BY <1>3, <1>5, <2>1, BytesFromRecursive, Zenon
  <2>3. (k + (n - i)) % Capacity = (h + (i + (n - i))) % Capacity
    BY <1>1, <2>1, RingJoin, Zenon
  <2>4. f[(k + (n - i)) % Capacity].bytes = x
    BY <1>2, <1>3, <2>1, <2>3, Zenon
  <2> QED
    BY <2>1, <2>2, <2>4, Zenon DEF Tail
<1>7. ASSUME i < n
      PROVE  BytesFrom(f, k, n - i) = Tail(e, h, n, i)
  <2>1. i \in 0 .. n - 1
    BY <1>1, <1>7
  <2>2. \A j \in 0 .. n - 1 : f[(h + j) % Capacity].bytes = e[(h + j) % Capacity].bytes
    BY <1>4, Zenon
  <2>3. Tail(f, h, n, i) = Tail(e, h, n, i)
    <3>1. f \in Ring /\ e \in Ring /\ h \in Slots /\ n \in 0 .. Capacity
      BY <1>1, <1>3
    <3>2. \A e1, f1 \in Ring : (\A j \in 0 .. n - 1 : e1[(h + j) % Capacity].bytes = f1[(h + j) % Capacity].bytes)
             => Tail(e1, h, n, i) = Tail(f1, h, n, i)
      BY <2>1, <3>1, SameTails
    <3> QED
      BY <2>2, <3>1, <3>2, Zenon
  <2> QED
    BY <2>3 DEF Tail
<1>8. ASSUME i = n
      PROVE  Tail(f, h, n + 1, i) = x
  <2>1. n - i = 0
    BY <1>1, <1>8
  <2> HIDE DEF k
  <2>2. BytesFrom(f, k, n - i) = 0
    BY <1>3, <1>5, <2>1, BytesFromRecursive
  <2> QED
    BY <1>6, <2>2
<1>9. i < n => i \in 0 .. n - 1
    BY <1>1
<1>10. i = n => f[(h + i) % Capacity].age = 0
    BY <1>2, <1>3, Zenon
<1>11. i < n => Tail(f, h, n + 1, i) = Tail(e, h, n, i) + x
    BY <1>6, <1>7, Zenon
<1>12. i < n => f[(h + i) % Capacity] = e[(h + i) % Capacity]
    BY <1>4, <1>9, Zenon
<1> QED
    BY <1>8, <1>10, <1>11, <1>12, Zenon

\* Counting a read moves its bytes from the ones not counted into every tail.
LEMMA AddFits ==
    ASSUME TypeOK, WindowConsistent, Throughput, Add(readSize), readSize' = 0, UNCHANGED bucket
    PROVE  Throughput'
<1> DEFINE d == IF Old = 0 /\ count = Capacity THEN 1 ELSE Old
           c == Dropped(d)
           x == readSize
           e == Appended(c.entries, tail, x)
<1>0. WindowTypes /\ LimitTypes /\ CallTypes
    BY TypeParts
<1>1. Sound(entries, head, tail, count, totalBytes)
    BY <1>0, SoundIsConsistent
<1>2. d \in 0 .. count /\ count - d < Capacity /\ Old =< d
  <2>1. Old \in 0 .. count
    BY <1>0, OldBounds
  <2>2. count \in 0 .. Capacity /\ Capacity \in Nat \ {0}
    BY <1>0, SlotFacts DEF WindowTypes
  <2> QED
    BY <2>1, <2>2
<1>3. entries' = e /\ head' = c.head /\ count' = c.count + 1
    BY DEF Add, Appended
<1>4. burstTokens' = burstTokens /\ fillAge' = fillAge
    BY DEF bucket
<1>5. burstTokens \in Nat /\ fillAge \in Nat /\ x \in Nat /\ x =< TopLimit + TopBurst
    BY <1>0, LimiterAssumption DEF LimitTypes, CallTypes, Ages, Throughput
<1>6. TopLimit \in Nat /\ TopBurst \in Nat
    BY TopFacts
<1> HIDE DEF d
<1>7. Sound(c.entries, c.head, tail, c.count, c.totalBytes) /\ c.count = count - d
    BY <1>1, <1>2, DroppedSound
<1>8. c = Dropped(d)
    OBVIOUS
<1> HIDE DEF c
<1>9. TailsFit(c.entries, c.head, c.count, x, burstTokens, fillAge)
    BY <1>1, <1>2, <1>8, DroppedFit DEF Throughput
<1>10. /\ c.entries \in Ring /\ c.head \in Slots /\ c.count \in 0 .. Capacity /\ c.count < Capacity
       /\ c.count \in Nat
  <2>1. c.entries \in Ring /\ c.head \in Slots /\ c.count \in 0 .. Capacity
    BY <1>7, SoundTypes, Zenon
  <2> QED
    BY <1>2, <1>7, <2>1, SlotFacts
<1>11. ASSUME NEW i \in 0 .. (c.count + 1) - 1
       PROVE  Fits(Tail(e, c.head, c.count + 1, i), e[(c.head + i) % Capacity].age,
                   (c.count + 1) - i, 0, burstTokens, fillAge)
  <2>1. i \in 0 .. c.count /\ i \in Nat /\ (i < c.count \/ i = c.count)
    BY <1>10
  <2>2. /\ i < c.count => /\ Tail(e, c.head, c.count + 1, i) = Tail(c.entries, c.head, c.count, i) + x
                          /\ e[(c.head + i) % Capacity] = c.entries[(c.head + i) % Capacity]
        /\ i = c.count => /\ Tail(e, c.head, c.count + 1, i) = x
                          /\ e[(c.head + i) % Capacity].age = 0
    <3>1. e = Appended(c.entries, tail, x)
      OBVIOUS
    <3> HIDE DEF e, x
    <3> QED
      BY <1>5, <1>7, <1>10, <2>1, <3>1, AppendTails
  <2> HIDE DEF e, x
  <2>3. CASE i < c.count
    <3> DEFINE t == Tail(c.entries, c.head, c.count, i)
               a == c.entries[(c.head + i) % Capacity].age
               k == c.count - i
    <3>1. i \in 0 .. c.count - 1 /\ k \in Nat /\ (c.count + 1) - i = k + 1
      BY <1>10, <2>1, <2>3
    <3>2. t \in Nat /\ a \in Nat
      BY <1>10, <2>1, TailNat, EntryAt
    <3>3. a =< Second
      <4>1. /\ d + i \in 0 .. count - 1
            /\ c.entries[(c.head + i) % Capacity] = entries[(head + (d + i)) % Capacity]
        BY <1>1, <1>2, <1>8, <3>1, DroppedTails
      <4>2. d + i \in Nat /\ Old =< d + i /\ d + i =< count - 1
        <5>1. Old \in 0 .. count /\ count \in Nat
          BY <1>0, OldBounds DEF WindowTypes
        <5> QED
          BY <1>2, <2>1, <4>1, <5>1
      <4>3. entries[(head + (d + i)) % Capacity].age =< Second
        BY <1>0, <4>2, YoungLeft, Zenon
      <4> QED
        BY <4>1, <4>3, Zenon
    <3>4. Fits(t, a, k, x, burstTokens, fillAge)
      BY <1>9, <3>1, Zenon DEF TailsFit
    <3>5. Fits(t + x, a, k + 1, 0, burstTokens, fillAge)
      <4> HIDE DEF t, a, k
      <4> QED
        BY <1>5, <3>1, <3>2, <3>3, <3>4, FitsAdded
    <3>6. Tail(e, c.head, c.count + 1, i) = t + x /\ e[(c.head + i) % Capacity].age = a
      BY <2>2, <2>3, Zenon
    <3> QED
      BY <3>1, <3>5, <3>6, Zenon
  <2>4. CASE i = c.count
    <3>1. (c.count + 1) - i = 1
      BY <1>10, <2>4
    <3>2. Fits(x, 0, 1, 0, burstTokens, fillAge)
      BY <1>5, FitsNew DEF x
    <3>3. Tail(e, c.head, c.count + 1, i) = x /\ e[(c.head + i) % Capacity].age = 0
      BY <2>2, <2>4, Zenon
    <3> QED
      BY <3>1, <3>2, <3>3, Zenon
  <2> QED
    BY <2>1, <2>3, <2>4
<1>12. TailsFit(e, c.head, c.count + 1, 0, burstTokens, fillAge)
  <2> HIDE DEF e
  <2> QED
    BY <1>11, Zenon DEF TailsFit
<1> HIDE DEF e
<1>13. TailsFit(entries', head', count', readSize', burstTokens', fillAge')
    BY <1>3, <1>4, <1>12, Zenon
<1>14. readSize' =< TopLimit + TopBurst
    BY <1>6
<1> QED
    BY <1>13, <1>14, ThroughputNext

LEMMA TickFits ==
    ASSUME TypeOK, WindowConsistent, Throughput, Tick
    PROVE  Throughput'
<1>0. WindowTypes /\ LimitTypes /\ CallTypes
    BY TypeParts
<1>1. /\ entries \in Ring /\ head \in Slots /\ count \in 0 .. Capacity /\ count \in Nat
      /\ head' = head /\ count' = count /\ readSize' = readSize /\ burstTokens' = burstTokens
      /\ readSize \in Nat /\ burstTokens \in Nat /\ Second \in Nat
    BY <1>0, SlotFacts, LimiterAssumption DEF WindowTypes, LimitTypes, CallTypes, Tick, call
<1>2. fillAge \in Nat /\ fillAge' \in Nat /\ fillAge' =< fillAge + 1
  <2>1. fillAge' = Minimum(fillAge + 1, Second + 1) /\ fillAge \in Nat
    BY <1>0, LimiterAssumption DEF Tick, LimitTypes, Ages
  <2> QED
    BY <1>1, <2>1 DEF Minimum
<1>3. entries' \in Ring
  <2>1. WindowTypes'
    BY <1>0, TickSound
  <2> QED
    BY <2>1 DEF WindowTypes
<1>4. ASSUME NEW i \in 0 .. count - 1
      PROVE  /\ entries'[(head + i) % Capacity].bytes = entries[(head + i) % Capacity].bytes
             /\ entries'[(head + i) % Capacity].age
                  = Minimum(entries[(head + i) % Capacity].age + 1, Second + 1)
  <2> DEFINE s == (head + i) % Capacity
  <2>1. i \in Nat
    BY <1>1
  <2>2. s \in Slots
    BY <1>1, <2>1, EntryAt, Zenon
  <2>3. s \in Live(head, count)
    BY DEF Live
  <2> HIDE DEF s
  <2>4. entries'[s] = [entries[s] EXCEPT !.age = Minimum(entries[s].age + 1, Second + 1)]
    BY <2>2, <2>3 DEF Tick
  <2>5. entries[s] \in Entry
    BY <1>1, <2>2 DEF Ring
  <2>6. /\ entries'[s].bytes = entries[s].bytes
        /\ entries'[s].age = Minimum(entries[s].age + 1, Second + 1)
    BY <2>4, <2>5 DEF Entry
  <2> QED
    BY <2>6 DEF s
<1>5. ASSUME NEW i \in 0 .. count - 1
      PROVE  Fits(Tail(entries', head, count, i), entries'[(head + i) % Capacity].age, count - i,
                  readSize, burstTokens, fillAge')
  <2> DEFINE t == Tail(entries, head, count, i)
             a == entries[(head + i) % Capacity].age
             k == count - i
  <2>1. i \in Nat /\ i \in 0 .. count /\ k \in Nat
    BY <1>1
  <2>2. t \in Nat /\ a \in Nat
    BY <1>1, <2>1, TailNat, EntryAt
  <2>3. Fits(t, a, k, readSize, burstTokens, fillAge)
    BY Zenon DEF Throughput, TailsFit
  <2>4. Tail(entries', head, count, i) = t
    <3>1. \A j \in 0 .. count - 1 : entries'[(head + j) % Capacity].bytes = entries[(head + j) % Capacity].bytes
      BY <1>4, Zenon
    <3> QED
      BY <1>1, <1>3, <3>1, SameTails
  <2>5. entries'[(head + i) % Capacity].age = Minimum(a + 1, Second + 1)
    BY <1>4, Zenon
  <2>6. Fits(t, Minimum(a + 1, Second + 1), k, readSize, burstTokens, fillAge')
    <3> HIDE DEF t, a, k
    <3> QED
      BY <1>1, <1>2, <2>1, <2>2, <2>3, FitsTick
  <2> QED
    BY <2>4, <2>5, <2>6, Zenon
<1>6. TailsFit(entries', head, count, readSize, burstTokens, fillAge')
    BY <1>5, Zenon DEF TailsFit
<1>7. TailsFit(entries', head', count', readSize', burstTokens', fillAge')
    BY <1>1, <1>6, Zenon
<1>8. readSize' =< TopLimit + TopBurst
    BY <1>1 DEF Throughput
<1> QED
    BY <1>7, <1>8, ThroughputNext

\* A step that leaves the window and the bucket, and allows no new bytes.
LEMMA SameFits ==
    ASSUME TypeOK, Throughput, UNCHANGED window, UNCHANGED bucket,
           readSize' \in Nat, readSize' =< readSize
    PROVE  Throughput'
<1>0. WindowTypes /\ LimitTypes /\ CallTypes
    BY TypeParts
<1>1. /\ entries \in Ring /\ head \in Slots /\ count \in Nat /\ count \in 0 .. Capacity
      /\ burstTokens \in Nat /\ fillAge \in Nat /\ readSize \in Nat
    BY <1>0, LimiterAssumption DEF WindowTypes, LimitTypes, CallTypes, Ages
<1>2. /\ entries' = entries /\ head' = head /\ count' = count
      /\ burstTokens' = burstTokens /\ fillAge' = fillAge
    BY DEF window, bucket
<1>3. ASSUME NEW i \in 0 .. count - 1
      PROVE  Fits(Tail(entries, head, count, i), entries[(head + i) % Capacity].age, count - i,
                  readSize', burstTokens, fillAge)
  <2> DEFINE t == Tail(entries, head, count, i)
             a == entries[(head + i) % Capacity].age
             k == count - i
  <2>1. i \in Nat /\ i \in 0 .. count /\ k \in Nat
    BY <1>1
  <2>2. t \in Nat /\ a \in Nat
    BY <1>1, <2>1, TailNat, EntryAt
  <2>3. Fits(t, a, k, readSize, burstTokens, fillAge)
    BY Zenon DEF Throughput, TailsFit
  <2> HIDE DEF t, a, k
  <2>4. Fits(t, a, k, readSize', burstTokens, fillAge)
    BY <1>1, <2>1, <2>2, <2>3, FitsLess
  <2> QED
    BY <2>4 DEF t, a, k
<1>4. TailsFit(entries', head', count', readSize', burstTokens', fillAge')
  <2>1. TailsFit(entries, head, count, readSize', burstTokens, fillAge)
    BY <1>3, Zenon DEF TailsFit
  <2> QED
    BY <1>2, <2>1, Zenon
<1>5. readSize' =< TopLimit + TopBurst
    BY <1>1, TopFacts DEF Throughput
<1> QED
    BY <1>4, <1>5, ThroughputNext

LEMMA ThroughputInit == Init => Throughput
<1> SUFFICES ASSUME Init PROVE Throughput
    OBVIOUS
<1>1. count = 0 /\ readSize = 0
    BY DEF Init
<1>2. readSize =< TopLimit + TopBurst
    BY <1>1, TopFacts
<1>3. TailsFit(entries, head, count, readSize, burstTokens, fillAge)
  <2>1. 0 .. count - 1 = {}
    BY <1>1
  <2> QED
    BY <2>1, Zenon DEF TailsFit
<1> QED
    BY <1>2, <1>3 DEF Throughput

LEMMA ThroughputStep ==
    ASSUME TypeOK, WindowConsistent, LimitNearTarget, Throughput, [Next]_vars
    PROVE  Throughput'
<1>0. WindowTypes /\ LimitTypes /\ CallTypes /\ readSize \in Nat
    BY TypeParts DEF CallTypes
<1>1. CASE Begin
  <2>1. UNCHANGED <<window, bucket>> /\ readSize' = readSize
    BY <1>1 DEF Begin
  <2> QED
    BY <1>0, <2>1, SameFits
<1>2. CASE First
    BY <1>2, AnswerFits DEF First
<1>3. CASE Again
    BY <1>3, AnswerFits DEF Again
<1>4. CASE Chunk
    BY <1>4, AnswerFits DEF Chunk
<1>5. CASE UnderlyingRead
  <2>1. UNCHANGED <<window, bucket>> /\ readSize' \in 0 .. readSize
    BY <1>5 DEF UnderlyingRead
  <2>2. readSize' \in Nat /\ readSize' =< readSize
    BY <1>0, <2>1
  <2> QED
    BY <2>1, <2>2, SameFits
<1>6. CASE Count
  <2>1. UNCHANGED bucket /\ readSize' = 0
    BY <1>6 DEF Count
  <2>2. CASE detached
    <3>1. UNCHANGED window
      BY <1>6, <2>2 DEF Count
    <3>2. readSize' \in Nat /\ readSize' =< readSize
      BY <1>0, <2>1
    <3> QED
      BY <2>1, <3>1, <3>2, SameFits
  <2>3. CASE ~ detached
    <3>1. Add(readSize)
      BY <1>6, <2>3 DEF Count
    <3> QED
      BY <2>1, <3>1, AddFits
  <2> QED
    BY <2>2, <2>3
<1>7. CASE Reset
  <2>1. count' = 0 /\ readSize' = readSize
    BY <1>7 DEF Reset, NewWindow
  <2>2. 0 .. count' - 1 = {}
    BY <2>1
  <2>3. TailsFit(entries', head', count', readSize', burstTokens', fillAge')
    BY <2>2, Zenon DEF TailsFit
  <2>4. readSize' =< TopLimit + TopBurst
    BY <2>1 DEF Throughput
  <2> QED
    BY <2>3, <2>4, ThroughputNext
<1>8. CASE OptimizeLimit
  <2> DEFINE c == Dropped(Old)
  <2>1. /\ entries' = c.entries /\ head' = c.head /\ count' = c.count
        /\ readSize' = readSize /\ burstTokens' = burstTokens /\ fillAge' = fillAge
    BY <1>8 DEF OptimizeLimit, Cleaned, bucket, call
  <2>2. Sound(entries, head, tail, count, totalBytes) /\ Old \in 0 .. count
    BY <1>0, SoundIsConsistent, OldBounds
  <2>3. TailsFit(entries, head, count, readSize, burstTokens, fillAge)
    BY DEF Throughput
  <2>4. TailsFit(c.entries, c.head, c.count, readSize, burstTokens, fillAge)
    BY <2>2, <2>3, DroppedFit
  <2> HIDE DEF c
  <2>5. TailsFit(entries', head', count', readSize', burstTokens', fillAge')
    BY <2>1, <2>4, Zenon
  <2>6. readSize' =< TopLimit + TopBurst
    BY <2>1 DEF Throughput
  <2> QED
    BY <2>5, <2>6, ThroughputNext
<1>9. CASE Close
  <2>1. UNCHANGED <<window, bucket>> /\ readSize' = readSize
    BY <1>9 DEF Close, call
  <2> QED
    BY <1>0, <2>1, SameFits
<1>10. CASE Tick
    BY <1>10, TickFits
<1>11. CASE UNCHANGED vars
  <2>1. UNCHANGED <<window, bucket>> /\ readSize' = readSize
    BY <1>11 DEF vars, call
  <2> QED
    BY <1>0, <2>1, SameFits
<1> QED
    BY <1>1, <1>2, <1>3, <1>4, <1>5, <1>6, <1>7, <1>8, <1>9, <1>10, <1>11 DEF Next

\* The whole window is its own longest tail.
LEMMA ThroughputBounds ==
    ASSUME WindowTypes, WindowConsistent, Throughput
    PROVE  WindowBounded
<1>1. /\ entries \in Ring /\ head \in Slots /\ head \in Nat /\ count \in Nat /\ totalBytes \in Nat
      /\ totalBytes = BytesFrom(entries, head, count)
    BY SlotFacts DEF WindowTypes, WindowConsistent
<1>2. TopLimit \in Nat /\ TopBurst \in Nat
    BY TopFacts
<1>3. totalBytes =< TopLimit + count * TopBurst /\ totalBytes =< 2 * TopLimit + 2 * TopBurst
  <2>1. CASE count = 0
    <3>1. totalBytes = 0
      BY <1>1, <2>1, BytesFromRecursive
    <3>2. count * TopBurst = 0
      BY <1>2, <2>1
    <3> QED
      BY <1>2, <3>1, <3>2
  <2>2. CASE count # 0
    <3>1. 0 \in 0 .. count - 1 /\ count - 0 = count
      BY <1>1, <2>2
    <3>2. (head + 0) % Capacity = head
      BY <1>1, SlotFacts
    <3>3. Tail(entries, head, count, 0) = totalBytes
      BY <1>1, <3>1, <3>2, Zenon DEF Tail
    <3>4. Fits(Tail(entries, head, count, 0), entries[(head + 0) % Capacity].age, count - 0,
               readSize, burstTokens, fillAge)
      BY <3>1, Zenon DEF Throughput, TailsFit
    <3>5. Fits(totalBytes, entries[(head + 0) % Capacity].age, count, readSize, burstTokens, fillAge)
      BY <3>1, <3>3, <3>4, Zenon
    <3> QED
      BY <3>5, Zenon DEF Fits
  <2> QED
    BY <2>1, <2>2
<1>4. count * TopBurst \in Nat
    BY <1>1, <1>2, ProductNat, Zenon
<1> DEFINE p == count * TopBurst
<1>5. totalBytes =< TopLimit + Minimum(p, 2 * TopBurst + TopLimit)
  <2>1. totalBytes =< TopLimit + p /\ p \in Nat
    BY <1>3, <1>4
  <2> HIDE DEF p
  <2> QED
    BY <1>1, <1>2, <1>3, <2>1 DEF Minimum
<1> QED
    BY <1>5 DEF WindowBounded, TopLimit, TopBurst

-----------------------------------------------------------------------------
(* Theorems *)

LEMMA InvHolds == Spec => [](TypeOK /\ WindowConsistent /\ LimitNearTarget)
<1>1. Init => TypeOK /\ WindowConsistent /\ LimitNearTarget
    BY InvInit
<1>2. (TypeOK /\ WindowConsistent /\ LimitNearTarget) /\ [Next]_vars
        => (TypeOK /\ WindowConsistent /\ LimitNearTarget)'
    BY InvStep
<1> QED
    BY <1>1, <1>2, PTL DEF Spec

\* speedreader.go. Byte counts, tokens and the current limit are never
\* negative, and the indices of the ring stay inside it, whatever reads, ticks,
\* optimizer steps and rebalances come in between.
THEOREM TypeCorrect == Spec => []TypeOK
BY InvHolds, PTL

\* speedreader.go:241-286. For a ring of any capacity: the running total that
\* GetRate divides is exactly the sum of the live entries, head and tail
\* delimit them, and they are in the order of their times, so that
\* cleanOldEntries may stop at the first young one.
THEOREM WindowTotalExact == Spec => []WindowConsistent
BY InvHolds, PTL

\* speedreader.go:140-230. For every target and burst factor: the current limit
\* is within a fifth of the target in force and the bucket holds between zero
\* and that target's burst, also when a rebalance comes between the answers of
\* one read.
THEOREM LimitKept == Spec => []LimitNearTarget
BY InvHolds, PTL

\* speedreader.go:106-171. For every window length, ring and set of targets: a
\* window never holds more than the highest limit a target allows and what came
\* through the bucket, which is at most a burst for each of its reads and at
\* most two bursts and a second's refill in all, whatever rebalances, optimizer
\* steps and slow reads came in between.
THEOREM SecondBounded == Spec => []WindowBounded
<1>1. Init => Throughput
    BY ThroughputInit
<1>2. Throughput /\ (TypeOK /\ WindowConsistent /\ LimitNearTarget) /\ [Next]_vars => Throughput'
    BY ThroughputStep
<1>3. Throughput /\ (TypeOK /\ WindowConsistent /\ LimitNearTarget) => WindowBounded
    BY ThroughputBounds, TypeParts
<1> QED
    BY <1>1, <1>2, <1>3, InvHolds, PTL DEF Spec
=============================================================================
