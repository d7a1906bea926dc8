--------------------------- MODULE DiskReplayProofs ---------------------------
(***************************************************************************)
(* Proofs about DiskReplay for any number of reader threads, any folder    *)
(* whose data set a Duration can span, any speed limit and any number of   *)
(* loops.                                                                  *)
(*                                                                         *)
(* SharesAgree needs to know which places of runWorker belong to a         *)
(* registered reader (Registered): a new worker object must not be one the *)
(* shares count; and that the limit a reader is built with or runs at is   *)
(* the stored one unless a rebalance came in between (InForce).            *)
(* LoopsFollow rests on the history of the first timestamp: only the first *)
(* block of the first file can report it (FirstReport), so that it never   *)
(* changes once Snapshot has let a reader pass (StartKnown).               *)
(* IdsPerLoop is arithmetic on the hex digits of the loop: a byte is moved *)
(* by one digit, and no two digits or bytes are moved to the same byte.    *)
(***************************************************************************)
EXTENDS DiskReplay, FiniteSetTheorems, SequenceTheorems, TLAPS

\* The places of runWorker and worker.Run: of a registered reader, with a file in
\* hand, with a block in hand.
BlockPcs == {"earliest", "latest", "shift", "send"}
RegisteredPcs == BlockPcs \cup {"rebalance", "open", "install", "loop", "unregister"}
FilePcs == RegisteredPcs \cup {"new", "register"}

\* s.workers holds the readers between Register and Unregister.
Registered == workers = {w \in Workers : pc[w] \in RegisteredPcs}

\* Settled readers have their share stored.
Stored == Settled => \A w \in workers : limit[w] = Total \div Cardinality(workers)

\* A limit, read by buildReader or in force, is the stored one unless the last
\* rebalance came in between.
InForce(w) ==
    /\ pc[w] \in RegisteredPcs \cup {"register"} => limit[w] \in Shares
    /\ pc[w] \notin RegisteredPcs => w \notin missed
    /\ pc[w] \notin BlockPcs \cup {"loop", "unregister"} => speedRd[w] = NoReader
    /\ speedRd[w] # NoReader => speedRd[w] \in Shares /\ (speedRd[w] = limit[w] \/ w \in missed)
    /\ pc[w] = "install" => pending[w] \in Shares /\ (pending[w] = limit[w] \/ w \in missed)

\* The generator offers files that exist, and a reader has read no more blocks
\* of its file than there are.
Offered ==
    /\ sched = "running" => Len(dataFiles) > 0
    /\ Len(dataFiles) > 0 /\ ~gen.closed => gen.next < Len(dataFiles)
FileInHand(w) ==
    /\ pc[w] \in FilePcs => file[w].index < Len(dataFiles) /\ pos[w] <= Len(Blocks(w))
    /\ pc[w] \in BlockPcs => pos[w] >= 1
    /\ pc[w] \notin BlockPcs \cup {"loop", "unregister"} => pos[w] = 0 /\ ~tset[w]

\* Who reads file 0 in loop 0 reports its first block, and no other.
FirstFile(w) == file[w].index = 0 /\ file[w].loop = 0
FirstReport(w) ==
    /\ pc[w] = "loop" /\ FirstFile(w) /\ ~tset[w] => pos[w] = 0
    /\ pc[w] = "earliest" => FirstFile(w) /\ pos[w] = 1
    /\ pc[w] \in {"latest", "shift", "send"} /\ FirstFile(w) => tset[w]

\* The first timestamp, once known, is that of the first block.
StartKnown ==
    /\ ready => /\ Len(dataFiles) >= 1 /\ Len(dataFiles[1].blocks) >= 1
                /\ datasetStart = dataFiles[1].blocks[1].first
    /\ ready <=> datasetStart # Zero

\* The times that can be taken for the end of the data set.
Ends == {Zero} \cup UNION {{f.blocks[i].last : i \in DOMAIN f.blocks} : f \in Dir}
EndKnown == datasetEnd \in Ends /\ reports \in Seq(Ends)

\* What a snapshot gave to a block that is about to be sent.
ShiftInHand(w) == (cfg.shift = "all" /\ pc[w] = "send") =>
    /\ ready
    /\ file[w].loop = 0 => shifted[w] = 0
    /\ file[w].loop # 0 => \E e \in Ends : shifted[w] = Wrap(file[w].loop * Sub(e, datasetStart))

ReaderInv(w) == FileInHand(w) /\ FirstReport(w) /\ ShiftInHand(w)

FileTypes == file \in [Workers -> [index : Nat, loop : Nat]]
IInv ==
    /\ TypeOK /\ FileTypes /\ Registered /\ Stored /\ Offered /\ StartKnown /\ EndKnown
    /\ \A w \in Workers : ReaderInv(w) /\ InForce(w)

-----------------------------------------------------------------------------
(* Identifiers *)

\* A map from a finite set that takes no value twice has as many values.
OneToOne(f, S) == \A x, y \in S : f[x] = f[y] => x = y
Images(f, S) == {f[x] : x \in S}
LEMMA ImagesCounted ==
    ASSUME NEW S, IsFiniteSet(S), NEW f, OneToOne(f, S)
    PROVE  Cardinality(Images(f, S)) = Cardinality(S)
<1> DEFINE T == Images(f, S)
           g == [x \in S |-> f[x]]
<1>1. g \in Bijection(S, T)
    BY DEF OneToOne, Images, Bijection, Injection, Surjection, IsInjective
<1>2. ExistsBijection(S, T)
    BY <1>1 DEF ExistsBijection
<1> QED
    BY <1>2, FS_Bijection

\* What one, two and three hex digits count, and loops closer than that.
Ones == 16
Twos == 256
Threes == 4096
Near(x, y, c) == x - y \in 1 - c .. c - 1

\* The hex digit of a loop that a byte is moved by.
Digit(loop, place) == (loop \div 16 ^ place) % 16

\* The digits a loop is written with.
LEMMA DigitValues ==
    ASSUME NEW loop \in Nat
    PROVE  /\ Digit(loop, 0) = loop % Ones
           /\ Digit(loop, 1) = (loop \div Ones) % Ones
           /\ Digit(loop, 2) = (loop \div Twos) % Ones
           /\ \A place \in 0 .. 2 : Digit(loop, place) \in 0 .. 15
<1>1. 16 ^ 0 = 1 /\ 16 ^ 1 = 16 /\ 16 ^ 2 = 256
    OBVIOUS
<1>2. loop \div 1 = loop
    OBVIOUS
<1>3. /\ Digit(loop, 0) = loop % Ones
      /\ Digit(loop, 1) = (loop \div Ones) % Ones
      /\ Digit(loop, 2) = (loop \div Twos) % Ones
    BY <1>1, <1>2 DEF Digit, Ones, Twos
<1>4. loop % Ones \in 0 .. 15 /\ (loop \div Ones) % Ones \in 0 .. 15 /\ (loop \div Twos) % Ones \in 0 .. 15
    BY DEF Ones, Twos
<1>5. \A place \in 0 .. 2 : place = 0 \/ place = 1 \/ place = 2
    OBVIOUS
<1> QED
    BY <1>3, <1>4, <1>5

\* A number and its last digit.
LEMMA LastDigit ==
    ASSUME NEW x \in Nat
    PROVE  /\ x = Ones * (x \div Ones) + (x % Ones) /\ x \div Ones \in Nat /\ x % Ones \in 0 .. 15
           /\ x \div Twos = (x \div Ones) \div Ones
BY DEF Ones, Twos

\* Numbers less than 16, or 256, apart with the same last one, or two, digits are
\* the same.
LEMMA OneDigit ==
    ASSUME NEW x \in Nat, NEW y \in Nat, Near(x, y, Ones), x % Ones = y % Ones
    PROVE  x = y
BY DEF Near, Ones

LEMMA TwoDigits ==
    ASSUME NEW x \in Nat, NEW y \in Nat, Near(x, y, Twos), x % Ones = y % Ones,
           (x \div Ones) % Ones = (y \div Ones) % Ones
    PROVE  x = y
BY DEF Near, Ones, Twos

\* Numbers with the same last digit are sixteen times as far apart as the rest.
LEMMA Sixteenths ==
    ASSUME NEW a \in Nat, NEW b \in Nat, NEW r \in 0 .. 15, Near(Ones * a + r, Ones * b + r, Threes)
    PROVE  Near(a, b, Twos)
BY DEF Near, Ones, Twos, Threes

\* Two loops less than 16, 256 or 4096 apart differ in one of the last one, two or
\* three digits.
LEMMA DigitsTell ==
    ASSUME NEW x \in Nat, NEW y \in Nat, Digit(x, 0) = Digit(y, 0)
    PROVE  /\ Near(x, y, Ones) => x = y
           /\ Near(x, y, Twos) /\ Digit(x, 1) = Digit(y, 1) => x = y
           /\ Near(x, y, Threes) /\ Digit(x, 1) = Digit(y, 1) /\ Digit(x, 2) = Digit(y, 2) => x = y
<1> DEFINE a == x \div Ones
           b == y \div Ones
           r == x % Ones
<1>1. /\ Digit(x, 0) = r /\ Digit(x, 1) = a % Ones /\ Digit(x, 2) = (x \div Twos) % Ones
      /\ Digit(y, 0) = y % Ones /\ Digit(y, 1) = b % Ones /\ Digit(y, 2) = (y \div Twos) % Ones
    BY DigitValues, Zenon
<1>2. r = y % Ones
    BY <1>1, Zenon
<1>3. Near(x, y, Ones) => x = y
    BY <1>2, OneDigit, Zenon
<1>4. Near(x, y, Twos) /\ Digit(x, 1) = Digit(y, 1) => x = y
    BY <1>1, <1>2, TwoDigits, Zenon
<1>5. ASSUME Near(x, y, Threes), Digit(x, 1) = Digit(y, 1), Digit(x, 2) = Digit(y, 2) PROVE x = y
  <2>1. /\ x = Ones * a + r /\ a \in Nat /\ r \in 0 .. 15 /\ x \div Twos = a \div Ones
        /\ y = Ones * b + r /\ b \in Nat /\ y \div Twos = b \div Ones
    BY <1>2, LastDigit, Zenon
  <2>2. Near(Ones * a + r, Ones * b + r, Threes)
    BY <1>5, <2>1, Zenon
  <2>3. Near(a, b, Twos)
    <3> HIDE DEF a, b, r
    <3> QED
      BY <2>1, <2>2, Sixteenths, Zenon
  <2>4. a % Ones = b % Ones /\ (a \div Ones) % Ones = (b \div Ones) % Ones
    BY <1>1, <1>5, <2>1, Zenon
  <2> HIDE DEF a, b, r
  <2>5. a = b
    BY <2>1, <2>3, <2>4, TwoDigits, Zenon
  <2> QED
    BY <2>1, <2>5, Zenon
<1> QED
    BY <1>3, <1>4, <1>5

\* After as many loops as the digits count they are the same again.
LEMMA DigitsRepeat ==
    ASSUME NEW x \in Nat
    PROVE  /\ Digit(x + Ones, 0) = Digit(x, 0)
           /\ Digit(x + Twos, 0) = Digit(x, 0) /\ Digit(x + Twos, 1) = Digit(x, 1)
           /\ Digit(x + Threes, 0) = Digit(x, 0) /\ Digit(x + Threes, 1) = Digit(x, 1)
           /\ Digit(x + Threes, 2) = Digit(x, 2)
<1>1. \A y \in Nat : /\ Digit(y, 0) = y % Ones /\ Digit(y, 1) = (y \div Ones) % Ones
                     /\ Digit(y, 2) = (y \div Twos) % Ones
    BY DigitValues, Zenon
<1>2. (x + Ones) % Ones = x % Ones /\ (x + Twos) % Ones = x % Ones /\ (x + Threes) % Ones = x % Ones
    BY DEF Ones, Twos, Threes
<1>3. /\ ((x + Twos) \div Ones) % Ones = (x \div Ones) % Ones
      /\ ((x + Threes) \div Ones) % Ones = (x \div Ones) % Ones
    BY DEF Ones, Twos, Threes
<1>4. ((x + Threes) \div Twos) % Ones = (x \div Twos) % Ones
    BY DEF Ones, Twos, Threes
<1>5. x + Ones \in Nat /\ x + Twos \in Nat /\ x + Threes \in Nat
    BY DEF Ones, Twos, Threes
<1> QED
    BY <1>1, <1>2, <1>3, <1>4, <1>5, Zenon

\* shiftHexByte: within an alphabet a shift takes no two digits to the same byte.
LEMMA BytesApart ==
    ASSUME NEW hex \in Alphabets, NEW a \in hex, NEW b \in hex, NEW n \in 0 .. 15,
           shiftHexByte(a, n) = shiftHexByte(b, n)
    PROVE  a = b
<1>1. /\ a \in Digits \cup Letters \cup 65 .. 70 /\ b \in Digits \cup Letters \cup 65 .. 70
      /\ a \in Letters => b \notin 65 .. 70
      /\ b \in Letters => a \notin 65 .. 70
    BY DEF Alphabets, Digits, Letters
<1> QED
    BY <1>1 DEF shiftHexByte, Digits, Letters

\* No two shifts take a digit to the same byte.
LEMMA ShiftsApart ==
    ASSUME NEW hex \in Alphabets, NEW a \in hex, NEW n \in 0 .. 15, NEW m \in 0 .. 15,
           shiftHexByte(a, n) = shiftHexByte(a, m)
    PROVE  n = m
<1>1. a \in Digits \cup Letters \cup 65 .. 70
    BY DEF Alphabets, Digits, Letters
<1> QED
    BY <1>1 DEF shiftHexByte, Digits, Letters

\* A shift by 0 changes nothing.
LEMMA ByteStays ==
    ASSUME NEW hex \in Alphabets, NEW a \in hex
    PROVE  shiftHexByte(a, 0) = a
<1>1. a \in Digits \cup Letters \cup 65 .. 70
    BY DEF Alphabets, Digits, Letters
<1> QED
    BY <1>1 DEF shiftHexByte, Digits, Letters

\* Loop 0 shifts nothing.
LEMMA DigitsOfZero == Digit(0, 0) = 0 /\ Digit(0, 1) = 0 /\ Digit(0, 2) = 0
<1>1. 0 % Ones = 0 /\ (0 \div Ones) % Ones = 0 /\ (0 \div Twos) % Ones = 0 /\ 0 \in Nat
    BY DEF Ones, Twos
<1> QED
    BY <1>1, DigitValues, Zenon

\* As many loops as the last bytes of an id can count.
LEMMA LoopsCountedValues ==
    ASSUME NEW S, NEW id \in Seq(S)
    PROVE  /\ Len(id) = 0 => LoopsCounted(id) = 1
           /\ Len(id) = 1 => LoopsCounted(id) = Ones
           /\ Len(id) = 2 => LoopsCounted(id) = Twos
           /\ Len(id) >= 3 => LoopsCounted(id) = Threes
           /\ LoopsCounted(id) \in Nat \ {0}
<1> DEFINE n == Len(id)
<1>1. 16 ^ 0 = 1 /\ 16 ^ 1 = 16 /\ 16 ^ 2 = 256 /\ 16 ^ 3 = 4096
    OBVIOUS
<1>2. n \in Nat
    OBVIOUS
<1>3. LoopsCounted(id) = 16 ^ (IF n < 3 THEN n ELSE 3)
    BY DEF LoopsCounted
<1> HIDE DEF n
<1>4. n = 0 \/ n = 1 \/ n = 2 \/ n >= 3
    BY <1>2
<1>5. n = 0 => LoopsCounted(id) = 16 ^ 0
    BY <1>3
<1>6. n = 1 => LoopsCounted(id) = 16 ^ 1
    BY <1>3
<1>7. n = 2 => LoopsCounted(id) = 16 ^ 2
    BY <1>3
<1>8. n >= 3 => LoopsCounted(id) = 16 ^ 3
    BY <1>2, <1>3
<1>9. /\ n = 0 => LoopsCounted(id) = 1
      /\ n = 1 => LoopsCounted(id) = 16
      /\ n = 2 => LoopsCounted(id) = 256
      /\ n >= 3 => LoopsCounted(id) = 4096
    BY <1>1, <1>5, <1>6, <1>7, <1>8
<1> QED
    BY <1>4, <1>9 DEF n, Ones, Twos, Threes

\* MutateIDs byte by byte, loop 0 included: a shift by the digit 0 changes nothing.
Moved(id, loop, i) == IF Len(id) - i < 3 THEN shiftHexByte(id[i], Digit(loop, Len(id) - i)) ELSE id[i]
LEMMA MutatedBytes ==
    ASSUME NEW hex \in Alphabets, NEW id \in Seq(hex), NEW loop \in Nat
    PROVE  MutateIDs(id, loop) = [i \in 1 .. Len(id) |-> Moved(id, loop, i)]
<1> DEFINE n == Len(id)
<1>1. DOMAIN id = 1 .. n /\ n \in Nat /\ \A i \in 1 .. n : id[i] \in hex
    OBVIOUS
<1>2. CASE loop # 0
    BY <1>1, <1>2 DEF MutateIDs, shiftColStrLastByte, Digit, Moved
<1>3. CASE loop = 0
  <2>1. MutateIDs(id, loop) = id /\ id = [i \in 1 .. n |-> id[i]]
    BY <1>3 DEF MutateIDs
  <2>2. ASSUME NEW i \in 1 .. n, n - i < 3
        PROVE  shiftHexByte(id[i], Digit(loop, n - i)) = id[i]
    <3> DEFINE p == n - i
    <3> HIDE DEF n
    <3>2. p = 0 \/ p = 1 \/ p = 2
      BY <1>1, <2>2
    <3> HIDE DEF p
    <3>3. Digit(loop, p) = 0
      BY <1>3, <3>2, DigitsOfZero
    <3>4. id[i] \in hex
      BY <1>1
    <3> QED
      BY <3>3, <3>4, ByteStays DEF p
  <2>3. \A i \in 1 .. n : Moved(id, loop, i) = id[i]
    BY <2>2 DEF Moved
  <2> QED
    BY <2>1, <2>3
<1> QED
    BY <1>2, <1>3

\* columns.go:36-75. For ids of any length in lower or in upper case, and in every
\* loop, different ids stay different: a span still finds its parent.
THEOREM IdsKeepTheirJoins ==
    \A hex \in Alphabets : \A a, b \in Seq(hex) : \A loop \in Nat :
        MutateIDs(a, loop) = MutateIDs(b, loop) => a = b
<1> SUFFICES ASSUME NEW hex \in Alphabets, NEW a \in Seq(hex), NEW b \in Seq(hex), NEW loop \in Nat,
                    MutateIDs(a, loop) = MutateIDs(b, loop)
             PROVE  a = b
    OBVIOUS
<1>0. Len(a) \in Nat /\ Len(b) \in Nat
    OBVIOUS
<1>1. /\ DOMAIN MutateIDs(a, loop) = 1 .. Len(a)
      /\ \A i \in 1 .. Len(a) : MutateIDs(a, loop)[i] = Moved(a, loop, i)
    BY MutatedBytes
<1>2. /\ DOMAIN MutateIDs(b, loop) = 1 .. Len(b)
      /\ \A i \in 1 .. Len(b) : MutateIDs(b, loop)[i] = Moved(b, loop, i)
    BY MutatedBytes
<1>3. Len(a) = Len(b)
    BY <1>0, <1>1, <1>2
<1>4. ASSUME NEW i \in 1 .. Len(a) PROVE a[i] = b[i]
  <2>1. a[i] \in hex /\ b[i] \in hex
    BY <1>3
  <2>2. CASE Len(a) - i < 3
    <3> DEFINE n == Digit(loop, Len(a) - i)
    <3>1. Len(a) - i \in 0 .. 2
      BY <1>0, <2>2
    <3>2. n \in 0 .. 15
      BY <3>1, DigitValues
    <3>3. shiftHexByte(a[i], n) = shiftHexByte(b[i], n)
      BY <1>1, <1>2, <1>3, <2>2 DEF Moved
    <3> HIDE DEF n
    <3> QED
      BY <2>1, <3>2, <3>3, BytesApart
  <2>3. CASE ~(Len(a) - i < 3)
    BY <1>1, <1>2, <1>3, <2>3 DEF Moved
  <2> QED
    BY <2>2, <2>3
<1> QED
    BY <1>3, <1>4

\* Two loops that change an id in the same way agree in the digits its bytes take.
LEMMA SameDigits ==
    ASSUME NEW hex \in Alphabets, NEW id \in Seq(hex), NEW x \in Nat, NEW y \in Nat,
           MutateIDs(id, x) = MutateIDs(id, y), NEW place \in 0 .. 2, place < Len(id)
    PROVE  Digit(x, place) = Digit(y, place)
<1> DEFINE i == Len(id) - place
<1>1. i \in 1 .. Len(id) /\ Len(id) - i = place /\ Len(id) - i < 3 /\ id[i] \in hex
    OBVIOUS
<1>2. MutateIDs(id, x)[i] = shiftHexByte(id[i], Digit(x, place))
    BY <1>1, MutatedBytes DEF Moved
<1>3. MutateIDs(id, y)[i] = shiftHexByte(id[i], Digit(y, place))
    BY <1>1, MutatedBytes DEF Moved
<1>4. Digit(x, place) \in 0 .. 15 /\ Digit(y, place) \in 0 .. 15
    BY DigitValues
<1> HIDE DEF i
<1> QED
    BY <1>1, <1>2, <1>3, <1>4, ShiftsApart

\* disk/worker.go:203. Any two loops that are fewer apart than the last bytes of an
\* id can count (4096 from three bytes on) give it different forms.
THEOREM LoopsTellIdsApart ==
    \A hex \in Alphabets : \A id \in Seq(hex) : \A x, y \in Nat :
        x - y \in 1 - LoopsCounted(id) .. LoopsCounted(id) - 1 /\ MutateIDs(id, x) = MutateIDs(id, y) => x = y
<1> SUFFICES ASSUME NEW hex \in Alphabets, NEW id \in Seq(hex), NEW x \in Nat, NEW y \in Nat,
                    x - y \in 1 - LoopsCounted(id) .. LoopsCounted(id) - 1, MutateIDs(id, x) = MutateIDs(id, y)
             PROVE  x = y
    OBVIOUS
<1> DEFINE n == Len(id)
           c == LoopsCounted(id)
<1>0. n \in Nat /\ x - y \in 1 - c .. c - 1
    OBVIOUS
<1>1. \A place \in 0 .. 2 : place < n => Digit(x, place) = Digit(y, place)
    BY SameDigits
<1>2. (n = 0 => c = 1) /\ (n = 1 => c = Ones) /\ (n = 2 => c = Twos) /\ (n >= 3 => c = Threes)
    BY LoopsCountedValues, Zenon
<1> HIDE DEF n, c
<1>3. CASE n = 0
    BY <1>0, <1>2, <1>3
<1>4. /\ n >= 1 => Digit(x, 0) = Digit(y, 0)
      /\ n >= 2 => Digit(x, 1) = Digit(y, 1)
      /\ n >= 3 => Digit(x, 2) = Digit(y, 2)
    BY <1>0, <1>1
<1>5. Near(x, y, c)
    BY <1>0 DEF Near
<1>6. CASE n = 1
  <2>1. n >= 1
    BY <1>6
  <2> QED
    BY <1>2, <1>4, <1>5, <1>6, <2>1, DigitsTell, Zenon
<1>7. CASE n = 2
  <2>1. n >= 1 /\ n >= 2
    BY <1>7
  <2> QED
    BY <1>2, <1>4, <1>5, <1>7, <2>1, DigitsTell, Zenon
<1>8. CASE n >= 3
  <2>1. n >= 1 /\ n >= 2
    BY <1>0, <1>8
  <2> QED
    BY <1>2, <1>4, <1>5, <1>8, <2>1, DigitsTell, Zenon
<1> QED
    BY <1>0, <1>3, <1>6, <1>7, <1>8

\* After that many loops an id is what it was.
LEMMA IdsRepeat ==
    ASSUME NEW hex \in Alphabets, NEW id \in Seq(hex), NEW loop \in Nat
    PROVE  MutateIDs(id, loop + LoopsCounted(id)) = MutateIDs(id, loop)
<1> DEFINE n == Len(id)
           c == LoopsCounted(id)
           later == loop + c
<1>0. n \in Nat /\ c \in Nat
    BY LoopsCountedValues
<1>1. ASSUME NEW place \in 0 .. 2, place < n PROVE Digit(later, place) = Digit(loop, place)
  <2>1. (n = 1 => c = Ones) /\ (n = 2 => c = Twos) /\ (n >= 3 => c = Threes)
    BY LoopsCountedValues, Zenon
  <2>2. later = loop + c
    OBVIOUS
  <2> HIDE DEF n, c, later
  <2>3. place = 0 \/ place = 1 \/ place = 2
    OBVIOUS
  <2>4. \/ n = 1 /\ place = 0
        \/ n = 2 /\ (place = 0 \/ place = 1)
        \/ n >= 3
    BY <1>0, <1>1, <2>3
  <2> QED
    BY <2>1, <2>2, <2>3, <2>4, DigitsRepeat, Zenon
<1>6. later \in Nat
    BY <1>0
<1> HIDE DEF later
<1>2. MutateIDs(id, later) = [i \in 1 .. n |-> Moved(id, later, i)]
    BY <1>6, MutatedBytes
<1>3. MutateIDs(id, loop) = [i \in 1 .. n |-> Moved(id, loop, i)]
    BY MutatedBytes
<1>4. ASSUME NEW i \in 1 .. n PROVE Moved(id, later, i) = Moved(id, loop, i)
  <2>1. n - i < 3 => n - i \in 0 .. 2 /\ n - i < n
    <3> HIDE DEF n
    <3> QED
      BY <1>0
  <2>2. n - i < 3 => Digit(later, n - i) = Digit(loop, n - i)
    <3> HIDE DEF n
    <3> QED
      BY <1>1, <2>1
  <2> QED
    BY <2>2 DEF Moved
<1>5. MutateIDs(id, later) = MutateIDs(id, loop)
    BY <1>2, <1>3, <1>4
<1> QED
    BY <1>5 DEF later

\* The sets of ids are finite, and their ids are written in the alphabet.
LEMMA IdSetsFinite ==
    ASSUME NEW hex \in Alphabets, NEW ids \in IdSets(hex)
    PROVE  IsFiniteSet(ids) /\ ids \subseteq Seq(hex)
<1>1. IsFiniteSet(hex) /\ 48 \in hex /\ 57 \in hex
  <2>1. hex \in SUBSET Nat /\ 102 \in Nat /\ \A a \in hex : a <= 102
    BY DEF Alphabets, Digits, Letters
  <2>2. IsFiniteSet(hex)
    BY <2>1, FS_BoundedSetOfNaturals
  <2> QED
    BY <2>2 DEF Alphabets, Digits, Letters
<1>2. IsFiniteSet(hex \X hex)
    BY <1>1, FS_Product
<1>3. CASE ids = {<<a>> : a \in hex}
  <2> DEFINE f == [a \in hex |-> <<a>>]
  <2>1. f \in Surjection(hex, ids)
    BY <1>3 DEF Surjection
  <2>2. IsFiniteSet(ids)
    BY <1>1, <2>1, FS_Surjection
  <2> QED
    BY <1>3, <2>2
<1>4. CASE ids = {<<a, b, 57, 48>> : a, b \in hex}
  <2> DEFINE f == [p \in hex \X hex |-> <<p[1], p[2], 57, 48>>]
  <2>1. f \in Surjection(hex \X hex, ids)
    <3>1. f \in [hex \X hex -> ids]
      BY <1>4
    <3>2. ASSUME NEW t \in ids PROVE \E p \in hex \X hex : f[p] = t
      <4>1. PICK a \in hex, b \in hex : t = <<a, b, 57, 48>>
        BY <1>4
      <4>2. <<a, b>> \in hex \X hex /\ f[<<a, b>>] = t
        BY <4>1
      <4> QED
        BY <4>2
    <3> QED
      BY <3>1, <3>2 DEF Surjection
  <2>2. IsFiniteSet(ids)
    BY <1>2, <2>1, FS_Surjection
  <2>3. \A a, b \in hex : <<a, b, 57, 48>> \in Seq(hex)
    BY <1>1
  <2>4. ASSUME NEW t \in ids PROVE t \in Seq(hex)
    <3>1. PICK a \in hex, b \in hex : t = <<a, b, 57, 48>>
      BY <1>4
    <3> QED
      BY <2>3, <3>1
  <2> QED
    BY <2>2, <2>4
<1>5. CASE ids = {<<48, a, b>> : a, b \in hex}
  <2> DEFINE f == [p \in hex \X hex |-> <<48, p[1], p[2]>>]
  <2>1. f \in Surjection(hex \X hex, ids)
    <3>1. f \in [hex \X hex -> ids]
      BY <1>5
    <3>2. ASSUME NEW t \in ids PROVE \E p \in hex \X hex : f[p] = t
      <4>1. PICK a \in hex, b \in hex : t = <<48, a, b>>
        BY <1>5
      <4>2. <<a, b>> \in hex \X hex /\ f[<<a, b>>] = t
        BY <4>1
      <4> QED
        BY <4>2
    <3> QED
      BY <3>1, <3>2 DEF Surjection
  <2>2. IsFiniteSet(ids)
    BY <1>2, <2>1, FS_Surjection
  <2>3. \A a, b \in hex : <<48, a, b>> \in Seq(hex)
    BY <1>1
  <2>4. ASSUME NEW t \in ids PROVE t \in Seq(hex)
    <3>1. PICK a \in hex, b \in hex : t = <<48, a, b>>
      BY <1>5
    <3> QED
      BY <2>3, <3>1
  <2> QED
    BY <2>2, <2>4
<1> QED
    BY <1>3, <1>4, <1>5 DEF IdSets

\* Within a loop, as many ids after the shift as before.
LEMMA IdsStayApart ==
    ASSUME NEW hex \in Alphabets, NEW ids \in IdSets(hex), NEW loop \in Nat
    PROVE  Cardinality({MutateIDs(id, loop) : id \in ids}) = Cardinality(ids)
<1> DEFINE f == [id \in ids |-> MutateIDs(id, loop)]
<1>1. IsFiniteSet(ids) /\ ids \subseteq Seq(hex)
    BY IdSetsFinite
<1>2. OneToOne(f, ids)
    BY <1>1, IdsKeepTheirJoins DEF OneToOne
<1>3. Images(f, ids) = {MutateIDs(id, loop) : id \in ids}
    BY DEF Images
<1> HIDE DEF f
<1> QED
    BY <1>1, <1>2, <1>3, ImagesCounted

\* Of an id, as many different ones as loops are counted.
LEMMA LoopsCountIds ==
    ASSUME NEW hex \in Alphabets, NEW id \in Seq(hex), NEW loop \in Nat
    PROVE  Cardinality({MutateIDs(id, loop + later) : later \in 0 .. LoopsCounted(id) - 1}) = LoopsCounted(id)
<1> DEFINE c == LoopsCounted(id)
           S == 0 .. c - 1
           f == [later \in S |-> MutateIDs(id, loop + later)]
<1>1. c \in Nat \ {0}
    BY LoopsCountedValues
<1>2. IsFiniteSet(S) /\ Cardinality(S) = c
  <2> HIDE DEF c
  <2>1. 0 \in Int /\ c - 1 \in Int /\ ~(0 > c - 1) /\ (c - 1) - 0 + 1 = c
    BY <1>1
  <2> QED
    BY <2>1, FS_Interval
<1>3. OneToOne(f, S)
  <2> SUFFICES ASSUME NEW a \in S, NEW b \in S, MutateIDs(id, loop + a) = MutateIDs(id, loop + b) PROVE a = b
    BY DEF OneToOne
  <2> DEFINE x == loop + a
             y == loop + b
  <2>1. x \in Nat /\ y \in Nat /\ x - y \in 1 - c .. c - 1 /\ (x = y => a = b)
    <3> HIDE DEF c
    <3> QED
      BY <1>1
  <2>2. MutateIDs(id, x) = MutateIDs(id, y)
    OBVIOUS
  <2> HIDE DEF x, y
  <2>3. x = y
    BY <2>1, <2>2, LoopsTellIdsApart, Zenon
  <2> QED
    BY <2>1, <2>3
<1>4. Images(f, S) = {MutateIDs(id, loop + later) : later \in S}
    BY DEF Images
<1> HIDE DEF f, S
<1>5. Cardinality({MutateIDs(id, loop + later) : later \in S}) = c
    BY <1>2, <1>3, <1>4, ImagesCounted
<1> QED
    BY <1>5 DEF S, c

\* In every loop ids keep apart.
LEMMA IdsDistinctHolds == \A loop \in 0 .. MaxLoop : IdsDistinct[loop]
<1> SUFFICES ASSUME NEW loop \in 0 .. MaxLoop PROVE IdsDistinct[loop]
    OBVIOUS
<1>0. loop \in Nat
    BY ReplayAssumption
<1> DEFINE lower == Digits \cup Letters
           upper == Digits \cup 65 .. 70
           tests == {<<>>, <<102>>, <<48, 57>>, <<97, 48, 102>>, <<65, 70, 48, 57>>}
<1>1. lower \in Alphabets /\ upper \in Alphabets
    BY DEF Alphabets
<1>2. /\ <<>> \in Seq(lower) /\ <<102>> \in Seq(lower) /\ <<48, 57>> \in Seq(lower) /\ <<97, 48, 102>> \in Seq(lower)
      /\ <<65, 70, 48, 57>> \in Seq(upper)
    BY DEF Digits, Letters
<1>3. \A id \in tests : id \in Seq(lower) \/ id \in Seq(upper)
    BY <1>2
<1>4. ASSUME NEW hex \in Alphabets, NEW ids \in IdSets(hex)
      PROVE  Cardinality({MutateIDs(id, loop) : id \in ids}) = Cardinality(ids)
    BY <1>0, IdsStayApart
<1> HIDE DEF lower, upper, tests
<1>5. ASSUME NEW id \in tests
      PROVE  /\ Cardinality({MutateIDs(id, loop + later) : later \in 0 .. LoopsCounted(id) - 1}) = LoopsCounted(id)
             /\ MutateIDs(id, loop + LoopsCounted(id)) = MutateIDs(id, loop)
    BY <1>0, <1>1, <1>3, LoopsCountIds, IdsRepeat
<1> QED
    BY <1>4, <1>5 DEF IdsDistinct, tests

-----------------------------------------------------------------------------
(* The invariant *)

USE ReplayAssumption

\* getDataFiles: sorting the entries by path gives each of them a place.
LEMMA DataFilesSorted ==
    /\ dataFiles \in Seq(Dir) /\ Len(dataFiles) \in Nat
    /\ \A i \in 1 .. Len(dataFiles) : dataFiles[i] \in Dir
<1> DEFINE D == DataEntries
           n == Cardinality(D)
           UpTo(e) == {f \in D : f.path =< e.path}
           rank == [e \in D |-> Cardinality(UpTo(e))]
<1>1. /\ D \subseteq Dir /\ IsFiniteSet(D) /\ n \in Nat
      /\ \A e \in D : e.path \in Int
      /\ \A e, f \in D : e.path = f.path => e = f
  BY FS_Subset, FS_CardinalityType DEF DataEntries
<1> HIDE DEF D
<1>2. \A e \in D : IsFiniteSet(UpTo(e)) /\ Cardinality(UpTo(e)) \in 1 .. n
  <2> SUFFICES ASSUME NEW e \in D
               PROVE  IsFiniteSet(UpTo(e)) /\ Cardinality(UpTo(e)) \in 1 .. n
    OBVIOUS
  <2>1. UpTo(e) \in SUBSET D /\ UpTo(e) # {}
    BY <1>1
  <2>2. IsFiniteSet(UpTo(e)) /\ Cardinality(UpTo(e)) <= n /\ Cardinality(UpTo(e)) \in Nat
    BY <1>1, <2>1, FS_Subset, FS_CardinalityType
  <2>3. Cardinality(UpTo(e)) # 0
    BY <2>1, <2>2, FS_EmptySet
  <2> QED BY <1>1, <2>2, <2>3
<1>3. \A e, f \in D : e.path < f.path => rank[e] < rank[f]
  <2> SUFFICES ASSUME NEW e \in D, NEW f \in D, e.path < f.path
               PROVE  rank[e] < rank[f]
    OBVIOUS
  <2>1. UpTo(e) \in SUBSET UpTo(f) /\ f \in UpTo(f) /\ f \notin UpTo(e)
    BY <1>1
  <2>2. Cardinality(UpTo(e)) <= Cardinality(UpTo(f)) /\ Cardinality(UpTo(e)) # Cardinality(UpTo(f))
    BY <1>2, <2>1, FS_Subset
  <2> HIDE DEF UpTo
  <2>3. Cardinality(UpTo(e)) \in Nat /\ Cardinality(UpTo(f)) \in Nat
    BY <1>1, <1>2
  <2> QED BY <2>2, <2>3
<1> DEFINE s == [i \in 1 .. n |-> CHOOSE e \in D : rank[e] = i]
<1>4. rank \in [D -> 1 .. n]
  BY <1>2
<1> HIDE DEF rank, UpTo
<1>5. \A e, f \in D : rank[e] = rank[f] => e = f
  <2> SUFFICES ASSUME NEW e \in D, NEW f \in D, e # f
               PROVE  rank[e] # rank[f]
    OBVIOUS
  <2>1. rank[e] \in Int /\ rank[f] \in Int
    BY <1>1, <1>4
  <2>2. e.path < f.path \/ f.path < e.path
    BY <1>1
  <2> QED BY <1>3, <2>1, <2>2
<1>6. \A i \in 1 .. n : \E e \in D : rank[e] = i
  <2>1. rank \in Injection(D, 1 .. n)
    BY <1>4, <1>5 DEF Injection, IsInjective
  <2>2. IsFiniteSet(1 .. n) /\ Cardinality(1 .. n) = n
    BY <1>1, FS_Interval
  <2>3. rank \in Surjection(D, 1 .. n)
    BY <2>1, <2>2, FS_Injection
  <2> QED BY <2>3 DEF Surjection
<1>7. s \in [1 .. n -> D] /\ \A i \in 1 .. n : rank[s[i]] = i
  BY <1>6
<1>8. \A i, j \in DOMAIN s : i < j => s[i].path < s[j].path
  BY <1>1, <1>3, <1>4, <1>5, <1>7
<1>9. dataFiles \in [1 .. n -> D]
  <2> HIDE DEF s
  <2>1. \E t \in [1 .. n -> D] : \A i, j \in DOMAIN t : i < j => t[i].path < t[j].path
    BY <1>7, <1>8
  <2> QED BY <2>1 DEF dataFiles, D
<1>10. dataFiles \in Seq(Dir)
  <2>1. dataFiles \in [1 .. n -> Dir]
    BY <1>1, <1>9
  <2> QED BY <1>1, <2>1, SeqDef
<1> QED BY <1>10

\* A share is a part of the limit.
LEMMA ShareType == \A n \in Nat \ {0} : Total \div n \in 0 .. Total
<1> SUFFICES ASSUME NEW n \in Nat \ {0} PROVE Total \div n \in 0 .. Total
  OBVIOUS
<1> DEFINE q == Total \div n
<1>1. q \in Int /\ n * q <= Total /\ Total < n * (q + 1)
  OBVIOUS
<1>2. q >= 0
  BY <1>1
<1>3. q <= n * q
  BY <1>1, <1>2
<1> QED BY <1>1, <1>2, <1>3

LEMMA RegisteredCount ==
    ASSUME workers \subseteq Workers
    PROVE  /\ Cardinality(workers) \in Nat
           /\ workers # {} => Cardinality(workers) # 0
BY FS_Subset, FS_CardinalityType, FS_EmptySet

\* time.Duration: multiplication wraps into the type, and zero times anything is zero.
LEMMA WrapType == \A d \in Int : Wrap(d) \in -Half .. Half - 1
BY DEF Wrap

LEMMA WrapZero == Wrap(0) = 0
<1>1. Half % (2 * Half) = Half
  BY SMT
<1> QED BY <1>1 DEF Wrap

LEMMA SubType == \A t, u \in Int : Sub(t, u) \in -Half .. Half - 1
BY DEF Sub

\* The times of a block.
LEMMA BlockTimes ==
    ASSUME NEW f \in Dir, NEW i \in DOMAIN f.blocks
    PROVE  /\ f.blocks[i].first \in Nat /\ f.blocks[i].last \in Nat
           /\ f.blocks[i].first # Zero
<1>1. f.blocks \in Seq([first : Nat, last : Nat])
  OBVIOUS
<1>2. f.blocks[i] \in [first : Nat, last : Nat]
  <2>1. i \in 1 .. Len(f.blocks)
    BY <1>1
  <2> QED BY <1>1, <2>1, ElementOfSeq
<1>3. f.blocks[i].first > Half
  OBVIOUS
<1> QED BY <1>2, <1>3 DEF Zero

LEMMA EndsType == Ends \subseteq Int
BY BlockTimes DEF Ends, Zero

LEMMA StartTime ==
    ASSUME StartKnown, ready
    PROVE  /\ datasetStart \in Nat
           /\ \E f \in Dir : \E i \in DOMAIN f.blocks : datasetStart = f.blocks[i].first
<1> DEFINE f == dataFiles[1]
<1>1. f \in Dir
  BY DataFilesSorted DEF StartKnown
<1>2. 1 \in DOMAIN f.blocks
  BY <1>1 DEF StartKnown
<1>3. datasetStart = f.blocks[1].first
  BY DEF StartKnown
<1> QED BY <1>1, <1>2, <1>3, BlockTimes

\* The block in hand is one of the folder's.
LEMMA BlockInHand ==
    ASSUME TypeOK, FileTypes, NEW w \in Workers, FileInHand(w), pc[w] \in BlockPcs
    PROVE  \E f \in Dir : \E i \in DOMAIN f.blocks : Current(w) = f.blocks[i]
<1>1. file[w].index + 1 \in 1 .. Len(dataFiles)
  BY DataFilesSorted DEF FileInHand, FileTypes, FilePcs, RegisteredPcs
<1>2. dataFiles[file[w].index + 1] \in Dir
  BY <1>1, DataFilesSorted
<1>3. pos[w] \in 1 .. Len(Blocks(w))
  BY <1>2 DEF FileInHand, FilePcs, RegisteredPcs, TypeOK, Blocks
<1>4. DOMAIN Blocks(w) = 1 .. Len(Blocks(w))
  BY <1>2 DEF Blocks
<1> QED BY <1>2, <1>3, <1>4 DEF Current, Blocks

LEMMA InitIInv == Init => IInv
<1> SUFFICES ASSUME Init PROVE IInv
  OBVIOUS
<1>1. TypeOK
  <2>1. gen \in [next : 0 .. Len(dataFiles), loop : 0 .. MaxLoop + 1, closed : BOOLEAN]
    BY DataFilesSorted DEF Init
  <2>2. Len(reports) = 0
    BY DEF Init
  <2>3. /\ limit \in [Workers -> 0 .. Total] /\ pending \in [Workers -> 0 .. Total]
        /\ speedRd \in [Workers -> {NoReader} \cup 0 .. Total]
        /\ shifted \in [Workers -> -Half .. Half - 1]
    BY DEF Init
  <2>4. \A w \in Workers : file[w].index \in 0 .. Len(dataFiles) /\ file[w].loop \in 0 .. MaxLoop
    BY DataFilesSorted DEF Init, NoFile
  <2>5. pos \in [Workers -> Nat] /\ tset \in [Workers -> BOOLEAN]
        /\ workers \subseteq Workers /\ missed \subseteq Workers
    BY DEF Init
  <2>6. cancelled \in BOOLEAN /\ ready \in BOOLEAN /\ keeper \in BOOLEAN
    BY DEF Init
  <2>7. sched = "start" /\ pc = [w \in Workers |-> "idle"]
    BY DEF Init
  <2> QED BY <2>1, <2>2, <2>3, <2>4, <2>5, <2>6, <2>7 DEF TypeOK
<1>2. FileTypes
  BY DEF Init, FileTypes, NoFile
<1>3. Registered /\ Stored
  BY DEF Init, Registered, Stored, Settled, RegisteredPcs, BlockPcs
<1>4. Offered
  BY DataFilesSorted DEF Init, Offered
<1>5. StartKnown /\ EndKnown
  BY EmptySeq DEF Init, StartKnown, EndKnown, Ends
<1>6. \A w \in Workers : ReaderInv(w)
  BY DEF Init, ReaderInv, FileInHand, FirstReport, ShiftInHand, FilePcs, RegisteredPcs, BlockPcs
<1>7. \A w \in Workers : InForce(w)
  BY DEF Init, InForce, RegisteredPcs, BlockPcs
<1> QED BY <1>1, <1>2, <1>3, <1>4, <1>5, <1>6, <1>7 DEF IInv
-----------------------------------------------------------------------------
(* The speed limit. *)

\* A step of reader w moves its pc only, along the edges of its loop.
Moves(w, from, to) ==
    /\ pc[w] \in from /\ sched = "running"
    /\ pc'[w] \in to
    /\ \A u \in Workers \ {w} : pc'[u] = pc[u]

LEMMA PcMoves ==
    ASSUME TypeOK, NEW w \in Workers
    PROVE  /\ Take(w) => Moves(w, {"idle"}, {"new"})
           /\ RunWorkerReturn(w) => Moves(w, {"idle"}, {"exited"})
           /\ NewWorker(w) => Moves(w, {"new"}, {"register"})
           /\ Register(w) => Moves(w, {"register"}, {"rebalance"})
           /\ Unregister(w) => Moves(w, {"unregister"}, {"rebalance2"})
           /\ RebalanceSpeed(w) => Moves(w, {"rebalance"}, {"open"}) \/ Moves(w, {"rebalance2"}, {"idle"})
           /\ BuildReader(w) => Moves(w, {"open"}, {"install", "unregister"})
           /\ InstallReader(w) => Moves(w, {"install"}, {"loop"})
           /\ DecodeBlock(w) => Moves(w, {"loop"}, {"unregister", "shift", "earliest", "latest"})
           /\ ReportEarliestTimestamp(w) => Moves(w, {"earliest"}, {"latest"})
           /\ ReportLatestTimestamp(w) => Moves(w, {"latest"}, {"shift"})
           /\ Shift(w) => Moves(w, {"shift"}, {"send"})
           /\ Send(w) => Moves(w, {"send"}, {"loop"})
BY DEF Moves, TypeOK, At, Goto, Take, RunWorkerReturn, NewWorker, Register, Unregister, RebalanceSpeed,
       BuildReader, InstallReader, DecodeBlock, ReportEarliestTimestamp, ReportLatestTimestamp, Shift, Send

\* The steps that leave the shares alone: they neither register nor rebalance.
LEMMA SharesKept ==
    ASSUME IInv, UNCHANGED <<limit, workers>>,
           \A u \in Workers : /\ pc'[u] \in RegisteredPcs <=> pc[u] \in RegisteredPcs
                              /\ pc[u] \in {"rebalance", "rebalance2"} => pc'[u] = pc[u]
    PROVE  Registered' /\ Stored'
BY DEF IInv, Registered, Stored, Settled

LEMMA ReaderShares ==
    ASSUME IInv, NEW w \in Workers, Reader(w)
    PROVE  Registered' /\ Stored'
<1>0. TypeOK /\ Registered /\ Stored
  BY DEF IInv
<1>1. CASE NewWorker(w)
  <2>1. Moves(w, {"new"}, {"register"})
    BY <1>0, <1>1, PcMoves
  <2>2. workers' = workers /\ w \notin workers /\ \A u \in workers : limit'[u] = limit[u]
    BY <1>0, <1>1, <2>1 DEF NewWorker, Moves, Registered, RegisteredPcs, BlockPcs, TypeOK
  <2>3. Registered'
    BY <1>0, <2>1, <2>2 DEF Moves, Registered, RegisteredPcs, BlockPcs
  <2>4. \A u \in Workers : pc'[u] \notin {"rebalance", "rebalance2"} => pc[u] \notin {"rebalance", "rebalance2"}
    BY <2>1 DEF Moves
  <2> QED BY <1>0, <2>2, <2>3, <2>4 DEF Stored, Settled
<1>2. CASE Register(w)
  <2>1. Moves(w, {"register"}, {"rebalance"})
    BY <1>0, <1>2, PcMoves
  <2>2. Registered'
    BY <1>0, <1>2, <2>1 DEF Register, Moves, Registered, RegisteredPcs, BlockPcs
  <2> QED BY <2>1, <2>2 DEF Moves, Stored, Settled
<1>3. CASE Unregister(w)
  <2>1. Moves(w, {"unregister"}, {"rebalance2"})
    BY <1>0, <1>3, PcMoves
  <2>2. Registered'
    BY <1>0, <1>3, <2>1 DEF Unregister, Moves, Registered, RegisteredPcs, BlockPcs
  <2> QED BY <2>1, <2>2 DEF Moves, Stored, Settled
<1>4. CASE RebalanceSpeed(w)
  <2>1. workers' = workers /\ SetLimits
    BY <1>4 DEF RebalanceSpeed
  <2>2. \A u \in workers : limit'[u] = Total \div Cardinality(workers)
    BY <1>0, <2>1 DEF SetLimits, Share, TypeOK
  <2>3. Registered'
    BY <1>0, <1>4, <2>1, PcMoves DEF Moves, Registered, RegisteredPcs, BlockPcs
  <2> QED BY <2>1, <2>2, <2>3 DEF Stored, Settled
<1>5. CASE \/ Take(w) \/ RunWorkerReturn(w) \/ BuildReader(w) \/ InstallReader(w) \/ DecodeBlock(w)
           \/ ReportEarliestTimestamp(w) \/ ReportLatestTimestamp(w) \/ Shift(w) \/ Send(w)
  <2>1. UNCHANGED <<limit, workers>>
    BY <1>5 DEF Take, RunWorkerReturn, BuildReader, InstallReader, DecodeBlock, speedVars,
                ReportEarliestTimestamp, ReportLatestTimestamp, Shift, Send
  <2>2. \/ Moves(w, {"idle"}, {"new", "exited"})
        \/ Moves(w, RegisteredPcs \ {"rebalance"}, RegisteredPcs \ {"rebalance"})
    BY <1>0, <1>5, PcMoves DEF Moves, RegisteredPcs, BlockPcs
  <2>3. \A u \in Workers : /\ pc'[u] \in RegisteredPcs <=> pc[u] \in RegisteredPcs
                           /\ pc[u] \in {"rebalance", "rebalance2"} => pc'[u] = pc[u]
    BY <2>2 DEF Moves, RegisteredPcs, BlockPcs
  <2> QED BY <2>1, <2>3, SharesKept
<1> QED BY <1>1, <1>2, <1>3, <1>4, <1>5 DEF Reader

\* A share of any number of readers from one to all of them.
LEMMA ShareOf ==
    ASSUME NEW S \in SUBSET Workers, S # {}
    PROVE  Total \div Cardinality(S) \in Shares /\ Total \div Cardinality(S) # NoReader
<1>1. Cardinality(S) \in Nat /\ Cardinality(S) <= Cardinality(Workers)
  BY FS_Subset, FS_CardinalityType, ReplayAssumption
<1>2. Cardinality(S) # 0
  BY FS_Subset, FS_EmptySet, ReplayAssumption
<1>3. Cardinality(Workers) \in Nat
  BY FS_CardinalityType, ReplayAssumption
<1>4. Cardinality(S) \in 1 .. Cardinality(Workers)
  BY <1>1, <1>2, <1>3
<1>5. Total \div Cardinality(S) \in 0 .. Total
  BY <1>1, <1>2, ShareType
<1> QED BY <1>4, <1>5 DEF Shares, NoReader

\* The limits of the other readers stay as they are when their fields do.
LEMMA InForceKept ==
    ASSUME NEW u \in Workers, InForce(u), pc'[u] = pc[u], limit'[u] = limit[u],
           pending'[u] = pending[u], speedRd'[u] = speedRd[u], u \in missed' <=> u \in missed
    PROVE  InForce(u)'
BY DEF InForce, Shares

LEMMA ReaderInForce ==
    ASSUME IInv, NEW w \in Workers, Reader(w)
    PROVE  \A u \in Workers : InForce(u)'
<1>0. /\ TypeOK /\ Registered /\ InForce(w) /\ \A u \in Workers : InForce(u)
      /\ DOMAIN pc = Workers /\ DOMAIN limit = Workers /\ DOMAIN pending = Workers
      /\ DOMAIN speedRd = Workers /\ workers \subseteq Workers
  BY DEF IInv, TypeOK
<1>1. CASE NewWorker(w)
  <2>1. Moves(w, {"new"}, {"register"})
    BY <1>0, <1>1, PcMoves
  <2>2. limit'[w] \in Shares
    <3>1. w \notin workers
      BY <1>0, <2>1 DEF Moves, Registered, RegisteredPcs, BlockPcs
    <3>2. IsFiniteSet(workers)
      BY <1>0, FS_Subset, ReplayAssumption
    <3>3. Cardinality(workers \cup {w}) = Cardinality(workers) + 1
      BY <3>1, <3>2, FS_AddElement
    <3> QED BY <1>0, <1>1, <3>3, ShareOf DEF NewWorker
  <2>3. /\ \A u \in Workers \ {w} : limit'[u] = limit[u]
        /\ UNCHANGED <<pending, speedRd, missed>>
    BY <1>0, <1>1 DEF NewWorker
  <2>4. InForce(w)'
    BY <1>0, <2>1, <2>2, <2>3 DEF Moves, InForce, RegisteredPcs, BlockPcs
  <2> QED BY <1>0, <2>1, <2>3, <2>4, InForceKept DEF Moves
<1>2. CASE Unregister(w)
  <2>1. Moves(w, {"unregister"}, {"rebalance2"})
    BY <1>0, <1>2, PcMoves
  <2>2. /\ \A u \in Workers \ {w} : limit'[u] = limit[u] /\ speedRd'[u] = speedRd[u]
        /\ speedRd'[w] = NoReader /\ missed' = missed \ {w} /\ pending' = pending
    BY <1>0, <1>2 DEF Unregister
  <2>3. InForce(w)'
    BY <2>1, <2>2 DEF Moves, InForce, RegisteredPcs, BlockPcs
  <2> QED BY <1>0, <2>1, <2>2, <2>3, InForceKept DEF Moves
<1>3. CASE RebalanceSpeed(w)
  <2>1. /\ Moves(w, {"rebalance"}, {"open"}) \/ Moves(w, {"rebalance2"}, {"idle"})
        /\ SetLimits /\ missed' = {v \in workers : pc[v] = "install"} /\ pending' = pending
    BY <1>0, <1>3, PcMoves DEF RebalanceSpeed
  <2> SUFFICES ASSUME NEW u \in Workers PROVE InForce(u)'
    OBVIOUS
  <2>2. InForce(u)
    BY <1>0
  <2>3. /\ pc[u] = "rebalance" \/ pc[u] = "rebalance2" \/ pc'[u] = pc[u]
        /\ pc[u] = "rebalance" => pc'[u] \in {"rebalance", "open"}
        /\ pc[u] = "rebalance2" => pc'[u] \in {"rebalance2", "idle"}
    BY <2>1 DEF Moves
  <2>4. CASE u \in workers
    <3>1. pc[u] \in RegisteredPcs
      BY <1>0, <2>4 DEF Registered
    <3> DEFINE share == Total \div Cardinality(workers)
    <3>2. share \in Shares /\ share # NoReader
      BY <1>0, <2>4, ShareOf
    <3> HIDE DEF share
    <3>3. limit'[u] = share /\ speedRd'[u] = IF speedRd[u] # NoReader THEN share ELSE NoReader
      BY <2>1, <2>4 DEF SetLimits, Share, share
    <3>4. u \in missed' <=> pc[u] = "install"
      BY <2>1, <2>4
    <3>5. Shares' = Shares
      BY DEF Shares
    <3> QED BY <2>1, <2>2, <2>3, <3>1, <3>2, <3>3, <3>4, <3>5 DEF InForce, RegisteredPcs, BlockPcs
  <2>5. CASE u \notin workers
    <3>1. pc[u] \notin RegisteredPcs
      BY <1>0, <2>5 DEF Registered
    <3>2. limit'[u] = limit[u] /\ speedRd'[u] = speedRd[u] /\ u \notin missed'
      BY <1>0, <2>1, <2>5 DEF SetLimits
    <3>3. Shares' = Shares
      BY DEF Shares
    <3> QED BY <2>1, <2>2, <2>3, <3>1, <3>2, <3>3 DEF InForce, RegisteredPcs, BlockPcs
  <2> QED BY <2>4, <2>5
<1>4. CASE BuildReader(w) \/ InstallReader(w)
  <2>1. \/ Moves(w, {"open"}, {"unregister"}) /\ UNCHANGED <<pending, speedRd>>
        \/ /\ Moves(w, {"open"}, {"install"}) /\ UNCHANGED speedRd
           /\ pending'[w] = limit[w] /\ \A u \in Workers \ {w} : pending'[u] = pending[u]
        \/ /\ Moves(w, {"install"}, {"loop"}) /\ speedRd'[w] = pending[w]
           /\ \A u \in Workers \ {w} : pending'[u] = pending[u] /\ speedRd'[u] = speedRd[u]
    <3>1. CASE BuildReader(w)
      BY <1>0, <3>1 DEF BuildReader, Moves, Goto, At
    <3>2. CASE InstallReader(w)
      BY <1>0, <3>2 DEF InstallReader, Moves, Goto, At
    <3> QED BY <1>4, <3>1, <3>2
  <2>2. UNCHANGED <<limit, missed>>
    BY <1>4 DEF BuildReader, InstallReader
  <2>3. Shares' = Shares
    BY DEF Shares
  <2>4. InForce(w)'
    BY <1>0, <2>1, <2>2, <2>3 DEF Moves, InForce, RegisteredPcs, BlockPcs
  <2> QED BY <1>0, <2>1, <2>2, <2>4, InForceKept DEF Moves
<1>5. CASE \/ Take(w) \/ RunWorkerReturn(w) \/ Register(w) \/ DecodeBlock(w)
           \/ ReportEarliestTimestamp(w) \/ ReportLatestTimestamp(w) \/ Shift(w) \/ Send(w)
  <2>1. UNCHANGED <<limit, pending, speedRd, missed>>
    BY <1>5 DEF Take, RunWorkerReturn, Register, DecodeBlock, ReportEarliestTimestamp,
                ReportLatestTimestamp, Shift, Send, speedVars
  <2>2. \/ Moves(w, {"idle"}, {"new", "exited"}) \/ Moves(w, {"register"}, {"rebalance"})
        \/ Moves(w, BlockPcs \cup {"loop"}, BlockPcs \cup {"loop", "unregister"})
    BY <1>0, <1>5, PcMoves DEF Moves, BlockPcs
  <2>3. Shares' = Shares
    BY DEF Shares
  <2>4. InForce(w)'
    BY <1>0, <2>1, <2>2, <2>3 DEF Moves, InForce, RegisteredPcs, BlockPcs
  <2> QED BY <1>0, <2>1, <2>2, <2>4, InForceKept DEF Moves
<1> QED BY <1>1, <1>2, <1>3, <1>4, <1>5 DEF Reader
-----------------------------------------------------------------------------
(* Types. *)

LEMMA ReaderTypes ==
    ASSUME IInv, NEW w \in Workers, Reader(w)
    PROVE  TypeOK' /\ FileTypes'
<1>0. TypeOK /\ FileTypes
  BY DEF IInv
<1> DEFINE Pcs == {"idle", "new", "register", "rebalance", "open", "install",
                   "loop", "earliest", "latest", "shift", "send",
                   "unregister", "rebalance2", "exited"}
<1>1. pc' \in [Workers -> Pcs]
  <2>1. \E l \in Pcs : pc' = [pc EXCEPT ![w] = l]
    BY DEF Goto, Reader, Take, RunWorkerReturn, NewWorker, Register, Unregister, RebalanceSpeed,
           BuildReader, InstallReader, DecodeBlock, ReportEarliestTimestamp, ReportLatestTimestamp, Shift, Send
  <2> QED BY <1>0, <2>1 DEF TypeOK
<1>2. CASE Take(w)
  <2>1. gen.next < Len(dataFiles) /\ gen.loop \in 0 .. MaxLoop /\ sched = "running"
    BY <1>0, <1>2, DataFilesSorted DEF Take, At, IInv, Offered, TypeOK
  <2>2. gen' \in [next : 0 .. Len(dataFiles), loop : 0 .. MaxLoop + 1, closed : BOOLEAN]
    <3>1. gen \in [next : 0 .. Len(dataFiles), loop : 0 .. MaxLoop + 1, closed : BOOLEAN]
      BY <1>0 DEF TypeOK
    <3>2. gen' = Advance
      BY <1>2 DEF Take
    <3> DEFINE n == Len(dataFiles)
    <3>3. gen.next \in 0 .. n /\ gen.loop \in 0 .. MaxLoop + 1 /\ gen.closed \in BOOLEAN /\ n \in Nat
      BY <3>1, DataFilesSorted
    <3>4. gen.next + 1 \in 0 .. n /\ gen.loop + 1 \in 0 .. MaxLoop + 1 /\ 0 \in 0 .. n
      BY <2>1, <3>3
    <3> HIDE DEF n
    <3>5. CASE gen.next + 1 < n
      <4>1. gen' = [gen EXCEPT !.next = @ + 1]
        BY <3>2, <3>5 DEF Advance, n
      <4> QED BY <3>1, <3>4, <4>1 DEF n
    <3>6. CASE ~(gen.next + 1 < n) /\ cfg.loop
      <4>1. gen' = [gen EXCEPT !.next = 0, !.loop = @ + 1]
        BY <3>2, <3>6 DEF Advance, n
      <4> QED BY <3>1, <3>4, <4>1 DEF n
    <3>7. CASE ~(gen.next + 1 < n) /\ ~cfg.loop
      <4>1. gen' = [gen EXCEPT !.next = @ + 1, !.closed = TRUE]
        BY <3>2, <3>7 DEF Advance, n
      <4> QED BY <3>1, <3>4, <4>1 DEF n
    <3> QED BY <3>5, <3>6, <3>7
  <2>3. file' = [file EXCEPT ![w] = [index |-> gen.next, loop |-> gen.loop]]
    BY <1>2 DEF Take
  <2>4. gen.next \in Nat /\ gen.next \in 0 .. Len(dataFiles)
    BY <1>0, DataFilesSorted DEF TypeOK
  <2>5. FileTypes'
    BY <1>0, <2>1, <2>3, <2>4 DEF FileTypes
  <2>6. \A u \in Workers : file'[u].index \in 0 .. Len(dataFiles) /\ file'[u].loop \in 0 .. MaxLoop
    BY <1>0, <2>1, <2>3, <2>4 DEF FileTypes, TypeOK
  <2> QED BY <1>0, <1>1, <1>2, <2>2, <2>5, <2>6 DEF Take, TypeOK, speedVars, timeVars
<1>3. CASE NewWorker(w)
  <2>1. Total \div (Cardinality(workers) + 1) \in 0 .. Total
    <3>1. Cardinality(workers) \in Nat
      BY <1>0, RegisteredCount DEF TypeOK
    <3>2. Cardinality(workers) + 1 \in Nat \ {0}
      BY <3>1
    <3> QED BY <3>2, ShareType
  <2>2. limit' \in [Workers -> 0 .. Total]
    BY <1>0, <1>3, <2>1 DEF NewWorker, TypeOK
  <2> QED BY <1>0, <1>1, <1>3, <2>2 DEF NewWorker, TypeOK, FileTypes, schedVars, timeVars
<1>4. CASE Unregister(w)
  <2>1. /\ limit' \in [Workers -> 0 .. Total] /\ speedRd' \in [Workers -> {NoReader} \cup 0 .. Total]
        /\ pos' \in [Workers -> Nat] /\ tset' \in [Workers -> BOOLEAN] /\ workers' \subseteq Workers
    <3>1. /\ limit' = [limit EXCEPT ![w] = 0] /\ speedRd' = [speedRd EXCEPT ![w] = NoReader]
          /\ pos' = [pos EXCEPT ![w] = 0] /\ tset' = [tset EXCEPT ![w] = FALSE]
          /\ workers' = workers \ {w}
      BY <1>4, Zenon DEF Unregister
    <3>2. /\ limit \in [Workers -> 0 .. Total] /\ speedRd \in [Workers -> {NoReader} \cup 0 .. Total]
          /\ pos \in [Workers -> Nat] /\ tset \in [Workers -> BOOLEAN] /\ workers \subseteq Workers
      BY <1>0 DEF TypeOK
    <3>3. 0 \in 0 .. Total
      OBVIOUS
    <3>4. limit' \in [Workers -> 0 .. Total]
      BY <3>1, <3>2, <3>3
    <3>5. speedRd' \in [Workers -> {NoReader} \cup 0 .. Total]
      BY <3>1, <3>2
    <3>6. pos' \in [Workers -> Nat]
      BY <3>1, <3>2
    <3>7. tset' \in [Workers -> BOOLEAN] /\ workers' \subseteq Workers
      BY <3>1, <3>2
    <3> QED BY <3>4, <3>5, <3>6, <3>7
  <2>2. file' = [file EXCEPT ![w] = NoFile]
    BY <1>4 DEF Unregister
  <2>3. FileTypes'
    BY <1>0, <2>2 DEF FileTypes, NoFile
  <2>4. \A u \in Workers : file'[u].index \in 0 .. Len(dataFiles) /\ file'[u].loop \in 0 .. MaxLoop
    BY <1>0, <2>2, DataFilesSorted DEF FileTypes, TypeOK, NoFile
  <2> QED BY <1>0, <1>1, <1>4, <2>1, <2>3, <2>4 DEF Unregister, TypeOK, schedVars, timeVars
<1>5. CASE RebalanceSpeed(w)
  <2>1. limit' \in [Workers -> 0 .. Total] /\ speedRd' \in [Workers -> {NoReader} \cup 0 .. Total]
    <3>1. CASE workers = {}
      BY <1>0, <1>5, <3>1 DEF RebalanceSpeed, SetLimits, TypeOK
    <3>2. CASE workers # {}
      <4>1. Share(Cardinality(workers)) \in 0 .. Total
        BY <1>0, <3>2, ShareType, RegisteredCount DEF Share, TypeOK
      <4>2. limit' = [u \in Workers |-> IF u \in workers THEN Share(Cardinality(workers)) ELSE limit[u]]
        BY <1>5, <3>2 DEF RebalanceSpeed, SetLimits
      <4>3. speedRd' = [u \in Workers |-> IF u \in workers /\ speedRd[u] # NoReader
                                          THEN Share(Cardinality(workers)) ELSE speedRd[u]]
        BY <1>5, <3>2 DEF RebalanceSpeed, SetLimits
      <4>4. limit \in [Workers -> 0 .. Total] /\ speedRd \in [Workers -> {NoReader} \cup 0 .. Total]
        BY <1>0 DEF TypeOK
      <4>5. limit' \in [Workers -> 0 .. Total]
        BY <4>1, <4>2, <4>4
      <4>6. speedRd' \in [Workers -> {NoReader} \cup 0 .. Total]
        BY <4>1, <4>3, <4>4
      <4> QED BY <4>5, <4>6
    <3> QED BY <3>1, <3>2
  <2> QED BY <1>0, <1>1, <1>5, <2>1 DEF RebalanceSpeed, TypeOK, FileTypes, schedVars, timeVars
<1>6. CASE BuildReader(w) \/ InstallReader(w)
  <2>1. pending' \in [Workers -> 0 .. Total] /\ speedRd' \in [Workers -> {NoReader} \cup 0 .. Total]
    <3>1. /\ limit \in [Workers -> 0 .. Total] /\ pending \in [Workers -> 0 .. Total]
          /\ speedRd \in [Workers -> {NoReader} \cup 0 .. Total]
      BY <1>0 DEF TypeOK
    <3>2. CASE BuildReader(w)
      BY <3>1, <3>2 DEF BuildReader
    <3>3. CASE InstallReader(w)
      BY <3>1, <3>3 DEF InstallReader
    <3> QED BY <1>6, <3>2, <3>3
  <2> QED BY <1>0, <1>1, <1>6, <2>1 DEF BuildReader, InstallReader, TypeOK, FileTypes, schedVars, timeVars
<1>7. CASE ReportLatestTimestamp(w)
  <2>1. Len(reports') =< ReportCap
    BY <1>0, <1>7 DEF ReportLatestTimestamp, TypeOK, IInv, EndKnown
  <2> QED BY <1>0, <1>1, <1>7, <2>1 DEF ReportLatestTimestamp, TypeOK, FileTypes, schedVars, speedVars
<1>8. CASE Shift(w) \/ Send(w)
  <2>1. shifted' \in [Workers -> -Half .. Half - 1]
    <3>1. CASE Send(w)
      <4>1. shifted \in [Workers -> -Half .. Half - 1] /\ 0 \in -Half .. Half - 1
        BY <1>0 DEF TypeOK
      <4>2. shifted' = [shifted EXCEPT ![w] = 0]
        BY <3>1 DEF Send
      <4> QED BY <4>1, <4>2
    <3>2. CASE Shift(w) /\ cfg.shift # "all"
      BY <1>0, <3>2 DEF Shift, TypeOK
    <3>3. CASE Shift(w) /\ cfg.shift = "all"
      <4>1. ready /\ shifted' = [shifted EXCEPT ![w] = LoopOffset(file[w].loop)]
        BY <3>3 DEF Shift
      <4>2. datasetStart \in Int /\ datasetEnd \in Int /\ file[w].loop \in Int
        <5>1. datasetEnd \in Int
          BY EndsType DEF IInv, EndKnown
        <5> QED BY <1>0, <4>1, <5>1, StartTime DEF FileTypes, IInv
      <4>3. LoopOffset(file[w].loop) \in -Half .. Half - 1
        <5>1. Sub(datasetEnd, datasetStart) \in Int
          BY <4>2, SubType
        <5>2. file[w].loop * Sub(datasetEnd, datasetStart) \in Int
          BY <4>2, <5>1
        <5> QED BY <5>2, WrapType DEF LoopOffset
      <4> QED BY <1>0, <4>1, <4>3 DEF TypeOK
    <3> QED BY <1>8, <3>1, <3>2, <3>3
  <2> QED BY <1>0, <1>1, <1>8, <2>1 DEF Shift, Send, TypeOK, FileTypes, schedVars, speedVars, timeVars
<1>9. CASE \/ RunWorkerReturn(w) \/ Register(w) \/ DecodeBlock(w) \/ ReportEarliestTimestamp(w)
  <2>1. /\ pos' \in [Workers -> Nat] /\ tset' \in [Workers -> BOOLEAN] /\ workers' \subseteq Workers
        /\ ready' \in BOOLEAN
    <3>1. /\ pos \in [Workers -> Nat] /\ tset \in [Workers -> BOOLEAN] /\ workers \subseteq Workers
          /\ ready \in BOOLEAN
      BY <1>0 DEF TypeOK
    <3>2. CASE RunWorkerReturn(w) \/ Register(w)
      BY <3>1, <3>2 DEF RunWorkerReturn, Register, speedVars, timeVars
    <3>3. CASE DecodeBlock(w)
      BY <3>1, <3>3 DEF DecodeBlock, speedVars, timeVars
    <3>4. CASE ReportEarliestTimestamp(w)
      BY <3>1, <3>4 DEF ReportEarliestTimestamp, speedVars
    <3> QED BY <1>9, <3>2, <3>3, <3>4
  <2> QED BY <1>0, <1>1, <1>9, <2>1 DEF RunWorkerReturn, Register, DecodeBlock, ReportEarliestTimestamp,
                                        TypeOK, FileTypes, schedVars, speedVars, timeVars
<1> QED BY <1>2, <1>3, <1>4, <1>5, <1>6, <1>7, <1>8, <1>9 DEF Reader
-----------------------------------------------------------------------------
(* Replay times. *)

\* Once a reader has passed Snapshot the first timestamp does not move.
StartKept == ready => ready' /\ datasetStart' = datasetStart

\* What holds of one reader depends on its own state and on the first timestamp.
LEMMA OtherReaders ==
    ASSUME NEW u \in Workers, ReaderInv(u), StartKept, cfg' = cfg,
           /\ pc'[u] = pc[u] /\ file'[u] = file[u] /\ pos'[u] = pos[u]
           /\ tset'[u] = tset[u] /\ shifted'[u] = shifted[u]
    PROVE  ReaderInv(u)'
<1>1. FileInHand(u)'
  BY DEF ReaderInv, FileInHand, Blocks
<1>2. FirstReport(u)'
  BY DEF ReaderInv, FirstReport, FirstFile
<1>3. ShiftInHand(u)'
  BY DEF ReaderInv, ShiftInHand, StartKept
<1> QED BY <1>1, <1>2, <1>3 DEF ReaderInv

\* A reader writes its own state only.
Apart(w) == \A u \in Workers \ {w} : /\ pc'[u] = pc[u] /\ file'[u] = file[u] /\ pos'[u] = pos[u]
                                     /\ tset'[u] = tset[u] /\ shifted'[u] = shifted[u]
LEMMA ReadersApart ==
    ASSUME TypeOK, FileTypes, NEW w \in Workers, Reader(w)
    PROVE  Apart(w) /\ cfg' = cfg /\ sched' = sched
<1>1. /\ pos \in [Workers -> Nat] /\ tset \in [Workers -> BOOLEAN]
      /\ shifted \in [Workers -> -Half .. Half - 1]
      /\ file \in [Workers -> [index : Nat, loop : Nat]] /\ sched = "running"
  BY DEF TypeOK, FileTypes, Reader, Take, RunWorkerReturn, NewWorker, Register, Unregister, RebalanceSpeed, At,
         BuildReader, InstallReader, DecodeBlock, ReportEarliestTimestamp, ReportLatestTimestamp, Shift, Send
<1>2. \A u \in Workers \ {w} : pc'[u] = pc[u]
  BY PcMoves DEF Moves, Reader
<1>3. CASE Take(w) \/ Unregister(w)
  BY <1>1, <1>2, <1>3 DEF Take, Unregister, schedVars, Apart
<1>4. CASE DecodeBlock(w) \/ ReportEarliestTimestamp(w)
  BY <1>1, <1>2, <1>4 DEF DecodeBlock, ReportEarliestTimestamp, schedVars, Apart
<1>5. CASE Shift(w) \/ Send(w)
  BY <1>1, <1>2, <1>5 DEF Shift, Send, schedVars, Apart
<1>6. CASE \/ RunWorkerReturn(w) \/ NewWorker(w) \/ Register(w) \/ RebalanceSpeed(w)
           \/ BuildReader(w) \/ InstallReader(w) \/ ReportLatestTimestamp(w)
  BY <1>2, <1>6 DEF RunWorkerReturn, NewWorker, Register, RebalanceSpeed, BuildReader, InstallReader,
                    ReportLatestTimestamp, schedVars, Apart
<1> QED BY <1>3, <1>4, <1>5, <1>6 DEF Reader

\* Advance stays within the list of files until it closes the channel.
LEMMA ReaderOffered ==
    ASSUME IInv, NEW w \in Workers, Reader(w)
    PROVE  Offered'
<1>0. TypeOK /\ FileTypes /\ Offered
  BY DEF IInv
<1>1. CASE Take(w)
  <2>1. gen \in [next : 0 .. Len(dataFiles), loop : 0 .. MaxLoop + 1, closed : BOOLEAN]
    BY <1>0 DEF TypeOK
  <2>2. gen' = Advance /\ sched' = sched
    BY <1>1 DEF Take
  <2>3. Len(dataFiles) > 0 => gen'.closed \/ gen'.next < Len(dataFiles)
    BY <2>1, <2>2, DataFilesSorted DEF Advance
  <2> QED BY <1>0, <2>2, <2>3 DEF Offered
<1>2. CASE ~Take(w)
  <2>1. gen' = gen
    BY <1>2 DEF Reader, RunWorkerReturn, NewWorker, Register, Unregister, RebalanceSpeed, schedVars,
           BuildReader, InstallReader, DecodeBlock, ReportEarliestTimestamp, ReportLatestTimestamp, Shift, Send
  <2> QED BY <1>0, <2>1, ReadersApart DEF Offered
<1> QED BY <1>1, <1>2

\* Only the first block of file 0 in loop 0 sets the first timestamp, and only
\* ends of blocks are reported.
LEMMA ReaderTimes ==
    ASSUME IInv, NEW w \in Workers, Reader(w)
    PROVE  StartKnown' /\ EndKnown' /\ StartKept
<1>0. TypeOK /\ FileTypes /\ StartKnown /\ EndKnown /\ ReaderInv(w)
  BY DEF IInv
<1>1. CASE ReportEarliestTimestamp(w)
  <2>1. pc[w] = "earliest" /\ FirstFile(w) /\ pos[w] = 1
    BY <1>0, <1>1 DEF ReportEarliestTimestamp, At, ReaderInv, FirstReport
  <2>2. Blocks(w) = dataFiles[1].blocks /\ Current(w) = dataFiles[1].blocks[1]
    BY <2>1 DEF FirstFile, Blocks, Current
  <2>3. Len(dataFiles) >= 1 /\ Len(Blocks(w)) >= 1
    <3>1. 0 < Len(dataFiles) /\ 1 <= Len(Blocks(w))
      BY <1>0, <2>1 DEF ReaderInv, FileInHand, FilePcs, RegisteredPcs, BlockPcs, FirstFile
    <3> QED BY <2>2, <3>1, DataFilesSorted
  <2>4. Current(w).first # Zero
    <3>1. \E f \in Dir : \E i \in DOMAIN f.blocks : Current(w) = f.blocks[i]
      BY <1>0, <2>1, BlockInHand DEF ReaderInv, BlockPcs
    <3> QED BY <3>1, BlockTimes
  <2>5. EndKnown'
    BY <1>0, <1>1 DEF ReportEarliestTimestamp, EndKnown
  <2>6. CASE datasetStart = Zero
    BY <1>0, <1>1, <2>2, <2>3, <2>4, <2>5, <2>6 DEF ReportEarliestTimestamp, StartKnown, StartKept
  <2>7. CASE datasetStart # Zero
    BY <1>0, <1>1, <2>5, <2>7 DEF ReportEarliestTimestamp, StartKnown, StartKept
  <2> QED BY <2>6, <2>7
<1>2. CASE ReportLatestTimestamp(w)
  <2>1. Current(w).last \in Ends
    <3>1. \E f \in Dir : \E i \in DOMAIN f.blocks : Current(w) = f.blocks[i]
      BY <1>0, <1>2, BlockInHand DEF ReportLatestTimestamp, At, ReaderInv, BlockPcs
    <3> QED BY <3>1 DEF Ends
  <2>2. reports' \in Seq(Ends)
    BY <1>0, <1>2, <2>1 DEF ReportLatestTimestamp, EndKnown
  <2> QED BY <1>0, <1>2, <2>2 DEF ReportLatestTimestamp, EndKnown, StartKnown, StartKept
<1>3. CASE ~ReportEarliestTimestamp(w) /\ ~ReportLatestTimestamp(w)
  <2>1. UNCHANGED timeVars
    BY <1>3 DEF Reader, Take, RunWorkerReturn, NewWorker, Register, Unregister, RebalanceSpeed,
           BuildReader, InstallReader, DecodeBlock, Shift, Send
  <2> QED BY <1>0, <2>1 DEF timeVars, EndKnown, StartKnown, StartKept
<1> QED BY <1>1, <1>2, <1>3

\* What a reader does to itself.
LEMMA ReaderItself ==
    ASSUME IInv, NEW w \in Workers, Reader(w)
    PROVE  ReaderInv(w)'
<1>0. TypeOK /\ FileTypes /\ Offered /\ ReaderInv(w) /\ StartKept /\ cfg' = cfg
  BY ReaderTimes, ReadersApart DEF IInv
<1>1. /\ pos \in [Workers -> Nat] /\ tset \in [Workers -> BOOLEAN]
      /\ shifted \in [Workers -> -Half .. Half - 1]
      /\ file \in [Workers -> [index : Nat, loop : Nat]]
      /\ gen \in [next : 0 .. Len(dataFiles), loop : 0 .. MaxLoop + 1, closed : BOOLEAN]
      /\ pc[w] \notin BlockPcs \cup {"loop", "unregister"} => pos[w] = 0 /\ ~tset[w]
  BY <1>0 DEF TypeOK, FileTypes, ReaderInv, FileInHand
<1>a. FileInHand(w) /\ FirstReport(w) /\ ShiftInHand(w)
  BY <1>0 DEF ReaderInv
<1>2. CASE Take(w)
  <2>1. Moves(w, {"idle"}, {"new"})
    BY <1>0, <1>2, PcMoves
  <2>2. /\ pos'[w] = 0 /\ ~tset'[w]
        /\ file'[w].index = gen.next
        /\ gen.next \in Nat /\ gen.next < Len(dataFiles)
    BY <1>0, <1>1, <1>2, <2>1, DataFilesSorted DEF Take, Moves, BlockPcs, Offered
  <2>3. pos'[w] <= Len(Blocks(w)')
    <3>1. gen.next + 1 \in 1 .. Len(dataFiles)
      BY <2>2, DataFilesSorted
    <3>2. dataFiles[gen.next + 1] \in Dir
      BY <3>1, DataFilesSorted
    <3> QED BY <2>2, <3>2 DEF Blocks
  <2> QED BY <2>1, <2>2, <2>3 DEF Moves, ReaderInv, FileInHand, FirstReport, ShiftInHand, BlockPcs
<1>3. CASE RunWorkerReturn(w)
  <2>1. Moves(w, {"idle"}, {"exited"})
    BY <1>0, <1>3, PcMoves
  <2>2. pos'[w] = 0 /\ ~tset'[w]
    BY <1>1, <1>3, <2>1 DEF RunWorkerReturn, Moves, BlockPcs
  <2> QED BY <2>1, <2>2 DEF Moves, ReaderInv, FileInHand, FirstReport, ShiftInHand, FilePcs, RegisteredPcs, BlockPcs
<1>4. CASE Unregister(w)
  <2>1. Moves(w, {"unregister"}, {"rebalance2"})
    BY <1>0, <1>4, PcMoves
  <2>2. pos'[w] = 0 /\ ~tset'[w]
    BY <1>1, <1>4 DEF Unregister
  <2> QED BY <2>1, <2>2 DEF Moves, ReaderInv, FileInHand, FirstReport, ShiftInHand, FilePcs, RegisteredPcs, BlockPcs
<1>5. CASE \/ NewWorker(w) \/ Register(w) \/ RebalanceSpeed(w) \/ BuildReader(w) \/ InstallReader(w)
  <2>1. UNCHANGED <<file, pos, tset, shifted>>
    BY <1>5 DEF NewWorker, Register, RebalanceSpeed, BuildReader, InstallReader
  <2>2. \/ Moves(w, {"rebalance2"}, {"idle"})
        \/ Moves(w, FilePcs \ (BlockPcs \cup {"loop", "unregister"}), FilePcs \ BlockPcs)
    BY <1>0, <1>5, PcMoves DEF Moves, FilePcs, RegisteredPcs, BlockPcs
  <2>3. pos'[w] = 0 /\ ~tset'[w]
    BY <1>1, <2>1, <2>2 DEF Moves, FilePcs, RegisteredPcs, BlockPcs
  <2> QED BY <1>a, <2>1, <2>2, <2>3 DEF Moves, ReaderInv, FileInHand, FirstReport, ShiftInHand,
                                        FilePcs, RegisteredPcs, BlockPcs, Blocks
<1>6. CASE DecodeBlock(w) /\ pc'[w] = "unregister"
  <2>1. Moves(w, {"loop"}, {"unregister"}) /\ UNCHANGED <<file, pos>>
    <3>1. pc \in [Workers -> {"idle", "new", "register", "rebalance", "open", "install",
                              "loop", "earliest", "latest", "shift", "send",
                              "unregister", "rebalance2", "exited"}]
      BY <1>0 DEF TypeOK
    <3> QED BY <1>6, <3>1 DEF DecodeBlock, Moves, At, Goto
  <2> QED BY <1>a, <2>1 DEF Moves, ReaderInv, FileInHand, FirstReport, ShiftInHand,
                            FilePcs, RegisteredPcs, BlockPcs, Blocks
<1>7. CASE DecodeBlock(w) /\ pc'[w] # "unregister"
  <2>1. Moves(w, {"loop"}, {"shift", "earliest", "latest"}) /\ UNCHANGED <<file, tset>>
    BY <1>0, <1>7, PcMoves DEF Moves, DecodeBlock
  <2>2. /\ pos[w] < Len(Blocks(w)) /\ pos'[w] = pos[w] + 1
        /\ pc'[w] = IF file[w].loop # 0 THEN "shift"
                    ELSE IF file[w].index = 0 /\ ~tset[w] THEN "earliest" ELSE "latest"
    <3>1. pc \in [Workers -> {"idle", "new", "register", "rebalance", "open", "install",
                              "loop", "earliest", "latest", "shift", "send",
                              "unregister", "rebalance2", "exited"}]
      BY <1>0 DEF TypeOK
    <3> QED BY <1>1, <1>7, <3>1 DEF DecodeBlock, Goto
  <2>3. file[w].index < Len(dataFiles) /\ dataFiles[file[w].index + 1] \in Dir
    <3>1. file[w].index < Len(dataFiles) /\ file[w].index \in Nat
      BY <1>1, <1>a, <2>1 DEF Moves, FileInHand, FilePcs, RegisteredPcs
    <3> QED BY <3>1, DataFilesSorted
  <2>4. Len(Blocks(w)) \in Nat /\ pos[w] \in Nat
    <3>1. Blocks(w) \in Seq([first : Nat, last : Nat])
      BY <2>3 DEF Blocks
    <3> QED BY <1>1, <3>1
  <2>5. FileInHand(w)'
    BY <2>1, <2>2, <2>3, <2>4 DEF Moves, FileInHand, BlockPcs, Blocks
  <2>6. FirstReport(w)'
    BY <1>a, <2>1, <2>2, <2>4 DEF Moves, FirstReport, FirstFile
  <2> QED BY <2>1, <2>5, <2>6 DEF Moves, ReaderInv, ShiftInHand
<1>8. CASE ReportEarliestTimestamp(w) \/ ReportLatestTimestamp(w)
  <2>1. /\ Moves(w, {"earliest"}, {"latest"}) \/ Moves(w, {"latest"}, {"shift"})
        /\ UNCHANGED <<file, pos>>
    BY <1>0, <1>8, PcMoves DEF ReportEarliestTimestamp, ReportLatestTimestamp
  <2>2. FirstFile(w) => tset'[w]
    BY <1>1, <1>8, <1>a DEF FirstReport, ReportEarliestTimestamp, ReportLatestTimestamp, At
  <2>3. FileInHand(w)'
    BY <1>a, <2>1 DEF Moves, FileInHand, FilePcs, RegisteredPcs, BlockPcs, Blocks
  <2> QED BY <2>1, <2>2, <2>3 DEF Moves, ReaderInv, FirstReport, FirstFile, ShiftInHand
<1>9. CASE Shift(w)
  <2>1. Moves(w, {"shift"}, {"send"}) /\ UNCHANGED <<file, pos, tset, ready, datasetStart>>
    BY <1>0, <1>9, PcMoves DEF Shift, timeVars
  <2>2. FileInHand(w)' /\ FirstReport(w)'
    BY <1>a, <2>1 DEF Moves, FileInHand, FirstReport, FirstFile, FilePcs, RegisteredPcs, BlockPcs, Blocks
  <2>3. ShiftInHand(w)'
    <3> SUFFICES ASSUME cfg.shift = "all"
                 PROVE  /\ ready
                        /\ file[w].loop = 0 => shifted'[w] = 0
                        /\ file[w].loop # 0 =>
                             \E e \in Ends : shifted'[w] = Wrap(file[w].loop * Sub(e, datasetStart))
      BY <1>0, <2>1 DEF ShiftInHand
    <3>1. ready /\ shifted'[w] = LoopOffset(file[w].loop)
      BY <1>1, <1>9 DEF Shift
    <3>2. datasetEnd \in Ends /\ datasetEnd \in Int /\ datasetStart \in Int
      BY <3>1, EndsType, StartTime DEF IInv, EndKnown
    <3>3. Sub(datasetEnd, datasetStart) \in Int
      BY <3>2, SubType
    <3>4. 0 * Sub(datasetEnd, datasetStart) = 0
      BY <3>3
    <3> QED BY <3>1, <3>2, <3>4, WrapZero DEF LoopOffset
  <2> QED BY <2>2, <2>3 DEF ReaderInv
<1>10. CASE Send(w)
  <2>1. Moves(w, {"send"}, {"loop"}) /\ UNCHANGED <<file, pos, tset>>
    BY <1>0, <1>10, PcMoves DEF Send
  <2> QED BY <1>a, <2>1 DEF Moves, ReaderInv, FileInHand, FirstReport, FirstFile, ShiftInHand,
                            FilePcs, RegisteredPcs, BlockPcs, Blocks
<1> QED BY <1>2, <1>3, <1>4, <1>5, <1>6, <1>7, <1>8, <1>9, <1>10 DEF Reader
-----------------------------------------------------------------------------
LEMMA ReaderIInv ==
    ASSUME IInv, NEW w \in Workers, Reader(w)
    PROVE  IInv'
<1>1. TypeOK /\ FileTypes /\ Apart(w) /\ cfg' = cfg /\ StartKept
  BY ReadersApart, ReaderTimes DEF IInv
<1>2. \A u \in Workers : ReaderInv(u)'
  <2> SUFFICES ASSUME NEW u \in Workers \ {w} PROVE ReaderInv(u)'
    BY ReaderItself
  <2>1. ReaderInv(u)
    BY DEF IInv
  <2> QED BY <1>1, <2>1, OtherReaders DEF Apart
<1> QED BY <1>2, ReaderTypes, ReaderShares, ReaderInForce, ReaderOffered, ReaderTimes DEF IInv

\* The scheduler, the generator and the time keeper leave the readers alone.
LEMMA OthersIInv ==
    ASSUME IInv, UNCHANGED <<cfg, readerVars, speedVars, datasetStart, ready>>,
           TypeOK', Offered', EndKnown'
    PROVE  IInv'
<1>1. FileTypes' /\ Registered' /\ Stored' /\ StartKnown'
  BY DEF IInv, readerVars, speedVars, FileTypes, Registered, Stored, Settled, StartKnown
<1>2. \A u \in Workers : ReaderInv(u)'
  <2> SUFFICES ASSUME NEW u \in Workers PROVE ReaderInv(u)'
    OBVIOUS
  <2>1. ReaderInv(u) /\ StartKept
    BY DEF IInv, StartKept
  <2> QED BY <2>1, OtherReaders DEF readerVars
<1>3. \A u \in Workers : InForce(u)'
  BY InForceKept DEF IInv, readerVars, speedVars
<1> QED BY <1>1, <1>2, <1>3 DEF IInv

LEMMA NextIInv == IInv /\ [Next]_vars => IInv'
<1> SUFFICES ASSUME IInv, [Next]_vars PROVE IInv'
  OBVIOUS
<1>0. TypeOK /\ Offered /\ EndKnown
  BY DEF IInv
<1>1. CASE Scheduler \/ Cancel \/ KeeperStop
  <2>1. /\ UNCHANGED <<cfg, gen, readerVars, speedVars, datasetStart, ready, reports, datasetEnd>>
        /\ sched' = "running" => sched = "running" \/ Len(dataFiles) > 0
        /\ sched' \in {"start", "running", "stopping", "stopped"}
        /\ cancelled' \in BOOLEAN /\ keeper' \in BOOLEAN
    <3>1. cancelled \in BOOLEAN /\ keeper \in BOOLEAN /\ sched \in {"start", "running", "stopping", "stopped"}
      BY <1>0 DEF TypeOK
    <3>2. CASE Run
      <4>1. dataFiles # <<>> => Len(dataFiles) > 0
        BY DataFilesSorted
      <4>2. keeper' \in BOOLEAN
        BY <3>2 DEF Run
      <4> QED BY <3>1, <3>2, <4>1, <4>2 DEF Run
    <3>3. CASE RunWait \/ RunReturn \/ Cancel \/ KeeperStop
      BY <3>1, <3>3 DEF RunWait, RunReturn, Cancel, KeeperStop, timeVars, schedVars
    <3> QED BY <1>1, <3>2, <3>3 DEF Scheduler
  <2>2. TypeOK'
    BY <1>0, <2>1 DEF TypeOK, readerVars, speedVars
  <2>3. Offered' /\ EndKnown'
    BY <1>0, <2>1 DEF Offered, EndKnown
  <2> QED BY <2>1, <2>2, <2>3, OthersIInv
<1>2. CASE GenerateCancelled
  <2>1. gen' \in [next : 0 .. Len(dataFiles), loop : 0 .. MaxLoop + 1, closed : BOOLEAN] /\ gen'.closed
    <3>1. gen \in [next : 0 .. Len(dataFiles), loop : 0 .. MaxLoop + 1, closed : BOOLEAN]
      BY <1>0 DEF TypeOK
    <3> QED BY <1>2, <3>1 DEF GenerateCancelled
  <2>2. TypeOK'
    BY <1>0, <1>2, <2>1 DEF GenerateCancelled, TypeOK, readerVars, speedVars, timeVars
  <2>3. Offered' /\ EndKnown'
    BY <1>0, <1>2, <2>1 DEF GenerateCancelled, Offered, EndKnown, timeVars
  <2> QED BY <1>2, <2>2, <2>3, OthersIInv DEF GenerateCancelled, timeVars
<1>3. CASE KeeperReceive
  <2>1. reports \in Seq(Ends) /\ reports # <<>>
    BY <1>0, <1>3 DEF KeeperReceive, EndKnown
  <2>2. Head(reports) \in Ends /\ Tail(reports) \in Seq(Ends) /\ Len(Tail(reports)) = Len(reports) - 1
    BY <2>1
  <2>3. EndKnown'
    BY <1>0, <1>3, <2>2 DEF KeeperReceive, EndKnown
  <2>4. Len(reports') =< ReportCap
    BY <1>0, <1>3, <2>1, <2>2 DEF KeeperReceive, TypeOK
  <2>5. TypeOK' /\ Offered'
    BY <1>0, <1>3, <2>4 DEF KeeperReceive, TypeOK, Offered, readerVars, speedVars, schedVars
  <2> QED BY <1>3, <2>3, <2>5, OthersIInv DEF KeeperReceive, schedVars
<1>4. CASE \E w \in Workers : Reader(w)
  BY <1>4, ReaderIInv
<1>5. CASE UNCHANGED vars
  BY <1>0, <1>5, OthersIInv DEF vars, schedVars, timeVars, readerVars, speedVars, TypeOK, Offered, EndKnown
<1>6. CASE Rest
  BY <1>5, <1>6 DEF Rest
<1> QED BY <1>1, <1>2, <1>3, <1>4, <1>5, <1>6 DEF Next, Keeper

LEMMA InvariantHolds == Spec => []IInv
<1> QED BY InitIInv, NextIInv, PTL DEF Spec
-----------------------------------------------------------------------------
\* The state of the scheduler, of its readers and of the time keeper keeps its
\* types: shares between nothing and the limit, offsets that fit a Duration.
THEOREM TypeCorrect == Spec => []TypeOK
<1>1. IInv => TypeOK
  BY DEF IInv
<1> QED BY <1>1, InvariantHolds, PTL

\* scheduler.go, rebalanceSpeed; worker.go, UpdateSpeedLimit and buildReader: when
\* no arrival or departure is under way every registered reader has its share of
\* the limit stored, and a running one is held to it, unless the last rebalance
\* found it inside buildReader: then it runs at the share of an earlier number.
THEOREM SharesOfTheLimit == Spec => []SharesAgree
<1>1. IInv => SharesAgree
  <2> SUFFICES ASSUME IInv, Settled, NEW w \in workers
               PROVE  LET share == Total \div Cardinality(workers) IN
                      /\ limit[w] = share
                      /\ speedRd[w] \in {NoReader, share} \/ (w \in missed /\ speedRd[w] \in Shares)
    BY DEF SharesAgree
  <2>1. w \in Workers /\ limit[w] = Total \div Cardinality(workers) /\ InForce(w)
    BY DEF IInv, TypeOK, Stored
  <2> QED BY <2>1 DEF InForce
<1> QED BY <1>1, InvariantHolds, PTL

\* timeshift.go: a block of the first loop keeps its distance from the first
\* timestamp, a later one is moved by as many spans of the data as its loop says.
THEOREM LoopsKeepTheirDistance == Spec => []LoopsFollow
<1>1. IInv => LoopsFollow
  <2> SUFFICES ASSUME IInv, NEW w \in Workers, cfg.shift = "all", At(w, "send")
               PROVE  /\ datasetStart = dataFiles[1].blocks[1].first
                      /\ file[w].loop = 0 => ShiftedTime(w, Current(w).first)
                                               = ProgramStart + Current(w).first - datasetStart
                      /\ file[w].loop # 0 => \E e \in Ends : shifted[w] = Wrap(file[w].loop * Sub(e, datasetStart))
    <3> DEFINE spans == {Sub(e, datasetStart) : e \in Ends}
    <3>1. \A w \in Workers : (\E e \in Ends : shifted[w] = Wrap(file[w].loop * Sub(e, datasetStart)))
                              => \E d \in spans : shifted[w] = Wrap(file[w].loop * d)
      OBVIOUS
    <3> QED BY <3>1 DEF LoopsFollow, Ends
  <2>1. TypeOK /\ FileTypes /\ ReaderInv(w) /\ StartKnown /\ pc[w] = "send"
    BY DEF IInv, At
  <2>2. ready /\ datasetStart = dataFiles[1].blocks[1].first
    BY <2>1 DEF ReaderInv, ShiftInHand, StartKnown
  <2>3. ASSUME file[w].loop = 0
        PROVE  ShiftedTime(w, Current(w).first) = ProgramStart + Current(w).first - datasetStart
    <3>1. shifted[w] = 0
      BY <2>1, <2>3 DEF ReaderInv, ShiftInHand
    <3>2. PICK f \in Dir : \E i \in DOMAIN f.blocks : Current(w) = f.blocks[i]
      BY <2>1, BlockInHand DEF ReaderInv, BlockPcs
    <3>3. PICK g \in Dir : \E j \in DOMAIN g.blocks : datasetStart = g.blocks[j].first
      BY <2>1, <2>2, StartTime
    <3>4. Current(w).first \in Nat /\ datasetStart \in Nat
      BY <3>2, <3>3, BlockTimes
    <3>5. /\ Current(w).first - datasetStart < Half
          /\ datasetStart - Current(w).first < Half
      BY <3>2, <3>3, SpanAssumption
    <3>6. Sub(Current(w).first, datasetStart) = Current(w).first - datasetStart
      BY <3>4, <3>5 DEF Sub
    <3> QED BY <3>1, <3>4, <3>6 DEF ShiftedTime
  <2> QED BY <2>1, <2>2, <2>3 DEF ReaderInv, ShiftInHand
<1> QED BY <1>1, InvariantHolds, PTL

\* columns.go:36-75, disk/worker.go:203. For any number of readers, files and
\* loops, the ids of every block that is sent keep their joins within its loop and
\* differ from those of the other loops as long as the bytes can count them.
THEOREM IdsTellRowsApart == Spec => []IdsPerLoop
<1>1. TypeOK => IdsPerLoop
    BY IdsDistinctHolds DEF TypeOK, IdsPerLoop
<1> QED
    BY <1>1, TypeCorrect, PTL
=============================================================================
