-------------------------- MODULE ModesDecoderProofs --------------------------
(***************************************************************************)
(* Proofs about ModesDecoder for any number of lanes, any messages sent    *)
(* and any bits that arrive wrong.  The checksum is linear and the code's  *)
(* table is that of the standard's generator; so what wrong bits behind    *)
(* the type make of a message depends on them alone, and what the repair   *)
(* does with them is proved.  On that, or on what is asked of a single     *)
(* message where bits of the type are wrong too, rests the rest: the table *)
(* the lanes share without a lock, its file, and starts and ends at any    *)
(* moment add nothing wrong.                                               *)
(***************************************************************************)
EXTENDS ModesDecoder, TLAPS, FiniteSetTheorems, ArithmeticProofs

-----------------------------------------------------------------------------
(* The checksum: it is linear, and that of the standard.                   *)

\* A bit of a checksum is set if an odd number of ones adds to it.
Odd(S) == Cardinality(S) % 2 = 1

\* What two sets do not have in common is odd if one of them is and the other is not.
LEMMA OddSum ==
  ASSUME NEW A, NEW B, IsFiniteSet(A), IsFiniteSet(B)
  PROVE  Odd(SymDiff(A, B)) <=> ~(Odd(A) <=> Odd(B))
<1> DEFINE C == A \cap B
<1> DEFINE U == A \cup B
<1>1. /\ IsFiniteSet(C) /\ IsFiniteSet(U)
      /\ Cardinality(U) = Cardinality(A) + Cardinality(B) - Cardinality(C)
  BY FS_Union, FS_Intersection
<1>2. U \cap C = C /\ U \ C = SymDiff(A, B)
  BY DEF SymDiff
<1>3. Cardinality(SymDiff(A, B)) = Cardinality(U) - Cardinality(C)
  <2>1. Cardinality(U \ C) = Cardinality(U) - Cardinality(U \cap C)
    BY <1>1, FS_Difference
  <2> HIDE DEF U, C
  <2> QED
    BY <1>2, <2>1
<1>4. {Cardinality(A), Cardinality(B), Cardinality(C)} \subseteq Nat
  BY <1>1, FS_CardinalityType
<1> DEFINE a == Cardinality(A)
<1> DEFINE b == Cardinality(B)
<1> DEFINE c == Cardinality(C)
<1>5. Cardinality(SymDiff(A, B)) = a + b - 2 * c /\ a \in Nat /\ b \in Nat /\ c \in Nat
  <2> HIDE DEF U, C
  <2> QED
    BY <1>1, <1>3, <1>4
<1> HIDE DEF a, b, c, C, U
<1>6. (a + b - 2 * c) % 2 = 1 <=> ~(a % 2 = 1 <=> b % 2 = 1)
  BY <1>5
<1> QED
  BY <1>5, <1>6 DEF Odd, a, b

\* None is even, one is odd.
LEMMA OddOne ==
  /\ ~Odd({})
  /\ \A x : Odd({x})
<1>1. Cardinality({}) = 0
  BY FS_EmptySet
<1>2. \A x : Cardinality({x}) = 1
  BY FS_Singleton
<1> QED
  BY <1>1, <1>2 DEF Odd

\* The powers are words.
LEMMA PowersAre ==
  ASSUME NEW n \in 0 .. 111
  PROVE  /\ Power[n] \subseteq 0 .. 23
         /\ n < 24 => Power[n] = {n}
         /\ n >= 24 => Power[n] = ParityWord[111 - n]
         /\ Power[n] # {}
<1>1. \A k : Word(k) \subseteq 0 .. 23
  BY DEF Word
<1>2. \A j \in 0 .. 111 : ParityWord[j] \subseteq 0 .. 23
  BY <1>1 DEF ParityWord
<1>3. /\ n < 24 => Power[n] = {n}
      /\ n >= 24 => Power[n] = ParityWord[111 - n]
  BY DEF Power
<1>4. \A a : SymDiff(a, {}) = a /\ SymDiff({}, a) = a
  BY DEF SymDiff
<1>5. Power[n] # {}
  <2> SUFFICES ASSUME Power[n] = {} PROVE FALSE
    OBVIOUS
  <2>1. \A k, l \in 0 .. 111 : k < l => SymDiff(Power[k], Power[l]) # Power[k]
                                     /\ SymDiff(Power[k], Power[l]) # Power[l]
    BY PowersAssumption
  <2>2. PICK m \in 0 .. 111 : m # n
    <3>1. 0 \in 0 .. 111 /\ 1 \in 0 .. 111 /\ ~(n = 0 /\ n = 1)
      OBVIOUS
    <3> QED
      BY <3>1
  <2>3. CASE m < n
    BY <1>4, <2>1, <2>3
  <2>4. CASE n < m
    BY <1>4, <2>1, <2>4
  <2> QED
    BY <2>2, <2>3, <2>4
<1> QED
  BY <1>2, <1>3, <1>5

\* What the ones of a message among the first add up to, bit by bit.
Ones(msg, bits, i) == {j \in msg : j < bits /\ i \in Power[bits - 1 - j]}
Syndrome(msg, bits) == {i \in 0 .. 23 : Odd(Ones(msg, bits, i))}

\* There are finitely many of them.
LEMMA OnesFinite ==
  ASSUME NEW msg, msg \subseteq Nat, NEW bits \in Nat, NEW i
  PROVE  IsFiniteSet(Ones(msg, bits, i))
<1>1. Ones(msg, bits, i) \subseteq 0 .. bits
  <2> SUFFICES ASSUME NEW j \in Ones(msg, bits, i) PROVE j \in 0 .. bits
    OBVIOUS
  <2>1. j \in Nat /\ j < bits
    BY DEF Ones
  <2> QED
    BY <2>1
<1>2. IsFiniteSet(0 .. bits)
  BY FS_Interval
<1> QED
  BY <1>1, <1>2, FS_Subset

\* The syndrome is linear.
LEMMA SyndromeSum ==
  ASSUME NEW m \in SUBSET Nat, NEW n \in SUBSET Nat, NEW bits \in Nat
  PROVE  Syndrome(SymDiff(m, n), bits) = SymDiff(Syndrome(m, bits), Syndrome(n, bits))
<1>1. ASSUME NEW i \in 0 .. 23
      PROVE  Odd(Ones(SymDiff(m, n), bits, i)) <=>
                ~(Odd(Ones(m, bits, i)) <=> Odd(Ones(n, bits, i)))
  <2>1. Ones(SymDiff(m, n), bits, i) = SymDiff(Ones(m, bits, i), Ones(n, bits, i))
    BY DEF Ones, SymDiff
  <2> QED
    BY <2>1, OnesFinite, OddSum
<1> QED
  BY <1>1, Zenon DEF Syndrome, SymDiff

\* The syndrome of one bit is its power.
LEMMA SyndromeOfOne ==
  ASSUME NEW bits \in 1 .. 112, NEW j \in 0 .. bits - 1
  PROVE  Syndrome({j}, bits) = Power[bits - 1 - j]
<1>1. Power[bits - 1 - j] \subseteq 0 .. 23
  <2>1. bits - 1 - j \in 0 .. 111
    OBVIOUS
  <2> QED
    BY <2>1, PowersAre
<1>2. \A i : Ones({j}, bits, i) = IF i \in Power[bits - 1 - j] THEN {j} ELSE {}
  BY DEF Ones
<1> QED
  BY <1>1, <1>2, OddOne DEF Syndrome

\* The checksum and the parity field add up to the syndrome.
LEMMA SyndromeIs ==
  ASSUME NEW msg \in SUBSET (0 .. 111), NEW bits \in {56, 112}
  PROVE  Syndrome(msg, bits) = SymDiff(ParityField(msg, bits), Checksum(msg, bits))
<1> DEFINE Data(i) == {j \in msg : j < bits /\ i \in ParityWord[j + TableOffset(bits)]}
<1> DEFINE Parity(i) == {j \in msg : j = bits - 1 - i}
<1>1. ASSUME NEW i \in 0 .. 23
      PROVE  i \in Syndrome(msg, bits) <=> ~(i \in ParityField(msg, bits) <=> i \in Checksum(msg, bits))
  <2>1. TableOffset(bits) = 112 - bits
    BY DEF TableOffset
  <2>2. ASSUME NEW j \in msg, j < bits
        PROVE  /\ j >= bits - 24 => ParityWord[j + TableOffset(bits)] = {}
                                    /\ (i \in Power[bits - 1 - j] <=> j = bits - 1 - i)
               /\ j < bits - 24 => ParityWord[j + TableOffset(bits)] = Power[bits - 1 - j]
                                    /\ j # bits - 1 - i
    <3>1. j \in Nat /\ bits - 1 - j \in 0 .. 111 /\ j + (112 - bits) \in 0 .. 111
          /\ 111 - (bits - 1 - j) = j + (112 - bits)
      BY <2>2
    <3>2. CASE j >= bits - 24
      <4>1. Power[bits - 1 - j] = {bits - 1 - j}
        BY <3>1, <3>2, PowersAre
      <4>2. ParityWord[j + (112 - bits)] = {}
        BY <3>1, <3>2 DEF ParityWord
      <4> QED
        BY <2>1, <3>1, <3>2, <4>1, <4>2
    <3>3. CASE j < bits - 24
      <4>1. Power[bits - 1 - j] = ParityWord[j + (112 - bits)]
        BY <3>1, <3>3, PowersAre
      <4> QED
        BY <2>1, <3>1, <3>3, <4>1
    <3> QED
      BY <3>1, <3>2, <3>3
  <2>3. Ones(msg, bits, i) = SymDiff(Parity(i), Data(i))
    <3>1. ASSUME NEW j \in msg
          PROVE  j \in Ones(msg, bits, i) <=> ~(j \in Parity(i) <=> j \in Data(i))
      <4>1. CASE j < bits /\ j >= bits - 24
        <5>1. ParityWord[j + TableOffset(bits)] = {} /\ (i \in Power[bits - 1 - j] <=> j = bits - 1 - i)
          BY <2>2, <4>1
        <5> QED
          BY <4>1, <5>1 DEF Ones
      <4>2. CASE j < bits - 24
        <5>1. j < bits
          BY <4>2
        <5>2. ParityWord[j + TableOffset(bits)] = Power[bits - 1 - j] /\ j # bits - 1 - i
          BY <2>2, <4>2, <5>1
        <5> QED
          BY <5>1, <5>2 DEF Ones
      <4>3. CASE ~(j < bits)
        BY <4>3 DEF Ones
      <4> QED
        BY <4>1, <4>2, <4>3
    <3>2. Ones(msg, bits, i) \subseteq msg /\ Parity(i) \subseteq msg /\ Data(i) \subseteq msg
      BY DEF Ones
    <3> HIDE DEF Parity, Data
    <3> QED
      BY <3>1, <3>2, Zenon DEF SymDiff
  <2>4. IsFiniteSet(Data(i)) /\ IsFiniteSet(Parity(i))
    <3>1. Data(i) \subseteq 0 .. 111 /\ Parity(i) \subseteq 0 .. 111
      OBVIOUS
    <3>2. IsFiniteSet(0 .. 111)
      <4>1. \A n \in Nat : IsFiniteSet(0 .. n)
        BY FS_Interval
      <4> QED
        BY <4>1
    <3> HIDE DEF Data, Parity
    <3> QED
      BY <3>1, <3>2, FS_Subset
  <2>5. Odd(Data(i)) <=> i \in Checksum(msg, bits)
    BY DEF Odd, Checksum
  <2>6. Odd(Parity(i)) <=> i \in ParityField(msg, bits)
    <3>1. CASE bits - 1 - i \in msg
      <4>1. Parity(i) = {bits - 1 - i}
        BY <3>1
      <4> QED
        BY <3>1, <4>1, OddOne DEF ParityField
    <3>2. CASE bits - 1 - i \notin msg
      <4>1. Parity(i) = {}
        BY <3>2
      <4> QED
        BY <3>2, <4>1, OddOne DEF ParityField
    <3> QED
      BY <3>1, <3>2
  <2>7. Odd(Ones(msg, bits, i)) <=> ~(Odd(Parity(i)) <=> Odd(Data(i)))
    <3> HIDE DEF Parity, Data
    <3> QED
      BY <2>3, <2>4, OddSum
  <2> HIDE DEF Parity, Data
  <2> QED
    BY <2>5, <2>6, <2>7, Zenon DEF Syndrome
<1>2. Syndrome(msg, bits) \subseteq 0 .. 23 /\ ParityField(msg, bits) \subseteq 0 .. 23
      /\ Checksum(msg, bits) \subseteq 0 .. 23
  BY DEF Syndrome, ParityField, Checksum
<1> HIDE DEF Data, Parity
<1> DEFINE s == Syndrome(msg, bits)
<1> DEFINE p == ParityField(msg, bits)
<1> DEFINE c == Checksum(msg, bits)
<1>3. \A i \in 0 .. 23 : i \in s <=> ~(i \in p <=> i \in c)
  BY <1>1, Zenon
<1> HIDE DEF s, p, c
<1>4. s = SymDiff(p, c)
  BY <1>2, <1>3 DEF SymDiff, s, p, c
<1> QED
  BY <1>4 DEF s, p, c

\* One step of the division, for what is left after k bits.
LEMMA DivisionStep ==
  ASSUME NEW data, data \subseteq Nat, NEW k \in 0 .. 111
  PROVE  Syndrome(data, k + 1) = Reduce(Shift(Syndrome(data, k), k \in data))
<1> DEFINE s == Syndrome(data, k)
<1> DEFINE one == k \in data
<1> DEFINE last == IF one THEN {k} ELSE {}
<1>1. s \subseteq 0 .. 23 /\ Syndrome(data, k + 1) \subseteq 0 .. 23
  BY DEF Syndrome
<1>2. Power[0] = {0}
  BY PowersAre
<1>3. ASSUME NEW n \in 0 .. 110, NEW i \in 0 .. 23
      PROVE  i \in Power[n + 1] <=> ~(i - 1 \in Power[n] <=> (23 \in Power[n] /\ i \in Generator))
  <2>1. Power[n + 1] = Reduce(Shift(Power[n], FALSE))
    BY TableAssumption
  <2>2. Power[n] \subseteq 0 .. 23
    BY PowersAre
  <2>3. /\ 24 \in Shift(Power[n], FALSE) <=> 23 \in Power[n]
        /\ i \in Shift(Power[n], FALSE) <=> i - 1 \in Power[n]
    BY <2>2 DEF Shift
  <2> DEFINE p == Shift(Power[n], FALSE)
  <2>4. i \in Reduce(p) <=> ~(i \in p <=> (24 \in p /\ i \in Generator))
    BY DEF Reduce, SymDiff
  <2> QED
    BY <2>1, <2>3, <2>4
<1>4. ASSUME NEW i \in 0 .. 23
      PROVE  i \in Reduce(Shift(s, one)) <=>
                ~(~(i - 1 \in s <=> (23 \in s /\ i \in Generator)) <=> (i = 0 /\ one))
  <2> DEFINE p == Shift(s, one)
  <2> HIDE DEF s, one
  <2>1. /\ 24 \in p <=> 23 \in s
        /\ i \in p <=> i - 1 \in s \/ (i = 0 /\ one)
        /\ i = 0 => i - 1 \notin s
    BY <1>1 DEF Shift
  <2> HIDE DEF p
  <2>2. i \in Reduce(p) <=> ~(i \in p <=> (24 \in p /\ i \in Generator))
    BY DEF Reduce, SymDiff
  <2> QED
    BY <2>1, <2>2 DEF p
<1>5. ASSUME NEW i \in 0 .. 23
      PROVE  i \in Syndrome(data, k + 1) <=> i \in Reduce(Shift(s, one))
  <2> DEFINE O(l) == Ones(data, k, l)
  <2> DEFINE Over == IF i \in Generator THEN O(23) ELSE {}
  <2> DEFINE Under == O(i - 1)
  <2> DEFINE Last == IF i = 0 THEN last ELSE {}
  <2>1. Ones(data, k + 1, i) = SymDiff(SymDiff(Under, Over), Last)
    <3>1. ASSUME NEW j \in data
          PROVE  j \in Ones(data, k + 1, i) <=>
                    ~(~(j \in Under <=> j \in Over) <=> j \in Last)
      <4>1. CASE j < k
        <5>1. k - 1 - j \in 0 .. 110 /\ (k + 1) - 1 - j = (k - 1 - j) + 1 /\ j < k + 1
          BY <4>1
        <5>2. j \in Ones(data, k + 1, i) <=> i \in Power[(k - 1 - j) + 1]
          BY <5>1 DEF Ones
        <5>3. j \in Under <=> i - 1 \in Power[k - 1 - j]
          BY <4>1 DEF Ones
        <5>4. j \in Over <=> 23 \in Power[k - 1 - j] /\ i \in Generator
          BY <4>1 DEF Ones
        <5>5. j \notin Last
          BY <4>1
        <5> HIDE DEF Under, Over, Last
        <5> QED
          BY <1>3, <5>1, <5>2, <5>3, <5>4, <5>5
      <4>2. CASE j = k
        <5>1. j \in Ones(data, k + 1, i) <=> i = 0
          <6>1. (k + 1) - 1 - j = 0 /\ j < k + 1
            BY <4>2
          <6> QED
            BY <6>1, <1>2 DEF Ones
        <5>2. j \notin Under /\ j \notin Over
          BY <4>2 DEF Ones
        <5>3. j \in Last <=> i = 0
          BY <4>2
        <5> HIDE DEF Under, Over, Last
        <5> QED
          BY <5>1, <5>2, <5>3
      <4>3. CASE j > k
        <5>1. j \notin Ones(data, k + 1, i)
          BY <4>3 DEF Ones
        <5>2. j \notin Under /\ j \notin Over /\ j \notin Last
          BY <4>3 DEF Ones
        <5> QED
          BY <5>1, <5>2
      <4> QED
        BY <4>1, <4>2, <4>3
    <3>2. Ones(data, k + 1, i) \subseteq data /\ Under \subseteq data /\ Over \subseteq data
          /\ Last \subseteq data
      BY DEF Ones
    <3> HIDE DEF Under, Over, Last
    <3> QED
      BY <3>1, <3>2, Zenon DEF SymDiff
  <2>2. IsFiniteSet(Under) /\ IsFiniteSet(Over) /\ IsFiniteSet(Last)
    <3>1. IsFiniteSet(O(23)) /\ IsFiniteSet(O(i - 1))
      <4>1. k \in Nat
        OBVIOUS
      <4>2. \A l : IsFiniteSet(Ones(data, k, l))
        BY <4>1, OnesFinite
      <4> QED
        BY <4>2
    <3>2. IsFiniteSet({}) /\ IsFiniteSet({k})
      BY FS_EmptySet, FS_Singleton
    <3> HIDE DEF O
    <3> QED
      BY <3>1, <3>2
  <2>3. IsFiniteSet(SymDiff(Under, Over))
    <3>1. SymDiff(Under, Over) \subseteq Under \cup Over
      BY DEF SymDiff
    <3> HIDE DEF Under, Over
    <3> QED
      BY <2>2, <3>1, FS_Union, FS_Subset
  <2>4. Odd(Under) <=> i - 1 \in s
    <3>1. CASE i - 1 \in 0 .. 23
      BY <3>1 DEF Syndrome
    <3>2. CASE i - 1 \notin 0 .. 23
      <4>1. Under = {}
        <5> SUFFICES ASSUME NEW j \in Under PROVE FALSE
          OBVIOUS
        <5>1. j \in Nat /\ j < k /\ i - 1 \in Power[k - 1 - j]
          BY DEF Ones
        <5>2. k - 1 - j \in 0 .. 111
          BY <5>1
        <5>3. Power[k - 1 - j] \subseteq 0 .. 23
          BY <5>2, PowersAre
        <5> QED
          BY <3>2, <5>1, <5>3
      <4> HIDE DEF Under
      <4> QED
        BY <1>1, <3>2, <4>1, OddOne
    <3> QED
      BY <3>1, <3>2
  <2>5. Odd(Over) <=> 23 \in s /\ i \in Generator
    <3>1. CASE i \in Generator
      <4>1. Over = Ones(data, k, 23)
        BY <3>1
      <4>2. 23 \in s <=> Odd(Ones(data, k, 23))
        BY DEF Syndrome
      <4> HIDE DEF Over, s
      <4> QED
        BY <3>1, <4>1, <4>2, Zenon
    <3>2. CASE i \notin Generator
      <4>1. Over = {}
        BY <3>2
      <4> HIDE DEF Over, s
      <4> QED
        BY <3>2, <4>1, OddOne
    <3> QED
      BY <3>1, <3>2
  <2>6. Odd(Last) <=> i = 0 /\ one
    <3>1. Last = IF i = 0 /\ one THEN {k} ELSE {}
      OBVIOUS
    <3> HIDE DEF Last, one
    <3> QED
      BY <3>1, OddOne
  <2> HIDE DEF Under, Over, Last, s, one
  <2>7. Odd(Ones(data, k + 1, i)) <=> ~(~(Odd(Under) <=> Odd(Over)) <=> Odd(Last))
    <3>1. Odd(SymDiff(Under, Over)) <=> ~(Odd(Under) <=> Odd(Over))
      BY <2>2, OddSum
    <3>2. Odd(SymDiff(SymDiff(Under, Over), Last)) <=> ~(Odd(SymDiff(Under, Over)) <=> Odd(Last))
      BY <2>2, <2>3, OddSum
    <3> QED
      BY <2>1, <3>1, <3>2, Zenon
  <2>8. i \in Syndrome(data, k + 1) <=> Odd(Ones(data, k + 1, i))
    BY DEF Syndrome
  <2>9. i \in Reduce(Shift(s, one)) <=>
           ~(~(i - 1 \in s <=> (23 \in s /\ i \in Generator)) <=> (i = 0 /\ one))
    BY <1>4 DEF s, one
  <2> QED
    BY <2>4, <2>5, <2>6, <2>7, <2>8, <2>9, Zenon
<1>6. Reduce(Shift(s, one)) \subseteq 0 .. 23
  <2>1. Shift(s, one) \subseteq 0 .. 24
    BY <1>1 DEF Shift
  <2> DEFINE p == Shift(s, one)
  <2> HIDE DEF p
  <2>2. 24 \in Generator /\ Generator \subseteq 0 .. 24
    BY DEF Generator
  <2>3. ASSUME NEW i \in Reduce(p) PROVE i \in 0 .. 23
    <3>1. p \subseteq 0 .. 24
      BY <2>1 DEF p
    <3>2. i \in 0 .. 24 /\ i # 24
      <4>1. CASE 24 \in p
        BY <2>2, <3>1, <4>1 DEF Reduce, SymDiff
      <4>2. CASE 24 \notin p
        BY <3>1, <4>2 DEF Reduce
      <4> QED
        BY <4>1, <4>2
    <3> QED
      BY <3>2
  <2> QED
    BY <2>3 DEF p
<1> HIDE DEF s, one
<1>7. Syndrome(data, k + 1) = Reduce(Shift(s, one))
  BY <1>1, <1>5, <1>6
<1> QED
  BY <1>7 DEF s, one

\* What is left of a message by the standard is its syndrome by the table.
LEMMA RemainderIs ==
  ASSUME NEW data, data \subseteq Nat, NEW bits \in 0 .. 112
  PROVE  Remainder(data, bits) = Syndrome(data, bits)
<1> DEFINE Upto(g) ==
      [k \in 0 .. bits |-> IF k = 0 THEN {} ELSE Reduce(Shift(g[k - 1], k - 1 \in data))]
<1> DEFINE g == [k \in 0 .. bits |-> Syndrome(data, k)]
<1>1. Syndrome(data, 0) = {}
  <2>1. ASSUME NEW i PROVE Ones(data, 0, i) = {}
    <3> SUFFICES ASSUME NEW j \in Ones(data, 0, i) PROVE FALSE
      OBVIOUS
    <3>1. j \in Nat /\ j < 0
      BY DEF Ones
    <3> QED
      BY <3>1
  <2> QED
    BY <2>1, OddOne DEF Syndrome
<1>2. g = Upto(g)
  <2>1. ASSUME NEW k \in 0 .. bits
        PROVE  g[k] = IF k = 0 THEN {} ELSE Reduce(Shift(g[k - 1], k - 1 \in data))
    <3>1. CASE k = 0
      BY <1>1, <3>1
    <3>2. CASE k # 0
      <4>1. k - 1 \in 0 .. 111 /\ k - 1 \in 0 .. bits /\ (k - 1) + 1 = k
        BY <3>2
      <4>2. Syndrome(data, (k - 1) + 1) = Reduce(Shift(Syndrome(data, k - 1), k - 1 \in data))
        BY <4>1, DivisionStep
      <4>3. g[k] = Syndrome(data, k) /\ g[k - 1] = Syndrome(data, k - 1)
        BY <4>1
      <4> HIDE DEF g
      <4> QED
        BY <3>2, <4>1, <4>2, <4>3
    <3> QED
      BY <3>1, <3>2
  <2> QED
    BY <2>1
<1> DEFINE w == CHOOSE h : h = Upto(h)
<1>3. w = Upto(w)
  <2> HIDE DEF Upto, g
  <2> QED
    BY <1>2
<1>4. Remainder(data, bits) = w[bits]
  BY DEF Remainder
<1> HIDE DEF w
<1>5. \A k \in 0 .. bits : w[k] = IF k = 0 THEN {} ELSE Reduce(Shift(w[k - 1], k - 1 \in data))
  BY <1>3
<1> DEFINE E == {k \in Nat : k <= bits => w[k] = Syndrome(data, k)}
<1>6. 0 \in E
  BY <1>1, <1>5
<1>7. ASSUME NEW k \in Nat, k \in E PROVE k + 1 \in E
  <2> SUFFICES ASSUME k + 1 <= bits PROVE w[k + 1] = Syndrome(data, k + 1)
    OBVIOUS
  <2>1. w[k] = Syndrome(data, k)
    BY <1>7
  <2>2. k + 1 \in 0 .. bits /\ k \in 0 .. 111 /\ (k + 1) - 1 = k /\ k + 1 # 0
    OBVIOUS
  <2>3. w[k + 1] = Reduce(Shift(w[(k + 1) - 1], (k + 1) - 1 \in data))
    BY <1>5, <2>2
  <2>4. Syndrome(data, k + 1) = Reduce(Shift(Syndrome(data, k), k \in data))
    BY <2>2, DivisionStep
  <2> QED
    BY <2>1, <2>2, <2>3, <2>4
<1>8. Nat \subseteq E
  <2> HIDE DEF E
  <2> QED
    BY <1>6, <1>7, SetInduction
<1>9. w[bits] = Syndrome(data, bits)
  BY <1>8
<1> QED
  BY <1>4, <1>9

-----------------------------------------------------------------------------
(* What is sent.                                                           *)

\* The rules of exclusive or.
LEMMA SymDiffs ==
  ASSUME NEW a, NEW b
  PROVE  /\ SymDiff(a, {}) = a /\ SymDiff({}, a) = a
         /\ SymDiff(a, a) = {}
         /\ SymDiff(SymDiff(a, b), b) = a
         /\ SymDiff(a, b) = {} <=> a = b
BY DEF SymDiff

\* Messages are short or long (modesMessageLenByType).
LEMMA LengthIs == \A df : MessageLenByType(df) \in {56, 112}
BY DEF MessageLenByType

\* The five bits of a type give it back.
LEMMA TypeIs ==
  ASSUME NEW df \in 0 .. 31, NEW msg, \A j \in 0 .. 4 : j \in msg <=> j \in TypeField(df)
  PROVE  MsgType(msg) = df
<1> DEFINE bit(j) == IF j \in msg THEN 1 ELSE 0
<1>1. /\ bit(0) = (df \div 16) % 2 /\ bit(1) = (df \div 8) % 2 /\ bit(2) = (df \div 4) % 2
      /\ bit(3) = (df \div 2) % 2 /\ bit(4) = (df \div 1) % 2
  BY DEF TypeField
<1>2. MsgType(msg) = 16 * bit(0) + 8 * bit(1) + 4 * bit(2) + 2 * bit(3) + bit(4)
  BY DEF MsgType
<1> HIDE DEF bit
<1>3. df = 16 * ((df \div 16) % 2) + 8 * ((df \div 8) % 2) + 4 * ((df \div 4) % 2)
           + 2 * ((df \div 2) % 2) + ((df \div 1) % 2)
  OBVIOUS
<1> QED
  BY <1>1, <1>2, <1>3

\* What is sent: bits of the message, with its type and an address in clear in their places,
\* of which the code's table makes nothing, or the address that is hidden in the parity.
LEMMA SentIs ==
  ASSUME NEW f \in Frames
  PROVE  /\ Sent[f] \subseteq 0 .. Bits(f) - 1
         /\ MsgType(Sent[f]) = f.df
         /\ f.df \notin AddressParity => AddressField(Sent[f]) = f.address
         /\ Syndrome(Sent[f], Bits(f)) = IF f.df \in AddressParity THEN f.address ELSE {}
<1> DEFINE bits == Bits(f)
<1> DEFINE hidden == f.df \in AddressParity
<1> DEFINE type == TypeField(f.df)
<1> DEFINE clear == IF hidden THEN {} ELSE {31 - i : i \in f.address}
<1> DEFINE data == type \cup f.payload \cup clear
<1> DEFINE rem == Remainder(data, bits)
<1> DEFINE parity == IF hidden THEN SymDiff(rem, f.address) ELSE rem
<1> DEFINE tail == {bits - 1 - i : i \in parity}
<1>1. bits \in {56, 112}
  BY LengthIs DEF Bits
<1>2. f.df \in 0 .. 31 /\ f.address \subseteq 0 .. 23 /\ f.payload \subseteq 5 .. bits - 25
      /\ (~hidden => f.payload \cap 8 .. 31 = {})
  BY FramesAssumption DEF Address, Bits
<1>3. Sent[f] = data \cup tail
  BY DEF Sent, Bits
<1>4. type \subseteq 0 .. 4
  BY DEF TypeField
<1>5. clear \subseteq 8 .. 31
  BY <1>2
<1> HIDE DEF bits, hidden, type, clear
<1>6. data \subseteq 0 .. bits - 25
  <2>1. type \subseteq 0 .. bits - 25 /\ clear \subseteq 0 .. bits - 25
    BY <1>1, <1>4, <1>5
  <2>2. f.payload \subseteq 0 .. bits - 25
    BY <1>1, <1>2
  <2> QED
    BY <2>1, <2>2
<1> HIDE DEF data
<1>7. rem = Syndrome(data, bits)
  <2>1. data \subseteq Nat /\ bits \in 0 .. 112
    BY <1>1, <1>6
  <2> QED
    BY <2>1, RemainderIs
<1>8. rem \subseteq 0 .. 23
  BY <1>7 DEF Syndrome
<1> HIDE DEF rem
<1>9. parity \subseteq 0 .. 23
  BY <1>2, <1>8 DEF SymDiff
<1> HIDE DEF parity
<1>10. tail \subseteq bits - 24 .. bits - 1
  BY <1>1, <1>9
<1>11. \A i \in 0 .. 23 : bits - 1 - i \in tail <=> i \in parity
  BY <1>1, <1>9
<1> HIDE DEF tail
<1>12. Sent[f] = SymDiff(data, tail)
  <2>1. data \cap tail = {}
    BY <1>1, <1>6, <1>10
  <2> QED
    BY <1>3, <2>1 DEF SymDiff
<1>13. Sent[f] \subseteq 0 .. bits - 1
  BY <1>1, <1>3, <1>6, <1>10
<1>14. MsgType(Sent[f]) = f.df
  <2>1. ASSUME NEW j \in 0 .. 4 PROVE j \in Sent[f] <=> j \in type
    <3>1. j \notin tail /\ j \notin f.payload /\ j \notin clear
      BY <1>1, <1>2, <1>5, <1>10
    <3> QED
      BY <1>3, <3>1 DEF data
  <2> QED
    BY <1>2, <2>1, TypeIs DEF type
<1>15. ASSUME ~hidden PROVE AddressField(Sent[f]) = f.address
  <2>1. ASSUME NEW i \in 0 .. 23 PROVE 31 - i \in Sent[f] <=> i \in f.address
    <3>1. 31 - i \in 8 .. 31
      OBVIOUS
    <3>2. 31 - i \notin tail /\ 31 - i \notin type /\ 31 - i \notin f.payload
      BY <1>1, <1>2, <1>4, <1>10, <1>15, <3>1
    <3>3. 31 - i \in clear <=> i \in f.address
      BY <1>2, <1>15 DEF clear
    <3> QED
      BY <1>3, <3>2, <3>3 DEF data
  <2> QED
    BY <1>2, <2>1 DEF AddressField
<1>16. Syndrome(tail, bits) = parity
  <2>1. ASSUME NEW i \in 0 .. 23 PROVE Odd(Ones(tail, bits, i)) <=> i \in parity
    <3>1. ASSUME NEW j \in tail PROVE j \in Ones(tail, bits, i) <=> j = bits - 1 - i
      <4>1. bits - 1 - j \in 0 .. 111 /\ bits - 1 - j < 24 /\ j < bits /\ j \in Int
        BY <1>1, <1>10
      <4>2. Power[bits - 1 - j] = {bits - 1 - j}
        BY <4>1, PowersAre
      <4> QED
        BY <1>1, <4>1, <4>2 DEF Ones
    <3>2. Ones(tail, bits, i) \subseteq tail
      BY DEF Ones
    <3>3. CASE i \in parity
      <4>1. Ones(tail, bits, i) = {bits - 1 - i}
        BY <1>11, <3>1, <3>2, <3>3
      <4> QED
        BY <3>3, <4>1, OddOne
    <3>4. CASE i \notin parity
      <4>1. Ones(tail, bits, i) = {}
        BY <1>11, <3>1, <3>2, <3>4
      <4> QED
        BY <3>4, <4>1, OddOne
    <3> QED
      BY <3>3, <3>4
  <2> QED
    BY <1>9, <2>1 DEF Syndrome
<1>17. Syndrome(Sent[f], bits) = SymDiff(rem, parity)
  <2>1. data \in SUBSET Nat /\ tail \in SUBSET Nat /\ bits \in Nat
    BY <1>1, <1>6, <1>10
  <2> QED
    BY <1>7, <1>12, <1>16, <2>1, SyndromeSum
<1>18. SymDiff(rem, parity) = IF hidden THEN f.address ELSE {}
  BY DEF SymDiff, parity
<1> QED
  BY <1>13, <1>14, <1>15, <1>17, <1>18 DEF bits, hidden

-----------------------------------------------------------------------------
(* The repair.                                                             *)

\* Two powers that are not the same and do not add up to a third.
Apart(m, n) ==
  /\ Power[m] # Power[n]
  /\ \A k \in 0 .. 111 : SymDiff(Power[m], Power[n]) # Power[k]

\* Any two are so.
LEMMA PowersDiffer ==
  ASSUME NEW m \in 0 .. 111, NEW n \in 0 .. 111, m # n
  PROVE  Apart(m, n)
<1>1. \A k, l \in 0 .. 111 : k < l => SymDiff(Power[k], Power[l]) # {}
         /\ \A i \in 0 .. 111 : SymDiff(Power[k], Power[l]) # Power[i]
  BY PowersAssumption
<1>2. SymDiff(Power[m], Power[n]) = SymDiff(Power[n], Power[m])
  BY DEF SymDiff
<1>3. m < n \/ n < m
  OBVIOUS
<1>4. SymDiff(Power[m], Power[n]) # {}
      /\ \A i \in 0 .. 111 : SymDiff(Power[m], Power[n]) # Power[i]
  BY <1>1, <1>2, <1>3
<1>5. Power[m] # Power[n]
  BY <1>4, SymDiffs
<1> QED
  BY <1>4, <1>5 DEF Apart

\* The checksum is right where the syndrome is nothing, and the repair looks for the bit that
\* makes it nothing (fixSingleBitErrors).
LEMMA FixesAre ==
  ASSUME NEW msg \in SUBSET (0 .. 111), NEW bits \in {56, 112}
  PROVE  /\ ParityField(msg, bits) = Checksum(msg, bits) <=> Syndrome(msg, bits) = {}
         /\ Fixes(msg, bits) = {k \in 0 .. bits - 1 : Power[bits - 1 - k] = Syndrome(msg, bits)}
<1>1. ASSUME NEW m \in SUBSET (0 .. 111)
      PROVE  ParityField(m, bits) = Checksum(m, bits) <=> Syndrome(m, bits) = {}
  <2> DEFINE p == ParityField(m, bits)
  <2> DEFINE c == Checksum(m, bits)
  <2>1. Syndrome(m, bits) = SymDiff(p, c)
    BY <1>1, SyndromeIs
  <2> HIDE DEF p, c
  <2>2. SymDiff(p, c) = {} <=> p = c
    BY SymDiffs
  <2> QED
    BY <2>1, <2>2 DEF p, c
<1>2. ASSUME NEW k \in 0 .. bits - 1
      PROVE  ParityField(Flip(msg, k), bits) = Checksum(Flip(msg, k), bits) <=>
                Power[bits - 1 - k] = Syndrome(msg, bits)
  <2>1. Flip(msg, k) = SymDiff(msg, {k}) /\ Flip(msg, k) \in SUBSET (0 .. 111)
    BY DEF Flip, SymDiff
  <2>2. msg \subseteq Nat /\ {k} \subseteq Nat /\ bits \in Nat /\ bits \in 1 .. 112
    OBVIOUS
  <2>3. Syndrome(Flip(msg, k), bits) = SymDiff(Syndrome(msg, bits), Syndrome({k}, bits))
    <3> DEFINE one == {k}
    <3>1. msg \in SUBSET Nat /\ one \in SUBSET Nat /\ bits \in Nat
      BY <2>2
    <3>3. Flip(msg, k) = SymDiff(msg, one)
      BY <2>1
    <3> HIDE DEF one
    <3>2. Syndrome(Flip(msg, k), bits) = SymDiff(Syndrome(msg, bits), Syndrome(one, bits))
      <4>1. Syndrome(SymDiff(msg, one), bits) = SymDiff(Syndrome(msg, bits), Syndrome(one, bits))
        BY <3>1, SyndromeSum
      <4> QED
        BY <3>3, <4>1, Zenon
    <3> QED
      BY <3>2 DEF one
  <2>4. Syndrome({k}, bits) = Power[bits - 1 - k]
    BY <2>2, SyndromeOfOne
  <2>5. SymDiff(Syndrome(msg, bits), Power[bits - 1 - k]) = {} <=>
           Syndrome(msg, bits) = Power[bits - 1 - k]
    <3> DEFINE a == Syndrome(msg, bits)
    <3> DEFINE b == Power[bits - 1 - k]
    <3> HIDE DEF a, b
    <3>1. SymDiff(a, b) = {} <=> a = b
      BY SymDiffs
    <3> QED
      BY <3>1 DEF a, b
  <2> QED
    BY <1>1, <2>1, <2>3, <2>4, <2>5
<1> QED
  BY <1>1, <1>2 DEF Fixes

\* A message with wrong bits behind its type keeps its type, and the wrong bits add their
\* powers to its syndrome.
LEMMA Arrives ==
  ASSUME NEW f \in Frames, NEW e, e \subseteq 5 .. Bits(f) - 1
  PROVE  LET received == SymDiff(Sent[f], e)
         IN  /\ received \subseteq 0 .. Bits(f) - 1
             /\ MsgType(received) = f.df
             /\ Syndrome(received, Bits(f)) =
                   SymDiff(IF f.df \in AddressParity THEN f.address ELSE {}, Syndrome(e, Bits(f)))
<1> DEFINE bits == Bits(f)
<1> DEFINE received == SymDiff(Sent[f], e)
<1>1. bits \in {56, 112}
  BY LengthIs DEF Bits
<1>2. /\ Sent[f] \subseteq 0 .. bits - 1
      /\ MsgType(Sent[f]) = f.df
      /\ Syndrome(Sent[f], bits) = IF f.df \in AddressParity THEN f.address ELSE {}
  BY SentIs
<1>3. e \subseteq 5 .. bits - 1
  OBVIOUS
<1> HIDE DEF bits
<1>4. received \subseteq 0 .. bits - 1
  <2>1. e \subseteq 0 .. bits - 1
    BY <1>1, <1>3
  <2> QED
    BY <1>2, <2>1, Zenon DEF SymDiff
<1>5. MsgType(received) = f.df
  <2>1. ASSUME NEW j \in 0 .. 4 PROVE j \in received <=> j \in Sent[f]
    BY <1>1, <1>3 DEF SymDiff
  <2>2. MsgType(received) = MsgType(Sent[f])
    <3>1. /\ 0 \in received <=> 0 \in Sent[f]
          /\ 1 \in received <=> 1 \in Sent[f]
          /\ 2 \in received <=> 2 \in Sent[f]
          /\ 3 \in received <=> 3 \in Sent[f]
          /\ 4 \in received <=> 4 \in Sent[f]
      BY <2>1
    <3> HIDE DEF received
    <3> QED
      BY <3>1, Zenon DEF MsgType
  <2> QED
    BY <1>2, <2>2
<1>6. Syndrome(received, bits) = SymDiff(Syndrome(Sent[f], bits), Syndrome(e, bits))
  <2>1. Sent[f] \in SUBSET Nat /\ e \in SUBSET Nat /\ bits \in Nat
    BY <1>1, <1>2, <1>3
  <2> QED
    BY <2>1, SyndromeSum, Zenon
<1> QED
  BY <1>2, <1>4, <1>5, <1>6, Zenon DEF bits

\* One wrong bit behind the type of a message with its address in clear is put right,
\* wherever it is.
LEMMA OneIsFixed ==
  ASSUME NEW f \in Frames, f.df \in AddressInClear, NEW j \in 5 .. Bits(f) - 1
  PROVE  LET received == SymDiff(Sent[f], {j})
         IN  /\ ParityField(received, Bits(f)) # Checksum(received, Bits(f))
             /\ FixSingleBitErrors(received, Bits(f)) = Sent[f]
<1> DEFINE bits == Bits(f)
<1> DEFINE one == {j}
<1> DEFINE received == SymDiff(Sent[f], one)
<1> DEFINE s == Power[bits - 1 - j]
<1>1. bits \in {56, 112} /\ bits \in 1 .. 112 /\ j \in 0 .. bits - 1 /\ bits - 1 - j \in 0 .. 111
      /\ j \in 5 .. bits - 1
  BY LengthIs DEF Bits
<1>2. f.df \notin AddressParity
  BY DEF AddressParity, AddressInClear
<1> HIDE DEF bits
<1>3. Syndrome(one, bits) = s /\ s # {}
  <2>1. Syndrome({j}, bits) = Power[bits - 1 - j]
    BY <1>1, SyndromeOfOne
  <2>2. Power[bits - 1 - j] # {}
    BY <1>1, PowersAre
  <2> QED
    BY <2>1, <2>2
<1>4. one \subseteq 5 .. Bits(f) - 1
  BY <1>1 DEF bits
<1> HIDE DEF one, s
<1>5. received \subseteq 0 .. Bits(f) - 1 /\ Syndrome(received, Bits(f)) = SymDiff({}, Syndrome(one, Bits(f)))
  BY <1>2, <1>4, Arrives
<1>6. Syndrome(received, bits) = s
  <2>1. SymDiff({}, s) = s
    BY SymDiffs
  <2> QED
    BY <1>3, <1>5, <2>1, Zenon DEF bits
<1>7. received \in SUBSET (0 .. 111)
  BY <1>1, <1>5 DEF bits
<1> HIDE DEF received
<1>8. ParityField(received, bits) # Checksum(received, bits)
  BY <1>1, <1>3, <1>6, <1>7, FixesAre
<1>9. Fixes(received, bits) = {j}
  <2>1. Fixes(received, bits) = {k \in 0 .. bits - 1 : Power[bits - 1 - k] = s}
    <3>1. Fixes(received, bits) =
             {k \in 0 .. bits - 1 : Power[bits - 1 - k] = Syndrome(received, bits)}
      BY <1>1, <1>7, FixesAre
    <3> QED
      BY <1>6, <3>1, Zenon
  <2>2. ASSUME NEW k \in 0 .. bits - 1, k # j PROVE Power[bits - 1 - k] # s
    <3>1. bits - 1 - k \in 0 .. 111 /\ bits - 1 - k # bits - 1 - j
      BY <1>1, <2>2
    <3> DEFINE a == bits - 1 - k
    <3> DEFINE b == bits - 1 - j
    <3>2. a \in 0 .. 111 /\ b \in 0 .. 111 /\ a # b
      BY <1>1, <3>1
    <3> HIDE DEF a, b
    <3>3. Power[a] # Power[b]
      BY <3>2, PowersDiffer DEF Apart
    <3> QED
      BY <3>3 DEF s, a, b
  <2>3. Power[bits - 1 - j] = s
    BY DEF s
  <2> QED
    BY <1>1, <2>1, <2>2, <2>3
<1>10. FixSingleBitErrors(received, bits) = Flip(received, j)
  <2>1. \A k \in {j} : j <= k
    BY <1>1
  <2>2. (CHOOSE n \in {j} : \A k \in {j} : n <= k) = j
    BY <2>1
  <2> QED
    BY <1>9, <2>2 DEF FixSingleBitErrors
<1>11. Flip(received, j) = Sent[f]
  BY SymDiffs DEF Flip, received, one
<1> QED
  BY <1>8, <1>10, <1>11 DEF bits, received, one

\* Then the checksum of the message is right again; so it is accepted if its parity field,
\* as it arrived, was right.
LEMMA DataErrorPasses ==
  ASSUME NEW f \in Frames, f.df \in AddressInClear, NEW j \in 5 .. Bits(f) - 25
  PROVE  Decode(SymDiff(Sent[f], {j})).ok
<1> DEFINE bits == Bits(f)
<1> DEFINE received == SymDiff(Sent[f], {j})
<1>1. bits \in {56, 112} /\ j \in 5 .. bits - 1 /\ j < bits - 24 /\ {j} \subseteq 5 .. bits - 1
  BY LengthIs DEF Bits
<1>2. MsgType(received) = f.df
  BY <1>1, Arrives
<1>3. /\ ParityField(received, bits) # Checksum(received, bits)
      /\ FixSingleBitErrors(received, bits) = Sent[f]
  BY <1>1, OneIsFixed
<1>4. ParityField(received, bits) = ParityField(Sent[f], bits)
  BY <1>1 DEF ParityField, SymDiff
<1>5. ParityField(Sent[f], bits) = Checksum(Sent[f], bits)
  <2>1. Sent[f] \in SUBSET (0 .. 111) /\ Syndrome(Sent[f], bits) = {}
    <3>1. f.df \notin AddressParity
      BY DEF AddressParity, AddressInClear
    <3> QED
      BY <1>1, <3>1, SentIs
  <2> QED
    BY <1>1, <2>1, FixesAre
<1> HIDE DEF received
<1>6. Decode(received).ok = (ParityField(received, bits) = Checksum(Sent[f], bits))
  BY <1>2, <1>3 DEF Decode, Bits
<1> QED
  BY <1>4, <1>5, <1>6 DEF received

\* No wrong bits have nothing for a syndrome.
LEMMA SyndromeOfNone == \A bits : Syndrome({}, bits) = {}
<1>1. \A bits, i : Ones({}, bits, i) = {}
  BY DEF Ones
<1> QED
  BY <1>1, OddOne DEF Syndrome

\* A word with ones; and one that is no power either.
HasOnes(word) == word # {}
NoPower(word, bits) == word # {} /\ \A k \in 0 .. bits - 1 : word # Power[bits - 1 - k]

\* The syndrome of one bit or two.
LEMMA SyndromeOfTwo ==
  ASSUME NEW bits \in {56, 112}, NEW a \in 0 .. bits - 1, NEW b \in 0 .. bits - 1
  PROVE  /\ HasOnes(Syndrome({a, b}, bits))
         /\ a # b => NoPower(Syndrome({a, b}, bits), bits)
<1>1. bits \in 1 .. 112 /\ bits \in Nat
  OBVIOUS
<1>2. Syndrome({a}, bits) = Power[bits - 1 - a] /\ Syndrome({b}, bits) = Power[bits - 1 - b]
  <2>1. \A j \in 0 .. bits - 1 : Syndrome({j}, bits) = Power[bits - 1 - j]
    BY <1>1, SyndromeOfOne
  <2> QED
    BY <2>1
<1>3. ASSUME a # b
      PROVE  /\ Syndrome({a, b}, bits) # {}
             /\ NoPower(Syndrome({a, b}, bits), bits)
  <2> DEFINE m == {a}
  <2> DEFINE n == {b}
  <2>1. m \in SUBSET Nat /\ n \in SUBSET Nat
    OBVIOUS
  <2>2. SymDiff(m, n) = {a, b}
    BY <1>3 DEF SymDiff
  <2>3. Syndrome(m, bits) = Power[bits - 1 - a] /\ Syndrome(n, bits) = Power[bits - 1 - b]
    BY <1>2
  <2> HIDE DEF m, n
  <2>4. Syndrome(SymDiff(m, n), bits) = SymDiff(Syndrome(m, bits), Syndrome(n, bits))
    BY <1>1, <2>1, SyndromeSum
  <2> DEFINE x == bits - 1 - a
  <2> DEFINE y == bits - 1 - b
  <2>5. x \in 0 .. 111 /\ y \in 0 .. 111 /\ x # y
    BY <1>3
  <2>6. Syndrome({a, b}, bits) = SymDiff(Power[x], Power[y])
    BY <2>2, <2>3, <2>4
  <2> HIDE DEF x, y
  <2>7. /\ Power[x] # Power[y]
        /\ \A k \in 0 .. 111 : SymDiff(Power[x], Power[y]) # Power[k]
    <3>1. Apart(x, y)
      BY <2>5, PowersDiffer
    <3> QED
      BY <3>1 DEF Apart
  <2>8. SymDiff(Power[x], Power[y]) # {}
    <3> DEFINE u == Power[x]
    <3> DEFINE v == Power[y]
    <3> HIDE DEF u, v
    <3>1. SymDiff(u, v) = {} <=> u = v
      BY SymDiffs
    <3> QED
      BY <2>7, <3>1 DEF u, v
  <2>9. ASSUME NEW k \in 0 .. bits - 1 PROVE Syndrome({a, b}, bits) # Power[bits - 1 - k]
    <3> DEFINE z == bits - 1 - k
    <3>1. z \in 0 .. 111
      OBVIOUS
    <3> HIDE DEF z
    <3>2. Syndrome({a, b}, bits) # Power[z]
      BY <2>6, <2>7, <3>1
    <3> QED
      BY <3>2 DEF z
  <2> QED
    BY <2>6, <2>8, <2>9 DEF NoPower
<1>4. CASE a = b
  <2>1. {a, b} = {a}
    BY <1>4
  <2>2. bits - 1 - a \in 0 .. 111
    OBVIOUS
  <2>3. Power[bits - 1 - a] # {}
    BY <2>2, PowersAre
  <2> QED
    BY <1>2, <1>4, <2>1, <2>3 DEF HasOnes
<1> QED
  BY <1>3, <1>4 DEF HasOnes

\* One bit or two of a message.
FewBits == UNION {{{i, j} : j \in 0 .. 111} : i \in 0 .. 111}

\* They do not go unnoticed, and two are not taken for one.
LEMMA SyndromeOfFew ==
  ASSUME NEW bits \in {56, 112}, NEW e \in FewBits, e \subseteq 0 .. bits - 1
  PROVE  /\ HasOnes(Syndrome(e, bits))
         /\ (\E j \in e : e = {j}) \/ NoPower(Syndrome(e, bits), bits)
<1>1. PICK a \in 0 .. bits - 1, b \in 0 .. bits - 1 : e = {a, b}
  <2>1. PICK a, b \in 0 .. 111 : e = {a, b}
    BY DEF FewBits
  <2>2. a \in 0 .. bits - 1 /\ b \in 0 .. bits - 1
    BY <2>1
  <2> QED
    BY <2>1, <2>2
<1>2. HasOnes(Syndrome({a, b}, bits)) /\ (a # b => NoPower(Syndrome({a, b}, bits), bits))
  BY SyndromeOfTwo
<1>3. a = b => e = {a} /\ a \in e
  BY <1>1
<1> QED
  BY <1>1, <1>2, <1>3, Zenon

\* At most two bits of a message arrive wrong, and none of its type.
FewErrors == \A e \in Errors : e = {} \/ (e \in FewBits /\ e \subseteq 5 .. 111)

\* Wrong bits make one address of another.
Turns(a, c, e, bits) == e \subseteq 0 .. bits - 1 /\ SymDiff(a, c) = Syndrome(e, bits)

\* One or two do not make one address of another, or none of it.
AddressesApart ==
    \A a \in Aircraft : \A c \in Aircraft \cup {NoAddress} :
        \A e \in FewBits : \A bits \in {56, 112} : ~Turns(a, c, e, bits)

\* With few errors a message with its address in clear that passes is the one sent; and one
\* with its address hidden, or with none, has the syndrome of what arrives wrong added to it.
LEMMA FewErrorsDecode ==
  ASSUME FewErrors, NEW f \in Frames, NEW e \in ErrorsOf(f)
  PROVE  LET d == Decode(SymDiff(Sent[f], e))
             address == IF f.df \in AddressParity THEN f.address ELSE {}
         IN  /\ d.clear <=> f.df \in AddressInClear
             /\ d.clear /\ d.ok => d.msg = Sent[f] /\ d.address = f.address
             /\ ~d.clear => /\ d.ok <=> SymDiff(address, Syndrome(e, Bits(f))) = {}
                            /\ d.address # NoAddress =>
                                  /\ f.df \in AddressParity
                                  /\ d.address = SymDiff(f.address, Syndrome(e, Bits(f)))
                            /\ e = {} => d.msg = Sent[f]
<1> DEFINE bits == Bits(f)
<1> DEFINE received == SymDiff(Sent[f], e)
<1> DEFINE address == IF f.df \in AddressParity THEN f.address ELSE {}
<1> DEFINE syndrome == Syndrome(received, bits)
<1> DEFINE d == Decode(received)
<1>1. bits \in {56, 112}
  BY LengthIs DEF Bits
<1>2. e \in Errors /\ e \subseteq 0 .. bits - 1
  BY DEF ErrorsOf
<1>3. e \subseteq 5 .. Bits(f) - 1
  <2>1. e \subseteq 5 .. 111
    <3>1. e = {} \/ e \subseteq 5 .. 111
      BY <1>2, Zenon DEF FewErrors
    <3> QED
      BY <3>1
  <2> QED
    BY <1>1, <1>2, <2>1
<1>4. /\ received \subseteq 0 .. Bits(f) - 1
      /\ MsgType(received) = f.df
      /\ Syndrome(received, Bits(f)) = SymDiff(address, Syndrome(e, Bits(f)))
  BY <1>3, Arrives
<1>5. /\ Sent[f] \subseteq 0 .. bits - 1
      /\ f.df \notin AddressParity => AddressField(Sent[f]) = f.address
  BY SentIs
<1>6. MessageLenByType(f.df) = bits
  BY DEF Bits
<1> HIDE DEF bits
<1>7. received \in SUBSET (0 .. 111)
  BY <1>1, <1>4 DEF bits
<1>8. f.df \in AddressInClear => f.df \notin AddressParity
  BY DEF AddressInClear, AddressParity
<1>9. e = {} => received = Sent[f]
  BY DEF SymDiff
<1> HIDE DEF received, address, d
<1>10. /\ ParityField(received, bits) = Checksum(received, bits) <=> syndrome = {}
       /\ Fixes(received, bits) = {k \in 0 .. bits - 1 : Power[bits - 1 - k] = syndrome}
  BY <1>1, <1>7, FixesAre
<1>11. SymDiff(ParityField(received, bits), Checksum(received, bits)) = syndrome
  BY <1>1, <1>7, SyndromeIs
<1>12. syndrome = SymDiff(address, Syndrome(e, bits))
  BY <1>4 DEF bits
<1>13. d.clear = (f.df \in AddressInClear)
  BY <1>4, <1>6 DEF Decode, d
<1>14. ASSUME f.df \in AddressInClear, d.ok
       PROVE  d.msg = Sent[f] /\ d.address = f.address
  <2> DEFINE crc == ParityField(received, bits)
  <2> DEFINE msg == IF crc # Checksum(received, bits)
                    THEN FixSingleBitErrors(received, bits) ELSE received
  <2>1. /\ d.ok = (crc = Checksum(msg, bits))
        /\ d.msg = {j \in msg : j < bits}
        /\ d.address = AddressField(msg)
    BY <1>4, <1>6, <1>14 DEF Decode, d
  <2>2. msg = Sent[f]
    <3>1. CASE e = {}
      <4>1. syndrome = {}
        <5>1. Syndrome(e, bits) = {}
          BY <3>1, SyndromeOfNone
        <5>2. address = {}
          BY <1>8, <1>14 DEF address
        <5> QED
          BY <1>12, <5>1, <5>2 DEF SymDiff
      <4> QED
        BY <1>9, <1>10, <3>1, <4>1
    <3>2. ASSUME NEW j \in 5 .. Bits(f) - 1, e = {j} PROVE msg = Sent[f]
      <4>1. /\ ParityField(received, bits) # Checksum(received, bits)
            /\ FixSingleBitErrors(received, bits) = Sent[f]
        BY <1>14, <3>2, OneIsFixed DEF received, bits
      <4> QED
        BY <4>1
    <3>3. ASSUME NoPower(Syndrome(e, bits), bits) PROVE FALSE
      <4>1. syndrome = Syndrome(e, bits)
        BY <1>8, <1>12, <1>14 DEF address, SymDiff
      <4>2. ParityField(received, bits) # Checksum(received, bits) /\ Fixes(received, bits) = {}
        BY <1>10, <3>3, <4>1 DEF NoPower
      <4>3. msg = received
        BY <4>2 DEF FixSingleBitErrors
      <4> QED
        BY <1>14, <2>1, <4>2, <4>3
    <3>4. e = {} \/ (\E j \in e : e = {j}) \/ NoPower(Syndrome(e, bits), bits)
      <4>1. e = {} \/ e \in FewBits
        BY <1>2, Zenon DEF FewErrors
      <4> HIDE DEF msg, crc
      <4> QED
        BY <1>1, <1>2, <4>1, SyndromeOfFew
    <3> HIDE DEF msg, crc
    <3> QED
      BY <1>3, <3>1, <3>2, <3>3, <3>4
  <2>3. {j \in Sent[f] : j < bits} = Sent[f]
    BY <1>1, <1>5
  <2> HIDE DEF msg, crc
  <2> QED
    BY <1>5, <1>8, <1>14, <2>1, <2>2, <2>3
<1>15. ASSUME f.df \notin AddressInClear
       PROVE  /\ d.ok <=> syndrome = {}
              /\ d.msg = {j \in received : j < bits}
              /\ d.address = IF f.df \in AddressParity THEN syndrome ELSE NoAddress
  <2>1. /\ d.ok = (ParityField(received, bits) = Checksum(received, bits))
        /\ d.msg = {j \in received : j < bits}
        /\ d.address = TestedAddress(received, f.df, bits)
    BY <1>4, <1>6, <1>15 DEF Decode, d
  <2> QED
    BY <1>10, <1>11, <2>1 DEF TestedAddress
<1>16. e = {} => {j \in received : j < bits} = Sent[f]
  BY <1>1, <1>5, <1>9
<1>17. f.df \in AddressParity => address = f.address
  BY DEF address
<1>18. ASSUME ~d.clear
       PROVE  /\ d.ok <=> SymDiff(address, Syndrome(e, bits)) = {}
              /\ d.address # NoAddress =>
                    f.df \in AddressParity /\ d.address = SymDiff(f.address, Syndrome(e, bits))
              /\ e = {} => d.msg = Sent[f]
  <2> HIDE DEF syndrome
  <2>1. f.df \notin AddressInClear
    BY <1>13, <1>18
  <2> QED
    BY <1>12, <1>15, <1>16, <1>17, <2>1, Zenon DEF syndrome
<1> QED
  BY <1>13, <1>14, <1>18 DEF bits, d, received, address

-----------------------------------------------------------------------------
(* What is asked of the decoding of a single message.                      *)

\* A message with its address in clear that passes has the address of an aircraft.
ClearIsReal ==
    \A f \in Frames : \A e \in ErrorsOf(f) :
        Decoded[f][e].clear /\ Decoded[f][e].ok => Decoded[f][e].address \in Aircraft

\* A message that passes, or turns out to have the address of an aircraft hidden in
\* its parity, is the one that was sent.
DecodingIsRight ==
    \A f \in Frames : \A e \in ErrorsOf(f) :
        \/ Decoded[f][e].ok
        \/ ~Decoded[f][e].clear /\ Decoded[f][e].address \in Aircraft \ {NoAddress}
        => Decoded[f][e].msg = Sent[f]

-----------------------------------------------------------------------------
(* The inductive invariants.                                               *)

\* What a lane may have in hand.
Hands ==
    {Idle}
    \cup [at : {"lookup"}, frame : Frames, errors : Errors]
    \cup [at : {"add", "done"}, frame : Frames, errors : Errors,
          address : Address, accepted : BOOLEAN]

Types ==
    /\ phase \in {"off", "on", "storing"}
    /\ addresses \in SUBSET Address /\ file \in SUBSET Address
    /\ pending \in SUBSET Address /\ journal \in SUBSET Address
    /\ tx \in BOOLEAN /\ torn \in BOOLEAN
    /\ hand \in [Lane -> Hands]
    /\ \A l \in Lane : hand[l] # Idle => hand[l].errors \in ErrorsOf(hand[l].frame)

\* The rows on their way into the file are those of the table; and it has those of the file
\* if it is not torn.
StoreIsOfTable ==
    /\ phase # "off" /\ ~torn => file \subseteq addresses
    /\ phase = "storing" => pending \cup journal \subseteq addresses

\* As LearntIsReal, with the addresses on their way into the table and the file.
AllIsReal ==
    /\ addresses \cup file \cup pending \cup journal \subseteq Aircraft
    /\ \A l \in Lane : hand[l].at = "add" => hand[l].address \in Aircraft

-----------------------------------------------------------------------------
(* The decoding and the decision.                                          *)

LEMMA AircraftHaveAddresses == Aircraft \subseteq Address
BY FramesAssumption DEF Aircraft

LEMMA Errorful == \A f \in Frames : DOMAIN Decoded[f] = ErrorsOf(f) /\ ErrorsOf(f) \subseteq Errors
BY DEF Decoded, ErrorsOf

\* An address has three bytes, whatever the message.
LEMMA DecodeGivesAddress ==
  ASSUME NEW received
  PROVE  Decode(received).address \in Address /\ Decode(received).ok \in BOOLEAN
         /\ Decode(received).clear \in BOOLEAN
<1>1. \A msg : AddressField(msg) \in Address
  BY DEF AddressField, Address
<1>2. \A msg, bits : ParityField(msg, bits) \in Address /\ Checksum(msg, bits) \in Address
  BY DEF ParityField, Checksum, Address
<1>3. \A msg, df, bits : TestedAddress(msg, df, bits) \in Address
  BY <1>2 DEF TestedAddress, SymDiff, NoAddress, Address
<1> QED
  BY <1>1, <1>3 DEF Decode

LEMMA DecodedGivesAddress ==
  ASSUME NEW f \in Frames, NEW e \in ErrorsOf(f)
  PROVE  Decoded[f][e].address \in Address /\ Decoded[f][e].ok \in BOOLEAN
         /\ Decoded[f][e].clear \in BOOLEAN
BY DecodeGivesAddress DEF Decoded

\* What Lookup makes of the message in hand (algo.cpp, demodulate; modes.cpp, test_crc).
LEMMA LookupEffect ==
  ASSUME Types, NEW l \in Lane, Lookup(l)
  PROVE  LET f == hand[l].frame
             e == hand[l].errors
             d == Decoded[f][e]
         IN  /\ f \in Frames /\ e \in ErrorsOf(f)
             /\ \E found \in BOOLEAN :
                   /\ found => ~d.clear /\ d.address \in addresses \ {NoAddress}
                   /\ hand' = [hand EXCEPT ![l] =
                         [at |-> IF found \/ (d.clear /\ d.ok) THEN "add" ELSE "done",
                          frame |-> f, errors |-> e,
                          address |-> d.address, accepted |-> d.ok \/ found]]
<1> DEFINE f == hand[l].frame
<1> DEFINE e == hand[l].errors
<1> DEFINE d == Decoded[f][e]
<1>1. hand[l] # Idle
  BY DEF Lookup, Idle
<1>2. hand[l] \in Hands /\ e \in ErrorsOf(f)
  BY <1>1 DEF Types
<1>3. f \in Frames
  BY <1>1, <1>2 DEF Hands
<1>4. PICK found \in IF d.clear THEN {FALSE} ELSE Finds(l, d.address) :
         hand' = [hand EXCEPT ![l] =
                  [at |-> IF found \/ (d.clear /\ d.ok) THEN "add" ELSE "done",
                   frame |-> hand[l].frame, errors |-> hand[l].errors,
                   address |-> d.address, accepted |-> d.ok \/ found]]
  BY DEF Lookup
<1>5. found \in BOOLEAN /\ (found => ~d.clear /\ d.address \in addresses \ {NoAddress})
  BY <1>4, Zenon DEF Finds
<1> QED
  BY <1>1, <1>2, <1>3, <1>4, <1>5
-----------------------------------------------------------------------------
(* The steps and the types.                                                *)

LEMMA InitTypes == Init => Types
BY AircraftHaveAddresses DEF Init, Types, Hands, Idle, AllIdle

LEMMA EndTypes ==
  ASSUME Types, End, file' \in SUBSET Address
  PROVE  Types'
<1>1. hand' \in [Lane -> Hands] /\ \A l \in Lane : hand'[l] = Idle
  BY DEF End, Hands
<1> QED
  BY <1>1 DEF Types, End

LEMMA StepTypes == Types /\ [Next]_vars => Types'
<1> SUFFICES ASSUME Types, [Next]_vars PROVE Types'
  OBVIOUS
<1>1. CASE Load
  BY <1>1 DEF Load, Types, storeVars
<1>2. ASSUME NEW l \in Lane, NEW f \in Frames, NEW e \in ErrorsOf(f), Demodulate(l, f, e)
      PROVE  Types'
  <2> DEFINE h == [at |-> "lookup", frame |-> f, errors |-> e]
  <2>1. h \in Hands
    BY Errorful DEF Hands
  <2>2. hand' = [hand EXCEPT ![l] = h]
    BY <1>2 DEF Demodulate
  <2>3. h.frame = f /\ h.errors = e
    OBVIOUS
  <2> HIDE DEF h
  <2>4. hand' \in [Lane -> Hands]
    BY <2>1, <2>2 DEF Types
  <2>5. \A k \in Lane : hand'[k] = IF k = l THEN h ELSE hand[k]
    BY <2>2 DEF Types
  <2>6. \A k \in Lane : hand'[k] # Idle => hand'[k].errors \in ErrorsOf(hand'[k].frame)
    BY <2>3, <2>5 DEF Types
  <2> QED
    BY <1>2, <2>4, <2>6 DEF Types, Demodulate, storeVars
<1>3. ASSUME NEW l \in Lane, Lookup(l) PROVE Types'
  <2> DEFINE f == hand[l].frame
  <2> DEFINE e == hand[l].errors
  <2>1. f \in Frames /\ e \in ErrorsOf(f)
    BY <1>3, LookupEffect
  <2>2. PICK found \in BOOLEAN :
           hand' = [hand EXCEPT ![l] =
                  [at |-> IF found \/ (Decoded[f][e].clear /\ Decoded[f][e].ok)
                          THEN "add" ELSE "done",
                   frame |-> f, errors |-> e,
                   address |-> Decoded[f][e].address,
                   accepted |-> Decoded[f][e].ok \/ found]]
    BY <1>3, LookupEffect
  <2> DEFINE h == [at |-> IF found \/ (Decoded[f][e].clear /\ Decoded[f][e].ok)
                          THEN "add" ELSE "done",
                   frame |-> f, errors |-> e,
                   address |-> Decoded[f][e].address,
                   accepted |-> Decoded[f][e].ok \/ found]
  <2>3. h \in Hands
    <3>1. e \in Errors
      BY <2>1, Errorful
    <3>2. Decoded[f][e].address \in Address /\ (Decoded[f][e].ok \/ found) \in BOOLEAN
      BY <2>1, DecodedGivesAddress
    <3> HIDE DEF f, e
    <3> QED
      BY <2>1, <3>1, <3>2 DEF Hands
  <2>4. h.frame = f /\ h.errors = e
    OBVIOUS
  <2>5. hand' = [hand EXCEPT ![l] = h]
    BY <2>2
  <2> HIDE DEF h
  <2>6. hand' \in [Lane -> Hands]
    BY <2>3, <2>5 DEF Types
  <2>7. \A k \in Lane : hand'[k] = IF k = l THEN h ELSE hand[k]
    BY <2>5 DEF Types
  <2>8. \A k \in Lane : hand'[k] # Idle => hand'[k].errors \in ErrorsOf(hand'[k].frame)
    <3> HIDE DEF f, e
    <3> QED
      BY <2>1, <2>4, <2>7 DEF Types
  <2> QED
    BY <1>3, <2>6, <2>8 DEF Types, Lookup, storeVars
<1>4. ASSUME NEW l \in Lane, AddAircraft(l) PROVE Types'
  <2>1. /\ hand[l] \in Hands /\ hand[l].at = "add" /\ hand[l].errors \in ErrorsOf(hand[l].frame)
        /\ hand' = [hand EXCEPT ![l].at = "done"]
    BY <1>4 DEF AddAircraft, Types, Idle
  <2> DEFINE h == [hand[l] EXCEPT !.at = "done"]
  <2>2. h \in Hands /\ h.errors = hand[l].errors /\ h.frame = hand[l].frame
        /\ hand[l].address \in Address
    BY <2>1 DEF Hands, Idle
  <2>3. hand' = [hand EXCEPT ![l] = h]
    BY <2>1
  <2> HIDE DEF h
  <2>4. hand' \in [Lane -> Hands]
    BY <2>2, <2>3 DEF Types
  <2>5. \A k \in Lane : hand'[k] = IF k = l THEN h ELSE hand[k]
    BY <2>3 DEF Types
  <2>6. \A k \in Lane : hand'[k] # Idle => hand'[k].errors \in ErrorsOf(hand'[k].frame)
    BY <2>1, <2>2, <2>5 DEF Types
  <2>7. addresses' \in SUBSET Address
    BY <1>4, <2>2 DEF AddAircraft, Types
  <2> QED
    BY <1>4, <2>4, <2>6, <2>7 DEF Types, AddAircraft, storeVars
<1>5. ASSUME NEW l \in Lane, Deliver(l) PROVE Types'
  <2>1. hand' = [hand EXCEPT ![l] = Idle] /\ Idle \in Hands
    BY <1>5 DEF Deliver, Hands
  <2>2. hand' \in [Lane -> Hands]
    BY <2>1 DEF Types
  <2>3. \A k \in Lane : hand'[k] = IF k = l THEN Idle ELSE hand[k]
    BY <2>1 DEF Types
  <2> QED
    BY <1>5, <2>2, <2>3 DEF Types, Deliver, storeVars
<1>6. CASE BeginStore
  BY <1>6 DEF BeginStore, Types
<1>7. CASE StoreRow
  BY <1>7 DEF StoreRow, Types
<1>8. CASE Commit
  BY <1>8, EndTypes DEF Commit, Types
<1>9. CASE Abort
  BY <1>9, EndTypes DEF Abort, Types
<1>10. CASE UNCHANGED vars
  BY <1>10 DEF vars, storeVars, Types
<1> QED
  BY <1>1, <1>2, <1>3, <1>4, <1>5, <1>6, <1>7, <1>8, <1>9, <1>10, Errorful DEF Next

LEMMA TypesInvariant == Spec => []Types
<1>1. Init => Types
  BY InitTypes
<1>2. Types /\ [Next]_vars => Types'
  BY StepTypes
<1> QED
  BY <1>1, <1>2, PTL DEF Spec

\* Types of the variables: every address in the table, in the file and on its way between
\* them has three bytes, and a lane that has decoded has an address and a decision.
THEOREM TypeCorrect == Spec => []TypeOK
<1>1. Types => TypeOK
  <2> SUFFICES ASSUME Types PROVE TypeOK
    OBVIOUS
  <2>1. ASSUME NEW l \in Lane
        PROVE  /\ hand[l].at \in {"idle", "lookup", "add", "done"}
               /\ Demodulated(l) =>
                     hand[l].address \in Address /\ hand[l].accepted \in BOOLEAN
    <3>1. hand[l] \in Hands
      BY DEF Types
    <3> QED
      BY <3>1 DEF Hands, Idle, Demodulated
  <2> QED
    BY <2>1 DEF Types, TypeOK
<1> QED
  BY <1>1, TypesInvariant, PTL

-----------------------------------------------------------------------------
(* The table and the file.                                                 *)

LEMMA StepStoreIsOfTable == StoreIsOfTable /\ [Next]_vars => StoreIsOfTable'
<1> SUFFICES ASSUME StoreIsOfTable, [Next]_vars PROVE StoreIsOfTable'
  OBVIOUS
<1> USE DEF StoreIsOfTable
<1>1. CASE Load
  BY <1>1 DEF Load
<1>2. ASSUME NEW l \in Lane, NEW f, NEW e, Demodulate(l, f, e) PROVE StoreIsOfTable'
  BY <1>2 DEF Demodulate, storeVars
<1>3. ASSUME NEW l \in Lane, Lookup(l) \/ Deliver(l) PROVE StoreIsOfTable'
  BY <1>3 DEF Lookup, Deliver, storeVars
<1>4. ASSUME NEW l \in Lane, AddAircraft(l) PROVE StoreIsOfTable'
  BY <1>4 DEF AddAircraft, storeVars
<1>5. CASE BeginStore
  BY <1>5 DEF BeginStore
<1>6. CASE StoreRow
  BY <1>6 DEF StoreRow
<1>7. CASE Commit \/ Abort
  BY <1>7 DEF Commit, Abort, End
<1>8. CASE UNCHANGED vars
  BY <1>8 DEF vars, storeVars
<1> QED
  BY <1>1, <1>2, <1>3, <1>4, <1>5, <1>6, <1>7, <1>8 DEF Next

\* As long as no two insertions have met in the table, the running program knows every
\* address of the file, and while it stores its table, with a transaction or without, it
\* puts nothing there that the table does not have (modes.cpp, the constructor,
\* add_aircraft and store): what is aborted then loses nothing old.
THEOREM FileKnown == Spec => []FileIsKnown
<1>1. Init => StoreIsOfTable
  BY DEF Init, StoreIsOfTable
<1>2. StoreIsOfTable /\ [Next]_vars => StoreIsOfTable'
  BY StepStoreIsOfTable
<1>3. StoreIsOfTable => FileIsKnown
  BY DEF StoreIsOfTable, FileIsKnown
<1> QED
  BY <1>1, <1>2, <1>3, PTL DEF Spec

-----------------------------------------------------------------------------
(* What is learnt and what is accepted.                                    *)

LEMMA StepAllIsReal ==
  ASSUME ClearIsReal, Types, AllIsReal, [Next]_vars
  PROVE  AllIsReal'
<1> USE DEF AllIsReal
<1>1. CASE Load
  BY <1>1 DEF Load, storeVars
<1>2. ASSUME NEW l \in Lane, NEW f, NEW e, Demodulate(l, f, e) PROVE AllIsReal'
  <2>1. \A k \in Lane : hand'[k] = IF k = l THEN [at |-> "lookup", frame |-> f, errors |-> e]
                                            ELSE hand[k]
    BY <1>2 DEF Demodulate, Types
  <2>2. \A k \in Lane : hand'[k].at = "add" => hand'[k].address \in Aircraft
    BY <2>1
  <2> QED
    BY <1>2, <2>2 DEF Demodulate, storeVars
<1>3. ASSUME NEW l \in Lane, Lookup(l) PROVE AllIsReal'
  <2> DEFINE f == hand[l].frame
  <2> DEFINE e == hand[l].errors
  <2>1. f \in Frames /\ e \in ErrorsOf(f)
    BY <1>3, LookupEffect
  <2>2. PICK found \in BOOLEAN :
           /\ found => ~Decoded[f][e].clear
                       /\ Decoded[f][e].address \in addresses \ {NoAddress}
           /\ hand' = [hand EXCEPT ![l] =
                  [at |-> IF found \/ (Decoded[f][e].clear /\ Decoded[f][e].ok)
                          THEN "add" ELSE "done",
                   frame |-> f, errors |-> e,
                   address |-> Decoded[f][e].address,
                   accepted |-> Decoded[f][e].ok \/ found]]
    BY <1>3, LookupEffect
  <2>3. found \/ (Decoded[f][e].clear /\ Decoded[f][e].ok) => Decoded[f][e].address \in Aircraft
    BY <2>1, <2>2 DEF ClearIsReal
  <2>4. /\ hand'[l].address = Decoded[f][e].address
        /\ hand'[l].at = "add" => found \/ (Decoded[f][e].clear /\ Decoded[f][e].ok)
        /\ \A k \in Lane \ {l} : hand'[k] = hand[k]
    BY <2>2 DEF Types
  <2>5. \A k \in Lane : hand'[k].at = "add" => hand'[k].address \in Aircraft
    BY <2>3, <2>4
  <2> QED
    BY <1>3, <2>5 DEF Lookup, storeVars
<1>4. ASSUME NEW l \in Lane, AddAircraft(l) PROVE AllIsReal'
  <2>1. /\ hand' = [hand EXCEPT ![l].at = "done"]
        /\ hand[l].at = "add" /\ hand[l] \in Hands
    BY <1>4 DEF AddAircraft, Types
  <2>2. hand'[l].at = "done" /\ \A k \in Lane \ {l} : hand'[k] = hand[k]
    BY <2>1 DEF Types, Hands, Idle
  <2>3. \A k \in Lane : hand'[k].at = "add" => hand'[k].address \in Aircraft
    BY <2>2
  <2> QED
    BY <1>4, <2>3 DEF AddAircraft, storeVars
<1>5. ASSUME NEW l \in Lane, Deliver(l) PROVE AllIsReal'
  <2>1. hand'[l] = Idle /\ \A k \in Lane \ {l} : hand'[k] = hand[k]
    BY <1>5 DEF Deliver, Types
  <2>2. \A k \in Lane : hand'[k].at = "add" => hand'[k].address \in Aircraft
    BY <2>1 DEF Idle
  <2> QED
    BY <1>5, <2>2 DEF Deliver, storeVars
<1>6. CASE BeginStore
  BY <1>6 DEF BeginStore
<1>7. CASE StoreRow
  BY <1>7 DEF StoreRow
<1>8. CASE Commit \/ Abort
  <2>1. \A k \in Lane : hand'[k].at = "idle"
    BY <1>8 DEF Commit, Abort, End, Idle
  <2> QED
    BY <1>8, <2>1 DEF Commit, Abort, End
<1>9. CASE UNCHANGED vars
  BY <1>9 DEF vars, storeVars
<1> QED
  BY <1>1, <1>2, <1>3, <1>4, <1>5, <1>6, <1>7, <1>8, <1>9 DEF Next

\* If what a single message in clear teaches is an aircraft's address, so is all that the
\* table and its file ever hold, although lanes look up and insert without a lock
\* (ssrx.hpp:146-158), any of them with a damaged message in hand, and a message with a
\* hidden address is believed on the table's word, torn or not.
THEOREM Learnt == ASSUME ClearIsReal PROVE Spec => []LearntIsReal
<1>1. Init => AllIsReal
  BY DEF Init, AllIsReal, Idle
<1>2. Types /\ AllIsReal /\ [Next]_vars => AllIsReal'
  BY StepAllIsReal
<1>3. AllIsReal => LearntIsReal
  BY DEF AllIsReal, LearntIsReal
<1> QED
  BY <1>1, <1>2, <1>3, TypesInvariant, PTL DEF Spec

LEMMA StepAccepted ==
  ASSUME DecodingIsRight, Types, AllIsReal, AcceptedAsSent, [Next]_vars
  PROVE  AcceptedAsSent'
<1> DEFINE Right(h) ==
      h.at \in {"add", "done"} /\ h.accepted => Decoded[h.frame][h.errors].msg = Sent[h.frame]
<1>1. \A k \in Lane : Right(hand[k])
  BY DEF AcceptedAsSent, Demodulated
<1>2. ASSUME NEW l \in Lane, NEW h, hand' = [hand EXCEPT ![l] = h], Right(h)
      PROVE  AcceptedAsSent'
  <2> HIDE DEF Right
  <2>1. \A k \in Lane : hand'[k] = IF k = l THEN h ELSE hand[k]
    BY <1>2 DEF Types
  <2>2. \A k \in Lane : Right(hand'[k])
    BY <1>1, <1>2, <2>1
  <2> QED
    BY <2>2 DEF AcceptedAsSent, Demodulated, Right
<1>3. ASSUME NEW l \in Lane, NEW f, NEW e, Demodulate(l, f, e) PROVE AcceptedAsSent'
  <2>1. hand' = [hand EXCEPT ![l] = [at |-> "lookup", frame |-> f, errors |-> e]]
    BY <1>3 DEF Demodulate
  <2>2. Right([at |-> "lookup", frame |-> f, errors |-> e])
    OBVIOUS
  <2> QED
    BY <1>2, <2>1, <2>2
<1>4. ASSUME NEW l \in Lane, Lookup(l) PROVE AcceptedAsSent'
  <2> DEFINE f == hand[l].frame
  <2> DEFINE e == hand[l].errors
  <2>1. f \in Frames /\ e \in ErrorsOf(f)
    BY <1>4, LookupEffect
  <2>2. PICK found \in BOOLEAN :
           /\ found => ~Decoded[f][e].clear
                       /\ Decoded[f][e].address \in addresses \ {NoAddress}
           /\ hand' = [hand EXCEPT ![l] =
                  [at |-> IF found \/ (Decoded[f][e].clear /\ Decoded[f][e].ok)
                          THEN "add" ELSE "done",
                   frame |-> f, errors |-> e,
                   address |-> Decoded[f][e].address,
                   accepted |-> Decoded[f][e].ok \/ found]]
    BY <1>4, LookupEffect
  <2>3. Decoded[f][e].ok \/ found => Decoded[f][e].msg = Sent[f]
    <3>1. found => ~Decoded[f][e].clear
                   /\ Decoded[f][e].address \in Aircraft \ {NoAddress}
      BY <2>2 DEF AllIsReal
    <3> HIDE DEF f, e
    <3> QED
      BY <2>1, <3>1 DEF DecodingIsRight
  <2> DEFINE h == [at |-> IF found \/ (Decoded[f][e].clear /\ Decoded[f][e].ok)
                          THEN "add" ELSE "done",
                   frame |-> f, errors |-> e,
                   address |-> Decoded[f][e].address,
                   accepted |-> Decoded[f][e].ok \/ found]
  <2>4. Right(h)
    BY <2>3
  <2>5. hand' = [hand EXCEPT ![l] = h]
    BY <2>2
  <2> HIDE DEF h, Right
  <2> QED
    BY <1>2, <2>4, <2>5
<1>5. ASSUME NEW l \in Lane, AddAircraft(l) PROVE AcceptedAsSent'
  <2>1. hand[l] \in Hands /\ hand[l].at = "add" /\ hand' = [hand EXCEPT ![l].at = "done"]
    BY <1>5 DEF AddAircraft, Types
  <2> DEFINE h == [hand[l] EXCEPT !.at = "done"]
  <2>2. /\ h.frame = hand[l].frame /\ h.errors = hand[l].errors
        /\ h.accepted = hand[l].accepted
    BY <2>1 DEF Hands, Idle
  <2>3. Right(hand[l])
    BY <1>1
  <2>4. hand' = [hand EXCEPT ![l] = h]
    BY <2>1
  <2> HIDE DEF h
  <2>5. Right(h)
    BY <2>1, <2>2, <2>3
  <2> QED
    BY <1>2, <2>4, <2>5
<1>6. ASSUME NEW l \in Lane, Deliver(l) PROVE AcceptedAsSent'
  <2>1. hand' = [hand EXCEPT ![l] = Idle] /\ Right(Idle)
    BY <1>6 DEF Deliver, Idle
  <2> QED
    BY <1>2, <2>1
<1>7. CASE Commit \/ Abort
  BY <1>7 DEF Commit, Abort, End, AcceptedAsSent, Demodulated, Idle
<1>8. ASSUME hand' = hand PROVE AcceptedAsSent'
  BY <1>8 DEF AcceptedAsSent, Demodulated
<1>9. CASE Load \/ BeginStore \/ StoreRow \/ UNCHANGED vars
  BY <1>8, <1>9 DEF Load, BeginStore, StoreRow, vars
<1> QED
  BY <1>3, <1>4, <1>5, <1>6, <1>7, <1>9 DEF Next

\* If the decoding of a single message is right, then whatever the lanes read from the
\* table they share, no message is accepted that is not, after repair, the one that was
\* sent (algo.cpp, demodulate): an address looked up there vouches for the right one.
THEOREM Accepted == ASSUME ClearIsReal, DecodingIsRight PROVE Spec => []AcceptedAsSent
<1>1. Init => AllIsReal /\ AcceptedAsSent
  BY DEF Init, AllIsReal, AcceptedAsSent, Demodulated, Idle
<1>2. Types /\ AllIsReal /\ AcceptedAsSent /\ [Next]_vars => AllIsReal' /\ AcceptedAsSent'
  BY StepAllIsReal, StepAccepted
<1> QED
  BY <1>1, <1>2, TypesInvariant, PTL DEF Spec

\* What few errors leave is decoded right.
LEMMA FewErrorsAreRight ==
  ASSUME FewErrors
  PROVE  ClearIsReal /\ (AddressesApart => DecodingIsRight)
<1>1. ClearIsReal
  <2> SUFFICES ASSUME NEW f \in Frames, NEW e \in ErrorsOf(f),
                      Decoded[f][e].clear, Decoded[f][e].ok
               PROVE  Decoded[f][e].address \in Aircraft
    BY DEF ClearIsReal
  <2>1. Decoded[f][e] = Decode(SymDiff(Sent[f], e))
    BY DEF Decoded
  <2>2. Decoded[f][e].address = f.address
    BY <2>1, FewErrorsDecode
  <2> QED
    BY <2>2 DEF Aircraft
<1>2. ASSUME AddressesApart PROVE DecodingIsRight
  <2> SUFFICES ASSUME NEW f \in Frames, NEW e \in ErrorsOf(f),
                      \/ Decoded[f][e].ok
                      \/ ~Decoded[f][e].clear /\ Decoded[f][e].address \in Aircraft \ {NoAddress}
               PROVE  Decoded[f][e].msg = Sent[f]
    BY DEF DecodingIsRight
  <2> DEFINE d == Decode(SymDiff(Sent[f], e))
  <2> DEFINE s == Syndrome(e, Bits(f))
  <2>1. Decoded[f][e] = d
    BY DEF Decoded
  <2>2. CASE d.clear
    BY <2>1, <2>2, FewErrorsDecode
  <2>3. CASE ~d.clear
    <3>1. /\ d.ok <=> SymDiff(IF f.df \in AddressParity THEN f.address ELSE {}, s) = {}
          /\ d.address # NoAddress => f.df \in AddressParity /\ d.address = SymDiff(f.address, s)
          /\ e = {} => d.msg = Sent[f]
      BY <2>3, FewErrorsDecode
    <3>2. ASSUME e # {} PROVE FALSE
      <4>1. e \in Errors /\ e \subseteq 0 .. Bits(f) - 1
        BY DEF ErrorsOf
      <4>2. e \in FewBits
        BY <3>2, <4>1, Zenon DEF FewErrors
      <4>3. Bits(f) \in {56, 112}
        BY LengthIs DEF Bits
      <4>4. s # {}
        BY <4>1, <4>2, <4>3, SyndromeOfFew DEF HasOnes
      <4>5. f.address \in Aircraft
        BY DEF Aircraft
      <4>6. \A c \in Aircraft \cup {NoAddress} : SymDiff(f.address, c) # s
        <5> TAKE c \in Aircraft \cup {NoAddress}
        <5> DEFINE Others == Aircraft \cup {NoAddress}
        <5>1. \A a \in Aircraft : \A k \in Others :
                 \A w \in FewBits : \A bits \in {56, 112} : ~Turns(a, k, w, bits)
          BY <1>2 DEF AddressesApart
        <5>2. c \in Others
          OBVIOUS
        <5> HIDE DEF Others, d, s
        <5>3. ~Turns(f.address, c, e, Bits(f))
          <6>1. \A k \in Others : \A w \in FewBits : \A bits \in {56, 112} : ~Turns(f.address, k, w, bits)
            BY <4>5, <5>1
          <6>2. \A w \in FewBits : \A bits \in {56, 112} : ~Turns(f.address, c, w, bits)
            BY <5>2, <6>1
          <6>3. \A bits \in {56, 112} : ~Turns(f.address, c, e, bits)
            BY <4>2, <6>2
          <6> QED
            BY <4>3, <6>3
        <5> QED
          BY <4>1, <5>3, Zenon DEF Turns, s
      <4> HIDE DEF d, s
      <4>7. ~d.ok
        <5> SUFFICES ASSUME d.ok PROVE FALSE
          OBVIOUS
        <5>1. SymDiff(IF f.df \in AddressParity THEN f.address ELSE {}, s) = {}
          BY <3>1
        <5>2. CASE f.df \in AddressParity
          <6>1. SymDiff(f.address, s) = {}
            BY <5>1, <5>2
          <6>2. f.address = s /\ SymDiff(f.address, {}) = f.address
            BY <6>1, SymDiffs
          <6> QED
            BY <4>6, <6>2 DEF NoAddress
        <5>3. CASE f.df \notin AddressParity
          <6>1. SymDiff({}, s) = {} /\ SymDiff({}, s) = s
            BY <5>1, <5>3, SymDiffs
          <6> QED
            BY <4>4, <6>1
        <5> QED
          BY <5>2, <5>3
      <4>8. d.address = NoAddress \/ d.address \notin Aircraft
        <5> SUFFICES ASSUME d.address # NoAddress, d.address \in Aircraft PROVE FALSE
          OBVIOUS
        <5>1. d.address = SymDiff(f.address, s)
          BY <3>1
        <5>2. SymDiff(f.address, d.address) = s
          BY <5>1 DEF SymDiff
        <5> QED
          BY <4>6, <5>2
      <4> QED
        BY <2>1, <4>7, <4>8
    <3> QED
      BY <2>1, <3>1, <3>2
  <2> QED
    BY <2>2, <2>3
<1> QED
  BY <1>1, <1>2

\* With at most two wrong bits behind the type (modes.cpp, fixSingleBitErrors), only the
\* addresses of aircraft get into the table and the file, whatever the messages.
THEOREM LearntDespiteErrors == ASSUME FewErrors PROVE Spec => []LearntIsReal
BY Learnt, FewErrorsAreRight

\* With at most two wrong bits behind the type, and addresses that are not as near each
\* other, what is accepted is what was sent: a repair is right or refused.
THEOREM AcceptedDespiteErrors ==
  ASSUME FewErrors, AddressesApart PROVE Spec => []AcceptedAsSent
BY Accepted, FewErrorsAreRight

-----------------------------------------------------------------------------
(* What passes is accepted.                                                *)

\* A lane has accepted what passes the test of its checksum.
PassedIsAccepted ==
    \A l \in Lane : Demodulated(l) =>
        hand[l].accepted \/ ~Decoded[hand[l].frame][hand[l].errors].ok

\* Every step keeps that so.
LEMMA StepPassed ==
  ASSUME Types, PassedIsAccepted, [Next]_vars
  PROVE  PassedIsAccepted'
<1> DEFINE Right(h) ==
      h.at \in {"add", "done"} => h.accepted \/ ~Decoded[h.frame][h.errors].ok
<1>1. \A k \in Lane : Right(hand[k])
  BY DEF PassedIsAccepted, Demodulated
<1>2. ASSUME NEW l \in Lane, NEW h, hand' = [hand EXCEPT ![l] = h], Right(h)
      PROVE  PassedIsAccepted'
  <2> HIDE DEF Right
  <2>1. \A k \in Lane : hand'[k] = IF k = l THEN h ELSE hand[k]
    BY <1>2 DEF Types
  <2>2. \A k \in Lane : Right(hand'[k])
    BY <1>1, <1>2, <2>1
  <2> QED
    BY <2>2 DEF PassedIsAccepted, Demodulated, Right
<1>3. ASSUME NEW l \in Lane, NEW f, NEW e, Demodulate(l, f, e) PROVE PassedIsAccepted'
  <2>1. hand' = [hand EXCEPT ![l] = [at |-> "lookup", frame |-> f, errors |-> e]]
    BY <1>3 DEF Demodulate
  <2>2. Right([at |-> "lookup", frame |-> f, errors |-> e])
    OBVIOUS
  <2> QED
    BY <1>2, <2>1, <2>2
<1>4. ASSUME NEW l \in Lane, Lookup(l) PROVE PassedIsAccepted'
  <2> DEFINE f == hand[l].frame
  <2> DEFINE e == hand[l].errors
  <2> DEFINE h(found) ==
        [at |-> IF found \/ (Decoded[f][e].clear /\ Decoded[f][e].ok) THEN "add" ELSE "done",
         frame |-> f, errors |-> e,
         address |-> Decoded[f][e].address, accepted |-> Decoded[f][e].ok \/ found]
  <2>1. PICK found \in BOOLEAN : hand' = [hand EXCEPT ![l] = h(found)]
    BY <1>4, LookupEffect
  <2>2. Right(h(found))
    OBVIOUS
  <2> HIDE DEF h, Right
  <2> QED
    BY <1>2, <2>1, <2>2
<1>5. ASSUME NEW l \in Lane, AddAircraft(l) PROVE PassedIsAccepted'
  <2>1. hand[l] \in Hands /\ hand[l].at = "add" /\ hand' = [hand EXCEPT ![l].at = "done"]
    BY <1>5 DEF AddAircraft, Types
  <2> DEFINE h == [hand[l] EXCEPT !.at = "done"]
  <2>2. /\ h.frame = hand[l].frame /\ h.errors = hand[l].errors
        /\ h.accepted = hand[l].accepted
    BY <2>1 DEF Hands, Idle
  <2>3. Right(hand[l])
    BY <1>1
  <2>4. hand' = [hand EXCEPT ![l] = h]
    BY <2>1
  <2> HIDE DEF h
  <2>5. Right(h)
    BY <2>1, <2>2, <2>3
  <2> QED
    BY <1>2, <2>4, <2>5
<1>6. ASSUME NEW l \in Lane, Deliver(l) PROVE PassedIsAccepted'
  <2>1. hand' = [hand EXCEPT ![l] = Idle] /\ Right(Idle)
    BY <1>6 DEF Deliver, Idle
  <2> QED
    BY <1>2, <2>1
<1>7. CASE Commit \/ Abort
  BY <1>7 DEF Commit, Abort, End, PassedIsAccepted, Demodulated, Idle
<1>8. ASSUME hand' = hand PROVE PassedIsAccepted'
  BY <1>8 DEF PassedIsAccepted, Demodulated
<1>9. CASE Load \/ BeginStore \/ StoreRow \/ UNCHANGED vars
  BY <1>8, <1>9 DEF Load, BeginStore, StoreRow, vars
<1> QED
  BY <1>3, <1>4, <1>5, <1>6, <1>7, <1>9 DEF Next

\* One wrong bit in the data of a message with its address in clear never costs the message
\* (modes.cpp, fixSingleBitErrors; algo.cpp, demodulate): whatever the message and
\* wherever the bit, it is found by the table, put right, and the message accepted.
THEOREM DataErrorsFixed == Spec => []DataErrorsAreFixed
<1>1. Init => PassedIsAccepted
  BY DEF Init, PassedIsAccepted, Demodulated, Idle
<1>2. Types /\ PassedIsAccepted /\ [Next]_vars => PassedIsAccepted'
  BY StepPassed
<1>3. Types /\ PassedIsAccepted => DataErrorsAreFixed
  <2> SUFFICES ASSUME Types, PassedIsAccepted, NEW l \in Lane, Demodulated(l),
                      hand[l].frame.df \in AddressInClear,
                      NEW j \in 5 .. Bits(hand[l].frame) - 25, hand[l].errors = {j}
               PROVE  hand[l].accepted
    BY DEF DataErrorsAreFixed
  <2> DEFINE f == hand[l].frame
  <2> DEFINE e == hand[l].errors
  <2>1. hand[l] # Idle /\ hand[l] \in Hands
    BY DEF Demodulated, Types, Idle
  <2>2. f \in Frames /\ e \in ErrorsOf(f)
    BY <2>1 DEF Hands, Types
  <2>3. Decoded[f][e] = Decode(SymDiff(Sent[f], {j}))
    BY <2>2 DEF Decoded
  <2>4. Decoded[f][e].ok
    BY <2>2, <2>3, DataErrorPasses
  <2> QED
    BY <2>4 DEF PassedIsAccepted
<1> QED
  BY <1>1, <1>2, <1>3, TypesInvariant, PTL DEF Spec
=============================================================================
