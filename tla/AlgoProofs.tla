------------------------------ MODULE AlgoProofs ------------------------------
(***************************************************************************)
(* Proofs about Algo for every rate of sampling, every length of a         *)
(* message and every message: that the strongest detections are kept, that *)
(* a detection which is off by less than half a half bit yields the bits   *)
(* that were sent, and that a message is reported once, from where it      *)
(* begins.  They rest on what loops add up; those proofs are by induction  *)
(* over the counters, with SetInduction of ArithmeticProofs.               *)
(***************************************************************************)
EXTENDS Algo, TLAPS, FiniteSetTheorems, SequenceTheorems, ArithmeticProofs

-----------------------------------------------------------------------------
(* Loops.                                                                  *)

\* The loop that adds up, as a function of its counter.
Adds(u, f, begin, end) ==
  /\ u[begin] = 0
  /\ \A n \in begin + 1 .. end : u[n] = u[n - 1] + f[n - 1]

LEMMA SumRuns ==
  ASSUME NEW f, NEW begin \in Int, NEW end \in Int, begin <= end,
         \A n \in begin .. end - 1 : f[n] \in Int
  PROVE  \E u \in [begin .. end -> Int] :
            Adds(u, f, begin, end) /\ Sum(f, begin, end) = u[end]
<1> DEFINE Runs(k) == \E u \in [begin .. begin + k -> Int] : Adds(u, f, begin, begin + k)
<1> DEFINE S == {k \in Nat : begin + k <= end => Runs(k)}
<1>1. 0 \in S
  <2> DEFINE u == [n \in begin .. begin |-> 0]
  <2>1. u \in [begin .. begin + 0 -> Int] /\ Adds(u, f, begin, begin + 0)
    BY DEF Adds
  <2> HIDE DEF u
  <2> QED
    BY <2>1
<1>2. ASSUME NEW k \in Nat, k \in S PROVE k + 1 \in S
  <2> SUFFICES ASSUME begin + (k + 1) <= end PROVE Runs(k + 1)
    OBVIOUS
  <2>1. PICK u \in [begin .. begin + k -> Int] : Adds(u, f, begin, begin + k)
    BY <1>2
  <2> DEFINE v == [n \in begin .. begin + (k + 1) |->
                      IF n = begin + (k + 1) THEN u[begin + k] + f[begin + k] ELSE u[n]]
  <2>2. f[begin + k] \in Int /\ u[begin + k] \in Int
    OBVIOUS
  <2>3. v \in [begin .. begin + (k + 1) -> Int]
    BY <2>2
  <2>4. v[begin] = 0
    BY <2>1 DEF Adds
  <2>5. ASSUME NEW n \in begin + 1 .. begin + (k + 1) PROVE v[n] = v[n - 1] + f[n - 1]
    <3>1. CASE n = begin + (k + 1)
      BY <3>1
    <3>2. CASE n # begin + (k + 1)
      <4>1. n \in begin + 1 .. begin + k /\ n - 1 \in begin .. begin + k
        BY <3>2
      <4>2. u[n] = u[n - 1] + f[n - 1]
        BY <2>1, <4>1 DEF Adds
      <4> QED
        BY <3>2, <4>1, <4>2
    <3> QED
      BY <3>1, <3>2
  <2> HIDE DEF v
  <2>6. Adds(v, f, begin, begin + (k + 1))
    BY <2>4, <2>5 DEF Adds
  <2> QED
    BY <2>3, <2>6
<1>3. PICK u \in [begin .. end -> Int] : Adds(u, f, begin, end)
  <2>1. Nat \subseteq S
    <3> HIDE DEF S
    <3> QED
      BY <1>1, <1>2, SetInduction
  <2> DEFINE k == end - begin
  <2>2. k \in Nat /\ begin + k = end
    OBVIOUS
  <2> HIDE DEF k
  <2>3. k \in S
    BY <2>1, <2>2
  <2> QED
    BY <2>2, <2>3
<1> DEFINE Upto(g) == [n \in begin .. end |-> IF n = begin THEN 0 ELSE g[n - 1] + f[n - 1]]
<1>4. u = Upto(u)
  <2>1. ASSUME NEW n \in begin .. end PROVE u[n] = IF n = begin THEN 0 ELSE u[n - 1] + f[n - 1]
    <3>1. n = begin \/ n \in begin + 1 .. end
      OBVIOUS
    <3> QED
      BY <1>3, <3>1 DEF Adds
  <2> QED
    BY <2>1
<1> DEFINE w == CHOOSE g : g = Upto(g)
<1>5. w = Upto(w)
  <2> HIDE DEF Upto
  <2> QED
    BY <1>4
<1>6. Sum(f, begin, end) = w[end]
  BY DEF Sum
<1> HIDE DEF w
<1>7. /\ w[begin] = 0
      /\ \A n \in begin + 1 .. end : w[n] = w[n - 1] + f[n - 1]
  <2>1. \A n \in begin .. end : w[n] = IF n = begin THEN 0 ELSE w[n - 1] + f[n - 1]
    BY <1>5
  <2> QED
    BY <2>1
<1> DEFINE E == {k \in Nat : begin + k <= end => w[begin + k] = u[begin + k]}
<1>8. 0 \in E
  BY <1>3, <1>7 DEF Adds
<1>9. ASSUME NEW k \in Nat, k \in E PROVE k + 1 \in E
  <2> SUFFICES ASSUME begin + (k + 1) <= end PROVE w[begin + (k + 1)] = u[begin + (k + 1)]
    OBVIOUS
  <2>1. w[begin + k] = u[begin + k]
    BY <1>9
  <2> DEFINE n == begin + (k + 1)
  <2>2. n \in begin + 1 .. end /\ n - 1 = begin + k
    OBVIOUS
  <2> HIDE DEF n
  <2>3. w[n] = w[n - 1] + f[n - 1] /\ u[n] = u[n - 1] + f[n - 1]
    BY <1>3, <1>7, <2>2 DEF Adds
  <2>4. w[n] = u[n]
    BY <2>1, <2>2, <2>3
  <2> QED
    BY <2>4 DEF n
<1>10. w[end] = u[end]
  <2>1. Nat \subseteq E
    <3> HIDE DEF E
    <3> QED
      BY <1>8, <1>9, SetInduction
  <2> DEFINE k == end - begin
  <2>2. k \in Nat /\ begin + k = end
    OBVIOUS
  <2> HIDE DEF k
  <2>3. k \in E
    BY <2>1, <2>2
  <2> QED
    BY <2>2, <2>3
<1> QED
  BY <1>3, <1>6, <1>10

\* A sum of samples that are 0 or 1, and of which some in a row are known.
LEMMA SumBounds ==
  ASSUME NEW f, NEW begin \in Int, NEW lower \in Int, NEW upper \in Int, NEW end \in Int,
         begin <= lower, lower <= upper, upper <= end,
         \A n \in begin .. end - 1 : f[n] \in {0, 1}
  PROVE  /\ Sum(f, begin, end) \in Nat
         /\ (\A n \in lower .. upper - 1 : f[n] = 1) => Sum(f, begin, end) >= upper - lower
         /\ (\A n \in lower .. upper - 1 : f[n] = 0) =>
               Sum(f, begin, end) <= (end - begin) - (upper - lower)
<1> DEFINE Ones == \A n \in lower .. upper - 1 : f[n] = 1
<1> DEFINE Zeros == \A n \in lower .. upper - 1 : f[n] = 0
<1> DEFINE AtLeast(n) == IF n <= lower THEN 0 ELSE IF n <= upper THEN n - lower ELSE upper - lower
<1> DEFINE AtMost(n) == IF n <= lower THEN n - begin ELSE IF n <= upper THEN lower - begin
                        ELSE (n - begin) - (upper - lower)
<1>1. PICK u \in [begin .. end -> Int] : Adds(u, f, begin, end) /\ Sum(f, begin, end) = u[end]
  BY SumRuns
<1> DEFINE Bounds(n) == /\ u[n] \in Nat
                        /\ Ones => u[n] >= AtLeast(n)
                        /\ Zeros => u[n] <= AtMost(n)
<1> DEFINE S == {k \in Nat : begin + k <= end => Bounds(begin + k)}
<1>2. 0 \in S
  BY <1>1 DEF Adds
<1>3. ASSUME NEW k \in Nat, k \in S PROVE k + 1 \in S
  <2> DEFINE n == begin + k
  <2> SUFFICES ASSUME n + 1 <= end PROVE Bounds(n + 1)
    OBVIOUS
  <2>1. n \in begin .. end - 1 /\ n + 1 \in begin + 1 .. end /\ n + 1 - 1 = n
    OBVIOUS
  <2>2. Bounds(n)
    BY <1>3, <2>1
  <2>3. u[n + 1] = u[n] + f[n]
    BY <1>1, <2>1 DEF Adds
  <2>4. f[n] \in {0, 1}
    BY <2>1
  <2>5. lower <= n /\ n < upper => (Ones => f[n] = 1) /\ (Zeros => f[n] = 0)
    BY <2>1
  <2> HIDE DEF n, Ones, Zeros
  <2>6. u[n + 1] \in Nat
    BY <2>2, <2>3, <2>4
  <2>7. Ones => u[n + 1] >= AtLeast(n + 1)
    BY <2>1, <2>2, <2>3, <2>4, <2>5
  <2>8. Zeros => u[n + 1] <= AtMost(n + 1)
    BY <2>1, <2>2, <2>3, <2>4, <2>5
  <2> QED
    BY <2>6, <2>7, <2>8
<1>4. Bounds(end)
  <2>1. Nat \subseteq S
    <3> HIDE DEF S
    <3> QED
      BY <1>2, <1>3, SetInduction
  <2> DEFINE k == end - begin
  <2>2. k \in Nat /\ begin + k = end
    OBVIOUS
  <2> HIDE DEF k
  <2>3. k \in S
    BY <2>1, <2>2
  <2> HIDE DEF Bounds
  <2> QED
    BY <2>2, <2>3
<1> QED
  BY <1>1, <1>4

-----------------------------------------------------------------------------
(* The inductive invariant.                                                *)

\* What may be on the air.
Heard == [bits : AllBits, start : Starts, behind : {0, 1}]

\* Detections as detect_preamble has them: so many of them, at different samples.
IsFound(set) ==
  /\ IsFiniteSet(set) /\ set \subseteq [index : Nat, high : Nat]
  /\ \A c, d \in set : c.index = d.index => c = d

SearchTypes ==
  /\ at \in {"off", "find", "filter", "demodulate"}
  /\ message \in {Silence} \cup Heard
  /\ block \in Nat
  /\ array \in AllBits

\* The search is for a message, and what it has found can be thinned.
SearchInHand ==
  /\ at = "find" => message \in Heard
  /\ at = "filter" => IsFound(found)

-----------------------------------------------------------------------------
(* The bits of a message.                                                  *)

LEMMA Sizes ==
  /\ NCoh \in Nat /\ NCoh >= 2
  /\ Preamble \in Nat /\ LongData \in Nat /\ FftSize \in Nat
  /\ Preamble = 16 * NCoh
  /\ NzerosHead = Preamble - 1
  /\ NBits \in Nat /\ LongData = 2 * NBits * NCoh
  /\ Preamble + LongData = (16 + 2 * NBits) * NCoh
  /\ Window \in Nat \ {0}
  /\ FftSize = Window + NzerosHead + Preamble + LongData
<1>1. /\ NCoh \in Nat /\ NCoh >= 2
      /\ Preamble \in Nat /\ LongData \in Nat /\ FftSize \in Nat
      /\ Preamble = 16 * NCoh /\ LongData % (2 * NCoh) = 0
      /\ FftSize > 2 * Preamble + LongData
  BY AlgoAssumption
<1>2. NzerosHead = Preamble - 1 /\ Window = FftSize - (Preamble + LongData) - NzerosHead
  BY DEF NzerosHead, Window
<1>3. NBits \in Nat /\ LongData = NBits * (2 * NCoh)
  <2> DEFINE b == 2 * NCoh
  <2>1. b \in Nat \ {0}
    BY <1>1
  <2> HIDE DEF b
  <2>2. NBits = LongData \div b /\ LongData % b = 0
    BY <1>1 DEF NBits, b
  <2>3. NBits \in Nat /\ LongData = NBits * b + (LongData % b)
    BY <1>1, <2>1, <2>2, Dividing
  <2>4. NBits * b \in Nat
    BY <2>1, <2>3
  <2> QED
    BY <2>2, <2>3, <2>4 DEF b
<1>4. NBits * (2 * NCoh) = 2 * NBits * NCoh /\ 16 * NCoh + 2 * NBits * NCoh = (16 + 2 * NBits) * NCoh
  BY <1>1, <1>3
<1> QED
  BY <1>1, <1>2, <1>3, <1>4

\* What the transponder sends in a half bit of a message.
LEMMA HalfBitOnAir ==
  ASSUME NEW m, m.start \in Nat, NEW half \in 0 .. 15 + 2 * NBits, NEW c \in 0 .. NCoh - 1
  PROVE  Amplitude(m, m.start + (half * NCoh + c)) = IF Pulse(m.bits, half) THEN 1 ELSE 0
<1> DEFINE p == half * NCoh + c
<1>1. NCoh \in Nat \ {0} /\ NBits \in Nat /\ Preamble + LongData = (16 + 2 * NBits) * NCoh
  BY Sizes
<1>2. half * NCoh \in Nat /\ (half + 1) * NCoh = half * NCoh + NCoh
  BY <1>1
<1>3. (half + 1) * NCoh <= (16 + 2 * NBits) * NCoh
  BY <1>1
<1>4. p \in Nat /\ p < Preamble + LongData
  BY <1>1, <1>2, <1>3
<1>5. p \div NCoh = half
  <2>1. p = half * NCoh + c /\ half \in Nat
    OBVIOUS
  <2> HIDE DEF p
  <2> QED
    BY <1>1, <1>4, <2>1, QuotientIs
<1> HIDE DEF p
<1>6. Amplitude(m, m.start + p) = IF Pulse(m.bits, half) THEN 1 ELSE 0
  <2> DEFINE s == m.start + p
  <2>1. s - m.start = p /\ ~(s < m.start) /\ ~(s >= m.start + Preamble + LongData)
    BY <1>4, Sizes
  <2> HIDE DEF s
  <2>2. Amplitude(m, s) = IF Pulse(m.bits, (s - m.start) \div NCoh) THEN 1 ELSE 0
    BY <2>1 DEF Amplitude
  <2>3. Amplitude(m, s) = IF Pulse(m.bits, half) THEN 1 ELSE 0
    BY <1>5, <2>1, <2>2, Zenon
  <2> QED
    BY <2>3 DEF s
<1> QED
  BY <1>6 DEF p

LEMMA AmplitudeIsBit ==
  ASSUME NEW m, m.behind \in {0, 1}, NEW s
  PROVE  Amplitude(m, s) \in {0, 1}
BY DEF Amplitude

\* A half bit of the message, and what is summed up for it by a detection that is off:
\* the samples it shares with the half bit outnumber the others.
LEMMA GroupSum ==
  ASSUME NEW m, m.start \in Nat, m.behind \in {0, 1},
         NEW off \in Int, 2 * off \in -NCoh + 1 .. NCoh - 1,
         NEW group \in 16 .. 15 + 2 * NBits,
         NEW raw,
         \A n \in group * NCoh + 1 .. (group + 1) * NCoh :
            raw[n] = Amplitude(m, m.start + off + n - 1)
  PROVE  LET sum == Sum(raw, group * NCoh + 1, (group + 1) * NCoh + 1)
         IN  /\ sum \in Nat
             /\ Pulse(m.bits, group) => 2 * sum > NCoh
             /\ ~Pulse(m.bits, group) => 2 * sum < NCoh
<1> DEFINE first == group * NCoh
<1> DEFINE lower == IF off >= 0 THEN first + 1 ELSE first + 1 - off
<1> DEFINE upper == IF off >= 0 THEN first + NCoh + 1 - off ELSE first + NCoh + 1
<1> DEFINE end == (group + 1) * NCoh + 1
<1>1. NCoh \in Nat /\ NCoh >= 2 /\ NBits \in Nat
  BY Sizes
<1>2. first \in Nat /\ end = first + NCoh + 1 /\ (group + 1) * NCoh = first + NCoh
  BY <1>1
<1>0. \A n \in first + 1 .. first + NCoh : raw[n] = Amplitude(m, m.start + off + n - 1)
  BY <1>2
<1> HIDE DEF first
<1>3. /\ lower \in Int /\ upper \in Int /\ end \in Int /\ first + 1 \in Int
      /\ first + 1 <= lower /\ lower <= upper /\ upper <= end
      /\ 2 * (upper - lower) > NCoh
      /\ 2 * ((end - (first + 1)) - (upper - lower)) < NCoh
  BY <1>1, <1>2
<1>4. \A n \in first + 1 .. end - 1 : raw[n] \in {0, 1}
  <2> TAKE n \in first + 1 .. end - 1
  <2>1. n \in first + 1 .. first + NCoh
    BY <1>1, <1>2
  <2> QED
    BY <1>0, <2>1, AmplitudeIsBit
<1>5. \A n \in lower .. upper - 1 : raw[n] = IF Pulse(m.bits, group) THEN 1 ELSE 0
  <2> TAKE n \in lower .. upper - 1
  <2> DEFINE c == off + n - 1 - first
  <2>1. n \in first + 1 .. first + NCoh /\ c \in 0 .. NCoh - 1
    BY <1>1, <1>2
  <2>2. m.start + off + n - 1 = m.start + (first + c)
    BY <1>2, <2>1
  <2>3. raw[n] = Amplitude(m, m.start + off + n - 1)
    BY <1>0, <2>1
  <2> HIDE DEF c
  <2>4. group \in 0 .. 15 + 2 * NBits
    BY <1>1
  <2>5. Amplitude(m, m.start + (first + c)) = IF Pulse(m.bits, group) THEN 1 ELSE 0
    BY <2>1, <2>4, HalfBitOnAir DEF first
  <2> QED
    BY <2>2, <2>3, <2>5
<1> HIDE DEF lower, upper, end
<1> DEFINE sum == Sum(raw, first + 1, end)
<1>6. /\ sum \in Nat
      /\ (\A n \in lower .. upper - 1 : raw[n] = 1) => sum >= upper - lower
      /\ (\A n \in lower .. upper - 1 : raw[n] = 0) =>
            sum <= (end - (first + 1)) - (upper - lower)
  BY <1>3, <1>4, SumBounds
<1> HIDE DEF sum
<1>7. Pulse(m.bits, group) => 2 * sum > NCoh
  <2> SUFFICES ASSUME Pulse(m.bits, group) PROVE 2 * sum > NCoh
    OBVIOUS
  <2>1. sum >= upper - lower
    BY <1>5, <1>6
  <2> QED
    BY <1>1, <1>3, <1>6, <2>1
<1>8. ~Pulse(m.bits, group) => 2 * sum < NCoh
  <2> SUFFICES ASSUME ~Pulse(m.bits, group) PROVE 2 * sum < NCoh
    OBVIOUS
  <2>1. sum <= (end - (first + 1)) - (upper - lower)
    BY <1>5, <1>6
  <2> QED
    BY <1>1, <1>2, <1>3, <1>6, <2>1
<1> QED
  BY <1>6, <1>7, <1>8 DEF sum, first, end

\* The pulse of a bit is in its first half, or else in its second.
LEMMA PulseOfBit ==
  ASSUME NEW bits \in AllBits, NEW k \in 0 .. NBits - 1
  PROVE  /\ Pulse(bits, 16 + 2 * k) <=> bits[k]
         /\ Pulse(bits, 16 + 2 * k + 1) <=> ~bits[k]
<1>1. NBits \in Nat /\ k \in Nat /\ bits[k] \in BOOLEAN
  BY Sizes DEF AllBits
<1> DEFINE even == 16 + 2 * k
<1> DEFINE odd == 16 + 2 * k + 1
<1>2. ~(even < 16) /\ (even - 16) \div 2 = k /\ even % 2 = 0
  BY <1>1
<1>3. ~(odd < 16) /\ (odd - 16) \div 2 = k /\ odd % 2 # 0
  <2>1. odd \in Nat /\ odd - 16 \in Nat /\ odd - 16 = k * 2 + 1 /\ odd = (k + 8) * 2 + 1
    BY <1>1
  <2> HIDE DEF odd
  <2>2. (odd - 16) \div 2 = k /\ odd % 2 = 1
    BY <1>1, <2>1, QuotientIs
  <2> QED
    BY <2>1, <2>2
<1> HIDE DEF even, odd
<1>4. Pulse(bits, even) <=> (bits[k] = TRUE)
  BY <1>2, Zenon DEF Pulse
<1>5. Pulse(bits, odd) <=> ~bits[k]
  <2> DEFINE first == odd % 2 = 0
  <2>1. Pulse(bits, odd) <=> (bits[k] = first)
    BY <1>3, Zenon DEF Pulse
  <2>2. first = FALSE
    BY <1>3
  <2> HIDE DEF first
  <2>3. CASE bits[k] = TRUE
    BY <2>1, <2>2, <2>3, Zenon
  <2>4. CASE bits[k] = FALSE
    BY <2>1, <2>2, <2>4, Zenon
  <2> QED
    BY <1>1, <2>3, <2>4
<1> QED
  BY <1>1, <1>4, <1>5 DEF even, odd

\* The groups of a reading that has a whole number of them.
LEMMA Groups ==
  ASSUME NEW raw, DOMAIN raw = 1 .. Preamble + LongData, Len(raw) = Preamble + LongData
  PROVE  /\ DOMAIN Integrate(raw) = 0 .. 15 + 2 * NBits
         /\ \A group \in 0 .. 15 + 2 * NBits :
               Integrate(raw)[group] =
                  Square(Sum(raw, group * NCoh + 1, (group + 1) * NCoh + 1))
<1> DEFINE groups == 16 + 2 * NBits
<1> DEFINE length == Preamble + LongData
<1>1. /\ NCoh \in Nat \ {0} /\ NCoh - 1 \in 0 .. NCoh - 1 /\ NBits \in Nat
      /\ groups \in Nat /\ length \in Nat /\ length = groups * NCoh
  BY Sizes
<1>2. (length + NCoh - 1) \div NCoh = groups
  <2> HIDE DEF groups, length
  <2>1. length + NCoh - 1 \in Nat /\ length + NCoh - 1 = groups * NCoh + (NCoh - 1)
    BY <1>1
  <2> QED
    BY <1>1, <2>1, QuotientIs
<1>3. ASSUME NEW group \in 0 .. groups - 1
      PROVE  Smallest((group + 1) * NCoh, length) = (group + 1) * NCoh
  <2> HIDE DEF groups, length
  <2>1. (group + 1) * NCoh <= groups * NCoh /\ (group + 1) * NCoh \in Nat
    BY <1>1, <1>3
  <2> QED
    BY <1>1, <2>1 DEF Smallest
<1>4. groups - 1 = 15 + 2 * NBits
  BY <1>1
<1> HIDE DEF groups, length
<1>5. Integrate(raw) =
         [g \in 0 .. groups - 1 |->
             Square(Sum(raw, g * NCoh + 1, Smallest((g + 1) * NCoh, length) + 1))]
  BY <1>2 DEF Integrate, length
<1>6. DOMAIN Integrate(raw) = 0 .. groups - 1
  BY <1>5
<1>7. \A group \in 0 .. groups - 1 :
         Integrate(raw)[group] = Square(Sum(raw, group * NCoh + 1, (group + 1) * NCoh + 1))
  BY <1>3, <1>5
<1> QED
  BY <1>4, <1>6, <1>7

\* A reading behind the padding that ends in the buffer yields the bits of the message,
\* wherever it begins.
LEMMA BitsRead ==
  ASSUME NEW m \in Heard, NEW b \in Nat, NEW left \in AllBits,
         NEW i \in Int, i >= NzerosHead,
         2 * (i - (m.start - b * Window + NzerosHead)) \in -NCoh + 1 .. NCoh - 1,
         i + Preamble + LongData <= FftSize
  PROVE  BitsAt(Buffer(m, b), i, left) = {m.bits}
<1> DEFINE raw == [n \in 1 .. Preamble + LongData |-> Buffer(m, b)[i + n - 1]]
<1> DEFINE power == Integrate(raw)
<1> DEFINE off == i - (m.start - b * Window + NzerosHead)
<1>1. /\ NCoh \in Nat /\ NCoh >= 2 /\ NBits \in Nat
      /\ m.start \in Nat /\ m.behind \in {0, 1} /\ m.bits \in AllBits
  BY Sizes, AlgoAssumption DEF Heard
<1>0. /\ off \in Int /\ 2 * off \in -NCoh + 1 .. NCoh - 1
      /\ i = m.start - b * Window + NzerosHead + off
  <2>1. b * Window \in Int
    BY Sizes
  <2> QED
    BY <1>1, <2>1, Sizes
<1> HIDE DEF off
<1>2. b * Window \in Nat /\ i \in Nat
  BY Sizes
<1>3. ASSUME NEW n \in 1 .. Preamble + LongData, n > NCoh
      PROVE  raw[n] = Amplitude(m, m.start + off + n - 1)
  <2> DEFINE index == i + n - 1
  <2>1. index \in Nat /\ index >= NzerosHead /\ index < FftSize
    BY <1>0, <1>1, <1>2, <1>3, Sizes
  <2>2. b * Window + index - NzerosHead = m.start + off + n - 1
    BY <1>0, <1>1, <1>2, <1>3, Sizes
  <2>3. raw[n] = Buffer(m, b)[index]
    OBVIOUS
  <2> HIDE DEF index, raw
  <2>4. Buffer(m, b)[index] = Amplitude(m, b * Window + index - NzerosHead)
    <3>1. index \in 0 .. FftSize - 1 /\ ~(index < NzerosHead)
      BY <2>1, Sizes
    <3> QED
      BY <3>1 DEF Buffer
  <2> QED
    BY <2>2, <2>3, <2>4
<1>4. /\ DOMAIN power = 0 .. 15 + 2 * NBits
      /\ \A group \in 0 .. 15 + 2 * NBits :
            power[group] = Square(Sum(raw, group * NCoh + 1, (group + 1) * NCoh + 1))
  <2>1. DOMAIN raw = 1 .. Preamble + LongData
    OBVIOUS
  <2>2. Len(raw) = Preamble + LongData
    BY <2>1, Sizes
  <2> HIDE DEF raw
  <2> QED
    BY <2>1, <2>2, Groups
<1>5. ASSUME NEW group \in 16 .. 15 + 2 * NBits
      PROVE  \E sum \in Nat : /\ power[group] = Square(sum)
                              /\ Pulse(m.bits, group) => 2 * sum > NCoh
                              /\ ~Pulse(m.bits, group) => 2 * sum < NCoh
  <2> DEFINE sum == Sum(raw, group * NCoh + 1, (group + 1) * NCoh + 1)
  <2>1. power[group] = Square(sum)
    <3>1. group \in 0 .. 15 + 2 * NBits
      BY <1>1
    <3> QED
      BY <1>4, <3>1, Zenon
  <2>2. \A n \in group * NCoh + 1 .. (group + 1) * NCoh :
           raw[n] = Amplitude(m, m.start + off + n - 1)
    <3>1. /\ group * NCoh \in Nat /\ group * NCoh >= 16 * NCoh
          /\ (group + 1) * NCoh \in Nat
          /\ (group + 1) * NCoh <= (16 + 2 * NBits) * NCoh
      BY <1>1
    <3>2. Preamble + LongData = (16 + 2 * NBits) * NCoh /\ Preamble + LongData \in Nat
      BY Sizes
    <3> HIDE DEF raw
    <3>3. ASSUME NEW n \in group * NCoh + 1 .. (group + 1) * NCoh
          PROVE  n \in 1 .. Preamble + LongData /\ n > NCoh
      BY <1>1, <3>1, <3>2
    <3> QED
      BY <1>3, <3>3
  <2> HIDE DEF raw, power
  <2>3. /\ sum \in Nat
        /\ Pulse(m.bits, group) => 2 * sum > NCoh
        /\ ~Pulse(m.bits, group) => 2 * sum < NCoh
    BY <1>0, <1>1, <2>2, GroupSum
  <2> QED
    BY <2>1, <2>3
<1> HIDE DEF power
<1>6. ASSUME NEW k \in 0 .. NBits - 1
      PROVE  LET j == 16 + 2 * k
             IN  j + 1 \in DOMAIN power /\ (power[j] > power[j + 1] <=> m.bits[k])
  <2> DEFINE j == 16 + 2 * k
  <2>1. j \in 16 .. 15 + 2 * NBits /\ j + 1 \in 16 .. 15 + 2 * NBits
    BY <1>1
  <2>2. j + 1 \in DOMAIN power
    BY <1>4, <2>1
  <2>3. (Pulse(m.bits, j) <=> m.bits[k]) /\ (Pulse(m.bits, j + 1) <=> ~m.bits[k])
    BY <1>1, PulseOfBit
  <2> HIDE DEF j
  <2>4. PICK s \in Nat : /\ power[j] = Square(s)
                         /\ Pulse(m.bits, j) => 2 * s > NCoh
                         /\ ~Pulse(m.bits, j) => 2 * s < NCoh
    BY <1>5, <2>1
  <2>5. PICK t \in Nat : /\ power[j + 1] = Square(t)
                         /\ Pulse(m.bits, j + 1) => 2 * t > NCoh
                         /\ ~Pulse(m.bits, j + 1) => 2 * t < NCoh
    BY <1>5, <2>1
  <2>6. s > t <=> m.bits[k]
    BY <1>1, <2>3, <2>4, <2>5
  <2>7. s * s > t * t <=> s > t
    <3>1. s > t => s * s > t * t
      OBVIOUS
    <3>2. s <= t => s * s <= t * t
      OBVIOUS
    <3> QED
      BY <3>1, <3>2
  <2> QED
    BY <2>2, <2>4, <2>5, <2>6, <2>7 DEF Square, j
<1>7. HardDemodulateBits(power, 16, left) = m.bits
  <2> DEFINE read == HardDemodulateBits(power, 16, left)
  <2>1. read = [k \in 0 .. NBits - 1 |->
                  IF 16 + 2 * k + 1 \in DOMAIN power
                  THEN power[16 + 2 * k] > power[16 + 2 * k + 1] ELSE left[k]]
    BY DEF HardDemodulateBits, AllBits
  <2> HIDE DEF read
  <2>2. ASSUME NEW k \in 0 .. NBits - 1 PROVE read[k] = m.bits[k]
    <3>1. read[k] = (power[16 + 2 * k] > power[16 + 2 * k + 1])
      BY <1>6, <2>1
    <3>2. m.bits[k] \in BOOLEAN
      BY <1>1 DEF AllBits
    <3> QED
      BY <1>6, <3>1, <3>2
  <2>3. m.bits \in [0 .. NBits - 1 -> BOOLEAN]
    BY <1>1 DEF AllBits
  <2>4. read = m.bits
    BY <2>1, <2>2, <2>3
  <2> QED
    BY <2>4 DEF read
<1>8. Preamble \div NCoh = 16
  <2>1. NCoh \in Nat \ {0} /\ Preamble \in Nat /\ Preamble = 16 * NCoh + 0 /\ 0 \in 0 .. NCoh - 1
    BY <1>1, Sizes
  <2> QED
    BY <2>1, QuotientIs
<1>9. BitsAt(Buffer(m, b), i, left) = {HardDemodulateBits(power, Preamble \div NCoh, left)}
  <2>1. ~(i + Preamble + LongData > FftSize)
    BY <1>2, Sizes
  <2> QED
    BY <2>1, Zenon DEF BitsAt, power, raw
<1> QED
  BY <1>7, <1>8, <1>9

-----------------------------------------------------------------------------
(* The thinning of what is found.                                          *)

\* What is kept of one more detection.
AddTo(kept, d) == kept \cup {c \in {d} : \A k \in kept : ~TooClose(c, k)}

\* The loop that thins, as a function of its counter.
Keeps(u, order, last) ==
  /\ u[0] = {}
  /\ \A n \in 1 .. last : u[n] = AddTo(u[n - 1], order[n])

LEMMA ThinningRuns ==
  ASSUME NEW set, NEW length \in Nat, NEW order \in [1 .. length -> set], Len(order) = length
  PROVE  \E u \in [0 .. length -> SUBSET set] :
            Keeps(u, order, length) /\ Filtered(order) = u[length]
<1> DEFINE Runs(k) == \E u \in [0 .. k -> SUBSET set] : Keeps(u, order, k)
<1> DEFINE S == {k \in Nat : k <= length => Runs(k)}
<1>1. 0 \in S
  <2> DEFINE u == [n \in 0 .. 0 |-> {}]
  <2>1. u \in [0 .. 0 -> SUBSET set] /\ Keeps(u, order, 0)
    BY DEF Keeps
  <2> HIDE DEF u
  <2> QED
    BY <2>1
<1>2. ASSUME NEW k \in Nat, k \in S PROVE k + 1 \in S
  <2> SUFFICES ASSUME k + 1 <= length PROVE Runs(k + 1)
    OBVIOUS
  <2>1. PICK u \in [0 .. k -> SUBSET set] : Keeps(u, order, k)
    BY <1>2
  <2> DEFINE v == [n \in 0 .. k + 1 |-> IF n = k + 1 THEN AddTo(u[k], order[k + 1]) ELSE u[n]]
  <2>2. u[k] \subseteq set /\ order[k + 1] \in set
    OBVIOUS
  <2>3. AddTo(u[k], order[k + 1]) \in SUBSET set
    BY <2>2 DEF AddTo
  <2>4. v \in [0 .. k + 1 -> SUBSET set]
    BY <2>3
  <2>5. v[0] = {}
    BY <2>1 DEF Keeps
  <2>6. ASSUME NEW n \in 1 .. k + 1 PROVE v[n] = AddTo(v[n - 1], order[n])
    <3>1. CASE n = k + 1
      BY <3>1
    <3>2. CASE n # k + 1
      <4>1. n \in 1 .. k /\ n - 1 \in 0 .. k
        BY <3>2
      <4>2. u[n] = AddTo(u[n - 1], order[n])
        BY <2>1, <4>1 DEF Keeps
      <4> QED
        BY <3>2, <4>1, <4>2
    <3> QED
      BY <3>1, <3>2
  <2> HIDE DEF v
  <2>7. Keeps(v, order, k + 1)
    BY <2>5, <2>6 DEF Keeps
  <2> QED
    BY <2>4, <2>7
<1>3. PICK u \in [0 .. length -> SUBSET set] : Keeps(u, order, length)
  <2>1. Nat \subseteq S
    <3> HIDE DEF S
    <3> QED
      BY <1>1, <1>2, SetInduction
  <2>2. length \in S
    BY <2>1
  <2> QED
    BY <2>2
<1> DEFINE Upto(g) == [n \in 0 .. length |-> IF n = 0 THEN {} ELSE AddTo(g[n - 1], order[n])]
<1>4. u = Upto(u)
  <2>1. ASSUME NEW n \in 0 .. length
        PROVE  u[n] = IF n = 0 THEN {} ELSE AddTo(u[n - 1], order[n])
    <3>1. n = 0 \/ n \in 1 .. length
      OBVIOUS
    <3> QED
      BY <1>3, <3>1 DEF Keeps
  <2> QED
    BY <2>1
<1> DEFINE w == CHOOSE g : g = Upto(g)
<1>5. w = Upto(w)
  <2> HIDE DEF Upto
  <2> QED
    BY <1>4
<1>6. Filtered(order) = w[length]
  BY Zenon DEF Filtered, AddTo
<1> HIDE DEF w
<1>7. w[0] = {} /\ \A n \in 1 .. length : w[n] = AddTo(w[n - 1], order[n])
  <2>1. \A n \in 0 .. length : w[n] = IF n = 0 THEN {} ELSE AddTo(w[n - 1], order[n])
    BY <1>5
  <2> QED
    BY <2>1
<1> DEFINE E == {k \in Nat : k <= length => w[k] = u[k]}
<1>8. 0 \in E
  BY <1>3, <1>7 DEF Keeps
<1>9. ASSUME NEW k \in Nat, k \in E PROVE k + 1 \in E
  <2> SUFFICES ASSUME k + 1 <= length PROVE w[k + 1] = u[k + 1]
    OBVIOUS
  <2>1. w[k] = u[k]
    BY <1>9
  <2>2. k + 1 \in 1 .. length /\ k + 1 - 1 = k
    OBVIOUS
  <2>3. w[k + 1] = AddTo(w[k], order[k + 1]) /\ u[k + 1] = AddTo(u[k], order[k + 1])
    BY <1>3, <1>7, <2>2 DEF Keeps
  <2> QED
    BY <2>1, <2>3
<1>10. w[length] = u[length]
  <2>1. Nat \subseteq E
    <3> HIDE DEF E
    <3> QED
      BY <1>8, <1>9, SetInduction
  <2>2. length \in E
    BY <2>1
  <2> QED
    BY <2>2
<1> QED
  BY <1>3, <1>6, <1>10

\* The sorted detections are all of them, the stronger before the weaker.
LEMMA Sorted ==
  ASSUME NEW set, IsFound(set), NEW order \in Orders(set)
  PROVE  /\ Cardinality(set) \in Nat
         /\ order \in [1 .. Cardinality(set) -> set] /\ Len(order) = Cardinality(set)
         /\ \A d \in set : \E i \in 1 .. Cardinality(set) : order[i] = d
         /\ \A i, j \in 1 .. Cardinality(set) : i <= j => order[i].high >= order[j].high
<1> DEFINE length == Cardinality(set)
<1>1. length \in Nat /\ order \in [1 .. length -> set]
  BY FS_CardinalityType DEF IsFound, Orders
<1>2. Len(order) = length
  BY <1>1
<1>3. /\ \A i, j \in 1 .. length : i # j => order[i] # order[j]
      /\ \A i \in 1 .. length - 1 : order[i].high >= order[i + 1].high
  BY <1>1, <1>2 DEF Orders
<1>4. order \in Injection(1 .. length, set)
  BY <1>1, <1>3 DEF Injection, IsInjective
<1>5. Cardinality(1 .. length) = length
  BY <1>1, FS_Interval
<1>6. order \in Surjection(1 .. length, set)
  BY <1>4, <1>5, FS_Injection DEF IsFound
<1>7. \A d \in set : \E i \in 1 .. length : order[i] = d
  BY <1>6 DEF Surjection
<1>8. \A i \in 1 .. length : order[i].high \in Nat
  BY <1>1 DEF IsFound
<1> DEFINE S == {k \in Nat : \A i \in 1 .. length : i + k <= length =>
                                order[i].high >= order[i + k].high}
<1>9. 0 \in S
  BY <1>8
<1>10. ASSUME NEW k \in Nat, k \in S PROVE k + 1 \in S
  <2> SUFFICES ASSUME NEW i \in 1 .. length, i + (k + 1) <= length
               PROVE  order[i].high >= order[i + (k + 1)].high
    OBVIOUS
  <2>1. order[i].high >= order[i + k].high
    BY <1>1, <1>10
  <2>2. i + k \in 1 .. length - 1 /\ i + k + 1 = i + (k + 1)
    BY <1>1
  <2>3. order[i + k].high >= order[i + (k + 1)].high
    BY <1>3, <2>2
  <2>4. i + k \in 1 .. length /\ i + (k + 1) \in 1 .. length
    BY <1>1
  <2> QED
    BY <1>8, <2>1, <2>3, <2>4
<1>11. ASSUME NEW i \in 1 .. length, NEW j \in 1 .. length, i <= j
       PROVE  order[i].high >= order[j].high
  <2>1. Nat \subseteq S
    <3> HIDE DEF S
    <3> QED
      BY <1>9, <1>10, SetInduction
  <2> DEFINE k == j - i
  <2>2. k \in Nat /\ i + k = j
    BY <1>1, <1>11
  <2> HIDE DEF k
  <2>3. k \in S
    BY <2>1, <2>2
  <2> QED
    BY <1>1, <2>2, <2>3
<1> QED
  BY <1>1, <1>2, <1>7, <1>11

\* What Filtered keeps: nothing too close to another, and of what it drops something near
\* that is at least as strong.
LEMMA Thinned ==
  ASSUME NEW set, IsFound(set), NEW order \in Orders(set)
  PROVE  /\ Filtered(order) \subseteq set
         /\ \A c, d \in Filtered(order) : c # d => ~TooClose(c, d)
         /\ \A d \in set \ Filtered(order) :
               \E k \in Filtered(order) : k.high >= d.high /\ TooClose(d, k)
<1> DEFINE length == Cardinality(set)
<1>1. /\ length \in Nat /\ order \in [1 .. length -> set] /\ Len(order) = length
      /\ \A d \in set : \E i \in 1 .. length : order[i] = d
      /\ \A i, j \in 1 .. length : i <= j => order[i].high >= order[j].high
  BY Sorted
<1> HIDE DEF length
<1>2. PICK u \in [0 .. length -> SUBSET set] :
         Keeps(u, order, length) /\ Filtered(order) = u[length]
  <2>1. length \in Nat /\ order \in [1 .. length -> set] /\ Len(order) = length
    BY <1>1
  <2> QED
    BY <2>1, ThinningRuns
<1> DEFINE Apart(kept) == \A c, d \in kept : c # d => ~TooClose(c, d)
<1> DEFINE Dropped(kept, n) ==
              \A i \in 1 .. n : order[i] \notin kept =>
                 \E k \in kept : k.high >= order[i].high /\ TooClose(order[i], k)
<1> DEFINE Seen(kept, n) == \A k \in kept : \E i \in 1 .. n : order[i] = k
<1> DEFINE Right(n) == Apart(u[n]) /\ Dropped(u[n], n) /\ Seen(u[n], n)
<1> DEFINE S == {n \in Nat : n <= length => Right(n)}
<1>3. 0 \in S
  BY <1>2 DEF Keeps
<1>4. ASSUME NEW n \in Nat, n \in S PROVE n + 1 \in S
  <2> SUFFICES ASSUME n + 1 <= length PROVE Right(n + 1)
    OBVIOUS
  <2> DEFINE d == order[n + 1]
  <2>1. n + 1 \in 1 .. length /\ n + 1 - 1 = n /\ n \in 0 .. length
    BY <1>1
  <2>2. Apart(u[n]) /\ Dropped(u[n], n) /\ Seen(u[n], n)
    BY <1>1, <1>4, <2>1
  <2>3. u[n + 1] = u[n] \cup {c \in {d} : \A k \in u[n] : ~TooClose(c, k)}
    BY <1>2, <2>1 DEF Keeps, AddTo
  <2>4. u[n] \subseteq set /\ u[n + 1] \subseteq set /\ d \in set
    BY <1>1, <1>2, <2>1
  <2>5. set \subseteq [index : Nat, high : Nat]
    BY DEF IsFound
  <2> DEFINE kept == u[n]
  <2> DEFINE more == u[n + 1]
  <2> HIDE DEF d, kept, more
  <2>6. \A c, e \in set : TooClose(c, e) <=> TooClose(e, c)
    <3> TAKE c, e \in set
    <3>1. c.index \in Nat /\ e.index \in Nat /\ NCoh \in Nat
      BY <2>5, Sizes
    <3> QED
      BY <3>1 DEF TooClose
  <2>7. Apart(more)
    <3> SUFFICES ASSUME NEW c \in more, NEW e \in more, c # e PROVE ~TooClose(c, e)
      OBVIOUS
    <3>1. CASE c \in kept /\ e \in kept
      BY <2>2, <3>1 DEF kept
    <3>2. CASE c \in kept /\ e \notin kept
      BY <2>3, <2>4, <2>6, <3>2 DEF kept, more
    <3>3. CASE c \notin kept /\ e \in kept
      BY <2>3, <3>3 DEF kept, more
    <3>4. ~(c \notin kept /\ e \notin kept)
      BY <2>3 DEF kept, more
    <3> QED
      BY <3>1, <3>2, <3>3, <3>4
  <2>8. Dropped(more, n + 1)
    <3> SUFFICES ASSUME NEW i \in 1 .. n + 1, order[i] \notin more
                 PROVE  \E k \in more : k.high >= order[i].high /\ TooClose(order[i], k)
      OBVIOUS
    <3>1. kept \subseteq more
      BY <2>3 DEF kept, more
    <3>2. CASE i = n + 1
      <4>1. PICK k \in kept : TooClose(d, k)
        BY <2>3, <3>2 DEF kept, more, d
      <4>2. PICK j \in 1 .. n : order[j] = k
        BY <2>2 DEF kept
      <4>3. k.high >= d.high
        BY <1>1, <2>1, <4>2 DEF d
      <4> QED
        BY <3>1, <3>2, <4>1, <4>3 DEF d
    <3>3. CASE i # n + 1
      <4>1. i \in 1 .. n /\ order[i] \notin kept
        BY <3>1, <3>3
      <4>2. PICK k \in kept : k.high >= order[i].high /\ TooClose(order[i], k)
        BY <2>2, <4>1 DEF kept
      <4> QED
        BY <3>1, <4>2
    <3> QED
      BY <3>2, <3>3
  <2>9. Seen(more, n + 1)
    <3> SUFFICES ASSUME NEW k \in more PROVE \E i \in 1 .. n + 1 : order[i] = k
      OBVIOUS
    <3>1. CASE k \in kept
      BY <2>2, <3>1 DEF kept
    <3>2. CASE k \notin kept
      BY <2>3, <3>2 DEF kept, more, d
    <3> QED
      BY <3>1, <3>2
  <2> QED
    BY <2>7, <2>8, <2>9 DEF more
<1>5. Right(length)
  <2>1. Nat \subseteq S
    <3> HIDE DEF S
    <3> QED
      BY <1>3, <1>4, SetInduction
  <2>2. length \in S
    BY <1>1, <2>1
  <2> HIDE DEF Right
  <2> QED
    BY <1>1, <2>2
<1>6. u[length] \subseteq set
  BY <1>1, <1>2
<1>7. ASSUME NEW d \in set, d \notin u[length]
      PROVE  \E k \in u[length] : k.high >= d.high /\ TooClose(d, k)
  <2>1. PICK i \in 1 .. length : order[i] = d
    BY <1>1
  <2> QED
    BY <1>5, <1>7, <2>1
<1> QED
  BY <1>2, <1>5, <1>6, <1>7

-----------------------------------------------------------------------------
(* The search.                                                             *)

\* What passes the tests of detect_preamble has a sample and a strength.
LEMMA CandidatesFound ==
  ASSUME NEW m \in Heard, NEW b \in Nat, NEW preamble, NEW begin \in Nat, NEW end \in Int,
         end <= FftSize - Preamble
  PROVE  IsFound(Candidates(Buffer(m, b), preamble, begin, end))
<1> DEFINE buf == Buffer(m, b)
<1> DEFINE where == {i \in begin .. end - 1 : LET n == HalfBits(buf, i) IN
                        HasShape(n) /\ StandsOut(n) /\ IsSignificant(buf, preamble, i)}
<1> DEFINE all == {[index |-> i, high |-> High(HalfBits(buf, i))] : i \in where}
<1>1. \A i \in 0 .. FftSize - 1 : buf[i] \in Int
  <2> TAKE i \in 0 .. FftSize - 1
  <2>1. buf[i] = IF i < NzerosHead THEN 0 ELSE Amplitude(m, b * Window + i - NzerosHead)
    BY DEF Buffer
  <2>2. Amplitude(m, b * Window + i - NzerosHead) \in {0, 1}
    BY AmplitudeIsBit DEF Heard
  <2> QED
    BY <2>1, <2>2
<1>2. ASSUME NEW i \in begin .. end - 1, NEW j \in 0 .. 15
      PROVE  HalfBits(buf, i)[j] \in Nat
  <2> DEFINE first == i + j * NCoh
  <2> DEFINE last == i + (j + 1) * NCoh
  <2>1. /\ NCoh \in Nat /\ i \in Nat /\ Preamble = 16 * NCoh /\ FftSize \in Nat
        /\ i < FftSize - Preamble
    BY Sizes
  <2>2. first \in Int /\ last \in Int /\ 0 <= first /\ first <= last /\ last <= FftSize
    BY <2>1
  <2>3. HalfBits(buf, i)[j] = Square(Sum(buf, first, last))
    BY DEF HalfBits
  <2> HIDE DEF first, last, buf
  <2>4. \A n \in first .. last - 1 : buf[n] \in Int
    BY <1>1, <2>1, <2>2
  <2>5. Sum(buf, first, last) \in Int
    BY <2>2, <2>4, SumRuns
  <2> QED
    BY <2>3, <2>5 DEF Square
<1>3. ASSUME NEW i \in begin .. end - 1 PROVE High(HalfBits(buf, i)) \in Nat
  BY <1>2 DEF High
<1> HIDE DEF buf
<1>4. IsFiniteSet(where)
  <2>1. IsFiniteSet(begin .. end - 1)
    BY FS_Interval
  <2> QED
    BY <2>1, FS_Subset
<1>5. IsFound(all)
  <2>1. all \subseteq [index : Nat, high : Nat]
    BY <1>3
  <2>2. \A c, d \in all : c.index = d.index => c = d
    OBVIOUS
  <2>3. IsFiniteSet(all)
    <3> DEFINE f == [i \in where |-> [index |-> i, high |-> High(HalfBits(buf, i))]]
    <3>1. f \in Surjection(where, all)
      BY DEF Surjection
    <3> HIDE DEF f, where, all
    <3> QED
      BY <1>4, <3>1, FS_Surjection
  <2> QED
    BY <2>1, <2>2, <2>3 DEF IsFound
<1>6. IsFound({})
  BY FS_EmptySet DEF IsFound
<1> QED
  BY <1>5, <1>6 DEF Candidates, buf

LEMMA SearchStep ==
  ASSUME SearchTypes, SearchInHand, [SearchNext]_searchVars
  PROVE  SearchTypes' /\ SearchInHand'
<1> USE DEF SearchTypes, SearchInHand
<1>1. CASE Hear
  <2>1. message' \in Heard
    BY <1>1, BitsAssumption DEF Hear, Heard
  <2> QED
    BY <1>1, <2>1 DEF Hear
<1>2. CASE HearNoise
  <2>1. IsFound(found')
    BY <1>2, NoiseAssumption DEF HearNoise, IsFound
  <2> QED
    BY <1>2, <2>1 DEF HearNoise
<1>3. CASE FindCandidates
  <2>1. NzerosHead \in Nat /\ FftSize - (Preamble + LongData) \in Int
        /\ FftSize - (Preamble + LongData) <= FftSize - Preamble
    BY Sizes
  <2>2. IsFound(found')
    BY <1>3, <2>1, CandidatesFound DEF FindCandidates
  <2> QED
    BY <1>3, <2>2 DEF FindCandidates
<1>4. CASE Thin
  <2>1. NoBits \in AllBits
    BY DEF NoBits, AllBits
  <2> QED
    BY <1>4, <2>1 DEF Thin
<1>5. CASE DemodulateNext
  <2>1. array' \in AllBits
    <3>1. CASE array' = array
      BY <3>1
    <3>2. CASE array' # array
      <4>1. PICK i : array' \in BitsAt(Buffer(message, block), i, array)
        BY <1>5, <3>2 DEF DemodulateNext
      <4>2. PICK power : array' = HardDemodulateBits(power, Preamble \div NCoh, array)
        BY <4>1 DEF BitsAt
      <4>3. array \in [0 .. NBits - 1 -> BOOLEAN]
        BY DEF AllBits
      <4>4. array' = [k \in 0 .. NBits - 1 |->
                        LET j == Preamble \div NCoh + 2 * k
                        IN  IF j + 1 \in DOMAIN power THEN power[j] > power[j + 1] ELSE array[k]]
        BY <4>2, <4>3 DEF HardDemodulateBits
      <4>5. \A a, b : (a > b) \in BOOLEAN
        OBVIOUS
      <4>6. \A k \in 0 .. NBits - 1 : array'[k] \in BOOLEAN
        <5> TAKE k \in 0 .. NBits - 1
        <5> DEFINE j == Preamble \div NCoh + 2 * k
        <5>1. CASE j + 1 \in DOMAIN power
          <6>1. array'[k] = (power[j] > power[j + 1])
            BY <4>4, <5>1
          <6> QED
            BY <4>5, <6>1, Zenon
        <5>2. CASE j + 1 \notin DOMAIN power
          BY <4>3, <4>4, <5>2
        <5> QED
          BY <5>1, <5>2
      <4> QED
        BY <4>4, <4>6 DEF AllBits
    <3> QED
      BY <3>1, <3>2
  <2> QED
    BY <1>5, <2>1 DEF DemodulateNext
<1>6. CASE SearchNextBlock
  <2>1. message' \in Heard
    BY <1>6 DEF SearchNextBlock
  <2>2. block' \in Nat
    BY <1>6 DEF SearchNextBlock
  <2> QED
    BY <1>6, <2>1, <2>2 DEF SearchNextBlock
<1>7. CASE SearchEnds
  <2>1. NoBits \in AllBits
    BY DEF NoBits, AllBits
  <2> QED
    BY <1>7, <2>1 DEF SearchEnds
<1>8. CASE UNCHANGED searchVars
  BY <1>8 DEF searchVars
<1> QED
  BY <1>1, <1>2, <1>3, <1>4, <1>5, <1>6, <1>7, <1>8 DEF SearchNext

LEMMA SearchInvariant == SearchSpec => [](SearchTypes /\ SearchInHand)
<1>1. SearchInit => SearchTypes /\ SearchInHand
  BY DEF SearchInit, SearchTypes, SearchInHand, NoBits, AllBits
<1> QED
  BY <1>1, SearchStep, PTL DEF SearchSpec

\* A detection that is off by less than half a half bit yields the bits that were sent,
\* at every rate, for every message and in whichever of two blocks it is found
\* (demodulate, hard_demodulate_bits).
THEOREM Survive == SearchSpec => []BitsSurviveOffset
<1>1. SearchTypes => BitsSurviveOffset
  <2> DEFINE Taken(off) == message.start + off
  <2> DEFINE Index(off) == Taken(off) - block * Window + NzerosHead
  <2> SUFFICES ASSUME SearchTypes, message # Silence,
                      NEW off \in -NCoh .. NCoh, 2 * off \in -NCoh + 1 .. NCoh - 1,
                      Taken(off) \div Window = block
               PROVE  BitsAt(Buffer(message, block), Index(off), array) = {message.bits}
    BY Zenon DEF BitsSurviveOffset
  <2> DEFINE taken == Taken(off)
  <2> DEFINE i == Index(off)
  <2>1. message \in Heard /\ block \in Nat /\ array \in AllBits
    BY DEF SearchTypes
  <2>2. /\ message.start \in Nat /\ off \in Int /\ taken \in Int
        /\ block * Window \in Int /\ NzerosHead \in Int
    <3>1. message.start \in Nat
      BY <2>1, AlgoAssumption DEF Heard
    <3>2. off \in Int
      BY Sizes
    <3>3. block * Window \in Int /\ NzerosHead \in Int
      BY <2>1, Sizes
    <3> QED
      BY <3>1, <3>2, <3>3
  <2>3. taken - block * Window \in 0 .. Window - 1
    <3>1. Window \in Nat \ {0}
      BY Sizes
    <3>2. taken \div Window = block
      OBVIOUS
    <3> HIDE DEF taken
    <3>3. taken = Window * block + (taken % Window) /\ taken % Window \in 0 .. Window - 1
      BY <2>2, <3>1, <3>2, Division
    <3>4. Window * block = block * Window
      BY <2>1, <3>1
    <3> QED
      BY <2>2, <3>1, <3>3, <3>4
  <2>4. /\ i \in Int /\ i >= NzerosHead
        /\ i + Preamble + LongData <= FftSize
    <3>1. i = taken - block * Window + NzerosHead
      OBVIOUS
    <3> HIDE DEF taken, i
    <3> QED
      BY <2>2, <2>3, <3>1, Sizes
  <2>5. i - (message.start - block * Window + NzerosHead) = off
    BY <2>2
  <2>6. 2 * (i - (message.start - block * Window + NzerosHead)) \in -NCoh + 1 .. NCoh - 1
    BY <2>5, Zenon
  <2> HIDE DEF i
  <2>7. BitsAt(Buffer(message, block), i, array) = {message.bits}
    BY <2>1, <2>4, <2>6, BitsRead
  <2> QED
    BY <2>7, Zenon DEF i
<1> QED
  BY <1>1, SearchInvariant, PTL

\* Whatever the order of equals, the thinning keeps nothing near a kept detection and
\* drops nothing but for a stronger or equal one near it (detect_preamble).
THEOREM Strongest == SearchSpec => StrongestAreKept
<1>1. ASSUME SearchTypes, SearchInHand, [SearchNext]_searchVars
      PROVE  [at = "filter" => KeepsStrongest]_searchVars
  <2> SUFFICES ASSUME at = "filter", ~UNCHANGED searchVars PROVE KeepsStrongest
    OBVIOUS
  <2>1. Thin
    BY <1>1 DEF SearchNext, Hear, HearNoise, FindCandidates, DemodulateNext,
                SearchNextBlock, SearchEnds, SearchIsOver
  <2>2. IsFound(found)
    BY <1>1 DEF SearchInHand
  <2>3. PICK order \in Orders(found) : detections' = {d.index : d \in Filtered(order)}
    BY <2>1 DEF Thin
  <2>4. /\ Filtered(order) \subseteq found
        /\ \A c, d \in Filtered(order) : c # d => ~TooClose(c, d)
        /\ \A d \in found \ Filtered(order) :
              \E k \in Filtered(order) : k.high >= d.high /\ TooClose(d, k)
    BY <2>2, Thinned
  <2>5. {d \in found : d.index \in detections'} = Filtered(order)
    BY <2>2, <2>3, <2>4 DEF IsFound
  <2> QED
    BY <2>4, <2>5 DEF KeepsStrongest, TooClose
<1> QED
  BY <1>1, SearchInvariant, PTL DEF SearchSpec, StrongestAreKept

-----------------------------------------------------------------------------
(* Sums of the same samples in two places.                                 *)

\* Two loops that add the same samples up, from a and from b, advance by the same.
AddAlike(u, v, f, a, b, length) ==
  /\ \A n \in 0 .. length : u[a + n] \in Int /\ v[b + n] \in Int
  /\ \A n \in 0 .. length - 1 :
        /\ f[a + n] \in Int
        /\ u[a + n + 1] = u[a + n] + f[a + n]
        /\ v[b + n + 1] = v[b + n] + f[a + n]

Advance(u, v, a, b, length) == u[a + length] - u[a] = v[b + length] - v[b]

LEMMA SumsAdvance ==
  ASSUME NEW u, NEW v, NEW f, NEW a \in Int, NEW b \in Int, NEW length \in Nat,
         AddAlike(u, v, f, a, b, length)
  PROVE  Advance(u, v, a, b, length)
<1> USE DEF AddAlike, Advance
<1> DEFINE S == {k \in Nat : k <= length => u[a + k] - u[a] = v[b + k] - v[b]}
<1>1. a + 0 = a /\ b + 0 = b /\ u[a] \in Int /\ v[b] \in Int
  <2>1. 0 \in 0 .. length /\ a + 0 = a /\ b + 0 = b
    OBVIOUS
  <2> QED
    BY <2>1
<1>2. 0 \in S
  BY <1>1
<1>3. ASSUME NEW k \in Nat, k \in S PROVE k + 1 \in S
  <2> SUFFICES ASSUME k + 1 <= length PROVE u[a + (k + 1)] - u[a] = v[b + (k + 1)] - v[b]
    OBVIOUS
  <2>1. k \in 0 .. length - 1 /\ k \in 0 .. length
    OBVIOUS
  <2>2. a + k + 1 = a + (k + 1) /\ b + k + 1 = b + (k + 1)
    OBVIOUS
  <2>3. u[a + k] - u[a] = v[b + k] - v[b] /\ u[a + k] \in Int /\ v[b + k] \in Int
    BY <1>3, <2>1
  <2>4. f[a + k] \in Int /\ u[a + (k + 1)] = u[a + k] + f[a + k] /\ v[b + (k + 1)] = v[b + k] + f[a + k]
    BY <2>1, <2>2
  <2> QED
    BY <1>1, <2>3, <2>4
<1>4. Nat \subseteq S
  <2> HIDE DEF S
  <2> QED
    BY <1>2, <1>3, SetInduction
<1> QED
  BY <1>4

\* The same samples have the same sum, wherever they are.
Same(f, g, a, b, length) ==
  \A n \in 0 .. length - 1 : f[a + n] \in Int /\ g[b + n] = f[a + n]

LEMMA SumShifts ==
  ASSUME NEW f, NEW g, NEW a \in Int, NEW b \in Int, NEW length \in Nat,
         Same(f, g, a, b, length)
  PROVE  Sum(g, b, b + length) = Sum(f, a, a + length)
<1> USE DEF Same
<1>1. \A n \in a .. (a + length) - 1 : f[n] \in Int
  <2> TAKE n \in a .. (a + length) - 1
  <2>1. n - a \in 0 .. length - 1 /\ a + (n - a) = n
    OBVIOUS
  <2> QED
    BY <2>1
<1>2. \A n \in b .. (b + length) - 1 : g[n] \in Int
  <2> TAKE n \in b .. (b + length) - 1
  <2>1. n - b \in 0 .. length - 1 /\ b + (n - b) = n
    OBVIOUS
  <2> QED
    BY <2>1
<1>3. PICK u \in [a .. a + length -> Int] :
         Adds(u, f, a, a + length) /\ Sum(f, a, a + length) = u[a + length]
  <2>1. a + length \in Int /\ a <= a + length
    OBVIOUS
  <2> QED
    BY <1>1, <2>1, SumRuns
<1>4. PICK v \in [b .. b + length -> Int] :
         Adds(v, g, b, b + length) /\ Sum(g, b, b + length) = v[b + length]
  <2>1. b + length \in Int /\ b <= b + length
    OBVIOUS
  <2> QED
    BY <1>2, <2>1, SumRuns
<1>5. \A n \in 0 .. length : u[a + n] \in Int /\ v[b + n] \in Int
  OBVIOUS
<1>6. ASSUME NEW n \in 0 .. length - 1
      PROVE  /\ f[a + n] \in Int
             /\ u[a + n + 1] = u[a + n] + f[a + n]
             /\ v[b + n + 1] = v[b + n] + f[a + n]
  <2>1. /\ a + n + 1 \in a + 1 .. a + length /\ a + n + 1 - 1 = a + n
        /\ b + n + 1 \in b + 1 .. b + length /\ b + n + 1 - 1 = b + n
    OBVIOUS
  <2>2. u[a + n + 1] = u[a + n] + f[a + n]
    BY <1>3, <2>1 DEF Adds
  <2>3. v[b + n + 1] = v[b + n] + g[b + n]
    BY <1>4, <2>1 DEF Adds
  <2> QED
    BY <2>2, <2>3
<1>7. u[a + length] - u[a] = v[b + length] - v[b]
  <2>1. AddAlike(u, v, f, a, b, length)
    BY <1>5, <1>6 DEF AddAlike
  <2>2. Advance(u, v, a, b, length)
    BY <2>1, SumsAdvance, Zenon
  <2> QED
    BY <2>2 DEF Advance
<1>8. u[a] = 0 /\ v[b] = 0 /\ u[a + length] \in Int /\ v[b + length] \in Int
  BY <1>3, <1>4 DEF Adds
<1> QED
  BY <1>3, <1>4, <1>7, <1>8

\* A sum can be taken in two parts.
LEMMA SumSplits ==
  ASSUME NEW f, NEW a \in Int, NEW b \in Int, NEW c \in Int, a <= b, b <= c,
         \A n \in a .. c - 1 : f[n] \in Int
  PROVE  /\ Sum(f, a, b) \in Int /\ Sum(f, b, c) \in Int
         /\ Sum(f, a, c) = Sum(f, a, b) + Sum(f, b, c)
<1>1. PICK u \in [a .. c -> Int] : Adds(u, f, a, c) /\ Sum(f, a, c) = u[c]
  <2>1. a <= c
    OBVIOUS
  <2> QED
    BY <2>1, SumRuns
<1>2. PICK v \in [a .. b -> Int] : Adds(v, f, a, b) /\ Sum(f, a, b) = v[b]
  <2>1. \A n \in a .. b - 1 : f[n] \in Int
    OBVIOUS
  <2> QED
    BY <2>1, SumRuns
<1>3. PICK w \in [b .. c -> Int] : Adds(w, f, b, c) /\ Sum(f, b, c) = w[c]
  <2>1. \A n \in b .. c - 1 : f[n] \in Int
    OBVIOUS
  <2> QED
    BY <2>1, SumRuns
<1> DEFINE k == b - a
<1> DEFINE l == c - b
<1>4. k \in Nat /\ a + k = b /\ l \in Nat /\ b + l = c
  OBVIOUS
<1> HIDE DEF k, l
<1>5. u[a + k] - u[a] = v[a + k] - v[a]
  <2>1. \A n \in 0 .. k : u[a + n] \in Int /\ v[a + n] \in Int
    BY <1>4
  <2>2. ASSUME NEW n \in 0 .. k - 1
        PROVE  /\ f[a + n] \in Int
               /\ u[a + n + 1] = u[a + n] + f[a + n]
               /\ v[a + n + 1] = v[a + n] + f[a + n]
    <3>1. /\ a + n + 1 \in a + 1 .. c /\ a + n + 1 \in a + 1 .. b /\ a + n + 1 - 1 = a + n
          /\ a + n \in a .. c - 1
      BY <1>4
    <3> QED
      BY <1>1, <1>2, <3>1 DEF Adds
  <2> QED
    <3>1. AddAlike(u, v, f, a, a, k)
      BY <2>1, <2>2 DEF AddAlike
    <3>2. Advance(u, v, a, a, k)
      BY <1>4, <3>1, SumsAdvance, Zenon
    <3> QED
      BY <3>2 DEF Advance
<1>6. u[b + l] - u[b] = w[b + l] - w[b]
  <2>1. \A n \in 0 .. l : u[b + n] \in Int /\ w[b + n] \in Int
    BY <1>4
  <2>2. ASSUME NEW n \in 0 .. l - 1
        PROVE  /\ f[b + n] \in Int
               /\ u[b + n + 1] = u[b + n] + f[b + n]
               /\ w[b + n + 1] = w[b + n] + f[b + n]
    <3>1. /\ b + n + 1 \in a + 1 .. c /\ b + n + 1 \in b + 1 .. c /\ b + n + 1 - 1 = b + n
          /\ b + n \in a .. c - 1
      BY <1>4
    <3> QED
      BY <1>1, <1>3, <3>1 DEF Adds
  <2> QED
    <3>1. AddAlike(u, w, f, b, b, l)
      BY <2>1, <2>2 DEF AddAlike
    <3>2. Advance(u, w, b, b, l)
      BY <1>4, <3>1, SumsAdvance, Zenon
    <3> QED
      BY <3>2 DEF Advance
<1>7. u[a] = 0 /\ v[a] = 0 /\ w[b] = 0
  BY <1>1, <1>2, <1>3 DEF Adds
<1>8. u[b] \in Int /\ u[c] \in Int /\ v[b] \in Int /\ w[c] \in Int
  OBVIOUS
<1>9. u[b] - u[a] = v[b] - v[a] /\ u[c] - u[b] = w[c] - w[b]
  BY <1>4, <1>5, <1>6
<1>10. v[b] \in Int /\ w[c] \in Int /\ u[c] = v[b] + w[c]
  BY <1>7, <1>8, <1>9
<1> QED
  BY <1>1, <1>2, <1>3, <1>10

\* The sum of one sample; and the sum one sample on.
LEMMA SumSlides ==
  ASSUME NEW f, NEW a \in Int, NEW length \in Nat,
         \A n \in a .. a + length : f[n] \in Int
  PROVE  /\ Sum(f, a, a + length) \in Int
         /\ Sum(f, a + 1, a + 1 + length) = Sum(f, a, a + length) + f[a + length] - f[a]
<1>1. ASSUME NEW x \in a .. a + length PROVE Sum(f, x, x + 1) = f[x] /\ f[x] \in Int
  <2>1. \A n \in x .. (x + 1) - 1 : f[n] \in Int
    OBVIOUS
  <2>2. x + 1 \in Int /\ x <= x + 1
    OBVIOUS
  <2>3. PICK u \in [x .. x + 1 -> Int] : Adds(u, f, x, x + 1) /\ Sum(f, x, x + 1) = u[x + 1]
    BY <2>1, <2>2, SumRuns
  <2>4. x + 1 \in x + 1 .. x + 1 /\ x + 1 - 1 = x
    OBVIOUS
  <2> QED
    BY <2>3, <2>4 DEF Adds
<1> DEFINE c == a + 1 + length
<1>2. c \in Int /\ c = a + length + 1 /\ \A n \in a .. c - 1 : f[n] \in Int
  OBVIOUS
<1> HIDE DEF c
<1>3. Sum(f, a, c) = Sum(f, a, a + 1) + Sum(f, a + 1, c) /\ Sum(f, a + 1, c) \in Int
  BY <1>2, SumSplits
<1>4. Sum(f, a, c) = Sum(f, a, a + length) + Sum(f, a + length, c) /\ Sum(f, a, a + length) \in Int
  BY <1>2, SumSplits
<1>5. Sum(f, a, a + 1) = f[a] /\ f[a] \in Int
  BY <1>1
<1>6. Sum(f, a + length, c) = f[a + length] /\ f[a + length] \in Int
  BY <1>1, <1>2
<1> QED
  BY <1>3, <1>4, <1>5, <1>6 DEF c

-----------------------------------------------------------------------------
(* Sums over the stream.                                                   *)

\* What r samples of a half bit and the others of the one before come to.
Amount(r, before, after) ==
  (IF before = 1 THEN NCoh - r ELSE 0) + (IF after = 1 THEN r ELSE 0)

\* A sum over as many samples as a half bit has, of two half bits.
LEMMA SumOfTwo ==
  ASSUME NEW f, NEW a \in Int, NEW r \in 0 .. NCoh - 1, NEW before \in {0, 1}, NEW after \in {0, 1},
         \A c \in 0 .. NCoh - 1 : f[a + c] = IF c < NCoh - r THEN before ELSE after
  PROVE  Sum(f, a, a + NCoh) = Amount(r, before, after)
<1> DEFINE middle == a + (NCoh - r)
<1> DEFINE end == a + NCoh
<1>1. NCoh \in Nat /\ NCoh >= 2
  BY Sizes
<1>2. /\ middle \in Int /\ end \in Int /\ a <= middle /\ middle <= end
      /\ middle - a = NCoh - r /\ end - middle = r
  BY <1>1
<1>3. \A n \in a .. end - 1 : f[n] = IF n < middle THEN before ELSE after
  <2> TAKE n \in a .. end - 1
  <2>1. n - a \in 0 .. NCoh - 1 /\ a + (n - a) = n /\ (n - a < NCoh - r <=> n < middle)
    BY <1>1
  <2> HIDE DEF middle, end
  <2> QED
    BY <2>1
<1> HIDE DEF middle, end
<1>4. \A n \in a .. end - 1 : f[n] \in {0, 1}
  BY <1>3
<1>5. \A n \in a .. middle - 1 : f[n] = before /\ f[n] \in {0, 1}
  BY <1>2, <1>3
<1>6. \A n \in middle .. end - 1 : f[n] = after /\ f[n] \in {0, 1}
  BY <1>2, <1>3
<1>7. Sum(f, a, end) = Sum(f, a, middle) + Sum(f, middle, end)
  <2>1. \A n \in a .. end - 1 : f[n] \in Int
    BY <1>4
  <2> QED
    BY <1>2, <2>1, SumSplits
<1>8. Sum(f, a, middle) = IF before = 1 THEN NCoh - r ELSE 0
  <2>1. /\ Sum(f, a, middle) \in Nat
        /\ (\A n \in a .. middle - 1 : f[n] = 1) => Sum(f, a, middle) >= middle - a
        /\ (\A n \in a .. middle - 1 : f[n] = 0) => Sum(f, a, middle) <= (middle - a) - (middle - a)
    BY <1>2, <1>5, SumBounds
  <2>2. Sum(f, a, middle) <= middle - a
    <3>1. /\ Sum(f, a, middle) \in Nat
          /\ (\A n \in a .. a - 1 : f[n] = 0) => Sum(f, a, middle) <= (middle - a) - (a - a)
      BY <1>2, <1>5, SumBounds
    <3>2. \A n \in a .. a - 1 : f[n] = 0
      OBVIOUS
    <3> QED
      BY <1>2, <3>1, <3>2
  <2>3. CASE before = 1
    BY <1>2, <1>5, <2>1, <2>2, <2>3
  <2>4. CASE before = 0
    BY <1>2, <1>5, <2>1, <2>4
  <2> QED
    BY <2>3, <2>4
<1>9. Sum(f, middle, end) = IF after = 1 THEN r ELSE 0
  <2>0. middle <= middle /\ end <= end
    BY <1>2
  <2>1. /\ Sum(f, middle, end) \in Nat
        /\ (\A n \in middle .. end - 1 : f[n] = 1) => Sum(f, middle, end) >= end - middle
        /\ (\A n \in middle .. end - 1 : f[n] = 0) => Sum(f, middle, end) <= (end - middle) - (end - middle)
    BY <1>2, <1>6, <2>0, SumBounds
  <2>2. Sum(f, middle, end) <= end - middle
    <3>1. /\ Sum(f, middle, end) \in Nat
          /\ (\A n \in middle .. middle - 1 : f[n] = 0) => Sum(f, middle, end) <= (end - middle) - (middle - middle)
      BY <1>2, <1>6, SumBounds
    <3>2. \A n \in middle .. middle - 1 : f[n] = 0
      BY <1>2
    <3> QED
      BY <1>2, <3>1, <3>2
  <2>3. CASE after = 1
    BY <1>2, <1>6, <2>1, <2>2, <2>3
  <2>4. CASE after = 0
    BY <1>2, <1>6, <2>1, <2>4
  <2> QED
    BY <2>3, <2>4
<1> QED
  BY <1>7, <1>8, <1>9 DEF Amount, end

-----------------------------------------------------------------------------
(* The stream by half bits, counted from where the message begins.         *)

HalfBit(m, k) ==
  IF k < 0 THEN 0
  ELSE IF k > 15 + 2 * NBits THEN m.behind
  ELSE IF Pulse(m.bits, k) THEN 1 ELSE 0

LEMMA HeardSizes ==
  ASSUME NEW m \in Heard, NEW b \in Nat
  PROVE  /\ m.start \in Nat /\ m.behind \in {0, 1} /\ m.bits \in AllBits
         /\ b * Window \in Nat /\ NzerosHead \in Nat
<1>1. m.start \in Nat /\ m.behind \in {0, 1} /\ m.bits \in AllBits
  BY AlgoAssumption DEF Heard
<1>2. NzerosHead \in Nat /\ Window \in Nat
  BY Sizes
<1> QED
  BY <1>1, <1>2

LEMMA HalfBitIsBit ==
  ASSUME NEW m \in Heard, NEW k PROVE HalfBit(m, k) \in {0, 1}
BY DEF HalfBit, Heard

LEMMA StreamByHalfBits ==
  ASSUME NEW m \in Heard, NEW k \in Int, NEW c \in 0 .. NCoh - 1
  PROVE  Amplitude(m, m.start + (k * NCoh + c)) = HalfBit(m, k)
<1> DEFINE s == m.start + (k * NCoh + c)
<1>1. NCoh \in Nat /\ NCoh >= 2 /\ NBits \in Nat /\ m.start \in Nat /\ m.behind \in {0, 1}
  BY Sizes, AlgoAssumption DEF Heard
<1>2. Preamble + LongData = (16 + 2 * NBits) * NCoh /\ Preamble \in Nat /\ LongData \in Nat
  BY Sizes
<1>3. k * NCoh \in Int
  BY <1>1
<1>4. CASE k < 0
  <2>1. (k + 1) * NCoh <= 0 /\ (k + 1) * NCoh = k * NCoh + NCoh
    BY <1>1, <1>4
  <2>2. s < m.start
    BY <1>1, <1>3, <2>1
  <2> HIDE DEF s
  <2> QED
    BY <1>4, <2>2 DEF Amplitude, HalfBit, s
<1>5. CASE k > 15 + 2 * NBits
  <2>1. k * NCoh >= (16 + 2 * NBits) * NCoh
    BY <1>1, <1>5
  <2>2. ~(s < m.start) /\ s >= m.start + Preamble + LongData
    BY <1>1, <1>2, <1>3, <2>1
  <2>3. ~(k < 0)
    BY <1>1, <1>5
  <2> HIDE DEF s
  <2> QED
    BY <1>5, <2>2, <2>3 DEF Amplitude, HalfBit, s
<1>6. CASE k \in 0 .. 15 + 2 * NBits
  <2>1. Amplitude(m, m.start + (k * NCoh + c)) = IF Pulse(m.bits, k) THEN 1 ELSE 0
    BY <1>1, <1>6, HalfBitOnAir
  <2>2. ~(k < 0) /\ ~(k > 15 + 2 * NBits)
    BY <1>1, <1>6
  <2> QED
    BY <2>1, <2>2 DEF HalfBit
<1> QED
  BY <1>1, <1>4, <1>5, <1>6

\* The place of an index of a block in the stream: q half bits and r samples behind the
\* beginning of the message.
IsPlace(m, b, i, q, r) ==
  /\ q \in Int /\ r \in 0 .. NCoh - 1
  /\ b * Window + i - NzerosHead = m.start + (q * NCoh + r)

LEMMA PlaceOf ==
  ASSUME NEW m \in Heard, NEW b \in Nat, NEW i \in Int
  PROVE  \E q, r : IsPlace(m, b, i, q, r)
<1>1. NCoh \in Nat \ {0} /\ m.start \in Nat /\ b * Window \in Nat /\ NzerosHead \in Nat
  BY Sizes, HeardSizes
<1> DEFINE d == b * Window + i - NzerosHead - m.start
<1>2. d \in Int /\ b * Window + i - NzerosHead = m.start + d
  BY <1>1
<1> HIDE DEF d
<1>3. d \div NCoh \in Int /\ d % NCoh \in 0 .. NCoh - 1 /\ d = NCoh * (d \div NCoh) + (d % NCoh)
  BY <1>1, <1>2, Division
<1>4. NCoh * (d \div NCoh) = (d \div NCoh) * NCoh
  BY <1>1, <1>3
<1>5. IsPlace(m, b, i, d \div NCoh, d % NCoh)
  BY <1>2, <1>3, <1>4 DEF IsPlace
<1> QED
  BY <1>5

\* The samples of a block from an index behind the padding.
LEMMA SamplesFrom ==
  ASSUME NEW m \in Heard, NEW b \in Nat, NEW i \in Int, i >= NzerosHead,
         NEW q, NEW r, IsPlace(m, b, i, q, r),
         NEW j \in Nat, NEW c \in 0 .. NCoh - 1, i + j * NCoh + c < FftSize
  PROVE  Buffer(m, b)[i + j * NCoh + c] =
            IF c < NCoh - r THEN HalfBit(m, q + j) ELSE HalfBit(m, q + j + 1)
<1> DEFINE index == i + j * NCoh + c
<1>1. /\ NCoh \in Nat /\ NCoh >= 2 /\ FftSize \in Nat /\ NzerosHead \in Nat /\ b * Window \in Nat
      /\ m.start \in Nat /\ q \in Int /\ r \in 0 .. NCoh - 1
      /\ b * Window + i - NzerosHead = m.start + (q * NCoh + r)
  BY Sizes, HeardSizes DEF IsPlace
<1>2. j * NCoh \in Nat /\ q * NCoh \in Int
  BY <1>1
<1>3. index \in 0 .. FftSize - 1 /\ ~(index < NzerosHead)
  BY <1>1, <1>2
<1>4. b * Window + index - NzerosHead = m.start + (q * NCoh + j * NCoh + r + c)
  BY <1>1, <1>2
<1> HIDE DEF index
<1>5. Buffer(m, b)[index] = Amplitude(m, b * Window + index - NzerosHead)
  BY <1>3 DEF Buffer
<1>6. (q + j) * NCoh = q * NCoh + j * NCoh /\ (q + j + 1) * NCoh = q * NCoh + j * NCoh + NCoh
  BY <1>1
<1>7. CASE c < NCoh - r
  <2>1. r + c \in 0 .. NCoh - 1 /\ q * NCoh + j * NCoh + r + c = (q + j) * NCoh + (r + c)
    BY <1>1, <1>2, <1>6, <1>7
  <2>2. q + j \in Int
    BY <1>1
  <2>3. Amplitude(m, m.start + ((q + j) * NCoh + (r + c))) = HalfBit(m, q + j)
    BY <2>1, <2>2, StreamByHalfBits
  <2> QED
    BY <1>4, <1>5, <1>7, <2>1, <2>3 DEF index
<1>8. CASE ~(c < NCoh - r)
  <2>1. /\ r + c - NCoh \in 0 .. NCoh - 1
        /\ q * NCoh + j * NCoh + r + c = (q + j + 1) * NCoh + (r + c - NCoh)
    BY <1>1, <1>2, <1>6, <1>8
  <2>2. q + j + 1 \in Int
    BY <1>1
  <2>3. Amplitude(m, m.start + ((q + j + 1) * NCoh + (r + c - NCoh))) = HalfBit(m, q + j + 1)
    BY <2>1, <2>2, StreamByHalfBits
  <2> QED
    BY <1>4, <1>5, <1>8, <2>1, <2>3 DEF index
<1> QED
  BY <1>7, <1>8

\* What detect_preamble sums up over the half bits from an index of its window.
LEMMA HalfBitSums ==
  ASSUME NEW m \in Heard, NEW b \in Nat, NEW i \in Int, i >= NzerosHead, i + Preamble <= FftSize,
         NEW q, NEW r, IsPlace(m, b, i, q, r), NEW j \in 0 .. 15
  PROVE  Sum(Buffer(m, b), i + j * NCoh, i + (j + 1) * NCoh) =
            Amount(r, HalfBit(m, q + j), HalfBit(m, q + j + 1))
<1> DEFINE buf == Buffer(m, b)
<1> DEFINE a == i + j * NCoh
<1>1. NCoh \in Nat /\ NCoh >= 2 /\ Preamble = 16 * NCoh /\ FftSize \in Nat /\ r \in 0 .. NCoh - 1
  BY Sizes DEF IsPlace
<1>2. j * NCoh \in Nat /\ (j + 1) * NCoh = j * NCoh + NCoh /\ (j + 1) * NCoh <= 16 * NCoh
  BY <1>1
<1>3. a \in Int /\ a + NCoh = i + (j + 1) * NCoh /\ a + NCoh <= FftSize
  BY <1>1, <1>2
<1>4. ASSUME NEW c \in 0 .. NCoh - 1
      PROVE  buf[a + c] = IF c < NCoh - r THEN HalfBit(m, q + j) ELSE HalfBit(m, q + j + 1)
  <2>1. i + j * NCoh + c < FftSize /\ j \in Nat
    BY <1>1, <1>3
  <2> QED
    BY <2>1, SamplesFrom
<1> HIDE DEF buf, a
<1>5. Sum(buf, a, a + NCoh) = Amount(r, HalfBit(m, q + j), HalfBit(m, q + j + 1))
  <2> DEFINE before == HalfBit(m, q + j)
  <2> DEFINE after == HalfBit(m, q + j + 1)
  <2>1. before \in {0, 1} /\ after \in {0, 1}
    BY HalfBitIsBit
  <2>2. \A c \in 0 .. NCoh - 1 : buf[a + c] = IF c < NCoh - r THEN before ELSE after
    BY <1>4
  <2> HIDE DEF before, after
  <2>3. Sum(buf, a, a + NCoh) = Amount(r, before, after)
    <3>1. a \in Int /\ r \in 0 .. NCoh - 1
      BY <1>1, <1>3
    <3> QED
      BY <2>1, <2>2, <3>1, SumOfTwo
  <2> QED
    BY <2>3 DEF before, after
<1> QED
  BY <1>3, <1>5 DEF buf, a

-----------------------------------------------------------------------------
(* The correlation with the preamble.                                      *)

\* A signal is of zeros and ones.
IsSignal(buf) == \A n \in 0 .. FftSize - 1 : buf[n] \in {0, 1}

LEMMA BufferIsSignal ==
  ASSUME NEW m \in Heard, NEW b PROVE IsSignal(Buffer(m, b))
<1> SUFFICES ASSUME NEW n \in 0 .. FftSize - 1 PROVE Buffer(m, b)[n] \in {0, 1}
  BY DEF IsSignal
<1>1. Buffer(m, b)[n] = IF n < NzerosHead THEN 0 ELSE Amplitude(m, b * Window + n - NzerosHead)
  BY DEF Buffer
<1>2. Amplitude(m, b * Window + n - NzerosHead) \in {0, 1}
  BY AmplitudeIsBit DEF Heard
<1> QED
  BY <1>1, <1>2

LEMMA SumOfZeros ==
  ASSUME NEW f, NEW begin \in Int, NEW end \in Int, begin <= end,
         \A n \in begin .. end - 1 : f[n] = 0
  PROVE  Sum(f, begin, end) = 0
<1>1. /\ Sum(f, begin, end) \in Nat
      /\ (\A n \in begin .. end - 1 : f[n] = 0) =>
            Sum(f, begin, end) <= (end - begin) - (end - begin)
  <2>1. begin <= begin /\ end <= end /\ \A n \in begin .. end - 1 : f[n] \in {0, 1}
    OBVIOUS
  <2> QED
    BY <2>1, SumBounds
<1> QED
  BY <1>1

\* The template: the half bits of the preamble, each of NCoh samples.
LEMMA TemplateIs ==
  ASSUME NEW j \in 0 .. 15, NEW k \in j * NCoh .. (j + 1) * NCoh - 1
  PROVE  k \in 0 .. Preamble - 1 /\ Template[k] = IF j \in Pulses THEN 1 ELSE 0
<1>1. NCoh \in Nat /\ NCoh >= 2 /\ Preamble \in Nat \ {0} /\ Preamble = 16 * NCoh
  BY Sizes
<1>2. j * NCoh \in Nat /\ (j + 1) * NCoh = j * NCoh + NCoh /\ (j + 1) * NCoh <= 16 * NCoh
  BY <1>1
<1>3. k \in 0 .. Preamble - 1
  BY <1>1, <1>2
<1> DEFINE c == 16 * (k - j * NCoh)
<1>4. j * Preamble = 16 * (j * NCoh)
  BY <1>1
<1>5. 16 * k \in Nat /\ c \in 0 .. Preamble - 1 /\ 16 * k = j * Preamble + c
  BY <1>1, <1>2, <1>4
<1> HIDE DEF c
<1>6. (16 * k) \div Preamble = j
  BY <1>1, <1>5, QuotientIs
<1>7. Template[k] = IF (16 * k) \div Preamble \in Pulses THEN 1 ELSE 0
  BY <1>3 DEF Template
<1> QED
  BY <1>3, <1>6, <1>7

\* The sum over the four pulses from an index.
OverPulses(buf, i) ==
  Sum(buf, i + 0 * NCoh, i + 1 * NCoh) + Sum(buf, i + 2 * NCoh, i + 3 * NCoh)
    + Sum(buf, i + 7 * NCoh, i + 8 * NCoh) + Sum(buf, i + 9 * NCoh, i + 10 * NCoh)

\* The correlation with the preamble, for an index from which a preamble ends in the buffer.
LEMMA Correlates ==
  ASSUME NEW buf, IsSignal(buf), NEW i \in Nat, i + Preamble <= FftSize
  PROVE  Correlation(buf, Template, i) = Square(OverPulses(buf, i))
<1> DEFINE f == [k \in DOMAIN Template |-> Template[k] * buf[(i + k) % FftSize]]
<1>1. NCoh \in Nat /\ NCoh >= 2 /\ Preamble = 16 * NCoh /\ FftSize \in Nat \ {0}
  BY Sizes
<1>2. ASSUME NEW j \in 0 .. 15, NEW k \in j * NCoh .. (j + 1) * NCoh - 1
      PROVE  f[k] = (IF j \in Pulses THEN buf[i + k] ELSE 0) /\ buf[i + k] \in {0, 1}
  <2>1. k \in 0 .. Preamble - 1 /\ Template[k] = IF j \in Pulses THEN 1 ELSE 0
    BY TemplateIs
  <2>2. i + k \in 0 .. FftSize - 1
    BY <1>1, <2>1
  <2>3. (i + k) % FftSize = i + k
    <3>1. i + k = 0 * FftSize + (i + k) /\ i + k \in Nat
      BY <1>1, <2>2
    <3> QED
      BY <1>1, <2>2, <3>1, QuotientIs
  <2>4. buf[i + k] \in {0, 1}
    BY <2>2 DEF IsSignal
  <2>5. f[k] = Template[k] * buf[i + k]
    BY <2>1, <2>3 DEF Template
  <2> QED
    BY <2>1, <2>4, <2>5
<1>3. Correlation(buf, Template, i) = Square(Sum(f, 0, Preamble))
  BY DEF Correlation
<1> HIDE DEF f
<1>4. \A k \in 0 .. Preamble - 1 : f[k] \in Int
  <2> TAKE k \in 0 .. Preamble - 1
  <2> DEFINE j == k \div NCoh
  <2>1. k \in Nat /\ NCoh \in Nat \ {0}
    BY <1>1
  <2>2. j \in Nat /\ k = j * NCoh + (k % NCoh) /\ k % NCoh \in 0 .. NCoh - 1
    BY <2>1, Dividing
  <2>3. j < 16
    <3>1. k < NCoh * 16
      BY <1>1
    <3> QED
      BY <2>1, <3>1, QuotientBelow
  <2> HIDE DEF j
  <2>4. (j + 1) * NCoh = j * NCoh + NCoh
    BY <1>1, <2>2
  <2>5. j \in 0 .. 15 /\ k \in j * NCoh .. (j + 1) * NCoh - 1
    BY <1>1, <2>2, <2>3, <2>4
  <2> QED
    BY <1>2, <2>5
<1>5. ASSUME NEW j \in Pulses
      PROVE  Sum(f, j * NCoh, (j + 1) * NCoh) = Sum(buf, i + j * NCoh, i + (j + 1) * NCoh)
  <2>1. j \in 0 .. 15 /\ j \in Nat
    BY DEF Pulses
  <2> DEFINE a == j * NCoh
  <2>2. a \in Nat /\ (j + 1) * NCoh = a + NCoh /\ i + a \in Int
    BY <1>1, <2>1
  <2>3. \A n \in 0 .. NCoh - 1 : buf[i + a + n] \in Int /\ f[a + n] = buf[i + a + n]
    <3> TAKE n \in 0 .. NCoh - 1
    <3>1. a + n \in j * NCoh .. (j + 1) * NCoh - 1 /\ i + (a + n) = i + a + n
      BY <1>1, <2>2
    <3> HIDE DEF a
    <3> QED
      BY <1>2, <2>1, <3>1
  <2> HIDE DEF a
  <2>4. Sum(f, a, a + NCoh) = Sum(buf, i + a, i + a + NCoh)
    <3> DEFINE e == i + a
    <3>1. NCoh \in Nat /\ a \in Int /\ e \in Int
      BY <1>1, <2>2
    <3>2. Same(buf, f, e, a, NCoh)
      BY <2>3 DEF Same
    <3> HIDE DEF e
    <3>3. Sum(f, a, a + NCoh) = Sum(buf, e, e + NCoh)
      BY <3>1, <3>2, SumShifts
    <3> QED
      BY <3>3 DEF e
  <2>5. i + (j + 1) * NCoh = i + a + NCoh
    BY <1>1, <2>2
  <2> QED
    BY <2>2, <2>4, <2>5 DEF a
<1>6. ASSUME NEW from \in 0 .. 15, NEW to \in 0 .. 15, from <= to, \A j \in from .. to : j \notin Pulses
      PROVE  Sum(f, from * NCoh, (to + 1) * NCoh) = 0
  <2>1. /\ from * NCoh \in Nat /\ (to + 1) * NCoh \in Nat /\ from * NCoh <= (to + 1) * NCoh
    BY <1>1, <1>6
  <2>2. ASSUME NEW k \in from * NCoh .. (to + 1) * NCoh - 1 PROVE f[k] = 0
    <3> DEFINE j == k \div NCoh
    <3>1. k \in Nat /\ NCoh \in Nat \ {0}
      BY <1>1, <2>1
    <3>2. j \in Nat /\ k = j * NCoh + (k % NCoh) /\ k % NCoh \in 0 .. NCoh - 1
      BY <3>1, Dividing
    <3>3. j < to + 1
      <4>1. k < NCoh * (to + 1)
        BY <1>1, <2>1
      <4> QED
        BY <3>1, <4>1, QuotientBelow
    <3>4. ~(j < from)
      <4>1. ~(k < NCoh * from)
        BY <1>1, <2>1
      <4> QED
        BY <3>1, <4>1, QuotientBelow
    <3> HIDE DEF j
    <3>5. (j + 1) * NCoh = j * NCoh + NCoh
      BY <1>1, <3>2
    <3>6. j \in 0 .. 15 /\ j \in from .. to /\ k \in j * NCoh .. (j + 1) * NCoh - 1
      BY <1>1, <3>2, <3>3, <3>4, <3>5
    <3> QED
      BY <1>2, <1>6, <3>6
  <2> QED
    BY <2>1, <2>2, SumOfZeros
<1>7. ASSUME NEW p \in 0 .. 16, NEW q \in 0 .. 16, p <= q
      PROVE  /\ Sum(f, p * NCoh, q * NCoh) \in Int /\ Sum(f, q * NCoh, 16 * NCoh) \in Int
             /\ Sum(f, p * NCoh, 16 * NCoh) = Sum(f, p * NCoh, q * NCoh) + Sum(f, q * NCoh, 16 * NCoh)
  <2> DEFINE a == p * NCoh
  <2> DEFINE b == q * NCoh
  <2> DEFINE c == 16 * NCoh
  <2>1. a \in Nat /\ b \in Nat /\ c \in Nat /\ a <= b /\ b <= c /\ c = Preamble
    BY <1>1, <1>7
  <2> HIDE DEF a, b, c
  <2>2. \A n \in a .. c - 1 : f[n] \in Int
    BY <1>4, <2>1
  <2>3. /\ Sum(f, a, b) \in Int /\ Sum(f, b, c) \in Int
        /\ Sum(f, a, c) = Sum(f, a, b) + Sum(f, b, c)
    BY <2>1, <2>2, SumSplits
  <2> QED
    BY <2>3 DEF a, b, c
<1> DEFINE S(p, q) == Sum(f, p * NCoh, q * NCoh)
<1>8. S(0, 16) = S(0, 1) + S(1, 2) + S(2, 3) + S(3, 7) + S(7, 8) + S(8, 9) + S(9, 10) + S(10, 16)
  <2>1. \A p, q \in 0 .. 16 : p <= q =>
           S(p, q) \in Int /\ S(q, 16) \in Int /\ S(p, 16) = S(p, q) + S(q, 16)
    BY <1>7
  <2> HIDE DEF S
  <2>2. /\ S(0, 1) \in Int /\ S(1, 16) \in Int /\ S(0, 16) = S(0, 1) + S(1, 16)
        /\ S(1, 2) \in Int /\ S(2, 16) \in Int /\ S(1, 16) = S(1, 2) + S(2, 16)
        /\ S(2, 3) \in Int /\ S(3, 16) \in Int /\ S(2, 16) = S(2, 3) + S(3, 16)
        /\ S(3, 7) \in Int /\ S(7, 16) \in Int /\ S(3, 16) = S(3, 7) + S(7, 16)
    BY <2>1
  <2>3. /\ S(7, 8) \in Int /\ S(8, 16) \in Int /\ S(7, 16) = S(7, 8) + S(8, 16)
        /\ S(8, 9) \in Int /\ S(9, 16) \in Int /\ S(8, 16) = S(8, 9) + S(9, 16)
        /\ S(9, 10) \in Int /\ S(10, 16) \in Int /\ S(9, 16) = S(9, 10) + S(10, 16)
    BY <2>1
  <2> QED
    BY <2>2, <2>3
<1>9. S(1, 2) = 0 /\ S(3, 7) = 0 /\ S(8, 9) = 0 /\ S(10, 16) = 0
  <2>1. /\ \A j \in 1 .. 1 : j \notin Pulses
        /\ \A j \in 3 .. 6 : j \notin Pulses
        /\ \A j \in 8 .. 8 : j \notin Pulses
        /\ \A j \in 10 .. 15 : j \notin Pulses
    BY DEF Pulses
  <2>2. Sum(f, 1 * NCoh, (1 + 1) * NCoh) = 0
    BY <1>6, <2>1
  <2>3. Sum(f, 3 * NCoh, (6 + 1) * NCoh) = 0
    BY <1>6, <2>1
  <2>4. Sum(f, 8 * NCoh, (8 + 1) * NCoh) = 0
    BY <1>6, <2>1
  <2>5. Sum(f, 10 * NCoh, (15 + 1) * NCoh) = 0
    BY <1>6, <2>1
  <2>6. 1 + 1 = 2 /\ 6 + 1 = 7 /\ 8 + 1 = 9 /\ 15 + 1 = 16
    OBVIOUS
  <2> QED
    BY <2>2, <2>3, <2>4, <2>5, <2>6
<1>10. /\ S(0, 1) = Sum(buf, i + 0 * NCoh, i + 1 * NCoh)
       /\ S(2, 3) = Sum(buf, i + 2 * NCoh, i + 3 * NCoh)
       /\ S(7, 8) = Sum(buf, i + 7 * NCoh, i + 8 * NCoh)
       /\ S(9, 10) = Sum(buf, i + 9 * NCoh, i + 10 * NCoh)
  <2>1. 0 \in Pulses /\ 2 \in Pulses /\ 7 \in Pulses /\ 9 \in Pulses
    BY DEF Pulses
  <2>2. 0 + 1 = 1 /\ 2 + 1 = 3 /\ 7 + 1 = 8 /\ 9 + 1 = 10
    OBVIOUS
  <2>3. Sum(f, 0 * NCoh, (0 + 1) * NCoh) = Sum(buf, i + 0 * NCoh, i + (0 + 1) * NCoh)
    BY <1>5, <2>1
  <2>4. Sum(f, 2 * NCoh, (2 + 1) * NCoh) = Sum(buf, i + 2 * NCoh, i + (2 + 1) * NCoh)
    BY <1>5, <2>1
  <2>5. Sum(f, 7 * NCoh, (7 + 1) * NCoh) = Sum(buf, i + 7 * NCoh, i + (7 + 1) * NCoh)
    BY <1>5, <2>1
  <2>6. Sum(f, 9 * NCoh, (9 + 1) * NCoh) = Sum(buf, i + 9 * NCoh, i + (9 + 1) * NCoh)
    BY <1>5, <2>1
  <2> QED
    BY <2>2, <2>3, <2>4, <2>5, <2>6
<1>11. S(0, 16) = OverPulses(buf, i)
  <2>1. /\ S(0, 1) \in Int /\ S(2, 3) \in Int /\ S(7, 8) \in Int /\ S(9, 10) \in Int
    BY <1>7
  <2> HIDE DEF S
  <2> QED
    BY <1>8, <1>9, <1>10, <2>1 DEF OverPulses
<1>12. S(0, 16) = Sum(f, 0, Preamble)
  <2>1. 0 * NCoh = 0 /\ 16 * NCoh = Preamble
    BY <1>1
  <2> QED
    BY <2>1
<1> QED
  BY <1>3, <1>11, <1>12

-----------------------------------------------------------------------------
(* Where a preamble is and where none can be.                              *)

LEMMA SquaresCompare ==
  ASSUME NEW x \in Nat, NEW y \in Nat
  PROVE  /\ Square(x) \in Nat
         /\ Square(x) < Square(y) <=> x < y
         /\ Square(x) <= Square(y) <=> x <= y
<1>1. x < y => x * x < y * y
  OBVIOUS
<1>2. x >= y => x * x >= y * y
  OBVIOUS
<1>3. x > y => x * x > y * y
  OBVIOUS
<1>4. x * x \in Nat /\ y * y \in Nat
  OBVIOUS
<1> QED
  BY <1>1, <1>2, <1>3, <1>4 DEF Square

\* On half bits, the pulses are where they are in a preamble.
LEMMA PulsesOnly ==
  ASSUME NEW h0 \in {0, 1}, NEW h1 \in {0, 1}, NEW h2 \in {0, 1}, NEW h3 \in {0, 1},
         NEW h4 \in {0, 1}, NEW h5 \in {0, 1}, NEW h6 \in {0, 1}, NEW h7 \in {0, 1},
         NEW h8 \in {0, 1}, NEW h9 \in {0, 1}, NEW h10 \in {0, 1},
         Amount(0, h0, h1) > Amount(0, h1, h2),
         Amount(0, h1, h2) < Amount(0, h2, h3),
         Amount(0, h3, h4) < Amount(0, h0, h1),
         Amount(0, h4, h5) < Amount(0, h0, h1),
         Amount(0, h5, h6) < Amount(0, h0, h1),
         Amount(0, h6, h7) < Amount(0, h0, h1),
         Amount(0, h7, h8) > Amount(0, h8, h9),
         Amount(0, h8, h9) < Amount(0, h9, h10)
  PROVE  /\ h0 = 1 /\ h1 = 0 /\ h2 = 1 /\ h3 = 0 /\ h4 = 0 /\ h5 = 0 /\ h6 = 0
         /\ h7 = 1 /\ h8 = 0 /\ h9 = 1
<1>1. NCoh \in Nat /\ NCoh >= 2
  BY Sizes
<1> QED
  BY <1>1 DEF Amount

\* A message has its preamble at its beginning only.
LEMMA NoPreambleInside ==
  ASSUME NEW m \in Heard, NEW q \in Int,
         HalfBit(m, q) = 1, HalfBit(m, q + 2) = 1, HalfBit(m, q + 3) = 0, HalfBit(m, q + 4) = 0,
         HalfBit(m, q + 5) = 0, HalfBit(m, q + 6) = 0, HalfBit(m, q + 7) = 1,
         HalfBit(m, q + 8) = 0, HalfBit(m, q + 9) = 1
  PROVE  q = 0
<1>1. NBits \in Nat /\ m.bits \in AllBits /\ m.behind \in {0, 1}
  BY Sizes DEF Heard
<1>2. q >= 0
  BY DEF HalfBit
<1>3. ASSUME NEW k \in 0 .. 15 PROVE HalfBit(m, k) = IF k \in Pulses THEN 1 ELSE 0
  BY <1>1, <1>3 DEF HalfBit, Pulse
<1>4. ASSUME q \in 1 .. 15 PROVE FALSE
  <2>1. q \in {2, 7, 9}
    BY <1>3, <1>4 DEF Pulses
  <2>2. HalfBit(m, 4) = 0 /\ HalfBit(m, 14) = 0 /\ HalfBit(m, 11) = 0
    BY <1>3 DEF Pulses
  <2>3. q + 2 = 4 \/ q + 7 = 14 \/ q + 2 = 11
    BY <2>1
  <2> QED
    BY <2>2, <2>3
<1>5. ASSUME q >= 16 PROVE FALSE
  <2>1. q + 6 <= 15 + 2 * NBits
    <3>1. CASE m.behind = 0
      <4>1. ~(q + 7 < 0) /\ ~(q + 7 > 15 + 2 * NBits)
        BY <1>5, <3>1 DEF HalfBit
      <4> QED
        BY <1>1, <4>1
    <3>2. CASE m.behind = 1
      <4>1. ~(q + 6 < 0) /\ ~(q + 6 > 15 + 2 * NBits)
        BY <1>5, <3>2 DEF HalfBit
      <4> QED
        BY <1>1, <4>1
    <3> QED
      BY <1>1, <3>1, <3>2
  <2>2. PICK k \in 0 .. NBits - 1 : 16 + 2 * k \in {q + 3, q + 4}
    <3> DEFINE d == q + 4 - 16
    <3> DEFINE k == d \div 2
    <3>1. d \in Nat /\ q = d + 12
      BY <1>5
    <3> HIDE DEF d
    <3>2. k \in Nat /\ (d = 2 * k \/ d = 2 * k + 1)
      BY <3>1
    <3> HIDE DEF k
    <3>3. 16 + 2 * k \in {q + 3, q + 4}
      BY <3>1, <3>2
    <3>4. k \in 0 .. NBits - 1
      BY <1>1, <2>1, <3>1, <3>2
    <3> QED
      BY <3>3, <3>4
  <2> DEFINE e == 16 + 2 * k
  <2>3. (Pulse(m.bits, e) <=> m.bits[k]) /\ (Pulse(m.bits, e + 1) <=> ~m.bits[k])
    BY <1>1, PulseOfBit
  <2>4. /\ ~(e < 0) /\ ~(e > 15 + 2 * NBits) /\ ~(e + 1 < 0) /\ ~(e + 1 > 15 + 2 * NBits)
        /\ e \in {q + 3, q + 4} /\ e + 1 \in {q + 4, q + 5}
    BY <1>1, <2>2
  <2> HIDE DEF e
  <2>5. /\ HalfBit(m, e) = IF Pulse(m.bits, e) THEN 1 ELSE 0
        /\ HalfBit(m, e + 1) = IF Pulse(m.bits, e + 1) THEN 1 ELSE 0
    BY <2>4 DEF HalfBit
  <2>6. HalfBit(m, e) = 0 /\ HalfBit(m, e + 1) = 0
    BY <2>4
  <2> QED
    BY <2>3, <2>5, <2>6
<1> QED
  BY <1>2, <1>4, <1>5

-----------------------------------------------------------------------------
(* What is found in the window of a block.                                 *)

\* An index of the window of a block.
InWindow(i) == i \in NzerosHead .. NzerosHead + Window - 1

LEMMA WindowSizes ==
  ASSUME NEW i, InWindow(i)
  PROVE  /\ i \in Nat /\ i >= NzerosHead /\ i >= 16 * NCoh - 1
         /\ i + 18 * NCoh < FftSize /\ i + Preamble + LongData < FftSize
<1>1. /\ NCoh \in Nat /\ NCoh >= 2 /\ NBits \in Nat /\ Preamble = 16 * NCoh
      /\ LongData \in Nat /\ LongData = 2 * NBits * NCoh
      /\ NzerosHead = 16 * NCoh - 1 /\ Window \in Nat /\ FftSize \in Nat
      /\ FftSize = Window + NzerosHead + Preamble + LongData
  BY Sizes
<1>2. LongData >= 2 * NCoh
  <2>1. NBits >= 1
    <3>1. LongData # 0
      BY AlgoAssumption
    <3>2. NBits = 0 => 2 * NBits * NCoh = 0
      BY <1>1
    <3> QED
      BY <1>1, <3>1, <3>2
  <2>2. 2 * NBits * NCoh = NBits * (2 * NCoh)
    BY <1>1
  <2>3. NBits * (2 * NCoh) >= 1 * (2 * NCoh)
    BY <1>1, <2>1
  <2> QED
    BY <1>1, <2>2, <2>3
<1> QED
  BY <1>1, <1>2 DEF InWindow

\* The amplitude of half bit j of a preamble at a place.
Half(m, q, r, j) == Amount(r, HalfBit(m, q + j), HalfBit(m, q + j + 1))

LEMMA HalfIsNat ==
  ASSUME NEW m, NEW q, NEW r \in 0 .. NCoh - 1, NEW j
  PROVE  Half(m, q, r, j) \in 0 .. NCoh
BY Sizes DEF Half, Amount

LEMMA HalfBitsAre ==
  ASSUME NEW m \in Heard, NEW b \in Nat, NEW i, InWindow(i), NEW q, NEW r, IsPlace(m, b, i, q, r),
         NEW j \in 0 .. 15
  PROVE  HalfBits(Buffer(m, b), i)[j] = Square(Half(m, q, r, j))
<1>1. i \in Int /\ i >= NzerosHead /\ i + Preamble <= FftSize
  BY WindowSizes, Sizes
<1>2. Sum(Buffer(m, b), i + j * NCoh, i + (j + 1) * NCoh) = Half(m, q, r, j)
  BY <1>1, HalfBitSums DEF Half
<1> QED
  BY <1>2 DEF HalfBits

\* What HasShape compares, without the squares.
LEMMA ShapeOfHalves ==
  ASSUME NEW m \in Heard, NEW b \in Nat, NEW i, InWindow(i), NEW q, NEW r, IsPlace(m, b, i, q, r),
         HasShape(HalfBits(Buffer(m, b), i))
  PROVE  LET a(j) == Half(m, q, r, j)
         IN  /\ a(0) > a(1) /\ a(1) < a(2) /\ a(2) > a(3)
             /\ \A j \in 3 .. 6 : a(j) < a(0)
             /\ a(7) > a(8) /\ a(8) < a(9) /\ a(9) > a(6)
<1> DEFINE a(j) == Half(m, q, r, j)
<1> DEFINE p == HalfBits(Buffer(m, b), i)
<1>1. \A j \in 0 .. 15 : p[j] = Square(a(j))
  BY HalfBitsAre
<1>2. \A j \in 0 .. 15 : a(j) \in Nat
  <2>1. r \in 0 .. NCoh - 1 /\ NCoh \in Nat
    BY Sizes DEF IsPlace
  <2>2. \A j \in 0 .. 15 : a(j) \in 0 .. NCoh
    BY <2>1, HalfIsNat
  <2> QED
    BY <2>1, <2>2
<1>3. /\ p[0] > p[1] /\ p[1] < p[2] /\ p[2] > p[3]
      /\ \A j \in 3 .. 6 : p[j] < p[0]
      /\ p[7] > p[8] /\ p[8] < p[9] /\ p[9] > p[6]
  BY DEF HasShape
<1> HIDE DEF a, p
<1>4. \A j, k \in 0 .. 15 : p[j] < p[k] <=> a(j) < a(k)
  BY <1>1, <1>2, SquaresCompare
<1>5. \A j, k \in 0 .. 15 : p[j] > p[k] <=> a(j) > a(k)
  BY <1>1, <1>2, SquaresCompare
<1>6. /\ a(0) > a(1) /\ a(1) < a(2) /\ a(2) > a(3)
      /\ a(7) > a(8) /\ a(8) < a(9) /\ a(9) > a(6)
  BY <1>3, <1>4, <1>5
<1>7. \A j \in 3 .. 6 : a(j) < a(0)
  BY <1>3, <1>4
<1> QED
  BY <1>6, <1>7 DEF a

\* On the half bits of the message only its beginning looks like a preamble.
LEMMA AlignedIsStart ==
  ASSUME NEW m \in Heard, NEW b \in Nat, NEW i, InWindow(i), NEW q, IsPlace(m, b, i, q, 0),
         HasShape(HalfBits(Buffer(m, b), i))
  PROVE  q = 0
<1> DEFINE h(k) == HalfBit(m, q + k)
<1>1. q \in Int
  BY DEF IsPlace
<1>2. \A k \in 0 .. 10 : h(k) \in {0, 1}
  BY HalfBitIsBit
<1>3. LET a(j) == Half(m, q, 0, j)
      IN  /\ a(0) > a(1) /\ a(1) < a(2) /\ a(2) > a(3)
          /\ \A j \in 3 .. 6 : a(j) < a(0)
          /\ a(7) > a(8) /\ a(8) < a(9) /\ a(9) > a(6)
  BY ShapeOfHalves
<1>4. \A j \in 0 .. 9 : Half(m, q, 0, j) = Amount(0, h(j), h(j + 1))
  <2> TAKE j \in 0 .. 9
  <2>1. q + j + 1 = q + (j + 1)
    BY <1>1
  <2> QED
    BY <2>1 DEF Half
<1> HIDE DEF h
<1>5. /\ Amount(0, h(0), h(1)) > Amount(0, h(1), h(2))
      /\ Amount(0, h(1), h(2)) < Amount(0, h(2), h(3))
      /\ Amount(0, h(3), h(4)) < Amount(0, h(0), h(1))
      /\ Amount(0, h(4), h(5)) < Amount(0, h(0), h(1))
      /\ Amount(0, h(5), h(6)) < Amount(0, h(0), h(1))
      /\ Amount(0, h(6), h(7)) < Amount(0, h(0), h(1))
      /\ Amount(0, h(7), h(8)) > Amount(0, h(8), h(9))
      /\ Amount(0, h(8), h(9)) < Amount(0, h(9), h(10))
  BY <1>3, <1>4
<1>6. /\ h(0) = 1 /\ h(1) = 0 /\ h(2) = 1 /\ h(3) = 0 /\ h(4) = 0 /\ h(5) = 0 /\ h(6) = 0
      /\ h(7) = 1 /\ h(8) = 0 /\ h(9) = 1
  BY <1>2, <1>5, PulsesOnly
<1>7. HalfBit(m, q) = 1
  <2>1. q + 0 = q
    BY <1>1
  <2> QED
    BY <1>6, <2>1 DEF h
<1> QED
  BY <1>1, <1>6, <1>7, NoPreambleInside DEF h

\* The sum over the pulses, one sample on.
LEMMA PulsesSlide ==
  ASSUME NEW buf, IsSignal(buf), NEW i \in Nat, i + Preamble < FftSize
  PROVE  /\ OverPulses(buf, i) \in Nat
         /\ OverPulses(buf, i + 1) - OverPulses(buf, i)
               = (buf[i + 1 * NCoh] - buf[i + 0 * NCoh]) + (buf[i + 3 * NCoh] - buf[i + 2 * NCoh])
                 + (buf[i + 8 * NCoh] - buf[i + 7 * NCoh]) + (buf[i + 10 * NCoh] - buf[i + 9 * NCoh])
<1>1. NCoh \in Nat /\ NCoh >= 2 /\ Preamble = 16 * NCoh /\ FftSize \in Nat
  BY Sizes
<1>2. ASSUME NEW j \in 0 .. 15
      PROVE  /\ Sum(buf, i + j * NCoh, i + (j + 1) * NCoh) \in Nat
             /\ buf[i + j * NCoh] \in {0, 1} /\ buf[i + (j + 1) * NCoh] \in {0, 1}
             /\ Sum(buf, i + 1 + j * NCoh, i + 1 + (j + 1) * NCoh)
                  = Sum(buf, i + j * NCoh, i + (j + 1) * NCoh)
                    + buf[i + (j + 1) * NCoh] - buf[i + j * NCoh]
  <2> DEFINE a == i + j * NCoh
  <2>1. j * NCoh \in Nat /\ (j + 1) * NCoh = j * NCoh + NCoh /\ (j + 1) * NCoh <= 16 * NCoh
    BY <1>1
  <2>2. a \in Nat /\ a + NCoh < FftSize /\ i + (j + 1) * NCoh = a + NCoh
        /\ i + 1 + j * NCoh = a + 1 /\ i + 1 + (j + 1) * NCoh = a + 1 + NCoh
    BY <1>1, <2>1
  <2> HIDE DEF a
  <2>3. \A n \in a .. a + NCoh : buf[n] \in {0, 1}
    BY <1>1, <2>2 DEF IsSignal
  <2>4. a \in Int /\ \A n \in a .. a + NCoh : buf[n] \in Int
    BY <2>2, <2>3
  <2>5. /\ Sum(buf, a, a + NCoh) \in Int
        /\ Sum(buf, a + 1, a + 1 + NCoh) = Sum(buf, a, a + NCoh) + buf[a + NCoh] - buf[a]
    BY <1>1, <2>4, SumSlides
  <2>6. Sum(buf, a, a + NCoh) \in Nat
    <3>1. a + NCoh \in Int /\ a <= a /\ a <= a + NCoh /\ a + NCoh <= a + NCoh
      BY <1>1, <2>2
    <3>2. \A n \in a .. (a + NCoh) - 1 : buf[n] \in {0, 1}
      BY <1>1, <2>3, <2>4
    <3> QED
      BY <2>4, <3>1, <3>2, SumBounds
  <2>7. buf[a] \in {0, 1} /\ buf[a + NCoh] \in {0, 1}
    BY <1>1, <2>3, <2>4
  <2> QED
    BY <2>2, <2>5, <2>6, <2>7 DEF a
<1> DEFINE S(k, j) == Sum(buf, k + j * NCoh, k + (j + 1) * NCoh)
<1> DEFINE x(j) == buf[i + j * NCoh]
<1>3. \A j \in 0 .. 15 : /\ S(i, j) \in Nat /\ x(j) \in {0, 1} /\ x(j + 1) \in {0, 1}
                         /\ S(i + 1, j) = S(i, j) + x(j + 1) - x(j)
  BY <1>2
<1>4. \A k : OverPulses(buf, k) = S(k, 0) + S(k, 2) + S(k, 7) + S(k, 9)
  BY DEF OverPulses
<1> HIDE DEF S, x
<1>5. /\ S(i + 1, 0) = S(i, 0) + x(1) - x(0)
      /\ S(i + 1, 2) = S(i, 2) + x(3) - x(2)
      /\ S(i + 1, 7) = S(i, 7) + x(8) - x(7)
      /\ S(i + 1, 9) = S(i, 9) + x(10) - x(9)
      /\ {S(i, 0), S(i, 2), S(i, 7), S(i, 9)} \subseteq Nat
      /\ {x(0), x(1), x(2), x(3), x(7), x(8), x(9), x(10)} \subseteq {0, 1}
  BY <1>3
<1>6. /\ OverPulses(buf, i) \in Nat
      /\ OverPulses(buf, i + 1) - OverPulses(buf, i)
            = (x(1) - x(0)) + (x(3) - x(2)) + (x(8) - x(7)) + (x(10) - x(9))
  BY <1>4, <1>5
<1> QED
  BY <1>6 DEF x

\* Of a peak of the correlation with the preamble that is compared with the samples on
\* both its sides: it is nowhere between two half bits.
LEMMA PeakIsAligned ==
  ASSUME NCoh >= 4, NEW m \in Heard, NEW b \in Nat, NEW i, InWindow(i), NEW q, NEW r, IsPlace(m, b, i, q, r),
         HasShape(HalfBits(Buffer(m, b), i)), IsSignificant(Buffer(m, b), Template, i)
  PROVE  r = 0
<1> SUFFICES ASSUME r # 0 PROVE FALSE
  OBVIOUS
<1> DEFINE h(k) == HalfBit(m, q + k)
<1> DEFINE buf == Buffer(m, b)
<1>1. /\ q \in Int /\ r \in 1 .. NCoh - 1 /\ NCoh \in Nat /\ NCoh >= 4
      /\ FftSize \in Nat /\ Preamble = 16 * NCoh
  BY Sizes DEF IsPlace
<1>2. /\ i \in Nat /\ i >= NzerosHead /\ i >= 16 * NCoh - 1 /\ i + 18 * NCoh < FftSize
  BY WindowSizes
<1>3. IsSignal(buf)
  BY BufferIsSignal
<1>4. \A k \in 0 .. 10 : h(k) \in {0, 1}
  BY HalfBitIsBit
<1>5. \A k \in 0 .. 10 : buf[i + k * NCoh] = h(k)
  <2> TAKE k \in 0 .. 10
  <2>1. k * NCoh \in Nat /\ k * NCoh <= 10 * NCoh
    BY <1>1
  <2>2. k \in Nat /\ 0 \in 0 .. NCoh - 1 /\ i + k * NCoh + 0 < FftSize /\ 0 < NCoh - r
        /\ i + k * NCoh + 0 = i + k * NCoh
    BY <1>1, <1>2, <2>1
  <2>3. buf[i + k * NCoh + 0] = IF 0 < NCoh - r THEN HalfBit(m, q + k) ELSE HalfBit(m, q + k + 1)
    BY <1>2, <2>2, SamplesFrom
  <2> QED
    BY <2>2, <2>3
<1>6. \A k \in 1 .. 10 : buf[i - 1 + k * NCoh] = h(k)
  <2> TAKE k \in 1 .. 10
  <2> DEFINE j == k - 1
  <2> DEFINE c == NCoh - 1
  <2>1. j \in Nat /\ c \in 0 .. NCoh - 1 /\ ~(c < NCoh - r) /\ j * NCoh = k * NCoh - NCoh
        /\ k * NCoh \in Nat /\ k * NCoh <= 10 * NCoh /\ q + j + 1 = q + k
    BY <1>1
  <2>2. i + j * NCoh + c < FftSize /\ i + j * NCoh + c = i - 1 + k * NCoh
    BY <1>1, <1>2, <2>1
  <2> HIDE DEF j, c
  <2>3. buf[i + j * NCoh + c] = IF c < NCoh - r THEN HalfBit(m, q + j) ELSE HalfBit(m, q + j + 1)
    BY <1>2, <2>1, <2>2, SamplesFrom
  <2> QED
    BY <2>1, <2>2, <2>3
<1> DEFINE g == (h(1) - h(0)) + (h(3) - h(2)) + (h(8) - h(7)) + (h(10) - h(9))
<1>7. LET a(j) == Half(m, q, r, j)
      IN  /\ a(0) > a(1) /\ a(1) < a(2) /\ a(2) > a(3)
          /\ \A j \in 3 .. 6 : a(j) < a(0)
          /\ a(7) > a(8) /\ a(8) < a(9) /\ a(9) > a(6)
  BY ShapeOfHalves
<1>8. \A j \in 0 .. 9 : Half(m, q, r, j) = Amount(r, h(j), h(j + 1))
  <2> TAKE j \in 0 .. 9
  <2>1. q + j + 1 = q + (j + 1)
    BY <1>1
  <2> QED
    BY <2>1 DEF Half
<1> HIDE DEF h, buf
<1>9. /\ h(0) \in {0, 1} /\ h(1) \in {0, 1} /\ h(2) \in {0, 1} /\ h(3) \in {0, 1}
      /\ h(4) \in {0, 1} /\ h(5) \in {0, 1} /\ h(6) \in {0, 1} /\ h(7) \in {0, 1}
      /\ h(8) \in {0, 1} /\ h(9) \in {0, 1} /\ h(10) \in {0, 1}
  BY <1>4
<1>10. g \notin {-1, 0}
  <2>1. /\ Amount(r, h(0), h(1)) > Amount(r, h(1), h(2))
        /\ Amount(r, h(1), h(2)) < Amount(r, h(2), h(3))
        /\ Amount(r, h(2), h(3)) > Amount(r, h(3), h(4))
        /\ Amount(r, h(3), h(4)) < Amount(r, h(0), h(1))
        /\ Amount(r, h(4), h(5)) < Amount(r, h(0), h(1))
        /\ Amount(r, h(5), h(6)) < Amount(r, h(0), h(1))
        /\ Amount(r, h(6), h(7)) < Amount(r, h(0), h(1))
        /\ Amount(r, h(7), h(8)) > Amount(r, h(8), h(9))
        /\ Amount(r, h(8), h(9)) < Amount(r, h(9), h(10))
        /\ Amount(r, h(9), h(10)) > Amount(r, h(6), h(7))
    <3>1. /\ Half(m, q, r, 0) = Amount(r, h(0), h(1)) /\ Half(m, q, r, 1) = Amount(r, h(1), h(2))
          /\ Half(m, q, r, 2) = Amount(r, h(2), h(3)) /\ Half(m, q, r, 3) = Amount(r, h(3), h(4))
          /\ Half(m, q, r, 4) = Amount(r, h(4), h(5)) /\ Half(m, q, r, 5) = Amount(r, h(5), h(6))
          /\ Half(m, q, r, 6) = Amount(r, h(6), h(7)) /\ Half(m, q, r, 7) = Amount(r, h(7), h(8))
          /\ Half(m, q, r, 8) = Amount(r, h(8), h(9)) /\ Half(m, q, r, 9) = Amount(r, h(9), h(10))
      BY <1>8
    <3>2. \A j \in 3 .. 6 : Half(m, q, r, j) < Half(m, q, r, 0)
      BY <1>7, Zenon
    <3>3. /\ Half(m, q, r, 0) > Half(m, q, r, 1) /\ Half(m, q, r, 1) < Half(m, q, r, 2)
          /\ Half(m, q, r, 2) > Half(m, q, r, 3)
          /\ Half(m, q, r, 7) > Half(m, q, r, 8) /\ Half(m, q, r, 8) < Half(m, q, r, 9)
          /\ Half(m, q, r, 9) > Half(m, q, r, 6)
      BY <1>7, Zenon
    <3> QED
      BY <3>1, <3>2, <3>3
  <2> QED
    \* Where pulses seem to stand out, the correlation rises to one side or the other.
    <3>1. r \in 1 .. NCoh - 1
      BY <1>1
    <3>2. (h(1) - h(0)) + (h(3) - h(2)) + (h(8) - h(7)) + (h(10) - h(9)) \notin {-1, 0}
      BY <1>1, <3>1, <1>9, <2>1 DEF Amount
    <3> QED
      BY <1>9, <3>2
<1>11. \A j \in {i - 1, i + 1} : OverPulses(buf, j) <= OverPulses(buf, i)
  <2> DEFINE half == NCoh \div 2
  <2> DEFINE left == IF i > half THEN i - half ELSE 0
  <2> DEFINE right == Smallest(i + half, FftSize)
  <2>1. half \in Nat /\ half >= 2 /\ half <= NCoh
    BY <1>1
  <2> HIDE DEF half
  <2>2. left = i - half /\ right = i + half
    BY <1>1, <1>2, <2>1 DEF Smallest
  <2>3. \A j \in left .. right - 1 : Correlation(buf, Template, j) <= Correlation(buf, Template, i)
    BY Zenon DEF IsSignificant, buf, half
  <2> TAKE j \in {i - 1, i + 1}
  <2>4. j \in left .. right - 1
    BY <1>2, <2>1, <2>2
  <2>5. j \in Nat /\ j + Preamble < FftSize /\ i + Preamble < FftSize
        /\ j + Preamble <= FftSize /\ i + Preamble <= FftSize
    BY <1>1, <1>2
  <2> HIDE DEF left, right
  <2>6. Square(OverPulses(buf, j)) <= Square(OverPulses(buf, i))
    <3>1. Correlation(buf, Template, j) = Square(OverPulses(buf, j))
      BY <1>3, <2>5, Correlates
    <3>2. Correlation(buf, Template, i) = Square(OverPulses(buf, i))
      BY <1>2, <1>3, <2>5, Correlates
    <3> QED
      BY <2>3, <2>4, <3>1, <3>2
  <2>7. OverPulses(buf, j) \in Nat /\ OverPulses(buf, i) \in Nat
    BY <1>2, <1>3, <2>5, PulsesSlide
  <2> QED
    BY <2>6, <2>7, SquaresCompare
<1>12. g <= 0
  <2>1. /\ OverPulses(buf, i) \in Nat
        /\ OverPulses(buf, i + 1) - OverPulses(buf, i)
               = (buf[i + 1 * NCoh] - buf[i + 0 * NCoh]) + (buf[i + 3 * NCoh] - buf[i + 2 * NCoh])
                 + (buf[i + 8 * NCoh] - buf[i + 7 * NCoh]) + (buf[i + 10 * NCoh] - buf[i + 9 * NCoh])
    BY <1>1, <1>2, <1>3, PulsesSlide
  <2>2. OverPulses(buf, i + 1) \in Nat
    BY <1>1, <1>2, <1>3, PulsesSlide
  <2>3. OverPulses(buf, i + 1) <= OverPulses(buf, i)
    BY <1>11
  <2>4. /\ buf[i + 0 * NCoh] = h(0) /\ buf[i + 1 * NCoh] = h(1) /\ buf[i + 2 * NCoh] = h(2)
        /\ buf[i + 3 * NCoh] = h(3) /\ buf[i + 7 * NCoh] = h(7) /\ buf[i + 8 * NCoh] = h(8)
        /\ buf[i + 9 * NCoh] = h(9) /\ buf[i + 10 * NCoh] = h(10)
    BY <1>5
  <2>5. OverPulses(buf, i + 1) - OverPulses(buf, i) = g
    BY <2>1, <2>4
  <2> HIDE DEF g
  <2>6. g \in Int
    BY <1>9 DEF g
  <2> QED
    BY <2>1, <2>2, <2>3, <2>5, <2>6
<1>13. g >= -1
  <2> DEFINE p == i - 1
  <2>1. p \in Nat /\ p + 1 = i /\ p + Preamble < FftSize
    BY <1>1, <1>2
  <2> HIDE DEF p
  <2>2. /\ OverPulses(buf, p) \in Nat
        /\ OverPulses(buf, p + 1) - OverPulses(buf, p)
               = (buf[p + 1 * NCoh] - buf[p + 0 * NCoh]) + (buf[p + 3 * NCoh] - buf[p + 2 * NCoh])
                 + (buf[p + 8 * NCoh] - buf[p + 7 * NCoh]) + (buf[p + 10 * NCoh] - buf[p + 9 * NCoh])
    BY <1>3, <2>1, PulsesSlide
  <2>3. OverPulses(buf, p) <= OverPulses(buf, i) /\ OverPulses(buf, i) \in Nat
    <3>1. i \in Nat /\ i + Preamble < FftSize
      BY <1>1, <1>2
    <3> QED
      BY <1>3, <1>11, <3>1, PulsesSlide DEF p
  <2>4. /\ buf[p + 1 * NCoh] = h(1) /\ buf[p + 2 * NCoh] = h(2)
        /\ buf[p + 3 * NCoh] = h(3) /\ buf[p + 7 * NCoh] = h(7) /\ buf[p + 8 * NCoh] = h(8)
        /\ buf[p + 9 * NCoh] = h(9) /\ buf[p + 10 * NCoh] = h(10)
    BY <1>6 DEF p
  <2>5. buf[p + 0 * NCoh] \in {0, 1}
    <3>1. p + 0 * NCoh \in 0 .. FftSize - 1
      BY <1>1, <2>1
    <3> QED
      BY <1>3, <3>1 DEF IsSignal
  <2> DEFINE x == buf[p + 0 * NCoh]
  <2>6. OverPulses(buf, i) - OverPulses(buf, p)
          = (h(1) - x) + (h(3) - h(2)) + (h(8) - h(7)) + (h(10) - h(9))
    BY <2>1, <2>2, <2>4
  <2> HIDE DEF x
  <2>7. x \in {0, 1}
    BY <2>5 DEF x
  <2>8. (h(1) - x) + (h(3) - h(2)) + (h(8) - h(7)) + (h(10) - h(9)) >= 0
    BY <2>2, <2>3, <2>6
  <2> QED
    BY <1>9, <2>7, <2>8
<1>14. g \in Int
  BY <1>9
<1> HIDE DEF g
<1> QED
  BY <1>10, <1>12, <1>13, <1>14

\* The half bits of the preamble.
LEMMA HalfBitOfPreamble ==
  ASSUME NEW m \in Heard, NEW k \in 0 .. 15
  PROVE  HalfBit(m, k) = IF k \in Pulses THEN 1 ELSE 0
BY Sizes DEF HalfBit, Pulse

\* Where a preamble begins the four pulses are full, and everything else is silent.
LEMMA StartHalves ==
  ASSUME NEW m \in Heard, NEW j \in 0 .. 15
  PROVE  Half(m, 0, 0, j) = IF j \in Pulses THEN NCoh ELSE 0
<1>1. NCoh \in Nat /\ 0 + j = j
  BY Sizes
<1>2. HalfBit(m, j) = IF j \in Pulses THEN 1 ELSE 0
  BY HalfBitOfPreamble
<1>3. Half(m, 0, 0, j) = Amount(0, HalfBit(m, j), HalfBit(m, 0 + j + 1))
  BY <1>1 DEF Half
<1> QED
  BY <1>1, <1>2, <1>3 DEF Amount

\* Near the beginning of a message what has the shape of a preamble is off by less than half
\* a half bit, and weaker than the beginning itself.
LEMMA NearStart ==
  ASSUME NEW m \in Heard, NEW b \in Nat, NEW i, InWindow(i), NEW q, NEW r, IsPlace(m, b, i, q, r),
         HasShape(HalfBits(Buffer(m, b), i)), q * NCoh + r \in -NCoh .. NCoh
  PROVE  /\ 2 * (q * NCoh + r) \in -NCoh + 1 .. NCoh - 1
         /\ q * NCoh + r # 0 => High(HalfBits(Buffer(m, b), i)) < 4 * Square(NCoh)
<1>1. q \in Int /\ r \in 0 .. NCoh - 1 /\ NCoh \in Nat /\ NCoh >= 2
  BY Sizes DEF IsPlace
<1>2. q = -1 \/ q = 0 \/ (q = 1 /\ r = 0)
  <2>1. q >= 2 => q * NCoh >= 2 * NCoh
    BY <1>1
  <2>2. q <= -2 => q * NCoh <= -2 * NCoh
    BY <1>1
  <2>3. q = 1 => q * NCoh = NCoh
    BY <1>1
  <2>4. q * NCoh \in Int
    BY <1>1
  <2>5. ~(q >= 2) /\ ~(q <= -2)
    BY <1>1, <2>1, <2>2, <2>4
  <2> QED
    BY <1>1, <2>3, <2>5
<1>3. Half(m, q, r, 0) > Half(m, q, r, 1)
  BY ShapeOfHalves
<1>4. HalfBit(m, 0) = 1 /\ HalfBit(m, 1) = 0 /\ HalfBit(m, 2) = 1
  BY HalfBitOfPreamble DEF Pulses
<1>5. HalfBit(m, -1) = 0
  BY DEF HalfBit
<1>6. /\ Half(m, q, r, 0) = Amount(r, HalfBit(m, q), HalfBit(m, q + 1))
      /\ Half(m, q, r, 1) = Amount(r, HalfBit(m, q + 1), HalfBit(m, q + 2))
  <2>1. q + 0 = q /\ q + 0 + 1 = q + 1 /\ q + 1 + 1 = q + 2
    BY <1>1
  <2> QED
    BY <2>1 DEF Half
<1>7. /\ 2 * (q * NCoh + r) \in -NCoh + 1 .. NCoh - 1
      /\ q * NCoh + r # 0 => Half(m, q, r, 0) < NCoh
  <2>1. CASE q = 0
    <3>1. q + 1 = 1 /\ q + 2 = 2 /\ q * NCoh = 0
      BY <1>1, <2>1
    <3>2. Half(m, q, r, 0) = NCoh - r /\ Half(m, q, r, 1) = r
      BY <1>1, <1>4, <1>6, <2>1, <3>1 DEF Amount
    <3> QED
      BY <1>1, <1>3, <3>1, <3>2
  <2>2. CASE q = -1
    <3>1. q + 1 = 0 /\ q + 2 = 1 /\ q * NCoh = -NCoh
      BY <1>1, <2>2
    <3>2. Half(m, q, r, 0) = r /\ Half(m, q, r, 1) = NCoh - r
      BY <1>1, <1>4, <1>5, <1>6, <2>2, <3>1 DEF Amount
    <3> QED
      BY <1>1, <1>3, <3>1, <3>2
  <2>3. CASE q = 1 /\ r = 0
    <3>1. q + 1 = 2
      BY <2>3
    <3>2. Half(m, q, r, 0) = 0
      BY <1>1, <1>4, <1>6, <2>3, <3>1 DEF Amount
    <3>3. Half(m, q, r, 1) \in Nat
      BY <1>1, HalfIsNat
    <3> QED
      BY <1>3, <3>2, <3>3
  <2> QED
    BY <1>2, <2>1, <2>2, <2>3
<1>8. ASSUME q * NCoh + r # 0 PROVE High(HalfBits(Buffer(m, b), i)) < 4 * Square(NCoh)
  <2> DEFINE p == HalfBits(Buffer(m, b), i)
  <2>1. p[0] < Square(NCoh) /\ p[0] \in Nat
    <3>1. p[0] = Square(Half(m, q, r, 0))
      BY HalfBitsAre
    <3>2. Half(m, q, r, 0) \in Nat /\ Half(m, q, r, 0) < NCoh
      BY <1>1, <1>7, <1>8, HalfIsNat
    <3> HIDE DEF p
    <3> QED
      BY <1>1, <3>1, <3>2, SquaresCompare
  <2>2. ASSUME NEW j \in {2, 7, 9} PROVE p[j] <= Square(NCoh) /\ p[j] \in Nat
    <3>1. p[j] = Square(Half(m, q, r, j))
      BY HalfBitsAre
    <3>2. Half(m, q, r, j) \in Nat /\ Half(m, q, r, j) <= NCoh
      BY <1>1, HalfIsNat
    <3> HIDE DEF p
    <3> QED
      BY <1>1, <3>1, <3>2, SquaresCompare
  <2>3. Square(NCoh) \in Nat
    BY <1>1, SquaresCompare
  <2>4. High(p) = p[0] + p[2] + p[7] + p[9]
    BY DEF High
  <2> HIDE DEF p
  <2>5. p[2] <= Square(NCoh) /\ p[2] \in Nat /\ p[7] <= Square(NCoh) /\ p[7] \in Nat
        /\ p[9] <= Square(NCoh) /\ p[9] \in Nat
    BY <2>2
  <2>6. High(p) < 4 * Square(NCoh)
    BY <2>1, <2>3, <2>4, <2>5
  <2> QED
    BY <2>6 DEF p
<1> QED
  BY <1>7, <1>8

\* No index correlates more with the preamble than four full pulses.
LEMMA PulsesBounded ==
  ASSUME NEW buf, IsSignal(buf), NEW i \in Nat, i + Preamble <= FftSize
  PROVE  OverPulses(buf, i) \in 0 .. 4 * NCoh
<1>1. NCoh \in Nat /\ NCoh >= 2 /\ Preamble = 16 * NCoh /\ FftSize \in Nat
  BY Sizes
<1> DEFINE S(j) == Sum(buf, i + j * NCoh, i + (j + 1) * NCoh)
<1>2. ASSUME NEW j \in 0 .. 15 PROVE S(j) \in 0 .. NCoh
  <2> DEFINE a == i + j * NCoh
  <2>1. j * NCoh \in Nat /\ (j + 1) * NCoh = j * NCoh + NCoh /\ (j + 1) * NCoh <= 16 * NCoh
    BY <1>1
  <2>2. a \in Nat /\ a + NCoh <= FftSize /\ i + (j + 1) * NCoh = a + NCoh
    BY <1>1, <2>1
  <2> HIDE DEF a
  <2> DEFINE e == a + NCoh
  <2>3. a \in Int /\ e \in Int /\ a <= a /\ a <= e /\ e - a = NCoh /\ e <= FftSize
    BY <1>1, <2>2
  <2> HIDE DEF e
  <2>4. \A n \in a .. e - 1 : buf[n] \in {0, 1}
    BY <1>1, <2>2, <2>3 DEF IsSignal
  <2>5. /\ Sum(buf, a, e) \in Nat
        /\ (\A n \in a .. a - 1 : buf[n] = 0) => Sum(buf, a, e) <= (e - a) - (a - a)
    BY <2>3, <2>4, SumBounds
  <2>6. \A n \in a .. a - 1 : buf[n] = 0
    BY <2>3
  <2>7. Sum(buf, a, e) \in 0 .. NCoh
    BY <1>1, <2>3, <2>5, <2>6
  <2> QED
    BY <2>2, <2>7 DEF a, e
<1>3. OverPulses(buf, i) = S(0) + S(2) + S(7) + S(9)
  BY DEF OverPulses
<1> HIDE DEF S
<1>4. S(0) \in 0 .. NCoh /\ S(2) \in 0 .. NCoh /\ S(7) \in 0 .. NCoh /\ S(9) \in 0 .. NCoh
  BY <1>2
<1> QED
  BY <1>1, <1>3, <1>4

\* The beginning of a message passes the tests, with a strength that nothing exceeds.
LEMMA StartPasses ==
  ASSUME NEW m \in Heard, NEW b \in Nat, NEW i, InWindow(i), IsPlace(m, b, i, 0, 0)
  PROVE  /\ HasShape(HalfBits(Buffer(m, b), i)) /\ StandsOut(HalfBits(Buffer(m, b), i))
         /\ High(HalfBits(Buffer(m, b), i)) = 4 * Square(NCoh)
         /\ IsSignificant(Buffer(m, b), Template, i)
<1> DEFINE buf == Buffer(m, b)
<1> DEFINE p == HalfBits(buf, i)
<1>1. /\ NCoh \in Nat /\ NCoh >= 2 /\ Preamble = 16 * NCoh /\ FftSize \in Nat
      /\ 1 <= Snr /\ Snr \in Nat
  BY Sizes, AlgoAssumption
<1>2. ASSUME NEW j \in 0 .. 15 PROVE p[j] = IF j \in Pulses THEN Square(NCoh) ELSE 0
  <2>1. p[j] = Square(Half(m, 0, 0, j))
    BY HalfBitsAre
  <2>2. Square(0) = 0
    BY DEF Square
  <2> QED
    BY <2>1, <2>2, StartHalves
<1>3. Square(NCoh) \in Nat /\ Square(NCoh) > 0
  <2>1. NCoh * NCoh >= 2 * 2
    BY <1>1
  <2> QED
    BY <1>1, <2>1 DEF Square
<1>4. /\ IsSignal(buf)
      /\ i \in Nat /\ i >= NzerosHead /\ i >= 16 * NCoh - 1 /\ i + 18 * NCoh < FftSize
  BY WindowSizes, BufferIsSignal
<1> DEFINE full == Square(NCoh)
<1> HIDE DEF full, buf, p
<1>5. /\ p[0] = full /\ p[2] = full /\ p[7] = full /\ p[9] = full
      /\ p[1] = 0 /\ p[3] = 0 /\ p[4] = 0 /\ p[5] = 0 /\ p[6] = 0 /\ p[8] = 0
      /\ p[11] = 0 /\ p[12] = 0 /\ p[13] = 0 /\ p[14] = 0
  BY <1>2 DEF Pulses, full
<1>6. full \in Nat /\ full > 0
  BY <1>3 DEF full
<1>7. HasShape(p)
  BY <1>5, <1>6 DEF HasShape
<1>8. High(p) = 4 * full
  BY <1>5, <1>6 DEF High
<1>9. StandsOut(p)
  <2>1. \A j \in {4, 5, 11, 12, 13, 14} : p[j] = 0
    BY <1>5
  <2>2. Low(p) = 0 /\ 4 * 0 * Snr = 0
    BY <1>1, <1>5 DEF Low
  <2> QED
    BY <1>6, <1>8, <2>1, <2>2 DEF StandsOut
<1>10. ASSUME NEW j \in Nat, j + Preamble <= FftSize
       PROVE  Correlation(buf, Template, j) <= Correlation(buf, Template, i)
  <2>1. OverPulses(buf, j) \in 0 .. 4 * NCoh
    BY <1>4, <1>10, PulsesBounded
  <2>2. OverPulses(buf, i) = 4 * NCoh
    <3>1. i \in Int /\ i + Preamble <= FftSize
      BY <1>1, <1>4
    <3>2. \A k \in 0 .. 15 : Sum(buf, i + k * NCoh, i + (k + 1) * NCoh) = Half(m, 0, 0, k)
      BY <1>4, <3>1, HalfBitSums DEF Half, buf
    <3>3. \A k \in Pulses : Sum(buf, i + k * NCoh, i + (k + 1) * NCoh) = NCoh
      <4> TAKE k \in Pulses
      <4>1. k \in 0 .. 15
        BY DEF Pulses
      <4> QED
        BY <3>2, <4>1, StartHalves
    <3>4. 0 + 1 = 1 /\ 2 + 1 = 3 /\ 7 + 1 = 8 /\ 9 + 1 = 10
      OBVIOUS
    <3>5. Sum(buf, i + 0 * NCoh, i + 1 * NCoh) = NCoh /\ Sum(buf, i + 2 * NCoh, i + 3 * NCoh) = NCoh
          /\ Sum(buf, i + 7 * NCoh, i + 8 * NCoh) = NCoh /\ Sum(buf, i + 9 * NCoh, i + 10 * NCoh) = NCoh
      BY <3>3, <3>4 DEF Pulses
    <3> QED
      BY <1>1, <3>5 DEF OverPulses
  <2>3. Square(OverPulses(buf, j)) <= Square(OverPulses(buf, i))
    <3>1. OverPulses(buf, j) \in Nat /\ OverPulses(buf, i) \in Nat
          /\ OverPulses(buf, j) <= OverPulses(buf, i)
      BY <1>1, <2>1, <2>2
    <3> QED
      BY <3>1, SquaresCompare
  <2>4. i + Preamble <= FftSize
    BY <1>1, <1>4
  <2> QED
    BY <1>4, <1>10, <2>3, <2>4, Correlates
<1>11. IsSignificant(buf, Template, i)
  <2> DEFINE half == NCoh \div 2
  <2> DEFINE left == IF i > half THEN i - half ELSE 0
  <2> DEFINE right == Smallest(i + half, FftSize)
  <2>1. half \in Nat /\ half <= NCoh
    BY <1>1
  <2>2. SUFFICES ASSUME NEW j \in left .. right - 1
                 PROVE  Correlation(buf, Template, j) <= Correlation(buf, Template, i)
    BY Zenon DEF IsSignificant
  <2> HIDE DEF half
  <2>3. left = i - half /\ right = i + half
    BY <1>1, <1>4, <2>1 DEF Smallest
  <2>4. j \in Nat /\ j + Preamble <= FftSize
    BY <1>1, <1>4, <2>1, <2>3
  <2> QED
    BY <1>10, <2>4
<1> QED
  BY <1>7, <1>8, <1>9, <1>11 DEF p, buf, full

\* The preamble that detect_preamble correlates with.
LEMMA SpectrumIs ==
  /\ ~wiped => SpectrumOf = Template
  /\ wiped => \A buf : IsSignal(buf) =>
                 \A i \in Int : Correlation(buf, SpectrumOf, i) = Square(0)
<1>1. ~wiped => SpectrumOf = Template
  BY DEF SpectrumOf, Template
<1>2. ASSUME wiped, NEW buf, IsSignal(buf), NEW i \in Int PROVE Correlation(buf, SpectrumOf, i) = Square(0)
  <2> DEFINE f == [k \in DOMAIN SpectrumOf |-> SpectrumOf[k] * buf[(i + k) % FftSize]]
  <2>1. Preamble \in Nat /\ FftSize \in Nat \ {0}
    BY Sizes
  <2>2. \A k \in 0 .. Preamble - 1 : f[k] = 0 * buf[(i + k) % FftSize]
    BY <1>2 DEF SpectrumOf, Template
  <2>3. \A k \in 0 .. Preamble - 1 : f[k] = 0
    <3> TAKE k \in 0 .. Preamble - 1
    <3>1. i + k \in Int
      BY <2>1
    <3>2. (i + k) % FftSize \in 0 .. FftSize - 1
      BY <2>1, <3>1, Division
    <3>3. buf[(i + k) % FftSize] \in {0, 1}
      BY <1>2, <3>2 DEF IsSignal
    <3>4. f[k] = 0 * buf[(i + k) % FftSize]
      BY <2>2
    <3> HIDE DEF f
    <3> QED
      BY <3>3, <3>4
  <2> HIDE DEF f
  <2>4. Sum(f, 0, Preamble) = 0
    BY <2>1, <2>3, SumOfZeros
  <2> QED
    BY <2>4, Zenon DEF Correlation, f
<1> QED
  BY <1>1, <1>2

-----------------------------------------------------------------------------
(* A message is found once.                                                *)

\* The block in whose window the message begins, and its index there.
Home == message.start \div Window
StartIndex == message.start - Home * Window + NzerosHead

\* The place of an index of the block at hand in the stream.
SampleOf(i) == block * Window + i - NzerosHead

Near(s) == s - message.start \in -NCoh .. NCoh

LEMMA HomeIs ==
  ASSUME message \in Heard
  PROVE  Home \in Nat /\ Home <= LastBlock /\ Home * Window \in Nat /\ InWindow(StartIndex)
<1>1. Window \in Nat \ {0} /\ NzerosHead \in Nat /\ message.start \in Nat /\ message.start \in Starts
  BY Sizes, HeardSizes DEF Heard
<1>2. /\ Home \in Nat /\ message.start % Window \in 0 .. Window - 1
      /\ message.start = Home * Window + (message.start % Window)
  BY <1>1, Dividing DEF Home
<1>3. Home <= LastBlock
  BY <1>1, StartsAssumption DEF Home
<1>4. Home * Window \in Nat
  BY <1>1, <1>2
<1>5. InWindow(StartIndex)
  BY <1>1, <1>2, <1>4 DEF InWindow, StartIndex
<1> QED
  BY <1>2, <1>3, <1>4, <1>5

\* The indices of a window and the samples they stand for.
LEMMA SampleIs ==
  ASSUME message \in Heard, block \in Nat, NEW i, InWindow(i)
  PROVE  /\ SampleOf(i) \in Int /\ SampleOf(i) \div Window = block
         /\ SampleOf(i) >= block * Window /\ SampleOf(i) < (block + 1) * Window
         /\ \A j : InWindow(j) /\ SampleOf(i) = SampleOf(j) => i = j
         /\ block = Home => (i = StartIndex <=> SampleOf(i) = message.start)
<1>1. Window \in Nat \ {0} /\ NzerosHead \in Nat /\ message.start \in Nat
  BY Sizes, HeardSizes
<1>2. Home \in Nat /\ Home * Window \in Nat
  BY HomeIs
<1>3. block * Window \in Nat /\ (block + 1) * Window = block * Window + Window
  BY <1>1
<1>4. i \in NzerosHead .. NzerosHead + Window - 1
  BY DEF InWindow
<1>5. SampleOf(i) \in Nat /\ SampleOf(i) = block * Window + (i - NzerosHead)
      /\ i - NzerosHead \in 0 .. Window - 1
  BY <1>1, <1>3, <1>4 DEF SampleOf
<1>6. SampleOf(i) \div Window = block
  BY <1>1, <1>5, QuotientIs
<1>7. \A j : InWindow(j) /\ SampleOf(i) = SampleOf(j) => i = j
  BY <1>1, <1>3, <1>4 DEF SampleOf, InWindow
<1>8. block = Home => (i = StartIndex <=> SampleOf(i) = message.start)
  <2> SUFFICES ASSUME block = Home PROVE i = StartIndex <=> SampleOf(i) = message.start
    OBVIOUS
  <2>1. block * Window = Home * Window
    OBVIOUS
  <2>2. SampleOf(i) = block * Window + (i - NzerosHead) /\ i \in Int /\ block * Window \in Nat
    BY <1>3, <1>4, <1>5
  <2>3. StartIndex = message.start - block * Window + NzerosHead
    BY <2>1, Zenon DEF StartIndex
  <2> DEFINE w == block * Window
  <2>4. w \in Nat /\ SampleOf(i) = w + (i - NzerosHead)
        /\ StartIndex = message.start - w + NzerosHead
    BY <2>2, <2>3
  <2> HIDE DEF w
  <2> QED
    BY <1>1, <2>2, <2>4
<1>9. SampleOf(i) >= block * Window /\ SampleOf(i) < (block + 1) * Window
  BY <1>1, <1>3, <1>5
<1> QED
  BY <1>5, <1>6, <1>7, <1>8, <1>9

\* What detect_preamble finds in the block at hand.
Finding == Candidates(Buffer(message, block), SpectrumOf, NzerosHead, FftSize - (Preamble + LongData))

LEMMA FindingIs ==
  Finding = {[index |-> i, high |-> High(HalfBits(Buffer(message, block), i))] :
               i \in {i \in NzerosHead .. NzerosHead + Window - 1 :
                        /\ HasShape(HalfBits(Buffer(message, block), i))
                        /\ StandsOut(HalfBits(Buffer(message, block), i))
                        /\ IsSignificant(Buffer(message, block), SpectrumOf, i)}}
<1> DEFINE end == FftSize - (Preamble + LongData)
<1>1. end = NzerosHead + Window /\ ~(NzerosHead >= end \/ end > FftSize)
  BY Sizes
<1> HIDE DEF end
<1>2. Finding = Candidates(Buffer(message, block), SpectrumOf, NzerosHead, end)
  BY DEF Finding, end
<1>3. Finding = {[index |-> i, high |-> High(HalfBits(Buffer(message, block), i))] :
                   i \in {i \in NzerosHead .. end - 1 :
                            /\ HasShape(HalfBits(Buffer(message, block), i))
                            /\ StandsOut(HalfBits(Buffer(message, block), i))
                            /\ IsSignificant(Buffer(message, block), SpectrumOf, i)}}
  BY <1>1, <1>2 DEF Candidates
<1>4. end - 1 = NzerosHead + Window - 1
  BY <1>1, Sizes
<1> QED
  BY <1>3, <1>4, Zenon

\* The correlation does not tell a peak from its neighbours: the spectrum was wiped, or
\* the sample to the right is not compared.
Blurred == wiped \/ NCoh < 4

\* Unless the correlation is blurred nothing but the beginning of the message is found;
\* what is found near the beginning is off by little, and weaker.
LEMMA FoundIsStart ==
  ASSUME message \in Heard, block \in Nat, NEW c \in Finding
  PROVE  LET s == SampleOf(c.index)
         IN  /\ InWindow(c.index)
             /\ ~Blurred => s = message.start
             /\ Near(s) => 2 * (s - message.start) \in -NCoh + 1 .. NCoh - 1
             /\ Near(s) /\ s # message.start => c.high < 4 * Square(NCoh)
<1> DEFINE buf == Buffer(message, block)
<1>1. PICK i : /\ i \in NzerosHead .. NzerosHead + Window - 1
               /\ c = [index |-> i, high |-> High(HalfBits(buf, i))]
               /\ HasShape(HalfBits(buf, i)) /\ IsSignificant(buf, SpectrumOf, i)
  BY FindingIs
<1>2. InWindow(i) /\ i \in Int /\ c.index = i /\ c.high = High(HalfBits(buf, i))
  BY <1>1, Sizes DEF InWindow
<1>3. PICK q, r : IsPlace(message, block, i, q, r)
  BY <1>2, PlaceOf
<1>4. SampleOf(i) - message.start = q * NCoh + r
  <2>1. message.start \in Nat /\ q * NCoh + r \in Int
    BY <1>3, Sizes, HeardSizes DEF IsPlace
  <2>2. SampleOf(i) = message.start + (q * NCoh + r)
    BY <1>3 DEF IsPlace, SampleOf
  <2> QED
    BY <2>1, <2>2
<1>5. ASSUME ~Blurred PROVE SampleOf(i) = message.start
  <2>0. ~wiped /\ NCoh >= 4
    BY <1>5, Sizes DEF Blurred
  <2>1. IsSignificant(buf, Template, i)
    BY <1>1, <2>0, SpectrumIs
  <2>2. r = 0
    BY <1>1, <1>2, <1>3, <2>0, <2>1, PeakIsAligned
  <2>3. q = 0
    BY <1>1, <1>2, <1>3, <2>2, AlignedIsStart
  <2>4. NCoh \in Nat /\ message.start \in Nat
    BY Sizes, HeardSizes
  <2>5. block * Window + i - NzerosHead = message.start + (0 * NCoh + 0)
    BY <1>3, <2>2, <2>3 DEF IsPlace
  <2> QED
    BY <2>4, <2>5 DEF SampleOf
<1>6. ASSUME Near(SampleOf(i)) PROVE q * NCoh + r \in -NCoh .. NCoh
  BY <1>4, <1>6 DEF Near
<1>7. ASSUME Near(SampleOf(i))
      PROVE  /\ 2 * (SampleOf(i) - message.start) \in -NCoh + 1 .. NCoh - 1
             /\ SampleOf(i) - message.start # 0 => High(HalfBits(buf, i)) < 4 * Square(NCoh)
  BY <1>1, <1>2, <1>3, <1>4, <1>6, <1>7, NearStart
<1>8. SampleOf(i) # message.start => SampleOf(i) - message.start # 0
  <2>1. SampleOf(i) \in Int /\ message.start \in Nat
    BY <1>2, SampleIs, HeardSizes
  <2> QED
    BY <2>1
<1> QED
  BY <1>2, <1>5, <1>7, <1>8

\* The beginning of the message is found in its block.
LEMMA StartIsFound ==
  ASSUME message \in Heard, block = Home
  PROVE  [index |-> StartIndex, high |-> 4 * Square(NCoh)] \in Finding
<1> DEFINE buf == Buffer(message, block)
<1> DEFINE i == StartIndex
<1>1. block \in Nat /\ InWindow(i) /\ SampleOf(i) = message.start
  BY HomeIs, SampleIs
<1>2. IsPlace(message, block, i, 0, 0)
  <2>1. NCoh \in Nat /\ NCoh >= 2 /\ message.start \in Nat
    BY Sizes, HeardSizes, <1>1
  <2> QED
    BY <1>1, <2>1 DEF IsPlace, SampleOf
<1> HIDE DEF i
<1>3. /\ HasShape(HalfBits(buf, i)) /\ StandsOut(HalfBits(buf, i))
      /\ High(HalfBits(buf, i)) = 4 * Square(NCoh) /\ IsSignificant(buf, Template, i)
  BY <1>1, <1>2, StartPasses
<1>4. IsSignificant(buf, SpectrumOf, i)
  <2>1. CASE ~wiped
    BY <1>3, <2>1, SpectrumIs
  <2>2. CASE wiped
    <3> DEFINE left == IF i > NCoh \div 2 THEN i - NCoh \div 2 ELSE 0
    <3> DEFINE right == Smallest(i + NCoh \div 2, FftSize)
    <3>1. SUFFICES ASSUME NEW j \in left .. right - 1
                   PROVE  Correlation(buf, SpectrumOf, j) <= Correlation(buf, SpectrumOf, i)
      BY Zenon DEF IsSignificant
    <3>2. i \in Int /\ j \in Int
      BY <1>1, WindowSizes
    <3>3. IsSignal(buf)
      BY BufferIsSignal
    <3>4. /\ Correlation(buf, SpectrumOf, i) = Square(0)
          /\ Correlation(buf, SpectrumOf, j) = Square(0)
      BY <2>2, <3>2, <3>3, SpectrumIs
    <3> QED
      BY <3>4 DEF Square
  <2> QED
    BY <2>1, <2>2
<1> DEFINE c == [index |-> i, high |-> High(HalfBits(buf, i))]
<1>5. c \in Finding
  BY <1>1, <1>3, <1>4, FindingIs DEF InWindow
<1> QED
  BY <1>3, <1>5 DEF i

\* A sample of which a report is right: the beginning of the message; and, when the
\* correlation is blurred, what looks like a preamble, but near the beginning only from
\* another block.
Rightly(s) ==
  \/ s = message.start
  \/ /\ Blurred
     /\ Near(s) => /\ 2 * (s - message.start) \in -NCoh + 1 .. NCoh - 1
                   /\ s \div Window # Home

\* The beginning of the message is the strongest of all that is found near it: the
\* thinning keeps it, and nothing else there.
LEMMA StartIsKept ==
  ASSUME message \in Heard, block \in Nat, IsFound(Finding), NEW order \in Orders(Finding)
  PROVE  /\ \A d \in Filtered(order) : InWindow(d.index) /\ Rightly(SampleOf(d.index))
         /\ block = Home => \E d \in Filtered(order) : d.index = StartIndex
<1> DEFINE kept == Filtered(order)
<1>1. /\ kept \subseteq Finding
      /\ \A c, d \in kept : c # d => ~TooClose(c, d)
      /\ \A d \in Finding \ kept : \E k \in kept : k.high >= d.high /\ TooClose(d, k)
  BY Thinned
<1> HIDE DEF kept
<1> DEFINE start == [index |-> StartIndex, high |-> 4 * Square(NCoh)]
<1>2. ASSUME NEW c \in Finding
      PROVE  /\ InWindow(c.index) /\ c.index \in Int /\ c.high \in Nat
             /\ ~Blurred => SampleOf(c.index) = message.start
             /\ Near(SampleOf(c.index)) =>
                   2 * (SampleOf(c.index) - message.start) \in -NCoh + 1 .. NCoh - 1
             /\ Near(SampleOf(c.index)) /\ SampleOf(c.index) # message.start =>
                   c.high < 4 * Square(NCoh)
  <2>1. c.index \in Nat /\ c.high \in Nat
    BY DEF IsFound
  <2> QED
    BY <2>1, FoundIsStart
<1>3. /\ NCoh \in Nat /\ message.start \in Nat /\ block * Window \in Nat /\ NzerosHead \in Nat
      /\ Square(NCoh) \in Nat
  BY Sizes, HeardSizes, SquaresCompare
<1>4. ASSUME block = Home, NEW c \in Finding PROVE TooClose(start, c) <=> Near(SampleOf(c.index))
  <2>1. InWindow(StartIndex) /\ SampleOf(StartIndex) = message.start
    BY <1>4, HomeIs, SampleIs
  <2>2. StartIndex \in Int /\ c.index \in Int
    BY <1>2, <2>1, WindowSizes
  <2>3. SampleOf(c.index) - message.start = c.index - StartIndex
    BY <1>3, <2>1, <2>2 DEF SampleOf
  <2>4. start.index = StartIndex
    OBVIOUS
  <2> HIDE DEF start
  <2>5. c.index - StartIndex \in -NCoh .. NCoh <=> StartIndex - c.index \in -NCoh .. NCoh
    BY <1>3, <2>2
  <2> QED
    BY <2>3, <2>4, <2>5 DEF TooClose, Near
<1>5. ASSUME block = Home PROVE start \in kept
  <2>1. start \in Finding
    BY <1>5, StartIsFound
  <2> SUFFICES ASSUME start \notin kept PROVE FALSE
    OBVIOUS
  <2>2. PICK k \in kept : k.high >= start.high /\ TooClose(start, k)
    BY <1>1, <2>1
  <2>3. k \in Finding
    BY <1>1
  <2>4. Near(SampleOf(k.index))
    BY <1>4, <1>5, <2>2, <2>3
  <2>5. start.high = 4 * Square(NCoh) /\ start.index = StartIndex
    OBVIOUS
  <2>6. ~(k.high < 4 * Square(NCoh))
    BY <1>2, <1>3, <2>2, <2>3, <2>5
  <2>7. SampleOf(k.index) = message.start /\ InWindow(k.index)
    BY <1>2, <2>3, <2>4, <2>6
  <2>8. k.index = StartIndex
    BY <1>5, <2>7, SampleIs
  <2>9. k = start
    BY <2>1, <2>3, <2>5, <2>8 DEF IsFound
  <2> QED
    BY <2>9
<1>6. ASSUME NEW d \in kept PROVE InWindow(d.index) /\ Rightly(SampleOf(d.index))
  <2>1. d \in Finding /\ InWindow(d.index)
    BY <1>1, <1>2
  <2>2. SUFFICES ASSUME SampleOf(d.index) # message.start PROVE Rightly(SampleOf(d.index))
    BY <2>1 DEF Rightly
  <2>3. Blurred
    BY <1>2, <2>1, <2>2
  <2>4. ASSUME Near(SampleOf(d.index)) PROVE SampleOf(d.index) \div Window # Home
    <3>1. SampleOf(d.index) \div Window = block
      BY <2>1, SampleIs
    <3> SUFFICES ASSUME block = Home PROVE FALSE
      BY <3>1
    <3>2. start \in kept /\ TooClose(start, d)
      BY <1>4, <1>5, <2>1, <2>4
    <3>3. start = d
      BY <1>1, <3>2
    <3>4. d.index = StartIndex
      BY <3>3
    <3>5. SampleOf(d.index) = message.start
      BY <2>1, <3>4, HomeIs, SampleIs
    <3> QED
      BY <2>2, <3>5
  <2> QED
    BY <1>2, <2>1, <2>3, <2>4 DEF Rightly
<1> QED
  BY <1>5, <1>6 DEF kept

-----------------------------------------------------------------------------
(* The record of the search: what is found, pending and reported, while a  *)
(* message is on the air.                                                  *)

Reports == [sample : Int, bits : AllBits]

\* The sample at which the blocks that are done end.
Horizon == (IF at = "demodulate" THEN block + 1 ELSE block) * Window

\* Before a program starts nothing is on the air and nothing reported.
AtRest ==
  /\ at = "off" => message = Silence /\ block = 0 /\ reported = <<>>
  /\ message # Silence => at # "off"

\* What is found is what detect_preamble finds, and what is kept of it is right and not
\* reported yet.
FoundRightly ==
  message # Silence =>
    /\ at = "filter" => found = Finding
    /\ at = "demodulate" =>
          \A i \in detections :
             /\ InWindow(i) /\ Rightly(SampleOf(i))
             /\ \A k \in DOMAIN reported : reported[k].sample # SampleOf(i)

\* The reports are right, each of a sample of its own in a block that is done.
ReportedRightly ==
  /\ reported \in Seq(Reports)
  /\ message # Silence =>
       \A k \in DOMAIN reported :
          /\ Rightly(reported[k].sample)
          /\ Near(reported[k].sample) => reported[k].bits = message.bits
          /\ reported[k].sample < Horizon
          /\ \A j \in DOMAIN reported : reported[j].sample = reported[k].sample => j = k

\* As soon as its beginning is no longer to come, the message is reported.
StartReported ==
  message # Silence =>
    /\ (block > Home \/ (block = Home /\ at = "demodulate" /\ StartIndex \notin detections))
          => \E k \in DOMAIN reported :
                reported[k] = [sample |-> message.start, bits |-> message.bits]

SearchRecord == AtRest /\ FoundRightly /\ ReportedRightly /\ StartReported

\* One more report.
LEMMA Appended ==
  ASSUME NEW R, NEW s \in Seq(R), NEW x \in R
  PROVE  /\ Append(s, x) \in Seq(R)
         /\ DOMAIN s = 1 .. Len(s) /\ Len(s) \in Nat
         /\ DOMAIN Append(s, x) = 1 .. Len(s) + 1
         /\ \A k \in 1 .. Len(s) : Append(s, x)[k] = s[k]
         /\ Append(s, x)[Len(s) + 1] = x
BY AppendProperties, LenProperties

\* The detection that demodulate takes up, and the bits that it reads.
LEMMA TakenUp ==
  ASSUME SearchTypes, SearchTypes', SearchRecord, DemodulateNext
  PROVE  \E i \in detections, bits \in AllBits :
            /\ InWindow(i) /\ Rightly(SampleOf(i))
            /\ \A k \in DOMAIN reported : reported[k].sample # SampleOf(i)
            /\ Near(SampleOf(i)) => bits = message.bits
            /\ detections' = detections \ {i}
            /\ reported' = Append(reported, [sample |-> SampleOf(i), bits |-> bits])
<1> DEFINE i == CHOOSE i \in detections : \A d \in detections : i <= d
<1>1. /\ message \in Heard /\ block \in Nat /\ array \in AllBits /\ at = "demodulate"
      /\ message # Silence /\ detections # {}
  BY DEF SearchTypes, DemodulateNext
<1>2. \A d \in detections : InWindow(d) /\ d \in Nat
  BY <1>1, WindowSizes DEF SearchRecord, FoundRightly
<1>3. i \in detections
  <2>1. \E d \in detections : \A e \in detections : d <= e
    <3> DEFINE S == {n \in Nat : \A d \in detections : n <= d}
    <3> SUFFICES ASSUME ~\E d \in detections : \A e \in detections : d <= e PROVE FALSE
      OBVIOUS
    <3>1. 0 \in S
      BY <1>2
    <3>2. ASSUME NEW n \in Nat, n \in S PROVE n + 1 \in S
      <4>1. n \notin detections
        BY <3>2
      <4>2. \A d \in detections : n <= d /\ n # d /\ d \in Nat
        BY <1>2, <3>2, <4>1
      <4> QED
        BY <4>2
    <3>3. Nat \subseteq S
      <4> HIDE DEF S
      <4> QED
        BY <3>1, <3>2, SetInduction
    <3>4. PICK d \in detections : d \in Nat
      BY <1>1, <1>2
    <3>5. d + 1 \in S
      BY <3>3, <3>4
    <3> QED
      BY <3>4, <3>5
  <2> QED
    BY <2>1
<1> HIDE DEF i
<1>4. InWindow(i) /\ Rightly(SampleOf(i)) /\ \A k \in DOMAIN reported : reported[k].sample # SampleOf(i)
  BY <1>1, <1>3 DEF SearchRecord, FoundRightly
<1>5. i \in Nat /\ i >= NzerosHead /\ i + Preamble + LongData < FftSize /\ SampleOf(i) \in Int
  BY <1>1, <1>4, WindowSizes, SampleIs
<1>6. BitsAt(Buffer(message, block), i, array) # {}
  <2>1. ~(i + Preamble + LongData > FftSize)
    BY <1>5, Sizes
  <2> QED
    BY <2>1 DEF BitsAt
<1>7. PICK bits \in BitsAt(Buffer(message, block), i, array) :
         /\ detections' = detections \ {i} /\ array' = bits
         /\ reported' = Append(reported, [sample |-> block * Window + i - NzerosHead, bits |-> bits])
  BY <1>6 DEF DemodulateNext, i
<1>8. bits \in AllBits
  BY <1>7 DEF SearchTypes
<1>9. ASSUME Near(SampleOf(i)) PROVE bits = message.bits
  <2>1. 2 * (i - (message.start - block * Window + NzerosHead)) \in -NCoh + 1 .. NCoh - 1
    <3>1. message.start \in Nat /\ block * Window \in Nat /\ NzerosHead \in Nat /\ NCoh \in Nat /\ NCoh >= 2
      BY <1>1, HeardSizes, Sizes
    <3>2. 2 * (SampleOf(i) - message.start) \in -NCoh + 1 .. NCoh - 1
      <4>1. CASE SampleOf(i) = message.start
        BY <3>1, <4>1
      <4>2. CASE SampleOf(i) # message.start
        BY <1>4, <1>9, <4>2 DEF Rightly
      <4> QED
        BY <4>1, <4>2
    <3>3. SampleOf(i) - message.start = i - (message.start - block * Window + NzerosHead)
      BY <1>5, <3>1 DEF SampleOf
    <3> QED
      BY <3>2, <3>3
  <2>2. BitsAt(Buffer(message, block), i, array) = {message.bits}
    BY <1>1, <1>5, <2>1, BitsRead, Sizes
  <2> QED
    BY <1>7, <2>2
<1> QED
  BY <1>3, <1>4, <1>7, <1>8, <1>9 DEF SampleOf

\* Every step keeps the record right.
LEMMA RecordStep ==
  ASSUME SearchTypes, SearchTypes', SearchInHand, SearchRecord, [SearchNext]_searchVars
  PROVE  SearchRecord'
<1> USE DEF SearchRecord
<1>0. /\ Window \in Nat \ {0} /\ block \in Nat /\ message \in {Silence} \cup Heard
      /\ block * Window \in Nat /\ (block + 1) * Window = block * Window + Window
  <2>1. Window \in Nat \ {0} /\ block \in Nat /\ message \in {Silence} \cup Heard
    BY Sizes DEF SearchTypes
  <2> QED
    BY <2>1
<1>1. CASE Hear
  <2>1. message' \in Heard /\ block' = 0 /\ at' = "find" /\ reported' = <<>>
    BY <1>1, BitsAssumption DEF Hear, Heard, AtRest
  <2>2. Home' \in Nat
    <3>1. message'.start \in Nat
      BY <2>1, AlgoAssumption DEF Heard
    <3> QED
      BY <1>0, <3>1, Dividing DEF Home
  <2>3. ~(block' > Home')
    BY <2>1, <2>2
  <2>4. reported' \in Seq(Reports) /\ DOMAIN reported' = {}
    BY <2>1
  <2> QED
    BY <2>1, <2>3, <2>4 DEF AtRest, FoundRightly, ReportedRightly, StartReported
<1>2. CASE HearNoise
  <2>1. message' = Silence /\ reported' = reported /\ at' = "filter"
    BY <1>2 DEF HearNoise, AtRest
  <2> QED
    BY <2>1 DEF AtRest, FoundRightly, ReportedRightly, StartReported
<1>3. CASE FindCandidates
  <2>1. /\ at = "find" /\ at' = "filter" /\ found' = Finding
        /\ UNCHANGED <<wiped, message, block, detections, array, reported>>
    BY <1>3 DEF FindCandidates, Finding
  <2>2. Finding' = Finding /\ Horizon' = Horizon /\ Home' = Home
    BY <2>1 DEF Finding, Horizon, Home, SpectrumOf
  <2>3. AtRest' /\ FoundRightly'
    BY <2>1, <2>2 DEF AtRest, FoundRightly
  <2>4. ReportedRightly'
    BY <2>1, <2>2 DEF ReportedRightly, Rightly, Blurred, Near
  <2>5. StartReported'
    BY <2>1, <2>2 DEF StartReported
  <2> QED
    BY <2>3, <2>4, <2>5
<1>4. CASE Thin
  <2>1. PICK order \in Orders(found) :
           /\ at = "filter" /\ at' = "demodulate"
           /\ detections' = {d.index : d \in Filtered(order)}
           /\ UNCHANGED <<wiped, message, block, found, reported>>
    BY <1>4 DEF Thin
  <2>2. Home' = Home /\ StartIndex' = StartIndex /\ \A i : SampleOf(i)' = SampleOf(i)
    BY <2>1 DEF Home, StartIndex, SampleOf
  <2>3. AtRest'
    BY <2>1 DEF AtRest
  <2>4. CASE message = Silence
    BY <2>1, <2>3, <2>4 DEF FoundRightly, ReportedRightly, StartReported
  <2>5. CASE message # Silence
    <3>1. message \in Heard /\ found = Finding /\ IsFound(Finding)
      BY <1>0, <2>1, <2>5 DEF FoundRightly, SearchInHand
    <3>2. /\ \A d \in Filtered(order) : InWindow(d.index) /\ Rightly(SampleOf(d.index))
          /\ block = Home => \E d \in Filtered(order) : d.index = StartIndex
      BY <1>0, <2>1, <3>1, StartIsKept
    <3>3. Horizon = block * Window /\ Horizon' = (block + 1) * Window
      BY <2>1 DEF Horizon
    <3>4. \A i : InWindow(i) => SampleOf(i) \in Int /\ SampleOf(i) >= block * Window
      BY <1>0, <3>1, SampleIs
    <3>5. reported \in Seq(Reports)
      BY DEF ReportedRightly
    <3>6. \A k \in DOMAIN reported : reported[k].sample \in Int /\ reported[k].sample < block * Window
      <4> TAKE k \in DOMAIN reported
      <4>1. reported[k] \in Reports
        BY <3>5
      <4> QED
        BY <2>5, <3>3, <4>1 DEF ReportedRightly, Reports
    <3>7. FoundRightly'
      <4> SUFFICES ASSUME NEW i \in detections'
                   PROVE  /\ InWindow(i) /\ Rightly(SampleOf(i))'
                          /\ \A k \in DOMAIN reported : reported[k].sample # SampleOf(i)
        BY <2>1, <2>2 DEF FoundRightly
      <4>1. PICK d \in Filtered(order) : i = d.index
        BY <2>1
      <4>2. InWindow(i) /\ Rightly(SampleOf(i))
        BY <3>2, <4>1
      <4>3. Rightly(SampleOf(i))'
        BY <2>1, <2>2, <4>2 DEF Rightly, Blurred, Near
      <4> QED
        BY <1>0, <3>4, <3>6, <4>2, <4>3
    <3>8. ReportedRightly'
      <4>1. \A k \in DOMAIN reported : reported[k].sample < Horizon'
        BY <1>0, <3>3, <3>6
      <4> QED
        BY <2>1, <2>2, <2>5, <4>1 DEF ReportedRightly, Rightly, Blurred, Near
    <3>9. StartReported'
      <4>1. block = Home => StartIndex \in detections'
        BY <2>1, <3>2
      <4> QED
        BY <2>1, <2>2, <2>5, <4>1 DEF StartReported
    <3> QED
      BY <2>3, <3>7, <3>8, <3>9
  <2> QED
    BY <2>4, <2>5
<1>5. CASE DemodulateNext
  <2>1. PICK i \in detections, bits \in AllBits :
            /\ InWindow(i) /\ Rightly(SampleOf(i))
            /\ \A k \in DOMAIN reported : reported[k].sample # SampleOf(i)
            /\ Near(SampleOf(i)) => bits = message.bits
            /\ detections' = detections \ {i}
            /\ reported' = Append(reported, [sample |-> SampleOf(i), bits |-> bits])
    BY <1>5, TakenUp
  <2>2. /\ at = "demodulate" /\ message # Silence /\ message \in Heard
        /\ UNCHANGED <<at, wiped, message, block, found>>
    BY <1>0, <1>5 DEF DemodulateNext
  <2>3. /\ Home' = Home /\ StartIndex' = StartIndex /\ Horizon' = Horizon
        /\ \A j : SampleOf(j)' = SampleOf(j)
        /\ Horizon = (block + 1) * Window
    BY <2>2 DEF Home, StartIndex, SampleOf, Horizon
  <2> DEFINE s == SampleOf(i)
  <2> DEFINE report == [sample |-> s, bits |-> bits]
  <2> DEFINE length == Len(reported)
  <2>4. /\ s \in Int /\ s < (block + 1) * Window
        /\ \A j : InWindow(j) /\ s = SampleOf(j) => i = j
        /\ block = Home => (i = StartIndex <=> s = message.start)
    <3>1. block \in Nat /\ InWindow(i) /\ message \in Heard
      BY <1>0, <2>1, <2>2
    <3> QED
      BY <3>1, SampleIs
  <2>5. reported \in Seq(Reports) /\ report \in Reports
    BY <2>4 DEF ReportedRightly, Reports
  <2>6. /\ reported' \in Seq(Reports)
        /\ DOMAIN reported = 1 .. length /\ length \in Nat
        /\ DOMAIN reported' = 1 .. length + 1
        /\ \A k \in 1 .. length : reported'[k] = reported[k]
        /\ reported'[length + 1] = report
    BY <2>1, <2>5, Appended
  <2>7. report.sample = s /\ report.bits = bits
    OBVIOUS
  <2> HIDE DEF length, report
  <2>8. \A x : Rightly(x) => Rightly(x)'
    BY <2>2, <2>3 DEF Rightly, Blurred, Near
  <2>9. AtRest'
    BY <2>2 DEF AtRest
  <2>10. FoundRightly'
    <3> SUFFICES ASSUME NEW j \in detections \ {i}
                 PROVE  /\ InWindow(j) /\ Rightly(SampleOf(j))'
                        /\ \A k \in DOMAIN reported' : reported'[k].sample # SampleOf(j)
      BY <2>1, <2>2, <2>3 DEF FoundRightly
    <3>1. /\ InWindow(j) /\ Rightly(SampleOf(j))
          /\ \A k \in DOMAIN reported : reported[k].sample # SampleOf(j)
      BY <2>2 DEF FoundRightly
    <3>2. s # SampleOf(j)
      BY <2>4, <3>1
    <3>3. \A k \in DOMAIN reported' : reported'[k].sample # SampleOf(j)
      <4> TAKE k \in DOMAIN reported'
      <4>1. CASE k \in 1 .. length
        BY <2>6, <3>1, <4>1
      <4>2. CASE k = length + 1
        BY <2>6, <2>7, <3>2, <4>2
      <4> QED
        BY <2>6, <4>1, <4>2
    <3>4. Rightly(SampleOf(j))'
      BY <2>2, <2>3, <3>1 DEF Rightly, Blurred, Near
    <3> QED
      BY <3>1, <3>3, <3>4
  <2>11. ReportedRightly'
    <3>1. ASSUME NEW k \in DOMAIN reported'
          PROVE  /\ Rightly(reported[k].sample)'
                 /\ (Near(reported[k].sample) => reported[k].bits = message.bits)'
                 /\ reported'[k].sample < Horizon'
      <4>1. CASE k \in 1 .. length
        <5>1. /\ Rightly(reported[k].sample)
              /\ Near(reported[k].sample) => reported[k].bits = message.bits
              /\ reported[k].sample < Horizon
          BY <2>2, <2>6, <4>1 DEF ReportedRightly
        <5> QED
          BY <2>2, <2>3, <2>6, <4>1, <5>1 DEF Rightly, Blurred, Near
      <4>2. CASE k = length + 1
        <5>1. reported'[k].sample = s /\ reported'[k].bits = bits
          BY <2>6, <2>7, <4>2
        <5> QED
          BY <2>1, <2>2, <2>3, <2>4, <5>1 DEF Rightly, Blurred, Near
      <4> QED
        BY <2>6, <4>1, <4>2
    <3>2. ASSUME NEW j \in DOMAIN reported', NEW k \in DOMAIN reported',
                 reported'[j].sample = reported'[k].sample
          PROVE  j = k
      <4>1. CASE j \in 1 .. length /\ k \in 1 .. length
        BY <2>2, <2>6, <3>2, <4>1 DEF ReportedRightly
      <4>2. CASE j \in 1 .. length /\ k = length + 1
        BY <2>1, <2>6, <2>7, <3>2, <4>2
      <4>3. CASE j = length + 1 /\ k \in 1 .. length
        BY <2>1, <2>6, <2>7, <3>2, <4>3
      <4> QED
        BY <2>6, <4>1, <4>2, <4>3
    <3> QED
      BY <2>6, <3>1, <3>2 DEF ReportedRightly
  <2>12. StartReported'
    <3> DEFINE sent == [sample |-> message.start, bits |-> message.bits]
    <3> SUFFICES ASSUME block > Home \/ (block = Home /\ StartIndex \notin detections')
                 PROVE  \E k \in DOMAIN reported' : reported'[k] = sent
      BY <2>2, <2>3 DEF StartReported
    <3>1. CASE block > Home \/ (block = Home /\ StartIndex \notin detections)
      <4>1. PICK k \in DOMAIN reported : reported[k] = sent
        BY <2>2, <3>1 DEF StartReported
      <4>2. k \in DOMAIN reported' /\ reported'[k] = sent
        BY <2>6, <4>1
      <4> QED
        BY <4>2
    <3>2. CASE block = Home /\ StartIndex = i
      <4>1. s = message.start
        BY <2>4, <3>2
      <4>2. Near(s)
        <5>1. message.start \in Nat /\ NCoh \in Nat
          BY <2>2, HeardSizes, Sizes
        <5> QED
          BY <4>1, <5>1 DEF Near
      <4>3. report = sent
        BY <2>1, <4>1, <4>2 DEF report
      <4>4. length + 1 \in DOMAIN reported'
        BY <2>6
      <4> QED
        BY <2>6, <4>3, <4>4
    <3> QED
      BY <2>1, <3>1, <3>2
  <2> QED
    BY <2>9, <2>10, <2>11, <2>12
<1>6. CASE SearchNextBlock
  <2>1. /\ at = "demodulate" /\ message # Silence /\ message \in Heard /\ detections = {}
        /\ at' = "find" /\ block' = block + 1
        /\ UNCHANGED <<wiped, message, found, detections, array, reported>>
    BY <1>0, <1>6 DEF SearchNextBlock
  <2>2. Home' = Home /\ StartIndex' = StartIndex /\ Horizon' = Horizon
    BY <2>1 DEF Home, StartIndex, Horizon
  <2>3. Home \in Nat
    BY <2>1, HomeIs
  <2>4. block' > Home' => block > Home \/ block = Home
    BY <1>0, <2>1, <2>2, <2>3
  <2>5. AtRest' /\ FoundRightly'
    BY <2>1 DEF AtRest, FoundRightly
  <2>6. ReportedRightly'
    BY <2>1, <2>2 DEF ReportedRightly, Rightly, Blurred, Near
  <2>7. StartReported'
    BY <2>1, <2>2, <2>4 DEF StartReported
  <2> QED
    BY <2>5, <2>6, <2>7
<1>7. CASE SearchEnds
  <2>1. at' = "off" /\ message' = Silence /\ block' = 0 /\ reported' = <<>>
    BY <1>7 DEF SearchEnds
  <2>2. reported' \in Seq(Reports)
    BY <2>1
  <2> QED
    BY <2>1, <2>2 DEF AtRest, FoundRightly, ReportedRightly, StartReported
<1>8. CASE UNCHANGED searchVars
  <2>1. UNCHANGED <<at, wiped, message, block, found, detections, array, reported>>
    BY <1>8 DEF searchVars
  <2>2. /\ Home' = Home /\ StartIndex' = StartIndex /\ Horizon' = Horizon /\ Finding' = Finding
        /\ \A j : SampleOf(j)' = SampleOf(j)
    BY <2>1 DEF Home, StartIndex, SampleOf, Horizon, Finding, SpectrumOf
  <2> QED
    BY <2>1, <2>2 DEF AtRest, FoundRightly, ReportedRightly, StartReported, Rightly, Blurred, Near
<1> QED
  BY <1>1, <1>2, <1>3, <1>4, <1>5, <1>6, <1>7, <1>8 DEF SearchNext

\* A message is reported as it was sent, from where it begins, in one block only, at every
\* rate, whatever its bits, its length and what comes behind it, and wherever it begins; and
\* from nowhere else, unless the spectrum of the preamble was wiped or a half bit has two
\* or three samples only (detect_preamble, demodulate).
THEOREM FoundOnce == SearchSpec => []PreambleFoundOnce
<1>1. SearchInit => SearchRecord
  <2> SUFFICES ASSUME SearchInit PROVE SearchRecord
    OBVIOUS
  <2>1. reported \in Seq(Reports)
    BY DEF SearchInit
  <2> QED
    BY <2>1 DEF SearchInit, SearchRecord, AtRest, FoundRightly, ReportedRightly, StartReported
<1>2. SearchTypes /\ SearchInHand /\ SearchRecord /\ [SearchNext]_searchVars => SearchRecord'
  BY SearchStep, RecordStep
<1>3. SearchTypes /\ SearchRecord => PreambleFoundOnce
  <2> SUFFICES ASSUME SearchTypes, SearchRecord, SearchIsOver, message # Silence
               PROVE  \E k \in DOMAIN reported :
                         /\ reported[k] = [sample |-> message.start, bits |-> message.bits]
                         /\ \A j \in DOMAIN reported \ {k} :
                               /\ Blurred
                               /\ reported[j].sample - message.start \in -NCoh .. NCoh =>
                                     /\ reported[j].bits = message.bits
                                     /\ reported[j].sample \div Window # message.start \div Window
    BY DEF PreambleFoundOnce, Blurred
  <2>1. message \in Heard /\ at = "demodulate" /\ detections = {} /\ block = LastBlock
    BY DEF SearchTypes, SearchIsOver
  <2>2. block > Home \/ block = Home
    <3>1. Home \in Nat /\ Home <= LastBlock /\ LastBlock \in Nat
      BY <2>1, HomeIs DEF LastBlock
    <3> QED
      BY <2>1, <3>1
  <2>3. PICK k \in DOMAIN reported :
           reported[k] = [sample |-> message.start, bits |-> message.bits]
    BY <2>1, <2>2 DEF SearchRecord, StartReported
  <2>4. reported[k].sample = message.start
    BY <2>3
  <2>5. ASSUME NEW j \in DOMAIN reported \ {k}
        PROVE  /\ Blurred
               /\ Near(reported[j].sample) => /\ reported[j].bits = message.bits
                                              /\ reported[j].sample \div Window # Home
    <3>1. /\ Rightly(reported[j].sample)
          /\ Near(reported[j].sample) => reported[j].bits = message.bits
          /\ reported[j].sample # message.start
      BY <2>4 DEF SearchRecord, ReportedRightly
    <3> QED
      BY <3>1 DEF Rightly
  <2> QED
    BY <2>3, <2>5 DEF Near, Home
<1> QED
  BY <1>1, <1>2, <1>3, SearchInvariant, PTL DEF SearchSpec
===============================================================================
