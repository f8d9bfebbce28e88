-------------------------- MODULE SampleStoreProofs --------------------------
(***************************************************************************)
(* Proofs about SampleStore and Printer for every length of the buffer and *)
(* of the overlap, every rate and every size of what the device delivers:  *)
(* no sample is lost or searched twice, every time is that of its sample   *)
(* up to what the additions cut off, and when a printed time reads right.  *)
(***************************************************************************)
EXTENDS Printer, SequenceTheorems, ArithmeticProofs, TLAPS

-----------------------------------------------------------------------------
\* What the assumptions say of the sizes.
LEMMA ConstantsRange ==
  /\ Capacity \in Nat /\ Overlap \in Nat \ {0} /\ Overlap < Capacity
  /\ Capacity - Overlap = (FftSize - Overlap) - NzerosHead
  /\ Rate \in Nat \ {0} /\ Second \in Nat \ {0}
  /\ MaxChunk \in Nat \ {0} /\ MaxLoss \in Nat \ {0} /\ MaxSample \in Nat \ {0}
BY TimeSpecAssumption, SampleStoreAssumption DEF Capacity, Overlap, NzerosHead

\* The samples of the stream.
Numbers == 0 .. MaxSample

LEMMA NumbersAreNatural ==
  /\ \A x \in Numbers : x \in Int /\ x >= 0 /\ x <= MaxSample
  /\ \A x \in Int : x >= 0 /\ x <= MaxSample => x \in Numbers
BY ConstantsRange DEF Numbers

-----------------------------------------------------------------------------
(* Times.                                                                  *)

Times == [seconds : Nat, femtoseconds : 0 .. Second]

LEMMA DivisionOfMultiple ==
  ASSUME NEW q \in Int, NEW b \in Nat \ {0}
  PROVE  (b * q) \div b = q
  OBVIOUS

\* Carrying whole seconds does not change the instant (sdr.hpp:90-184, init).
LEMMA NormalKeepsInstant ==
  ASSUME NEW seconds \in Nat, NEW units \in Nat
  PROVE  /\ Normal(seconds, units) \in Times
         /\ Instant(Normal(seconds, units)) = seconds * Second + units
<1> DEFINE left == IF units > 0 THEN ((units - 1) % Second) + 1 ELSE units % Second
<1> DEFINE carry == IF units > 0 THEN (units - 1) \div Second ELSE 0
<1> USE ConstantsRange
<1>1. left \in 0 .. Second /\ carry \in Nat /\ units = Second * carry + left
  <2>1. CASE units > 0
    <3> DEFINE q == (units - 1) \div Second
    <3> DEFINE r == (units - 1) % Second
    <3>1. units - 1 \in Int /\ units - 1 >= 0
      BY <2>1
    <3>2. q \in Int /\ r \in 0 .. Second - 1 /\ q >= 0 /\ units - 1 = Second * q + r
      BY <3>1, Division, Zenon
    <3>3. carry = q /\ left = r + 1
      BY <2>1
    <3> HIDE DEF q, r, left, carry
    <3> QED
      BY <3>2, <3>3
  <2>2. CASE units = 0
    <3>1. 0 % Second = 0
      OBVIOUS
    <3>2. carry = 0 /\ left = 0
      BY <2>2, <3>1
    <3> HIDE DEF left, carry
    <3> QED
      BY <2>2, <3>2
  <2> QED
    BY <2>1, <2>2
<1> HIDE DEF left, carry
<1>2. (units - left) \div Second = carry
  <2>1. units - left = Second * carry
    BY <1>1
  <2> QED
    BY <1>1, <2>1, DivisionOfMultiple
<1>3. Normal(seconds, units) = [seconds |-> seconds + carry, femtoseconds |-> left]
  BY <1>2 DEF Normal, left
<1>4. (seconds + carry) * Second + left = seconds * Second + units
  <2>1. (seconds + carry) * Second = seconds * Second + Second * carry
    BY <1>1
  <2> QED
    BY <1>1, <2>1
<1> QED
  BY <1>1, <1>3, <1>4 DEF Times, Instant

\* A duration is cut off to whole units, by less than one: in Full and Frac together
\* num / den of a second are short by less than a den-th of a unit times den.
LEMMA SplitCutsOff ==
  ASSUME NEW num \in Nat, NEW den \in Nat \ {0}
  PROVE  /\ Full(num, den) \in Nat /\ Frac(num, den) \in Nat
         /\ num * Second - den * (Full(num, den) * Second + Frac(num, den)) \in 0 .. den - 1
<1> USE ConstantsRange
<1> DEFINE full == num \div den
<1> DEFINE rest == num % den
<1> DEFINE units == (rest * Second) \div den
<1> DEFINE cut == (rest * Second) % den
<1>1. full \in Nat /\ rest \in Nat /\ num = den * full + rest
  <2>1. num \in Int /\ num >= 0
    OBVIOUS
  <2>2. full \in Int /\ rest \in 0 .. den - 1 /\ full >= 0 /\ num = den * full + rest
    BY <2>1, Division, Zenon
  <2> HIDE DEF full, rest
  <2> QED
    BY <2>2
<1> HIDE DEF rest
<1>2. rest * Second \in Nat
  BY <1>1
<1>3. units \in Nat /\ cut \in 0 .. den - 1 /\ rest * Second = den * units + cut
  <2>1. rest * Second \in Int /\ rest * Second >= 0
    BY <1>2
  <2>2. units \in Int /\ cut \in 0 .. den - 1 /\ units >= 0 /\ rest * Second = den * units + cut
    BY <2>1, Division, Zenon
  <2> HIDE DEF units, cut
  <2> QED
    BY <2>2
<1>4. Full(num, den) = full /\ Frac(num, den) = units
  <2>1. num - full * den = rest
    BY DEF rest
  <2>2. Full(num, den) = full
    BY DEF Full, Truncated
  <2> QED
    BY <1>2, <2>1, <2>2 DEF Frac, Truncated
<1> HIDE DEF full, rest, units, cut
<1>5. num * Second = den * (full * Second) + rest * Second
  <2>1. num * Second = (den * full) * Second + rest * Second
    BY <1>1
  <2>2. (den * full) * Second = den * (full * Second)
    BY <1>1
  <2> QED
    BY <2>1, <2>2
<1>6. den * (full * Second + units) = den * (full * Second) + den * units
  BY <1>1, <1>3
<1>7. num * Second - den * (full * Second + units) = cut
  BY <1>1, <1>3, <1>5, <1>6
<1> QED
  BY <1>1, <1>3, <1>4, <1>7

\* A time plus a number of samples is the time of the sample so many further on, except
\* for less than a unit that is cut off.
LEMMA PlusSamples ==
  ASSUME NEW t \in Times, NEW num \in Nat, NEW sample \in Int
  PROVE  /\ Plus(t, num, Rate) \in Times
         /\ Lag(t, sample) \in Int
         /\ Lag(Plus(t, num, Rate), sample + num) - Lag(t, sample) \in 0 .. Rate - 1
<1> USE ConstantsRange
<1> DEFINE full == Full(num, Rate)
<1> DEFINE frac == Frac(num, Rate)
<1>1. full \in Nat /\ frac \in Nat
      /\ num * Second - Rate * (full * Second + frac) \in 0 .. Rate - 1
  BY SplitCutsOff
<1>2. t.seconds \in Nat /\ t.femtoseconds \in Nat
  BY DEF Times
<1>3. /\ Plus(t, num, Rate) \in Times
      /\ Instant(Plus(t, num, Rate)) = (t.seconds + full) * Second + (t.femtoseconds + frac)
  <2>1. t.seconds + full \in Nat /\ t.femtoseconds + frac \in Nat
    BY <1>1, <1>2
  <2> QED
    BY <2>1, NormalKeepsInstant, Zenon DEF Plus
<1> HIDE DEF full, frac
<1>4. Instant(Plus(t, num, Rate)) = Instant(t) + (full * Second + frac)
  <2>1. (t.seconds + full) * Second = t.seconds * Second + full * Second
    BY <1>1, <1>2
  <2> QED
    BY <1>1, <1>2, <1>3, <2>1 DEF Instant
<1>5. Instant(t) \in Int /\ full * Second + frac \in Int
  BY <1>1, <1>2 DEF Instant
<1>6. Rate * (Instant(t) + (full * Second + frac))
        = Rate * Instant(t) + Rate * (full * Second + frac)
  BY <1>5
<1>7. (sample + num) * Second = sample * Second + num * Second
  OBVIOUS
<1>8. Lag(Plus(t, num, Rate), sample + num) - Lag(t, sample)
        = num * Second - Rate * (full * Second + frac)
  BY <1>4, <1>5, <1>6, <1>7 DEF Lag
<1>9. Lag(t, sample) \in Int
  BY <1>5 DEF Lag
<1>10. Lag(Plus(t, num, Rate), sample + num) - Lag(t, sample) \in 0 .. Rate - 1
  BY <1>1, <1>8, Zenon
<1> QED
  BY <1>3, <1>9, <1>10, Zenon

\* The time of a sample since second 0 is early by less than a unit.
LEMMA SinceStart ==
  ASSUME NEW sample \in Nat
  PROVE  /\ Since(sample, Rate) \in Times
         /\ Lag(Since(sample, Rate), sample) \in 0 .. Rate - 1
<1> USE ConstantsRange
<1> DEFINE full == Full(sample, Rate)
<1> DEFINE frac == Frac(sample, Rate)
<1>1. full \in Nat /\ frac \in Nat
      /\ sample * Second - Rate * (full * Second + frac) \in 0 .. Rate - 1
  BY SplitCutsOff
<1> QED
  BY <1>1, NormalKeepsInstant DEF Since, Lag

-----------------------------------------------------------------------------
(* The inductive invariant.                                                *)

\* As TypeOK, without the bounds on times and counts, which follow from the rest.
Types ==
    /\ samples \in Seq(Numbers) /\ Len(samples) <= Capacity
    /\ start_times \in Seq(Times) /\ Len(start_times) <= 1
    /\ {from, remaining, clock} \subseteq 0 .. MaxSample
    /\ device \in Devices /\ transfer \in 1 .. MaxChunk
    /\ sample_time \in Times
    /\ overflowed \in BOOLEAN /\ lost \in Nat
    /\ carried \in [block : Nat, driver : Nat]

\* buf holds consecutive samples.
IsRun(buf) == \A i \in 1 .. Len(buf) : buf[i] = buf[1] + i - 1

\* By how much a time is early for a sample when so many samples have been lost.
Early(t, sample, missed) == Lag(t, sample) - missed * Second

\* A time of which the additions have cut off so much.
IsTimeOf(t, sample, missed, additions) ==
    Early(t, sample, missed) \in 0 .. (additions + 1) * Rate - 1

\* The block being written: its samples, and the time of the first one.
CurrentBlock ==
    /\ IsRun(samples)
    /\ start_times = <<>> <=> samples = <<>>
    /\ samples = <<>> => carried.block = 0
    /\ samples # <<>> =>
          /\ IsTimeOf(start_times[1], samples[1], lost, carried.block)
          /\ carried.block <= samples[1]

\* The driver's own count of the time, of devices that give none.
DriverTime ==
    /\ device = "usrp" => sample_time = Since(0, Rate)
    /\ device # "usrp" => IsTimeOf(sample_time, clock, lost, carried.driver)
    /\ device # "usrp without times" => lost = 0
    /\ device = "usrp" => carried.driver = 0
    /\ carried.driver <= clock /\ lost <= clock

\* The block announced last, and where the current one begins.
LastBlock ==
    last # NoneYet =>
        /\ last.samples \in Seq(Numbers) /\ Len(last.samples) = Capacity
        /\ IsRun(last.samples)
        /\ last.samples[Capacity] < clock
        /\ last.start_times[1] \in Times /\ last.lost \in Nat /\ last.carried \in Nat
        /\ IsTimeOf(last.start_times[1], last.samples[1], last.lost, last.carried)
        /\ overflowed => (samples # <<>> => samples[1] > last.samples[Capacity])
        /\ ~overflowed => samples # <<>> /\ samples[1] = last.samples[1] + (Capacity - Overlap)

IInv ==
    /\ Types
    /\ CurrentBlock
    /\ NothingDropped
    /\ DriverTime
    /\ LastBlock

-----------------------------------------------------------------------------
(* Buffers.                                                                *)

\* The length and the elements of a buffer.
LEMMA Elements ==
  ASSUME NEW buf \in Seq(Numbers)
  PROVE  /\ Len(buf) \in Nat
         /\ buf = <<>> <=> Len(buf) = 0
         /\ \A i \in 1 .. Len(buf) : buf[i] \in Numbers /\ buf[i] \in Int
BY NumbersAreNatural

LEMMA Single ==
  ASSUME NEW S, NEW s \in Seq(S), Len(s) <= 1, s # <<>>
  PROVE  s[1] \in S /\ s = <<s[1]>>
<1>1. Len(s) = 1
  <2>1. Len(s) \in Nat
    OBVIOUS
  <2>2. Len(s) # 0
    BY EmptySeq
  <2> QED
    BY <2>1, <2>2
<1>2. s[1] \in S
  BY <1>1
<1>3. <<s[1]>> \in Seq(S) /\ Len(<<s[1]>>) = 1 /\ <<s[1]>>[1] = s[1]
  BY <1>2
<1>4. \A i \in 1 .. Len(s) : s[i] = <<s[1]>>[i]
  BY <1>1, <1>3
<1> QED
  BY <1>1, <1>2, <1>3, <1>4, SeqEqual

\* A part of a sequence.
LEMMA Part ==
  ASSUME NEW S, NEW s \in Seq(S), NEW m \in Nat \ {0}, NEW n \in Nat, m <= n + 1, n <= Len(s)
  PROVE  /\ SubSeq(s, m, n) \in Seq(S)
         /\ Len(SubSeq(s, m, n)) = (n - m) + 1
         /\ \A i \in 1 .. (n - m) + 1 : SubSeq(s, m, n)[i] = s[(m - 1) + i]
<1>1. \A i \in m .. n : s[i] \in S
  OBVIOUS
<1>2. m \in Int /\ n \in Int
  OBVIOUS
<1> QED
  BY <1>1, <1>2, SubSeqProperties

\* copy_from (sdr.hpp) appends as much of n samples as there is room for.
LEMMA CopyFromStream ==
  ASSUME NEW buf \in Seq(Numbers), Len(buf) <= Capacity,
         NEW s \in Nat, NEW n \in Nat \ {0}, s + n - 1 <= MaxSample
  PROVE  LET written == Smaller(n, Available(buf))
             new == CopyFrom(buf, Stream(s, n))
         IN  /\ written \in 0 .. n
             /\ Len(buf) + written <= Capacity
             /\ written < n => Len(buf) + written = Capacity
             /\ Len(buf) < Capacity => written > 0
             /\ new \in Seq(Numbers)
             /\ Len(new) = Len(buf) + written
             /\ \A i \in 1 .. Len(buf) : new[i] = buf[i]
             /\ \A i \in Len(buf) + 1 .. Len(new) : new[i] = s + (i - Len(buf)) - 1
<1> DEFINE written == Smaller(n, Available(buf))
<1> DEFINE new == CopyFrom(buf, Stream(s, n))
<1> DEFINE part == SubSeq(Stream(s, n), 1, written)
<1>1. /\ written \in 0 .. n /\ Len(buf) + written <= Capacity
      /\ written < n => Len(buf) + written = Capacity
      /\ Len(buf) < Capacity => written > 0
  BY ConstantsRange DEF Smaller, Available
<1>2. /\ Len(Stream(s, n)) = n
      /\ \A i \in 1 .. n : Stream(s, n)[i] = s + i - 1
      /\ Stream(s, n) \in Seq(Numbers)
  <2>1. Stream(s, n) \in [1 .. n -> Numbers]
    <3>1. \A i \in 1 .. n : s + i - 1 \in Numbers
      BY NumbersAreNatural, ConstantsRange
    <3> QED
      BY <3>1 DEF Stream
  <2>2. Stream(s, n) \in Seq(Numbers)
    BY <2>1, SeqDef
  <2> QED
    BY <2>2 DEF Stream
<1>3. new = buf \o part
  BY <1>2 DEF CopyFrom
<1> HIDE DEF written, new
<1>4. /\ part \in Seq(Numbers) /\ Len(part) = written
      /\ \A i \in 1 .. written : part[i] = Stream(s, n)[i]
  <2>1. /\ 1 \in Nat \ {0} /\ written \in Nat /\ 1 <= written + 1
        /\ written <= Len(Stream(s, n))
    BY <1>1, <1>2
  <2>2. /\ SubSeq(Stream(s, n), 1, written) \in Seq(Numbers)
        /\ Len(SubSeq(Stream(s, n), 1, written)) = (written - 1) + 1
        /\ \A i \in 1 .. (written - 1) + 1 :
              SubSeq(Stream(s, n), 1, written)[i] = Stream(s, n)[(1 - 1) + i]
    <3> DEFINE str == Stream(s, n)
    <3>1. str \in Seq(Numbers) /\ written <= Len(str)
      BY <1>2, <2>1
    <3> HIDE DEF str, part
    <3>2. /\ SubSeq(str, 1, written) \in Seq(Numbers)
          /\ Len(SubSeq(str, 1, written)) = (written - 1) + 1
          /\ \A i \in 1 .. (written - 1) + 1 : SubSeq(str, 1, written)[i] = str[(1 - 1) + i]
      BY ONLY <2>1, <3>1, Part
    <3> QED
      BY ONLY <3>2 DEF str
  <2>3. (written - 1) + 1 = written /\ \A i \in 1 .. written : (1 - 1) + i = i
    BY <2>1
  <2>4. part = SubSeq(Stream(s, n), 1, written)
    OBVIOUS
  <2> HIDE DEF part
  <2> QED
    BY ONLY <2>2, <2>3, <2>4
<1>5. \A i \in 1 .. written : part[i] = s + i - 1
  BY <1>1, <1>2, <1>4
<1> HIDE DEF part
<1>6. /\ new \in Seq(Numbers)
      /\ Len(new) = Len(buf) + Len(part)
      /\ \A i \in 1 .. Len(buf) + Len(part) :
            new[i] = IF i <= Len(buf) THEN buf[i] ELSE part[i - Len(buf)]
  BY <1>3, <1>4, ConcatProperties
<1>7. \A i \in 1 .. Len(buf) : new[i] = buf[i]
  <2>1. \A i \in 1 .. Len(buf) : i \in 1 .. Len(buf) + Len(part) /\ i <= Len(buf)
    BY <1>1, <1>4
  <2> QED
    BY <1>6, <2>1
<1>8. \A i \in Len(buf) + 1 .. Len(new) : new[i] = s + (i - Len(buf)) - 1
  BY <1>1, <1>4, <1>5, <1>6
<1>9. Len(new) = Len(buf) + written
  BY <1>4, <1>6
<1> QED
  BY <1>1, <1>6, <1>7, <1>8, <1>9 DEF written, new

\* A fresh block takes the end of the full one, the overlap.
LEMMA CopyFromOverlapped ==
  ASSUME NEW buf \in Seq(Numbers), Len(buf) = Capacity
  PROVE  LET new == CopyFrom(<<>>, Overlapped(buf))
         IN  /\ new \in Seq(Numbers)
             /\ Len(new) = Overlap
             /\ \A i \in 1 .. Overlap : new[i] = buf[Capacity - Overlap + i]
<1> DEFINE end == Overlapped(buf)
<1> DEFINE new == CopyFrom(<<>>, end)
<1>1. /\ end \in Seq(Numbers) /\ Len(end) = Overlap
      /\ \A i \in 1 .. Overlap : end[i] = buf[Capacity - Overlap + i]
  <2> DEFINE m == Capacity - Overlap + 1
  <2>1. /\ m \in Nat \ {0} /\ Capacity \in Nat /\ m <= Capacity + 1
        /\ (Capacity - m) + 1 = Overlap /\ m - 1 = Capacity - Overlap
        /\ Capacity <= Len(buf)
    BY ConstantsRange
  <2>2. end = SubSeq(buf, m, Capacity)
    BY DEF Overlapped
  <2> HIDE DEF m, end, new
  <2>3. /\ SubSeq(buf, m, Capacity) \in Seq(Numbers)
        /\ Len(SubSeq(buf, m, Capacity)) = (Capacity - m) + 1
        /\ \A i \in 1 .. (Capacity - m) + 1 : SubSeq(buf, m, Capacity)[i] = buf[(m - 1) + i]
    BY ONLY <2>1, buf \in Seq(Numbers), Part
  <2> QED
    BY <2>1, <2>2, <2>3
<1> HIDE DEF end
<1>2. Smaller(Len(end), Available(<<>>)) = Len(end)
  BY <1>1, ConstantsRange DEF Smaller, Available
<1>3. new = end
  <2>1. new = <<>> \o SubSeq(end, 1, Len(end))
    BY <1>2 DEF CopyFrom
  <2>2. SubSeq(end, 1, Len(end)) = end
    BY <1>1, SubSeqFull
  <2> QED
    BY <1>1, <2>1, <2>2, ConcatEmptySeq
<1> QED
  BY <1>1, <1>3 DEF end, new

-----------------------------------------------------------------------------
(* What a call of store() does to the block.                               *)

\* new is buf with the samples of the stream from s on behind it.
Continues(new, buf, s) ==
    /\ \A i \in 1 .. Len(buf) : new[i] = buf[i]
    /\ \A i \in Len(buf) + 1 .. Len(new) : new[i] = s + (i - Len(buf)) - 1

\* A run can be continued by what comes next in the stream.
LEMMA RunGoesOn ==
  ASSUME NEW buf \in Seq(Numbers), NEW new \in Seq(Numbers), NEW s \in Nat,
         IsRun(buf), Len(buf) <= Len(new),
         buf # <<>> => buf[1] + Len(buf) = s,
         Continues(new, buf, s), new # <<>>
  PROVE  /\ IsRun(new)
         /\ new[1] = IF buf = <<>> THEN s ELSE buf[1]
         /\ new[1] \in Numbers
         /\ new[1] + Len(new) = s + (Len(new) - Len(buf))
<1> DEFINE first == IF buf = <<>> THEN s ELSE buf[1]
<1>1. /\ Len(new) \in Nat /\ Len(new) # 0 /\ 1 \in 1 .. Len(new)
      /\ \A i \in 1 .. Len(new) : new[i] \in Numbers
  BY ONLY Elements, new \in Seq(Numbers), new # <<>>
<1>2. Len(buf) \in Nat /\ (buf = <<>> <=> Len(buf) = 0)
  BY ONLY Elements, buf \in Seq(Numbers)
<1>3. first \in Int /\ first + Len(buf) = s
  <2>1. CASE buf = <<>>
    BY ONLY <1>2, <2>1, s \in Nat
  <2>2. CASE buf # <<>>
    <3>1. buf[1] \in Int
      BY ONLY Elements, buf \in Seq(Numbers), <1>2, <2>2
    <3> QED
      BY <2>2, <3>1
  <2> QED
    BY <2>1, <2>2
<1>4. \A i \in 1 .. Len(buf) : buf[i] = first + i - 1
  <2>1. CASE buf = <<>>
    BY ONLY <1>2, <2>1
  <2>2. CASE buf # <<>>
    BY <2>2 DEF IsRun
  <2> QED
    BY <2>1, <2>2
<1>5. ASSUME NEW i \in 1 .. Len(new) PROVE new[i] = first + i - 1
  <2> HIDE DEF first
  <2>1. CASE i \in 1 .. Len(buf)
    BY <1>4, <2>1, Zenon DEF Continues
  <2>2. CASE i \in Len(buf) + 1 .. Len(new)
    <3>1. new[i] = s + (i - Len(buf)) - 1
      BY <2>2, Zenon DEF Continues
    <3> QED
      BY ONLY <1>2, <1>3, <3>1, i \in 1 .. Len(new), s \in Nat
  <2> QED
    BY ONLY <1>1, <1>2, <2>1, <2>2, i \in 1 .. Len(new)
<1> HIDE DEF first
<1>6. new[1] = first
  <2>1. new[1] = first + 1 - 1
    BY <1>1, <1>5, Zenon
  <2> QED
    BY ONLY <1>3, <2>1
<1>7. IsRun(new)
  BY ONLY <1>5, <1>6 DEF IsRun
<1>8. new[1] + Len(new) = s + (Len(new) - Len(buf))
  BY ONLY <1>1, <1>2, <1>3, <1>6
<1>9. new[1] \in Numbers
  BY ONLY <1>1
<1> QED
  BY <1>6, <1>7, <1>8, <1>9, Zenon DEF first

\* Where a run ends.
LEMMA RunEnds ==
  ASSUME NEW buf \in Seq(Numbers), IsRun(buf), buf # <<>>
  PROVE  /\ Len(buf) \in Nat \ {0} /\ buf[1] \in Numbers
         /\ buf[Len(buf)] + 1 = buf[1] + Len(buf)
<1>1. Len(buf) \in Nat \ {0} /\ 1 \in 1 .. Len(buf) /\ Len(buf) \in 1 .. Len(buf)
  BY ONLY Elements, buf \in Seq(Numbers), buf # <<>>
<1>2. buf[1] \in Numbers /\ buf[1] \in Int
  BY <1>1, Elements
<1>3. buf[Len(buf)] = buf[1] + Len(buf) - 1
  BY <1>1 DEF IsRun
<1> QED
  BY ONLY <1>1, <1>2, <1>3

LEMMA StoreEffect ==
  ASSUME IInv, NEW n \in 1 .. MaxChunk, Store(n)
  PROVE  /\ samples' \in Seq(Numbers) /\ Len(samples') <= Capacity /\ samples' # <<>>
         /\ IsRun(samples')
         /\ samples'[1] = IF samples = <<>> THEN clock ELSE samples[1]
         /\ clock' = clock + n /\ clock' \in 0 .. MaxSample
         /\ remaining' \in 0 .. n /\ from' \in 0 .. clock' /\ from' + remaining' = clock'
         /\ samples'[1] + Len(samples') = from'
         /\ remaining' # 0 => Len(samples') = Capacity
<1> USE DEF IInv, Types
<1> DEFINE written == Smaller(n, Available(samples))
<1>1. /\ n \in Nat \ {0} /\ clock \in Nat /\ clock + n - 1 <= MaxSample /\ clock + n <= MaxSample
      /\ samples' = CopyFrom(samples, Stream(clock, n))
      /\ from' = clock + written /\ remaining' = n - written /\ clock' = clock + n
      /\ remaining = 0
  BY ConstantsRange DEF Store
<1>2. /\ written \in 0 .. n
      /\ Len(samples) + written <= Capacity
      /\ written < n => Len(samples) + written = Capacity
      /\ Len(samples) < Capacity => written > 0
      /\ samples' \in Seq(Numbers)
      /\ Len(samples') = Len(samples) + written
      /\ \A i \in 1 .. Len(samples) : samples'[i] = samples[i]
      /\ \A i \in Len(samples) + 1 .. Len(samples') :
            samples'[i] = clock + (i - Len(samples)) - 1
  <2>1. samples \in Seq(Numbers) /\ Len(samples) <= Capacity
    OBVIOUS
  <2> DEFINE new == CopyFrom(samples, Stream(clock, n))
  <2>2. /\ written \in 0 .. n
        /\ Len(samples) + written <= Capacity
        /\ written < n => Len(samples) + written = Capacity
        /\ Len(samples) < Capacity => written > 0
        /\ new \in Seq(Numbers)
        /\ Len(new) = Len(samples) + written
        /\ \A i \in 1 .. Len(samples) : new[i] = samples[i]
        /\ \A i \in Len(samples) + 1 .. Len(new) :
              new[i] = clock + (i - Len(samples)) - 1
    BY ONLY <1>1, <2>1, CopyFromStream
  <2>3. samples' = new
    BY <1>1
  <2> HIDE DEF new, written
  <2> QED
    BY ONLY <2>2, <2>3
<1> HIDE DEF written
<1>3. Len(samples) \in Nat /\ Len(samples') \in Nat \ {0} /\ samples' # <<>>
  <2>1. samples \in Seq(Numbers) /\ Len(samples) <= Capacity
    OBVIOUS
  <2>2. Len(samples) \in Nat /\ Len(samples') \in Nat /\ (samples' = <<>> <=> Len(samples') = 0)
    BY ONLY <1>2, <2>1, Elements
  <2> QED
    BY ONLY <1>1, <1>2, <2>1, <2>2, ConstantsRange
<1>4. samples # <<>> => samples[1] + Len(samples) = clock
  BY <1>1, RunEnds DEF CurrentBlock, NothingDropped
<1>5. /\ IsRun(samples')
      /\ samples'[1] = IF samples = <<>> THEN clock ELSE samples[1]
      /\ samples'[1] \in Numbers
      /\ samples'[1] + Len(samples') = clock + (Len(samples') - Len(samples))
  <2>1. IsRun(samples) /\ Len(samples) <= Len(samples')
    BY <1>2, <1>3 DEF CurrentBlock
  <2>2. Continues(samples', samples, clock)
    BY ONLY <1>2 DEF Continues
  <2> QED
    BY <1>1, <1>2, <1>3, <1>4, <2>1, <2>2, RunGoesOn
<1> QED
  BY <1>1, <1>2, <1>3, <1>5

LEMMA NextPacketEffect ==
  ASSUME IInv, NextPacket
  PROVE  /\ Len(samples) = Capacity /\ samples # <<>> /\ samples[Capacity] < clock
         /\ samples[1] \in Numbers
         /\ samples' \in Seq(Numbers) /\ Len(samples') <= Capacity /\ samples' # <<>>
         /\ IsRun(samples')
         /\ samples'[1] = samples[1] + (Capacity - Overlap)
         /\ clock' = clock
         /\ remaining' \in 0 .. remaining - 1 /\ from' \in 0 .. clock /\ from' + remaining' = clock
         /\ samples'[1] + Len(samples') = from'
         /\ remaining' # 0 => Len(samples') = Capacity
<1> USE DEF IInv, Types
<1> DEFINE overlap == CopyFrom(<<>>, Overlapped(samples))
<1> DEFINE written == Smaller(remaining, Available(overlap))
<1>1. /\ remaining \in Nat \ {0} /\ from \in Nat
      /\ samples' = CopyFrom(overlap, Stream(from, remaining))
      /\ from' = from + written /\ remaining' = remaining - written /\ clock' = clock
  BY DEF NextPacket, deviceVars
<1>2. /\ from + remaining = clock /\ Len(samples) = Capacity
      /\ samples[Capacity] + 1 = from /\ clock \in 0 .. MaxSample
  BY <1>1 DEF NothingDropped
<1>3. samples # <<>> /\ samples[1] \in Numbers /\ samples[1] + Capacity = from
  BY <1>2, ConstantsRange, RunEnds DEF CurrentBlock
<1>4. /\ overlap \in Seq(Numbers)
      /\ Len(overlap) = Overlap
      /\ \A i \in 1 .. Overlap : overlap[i] = samples[Capacity - Overlap + i]
  BY <1>2, CopyFromOverlapped
<1> HIDE DEF overlap
<1>5. /\ written \in 0 .. remaining
      /\ Len(overlap) + written <= Capacity
      /\ written < remaining => Len(overlap) + written = Capacity
      /\ Len(overlap) < Capacity => written > 0
      /\ samples' \in Seq(Numbers)
      /\ Len(samples') = Len(overlap) + written
      /\ \A i \in 1 .. Len(overlap) : samples'[i] = overlap[i]
      /\ \A i \in Len(overlap) + 1 .. Len(samples') :
            samples'[i] = from + (i - Len(overlap)) - 1
  <2>1. Len(overlap) <= Capacity /\ from + remaining - 1 <= MaxSample
    BY <1>1, <1>2, <1>4, ConstantsRange
  <2> DEFINE new == CopyFrom(overlap, Stream(from, remaining))
  <2>2. /\ written \in 0 .. remaining
        /\ Len(overlap) + written <= Capacity
        /\ written < remaining => Len(overlap) + written = Capacity
        /\ Len(overlap) < Capacity => written > 0
        /\ new \in Seq(Numbers)
        /\ Len(new) = Len(overlap) + written
        /\ \A i \in 1 .. Len(overlap) : new[i] = overlap[i]
        /\ \A i \in Len(overlap) + 1 .. Len(new) :
              new[i] = from + (i - Len(overlap)) - 1
    BY ONLY <1>1, <1>4, <2>1, CopyFromStream
  <2>3. samples' = new
    BY <1>1
  <2> HIDE DEF new, written
  <2> QED
    BY ONLY <2>2, <2>3
<1> HIDE DEF written
<1>6. /\ IsRun(overlap) /\ overlap # <<>>
      /\ overlap[1] = samples[1] + (Capacity - Overlap)
      /\ overlap[1] + Len(overlap) = from
  <2>1. \A i \in 1 .. Overlap : Capacity - Overlap + i \in 1 .. Len(samples)
    BY <1>2, ConstantsRange
  <2>2. \A i \in 1 .. Overlap : overlap[i] = samples[1] + (Capacity - Overlap + i) - 1
    BY <1>4, <2>1 DEF CurrentBlock, IsRun
  <2>3. 1 \in 1 .. Overlap /\ overlap # <<>>
    BY <1>4, ConstantsRange
  <2>4. overlap[1] = samples[1] + (Capacity - Overlap)
    BY <1>3, <2>2, <2>3, ConstantsRange
  <2>5. samples[1] \in Int
    BY <1>3, NumbersAreNatural
  <2>6. \A i \in 1 .. Len(overlap) : overlap[i] = overlap[1] + i - 1
    BY ONLY <1>4, <2>2, <2>4, <2>5, ConstantsRange
  <2>7. overlap[1] + Len(overlap) = from
    BY ONLY <1>3, <1>4, <2>4, <2>5, ConstantsRange
  <2> QED
    BY <2>3, <2>4, <2>6, <2>7 DEF IsRun
<1>7. samples' # <<>> /\ Len(overlap) <= Len(samples')
  BY <1>4, <1>5, ConstantsRange
<1>8. /\ IsRun(samples')
      /\ samples'[1] = overlap[1]
      /\ samples'[1] + Len(samples') = from + (Len(samples') - Len(overlap))
  <2>1. /\ overlap \in Seq(Numbers) /\ from \in Nat /\ IsRun(overlap)
        /\ (overlap # <<>> => overlap[1] + Len(overlap) = from)
    BY ONLY <1>1, <1>4, <1>6
  <2>2. /\ samples' \in Seq(Numbers) /\ samples' # <<>> /\ Len(overlap) <= Len(samples')
    BY ONLY <1>5, <1>7
  <2>3. Continues(samples', overlap, from)
    BY ONLY <1>5 DEF Continues
  <2>4. /\ IsRun(samples')
        /\ samples'[1] = IF overlap = <<>> THEN from ELSE overlap[1]
        /\ samples'[1] + Len(samples') = from + (Len(samples') - Len(overlap))
    BY ONLY <2>1, <2>2, <2>3, RunGoesOn
  <2> QED
    BY ONLY <1>6, <2>4
<1>9. /\ written \in 1 .. remaining /\ Len(overlap) \in Nat
      /\ Len(samples') - Len(overlap) = written /\ Len(samples') <= Capacity
      /\ written < remaining => Len(samples') = Capacity
  BY ONLY <1>1, <1>4, <1>5, ConstantsRange
<1>10. /\ remaining' \in 0 .. remaining - 1 /\ from' \in 0 .. clock /\ from' + remaining' = clock
       /\ remaining' # 0 => Len(samples') = Capacity
  BY ONLY <1>1, <1>2, <1>9
<1>11. samples'[1] + Len(samples') = from'
  BY ONLY <1>1, <1>8, <1>9
<1>12. samples[Capacity] < clock
  <2>1. samples[Capacity] \in Int
    BY ONLY Elements, <1>2, samples \in Seq(Numbers), ConstantsRange
  <2> QED
    BY ONLY <1>1, <1>2, <2>1
<1> QED
  BY ONLY <1>1, <1>2, <1>3, <1>5, <1>6, <1>7, <1>8, <1>9, <1>10, <1>11, <1>12
-----------------------------------------------------------------------------
(* How the times go on.                                                    *)

\* Adding samples cuts off less than a unit more.
LEMMA TimeGoesOn ==
  ASSUME NEW t \in Times, NEW num \in Nat, NEW sample \in Int,
         NEW missed \in Nat, NEW additions \in Nat,
         IsTimeOf(t, sample, missed, additions)
  PROVE  /\ Plus(t, num, Rate) \in Times
         /\ IsTimeOf(Plus(t, num, Rate), sample + num, missed, additions + 1)
<1> DEFINE next == Plus(t, num, Rate)
<1>1. next \in Times /\ Lag(t, sample) \in Int
      /\ Lag(next, sample + num) - Lag(t, sample) \in 0 .. Rate - 1
  BY PlusSamples
<1> HIDE DEF next
<1>2. Lag(next, sample + num) \in Int
  <2>1. sample + num \in Int /\ 0 \in Nat
    OBVIOUS
  <2> QED
    BY ONLY <1>1, <2>1, PlusSamples
<1>3. Lag(t, sample) - missed * Second \in 0 .. (additions + 1) * Rate - 1
  BY DEF IsTimeOf, Early
<1>4. /\ missed * Second \in Int /\ (additions + 1) * Rate \in Int
      /\ ((additions + 1) + 1) * Rate = (additions + 1) * Rate + Rate
  BY ConstantsRange
<1>5. Lag(next, sample + num) - missed * Second \in 0 .. ((additions + 1) + 1) * Rate - 1
  BY ONLY <1>1, <1>2, <1>3, <1>4, ConstantsRange
<1> QED
  BY <1>1, <1>5 DEF IsTimeOf, Early, next

\* A sample lost makes a time that does not know of it early by one more.
LEMMA TimeFallsBehind ==
  ASSUME NEW t \in Times, NEW sample \in Int, NEW missed \in Nat, NEW more \in Nat,
         NEW additions \in Nat, IsTimeOf(t, sample, missed, additions)
  PROVE  IsTimeOf(t, sample + more, missed + more, additions)
<1>1. /\ (sample + more) * Second = sample * Second + more * Second
      /\ (missed + more) * Second = missed * Second + more * Second
      /\ {sample * Second, missed * Second, more * Second} \subseteq Int
  BY ConstantsRange
<1>2. Rate * Instant(t) \in Int
  BY ConstantsRange DEF Instant, Times
<1>3. Early(t, sample + more, missed + more) = Early(t, sample, missed)
  BY <1>1, <1>2 DEF Early, Lag
<1> QED
  BY <1>3 DEF IsTimeOf

\* The time of a sample since second 0, when nothing was lost.
LEMMA TimeSinceStart ==
  ASSUME NEW sample \in Nat
  PROVE  Since(sample, Rate) \in Times /\ IsTimeOf(Since(sample, Rate), sample, 0, 0)
<1>1. Since(sample, Rate) \in Times /\ Lag(Since(sample, Rate), sample) \in 0 .. Rate - 1
  BY SinceStart
<1>2. 0 * Second = 0 /\ (0 + 1) * Rate = Rate
  BY ConstantsRange
<1> QED
  BY <1>1, <1>2, ConstantsRange DEF IsTimeOf, Early

\* The time store() is called with (sdr.hpp, usrp.hpp, hackrf.hpp).
LEMMA TimeOfPacketIsRight ==
  ASSUME IInv
  PROVE  /\ TimeOfPacket \in Times
         /\ IsTimeOf(TimeOfPacket, clock, lost, carried.driver)
<1> USE DEF IInv, Types
<1>1. clock \in Nat
  BY ConstantsRange
<1>2. CASE device = "usrp"
  <2>1. lost = 0 /\ carried.driver = 0
    BY <1>2 DEF DriverTime
  <2> QED
    BY <1>1, <1>2, <2>1, TimeSinceStart DEF TimeOfPacket, DeviceTime
<1>3. CASE device # "usrp"
  BY <1>3 DEF TimeOfPacket, DriverTime
<1> QED
  BY <1>2, <1>3

-----------------------------------------------------------------------------
(* The steps.                                                              *)

LEMMA InitIInv == Init => IInv
<1> SUFFICES ASSUME Init PROVE IInv
  OBVIOUS
<1>1. Since(0, Rate) \in Times /\ IsTimeOf(Since(0, Rate), 0, 0, 0)
  BY TimeSinceStart
<1>2. transfer \in 1 .. MaxChunk
  BY SampleStoreAssumption, ConstantsRange DEF Init
<1>3. Types
  <2>1. /\ samples \in Seq(Numbers) /\ Len(samples) <= Capacity
        /\ start_times \in Seq(Times) /\ Len(start_times) <= 1
    BY ConstantsRange DEF Init
  <2>2. {from, remaining, clock} \subseteq 0 .. MaxSample
    BY ConstantsRange DEF Init
  <2> QED
    BY <1>1, <1>2, <2>1, <2>2 DEF Init, Types
<1>4. CurrentBlock /\ NothingDropped /\ LastBlock
  BY DEF Init, CurrentBlock, NothingDropped, LastBlock, IsRun
<1>5. DriverTime
  BY <1>1 DEF Init, DriverTime
<1> QED
  BY <1>3, <1>4, <1>5 DEF IInv

LEMMA StepStore ==
  ASSUME IInv, NEW n \in 1 .. MaxChunk, Store(n)
  PROVE  IInv'
<1>1. /\ samples' \in Seq(Numbers) /\ Len(samples') <= Capacity /\ samples' # <<>>
      /\ IsRun(samples')
      /\ samples'[1] = IF samples = <<>> THEN clock ELSE samples[1]
      /\ clock' = clock + n /\ clock' \in 0 .. MaxSample
      /\ remaining' \in 0 .. n /\ from' \in 0 .. clock' /\ from' + remaining' = clock'
      /\ samples'[1] + Len(samples') = from'
      /\ remaining' # 0 => Len(samples') = Capacity
  BY StoreEffect
<1>2. /\ start_times' = AddTime(start_times, TimeOfPacket)
      /\ sample_time' = Counted(n)
      /\ carried' = [block |-> IF start_times = <<>> THEN carried.driver ELSE carried.block,
                     driver |-> IF device = "usrp" THEN 0 ELSE carried.driver + 1]
      /\ last' = last /\ overflowed' = overflowed /\ device' = device
      /\ transfer' = transfer /\ lost' = lost
  BY DEF Store
<1>3. /\ TimeOfPacket \in Times
      /\ IsTimeOf(TimeOfPacket, clock, lost, carried.driver)
  BY TimeOfPacketIsRight
<1>4. /\ Types /\ CurrentBlock /\ DriverTime /\ LastBlock
      /\ clock \in Nat /\ clock \in Int /\ n \in Nat /\ n >= 1
  BY ConstantsRange DEF IInv, Types
<1>5. /\ clock' = clock + n /\ clock' <= MaxSample
      /\ remaining' \in Int /\ remaining' >= 0 /\ remaining' <= n
      /\ from' \in Int /\ from' >= 0 /\ from' <= clock' /\ from' + remaining' = clock'
      /\ remaining' = 0 => from' = clock'
  <2>1. n \in Int /\ n >= 0
    BY <1>4
  <2>2. clock' \in Int
    BY <1>1, ConstantsRange
  <2> QED
    BY <1>1, <2>1, <2>2, ConstantsRange
<1>6. /\ carried' \in [block : Nat, driver : Nat]
      /\ carried'.block = IF start_times = <<>> THEN carried.driver ELSE carried.block
      /\ carried'.driver = IF device = "usrp" THEN 0 ELSE carried.driver + 1
  BY <1>2, <1>4 DEF Types
<1>7. /\ Counted(n) \in Times
      /\ device = "usrp" => Counted(n) = sample_time
      /\ device # "usrp" => IsTimeOf(Counted(n), clock + n, lost, carried.driver + 1)
  <2>1. CASE device = "usrp"
    BY <2>1, <1>4 DEF Counted, Types
  <2>2. CASE device # "usrp"
    <3>1. /\ sample_time \in Times /\ lost \in Nat /\ carried.driver \in Nat
          /\ IsTimeOf(sample_time, clock, lost, carried.driver)
      BY <1>4, <2>2 DEF Types, DriverTime
    <3>2. Counted(n) = Plus(sample_time, n, Rate)
      BY <2>2 DEF Counted
    <3> QED
      BY ONLY <1>4, <2>2, <3>1, <3>2, TimeGoesOn
  <2> QED
    BY <2>1, <2>2
<1>8. /\ start_times' \in Seq(Times) /\ start_times' # <<>> /\ Len(start_times') <= 1
      /\ start_times'[1] = IF start_times = <<>> THEN TimeOfPacket ELSE start_times[1]
  BY <1>2, <1>3, <1>4 DEF AddTime, Types
<1>9. Types'
  <2>1. from' \in 0 .. MaxSample /\ remaining' \in 0 .. MaxSample
    <3>1. clock \in Int /\ clock >= 0 /\ n \in Int
      BY <1>4
    <3>2. from' \in Int /\ from' >= 0 /\ from' <= MaxSample
      BY <1>1, <1>5, <3>1, ConstantsRange
    <3>3. remaining' \in Int /\ remaining' >= 0 /\ remaining' <= MaxSample
      BY ONLY <1>5, <3>1, ConstantsRange
    <3> QED
      BY ONLY <3>2, <3>3
  <2>2. {from', remaining', clock'} \subseteq 0 .. MaxSample
    BY ONLY <1>1, <2>1
  <2> QED
    BY <2>2, <1>1, <1>2, <1>4, <1>6, <1>7, <1>8, <2>1 DEF Types
<1>10. CurrentBlock'
  <2>1. CASE samples = <<>>
    <3>1. start_times = <<>>
      BY <1>4, <2>1 DEF CurrentBlock
    <3>2. carried.driver <= clock
      BY <1>4 DEF DriverTime
    <3> QED
      BY <1>1, <1>2, <1>3, <1>6, <1>8, <2>1, <3>1, <3>2 DEF CurrentBlock
  <2>2. CASE samples # <<>>
    BY <1>1, <1>2, <1>4, <1>6, <1>8, <2>2 DEF CurrentBlock
  <2> QED
    BY <2>1, <2>2
<1>11. NothingDropped'
  <2>1. samples'[Len(samples')] + 1 = from'
    BY <1>1, RunEnds
  <2>2. from' + remaining' = clock'
    BY <1>5
  <2>3. remaining' = 0 => from' = clock'
    BY <1>5
  <2> QED
    BY <1>1, <2>1, <2>2, <2>3 DEF NothingDropped
<1>12. DriverTime'
  <2>1. lost \in Nat /\ carried.driver \in Nat
    BY <1>4 DEF Types
  <2>2. carried'.driver <= clock' /\ lost' <= clock'
    <3>1. carried.driver <= clock /\ lost <= clock
      BY <1>4 DEF DriverTime
    <3>2. carried'.driver = 0 \/ carried'.driver = carried.driver + 1
      BY <1>6
    <3> QED
      BY ONLY <1>1, <1>2, <1>4, <2>1, <3>1, <3>2
  <2> QED
    BY <1>1, <1>2, <1>4, <1>6, <1>7, <2>2 DEF DriverTime
<1>13. LastBlock'
  <2> SUFFICES ASSUME last # NoneYet PROVE LastBlock'
    BY <1>2 DEF LastBlock
  <2>1. last.samples[Capacity] < clock /\ last.samples[Capacity] \in Int
    BY <1>4, Elements, ConstantsRange DEF LastBlock
  <2>2. last.samples[Capacity] < clock'
    BY <1>1, <1>4, <2>1
  <2>3. overflowed' => (samples' # <<>> => samples'[1] > last.samples[Capacity])
    BY <1>1, <1>2, <1>4, <2>1 DEF LastBlock
  <2>4. ~overflowed' => /\ samples' # <<>>
                        /\ samples'[1] = last.samples[1] + (Capacity - Overlap)
    BY <1>1, <1>2, <1>4 DEF LastBlock
  <2> QED
    BY <1>2, <1>4, <2>2, <2>3, <2>4 DEF LastBlock
<1> QED
  BY <1>9, <1>10, <1>11, <1>12, <1>13 DEF IInv
LEMMA StepNextPacket ==
  ASSUME IInv, NextPacket
  PROVE  IInv'
<1>1. /\ Len(samples) = Capacity /\ samples # <<>> /\ samples[Capacity] < clock
      /\ samples[1] \in Numbers
      /\ samples' \in Seq(Numbers) /\ Len(samples') <= Capacity /\ samples' # <<>>
      /\ IsRun(samples')
      /\ samples'[1] = samples[1] + (Capacity - Overlap)
      /\ clock' = clock
      /\ remaining' \in 0 .. remaining - 1 /\ from' \in 0 .. clock
      /\ from' + remaining' = clock
      /\ samples'[1] + Len(samples') = from'
      /\ remaining' # 0 => Len(samples') = Capacity
  BY NextPacketEffect
<1>2. /\ start_times' = AddTime(<<>>, TimeAtOverlap(samples, start_times))
      /\ last' = [samples |-> samples, start_times |-> start_times,
                  carried |-> carried.block, lost |-> lost]
      /\ overflowed' = FALSE
      /\ carried' = [carried EXCEPT !.block = @ + 1]
      /\ device' = device /\ transfer' = transfer /\ sample_time' = sample_time /\ lost' = lost
  BY DEF NextPacket, deviceVars
<1>3. /\ Types /\ CurrentBlock /\ DriverTime
      /\ clock \in Int /\ clock >= 0 /\ clock <= MaxSample
      /\ remaining \in Int /\ remaining >= 0 /\ remaining <= MaxSample
  BY ConstantsRange DEF IInv, Types
<1>4. /\ samples[1] \in Int /\ samples[1] >= 0
      /\ Capacity - Overlap \in Nat /\ Capacity - Overlap >= 1
  BY <1>1, NumbersAreNatural, ConstantsRange
<1>5. /\ start_times # <<>> /\ start_times[1] \in Times
      /\ lost \in Nat /\ carried.block \in Nat
      /\ IsTimeOf(start_times[1], samples[1], lost, carried.block)
      /\ carried.block <= samples[1]
  BY <1>1, <1>3 DEF CurrentBlock, Types
<1>6. /\ carried' \in [block : Nat, driver : Nat]
      /\ carried'.block = carried.block + 1 /\ carried'.driver = carried.driver
  BY <1>2, <1>3 DEF Types
<1>7. /\ start_times' \in Seq(Times) /\ start_times' # <<>> /\ Len(start_times') <= 1
      /\ start_times'[1] \in Times
      /\ IsTimeOf(start_times'[1], samples'[1], lost', carried'.block)
  <2> DEFINE time == Plus(start_times[1], Capacity - Overlap, Rate)
  <2>1. /\ time \in Times
        /\ IsTimeOf(time, samples[1] + (Capacity - Overlap), lost, carried.block + 1)
    BY ONLY <1>4, <1>5, TimeGoesOn
  <2>2. start_times' = <<time>>
    BY <1>1, <1>2 DEF AddTime, TimeAtOverlap
  <2> HIDE DEF time
  <2>3. /\ start_times' \in Seq(Times) /\ start_times' # <<>> /\ Len(start_times') <= 1
        /\ start_times'[1] = time
    BY <2>1, <2>2
  <2> QED
    BY <1>1, <1>2, <1>6, <2>1, <2>3
<1>8. Types'
  <2>1. from' \in 0 .. MaxSample /\ remaining' \in 0 .. MaxSample /\ clock' \in 0 .. MaxSample
    BY <1>1, <1>3, ConstantsRange
  <2>2. {from', remaining', clock'} \subseteq 0 .. MaxSample
    BY ONLY <2>1
  <2> QED
    BY <1>1, <1>2, <1>3, <1>6, <1>7, <2>2 DEF Types
<1>9. CurrentBlock'
  <2>1. carried'.block <= samples'[1]
    BY <1>1, <1>4, <1>5, <1>6
  <2> QED
    BY <1>1, <1>7, <2>1 DEF CurrentBlock
<1>10. NothingDropped'
  <2>1. samples'[Len(samples')] + 1 = from'
    BY <1>1, RunEnds
  <2>2. remaining' = 0 => from' = clock'
    <3>1. from' \in Int
      BY <1>1, <1>3
    <3> QED
      BY ONLY <1>1, <3>1
  <2> QED
    BY <1>1, <2>1, <2>2 DEF NothingDropped
<1>11. DriverTime'
  BY <1>1, <1>2, <1>3, <1>6 DEF DriverTime
<1>12. LastBlock'
  <2>1. last' = [samples |-> samples, start_times |-> start_times,
                 carried |-> carried.block, lost |-> lost]
    BY <1>2
  <2>2. samples \in Seq(Numbers) /\ IsRun(samples)
    BY <1>3 DEF Types, CurrentBlock
  <2> QED
    BY <1>1, <1>2, <1>5, <2>1, <2>2 DEF LastBlock
<1> QED
  BY <1>8, <1>9, <1>10, <1>11, <1>12 DEF IInv

LEMMA StepOverflow ==
  ASSUME IInv, NEW missed \in 1 .. MaxLoss, Overflow(missed)
  PROVE  IInv'
<1>1. /\ remaining = 0 /\ device # "hackrf" /\ clock + missed <= MaxSample
      /\ clock' = clock + missed
      /\ lost' = IF device = "usrp" THEN lost ELSE lost + missed
      /\ samples' = <<>> /\ start_times' = <<>> /\ overflowed' = TRUE
      /\ carried' = [carried EXCEPT !.block = 0]
      /\ from' = from /\ remaining' = remaining /\ last' = last /\ device' = device
      /\ transfer' = transfer /\ sample_time' = sample_time
  BY DEF Overflow
<1>2. /\ Types /\ DriverTime /\ LastBlock
      /\ clock \in Nat /\ missed \in Nat /\ missed >= 1 /\ lost \in Nat
      /\ sample_time \in Times /\ carried.driver \in Nat
  BY ConstantsRange DEF IInv, Types
<1>3. /\ carried' \in [block : Nat, driver : Nat]
      /\ carried'.block = 0 /\ carried'.driver = carried.driver
  BY <1>1, <1>2 DEF Types
<1>4. Types'
  <2>1. /\ samples' \in Seq(Numbers) /\ Len(samples') <= Capacity
        /\ start_times' \in Seq(Times) /\ Len(start_times') <= 1
    BY <1>1, ConstantsRange
  <2>2. {from', remaining', clock'} \subseteq 0 .. MaxSample
    BY <1>1, <1>2, ConstantsRange DEF Types
  <2>3. lost' \in Nat
    BY <1>1, <1>2
  <2> QED
    BY <1>1, <1>2, <1>3, <2>1, <2>2, <2>3 DEF Types
<1>5. CurrentBlock' /\ NothingDropped'
  BY <1>1, <1>3 DEF CurrentBlock, NothingDropped, IsRun
<1>6. DriverTime'
  <2>1. carried'.driver <= clock' /\ lost' <= clock'
    <3>1. carried.driver <= clock /\ lost <= clock
      BY <1>2 DEF DriverTime
    <3>2. lost' = lost \/ lost' = lost + missed
      BY <1>1
    <3> QED
      BY ONLY <1>1, <1>2, <1>3, <3>1, <3>2
  <2>2. CASE device = "usrp"
    BY <1>1, <1>2, <1>3, <2>1, <2>2 DEF DriverTime
  <2>3. CASE device = "usrp without times"
    <3>1. IsTimeOf(sample_time, clock, lost, carried.driver)
      BY <1>2, <2>3 DEF DriverTime
    <3>2. IsTimeOf(sample_time, clock + missed, lost + missed, carried.driver)
      BY ONLY <1>2, <3>1, TimeFallsBehind, clock \in Int
    <3> QED
      BY <1>1, <1>3, <2>1, <2>3, <3>2 DEF DriverTime
  <2> QED
    BY <1>1, <1>2, <2>2, <2>3 DEF Types, Devices
<1>7. LastBlock'
  <2> SUFFICES ASSUME last # NoneYet PROVE LastBlock'
    BY <1>1 DEF LastBlock
  <2>1. last.samples[Capacity] < clock /\ last.samples[Capacity] \in Int
    BY <1>2, Elements, ConstantsRange DEF LastBlock
  <2>2. last.samples[Capacity] < clock'
    BY <1>1, <1>2, <2>1
  <2> QED
    BY <1>1, <1>2, <2>2 DEF LastBlock
<1> QED
  BY <1>4, <1>5, <1>6, <1>7 DEF IInv

LEMMA StepIInv == IInv /\ [Next]_vars => IInv'
<1> SUFFICES ASSUME IInv, [Next]_vars PROVE IInv'
  OBVIOUS
<1>1. ASSUME NEW n \in 1 .. MaxChunk, Store(n) PROVE IInv'
  BY <1>1, StepStore
<1>2. CASE NextPacket
  BY <1>2, StepNextPacket
<1>3. ASSUME NEW missed \in 1 .. MaxLoss, Overflow(missed) PROVE IInv'
  BY <1>3, StepOverflow
<1>4. CASE UNCHANGED vars
  BY <1>4 DEF IInv, Types, CurrentBlock, NothingDropped, DriverTime, LastBlock, vars, deviceVars
<1> QED
  BY <1>1, <1>2, <1>3, <1>4 DEF Next
-----------------------------------------------------------------------------
(* The theorems.                                                           *)

LEMMA Inductive == Spec => []IInv
<1>1. Init => IInv
  BY InitIInv
<1>2. IInv /\ [Next]_vars => IInv'
  BY StepIInv
<1> QED
  BY <1>1, <1>2, PTL DEF Spec

\* A time that is not late has no more seconds than samples have passed.
LEMMA TimeIsBounded ==
  ASSUME NEW t \in Times, NEW sample \in Nat, NEW missed \in Nat, NEW additions \in Nat,
         IsTimeOf(t, sample, missed, additions), sample <= MaxSample
  PROVE  t \in [seconds : 0 .. MaxSample, femtoseconds : 0 .. Second]
<1> USE ConstantsRange
<1> DEFINE s == t.seconds
<1> DEFINE f == t.femtoseconds
<1>1. s \in Nat /\ f \in Nat /\ f \in 0 .. Second /\ t = [seconds |-> s, femtoseconds |-> f]
  BY DEF Times
<1>2. Lag(t, sample) - missed * Second >= 0 /\ Lag(t, sample) = sample * Second - Rate * (s * Second + f)
  BY PlusSamples DEF IsTimeOf, Early, Lag, Instant
<1> HIDE DEF s, f
<1>3. s * Second \in Nat /\ sample * Second \in Nat /\ missed * Second \in Nat
  BY <1>1
<1>4. Rate * (s * Second + f) >= s * Second + f /\ Rate * (s * Second + f) \in Int
  <2> DEFINE x == s * Second + f
  <2>1. x \in Nat
    BY <1>1, <1>3
  <2> HIDE DEF x
  <2>2. Rate * x >= x /\ Rate * x \in Int
    BY <2>1
  <2> QED
    BY <2>2 DEF x
<1>5. s * Second <= sample * Second
  BY <1>1, <1>2, <1>3, <1>4
<1>6. s <= sample
  <2> SUFFICES ASSUME s >= sample + 1 PROVE FALSE
    BY <1>1
  <2>1. s * Second >= (sample + 1) * Second
    BY <1>1
  <2>2. (sample + 1) * Second = sample * Second + Second
    OBVIOUS
  <2> QED
    BY <1>3, <1>5, <2>1, <2>2
<1> QED
  BY <1>1, <1>6

\* Types of the variables, with the bounds on times and counts: no count of the driver
\* and no time of a block can run ahead of the samples delivered.
THEOREM TypeCorrect == Spec => []TypeOK
<1>1. IInv => TypeOK
  <2> SUFFICES ASSUME IInv PROVE TypeOK
    OBVIOUS
  <2>1. /\ Types /\ CurrentBlock /\ DriverTime /\ LastBlock
        /\ clock \in Nat /\ clock <= MaxSample /\ lost \in Nat /\ carried.block \in Nat
        /\ carried.driver \in Nat /\ sample_time \in Times
    BY ConstantsRange DEF IInv, Types
  <2> DEFINE Bounded == [seconds : 0 .. MaxSample, femtoseconds : 0 .. Second]
  <2>2. samples # <<>> => samples[1] \in Nat /\ samples[1] <= MaxSample
    BY <2>1, RunEnds, NumbersAreNatural DEF CurrentBlock, Types
  <2>3. start_times \in Seq(Bounded)
    <3>1. CASE samples = <<>>
      BY <2>1, <3>1 DEF CurrentBlock
    <3>2. CASE samples # <<>>
      <4>1. start_times # <<>> /\ IsTimeOf(start_times[1], samples[1], lost, carried.block)
        BY <2>1, <3>2 DEF CurrentBlock
      <4>2. start_times = <<start_times[1]>> /\ start_times[1] \in Times
        <5>1. start_times \in Seq(Times) /\ Len(start_times) <= 1
          BY <2>1 DEF Types
        <5> QED
          BY ONLY <4>1, <5>1, Single
      <4>3. start_times[1] \in Bounded
        BY <2>1, <2>2, <3>2, <4>1, <4>2, TimeIsBounded
      <4> HIDE DEF Bounded
      <4> QED
        BY ONLY <4>2, <4>3
    <3> QED
      BY <3>1, <3>2
  <2>4. sample_time \in Bounded
    <3>1. CASE device = "usrp"
      <4>1. Since(0, Rate) \in Times /\ IsTimeOf(Since(0, Rate), 0, 0, 0)
        BY TimeSinceStart
      <4>2. sample_time = Since(0, Rate)
        BY <2>1, <3>1 DEF DriverTime
      <4> QED
        BY <4>1, <4>2, TimeIsBounded, ConstantsRange
    <3>2. CASE device # "usrp"
      BY <2>1, <3>2, TimeIsBounded DEF DriverTime
    <3> QED
      BY <3>1, <3>2
  <2>5. carried.driver <= clock /\ lost <= clock
    BY <2>1 DEF DriverTime
  <2>6. carried \in [block : 0 .. 2 * MaxSample, driver : 0 .. MaxSample]
    <3>1. carried.driver <= MaxSample
      BY <2>1, <2>5, ConstantsRange
    <3>2. carried.block <= 2 * MaxSample
      BY <2>1, <2>2, ConstantsRange DEF CurrentBlock
    <3> QED
      BY <2>1, <3>1, <3>2, ConstantsRange DEF Types
  <2>7. lost \in 0 .. MaxSample
    BY <2>1, <2>5, ConstantsRange
  <2>8. last.samples \in Seq(Numbers)
    <3>1. CASE last = NoneYet
      BY <3>1 DEF NoneYet
    <3>2. CASE last # NoneYet
      BY <2>1, <3>2 DEF LastBlock
    <3> QED
      BY <3>1, <3>2
  <2> QED
    BY <2>1, <2>3, <2>4, <2>6, <2>7, <2>8 DEF TypeOK, Types, Numbers
<1> QED
  BY <1>1, Inductive, PTL

\* Nothing the device delivers is lost inside store(): what is not stored yet lies
\* between the end of the block and the device's clock.
THEOREM NothingLost == Spec => []NothingDropped
<1>1. IInv => NothingDropped
  BY DEF IInv
<1> QED
  BY <1>1, Inductive, PTL

\* A block is announced full and without a gap, so that a message that begins at any of
\* the samples the detector searches is whole in it.
THEOREM Whole == Spec => []BlocksAreWhole
<1>1. IInv => BlocksAreWhole
  <2> SUFFICES ASSUME IInv, last # NoneYet PROVE BlocksAreWhole
    BY DEF BlocksAreWhole
  <2> DEFINE buf == last.samples
  <2>1. /\ buf \in Seq(Numbers) /\ Len(buf) = Capacity /\ IsRun(buf)
    BY DEF IInv, LastBlock
  <2> HIDE DEF buf
  <2>2. buf[1] \in Int
    BY <2>1, Elements, ConstantsRange
  <2>3. \A i \in 1 .. Capacity : buf[i] = buf[1] + i - 1
    BY <2>1 DEF IsRun
  <2>4. \A i \in 1 .. Capacity - 1 : buf[i + 1] = buf[i] + 1
    <3> TAKE i \in 1 .. Capacity - 1
    <3>1. i \in 1 .. Capacity /\ i + 1 \in 1 .. Capacity
      BY ConstantsRange
    <3> QED
      BY <2>2, <2>3, <3>1
  <2>5. ASSUME NEW k \in DOMAIN Searched(buf)
        PROVE  Searched(buf)[k] + Preamble + LongData - 1 <= buf[Capacity]
    <3>1. k \in 1 .. Capacity - Overlap /\ Searched(buf)[k] = buf[k]
      BY <2>5, ConstantsRange DEF Searched
    <3>2. k \in 1 .. Capacity /\ Capacity \in 1 .. Capacity
      BY <3>1, ConstantsRange
    <3>3. buf[k] = buf[1] + k - 1 /\ buf[Capacity] = buf[1] + Capacity - 1
      BY <2>3, <3>2
    <3>4. Preamble \in Int /\ LongData \in Int /\ Overlap = Preamble + LongData
      BY SampleStoreAssumption DEF Overlap
    <3> QED
      BY <2>2, <3>1, <3>3, <3>4, ConstantsRange
  <2> QED
    BY <2>1, <2>4, <2>5 DEF BlocksAreWhole, buf
<1> QED
  BY <1>1, Inductive, PTL

\* The detector's searches of consecutive blocks follow each other without a gap and
\* without a sample searched twice, except for what an overflow threw away.
THEOREM Tiles == Spec => []SearchTilesTheStream
<1>1. IInv => SearchTilesTheStream
  <2> SUFFICES ASSUME IInv, last # NoneYet, samples # <<>> PROVE SearchTilesTheStream
    BY DEF SearchTilesTheStream
  <2> DEFINE buf == last.samples
  <2> DEFINE starts == Searched(buf)
  <2>1. /\ buf \in Seq(Numbers) /\ Len(buf) = Capacity /\ IsRun(buf)
        /\ overflowed => samples[1] > buf[Capacity]
        /\ ~overflowed => samples[1] = buf[1] + (Capacity - Overlap)
    BY DEF IInv, LastBlock
  <2>2. Capacity - Overlap \in Nat \ {0} /\ Capacity - Overlap \in 1 .. Capacity
    BY ConstantsRange
  <2>3. starts = [i \in 1 .. Capacity - Overlap |-> buf[i]]
    BY ConstantsRange DEF Searched
  <2> HIDE DEF starts, buf
  <2>4. buf[1] \in Int /\ \A i \in 1 .. Capacity - Overlap : buf[i] \in Numbers
    BY <2>1, <2>2, Elements, ConstantsRange
  <2>5. Len(starts) = Capacity - Overlap /\ starts[Capacity - Overlap] = buf[Capacity - Overlap]
    <3> DEFINE n == Capacity - Overlap
    <3>1. n \in Nat /\ n \in 1 .. n
      BY <2>2
    <3> HIDE DEF n
    <3>2. starts \in [1 .. n -> Numbers] /\ starts[n] = buf[n]
      BY <2>3, <2>4, <3>1 DEF n
    <3>3. starts \in Seq(Numbers) /\ Len(starts) = n
      BY <3>1, <3>2
    <3> QED
      BY <3>2, <3>3 DEF n
  <2>6. buf[Capacity - Overlap] = buf[1] + (Capacity - Overlap) - 1
    BY <2>1, <2>2 DEF IsRun
  <2>7. ~overflowed => samples[1] = starts[Len(starts)] + 1
    BY <2>1, <2>2, <2>4, <2>5, <2>6
  <2> QED
    BY <2>1, <2>7 DEF SearchTilesTheStream, starts, buf
<1> QED
  BY <1>1, Inductive, PTL

\* A message has the time of its first sample: never late, and early by no more than what
\* the additions on the way cut off and, without the device's times, the samples lost.
THEOREM TimesRight == Spec => []TimesAreOfFirstSamples
<1>1. IInv => TimesAreOfFirstSamples
  <2> SUFFICES ASSUME IInv PROVE TimesAreOfFirstSamples
    OBVIOUS
  <2>1. samples # <<>> =>
          Lag(start_times[1], samples[1]) - lost * Second \in 0 .. (carried.block + 1) * Rate - 1
    BY DEF IInv, CurrentBlock, IsTimeOf, Early
  <2>2. ASSUME NEW i \in DOMAIN last.samples
        PROVE  Lag(MessageTime(last.start_times, i), last.samples[i]) - last.lost * Second
                 \in 0 .. (last.carried + 2) * Rate - 1
    <3> DEFINE buf == last.samples
    <3> DEFINE t == last.start_times[1]
    <3> DEFINE c == last.carried
    <3> DEFINE missed == last.lost
    <3>1. last # NoneYet
      BY <2>2 DEF NoneYet
    <3>2. /\ buf \in Seq(Numbers) /\ IsRun(buf)
          /\ t \in Times /\ missed \in Nat /\ c \in Nat /\ IsTimeOf(t, buf[1], missed, c)
      BY <3>1 DEF IInv, LastBlock
    <3>3. MessageTime(last.start_times, i) = Plus(t, i - 1, Rate)
      BY DEF MessageTime
    <3>4. i \in DOMAIN buf
      BY <2>2
    <3> HIDE DEF buf, t, c, missed
    <3>5. i \in 1 .. Len(buf) /\ i \in Nat \ {0} /\ 1 \in 1 .. Len(buf)
      BY <3>2, <3>4, Elements
    <3>6. buf[1] \in Int /\ buf[i] = buf[1] + i - 1
      BY <3>2, <3>5, Elements DEF IsRun
    <3>7. i - 1 \in Nat /\ buf[i] = buf[1] + (i - 1)
      BY <3>5, <3>6
    <3>8. IsTimeOf(Plus(t, i - 1, Rate), buf[1] + (i - 1), missed, c + 1)
      BY ONLY <3>2, <3>6, <3>7, TimeGoesOn
    <3>9. Early(Plus(t, i - 1, Rate), buf[i], missed) \in 0 .. ((c + 1) + 1) * Rate - 1
      BY <3>7, <3>8, Zenon DEF IsTimeOf
    <3>10. (c + 1) + 1 = c + 2
      BY <3>2
    <3> QED
      BY <3>3, <3>9, <3>10 DEF Early, buf, t, c, missed
  <2> QED
    BY <2>1, <2>2 DEF TimesAreOfFirstSamples
<1> QED
  BY <1>1, Inductive, PTL
-----------------------------------------------------------------------------
(* Printed times.                                                          *)

LEMMA TenRuns ==
  /\ \A k \in 0 .. Width + 1 : Ten[k] \in Nat \ {0}
  /\ Ten[0] = 1
  /\ \A k \in 1 .. Width + 1 : Ten[k] = 10 * Ten[k - 1]
<1> DEFINE Turn(u, n) == IF n = 0 THEN 1 ELSE 10 * u[n - 1]
<1> DEFINE Runs(k) == \E u \in [0 .. k -> Nat \ {0}] : \A n \in 0 .. k : u[n] = Turn(u, n)
<1> DEFINE S == {k \in Nat : Runs(k)}
<1>1. 0 \in S
  <2> DEFINE u == [n \in 0 .. 0 |-> 1]
  <2>1. u \in [0 .. 0 -> Nat \ {0}] /\ \A n \in 0 .. 0 : u[n] = Turn(u, n)
    OBVIOUS
  <2> HIDE DEF u
  <2> QED
    BY <2>1
<1>2. ASSUME NEW k \in Nat, k \in S PROVE k + 1 \in S
  <2>1. PICK u \in [0 .. k -> Nat \ {0}] : \A n \in 0 .. k : u[n] = Turn(u, n)
    BY <1>2
  <2> DEFINE v == [n \in 0 .. k + 1 |-> IF n = k + 1 THEN 10 * u[k] ELSE u[n]]
  <2>2. 10 * u[k] \in Nat \ {0}
    OBVIOUS
  <2>3. v \in [0 .. k + 1 -> Nat \ {0}]
    BY <2>2
  <2>4. ASSUME NEW n \in 0 .. k + 1 PROVE v[n] = Turn(v, n)
    <3>1. CASE n = k + 1
      BY <3>1
    <3>2. CASE n # k + 1
      <4>1. n \in 0 .. k /\ (n # 0 => n - 1 \in 0 .. k)
        BY <3>2
      <4>2. u[n] = Turn(u, n)
        BY <2>1, <4>1
      <4> QED
        BY <3>2, <4>1, <4>2
    <3> QED
      BY <3>1, <3>2
  <2> HIDE DEF v, Turn
  <2>5. Runs(k + 1)
    BY <2>3, <2>4
  <2> QED
    BY <2>5
<1>3. PICK u \in [0 .. Width + 1 -> Nat \ {0}] : \A n \in 0 .. Width + 1 : u[n] = Turn(u, n)
  <2>1. Nat \subseteq S
    <3> HIDE DEF S
    <3> QED
      BY <1>1, <1>2, SetInduction
  <2> DEFINE k == Width + 1
  <2>2. k \in Nat
    BY PrinterAssumption
  <2> HIDE DEF k, Turn
  <2>3. Runs(k)
    BY <2>1, <2>2
  <2> QED
    BY <2>3 DEF k
<1> DEFINE Upto(g) == [k \in 0 .. Width + 1 |-> IF k = 0 THEN 1 ELSE 10 * g[k - 1]]
<1>4. u = Upto(u)
  BY <1>3
<1>5. Ten = CHOOSE g : g = Upto(g)
  BY Zenon DEF Ten
<1>6. Ten = Upto(Ten)
  <2> HIDE DEF Upto
  <2> QED
    BY <1>4, <1>5
<1>7. /\ Ten[0] = 1
      /\ \A k \in 1 .. Width + 1 : Ten[k] = 10 * Ten[k - 1]
  <2>1. \A k \in 0 .. Width + 1 : Ten[k] = IF k = 0 THEN 1 ELSE 10 * Ten[k - 1]
    BY <1>6
  <2> QED
    BY <2>1, PrinterAssumption
<1> DEFINE E == {k \in Nat : k <= Width + 1 => Ten[k] \in Nat \ {0}}
<1>8. 0 \in E
  BY <1>7
<1>9. ASSUME NEW k \in Nat, k \in E PROVE k + 1 \in E
  <2> SUFFICES ASSUME k + 1 <= Width + 1 PROVE Ten[k + 1] \in Nat \ {0}
    OBVIOUS
  <2>1. Ten[k] \in Nat \ {0}
    BY <1>9, PrinterAssumption
  <2>2. Ten[k + 1] = 10 * Ten[k]
    BY <1>7, PrinterAssumption
  <2> QED
    BY <2>1, <2>2
<1>10. Nat \subseteq E
  <2> HIDE DEF E
  <2> QED
    BY <1>8, <1>9, SetInduction
<1>11. \A k \in 0 .. Width + 1 : Ten[k] \in Nat \ {0}
  BY <1>10, PrinterAssumption
<1> QED
  BY <1>7, <1>11

\* A higher power is at least ten times a lower one.
LEMMA TenGrows ==
  ASSUME NEW j \in 0 .. Width + 1, NEW k \in 0 .. Width + 1, j < k
  PROVE  Ten[k] >= 10 * Ten[j]
<1> DEFINE S == {n \in Nat : j + 1 + n <= Width + 1 => Ten[j + 1 + n] >= 10 * Ten[j]}
<1>1. 0 \in S
  BY TenRuns, PrinterAssumption
<1>2. ASSUME NEW n \in Nat, n \in S PROVE n + 1 \in S
  <2> SUFFICES ASSUME j + 1 + (n + 1) <= Width + 1
               PROVE  Ten[j + 1 + (n + 1)] >= 10 * Ten[j]
    OBVIOUS
  <2>1. Ten[j + 1 + n] >= 10 * Ten[j]
    BY <1>2, PrinterAssumption
  <2> DEFINE i == j + 1 + (n + 1)
  <2>2. i \in 1 .. Width + 1 /\ i - 1 = j + 1 + n /\ i - 1 \in 0 .. Width + 1
    BY PrinterAssumption
  <2> HIDE DEF i
  <2>3. Ten[i] = 10 * Ten[i - 1] /\ Ten[i - 1] \in Nat /\ Ten[j] \in Nat
    BY <2>2, TenRuns
  <2>4. Ten[i] >= 10 * Ten[j]
    BY <2>1, <2>2, <2>3
  <2> QED
    BY <2>4 DEF i
<1>3. Nat \subseteq S
  <2> HIDE DEF S
  <2> QED
    BY <1>1, <1>2, SetInduction
<1> DEFINE n == k - (j + 1)
<1>4. n \in Nat /\ j + 1 + n = k
  BY PrinterAssumption
<1> HIDE DEF n
<1>5. n \in S
  BY <1>3, <1>4
<1> QED
  BY <1>4, <1>5, PrinterAssumption

\* The digits of a number of microseconds.
LEMMA DigitsRight ==
  ASSUME NEW n \in Nat, n <= Ten[Width]
  PROVE  /\ Digits(n) \in 1 .. Width + 1
         /\ n < Ten[Digits(n)]
         /\ Digits(n) = 1 \/ n >= Ten[Digits(n) - 1]
         /\ Digits(n) > Width <=> n = Ten[Width]
<1> DEFINE Of(d) == n < Ten[d] /\ (d = 1 \/ n >= Ten[d - 1])
<1> DEFINE S == {k \in Nat : k \in 1 .. Width + 1 /\ n < Ten[k] =>
                                \E d \in 1 .. Width + 1 : Of(d)}
<1>0. Width \in Nat \ {0}
  BY PrinterAssumption
<1>1. 0 \in S
  OBVIOUS
<1>2. ASSUME NEW k \in Nat, k \in S PROVE k + 1 \in S
  <2> SUFFICES ASSUME k + 1 \in 1 .. Width + 1, n < Ten[k + 1]
               PROVE  \E d \in 1 .. Width + 1 : Of(d)
    OBVIOUS
  <2>1. CASE k = 0
    BY <2>1
  <2>2. CASE k # 0 /\ n < Ten[k]
    <3>1. k \in 1 .. Width + 1
      BY <1>0, <2>2
    <3> HIDE DEF Of
    <3> QED
      BY <1>2, <2>2, <3>1
  <2>3. CASE k # 0 /\ ~(n < Ten[k])
    <3>1. Ten[k] \in Nat /\ k + 1 - 1 = k
      BY TenRuns, <1>0
    <3>2. Of(k + 1)
      BY <2>3, <3>1
    <3> QED
      BY <3>2
  <2> QED
    BY <2>1, <2>2, <2>3
<1>3. Ten[Width] \in Nat \ {0} /\ Ten[Width + 1] = 10 * Ten[Width]
  BY TenRuns, <1>0
<1>4. \E d \in 1 .. Width + 1 : Of(d)
  <2>1. Nat \subseteq S
    <3> HIDE DEF S
    <3> QED
      BY <1>1, <1>2, SetInduction
  <2> DEFINE k == Width + 1
  <2>2. k \in Nat /\ k \in 1 .. Width + 1 /\ n < Ten[k]
    BY <1>0, <1>3
  <2> HIDE DEF k, Of
  <2>3. k \in S
    BY <2>1, <2>2
  <2>4. k \in 1 .. Width + 1 /\ n < Ten[k] => \E d \in 1 .. Width + 1 : Of(d)
    BY <2>3, Zenon
  <2> QED
    BY <2>2, <2>4, Zenon
<1>5. Digits(n) \in 1 .. Width + 1 /\ Of(Digits(n))
  BY <1>4, Zenon DEF Digits
<1> DEFINE d == Digits(n)
<1> HIDE DEF d
<1>6. ASSUME d > Width PROVE n = Ten[Width]
  <2>1. d = Width + 1 /\ d # 1 /\ d - 1 = Width
    BY <1>0, <1>5, <1>6 DEF d
  <2> QED
    BY <1>3, <1>5, <2>1 DEF d
<1>7. ASSUME n = Ten[Width] PROVE d > Width
  <2> SUFFICES ASSUME d <= Width PROVE FALSE
    BY <1>0, <1>5 DEF d
  <2>1. d \in 0 .. Width + 1 /\ Width \in 0 .. Width + 1 /\ n < Ten[d]
    BY <1>0, <1>5 DEF d
  <2>2. CASE d = Width
    BY <1>3, <1>7, <2>1, <2>2
  <2>3. CASE d < Width
    <3>1. Ten[Width] >= 10 * Ten[d] /\ Ten[d] \in Nat
      BY <2>1, <2>3, TenGrows, TenRuns
    <3> QED
      BY <1>3, <1>7, <2>1, <3>1
  <2> QED
    BY <1>0, <2>1, <2>2, <2>3
<1> QED
  BY <1>5, <1>6, <1>7 DEF d

\* The number of microseconds is the nearest, and at most those of a second.
LEMMA RoundedNear ==
  ASSUME NEW f \in 0 .. Second
  PROVE  /\ Micro \in Nat \ {0} /\ Second = Ten[Width] * Micro
         /\ Rounded(f, Micro) \in Nat /\ Rounded(f, Micro) <= Ten[Width]
         /\ 2 * (Rounded(f, Micro) * Micro - f) \in -Micro .. Micro
<1> DEFINE tens == Ten[Width]
<1> DEFINE down == f \div Micro
<1> DEFINE left == f % Micro
<1> DEFINE n == Rounded(f, Micro)
<1>1. tens \in Nat \ {0} /\ Second \in Nat \ {0} /\ Second % tens = 0
  BY PrinterAssumption, TenRuns, ConstantsRange
<1>2. Micro \in Nat \ {0} /\ Second = tens * Micro
  <2> HIDE DEF tens
  <2>1. Second \div tens \in Int /\ Second = tens * (Second \div tens) + (Second % tens)
    BY <1>1, Division
  <2>2. Micro = Second \div tens
    BY DEF Micro, tens
  <2> DEFINE m == Second \div tens
  <2> HIDE DEF m
  <2>3. m \in Int /\ Second = tens * m
    BY <1>1, <2>1 DEF m
  <2>4. m > 0
    <3> SUFFICES ASSUME m <= 0 PROVE FALSE
      BY <2>3
    <3>1. tens * m <= 0
      BY <1>1, <2>3
    <3> QED
      BY <1>1, <2>3, <3>1
  <2> QED
    BY <2>2, <2>3, <2>4 DEF m
<1>3. down \in Int /\ down >= 0 /\ left \in 0 .. Micro - 1 /\ f = Micro * down + left
  <2>1. f \in Int /\ f >= 0
    BY ConstantsRange
  <2> QED
    BY <1>2, <2>1, Division
<1>4. n = IF 2 * left > Micro \/ (2 * left = Micro /\ down % 2 = 1) THEN down + 1 ELSE down
  BY DEF Rounded
<1> HIDE DEF tens, down, left, n
<1>5. Micro * (down + 1) = Micro * down + Micro /\ n \in Int
      /\ (down + 1) * Micro = Micro * down + Micro /\ down * Micro = Micro * down
  BY <1>2, <1>3, <1>4
<1>6. n <= tens
  <2> SUFFICES ASSUME n >= tens + 1 PROVE FALSE
    BY <1>1, <1>5
  <2>1. CASE n = down
    <3>1. Micro * down >= Micro * (tens + 1) /\ Micro * (tens + 1) = tens * Micro + Micro
      BY <1>1, <1>2, <1>3, <2>1
    <3>2. tens * Micro \in Int /\ Micro * down \in Int
      BY <1>1, <1>2, <1>3
    <3> QED
      BY <1>2, <1>3, <3>1, <3>2, ConstantsRange
  <2>2. CASE n = down + 1 /\ n # down
    <3>1. left > 0
      BY <1>2, <1>3, <1>4, <2>2
    <3>2. down >= tens
      BY <1>1, <1>3, <2>2
    <3>3. Micro * down >= Micro * tens /\ Micro * tens = tens * Micro
      BY <1>1, <1>2, <1>3, <3>2
    <3>4. tens * Micro \in Int /\ Micro * down \in Int
      BY <1>1, <1>2, <1>3
    <3> QED
      BY <1>2, <1>3, <3>1, <3>3, <3>4, ConstantsRange
  <2> QED
    BY <1>4, <2>1, <2>2
<1>7. 2 * (n * Micro - f) \in -Micro .. Micro
  <2>1. Micro * down \in Int
    BY <1>2, <1>3
  <2>2. CASE n = down
    <3>1. n * Micro - f = -left /\ 2 * left <= Micro
      <4>1. 2 * left <= Micro
        BY <1>2, <1>3, <1>4, <2>2
      <4> QED
        BY <1>3, <1>5, <2>1, <2>2, <4>1
    <3> QED
      BY <1>2, <1>3, <3>1
  <2>3. CASE n # down
    <3>1. n * Micro - f = Micro - left /\ 2 * left >= Micro
      <4>1. n = down + 1 /\ 2 * left >= Micro
        BY <1>2, <1>3, <1>4, <2>3
      <4> QED
        BY <1>2, <1>3, <1>5, <2>1, <4>1
    <3> QED
      BY <1>2, <1>3, <3>1
  <2> QED
    BY <2>2, <2>3
<1>8. n >= 0
  BY <1>3, <1>4
<1> QED
  BY <1>2, <1>5, <1>6, <1>7, <1>8 DEF tens, n

\* What one reads in the line, of a time whose fraction is not rounded up to a second: the
\* number as it is padded, in units of the last place.
LEMMA ReadsAsPadded ==
  ASSUME NEW t \in Times, NEW adjust, NEW x \in Nat,
         Fraction(t, adjust) = [number |-> x, places |-> Width]
  PROVE  ReadBack(t, adjust) - Instant(t) = x * Micro - t.femtoseconds
<1> DEFINE tens == Ten[Width]
<1>1. tens \in Nat \ {0} /\ Second \in Nat /\ Width \in Nat
  BY TenRuns, PrinterAssumption, ConstantsRange
<1>2. Micro \in Nat /\ Second = tens * Micro
  <2>1. 0 \in 0 .. Second
    BY ConstantsRange
  <2> QED
    BY <2>1, RoundedNear
<1>3. t.seconds \in Nat /\ t.femtoseconds \in Nat
  BY DEF Times
<1>4. ReadBack(t, adjust) = t.seconds * Second + (x * Second) \div tens
  BY DEF ReadBack
<1> HIDE DEF tens
<1>5. (x * Second) \div tens = x * Micro
  <2>1. x * Micro \in Int /\ x * Second = tens * (x * Micro)
    BY <1>1, <1>2
  <2> QED
    BY <1>1, <2>1, DivisionOfMultiple
<1>6. t.seconds * Second \in Int /\ x * Micro \in Int
  BY <1>1, <1>2, <1>3
<1> QED
  BY <1>3, <1>4, <1>5, <1>6 DEF Instant

LEMMA ReadsRight ==
  ASSUME NEW t \in Times, NEW adjust \in {"right", "left"}
  PROVE  LET off == ReadBack(t, adjust) - Instant(t)
             n == Rounded(t.femtoseconds, Micro)
         IN  (2 * off \in -Micro .. Micro)
                <=> /\ n < Ten[Width]
                    /\ adjust = "left" => n = 0 \/ Digits(n) = Width
<1> DEFINE off == ReadBack(t, adjust) - Instant(t)
<1> DEFINE n == Rounded(t.femtoseconds, Micro)
<1> DEFINE f == t.femtoseconds
<1> DEFINE tens == Ten[Width]
<1>1. t.seconds \in Nat /\ f \in 0 .. Second
  BY DEF Times
<1>2. /\ Micro \in Nat \ {0} /\ Second = tens * Micro
      /\ n \in Nat /\ n <= tens
      /\ 2 * (n * Micro - f) \in -Micro .. Micro
  BY <1>1, RoundedNear
<1>3. /\ Width \in Nat \ {0} /\ tens \in Nat \ {0}
      /\ Ten[Width + 1] = 10 * tens /\ tens >= 10 /\ Ten[0] = 1
  <2>1. Width \in Nat \ {0} /\ 0 \in 0 .. Width + 1 /\ Width \in 0 .. Width + 1
        /\ Width + 1 \in 1 .. Width + 1 /\ Width + 1 - 1 = Width
    BY PrinterAssumption
  <2> QED
    BY <2>1, TenRuns, TenGrows
<1>4. /\ Digits(n) \in 1 .. Width + 1 /\ (Digits(n) > Width <=> n = tens)
  BY <1>2, DigitsRight
<1>5. Fraction(t, adjust) = Padded(n, adjust)
  BY DEF Fraction
<1> HIDE DEF off, n, f, tens
<1>6. CASE n = tens
  <2>1. Padded(n, adjust) = [number |-> n, places |-> Width + 1]
    <3>1. Digits(n) = Width + 1 /\ Digits(n) > Width
      BY <1>3, <1>4, <1>6
    <3> QED
      BY <3>1 DEF Padded
  <2> DEFINE q == (tens * Second) \div (10 * tens)
  <2>2. off = (t.seconds * Second + q) - Instant(t)
    <3>1. Fraction(t, adjust) = [number |-> n, places |-> Width + 1]
      BY <1>5, <2>1, Zenon
    <3>2. ReadBack(t, adjust) = t.seconds * Second + (n * Second) \div Ten[Width + 1]
      BY <3>1 DEF ReadBack
    <3>3. (n * Second) \div Ten[Width + 1] = q
      BY <1>3, <1>6
    <3> HIDE DEF q
    <3>4. ReadBack(t, adjust) = t.seconds * Second + q
      BY <3>2, <3>3, Zenon
    <3> QED
      BY <3>4 DEF off
  <2>3. q \in Int /\ 10 * q <= Second
    <3> DEFINE num == tens * Second
    <3> DEFINE den == 10 * tens
    <3>1. num \in Int /\ den \in Nat \ {0} /\ Second \in Nat
      BY <1>3, ConstantsRange
    <3> HIDE DEF num, den
    <3>2. q \in Int /\ den * q <= num
      <4> DEFINE d == num \div den
      <4> DEFINE r == num % den
      <4>1. d \in Int /\ r \in 0 .. den - 1 /\ num = den * d + r
        BY <3>1, Division
      <4>2. q = d
        BY DEF num, den
      <4> HIDE DEF d, r, q
      <4>3. den * d \in Int
        BY <3>1, <4>1
      <4> QED
        BY <3>1, <4>1, <4>2, <4>3
    <3> HIDE DEF q
    <3>3. den * q = tens * (10 * q) /\ num = tens * Second
      BY <1>3, <3>2 DEF den, num
    <3>4. tens * (10 * q) <= tens * Second
      BY <3>2, <3>3
    <3>5. 10 * q <= Second
      <4> SUFFICES ASSUME 10 * q >= Second + 1 PROVE FALSE
        BY <3>1, <3>2
      <4>1. tens * (10 * q) >= tens * (Second + 1) /\ tens * (Second + 1) = tens * Second + tens
        BY <1>3, <3>1, <3>2
      <4>2. tens * Second \in Int /\ tens * (10 * q) \in Int
        BY <1>3, <3>1, <3>2
      <4> QED
        BY <1>3, <3>4, <4>1, <4>2
    <3> QED
      BY <3>2, <3>5
  <2> HIDE DEF q
  <2>4. off = q - f
    <3>1. t.seconds * Second \in Int
      BY <1>1, ConstantsRange
    <3> QED
      BY <1>1, <2>2, <2>3, <3>1, ConstantsRange DEF Instant, f
  <2>5. Second >= 10 * Micro /\ n * Micro = Second /\ Second \in Nat
    BY <1>2, <1>3, <1>6, ConstantsRange
  <2>6. ~(2 * off \in -Micro .. Micro)
    BY <1>1, <1>2, <2>3, <2>4, <2>5
  <2> QED
    BY <1>2, <1>6, <2>6 DEF off, n, f, tens
<1>7. CASE n < tens /\ (adjust = "left" => n = 0 \/ Digits(n) = Width)
  <2>1. ~(Digits(n) > Width)
    BY <1>2, <1>3, <1>4, <1>7
  <2>2. Padded(n, adjust) = [number |-> n, places |-> Width]
    <3> DEFINE x == n * Ten[Width - Digits(n)]
    <3>1. adjust = "left" => x = n
      <4>1. CASE n = 0
        <5>1. Ten[Width - Digits(n)] \in Nat
          BY <1>3, <1>4, <2>1, TenRuns
        <5> QED
          BY <4>1, <5>1
      <4>2. CASE Digits(n) = Width
        <5>1. Width - Digits(n) = 0
          BY <1>3, <4>2
        <5> QED
          BY <1>2, <1>3, <5>1
      <4> QED
        BY <1>7, <4>1, <4>2
    <3>2. Padded(n, adjust) =
             [number |-> IF adjust = "left" THEN x ELSE n, places |-> Width]
      BY <2>1, Zenon DEF Padded
    <3> HIDE DEF x
    <3> QED
      BY <3>1, <3>2
  <2>3. off = n * Micro - f
    BY <1>2, <1>5, <2>2, ReadsAsPadded DEF off, f
  <2>4. 2 * off \in -Micro .. Micro
    BY <1>2, <2>3
  <2> QED
    BY <1>7, <2>4 DEF off, n, f, tens
<1>8. CASE n < tens /\ adjust = "left" /\ n # 0 /\ Digits(n) # Width
  <2> DEFINE k == Width - Digits(n)
  <2> DEFINE x == n * Ten[k]
  <2>1. ~(Digits(n) > Width) /\ k \in 1 .. Width + 1
    BY <1>2, <1>3, <1>4, <1>8
  <2>2. Ten[k] \in Nat /\ Ten[k] >= 10
    <3>1. 0 \in 0 .. Width + 1 /\ k \in 0 .. Width + 1 /\ 0 < k
      BY <1>3, <2>1
    <3> HIDE DEF k
    <3> QED
      BY <1>3, <3>1, TenRuns, TenGrows
  <2>3. Padded(n, adjust) = [number |-> x, places |-> Width]
    BY <1>8, <2>1 DEF Padded
  <2> DEFINE factor == Ten[k]
  <2> HIDE DEF factor
  <2>4. x \in Nat /\ x >= 10 * n
    <3>1. x = n * factor /\ factor \in Nat /\ factor >= 10
      BY <2>2 DEF factor
    <3> HIDE DEF x
    <3> QED
      BY <1>2, <3>1
  <2> HIDE DEF x, k
  <2>5. off = x * Micro - f
    BY <1>5, <2>3, <2>4, ReadsAsPadded DEF off, f
  <2>6. x * Micro \in Int /\ n * Micro \in Int /\ x * Micro >= 10 * (n * Micro)
        /\ n * Micro >= Micro
    BY <1>2, <1>8, <2>4
  <2>7. ~(2 * off \in -Micro .. Micro)
    BY <1>1, <1>2, <2>5, <2>6
  <2> QED
    BY <1>8, <2>7 DEF off, n, f, tens
<1> QED
  BY <1>2, <1>3, <1>6, <1>7, <1>8

\* What does hold of the printed times: with every choice of columns the first line, and
\* without the raw column all lines, unless the time is rounded up to a whole second.
PrintedNear ==
  last # NoneYet =>
    \A columns \in {c \in Columns : c.datetime}, i \in DOMAIN Searched(last.samples) :
    \A adjust \in {"right"} \cup (IF columns.raw THEN {} ELSE {AdjustAfter(columns, "right")}) :
      LET t == MessageTime(last.start_times, i)
      IN  Rounded(t.femtoseconds, Micro) < Ten[Width] => ReadsAs(t, adjust)

\* A printed time reads as the time of its message to the nearest microsecond in the first
\* line, and without the raw column in all of them, if it is not rounded up to a whole
\* second (start_printer, ssrx.hpp:430-484).
THEOREM PrintedRight == Spec => []PrintedNear
<1>1. IInv => PrintedNear
  <2> SUFFICES ASSUME IInv, last # NoneYet, NEW columns \in {c \in Columns : c.datetime},
                      NEW i \in DOMAIN Searched(last.samples),
                      NEW adjust \in {"right"} \cup
                             (IF columns.raw THEN {} ELSE {AdjustAfter(columns, "right")}),
                      Rounded(MessageTime(last.start_times, i).femtoseconds, Micro) < Ten[Width]
               PROVE  ReadsAs(MessageTime(last.start_times, i), adjust)
    BY Zenon DEF PrintedNear
  <2> DEFINE t == MessageTime(last.start_times, i)
  <2>1. i \in 1 .. (FftSize - Overlap) - NzerosHead
    BY DEF Searched
  <2>2. i - 1 \in Nat
    BY <2>1
  <2>3. t \in Times
    <3>1. last.start_times[1] \in Times
      BY DEF IInv, LastBlock
    <3>2. 0 \in Int
      OBVIOUS
    <3> QED
      BY <2>2, <3>1, <3>2, PlusSamples DEF MessageTime
  <2>4. adjust = "right"
    BY DEF AdjustAfter
  <2>5. Rounded(t.femtoseconds, Micro) < Ten[Width]
    OBVIOUS
  <2> HIDE DEF t
  <2>6. ReadsAs(t, adjust)
    BY <2>3, <2>4, <2>5, ReadsRight DEF ReadsAs
  <2> QED
    BY <2>6, Zenon DEF t
<1> QED
  BY <1>1, Inductive, PTL
=============================================================================
