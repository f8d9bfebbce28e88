--------------------------------- MODULE Algo ---------------------------------
(***************************************************************************)
(* The algorithms of algo.cpp on the samples of a block: the search for    *)
(* preambles, the thinning of what is found, and the way from samples to   *)
(* bits; and the search at work on consecutive blocks, in which one        *)
(* message is on the air.  A sample is an amplitude, a natural number in   *)
(* the place of a complex one; a power is the square of a sum of them,     *)
(* without the divisors that all powers share.                             *)
(***************************************************************************)
EXTENDS Integers, Sequences, FiniteSets

CONSTANTS
    NCoh,           \* detector.coherent_integration: samples in half a bit
    Preamble,       \* nsamples_preamble
    LongData,       \* nsamples_data_long
    FftSize,        \* samples in a buffer
    Snr,            \* snr_preamble_high, a ratio of powers
    Starts,         \* the samples of the stream at which the message may begin
    BitsSent,       \* the bits it may have
    Noise           \* sets of detections that a block without a message may yield

\* At least two samples in a half bit (algo.cpp:17).  The configuration has five or six
\* (conf/ssrx.yaml:114).
ASSUME AlgoAssumption ==
    /\ {NCoh, Preamble, LongData, FftSize, Snr} \subseteq Nat \ {0}
    /\ NCoh >= 2
    /\ Preamble = 16 * NCoh
    /\ LongData % (2 * NCoh) = 0
    /\ FftSize > 2 * Preamble + LongData
    /\ Starts \subseteq Nat

\* The detections of a block are at different samples.
ASSUME NoiseAssumption ==
    \A detected \in Noise :
        /\ IsFiniteSet(detected) /\ detected \subseteq [index : Nat, high : Nat]
        /\ \A c, d \in detected : c.index = d.index => c = d

Smallest(a, b) == IF a < b THEN a ELSE b

\* f[begin] + ... + f[end - 1]
Sum(f, begin, end) ==
    LET upto[n \in begin .. end] == IF n = begin THEN 0 ELSE upto[n - 1] + f[n - 1]
    IN  upto[end]

\* The power of an amplitude
Square(amplitude) == amplitude * amplitude

-----------------------------------------------------------------------------
(* detect_preamble.                                                        *)

\* make_modes_preamble: the half bits in which the preamble has a pulse.
Pulses == {0, 2, 7, 9}
Template ==
    [k \in 0 .. Preamble - 1 |-> IF (16 * k) \div Preamble \in Pulses THEN 1 ELSE 0]

\* The power of the cross correlation with the preamble at index i, which the code
\* computes by way of the spectrum: the buffer is a ring.
Correlation(buf, preamble, i) ==
    Square(Sum([k \in DOMAIN preamble |-> preamble[k] * buf[(i + k) % FftSize]], 0, Preamble))

\* m, the powers of the sixteen half bits of a preamble at index i
HalfBits(buf, i) ==
    [j \in 0 .. 15 |-> Square(Sum(buf, i + j * NCoh, i + (j + 1) * NCoh))]

\* The pulses stand out from their neighbours.
HasShape(m) ==
    /\ m[0] > m[1] /\ m[1] < m[2] /\ m[2] > m[3]
    /\ \A j \in 3 .. 6 : m[j] < m[0]
    /\ m[7] > m[8] /\ m[8] < m[9] /\ m[9] > m[6]

\* Four times `high', six times `low'.
High(m) == m[0] + m[2] + m[7] + m[9]
Low(m) == m[4] + m[5] + m[11] + m[12] + m[13] + m[14]

\* No quiet half bit reaches the mean of the pulses, and that is above the noise.
StandsOut(m) ==
    /\ \A j \in {4, 5, 11, 12, 13, 14} : 4 * m[j] < High(m)
    /\ 6 * High(m) > 4 * Low(m) * Snr

\* Mutant: every candidate is taken for a peak.
IsAlwaysSignificant(buf, preamble, i) == TRUE

\* A peak of the correlation in [i - ncoh / 2, i + ncoh / 2): nothing there is higher.
IsSignificant(buf, preamble, i) ==
    LET left == IF i > NCoh \div 2 THEN i - NCoh \div 2 ELSE 0
        right == Smallest(i + NCoh \div 2, FftSize)
        peak == Correlation(buf, preamble, i)
    IN  \A j \in left .. right - 1 : Correlation(buf, preamble, j) <= peak

Candidates(buf, preamble, begin, end) ==
    IF begin >= end \/ end > FftSize THEN {}
    ELSE {[index |-> i, high |-> High(HalfBits(buf, i))] :
             i \in {i \in begin .. end - 1 : LET m == HalfBits(buf, i) IN
                        HasShape(m) /\ StandsOut(m) /\ IsSignificant(buf, preamble, i)}}

\* std::sort by `high', the strongest first, equal ones in any order.
Orders(found) ==
    {s \in [1 .. Cardinality(found) -> found] :
        /\ \A i, j \in DOMAIN s : i # j => s[i] # s[j]
        /\ \A i \in 1 .. Len(s) - 1 : s[i].high >= s[i + 1].high}

\* Mutant: distance < min_separation
Closer(a, b) == a.index - b.index \in -NCoh + 1 .. NCoh - 1

\* distance <= min_separation
TooClose(a, b) == a.index - b.index \in -NCoh .. NCoh

\* One after another is kept if it is not too close to one kept already.
Filtered(order) ==
    LET kept[n \in 0 .. Len(order)] ==
            IF n = 0 THEN {}
            ELSE kept[n - 1] \cup {d \in {order[n]} :
                                     \A k \in kept[n - 1] : ~TooClose(d, k)}
    IN  kept[Len(order)]

-----------------------------------------------------------------------------
(* demodulate, as far as the bits.                                         *)

\* integrate_coherent_power: groups of NCoh samples, the last what is left.
Integrate(raw) ==
    [g \in 0 .. (Len(raw) + NCoh - 1) \div NCoh - 1 |->
        Square(Sum(raw, g * NCoh + 1, Smallest((g + 1) * NCoh, Len(raw)) + 1))]

\* Mutant: the first half bit is left out.
HardDemodulateBitsLate(power, nskip, bits) ==
    [k \in DOMAIN bits |->
        LET j == nskip + 2 * k + 1
        IN  IF j + 1 \in DOMAIN power THEN power[j] > power[j + 1] ELSE bits[k]]

\* The pulse of a bit is in its first half, or else in its second.  A bit for which
\* there are no samples stays what it was.
HardDemodulateBits(power, nskip, bits) ==
    [k \in DOMAIN bits |->
        LET j == nskip + 2 * k
        IN  IF j + 1 \in DOMAIN power THEN power[j] > power[j + 1] ELSE bits[k]]

\* The bits read at index i, none if the message would not end in the buffer; `bits'
\* is what the detection before has left in the array.
BitsAt(buf, i, bits) ==
    IF i + Preamble + LongData > FftSize THEN {}
    ELSE {HardDemodulateBits(
              Integrate([n \in 1 .. Preamble + LongData |-> buf[i + n - 1]]),
              Preamble \div NCoh, bits)}

-----------------------------------------------------------------------------
(* The search.  What is on the air is external: one message, of NBits      *)
(* bits, and after it either silence or a carrier.                         *)

NBits == LongData \div (2 * NCoh)
AllBits == [0 .. NBits - 1 -> BOOLEAN]

ASSUME BitsAssumption == BitsSent \subseteq AllBits

\* Half bit h of a message
Pulse(bits, h) == IF h < 16 THEN h \in Pulses ELSE bits[(h - 16) \div 2] = (h % 2 = 0)

\* The stream: the amplitude of sample s.
Amplitude(m, s) ==
    IF s < m.start THEN 0
    ELSE IF s >= m.start + Preamble + LongData THEN m.behind
    ELSE IF Pulse(m.bits, (s - m.start) \div NCoh) THEN 1 ELSE 0

\* The blocks SampleStore makes of it.
NzerosHead == Preamble - 1
Window == FftSize - (Preamble + LongData) - NzerosHead     \* samples searched in a block

Buffer(m, b) ==
    [i \in 0 .. FftSize - 1 |->
        IF i < NzerosHead THEN 0 ELSE Amplitude(m, b * Window + i - NzerosHead)]

VARIABLES
    at,             \* what the lane is at: "off", "find", "filter", "demodulate"
    wiped,          \* whether the spectrum `pp' is that of nothing at all
    message,        \* what is on the air, or Silence
    block,          \* the block at hand
    found,          \* what passed the tests, in detect_preamble
    detections,     \* the indices it returned, as far as not demodulated
    array,          \* `bits' in demodulate
    reported        \* history: [sample, bits] of what was demodulated, in order

searchVars == <<at, wiped, message, block, found, detections, array, reported>>

Silence == [bits |-> <<>>]
NoBits == [k \in 0 .. NBits - 1 |-> FALSE]
LastBlock == 2

\* The message begins in one of the blocks.
ASSUME StartsAssumption == \A s \in Starts : s \div Window <= LastBlock

SearchInit ==
    /\ at = "off"
    /\ wiped = FALSE
    /\ message = Silence
    /\ block = 0
    /\ found = {} /\ detections = {}
    /\ array = NoBits /\ reported = <<>>

\* compute_preamble_fft copies the preamble into the array and only then has the
\* transform planned, with FFTW_MEASURE: FFTW then tries transforms out on the array, and
\* leaves zeros of what was there, unless it knows the like from before.
PlanWipes == BOOLEAN

\* The preamble of which `pp' is the spectrum.
SpectrumOf == [k \in DOMAIN Template |-> IF wiped THEN 0 ELSE Template[k]]

\* The program starts, and a message is heard.
Hear ==
    /\ at = "off"
    /\ at' = "find"
    /\ wiped' \in PlanWipes
    /\ message' \in [bits : BitsSent, start : Starts, behind : {0, 1}]
    /\ UNCHANGED <<block, found, detections, array, reported>>

\* A block without a message yields detections.
HearNoise ==
    /\ at = "off"
    /\ at' = "filter"
    /\ found' \in Noise
    /\ UNCHANGED <<wiped, message, block, detections, array, reported>>

\* detect_preamble, its loop over the window.
FindCandidates ==
    /\ at = "find"
    /\ at' = "filter"
    /\ found' = Candidates(Buffer(message, block), SpectrumOf, NzerosHead,
                           FftSize - (Preamble + LongData))
    /\ UNCHANGED <<wiped, message, block, detections, array, reported>>

\* The rest of it: sorting, thinning, sorting by the index, as a set is.
Thin ==
    /\ at = "filter"
    /\ at' = "demodulate"
    /\ \E order \in Orders(found) : detections' = {d.index : d \in Filtered(order)}
    /\ array' = NoBits
    /\ UNCHANGED <<wiped, message, block, found, reported>>

\* demodulate, one turn of its loop.
DemodulateNext ==
    /\ at = "demodulate" /\ message # Silence
    /\ detections # {}
    /\ LET i == CHOOSE i \in detections : \A d \in detections : i <= d
       IN  /\ detections' = detections \ {i}
           /\ \/ /\ BitsAt(Buffer(message, block), i, array) = {}
                 /\ UNCHANGED <<array, reported>>
              \/ \E bits \in BitsAt(Buffer(message, block), i, array) :
                    /\ array' = bits
                    /\ reported' = Append(reported,
                          [sample |-> block * Window + i - NzerosHead, bits |-> bits])
    /\ UNCHANGED <<at, wiped, message, block, found>>

\* The block is done, the next one comes.
SearchNextBlock ==
    /\ at = "demodulate" /\ message # Silence
    /\ detections = {} /\ block < LastBlock
    /\ at' = "find"
    /\ block' = block + 1
    /\ UNCHANGED <<wiped, message, found, detections, array, reported>>

SearchIsOver ==
    at = "demodulate" /\ (message # Silence => detections = {} /\ block = LastBlock)

SearchEnds ==
    /\ SearchIsOver
    /\ at' = "off"
    /\ wiped' = FALSE /\ message' = Silence /\ block' = 0
    /\ found' = {} /\ detections' = {}
    /\ array' = NoBits /\ reported' = <<>>

SearchNext ==
    \/ Hear \/ HearNoise
    \/ FindCandidates \/ Thin \/ DemodulateNext \/ SearchNextBlock
    \/ SearchEnds

SearchSpec == SearchInit /\ [][SearchNext]_searchVars

-----------------------------------------------------------------------------

\* A message is reported as it was sent, from where it begins and from nowhere else,
\* in one block only, wherever it begins relative to the seam of two blocks: the
\* padding, where the correlation lacks samples, and the samples past the window
\* decide about the outermost ones.  Two things make it reported from elsewhere as well:
\* planning may have wiped the preamble, and then no correlation is a peak, or every one;
\* and with two or three samples in a half bit none is compared with the sample to its
\* right (IsSignificant).  Then the bits of a message may look like another's preamble, and
\* a message at a seam be reported, rightly read, from the other block too.
PreambleFoundOnce ==
    SearchIsOver /\ message # Silence =>
        \E k \in DOMAIN reported :
            /\ reported[k] = [sample |-> message.start, bits |-> message.bits]
            /\ \A j \in DOMAIN reported \ {k} :
                  /\ wiped \/ NCoh < 4
                  /\ reported[j].sample - message.start \in -NCoh .. NCoh =>
                        /\ reported[j].bits = message.bits
                        /\ reported[j].sample \div Window # message.start \div Window

\* Whatever the order of equals, no two detections kept are NCoh or less apart, and one
\* is dropped only for a kept one near it that is at least as strong.
KeepsStrongest ==
    LET kept == {d \in found : d.index \in detections'}
        Near(a, b) == a.index - b.index \in -NCoh .. NCoh
    IN  /\ \A a, b \in kept : a # b => ~Near(a, b)
        /\ \A d \in found \ kept : \E k \in kept : k.high >= d.high /\ Near(d, k)

\* So does every thinning, of what was found in a block or of any other detections.
StrongestAreKept == [][at = "filter" => KeepsStrongest]_searchVars

\* A detection that is off by less than half a half bit yields the same bits, whatever
\* is left in the array and whatever comes behind the message; at a seam too, where the
\* block that finds it may not be the one in whose window the message begins.
BitsSurviveOffset ==
    at = "demodulate" /\ message # Silence =>
        \A off \in -NCoh .. NCoh :
            LET taken == message.start + off
            IN  2 * off \in -NCoh + 1 .. NCoh - 1 /\ taken \div Window = block =>
                    BitsAt(Buffer(message, block), taken - block * Window + NzerosHead, array)
                        = {message.bits}
=============================================================================
