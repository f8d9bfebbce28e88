----------------------------- MODULE SampleStore -----------------------------
(***************************************************************************)
(* What SDR::store (sdr.hpp:612-680) and RingBufferData (sdr.hpp:187-471)  *)
(* do with the samples: the stream from the device is cut into blocks that *)
(* overlap, so that a message that begins near the end of a block is whole *)
(* in the next one, and every block carries the time of its first sample.  *)
(*                                                                         *)
(* A sample is its number in the stream the antenna saw; sample 0 is taken *)
(* at second 0, and Rate samples in a second.  Samples the device loses in *)
(* an overflow leave a gap in the numbers.  A USRP gives a time with what  *)
(* it delivers, or none if it has no clock; a HackRF gives none and does   *)
(* not report overflows.  Which block of the ring is                       *)
(* written, and whether the receiver stops in the middle, is the subject   *)
(* of Sampler: here a fresh block can always be had.                       *)
(***************************************************************************)
EXTENDS TimeSpec, Sequences

CONSTANTS
    FftSize,        \* length of the sample buffer, nraw_ = nfft_
    Preamble,       \* nsamples_preamble
    LongData,       \* nsamples_data_long
    Rate,           \* samples in a second
    MaxChunk,       \* most samples the device delivers at once
    Transfers,      \* bound: sizes of what the devices without times deliver
    MaxLoss,        \* bound: most samples lost in one overflow
    MaxSample       \* bound: samples in the stream

\* The paddings rb_data asks of its base class (ssrx.hpp:90-95).
NzerosHead == Preamble - 1                \* nzeros_head_; nzeros_tail_ is 0
Overlap == Preamble + LongData      \* noverlapped_

\* Samples a block takes behind the padding.
Capacity == FftSize - NzerosHead

\* The least power of two that is not below the block duration in samples.
FftSizeFor(min_rbsize) ==
    CHOOSE n \in {2^k : k \in 0 .. min_rbsize} :
        /\ n >= min_rbsize
        /\ n \div 2 < min_rbsize \/ n = 1

\* The code checks none of this.  With FftSize <= NzerosHead + Overlap a new block would
\* be full of old samples and store() would never come to its end.
ASSUME SampleStoreAssumption ==
    /\ {FftSize, Preamble, LongData, Rate, MaxChunk, MaxLoss, MaxSample} \subseteq Nat \ {0}
    /\ Transfers \subseteq 1 .. MaxChunk
    /\ FftSize > NzerosHead + Overlap

VARIABLES
    samples,        \* [begin(), end()) of the block being written
    start_times,    \* start_times of that block, the first one only
    from,           \* the next sample of the call of store() in progress
    remaining,      \* how many of its samples are still to be stored
    clock,          \* the next sample the device delivers
    last,           \* the block announced last, as it was then
    device,         \* which device it is
    transfer,       \* the samples it delivers at once, of a USRP with times the most
    sample_time,    \* sample_time_, what the driver takes for the time of the next sample
    overflowed,     \* history: the current block lost its beginning to an overflow
    lost,           \* history: samples lost that sample_time does not know of
    carried         \* history: durations added to make [block |-> start_times[1],
                    \* driver |-> sample_time]

deviceVars == <<clock, device, transfer, sample_time, lost>>
vars == <<samples, start_times, from, remaining, last, deviceVars, overflowed, carried>>

\* hackrf.hpp, usrp.hpp with md.has_time_spec and without
Devices == {"hackrf", "usrp", "usrp without times"}

\* Before the first announcement.
NoneYet == [samples |-> <<>>, start_times |-> <<>>, carried |-> 0, lost |-> 0]

Init ==
    /\ samples = <<>>
    /\ start_times = <<>>
    /\ from = 0
    /\ remaining = 0
    /\ clock = 0
    /\ last = NoneYet
    /\ device \in Devices
    /\ transfer \in IF device = "usrp" THEN {MaxChunk} ELSE Transfers
    /\ sample_time = Since(0, Rate)
    /\ overflowed = FALSE
    /\ lost = 0
    /\ carried = [block |-> 0, driver |-> 0]

-----------------------------------------------------------------------------

Smaller(a, b) == IF a < b THEN a ELSE b

\* Mutant: the padding is not counted.
AvailableUnpadded(buf) == FftSize - Len(buf)

\* nraw_ - curr_size_ - nzeros_tail_
Available(buf) == Capacity - Len(buf)

\* n consecutive samples, the first of which is s
Stream(s, n) == [i \in 1 .. n |-> s + i - 1]

\* copy_from returns what fits behind what is there.
CopyFrom(buf, new) == buf \o SubSeq(new, 1, Smaller(Len(new), Available(buf)))

\* Mutant: one sample too few is carried over.
OverlappedShort(buf) == SubSeq(buf, Capacity - Overlap + 2, Capacity)

\* [begin_overlapped(), end_overlapped()): by place, not by what was written.
Overlapped(buf) == SubSeq(buf, Capacity - Overlap + 1, Capacity)

\* add_time; of the times collected only start_times[0] is ever read, by time().
AddTime(times, t) == IF times = <<>> THEN <<t>> ELSE times

\* Mutant: the overlap is not taken off.
TimeAtEnd(buf, times) == Plus(times[1], Len(buf), Rate)

\* time_at_overlap: the time of the first sample plus the samples before the overlap
TimeAtOverlap(buf, times) == Plus(times[1], Len(buf) - Overlap, Rate)

\* The time a USRP gives with a packet (to_timespec), cut off to whole units.
DeviceTime(sample) == Since(sample, Rate)

\* How many samples a device delivers at once: a USRP what it has, the others a transfer.
Sizes == IF device = "usrp" THEN 1 .. MaxChunk ELSE {transfer}

\* The driver keeps its own count of the time by what it has delivered; the device's time,
\* if there is one, replaces it before it is used and makes it irrelevant.
TimeOfPacket == IF device = "usrp" THEN DeviceTime(clock) ELSE sample_time
Counted(n) == IF device = "usrp" THEN sample_time ELSE Plus(sample_time, n, Rate)

\* The device delivers n samples and their time; store() adds the time to the
\* current block and copies what fits.  The driver counts n on when store() returns;
\* nothing reads sample_time before that.
Store(n) ==
    /\ remaining = 0
    /\ n \in Sizes
    /\ clock + n <= MaxSample
    /\ start_times' = AddTime(start_times, TimeOfPacket)
    /\ samples' = CopyFrom(samples, Stream(clock, n))
    /\ LET written == Smaller(n, Available(samples)) IN
         /\ from' = clock + written
         /\ remaining' = n - written
    /\ clock' = clock + n
    /\ sample_time' = Counted(n)
    /\ carried' = [block |-> IF start_times = <<>> THEN carried.driver ELSE carried.block,
                   driver |-> IF device = "usrp" THEN 0 ELSE carried.driver + 1]
    /\ UNCHANGED <<last, overflowed, device, transfer, lost>>

\* Mutant: one fresh block is taken for granted to be enough.
NextPacketOnce ==
    /\ remaining # 0
    /\ LET overlap == CopyFrom(<<>>, Overlapped(samples))
           written == Smaller(remaining, Available(overlap))
       IN  /\ samples' = CopyFrom(overlap, Stream(from, remaining))
           /\ from' = from + written
    /\ remaining' = 0
    /\ start_times' = AddTime(<<>>, TimeAtOverlap(samples, start_times))
    /\ last' = [samples |-> samples, start_times |-> start_times,
                 carried |-> carried.block, lost |-> lost]
    /\ overflowed' = FALSE
    /\ carried' = [carried EXCEPT !.block = @ + 1]
    /\ UNCHANGED deviceVars

\* Mutant: while (remaining > 1)
NextPacketButLast ==
    /\ remaining > 1
    /\ LET overlap == CopyFrom(<<>>, Overlapped(samples))
           written == Smaller(remaining, Available(overlap))
       IN  /\ samples' = CopyFrom(overlap, Stream(from, remaining))
           /\ from' = from + written
           /\ remaining' = remaining - written
    /\ start_times' = AddTime(<<>>, TimeAtOverlap(samples, start_times))
    /\ last' = [samples |-> samples, start_times |-> start_times,
                 carried |-> carried.block, lost |-> lost]
    /\ overflowed' = FALSE
    /\ carried' = [carried EXCEPT !.block = @ + 1]
    /\ UNCHANGED deviceVars

\* One turn of the outer loop: a fresh block takes the overlap of the full one,
\* then the samples left, then its time; the full one is announced.
NextPacket ==
    /\ remaining # 0
    /\ LET overlap == CopyFrom(<<>>, Overlapped(samples))
           written == Smaller(remaining, Available(overlap))
       IN  /\ samples' = CopyFrom(overlap, Stream(from, remaining))
           /\ from' = from + written
           /\ remaining' = remaining - written
    /\ start_times' = AddTime(<<>>, TimeAtOverlap(samples, start_times))
    /\ last' = [samples |-> samples, start_times |-> start_times,
                 carried |-> carried.block, lost |-> lost]
    /\ overflowed' = FALSE
    /\ carried' = [carried EXCEPT !.block = @ + 1]
    /\ UNCHANGED deviceVars

\* Mutant: the samples before the gap are kept.
OverflowKept(missed) ==
    /\ remaining = 0 /\ device # "hackrf"
    /\ clock + missed <= MaxSample
    /\ clock' = clock + missed
    /\ lost' = IF device = "usrp" THEN lost ELSE lost + missed
    /\ UNCHANGED <<samples, start_times, overflowed, carried, from, remaining, last,
                   device, transfer, sample_time>>

\* The USRP reports an overflow: what the current block holds is thrown away.  The
\* driver's own count of the time goes on as if nothing had been missed.
Overflow(missed) ==
    /\ remaining = 0 /\ device # "hackrf"
    /\ clock + missed <= MaxSample
    /\ clock' = clock + missed
    /\ lost' = IF device = "usrp" THEN lost ELSE lost + missed
    /\ samples' = <<>>
    /\ start_times' = <<>>
    /\ overflowed' = TRUE
    /\ carried' = [carried EXCEPT !.block = 0]
    /\ UNCHANGED <<from, remaining, last, device, transfer, sample_time>>

Next ==
    \/ \E n \in 1 .. MaxChunk : Store(n)
    \/ NextPacket
    \/ \E missed \in 1 .. MaxLoss : Overflow(missed)

Spec == Init /\ [][Next]_vars

\* store() runs to its end once called; the device need not deliver anything.
FairSpec == Spec /\ WF_vars(NextPacket)

-----------------------------------------------------------------------------
(* What the later stages rely on.                                          *)

\* The samples at which the detector looks for a preamble: indices
\* [nsamples_zero_padding(), fft_size() - noverlapped()) of the buffer.
Searched(buf) == [i \in 1 .. (FftSize - Overlap) - NzerosHead |-> buf[i]]

TypeOK ==
    /\ samples \in Seq(0 .. MaxSample) /\ Len(samples) <= Capacity
    /\ start_times \in Seq([seconds : 0 .. MaxSample, femtoseconds : 0 .. Second])
    /\ {from, remaining, clock} \subseteq 0 .. MaxSample
    /\ last.samples \in Seq(0 .. MaxSample)
    /\ device \in Devices /\ transfer \in 1 .. MaxChunk
    /\ sample_time \in [seconds : 0 .. MaxSample, femtoseconds : 0 .. Second]
    /\ overflowed \in BOOLEAN /\ lost \in 0 .. MaxSample
    /\ carried \in [block : 0 .. 2 * MaxSample, driver : 0 .. MaxSample]

\* An announced block is full and without a gap, so that a message that begins at
\* any of the samples searched lies in the block with all its samples.
BlocksAreWhole ==
    last # NoneYet =>
        /\ Len(last.samples) = Capacity
        /\ \A i \in 1 .. Capacity - 1 : last.samples[i + 1] = last.samples[i] + 1
        /\ LET starts == Searched(last.samples) IN
             \A k \in DOMAIN starts :
                starts[k] + Preamble + LongData - 1 <= last.samples[Capacity]

\* The time of a message found at the i-th sample of a block (index i - 1 +
\* nsamples_zero_padding of the buffer).
MessageTime(times, i) == Plus(times[1], i - 1, Rate)

\* By how much a time is early for a sample, in units, times Rate.
Lag(t, sample) == sample * Second - Rate * Instant(t)

\* Every message has the time of its first sample, across chunks, blocks and
\* overflows.  A time is carried over from block to block, and by a driver without the
\* device's times from chunk to chunk, and each time something is added less than a
\* unit is cut off: a time is never late, and early by less than one unit for
\* each addition, one for the device's time and one for the message.  If the USRP does
\* not give times, all times after an overflow are early by the samples lost.
TimesAreOfFirstSamples ==
    /\ samples # <<>> =>
           Lag(start_times[1], samples[1]) - lost * Second
               \in 0 .. (carried.block + 1) * Rate - 1
    /\ \A i \in DOMAIN last.samples :
           Lag(MessageTime(last.start_times, i), last.samples[i]) - last.lost * Second
               \in 0 .. (last.carried + 2) * Rate - 1

\* The samples searched in consecutive blocks follow each other without a gap and
\* without one searched twice, except for what an overflow threw away.
SearchTilesTheStream ==
    last # NoneYet /\ samples # <<>> =>
        LET starts == Searched(last.samples) IN
          IF overflowed THEN samples[1] > last.samples[Capacity]
                        ELSE samples[1] = starts[Len(starts)] + 1

\* Nothing delivered is lost inside store(): the samples not stored yet are exactly
\* those between the end of the block and the device's clock.
NothingDropped ==
    /\ remaining # 0 => from + remaining = clock /\ Len(samples) = Capacity
    /\ remaining # 0 => samples[Len(samples)] + 1 = from
    /\ remaining = 0 /\ samples # <<>> => samples[Len(samples)] + 1 = clock

\* Every call of store() comes to its end.
StoreReturns == remaining # 0 ~> remaining = 0
=============================================================================
