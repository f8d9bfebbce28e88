# ssrx in TLA+

Specifications of `ssrx`, a receiver for Mode-S transponder messages: what its
threads, queues and ring buffer do, model-checked with TLC on small instances and,
for all of the safety that holds, proved with TLAPS for every instance. Line numbers are those of the
files under `src/` of the repository (`sdr.hpp` is `src/sdr.hpp`, and so on).

## 1. The system

A device delivers samples. One thread (USRP) or callback (HackRF), the *sampler*,
cuts the stream into overlapping blocks of a ring buffer. Other threads take the
full blocks through a chain of processing stages and set them writable again. The
blocks stay where they are; what travels between the threads is the index of a
block, over ZeroMQ PUSH/PULL sockets inside the process.

    device -> sampler -> correlator i -> detector i -> demodulator i -> collector -> PUB
                 |                                                          |
                 +---------- ring of blocks, one atomic flag each <---------+
                                  ^                ^
                          monitor + watchdog    (or instead of the chain:
                                                 integrity tester, histogram)

| Component | State | Operations | Talks to | What makes it correct |
|---|---|---|---|---|
| Ring buffer (`ringbuffer.hpp`) | `writable` per block, `write_pointer_` | `reset`, `advance_write_pointer`, `set_state_writable`, `set_state_readable` | called by sampler, collector, tester, monitor | a block in use is never flagged writable; a block not in use is, sooner or later |
| Sampler (`SDR::store`, `usrp.hpp:284`, `hackrf.hpp:160`) | current and previous block, samples left | store a packet, advance, skip busy blocks, announce | ring, PUSH to the correlators, `running` | blocks whole, contiguous, stamped with the time of their first sample; announced once, in order |
| Block data (`RingBufferData`, `rb_data`) | samples, size, start times, detections, messages | `reset`, `copy_from`, `add_time`, overlap, the searched window | sampler and stages | every sample searched exactly once, every message whole in some block |
| Correlator, detector, demodulator (`ssrx.hpp:277-372`), `nthreads` lanes | the index in hand | receive, process, send | PULL/PUSH per lane | the stages run once each, in order, on a block nobody else touches |
| Collector (`ssrx.hpp:374`) | the index in hand | receive, send messages, release the block | PULL from all demodulators, PUB out | releases every block, whatever happens to its messages |
| Integrity tester (`sdr.hpp:761`) | block in hand, block before | receive, compare, release | PULL from the sampler | compares neighbours in the stream |
| Stop protocol (`request_stop`, `stop`) | `running` | set by main, drivers, sampler, threads | polled everywhere | every thread returns |
| Monitor and watchdog (`sdr.hpp:706`) | last write pointer, time stalled | publish flags, abort | ring, PUB | aborts when the pointer stands still, and for nothing else |
| Programs, drivers' start and stop, services | signal flag, phase of the start | synchronise, start, stop, exit code | systemd restarts on failure | a fault ends in a restart, a signal in a clean exit |
| Mode-S decoder (`modes.cpp`, `algo.cpp:177`) | address table, its file | check, repair, learn address, load, store | shared by the demodulators | accepts only what the table or the checksum vouches for |
| Detection and bits (`algo.cpp:10-214`, `modes.cpp:19-66`) | candidates, detections, the array of bits, the preamble's spectrum | search, thin, integrate, decide | called by detector and demodulator | a message is found where it begins, in one block, once, and read as sent |
| Times (`TimeSpec`) and printer (`ssrx.hpp:430`) | seconds and femtoseconds; the output stream's adjustment | add a duration, normalise; print a line | device, blocks, messages, SUB socket | a time belongs to its sample, and can be read off the line |
| Sockets (`mqhelper.hpp`) | the open sockets | bind, connect | configuration, every thread | each message gets to the one thread meant, whoever opens first |
| Status display (`monitor_bits.hpp`, `ssrx-rbstat.cpp`), histogram (`--amphist`) | none or local | pack, unpack, lay out; draw | SUB to the monitor; PULL from the sampler | what is shown is the ring |
| Configuration (`confighelper.hpp`) | none | read values with units | everything, once at start | see section 8 |

What is hard to test: all of the ring's protocol is in flags stored by one party and
read by another without a lock; `running` is polled at dozens of places, any of which
may see it change; a send waits for a peer that may have gone. `PROJECT.json` lists
these hazards line by line, with the property that covers each.

## 2. Modules

| Module | Models | Composition |
|---|---|---|
| `RingBuffer` | `RingBuffer`, write side | |
| `Sampler` | `SDR::store` and its callers, as far as ring, queue and `running` go | extends `RingBuffer` |
| `BlockPool` | abstract: what ring, sampler and consumers promise together | |
| `Pipeline` | sampler, lanes, collector, queues, stop | extends `Sampler`; instantiates `BlockPool` |
| `PipelineProofs` | theorems about `Pipeline` | extends `Pipeline` |
| `TimeSpec` | seconds and femtoseconds: normalise, split, add | |
| `SampleStore` | samples and times in `SDR::store`, USRP overflow | extends `TimeSpec` |
| `Printer` | the time in a printed line | extends `SampleStore`: prints the times of its messages |
| `IntegrityTester` | `--test-integrity` and `--amphist`: the same sampler, one consumer | extends `Sampler` |
| `MonitorBits` | the flags as published by the monitor and as shown by `ssrx-rbstat` | |
| `Wiring` | which end of each queue binds, which connects, in every order | extends `Pipeline`: makes its pipes |
| `Algo` | the search for preambles, thinning, bits; the search at work on consecutive blocks | |
| `Lifecycle` | the programs from start to exit: drivers, main loop, watchdog, signal, service manager | on its own; the processing threads as one party |
| `ModeS` | one message: checksum, repair, what `demodulate` makes of the bits | |
| `ModesDecoder` | demodulators of all lanes, their table of addresses, its file | extends `ModeS` |
| `LifecycleProofs`, `IntegrityTesterProofs`, `ModesDecoderProofs`, `AlgoProofs` | theorems about the module of the name | extend it |
| `SampleStoreProofs` | theorems about `SampleStore` and `Printer` | extends `Printer` |
| `RunningProofs` | theorems about `Wiring` and `MonitorBits` at work on the pipeline | extends `MCRunning`, `PipelineProofs` |
| `ArithmeticProofs` | induction over the naturals, division with a remainder | used by `SampleStoreProofs`, `RunningProofs`, `AlgoProofs`, `ModesDecoderProofs` |
| `MCPipeline`, `MCRunning`, `MCSampleStore`, `MCIntegrityTester`, `MCModesDecoder` | instances for TLC (`Lifecycle` needs none: its constants are numbers) | |

`Sampler` has the sampler's actions without the queue; `Pipeline` and
`IntegrityTester` conjoin `SendOk` and `SendTimeout` with their queues. So the three
modes of the program share one sampler in the model as they do in the code.

### Ring and sampler

`writable` and `write_pointer` are the class's members. `packet` and `previous` are the
local variables of `store()`; `packet` outlives a call because every call begins
with `packet = write_buffer()` and none changes the pointer without ending on
the block it writes. `spc` is the place in `store()`:

* `store`: lines 613-622 and the driver between two calls. A call whose samples fit
  changes nothing that `Sampler` has, and is no step of it.
* `Advance`: 626-635. The load of `running` and the store to the flag of the block
  being left are one step. Nobody else stores to that flag here: the block is the
  sampler's own (this is `ExclusiveAccess`, proved).
* `Probe` / `Skip`: 638 / 639. The load of the flag and the unconditional store are two
  steps; between them the collector can release the block. The loads of `running` and
  of the flag in line 638 are one step: a stop in between is caught by line 641.
* `Fill`: 641-660, the reset of the next block, the copy of the overlap, and the last
  look at `running`.
* `SendOk`, `SendTimeout`: 663-677. The sampler's socket is the only one with a
  send timeout; the send can time out when no lane has room.
* `ReturnNull`: every other `return nullptr`.

### Processing threads

All four loops have one shape (`ssrx.hpp:284-304`): loop while running; receive without
waiting, and go round if there was nothing; process; send if still running. `poll` is the
loop condition and the receive. A thread sees `running` at three
places, and each outcome is a disjunct:

* loop condition false: `LeaveLoop`;
* loop condition true, but false beside the receive: the receive is skipped and `iread` is
  read from an empty message, eight bytes that nothing has written. The index is masked
  (`operator[]`), so it names some block: `ReceiveNothing` then `StrayWork` or
  `StrayFinish` with any block. This needs a stop between two adjacent loads, so
  it is possible only once the receiver stops, which is why `StagesInOrder` and
  `FlagsProtect` say `running =>`. `ExclusiveAccess` needs no such restriction, because
  what a stray thread touches is not something it was given; that a stray
  processing of a block in use is a data race on its samples is a consequence the model
  shows as a change of `stage` and leaves at that: the program is ending. `TypeOK` and
  the block pool hold through it.
* false beside the send: the index is dropped and the thread goes to the top of
  the loop, where it finds the same (`running` never becomes true again): `Work` goes
  to `done` directly.

An unsuccessful poll changes nothing and is no step. `stage[b]` stands for the
contents of block `b`: 0 after the sampler's reset, then the number of the last stage that has
run on it. The collector's loop over the messages is one step (`Emit`), which
may be skipped (no messages, or a stop); then comes the release (`Finish`), always.

Pipes: `link[p]` leads into worker `p`, and `<<4, l>>` from demodulator `l` into the collector.
PUSH gives a message to one of the peers with room and waits if there is none;
a thread that returns destroys its sockets (linger 0, `mqhelper.hpp:130`), so its
pipes take no more messages. That is all that is used of ZeroMQ, and it is modelled from
that use. `stop()` itself is only the joins: it is over when every thread is `done`.

The collector's socket is PUB as in `conf/ssrx.yaml`; PUB never waits. With type
`push` (also allowed there) and no consumer the collector would wait in `Emit`.

### Sockets

`Wiring` is the time before the loops. The sections of `conf/ssrx.yaml` name the method of
the sending end (`method[k]` for the link out of stage `k`), and `create_socket` turns it round for the client.
A thread opens the socket it receives from, then the one it sends to; the threads come in any order, the
sampler's and the printer's sockets too. A second bind of an address throws inside a thread
(`failed`), which ends the program. `Address` is what `create_socket` completes with the lane's
index or not, as its overload is called. `Peers` is ZeroMQ's part: two open sockets are connected if
they have the same address, opposite methods and fitting types. `PipesAreWired` says that these
connections are the pipes of `Pipeline` (`OutPipe`, `Receiver`). `method` ranges over every configuration but
for the collector's address, which can only be bound.

### Flags on display

`Pack`, `Test` and `Count` are `monitor_bits.hpp`, a byte being the set of its ones; `Display` is the
loop of `ssrx-rbstat.cpp:129-168`, with its exit for a low window. The monitor reads the
flags one after another while they change. `MonitorBits` takes a picture at one moment, as the display
shows no relation between flags that could be wrong.

### Samples and times

`SampleStore` numbers the samples of the stream. A call of `store()` is `Store(n)` followed by as
many `NextPacket` as it takes. `Overflow` is the USRP's error path (`usrp.hpp:297-306`). `last` is the
block announced last. `Searched` is the detector's window, computed with the sizes `rb_data` passes to
its base class.

Times are those of `TimeSpec`, whole units with a given number in a second
(`Second`, 10^15 in the code) and a duration of `num / den` seconds in the place of a double: the
cutting off toward zero in `split`, the carry in `init`, with its `>` in the place of `>=`, are
as in the code. What a double adds to that, an error of one part in 2^53, is not in the model. `device` is a USRP
that stamps its packets, a USRP that does not (`usrp.hpp:343-346` takes the driver's own count then), or a
HackRF, whose driver always counts (`hackrf.hpp:179`). `sample_time` is that count, `lost` what it has
missed, and `carried` the number of additions behind the block's time and behind the driver's.

`Printer` prints the time of each message of the block announced last, in every state the output stream
can be in. What matters of that is that `setw` lasts for one value, and `std::left`, which the raw column sets, for ever.

### Integrity tester and histogram

`content[b]` is the number of the packet in block `b`. The tester's three steps are the receipt
(773-787), the comparisons (789-821), the release (824). The comparisons end the process
when they fail; `ComparesNeighbours` says when they have the right things to compare: `packet_prev` points to a
block that the tester has already given back. `hwm`, what the pipe takes, is chosen from `Hwms` at the start, so that
rings shorter and longer than the pipe are covered by one instance.
The thread of `--amphist` (837-872) draws (`Draw`) instead of comparing, and ends the receiver with the block
in its hand when a key was pressed (`Quit`).

### Lifecycle

Both programs have the same `main()` from line 84 on; `driver` says which one it is. `proc` is
the place in it: `open` 84-94, `sync` 96-102, `threads` 114-126, `start` in `start_sampling`,
`loop` 129-135, `stop` in `stop()`. The other parties:

* `stream`, the USRP's receiving thread or the HackRF's callback, and its place in `store()`: `filling` a
  block (or between two calls), `seeking` the next writable one (638-640), `sending` the index of the one before (663-665).
  `Filled` and `SkipBusy` move the pointer; a ring without a writable block lets `SkipBusy` go on for
  ever. `Overflow` (USRP) throws away what the unfinished block has, as often as it
  happens. `SendTimeout` is possible whatever has become of the device meanwhile. Only the USRP has `RecvTimeout`: `recv` gives up
  after a second, whereas a HackRF that falls silent just does not call back.
* the exceptions: the USRP's driver may throw while it synchronises (`SynchronizeFails`, caught, `EXIT_FAILURE`),
  either driver while it stops (`StopFails`, caught by nobody).
* `mon`, the monitor. One `MonitorTurn` is one pass of lines 729-750; `prev_wptr` and `stalled` are
  its local variables, the latter in intervals. `curr_wptr` has no other use than the comparison.
* `workers`, the processing threads: when the receiver stops they return, or one is stuck in a send,
  as `stop_hang` shows of `Pipeline`.
* the service manager, external, as the unit files have it: SIGINT, SIGKILL after
  `TimeoutStopSec`, a new start after a failure, none after an exit code of 0 nor after a stop.

Time. Nothing but the monitor measures it, so a turn of the monitor is the unit. `TurnIsDue`
says how long the others can be where they are when the next turn comes: main in `start_sampling` for `StartTurns`, `store()` in its send for
`SendTurns` (`sndtimeo`), and a device in order that neither falls silent nor overflows takes `FillTurns` to fill a block. An overflow
begins the block anew, and so it begins this time anew (`spent' = 0`): a USRP that overflows all the time fills none, the pointer stands still, and the watchdog
aborts. `MaxAdvance` bounds what can be filled in an interval; it does not bound what can be skipped. `LifecycleAssumption` is what a
configuration has to satisfy: blocks filled do not take the pointer once round the ring in an interval, and neither wait, with the time to fill a block
added, reaches the watchdog's limit. The code checks none of this. `conf/ssrx.yaml` satisfies it: about 180 of 4096 blocks in an interval of 100 ms,
waits of 25 and 17 intervals (the start is two to two and a half seconds ahead, `sndtimeo` 1.6 s), and a limit of 30.
A configuration without `monitor.interval` does not: the default
of ten seconds is several times round the ring and by itself longer than the limit, and then
a single coincidence of pointers aborts a sound receiver (`NoFalseAlarm` fails without the assumption).

Three history variables say what the watchdog's comparison cannot know. `still` counts the turns since the pointer moved, `lost` says that an overflow
has come since the last block, `skipped` that the pointer has been moved by skipping, perhaps just once round. So
the two properties are about the pointer and not about blocks: `WatchdogInTime` promises nothing for a sampler that
skips for ever, and `NoFalseAlarm` has `lost` and `skipped` as reasons for an abort.

### Mode-S decoder

`ModeS` has the arithmetic of the code on sets: a message is the set of the positions of its ones, a word
the set of its exponents, and exclusive or is symmetric difference. `Table` is `modes_checksum_table`
as it stands. `Decode` is `demodulate` from the bits to the decision (`algo.cpp:216-256`);
the loop of `fixSingleBitErrors` is `Fixes` and the choice of the least. Two things of the code matter and
are kept: the type is read once, before the repair, and so is the parity field the result is compared with.

`ModesDecoder` sends messages, external, encoded with the generator polynomial of the
standard and not with the code's table (`TableAssumption`, which TLC evaluates, says that the two agree), flips the bits of a member of `Errors`, and lets the lanes
work on them: `Demodulate` takes one up, `Lookup` is `test_crc` and the decision, `AddAircraft` the
insertion, `Deliver` passes the message on. The noise behind a short message taken for a long one is
zeros. Lanes take up messages, damaged or not, whatever the others are doing. The table is an `unordered_map` that all lanes use without a lock. While
one inserts a new address (`Disturbed`) another's search may miss an address that is there. When two insert at once, one of them a new
address (`Collides`), each may be moving the entries to new buckets (`modes.cpp:153`): any entry may be gone afterwards, those from the file too, and the table is
`torn` from then on, so that a search may miss anything, a later insertion may lose anything, and the walk of `store()` may see any part of it. A crash is `Abort`,
possible at any time anyway. What the model does not have is a torn map that *invents* an entry. The destructor runs when all lanes have
been joined (`BeginStore`, `StoreRow`, `Commit`); every failure ends it with what is on the disk by then.
`last_seen` is stored and never used, and left out.

### Search and bits

`Algo` has `detect_preamble` and the part of `demodulate` that ends with the bits, on amplitudes that are
natural numbers. A power is a square; divisors that all powers share are left out. The correlation is
given by its definition, as a circular sum: that the product of spectra computes it is a theorem about the FFT.
`std::sort` leaves the order of equals open; `Orders` are all of them.

The machine in the second half of the module searches three consecutive blocks as `SampleStore` cuts them, zeros
in front, for one message with bits of `BitsSent` that begins at a sample of `Starts`, with silence or a carrier behind it
(`Hear`); or it thins what noise has left (`HearNoise`). `wiped` is whether planning the preamble's transform
has destroyed the preamble. `compute_preamble_fft` (`modes.cpp:49-66`) first copies the preamble into the
array and then calls `fftwf_plan_dft_1d` with `FFTW_MEASURE`. FFTW's documentation says that
the array is overwritten during planning in this mode, except where it has the plan from before, and in fact it is
left with zeros; so both are possible.

## 3. Runs

| Run | Instance | Shows |
|---|---|---|
| `pipeline_running` | 4 blocks, 2 lanes, pipes of 1, never stopped; lanes symmetric; all 16 configurations of the sockets; bytes of 3 bits, windows of 1-5 columns | `ExclusiveAccess`, `StagesInOrder`, `ImplementsBlockPool`, `PipesAreWired`, `FlagsAreShown` |
| `pipeline_stop` | 2 blocks, 1 lane, pipes of 1, stopped at any time | `TypeOK`, `ImplementsBlockPool` through the shutdown; `EveryBlockReturns`, `SamplerReturns`, `StopDrains` |
| `ring_leak` | as `pipeline_stop` | `ReadableIsInUse` is violated |
| `stop_hang` | as `pipeline_stop`, fair | `StopStopsAllThreads` is violated |
| `store_data` | block of 16 samples, preamble 3, data 2, packets of 1-20 (of 5, 8 or 20 without times), gaps of 1-3, 60 samples, 48 in a second of 500 units | `BlocksAreWhole`, `TimesAreOfFirstSamples`, `SearchTilesTheStream`, `NothingDropped`, `StoreReturns` |
| `printed_time` | as `store_data`, printed with 2 places | `PrintedTimeReadsRight` is violated |
| `tester_order` | 8 blocks, pipe of 1, 4 or 6, 10 packets; tester or histogram | `PacketsInOrder`, `InputIsStable`, `ComparesNeighbours`, `BothReturn` |
| `lifecycle` | 4 blocks, up to 3 filled in an interval and any number skipped, limit of 4 intervals, waits of 2, a block in 1; both drivers, with and without pulses, device good, overflowing or silent | `NoFalseAlarm`, `WatchdogInTime`, `SilentHackRFRestarts`, `SignalEnds` |
| `silent_usrp` | as `lifecycle` | `SilentDeviceRestarts` is violated |
| `pps_wait` | as `lifecycle`, no fairness | `StopIsObeyed` is violated |
| `decoder` | 2 lanes; 5 messages (types 17, 11, 20, 4, 18) of 2 aircraft; no wrong bit, every single one, every two neighbours, the last bit of the type with every other; in both lanes at once, of each kind one or two. Search: half bits of 4 samples, 5 messages of 6 bits, blocks of 256, 13 places where it begins, up to 3 detections of 3 strengths | `PreambleFoundOnce`, `StrongestAreKept`, `BitsSurviveOffset`, `AcceptedAsSent`, `LearntIsReal`, `DataErrorsAreFixed`, `FileIsKnown` |
| `parity_repair` | as `decoder` | `SingleErrorsAreFixed` is violated |

In all runs but `decoder` and `parity_repair` deadlock is not checked: after a stop the system does stop, with all threads `done` or,
as `stop_hang` shows, some waiting; the service of `Lifecycle` is over when its program has
ended without failure or has been stopped.

Why the bounds are enough. Transfers of 5, 8 and 20 samples are less than half a
block, more than half, and more than one. Two lanes are the configured number and the least
at which blocks overtake each other; four blocks let the sampler hold two, one be in each lane,
so that it has to skip, and laps the ring while blocks are under way. Two blocks are
the smallest ring on which anything can be announced: the sampler is for ever
at the other's heels, which is where the flags matter most. A pipe of one
message makes every send wait at some time; longer pipes only delay that (and the
proofs do not depend on it). In `store_data` packets go from one sample to more than
one block holds, so that each way a packet can end relative to the block
comes up, and a packet can span three blocks; 60 samples are four blocks with their overlaps.
With 48 samples and 500 units in a second no
sample but one in twelve falls on a unit, so that times are cut off all the time; a whole second of units comes
up where it should, and so do times that round to 100 hundredths. In `tester_order` ten packets are a lap and more of a ring of eight, pipes of one and four leave more than three blocks beyond them (four is the
most of which `ComparesNeighbours` speaks), a pipe of six does not and lets the sampler come upon busy blocks; five blocks, rounded up to eight, make the rounding matter. In `lifecycle` up to three of four blocks in an interval make the
pointer come back to any value but the one it had, skipping brings it back to that one too, and waits of two, with one for a block and a limit of four, are the
largest the assumption allows. In `decoder` whether a wrong bit behind the type
is repaired does not depend on the message it is in, since the code is linear (section 6 proves it); one long and one short message with the address in
clear stand for all, and the others bring in every way a message is judged. The search starts at both
sides of each seam, where the padding, the end of the window and the neighbouring block decide, and inside
a block, where nothing does. A half bit of 4 samples is the least for which the window of
the peak has a right half; with 2 and 3, which the code accepts too, the instance passes as well, `PreambleFoundOnce` then allowing for what section 4 says. The messages
have the four beginnings of two bits; and six bits have room for one that looks like a preamble from a place inside it, between two half bits. The detections of `Noise` lie from 0 to 9 samples apart, both sides of the limit of 4, so that
chains come up in which the middle one is dropped or drops the others. With the other lane idle
every set of wrong bits is tried; in both lanes at once those of `MCRaceErrors`, in the data, in the address, in either parity, two at a time, in the type (`FewAtOnce`, a bound of the instance,
not of the module: the theorems have none). The two pipeline
instances are split because the many ways to wind down multiply the states:
`MCRunning` restricts `Next` to the steps that leave `running` true, which loses
nothing but the shutdown, and that is the subject of `pipeline_stop`.

## 4. What the runs found

* **A block can be lost** (`ring_leak`). The sampler reads the flag of a busy block (line 638),
  the collector sets it writable (`ssrx.hpp:425`), the sampler stores
  `readable` and moves on (line 639). The block now counts as in use though nobody has it and
  nobody will release it. Enough of these and the sampler loops in 638-639 until it
  is stopped. On the ring of 4096 blocks each is a fraction of a percent, but none comes back.
  A compare-and-swap, or skipping without the store, would do.
  This is also why there is no property "the sampler always finds a block".
* **A stop can hang** (`stop_hang`): see `StopStopsAllThreads`. What does hold is `StopDrains`: all
  return but those in a send with nobody behind it. The service's
  `TimeoutStopSec=15s` then kills the process.
* **The integrity tester can test the wrong thing.** It compares with a block that it has given back (`sdr.hpp:804`, 824). On a ring that is more than three blocks
  longer than the pipe the sampler cannot have come round to it (`ComparesNeighbours`, proved), and the 4096 blocks of `conf/ssrx.yaml` with ZeroMQ's
  high-water marks of 1000 at each end are such a ring. On a shorter one it can: the sampler, held up by a full pipe, takes the block as soon as it is released, and the test fails though the ring is sound.
  Without its antecedent on the lengths `ComparesNeighbours` is violated by such a run.
* **A silent USRP is not restarted** (`silent_usrp`). `recv` times out after one second, long before
  the watchdog's three, the program stops in good order and exits with 0, and `Restart=on-failure`
  leaves it at that. The watchdog, documented for this case, works for the HackRF only, and there only for a silence between two callbacks: if the
  HackRF falls silent while its callback waits in send, and the send times out (`sdr.hpp:665`), that program too exits with 0 and stays off.
* **What the watchdog does not see, and what it takes for a fault** (`WatchdogInTime`, `NoFalseAlarm`). A sampler that finds no writable block
  goes round the ring for ever (638-640); the pointer moves, no block is filled, nobody aborts. A USRP that overflows before each block is full
  (`usrp.hpp:297-305`) delivers and is aborted. The documentation speaks of the pointer only, so neither contradicts it.
* **The wait for the pulse cannot be cancelled** (`pps_wait`). It polls `running`, but SIGINT sets
  a flag that only the main loop looks at. The branch with "-- CANCELED --" is unreachable.
* **A repair can be in vain** (`parity_repair`). If the wrong bit is one of the 24 parity bits, the message is
  repaired, and then rejected, because it is compared with the parity field read before the repair. Of the
  single errors behind the type, 24 in 107 (long) or in 51 (short) cost a message that the code means to save.

* **The fraction of the second is misprinted** (`printed_time`). The
  raw column sets `std::left` (`ssrx.hpp:474`) and nothing sets it back, so from the second line on the microseconds are padded
  behind: .001234 is printed as .123400. With the columns of `conf/ssrx.yaml`, raw and datetime, this
  concerns one line in ten, those in the first tenth of a second. In the
  last half microsecond of a second the number printed is 1000000. What does hold is proved: the first line, and every line without the raw
  column, is right to half a microsecond but for that last case (`PrintedRight`).
* **The preamble may be wiped** (`PreambleFoundOnce`, which allows for it). If planning has left zeros, the
  correlation is zero, every candidate passes for a peak, and only the pulse shape and the thinning are left to choose
  the sample. One message at the seam of two blocks is then reported from both, rightly read, with times a sample or more
  apart; and where samples of a message have the shape of a preamble, a message that nobody sent is reported from there. While the
  correlation works neither comes up: that is the rest of `PreambleFoundOnce`. An earlier form of it forbade the second kind after a wipe too and had passed
  on messages of two bits; the proof showed the pulses that make it false, and six bits are enough for TLC to find them. Planning first and copying afterwards would do.
* **Two or three samples in half a bit are few** (`PreambleFoundOnce`, which allows for it). The code accepts `coherent_integration` from 2 on, and so does `AlgoAssumption`. The peak is looked for in
  `[i - ncoh/2, i + ncoh/2)`; with 2 or 3 that has no right neighbour in it, and a message at a seam may be found
  in both blocks, rightly read. From 4 on that does not happen; `conf/ssrx.yaml` has 6.
* **A USRP without times does not count an overflow** (`TimesAreOfFirstSamples`). The handler of the overflow leaves
  `sample_time_` as it is, so that all later times are early by the samples lost. A device that gives times
  is not concerned.
* **Times drift by the cut-off** (`TimesAreOfFirstSamples`). A HackRF's time, and the time of each block, is the one before
  plus a duration cut off to femtoseconds: early by less than a femtosecond more with every block, at most, until the device
  gives a time again. Never late, and negligible.
* **The display drops a partial row** (`FlagsAreShown`): `nbits / ncols` is rounded down. The blocks in it are counted, not shown.

What holds, though one might doubt it. A detection up to less than half a half bit early or late yields the right bits, also at a seam,
where a late one belongs to the window of the next block (`BitsSurviveOffset`). An earlier form, which asked this of the block in
which the message begins, had passed on the instance; the proof showed it to be false from half bits of 5 samples on. No message
with one or two wrong bits behind its type is accepted as something it is not, if no two aircraft have addresses as near each other as that, and no address
is learnt that nobody sent, with damaged messages in all lanes at once and a table that loses entries; with the type wrong too this is so of the messages of `decoder`. The unlocked table is a data race by the language's rules;
`decoder` shows what it does not endanger, not that it is harmless: two insertions that meet can cost any entry, and then the running program need not know what is in the file, which is
why `FileIsKnown` says `~torn`. The file keeps its rows all the same: storing only adds.

## 5. Fairness

The operating system runs every thread that can run: weak fairness of each thread's steps,
for the sampler inside `store()` only. The device need not deliver (`Advance` from
`store` is not fair), nor need anybody stop the receiver. ZeroMQ's PULL socket takes from its
pipes in turn: strong fairness of the collector's receipt per lane. PUSH owes no lane a message,
and none is assumed to get one. The collector's release is weakly fair separately from
its receipts, as they are different places of one loop. `SampleSend` or `SampleTimeout` is weakly
fair as a whole: the send ends one way or the other.

In `Lifecycle` main, the workers and the monitor are fair as threads that can run are. The receiver's steps are fair as a whole (`SamplerStep`): in store() it does something, but it may
skip or overflow for ever, and in a silent HackRF none of its steps is possible; `recv` and `send` end at their timeouts at the latest. `Restart` and `Kill` are fair
because the service manager does its part. Faults, recoveries, signals, and the errors of
starting and stopping may happen or not: `Open` needs the device to be in order to succeed, and `DeviceRecovers` is not fair,
so `SilentHackRFRestarts` promises that it is opened again, not that this succeeds.

`ModesDecoder` has safety properties only and no fairness.

## 6. Proofs

`PipelineProofs` proves, for every ring size above zero, every set of lanes, every
positive pipe capacity (assumptions `NBlocksAssumption`, `NoBlockAssumption`,
`PipelineAssumption`; TLC evaluates them on every run):

* `TypeCorrect`: `Spec => []TypeOK`
* `Exclusive`: `Spec => []ExclusiveAccess`
* `StageOrder`: `Spec => []StagesInOrder`
* `Refinement`: `Spec => ImplementsBlockPool`

The inductive invariant is `IInv`, in `Pipeline`. `ExclusiveAccess` is
not inductive by itself: that `Fill` may take the block at the write pointer follows from the
flag seen in `probe`, and that follows only if *every* block in a pipe, in a hand or waiting
to be announced has its flag down (`FlagsProtect`). The release by the collector keeps that
only if the block is in no second place (`PlacesDistinct`). Between `probe` and `fill` the
knowledge has to survive the steps of all others: `SamplerApart` has it as
`NotInFlight(write_pointer)`, which is also why the leak of section 4 does no harm to
exclusive access: the sampler's late store can only lower a flag. `HandsFollowLoop`
ties a hand to the place in the loop, and `StageFollowsPlace` gives each place the stage
of the block there. Each conjunct is preserved per action; the facts about sequences
(what is in `Append` and `Tail`) are lemmas. A ring of one block satisfies the
theorems too, vacuously in part: the sampler then never fills a second block.

For the refinement each step of `Next` is mapped: `Fill` is `Acquire`, `SampleSend` is `Publish`,
`Finish` is `Release`, all else stutters, `StrayFinish` too, since the pool's state
has no flags.

### The other components

Each module has an inductive invariant of named parts, a lemma per part or per action that says it is kept, and the
theorems at its end. They hold for every value of the constants that meets the assumptions named in the modules,
which TLC evaluates on the instances; bounds such as `MaxSample`, `MaxPackets`, `MaxAdvance` are constants like others.

| Module | Theorems | Invariant, and why the property alone does not do |
|---|---|---|
| `SampleStoreProofs` | `TypeCorrect`, `NothingLost` (`NothingDropped`), `Whole` (`BlocksAreWhole`), `Tiles` (`SearchTilesTheStream`), `TimesRight` (`TimesAreOfFirstSamples`), `PrintedRight` (what holds of the printed time) | `Types`, `CurrentBlock`, `DriverTime`, `LastBlock`, `NothingDropped`. The windows join because the current block began with the overlap of the last one (`LastBlock`) and is consecutive (`CurrentBlock`). A time is early by at most one unit for each addition behind it: so of the block, of the driver's own count and of the block before. The bounds of `TypeOK` on times follow from that and are not inductive themselves. |
| `IntegrityTesterProofs` | `TypeCorrect`, `InOrder` (`PacketsInOrder`), `Stable` (`InputIsStable`), `Neighbours` (`ComparesNeighbours`) | `PlacesDistinct`, `SamplerApart`, `FlagsProtect`, as for the pipeline, and `Numbered`: the packets received, in the pipe, and with the sampler continue each other, wherever the sampler is. For `Neighbours` there is `InTurn`, on long rings: nothing is ever skipped, packet *n* lies in the block where it belongs, and so the block of the tester's last packet is the last one the sampler comes to again, with a full pipe before it. |
| `LifecycleProofs` | `TypeCorrect`, `Timely` (`WatchdogInTime`), `Accurate` (`NoFalseAlarm`) | `CopyTrails`: unless a block was skipped since the last turn, the pointer and the monitor's copy differ by what has been filled since, modulo the ring, so that with `MaxAdvance < NBlocks` equal means still; and a pointer that stands still has neither filled nor skipped. `CountIsRight`: the monitor's count lags the truth by one turn at most, and is ahead of it only after skipping. `WaitIsShort`, `PhasesAgree`: how much of the count each place of the receiver, and the wait before the start, can have brought about. |
| `ModesDecoderProofs` | `TypeCorrect`, `FileKnown` (`FileIsKnown`), `DataErrorsFixed` (`DataErrorsAreFixed`), `LearntDespiteErrors` and `Learnt` (`LearntIsReal`), `AcceptedDespiteErrors` and `Accepted` (`AcceptedAsSent`) | `StoreIsOfTable`: also the rows not yet committed are of the table. `AllIsReal`: also an address a lane is about to insert, and the rows on their way, are real. `PassedIsAccepted`: what passed the checksum in clear has been accepted. |
| `AlgoProofs` | `FoundOnce` (`PreambleFoundOnce`), `Survive` (`BitsSurviveOffset`), `Strongest` (`StrongestAreKept`, an action property) | `SearchTypes`, `SearchInHand`: the message and what has been found are such as the loops need. `SearchRecord`: at every point of the search, what has been found and reported so far is right, and the beginning is among it once its block is past. The work is in the loops: `SumRuns`, `GroupSum`, `BitsRead` follow `integrate_coherent_power` and `hard_demodulate_bits` group by group, `ThinningRuns` the thinning in any order `std::sort` may leave. |
| `RunningProofs` | `Wired` (`PipesAreWired`), `Shown` (`FlagsAreShown`) | `WiringTypes`: the links have methods and the sockets open are sockets. `Shown` takes `TypeOK` from `PipelineProofs`, because `RunningSpec` implements `Spec` (`RunsAsPipeline`). |

**The decoder.** A *syndrome* is what a message's checksum and its parity field differ by. `SyndromeSum` shows it to be linear: the syndrome of an
exclusive or is the exclusive or of the syndromes, because a bit of it is a count of ones modulo 2 (`OddSum`). `RemainderIs` shows by induction over the bits that
dividing by the standard's generator gives the same as adding up the words of `modes_checksum_table`; so a message as sent has the syndrome
nothing, or its hidden address (`SentIs`), and what arrives has that of its wrong bits added to it, whatever it says (`Arrives`). `fixSingleBitErrors` finds exactly
the bits whose power of x is the syndrome (`FixesAre`). Two facts about the numbers of the table are evaluated by TLC, as closed assumptions, and not proved:
each power is the one before times x (`TableAssumption`), and no two powers differ by nothing or by a third (`PowersAssumption`). So:

* `DataErrorsFixed` has no hypothesis. A single wrong bit in the data of a message in clear is the only fix, and accepted.
* `LearntDespiteErrors` assumes `FewErrors`: at most two bits arrive wrong, none of the type. Two are not taken for one, so that
  a message in clear that passes is the one sent, and teaches a real address.
* `AcceptedDespiteErrors` also assumes `AddressesApart`: one or two wrong bits do not make one aircraft's address of another's or of none. Without that a
  message with its address hidden may well be taken for another aircraft's; no code can tell. TLC finds it true of the two aircraft of `decoder`.

Wrong bits *in* the type change the length the message is taken to have and the way it is judged. For these, and for any other set of `Errors`,
there are `Learnt` and `Accepted`, with the hypotheses `ClearIsReal` and `DecodingIsRight`. They say of a *single* message, damaged
in one of the ways of `Errors`, with no state and no other lane about, that its decoding gives nothing wrong; for the messages and the errors of
the run `decoder` both hold. What all four add to a single message is that neither lanes that race on the table, nor lost insertions
and entries, nor aborts between any two rows, nor a restart with the file left behind can bring in a wrong address or a wrong message.
They need the invariant for the circle it excludes: a wrong address in the table would vouch for further messages.

**The search.** `FoundOnce` is for every rate of two or more samples in a half bit, as the code has it, every length and content of a message, every ratio `Snr`, and every
place where a message begins. An index of the window lies on a half bit of the message or between two. Between two half bits, where
the shape of a preamble seems to be there, the correlation rises to one side, and a sample there within the window of the peak
has more of it: so a peak is nowhere between (`PeakIsAligned`; half bits of 2 or 3 samples have no right side in the window, and go with the wiped ones: `Blurred`). On the half bits
the shape needs pulses of the preamble's own distances and gaps, which a message of the standard has at its beginning only: behind it every bit
has exactly one pulse in its two halves (`NoPreambleInside`, `AlignedIsStart`). The beginning itself passes every test (`StartPasses`), and is
found by the block in whose window it lies, with enough samples to either side (`BufferIsSignal`, `Correlates`). After a wipe, or with those few samples,
other samples pass too, but those near the beginning are weaker than it (`NearStart`), so the thinning
keeps it and none of them in its block (`StartIsKept`, from `Thinned`). `RecordStep` carries this over the blocks.

`Strongest` needs of the detections only that there are finitely many and no two at one sample (`NoiseAssumption`), which
is shown of those `detect_preamble` finds (`CandidatesFound`).

Induction. The theorems on induction in the library take an operator for the predicate, which the installed provers cannot
instantiate. `SetInduction` states it of a set instead, from the library's minimum of a well-founded
relation; each loop is then a set of those counts for which it has done what it should. So nothing here
rests on what a recursive function computes on small inputs only.

### Only model-checked

* Liveness (`EveryBlockReturns`, `SamplerReturns`, `StopDrains`, `StoreReturns`, `BothReturn`, `SilentHackRFRestarts`, `SignalEnds`): temporal
  reasoning under fairness needs `ENABLED`, which the prover does not have.
* The properties that are violated, of course.

## 7. Plan

1. *Done*: ring, sampler, pipeline, pool, their proofs; samples; integrity tester.
2. *Done*: `Lifecycle`.
3. *Done*: `ModeS` and `ModesDecoder`.
4. *Done*: `TimeSpec`, `Printer`, `Algo`, `MonitorBits`, `Wiring`, the histogram's thread in `IntegrityTester`.
5. *Done*: proofs of the safety of `Lifecycle`, `SampleStore`, `Printer`, `IntegrityTester`, `ModesDecoder`, `Algo`, `Wiring`, `MonitorBits`.
6. *Done*: that decoding is linear, which reduces the decoder's properties from messages to patterns of errors; `PreambleFoundOnce`.

Open: wrong bits in the type, for which the decoder's theorems have hypotheses, and liveness, which waits for a prover with `ENABLED`.

## 8. Not modelled

The FFT itself, conversion from the device's integers, phases and the rounding of floats are numerics; the strength
printed with a message is one too. Device configuration, the drawing of the histogram, the command lines and
the printer's other columns are input and output without a protocol. So is the reading of the configuration
(`confighelper.hpp`): it happens once, keeps nothing, and what it computes are texts and scale factors;
the values it yields are the constants of the modules. The read side of `RingBuffer` is unused, as are moves of
`RingBufferData`; the sum and the difference of two times serve the tester's comparison only.
A collector with a `push` socket that nobody reads waits in its send; the pipeline models the `pub` socket
of `conf/ssrx.yaml`. The C++ memory model is taken as sequentially consistent for the flags: each flag
is one atomic stored with release and read with acquire, and the blocks' contents
are handed on through the queues, which synchronise.
