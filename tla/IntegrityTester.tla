--------------------------- MODULE IntegrityTester ---------------------------
(***************************************************************************)
(* The modes with a single consumer of the sampler.                        *)
(*                                                                         *)
(* SDR::start_integrity_tester (sdr.hpp:761-835), --test-integrity: for    *)
(* every block announced the tester compares the beginning of the block    *)
(* with the end of the block before, to which it keeps the pointer         *)
(* packet_prev, and then sets the block writable.                          *)
(*                                                                         *)
(* SDR::start_amphist (sdr.hpp:837-872), --amphist: a histogram is drawn   *)
(* of every block, until a key is pressed; that ends the receiver too.     *)
(*                                                                         *)
(* What they tell apart is which packet of the stream a block holds:       *)
(* content[b] is the number of that packet.                                *)
(***************************************************************************)
EXTENDS Sampler, Sequences

CONSTANTS
    Hwms,           \* numbers of messages that the pipe from the sampler may take
    MaxPackets      \* bound: packets the sampler begins

ASSUME TesterAssumption == Hwms \subseteq Nat \ {0} /\ MaxPackets \in Nat \ {0}

VARIABLES
    content,        \* the packet in each block, 0 if none yet
    consumer,       \* which of the two it is
    hwm,            \* what the pipe takes: a size of libzmq's that the program leaves alone
    chan,           \* announced blocks the consumer has not received
    tpc,            \* where the consumer is in its loop
    input,          \* the block received
    packet_prev,    \* the block received before it
    received        \* history: the packets received, in order

testerVars == <<consumer, hwm, chan, tpc, input, packet_prev, received>>
vars == <<ringVars, samplerVars, content, testerVars>>

TesterPC == {"receive", "compare", "release", "done"}

Init ==
    /\ RingInit
    /\ SamplerInit
    /\ content = [b \in Block |-> IF b = 0 THEN 1 ELSE 0]
    /\ consumer \in {"tester", "amphist"}
    /\ hwm \in Hwms
    /\ chan = <<>>
    /\ tpc = "receive"
    /\ input = NoBlock
    /\ packet_prev = NoBlock
    /\ received = <<>>

-----------------------------------------------------------------------------
(* The sampler: the packet it begins in a block is the next one.           *)

SamplerStep ==
    /\ \/ SamplerLocal /\ UNCHANGED content
       \/ /\ Fill
          /\ content[packet] < MaxPackets
          /\ content' = [content EXCEPT ![write_pointer] = content[packet] + 1]
    /\ UNCHANGED testerVars

HasRoom == Len(chan) < hwm /\ tpc # "done"

\* Mutant: the block just begun is announced, not the one before it.
SampleSendCurrent ==
    /\ SendOk
    /\ HasRoom
    /\ chan' = Append(chan, packet)
    /\ UNCHANGED <<content, consumer, hwm, tpc, input, packet_prev, received>>

SampleSend ==
    /\ SendOk
    /\ HasRoom
    /\ chan' = Append(chan, previous)
    /\ UNCHANGED <<content, consumer, hwm, tpc, input, packet_prev, received>>

SampleTimeout ==
    /\ ~HasRoom
    /\ SendTimeout
    /\ UNCHANGED <<content, testerVars>>

Stop == RequestStop /\ UNCHANGED <<content, testerVars>>

-----------------------------------------------------------------------------
(* The consumer.                                                           *)

\* recv with a timeout of 100 ms; without a message the loop goes round.
Receive ==
    /\ tpc = "receive"
    /\ chan # <<>>
    /\ input' = Head(chan)
    /\ chan' = Tail(chan)
    /\ received' = Append(received, content[Head(chan)])
    /\ tpc' = "compare"
    /\ UNCHANGED <<ringVars, samplerVars, content, consumer, hwm, packet_prev>>

\* Mutant: packet_prev is set when a block is received, and never after.
CompareWithFirst ==
    /\ tpc = "compare" /\ consumer = "tester"
    /\ packet_prev' = IF packet_prev = NoBlock THEN input ELSE packet_prev
    /\ tpc' = "release"
    /\ UNCHANGED <<ringVars, samplerVars, content, consumer, hwm, chan, input, received>>

\* The asserts and the comparison of the times; the first packet has none before it.
\* That a comparison fails, which ends the process, is not modelled as a step:
\* ComparesNeighbours says whether there is anything to fail.
Compare ==
    /\ tpc = "compare" /\ consumer = "tester"
    /\ packet_prev' = input
    /\ tpc' = "release"
    /\ UNCHANGED <<ringVars, samplerVars, content, consumer, hwm, chan, input, received>>

\* The histogram of this block is drawn.
Draw ==
    /\ tpc = "compare" /\ consumer = "amphist"
    /\ tpc' = "release"
    /\ UNCHANGED <<ringVars, samplerVars, content, consumer, hwm, chan, input, packet_prev, received>>

\* It was, and a key had been pressed: the thread leaves its loop with the block.
Quit ==
    /\ tpc = "compare" /\ consumer = "amphist"
    /\ running' = FALSE
    /\ tpc' = "done"
    /\ UNCHANGED <<ringVars, spc, packet, previous, content,
                   consumer, hwm, chan, input, packet_prev, received>>

\* Finish this buffer.
Release ==
    /\ tpc = "release"
    /\ SetStateWritable(input)
    /\ tpc' = IF running THEN "receive" ELSE "done"
    /\ UNCHANGED <<write_pointer, samplerVars, content, consumer, hwm, chan, input, packet_prev, received>>

\* Mutant: the socket has no rcvtimeo, the thread waits for a message.
LeaveLoopWithMessage ==
    /\ tpc = "receive" /\ ~running
    /\ chan # <<>>
    /\ tpc' = "done"
    /\ UNCHANGED <<ringVars, samplerVars, content, consumer, hwm, chan, input, packet_prev, received>>

LeaveLoop ==
    /\ tpc = "receive" /\ ~running
    /\ tpc' = "done"
    /\ UNCHANGED <<ringVars, samplerVars, content, consumer, hwm, chan, input, packet_prev, received>>

Next ==
    \/ SamplerStep \/ SampleSend \/ SampleTimeout \/ Stop
    \/ Receive \/ Compare \/ Draw \/ Quit \/ Release \/ LeaveLoop

Spec == Init /\ [][Next]_vars

\* The threads run; once the receiver is asked to stop, they get to see it.
FairSpec ==
    /\ Spec
    /\ WF_vars(SampleSend \/ SampleTimeout)
    /\ WF_vars(SamplerStep /\ ~running)
    /\ WF_vars(Receive \/ Compare \/ Draw \/ Release \/ LeaveLoop)

-----------------------------------------------------------------------------

TypeOK ==
    /\ SamplerTypeOK
    /\ content \in [Block -> 0 .. MaxPackets]
    /\ consumer \in {"tester", "amphist"}
    /\ hwm \in Hwms
    /\ chan \in Seq(Block) /\ Len(chan) <= hwm
    /\ tpc \in TesterPC
    /\ {input, packet_prev} \subseteq Block \cup {NoBlock}

\* With a single consumer the packets arrive complete and in the order of the
\* stream: none is left out, repeated, or replaced in its block before the consumer
\* has it, however the sampler skips about the ring.
PacketsInOrder == \A i \in 1 .. Len(received) : received[i] = i

\* The block at hand is not written to between its receipt and its release.
InputIsStable ==
    tpc \in {"compare", "release"} => content[input] = received[Len(received)]

\* "following overlapped elements are equal to the last same number of samples in the
\* previous packet" (sdr.hpp:803): when the comparison is made, packet_prev holds the
\* packet before the one in input.  The tester has set packet_prev writable before, and
\* only the length of the ring keeps the sampler from having taken it again: the ring
\* has to hold more than three blocks beyond those that the pipe takes.
ComparesNeighbours ==
    NBlocks > hwm + 3 /\ tpc = "compare" /\ packet_prev # NoBlock =>
        content[packet_prev] = content[input] - 1

\* After a stop both threads return, whoever asked for it and in every order in which
\* they see it: these modes have no send that waits without a limit.
BothReturn == ~running ~> spc = "done" /\ tpc = "done"
=============================================================================
