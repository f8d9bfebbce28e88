------------------------------ MODULE Pipeline ------------------------------
(***************************************************************************)
(* SSRX (src/ssrx.hpp): the sampler, `nthreads' lanes of one correlator,   *)
(* one detector and one demodulator each, and one collector, which passes  *)
(* on the messages found in a block and sets the block writable again.     *)
(*                                                                         *)
(*   sampler -> <<1,l>> -> <<2,l>> -> <<3,l>> -> collector    (each lane l) *)
(*                                                                         *)
(* What travels is the index of a block, over ZeroMQ PUSH/PULL pipes in    *)
(* the process.  link[p] is the pipe that leads into p: one per worker,    *)
(* and one per lane into the collector (p = <<4,l>>).  A pipe is FIFO and  *)
(* takes Hwm messages; a send waits for room, and waits for ever when the  *)
(* thread at the other end has returned, because its socket went with it.  *)
(***************************************************************************)
EXTENDS Sampler, Sequences

CONSTANTS
    Lane,       \* the lanes: correlator.nthreads of them
    Hwm,        \* messages a pipe takes before a send waits
    Collector   \* the collector thread

Worker == (1 .. 3) \X Lane          \* 1 correlator, 2 detector, 3 demodulator
Pipe == (1 .. 4) \X Lane
Thread == Worker \cup {Collector}

ASSUME PipelineAssumption ==
    /\ Hwm \in Nat \ {0}
    /\ Collector \notin Worker

VARIABLES
    link,       \* [Pipe -> Seq(Block)]: the messages under way
    pc,         \* where each thread is in its loop
    hand,       \* the block each thread has got from a message, or NoBlock
    stage       \* how far the results stored in a block have got: 0 samples
                \* only, then 1, 2, 3 as each worker stage has run

vars == <<ringVars, samplerVars, link, pc, hand, stage>>
threadVars == <<link, pc, hand>>

ThreadPC == {"poll",    \* loop condition and the non-blocking receive
             "work",    \* has an index, processes the block
             "send",    \* passes the index (the collector: messages) on
            "stray",   \* processes a block no message has named
             "done"}    \* the thread function has returned

Init ==
    /\ RingInit
    /\ SamplerInit
    /\ link = [p \in Pipe |-> <<>>]
    /\ pc = [t \in Thread |-> "poll"]
    /\ hand = [t \in Thread |-> NoBlock]
    /\ stage = [b \in Block |-> 0]

\* Mutant: the correlators are connected to the collector's address.
OutPipeMiswired(w) == <<4, w[2]>>

OutPipe(w) == <<w[1] + 1, w[2]>>
Receiver(p) == IF p[1] = 4 THEN Collector ELSE p

\* A message can be put into pipe p.
HasRoom(p) == Len(link[p]) < Hwm /\ pc[Receiver(p)] # "done"

\* A thread that gets to the top of its loop.
LoopTop == IF running THEN "poll" ELSE "done"

-----------------------------------------------------------------------------
(* The sampler.                                                            *)

SamplerStep ==
    /\ \/ SamplerLocal /\ UNCHANGED stage
       \/ Fill /\ stage' = [stage EXCEPT ![write_pointer] = 0]
    /\ UNCHANGED threadVars

\* Mutant: the block just begun is announced, not the one before it.
SampleSendCurrent(l) ==
    /\ SendOk
    /\ HasRoom(<<1, l>>)
    /\ link' = [link EXCEPT ![<<1, l>>] = Append(@, packet)]
    /\ UNCHANGED <<pc, hand, stage>>

\* Mutant: the message is not handed to any lane.
SampleSendNowhere(l) ==
    /\ SendOk
    /\ HasRoom(<<1, l>>)
    /\ UNCHANGED <<threadVars, stage>>

\* Mutant: a PUB socket in the place of PUSH, every lane gets every block.
SampleSendToAll(l) ==
    /\ SendOk
    /\ HasRoom(<<1, l>>)
    /\ link' = [p \in Pipe |-> IF p[1] = 1 /\ HasRoom(p) THEN Append(link[p], previous)
                                                       ELSE link[p]]
    /\ UNCHANGED <<pc, hand, stage>>

\* PUSH distributes over the lanes that have room.
SampleSend(l) ==
    /\ SendOk
    /\ HasRoom(<<1, l>>)
    /\ link' = [link EXCEPT ![<<1, l>>] = Append(@, previous)]
    /\ UNCHANGED <<pc, hand, stage>>

\* Mutant: the sampler's socket has no sndtimeo.
SampleTimeoutNever == SendTimeout /\ FALSE /\ UNCHANGED <<threadVars, stage>>

SampleTimeout ==
    /\ \A l \in Lane : ~HasRoom(<<1, l>>)
    /\ SendTimeout
    /\ UNCHANGED <<threadVars, stage>>

Stop ==
    /\ RequestStop
    /\ UNCHANGED <<threadVars, stage>>

-----------------------------------------------------------------------------
(* The processing threads.                                                 *)

\* is_running() and a message was there.
Receive(t, p) ==
    /\ pc[t] = "poll" /\ running
    /\ link[p] # <<>>
    /\ hand' = [hand EXCEPT ![t] = Head(link[p])]
    /\ link' = [link EXCEPT ![p] = Tail(@)]
    /\ pc' = [pc EXCEPT ![t] = "work"]
    /\ UNCHANGED <<ringVars, samplerVars, stage>>

\* The stop comes between the loop condition and the inner is_running(): the
\* receive is skipped and iread is read from an empty message.
ReceiveNothing(t) ==
    /\ pc[t] = "poll" /\ ~running
    /\ pc' = [pc EXCEPT ![t] = "stray"]
    /\ UNCHANGED <<ringVars, samplerVars, link, hand, stage>>

\* Mutant: the loop condition is not looked at again.
StrayWorkAgain(w) ==
    /\ pc[w] = "stray"
    /\ \E b \in Block : stage' = [stage EXCEPT ![b] = w[1]]
    /\ pc' = [pc EXCEPT ![w] = "poll"]
    /\ UNCHANGED <<ringVars, samplerVars, link, hand>>

\* Its eight bytes are whatever they are; masked, they name some block, which the
\* thread processes as if it had been given it.
StrayWork(w) ==
    /\ pc[w] = "stray"
    /\ \E b \in Block : stage' = [stage EXCEPT ![b] = w[1]]
    /\ pc' = [pc EXCEPT ![w] = "done"]
    /\ UNCHANGED <<ringVars, samplerVars, link, hand>>

StrayFinish ==
    /\ pc[Collector] = "stray"
    /\ \E b \in Block : SetStateWritable(b)
    /\ pc' = [pc EXCEPT ![Collector] = "done"]
    /\ UNCHANGED <<write_pointer, samplerVars, link, hand, stage>>

LeaveLoop(t) ==
    /\ pc[t] = "poll" /\ ~running
    /\ pc' = [pc EXCEPT ![t] = "done"]
    /\ UNCHANGED <<ringVars, samplerVars, link, hand, stage>>

\* correlate, detect_preamble or demodulate, up to the is_running() that
\* decides whether the index is sent on.
Work(w) ==
    /\ pc[w] = "work"
    /\ stage' = [stage EXCEPT ![hand[w]] = w[1]]
    /\ pc' = [pc EXCEPT ![w] = IF running THEN "send" ELSE "done"]
    /\ UNCHANGED <<ringVars, samplerVars, link, hand>>

Send(w) ==
    /\ pc[w] = "send"
    /\ HasRoom(OutPipe(w))
    /\ link' = [link EXCEPT ![OutPipe(w)] = Append(@, hand[w])]
    /\ hand' = [hand EXCEPT ![w] = NoBlock]
    /\ pc' = [pc EXCEPT ![w] = LoopTop]
    /\ UNCHANGED <<ringVars, samplerVars, stage>>

\* The collector puts out the messages of the block; a PUB socket never waits.
Emit ==
    /\ pc[Collector] = "work" /\ running
    /\ pc' = [pc EXCEPT ![Collector] = "send"]
    /\ UNCHANGED <<ringVars, samplerVars, link, hand, stage>>

\* Mutant: the block is not set writable.
FinishForgotten ==
    /\ pc[Collector] \in {"work", "send"}
    /\ hand' = [hand EXCEPT ![Collector] = NoBlock]
    /\ pc' = [pc EXCEPT ![Collector] = LoopTop]
    /\ UNCHANGED <<ringVars, samplerVars, link, stage>>

\* All messages are out, or there were none, or is_running() kept them back:
\* in every case the block is set writable.
Finish ==
    /\ pc[Collector] \in {"work", "send"}
    /\ SetStateWritable(hand[Collector])
    /\ hand' = [hand EXCEPT ![Collector] = NoBlock]
    /\ pc' = [pc EXCEPT ![Collector] = LoopTop]
    /\ UNCHANGED <<write_pointer, samplerVars, link, stage>>

-----------------------------------------------------------------------------
WorkerStep(w) == Receive(w, w) \/ Work(w) \/ StrayWork(w) \/ Send(w)
CollectorStep == (\E l \in Lane : Receive(Collector, <<4, l>>)) \/ Emit \/ Finish \/ StrayFinish

Next ==
    \/ SamplerStep
    \/ \E l \in Lane : SampleSend(l)
    \/ SampleTimeout
    \/ Stop
    \/ \E w \in Worker : WorkerStep(w)
    \/ CollectorStep
    \/ \E t \in Thread : ReceiveNothing(t) \/ LeaveLoop(t)

Spec == Init /\ [][Next]_vars

\* The operating system runs every thread that can run, and ZeroMQ's PULL socket
\* takes from its pipes in turn, so the collector passes over no lane for ever.
\* Nothing is assumed of the device (Advance) or of a stop ever being asked for.
Fairness ==
    /\ WF_vars(SamplerStep /\ spc # "store")
    /\ WF_vars(SamplerStep /\ ~running)
    /\ WF_vars((\E l \in Lane : SampleSend(l)) \/ SampleTimeout)
    /\ \A w \in Worker : WF_vars(WorkerStep(w))
    /\ \A l \in Lane : SF_vars(Receive(Collector, <<4, l>>))
    /\ WF_vars(Emit \/ Finish \/ StrayFinish)
    /\ \A t \in Thread : WF_vars(ReceiveNothing(t) \/ LeaveLoop(t))

FairSpec == Spec /\ Fairness
-----------------------------------------------------------------------------
(* Where the blocks are.                                                   *)

Queued == {b \in Block : \E p \in Pipe : \E i \in 1 .. Len(link[p]) : link[p][i] = b}

Held == {b \in Block : \E t \in Thread : hand[t] = b}

InFlight == Queued \cup Held

-----------------------------------------------------------------------------
(* Properties.                                                             *)

TypeOK ==
    /\ SamplerTypeOK
    /\ link \in [Pipe -> Seq(Block)]
    /\ pc \in [Thread -> ThreadPC]
    /\ hand \in [Thread -> Block \cup {NoBlock}]
    /\ stage \in [Block -> 0 .. 3]

\* No block is used by two at a time: the one the sampler writes to and the one
\* it is about to announce are with no processing thread and in no pipe, and two
\* threads that got their blocks from messages have different blocks.  This is
\* what the `writable' flags are for; rb_data itself is not locked.
ExclusiveAccess ==
    /\ {packet, previous} \cap InFlight = {}
    /\ \A t, u \in Thread :
          t # u /\ hand[t] = hand[u] => hand[t] = NoBlock

\* A thread works on a block whose results are exactly those of the stages before
\* its own: no stage is left out, none is run twice on the same samples, and the
\* collector never sends the messages of an earlier lap of the ring.
StagesInOrder ==
    running =>
        /\ \A w \in Worker : pc[w] = "work" => stage[hand[w]] = w[1] - 1
        /\ pc[Collector] \in {"work", "send"} => stage[hand[Collector]] = 3

\* A block whose flag says "readable" is either about to be announced or in use
\* by the processing threads, so that somebody will set it writable again ("single
\* bit shows whether corresponding block of the ringbuffer is in write state (1)
\* or read state (0)", conf/ssrx.yaml:160).  The code does not keep this: see the
\* README on the store in `skip'.
ReadableIsInUse ==
    running => \A b \in Block : ~writable[b] => b \in InFlight \cup {previous}

\* The sampler, its queues and threads implement the block pool.
Pool == INSTANCE BlockPool WITH
    Blocks <- Block,
    Nothing <- NoBlock,
    current <- packet,
    full <- IF previous = packet THEN NoBlock ELSE previous,
    inflight <- InFlight

ImplementsBlockPool == Pool!PoolSpec

\* Every block announced to the correlators comes back to the ring, unless the
\* receiver is stopped.
EveryBlockReturns ==
    \A b \in Block : b \in InFlight ~> (writable[b] \/ ~running)

\* After a stop the sampler gives up, whatever became of the threads it feeds.
SamplerReturns == ~running ~> spc = "done"

\* After a stop every processing thread returns, except those that wait in a send
\* no one will ever take.
StopDrains ==
    ~running ~> [](/\ pc[Collector] = "done"
                   /\ \A w \in Worker :
                         pc[w] = "done" \/ (pc[w] = "send" /\ ~HasRoom(OutPipe(w))))

\* "Stop sampling and all other threads." (sdr.hpp:525): every thread returns, so
\* that the joins of stop() do.  The code does not keep this.
StopStopsAllThreads == ~running ~> \A t \in Thread : pc[t] = "done"
-----------------------------------------------------------------------------
(* The inductive invariant behind TypeOK, ExclusiveAccess, StagesInOrder and *)
(* ImplementsBlockPool; PipelineProofs proves it, TLC checks it.             *)

\* No block is in two places of the pipes, or in a pipe and in a hand, or in two
\* hands.
PlacesDistinct ==
    /\ \A p, q \in Pipe : \A i \in 1 .. Len(link[p]), j \in 1 .. Len(link[q]) :
          link[p][i] = link[q][j] => p = q /\ i = j
    /\ \A p \in Pipe : \A i \in 1 .. Len(link[p]) : \A t \in Thread :
          link[p][i] # hand[t]
    /\ \A t, u \in Thread : t # u /\ hand[t] = hand[u] => hand[t] = NoBlock

\* Block b is in no pipe and in no hand.
NotInFlight(b) ==
    /\ \A p \in Pipe : \A i \in 1 .. Len(link[p]) : link[p][i] # b
    /\ \A t \in Thread : hand[t] # b

\* What the sampler has is not in flight, and each place in store() determines
\* how packet, previous and the write pointer are related.
SamplerApart ==
    /\ NotInFlight(packet)
    /\ previous # NoBlock => NotInFlight(previous)
    /\ spc = "store" => previous = NoBlock /\ write_pointer = packet
    /\ spc \in {"probe", "skip", "fill"} => previous = packet
    /\ spc = "fill" => write_pointer # packet /\ NotInFlight(write_pointer)
    /\ spc = "send" =>
          /\ previous \notin {NoBlock, packet}
          /\ write_pointer = packet

\* While the receiver runs, a block in use is never flagged writable.
FlagsProtect ==
    running =>
        /\ \A p \in Pipe : \A i \in 1 .. Len(link[p]) : ~writable[link[p][i]]
        /\ \A t \in Thread : hand[t] # NoBlock => ~writable[hand[t]]
        /\ previous # NoBlock => ~writable[previous]

HandsFollowLoop ==
    \A t \in Thread :
        /\ pc[t] = "poll" => hand[t] = NoBlock
        /\ pc[t] \in {"work", "send"} => hand[t] # NoBlock
        /\ pc[t] = "stray" => ~running

\* How far the results in a block have got, by where the block is.
StageFollowsPlace ==
    running =>
        /\ stage[packet] = 0
        /\ previous # NoBlock => stage[previous] = 0
        /\ \A p \in Pipe : \A i \in 1 .. Len(link[p]) : stage[link[p][i]] = p[1] - 1
        /\ \A w \in Worker :
              /\ pc[w] = "work" => stage[hand[w]] = w[1] - 1
              /\ pc[w] = "send" => stage[hand[w]] = w[1]
        /\ pc[Collector] \in {"work", "send"} => stage[hand[Collector]] = 3

IInv ==
    /\ TypeOK
    /\ PlacesDistinct
    /\ SamplerApart
    /\ FlagsProtect
    /\ HandsFollowLoop
    /\ StageFollowsPlace
=============================================================================
