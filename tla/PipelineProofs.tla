--------------------------- MODULE PipelineProofs ---------------------------
(***************************************************************************)
(* Proofs about Pipeline for every ring size, every set of lanes and every *)
(* pipe capacity: type correctness, exclusive access to the blocks, the    *)
(* order of the stages, and that the pipeline implements BlockPool.        *)
(***************************************************************************)
EXTENDS Pipeline, TLAPS

USE NBlocksAssumption, NoBlockAssumption, PipelineAssumption

-----------------------------------------------------------------------------
(* Lemmas about the operators the model is built from.                     *)

\* The ring closes: the successor of a block is a block
\* (write_pointer_ &= size() - 1, ringbuffer.hpp:102).
LEMMA NextBlockInBlock == \A b \in Block : NextBlock(b) \in Block
  BY DEF Block, NextBlock

\* Sending puts one message behind those already in the pipe.
LEMMA AppendOne ==
  ASSUME NEW S, NEW s \in Seq(S), NEW x \in S
  PROVE  /\ Append(s, x) \in Seq(S)
         /\ Len(Append(s, x)) = Len(s) + 1
         /\ \A i \in 1 .. Len(s) : Append(s, x)[i] = s[i]
         /\ Append(s, x)[Len(s) + 1] = x
  OBVIOUS

\* Receiving takes the first message and moves the others up by one.
LEMMA TakeOne ==
  ASSUME NEW S, NEW s \in Seq(S), s # <<>>
  PROVE  /\ Head(s) \in S
         /\ Len(s) \in Nat \ {0}
         /\ Head(s) = s[1]
         /\ Tail(s) \in Seq(S)
         /\ Len(Tail(s)) = Len(s) - 1
         /\ \A i \in 1 .. Len(Tail(s)) : Tail(s)[i] = s[i + 1]
  OBVIOUS

\* Every thread sends into a pipe and receives from one.
LEMMA PipeEnds ==
  /\ \A w \in Worker : w \in Pipe /\ w \in Thread /\ OutPipe(w) \in Pipe
                       /\ w[1] \in 1 .. 3 /\ OutPipe(w)[1] = w[1] + 1
                       /\ OutPipe(w)[2] = w[2] /\ w[2] \in Lane
  /\ \A l \in Lane : <<1, l>> \in Pipe /\ <<4, l>> \in Pipe
  /\ Collector \in Thread /\ Collector \notin Worker
  BY DEF Worker, Pipe, Thread, OutPipe

\* After a send, each place of the pipes holds what it held, or it is the new
\* last place of the pipe sent to.
LEMMA SendEffect ==
  ASSUME link \in [Pipe -> Seq(Block)], NEW p0 \in Pipe, NEW b \in Block,
         link' = [link EXCEPT ![p0] = Append(@, b)]
  PROVE  \A p \in Pipe : \A i \in 1 .. Len(link'[p]) :
            \/ i \in 1 .. Len(link[p]) /\ link'[p][i] = link[p][i]
            \/ p = p0 /\ i = Len(link[p0]) + 1 /\ link'[p][i] = b
<1> SUFFICES ASSUME NEW p \in Pipe, NEW i \in 1 .. Len(link'[p])
             PROVE  \/ i \in 1 .. Len(link[p]) /\ link'[p][i] = link[p][i]
                    \/ p = p0 /\ i = Len(link[p0]) + 1 /\ link'[p][i] = b
  OBVIOUS
<1>1. CASE p # p0
  BY <1>1
<1>2. CASE p = p0
  <2>1. link[p0] \in Seq(Block) /\ link'[p] = Append(link[p0], b)
    BY <1>2
  <2> QED
    BY <1>2, <2>1, AppendOne
<1> QED
  BY <1>1, <1>2

\* After a receive, the message taken was the first of its pipe, and each place
\* holds what it held, or what was one place further back.
LEMMA ReceiveEffect ==
  ASSUME link \in [Pipe -> Seq(Block)], NEW p0 \in Pipe, link[p0] # <<>>,
         link' = [link EXCEPT ![p0] = Tail(@)]
  PROVE  /\ Head(link[p0]) \in Block
         /\ 1 \in 1 .. Len(link[p0]) /\ Head(link[p0]) = link[p0][1]
         /\ \A p \in Pipe : \A i \in 1 .. Len(link'[p]) :
              \/ p # p0 /\ i \in 1 .. Len(link[p]) /\ link'[p][i] = link[p][i]
              \/ p = p0 /\ i + 1 \in 1 .. Len(link[p]) /\ link'[p][i] = link[p][i + 1]
<1>1. link[p0] \in Seq(Block)
  OBVIOUS
<1>2. /\ Head(link[p0]) \in Block
      /\ Len(link[p0]) \in Nat \ {0}
      /\ Head(link[p0]) = link[p0][1]
      /\ Len(Tail(link[p0])) = Len(link[p0]) - 1
      /\ \A i \in 1 .. Len(Tail(link[p0])) : Tail(link[p0])[i] = link[p0][i + 1]
  BY <1>1, TakeOne
<1>3. 1 \in 1 .. Len(link[p0])
  BY <1>2
<1>4. ASSUME NEW p \in Pipe, NEW i \in 1 .. Len(link'[p])
      PROVE  \/ p # p0 /\ i \in 1 .. Len(link[p]) /\ link'[p][i] = link[p][i]
             \/ p = p0 /\ i + 1 \in 1 .. Len(link[p]) /\ link'[p][i] = link[p][i + 1]
  <2>1. CASE p # p0
    BY <2>1
  <2>2. CASE p = p0
    <3>1. link'[p] = Tail(link[p0])
      BY <2>2
    <3> QED
      BY <1>2, <2>2, <3>1
  <2> QED
    BY <2>1, <2>2
<1> QED
  BY <1>2, <1>3, <1>4

-----------------------------------------------------------------------------
(* Type correctness.                                                       *)

LEMMA InitTypeOK == Init => TypeOK
  BY DEF Init, RingInit, SamplerInit, TypeOK, SamplerTypeOK, RingTypeOK, SamplerPC,
         ThreadPC, Block

LEMMA StepTypeOK == IInv /\ [Next]_vars => TypeOK'
<1> SUFFICES ASSUME TypeOK, SamplerApart, HandsFollowLoop, [Next]_vars PROVE TypeOK'
  BY DEF IInv
<1> USE PipeEnds DEF TypeOK, SamplerTypeOK, RingTypeOK
<1>1. CASE SamplerStep
  <2> USE <1>1 DEF SamplerStep, threadVars, ringVars
  <2>1. stage' \in [Block -> 0 .. 3]
    OBVIOUS
  <2>2. CASE Advance
    BY <2>1, <2>2, NextBlockInBlock DEF Advance, AdvanceWritePointer, SetStateReadable, SamplerPC
  <2>3. CASE Probe
    BY <2>1, <2>3 DEF Probe, SamplerPC
  <2>4. CASE Skip
    BY <2>1, <2>4, NextBlockInBlock DEF Skip, AdvanceWritePointer, SetStateReadable, SamplerPC
  <2>5. CASE Fill
    BY <2>1, <2>5 DEF Fill, SamplerPC
  <2>6. CASE ReturnNull
    BY <2>1, <2>6 DEF ReturnNull, SamplerPC
  <2> QED
    BY <2>2, <2>3, <2>4, <2>5, <2>6 DEF SamplerLocal
<1>2. ASSUME NEW l \in Lane, SampleSend(l) PROVE TypeOK'
  <2> USE <1>2 DEF SampleSend, SendOk, ringVars
  <2>1. previous \in Block
    BY DEF SamplerApart
  <2>2. <<1, l>> \in Pipe
    BY PipeEnds
  <2>3. link[<<1, l>>] \in Seq(Block)
    BY <2>2
  <2>4. Append(link[<<1, l>>], previous) \in Seq(Block)
    BY <2>1, <2>3, AppendOne
  <2>5. link' \in [Pipe -> Seq(Block)]
    BY <2>2, <2>4
  <2> QED
    BY <2>5 DEF SamplerPC
<1>3. CASE SampleTimeout
  BY <1>3 DEF SampleTimeout, SendTimeout, threadVars, ringVars, SamplerPC
<1>4. CASE Stop
  BY <1>4 DEF Stop, RequestStop, threadVars, ringVars
<1>5. ASSUME NEW t \in Thread, NEW p \in Pipe, Receive(t, p) PROVE TypeOK'
  <2>1. link[p] \in Seq(Block) /\ link[p] # <<>>
    BY <1>5 DEF Receive
  <2>2. Head(link[p]) \in Block /\ Tail(link[p]) \in Seq(Block)
    BY <2>1, TakeOne
  <2> QED
    BY <1>5, <2>2 DEF Receive, ringVars, samplerVars, ThreadPC
<1>6. ASSUME NEW w \in Worker, Work(w) PROVE TypeOK'
  <2>1. w[1] \in 0 .. 3
    BY PipeEnds
  <2> QED
    BY <1>6, <2>1 DEF Work, ringVars, samplerVars, ThreadPC
<1>7. ASSUME NEW w \in Worker, StrayWork(w) PROVE TypeOK'
  BY <1>7 DEF StrayWork, ringVars, samplerVars, ThreadPC
<1>8. ASSUME NEW w \in Worker, Send(w) PROVE TypeOK'
  <2>1. hand[w] \in Block
    BY <1>8 DEF Send, HandsFollowLoop
  <2>2. OutPipe(w) \in Pipe /\ Append(link[OutPipe(w)], hand[w]) \in Seq(Block)
    BY <2>1, AppendOne
  <2> QED
    BY <1>8, <2>2 DEF Send, ringVars, samplerVars, ThreadPC, LoopTop
<1>9. CASE Emit
  BY <1>9 DEF Emit, ringVars, samplerVars, ThreadPC
<1>10. CASE Finish
  BY <1>10 DEF Finish, SetStateWritable, ringVars, samplerVars, ThreadPC, LoopTop
<1>11. CASE StrayFinish
  BY <1>11 DEF StrayFinish, SetStateWritable, ringVars, samplerVars, ThreadPC
<1>12. ASSUME NEW t \in Thread, ReceiveNothing(t) PROVE TypeOK'
  BY <1>12 DEF ReceiveNothing, ringVars, samplerVars, ThreadPC
<1>13. ASSUME NEW t \in Thread, LeaveLoop(t) PROVE TypeOK'
  BY <1>13 DEF LeaveLoop, ringVars, samplerVars, ThreadPC
<1>14. CASE UNCHANGED vars
  BY <1>14 DEF vars, ringVars, samplerVars
<1> QED
  BY <1>1, <1>2, <1>3, <1>4, <1>5, <1>6, <1>7, <1>8, <1>9, <1>10, <1>11, <1>12, <1>13, <1>14
     DEF Next, WorkerStep, CollectorStep
-----------------------------------------------------------------------------
(* No block is in two places.                                              *)

\* A block that was in no pipe is, after it has been sent, in one place of one.
LEMMA SendKeepsPipesDistinct ==
  ASSUME link \in [Pipe -> Seq(Block)], NEW p0 \in Pipe, NEW b \in Block,
         link' = [link EXCEPT ![p0] = Append(@, b)],
         \A p \in Pipe : \A i \in 1 .. Len(link[p]) : link[p][i] # b,
         \A p, q \in Pipe : \A i \in 1 .. Len(link[p]), j \in 1 .. Len(link[q]) :
            link[p][i] = link[q][j] => p = q /\ i = j
  PROVE  \A p, q \in Pipe : \A i \in 1 .. Len(link'[p]), j \in 1 .. Len(link'[q]) :
            link'[p][i] = link'[q][j] => p = q /\ i = j
<1> SUFFICES ASSUME NEW p \in Pipe, NEW q \in Pipe,
                    NEW i \in 1 .. Len(link'[p]), NEW j \in 1 .. Len(link'[q]),
                    link'[p][i] = link'[q][j]
             PROVE  p = q /\ i = j
  OBVIOUS
<1>1. \/ i \in 1 .. Len(link[p]) /\ link'[p][i] = link[p][i]
      \/ p = p0 /\ i = Len(link[p0]) + 1 /\ link'[p][i] = b
  BY SendEffect
<1>2. \/ j \in 1 .. Len(link[q]) /\ link'[q][j] = link[q][j]
      \/ q = p0 /\ j = Len(link[p0]) + 1 /\ link'[q][j] = b
  BY SendEffect
<1> QED
  BY <1>1, <1>2

LEMMA StepPlacesDistinct == IInv /\ [Next]_vars => PlacesDistinct'
<1> SUFFICES ASSUME IInv, [Next]_vars PROVE PlacesDistinct'
  OBVIOUS
<1> USE DEF IInv, TypeOK, SamplerTypeOK, PlacesDistinct
<1>1. ASSUME UNCHANGED <<link, hand>> PROVE PlacesDistinct'
  BY <1>1
<1>2. ASSUME NEW l \in Lane, SampleSend(l) PROVE PlacesDistinct'
  <2>1. PICK p0 \in Pipe : link' = [link EXCEPT ![p0] = Append(@, previous)]
    BY <1>2, PipeEnds DEF SampleSend
  <2>2. previous \in Block /\ NotInFlight(previous) /\ hand' = hand
    BY <1>2 DEF SampleSend, SendOk, SamplerApart
  <2>3. \A p \in Pipe : \A i \in 1 .. Len(link'[p]) :
           \/ i \in 1 .. Len(link[p]) /\ link'[p][i] = link[p][i]
           \/ p = p0 /\ i = Len(link[p0]) + 1 /\ link'[p][i] = previous
    BY <2>1, <2>2, SendEffect
  <2>4. \A p, q \in Pipe : \A i \in 1 .. Len(link'[p]), j \in 1 .. Len(link'[q]) :
           link'[p][i] = link'[q][j] => p = q /\ i = j
    <3>1. \A p \in Pipe : \A i \in 1 .. Len(link[p]) : link[p][i] # previous
      BY <2>2 DEF NotInFlight
    <3> QED
      BY <2>1, <2>2, <3>1, SendKeepsPipesDistinct
  <2>5. ASSUME NEW p \in Pipe, NEW i \in 1 .. Len(link'[p]), NEW t \in Thread
        PROVE  link'[p][i] # hand'[t]
    <3>1. CASE i \in 1 .. Len(link[p]) /\ link'[p][i] = link[p][i]
      BY <2>2, <3>1
    <3>2. CASE link'[p][i] = previous
      BY <2>2, <3>2 DEF NotInFlight
    <3> QED
      BY <2>3, <3>1, <3>2
  <2> QED
    BY <2>2, <2>4, <2>5
<1>3. ASSUME NEW t \in Thread, NEW p0 \in Pipe, Receive(t, p0) PROVE PlacesDistinct'
  <2>1. /\ link[p0] # <<>>
        /\ link' = [link EXCEPT ![p0] = Tail(@)]
        /\ hand' = [hand EXCEPT ![t] = Head(link[p0])]
    BY <1>3 DEF Receive
  <2>2. /\ Head(link[p0]) \in Block
        /\ 1 \in 1 .. Len(link[p0]) /\ Head(link[p0]) = link[p0][1]
        /\ \A p \in Pipe : \A i \in 1 .. Len(link'[p]) :
              \/ p # p0 /\ i \in 1 .. Len(link[p]) /\ link'[p][i] = link[p][i]
              \/ p = p0 /\ i + 1 \in 1 .. Len(link[p]) /\ link'[p][i] = link[p][i + 1]
    BY <2>1, ReceiveEffect
  <2>3. \A p, q \in Pipe : \A i \in 1 .. Len(link'[p]), j \in 1 .. Len(link'[q]) :
           link'[p][i] = link'[q][j] => p = q /\ i = j
    BY <2>2
  <2>4. \A p \in Pipe : \A i \in 1 .. Len(link'[p]) : link'[p][i] # link[p0][1]
    BY <2>2
  <2>5. \A u \in Thread : hand'[u] = IF u = t THEN link[p0][1] ELSE hand[u]
    BY <2>1, <2>2
  <2>6. \A p \in Pipe : \A i \in 1 .. Len(link'[p]) : \A u \in Thread :
           link'[p][i] # hand'[u]
    <3> SUFFICES ASSUME NEW p \in Pipe, NEW i \in 1 .. Len(link'[p]), NEW u \in Thread
                 PROVE  link'[p][i] # hand'[u]
      OBVIOUS
    <3>1. CASE u = t
      BY <2>4, <2>5, <3>1
    <3>2. CASE u # t
      <4>1. PICK j \in 1 .. Len(link[p]) : link'[p][i] = link[p][j]
        BY <2>2
      <4> QED
        BY <2>5, <3>2, <4>1
    <3> QED
      BY <3>1, <3>2
  <2>7. \A u, v \in Thread : u # v /\ hand'[u] = hand'[v] => hand'[u] = NoBlock
    <3>1. \A u \in Thread : hand[u] # link[p0][1]
      BY <2>2
    <3> QED
      BY <2>5, <3>1
  <2> QED
    BY <2>3, <2>6, <2>7
<1>4. ASSUME NEW w \in Worker, Send(w) PROVE PlacesDistinct'
  <2>1. PICK p0 \in Pipe : link' = [link EXCEPT ![p0] = Append(@, hand[w])]
    BY <1>4, PipeEnds DEF Send
  <2>2. w \in Thread /\ hand[w] \in Block
    BY <1>4, PipeEnds DEF Send, HandsFollowLoop
  <2>3. \A t \in Thread : hand'[t] = IF t = w THEN NoBlock ELSE hand[t]
    BY <1>4, <2>2 DEF Send
  <2>4. \A p \in Pipe : \A i \in 1 .. Len(link'[p]) :
           \/ i \in 1 .. Len(link[p]) /\ link'[p][i] = link[p][i]
           \/ p = p0 /\ i = Len(link[p0]) + 1 /\ link'[p][i] = hand[w]
    BY <2>1, <2>2, SendEffect
  <2>5. \A p, q \in Pipe : \A i \in 1 .. Len(link'[p]), j \in 1 .. Len(link'[q]) :
           link'[p][i] = link'[q][j] => p = q /\ i = j
    BY <2>1, <2>2, SendKeepsPipesDistinct
  <2>6. ASSUME NEW p \in Pipe, NEW i \in 1 .. Len(link'[p]), NEW t \in Thread
        PROVE  link'[p][i] # hand'[t]
    <3>1. CASE i \in 1 .. Len(link[p]) /\ link'[p][i] = link[p][i]
      <4>1. link[p][i] \in Block /\ link[p][i] # hand[t]
        BY <3>1
      <4> QED
        BY <2>3, <3>1, <4>1
    <3>2. CASE link'[p][i] = hand[w]
      BY <2>2, <2>3, <3>2
    <3> QED
      BY <2>4, <3>1, <3>2
  <2>7. \A t, u \in Thread : t # u /\ hand'[t] = hand'[u] => hand'[t] = NoBlock
    BY <2>2, <2>3
  <2> QED
    BY <2>5, <2>6, <2>7
<1>5. CASE Finish
  <2>1. link' = link
    BY <1>5 DEF Finish
  <2>2. \A t \in Thread : hand'[t] = IF t = Collector THEN NoBlock ELSE hand[t]
    BY <1>5, PipeEnds DEF Finish
  <2>3. \A p \in Pipe : \A i \in 1 .. Len(link[p]) : link[p][i] \in Block
    OBVIOUS
  <2>4. ASSUME NEW p \in Pipe, NEW i \in 1 .. Len(link[p]), NEW t \in Thread
        PROVE  link[p][i] # hand'[t]
    BY <2>2, <2>3
  <2>5. \A t, u \in Thread : t # u /\ hand'[t] = hand'[u] => hand'[t] = NoBlock
    BY <2>2
  <2> QED
    BY <2>1, <2>4, <2>5
<1> QED
  BY <1>1, <1>2, <1>3, <1>4, <1>5, PipeEnds
     DEF Next, WorkerStep, CollectorStep, SamplerStep, SampleTimeout, Stop, Work, StrayWork,
         Emit, StrayFinish, ReceiveNothing, LeaveLoop, threadVars, vars
-----------------------------------------------------------------------------
(* What the sampler has stays with the sampler.                            *)

\* Only the sampler puts blocks in flight, and only the one it announces.
LEMMA StaysOut ==
  ASSUME IInv, [Next]_vars, NEW b \in Block, NotInFlight(b),
         \A l \in Lane : SampleSend(l) => b # previous
  PROVE  NotInFlight(b)'
<1> USE DEF IInv, TypeOK, SamplerTypeOK
<1>1. /\ \A p \in Pipe : \A i \in 1 .. Len(link[p]) : link[p][i] # b
      /\ \A t \in Thread : hand[t] # b
  BY DEF NotInFlight
<1>2. ASSUME UNCHANGED <<link, hand>> PROVE NotInFlight(b)'
  BY <1>1, <1>2 DEF NotInFlight
<1>3. ASSUME NEW l \in Lane, SampleSend(l) PROVE NotInFlight(b)'
  <2>1. PICK p0 \in Pipe : link' = [link EXCEPT ![p0] = Append(@, previous)]
    BY <1>3, PipeEnds DEF SampleSend
  <2>2. previous \in Block /\ hand' = hand /\ b # previous
    BY <1>3 DEF SampleSend, SendOk, SamplerApart
  <2>3. \A p \in Pipe : \A i \in 1 .. Len(link'[p]) :
           \/ i \in 1 .. Len(link[p]) /\ link'[p][i] = link[p][i]
           \/ p = p0 /\ i = Len(link[p0]) + 1 /\ link'[p][i] = previous
    BY <2>1, <2>2, SendEffect
  <2>4. \A p \in Pipe : \A i \in 1 .. Len(link'[p]) : link'[p][i] # b
    BY <1>1, <2>2, <2>3
  <2> QED
    BY <1>1, <2>2, <2>4 DEF NotInFlight
<1>4. ASSUME NEW t \in Thread, NEW p0 \in Pipe, Receive(t, p0) PROVE NotInFlight(b)'
  <2>1. /\ link[p0] # <<>>
        /\ link' = [link EXCEPT ![p0] = Tail(@)]
        /\ hand' = [hand EXCEPT ![t] = Head(link[p0])]
    BY <1>4 DEF Receive
  <2>2. /\ Head(link[p0]) \in Block
        /\ 1 \in 1 .. Len(link[p0]) /\ Head(link[p0]) = link[p0][1]
        /\ \A p \in Pipe : \A i \in 1 .. Len(link'[p]) :
              \/ p # p0 /\ i \in 1 .. Len(link[p]) /\ link'[p][i] = link[p][i]
              \/ p = p0 /\ i + 1 \in 1 .. Len(link[p]) /\ link'[p][i] = link[p][i + 1]
    BY <2>1, ReceiveEffect
  <2>3. \A u \in Thread : hand'[u] = IF u = t THEN link[p0][1] ELSE hand[u]
    BY <2>1, <2>2
  <2>4. \A p \in Pipe : \A i \in 1 .. Len(link'[p]) : link'[p][i] # b
    BY <1>1, <2>2
  <2>5. \A u \in Thread : hand'[u] # b
    BY <1>1, <2>2, <2>3
  <2> QED
    BY <2>4, <2>5 DEF NotInFlight
<1>5. ASSUME NEW w \in Worker, Send(w) PROVE NotInFlight(b)'
  <2>1. PICK p0 \in Pipe : link' = [link EXCEPT ![p0] = Append(@, hand[w])]
    BY <1>5, PipeEnds DEF Send
  <2>2. w \in Thread /\ hand[w] \in Block /\ hand[w] # b
    BY <1>1, <1>5, PipeEnds DEF Send, HandsFollowLoop
  <2>3. \A t \in Thread : hand'[t] = IF t = w THEN NoBlock ELSE hand[t]
    BY <1>5, <2>2 DEF Send
  <2>4. \A p \in Pipe : \A i \in 1 .. Len(link'[p]) :
           \/ i \in 1 .. Len(link[p]) /\ link'[p][i] = link[p][i]
           \/ p = p0 /\ i = Len(link[p0]) + 1 /\ link'[p][i] = hand[w]
    BY <2>1, <2>2, SendEffect
  <2>5. \A p \in Pipe : \A i \in 1 .. Len(link'[p]) : link'[p][i] # b
    BY <1>1, <2>2, <2>4
  <2>6. \A t \in Thread : hand'[t] # b
    BY <1>1, <2>3
  <2> QED
    BY <2>5, <2>6 DEF NotInFlight
<1>6. CASE Finish
  <2>1. link' = link
    BY <1>6 DEF Finish
  <2>2. \A t \in Thread : hand'[t] = IF t = Collector THEN NoBlock ELSE hand[t]
    BY <1>6, PipeEnds DEF Finish
  <2> QED
    BY <1>1, <2>1, <2>2 DEF NotInFlight
<1> QED
  BY <1>2, <1>3, <1>4, <1>5, <1>6, PipeEnds
     DEF Next, WorkerStep, CollectorStep, SamplerStep, SampleTimeout, Stop, Work, StrayWork,
         Emit, StrayFinish, ReceiveNothing, LeaveLoop, threadVars, vars

LEMMA StepSamplerApart == IInv /\ [Next]_vars => SamplerApart'
<1> SUFFICES ASSUME IInv, [Next]_vars PROVE SamplerApart'
  OBVIOUS
<1> USE DEF IInv, TypeOK, SamplerTypeOK, RingTypeOK
<1>1. packet \in Block /\ NotInFlight(packet) /\ (previous # NoBlock => NotInFlight(previous))
  BY DEF SamplerApart
<1>2. ASSUME UNCHANGED <<spc, packet, previous, write_pointer>>,
             \A l \in Lane : ~SampleSend(l)
      PROVE  SamplerApart'
  <2>1. \A b \in Block : NotInFlight(b) => NotInFlight(b)'
    BY <1>2, StaysOut
  <2>2. NotInFlight(packet)'
    <3>1. PICK b \in Block : b = packet
      OBVIOUS
    <3> QED
      BY <1>1, <1>2, <2>1, <3>1 DEF NotInFlight
  <2>3. previous' # NoBlock => NotInFlight(previous)'
    <3>1. CASE previous # NoBlock
      <4>1. PICK b \in Block : b = previous
        BY <3>1
      <4> QED
        BY <1>1, <1>2, <2>1, <3>1, <4>1 DEF NotInFlight
    <3>2. CASE previous = NoBlock
      BY <1>2, <3>2
    <3> QED
      BY <3>1, <3>2
  <2>4. spc' = "fill" => write_pointer' # packet' /\ NotInFlight(write_pointer)'
    <3>1. PICK b \in Block : b = write_pointer
      OBVIOUS
    <3> QED
      BY <1>2, <2>1, <3>1 DEF NotInFlight, SamplerApart
  <2> QED
    BY <1>2, <2>2, <2>3, <2>4 DEF SamplerApart
<1>3. CASE SamplerStep
  <2>1. link' = link /\ hand' = hand
    BY <1>3 DEF SamplerStep, threadVars
  <2>3. CASE Advance
    BY <1>1, <2>1, <2>3 DEF Advance, SamplerApart, NotInFlight
  <2>4. CASE Probe /\ ~writable[write_pointer]
    BY <1>1, <2>1, <2>4 DEF Probe, ringVars, SamplerApart, NotInFlight
  <2>5. CASE Probe /\ writable[write_pointer]
    <3>1. previous = packet /\ running /\ ~writable[packet]
      BY <2>5 DEF Probe, SamplerApart, FlagsProtect
    <3>2. NotInFlight(write_pointer)
      BY <2>5, <3>1 DEF NotInFlight, FlagsProtect
    <3> QED
      BY <1>1, <2>1, <2>5, <3>1, <3>2 DEF Probe, ringVars, SamplerApart, NotInFlight
  <2>6. CASE Skip
    BY <1>1, <2>1, <2>6 DEF Skip, SamplerApart, NotInFlight
  <2>7. CASE Fill
    BY <1>1, <2>1, <2>7 DEF Fill, ringVars, SamplerApart, NotInFlight
  <2>8. CASE ReturnNull
    BY <1>1, <2>1, <2>8 DEF ReturnNull, ringVars, SamplerApart, NotInFlight
  <2> QED
    BY <1>3, <2>3, <2>4, <2>5, <2>6, <2>7, <2>8 DEF SamplerStep, SamplerLocal
<1>4. ASSUME NEW l \in Lane, SampleSend(l) PROVE SamplerApart'
  <2>1. /\ spc' = "store" /\ previous' = NoBlock /\ packet' = packet
        /\ write_pointer' = write_pointer /\ write_pointer = packet /\ packet # previous
    BY <1>4 DEF SampleSend, SendOk, ringVars, SamplerApart
  <2>2. PICK b \in Block : b = packet
    OBVIOUS
  <2>3. NotInFlight(b)'
    BY <1>1, <2>1, <2>2, StaysOut
  <2> QED
    BY <2>1, <2>2, <2>3 DEF SamplerApart, NotInFlight
<1>5. CASE SampleTimeout
  <2>1. /\ spc' = "done" /\ link' = link /\ hand' = hand /\ packet' = packet
        /\ previous' = previous /\ write_pointer' = write_pointer
    BY <1>5 DEF SampleTimeout, SendTimeout, threadVars, ringVars
  <2> QED
    BY <1>1, <2>1 DEF SamplerApart, NotInFlight
<1>6. ASSUME UNCHANGED <<spc, packet, previous, write_pointer>> PROVE SamplerApart'
  <2>1. \A l \in Lane : ~SampleSend(l)
    BY <1>6 DEF SampleSend, SendOk
  <2> QED
    BY <1>2, <1>6, <2>1
<1> QED
  BY <1>3, <1>4, <1>5, <1>6
     DEF Next, WorkerStep, CollectorStep, Stop, RequestStop, Receive, Send, Work, StrayWork,
         Emit, Finish, StrayFinish, ReceiveNothing, LeaveLoop, ringVars, samplerVars, vars
-----------------------------------------------------------------------------
\* Nothing sets running back to true.
LEMMA StopIsFinal == TypeOK /\ [Next]_vars => (running' => running)
  BY DEF TypeOK, SamplerTypeOK, Next, SamplerStep, SamplerLocal, Advance, Probe, Skip, Fill,
         ReturnNull, SampleSend, SendOk, SampleTimeout, SendTimeout, Stop, RequestStop,
         WorkerStep, CollectorStep, Receive, Work, StrayWork, Send, Emit, Finish,
         StrayFinish, ReceiveNothing, LeaveLoop, samplerVars, vars

-----------------------------------------------------------------------------
(* The place of a thread in its loop and what it holds.                    *)

LEMMA StepHandsFollowLoop == IInv /\ [Next]_vars => HandsFollowLoop'
<1> SUFFICES ASSUME IInv, [Next]_vars PROVE HandsFollowLoop'
  OBVIOUS
<1> USE DEF IInv, TypeOK, SamplerTypeOK, HandsFollowLoop
<1>1. running' => running
  BY StopIsFinal
<1>2. ASSUME UNCHANGED <<pc, hand>> PROVE HandsFollowLoop'
  BY <1>1, <1>2
<1>3. ASSUME NEW t \in Thread, NEW p0 \in Pipe, Receive(t, p0) PROVE HandsFollowLoop'
  <2>1. Head(link[p0]) \in Block
    BY <1>3, ReceiveEffect DEF Receive
  <2>2. \A u \in Thread : /\ pc'[u] = IF u = t THEN "work" ELSE pc[u]
                          /\ hand'[u] = IF u = t THEN Head(link[p0]) ELSE hand[u]
    BY <1>3 DEF Receive
  <2> QED
    BY <1>1, <2>1, <2>2
<1>4. ASSUME NEW w \in Worker, Work(w) PROVE HandsFollowLoop'
  BY <1>1, <1>4, PipeEnds DEF Work
<1>5. ASSUME NEW w \in Worker, StrayWork(w) PROVE HandsFollowLoop'
  BY <1>1, <1>5, PipeEnds DEF StrayWork
<1>6. ASSUME NEW w \in Worker, Send(w) PROVE HandsFollowLoop'
  BY <1>1, <1>6, PipeEnds DEF Send, LoopTop
<1>7. CASE Emit
  BY <1>1, <1>7, PipeEnds DEF Emit
<1>8. CASE Finish
  BY <1>1, <1>8, PipeEnds DEF Finish, LoopTop
<1>9. CASE StrayFinish
  BY <1>1, <1>9, PipeEnds DEF StrayFinish
<1>10. ASSUME NEW t \in Thread, ReceiveNothing(t) PROVE HandsFollowLoop'
  BY <1>1, <1>10 DEF ReceiveNothing, samplerVars
<1>11. ASSUME NEW t \in Thread, LeaveLoop(t) PROVE HandsFollowLoop'
  BY <1>1, <1>11 DEF LeaveLoop
<1> QED
  BY <1>2, <1>3, <1>4, <1>5, <1>6, <1>7, <1>8, <1>9, <1>10, <1>11, PipeEnds
     DEF Next, WorkerStep, CollectorStep, SamplerStep, SampleSend, SampleTimeout, Stop,
         threadVars, vars

-----------------------------------------------------------------------------
(* While the receiver runs, the flags protect what is in use.              *)

LEMMA StepFlagsProtect == IInv /\ [Next]_vars => FlagsProtect'
<1> SUFFICES ASSUME IInv, [Next]_vars, running, running' PROVE FlagsProtect'
  <2>1. IInv /\ [Next]_vars => (running' => running)
    BY StopIsFinal DEF IInv
  <2> QED
    BY <2>1 DEF FlagsProtect
<1> USE DEF IInv, TypeOK, SamplerTypeOK, RingTypeOK
<1>1. /\ \A p \in Pipe : \A i \in 1 .. Len(link[p]) :
             link[p][i] \in Block /\ ~writable[link[p][i]]
      /\ \A t \in Thread : hand[t] # NoBlock => hand[t] \in Block /\ ~writable[hand[t]]
      /\ previous # NoBlock => previous \in Block /\ ~writable[previous]
  BY DEF FlagsProtect
<1>2. ASSUME UNCHANGED <<link, hand>>, previous' \in {previous, NoBlock, packet},
             \A b \in Block : writable'[b] => writable[b],
             previous' # NoBlock => ~writable'[previous']
      PROVE  FlagsProtect'
  BY <1>1, <1>2 DEF FlagsProtect
<1>3. CASE SamplerStep
  <2>1. link' = link /\ hand' = hand
    BY <1>3 DEF SamplerStep, threadVars
  <2>2. CASE Advance
    BY <1>2, <2>1, <2>2 DEF Advance, AdvanceWritePointer, SetStateReadable, SamplerApart
  <2>3. CASE Probe \/ Fill \/ ReturnNull
    BY <1>1, <1>2, <2>1, <2>3 DEF Probe, Fill, ReturnNull, ringVars
  <2>4. CASE Skip
    BY <1>1, <1>2, <2>1, <2>4 DEF Skip, AdvanceWritePointer, SetStateReadable
  <2> QED
    BY <1>3, <2>2, <2>3, <2>4 DEF SamplerStep, SamplerLocal
<1>4. ASSUME NEW l \in Lane, SampleSend(l) PROVE FlagsProtect'
  <2>1. PICK p0 \in Pipe : link' = [link EXCEPT ![p0] = Append(@, previous)]
    BY <1>4, PipeEnds DEF SampleSend
  <2>2. previous \in Block /\ hand' = hand /\ writable' = writable /\ previous' = NoBlock
    BY <1>4 DEF SampleSend, SendOk, SamplerApart, ringVars
  <2>3. \A p \in Pipe : \A i \in 1 .. Len(link'[p]) :
           \/ i \in 1 .. Len(link[p]) /\ link'[p][i] = link[p][i]
           \/ p = p0 /\ i = Len(link[p0]) + 1 /\ link'[p][i] = previous
    BY <2>1, <2>2, SendEffect
  <2>4. ASSUME NEW p \in Pipe, NEW i \in 1 .. Len(link'[p]) PROVE ~writable'[link'[p][i]]
    <3>1. CASE i \in 1 .. Len(link[p]) /\ link'[p][i] = link[p][i]
      BY <1>1, <2>2, <3>1
    <3>2. CASE link'[p][i] = previous
      BY <1>1, <2>2, <3>2
    <3> QED
      BY <2>3, <3>1, <3>2
  <2> QED
    BY <1>1, <2>2, <2>4 DEF FlagsProtect
<1>5. ASSUME NEW t \in Thread, NEW p0 \in Pipe, Receive(t, p0) PROVE FlagsProtect'
  <2>1. /\ link[p0] # <<>>
        /\ link' = [link EXCEPT ![p0] = Tail(@)]
        /\ hand' = [hand EXCEPT ![t] = Head(link[p0])]
        /\ writable' = writable /\ previous' = previous
    BY <1>5 DEF Receive, ringVars, samplerVars
  <2>2. /\ Head(link[p0]) \in Block
        /\ 1 \in 1 .. Len(link[p0]) /\ Head(link[p0]) = link[p0][1]
        /\ \A p \in Pipe : \A i \in 1 .. Len(link'[p]) :
              \/ p # p0 /\ i \in 1 .. Len(link[p]) /\ link'[p][i] = link[p][i]
              \/ p = p0 /\ i + 1 \in 1 .. Len(link[p]) /\ link'[p][i] = link[p][i + 1]
    BY <2>1, ReceiveEffect
  <2>3. \A u \in Thread : hand'[u] = IF u = t THEN link[p0][1] ELSE hand[u]
    BY <2>1, <2>2
  <2>4. ASSUME NEW p \in Pipe, NEW i \in 1 .. Len(link'[p]) PROVE ~writable'[link'[p][i]]
    BY <1>1, <2>1, <2>2
  <2>5. ASSUME NEW u \in Thread, hand'[u] # NoBlock PROVE ~writable'[hand'[u]]
    BY <1>1, <2>1, <2>2, <2>3, <2>5
  <2> QED
    BY <1>1, <2>1, <2>4, <2>5 DEF FlagsProtect
<1>6. ASSUME NEW w \in Worker, Send(w) PROVE FlagsProtect'
  <2>1. PICK p0 \in Pipe : link' = [link EXCEPT ![p0] = Append(@, hand[w])]
    BY <1>6, PipeEnds DEF Send
  <2>2. /\ w \in Thread /\ hand[w] \in Block /\ ~writable[hand[w]]
        /\ writable' = writable /\ previous' = previous
    BY <1>1, <1>6, PipeEnds DEF Send, HandsFollowLoop, ringVars, samplerVars
  <2>3. \A t \in Thread : hand'[t] = IF t = w THEN NoBlock ELSE hand[t]
    BY <1>6, <2>2 DEF Send
  <2>4. \A p \in Pipe : \A i \in 1 .. Len(link'[p]) :
           \/ i \in 1 .. Len(link[p]) /\ link'[p][i] = link[p][i]
           \/ p = p0 /\ i = Len(link[p0]) + 1 /\ link'[p][i] = hand[w]
    BY <2>1, <2>2, SendEffect
  <2>5. ASSUME NEW p \in Pipe, NEW i \in 1 .. Len(link'[p]) PROVE ~writable'[link'[p][i]]
    BY <1>1, <2>2, <2>4
  <2> QED
    BY <1>1, <2>2, <2>3, <2>5 DEF FlagsProtect
<1>7. CASE Finish
  <2>1. /\ link' = link /\ previous' = previous
        /\ hand[Collector] \in Block
        /\ writable' = [writable EXCEPT ![hand[Collector]] = TRUE]
    BY <1>7, PipeEnds DEF Finish, SetStateWritable, HandsFollowLoop, samplerVars
  <2>2. \A t \in Thread : hand'[t] = IF t = Collector THEN NoBlock ELSE hand[t]
    BY <1>7, PipeEnds DEF Finish
  <2>3. \A p \in Pipe : \A i \in 1 .. Len(link[p]) : link[p][i] # hand[Collector]
    <3>1. Collector \in Thread
      BY PipeEnds
    <3> QED
      BY <3>1 DEF PlacesDistinct
  <2>4. \A t \in Thread \ {Collector} : hand[t] # hand[Collector]
    BY <2>1, PipeEnds DEF PlacesDistinct
  <2>5. previous # hand[Collector]
    BY <2>1, PipeEnds DEF SamplerApart, NotInFlight
  <2>6. ASSUME NEW t \in Thread, hand'[t] # NoBlock PROVE ~writable'[hand'[t]]
    BY <1>1, <2>1, <2>2, <2>4, <2>6
  <2>7. ASSUME NEW p \in Pipe, NEW i \in 1 .. Len(link[p]) PROVE ~writable'[link[p][i]]
    BY <1>1, <2>1, <2>3
  <2> QED
    BY <1>1, <2>1, <2>5, <2>6, <2>7 DEF FlagsProtect
<1>8. CASE StrayFinish
  BY <1>8, PipeEnds DEF StrayFinish, HandsFollowLoop
<1>9. CASE UNCHANGED <<ringVars, link, hand, previous>>
  BY <1>9 DEF FlagsProtect, ringVars
<1> QED
  BY <1>3, <1>4, <1>5, <1>6, <1>7, <1>8, <1>9, PipeEnds
     DEF Next, WorkerStep, CollectorStep, SampleTimeout, SendTimeout, Stop, RequestStop, Work,
         StrayWork, Emit, ReceiveNothing, LeaveLoop, threadVars, ringVars, samplerVars, vars
-----------------------------------------------------------------------------
(* The results in a block and the place of the block.                      *)

LEMMA StepStageFollowsPlace == IInv /\ [Next]_vars => StageFollowsPlace'
<1> SUFFICES ASSUME IInv, [Next]_vars, running, running' PROVE StageFollowsPlace'
  <2>1. IInv /\ [Next]_vars => (running' => running)
    BY StopIsFinal DEF IInv
  <2> QED
    BY <2>1 DEF StageFollowsPlace
<1> USE DEF IInv, TypeOK, SamplerTypeOK, RingTypeOK
<1>1. /\ stage[packet] = 0
      /\ previous # NoBlock => stage[previous] = 0
      /\ \A p \in Pipe : \A i \in 1 .. Len(link[p]) :
            link[p][i] \in Block /\ stage[link[p][i]] = p[1] - 1
      /\ \A w \in Worker :
            /\ pc[w] = "work" => hand[w] \in Block /\ stage[hand[w]] = w[1] - 1
            /\ pc[w] = "send" => hand[w] \in Block /\ stage[hand[w]] = w[1]
      /\ pc[Collector] \in {"work", "send"} =>
            hand[Collector] \in Block /\ stage[hand[Collector]] = 3
  BY PipeEnds DEF StageFollowsPlace, HandsFollowLoop
<1>2. CASE UNCHANGED <<link, pc, hand, stage, packet>> /\ previous' \in {previous, packet}
  BY <1>1, <1>2 DEF StageFollowsPlace
<1>3. CASE SamplerStep
  <2>1. link' = link /\ hand' = hand /\ pc' = pc
    BY <1>3 DEF SamplerStep, threadVars
  <2>2. CASE SamplerLocal /\ UNCHANGED stage
    BY <1>2, <2>1, <2>2 DEF SamplerLocal, Advance, Probe, Skip, ReturnNull
  <2>3. CASE Fill /\ stage' = [stage EXCEPT ![write_pointer] = 0]
    <3>1. /\ packet' = write_pointer /\ previous' = previous /\ previous = packet
          /\ stage' = [stage EXCEPT ![write_pointer] = 0]
          /\ write_pointer # packet
          /\ NotInFlight(write_pointer)
      BY <2>3 DEF Fill, SamplerApart
    <3>2. \A b \in Block : b # write_pointer => stage'[b] = stage[b]
      BY <3>1
    <3>3. \A p \in Pipe : \A i \in 1 .. Len(link[p]) : link[p][i] # write_pointer
      BY <3>1 DEF NotInFlight
    <3>4. \A t \in Thread : hand[t] # write_pointer
      BY <3>1 DEF NotInFlight
    <3>5. stage'[packet'] = 0 /\ stage'[previous'] = 0
      BY <1>1, <3>1, <3>2
    <3> QED
      BY <1>1, <2>1, <3>2, <3>3, <3>4, <3>5, PipeEnds DEF StageFollowsPlace
  <2> QED
    BY <1>3, <2>2, <2>3 DEF SamplerStep, SamplerLocal
<1>4. ASSUME NEW l \in Lane, SampleSend(l) PROVE StageFollowsPlace'
  <2>1. PICK p0 \in Pipe : link' = [link EXCEPT ![p0] = Append(@, previous)] /\ p0[1] = 1
    BY <1>4, PipeEnds DEF SampleSend
  <2>2. /\ previous \in Block /\ previous' = NoBlock
        /\ UNCHANGED <<pc, hand, stage, packet>>
    BY <1>4 DEF SampleSend, SendOk, SamplerApart, ringVars
  <2>3. \A p \in Pipe : \A i \in 1 .. Len(link'[p]) :
           \/ i \in 1 .. Len(link[p]) /\ link'[p][i] = link[p][i]
           \/ p = p0 /\ i = Len(link[p0]) + 1 /\ link'[p][i] = previous
    BY <2>1, <2>2, SendEffect
  <2>4. ASSUME NEW p \in Pipe, NEW i \in 1 .. Len(link'[p])
        PROVE  stage[link'[p][i]] = p[1] - 1
    <3>1. CASE i \in 1 .. Len(link[p]) /\ link'[p][i] = link[p][i]
      BY <1>1, <3>1
    <3>2. CASE p = p0 /\ link'[p][i] = previous
      BY <1>1, <2>1, <2>2, <3>2
    <3> QED
      BY <2>3, <3>1, <3>2
  <2> QED
    BY <1>1, <2>2, <2>4 DEF StageFollowsPlace
<1>5. ASSUME NEW t \in Thread, NEW p0 \in Pipe, t \in Worker => t = p0,
             t = Collector => p0[1] = 4, Receive(t, p0)
      PROVE  StageFollowsPlace'
  <2>1. /\ link[p0] # <<>>
        /\ link' = [link EXCEPT ![p0] = Tail(@)]
        /\ hand' = [hand EXCEPT ![t] = Head(link[p0])]
        /\ pc' = [pc EXCEPT ![t] = "work"]
        /\ UNCHANGED <<stage, packet, previous>>
    BY <1>5 DEF Receive, samplerVars
  <2>2. /\ Head(link[p0]) \in Block
        /\ 1 \in 1 .. Len(link[p0]) /\ Head(link[p0]) = link[p0][1]
        /\ \A p \in Pipe : \A i \in 1 .. Len(link'[p]) :
              \/ p # p0 /\ i \in 1 .. Len(link[p]) /\ link'[p][i] = link[p][i]
              \/ p = p0 /\ i + 1 \in 1 .. Len(link[p]) /\ link'[p][i] = link[p][i + 1]
    BY <2>1, ReceiveEffect
  <2>3. stage[Head(link[p0])] = p0[1] - 1
    BY <1>1, <2>2
  <2>4. ASSUME NEW p \in Pipe, NEW i \in 1 .. Len(link'[p])
        PROVE  stage[link'[p][i]] = p[1] - 1
    <3>1. PICK j \in 1 .. Len(link[p]) : link'[p][i] = link[p][j]
      BY <2>2
    <3> QED
      BY <1>1, <3>1
  <2>5. ASSUME NEW w \in Worker
        PROVE  /\ pc'[w] = "work" => stage[hand'[w]] = w[1] - 1
               /\ pc'[w] = "send" => stage[hand'[w]] = w[1]
    <3>1. CASE w = t
      BY <1>5, <2>1, <2>3, <3>1
    <3>2. CASE w # t
      BY <1>1, <2>1, <3>2, PipeEnds
    <3> QED
      BY <3>1, <3>2
  <2>6. pc'[Collector] \in {"work", "send"} => stage[hand'[Collector]] = 3
    <3>1. CASE Collector = t
      BY <1>5, <2>1, <2>3, <3>1
    <3>2. CASE Collector # t
      BY <1>1, <2>1, <3>2, PipeEnds
    <3> QED
      BY <3>1, <3>2
  <2> QED
    BY <1>1, <2>1, <2>4, <2>5, <2>6 DEF StageFollowsPlace
<1>6. ASSUME NEW w \in Worker, Work(w) PROVE StageFollowsPlace'
  <2>1. /\ stage' = [stage EXCEPT ![hand[w]] = w[1]]
        /\ pc' = [pc EXCEPT ![w] = "send"]
        /\ UNCHANGED <<link, hand, packet, previous>>
        /\ pc[w] = "work" /\ hand[w] \in Block /\ w \in Thread
    BY <1>1, <1>6, PipeEnds DEF Work, samplerVars
  <2>2. \A b \in Block : b # hand[w] => stage'[b] = stage[b]
    BY <2>1
  <2>3. stage'[packet] = 0 /\ (previous # NoBlock => stage'[previous] = 0)
    BY <1>1, <2>1, <2>2 DEF SamplerApart, NotInFlight
  <2>4. ASSUME NEW p \in Pipe, NEW i \in 1 .. Len(link[p])
        PROVE  stage'[link[p][i]] = p[1] - 1
    BY <1>1, <2>1, <2>2 DEF PlacesDistinct
  <2>5. \A t \in Thread : t # w /\ hand[t] \in Block => stage'[hand[t]] = stage[hand[t]]
    BY <2>1, <2>2 DEF PlacesDistinct
  <2>6. ASSUME NEW v \in Worker
        PROVE  /\ pc'[v] = "work" => stage'[hand[v]] = v[1] - 1
               /\ pc'[v] = "send" => stage'[hand[v]] = v[1]
    <3>1. CASE v = w
      BY <2>1, <3>1
    <3>2. CASE v # w
      BY <1>1, <2>1, <2>5, <3>2, PipeEnds
    <3> QED
      BY <3>1, <3>2
  <2>7. pc'[Collector] \in {"work", "send"} => stage'[hand[Collector]] = 3
    BY <1>1, <2>1, <2>5, PipeEnds
  <2> QED
    BY <2>1, <2>3, <2>4, <2>6, <2>7 DEF StageFollowsPlace
<1>7. ASSUME NEW w \in Worker, Send(w) PROVE StageFollowsPlace'
  <2>1. PICK p0 \in Pipe :
           link' = [link EXCEPT ![p0] = Append(@, hand[w])] /\ p0[1] - 1 = w[1]
    <3>1. OutPipe(w) \in Pipe /\ OutPipe(w)[1] - 1 = w[1]
      <4>1. w[1] \in 1 .. 3 /\ OutPipe(w) \in Pipe /\ OutPipe(w)[1] = w[1] + 1
        BY PipeEnds
      <4> QED
        BY <4>1
    <3> QED
      BY <1>7, <3>1 DEF Send
  <2>2. /\ pc[w] = "send" /\ hand[w] \in Block /\ w \in Thread
        /\ hand' = [hand EXCEPT ![w] = NoBlock]
        /\ pc' = [pc EXCEPT ![w] = "poll"]
        /\ UNCHANGED <<stage, packet, previous>>
    BY <1>1, <1>7, PipeEnds DEF Send, samplerVars, LoopTop
  <2>3. \A p \in Pipe : \A i \in 1 .. Len(link'[p]) :
           \/ i \in 1 .. Len(link[p]) /\ link'[p][i] = link[p][i]
           \/ p = p0 /\ i = Len(link[p0]) + 1 /\ link'[p][i] = hand[w]
    BY <2>1, <2>2, SendEffect
  <2>4. ASSUME NEW p \in Pipe, NEW i \in 1 .. Len(link'[p])
        PROVE  stage[link'[p][i]] = p[1] - 1
    <3>1. CASE i \in 1 .. Len(link[p]) /\ link'[p][i] = link[p][i]
      BY <1>1, <3>1
    <3>2. CASE p = p0 /\ link'[p][i] = hand[w]
      BY <1>1, <2>1, <2>2, <3>2
    <3> QED
      BY <2>3, <3>1, <3>2
  <2>5. \A t \in Thread : pc'[t] # "poll" => pc'[t] = pc[t] /\ hand'[t] = hand[t]
    BY <2>2
  <2> QED
    BY <1>1, <2>2, <2>4, <2>5, PipeEnds DEF StageFollowsPlace
<1>8. CASE Emit
  <2>1. /\ pc[Collector] = "work" /\ pc' = [pc EXCEPT ![Collector] = "send"]
        /\ UNCHANGED <<link, hand, stage, packet, previous>>
    BY <1>8 DEF Emit, samplerVars
  <2> QED
    BY <1>1, <2>1, PipeEnds DEF StageFollowsPlace
<1>9. CASE Finish
  <2>1. /\ hand' = [hand EXCEPT ![Collector] = NoBlock]
        /\ pc' = [pc EXCEPT ![Collector] = "poll"]
        /\ UNCHANGED <<link, stage, packet, previous>>
    BY <1>9 DEF Finish, LoopTop, samplerVars
  <2> QED
    BY <1>1, <2>1, PipeEnds DEF StageFollowsPlace
<1>10. ASSUME NEW w \in Worker, StrayWork(w) PROVE StageFollowsPlace'
  BY <1>10, PipeEnds DEF StrayWork, HandsFollowLoop
<1>11. CASE StrayFinish
  BY <1>11, PipeEnds DEF StrayFinish, HandsFollowLoop
<1>12. CASE UNCHANGED vars
  BY <1>1, <1>12 DEF StageFollowsPlace, vars, samplerVars
<1>13. \A l \in Lane : <<4, l>> \in Pipe /\ <<4, l>>[1] = 4
  BY PipeEnds
<1> QED
  BY <1>3, <1>4, <1>5, <1>6, <1>7, <1>8, <1>9, <1>10, <1>11, <1>12, <1>13, PipeEnds
     DEF Next, WorkerStep, CollectorStep, SampleTimeout, SendTimeout, Stop, RequestStop,
         ReceiveNothing, LeaveLoop
-----------------------------------------------------------------------------
(* The theorems about the states.                                          *)

LEMMA InitIInv == Init => IInv
<1> SUFFICES ASSUME Init PROVE IInv
  OBVIOUS
<1>1. TypeOK
  BY InitTypeOK
<1>2. /\ \A p \in Pipe : link[p] = <<>>
      /\ \A t \in Thread : hand[t] = NoBlock /\ pc[t] = "poll"
      /\ \A b \in Block : stage[b] = 0
      /\ previous = NoBlock /\ packet = write_pointer /\ spc = "store"
  BY DEF Init, RingInit, SamplerInit
<1>3. \A p \in Pipe : \A i \in 1 .. Len(link[p]) : FALSE
  BY <1>2
<1>4. packet \in Block
  BY <1>1 DEF TypeOK, SamplerTypeOK
<1> QED
  BY <1>1, <1>2, <1>3, <1>4, PipeEnds
     DEF IInv, PlacesDistinct, SamplerApart, NotInFlight, FlagsProtect, HandsFollowLoop,
         StageFollowsPlace

LEMMA StepIInv == IInv /\ [Next]_vars => IInv'
  BY StepTypeOK, StepPlacesDistinct, StepSamplerApart, StepFlagsProtect,
     StepHandsFollowLoop, StepStageFollowsPlace DEF IInv

LEMMA Inductive == Spec => []IInv
  BY InitIInv, StepIInv, PTL DEF Spec

\* Every variable has its type: the write pointer stays on the ring and the pipes
\* carry indices of blocks only.
THEOREM TypeCorrect == Spec => []TypeOK
<1>1. IInv => TypeOK
  BY DEF IInv
<1> QED
  BY <1>1, Inductive, PTL

\* The write flags do their work on every ring, for any number of lanes and any
\* pipe capacity: the sampler never writes to a block that a processing thread has
\* or that is under way to one, and no two threads have the same block.
THEOREM Exclusive == Spec => []ExclusiveAccess
<1>1. IInv => ExclusiveAccess
  <2> SUFFICES ASSUME IInv PROVE ExclusiveAccess
    OBVIOUS
  <2>1. packet \notin InFlight
    BY DEF IInv, SamplerApart, NotInFlight, InFlight, Queued, Held
  <2>2. previous \notin InFlight
    BY DEF IInv, SamplerApart, NotInFlight, InFlight, Queued, Held
  <2> QED
    BY <2>1, <2>2 DEF IInv, PlacesDistinct, ExclusiveAccess
<1> QED
  BY <1>1, Inductive, PTL

\* A block reaches each stage with the results of the stages before it and no
\* others, whatever the lanes and however often the ring has gone round.
THEOREM StageOrder == Spec => []StagesInOrder
<1>1. IInv => StagesInOrder
  BY DEF IInv, StageFollowsPlace, StagesInOrder
<1> QED
  BY <1>1, Inductive, PTL

-----------------------------------------------------------------------------
(* The pipeline implements the block pool.                                 *)

LEMMA InFlightDef ==
  /\ InFlight = {b \in Block : ~NotInFlight(b)}
  /\ InFlight' = {b \in Block : ~NotInFlight(b)'}
  BY DEF InFlight, Queued, Held, NotInFlight

\* What is in a pipe is still in it after a send, with the new message behind.
LEMMA SendKeeps ==
  ASSUME link \in [Pipe -> Seq(Block)], NEW p0 \in Pipe, NEW b \in Block,
         link' = [link EXCEPT ![p0] = Append(@, b)]
  PROVE  /\ \A p \in Pipe : \A i \in 1 .. Len(link[p]) :
               i \in 1 .. Len(link'[p]) /\ link'[p][i] = link[p][i]
         /\ \E i \in 1 .. Len(link'[p0]) : link'[p0][i] = b
<1>1. link[p0] \in Seq(Block) /\ link'[p0] = Append(link[p0], b)
  OBVIOUS
<1>2. /\ Len(link'[p0]) = Len(link[p0]) + 1 /\ Len(link[p0]) \in Nat
      /\ \A i \in 1 .. Len(link[p0]) : link'[p0][i] = link[p0][i]
      /\ link'[p0][Len(link[p0]) + 1] = b
  BY <1>1, AppendOne
<1>3. ASSUME NEW p \in Pipe, NEW i \in 1 .. Len(link[p])
      PROVE  i \in 1 .. Len(link'[p]) /\ link'[p][i] = link[p][i]
  <2>1. CASE p = p0
    BY <1>2, <2>1
  <2>2. CASE p # p0
    BY <2>2
  <2> QED
    BY <2>1, <2>2
<1>4. Len(link[p0]) + 1 \in 1 .. Len(link'[p0])
  BY <1>2
<1> QED
  BY <1>2, <1>3, <1>4

\* What is in a pipe is still in it after a receive, except the message received.
LEMMA ReceiveKeeps ==
  ASSUME link \in [Pipe -> Seq(Block)], NEW p0 \in Pipe, link[p0] # <<>>,
         link' = [link EXCEPT ![p0] = Tail(@)]
  PROVE  \A p \in Pipe : \A i \in 1 .. Len(link[p]) :
            \/ p = p0 /\ i = 1
            \/ \E j \in 1 .. Len(link'[p]) : link'[p][j] = link[p][i]
<1> SUFFICES ASSUME NEW p \in Pipe, NEW i \in 1 .. Len(link[p]), ~(p = p0 /\ i = 1)
             PROVE  \E j \in 1 .. Len(link'[p]) : link'[p][j] = link[p][i]
  OBVIOUS
<1>1. CASE p # p0
  BY <1>1
<1>2. CASE p = p0
  <2>1. link[p0] \in Seq(Block) /\ link'[p] = Tail(link[p0])
    BY <1>2
  <2>2. /\ Len(link[p0]) \in Nat \ {0}
        /\ Len(link'[p]) = Len(link[p0]) - 1
        /\ \A j \in 1 .. Len(link'[p]) : link'[p][j] = link[p0][j + 1]
    <3>1. /\ Len(link[p0]) \in Nat \ {0}
          /\ Len(Tail(link[p0])) = Len(link[p0]) - 1
          /\ \A j \in 1 .. Len(Tail(link[p0])) : Tail(link[p0])[j] = link[p0][j + 1]
      BY <2>1, TakeOne
    <3> QED
      BY <2>1, <3>1
  <2>3. i - 1 \in 1 .. Len(link'[p]) /\ (i - 1) + 1 = i
    <3>1. i \in 1 .. Len(link[p0]) /\ i # 1
      BY <1>2
    <3> QED
      BY <2>2, <3>1
  <2>4. link'[p][i - 1] = link[p][i]
    <3>1. link'[p][i - 1] = link[p0][(i - 1) + 1]
      BY <2>2, <2>3
    <3> QED
      BY <1>2, <2>3, <3>1
  <2> QED
    BY <2>3, <2>4
<1> QED
  BY <1>1, <1>2

\* Passing a block on from thread to thread leaves it in flight.
LEMMA PassingOn ==
  ASSUME IInv, [Next]_vars, NEW b \in Block, ~NotInFlight(b), ~Finish
  PROVE  ~NotInFlight(b)'
<1> USE DEF IInv, TypeOK, SamplerTypeOK
<1>1. \/ \E p \in Pipe : \E i \in 1 .. Len(link[p]) : link[p][i] = b
      \/ \E t \in Thread : hand[t] = b
  BY DEF NotInFlight
<1>2. CASE UNCHANGED <<link, hand>>
  BY <1>2 DEF NotInFlight
<1>3. ASSUME NEW l \in Lane, SampleSend(l) PROVE ~NotInFlight(b)'
  <2>1. PICK p0 \in Pipe : link' = [link EXCEPT ![p0] = Append(@, previous)]
    BY <1>3, PipeEnds DEF SampleSend
  <2>2. previous \in Block /\ hand' = hand
    BY <1>3 DEF SampleSend, SendOk, SamplerApart
  <2>3. \A p \in Pipe : \A i \in 1 .. Len(link[p]) :
           i \in 1 .. Len(link'[p]) /\ link'[p][i] = link[p][i]
    BY <2>1, <2>2, SendKeeps
  <2> QED
    BY <1>1, <2>2, <2>3 DEF NotInFlight
<1>4. ASSUME NEW t \in Thread, NEW p0 \in Pipe, Receive(t, p0) PROVE ~NotInFlight(b)'
  <2>1. /\ link[p0] # <<>>
        /\ link' = [link EXCEPT ![p0] = Tail(@)]
        /\ hand' = [hand EXCEPT ![t] = Head(link[p0])]
        /\ hand[t] = NoBlock
    BY <1>4 DEF Receive, HandsFollowLoop
  <2>2. hand'[t] = link[p0][1]
    BY <2>1, ReceiveEffect
  <2>3. CASE \E u \in Thread : hand[u] = b
    <3>1. PICK u \in Thread : hand[u] = b
      BY <2>3
    <3>2. hand'[u] = b
      BY <2>1, <3>1
    <3> QED
      BY <3>1, <3>2 DEF NotInFlight
  <2>4. CASE \E p \in Pipe : \E i \in 1 .. Len(link[p]) : link[p][i] = b
    <3>0. PICK p \in Pipe : \E i \in 1 .. Len(link[p]) : link[p][i] = b
      BY <2>4
    <3>1. PICK i \in 1 .. Len(link[p]) : link[p][i] = b
      BY <3>0
    <3>2. \/ p = p0 /\ i = 1
          \/ \E j \in 1 .. Len(link'[p]) : link'[p][j] = link[p][i]
      BY <2>1, ReceiveKeeps
    <3>3. CASE p = p0 /\ i = 1
      BY <2>2, <3>1, <3>3 DEF NotInFlight
    <3>4. CASE \E j \in 1 .. Len(link'[p]) : link'[p][j] = link[p][i]
      BY <3>1, <3>4 DEF NotInFlight
    <3> QED
      BY <3>2, <3>3, <3>4
  <2> QED
    BY <1>1, <2>3, <2>4
<1>5. ASSUME NEW w \in Worker, Send(w) PROVE ~NotInFlight(b)'
  <2>1. PICK p0 \in Pipe : link' = [link EXCEPT ![p0] = Append(@, hand[w])]
    BY <1>5, PipeEnds DEF Send
  <2>2. w \in Thread /\ hand[w] \in Block
    BY <1>5, PipeEnds DEF Send, HandsFollowLoop
  <2>3. hand' = [hand EXCEPT ![w] = NoBlock]
    BY <1>5 DEF Send
  <2>4. /\ \A p \in Pipe : \A i \in 1 .. Len(link[p]) :
               i \in 1 .. Len(link'[p]) /\ link'[p][i] = link[p][i]
        /\ \E i \in 1 .. Len(link'[p0]) : link'[p0][i] = hand[w]
    BY <2>1, <2>2, SendKeeps
  <2>5. CASE \E p \in Pipe : \E i \in 1 .. Len(link[p]) : link[p][i] = b
    BY <2>4, <2>5 DEF NotInFlight
  <2>6. CASE hand[w] = b
    BY <2>4, <2>6 DEF NotInFlight
  <2>7. CASE \E u \in Thread \ {w} : hand[u] = b
    BY <2>3, <2>7 DEF NotInFlight
  <2> QED
    BY <1>1, <2>5, <2>6, <2>7
<1> QED
  BY <1>2, <1>3, <1>4, <1>5, PipeEnds
     DEF Next, WorkerStep, CollectorStep, SamplerStep, SampleTimeout, Stop, Work, StrayWork,
         Emit, StrayFinish, ReceiveNothing, LeaveLoop, threadVars, vars

\* The pipeline, with its flags, pipes and threads, is an implementation of the
\* block pool: a block goes from the sampler to the processing threads and back,
\* and is never in two places or handed over twice.
THEOREM Refinement == Spec => ImplementsBlockPool
<1>1. Init => Pool!PoolInit
  <2> SUFFICES ASSUME Init PROVE Pool!PoolInit
    OBVIOUS
  <2>1. IInv
    BY InitIInv
  <2>2. previous = NoBlock /\ packet \in Block
    BY <2>1 DEF Init, SamplerInit, IInv, TypeOK, SamplerTypeOK
  <2>3. /\ \A p \in Pipe : link[p] = <<>>
        /\ \A t \in Thread : hand[t] = NoBlock
    BY DEF Init
  <2>4. InFlight = {}
    BY <2>3 DEF InFlight, Queued, Held
  <2> QED
    BY <2>2, <2>4 DEF Pool!PoolInit
<1>2. ASSUME IInv, IInv', [Next]_vars PROVE [Pool!PoolNext]_Pool!poolVars
  <2> USE DEF Pool!PoolNext, Pool!poolVars
  <2> DEFINE full == IF previous = packet THEN NoBlock ELSE previous
  <2>1. packet \in Block /\ packet # NoBlock /\ previous \in Block \cup {NoBlock}
    BY <1>2 DEF IInv, TypeOK, SamplerTypeOK
  <2>2. ASSUME \A l \in Lane : ~SampleSend(l), ~Finish PROVE InFlight' = InFlight
    <3>1. \A b \in Block : NotInFlight(b) => NotInFlight(b)'
      BY <1>2, <2>2, StaysOut
    <3>2. \A b \in Block : ~NotInFlight(b) => ~NotInFlight(b)'
      BY <1>2, <2>2, PassingOn
    <3>3. InFlight' = {b \in Block : ~NotInFlight(b)'}
      BY InFlightDef
    <3> QED
      BY <3>1, <3>2, <3>3, InFlightDef
  <2>3. ASSUME \A l \in Lane : ~SampleSend(l), ~Finish, UNCHANGED <<packet, previous>>
        PROVE  UNCHANGED Pool!poolVars
    BY <2>2, <2>3
  <2>4. CASE Fill /\ SamplerStep
    <3>1. /\ spc = "fill" /\ packet' = write_pointer /\ previous' = previous
          /\ previous = packet /\ write_pointer # packet /\ NotInFlight(write_pointer)
      BY <1>2, <2>4 DEF Fill, IInv, SamplerApart
    <3>2. InFlight' = InFlight
      BY <2>2, <2>4 DEF Fill, SampleSend, SendOk, SamplerStep, Finish, samplerVars
    <3>3. write_pointer \in Block \ (InFlight \cup {packet})
      BY <1>2, <3>1, InFlightDef DEF IInv, TypeOK, SamplerTypeOK, RingTypeOK, NotInFlight
    <3> QED
      BY <2>1, <3>1, <3>2, <3>3 DEF Pool!Acquire
  <2>5. CASE Advance
    <3>1. previous = NoBlock /\ previous' = packet /\ packet' = packet
      BY <1>2, <2>5 DEF Advance, IInv, SamplerApart
    <3>2. InFlight' = InFlight
      BY <2>2, <2>5 DEF Advance, SampleSend, SendOk, Finish, samplerVars
    <3> QED
      BY <2>1, <3>1, <3>2
  <2>6. ASSUME NEW l \in Lane, SampleSend(l) PROVE Pool!Publish
    <3>1. /\ previous \in Block /\ previous # packet
          /\ previous' = NoBlock /\ packet' = packet
      BY <1>2, <2>6 DEF SampleSend, SendOk, IInv, SamplerApart, TypeOK, SamplerTypeOK
    <3>2. \A b \in Block : b # previous /\ NotInFlight(b) => NotInFlight(b)'
      BY <1>2, StaysOut
    <3>3. ~Finish
      BY <2>6 DEF SampleSend, SendOk, Finish, samplerVars
    <3>4. \A b \in Block : ~NotInFlight(b) => ~NotInFlight(b)'
      BY <1>2, <3>3, PassingOn
    <3>5. \A b \in Block : b = previous => ~NotInFlight(b)'
      <4>1. PICK p0 \in Pipe : link' = [link EXCEPT ![p0] = Append(@, previous)]
        BY <2>6, PipeEnds DEF SampleSend
      <4>2. \E i \in 1 .. Len(link'[p0]) : link'[p0][i] = previous
        BY <1>2, <3>1, <4>1, SendKeeps DEF IInv, TypeOK
      <4> QED
        BY <4>2 DEF NotInFlight
    <3>6. InFlight' = {b \in Block : ~NotInFlight(b)'}
      BY InFlightDef
    <3>7. InFlight' = InFlight \cup {previous}
      BY <3>1, <3>2, <3>4, <3>5, <3>6, InFlightDef
    <3> QED
      BY <2>1, <3>1, <3>7 DEF Pool!Publish
  <2>7. CASE Finish
    <3>1. /\ hand[Collector] \in Block /\ link' = link
          /\ packet' = packet /\ previous' = previous
      BY <1>2, <2>7, PipeEnds DEF Finish, IInv, TypeOK, HandsFollowLoop, samplerVars
    <3>2. \A t \in Thread : hand'[t] = IF t = Collector THEN NoBlock ELSE hand[t]
      BY <1>2, <2>7 DEF Finish, IInv, TypeOK
    <3>3. /\ \A p \in Pipe : \A i \in 1 .. Len(link[p]) : link[p][i] # hand[Collector]
          /\ \A t \in Thread : t # Collector => hand[t] # hand[Collector]
      BY <1>2, <3>1, PipeEnds DEF IInv, PlacesDistinct
    <3>4. Queued' = Queued /\ hand[Collector] \notin Queued
      BY <3>1, <3>3 DEF Queued
    <3>5. Held' = Held \ {hand[Collector]} /\ hand[Collector] \in Held
      BY <3>1, <3>2, <3>3, PipeEnds DEF Held
    <3>6. InFlight' = InFlight \ {hand[Collector]} /\ hand[Collector] \in InFlight
      BY <3>4, <3>5 DEF InFlight
    <3> QED
      BY <3>1, <3>6 DEF Pool!Release
  <2>8. CASE UNCHANGED <<packet, previous>>
    BY <2>3, <2>6, <2>7, <2>8
  <2> QED
    BY <1>2, <2>4, <2>5, <2>6, <2>7, <2>8
       DEF Next, SamplerStep, SamplerLocal, Probe, Skip, ReturnNull, SampleTimeout, SendTimeout,
           Stop, RequestStop, WorkerStep, CollectorStep, Receive, Work, StrayWork, Send, Emit,
           StrayFinish, ReceiveNothing, LeaveLoop, samplerVars, vars
<1> QED
  BY <1>1, <1>2, Inductive, PTL DEF Spec, ImplementsBlockPool, Pool!PoolSpec
=============================================================================
