------------------------ MODULE IntegrityTesterProofs ------------------------
(***************************************************************************)
(* Proofs about IntegrityTester for every size of the ring, every capacity *)
(* of the pipe and every number of packets: a single consumer gets the     *)
(* packets complete and in order, what it has at hand is not written, and  *)
(* on a ring that is long enough the tester compares neighbours.           *)
(***************************************************************************)
EXTENDS IntegrityTester, SequenceTheorems, ArithmeticProofs, TLAPS

USE NBlocksAssumption, NoBlockAssumption, TesterAssumption

-----------------------------------------------------------------------------
(* The inductive invariant.                                                *)

\* The consumer is between the receipt and the release of `input'.
Holding == tpc \in {"compare", "release"}

\* The consumer neither has block b nor will it receive it from the pipe.
NotInUse(b) ==
    /\ \A i \in 1 .. Len(chan) : chan[i] # b
    /\ Holding => input # b

\* No block is under way twice, or under way and at hand.
PlacesDistinct ==
    /\ Holding => input \in Block /\ \A i \in 1 .. Len(chan) : chan[i] # input
    /\ \A i, j \in 1 .. Len(chan) : chan[i] = chan[j] => i = j

\* The blocks the sampler has are out of use, and where it is tells what they are.
SamplerApart ==
    /\ NotInUse(packet)
    /\ previous # NoBlock => NotInUse(previous)
    /\ spc = "store" => previous = NoBlock /\ write_pointer = packet
    /\ spc \in {"probe", "skip", "fill"} => previous = packet
    /\ spc = "fill" => write_pointer # packet /\ NotInUse(write_pointer)
    /\ spc = "send" => previous \in Block /\ previous # packet /\ write_pointer = packet

\* Blocks in use, and the one to be announced, have their flags down.
FlagsProtect ==
    /\ \A i \in 1 .. Len(chan) : ~writable[chan[i]]
    /\ Holding => ~writable[input]
    /\ previous # NoBlock => ~writable[previous]

\* The packets received, at hand, under way and with the sampler continue each other.
Numbered ==
    /\ received \in Seq(Nat)
    /\ PacketsInOrder
    /\ Holding => content[input] = Len(received) /\ Len(received) > 0
    /\ \A i \in 1 .. Len(chan) : content[chan[i]] = Len(received) + i
    /\ spc = "store" => content[packet] = Len(received) + Len(chan) + 1
    /\ spc \in {"probe", "skip", "fill", "send"} =>
          content[previous] = Len(received) + Len(chan) + 1
    /\ spc = "send" => content[packet] = content[previous] + 1

IInv ==
    /\ TypeOK
    /\ PlacesDistinct
    /\ SamplerApart
    /\ FlagsProtect
    /\ Numbered

-----------------------------------------------------------------------------
(* What the steps do to the pipe.                                          *)

\* The ring closes (write_pointer_ &= size() - 1, ringbuffer.hpp:102).
LEMMA NextBlockInBlock == \A b \in Block : NextBlock(b) \in Block
  BY DEF Block, NextBlock

\* Announcing puts `previous' behind what is under way.
LEMMA SendEffect ==
  ASSUME TypeOK, SamplerApart, SampleSend
  PROVE  /\ previous \in Block
         /\ chan' \in Seq(Block)
         /\ Len(chan') = Len(chan) + 1 /\ Len(chan') <= hwm
         /\ \A i \in 1 .. Len(chan) : chan'[i] = chan[i]
         /\ chan'[Len(chan')] = previous
         /\ spc = "send" /\ spc' = "store" /\ previous' = NoBlock
         /\ UNCHANGED <<ringVars, running, packet, content, hwm, tpc, input, packet_prev, received>>
<1>1. previous \in Block /\ chan \in Seq(Block)
  BY DEF SamplerApart, SampleSend, SendOk, TypeOK
<1>2. /\ Append(chan, previous) \in Seq(Block)
      /\ Len(Append(chan, previous)) = Len(chan) + 1
      /\ \A i \in 1 .. Len(chan) : Append(chan, previous)[i] = chan[i]
      /\ Append(chan, previous)[Len(chan) + 1] = previous
  BY <1>1, AppendProperties
<1> QED
  BY <1>1, <1>2 DEF SampleSend, SendOk, HasRoom, TypeOK

\* Receiving takes the first block, and the others move up.
LEMMA ReceiveEffect ==
  ASSUME TypeOK, received \in Seq(Nat), Receive
  PROVE  /\ Len(chan) \in Nat \ {0}
         /\ chan[1] \in Block /\ input' = chan[1]
         /\ chan' \in Seq(Block)
         /\ Len(chan') = Len(chan) - 1
         /\ \A i \in 1 .. Len(chan') : chan'[i] = chan[i + 1]
         /\ received' \in Seq(Nat)
         /\ Len(received') = Len(received) + 1
         /\ \A i \in 1 .. Len(received) : received'[i] = received[i]
         /\ received'[Len(received')] = content[chan[1]]
         /\ ~Holding /\ Holding' /\ tpc' \in TesterPC
         /\ UNCHANGED <<ringVars, samplerVars, content, hwm, packet_prev>>
<1>1. chan \in Seq(Block) /\ chan # <<>> /\ content \in [Block -> Nat]
  BY DEF TypeOK, Receive
<1>2. /\ Head(chan) \in Block /\ Head(chan) = chan[1] /\ Len(chan) \in Nat \ {0}
      /\ Tail(chan) \in Seq(Block) /\ Len(Tail(chan)) = Len(chan) - 1
      /\ \A i \in 1 .. Len(Tail(chan)) : Tail(chan)[i] = chan[i + 1]
  BY <1>1
<1>3. content[chan[1]] \in Nat
  BY <1>1, <1>2
<1>4. /\ Append(received, content[chan[1]]) \in Seq(Nat)
      /\ Len(Append(received, content[chan[1]])) = Len(received) + 1
      /\ \A i \in 1 .. Len(received) :
            Append(received, content[chan[1]])[i] = received[i]
      /\ Append(received, content[chan[1]])[Len(received) + 1] = content[chan[1]]
  BY <1>3, AppendProperties
<1> QED
  BY <1>2, <1>4 DEF Receive, Holding, TesterPC

\* All other steps leave the pipe and what came out of it alone.
LEMMA PipeSteps ==
  ASSUME [Next]_vars
  PROVE  \/ UNCHANGED <<chan, received, input>>
         \/ SampleSend \/ Receive
  BY DEF Next, SamplerStep, SampleTimeout, Stop, Compare, Draw, Quit, Release, LeaveLoop,
         testerVars, vars

-----------------------------------------------------------------------------
(* Every part of the invariant is kept.                                    *)

LEMMA InitIInv == Init => IInv
<1> SUFFICES ASSUME Init PROVE IInv
  OBVIOUS
<1>1. /\ TypeOK /\ 0 \in Block
      /\ chan = <<>> /\ received = <<>> /\ ~Holding
      /\ spc = "store" /\ previous = NoBlock /\ packet = 0 /\ write_pointer = 0
      /\ content[0] = 1
  BY DEF Init, RingInit, SamplerInit, TypeOK, SamplerTypeOK, RingTypeOK, SamplerPC,
         TesterPC, Holding, Block
<1> QED
  BY <1>1 DEF IInv, PlacesDistinct, SamplerApart, NotInUse, FlagsProtect, Numbered,
              PacketsInOrder

LEMMA StepTypeOK == IInv /\ [Next]_vars => TypeOK'
<1> SUFFICES ASSUME IInv, [Next]_vars PROVE TypeOK'
  OBVIOUS
<1> USE DEF IInv, TypeOK, SamplerTypeOK, RingTypeOK
<1>1. CASE SamplerStep
  <2> USE <1>1 DEF SamplerStep, testerVars, ringVars
  <2>1. CASE Advance /\ UNCHANGED content
    BY <2>1, NextBlockInBlock DEF Advance, AdvanceWritePointer, SetStateReadable, SamplerPC
  <2>2. CASE Probe /\ UNCHANGED content
    BY <2>2 DEF Probe, SamplerPC
  <2>3. CASE Skip /\ UNCHANGED content
    BY <2>3, NextBlockInBlock DEF Skip, AdvanceWritePointer, SetStateReadable, SamplerPC
  <2>4. CASE ReturnNull /\ UNCHANGED content
    BY <2>4 DEF ReturnNull, SamplerPC
  <2>5. CASE Fill /\ content[packet] < MaxPackets
             /\ content' = [content EXCEPT ![write_pointer] = content[packet] + 1]
    <3>1. content[packet] + 1 \in 0 .. MaxPackets
      BY <2>5
    <3>2. content' \in [Block -> 0 .. MaxPackets]
      BY <2>5, <3>1
    <3> QED
      BY <2>5, <3>2 DEF Fill, SamplerPC
  <2> QED
    BY <2>1, <2>2, <2>3, <2>4, <2>5 DEF SamplerLocal
<1>2. CASE SampleSend
  <2>1. consumer' = consumer /\ hwm' = hwm
    BY <1>2 DEF SampleSend
  <2> QED
    BY <1>2, <2>1, SendEffect DEF ringVars, SamplerPC
<1>3. CASE SampleTimeout \/ Stop
  BY <1>3 DEF SampleTimeout, SendTimeout, Stop, RequestStop, testerVars, ringVars, SamplerPC
<1>4. CASE Receive
  <2>1. consumer' = consumer /\ hwm' = hwm
    BY <1>4 DEF Receive
  <2>2. /\ chan' \in Seq(Block) /\ Len(chan') = Len(chan) - 1
        /\ input' \in Block /\ packet_prev' = packet_prev /\ tpc' \in TesterPC
        /\ UNCHANGED <<ringVars, samplerVars, content>>
    BY <1>4, ReceiveEffect DEF Numbered
  <2> QED
    BY <1>4, <2>1, <2>2 DEF ringVars, samplerVars
<1>5. CASE Compare \/ Draw \/ Quit \/ LeaveLoop
  BY <1>5 DEF Compare, Draw, Quit, LeaveLoop, ringVars, samplerVars, TesterPC
<1>6. CASE Release
  BY <1>6 DEF Release, SetStateWritable, samplerVars, TesterPC
<1>7. CASE UNCHANGED vars
  BY <1>7 DEF vars, ringVars, samplerVars, testerVars
<1> QED
  BY <1>1, <1>2, <1>3, <1>4, <1>5, <1>6, <1>7 DEF Next

LEMMA StepPlacesDistinct == IInv /\ [Next]_vars => PlacesDistinct'
<1> SUFFICES ASSUME IInv, [Next]_vars PROVE PlacesDistinct'
  OBVIOUS
<1> USE DEF IInv, PlacesDistinct
<1>1. CASE SampleSend
  <2>1. NotInUse(previous)
    BY <1>1, SendEffect DEF SamplerApart, TypeOK
  <2>2. \A i \in 1 .. Len(chan') : i # Len(chan') => i \in 1 .. Len(chan)
    BY <1>1, SendEffect DEF TypeOK
  <2> QED
    BY <1>1, <2>1, <2>2, SendEffect DEF NotInUse, Holding
<1>2. CASE Receive
  <2>1. \A i \in 1 .. Len(chan') : i + 1 \in 1 .. Len(chan) /\ i + 1 # 1
    BY <1>2, ReceiveEffect DEF Numbered
  <2>2. 1 \in 1 .. Len(chan)
    BY <1>2, ReceiveEffect DEF Numbered
  <2>3. ASSUME NEW i \in 1 .. Len(chan') PROVE chan'[i] # input'
    BY <1>2, <2>1, <2>2, ReceiveEffect DEF Numbered
  <2>4. ASSUME NEW i \in 1 .. Len(chan'), NEW j \in 1 .. Len(chan'), chan'[i] = chan'[j]
        PROVE  i = j
    <3>1. i + 1 = j + 1
      BY <1>2, <2>1, <2>4, ReceiveEffect DEF Numbered
    <3> QED
      BY <3>1
  <2> QED
    BY <1>2, <2>3, <2>4, ReceiveEffect DEF Numbered
<1>3. ASSUME UNCHANGED <<chan, received, input>>, ~Receive PROVE PlacesDistinct'
  <2>1. Holding' => Holding
    BY <1>3 DEF Holding, Next, SamplerStep, SampleSend, SampleTimeout, Stop, Compare, Draw,
                Quit, Release, LeaveLoop, testerVars, vars
  <2> QED
    BY <1>3, <2>1
<1> QED
  BY <1>1, <1>2, <1>3, PipeSteps

\* Only the sampler puts blocks into use, and only the one it announces.
LEMMA StaysOut ==
  ASSUME IInv, [Next]_vars, NEW b \in Block, NotInUse(b), SampleSend => b # previous
  PROVE  NotInUse(b)'
<1> USE DEF IInv, NotInUse
<1>1. CASE SampleSend
  <2>1. \A i \in 1 .. Len(chan') : i # Len(chan') => i \in 1 .. Len(chan)
    BY <1>1, SendEffect DEF TypeOK
  <2> QED
    BY <1>1, <2>1, SendEffect DEF Holding
<1>2. CASE Receive
  <2>1. \A i \in 1 .. Len(chan') : i + 1 \in 1 .. Len(chan)
    BY <1>2, ReceiveEffect DEF Numbered
  <2>2. 1 \in 1 .. Len(chan)
    BY <1>2, ReceiveEffect DEF Numbered
  <2> QED
    BY <1>2, <2>1, <2>2, ReceiveEffect DEF Numbered
<1>3. ASSUME UNCHANGED <<chan, received, input>>, ~Receive PROVE NotInUse(b)'
  <2>1. Holding' => Holding
    BY <1>3 DEF Holding, Next, SamplerStep, SampleSend, SampleTimeout, Stop, Compare, Draw,
                Quit, Release, LeaveLoop, testerVars, vars
  <2> QED
    BY <1>3, <2>1
<1> QED
  BY <1>1, <1>2, <1>3, PipeSteps

LEMMA StepSamplerApart == IInv /\ [Next]_vars => SamplerApart'
<1> SUFFICES ASSUME IInv, [Next]_vars PROVE SamplerApart'
  OBVIOUS
<1> USE DEF IInv, TypeOK, SamplerTypeOK, RingTypeOK
<1>1. packet \in Block /\ NotInUse(packet) /\ (previous # NoBlock => NotInUse(previous))
  BY DEF SamplerApart
<1>2. CASE SamplerStep
  <2>1. UNCHANGED <<chan, tpc, input>>
    BY <1>2 DEF SamplerStep, testerVars
  <2>2. CASE Advance
    BY <1>1, <2>1, <2>2 DEF Advance, SamplerApart, NotInUse, Holding
  <2>3. CASE Probe /\ ~writable[write_pointer]
    BY <1>1, <2>1, <2>3 DEF Probe, ringVars, SamplerApart, NotInUse, Holding
  <2>4. CASE Probe /\ writable[write_pointer]
    <3>1. previous = packet /\ ~writable[packet]
      BY <2>4 DEF Probe, SamplerApart, FlagsProtect
    <3>2. NotInUse(write_pointer) /\ write_pointer # packet
      BY <2>4, <3>1 DEF NotInUse, FlagsProtect
    <3> QED
      BY <1>1, <2>1, <2>4, <3>1, <3>2 DEF Probe, ringVars, SamplerApart, NotInUse, Holding
  <2>5. CASE Skip
    BY <1>1, <2>1, <2>5 DEF Skip, SamplerApart, NotInUse, Holding
  <2>6. CASE Fill
    BY <1>1, <2>1, <2>6 DEF Fill, ringVars, SamplerApart, NotInUse, Holding
  <2>7. CASE ReturnNull
    BY <1>1, <2>1, <2>7 DEF ReturnNull, ringVars, SamplerApart, NotInUse, Holding
  <2> QED
    BY <1>2, <2>2, <2>3, <2>4, <2>5, <2>6, <2>7 DEF SamplerStep, SamplerLocal
<1>3. CASE SampleSend
  <2>1. /\ spc' = "store" /\ previous' = NoBlock
        /\ packet' = packet /\ packet # previous /\ write_pointer' = packet
    BY <1>3, SendEffect DEF SamplerApart, ringVars
  <2>2. PICK b \in Block : b = packet
    OBVIOUS
  <2>3. NotInUse(b)'
    BY <1>1, <2>1, <2>2, StaysOut
  <2> QED
    BY <2>1, <2>2, <2>3 DEF SamplerApart, NotInUse
<1>4. CASE SampleTimeout
  <2>1. /\ spc' = "done" /\ packet' = packet /\ previous' = previous
        /\ UNCHANGED <<chan, tpc, input>>
    BY <1>4 DEF SampleTimeout, SendTimeout, testerVars
  <2> QED
    BY <1>1, <2>1 DEF SamplerApart, NotInUse, Holding
<1>5. ASSUME UNCHANGED <<spc, packet, previous, write_pointer>> PROVE SamplerApart'
  <2>1. ~SampleSend
    BY <1>5 DEF SampleSend, SendOk
  <2>2. \A b \in Block : NotInUse(b) => NotInUse(b)'
    BY <2>1, StaysOut
  <2>3. \A b \in Block : b = packet => NotInUse(packet)'
    BY <1>1, <1>5, <2>2 DEF NotInUse
  <2>4. \A b \in Block : b = previous => NotInUse(previous)'
    BY <1>1, <1>5, <2>2 DEF NotInUse
  <2>5. \A b \in Block : b = write_pointer /\ spc = "fill" => NotInUse(write_pointer)'
    BY <1>5, <2>2 DEF NotInUse, SamplerApart
  <2> QED
    BY <1>5, <2>3, <2>4, <2>5 DEF SamplerApart
<1> QED
  BY <1>2, <1>3, <1>4, <1>5
     DEF Next, Stop, RequestStop, Receive, Compare, Draw, Quit, Release, LeaveLoop, ringVars,
         samplerVars, vars

LEMMA StepFlagsProtect == IInv /\ [Next]_vars => FlagsProtect'
<1> SUFFICES ASSUME IInv, [Next]_vars PROVE FlagsProtect'
  OBVIOUS
<1> USE DEF IInv, TypeOK, SamplerTypeOK, RingTypeOK
<1>1. /\ \A i \in 1 .. Len(chan) : chan[i] \in Block /\ ~writable[chan[i]]
      /\ Holding => ~writable[input]
      /\ previous # NoBlock => ~writable[previous]
  BY DEF FlagsProtect
<1>2. CASE SamplerStep
  <2>1. UNCHANGED <<chan, tpc, input>>
    BY <1>2 DEF SamplerStep, testerVars
  <2>2. CASE Advance \/ Skip
    <3>1. writable' = [writable EXCEPT ![write_pointer] = FALSE]
      BY <2>2 DEF Advance, Skip, AdvanceWritePointer, SetStateReadable
    <3>2. previous' = previous \/ previous' = write_pointer
      BY <2>2 DEF Advance, Skip, SamplerApart
    <3>3. \A b \in Block : ~writable[b] => ~writable'[b]
      BY <3>1
    <3>4. ~writable'[write_pointer]
      BY <3>1
    <3>5. Holding => input \in Block
      BY DEF PlacesDistinct
    <3> QED
      BY <1>1, <2>1, <3>2, <3>3, <3>4, <3>5 DEF FlagsProtect, Holding
  <2>3. CASE Probe \/ ReturnNull \/ Fill
    BY <1>1, <2>1, <2>3 DEF Probe, ReturnNull, Fill, ringVars, FlagsProtect, Holding
  <2> QED
    BY <1>2, <2>2, <2>3 DEF SamplerStep, SamplerLocal
<1>3. CASE SampleSend
  <2>1. \A i \in 1 .. Len(chan') : i # Len(chan') => i \in 1 .. Len(chan)
    BY <1>3, SendEffect
  <2>2. previous \in Block /\ previous # NoBlock
    BY <1>3, SendEffect
  <2> QED
    BY <1>1, <1>3, <2>1, <2>2, SendEffect DEF FlagsProtect, Holding, ringVars
<1>4. CASE Receive
  <2>1. \A i \in 1 .. Len(chan') : i + 1 \in 1 .. Len(chan)
    BY <1>4, ReceiveEffect DEF Numbered
  <2>2. 1 \in 1 .. Len(chan) /\ writable' = writable /\ previous' = previous
    BY <1>4, ReceiveEffect DEF Numbered, ringVars, samplerVars
  <2>3. input' = chan[1] /\ \A i \in 1 .. Len(chan') : chan'[i] = chan[i + 1]
    BY <1>4, ReceiveEffect DEF Numbered
  <2> QED
    BY <1>1, <2>1, <2>2, <2>3 DEF FlagsProtect
<1>5. CASE Release
  <2>1. /\ Holding /\ ~Holding' /\ input \in Block
        /\ writable' = [writable EXCEPT ![input] = TRUE]
        /\ UNCHANGED <<chan, previous>>
    BY <1>5 DEF Release, Holding, SetStateWritable, PlacesDistinct, samplerVars
  <2>2. \A b \in Block : b # input => writable'[b] = writable[b]
    BY <2>1
  <2>3. previous # NoBlock => previous # input
    BY <2>1 DEF SamplerApart, NotInUse
  <2> QED
    BY <1>1, <2>1, <2>2, <2>3 DEF FlagsProtect, PlacesDistinct
<1>6. CASE SampleTimeout \/ Stop \/ UNCHANGED vars
  BY <1>1, <1>6 DEF SampleTimeout, SendTimeout, Stop, RequestStop, testerVars, ringVars,
                    samplerVars, vars, FlagsProtect, Holding
<1>7. CASE Compare \/ Draw \/ Quit \/ LeaveLoop
  BY <1>1, <1>7 DEF Compare, Draw, Quit, LeaveLoop, ringVars, samplerVars, FlagsProtect, Holding
<1> QED
  BY <1>2, <1>3, <1>4, <1>5, <1>6, <1>7 DEF Next

LEMMA StepNumbered == IInv /\ [Next]_vars => Numbered'
<1> SUFFICES ASSUME IInv, [Next]_vars PROVE Numbered'
  OBVIOUS
<1> USE DEF IInv, TypeOK, SamplerTypeOK, RingTypeOK
<1>1. received \in Seq(Nat) /\ chan \in Seq(Block) /\ Len(received) \in Nat
  BY DEF Numbered
<1>2. CASE SamplerStep
  <2>1. UNCHANGED <<chan, tpc, input, received>>
    BY <1>2 DEF SamplerStep, testerVars
  <2>2. CASE SamplerLocal /\ UNCHANGED content
    <3>1. \/ spc = "store" /\ spc' = "probe" /\ previous' = packet
          \/ spc \in {"probe", "skip"} /\ spc' \in {"probe", "skip", "fill"}
             /\ previous' = previous
          \/ spc' = "done"
      <4>1. CASE Advance
        BY <4>1 DEF Advance
      <4>2. CASE Probe
        BY <4>2 DEF Probe
      <4>3. CASE Skip \/ ReturnNull
        BY <4>3 DEF Skip, ReturnNull
      <4> QED
        BY <2>2, <4>1, <4>2, <4>3 DEF SamplerLocal
    <3> QED
      BY <2>1, <2>2, <3>1 DEF Numbered, PacketsInOrder, Holding
  <2>3. CASE Fill /\ content' = [content EXCEPT ![write_pointer] = content[packet] + 1]
    <3>1. /\ packet' = write_pointer /\ previous' = previous /\ previous = packet
          /\ write_pointer # packet /\ NotInUse(write_pointer)
          /\ spc = "fill" /\ spc' \in {"send", "done"}
      BY <2>3 DEF Fill, SamplerApart
    <3>2. /\ \A b \in Block : b # write_pointer => content'[b] = content[b]
          /\ content'[write_pointer] = content[packet] + 1
      BY <2>3
    <3>3. \A i \in 1 .. Len(chan) : content'[chan[i]] = content[chan[i]]
      BY <1>1, <3>1, <3>2 DEF NotInUse
    <3>4. Holding => content'[input] = content[input]
      BY <3>1, <3>2 DEF NotInUse, PlacesDistinct
    <3>5. content'[previous] = content[previous]
      BY <3>1, <3>2
    <3> QED
      BY <2>1, <3>1, <3>2, <3>3, <3>4, <3>5 DEF Numbered, PacketsInOrder, Holding
  <2> QED
    BY <1>2, <2>2, <2>3 DEF SamplerStep, SamplerLocal
<1>3. CASE SampleSend
  <2>1. \A i \in 1 .. Len(chan') : i # Len(chan') => i \in 1 .. Len(chan)
    BY <1>3, SendEffect
  <2>2. /\ Len(chan') = Len(chan) + 1 /\ chan'[Len(chan')] = previous
        /\ \A i \in 1 .. Len(chan) : chan'[i] = chan[i]
        /\ spc = "send" /\ spc' = "store"
        /\ UNCHANGED <<packet, content, tpc, input, received>>
    BY <1>3, SendEffect
  <2>3. ASSUME NEW i \in 1 .. Len(chan') PROVE content[chan'[i]] = Len(received) + i
    <3>1. CASE i \in 1 .. Len(chan)
      BY <2>2, <3>1 DEF Numbered
    <3>2. CASE i = Len(chan')
      BY <1>1, <2>2, <3>2 DEF Numbered
    <3> QED
      BY <2>1, <3>1, <3>2
  <2>4. content[packet] = Len(received) + Len(chan') + 1
    BY <1>1, <2>2 DEF Numbered
  <2> QED
    BY <2>2, <2>3, <2>4 DEF Numbered, PacketsInOrder, Holding
<1>4. CASE Receive
  <2>1. /\ 1 \in 1 .. Len(chan) /\ Len(chan') = Len(chan) - 1
        /\ \A i \in 1 .. Len(chan') : chan'[i] = chan[i + 1] /\ i + 1 \in 1 .. Len(chan)
        /\ input' = chan[1] /\ Holding'
        /\ received' \in Seq(Nat) /\ Len(received') = Len(received) + 1
        /\ \A i \in 1 .. Len(received) : received'[i] = received[i]
        /\ received'[Len(received')] = content[chan[1]]
        /\ UNCHANGED <<spc, packet, previous, content>>
    <3>1. Len(chan) \in Nat \ {0} /\ Len(chan') = Len(chan) - 1
      BY <1>1, <1>4, ReceiveEffect
    <3>2. 1 \in 1 .. Len(chan) /\ \A i \in 1 .. Len(chan') : i + 1 \in 1 .. Len(chan)
      BY <3>1
    <3> QED
      BY <1>1, <1>4, <3>1, <3>2, ReceiveEffect DEF samplerVars
  <2>2. content[chan[1]] = Len(received')
    BY <2>1 DEF Numbered
  <2>3. ASSUME NEW i \in 1 .. Len(received') PROVE received'[i] = i
    <3>1. i \in 1 .. Len(received) \/ i = Len(received')
      BY <1>1, <2>1
    <3> QED
      BY <2>1, <2>2, <3>1 DEF Numbered, PacketsInOrder
  <2>4. ASSUME NEW i \in 1 .. Len(chan') PROVE content[chan'[i]] = Len(received') + i
    <3>1. i + 1 \in 1 .. Len(chan) /\ chan'[i] = chan[i + 1]
      BY <2>1
    <3>2. content[chan[i + 1]] = Len(received) + (i + 1)
      BY <3>1 DEF Numbered
    <3>3. Len(received') + i = Len(received) + (i + 1)
      BY <1>1, <2>1
    <3> QED
      BY <3>1, <3>2, <3>3
  <2>5. Len(received') + Len(chan') = Len(received) + Len(chan)
    BY <1>1, <2>1
  <2>6. /\ spc = "store" => content[packet] = Len(received') + Len(chan') + 1
        /\ spc \in {"probe", "skip", "fill", "send"} =>
              content[previous] = Len(received') + Len(chan') + 1
        /\ spc = "send" => content[packet] = content[previous] + 1
    BY <2>5 DEF Numbered
  <2> QED
    BY <1>1, <2>1, <2>2, <2>3, <2>4, <2>6 DEF Numbered, PacketsInOrder
<1>5. ASSUME UNCHANGED <<chan, input, received, content, packet, previous>>,
             Holding' => Holding, spc' \in {spc, "done"}
      PROVE  Numbered'
  BY <1>5 DEF Numbered, PacketsInOrder
<1>6. CASE SampleTimeout \/ Stop \/ UNCHANGED vars
  BY <1>5, <1>6 DEF SampleTimeout, SendTimeout, Stop, RequestStop, testerVars, samplerVars,
                    vars, Holding
<1>7. CASE Compare \/ Draw \/ Quit \/ Release \/ LeaveLoop
  BY <1>5, <1>7 DEF Compare, Draw, Quit, Release, LeaveLoop, samplerVars, Holding
<1> QED
  BY <1>2, <1>3, <1>4, <1>6, <1>7 DEF Next

LEMMA StepIInv == IInv /\ [Next]_vars => IInv'
  BY StepTypeOK, StepPlacesDistinct, StepSamplerApart, StepFlagsProtect, StepNumbered DEF IInv

LEMMA Inductive == Spec => []IInv
  BY InitIInv, StepIInv, PTL DEF Spec

-----------------------------------------------------------------------------
(* The theorems.                                                           *)

\* Every variable has its type: the pipe carries indices of blocks only, and no more
\* than it takes.
THEOREM TypeCorrect == Spec => []TypeOK
<1>1. IInv => TypeOK
  BY DEF IInv
<1> QED
  BY <1>1, Inductive, PTL

\* However the sampler skips about the ring (sdr.hpp:638-640), and on every ring, the
\* integrity tester and the histogram get packet 1, 2, 3, ... with none left out,
\* repeated or replaced, up to the moment they stop.
THEOREM InOrder == Spec => []PacketsInOrder
<1>1. IInv => PacketsInOrder
  BY DEF IInv, Numbered
<1> QED
  BY <1>1, Inductive, PTL

\* The flag of the block at hand keeps the sampler off it until the consumer sets it
\* writable (sdr.hpp:824, 868), wherever the sampler is.
THEOREM Stable == Spec => []InputIsStable
<1>1. IInv => InputIsStable
  BY DEF IInv, Numbered, PacketsInOrder, Holding, InputIsStable
<1> QED
  BY <1>1, Inductive, PTL

-----------------------------------------------------------------------------
(* The comparison of neighbours.  On a long ring the sampler never finds a *)
(* block in use: the packets go round the ring in turn, and the block of   *)
(* the packet before the one at hand is the last to be taken again.        *)

RingIsLong == NBlocks > hwm + 3

\* Packet n lies in the block where it belongs, and only blocks in use have their flags
\* down.
PacketsInTurn ==
  /\ spc # "skip"
  /\ spc \in {"probe", "fill"} => write_pointer = NextBlock(packet)
  /\ \A b \in Block : content[b] > 0 => (content[b] - 1) % NBlocks = b
  /\ spc # "done" => \A b \in Block : ~writable[b] => b = previous \/ ~NotInUse(b)

\* packet_prev holds the packet before the one in input, or after the comparison that one.
PrevKept ==
  packet_prev # NoBlock =>
    /\ consumer = "tester"
    /\ content[packet_prev] > 0
    /\ content[packet_prev] = IF tpc = "compare" THEN Len(received) - 1 ELSE Len(received)

InTurn == RingIsLong /\ tpc # "done" => PacketsInTurn /\ PrevKept

\* The block after that of packet p is the one of the next packet.
LEMMA NextInTurn ==
  ASSUME NEW p \in Nat \ {0}
  PROVE  p % NBlocks = (((p - 1) % NBlocks) + 1) % NBlocks
<1> DEFINE q == (p - 1) \div NBlocks
<1> DEFINE b == (p - 1) % NBlocks
<1>1. p - 1 \in Nat /\ NBlocks \in Nat \ {0}
  OBVIOUS
<1>2. q \in Nat /\ b \in 0 .. NBlocks - 1 /\ p - 1 = q * NBlocks + b
  BY <1>1, Dividing
<1> HIDE DEF q, b
<1>3. CASE b + 1 < NBlocks
  <2>1. b + 1 \in 0 .. NBlocks - 1 /\ b + 1 \in Nat /\ p = q * NBlocks + (b + 1)
        /\ b + 1 = 0 * NBlocks + (b + 1)
    BY <1>2, <1>3
  <2> DEFINE c == b + 1
  <2> HIDE DEF c
  <2>2. c \in 0 .. NBlocks - 1 /\ c \in Nat /\ p = q * NBlocks + c /\ c = 0 * NBlocks + c
    BY <2>1 DEF c
  <2>3. p % NBlocks = c
    BY <1>2, <2>2, QuotientIs
  <2>4. c % NBlocks = c
    BY <2>2, QuotientIs
  <2> QED
    BY <2>3, <2>4 DEF b, c
<1>4. CASE b + 1 = NBlocks
  <2>1. q + 1 \in Nat /\ p = (q + 1) * NBlocks + 0 /\ NBlocks = 1 * NBlocks + 0 /\ 0 \in 0 .. NBlocks - 1
    BY <1>2, <1>4
  <2> DEFINE k == q + 1
  <2> HIDE DEF k
  <2>2. k \in Nat /\ p = k * NBlocks + 0
    BY <2>1 DEF k
  <2>3. p % NBlocks = 0
    BY <2>1, <2>2, QuotientIs
  <2>4. NBlocks % NBlocks = 0
    BY <2>1, QuotientIs
  <2> QED
    BY <1>4, <2>3, <2>4 DEF b
<1> QED
  BY <1>2, <1>3, <1>4

\* Packets that are less than a ring apart lie in different blocks.
LEMMA OneRingApart ==
  ASSUME NEW x \in Nat, NEW y \in Nat, x < y, y - x < NBlocks
  PROVE  x % NBlocks # y % NBlocks
<1> SUFFICES ASSUME x % NBlocks = y % NBlocks PROVE FALSE
  OBVIOUS
<1> DEFINE i == x \div NBlocks
<1> DEFINE j == y \div NBlocks
<1> DEFINE r == x % NBlocks
<1>1. i \in Nat /\ j \in Nat /\ r \in Nat /\ x = i * NBlocks + r /\ y = j * NBlocks + r
  <2>1. NBlocks \in Nat \ {0}
    OBVIOUS
  <2>2. i \in Nat /\ r \in Nat /\ x = i * NBlocks + r
    BY <2>1, Dividing
  <2>3. j \in Nat /\ y = j * NBlocks + (y % NBlocks)
    BY <2>1, Dividing
  <2> QED
    BY <2>2, <2>3
<1> HIDE DEF i, j, r
<1>2. (j - i) * NBlocks = y - x /\ j - i \in Int
  BY <1>1
<1>3. CASE j - i >= 1
  <2>1. (j - i) * NBlocks >= 1 * NBlocks
    BY <1>1, <1>3
  <2> QED
    BY <1>2, <2>1
<1>4. CASE j - i <= 0
  <2>1. (j - i) * NBlocks <= 0 * NBlocks
    BY <1>1, <1>4
  <2> QED
    BY <1>2, <2>1
<1> QED
  BY <1>2, <1>3, <1>4

\* Where the next packet goes is neither in use nor the block compared with last.
LEMMA NextIsFree ==
  ASSUME IInv, RingIsLong, tpc # "done", PacketsInTurn, PrevKept, spc \in {"probe", "fill"}
  PROVE  /\ write_pointer = content[packet] % NBlocks
         /\ writable[write_pointer] \/ spc = "fill"
         /\ write_pointer # packet_prev
<1> USE DEF IInv, TypeOK, SamplerTypeOK, RingTypeOK
<1> DEFINE P == content[packet]
<1>1. /\ packet \in Block /\ previous = packet /\ write_pointer = NextBlock(packet)
      /\ Len(received) \in Nat /\ Len(chan) \in Nat /\ Len(chan) <= hwm /\ hwm \in Nat
      /\ P = Len(received) + Len(chan) + 1
  BY DEF PacketsInTurn, SamplerApart, Numbered
<1> HIDE DEF P
<1>2. P \in Nat \ {0} /\ (P - 1) % NBlocks = packet
  <2>1. P \in Nat \ {0}
    BY <1>1
  <2>2. P > 0 => (P - 1) % NBlocks = packet
    BY <1>1 DEF PacketsInTurn, P
  <2> QED
    BY <2>1, <2>2
<1>3. write_pointer = P % NBlocks
  BY <1>1, <1>2, NextInTurn DEF NextBlock
<1>4. ASSUME NEW b \in Block, content[b] \in Nat \ {0}, content[b] <= P, P - content[b] < NBlocks - 1
      PROVE  b # write_pointer
  <2> DEFINE x == content[b] - 1
  <2>1. x \in Nat /\ x < P /\ P - x < NBlocks /\ x % NBlocks = b
    BY <1>2, <1>4 DEF PacketsInTurn
  <2> HIDE DEF x
  <2> QED
    BY <1>2, <1>3, <2>1, OneRingApart
<1>5. ASSUME spc = "probe" PROVE writable[write_pointer]
  <2> SUFFICES ASSUME ~writable[write_pointer] PROVE FALSE
    OBVIOUS
  <2>1. write_pointer \in Block /\ (write_pointer = packet \/ ~NotInUse(write_pointer))
    BY <1>1, <1>5 DEF PacketsInTurn
  <2>2. write_pointer # packet
    BY <1>1, <1>2, <1>4 DEF P, RingIsLong
  <2>3. ASSUME NEW i \in 1 .. Len(chan), chan[i] = write_pointer PROVE FALSE
    <3>1. chan[i] \in Block /\ content[chan[i]] = Len(received) + i
      BY DEF Numbered
    <3>2. content[chan[i]] \in Nat \ {0} /\ content[chan[i]] <= P /\ P - content[chan[i]] < NBlocks - 1
      BY <1>1, <3>1 DEF RingIsLong
    <3> QED
      BY <1>4, <2>3, <3>1, <3>2
  <2>4. ASSUME Holding, input = write_pointer PROVE FALSE
    <3>1. input \in Block /\ content[input] = Len(received) /\ Len(received) > 0
      BY <2>4 DEF Numbered, PlacesDistinct
    <3>2. content[input] \in Nat \ {0} /\ content[input] <= P /\ P - content[input] < NBlocks - 1
      BY <1>1, <3>1 DEF RingIsLong
    <3> QED
      BY <1>4, <2>4, <3>1, <3>2
  <2> QED
    BY <2>1, <2>2, <2>3, <2>4 DEF NotInUse
<1>6. ASSUME packet_prev # NoBlock PROVE write_pointer # packet_prev
  <2>1. /\ packet_prev \in Block /\ content[packet_prev] > 0
        /\ content[packet_prev] \in {Len(received) - 1, Len(received)}
    BY <1>6 DEF PrevKept
  <2>2. content[packet_prev] \in Nat \ {0} /\ content[packet_prev] <= P
        /\ P - content[packet_prev] < NBlocks - 1
    BY <1>1, <2>1 DEF RingIsLong
  <2> QED
    BY <1>4, <2>1, <2>2
<1>7. write_pointer \in Block /\ NoBlock \notin Block
  BY <1>1
<1> QED
  BY <1>3, <1>5, <1>6, <1>7 DEF P

\* The capacity of the pipe stays, and a consumer that is done stays so.
LEMMA StaysDone ==
  ASSUME [Next]_vars
  PROVE  RingIsLong' = RingIsLong /\ (tpc' # "done" => tpc # "done")
  BY DEF RingIsLong, Next, SamplerStep, SampleSend, SampleTimeout, Stop, Receive, Compare, Draw,
         Quit, Release, LeaveLoop, testerVars, vars

LEMMA StepInTurn == IInv /\ InTurn /\ [Next]_vars => InTurn'
<1> SUFFICES ASSUME IInv, InTurn, [Next]_vars, RingIsLong, tpc # "done", tpc' # "done"
             PROVE  PacketsInTurn' /\ PrevKept'
  BY StaysDone DEF InTurn
<1> USE DEF IInv, TypeOK, SamplerTypeOK, RingTypeOK
<1>0. PacketsInTurn /\ PrevKept
  BY DEF InTurn
<1>1. CASE Advance /\ UNCHANGED <<content, testerVars>>
  <2>1. /\ spc = "store" /\ spc' = "probe" /\ packet' = packet /\ write_pointer = packet
        /\ previous = NoBlock /\ previous' = packet /\ write_pointer' = NextBlock(packet)
        /\ writable' = [writable EXCEPT ![packet] = FALSE]
        /\ UNCHANGED <<content, chan, tpc, input>>
    BY <1>1 DEF Advance, AdvanceWritePointer, SetStateReadable, SamplerApart, testerVars
  <2>2. \A b \in Block : ~writable'[b] => b = packet \/ ~NotInUse(b)
    BY <1>0, <2>1 DEF PacketsInTurn
  <2>3. PacketsInTurn'
    BY <1>0, <2>1, <2>2 DEF PacketsInTurn, NotInUse, Holding
  <2> QED
    BY <1>0, <1>1, <2>3 DEF PrevKept, testerVars
<1>2. CASE Probe /\ UNCHANGED <<content, testerVars>>
  <2>1. spc = "probe" /\ spc' = "fill" /\ UNCHANGED <<packet, previous, ringVars>>
    BY <1>0, <1>2, NextIsFree DEF Probe
  <2> QED
    BY <1>0, <1>2, <2>1 DEF PacketsInTurn, PrevKept, NotInUse, Holding, ringVars, testerVars
<1>3. CASE Fill /\ UNCHANGED testerVars
           /\ content' = [content EXCEPT ![write_pointer] = content[packet] + 1]
  <2>1. /\ spc = "fill" /\ spc' \in {"send", "done"} /\ UNCHANGED <<previous, writable, write_pointer>>
        /\ write_pointer = content[packet] % NBlocks /\ write_pointer # packet_prev
        /\ UNCHANGED <<chan, tpc, input, packet_prev, consumer, received>>
    BY <1>0, <1>3, NextIsFree DEF Fill, ringVars, testerVars
  <2> DEFINE P == content[packet]
  <2>2. /\ \A b \in Block : b # write_pointer => content'[b] = content[b]
        /\ content'[write_pointer] = P + 1
    BY <1>3
  <2>3. P \in Nat /\ write_pointer = P % NBlocks
    BY <2>1
  <2> HIDE DEF P
  <2>4. \A b \in Block : content'[b] > 0 => (content'[b] - 1) % NBlocks = b
    <3> TAKE b \in Block
    <3>1. CASE b = write_pointer
      <4>1. content'[b] = P + 1 /\ P + 1 - 1 = P
        BY <2>2, <2>3, <3>1
      <4> QED
        BY <2>3, <3>1, <4>1
    <3>2. CASE b # write_pointer
      BY <1>0, <2>2, <3>2 DEF PacketsInTurn
    <3> QED
      BY <3>1, <3>2
  <2>5. PacketsInTurn'
    BY <1>0, <2>1, <2>4 DEF PacketsInTurn, NotInUse, Holding
  <2>6. PrevKept'
    BY <1>0, <2>1, <2>2 DEF PrevKept
  <2> QED
    BY <2>5, <2>6
<1>4. CASE SampleSend
  <2>1. /\ previous \in Block /\ spc' = "store" /\ previous' = NoBlock
        /\ Len(chan') = Len(chan) + 1 /\ Len(chan) \in Nat
        /\ \A i \in 1 .. Len(chan) : chan'[i] = chan[i]
        /\ chan'[Len(chan')] = previous
        /\ UNCHANGED <<ringVars, packet, content, tpc, input, packet_prev, received>>
    BY <1>4, SendEffect
  <2>2. ASSUME NEW b \in Block, b = previous \/ ~NotInUse(b) PROVE ~NotInUse(b)'
    <3>1. Len(chan') \in 1 .. Len(chan') /\ \A i \in 1 .. Len(chan) : i \in 1 .. Len(chan')
      BY <2>1
    <3> QED
      BY <2>1, <2>2, <3>1 DEF NotInUse, Holding
  <2>3. PacketsInTurn'
    BY <1>0, <1>4, <2>1, <2>2 DEF PacketsInTurn, ringVars, SampleSend, SendOk
  <2>4. consumer' = consumer
    BY <1>4 DEF SampleSend
  <2> QED
    BY <1>0, <2>1, <2>3, <2>4 DEF PrevKept
<1>5. CASE Receive
  <2>1. /\ Len(chan) \in Nat \ {0} /\ input' = chan[1] /\ Len(chan') = Len(chan) - 1
        /\ \A i \in 1 .. Len(chan') : chan'[i] = chan[i + 1]
        /\ Len(received') = Len(received) + 1 /\ Len(received) \in Nat
        /\ ~Holding /\ Holding'
        /\ UNCHANGED <<ringVars, samplerVars, content, packet_prev>>
    <3>1. received \in Seq(Nat) /\ Len(received) \in Nat
      BY DEF Numbered
    <3> QED
      BY <1>5, <3>1, ReceiveEffect
  <2>2. tpc = "receive" /\ tpc' = "compare" /\ consumer' = consumer
    BY <1>5 DEF Receive
  <2>3. ASSUME NEW b \in Block, ~NotInUse(b) PROVE ~NotInUse(b)'
    <3>1. PICK i \in 1 .. Len(chan) : chan[i] = b
      BY <2>1, <2>3 DEF NotInUse
    <3>2. CASE i = 1
      BY <2>1, <3>1, <3>2 DEF NotInUse
    <3>3. CASE i # 1
      <4>1. i - 1 \in 1 .. Len(chan') /\ (i - 1) + 1 = i
        BY <2>1, <3>3
      <4>2. chan'[i - 1] = b
        BY <2>1, <3>1, <4>1
      <4> QED
        BY <4>1, <4>2 DEF NotInUse
    <3> QED
      BY <3>2, <3>3
  <2>4. PacketsInTurn'
    BY <1>0, <2>1, <2>3 DEF PacketsInTurn, ringVars, samplerVars
  <2> QED
    BY <1>0, <2>1, <2>2, <2>4 DEF PrevKept
<1>6. CASE Release
  <2>1. /\ Holding /\ ~Holding' /\ input \in Block
        /\ writable' = [writable EXCEPT ![input] = TRUE]
        /\ UNCHANGED <<write_pointer, samplerVars, content, consumer, chan, packet_prev, received>>
    BY <1>6 DEF Release, Holding, SetStateWritable, PlacesDistinct
  <2>2. ASSUME NEW b \in Block, ~writable'[b], ~NotInUse(b) PROVE ~NotInUse(b)'
    <3>1. b # input
      BY <2>1, <2>2
    <3> QED
      BY <2>1, <2>2, <3>1 DEF NotInUse
  <2>3. \A b \in Block : ~writable'[b] => ~writable[b]
    BY <2>1
  <2>4. PacketsInTurn'
    BY <1>0, <2>1, <2>2, <2>3 DEF PacketsInTurn, samplerVars
  <2>5. tpc # "compare" /\ tpc' # "compare"
    BY <1>6 DEF Release
  <2> QED
    BY <1>0, <2>1, <2>4, <2>5 DEF PrevKept
<1>7. CASE Compare
  <2>1. content[input] = Len(received) /\ Len(received) > 0
    BY <1>7 DEF Compare, Holding, Numbered
  <2>2. PacketsInTurn'
    BY <1>0, <1>7 DEF Compare, PacketsInTurn, NotInUse, Holding, ringVars, samplerVars
  <2> QED
    BY <1>7, <2>1, <2>2 DEF Compare, PrevKept
<1>8. CASE Draw
  <2>1. packet_prev = NoBlock
    BY <1>0, <1>8 DEF Draw, PrevKept
  <2> QED
    BY <1>0, <1>8, <2>1 DEF Draw, PacketsInTurn, PrevKept, NotInUse, Holding, ringVars, samplerVars
<1>9. CASE (ReturnNull /\ UNCHANGED <<content, testerVars>>) \/ SampleTimeout
  <2>1. spc' = "done" /\ UNCHANGED <<packet, previous, ringVars, content, testerVars>>
    BY <1>9 DEF ReturnNull, SampleTimeout, SendTimeout
  <2> QED
    BY <1>0, <2>1 DEF PacketsInTurn, PrevKept, ringVars, testerVars
<1>10. CASE Stop \/ UNCHANGED vars
  <2>1. UNCHANGED <<spc, packet, previous, ringVars, content, testerVars>>
    BY <1>10 DEF Stop, RequestStop, vars, samplerVars
  <2> QED
    BY <1>0, <2>1 DEF PacketsInTurn, PrevKept, NotInUse, Holding, ringVars, testerVars
<1>11. ~(Skip \/ Quit \/ LeaveLoop)
  BY <1>0 DEF Skip, Quit, LeaveLoop, PacketsInTurn
<1> QED
  BY <1>1, <1>2, <1>3, <1>4, <1>5, <1>6, <1>7, <1>8, <1>9, <1>10, <1>11
     DEF Next, SamplerStep, SamplerLocal

\* On a ring of more than three blocks beyond what the pipe takes, as the 4096 of the
\* configuration are for a pipe of libzmq's usual size, the tester compares every packet
\* with the one before it, although it has set that one's block writable (sdr.hpp:804, 824).
THEOREM Neighbours == Spec => []ComparesNeighbours
<1>1. Init => InTurn
  <2> SUFFICES ASSUME Init PROVE PacketsInTurn /\ PrevKept
    BY DEF InTurn
  <2>1. /\ spc = "store" /\ packet_prev = NoBlock /\ 0 \in Block
        /\ \A b \in Block : writable[b] /\ content[b] = IF b = 0 THEN 1 ELSE 0
    BY DEF Init, RingInit, SamplerInit, Block
  <2>2. 0 \in Nat /\ 0 = 0 * NBlocks + 0 /\ 0 \in 0 .. NBlocks - 1
    OBVIOUS
  <2>3. 0 % NBlocks = 0 /\ 1 - 1 = 0
    BY <2>2, QuotientIs
  <2> QED
    BY <2>1, <2>3 DEF PacketsInTurn, PrevKept
<1>2. IInv /\ InTurn => ComparesNeighbours
  <2> SUFFICES ASSUME IInv, InTurn, RingIsLong, tpc = "compare", packet_prev # NoBlock
               PROVE  content[packet_prev] = content[input] - 1
    BY DEF ComparesNeighbours, RingIsLong
  <2>1. content[packet_prev] = Len(received) - 1
    BY DEF InTurn, PrevKept
  <2>2. content[input] = Len(received)
    BY DEF IInv, Numbered, Holding
  <2> QED
    BY <2>1, <2>2
<1> QED
  BY <1>1, <1>2, StepInTurn, Inductive, PTL DEF Spec
=============================================================================
