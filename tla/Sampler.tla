------------------------------- MODULE Sampler -------------------------------
(***************************************************************************)
(* The sampler: the device's receiving thread or callback                  *)
(* (usrp.hpp:284-354, hackrf.hpp:160-189) inside SDR::store                *)
(* (sdr.hpp:612-680), reduced to what it does to the ring.  The samples    *)
(* themselves are the subject of SampleStore.  The actions leave the       *)
(* message queues alone: a module that composes the sampler with consumers *)
(* conjoins SendOk with the enqueueing of `previous' and SendTimeout with  *)
(* the condition under which a send can time out.                          *)
(*                                                                         *)
(* `running' is SDR::running, polled by every thread; nothing sets it back *)
(* to true.                                                                *)
(***************************************************************************)
EXTENDS RingBuffer

CONSTANT NoBlock    \* "no block": a null or finished rb_data pointer

ASSUME NoBlockAssumption == NoBlock \notin Block

VARIABLES
    running,        \* SDR::running
    spc,            \* where the sampler is inside store()
    packet,         \* the block store() writes to
    previous        \* iread: the full block not announced yet, or NoBlock

samplerVars == <<running, spc, packet, previous>>

SamplerPC == {"store",      \* between calls of store(), or top of its outer loop
              "probe",      \* condition of the inner loop (line 638)
              "skip",       \* the probed block was not writable (line 639)
              "fill",       \* out of the inner loop (line 641)
              "send",       \* in socket.send, announcing `previous' (line 665)
              "done"}       \* store() returned nullptr; the driver gives up

SamplerInit ==
    /\ running = TRUE
    /\ spc = "store"
    /\ packet = write_pointer
    /\ previous = NoBlock

-----------------------------------------------------------------------------

\* Samples remain that `packet' cannot take: iread and previous are taken, then
\* the first advance_write_pointer.  A call of store() whose samples all fit
\* changes nothing that is modelled here.
Advance ==
    /\ spc = "store" /\ running
    /\ previous' = packet
    /\ AdvanceWritePointer
    /\ spc' = "probe"
    /\ UNCHANGED <<running, packet>>

\* Mutant: the flag is not looked at.
ProbeBlindly ==
    /\ spc = "probe" /\ running
    /\ spc' = "fill"
    /\ UNCHANGED <<running, packet, previous, ringVars>>

\* while (running && !write_buffer().is_writable())
Probe ==
    /\ spc = "probe" /\ running
    /\ spc' = IF writable[write_pointer] THEN "fill" ELSE "skip"
    /\ UNCHANGED <<running, packet, previous, ringVars>>

\* The loop body: the flag that was read a moment ago is overwritten.
Skip ==
    /\ spc = "skip"
    /\ AdvanceWritePointer
    /\ spc' = "probe"
    /\ UNCHANGED <<running, packet, previous>>

\* The successor is reset, takes the overlap of `previous' and the samples left; the
\* is_running() of line 660 decides whether `previous' is announced.
Fill ==
    /\ spc = "fill"
    /\ packet' = write_pointer
    /\ spc' = IF running THEN "send" ELSE "done"
    /\ UNCHANGED <<running, previous, ringVars>>

\* The index of `previous' went out.
SendOk ==
    /\ spc = "send"
    /\ previous' = NoBlock
    /\ spc' = "store"
    /\ UNCHANGED <<running, packet, ringVars>>

\* socket.send returned without sending after sndtimeo (a second or so with the
\* configuration of the repository): the receiver stops.
SendTimeout ==
    /\ spc = "send"
    /\ running' = FALSE
    /\ spc' = "done"
    /\ UNCHANGED <<packet, previous, ringVars>>

\* The other places where store() tests is_running() and returns nullptr, and the
\* loop or the callback of the driver, which calls store() no more.
ReturnNull ==
    /\ spc \in {"store", "probe", "fill"} /\ ~running
    /\ spc' = "done"
    /\ UNCHANGED <<running, packet, previous, ringVars>>

\* request_stop: the main loop after a signal, or a driver error.
RequestStop ==
    /\ running
    /\ running' = FALSE
    /\ UNCHANGED <<spc, packet, previous, ringVars>>

\* The steps of the sampler that touch nothing but the ring and its own state; Fill
\* writes a block besides, and SendOk and SendTimeout are a matter of the queue.
SamplerLocal == Advance \/ Probe \/ Skip \/ ReturnNull

SamplerTypeOK ==
    /\ RingTypeOK
    /\ running \in BOOLEAN
    /\ spc \in SamplerPC
    /\ packet \in Block
    /\ previous \in Block \cup {NoBlock}
=============================================================================
