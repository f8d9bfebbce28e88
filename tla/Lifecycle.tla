------------------------------ MODULE Lifecycle ------------------------------
(***************************************************************************)
(* The life of the programs ssrx-usrp and ssrx-hackrf (main, lines 84-140) *)
(* as a service: opening the device, synchronising, starting the threads,  *)
(* the main loop, the stop; the receiving thread or callback of each       *)
(* driver, the monitor with its watchdog, the signal, the exit code, and   *)
(* the service manager, which starts a failed program again.               *)
(*                                                                         *)
(* Time is counted in turns of the monitor, one per monitor.interval: in   *)
(* each up to MaxAdvance blocks are filled, and any number of busy blocks  *)
(* is skipped.  The processing threads are one party here, `workers';      *)
(* Pipeline shows how they come to return, or not to.                      *)
(***************************************************************************)
EXTENDS Naturals

CONSTANTS
    NBlocks,        \* blocks of the ring
    MaxAdvance,     \* most blocks filled in one interval of the monitor
    StallLimit,     \* monitor.stalled_timeout in intervals
    StartTurns,     \* most intervals start_sampling waits for its start time
    FillTurns,      \* most intervals an undisturbed device takes to fill a block
    SendTurns       \* most intervals store() waits to announce a block

\* What a configuration must keep to for the watchdog to be right; the code checks
\* none of it.  With conf/ssrx.yaml: 4096 blocks, about 180 of them filled in 100 ms,
\* a limit of 30, waits of up to 25 and 17 intervals, and a block in less than one, the
\* first 100 ms after the wait for it.
ASSUME LifecycleAssumption ==
    /\ {NBlocks, MaxAdvance, StallLimit, StartTurns, FillTurns, SendTurns} \subseteq Nat \ {0}
    /\ MaxAdvance < NBlocks
    /\ StartTurns + FillTurns < StallLimit
    /\ SendTurns + FillTurns < StallLimit

VARIABLES
    driver,         \* which of the two programs it is
    proc,           \* how far main() has got
    outcome,        \* how the process ended
    signalled,      \* signal_stop_requested: the service manager asked for the end
    running,        \* SDR::running
    pps,            \* whether pulses arrive at the device
    device,         \* whether the device delivers samples
    stream,         \* the receiving thread or callback, and its place in store()
    workers,        \* the processing threads
    mon,            \* the monitor thread
    wptr,           \* write_pointer
    prev_wptr,      \* the monitor's copy
    stalled,        \* stalled_elapsed, in intervals
    moved,          \* blocks filled since the monitor's last turn
    spent,          \* the monitor's turns since start_sampling, or the present place
                    \* of the receiving thread, was entered
    still,          \* history: the monitor's turns since the write pointer moved, up to
                    \* the first that is too many
    lost,           \* history: an overflow threw samples away since a block was filled
    skipped         \* history: a busy block was skipped since the last turn ("now"), or
                    \* since the last interval that filled a block without it ("past")

deviceVars == <<driver, pps, device>>
monitorVars == <<mon, prev_wptr, stalled>>
flowVars == <<wptr, moved, spent, still, lost, skipped>>
vars == <<proc, outcome, signalled, running, stream, workers,
          deviceVars, monitorVars, flowVars>>

Phase == {"open", "sync", "threads", "start", "loop", "stop", "exited"}

\* The receiver fills a block; looks for the next one to write to; announces the
\* one it has filled.
Storing == {"seeking", "sending"}
Streaming == {"filling"} \cup Storing

\* Exit codes and signals Restart=on-failure acts upon.
Failed == {"failure", "terminated", "watchdog"}

Fresh ==
    /\ proc = "open" /\ outcome = "none" /\ running = TRUE
    /\ stream = "off" /\ workers = "off" /\ mon = "off"
    /\ wptr = 0 /\ prev_wptr = 0 /\ stalled = 0
    /\ moved = 0 /\ spent = 0 /\ still = 0
    /\ lost = FALSE /\ skipped = "none"

Init ==
    /\ Fresh
    /\ driver \in {"usrp", "hackrf"}
    /\ pps \in BOOLEAN
    /\ device \in {"good", "silent"}
    /\ signalled = FALSE

-----------------------------------------------------------------------------
(* main()                                                                  *)

Exit(how) == proc' = "exited" /\ outcome' = how

\* The constructor opens and configures the device, or throws.
Open ==
    /\ proc = "open"
    /\ IF device = "good" THEN proc' = "sync" /\ UNCHANGED outcome
                          ELSE Exit("failure")
    /\ UNCHANGED <<signalled, running, stream, workers, deviceVars, monitorVars, flowVars>>

\* The USRP waits until the time of the last pulse changes, or until `running' is
\* false, in which case it throws.
SynchronizeUsrp ==
    /\ proc = "sync" /\ driver = "usrp"
    /\ pps \/ ~running
    /\ IF running THEN proc' = "threads" /\ UNCHANGED outcome
                  ELSE Exit("failure")
    /\ UNCHANGED <<signalled, running, stream, workers, deviceVars, monitorVars, flowVars>>

\* The USRP's driver throws.
SynchronizeFails ==
    /\ proc = "sync" /\ driver = "usrp"
    /\ Exit("failure")
    /\ UNCHANGED <<signalled, running, stream, workers, deviceVars, monitorVars, flowVars>>

\* The HackRF takes the computer's clock.
SynchronizeHackRF ==
    /\ proc = "sync" /\ driver = "hackrf"
    /\ proc' = "threads"
    /\ UNCHANGED <<outcome, signalled, running, stream, workers, deviceVars, monitorVars, flowVars>>

\* start_correlator ... start_monitor: the monitor notes the write pointer.
StartThreads ==
    /\ proc = "threads"
    /\ proc' = "start"
    /\ workers' = "on" /\ mon' = "on"
    /\ prev_wptr' = wptr /\ stalled' = 0
    /\ UNCHANGED <<outcome, signalled, running, stream, deviceVars, flowVars>>

\* start_sampling, after the wait for the start time.
StartSampling ==
    /\ proc = "start"
    /\ proc' = "loop"
    /\ stream' = "filling" /\ spent' = 0
    /\ UNCHANGED <<outcome, signalled, running, workers, deviceVars, monitorVars,
                   wptr, moved, still, lost, skipped>>

\* wait_start_time finds the start time gone, or the driver cannot start the
\* stream: nobody catches the exception.
StartFails ==
    /\ proc = "start"
    /\ Exit("terminated")
    /\ UNCHANGED <<signalled, running, stream, workers, deviceVars, monitorVars, flowVars>>

\* hackrf_stop_rx ends the callbacks, once one that is in store() has returned; the
\* USRP's thread has to see `running'.
StreamAfterStop ==
    IF driver = "hackrf" /\ stream = "filling" THEN "done" ELSE stream

\* Mutant: the flag of the signal handler is not looked at.
LoopIsOverUnsignalled == ~running

\* The condition of the main loop.
LoopIsOver == signalled \/ ~running

\* The main loop ends, and stop() asks the others to end.
LeaveLoop ==
    /\ proc = "loop" /\ LoopIsOver
    /\ proc' = "stop"
    /\ running' = FALSE
    /\ stream' = StreamAfterStop
    /\ UNCHANGED <<outcome, signalled, workers, deviceVars, monitorVars, flowVars>>

\* hackrf_stop_rx, called while the stream is on, reports an error, or the USRP's driver
\* throws when it is told to stop: nobody catches the exception.
StopFails ==
    /\ proc = "loop" /\ LoopIsOver
    /\ driver = "hackrf" => stream \in Streaming
    /\ running' = FALSE
    /\ Exit("terminated")
    /\ UNCHANGED <<signalled, stream, workers, deviceVars, monitorVars, flowVars>>

\* The joins are through, and main returns.
Join ==
    /\ proc = "stop"
    /\ stream = "done" /\ workers = "done" /\ mon = "done"
    /\ Exit("success")
    /\ UNCHANGED <<signalled, running, stream, workers, deviceVars, monitorVars, flowVars>>

Alive == proc # "exited"
MainStep ==
    \/ Open \/ SynchronizeUsrp \/ SynchronizeFails \/ SynchronizeHackRF
    \/ StartThreads \/ StartSampling \/ StartFails
    \/ LeaveLoop \/ StopFails \/ Join

-----------------------------------------------------------------------------
(* The receiving thread or callback.                                       *)

receiverRest == <<proc, outcome, signalled, workers, deviceVars, monitorVars>>

\* The receiver goes on to another place.
Enter(place) == stream' = place /\ spent' = 0

\* The receiver asks all to stop, and returns.
GiveUp ==
    /\ running' = FALSE
    /\ stream' = "done"
    /\ UNCHANGED <<flowVars, receiverRest>>

\* Mutant: the pointer is not masked.
FilledUnmasked ==
    /\ Alive /\ running
    /\ stream = "filling" /\ device = "good"
    /\ moved < MaxAdvance
    /\ Enter("seeking")
    /\ moved' = moved + 1
    /\ wptr' = wptr + 1
    /\ still' = 0 /\ lost' = FALSE
    /\ UNCHANGED <<running, skipped, receiverRest>>

\* Samples arrive and fill a block: the pointer goes to the next one.
Filled ==
    /\ Alive /\ running
    /\ stream = "filling" /\ device = "good"
    /\ moved < MaxAdvance
    /\ Enter("seeking")
    /\ moved' = moved + 1
    /\ wptr' = (wptr + 1) % NBlocks
    /\ still' = 0 /\ lost' = FALSE
    /\ UNCHANGED <<running, skipped, receiverRest>>

\* That one is busy: on to the one behind it, for as long as none is writable.
SkipBusy ==
    /\ Alive /\ running
    /\ stream = "seeking"
    /\ Enter("seeking")
    /\ wptr' = (wptr + 1) % NBlocks
    /\ still' = 0 /\ skipped' = "now"
    /\ UNCHANGED <<running, moved, lost, receiverRest>>

\* It is writable, takes the overlap and the rest of the samples; the block before
\* is to be announced.
FindWritable ==
    /\ Alive /\ running
    /\ stream = "seeking"
    /\ Enter("sending")
    /\ UNCHANGED <<running, wptr, moved, still, lost, skipped, receiverRest>>

\* A lane takes the message.
Sent ==
    /\ Alive /\ running
    /\ stream = "sending"
    /\ Enter("filling")
    /\ UNCHANGED <<running, wptr, moved, still, lost, skipped, receiverRest>>

\* All lanes are full, and the send times out, whatever the device does meanwhile.
SendTimeout ==
    /\ Alive /\ running
    /\ stream = "sending"
    /\ GiveUp

\* USRP only: samples got lost before they could be read, and with them those that are
\* in the unfinished block.
Overflow ==
    /\ Alive /\ running
    /\ driver = "usrp" /\ stream = "filling" /\ device = "good"
    /\ lost' = TRUE /\ spent' = 0
    /\ UNCHANGED <<running, stream, wptr, moved, still, skipped, receiverRest>>

\* USRP only: recv returns after a second without samples.  (The HackRF's
\* callback is just not called any more.)
RecvTimeout ==
    /\ Alive /\ running
    /\ driver = "usrp" /\ stream = "filling" /\ device = "silent"
    /\ GiveUp

\* USRP only: recv reports an error other than these.
RecvError ==
    /\ Alive /\ running
    /\ driver = "usrp" /\ stream = "filling"
    /\ GiveUp

\* The USRP's thread sees that it is to stop, and so does store() in either program.
StreamEnds ==
    /\ Alive /\ ~running
    /\ stream \in (IF driver = "usrp" THEN Streaming ELSE Storing)
    /\ GiveUp

SamplerStep ==
    \/ Filled \/ SkipBusy \/ FindWritable \/ Sent \/ SendTimeout
    \/ Overflow \/ RecvTimeout \/ RecvError \/ StreamEnds

-----------------------------------------------------------------------------
(* The processing threads.                                                 *)

\* The processing threads return, or one of them is caught in a send.
WorkersEnd ==
    /\ Alive /\ ~running
    /\ workers = "on"
    /\ workers' \in {"done", "stuck"}
    /\ UNCHANGED <<proc, outcome, signalled, running, stream, deviceVars, monitorVars, flowVars>>

-----------------------------------------------------------------------------
(* The monitor.                                                            *)

\* When the monitor's next turn is due.  The clock is the monitor's alone; this says how
\* long the others can be where they are: neither start_sampling nor the send in
\* store() waits for ever, a device in order fills a block in time unless an overflow
\* begins it anew, and to look at a flag takes no time.
TurnIsDue ==
    /\ proc = "start" => spent < StartTurns
    /\ stream = "filling" /\ device = "good" => spent < FillTurns
    /\ stream = "seeking" => spent = 0
    /\ stream = "sending" => spent < SendTurns

\* Mutant: the time is not set back when the pointer has moved.
StalledTurnsKept == IF wptr = prev_wptr THEN stalled + 1 ELSE stalled

\* Mutant: the copy is brought up to date before it is compared.
StalledTurnsMoved == 0

\* stalled_elapsed after the comparison of the pointer with its copy
StalledTurns == IF wptr = prev_wptr THEN stalled + 1 ELSE 0

\* Mutant: > for >=.
StalledLonger(turns) == turns > StallLimit

StalledTooLong(turns) == turns >= StallLimit

\* Counts of turns are kept up to the first that is too many.
OneMore(turns) == IF turns > StallLimit THEN turns ELSE turns + 1

\* One turn: publish the flags, compare the pointer, abort when it has stood still
\* too long.
MonitorTurn ==
    /\ Alive /\ running /\ mon = "on"
    /\ TurnIsDue
    /\ stalled' = StalledTurns
    /\ prev_wptr' = wptr
    /\ moved' = 0
    /\ spent' = OneMore(spent)
    /\ still' = OneMore(still)
    /\ skipped' = IF skipped = "now" THEN "past"
                  ELSE IF moved > 0 THEN "none" ELSE skipped
    /\ IF StalledTooLong(StalledTurns) THEN Exit("watchdog")
                                       ELSE UNCHANGED <<proc, outcome>>
    /\ UNCHANGED <<signalled, running, stream, workers, mon, wptr, lost, deviceVars>>

MonitorEnds ==
    /\ Alive /\ ~running /\ mon = "on"
    /\ mon' = "done"
    /\ UNCHANGED <<proc, outcome, signalled, running, stream, workers,
                   prev_wptr, stalled, deviceVars, flowVars>>

-----------------------------------------------------------------------------
(* The world around.                                                       *)

\* The service is stopped: KillSignal=SIGINT.
Signal ==
    /\ ~signalled
    /\ signalled' = TRUE
    /\ UNCHANGED <<proc, outcome, running, stream, workers, deviceVars, monitorVars, flowVars>>

\* A cable, the device or its driver fails in silence.
DeviceFails ==
    /\ Alive /\ device = "good"
    /\ device' = "silent"
    /\ UNCHANGED <<proc, outcome, signalled, running, stream, workers,
                   driver, pps, monitorVars, flowVars>>

\* What failed is set right by opening the device anew.
DeviceRecovers ==
    /\ ~Alive /\ device = "silent"
    /\ device' = "good"
    /\ UNCHANGED <<proc, outcome, signalled, running, stream, workers,
                   driver, pps, monitorVars, flowVars>>

\* Restart=on-failure; a service that has been stopped is not started again.
Restart ==
    /\ ~Alive /\ outcome \in Failed
    /\ ~signalled
    /\ proc' = "open" /\ outcome' = "none" /\ running' = TRUE
    /\ stream' = "off" /\ workers' = "off" /\ mon' = "off"
    /\ wptr' = 0 /\ prev_wptr' = 0 /\ stalled' = 0
    /\ moved' = 0 /\ spent' = 0 /\ still' = 0
    /\ lost' = FALSE /\ skipped' = "none"
    /\ UNCHANGED <<signalled, deviceVars>>

\* TimeoutStopSec, long after anything that was going to happen has happened: main()
\* waits for a pulse, or for a thread, that does not come.
Kill ==
    /\ Alive /\ signalled
    /\ \/ proc = "sync" /\ driver = "usrp" /\ ~pps
       \/ proc = "stop" /\ workers = "stuck"
    /\ Exit("killed")
    /\ UNCHANGED <<signalled, running, stream, workers, deviceVars, monitorVars, flowVars>>

ProgramStep ==
    \/ MainStep \/ SamplerStep \/ WorkersEnd
    \/ MonitorTurn \/ MonitorEnds

Next ==
    \/ ProgramStep
    \/ Signal \/ DeviceFails \/ DeviceRecovers \/ Restart \/ Kill

Spec == Init /\ [][Next]_vars

\* The threads run, recv and send keep their timeouts, the service manager does its
\* part.  The device may fail or not, it may fill blocks or overflow, and the receiver
\* finds a writable block or not.
FairSpec ==
    /\ Spec
    /\ WF_vars(MainStep)
    /\ WF_vars(SamplerStep)
    /\ WF_vars(WorkersEnd)
    /\ WF_vars(MonitorTurn)
    /\ WF_vars(MonitorEnds)
    /\ WF_vars(Restart)
    /\ WF_vars(Kill)

-----------------------------------------------------------------------------

TypeOK ==
    /\ driver \in {"usrp", "hackrf"}
    /\ proc \in Phase
    /\ outcome \in Failed \cup {"none", "success", "killed"}
    /\ {signalled, running, pps} \subseteq BOOLEAN
    /\ device \in {"good", "silent"}
    /\ stream \in Streaming \cup {"off", "done"}
    /\ workers \in {"off", "on", "done", "stuck"}
    /\ mon \in {"off", "on", "done"}
    /\ {wptr, prev_wptr} \subseteq 0 .. NBlocks - 1
    /\ stalled \in 0 .. StallLimit
    /\ moved \in 0 .. MaxAdvance
    /\ {spent, still} \subseteq 0 .. StallLimit + 1
    /\ lost \in BOOLEAN
    /\ skipped \in {"none", "now", "past"}

\* The watchdog aborts only when the device is silent and the write pointer has stood
\* still for the configured time; or when samples have been lost since the last
\* block was filled, or a busy block skipped since the last interval in which one was
\* filled without (the pointer may have gone round).  It does not abort for the waits
\* for the start and for a lane, nor for what came before the last block.
NoFalseAlarm ==
    [][outcome' = "watchdog" /\ outcome # "watchdog" =>
          \/ device = "silent" /\ still' >= StallLimit
          \/ lost \/ skipped # "none"]_vars

\* A receiver whose write pointer stands still is not left running for more than the
\* configured number of intervals; the one in which it last moved does not
\* count.  (One that skips from busy block to busy block moves the pointer and fills
\* none; that is not noticed.)
WatchdogInTime == Alive => still <= StallLimit

\* A HackRF that falls silent between two callbacks, which nothing but the watchdog
\* notices, is opened anew.  (In a callback that waits for a lane the send may time out,
\* and the program ends in good order.)
SilentHackRFRestarts ==
    driver = "hackrf" /\ device = "silent" /\ stream = "filling" /\ running
        ~> proc = "open" \/ signalled

\* "If ringbuffer write pointer does not advance for this duration, process exits
\* abnormally so systemd can restart it." (conf/ssrx.yaml:167): so too with the USRP.
\* The code does not keep this: the timeout of recv comes first.
SilentDeviceRestarts ==
    device = "silent" /\ stream = "filling" /\ running
        ~> proc = "open" \/ signalled

\* Stopping the service ends it, whatever the program is doing and whatever has
\* become of the device and the threads.
SignalEnds == signalled ~> ~Alive

\* A stop has to be enforced only if a processing thread is stuck; the wait for the
\* pulse ends by itself ("PPS synchronization canceled", usrp.hpp:217).  The code does
\* not keep this: nothing clears `running' during that wait.
StopIsObeyed == outcome = "killed" => workers = "stuck"
=============================================================================
