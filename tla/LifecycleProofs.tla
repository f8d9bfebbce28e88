--------------------------- MODULE LifecycleProofs ---------------------------
(***************************************************************************)
(* Proofs about Lifecycle, for every size of the ring, every rate of       *)
(* filling it and every set of time limits that LifecycleAssumption        *)
(* admits: the watchdog aborts in time, and only when it should.           *)
(***************************************************************************)
EXTENDS Lifecycle, TLAPS

USE LifecycleAssumption DEF LifecycleAssumption

-----------------------------------------------------------------------------
(* The inductive invariant.                                                *)

\* What the monitor compares shows what it wants to know: if no block has been skipped
\* since the last turn, the pointer and its copy differ by the blocks filled since,
\* which do not go round the ring.
CopyTrails ==
    /\ skipped # "now" =>
          wptr = IF prev_wptr + moved < NBlocks THEN prev_wptr + moved
                                                ELSE prev_wptr + moved - NBlocks
    /\ still > 0 => moved = 0 /\ skipped # "now"

\* The monitor's count is not more than one behind the turns the pointer has really
\* stood still, nor ahead of them if it did not go round; and it is below the limit.
CountIsRight ==
    /\ still <= stalled + 1
    /\ skipped = "none" /\ moved = 0 => stalled <= still
    /\ Alive => stalled < StallLimit

\* How much of the count each place of the receiver, and the wait for the start, can
\* have brought about.
Undisturbed == Alive /\ moved = 0 /\ skipped = "none"

WaitIsShort ==
    /\ proc = "start" => stalled <= spent /\ spent <= StartTurns
    /\ stream = "seeking" /\ spent = 0 => moved > 0 \/ skipped = "now"
    /\ stream = "seeking" /\ Undisturbed => stalled = 0
    /\ stream = "sending" => spent <= SendTurns
    /\ stream = "sending" /\ Undisturbed => stalled <= spent
    /\ stream = "filling" /\ Undisturbed /\ device = "good" /\ ~lost =>
          stalled + FillTurns < StallLimit + spent

\* How far main() has got, and what runs.
PhasesAgree ==
    /\ proc \in {"open", "sync", "threads"} =>
          mon = "off" /\ spent = 0 /\ still = 0 /\ stalled = 0
    /\ proc \in {"open", "sync", "threads", "start"} =>
          stream = "off" /\ moved = 0 /\ skipped = "none"
    /\ proc = "loop" /\ running => stream \in Streaming
    /\ proc = "stop" => ~running

IInv ==
    /\ TypeOK
    /\ CopyTrails
    /\ CountIsRight
    /\ WaitIsShort
    /\ PhasesAgree

-----------------------------------------------------------------------------

LEMMA InitIInv == Init => IInv
<1> SUFFICES ASSUME Init PROVE IInv
  OBVIOUS
<1>1. TypeOK
  <2> USE DEF Init, Fresh, Phase, Streaming, Storing, Failed
  <2>1. {signalled, running, pps} \subseteq BOOLEAN /\ lost \in BOOLEAN
    BY Zenon
  <2>2. {wptr, prev_wptr} \subseteq 0 .. NBlocks - 1
    OBVIOUS
  <2>3. /\ stalled \in 0 .. StallLimit /\ moved \in 0 .. MaxAdvance
        /\ {spent, still} \subseteq 0 .. StallLimit + 1
    OBVIOUS
  <2> QED
    BY <2>1, <2>2, <2>3 DEF TypeOK
<1>2. CopyTrails /\ CountIsRight /\ WaitIsShort /\ PhasesAgree
  BY DEF Init, Fresh, CopyTrails, CountIsRight, WaitIsShort, PhasesAgree, Alive, Streaming, Storing
<1> QED
  BY <1>1, <1>2 DEF IInv

\* The steps that concern the monitor's count are those of the receiver between two
\* places, those that begin a life of the program or its sampling, and the monitor's
\* own.  All others leave the count and the places alone, or end the stream.
LEMMA Steps ==
  ASSUME IInv, [Next]_vars
  PROVE  \/ StartThreads \/ StartSampling \/ Filled \/ SkipBusy \/ FindWritable
         \/ Sent \/ Overflow \/ MonitorTurn \/ Restart
         \/ /\ UNCHANGED <<wptr, prev_wptr, stalled, flowVars>>
            /\ stream' \in {stream, "done"}
            /\ proc' = "start" => proc = "start"
            /\ proc' # "exited" => proc # "exited"
            /\ device' = "good" /\ proc' # "exited" => device = "good"
BY DEF Next, ProgramStep, MainStep, SamplerStep, Open, SynchronizeUsrp, SynchronizeFails,
       SynchronizeHackRF, StartFails, LeaveLoop, StreamAfterStop, StopFails, Join, SendTimeout,
       RecvTimeout, RecvError, StreamEnds, GiveUp, receiverRest, WorkersEnd, MonitorEnds, Signal,
       DeviceFails, DeviceRecovers, Kill, Exit, Alive, deviceVars, monitorVars, flowVars, vars

LEMMA StepTypeOK == IInv /\ [Next]_vars => TypeOK'
<1> SUFFICES ASSUME IInv, [Next]_vars PROVE TypeOK'
  OBVIOUS
<1> USE DEF IInv, TypeOK, Phase, Streaming, Storing, Failed, deviceVars, monitorVars, flowVars
<1>1. CASE MainStep
  <2>1. CASE Open \/ SynchronizeUsrp \/ SynchronizeFails \/ SynchronizeHackRF
    BY <2>1 DEF Open, SynchronizeUsrp, SynchronizeFails, SynchronizeHackRF, Exit
  <2>2. CASE StartThreads \/ StartSampling \/ StartFails
    BY <2>2 DEF StartThreads, StartSampling, StartFails, Exit
  <2>3. CASE LeaveLoop
    BY <2>3 DEF LeaveLoop, StreamAfterStop
  <2>4. CASE StopFails \/ Join
    BY <2>4 DEF StopFails, Join, Exit
  <2> QED
    BY <1>1, <2>1, <2>2, <2>3, <2>4 DEF MainStep
<1>2. CASE SamplerStep
  <2> USE DEF Enter, receiverRest
  <2>1. CASE Filled
    <3>1. lost' \in BOOLEAN
      BY <2>1, Zenon DEF Filled
    <3> QED
      BY <2>1, <3>1 DEF Filled
  <2>2. CASE SkipBusy
    BY <2>2 DEF SkipBusy
  <2>3. CASE FindWritable \/ Sent
    BY <2>3 DEF FindWritable, Sent
  <2>4. CASE SendTimeout \/ RecvTimeout \/ RecvError \/ StreamEnds
    BY <2>4 DEF SendTimeout, RecvTimeout, RecvError, StreamEnds, GiveUp
  <2>5. CASE Overflow
    <3>1. lost' \in BOOLEAN
      BY <2>5, Zenon DEF Overflow
    <3> QED
      BY <2>5, <3>1 DEF Overflow
  <2> QED
    BY <1>2, <2>1, <2>2, <2>3, <2>4, <2>5 DEF SamplerStep
<1>3. CASE WorkersEnd \/ MonitorEnds
  BY <1>3 DEF WorkersEnd, MonitorEnds
<1>4. CASE MonitorTurn
  <2>1. stalled' \in 0 .. StallLimit
    BY <1>4 DEF MonitorTurn, StalledTurns, CountIsRight
  <2>2. {spent', still'} \subseteq 0 .. StallLimit + 1
    BY <1>4 DEF MonitorTurn, OneMore
  <2> QED
    BY <1>4, <2>1, <2>2 DEF MonitorTurn, Exit
<1>5. CASE Signal \/ DeviceFails \/ DeviceRecovers \/ Kill
  BY <1>5 DEF Signal, DeviceFails, DeviceRecovers, Kill, Exit
<1>6. CASE Restart
  <2>1. lost' \in BOOLEAN /\ {signalled', running', pps'} \subseteq BOOLEAN
    BY <1>6, Zenon DEF Restart
  <2> QED
    BY <1>6, <2>1 DEF Restart
<1>7. CASE UNCHANGED vars
  BY <1>7 DEF vars
<1> QED
  BY <1>1, <1>2, <1>3, <1>4, <1>5, <1>6, <1>7 DEF Next, ProgramStep

LEMMA StepCopyTrails == IInv /\ [Next]_vars => CopyTrails'
<1> SUFFICES ASSUME IInv, [Next]_vars PROVE CopyTrails'
  OBVIOUS
<1> USE DEF IInv, TypeOK, CopyTrails, flowVars, receiverRest, monitorVars
<1>1. CASE StartThreads
  BY <1>1 DEF StartThreads, PhasesAgree
<1>2. CASE Filled
  <2>1. wptr' = IF wptr + 1 = NBlocks THEN 0 ELSE wptr + 1
    BY <1>2 DEF Filled
  <2>2. /\ moved' = moved + 1 /\ prev_wptr' = prev_wptr /\ moved < MaxAdvance
        /\ still' = 0 /\ skipped' = skipped
    BY <1>2 DEF Filled
  <2> QED
    BY <2>1, <2>2
<1>3. CASE SkipBusy
  BY <1>3 DEF SkipBusy
<1>4. CASE StartSampling \/ FindWritable \/ Sent \/ Overflow
  BY <1>4 DEF StartSampling, FindWritable, Sent, Overflow
<1>5. CASE MonitorTurn
  BY <1>5 DEF MonitorTurn
<1>6. CASE Restart
  BY <1>6 DEF Restart
<1>7. ASSUME UNCHANGED <<wptr, prev_wptr, stalled, flowVars>> PROVE CopyTrails'
  BY <1>7
<1> QED
  BY <1>1, <1>2, <1>3, <1>4, <1>5, <1>6, <1>7, Steps

\* If no block has been skipped since the last turn, the comparison in the monitor tells
\* whether one has been filled.
LEMMA ComparisonIsRight == IInv /\ skipped # "now" => (wptr = prev_wptr <=> moved = 0)
  BY DEF IInv, TypeOK, CopyTrails

\* What a turn of the monitor does to its count.
LEMMA TurnCounts ==
  ASSUME IInv, MonitorTurn
  PROVE  /\ stalled' \in {0, stalled + 1} /\ moved' = 0
         /\ still > 0 => stalled' = stalled + 1
         /\ skipped' = "none" => stalled' = IF moved = 0 THEN stalled + 1 ELSE 0
         /\ skipped' = "none" /\ moved = 0 => skipped = "none"
         /\ stalled < StallLimit
         /\ spent' = IF spent > StallLimit THEN spent ELSE spent + 1
         /\ still' = still + 1
<1>1. still <= StallLimit
  BY DEF IInv, TypeOK, CountIsRight, MonitorTurn
<1>2. skipped' = "none" => skipped # "now"
  BY DEF MonitorTurn
<1> QED
  BY <1>1, <1>2, ComparisonIsRight
     DEF IInv, TypeOK, CopyTrails, CountIsRight, MonitorTurn, StalledTurns, OneMore

LEMMA StepCountIsRight == IInv /\ [Next]_vars => CountIsRight'
<1> SUFFICES ASSUME IInv, [Next]_vars PROVE CountIsRight'
  OBVIOUS
<1> USE DEF IInv, TypeOK, CountIsRight, Alive, flowVars, receiverRest, monitorVars
<1>1. CASE StartThreads
  BY <1>1 DEF StartThreads, PhasesAgree
<1>2. CASE Filled \/ SkipBusy
  BY <1>2 DEF Filled, SkipBusy
<1>3. CASE StartSampling \/ FindWritable \/ Sent \/ Overflow
  BY <1>3 DEF StartSampling, FindWritable, Sent, Overflow
<1>4. CASE MonitorTurn
  <2>1. stalled' < StallLimit \/ proc' = "exited"
    BY <1>4 DEF MonitorTurn, StalledTooLong, Exit, StalledTurns
  <2> QED
    BY <1>4, <2>1, TurnCounts
<1>5. CASE Restart
  BY <1>5 DEF Restart
<1>6. ASSUME UNCHANGED <<wptr, prev_wptr, stalled, flowVars>>, Alive' => Alive
      PROVE  CountIsRight'
  BY <1>6
<1> QED
  BY <1>1, <1>2, <1>3, <1>4, <1>5, <1>6, Steps

LEMMA StepWaitIsShort == IInv /\ [Next]_vars => WaitIsShort'
<1> SUFFICES ASSUME IInv, [Next]_vars PROVE WaitIsShort'
  OBVIOUS
<1> USE DEF IInv, TypeOK, WaitIsShort, Undisturbed, Alive, Streaming, Storing,
            deviceVars, flowVars, receiverRest, monitorVars
<1>1. CASE StartThreads
  BY <1>1 DEF StartThreads, PhasesAgree
<1>2. CASE StartSampling
  BY <1>2 DEF StartSampling
<1>3. CASE Filled
  BY <1>3 DEF Filled, Enter, PhasesAgree
<1>4. CASE SkipBusy
  BY <1>4 DEF SkipBusy, Enter, PhasesAgree
<1>5. CASE FindWritable
  BY <1>5 DEF FindWritable, Enter, PhasesAgree
<1>6. CASE Sent
  BY <1>6 DEF Sent, Enter, PhasesAgree
<1>7. CASE Overflow
  BY <1>7 DEF Overflow, PhasesAgree
<1>8. CASE MonitorTurn
  <2>1. proc' \in {proc, "exited"} /\ stream' = stream /\ lost' = lost /\ device' = device /\ Alive
    BY <1>8 DEF MonitorTurn, Exit
  <2>2. proc' = "start" => stalled' <= spent' /\ spent' <= StartTurns
    BY <1>8, <2>1, TurnCounts DEF MonitorTurn, TurnIsDue
  <2>3. /\ stream = "seeking" => spent' = 1
        /\ stream = "seeking" /\ skipped' = "none" => stalled' = 0
    BY <1>8, TurnCounts DEF MonitorTurn, TurnIsDue
  <2>4. /\ stream = "sending" => spent' = spent + 1 /\ spent' <= SendTurns
        /\ stream = "sending" /\ skipped' = "none" => stalled' <= spent'
    BY <1>8, <2>1, TurnCounts DEF MonitorTurn, TurnIsDue
  <2>5. ASSUME stream = "filling", skipped' = "none", device = "good", ~lost
        PROVE  stalled' + FillTurns < StallLimit + spent'
    <3>1. spent' = spent + 1
      BY <1>8, <2>5, TurnCounts DEF MonitorTurn, TurnIsDue
    <3>2. CASE moved = 0
      BY <1>8, <2>1, <2>5, <3>1, <3>2, TurnCounts
    <3>3. CASE moved # 0
      BY <1>8, <2>5, <3>1, <3>3, TurnCounts
    <3> QED
      BY <3>2, <3>3
  <2> QED
    BY <2>1, <2>2, <2>3, <2>4, <2>5
<1>9. CASE Restart
  BY <1>9 DEF Restart
<1>10. ASSUME UNCHANGED <<wptr, prev_wptr, stalled, flowVars>>,
              stream' \in {stream, "done"},
              proc' = "start" => proc = "start",
              proc' # "exited" => proc # "exited",
              device' = "good" /\ proc' # "exited" => device = "good"
       PROVE  WaitIsShort'
  BY <1>10
<1> QED
  BY <1>1, <1>2, <1>3, <1>4, <1>5, <1>6, <1>7, <1>8, <1>9, <1>10, Steps

LEMMA StepPhasesAgree == IInv /\ [Next]_vars => PhasesAgree'
<1> SUFFICES ASSUME IInv, [Next]_vars PROVE PhasesAgree'
  OBVIOUS
<1> USE DEF IInv, TypeOK, Phase, PhasesAgree, Streaming, Storing, Alive,
            deviceVars, monitorVars, flowVars
<1>1. CASE MainStep
  BY <1>1 DEF MainStep, Open, SynchronizeUsrp, SynchronizeFails, SynchronizeHackRF, StartThreads,
              StartSampling, StartFails, LeaveLoop, StreamAfterStop, StopFails, Join, Exit
<1>2. CASE SamplerStep
  <2> USE DEF Enter, GiveUp, receiverRest
  <2>1. CASE Filled \/ SkipBusy \/ FindWritable \/ Sent \/ Overflow
    BY <2>1 DEF Filled, SkipBusy, FindWritable, Sent, Overflow
  <2>2. CASE SendTimeout \/ RecvTimeout \/ RecvError \/ StreamEnds
    BY <2>2 DEF SendTimeout, RecvTimeout, RecvError, StreamEnds
  <2> QED
    BY <1>2, <2>1, <2>2 DEF SamplerStep
<1>3. CASE WorkersEnd \/ MonitorEnds
  BY <1>3 DEF WorkersEnd, MonitorEnds
<1>4. CASE MonitorTurn
  BY <1>4 DEF MonitorTurn, Exit
<1>5. CASE Signal \/ DeviceFails \/ DeviceRecovers \/ Kill
  BY <1>5 DEF Signal, DeviceFails, DeviceRecovers, Kill, Exit
<1>6. CASE Restart
  BY <1>6 DEF Restart
<1>7. CASE UNCHANGED vars
  BY <1>7 DEF vars
<1> QED
  BY <1>1, <1>2, <1>3, <1>4, <1>5, <1>6, <1>7 DEF Next, ProgramStep

LEMMA StepIInv == IInv /\ [Next]_vars => IInv'
  BY StepTypeOK, StepCopyTrails, StepCountIsRight, StepWaitIsShort, StepPhasesAgree DEF IInv

LEMMA Inductive == Spec => []IInv
  BY InitIInv, StepIInv, PTL DEF Spec

-----------------------------------------------------------------------------
(* The theorems.                                                           *)

\* Every variable has its type; the counts of turns stay within their limits, through any
\* number of restarts.
THEOREM TypeCorrect == Spec => []TypeOK
<1>1. IInv => TypeOK
  BY DEF IInv
<1> QED
  BY <1>1, Inductive, PTL

\* The monitor (sdr.hpp) ends a receiver whose write pointer stands still after the
\* configured time and no later, whatever the others do in between: counting from the
\* first turn after it last moved.
THEOREM Timely == Spec => []WatchdogInTime
<1>1. IInv => WatchdogInTime
  BY DEF IInv, TypeOK, CountIsRight, WatchdogInTime
<1> QED
  BY <1>1, Inductive, PTL

\* A step to the watchdog's abort is the monitor's, at its limit.
LEMMA AlarmIsMonitors ==
  ASSUME IInv, [Next]_vars, outcome' = "watchdog", outcome # "watchdog"
  PROVE  MonitorTurn /\ StalledTurns >= StallLimit
BY DEF Next, ProgramStep, MainStep, SamplerStep, Open, SynchronizeUsrp, SynchronizeFails,
       SynchronizeHackRF, StartThreads, StartSampling, StartFails, LeaveLoop, StopFails, Join,
       Filled, SkipBusy, FindWritable, Sent, Overflow, SendTimeout, RecvTimeout, RecvError,
       StreamEnds, GiveUp, receiverRest, WorkersEnd, MonitorTurn, MonitorEnds, Signal, DeviceFails,
       DeviceRecovers, Restart, Kill, Exit, StalledTooLong, vars

\* The watchdog ends a receiver that has lost no samples and skipped no block lately only
\* for a silent device: neither the wait for the start time, nor a wait to announce a
\* block, nor the time to fill the next one brings it to the limit, if the configuration
\* keeps to LifecycleAssumption.
THEOREM Accurate == Spec => NoFalseAlarm
<1>1. ASSUME IInv, [Next]_vars, outcome' = "watchdog", outcome # "watchdog",
             ~lost, skipped = "none"
      PROVE  device = "silent" /\ still' >= StallLimit
  <2>1. MonitorTurn /\ StalledTurns >= StallLimit
    BY <1>1, AlarmIsMonitors
  <2>2. moved = 0 /\ stalled + 1 >= StallLimit
    BY <1>1, <2>1, ComparisonIsRight DEF StalledTurns
  <2>3. still' >= StallLimit
    BY <1>1, <2>1, <2>2, TurnCounts DEF IInv, TypeOK, CountIsRight
  <2>4. ASSUME device = "good" PROVE FALSE
    <3> USE DEF IInv, TypeOK, WaitIsShort, Undisturbed, MonitorTurn, TurnIsDue
    <3>1. CASE proc = "start"
      BY <1>1, <2>1, <2>2, <3>1
    <3>2. CASE stream = "filling"
      BY <1>1, <2>1, <2>2, <2>4, <3>2
    <3>3. CASE stream = "seeking"
      BY <1>1, <2>1, <2>2, <3>3
    <3>4. CASE stream = "sending"
      BY <1>1, <2>1, <2>2, <3>4
    <3> QED
      BY <1>1, <2>1, <3>1, <3>2, <3>3, <3>4
         DEF PhasesAgree, Alive, Phase, Streaming, Storing
  <2> QED
    BY <1>1, <2>3, <2>4 DEF IInv, TypeOK
<1>2. IInv /\ [Next]_vars =>
        [outcome' = "watchdog" /\ outcome # "watchdog" =>
            \/ device = "silent" /\ still' >= StallLimit
            \/ lost \/ skipped # "none"]_vars
  BY <1>1 DEF IInv, TypeOK
<1> QED
  BY <1>2, Inductive, PTL DEF Spec, NoFalseAlarm
=============================================================================
