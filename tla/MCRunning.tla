------------------------------ MODULE MCRunning ------------------------------
(* The receiver from the opening of its sockets on, with nobody to stop it,  *)
(* and what the monitor shows of it.                                         *)
EXTENDS MCPipeline, Wiring, MonitorBits

\* With the methods of conf/ssrx.yaml the receiver goes on to run: the many ways to
\* wind down are left out, so that the instance can be larger.
RunningInit == Init /\ WiringInit
RunningNext ==
    \/ \E s \in Sockets : OpenSocket(s) /\ UNCHANGED vars
    \/ opened = Sockets /\ method = Configured /\ Next /\ running' /\ UNCHANGED wiringVars
RunningSpec == RunningInit /\ [][RunningNext]_<<vars, wiringVars>>

\* What ssrx-rbstat shows is the ring, whatever the width of its window: each flag in its
\* place, row by row, and the number of blocks in use.  Of a ring that does not fill its
\* rows evenly the blocks behind the last full row are not shown, though counted; and
\* a window with a line for every flag and one more is never too low.
FlagsAreShown ==
    \A cols \in 1 .. NBlocks + 1, lines \in {2, NBlocks + 1} :
        LET display == Display(Pack(NBlocks, writable), cols, lines)
            hidden == IF cols > NBlocks THEN 0 ELSE NBlocks % cols
        IN  /\ display = {} => lines * cols <= NBlocks
            /\ \A shown \in display :
                  /\ \A b \in 0 .. NBlocks - hidden - 1 :
                        (shown.cells[b \div cols][b % cols] = " ") = writable[b]
                  /\ \A b \in Block : b >= NBlocks - hidden =>
                                         b \div cols \notin DOMAIN shown.cells
                  /\ shown.number = Cardinality({b \in Block : ~writable[b]})
                  /\ cols > NBlocks => shown.cells[0][NBlocks] = "|"
=============================================================================
