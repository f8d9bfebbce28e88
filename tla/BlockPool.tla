------------------------------ MODULE BlockPool ------------------------------
(***************************************************************************)
(* What the ring buffer, the sampler and the processing threads promise    *)
(* together, without flags, queues and threads: a block is in exactly one  *)
(* place.  The sampler writes to `current'; once it has found a block that *)
(* nobody uses it turns to that one and is left with the old one, `full',  *)
(* which it then gives to the processing threads; those give it back when  *)
(* they are through with it.                                               *)
(***************************************************************************)
CONSTANTS
    Blocks,
    Nothing     \* "no block", not an element of Blocks

VARIABLES
    current,    \* the block being written
    full,       \* the block before it, until it is handed over, or Nothing
    inflight    \* the blocks the processing threads have

poolVars == <<current, full, inflight>>

PoolInit ==
    /\ current \in Blocks
    /\ full = Nothing
    /\ inflight = {}

\* The sampler turns to a block that no one has.
Acquire ==
    /\ full = Nothing
    /\ current' \in Blocks \ (inflight \cup {current})
    /\ full' = current
    /\ UNCHANGED inflight

\* The block it has left goes to the processing threads.
Publish ==
    /\ full # Nothing
    /\ inflight' = inflight \cup {full}
    /\ full' = Nothing
    /\ UNCHANGED current

\* They have finished with a block.
Release ==
    /\ \E b \in inflight : inflight' = inflight \ {b}
    /\ UNCHANGED <<current, full>>

PoolNext == Acquire \/ Publish \/ Release

PoolSpec == PoolInit /\ [][PoolNext]_poolVars
=============================================================================
