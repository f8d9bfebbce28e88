----------------------------- MODULE MCPipeline -----------------------------
(* Small instances of Pipeline for TLC.                                     *)
EXTENDS Pipeline, TLC

CONSTANTS MinBlocks     \* ringbuffer.nblocks of the configuration

\* Lanes are interchangeable.
LaneSymmetry == Permutations(Lane)

\* The ring is what reset() makes of the configured number.
ASSUME RingIsAllocated == NBlocks = BlocksFor(MinBlocks)
=============================================================================
