-------------------------- MODULE MCIntegrityTester --------------------------
(* A small instance of IntegrityTester for TLC.                             *)
EXTENDS IntegrityTester

CONSTANTS MinBlocks     \* ringbuffer.nblocks of the configuration

ASSUME RingIsAllocated == NBlocks = BlocksFor(MinBlocks)
=============================================================================
