----------------------------- MODULE RingBuffer -----------------------------
(***************************************************************************)
(* ssrx::RingBuffer (src/ringbuffer.hpp): a ring of blocks, each with one  *)
(* atomic flag `writable', and the position `write_pointer' the only       *)
(* writer of the ring (the sampler) is at.  The contents of a block belong *)
(* to the modules that use the ring.  The read side of the class           *)
(* (read_pointer, advance_read_pointer, check_writable, check_readable) is *)
(* called by nothing in the program and has no counterpart here.           *)
(***************************************************************************)
EXTENDS Naturals

CONSTANT NBlocks    \* size(): the number of blocks of the ring

VARIABLES
    writable,       \* Block::writable of every block, an atomic flag
    write_pointer   \* index of the block the sampler is at

ringVars == <<writable, write_pointer>>

\* reset() rounds the requested number of blocks up to a power of two.  For the
\* proofs only a non-empty ring matters: operator[] masks the index, which is
\* "modulo NBlocks" because of the rounding.
ASSUME NBlocksAssumption == NBlocks \in Nat \ {0}

Block == 0 .. NBlocks - 1

\* The number of blocks reset(min_numblk) allocates: the least power of two that
\* is not below the request.
BlocksFor(min_numblk) ==
    CHOOSE n \in {2^k : k \in 0 .. min_numblk} :
        /\ n >= min_numblk
        /\ n \div 2 < min_numblk \/ n = 1

\* Mutant: the mask is left out.
NextBlockUnmasked(b) == b + 1

\* write_pointer_ += 1; write_pointer_ &= size() - 1
NextBlock(b) == (b + 1) % NBlocks

RingInit ==
    /\ writable = [b \in Block |-> TRUE]
    /\ write_pointer = 0

\* Block::set_state_writable
SetStateWritable(b) == writable' = [writable EXCEPT ![b] = TRUE]

\* Block::set_state_readable
SetStateReadable(b) == writable' = [writable EXCEPT ![b] = FALSE]

\* advance_write_pointer: the flag of the block being left is stored
\* unconditionally, whoever set it last, and whatever the caller knew of it.
AdvanceWritePointer ==
    /\ SetStateReadable(write_pointer)
    /\ write_pointer' = NextBlock(write_pointer)

RingTypeOK ==
    /\ writable \in [Block -> BOOLEAN]
    /\ write_pointer \in Block
=============================================================================
