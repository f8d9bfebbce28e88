----------------------------- MODULE MonitorBits -----------------------------
(***************************************************************************)
(* What the monitor publishes, the flags of the ring packed into bytes     *)
(* (monitor_bits.hpp), and how the program ssrx-rbstat lays them out in    *)
(* its window.  A byte is the set of its bits that are 1.                  *)
(***************************************************************************)
EXTENDS Integers, FiniteSets

CONSTANT ByteBits       \* bits of a byte, 8

ASSUME MonitorBitsAssumption == ByteBits \in Nat \ {0}

\* Mutant: the bytes that are full only.
PackedBytesFull(nbits) == nbits \div ByteBits

PackedBytes(nbits) == (nbits + ByteBits - 1) \div ByteBits

\* pack: the message of the monitor, flags being a function on 0 .. nbits - 1
Pack(nbits, flags) ==
    [nbits |-> nbits,
     bytes |-> [n \in 0 .. PackedBytes(nbits) - 1 |->
                   {i \in 0 .. ByteBits - 1 :
                       n * ByteBits + i < nbits /\ flags[n * ByteBits + i]}]]

\* test: a bit past the end is 0.
Test(bytes, index) ==
    /\ index \div ByteBits \in DOMAIN bytes
    /\ index % ByteBits \in bytes[index \div ByteBits]

\* count
Count(bytes, nbits) == Cardinality({i \in 0 .. nbits - 1 : Test(bytes, i)})

-----------------------------------------------------------------------------
(* ssrx-rbstat, in a window of so many columns and lines.                  *)

Rows(nbits, cols) == IF nbits < cols THEN 1 ELSE nbits \div cols

\* What stands in a row and a column; the mark is behind the last flag of a row.
Cell(msg, cols, row, col) ==
    LET k == col + row * cols IN
    IF k < msg.nbits THEN (IF Test(msg.bytes, k) THEN " " ELSE "#")
    ELSE IF col = 0 \/ k - 1 < msg.nbits THEN "|" ELSE "erased"

\* The line below the rows is for the number; in a window that is too low for both the
\* program ends and displays nothing.
Display(msg, cols, lines) ==
    IF Rows(msg.nbits, cols) >= lines THEN {}
    ELSE {[cells |-> [row \in 0 .. Rows(msg.nbits, cols) - 1 |->
                         [col \in 0 .. cols - 1 |-> Cell(msg, cols, row, col)]],
           number |-> msg.nbits - Count(msg.bytes, msg.nbits)]}
=============================================================================
