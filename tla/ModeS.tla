-------------------------------- MODULE ModeS --------------------------------
(***************************************************************************)
(* The decoding of one Mode-S message: the checksum, the repair of a       *)
(* single bit, and what demodulate (algo.cpp) makes of them.               *)
(*                                                                         *)
(* A message is the set of the positions of its ones, 0 being the bit sent *)
(* first; a word of 24 bits is the set of the exponents of its ones, so    *)
(* that exclusive or is symmetric difference.                              *)
(***************************************************************************)
EXTENDS Integers, FiniteSets

SymDiff(a, b) == (a \ b) \cup (b \ a)
Word(n) == {i \in 0 .. 23 : (n \div 2 ^ i) % 2 = 1}

\* No address; test_crc returns 0.
NoAddress == {}

MessageLenByType(df) == IF df \in 16 .. 21 \cup {24} THEN 112 ELSE 56

\* Types whose parity field has the address added to it.
AddressParity == {0, 4, 5, 16, 20, 21, 24}

\* Types that carry their address in clear.
AddressInClear == {11, 17}

-----------------------------------------------------------------------------
(* The checksum.                                                           *)

\* modes_checksum_table, up to the zeros at its end
Table == <<
    \h3935ea, \h1c9af5, \hf1b77e, \h78dbbf, \hc397db, \h9e31e9, \hb0e2f0, \h587178,
    \h2c38bc, \h161c5e, \h0b0e2f, \hfa7d13, \h82c48d, \hbe9842, \h5f4c21, \hd05c14,
    \h682e0a, \h341705, \he5f186, \h72f8c3, \hc68665, \h9cb936, \h4e5c9b, \hd8d449,
    \h939020, \h49c810, \h24e408, \h127204, \h093902, \h049c81, \hfdb444, \h7eda22,
    \h3f6d11, \he04c8c, \h702646, \h381323, \he3f395, \h8e03ce, \h4701e7, \hdc7af7,
    \h91c77f, \hb719bb, \ha476d9, \hadc168, \h56e0b4, \h2b705a, \h15b82d, \hf52612,
    \h7a9309, \hc2b380, \h6159c0, \h30ace0, \h185670, \h0c2b38, \h06159c, \h030ace,
    \h018567, \hff38b7, \h80665f, \hbfc92b, \ha01e91, \haff54c, \h57faa6, \h2bfd53,
    \hea04ad, \h8af852, \h457c29, \hdd4410, \h6ea208, \h375104, \h1ba882, \h0dd441,
    \hf91024, \h7c8812, \h3e4409, \he0d800, \h706c00, \h383600, \h1c1b00, \h0e0d80,
    \h0706c0, \h038360, \h01c1b0, \h00e0d8, \h00706c, \h003836, \h001c1b, \hfff409 >>

ParityWord == [j \in 0 .. 111 |-> IF j < 88 THEN Word(Table[j + 1]) ELSE {}]

\* Mutant: a short message uses the head of the table.
TableOffsetZero(bits) == 0

\* A short message uses the end of the table.
TableOffset(bits) == IF bits = 112 THEN 0 ELSE 56

Checksum(msg, bits) ==
    LET offset == TableOffset(bits) IN
    {i \in 0 .. 23 :
        Cardinality({j \in msg : j < bits /\ i \in ParityWord[j + offset]}) % 2 = 1}

\* The last three bytes.
ParityField(msg, bits) == {i \in 0 .. 23 : bits - 1 - i \in msg}

Flip(msg, j) == SymDiff(msg, {j})

\* The bits whose change makes the checksum right.
Fixes(msg, bits) ==
    {j \in 0 .. bits - 1 :
        ParityField(Flip(msg, j), bits) = Checksum(Flip(msg, j), bits)}

\* fixSingleBitErrors: the first of them is changed, if there is one.
FixSingleBitErrors(msg, bits) ==
    LET fixes == Fixes(msg, bits) IN
    IF fixes = {} THEN msg
                  ELSE Flip(msg, CHOOSE j \in fixes : \A k \in fixes : j <= k)

-----------------------------------------------------------------------------
(* demodulate.                                                             *)

MsgType(msg) ==
    LET bit(j) == IF j \in msg THEN 1 ELSE 0
    IN  16 * bit(0) + 8 * bit(1) + 4 * bit(2) + 2 * bit(3) + bit(4)

\* Mutant: one byte too many.
AddressFieldLong(msg) == {i \in 0 .. 31 : 31 - i \in msg}

AddressField(msg) == {i \in 0 .. 23 : 31 - i \in msg}

\* What test_crc looks up.
TestedAddress(msg, df, bits) ==
    IF df \in AddressParity THEN SymDiff(ParityField(msg, bits), Checksum(msg, bits))
                            ELSE NoAddress

\* Mutant: a message that could not be repaired passes for one that was.
DecodeUnrepaired(received) ==
    LET df == MsgType(received)
        bits == MessageLenByType(df)
        msg == IF df \in AddressInClear THEN FixSingleBitErrors(received, bits)
                                        ELSE received
    IN  [msg |-> {j \in msg : j < bits},
         ok |-> df \in AddressInClear \/ ParityField(msg, bits) = Checksum(msg, bits),
         clear |-> df \in AddressInClear,
         address |-> IF df \in AddressInClear THEN AddressField(msg)
                                              ELSE TestedAddress(msg, df, bits)]

\* The type is that of the message as received, and so is the parity field that is
\* compared (`crc'), even if the repair has changed them.
Decode(received) ==
    LET df == MsgType(received)
        bits == MessageLenByType(df)
        clear == df \in AddressInClear
        crc == ParityField(received, bits)
        msg == IF clear /\ crc # Checksum(received, bits)
               THEN FixSingleBitErrors(received, bits) ELSE received
    IN  [msg |-> {j \in msg : j < bits},
         ok |-> crc = Checksum(msg, bits),
         clear |-> clear,
         address |-> IF clear THEN AddressField(msg)
                              ELSE TestedAddress(msg, df, bits)]
=============================================================================
