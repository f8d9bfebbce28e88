------------------------------- MODULE Printer -------------------------------
(***************************************************************************)
(* The lines of the printer (ssrx.hpp:430-484), as far as the time in them *)
(* goes: the fraction of the second is printed as a number of microseconds *)
(* padded to six places.  The stream keeps its adjustment from one line to *)
(* the next, and the raw column changes it.  The times are those of the    *)
(* messages in the blocks of SampleStore.                                  *)
(***************************************************************************)
EXTENDS SampleStore

CONSTANT Width      \* decimal places of the fraction, 6 in the code

\* The powers of ten
Ten[k \in 0 .. Width + 1] == IF k = 0 THEN 1 ELSE 10 * Ten[k - 1]

ASSUME PrinterAssumption == Width \in Nat \ {0} /\ Second % Ten[Width] = 0

Micro == Second \div Ten[Width]     \* 1e9 femtoseconds

Columns == [datetime : BOOLEAN, rssi : BOOLEAN, raw : BOOLEAN]

\* A number without decimals: the nearest, of two the even one.
Rounded(num, den) ==
    LET down == num \div den
        rest == 2 * (num % den)
    IN  IF rest > den \/ (rest = den /\ down % 2 = 1) THEN down + 1 ELSE down

\* Decimal digits of a number of microseconds, up to those of a whole second.
Digits(n) == CHOOSE d \in 1 .. Width + 1 : n < Ten[d] /\ (d = 1 \/ n >= Ten[d - 1])

\* setw(6) << setfill('0'): zeros in front, or, with the adjustment `left', behind.
\* A number that is wider is printed as it is.
Padded(n, adjust) ==
    IF Digits(n) > Width THEN [number |-> n, places |-> Digits(n)]
    ELSE [number |-> IF adjust = "left" THEN n * Ten[Width - Digits(n)] ELSE n,
          places |-> Width]

\* The fraction as it stands in the line.
Fraction(t, adjust) == Padded(Rounded(t.femtoseconds, Micro), adjust)

\* What the line leaves behind: only the raw column sets the adjustment, and no
\* column sets it back.
AdjustAfter(columns, adjust) == IF columns.raw THEN "left" ELSE adjust

\* The instant one reads in the line, the fraction being a decimal one.
ReadBack(t, adjust) ==
    LET f == Fraction(t, adjust)
    IN  t.seconds * Second + (f.number * Second) \div Ten[f.places]

\* The columns of the configuration that comes with the program.
Configured == [datetime |-> TRUE, rssi |-> FALSE, raw |-> TRUE]

\* To the nearest microsecond
ReadsAs(t, adjust) == 2 * (ReadBack(t, adjust) - Instant(t)) \in -Micro .. Micro

\* "Show datetime in ISO format in fractional microseconds order" (conf/ssrx.yaml:148):
\* with the configured columns the first line and those behind it read as the times of
\* their messages.  They do not: the raw column of the line before puts the zeros of
\* 0.001234 s behind the number, .123400, and the last half microsecond of a second is
\* printed as 1000000 in every line.
PrintedTimeReadsRight ==
    last # NoneYet =>
        \A i \in DOMAIN Searched(last.samples) :
        \A adjust \in {"right", AdjustAfter(Configured, "right")} :
            ReadsAs(MessageTime(last.start_times, i), adjust)
=============================================================================
