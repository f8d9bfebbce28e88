------------------------------- MODULE TimeSpec -------------------------------
(***************************************************************************)
(* TimeSpec (sdr.hpp:90-184), a time as seconds and a fraction.  The       *)
(* fraction counts units of which Second make a second: 10^15, femto-      *)
(* seconds, in the code.  A duration, a double in the code, is given as    *)
(* the fraction num / den of a second.                                     *)
(***************************************************************************)
EXTENDS Integers

CONSTANT Second     \* units in a second

ASSUME TimeSpecAssumption == Second \in Nat \ {0}

\* init(): while (< 0) borrow; while (> one second) carry.  A fraction of exactly a
\* second is left as it is.
Normal(seconds, units) ==
    LET left == IF units > 0 THEN ((units - 1) % Second) + 1 ELSE units % Second
    IN  [seconds |-> seconds + (units - left) \div Second, femtoseconds |-> left]

\* split: the whole seconds and the units of a duration, each cut off toward zero.
Truncated(num, den) == IF num >= 0 THEN num \div den ELSE -((-num) \div den)
Full(num, den) == Truncated(num, den)
Frac(num, den) == Truncated((num - Full(num, den) * den) * Second, den)

\* operator +=, operator +
Plus(t, num, den) ==
    Normal(t.seconds + Full(num, den), t.femtoseconds + Frac(num, den))

\* TimeSpec(full_secs, frac_secs), of a time since second 0
Since(num, den) == Normal(Full(num, den), Frac(num, den))

\* The instant a time stands for, in units.
Instant(t) == t.seconds * Second + t.femtoseconds
=============================================================================
