--------------------------- MODULE MCModesDecoder ---------------------------
(* Two lanes, two aircraft, every kind of message the decoder tells apart; and *)
(* the search for preambles, on messages of six bits at every kind of place.   *)
EXTENDS ModesDecoder, Algo, TLC

LaneSymmetry == Permutations(Lane)

A == Word(\h4840d6)
B == Word(\h3c6589)

MCFrames ==
    { [df |-> 17, address |-> A, payload |-> {5, 7, 34, 40, 41, 55, 60, 77, 86}],
      [df |-> 11, address |-> A, payload |-> {5}],
      [df |-> 20, address |-> A, payload |-> {9, 20, 31, 50, 51, 70, 84}],
      [df |-> 4,  address |-> B, payload |-> {6, 19, 25, 30}],
      [df |-> 18, address |-> B, payload |-> {33, 42, 67}] }

\* No error, each single one, neighbours, and pairs with a bit of the type in them.
MCErrors ==
    {{}} \cup {{j} : j \in 0 .. 111} \cup {{j, j + 1} : j \in 0 .. 110}
         \cup {{4, j} : j \in 6 .. 111}

\* The ones that are tried beside another lane's message: in the data, at the end of the
\* address, in either parity, two neighbours, and one with the type wrong.
MCRaceErrors == {{}, {40}, {31}, {55}, {111}, {41, 42}, {4, 6}}

\* With the other lane idle every member of Errors is tried, else those of MCRaceErrors.
FewAtOnce ==
    \/ \E l \in Lane : \A k \in Lane \ {l} : hand[k] = Idle
    \/ \A l \in Lane : hand[l] # Idle => hand[l].errors \in MCRaceErrors

\* Both sides of every seam of the first three blocks, and the middle of one.
MCStarts ==
    {0, 1, 50} \cup {Window * b + d : b \in 1 .. 2, d \in -2 .. 2}

\* The four beginnings, and one that looks like a preamble inside.
MCBitsSent ==
    {[k \in 0 .. NBits - 1 |-> k \in ones] : ones \in {{}, {0}, 1 .. NBits - 1, {0, 1}, {1, 2}}}

\* Up to three detections, near each other and not, of three strengths.
MCNoise ==
    UNION {{{[index |-> i, high |-> power[i]] : i \in where} : power \in [where -> 1 .. 3]} :
              where \in {w \in SUBSET (0 .. 2 * NCoh + 1) : Cardinality(w) <= 3}}

\* The search and the decoder share nothing.  The search is run before a program whose
\* file is empty starts, and rests for the time of the others.
MCInit == Init /\ SearchInit
MCNext ==
    \/ at = "off" /\ Next /\ FewAtOnce' /\ UNCHANGED searchVars
    \/ phase = "off" /\ file = {} /\ SearchNext /\ UNCHANGED vars
MCSpec == MCInit /\ [][MCNext]_<<vars, searchVars>>
=============================================================================
