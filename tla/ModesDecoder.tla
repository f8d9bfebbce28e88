----------------------------- MODULE ModesDecoder -----------------------------
(***************************************************************************)
(* The demodulators of all lanes and the table of aircraft addresses that  *)
(* they share (ssrx.hpp:146-158, algo.cpp, modes.cpp), through starts and  *)
(* ends of the program, with the table's file.  The ether is external:     *)
(* aircraft send the messages in Frames, of whose bits some arrive wrong.  *)
(*                                                                         *)
(* The table is an unordered_map without a lock.  While one thread inserts *)
(* a new address, another's search may miss an address that is there.  Two *)
(* insertions at once, each of which may move all entries to new buckets,  *)
(* can lose any of them and leave the table torn: from then on a search    *)
(* may miss anything, and so may the walk over it at the end.  Or the      *)
(* program crashes, as it may at any time (Abort).                         *)
(***************************************************************************)
EXTENDS ModeS

CONSTANTS
    Lane,       \* demodulators
    Frames,     \* what is sent: [df, address, payload]
    Errors      \* sets of the bits of a message that may arrive wrong

\* Three bytes of a message.
Address == SUBSET (0 .. 23)

\* The payload lies behind the type and before the parity, and around an address in clear.
ASSUME FramesAssumption ==
    \A f \in Frames :
        /\ f.df \in 0 .. 31
        /\ f.address \in Address
        /\ f.payload \subseteq 5 .. MessageLenByType(f.df) - 25
        /\ f.df \notin AddressParity => f.payload \cap 8 .. 31 = {}

VARIABLES
    phase,      \* "off", "on", or "storing" in ~ModesDecoder
    addresses,  \* the table
    torn,       \* two insertions have met in it
    file,       \* the rows of the database
    hand,       \* per lane, the message being demodulated
    tx,         \* whether BEGIN TRANSACTION succeeded
    pending,    \* rows not written yet
    journal     \* rows written in the transaction

storeVars == <<tx, pending, journal>>
vars == <<phase, addresses, torn, file, hand, storeVars>>

-----------------------------------------------------------------------------
(* What is sent: the standard's code, by division of polynomials.          *)

Generator == {0, 3, 10} \cup 12 .. 24

\* A remainder times x, and one more bit; and what is left of it.
Shift(r, one) == {i + 1 : i \in r} \cup (IF one THEN {0} ELSE {})
Reduce(r) == IF 24 \in r THEN SymDiff(r, Generator) ELSE r

Remainder(data, bits) ==
    LET rem[k \in 0 .. bits] ==
            IF k = 0 THEN {} ELSE Reduce(Shift(rem[k - 1], k - 1 \in data))
    IN  rem[bits]

\* The remainders of the powers of x: a checksum adds those of the bits that are set.
Power == [n \in 0 .. 111 |-> IF n < 24 THEN {n} ELSE ParityWord[111 - n]]

\* The table is that of the generator; and no one, two or three powers add up to nothing.
ASSUME TableAssumption ==
    \A n \in 0 .. 110 : Power[n + 1] = Reduce(Shift(Power[n], FALSE))
ASSUME PowersAssumption ==
    \A m, n \in 0 .. 111 :
        m < n => SymDiff(Power[m], Power[n]) \notin {{}} \cup {Power[k] : k \in 0 .. 111}

TypeField(df) == {j \in 0 .. 4 : (df \div <<16, 8, 4, 2, 1>>[j + 1]) % 2 = 1}

Sent == [f \in Frames |->
    LET bits == MessageLenByType(f.df)
        hidden == f.df \in AddressParity
        data == TypeField(f.df) \cup f.payload
                \cup IF hidden THEN {} ELSE {31 - i : i \in f.address}
        rem == Remainder(data, bits)
        parity == IF hidden THEN SymDiff(rem, f.address) ELSE rem
    IN  data \cup {bits - 1 - i : i \in parity}]

Aircraft == {f.address : f \in Frames}
Bits(f) == MessageLenByType(f.df)
ErrorsOf(f) == {e \in Errors : e \subseteq 0 .. Bits(f) - 1}

Decoded == [f \in Frames |-> [e \in ErrorsOf(f) |-> Decode(SymDiff(Sent[f], e))]]

-----------------------------------------------------------------------------

Idle == [at |-> "idle"]
AllIdle == \A l \in Lane : hand[l] = Idle

Init ==
    /\ phase = "off"
    /\ addresses = {} /\ torn = FALSE
    /\ file \in SUBSET Aircraft
    /\ hand = [l \in Lane |-> Idle]
    /\ tx = FALSE /\ pending = {} /\ journal = {}

\* Mutant: the file is not read.
LoadNothing ==
    /\ phase = "off"
    /\ phase' = "on"
    /\ addresses' = {}
    /\ UNCHANGED <<torn, file, hand, storeVars>>

\* ModesDecoder::ModesDecoder.  If reading fails the program does not start, which
\* is no step.
Load ==
    /\ phase = "off"
    /\ phase' = "on"
    /\ addresses' = file
    /\ UNCHANGED <<torn, file, hand, storeVars>>

\* A detection is demodulated.
Demodulate(l, f, e) ==
    /\ phase = "on"
    /\ hand[l] = Idle
    /\ hand' = [hand EXCEPT ![l] = [at |-> "lookup", frame |-> f, errors |-> e]]
    /\ UNCHANGED <<phase, addresses, torn, file, storeVars>>

\* Another thread is about to insert a new address.
Disturbed(l) ==
    \E k \in Lane \ {l} : hand[k].at = "add" /\ hand[k].address \notin addresses

\* Mutant: any address will do.
FindsAnything(l, a) == {TRUE}

\* What addresses.find(a) may say.
Finds(l, a) ==
    IF a = NoAddress \/ a \notin addresses THEN {FALSE}
    ELSE IF Disturbed(l) \/ torn THEN {TRUE, FALSE} ELSE {TRUE}

\* test_crc and the decision: in clear or found, the address is to be entered.
Lookup(l) ==
    /\ phase = "on"
    /\ hand[l].at = "lookup"
    /\ LET d == Decoded[hand[l].frame][hand[l].errors]
       IN  \E found \in IF d.clear THEN {FALSE} ELSE Finds(l, d.address) :
              hand' = [hand EXCEPT ![l] =
                  [at |-> IF found \/ (d.clear /\ d.ok) THEN "add" ELSE "done",
                   frame |-> hand[l].frame, errors |-> hand[l].errors,
                   address |-> d.address, accepted |-> d.ok \/ found]]
    /\ UNCHANGED <<phase, addresses, torn, file, storeVars>>

\* Another thread is in add_aircraft too, and one of the two has a new address.
Collides(l) ==
    \E k \in Lane \ {l} :
        hand[k].at = "add" /\ ~({hand[k].address, hand[l].address} \subseteq addresses)

\* add_aircraft
AddAircraft(l) ==
    /\ phase = "on"
    /\ hand[l].at = "add"
    /\ \/ addresses' = addresses \cup {hand[l].address} /\ UNCHANGED torn
       \/ /\ Collides(l) \/ torn
          /\ addresses' \in SUBSET (addresses \cup {hand[l].address})
          /\ torn' = TRUE
    /\ hand' = [hand EXCEPT ![l].at = "done"]
    /\ UNCHANGED <<phase, file, storeVars>>

\* The message, if accepted, is handed to the collector.
Deliver(l) ==
    /\ phase = "on"
    /\ hand[l].at = "done"
    /\ hand' = [hand EXCEPT ![l] = Idle]
    /\ UNCHANGED <<phase, addresses, torn, file, storeVars>>

\* The threads are joined and the destructor runs: store() up to the BEGIN, whose
\* result nobody looks at.
BeginStore ==
    /\ phase = "on"
    /\ AllIdle
    /\ phase' = "storing"
    /\ tx' \in BOOLEAN
    /\ pending' \in IF torn THEN SUBSET addresses ELSE {addresses}
    /\ journal' = {}
    /\ UNCHANGED <<addresses, torn, file, hand>>

\* Without a transaction each row is on the disk at once.
StoreRow ==
    /\ phase = "storing"
    /\ \E a \in pending :
          /\ pending' = pending \ {a}
          /\ IF tx THEN journal' = journal \cup {a} /\ UNCHANGED file
                   ELSE file' = file \cup {a} /\ UNCHANGED journal
    /\ UNCHANGED <<phase, addresses, torn, hand, tx>>

\* The end of the process, in whatever way.
End ==
    /\ phase' = "off"
    /\ addresses' = {} /\ torn' = FALSE
    /\ hand' = [l \in Lane |-> Idle]
    /\ tx' = FALSE /\ pending' = {} /\ journal' = {}

Commit ==
    /\ phase = "storing"
    /\ pending = {}
    /\ file' = file \cup journal
    /\ End

\* The watchdog, SIGKILL, a crash; or a row that cannot be written, or a COMMIT that
\* fails: store() gives up, and SQLite rolls back.
Abort ==
    /\ phase \in {"on", "storing"}
    /\ UNCHANGED file
    /\ End

Next ==
    \/ Load \/ BeginStore \/ StoreRow \/ Commit \/ Abort
    \/ \E l \in Lane :
          \/ \E f \in Frames : \E e \in DOMAIN Decoded[f] : Demodulate(l, f, e)
          \/ Lookup(l) \/ AddAircraft(l) \/ Deliver(l)

Spec == Init /\ [][Next]_vars

-----------------------------------------------------------------------------

Demodulated(l) == hand[l].at \in {"add", "done"}

TypeOK ==
    /\ phase \in {"off", "on", "storing"}
    /\ {addresses, file, pending, journal} \subseteq SUBSET Address
    /\ {tx, torn} \subseteq BOOLEAN
    /\ \A l \in Lane :
          /\ hand[l].at \in {"idle", "lookup", "add", "done"}
          /\ Demodulated(l) =>
                hand[l].address \in Address /\ hand[l].accepted \in BOOLEAN

\* A message that is accepted is, after repair, the one that was sent: with the bits of
\* a member of Errors wrong it is repaired rightly or not at all, whatever its type is
\* taken for, and whatever the other lanes do with the table while it is looked up.
AcceptedAsSent ==
    \A l \in Lane : Demodulated(l) /\ hand[l].accepted =>
        Decoded[hand[l].frame][hand[l].errors].msg = Sent[hand[l].frame]

\* Only addresses of aircraft get into the table and the file: an address is believed
\* on a right checksum or because it is there already, so that one wrong address
\* would vouch for more.  So too while lanes with damaged messages search and insert
\* all at once, and when that has torn the table.
LearntIsReal == addresses \cup file \subseteq Aircraft

\* One wrong bit of a message with its address in clear is always repaired if it is in
\* the data and not in the type: the table of remainders tells all such bits apart.
DataErrorsAreFixed ==
    \A l \in Lane :
        Demodulated(l) /\ hand[l].frame.df \in AddressInClear =>
            \A j \in 5 .. Bits(hand[l].frame) - 25 :
                hand[l].errors = {j} => hand[l].accepted

\* As long as no two insertions have met in the table, the running program knows every
\* address of the file, and while it stores its table, with or without a transaction, puts
\* nothing there that it does not know.
FileIsKnown == phase # "off" /\ ~torn => file \subseteq addresses

\* "Try to fix single bit errors using the checksum" (modes.cpp:274): a wrong bit behind the
\* type does not cost a message that has its address in clear.  The code does not keep this:
\* when the wrong bit is in the parity field, the repaired message is compared with
\* the field as it was.
SingleErrorsAreFixed ==
    \A l \in Lane :
        Demodulated(l) /\ hand[l].frame.df \in AddressInClear =>
            \A j \in 5 .. Bits(hand[l].frame) - 1 :
                hand[l].errors = {j} => hand[l].accepted
=============================================================================
