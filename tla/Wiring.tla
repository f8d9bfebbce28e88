-------------------------------- MODULE Wiring --------------------------------
(***************************************************************************)
(* How the threads' ZeroMQ sockets come to be the pipes of Pipeline        *)
(* (mqhelper.hpp and the first lines of every thread).  Each section of    *)
(* the configuration gives the method, bind or connect, of the sending     *)
(* end; the receiving end takes the other one.  The threads open their     *)
(* sockets in any order, and an address can be bound once: a second bind   *)
(* throws in a thread, which ends the program.  A connect may come first.  *)
(*                                                                         *)
(* Stage 0 is the sampler, 1 to 3 are the workers of Pipeline, 4 is the    *)
(* collector, 5 the printer; link k leads from stage k to stage k + 1.     *)
(***************************************************************************)
EXTENDS Pipeline

CONSTANT NoLane     \* of what there is once, not once per lane

ASSUME WiringAssumption == NoLane \notin Lane

Link == 0 .. 4      \* sampler, correlator, detector, demodulator, collector
LaneOf(n) == IF n \in 1 .. 3 THEN Lane ELSE {NoLane}

Socket == [stage : 0 .. 5, lane : Lane \cup {NoLane}, client : BOOLEAN]
LinkOf(s) == IF s.client THEN s.stage - 1 ELSE s.stage
Sockets == {s \in Socket : LinkOf(s) \in Link /\ s.lane \in LaneOf(s.stage)}

VARIABLES
    method,     \* the configuration: what the sending end of a link does
    opened,     \* the sockets there are
    failed      \* create_socket has thrown

wiringVars == <<method, opened, failed>>

Methods == {"bind", "connect"}

\* conf/ssrx.yaml
Configured == [k \in Link |-> IF k = 3 THEN "connect" ELSE "bind"]
SocketType == [k \in Link |-> IF k = 4 THEN "pub" ELSE "push"]

\* The collector's address, tcp://*:28650, can be bound only.
WiringInit ==
    /\ method \in {m \in [Link -> Methods] : m[4] = "bind"}
    /\ opened = {}
    /\ failed = FALSE

-----------------------------------------------------------------------------
(* create_socket                                                           *)

\* Mutant: the index is forgotten.
AddressShared(s) == <<LinkOf(s), NoLane>>

\* The correlator's and the detector's address are completed by the lane's index.
Address(s) == <<LinkOf(s), IF LinkOf(s) \in {1, 2} THEN s.lane ELSE NoLane>>

OtherSideMethod(m) == IF m = "connect" THEN "bind" ELSE "connect"
OtherSideType(t) ==
    CASE t = "push" -> "pull" [] t = "pull" -> "push" [] t = "pub" -> "sub" [] t = "sub" -> "pub"

MethodOf(s) ==
    IF s.client THEN OtherSideMethod(method[LinkOf(s)]) ELSE method[LinkOf(s)]
TypeOf(s) ==
    IF s.client THEN OtherSideType(SocketType[LinkOf(s)]) ELSE SocketType[LinkOf(s)]

IsBound(address) == \E s \in opened : MethodOf(s) = "bind" /\ Address(s) = address

\* A thread opens the socket it receives from, then the one it sends to.
IsNext(s) ==
    /\ s \notin opened
    /\ s.client \/ s.stage = 0 \/ [s EXCEPT !.client = TRUE] \in opened

OpenSocket(s) ==
    /\ ~failed
    /\ IsNext(s)
    /\ IF MethodOf(s) = "bind" /\ IsBound(Address(s))
       THEN failed' = TRUE /\ UNCHANGED opened
       ELSE opened' = opened \cup {s} /\ UNCHANGED failed
    /\ UNCHANGED method

\* ZeroMQ: the open sockets at the other end of a socket's address.
Peers(s) ==
    {p \in opened :
        /\ Address(p) = Address(s)
        /\ MethodOf(p) = OtherSideMethod(MethodOf(s))
        /\ TypeOf(p) = OtherSideType(TypeOf(s))}

-----------------------------------------------------------------------------

Sending(w) == [stage |-> w[1], lane |-> w[2], client |-> FALSE]
Receiving(t) ==
    IF t = Collector THEN [stage |-> 4, lane |-> NoLane, client |-> TRUE]
                     ELSE [stage |-> t[1], lane |-> t[2], client |-> TRUE]

\* Whatever the methods and the order in which the threads open their sockets, a message
\* gets only where Pipeline has it go, and once all sockets are open it gets there;
\* and they do all open, unless lanes are made to bind the end that they share.
PipesAreWired ==
    /\ \A w \in Worker : Sending(w) \in opened =>
          LET receiver == {Receiving(Receiver(OutPipe(w)))} IN
            /\ Peers(Sending(w)) \subseteq receiver
            /\ opened = Sockets => Peers(Sending(w)) = receiver
    /\ opened = Sockets =>
          Peers([stage |-> 0, lane |-> NoLane, client |-> FALSE])
              = {Receiving(<<1, l>>) : l \in Lane}
    /\ failed => method[0] = "connect" \/ method[3] = "bind"
=============================================================================
