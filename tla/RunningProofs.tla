---------------------------- MODULE RunningProofs ----------------------------
(***************************************************************************)
(* Proofs about the receiver from the opening of its sockets on: that the  *)
(* sockets of any configuration and in any order come to be the pipes of   *)
(* Pipeline, and that the monitor's display shows the flags of the ring.   *)
(***************************************************************************)
EXTENDS MCRunning, PipelineProofs, FiniteSetTheorems, ArithmeticProofs

-----------------------------------------------------------------------------
(* Sockets and the links they belong to.                                   *)

LEMMA SocketForm ==
  ASSUME NEW s \in Sockets
  PROVE  /\ s = [stage |-> s.stage, lane |-> s.lane, client |-> s.client]
         /\ s.stage \in 0 .. 5 /\ s.client \in BOOLEAN /\ s.lane \in LaneOf(s.stage)
         /\ LinkOf(s) \in Link
         /\ s.stage = IF s.client THEN LinkOf(s) + 1 ELSE LinkOf(s)
BY DEF Sockets, Socket, Link, LinkOf

LEMMA IsSocket ==
  ASSUME NEW k \in Link, NEW client \in BOOLEAN,
         NEW l \in LaneOf(IF client THEN k + 1 ELSE k)
  PROVE  /\ [stage |-> IF client THEN k + 1 ELSE k, lane |-> l, client |-> client] \in Sockets
         /\ LinkOf([stage |-> IF client THEN k + 1 ELSE k, lane |-> l, client |-> client]) = k
<1> DEFINE stg == IF client THEN k + 1 ELSE k
<1> DEFINE s == [stage |-> stg, lane |-> l, client |-> client]
<1>1. k \in 0 .. 4 /\ (k + 1) - 1 = k /\ l \in Lane \cup {NoLane}
  BY DEF Link, LaneOf
<1>2. s.stage = stg /\ s.lane = l /\ s.client = client
  OBVIOUS
<1>3. s \in Socket
  BY <1>1 DEF Socket
<1>4. LinkOf(s) = k
  BY <1>1, <1>2 DEF LinkOf
<1>5. s \in Sockets
  BY <1>2, <1>3, <1>4 DEF Sockets
<1> QED
  BY <1>4, <1>5

\* The two ends of a link do not do the same.
LEMMA EndsDiffer ==
  ASSUME method \in [Link -> Methods], NEW s \in Sockets, NEW p \in Sockets,
         LinkOf(s) = LinkOf(p)
  PROVE  MethodOf(p) = OtherSideMethod(MethodOf(s)) <=> p.client # s.client
<1>1. method[LinkOf(s)] \in {"bind", "connect"} /\ s.client \in BOOLEAN /\ p.client \in BOOLEAN
  BY SocketForm DEF Methods
<1> QED
  BY <1>1 DEF MethodOf, OtherSideMethod

\* Two sockets of a link that bind are the same, or the link has several of that end.
LEMMA BindOnce ==
  ASSUME method \in [Link -> Methods], NEW s \in Sockets, NEW p \in Sockets, s # p,
         MethodOf(s) = "bind", MethodOf(p) = "bind", Address(s) = Address(p)
  PROVE  method[0] = "connect" \/ method[3] = "bind"
<1> DEFINE k == LinkOf(s)
<1>1. LinkOf(p) = k /\ k \in Link
  BY SocketForm DEF Address
<1>2. p.client = s.client
  <2>1. p.client # s.client => MethodOf(p) = OtherSideMethod(MethodOf(s))
    BY <1>1, EndsDiffer
  <2> QED
    BY <2>1 DEF OtherSideMethod
<1>3. p.stage = s.stage
  BY <1>1, <1>2, SocketForm
<1>4. p.lane # s.lane
  BY <1>2, <1>3, SocketForm
<1>5. s.stage \in 1 .. 3
  BY <1>3, <1>4, SocketForm DEF LaneOf
<1>6. k \notin {1, 2}
  BY <1>1, <1>4 DEF Address
<1>7. (s.client /\ k = 0) \/ (~s.client /\ k = 3)
  BY <1>1, <1>5, <1>6, SocketForm DEF Link
<1> QED
  BY <1>1, <1>7 DEF MethodOf, OtherSideMethod, Methods

-----------------------------------------------------------------------------
(* The inductive invariant.                                                *)

WiringTypes ==
    /\ method \in [Link -> Methods]
    /\ opened \subseteq Sockets
    /\ failed => method[0] = "connect" \/ method[3] = "bind"

LEMMA RunningInitOK == RunningInit => WiringTypes
BY DEF RunningInit, WiringInit, WiringTypes

LEMMA StepWiringTypes ==
  WiringTypes /\ [RunningNext]_<<vars, wiringVars>> => WiringTypes'
<1> SUFFICES ASSUME WiringTypes, [RunningNext]_<<vars, wiringVars>> PROVE WiringTypes'
  OBVIOUS
<1>1. ASSUME NEW s \in Sockets, OpenSocket(s) PROVE WiringTypes'
  <2>1. method' = method /\ s \notin opened
    BY <1>1 DEF OpenSocket, IsNext
  <2>2. opened' \subseteq Sockets
    BY <1>1 DEF OpenSocket, WiringTypes
  <2>3. ASSUME failed' PROVE method[0] = "connect" \/ method[3] = "bind"
    <3>1. MethodOf(s) = "bind" /\ IsBound(Address(s))
      BY <1>1, <2>3 DEF OpenSocket
    <3>2. PICK p \in opened : MethodOf(p) = "bind" /\ Address(p) = Address(s)
      BY <3>1 DEF IsBound
    <3> QED
      BY <2>1, <3>1, <3>2, BindOnce DEF WiringTypes
  <2> QED
    BY <2>1, <2>2, <2>3 DEF WiringTypes
<1>2. CASE UNCHANGED wiringVars
  BY <1>2 DEF wiringVars, WiringTypes
<1> QED
  BY <1>1, <1>2 DEF RunningNext

LEMMA WiringInvariant == RunningSpec => []WiringTypes
<1> QED
  BY RunningInitOK, StepWiringTypes, PTL DEF RunningSpec

-----------------------------------------------------------------------------
(* Who gets what is sent.                                                  *)

\* The sockets that could be at the other end of a sending socket.
LEMMA PeersOfSender ==
  ASSUME WiringTypes, NEW s \in Sockets, ~s.client, LinkOf(s) # 4
  PROVE  /\ \A p \in Peers(s) : /\ p \in Sockets /\ p.client /\ p.stage = s.stage + 1
                                /\ LinkOf(s) \in {1, 2} => p.lane = s.lane
         /\ \A p \in opened :
               p.client /\ p.stage = s.stage + 1 /\ (LinkOf(s) \in {1, 2} => p.lane = s.lane)
                  => p \in Peers(s)
<1> DEFINE k == LinkOf(s)
<1>1. k \in Link /\ s.stage = k /\ k \in 0 .. 3 /\ s.client = FALSE
  BY SocketForm DEF Link
<1>2. ASSUME NEW p \in Peers(s)
      PROVE  /\ p \in Sockets /\ p.client /\ p.stage = s.stage + 1
             /\ k \in {1, 2} => p.lane = s.lane
  <2>1. /\ p \in Sockets /\ Address(p) = Address(s)
        /\ MethodOf(p) = OtherSideMethod(MethodOf(s))
    BY DEF Peers, WiringTypes
  <2>2. LinkOf(p) = k /\ (k \in {1, 2} => p.lane = s.lane)
    BY <2>1 DEF Address
  <2>3. p.client # s.client
    BY <2>1, <2>2, EndsDiffer DEF WiringTypes
  <2>4. p.client = TRUE
    BY <1>1, <2>1, <2>3, SocketForm
  <2> QED
    BY <1>1, <2>1, <2>2, <2>4, SocketForm
<1>3. ASSUME NEW p \in opened, p.client, p.stage = s.stage + 1, k \in {1, 2} => p.lane = s.lane
      PROVE  p \in Peers(s)
  <2>1. p \in Sockets /\ p.client = TRUE /\ LinkOf(p) \in Link /\ p.stage = LinkOf(p) + 1
    BY <1>3, SocketForm DEF WiringTypes
  <2>2. LinkOf(p) = k
    BY <1>1, <1>3, <2>1 DEF Link
  <2>3. Address(p) = Address(s)
    BY <1>3, <2>2 DEF Address
  <2>4. MethodOf(p) = OtherSideMethod(MethodOf(s))
    BY <1>1, <2>1, <2>2, EndsDiffer DEF WiringTypes
  <2>5. SocketType[k] = "push"
    BY <1>1 DEF SocketType, Link
  <2>6. TypeOf(p) = OtherSideType(TypeOf(s))
    BY <1>1, <2>1, <2>2, <2>5 DEF TypeOf, OtherSideType
  <2> QED
    BY <2>3, <2>4, <2>6 DEF Peers
<1> QED
  BY <1>2, <1>3

LEMMA WorkersPeers ==
  ASSUME WiringTypes, NEW w \in Worker
  PROVE  LET receiver == Receiving(Receiver(OutPipe(w))) IN
         /\ Peers(Sending(w)) \subseteq {receiver}
         /\ opened = Sockets => Peers(Sending(w)) = {receiver}
<1> DEFINE s == Sending(w)
<1> DEFINE receiver == Receiving(Receiver(OutPipe(w)))
<1> DEFINE lane == IF w[1] = 3 THEN NoLane ELSE w[2]
<1>1. w[1] \in 1 .. 3 /\ w[2] \in Lane /\ w[1] \in Link
  BY DEF Worker, Link
<1>2. /\ s = [stage |-> w[1], lane |-> w[2], client |-> FALSE]
      /\ s \in Sockets /\ LinkOf(s) = w[1]
  <2>1. w[2] \in LaneOf(w[1])
    BY <1>1 DEF LaneOf
  <2> QED
    BY <1>1, <2>1, IsSocket DEF Sending
<1>3. receiver = [stage |-> w[1] + 1, lane |-> lane, client |-> TRUE]
  <2>1. CASE w[1] = 3
    BY <2>1 DEF Receiver, OutPipe, Receiving
  <2>2. CASE w[1] # 3
    <3>1. Receiver(OutPipe(w)) = <<w[1] + 1, w[2]>> /\ <<w[1] + 1, w[2]>> \in Worker
      BY <1>1, <2>2 DEF Receiver, OutPipe, Worker
    <3>2. <<w[1] + 1, w[2]>> # Collector
      BY <3>1, PipelineAssumption
    <3> QED
      BY <2>2, <3>1, <3>2 DEF Receiving
  <2> QED
    BY <2>1, <2>2
<1>4. receiver \in Sockets
  <2>1. lane \in LaneOf(w[1] + 1)
    BY <1>1 DEF LaneOf
  <2> HIDE DEF lane
  <2> QED
    BY <1>1, <1>3, <2>1, IsSocket
<1>5. /\ ~s.client /\ LinkOf(s) # 4 /\ s.stage = w[1] /\ s.lane = w[2]
      /\ receiver.client /\ receiver.stage = w[1] + 1 /\ receiver.lane = lane
  BY <1>1, <1>2, <1>3
<1> HIDE DEF s, receiver
<1>6. ASSUME NEW p \in Peers(s) PROVE p = receiver
  <2>1. /\ p \in Sockets /\ p.client /\ p.stage = w[1] + 1
        /\ w[1] \in {1, 2} => p.lane = w[2]
    BY <1>2, <1>5, PeersOfSender
  <2>2. p.lane \in LaneOf(w[1] + 1) /\ p.client = TRUE
        /\ p = [stage |-> p.stage, lane |-> p.lane, client |-> p.client]
    BY <2>1, SocketForm
  <2>3. p.lane = lane
    BY <1>1, <2>1, <2>2 DEF LaneOf
  <2> QED
    BY <1>3, <2>1, <2>2, <2>3
<1>7. ASSUME opened = Sockets PROVE receiver \in Peers(s)
  <2>1. w[1] \in {1, 2} => lane = w[2]
    BY <1>1
  <2> QED
    BY <1>2, <1>4, <1>5, <1>7, <2>1, PeersOfSender
<1> QED
  BY <1>6, <1>7 DEF s, receiver

LEMMA SamplersPeers ==
  ASSUME WiringTypes, opened = Sockets
  PROVE  Peers([stage |-> 0, lane |-> NoLane, client |-> FALSE]) = {Receiving(<<1, l>>) : l \in Lane}
<1> DEFINE s == [stage |-> 0, lane |-> NoLane, client |-> FALSE]
<1> DEFINE receiver(l) == [stage |-> 1, lane |-> l, client |-> TRUE]
<1>1. s \in Sockets /\ LinkOf(s) = 0
  <2>1. 0 \in Link /\ NoLane \in LaneOf(0)
    BY DEF Link, LaneOf
  <2> QED
    BY <2>1, IsSocket
<1>2. \A l \in Lane : Receiving(<<1, l>>) = receiver(l)
  <2>1. \A l \in Lane : <<1, l>> \in Worker
    BY DEF Worker
  <2>2. \A l \in Lane : <<1, l>> # Collector
    BY <2>1, PipelineAssumption
  <2> QED
    BY <2>2 DEF Receiving
<1>3. \A l \in Lane : receiver(l) \in Sockets
  <2>1. 0 \in Link /\ \A l \in Lane : l \in LaneOf(0 + 1)
    BY DEF Link, LaneOf
  <2>2. 0 + 1 = 1
    OBVIOUS
  <2> QED
    BY <2>1, <2>2, IsSocket
<1>4. ~s.client /\ s.stage = 0
  OBVIOUS
<1> HIDE DEF s
<1>5. ASSUME NEW p \in Peers(s) PROVE p \in {receiver(l) : l \in Lane}
  <2>1. p \in Sockets /\ p.client /\ p.stage = 1
    BY <1>1, <1>4, PeersOfSender
  <2>2. p.lane \in LaneOf(1) /\ p.client = TRUE
        /\ p = [stage |-> p.stage, lane |-> p.lane, client |-> p.client]
    BY <2>1, SocketForm
  <2>3. p.lane \in Lane
    BY <2>2 DEF LaneOf
  <2> QED
    BY <2>1, <2>2, <2>3
<1>6. ASSUME NEW l \in Lane PROVE receiver(l) \in Peers(s)
  BY <1>1, <1>3, <1>4, PeersOfSender
<1> QED
  BY <1>2, <1>5, <1>6 DEF s

\* Whatever end of a link the configuration makes bind and in whatever order the threads
\* open their sockets (mqhelper.hpp, create_socket), a message gets only where Pipeline
\* has it go, and once all are open it gets there; none fails to open, unless lanes are
\* made to bind the end that they share.
THEOREM Wired == RunningSpec => []PipesAreWired
<1>1. WiringTypes => PipesAreWired
  BY WorkersPeers, SamplersPeers DEF PipesAreWired, WiringTypes
<1> QED
  BY <1>1, WiringInvariant, PTL

-----------------------------------------------------------------------------
(* The running receiver is a pipeline.                                     *)

LEMMA RunsAsPipeline == RunningSpec => Spec
<1>1. RunningInit => Init
  BY DEF RunningInit
<1>2. [RunningNext]_<<vars, wiringVars>> => [Next]_vars
  BY DEF RunningNext
<1> QED
  BY <1>1, <1>2, PTL DEF RunningSpec, Spec

-----------------------------------------------------------------------------
(* The monitor's message and its display.                                  *)

\* What is packed is what is tested (monitor_bits.hpp): the last byte may be partly used.
LEMMA RoundTrip ==
  ASSUME NEW nbits \in Nat, NEW flags \in [0 .. nbits - 1 -> BOOLEAN], NEW k \in 0 .. nbits - 1
  PROVE  Test(Pack(nbits, flags).bytes, k) <=> flags[k]
<1> DEFINE n == k \div ByteBits
<1> DEFINE i == k % ByteBits
<1> DEFINE bytes == Pack(nbits, flags).bytes
<1>1. k \in Nat /\ ByteBits \in Nat \ {0} /\ nbits \in Nat /\ k < nbits
  BY MonitorBitsAssumption
<1>2. n \in Nat /\ i \in 0 .. ByteBits - 1 /\ k = n * ByteBits + i
  BY <1>1, Dividing
<1>3. n \in 0 .. PackedBytes(nbits) - 1
  <2> DEFINE p == PackedBytes(nbits)
  <2> DEFINE m == nbits + ByteBits - 1
  <2>1. m \in Nat /\ p = m \div ByteBits
    BY <1>1 DEF PackedBytes
  <2> HIDE DEF m
  <2>2. p \in Nat /\ m % ByteBits \in 0 .. ByteBits - 1 /\ m = ByteBits * p + (m % ByteBits)
    BY <1>1, <2>1, Dividing
  <2>3. nbits <= ByteBits * p
    <3>1. ByteBits * p \in Int
      BY <1>1, <2>2
    <3> QED
      BY <1>1, <2>2, <3>1 DEF m
  <2>4. k < ByteBits * p
    <3>1. ByteBits * p \in Int
      BY <1>1, <2>2
    <3> QED
      BY <1>1, <2>3, <3>1
  <2>5. n < p
    BY <1>1, <2>2, <2>4, QuotientBelow
  <2> HIDE DEF n, p
  <2>6. n \in 0 .. p - 1
    BY <1>2, <2>2, <2>5
  <2> QED
    BY <2>6 DEF p
<1>4. n \in DOMAIN bytes
      /\ bytes[n] = {j \in 0 .. ByteBits - 1 : n * ByteBits + j < nbits /\ flags[n * ByteBits + j]}
  BY <1>3 DEF Pack
<1>5. Test(bytes, k) <=> i \in bytes[n]
  BY <1>4 DEF Test
<1> HIDE DEF n, i, bytes
<1>6. i \in bytes[n] <=> flags[k]
  BY <1>1, <1>2, <1>4
<1> QED
  BY <1>5, <1>6 DEF bytes

\* The number of flags that are not set (ssrx-rbstat.cpp).
LEMMA CountOfRest ==
  ASSUME NEW nbits \in Nat, NEW flags \in [0 .. nbits - 1 -> BOOLEAN]
  PROVE  nbits - Count(Pack(nbits, flags).bytes, nbits)
           = Cardinality({k \in 0 .. nbits - 1 : ~flags[k]})
<1> DEFINE all == 0 .. nbits - 1
<1> DEFINE set == {k \in all : flags[k]}
<1> DEFINE bytes == Pack(nbits, flags).bytes
<1>1. IsFiniteSet(all) /\ Cardinality(all) = nbits
  <2>1. 0 \in Int /\ nbits - 1 \in Int
    OBVIOUS
  <2> QED
    BY <2>1, FS_Interval
<1>2. {k \in all : Test(bytes, k)} = set
  BY RoundTrip
<1>3. Count(bytes, nbits) = Cardinality(set)
  BY <1>2 DEF Count
<1>4. IsFiniteSet(set) /\ Cardinality(set) \in Nat
  BY <1>1, FS_Subset, FS_CardinalityType
<1>5. {k \in all : ~flags[k]} = all \ set /\ all \cap set = set
  OBVIOUS
<1>6. Cardinality(all \ set) = Cardinality(all) - Cardinality(all \cap set)
  BY <1>1, FS_Difference
<1> QED
  BY <1>1, <1>3, <1>5, <1>6

\* The cell of a flag is blank if and only if the flag is set (ssrx-rbstat.cpp).
LEMMA CellShows ==
  ASSUME NEW nbits \in Nat, NEW flags \in [0 .. nbits - 1 -> BOOLEAN],
         NEW cols, NEW row, NEW col,
         col + row * cols \in 0 .. nbits - 1
  PROVE  (Cell(Pack(nbits, flags), cols, row, col) = " ") = flags[col + row * cols]
<1> DEFINE msg == Pack(nbits, flags)
<1> DEFINE k == col + row * cols
<1>1. Test(msg.bytes, k) <=> flags[k]
  BY RoundTrip
<1>2. msg.nbits = nbits /\ k < nbits
  BY DEF Pack
<1>3. flags[k] \in BOOLEAN
  OBVIOUS
<1> HIDE DEF msg
<1>4. Cell(msg, cols, row, col) = IF Test(msg.bytes, k) THEN " " ELSE "#"
  BY <1>2 DEF Cell
<1> HIDE DEF k
<1>5. (Cell(msg, cols, row, col) = " ") <=> flags[k]
  BY <1>1, <1>4
<1>6. (Cell(msg, cols, row, col) = " ") = flags[k]
  BY <1>3, <1>5, Zenon
<1> QED
  BY <1>6 DEF msg, k

\* What is displayed of some flags, and that it is right.
ShowsFlags(nbits, flags, cols, lines) ==
    LET display == Display(Pack(nbits, flags), cols, lines)
        hidden == IF cols > nbits THEN 0 ELSE nbits % cols
    IN  /\ display = {} => lines * cols <= nbits
        /\ \A shown \in display :
              /\ \A b \in 0 .. nbits - hidden - 1 :
                    (shown.cells[b \div cols][b % cols] = " ") = flags[b]
              /\ \A b \in 0 .. nbits - 1 : b >= nbits - hidden =>
                    b \div cols \notin DOMAIN shown.cells
              /\ shown.number = Cardinality({b \in 0 .. nbits - 1 : ~flags[b]})
              /\ cols > nbits => shown.cells[0][nbits] = "|"

\* In a window of any width each flag stands in its row and column.
LEMMA DisplayShows ==
  ASSUME NEW nbits \in Nat \ {0}, NEW flags \in [0 .. nbits - 1 -> BOOLEAN],
         NEW cols \in 1 .. nbits + 1, NEW lines \in Nat, lines >= 2
  PROVE  ShowsFlags(nbits, flags, cols, lines)
<1> DEFINE msg == Pack(nbits, flags)
<1> DEFINE rows == Rows(nbits, cols)
<1> DEFINE display == Display(msg, cols, lines)
<1> DEFINE hidden == IF cols > nbits THEN 0 ELSE nbits % cols
<1> DEFINE cells == [row \in 0 .. rows - 1 |-> [col \in 0 .. cols - 1 |-> Cell(msg, cols, row, col)]]
<1>1. /\ cols \in Nat \ {0} /\ nbits \in Nat /\ nbits > 0
      /\ msg.nbits = nbits
  BY DEF Pack
<1>2. /\ rows \in Nat \ {0} /\ hidden \in Nat /\ hidden <= nbits
      /\ cols <= nbits => cols * rows = nbits - hidden
      /\ cols > nbits => rows = 1
  <2>1. CASE cols > nbits
    BY <1>1, <2>1 DEF Rows
  <2>2. CASE cols <= nbits
    <3> DEFINE q == nbits \div cols
    <3> DEFINE r == nbits % cols
    <3>1. q \in Nat /\ r \in 0 .. cols - 1 /\ nbits = cols * q + r
      BY <1>1, Dividing
    <3>2. rows = q /\ hidden = r
      BY <1>1, <2>2 DEF Rows
    <3> HIDE DEF q, r, rows, hidden
    <3>3. cols * q \in Nat
      BY <1>1, <3>1
    <3>4. q # 0
      <4> SUFFICES ASSUME q = 0 PROVE FALSE
        OBVIOUS
      <4>1. cols * q = 0
        BY <1>1
      <4> QED
        BY <1>1, <2>2, <3>1, <4>1
    <3> QED
      BY <1>1, <2>2, <3>1, <3>2, <3>3, <3>4
  <2> QED
    BY <1>1, <2>1, <2>2
<1>3. /\ display = {} => rows >= lines
      /\ \A shown \in display :
            shown.cells = cells /\ shown.number = nbits - Count(msg.bytes, nbits)
  <2>1. Rows(msg.nbits, cols) = rows
    BY <1>1
  <2> HIDE DEF msg, rows
  <2>2. display = IF rows >= lines THEN {}
                  ELSE {[cells |-> cells, number |-> nbits - Count(msg.bytes, nbits)]}
    BY <1>1, <2>1, Zenon DEF Display
  <2> DEFINE one == [cells |-> cells, number |-> nbits - Count(msg.bytes, nbits)]
  <2>3. one.cells = cells /\ one.number = nbits - Count(msg.bytes, nbits)
    OBVIOUS
  <2>4. display = IF rows >= lines THEN {} ELSE {one}
    BY <2>2
  <2> HIDE DEF cells, display, one
  <2>5. display = {} => rows >= lines
    BY <2>4
  <2>6. \A shown \in display : shown = one
    BY <2>4
  <2> QED
    BY <2>3, <2>5, <2>6
<1> HIDE DEF msg, rows, hidden, display
<1>5. display = {} => lines * cols <= nbits
  <2> SUFFICES ASSUME rows >= lines PROVE lines * cols <= nbits
    BY <1>3
  <2>1. cols <= nbits
    BY <1>1, <1>2
  <2>2. cols * lines <= cols * rows /\ cols * lines = lines * cols
    BY <1>1, <1>2
  <2>3. cols * lines \in Int
    BY <1>1
  <2> QED
    BY <1>1, <1>2, <2>1, <2>2, <2>3
<1>6. ASSUME NEW b \in 0 .. nbits - hidden - 1
      PROVE  (cells[b \div cols][b % cols] = " ") = flags[b]
  <2> DEFINE row == b \div cols
  <2> DEFINE col == b % cols
  <2>1. b \in Nat /\ b < nbits - hidden /\ b \in 0 .. nbits - 1
    BY <1>1, <1>2
  <2>2. row \in Nat /\ col \in 0 .. cols - 1 /\ b = row * cols + col
    BY <1>1, <2>1, Dividing
  <2>3. b < cols * rows
    <3>1. CASE cols <= nbits
      BY <1>2, <2>1, <3>1
    <3>2. CASE cols > nbits
      BY <1>1, <1>2, <2>1, <3>2
    <3> QED
      BY <1>1, <3>1, <3>2
  <2>4. row < rows
    BY <1>1, <1>2, <2>1, <2>3, QuotientBelow
  <2> HIDE DEF row, col
  <2>5. row \in 0 .. rows - 1 /\ col + row * cols = b
    <3>1. row * cols \in Int
      BY <1>1, <2>2
    <3> QED
      BY <1>2, <2>2, <2>4, <3>1
  <2>6. cells[row][col] = Cell(msg, cols, row, col)
    BY <2>2, <2>5
  <2>7. (Cell(msg, cols, row, col) = " ") = flags[b]
    BY <1>1, <2>1, <2>5, CellShows DEF msg
  <2> QED
    BY <2>6, <2>7 DEF row, col
<1>7. ASSUME NEW b \in 0 .. nbits - 1, b >= nbits - hidden
      PROVE  b \div cols \notin DOMAIN cells
  <2>1. cols <= nbits
    BY <1>1, <1>7 DEF hidden
  <2>2. b \in Nat /\ ~(b < cols * rows)
    BY <1>1, <1>2, <1>7, <2>1
  <2>3. ~(b \div cols < rows)
    BY <1>1, <1>2, <2>2, QuotientBelow
  <2>4. b \div cols \in Nat
    BY <1>1, <2>2, Dividing
  <2> QED
    BY <1>2, <2>3, <2>4
<1>8. ASSUME cols > nbits PROVE cells[0][nbits] = "|"
  <2>1. 0 \in 0 .. rows - 1 /\ nbits \in 0 .. cols - 1
    BY <1>1, <1>2, <1>8
  <2>2. cells[0][nbits] = Cell(msg, cols, 0, nbits)
    BY <2>1
  <2>3. nbits + 0 * cols = nbits /\ nbits - 1 < nbits /\ ~(nbits < nbits)
    BY <1>1
  <2>4. Cell(msg, cols, 0, nbits) = "|"
    BY <1>1, <2>3 DEF Cell
  <2> QED
    BY <2>2, <2>4
<1>9. nbits - Count(msg.bytes, nbits) = Cardinality({b \in 0 .. nbits - 1 : ~flags[b]})
  BY CountOfRest DEF msg
<1> HIDE DEF cells
<1> QED
  BY <1>3, <1>5, <1>6, <1>7, <1>8, <1>9 DEF msg, hidden, display, ShowsFlags

\* What ssrx-rbstat shows is the ring, in a window of any width: each flag in its place, row
\* by row, and the number of blocks in use (monitor_bits.hpp, ssrx-rbstat.cpp).
THEOREM Shown == RunningSpec => []FlagsAreShown
<1>1. RunningSpec => []TypeOK
  BY RunsAsPipeline, TypeCorrect, PTL
<1>2. TypeOK => FlagsAreShown
  <2> SUFFICES ASSUME TypeOK PROVE FlagsAreShown
    OBVIOUS
  <2>1. NBlocks \in Nat \ {0}
    BY NBlocksAssumption
  <2>2. Block = 0 .. NBlocks - 1
    BY DEF Block
  <2>3. writable \in [0 .. NBlocks - 1 -> BOOLEAN]
    BY <2>2 DEF TypeOK, SamplerTypeOK, RingTypeOK
  <2>4. \A cols \in 1 .. NBlocks + 1, lines \in {2, NBlocks + 1} :
           ShowsFlags(NBlocks, writable, cols, lines)
    <3> TAKE cols \in 1 .. NBlocks + 1, lines \in {2, NBlocks + 1}
    <3>1. lines \in Nat /\ lines >= 2
      BY <2>1
    <3> QED
      BY <2>1, <2>3, <3>1, DisplayShows
  <2> QED
    BY <2>2, <2>4, Zenon DEF FlagsAreShown, ShowsFlags
<1> QED
  BY <1>1, <1>2, PTL
=============================================================================
