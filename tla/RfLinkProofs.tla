---------------------------- MODULE RfLinkProofs -----------------------------
(***************************************************************************)
(* For FIFOs of every size and every number of commands: the write numbers *)
(* on their way through the radio - executed, received with an             *)
(* acknowledgement, waiting for one, being queued - are in order, so none  *)
(* is executed twice or after a later one.                                 *)
(***************************************************************************)
EXTENDS RfLink, TLAPS

------------------------------------------------------------------------------
(***************************************************************************)
(* Sequences.                                                              *)
(***************************************************************************)
LEMMA Element ==
  ASSUME NEW S, NEW s \in Seq(S), NEW i \in 1..Len(s) PROVE s[i] \in S
OBVIOUS

LEMMA HeadTail ==
  ASSUME NEW S, NEW s \in Seq(S), s # <<>>
  PROVE  /\ Len(s) \in Nat \ {0} /\ Head(s) = s[1] /\ Head(s) \in S
         /\ Tail(s) \in Seq(S) /\ Len(Tail(s)) = Len(s) - 1
         /\ \A i \in 1..(Len(s) - 1) : Tail(s)[i] = s[i + 1]
OBVIOUS

LEMMA AppendOne ==
  ASSUME NEW S, NEW s \in Seq(S), NEW e \in S
  PROVE  /\ Append(s, e) \in Seq(S) /\ Len(Append(s, e)) = Len(s) + 1
         /\ \A i \in 1..Len(s) : Append(s, e)[i] = s[i]
         /\ Append(s, e)[Len(s) + 1] = e
OBVIOUS

\* Taking from a FIFO that may be empty.
LEMMA PoppedType ==
  ASSUME NEW S, NEW s \in Seq(S)
  PROVE  /\ Popped(s) \in Seq(S) /\ Len(Popped(s)) <= Len(s)
         /\ s # <<>> => Head(s) \in S
<1>1. CASE s = <<>>
  BY <1>1 DEF Popped
<1>2. CASE s # <<>>
  BY <1>2, HeadTail DEF Popped
<1>3. QED
  BY <1>1, <1>2

\* What is not full has a place left.
LEMMA NotFull ==
  ASSUME NEW S, NEW s \in Seq(S), Len(s) <= FifoSize, ~Full(s)
  PROVE  Len(s) + 1 <= FifoSize
BY FifoAssumption DEF Full

------------------------------------------------------------------------------
(***************************************************************************)
(* Types.                                                                  *)
(***************************************************************************)
LEMMA PacketKinds ==
  /\ \A v \in 0..MaxChanges : State(v) \in Packets
  /\ \A c \in Reads : Reply(c) \in Packets
  /\ \A p \in Packets : p.kind = "state" => p.value \in 0..MaxChanges
  /\ \A p \in Packets : p.kind = "reply" => p.value \in Reads
BY DEF State, Reply, Packets

LEMMA PayloadKinds ==
  /\ \A n \in 1..MaxCommands : Write(n) \in Payloads
  /\ \A c \in Reads : Read(c) \in Payloads
  /\ \A p \in Payloads \cup {Idle} : p.kind = "write" => p.value \in 1..MaxCommands /\ p \in Payloads
  /\ \A p \in Payloads \cup {Idle} : p.kind = "read" => p.value \in Reads /\ p \in Payloads
BY DEF Write, Read, Payloads, Idle

\* The part of the state that Received may change.
ReceiverType ==
  /\ rxFifo \in Seq(Packets) /\ Len(rxFifo) <= FifoSize
  /\ ackFifo \in Seq(Payloads) /\ Len(ackFifo) <= FifoSize
  /\ ackOut \in BOOLEAN /\ (ackOut => ackFifo # <<>>)
  /\ RX_DR \in BOOLEAN /\ TX_DS \in BOOLEAN /\ rf_interrupt \in BOOLEAN

LEMMA ReceivedType ==
  ASSUME TypeOK, NEW p \in Packets, Received(p) PROVE ReceiverType'
<1>1. CASE seen
  BY <1>1 DEF Received, TypeOK, ReceiverType
<1>2. CASE ~seen
  <2> USE <1>2 DEF Received
  <2>1. rxFifo' \in Seq(Packets) /\ Len(rxFifo') <= FifoSize
    <3>1. rxFifo \in Seq(Packets) /\ Len(rxFifo) <= FifoSize
      BY DEF TypeOK
    <3>2. Len(rxFifo) + 1 <= FifoSize
      BY <3>1, NotFull
    <3>3. QED
      BY <3>1, <3>2, AppendOne
  <2>2. ackFifo' \in Seq(Payloads) /\ Len(ackFifo') <= FifoSize
    <3>1. CASE ackOut
      <4>1. ackFifo # <<>> /\ ackFifo \in Seq(Payloads) /\ Len(ackFifo) <= FifoSize
        BY <3>1 DEF TypeOK
      <4>2. Tail(ackFifo) \in Seq(Payloads) /\ Len(Tail(ackFifo)) = Len(ackFifo) - 1
        BY <4>1, HeadTail
      <4>3. QED
        BY <3>1, <4>1, <4>2, FifoAssumption
    <3>2. CASE ~ackOut
      BY <3>2 DEF TypeOK
    <3>3. QED
      BY <3>1, <3>2
  <2>3. ackOut' \in BOOLEAN /\ (ackOut' => ackFifo' # <<>>)
    OBVIOUS
  <2>4. RX_DR' \in BOOLEAN /\ TX_DS' \in BOOLEAN /\ rf_interrupt' \in BOOLEAN
    BY Zenon DEF Raise
  <2>5. QED
    BY <2>1, <2>2, <2>3, <2>4 DEF ReceiverType
<1>3. QED
  BY <1>1, <1>2 DEF TypeOK

LEMMA DeliveredType == TypeOK /\ Delivered => TypeOK'
<1> SUFFICES ASSUME TypeOK, Delivered PROVE TypeOK'
  OBVIOUS
<1>1. Head(txFifo) \in Packets /\ txFifo' \in Seq(Packets) /\ Len(txFifo') <= FifoSize
  BY HeadTail, FifoAssumption DEF Delivered, TypeOK
<1>2. ReceiverType'
  BY <1>1, ReceivedType DEF Delivered
<1>3. txRx' \in Seq(Payloads) /\ Len(txRx') <= FifoSize
  <2>1. CASE ackOut'
    <3>1. Head(ackFifo') \in Payloads
      BY <1>2, <2>1, HeadTail DEF ReceiverType
    <3>2. QED
      BY <2>1, <3>1, AppendOne, NotFull DEF Delivered, TypeOK
  <2>2. CASE ~ackOut'
    BY <2>2 DEF Delivered, TypeOK
  <2>3. QED
    BY <2>1, <2>2
<1>4. seen' \in BOOLEAN
  BY DEF Delivered
<1>5. QED
  BY <1>1, <1>2, <1>3, <1>4 DEF Delivered, TypeOK, ReceiverType, history

LEMMA AckLostType == TypeOK /\ AckLost => TypeOK'
<1> SUFFICES ASSUME TypeOK, AckLost PROVE TypeOK'
  OBVIOUS
<1>1. Head(txFifo) \in Packets
  BY HeadTail DEF AckLost, TypeOK
<1>2. ReceiverType'
  BY <1>1, ReceivedType DEF AckLost
<1>3. seen' \in BOOLEAN
  BY DEF AckLost
<1>4. QED
  BY <1>2, <1>3 DEF AckLost, TypeOK, ReceiverType, txVars, history

\* tickRFTX with a packet of the right type.
LEMMA tickRFTXType ==
  ASSUME TypeOK, NEW p \in Packets, tickRFTX(p)
  PROVE  /\ txRx' \in Seq(Payloads) /\ Len(txRx') <= FifoSize
         /\ txFifo' \in Seq(Packets) /\ Len(txFifo') <= FifoSize
         /\ MAX_RT' \in BOOLEAN
<1>1. txRx' \in Seq(Payloads) /\ Len(txRx') <= FifoSize
  <2>1. txRx \in Seq(Payloads) /\ Len(txRx) <= FifoSize
    BY DEF TypeOK
  <2>2. Popped(txRx) \in Seq(Payloads) /\ Len(Popped(txRx)) <= Len(txRx)
    BY <2>1, PoppedType
  <2>3. QED
    BY <2>1, <2>2, FifoAssumption DEF tickRFTX
<1>2. txFifo' \in Seq(Packets) /\ Len(txFifo') <= FifoSize
  BY AppendOne, NotFull DEF tickRFTX, TypeOK
<1>3. QED
  BY <1>1, <1>2 DEF tickRFTX

LEMMA PollType == TypeOK /\ (\E due \in BOOLEAN : Poll(due)) => TypeOK'
<1> SUFFICES ASSUME TypeOK, NEW due \in BOOLEAN, Poll(due) PROVE TypeOK'
  OBVIOUS
<1> DEFINE c == IF txRx = <<>> THEN Idle ELSE Head(txRx)
<1>1. State(held) \in Packets
  BY PacketKinds DEF TypeOK
<1>2. c \in Payloads \cup {Idle}
  BY PoppedType DEF TypeOK
<1>3. answering' \in Reads \cup {"no"}
  BY <1>2, PayloadKinds DEF Poll
<1>4. executed' \in Seq(1..MaxCommands)
  <2>1. CASE c.kind = "write"
    BY <1>2, <2>1, PayloadKinds, AppendOne DEF Poll, TypeOK
  <2>2. CASE c.kind # "write"
    BY <2>2 DEF Poll, TypeOK
  <2>3. QED
    BY <2>1, <2>2
<1>5. /\ txRx' \in Seq(Payloads) /\ Len(txRx') <= FifoSize
      /\ txFifo' \in Seq(Packets) /\ Len(txFifo') <= FifoSize /\ MAX_RT' \in BOOLEAN
  BY <1>1, tickRFTXType DEF Poll
<1>6. prevCtrl' \in 0..MaxChanges
  BY DEF Poll, TypeOK
<1>7. QED
  BY <1>3, <1>4, <1>5, <1>6 DEF Poll, TypeOK, rxVars

LEMMA AnswerType == TypeOK /\ Answer => TypeOK'
<1> SUFFICES ASSUME TypeOK, Answer PROVE TypeOK'
  OBVIOUS
<1>1. Reply(answering) \in Packets
  BY PacketKinds DEF TypeOK, Answer
<1>2. /\ txRx' \in Seq(Payloads) /\ Len(txRx') <= FifoSize
      /\ txFifo' \in Seq(Packets) /\ Len(txFifo') <= FifoSize /\ MAX_RT' \in BOOLEAN
  BY <1>1, tickRFTXType DEF Answer
<1>3. QED
  BY <1>2 DEF Answer, TypeOK, rxVars, history

LEMMA MovesType == TypeOK /\ (PlayerMoves \/ INT1_vect) => TypeOK'
<1> SUFFICES ASSUME TypeOK, PlayerMoves \/ INT1_vect PROVE TypeOK'
  OBVIOUS
<1>1. held' \in 0..MaxChanges
  BY BoundsAssumption DEF PlayerMoves, INT1_vect, TypeOK
<1>2. CASE PlayerMoves
  BY <1>1, <1>2 DEF PlayerMoves, TypeOK, rxVars, history
<1>3. CASE INT1_vect
  <2>1. /\ txRx' \in Seq(Payloads) /\ Len(txRx') <= FifoSize
        /\ txFifo' \in Seq(Packets) /\ Len(txFifo') <= FifoSize
    BY <1>3, FifoAssumption DEF INT1_vect
  <2>2. MAX_RT' \in BOOLEAN /\ seen' \in BOOLEAN /\ txOn' \in BOOLEAN
    BY <1>3, Zenon DEF INT1_vect
  <2>3. QED
    BY <1>1, <1>3, <2>1, <2>2 DEF INT1_vect, TypeOK, history
<1>4. QED
  BY <1>2, <1>3

\* The receiver takes a packet, if there is one.
LEMMA TakeType ==
  ASSUME TypeOK, Take
  PROVE  /\ rxFifo' \in Seq(Packets) /\ Len(rxFifo') <= FifoSize
         /\ RX_DR' \in BOOLEAN /\ rf_interrupt' \in BOOLEAN
         /\ First \in Packets \cup {Idle}
<1>1. rxFifo \in Seq(Packets) /\ Len(rxFifo) <= FifoSize
  BY DEF TypeOK
<1>2. Popped(rxFifo) \in Seq(Packets) /\ Len(Popped(rxFifo)) <= Len(rxFifo)
  BY <1>1, PoppedType
<1>3. rxFifo' \in Seq(Packets) /\ Len(rxFifo') <= FifoSize
  BY <1>1, <1>2, FifoAssumption DEF Take
<1>4. First \in Packets \cup {Idle}
  BY <1>1, PoppedType DEF First
<1>5. RX_DR' \in BOOLEAN /\ rf_interrupt' \in BOOLEAN
  BY Zenon DEF Take
<1>6. QED
  BY <1>3, <1>4, <1>5

LEMMA tickRFInputType == TypeOK /\ tickRFInput => TypeOK'
<1> SUFFICES ASSUME TypeOK, tickRFInput PROVE TypeOK'
  OBVIOUS
<1>1. /\ rxFifo' \in Seq(Packets) /\ Len(rxFifo') <= FifoSize
      /\ RX_DR' \in BOOLEAN /\ rf_interrupt' \in BOOLEAN /\ First \in Packets \cup {Idle}
  BY TakeType DEF tickRFInput
<1>2. controller' \in -1..MaxChanges
  <2>1. First.kind = "state" => First.value \in 0..MaxChanges
    BY <1>1, PacketKinds DEF Idle
  <2>2. QED
    BY <2>1, BoundsAssumption DEF tickRFInput, TypeOK
<1>3. QED
  BY <1>1, <1>2 DEF tickRFInput, TypeOK, txVars, history

LEMMA WritesType == TypeOK /\ (HostWrite \/ WaitForPlace \/ Relay) => TypeOK'
<1> SUFFICES ASSUME TypeOK, HostWrite \/ WaitForPlace \/ Relay PROVE TypeOK'
  OBVIOUS
<1>1. CASE HostWrite
  <2>1. commands' \in 1..MaxCommands
    BY <1>1, BoundsAssumption DEF HostWrite, TypeOK
  <2>2. busy' \in Payloads
    BY <1>1, <2>1, PayloadKinds DEF HostWrite
  <2>3. QED
    BY <1>1, <2>1, <2>2 DEF HostWrite, TypeOK, txVars
<1>2. CASE WaitForPlace
  <2>1. /\ rxFifo' \in Seq(Packets) /\ Len(rxFifo') <= FifoSize
        /\ RX_DR' \in BOOLEAN /\ rf_interrupt' \in BOOLEAN
    BY <1>2, TakeType DEF WaitForPlace
  <2>2. QED
    BY <1>2, <2>1 DEF WaitForPlace, TypeOK, txVars, history
<1>3. CASE Relay
  <2>1. busy \in Payloads /\ ackFifo \in Seq(Payloads) /\ Len(ackFifo) + 1 <= FifoSize
    BY <1>3, PayloadKinds, NotFull DEF Relay, TypeOK
  <2>2. ackFifo \o <<busy>> = Append(ackFifo, busy)
    BY <2>1
  <2>3. ackFifo' \in Seq(Payloads) /\ Len(ackFifo') <= FifoSize /\ ackFifo' # <<>>
    BY <1>3, <2>1, <2>2, AppendOne DEF Relay, queued
  <2>4. QED
    BY <1>3, <2>3 DEF Relay, TypeOK, txVars, history
<1>4. QED
  BY <1>1, <1>2, <1>3

LEMMA ReadsType ==
  TypeOK /\ ((\E c \in Reads : HostRead(c)) \/ AwaitReply \/ Timeout) => TypeOK'
<1> SUFFICES ASSUME TypeOK, (\E c \in Reads : HostRead(c)) \/ AwaitReply \/ Timeout
             PROVE  TypeOK'
  OBVIOUS
<1>1. ASSUME NEW c \in Reads, HostRead(c) PROVE TypeOK'
  <2>1. commands' \in 0..MaxCommands /\ busy' \in Payloads
    BY <1>1, PayloadKinds, BoundsAssumption DEF HostRead, TypeOK
  <2>2. /\ ackFifo' \in Seq(Payloads) /\ Len(ackFifo') <= FifoSize
        /\ rxFifo' \in Seq(Packets) /\ Len(rxFifo') <= FifoSize
    BY <1>1, FifoAssumption DEF HostRead
  <2>3. ackOut' = FALSE /\ answer' = "none"
    BY <1>1 DEF HostRead
  <2>4. QED
    BY <1>1, <2>1, <2>2, <2>3 DEF HostRead, TypeOK, txVars
<1>2. CASE AwaitReply
  <2>1. /\ rxFifo' \in Seq(Packets) /\ Len(rxFifo') <= FifoSize
        /\ RX_DR' \in BOOLEAN /\ rf_interrupt' \in BOOLEAN /\ First \in Packets \cup {Idle}
    BY <1>2, TakeType DEF AwaitReply
  <2>2. First.kind = "reply" => First.value \in Reads
    BY <2>1, PacketKinds DEF Idle
  <2>3. ackFifo \in Seq(Payloads) /\ busy \in Payloads /\ Len(ackFifo) <= FifoSize
    BY <1>2, PayloadKinds DEF AwaitReply, TypeOK
  <2>4. ackFifo' \in Seq(Payloads) /\ Len(ackFifo') <= FifoSize
        /\ (ackFifo # <<>> => ackFifo' # <<>>)
    <3>1. CASE Full(ackFifo)
      BY <1>2, <2>3, <3>1 DEF AwaitReply
    <3>2. CASE ~Full(ackFifo)
      BY <1>2, <2>3, <3>2, AppendOne, NotFull DEF AwaitReply
    <3>3. QED
      BY <3>1, <3>2
  <2>5. /\ busy' \in Payloads \cup {Idle} /\ TX_DS' \in BOOLEAN
        /\ answer' \in Reads \cup {"none", "ERROR"}
    <3>1. CASE First.kind = "reply"
      BY <1>2, <2>2, <3>1 DEF AwaitReply, TypeOK
    <3>2. CASE First.kind # "reply"
      BY <1>2, <3>2 DEF AwaitReply, TypeOK
    <3>3. QED
      BY <3>1, <3>2
  <2>6. QED
    BY <1>2, <2>1, <2>4, <2>5 DEF AwaitReply, TypeOK, txVars
<1>3. CASE Timeout
  BY <1>3 DEF Timeout, TypeOK, txVars
<1>4. QED
  BY <1>1, <1>2, <1>3

LEMMA TypeStep == TypeOK /\ [Next]_vars => TypeOK'
<1> SUFFICES ASSUME TypeOK, [Next]_vars PROVE TypeOK'
  OBVIOUS
<1>1. CASE GaveUp
  BY <1>1 DEF GaveUp, TypeOK, rxVars, history
<1>2. CASE Sleep
  BY <1>2 DEF Sleep, TypeOK, rxVars, history
<1>3. CASE UNCHANGED vars
  BY <1>3 DEF vars, txVars, rxVars, history, TypeOK
<1>4. QED
  BY <1>1, <1>2, <1>3, DeliveredType, AckLostType, PollType, AnswerType, MovesType,
     tickRFInputType, WritesType, ReadsType DEF Next

\* The FIFOs of the radio hold at most FifoSize items of the kind that travels in
\* their direction, and every other variable keeps its type, for every FifoSize.
THEOREM TypeCorrect == Spec => []TypeOK
<1>1. Init => TypeOK
  <2> SUFFICES ASSUME Init PROVE TypeOK
    OBVIOUS
  <2>1. /\ txOn \in BOOLEAN /\ MAX_RT \in BOOLEAN /\ seen \in BOOLEAN /\ RX_DR \in BOOLEAN
        /\ TX_DS \in BOOLEAN /\ rf_interrupt \in BOOLEAN /\ ackOut \in BOOLEAN /\ ~ackOut
        /\ answering \in Reads \cup {"no"} /\ answer \in Reads \cup {"none", "ERROR"}
        /\ busy \in Payloads \cup {Idle}
    BY Zenon DEF Init
  <2>2. /\ held \in 0..MaxChanges /\ prevCtrl \in 0..MaxChanges /\ controller \in -1..MaxChanges
        /\ commands \in 0..MaxCommands
    BY BoundsAssumption DEF Init
  <2>3. /\ txFifo \in Seq(Packets) /\ Len(txFifo) <= FifoSize
        /\ txRx \in Seq(Payloads) /\ Len(txRx) <= FifoSize
        /\ rxFifo \in Seq(Packets) /\ Len(rxFifo) <= FifoSize
        /\ ackFifo \in Seq(Payloads) /\ Len(ackFifo) <= FifoSize
        /\ executed \in Seq(1..MaxCommands)
    BY FifoAssumption DEF Init
  <2>4. QED
    BY <2>1, <2>2, <2>3, Zenon DEF TypeOK
<1>2. QED
  BY <1>1, TypeStep, PTL DEF Spec
------------------------------------------------------------------------------
(***************************************************************************)
(* The order of the writes.                                                *)
(***************************************************************************)
IsWrite(p) == p.kind = "write"

\* The writes among payloads: their numbers grow, exceed n, are at most n.
Increasing(s) ==
  \A i \in 1..Len(s), j \in 1..Len(s) :
    i < j /\ IsWrite(s[i]) /\ IsWrite(s[j]) => s[i].value < s[j].value
Exceeds(s, n) == \A i \in 1..Len(s) : IsWrite(s[i]) => n < s[i].value
AtMost(s, n) == \A i \in 1..Len(s) : IsWrite(s[i]) => s[i].value <= n

\* The payloads that were not delivered yet: the head of ackFifo stays there
\* after it was, until the next packet confirms the acknowledgement.
Pending == IF ackOut /\ ~seen THEN Tail(ackFifo) ELSE ackFifo

\* The highest number given to a write that the request handler is done with.
Issued == IF IsWrite(busy) THEN commands - 1 ELSE commands

\* The inductive invariant.
OrderInv ==
  /\ ExecutedOnce /\ Increasing(txRx) /\ Increasing(Pending)
  /\ \A e \in 1..Len(executed) :
       Exceeds(txRx, executed[e]) /\ Exceeds(Pending, executed[e]) /\ executed[e] <= Issued
  /\ \A i \in 1..Len(txRx) : IsWrite(txRx[i]) => Exceeds(Pending, txRx[i].value)
  /\ AtMost(txRx, Issued) /\ AtMost(Pending, Issued)
  /\ IsWrite(busy) => busy.value = commands

LEMMA WriteNumber ==
  ASSUME NEW p \in Payloads \cup {Idle}, IsWrite(p) PROVE p.value \in Int /\ p \in Payloads
BY PayloadKinds DEF IsWrite

LEMMA EmptyOrder ==
  Increasing(<<>>) /\ (\A n : Exceeds(<<>>, n) /\ AtMost(<<>>, n))
BY DEF Increasing, Exceeds, AtMost

LEMMA TailOrder ==
  ASSUME NEW s \in Seq(Payloads), s # <<>>
  PROVE  /\ Increasing(s) =>
              Increasing(Tail(s)) /\ (IsWrite(Head(s)) => Exceeds(Tail(s), Head(s).value))
         /\ \A n \in Int : Exceeds(s, n) => Exceeds(Tail(s), n)
         /\ \A n \in Int : AtMost(s, n) => AtMost(Tail(s), n)
<1>1. /\ Len(s) \in Nat \ {0} /\ Head(s) = s[1] /\ Len(Tail(s)) = Len(s) - 1
      /\ \A i \in 1..(Len(s) - 1) : Tail(s)[i] = s[i + 1]
  BY HeadTail
<1>2. QED
  BY <1>1 DEF Increasing, Exceeds, AtMost

LEMMA AppendOrder ==
  ASSUME NEW s \in Seq(Payloads), NEW e \in Payloads
  PROVE  /\ Increasing(s) /\ (IsWrite(e) => \A i \in 1..Len(s) : IsWrite(s[i]) => s[i].value < e.value)
              => Increasing(Append(s, e))
         /\ \A n \in Int : Exceeds(s, n) /\ (IsWrite(e) => n < e.value) => Exceeds(Append(s, e), n)
         /\ \A n \in Int : AtMost(s, n) /\ (IsWrite(e) => e.value <= n) => AtMost(Append(s, e), n)
<1>1. /\ Len(s) \in Nat /\ Len(Append(s, e)) = Len(s) + 1
      /\ \A i \in 1..Len(s) : Append(s, e)[i] = s[i]
      /\ Append(s, e)[Len(s) + 1] = e
  BY AppendOne
<1>2. QED
  BY <1>1 DEF Increasing, Exceeds, AtMost
\* What is left of payloads some of which are taken or flushed.
Rest(s, t) == t = s \/ t = <<>> \/ (s # <<>> /\ t = Tail(s))

LEMMA RestOrder ==
  ASSUME NEW s \in Seq(Payloads), NEW t, Rest(s, t)
  PROVE  /\ t \in Seq(Payloads)
         /\ Increasing(s) => Increasing(t)
         /\ \A n \in Int : Exceeds(s, n) => Exceeds(t, n)
         /\ \A n \in Int : AtMost(s, n) => AtMost(t, n)
         /\ \A i \in 1..Len(t) : \E k \in 1..Len(s) : t[i] = s[k]
<1>1. CASE t = s
  BY <1>1
<1>2. CASE t = <<>>
  BY <1>2, EmptyOrder
<1>3. CASE s # <<>> /\ t = Tail(s)
  <2>1. /\ Len(s) \in Nat \ {0} /\ t \in Seq(Payloads) /\ Len(t) = Len(s) - 1
        /\ \A i \in 1..(Len(s) - 1) : t[i] = s[i + 1]
    BY <1>3, HeadTail
  <2>2. \A i \in 1..Len(t) : \E k \in 1..Len(s) : t[i] = s[k]
    BY <2>1
  <2>3. QED
    BY <1>3, <2>1, <2>2, TailOrder
<1>4. QED
  BY <1>1, <1>2, <1>3 DEF Rest

LEMMA AtMostGrows ==
  ASSUME NEW s \in Seq(Payloads), NEW m \in Int, NEW n \in Int, m <= n, AtMost(s, m)
  PROVE  AtMost(s, n)
<1> SUFFICES ASSUME NEW i \in 1..Len(s), IsWrite(s[i]) PROVE s[i].value <= n
  BY DEF AtMost
<1>1. s[i] \in Payloads
  BY Element
<1>2. s[i].value \in Int
  BY <1>1, WriteNumber
<1>3. s[i].value <= m
  BY DEF AtMost
<1>4. QED
  BY <1>2, <1>3

LEMMA OrderTypes ==
  ASSUME TypeOK
  PROVE  /\ txRx \in Seq(Payloads) /\ Pending \in Seq(Payloads) /\ Issued \in Int
         /\ \A e \in 1..Len(executed) : executed[e] \in Int
         /\ executed \in Seq(1..MaxCommands)
<1>1. Pending \in Seq(Payloads)
  BY HeadTail DEF TypeOK, Pending
<1>2. Issued \in Int
  BY DEF TypeOK, Issued
<1>3. executed \in Seq(1..MaxCommands)
  BY DEF TypeOK
<1>4. ASSUME NEW e \in 1..Len(executed) PROVE executed[e] \in Int
  <2>1. executed[e] \in 1..MaxCommands
    BY <1>3, Element
  <2>2. QED
    BY <2>1, BoundsAssumption
<1>5. QED
  BY <1>1, <1>2, <1>3, <1>4 DEF TypeOK

\* Payloads are only taken or flushed.
LEMMA Dropped ==
  ASSUME TypeOK, OrderInv, Rest(txRx, txRx'), Rest(Pending, Pending'), executed' = executed,
         Issued' \in Int, Issued <= Issued', IsWrite(busy') => busy'.value = commands'
  PROVE  OrderInv'
<1>1. /\ txRx \in Seq(Payloads) /\ Pending \in Seq(Payloads) /\ Issued \in Int
      /\ \A e \in 1..Len(executed) : executed[e] \in Int
  BY OrderTypes
<1>2. txRx' \in Seq(Payloads) /\ Pending' \in Seq(Payloads)
  BY <1>1, RestOrder
<1>3. Increasing(txRx') /\ Increasing(Pending')
  BY <1>1, RestOrder DEF OrderInv
<1>4. AtMost(txRx', Issued') /\ AtMost(Pending', Issued')
  <2>1. AtMost(txRx', Issued) /\ AtMost(Pending', Issued)
    BY <1>1, RestOrder DEF OrderInv
  <2>2. QED
    BY <1>1, <1>2, <2>1, AtMostGrows
<1>5. ASSUME NEW e \in 1..Len(executed)
      PROVE  Exceeds(txRx', executed[e]) /\ Exceeds(Pending', executed[e]) /\ executed[e] <= Issued'
  <2>1. executed[e] \in Int /\ executed[e] <= Issued
    BY <1>1 DEF OrderInv
  <2>2. Exceeds(txRx, executed[e]) /\ Exceeds(Pending, executed[e])
    BY DEF OrderInv
  <2>3. QED
    BY <1>1, <2>1, <2>2, RestOrder
<1>6. ASSUME NEW i \in 1..Len(txRx'), IsWrite(txRx'[i])
      PROVE  Exceeds(Pending', txRx'[i].value)
  <2>1. PICK k \in 1..Len(txRx) : txRx'[i] = txRx[k]
    BY <1>1, RestOrder
  <2>2. txRx[k].value \in Int
    BY <1>1, <1>6, <2>1, Element, WriteNumber
  <2>3. Exceeds(Pending, txRx[k].value)
    BY <1>6, <2>1 DEF OrderInv
  <2>4. QED
    BY <1>1, <2>1, <2>2, <2>3, RestOrder
<1>7. ExecutedOnce'
  BY DEF OrderInv, ExecutedOnce
<1>8. QED
  BY <1>3, <1>4, <1>5, <1>6, <1>7 DEF OrderInv

\* A pending payload is received with an acknowledgement.
LEMMA Moved ==
  ASSUME TypeOK, OrderInv, Pending # <<>>, txRx' = Append(txRx, Head(Pending)),
         Pending' = Tail(Pending), executed' = executed, busy' = busy, commands' = commands
  PROVE  OrderInv'
<1> DEFINE h == Head(Pending)
<1>1. /\ txRx \in Seq(Payloads) /\ Pending \in Seq(Payloads) /\ Issued \in Int
      /\ \A e \in 1..Len(executed) : executed[e] \in Int
  BY OrderTypes
<1>2. /\ h \in Payloads /\ h = Pending[1] /\ 1 \in 1..Len(Pending)
  BY <1>1, HeadTail
<1>3. Issued' = Issued
  BY DEF Issued
<1>4. ASSUME NEW i \in 1..Len(txRx), IsWrite(txRx[i]), IsWrite(h) PROVE txRx[i].value < h.value
  BY <1>2, <1>4 DEF OrderInv, Exceeds
<1>5. Increasing(txRx') /\ Increasing(Pending')
  BY <1>1, <1>2, <1>4, AppendOrder, TailOrder DEF OrderInv
<1>6. AtMost(txRx', Issued') /\ AtMost(Pending', Issued')
  <2>1. IsWrite(h) => h.value <= Issued
    BY <1>2 DEF OrderInv, AtMost
  <2>2. QED
    BY <1>1, <1>2, <1>3, <2>1, AppendOrder, TailOrder DEF OrderInv
<1>7. ASSUME NEW e \in 1..Len(executed)
      PROVE  Exceeds(txRx', executed[e]) /\ Exceeds(Pending', executed[e]) /\ executed[e] <= Issued'
  <2>1. executed[e] \in Int /\ executed[e] <= Issued
    BY <1>1 DEF OrderInv
  <2>2. Exceeds(txRx, executed[e]) /\ Exceeds(Pending, executed[e])
    BY DEF OrderInv
  <2>3. IsWrite(h) => executed[e] < h.value
    BY <1>2, <2>2 DEF Exceeds
  <2>4. QED
    BY <1>1, <1>2, <1>3, <2>1, <2>2, <2>3, AppendOrder, TailOrder
<1>8. ASSUME NEW i \in 1..Len(txRx'), IsWrite(txRx'[i])
      PROVE  Exceeds(Pending', txRx'[i].value)
  <2>1. /\ Len(txRx) \in Nat /\ Len(txRx') = Len(txRx) + 1
        /\ \A k \in 1..Len(txRx) : txRx'[k] = txRx[k]
        /\ txRx'[Len(txRx) + 1] = h
    BY <1>1, <1>2, AppendOne
  <2>2. CASE i \in 1..Len(txRx)
    <3>1. txRx[i].value \in Int
      BY <1>1, <1>8, <2>1, <2>2, Element, WriteNumber
    <3>2. Exceeds(Pending, txRx[i].value)
      BY <1>8, <2>1, <2>2 DEF OrderInv
    <3>3. QED
      BY <1>1, <2>1, <2>2, <3>1, <3>2, TailOrder
  <2>3. CASE i = Len(txRx) + 1
    BY <1>1, <1>8, <2>1, <2>3, TailOrder DEF OrderInv
  <2>4. QED
    BY <2>1, <2>2, <2>3
<1>9. ExecutedOnce'
  BY DEF OrderInv, ExecutedOnce
<1>10. QED
  BY <1>5, <1>6, <1>7, <1>8, <1>9 DEF OrderInv
\* The request handler queues its command, or one more copy of a read.
LEMMA Queued ==
  ASSUME TypeOK, OrderInv, busy \in Payloads, ~IsWrite(busy'),
         Pending' = Append(Pending, busy), txRx' = txRx, executed' = executed,
         commands' = commands
  PROVE  OrderInv'
<1>1. /\ txRx \in Seq(Payloads) /\ Pending \in Seq(Payloads) /\ Issued \in Int
      /\ \A e \in 1..Len(executed) : executed[e] \in Int
  BY OrderTypes
<1>2. /\ Issued' = commands /\ commands \in Int /\ Issued <= Issued'
      /\ IsWrite(busy) => Issued < busy.value /\ busy.value <= Issued'
  BY DEF Issued, TypeOK, OrderInv
<1>3. ASSUME NEW i \in 1..Len(Pending), IsWrite(Pending[i]), IsWrite(busy)
      PROVE  Pending[i].value < busy.value
  <2>1. Pending[i].value <= Issued
    BY <1>3 DEF OrderInv, AtMost
  <2>2. Pending[i].value \in Int /\ busy.value \in Int
    BY <1>1, <1>3, Element, WriteNumber
  <2>3. QED
    BY <1>1, <1>2, <1>3, <2>1, <2>2
<1>4. Increasing(Pending')
  BY <1>1, <1>3, AppendOrder DEF OrderInv
<1>5. AtMost(txRx', Issued') /\ AtMost(Pending', Issued')
  <2>1. AtMost(txRx, Issued') /\ AtMost(Pending, Issued')
    BY <1>1, <1>2, AtMostGrows DEF OrderInv
  <2>2. QED
    BY <1>1, <1>2, <2>1, AppendOrder
<1>6. ASSUME NEW e \in 1..Len(executed)
      PROVE  Exceeds(txRx', executed[e]) /\ Exceeds(Pending', executed[e]) /\ executed[e] <= Issued'
  <2>1. /\ executed[e] \in Int /\ executed[e] <= Issued
        /\ Exceeds(txRx, executed[e]) /\ Exceeds(Pending, executed[e])
    BY <1>1 DEF OrderInv
  <2>2. executed[e] <= Issued' /\ (IsWrite(busy) => executed[e] < busy.value)
    BY <1>1, <1>2, <2>1, WriteNumber
  <2>3. QED
    BY <1>1, <2>1, <2>2, AppendOrder
<1>7. ASSUME NEW i \in 1..Len(txRx), IsWrite(txRx[i])
      PROVE  Exceeds(Pending', txRx[i].value)
  <2>1. txRx[i].value \in Int /\ txRx[i].value <= Issued /\ Exceeds(Pending, txRx[i].value)
    BY <1>1, <1>7, Element, WriteNumber DEF OrderInv, AtMost
  <2>2. IsWrite(busy) => txRx[i].value < busy.value
    BY <1>1, <1>2, <2>1, WriteNumber
  <2>3. QED
    BY <1>1, <2>1, <2>2, AppendOrder
<1>8. ExecutedOnce' /\ Increasing(txRx')
  BY DEF OrderInv, ExecutedOnce
<1>9. QED
  BY <1>4, <1>5, <1>6, <1>7, <1>8 DEF OrderInv

\* The transmitter executes the write it received first.
LEMMA Executed ==
  ASSUME TypeOK, OrderInv, txRx # <<>>, IsWrite(Head(txRx)), txRx' = Tail(txRx),
         executed' = Append(executed, Head(txRx).value),
         Pending' = Pending, busy' = busy, commands' = commands
  PROVE  OrderInv'
<1> DEFINE n == Head(txRx).value
<1>1. /\ txRx \in Seq(Payloads) /\ Pending \in Seq(Payloads) /\ Issued \in Int
      /\ \A e \in 1..Len(executed) : executed[e] \in Int
      /\ executed \in Seq(1..MaxCommands)
  BY OrderTypes
<1>2. /\ Head(txRx) \in Payloads /\ Head(txRx) = txRx[1] /\ 1 \in 1..Len(txRx)
  BY <1>1, HeadTail
<1>3. n \in 1..MaxCommands /\ n \in Int
  BY <1>2, PayloadKinds, WriteNumber DEF IsWrite
<1>4. /\ Len(executed) \in Nat /\ Len(executed') = Len(executed) + 1
      /\ \A e \in 1..Len(executed) : executed'[e] = executed[e]
      /\ executed'[Len(executed) + 1] = n
  BY <1>1, <1>3, AppendOne
<1>5. Issued' = Issued
  BY DEF Issued
<1>6. \A e \in 1..Len(executed) : executed[e] < n
  BY <1>2 DEF OrderInv, Exceeds
<1>7. ExecutedOnce'
  <2> SUFFICES ASSUME NEW j \in 1..Len(executed'), NEW i \in 1..(j - 1)
               PROVE  executed'[i] < executed'[j]
    BY DEF ExecutedOnce
  <2>1. CASE j \in 1..Len(executed)
    <3>1. i \in 1..Len(executed)
      BY <1>4, <2>1
    <3>2. QED
      BY <1>4, <2>1, <3>1 DEF OrderInv, ExecutedOnce
  <2>2. CASE j = Len(executed) + 1
    <3>1. i \in 1..Len(executed)
      BY <1>4, <2>2
    <3>2. QED
      BY <1>4, <1>6, <2>2, <3>1
  <2>3. QED
    BY <1>4, <2>1, <2>2
<1>8. Increasing(txRx') /\ AtMost(txRx', Issued') /\ Exceeds(txRx', n)
  BY <1>1, <1>5, TailOrder DEF OrderInv
<1>9. Exceeds(Pending, n) /\ n <= Issued
  BY <1>2 DEF OrderInv, AtMost
<1>10. ASSUME NEW e \in 1..Len(executed')
       PROVE  /\ Exceeds(txRx', executed'[e]) /\ Exceeds(Pending', executed'[e])
              /\ executed'[e] <= Issued'
  <2>1. CASE e \in 1..Len(executed)
    <3>1. /\ executed[e] \in Int /\ executed[e] <= Issued
          /\ Exceeds(txRx, executed[e]) /\ Exceeds(Pending, executed[e])
      BY <1>1, <2>1 DEF OrderInv
    <3>2. QED
      BY <1>1, <1>4, <1>5, <2>1, <3>1, TailOrder
  <2>2. CASE e = Len(executed) + 1
    BY <1>4, <1>5, <1>8, <1>9, <2>2
  <2>3. QED
    BY <1>4, <2>1, <2>2
<1>11. ASSUME NEW i \in 1..Len(txRx'), IsWrite(txRx'[i])
       PROVE  Exceeds(Pending', txRx'[i].value)
  <2>1. i + 1 \in 1..Len(txRx) /\ txRx'[i] = txRx[i + 1]
    BY <1>1, HeadTail
  <2>2. QED
    BY <1>11, <2>1 DEF OrderInv
<1>12. QED
  BY <1>5, <1>7, <1>8, <1>10, <1>11 DEF OrderInv

------------------------------------------------------------------------------
(***************************************************************************)
(* What each action does to the writes.                                    *)
(***************************************************************************)
\* The receiver's part of a packet only forgets a payload that was delivered.
LEMMA ReceivedPending ==
  ASSUME TypeOK, NEW p, Received(p)
  PROVE  /\ ackFifo' = Pending
         /\ seen => ackOut' = ackOut
         /\ ~seen => ackOut' = (ackFifo' # <<>>)
BY DEF Received, Pending, TypeOK

LEMMA DeliveredOrder == TypeOK /\ OrderInv /\ Delivered => OrderInv'
<1> SUFFICES ASSUME TypeOK, OrderInv, Delivered PROVE OrderInv'
  OBVIOUS
<1>1. /\ ackFifo' = Pending /\ (seen => ackOut' = ackOut)
      /\ ~seen => ackOut' = (ackFifo' # <<>>)
  BY ReceivedPending DEF Delivered
<1>2. executed' = executed /\ busy' = busy /\ commands' = commands /\ seen' = FALSE
  BY DEF Delivered, history
<1>3. CASE ackOut'
  <2>1. Pending # <<>>
    BY <1>1, <1>3 DEF TypeOK, Pending
  <2>2. txRx' = Append(txRx, Head(Pending))
    BY <1>1, <1>3 DEF Delivered
  <2>3. Pending' = Tail(Pending)
    BY <1>1, <1>2, <1>3 DEF Pending
  <2>4. QED
    BY <1>2, <2>1, <2>2, <2>3, Moved
<1>4. CASE ~ackOut'
  <2>1. txRx' = txRx /\ Pending' = Pending
    BY <1>1, <1>4 DEF Delivered, Pending
  <2>2. Issued' = Issued /\ Issued \in Int
    BY <1>2, OrderTypes DEF Issued
  <2>3. QED
    BY <1>2, <2>1, <2>2, Dropped DEF Rest, OrderInv
<1>5. QED
  BY <1>3, <1>4

LEMMA AckLostOrder == TypeOK /\ OrderInv /\ AckLost => OrderInv'
<1> SUFFICES ASSUME TypeOK, OrderInv, AckLost PROVE OrderInv'
  OBVIOUS
<1>1. ackFifo' = Pending /\ seen' = TRUE
  BY ReceivedPending DEF AckLost
<1>2. Pending' = Pending
  BY <1>1 DEF Pending
<1>3. executed' = executed /\ busy' = busy /\ commands' = commands /\ txRx' = txRx
  BY DEF AckLost, history, txVars
<1>4. Issued' = Issued /\ Issued \in Int
  BY <1>3, OrderTypes DEF Issued
<1>5. QED
  BY <1>2, <1>3, <1>4, Dropped DEF Rest, OrderInv

\* A pass of the transmitter's main loop executes what it takes, if it is a write.
LEMMA PollOrder == TypeOK /\ OrderInv /\ (\E due \in BOOLEAN : Poll(due)) => OrderInv'
<1> SUFFICES ASSUME TypeOK, OrderInv, NEW due \in BOOLEAN, Poll(due) PROVE OrderInv'
  OBVIOUS
<1>1. Pending' = Pending /\ busy' = busy /\ commands' = commands
  BY DEF Poll, rxVars, Pending
<1>2. Issued' = Issued /\ Issued \in Int
  BY <1>1, OrderTypes DEF Issued
<1>3. CASE txRx # <<>> /\ IsWrite(Head(txRx))
  BY <1>1, <1>3, Executed DEF Poll, tickRFTX, Popped, IsWrite
<1>4. CASE ~(txRx # <<>> /\ IsWrite(Head(txRx)))
  <2>1. executed' = executed
    BY <1>4 DEF Poll, IsWrite, Idle
  <2>2. Rest(txRx, txRx')
    BY DEF Poll, tickRFTX, Popped, Rest
  <2>3. QED
    BY <1>1, <1>2, <2>1, <2>2, Dropped DEF Rest, OrderInv
<1>5. QED
  BY <1>3, <1>4

\* An answer throws a payload away, and waking up all of them.
LEMMA TransmitterOrder == TypeOK /\ OrderInv /\ (Answer \/ INT1_vect) => OrderInv'
<1> SUFFICES ASSUME TypeOK, OrderInv, Answer \/ INT1_vect PROVE OrderInv'
  OBVIOUS
<1>1. executed' = executed /\ busy' = busy /\ commands' = commands
  BY DEF Answer, INT1_vect, rxVars, history
<1>2. Issued' = Issued /\ Issued \in Int
  BY <1>1, OrderTypes DEF Issued
<1>3. Rest(txRx, txRx')
  BY DEF Answer, INT1_vect, tickRFTX, Popped, Rest
<1>4. Rest(Pending, Pending')
  BY DEF Answer, INT1_vect, rxVars, Pending, Rest, TypeOK
<1>5. QED
  BY <1>1, <1>2, <1>3, <1>4, Dropped DEF OrderInv

LEMMA AppendPending ==
  ASSUME TypeOK, NEW p \in Payloads, ackFifo' = Append(ackFifo, p), ackOut' = ackOut, seen' = seen
  PROVE  Pending' = Append(Pending, p)
<1>1. ackFifo \in Seq(Payloads) /\ (ackOut => ackFifo # <<>>)
  BY DEF TypeOK
<1>2. ackFifo # <<>> => Tail(Append(ackFifo, p)) = Append(Tail(ackFifo), p)
  BY <1>1
<1>3. QED
  BY <1>1, <1>2 DEF Pending

LEMMA WriteOrder == TypeOK /\ OrderInv /\ (HostWrite \/ Relay) => OrderInv'
<1> SUFFICES ASSUME TypeOK, OrderInv, HostWrite \/ Relay PROVE OrderInv'
  OBVIOUS
<1>1. CASE HostWrite
  <2>1. /\ Pending' = Pending /\ txRx' = txRx /\ executed' = executed
        /\ commands' = commands + 1 /\ busy' = Write(commands + 1)
    BY <1>1 DEF HostWrite, Pending, txVars
  <2>2. Issued = commands /\ Issued' = commands /\ commands \in Int
    BY <1>1, <2>1 DEF HostWrite, Issued, IsWrite, Idle, Write, TypeOK
  <2>3. busy'.value = commands'
    BY <2>1 DEF Write
  <2>4. QED
    BY <2>1, <2>2, <2>3, Dropped DEF Rest
<1>2. CASE Relay
  <2>1. busy \in Payloads /\ ackFifo \in Seq(Payloads)
    BY <1>2, PayloadKinds DEF Relay, TypeOK
  <2>2. ackFifo \o <<busy>> = Append(ackFifo, busy)
    BY <2>1
  <2>3. Pending' = Append(Pending, busy)
    BY <1>2, <2>1, <2>2, AppendPending DEF Relay, queued
  <2>4. ~IsWrite(busy') /\ txRx' = txRx /\ executed' = executed /\ commands' = commands
    BY <1>2 DEF Relay, IsWrite, Idle, txVars, history
  <2>5. QED
    BY <2>1, <2>3, <2>4, Queued
<1>3. QED
  BY <1>1, <1>2

LEMMA ReadOrder ==
  TypeOK /\ OrderInv /\ ((\E c \in Reads : HostRead(c)) \/ AwaitReply \/ Timeout) => OrderInv'
<1> SUFFICES ASSUME TypeOK, OrderInv, (\E c \in Reads : HostRead(c)) \/ AwaitReply \/ Timeout
             PROVE  OrderInv'
  OBVIOUS
<1>1. ASSUME NEW c \in Reads, HostRead(c) PROVE OrderInv'
  <2>1. Pending' = <<>> /\ txRx' = txRx /\ executed' = executed
    BY <1>1 DEF HostRead, Pending, txVars
  <2>2. Issued = commands /\ Issued' = commands + 1 /\ commands \in Int /\ ~IsWrite(busy')
    BY <1>1 DEF HostRead, Issued, IsWrite, Idle, Read, TypeOK
  <2>3. Issued' \in Int /\ Issued <= Issued'
    BY <2>2
  <2>4. QED
    BY <2>1, <2>2, <2>3, Dropped DEF Rest
<1>2. CASE AwaitReply
  <2>1. busy \in Payloads /\ ~IsWrite(busy) /\ ~IsWrite(busy')
    BY <1>2, PayloadKinds DEF AwaitReply, TypeOK, IsWrite, Idle
  <2>2. txRx' = txRx /\ executed' = executed /\ commands' = commands
        /\ ackOut' = ackOut /\ seen' = seen
    BY <1>2 DEF AwaitReply, txVars
  <2>3. CASE Full(ackFifo)
    <3>1. Pending' = Pending
      BY <1>2, <2>2, <2>3 DEF AwaitReply, Pending
    <3>2. Issued' = Issued /\ Issued \in Int
      BY <2>1, <2>2, OrderTypes DEF Issued
    <3>3. QED
      BY <2>1, <2>2, <3>1, <3>2, Dropped DEF Rest
  <2>4. CASE ~Full(ackFifo)
    <3>1. Pending' = Append(Pending, busy)
      BY <1>2, <2>1, <2>2, <2>4, AppendPending DEF AwaitReply
    <3>2. QED
      BY <2>1, <2>2, <3>1, Queued
  <2>5. QED
    BY <2>3, <2>4
<1>3. CASE Timeout
  <2>1. Pending' = Pending /\ txRx' = txRx /\ executed' = executed /\ commands' = commands
    BY <1>3 DEF Timeout, Pending, txVars
  <2>2. ~IsWrite(busy) /\ ~IsWrite(busy')
    BY <1>3 DEF Timeout, IsWrite, Idle
  <2>3. Issued' = Issued /\ Issued \in Int
    BY <2>1, <2>2, OrderTypes DEF Issued
  <2>4. QED
    BY <2>1, <2>2, <2>3, Dropped DEF Rest
<1>4. QED
  BY <1>1, <1>2, <1>3

LEMMA OrderStep == TypeOK /\ OrderInv /\ [Next]_vars => OrderInv'
<1> SUFFICES ASSUME TypeOK, OrderInv, [Next]_vars PROVE OrderInv'
  OBVIOUS
<1>1. CASE GaveUp \/ PlayerMoves \/ Sleep \/ tickRFInput \/ WaitForPlace \/ UNCHANGED vars
  <2>1. UNCHANGED <<txRx, ackFifo, ackOut, seen, executed, busy, commands>>
    BY <1>1 DEF GaveUp, PlayerMoves, Sleep, tickRFInput, WaitForPlace, vars, txVars, rxVars, history
  <2>2. QED
    BY <2>1 DEF OrderInv, Pending, Issued, ExecutedOnce
<1>2. QED
  BY <1>1, DeliveredOrder, AckLostOrder, PollOrder, TransmitterOrder, WriteOrder, ReadOrder
     DEF Next

\* Whatever the radio loses or repeats, however often the transmitter sleeps and
\* wakes, and for FIFOs of every size: the transmitter executes each relayed write
\* at most once and in the order the host sent them.
THEOREM WritesOnceInOrder == Spec => []ExecutedOnce
<1>1. Init => OrderInv
  <2> SUFFICES ASSUME Init PROVE OrderInv
    OBVIOUS
  <2>1. txRx = <<>> /\ Pending = <<>> /\ executed = <<>> /\ ~IsWrite(busy)
    BY DEF Init, Pending, IsWrite, Idle
  <2>2. Len(executed) = 0 /\ Len(txRx) = 0
    BY <2>1
  <2>3. QED
    BY <2>1, <2>2, EmptyOrder DEF OrderInv, ExecutedOnce
<1>2. TypeOK /\ OrderInv /\ [Next]_vars => OrderInv'
  BY OrderStep
<1>3. OrderInv => ExecutedOnce
  BY DEF OrderInv
<1>4. QED
  BY <1>1, <1>2, <1>3, TypeCorrect, PTL DEF Spec
==============================================================================
