------------------------------- MODULE RfLink --------------------------------
(***************************************************************************)
(* The radio link.  The transmitter (rf/main.c) is the one with the inputs *)
(* and always speaks first: it sends the controller's state when it        *)
(* changes and every 100 ms.  The receiver (micro/main, pico/main) is      *)
(* plugged into the host; its commands travel as payloads of the radio's   *)
(* acknowledgements, and the answer to a read comes back as an ordinary    *)
(* packet.  Packets and acknowledgements can be lost.                      *)
(*                                                                         *)
(* The nRF24L01 is outside the repository: its FIFOs, its retransmission,  *)
(* its duplicate detection and its interrupt line are modelled from the    *)
(* driver's use of them.                                                   *)
(***************************************************************************)
EXTENDS Integers, Sequences

CONSTANTS
  FifoSize,     \* places in each FIFO of the radio
  MaxChanges,   \* bound on what the player does
  MaxCommands,  \* bound on relayed commands
  Reads         \* the commands that read

ASSUME FifoAssumption == FifoSize \in Nat \ {0}
ASSUME BoundsAssumption == MaxChanges \in Nat /\ MaxCommands \in Nat

VARIABLES
  \* the transmitter
  held,         \* what the player holds, a number that grows
  prevCtrl,     \* what was sent last
  txOn,         \* not asleep
  txFifo,       \* packets to send
  MAX_RT,       \* gave up on the head of txFifo
  txRx,         \* payloads received with acknowledgements
  answering,    \* the read command being answered, or "no"
  \* the receiver
  rxFifo,       \* packets received
  seen,         \* the head of txFifo is the last packet received (same packet id)
  RX_DR, TX_DS, \* the flags that hold the interrupt line low
  rf_interrupt, \* set by the falling edge of that line
  ackFifo,      \* payloads for the acknowledgements to come
  ackOut,       \* the head of ackFifo was sent with the last one
  controller,   \* the state the host is shown
  busy,         \* what the control request handler is doing
  \* history
  executed,     \* the writes the transmitter executed
  commands,     \* relayed so far
  answer        \* what the last read was answered with

txVars == <<held, prevCtrl, txOn, txFifo, MAX_RT, txRx, answering>>
rxVars == <<rxFifo, seen, RX_DR, TX_DS, rf_interrupt, ackFifo, ackOut, controller, busy>>
history == <<executed, commands, answer>>
vars == <<txVars, rxVars, history>>

State(v)  == [kind |-> "state", value |-> v]
Reply(c)  == [kind |-> "reply", value |-> c]
Read(c)   == [kind |-> "read", value |-> c]
Write(n)  == [kind |-> "write", value |-> n]
Idle == [kind |-> "idle", value |-> 0]

Init ==
  /\ held = 0 /\ prevCtrl = 0 /\ txOn = TRUE /\ txFifo = <<>> /\ MAX_RT = FALSE
  /\ txRx = <<>> /\ answering = "no"
  /\ rxFifo = <<>> /\ seen = FALSE /\ RX_DR = FALSE /\ TX_DS = FALSE
  /\ rf_interrupt = FALSE /\ ackFifo = <<>> /\ ackOut = FALSE
  /\ controller = 0 /\ busy = Idle
  /\ executed = <<>> /\ commands = 0 /\ answer = "none"

------------------------------------------------------------------------------
(***************************************************************************)
(* The radio.                                                              *)
(***************************************************************************)
Full(fifo) == Len(fifo) = FifoSize
Popped(fifo) == IF fifo = <<>> THEN fifo ELSE Tail(fifo)

\* The interrupt line is low while a flag is set; only its fall is noticed.
Raise(rx, tx) ==
  /\ RX_DR' = (RX_DR \/ rx) /\ TX_DS' = (TX_DS \/ tx)
  /\ rf_interrupt' = (rf_interrupt \/ (~RX_DR /\ ~TX_DS /\ (rx \/ tx)))

\* The head of txFifo reaches the receiver.  A packet that was received before
\* is acknowledged again, with the same payload; a new one confirms that the
\* payload of the acknowledgement before it arrived.
Received(p) ==
  IF seen
  THEN UNCHANGED <<rxFifo, RX_DR, TX_DS, rf_interrupt, ackFifo, ackOut>>
  ELSE /\ ~Full(rxFifo)
       /\ rxFifo' = Append(rxFifo, p)
       /\ ackFifo' = IF ackOut THEN Tail(ackFifo) ELSE ackFifo
       /\ ackOut' = (ackFifo' # <<>>)
       /\ Raise(TRUE, ackOut)

\* ... and its acknowledgement comes back.
Delivered ==
  /\ txOn /\ txFifo # <<>> /\ ~MAX_RT /\ ~Full(txRx)
  /\ Received(Head(txFifo))
  /\ txFifo' = Tail(txFifo) /\ seen' = FALSE
  /\ txRx' = IF ackOut' THEN Append(txRx, Head(ackFifo')) ELSE txRx
  /\ UNCHANGED <<held, prevCtrl, txOn, MAX_RT, answering, controller, busy, history>>

\* ... or the acknowledgement is lost.
AckLost ==
  /\ txOn /\ txFifo # <<>> /\ ~MAX_RT
  /\ Received(Head(txFifo)) /\ seen' = TRUE
  /\ UNCHANGED <<txVars, controller, busy, history>>

\* Every attempt failed: the radio stops until the flag is cleared.
GaveUp ==
  /\ txOn /\ txFifo # <<>> /\ ~MAX_RT
  /\ MAX_RT' = TRUE
  /\ UNCHANGED <<held, prevCtrl, txOn, txFifo, txRx, answering, rxVars, history>>

------------------------------------------------------------------------------
(***************************************************************************)
(* The transmitter.                                                        *)
(***************************************************************************)
\* tickRFTX: take a payload if there is one; nrf24_send clears MAX_RT and
\* writes a packet, which a full FIFO ignores.
tickRFTX(data) ==
  /\ txRx' = Popped(txRx)
  /\ MAX_RT' = FALSE
  /\ txFifo' = IF Full(txFifo) THEN txFifo ELSE Append(txFifo, data)

\* The player moves.
PlayerMoves ==
  /\ held < MaxChanges /\ held' = held + 1
  /\ UNCHANGED <<prevCtrl, txOn, txFifo, MAX_RT, txRx, answering, rxVars, history>>

\* A button on the interrupt's pin (no axis, and no other button) wakes a sleeping
\* transmitter, whose initRF empties the FIFOs.
INT1_vect ==
  /\ held < MaxChanges /\ held' = held + 1
  /\ ~txOn /\ txOn' = TRUE
  /\ txFifo' = <<>> /\ txRx' = <<>> /\ MAX_RT' = FALSE /\ seen' = FALSE
  /\ UNCHANGED <<prevCtrl, answering, rxFifo, RX_DR, TX_DS, rf_interrupt, ackFifo, ackOut,
                 controller, busy, history>>

\* One pass of the main loop in which a state is sent, because it changed or
\* because 100 ms have passed; then the command that came in is executed.
SendNowOnChange(due) == held # prevCtrl                                   \* mutant
SendNow(due) == held # prevCtrl \/ due
Poll(due) ==
  /\ txOn /\ answering = "no" /\ SendNow(due)
  /\ tickRFTX(State(held)) /\ prevCtrl' = held
  /\ LET c == IF txRx = <<>> THEN Idle ELSE Head(txRx) IN
       /\ answering' = IF c.kind = "read" THEN c.value ELSE "no"
       /\ executed' = IF c.kind = "write" THEN Append(executed, c.value) ELSE executed
  /\ UNCHANGED <<held, txOn, rxVars, commands, answer>>

\* processHIDReadFeatureReport and writeToUSB: the answer is sent by tickRFTX,
\* whose own payload is thrown away.
Answer ==
  /\ txOn /\ answering # "no"
  /\ tickRFTX(Reply(answering)) /\ answering' = "no"
  /\ UNCHANGED <<held, prevCtrl, txOn, rxVars, history>>

\* Ten minutes after the last change of the buttons that a poll saw, the transmitter
\* turns its radio off and sleeps, whatever the axes did meanwhile or a button since
\* that poll.  Time is not modelled: here it may sleep at any moment.
Sleep ==
  /\ txOn /\ answering = "no"
  /\ txOn' = FALSE
  /\ UNCHANGED <<held, prevCtrl, txFifo, MAX_RT, txRx, answering, rxVars, history>>

------------------------------------------------------------------------------
(***************************************************************************)
(* The receiver.                                                           *)
(***************************************************************************)
\* tickRFInput with the interrupt flag set: one packet is taken and RX_DR
\* cleared, if there is a packet.  nrf24_getData clears no other flag.
Take == /\ rxFifo' = Popped(rxFifo)
        /\ RX_DR' = (RX_DR /\ rxFifo = <<>>)
        /\ rf_interrupt' = FALSE
First == IF rxFifo = <<>> THEN Idle ELSE Head(rxFifo)

\* The main loop: whatever was received becomes the controller's state.
tickRFInput ==
  /\ busy = Idle /\ rf_interrupt
  /\ Take
  /\ controller' = CASE First.kind = "state" -> First.value
                     [] First.kind = "reply" -> -1
                     [] OTHER -> controller
  /\ UNCHANGED <<txVars, seen, TX_DS, ackFifo, ackOut, busy, history>>

\* processHIDWriteFeatureReportControl: wait for a place among the payloads,
\* throwing away what is received meanwhile, ...
HostWrite ==
  /\ busy = Idle /\ commands < MaxCommands
  /\ commands' = commands + 1 /\ busy' = Write(commands')
  /\ UNCHANGED <<txVars, rxFifo, seen, RX_DR, TX_DS, rf_interrupt, ackFifo, ackOut,
                 controller, executed, answer>>
WaitUnread ==                                                             \* mutant
  /\ busy.kind = "write" /\ Full(ackFifo) /\ TX_DS' = FALSE
  /\ UNCHANGED <<txVars, rxFifo, seen, RX_DR, rf_interrupt, ackFifo, ackOut, controller, busy,
                 history>>
WaitForPlace ==
  /\ busy.kind = "write" /\ Full(ackFifo)
  /\ Take /\ TX_DS' = FALSE
  /\ UNCHANGED <<txVars, seen, ackFifo, ackOut, controller, busy, history>>

\* ... then queue the command.
queuedTwice == <<busy, busy>>                                             \* mutant
queued == <<busy>>
Relay ==
  /\ busy.kind = "write" /\ ~Full(ackFifo)
  /\ TX_DS' = FALSE /\ rf_interrupt' = TRUE
  /\ ackFifo' = ackFifo \o queued /\ busy' = Idle
  /\ UNCHANGED <<txVars, rxFifo, seen, RX_DR, ackOut, controller, history>>

\* processHIDReadFeatureReport, isRF: the FIFOs are flushed, ...
HostRead(c) ==
  /\ busy = Idle /\ commands < MaxCommands
  /\ commands' = commands + 1 /\ busy' = Read(c) /\ answer' = "none"
  /\ ackFifo' = <<>> /\ ackOut' = FALSE /\ rxFifo' = <<>>
  /\ UNCHANGED <<txVars, seen, RX_DR, TX_DS, rf_interrupt, controller, executed>>

\* ... the payloads are kept full of copies of the command until something that
\* is not a state comes in ...
AwaitReply ==
  /\ busy.kind = "read"
  /\ ackFifo' = IF Full(ackFifo) THEN ackFifo ELSE Append(ackFifo, busy)
  /\ Take
  /\ IF First.kind = "reply"
     THEN busy' = Idle /\ answer' = First.value /\ UNCHANGED TX_DS
     ELSE TX_DS' = FALSE /\ UNCHANGED <<busy, answer>>
  /\ UNCHANGED <<txVars, seen, ackOut, controller, executed, commands>>

\* ... or 500 ms have passed.
NoTimeout == FALSE /\ UNCHANGED vars                                      \* mutant
Timeout ==
  /\ busy.kind = "read" /\ busy' = Idle /\ answer' = "ERROR"
  /\ UNCHANGED <<txVars, rxFifo, seen, RX_DR, TX_DS, rf_interrupt, ackFifo, ackOut,
                 controller, executed, commands>>

------------------------------------------------------------------------------
Next ==
  \/ Delivered \/ AckLost \/ GaveUp
  \/ PlayerMoves \/ INT1_vect \/ Answer \/ Sleep
  \/ \E due \in BOOLEAN : Poll(due)
  \/ tickRFInput \/ HostWrite \/ WaitForPlace \/ Relay
  \/ (\E c \in Reads : HostRead(c)) \/ AwaitReply \/ Timeout

\* Both main loops run and time passes; a radio that is given the chance again
\* and again gets a packet and its acknowledgement through.
Spec == Init /\ [][Next]_vars
LiveSpec ==
  /\ Spec
  /\ WF_vars(\E due \in BOOLEAN : Poll(due)) /\ WF_vars(Answer) /\ SF_vars(Delivered)
  /\ WF_vars(tickRFInput) /\ WF_vars(WaitForPlace) /\ WF_vars(Relay)
  /\ WF_vars(AwaitReply) /\ WF_vars(Timeout)

------------------------------------------------------------------------------
(***************************************************************************)
(* Properties.                                                             *)
(***************************************************************************)
Packets == [kind : {"state"}, value : 0..MaxChanges] \cup [kind : {"reply"}, value : Reads]
Payloads == [kind : {"write"}, value : 1..MaxCommands] \cup [kind : {"read"}, value : Reads]

\* Every variable has its type: the FIFOs hold at most FifoSize items of the kind
\* that travels in their direction.
TypeOK ==
  /\ held \in 0..MaxChanges /\ prevCtrl \in 0..MaxChanges /\ txOn \in BOOLEAN
  /\ txFifo \in Seq(Packets) /\ Len(txFifo) <= FifoSize
  /\ txRx \in Seq(Payloads) /\ Len(txRx) <= FifoSize
  /\ MAX_RT \in BOOLEAN /\ seen \in BOOLEAN
  /\ answering \in Reads \cup {"no"}
  /\ rxFifo \in Seq(Packets) /\ Len(rxFifo) <= FifoSize
  /\ ackFifo \in Seq(Payloads) /\ Len(ackFifo) <= FifoSize
  /\ RX_DR \in BOOLEAN /\ TX_DS \in BOOLEAN /\ rf_interrupt \in BOOLEAN
  /\ ackOut \in BOOLEAN /\ (ackOut => ackFifo # <<>>)
  /\ controller \in -1..MaxChanges /\ busy \in Payloads \cup {Idle}
  /\ executed \in Seq(1..MaxCommands) /\ commands \in 0..MaxCommands
  /\ answer \in Reads \cup {"none", "ERROR"}

\* A relayed write is executed at most once, and writes are executed in the
\* order the host sent them, whatever the radio loses or repeats.
ExecutedOnce == \A j \in 1..Len(executed) : \A i \in 1..(j - 1) : executed[i] < executed[j]

\* A control read comes to an end even if the transmitter is asleep.
ReadReturns == (busy.kind = "read") ~> (busy = Idle)

\* A relayed write finds its place among the payloads so long as the transmitter is
\* awake: reading while it waits keeps packets, and so acknowledgements, coming.
\* (While the transmitter sleeps the loop, which has no timeout, goes on.)
WriteReturns == (busy.kind = "write") ~> (busy = Idle \/ ~txOn)

\* As long as no command was relayed and the transmitter does not go to sleep, the
\* host comes to be shown what the player holds: a packet left behind in rxFifo by
\* the edge-triggered interrupt is pushed through by the ones that follow it every
\* 100 ms.
LatestReaches ==
  (held = MaxChanges /\ commands = 0) ~> (controller = held \/ ~txOn \/ commands > 0)

\* The same, whatever was relayed.
LatestAlwaysReaches == (held = MaxChanges) ~> (controller = held \/ ~txOn)
==============================================================================
