------------------------------ MODULE UnoBridge ------------------------------
(***************************************************************************)
(* An Uno adaptor: the 328p and the 16u2, the UART between them and the    *)
(* USB host.  The host collects what is in the endpoints, and sends one    *)
(* control request at a time; the player changes the inputs.               *)
(***************************************************************************)
EXTENDS UnoMain, UnoUsb

CONSTANTS
  Writes,       \* control writes the host may send: records [cmd, data]
  Reads,        \* commands of control reads the host may send
  MaxChanges,   \* bound on input changes
  MaxRequests   \* bound on control requests

\* wLength is cut to a uint8_t: longer writes are not modelled, and neither are
\* the two commands that restart the micro-controllers.
ASSUME HostAssumption ==
  /\ \A w \in Writes : /\ w.cmd \in Byte /\ w.data \in Payload
                        /\ w.cmd \notin {COMMAND_REBOOT, COMMAND_JUMP_BOOTLOADER}
  /\ Reads \subseteq Byte
  /\ MaxChanges \in Nat /\ MaxRequests \in Nat

None == -1

VARIABLES
  input,        \* what the player holds
  changes,      \* input changes so far
  requests,     \* control requests so far
  awaiting,     \* command of the control read the host waits for, or None
  reply,        \* data of the last control read: <<command asked, data>>
  shown,        \* data of the last report the host collected
  \* History of the run, not in the program:
  wanted,       \* what the host's writes make of the memories they reach
  todo,         \* control writes the 328p has not executed
  inReports,    \* reports sent and not finished
  inDones       \* FRAME_DONEs sent and not read

hostVars  == <<input, changes, requests, awaiting, reply, shown>>
ghostVars == <<wanted, todo, inReports, inDones>>
vars      == <<mainVars, usbVars, hostVars, ghostVars>>

\* The packet the host gets for a controller value.
Packet(v) == IF DeviceRid \in {REPORT_ID_MIDI, REPORT_ID_GAMEPAD}
               THEN <<v>> ELSE <<DeviceRid, v>>

EnvInit ==
  /\ input = 0 /\ changes = 0 /\ requests = 0
  /\ awaiting = None /\ reply = << >> /\ shown = Packet(0)
  /\ wanted = [eeprom |-> eeprom, leds |-> leds, type |-> deviceType]
  /\ todo = << >> /\ inReports = 0 /\ inDones = 0

\* Power-up of both micro-controllers.
Init == MainInit /\ UsbInit /\ EnvInit

\* The state reached when the device was configured before the player touched
\* anything: the 16u2's first FRAME_DONE has been sent and read.
SettledInit ==
  /\ MainInit
  /\ rx = << >> /\ tx = << >>
  /\ uPc = "loop" /\ uState = 0 /\ uCount = 0
  /\ currentEndpoint = DeviceEp /\ checkEndpoint = FALSE
  /\ configured = TRUE
  /\ fifo = [e \in Endpoint |-> << >>]
  /\ busy = [e \in Endpoint |-> FALSE]
  /\ setup = NoRequest /\ forward = << >> /\ deviceType = 0
  /\ EnvInit

------------------------------------------------------------------------------
\* The UART: a byte leaves one ring (USART_UDRE_vect, USART1_UDRE_vect) and
\* enters the other (USART1_RX_vect, USART_RX_vect).
UartToUsb ==
  /\ out # << >>
  /\ out' = Tail(out) /\ rx' = Append(rx, Head(out))
  /\ UNCHANGED <<in, parseVars, readyForPacket, inputVars, memVars>>
  /\ UNCHANGED <<tx, uPc, frameVars, checkEndpoint, epVars, setup, forward, deviceType>>
  /\ UNCHANGED <<hostVars, ghostVars>>

UartToMain ==
  /\ tx # << >>
  /\ tx' = Tail(tx) /\ in' = Append(in, Head(tx))
  /\ UNCHANGED <<out, parseVars, readyForPacket, inputVars, memVars>>
  /\ UNCHANGED <<rx, uPc, frameVars, checkEndpoint, epVars, setup, forward, deviceType>>
  /\ UNCHANGED <<hostVars, ghostVars>>

------------------------------------------------------------------------------
\* The player and the host.
ChangeInput ==
  /\ changes < MaxChanges
  /\ changes' = changes + 1
  /\ input' \in Inputs \ {input}
  /\ UNCHANGED <<mainVars, usbVars, requests, awaiting, reply, shown, ghostVars>>

\* The control pipe carries one transfer at a time.
ControlPipeFree == configured /\ setup.kind = "none" /\ awaiting = None

\* Memory m after the bytes d[2], d[3], ... have been written to block d[1].
Written(m, d) ==
  [a \in DOMAIN m |->
     LET i == a - d[1] * PACKET_SIZE + 2
     IN  IF i \in 2..Len(d) THEN d[i] ELSE m[a]]

HostWrite ==
  /\ ControlPipeFree /\ requests < MaxRequests
  /\ requests' = requests + 1
  /\ \E w \in Writes :
       /\ setup' = [kind |-> "set", cmd |-> w.cmd, data |-> w.data]
       /\ todo' = Append(todo, w.cmd)
       /\ wanted' =
            CASE w.cmd = COMMAND_WRITE_CONFIG ->
                   [wanted EXCEPT !.eeprom = Written(@, w.data)]
              [] w.cmd = COMMAND_SET_LEDS ->
                   [wanted EXCEPT !.leds = Written(@, w.data)]
              [] w.cmd = COMMAND_RESET ->
                   [wanted EXCEPT !.eeprom = default_config]
              [] w.cmd = COMMAND_WRITE_SUBTYPE ->
                   [wanted EXCEPT !.type = w.data[Len(w.data)]]
              [] OTHER -> wanted
  /\ UNCHANGED <<mainVars, rx, tx, uPc, frameVars, checkEndpoint, epVars, forward, deviceType>>
  /\ UNCHANGED <<input, changes, awaiting, reply, shown, inReports, inDones>>

HostRead ==
  /\ ControlPipeFree /\ requests < MaxRequests
  /\ requests' = requests + 1
  /\ \E c \in Reads :
       /\ setup' = [kind |-> "get", cmd |-> c, data |-> << >>]
       /\ awaiting' = c
  /\ UNCHANGED <<mainVars, rx, tx, uPc, frameVars, checkEndpoint, epVars, forward, deviceType>>
  /\ UNCHANGED <<input, changes, reply, shown, ghostVars>>

\* The host collects the bank of endpoint e.
HostCollect(e) ==
  /\ busy[e]
  /\ busy' = [busy EXCEPT ![e] = FALSE]
  /\ fifo' = [fifo EXCEPT ![e] = << >>]
  /\ IF e = ENDPOINT_CONTROLEP
       THEN awaiting' = None /\ reply' = <<awaiting, fifo[e]>> /\ UNCHANGED shown
       ELSE shown' = fifo[e] /\ UNCHANGED <<awaiting, reply>>
  /\ UNCHANGED <<mainVars, rx, tx, uPc, frameVars, checkEndpoint, configured, setup, forward, deviceType>>
  /\ UNCHANGED <<input, changes, requests, ghostVars>>

------------------------------------------------------------------------------
\* The two main loops, with the history they leave.
MainStep ==
  /\ MainByte
  /\ todo' = IF mState = 5 /\ mState' = 0 /\ todo # << >> THEN Tail(todo) ELSE todo
  /\ inDones' = IF mState = 0 /\ Head(in) = FRAME_DONE THEN inDones - 1 ELSE inDones
  /\ UNCHANGED <<usbVars, hostVars, wanted, inReports>>

MainPoll ==
  /\ MainTick(input)
  /\ inReports' = IF out' # out THEN inReports + 1 ELSE inReports
  /\ UNCHANGED <<usbVars, hostVars, wanted, todo, inDones>>

UsbStep ==
  /\ UsbLoop
  /\ inReports' = IF uState = 3 /\ uState' = 0 /\ currentEndpoint # ENDPOINT_CONTROLEP
                    THEN inReports - 1 ELSE inReports
  /\ inDones' = IF checkEndpoint /\ ~checkEndpoint' THEN inDones + 1 ELSE inDones
  /\ UNCHANGED <<mainVars, hostVars, wanted, todo>>

Enumerate == UsbConfigured /\ UNCHANGED <<mainVars, hostVars, ghostVars>>

Next ==
  \/ MainStep \/ MainPoll \/ UsbStep
  \/ UartToUsb \/ UartToMain
  \/ Enumerate \/ ChangeInput \/ HostWrite \/ HostRead
  \/ \E e \in Endpoint : HostCollect(e)

\* Both main loops and the UART run for ever; a host that has the device open
\* enumerates it and polls its interrupt endpoints.  Nobody is obliged to play
\* or to send control requests.
Fairness ==
  /\ WF_vars(MainStep) /\ WF_vars(MainPoll) /\ WF_vars(UsbStep)
  /\ WF_vars(UartToUsb) /\ WF_vars(UartToMain) /\ WF_vars(Enumerate)
  /\ \A e \in Endpoint : WF_vars(HostCollect(e))

Spec        == Init /\ [][Next]_vars
FairSpec    == Spec /\ Fairness
SettledSpec == SettledInit /\ [][Next]_vars /\ Fairness

------------------------------------------------------------------------------
TypeOK ==
  /\ MainTypeOK /\ UsbTypeOK
  /\ input \in Inputs /\ changes \in 0..MaxChanges /\ requests \in 0..MaxRequests
  /\ awaiting \in Byte \cup {None} /\ shown \in Seq(Byte)
  /\ todo \in Seq(Byte) /\ inReports \in Int /\ inDones \in Int

\* Frame synchronisation.  Markers are not escaped, so the two parsers stay in
\* step only by counting: a parser at rest sees a marker next (main.c of both
\* micro-controllers, state 0), and once everything sent has been read the
\* 328p's parser is at rest.  FRAME_DONE, feature frames and reports interleave
\* freely, and payload bytes may equal markers.
FrameSync ==
  /\ mState = 0 /\ in # << >> =>
       Head(in) \in {FRAME_DONE, FRAME_START_FEATURE_READ, FRAME_START_FEATURE_WRITE}
  /\ uState = 0 /\ rx # << >> => Head(rx) = FRAME_START_WRITE
  /\ in = << >> /\ tx = << >> /\ uPc # "control" => mState = 0

\* A control read is answered with the reply to that command and nothing else,
\* although reports share the UART and the 16u2's endpoint selection with it.
ReplyMatches == reply # << >> => reply[2] = <<reply[1]>>

\* When the 328p has executed every control write, the configuration in EEPROM,
\* the LED state and the 16u2's copy of the subtype are what the host asked for
\* (main.c states 3 to 7, processHIDWriteFeatureReportControl).
MemoryFaithful ==
  todo = << >> /\ setup.kind = "none" =>
    wanted = [eeprom |-> eeprom, leds |-> leds, type |-> deviceType]

\* The 328p executes the host's writes one by one in the order they were sent:
\* the end of a frame is the end of the oldest outstanding write.
WritesInOrder ==
  [][mState = 5 /\ mState' = 0 => todo # << >> /\ cmd = Head(todo)]_vars

\* The bytes on their way to the 16u2 never exceed two reports and one reply,
\* whatever the two loops' speeds: readyForPacket is what protects the rings,
\* neither of which tests for space (RingBuffer_Insert, USART1_RX_vect).
UplinkBounded ==
  Len(out) + Len(rx) <= 2 * Len(WriteFrame(<<DeviceRid, 0>>)) + Len(WriteFrame(ReplyBody(0)))

\* "Once the endpoint is ready, let the 328p know so it can send data"
\* (usb/main.c:71): a report reaches the 16u2 only when its endpoint is ready.
ReportOnlyWhenReady ==
  [][uState = 2 /\ uState' = 3 /\ currentEndpoint' # ENDPOINT_CONTROLEP
       => Endpoint_IsINReady(currentEndpoint')]_vars

\* The 328p is never silenced for ever: after a report, readyForPacket returns.
CreditReturns == ~readyForPacket ~> readyForPacket

\* What the player holds reaches the host, unless it changes first.
LatestShown ==
  \A v \in Inputs : (input = v) ~> (shown = Packet(v) \/ input # v)

\* The flow control refines the credit account: see ReportCredit.
Credit == INSTANCE ReportCredit WITH
  ready <- readyForPacket, reports <- inReports, check <- checkEndpoint, dones <- inDones
CreditSpec == Credit!Spec

\* A settled bridge without control reads is a single slot: see ReportSlot.
Slot == INSTANCE ReportSlot WITH
  States <- {Packet(v) : v \in Inputs}, Neutral <- Packet(0),
  last <- Packet(prevController),
  full <- out # << >> \/ rx # << >> \/ uState # 0 \/ busy[DeviceEp]
SlotSpec == Slot!Spec
==============================================================================
