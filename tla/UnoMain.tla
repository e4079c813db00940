------------------------------- MODULE UnoMain -------------------------------
(***************************************************************************)
(* The 328p of an Uno (uno/main/main.c), not in RF mode: one main loop     *)
(* that drains the receive ring `in' through a byte-at-a-time parser and,  *)
(* whenever that ring is empty, polls the inputs and sends a report if the *)
(* controller changed and the 16u2 has signalled FRAME_DONE.               *)
(*                                                                         *)
(* The loop re-reads the ring's count after at most `count' bytes, so one  *)
(* action per byte, guarded by a non-empty ring, has the same behaviours.  *)
(* A ring is the sequence of its unread bytes.  RingBuffer_Insert does not *)
(* test for a full ring: a sequence longer than the ring stands for one    *)
(* whose oldest bytes have been overwritten (see the overflow properties). *)
(***************************************************************************)
EXTENDS UnoProtocol

CONSTANTS
  Inputs,      \* the values a controller can take (each one byte of report)
  DeviceRid,   \* report id of the configured device type
  PACKET_SIZE, \* bytes of configuration per feature write (28)
  MemSize,     \* bytes of configuration (and of LED state) modelled
  DefaultByte  \* every byte of the default configuration

ASSUME InputsAssumption == Inputs \subseteq Byte /\ 0 \in Inputs
ASSUME RidAssumption == DeviceRid \in ReportId \ {REPORT_ID_CONTROL}
ASSUME MemAssumption ==
  PACKET_SIZE \in Nat /\ MemSize \in Nat \ {0} /\ DefaultByte \in Byte

NULL == -1

VARIABLES
  in, out,                        \* the two RingBuffer_t
  mState, packetCount, cmd,       \* parser: state, packetCount, cmd
  isConfig, buf, offset,          \* parser: isConfig, buf (index in leds), offset
  readyForPacket,
  controller, prevController,
  lastmidi,                       \* fillMIDIReport's memory of what was sent
  eeprom, leds

parseVars == <<mState, packetCount, cmd, isConfig, buf, offset>>
inputVars == <<controller, prevController, lastmidi>>
memVars   == <<eeprom, leds>>
mainVars  == <<in, out, parseVars, readyForPacket, inputVars, memVars>>

Mem == [0..(MemSize - 1) -> Byte]

default_config == [a \in 0..(MemSize - 1) |-> DefaultByte]

MainInit ==
  /\ in = << >> /\ out = << >>
  /\ mState = 0 /\ packetCount = 0
  /\ cmd = 0 /\ isConfig = FALSE /\ buf = NULL /\ offset = 0
  /\ readyForPacket = TRUE
  /\ controller = 0 /\ prevController = 0 /\ lastmidi = 0
  /\ eeprom = default_config
  /\ leds = [a \in 0..(MemSize - 1) |-> 0]

------------------------------------------------------------------------------
\* Replies.  dbuf holds the report id and data that depend on the command:
\* the data are one byte here, the command that is answered.
ReplyBody(c) == <<REPORT_ID_CONTROL, c>>

\* The bytes a report carries.  An XInput, PS3 or keyboard report holds the
\* whole controller.  A MIDI report holds one event for each mapped control
\* whose velocity differs from the one sent last: of a controller value, only
\* the lowest bit is mapped to a note.
Velocity(c) == c % 2
ReportBody(c) ==
  IF DeviceRid = REPORT_ID_MIDI
    THEN IF lastmidi = Velocity(c) THEN <<DeviceRid>>
                                   ELSE <<DeviceRid, Velocity(c)>>
    ELSE <<DeviceRid, c>>

writeData(bytes) == out' = out \o bytes

\* Memory m with byte b stored at address a.  Neither memory checks an address:
\* past its end the byte falls on something that is not modelled.
Stored(m, a, b) == IF a \in DOMAIN m THEN [m EXCEPT ![a] = b] ELSE m

\* The configuration after command c: resetConfig, or no change.  FIND_* start a
\* pin search, which is not state here.
handleCommand(c, m) == IF c = COMMAND_RESET THEN default_config ELSE m

\* What the parser decides, each with mutants used to test the properties.

\* The parser's state after payload byte: n bytes are left.
FrameEndStuck(n) == IF n = 0 THEN 7 ELSE 5
FrameEndEarly(n) == IF n = 1 THEN 0 ELSE 5
FrameEnd(n) == IF n = 0 THEN 0 ELSE 5

\* The address of a block of configuration or LED state.
BlockAddressBytes(n) == n
BlockAddress(n) == n * PACKET_SIZE

\* Whether the inputs read, v, are to be reported.
ReportDueUnready(v) == v # prevController
ReportDueStale(v) == v # controller /\ readyForPacket
ReportDueAlways(v) == readyForPacket
ReportDue(v) == v # prevController /\ readyForPacket

------------------------------------------------------------------------------
\* Parser: one action per parser state, each consuming one byte.
Receive == in # << >> /\ in' = Tail(in)

\* State 0: frame start, or FRAME_DONE, which returns the report credit.
MainStart ==
  /\ mState = 0 /\ Receive
  /\ mState' = CASE Head(in) = FRAME_START_FEATURE_WRITE -> 1
                 [] Head(in) = FRAME_START_FEATURE_READ  -> 2
                 [] OTHER -> 0
  /\ readyForPacket' = (readyForPacket \/ Head(in) = FRAME_DONE)
  /\ UNCHANGED <<out, packetCount, cmd, isConfig, buf, offset, inputVars, memVars>>

\* State 1: payload length.
MainLength ==
  /\ mState = 1 /\ Receive
  /\ packetCount' = Head(in)
  /\ mState' = 3
  /\ UNCHANGED <<out, cmd, isConfig, buf, offset, readyForPacket, inputVars, memVars>>

\* State 2: a feature read is answered at once, whatever readyForPacket says.
MainRead ==
  /\ mState = 2 /\ Receive
  /\ writeData(WriteFrame(ReplyBody(Head(in))))
  /\ mState' = 0
  /\ UNCHANGED <<packetCount, cmd, isConfig, buf, offset, readyForPacket, inputVars, memVars>>

\* State 3 as it would be if only commands without an offset were remembered.
MainCommandForgets ==
  /\ mState = 3 /\ Receive
  /\ isConfig' = (isConfig \/ Head(in) = COMMAND_WRITE_CONFIG)
  /\ buf' = IF Head(in) = COMMAND_SET_LEDS THEN 0 ELSE NULL
  /\ IF Head(in) \in {COMMAND_WRITE_CONFIG, COMMAND_SET_LEDS}
       THEN mState' = 4 /\ packetCount' = Dec8(packetCount) /\ UNCHANGED cmd
       ELSE mState' = 5 /\ cmd' = Head(in) /\ UNCHANGED packetCount
  /\ UNCHANGED <<out, offset, readyForPacket, inputVars, memVars>>

\* State 3: command byte.  Only WRITE_CONFIG and SET_LEDS carry an offset.
MainCommand ==
  /\ mState = 3 /\ Receive
  /\ cmd' = Head(in)
  /\ isConfig' = (isConfig \/ cmd' = COMMAND_WRITE_CONFIG)
  /\ buf' = CASE cmd' = COMMAND_WRITE_CONFIG -> buf
              [] cmd' = COMMAND_SET_LEDS     -> 0
              [] OTHER                       -> NULL
  /\ IF cmd' \in {COMMAND_WRITE_CONFIG, COMMAND_SET_LEDS}
       THEN mState' = 4 /\ packetCount' = Dec8(packetCount)
       ELSE mState' = 5 /\ UNCHANGED packetCount
  /\ UNCHANGED <<out, offset, readyForPacket, inputVars, memVars>>

\* State 4: block number.  (The code also offsets an unset buf, in a
\* configuration write; isConfig keeps it from being used.)
MainOffset ==
  /\ mState = 4 /\ Receive
  /\ offset' = BlockAddress(Head(in))
  /\ buf' = IF buf = NULL THEN NULL ELSE buf + offset'
  /\ mState' = 5
  /\ UNCHANGED <<out, packetCount, cmd, isConfig, readyForPacket, inputVars, memVars>>

\* State 5: a payload byte goes to the configuration (writeConfigByte), to the
\* LEDs or nowhere (SET_SP drives a pin); the last one runs handleCommand, state
\* 7 being left in the same iteration.
MainPayload ==
  /\ mState = 5 /\ Receive
  /\ packetCount' = Dec8(packetCount)
  /\ mState' = FrameEnd(packetCount')
  /\ LET stored == IF isConfig THEN Stored(eeprom, offset, Head(in)) ELSE eeprom
     IN  eeprom' = IF packetCount' = 0 THEN handleCommand(cmd, stored) ELSE stored
  /\ offset' = IF isConfig THEN offset + 1 ELSE offset
  /\ IF ~isConfig /\ buf # NULL
       THEN leds' = Stored(leds, buf, Head(in)) /\ buf' = buf + 1
       ELSE UNCHANGED <<leds, buf>>
  /\ UNCHANGED <<out, cmd, isConfig, readyForPacket, inputVars>>

\* The other branch: nothing received, so read the inputs (value v) and, if
\* the controller differs from the last one reported and the credit is here,
\* spend the credit and send.
MainTick(v) ==
  /\ in = << >>
  /\ controller' = v
  /\ IF ReportDue(v)
       THEN /\ writeData(WriteFrame(ReportBody(v)))
            /\ lastmidi' = Velocity(v)
            /\ readyForPacket' = FALSE
            /\ prevController' = v
       ELSE UNCHANGED <<out, lastmidi, readyForPacket, prevController>>
  /\ UNCHANGED <<in, parseVars, memVars>>

MainByte == \/ MainStart  \/ MainLength \/ MainRead
            \/ MainCommand \/ MainOffset \/ MainPayload

MainTypeOK ==
  /\ in \in Seq(Byte) /\ out \in Seq(Byte)
  /\ mState \in 0..5 /\ packetCount \in Byte /\ cmd \in Byte
  /\ isConfig \in BOOLEAN /\ buf \in {NULL} \cup Nat /\ offset \in Nat
  /\ readyForPacket \in BOOLEAN
  /\ controller \in Inputs /\ prevController \in Inputs /\ lastmidi \in Byte
  /\ eeprom \in Mem /\ leds \in Mem
==============================================================================
