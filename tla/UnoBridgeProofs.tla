--------------------------- MODULE UnoBridgeProofs ---------------------------
(***************************************************************************)
(* The bridge of the two micro-controllers of an Uno, for every set of     *)
(* inputs, writes and reads and every ring length:                         *)
(*   - type correctness: no counter leaves its uint8_t, no frame carries   *)
(*     anything but bytes, no index leaves its array;                      *)
(*   - the two parsers stay in step, control reads get their own answers,  *)
(*     writes are executed in order and the flow control implements        *)
(*     ReportCredit;                                                       *)
(*   - once settled and without reads, it is the single slot ReportSlot;   *)
(*   - the memories end up as the host's writes ask.                       *)
(***************************************************************************)
EXTENDS UnoBridge, SequenceTheorems, TLAPS

------------------------------------------------------------------------------
\* Facts about bytes and frames.
LEMMA Dec8Byte == ASSUME NEW n \in Byte PROVE Dec8(n) \in Byte
BY DEF Byte, Dec8

LEMMA TakeByte ==
  ASSUME NEW s \in Seq(Byte), s # << >>
  PROVE  Head(s) \in Byte /\ Tail(s) \in Seq(Byte)
OBVIOUS

LEMMA JoinBytes ==
  ASSUME NEW s \in Seq(Byte), NEW t \in Seq(Byte)
  PROVE  s \o t \in Seq(Byte)
OBVIOUS

LEMMA OneTwoThree ==
  ASSUME NEW a \in Byte, NEW b \in Byte, NEW c \in Byte
  PROVE  /\ <<a>> \in Seq(Byte) /\ Len(<<a>>) = 1
         /\ <<a, b>> \in Seq(Byte) /\ Len(<<a, b>>) = 2
         /\ <<a, b, c>> \in Seq(Byte)
OBVIOUS

LEMMA WriteFrameBytes ==
  ASSUME NEW body \in Seq(Byte), Len(body) \in Byte
  PROVE  WriteFrame(body) \in Seq(Byte)
<1>1. FRAME_START_WRITE \in Byte
  BY DEF FRAME_START_WRITE, Byte
<1>2. <<FRAME_START_WRITE, Len(body)>> \in Seq(Byte)
  BY <1>1, OneTwoThree
<1>3. QED
  BY <1>2, JoinBytes DEF WriteFrame

LEMMA FeatureFrameBytes ==
  ASSUME NEW c \in Byte, NEW d \in Payload
  PROVE  FeatureWriteFrame(c, d) \in Seq(Byte) /\ FeatureReadFrame(c) \in Seq(Byte)
<1>1. FRAME_START_FEATURE_WRITE \in Byte /\ FRAME_START_FEATURE_READ \in Byte
  BY DEF FRAME_START_FEATURE_WRITE, FRAME_START_FEATURE_READ, Byte
<1>2. d \in Seq(Byte) /\ Len(d) \in Byte
  BY DEF Payload
<1>3. <<FRAME_START_FEATURE_WRITE, Len(d), c>> \in Seq(Byte)
  BY <1>1, <1>2, OneTwoThree
<1>4. <<FRAME_START_FEATURE_READ, c>> \in Seq(Byte)
  BY <1>1, OneTwoThree
<1>5. QED
  BY <1>2, <1>3, <1>4, JoinBytes DEF FeatureWriteFrame, FeatureReadFrame

LEMMA ReplyBytes ==
  ASSUME NEW c \in Byte PROVE WriteFrame(ReplyBody(c)) \in Seq(Byte)
<1>1. REPORT_ID_CONTROL \in Byte /\ 2 \in Byte
  BY DEF REPORT_ID_CONTROL, Byte
<1>2. ReplyBody(c) \in Seq(Byte) /\ Len(ReplyBody(c)) \in Byte
  BY <1>1, OneTwoThree DEF ReplyBody
<1>3. QED
  BY <1>2, WriteFrameBytes

LEMMA VelocityByte == ASSUME NEW c \in Byte PROVE Velocity(c) \in Byte
BY DEF Velocity, Byte

LEMMA RidByte == ReportId \subseteq Byte /\ DeviceRid \in Byte
BY RidAssumption DEF ReportId, Byte, REPORT_ID_XINPUT, REPORT_ID_GAMEPAD,
   REPORT_ID_KBD, REPORT_ID_MIDI, REPORT_ID_CONTROL

LEMMA ReportBytes ==
  ASSUME NEW c \in Byte PROVE WriteFrame(ReportBody(c)) \in Seq(Byte)
<1>1. 1 \in Byte /\ 2 \in Byte
  BY DEF Byte
<1>2. Velocity(c) \in Byte /\ DeviceRid \in Byte
  BY VelocityByte, RidByte
<1>3. ReportBody(c) \in {<<DeviceRid>>, <<DeviceRid, Velocity(c)>>, <<DeviceRid, c>>}
  BY Zenon DEF ReportBody
<1>4. ReportBody(c) \in Seq(Byte) /\ Len(ReportBody(c)) \in Byte
  BY <1>1, <1>2, <1>3, OneTwoThree
<1>5. QED
  BY <1>4, WriteFrameBytes

------------------------------------------------------------------------------
\* The 328p's parser, state by state.  Each action is typed in three parts: the
\* numbers, the flags and the rest.
LEMMA MemStore ==
  ASSUME NEW m \in Mem, NEW a, NEW b \in Byte PROVE Stored(m, a, b) \in Mem
BY DEF Mem, Stored

LEMMA DefaultMem == default_config \in Mem
BY MemAssumption DEF Mem, default_config

LEMMA MainStartType ==
  ASSUME MainTypeOK, MainStart PROVE MainTypeOK'
<1>1. in' \in Seq(Byte)
  BY TakeByte DEF MainStart, Receive, MainTypeOK
<1>2. mState' \in 0..5
  BY DEF MainStart
<1>3. readyForPacket' \in BOOLEAN
  BY Zenon DEF MainStart
<1>4. QED
  BY <1>1, <1>2, <1>3, Zenon DEF MainTypeOK, MainStart, inputVars, memVars, Mem

LEMMA MainLengthType ==
  ASSUME MainTypeOK, MainLength PROVE MainTypeOK'
<1>1. in' \in Seq(Byte) /\ packetCount' \in Byte
  BY TakeByte DEF MainLength, Receive, MainTypeOK
<1>2. mState' \in 0..5
  BY DEF MainLength
<1>3. QED
  BY <1>1, <1>2, Zenon DEF MainTypeOK, MainLength, inputVars, memVars, Mem

LEMMA MainReadType ==
  ASSUME MainTypeOK, MainRead PROVE MainTypeOK'
<1>1. in' \in Seq(Byte) /\ Head(in) \in Byte
  BY TakeByte DEF MainRead, Receive, MainTypeOK
<1>2. out' \in Seq(Byte)
  BY <1>1, ReplyBytes, JoinBytes DEF MainRead, writeData, MainTypeOK
<1>3. mState' \in 0..5
  BY DEF MainRead
<1>4. QED
  BY <1>1, <1>2, <1>3, Zenon DEF MainTypeOK, MainRead, inputVars, memVars, Mem

LEMMA MainCommandType ==
  ASSUME MainTypeOK, MainCommand PROVE MainTypeOK'
<1>1. in' \in Seq(Byte) /\ cmd' \in Byte
  BY TakeByte DEF MainCommand, Receive, MainTypeOK
<1>2. packetCount' \in Byte /\ mState' \in 0..5
  BY Dec8Byte DEF MainCommand, MainTypeOK
<1>3. isConfig' \in BOOLEAN
  BY Zenon DEF MainCommand
<1>4. buf' \in {NULL} \cup Nat
  BY DEF MainCommand, MainTypeOK
<1>5. QED
  BY <1>1, <1>2, <1>3, <1>4, Zenon DEF MainTypeOK, MainCommand, inputVars, memVars, Mem

LEMMA MainOffsetType ==
  ASSUME MainTypeOK, MainOffset PROVE MainTypeOK'
<1>1. in' \in Seq(Byte) /\ Head(in) \in Byte
  BY TakeByte DEF MainOffset, Receive, MainTypeOK
<1>2. offset' \in Nat
  <2>1. Byte \subseteq Nat
    BY DEF Byte
  <2>2. PACKET_SIZE \in Nat
    BY MemAssumption
  <2>3. \A i, j \in Nat : i * j \in Nat
    OBVIOUS
  <2>4. QED
    BY <1>1, <2>1, <2>2, <2>3, Zenon DEF MainOffset, BlockAddress
<1>3. buf' \in {NULL} \cup Nat
  BY <1>2 DEF MainOffset, MainTypeOK
<1>4. mState' \in 0..5
  BY DEF MainOffset
<1>5. QED
  BY <1>1, <1>2, <1>3, <1>4, Zenon DEF MainTypeOK, MainOffset, inputVars, memVars, Mem

LEMMA MainPayloadType ==
  ASSUME MainTypeOK, MainPayload PROVE MainTypeOK'
<1>1. in' \in Seq(Byte) /\ Head(in) \in Byte
  BY TakeByte DEF MainPayload, Receive, MainTypeOK
<1>2. packetCount' \in Byte /\ mState' \in 0..5
  BY Dec8Byte DEF MainPayload, FrameEnd, MainTypeOK
<1>3. Stored(eeprom, offset, Head(in)) \in Mem
  BY <1>1, MemStore DEF MainTypeOK
<1>4. \A m \in Mem : handleCommand(cmd, m) \in Mem
  BY DefaultMem, Zenon DEF handleCommand
<1>5. eeprom' \in Mem
  BY <1>3, <1>4, Zenon DEF MainPayload, MainTypeOK
<1>6. offset' \in Nat
  <2>1. offset' = offset + 1 \/ offset' = offset
    BY Zenon DEF MainPayload
  <2>2. QED
    BY <2>1 DEF MainTypeOK
<1>7. leds' \in Mem /\ buf' \in {NULL} \cup Nat
  <2>1. CASE ~isConfig /\ buf # NULL
    <3>1. buf \in Nat
      BY <2>1 DEF MainTypeOK
    <3>2. Stored(leds, buf, Head(in)) \in Mem
      BY <1>1, MemStore DEF MainTypeOK
    <3>3. leds' = Stored(leds, buf, Head(in)) /\ buf' = buf + 1
      BY <2>1, Zenon DEF MainPayload
    <3>4. QED
      BY <3>1, <3>2, <3>3
  <2>2. CASE ~(~isConfig /\ buf # NULL)
    BY <2>2, Zenon DEF MainPayload, MainTypeOK
  <2>3. QED
    BY <2>1, <2>2
<1>8. QED
  BY <1>1, <1>2, <1>5, <1>6, <1>7, Zenon DEF MainTypeOK, MainPayload, inputVars, memVars, Mem

\* The other branch of the 328p's loop.
LEMMA MainTickType ==
  ASSUME MainTypeOK, NEW v \in Inputs, MainTick(v) PROVE MainTypeOK'
<1>1. v \in Byte
  BY InputsAssumption
<1>2. out' \in Seq(Byte)
  <2>1. out' = out \o WriteFrame(ReportBody(v)) \/ out' = out
    BY Zenon DEF MainTick, writeData
  <2>2. QED
    BY <1>1, <2>1, ReportBytes, JoinBytes DEF MainTypeOK
<1>3. lastmidi' \in Byte
  BY <1>1, VelocityByte, Zenon DEF MainTick, MainTypeOK
<1>4. readyForPacket' \in BOOLEAN /\ prevController' \in Inputs /\ controller' \in Inputs
  BY Zenon DEF MainTick, MainTypeOK
<1>5. QED
  BY <1>2, <1>3, <1>4, Zenon DEF MainTypeOK, MainTick, parseVars, memVars, Mem

LEMMA MainByteType ==
  ASSUME MainTypeOK, MainByte PROVE MainTypeOK'
BY MainStartType, MainLengthType, MainReadType, MainCommandType, MainOffsetType,
   MainPayloadType DEF MainByte

------------------------------------------------------------------------------
\* The 16u2.
LEMMA FifoStore ==
  ASSUME UsbTypeOK, NEW e \in Endpoint, NEW b \in Byte, Endpoint_Write_8(e, b)
  PROVE  fifo' \in [Endpoint -> Seq(Byte)]
<1>1. Append(fifo[e], b) \in Seq(Byte)
  BY DEF UsbTypeOK
<1>2. [fifo EXCEPT ![e] = Append(@, b)] \in [Endpoint -> Seq(Byte)]
  BY <1>1 DEF UsbTypeOK
<1>3. QED
  BY <1>2, Zenon DEF Endpoint_Write_8, UsbTypeOK

LEMMA EndpointTable == ASSUME NEW r \in ReportId PROVE endpoints[r] \in Endpoint
BY DEF endpoints, Endpoint, ENDPOINT_CONTROLEP, XINPUT_EPADDR_IN, MIDI_EPADDR_IN, HID_EPADDR_IN

LEMMA UsbStartType ==
  ASSUME UsbTypeOK, UsbStart PROVE UsbTypeOK'
<1>1. rx' \in Seq(Byte)
  BY TakeByte DEF UsbStart, Take, UsbTypeOK
<1>2. uState' \in 0..3
  BY DEF UsbStart
<1>3. QED
  BY <1>1, <1>2, Zenon DEF UsbTypeOK, UsbStart, epVars

LEMMA UsbLengthType ==
  ASSUME UsbTypeOK, UsbLength PROVE UsbTypeOK'
<1>1. rx' \in Seq(Byte) /\ uCount' \in Byte
  BY TakeByte DEF UsbLength, Take, UsbTypeOK
<1>2. uState' \in 0..3
  BY DEF UsbLength
<1>3. QED
  BY <1>1, <1>2, Zenon DEF UsbTypeOK, UsbLength, epVars

LEMMA UsbReportIdType ==
  ASSUME UsbTypeOK, UsbReportId PROVE UsbTypeOK'
<1>1. rx' \in Seq(Byte) /\ Head(rx) \in Byte
  BY TakeByte DEF UsbReportId, Take, UsbTypeOK
<1>2. uState' \in 0..3 /\ uCount' \in Byte
  BY Dec8Byte DEF UsbReportId, UsbTypeOK
<1>3. currentEndpoint' \in Endpoint
  BY EndpointTable, Zenon DEF UsbReportId
<1>4. fifo' \in [Endpoint -> Seq(Byte)]
  <2>1. fifo' = fifo \/ Endpoint_Write_8(currentEndpoint', Head(rx))
    BY Zenon DEF UsbReportId
  <2>2. QED
    BY <1>1, <1>3, <2>1, FifoStore, Zenon DEF UsbTypeOK
<1>5. QED
  BY <1>1, <1>2, <1>3, <1>4, Zenon DEF UsbTypeOK, UsbReportId

LEMMA UsbBodyType ==
  ASSUME UsbTypeOK, UsbBody PROVE UsbTypeOK'
<1>1. rx' \in Seq(Byte) /\ Head(rx) \in Byte
  BY TakeByte DEF UsbBody, Take, UsbTypeOK
<1>2. uState' \in 0..3 /\ uCount' \in Byte
  BY Dec8Byte DEF UsbBody, UsbTypeOK
<1>3. fifo' \in [Endpoint -> Seq(Byte)]
  BY <1>1, FifoStore, Zenon DEF UsbBody, UsbTypeOK
<1>4. busy' \in [Endpoint -> BOOLEAN]
  <2> DEFINE b == busy[currentEndpoint] \/ Endpoint_IsINReady(currentEndpoint)
  <2>1. b \in BOOLEAN
    BY Zenon
  <2>2. busy' = busy \/ busy' = [busy EXCEPT ![currentEndpoint] = b]
    BY Zenon DEF UsbBody
  <2> HIDE DEF b
  <2>3. [busy EXCEPT ![currentEndpoint] = b] \in [Endpoint -> BOOLEAN]
    BY <2>1 DEF UsbTypeOK
  <2>4. QED
    BY <2>2, <2>3, Zenon DEF UsbTypeOK
<1>5. checkEndpoint' \in BOOLEAN
  BY Zenon DEF UsbBody, UsbTypeOK
<1>6. QED
  BY <1>1, <1>2, <1>3, <1>4, <1>5, Zenon DEF UsbTypeOK, UsbBody

LEMMA UsbWriteDataType ==
  ASSUME UsbTypeOK, NEW b \in Byte, NEW next \in UsbPc, UsbWriteData(b, next)
  PROVE  tx' \in Seq(Byte) /\ uPc' \in UsbPc
<1>1. Append(tx, b) \in Seq(Byte) /\ "hung" \in UsbPc
  BY DEF UsbTypeOK, UsbPc
<1>2. QED
  BY <1>1, Zenon DEF UsbWriteData, UsbTypeOK

LEMMA CheckEndpointType ==
  ASSUME UsbTypeOK, CheckEndpoint
  PROVE  tx' \in Seq(Byte) /\ uPc' \in UsbPc /\ checkEndpoint' \in BOOLEAN
<1>1. FRAME_DONE \in Byte /\ "loop" \in UsbPc
  BY DEF FRAME_DONE, Byte, UsbPc
<1>2. CASE DoneDue
  <2>1. UsbWriteData(FRAME_DONE, "loop") /\ checkEndpoint' \in BOOLEAN
    BY <1>2, Zenon DEF CheckEndpoint
  <2>2. QED
    BY <1>1, <2>1, UsbWriteDataType, Zenon
<1>3. CASE ~DoneDue
  BY <1>1, <1>3, Zenon DEF CheckEndpoint, UsbTypeOK
<1>4. QED
  BY <1>2, <1>3, Zenon

LEMMA UsbIdleType ==
  ASSUME UsbTypeOK, UsbIdle PROVE UsbTypeOK'
BY CheckEndpointType, Zenon DEF UsbTypeOK, UsbIdle, frameVars, epVars

LEMMA UsbCheckType ==
  ASSUME UsbTypeOK, UsbCheck PROVE UsbTypeOK'
BY CheckEndpointType, Zenon DEF UsbTypeOK, UsbCheck, frameVars, epVars

LEMMA ControlRequestType ==
  ASSUME UsbTypeOK, deviceControlRequest PROVE UsbTypeOK'
<1>1. setup.cmd \in Byte /\ setup.data \in Payload
  BY DEF UsbTypeOK
<1>2. forward' \in Seq(Byte)
  BY <1>1, FeatureFrameBytes, Zenon DEF deviceControlRequest
<1>3. uPc' \in UsbPc
  BY DEF deviceControlRequest, UsbPc
<1>4. QED
  BY <1>2, <1>3, Zenon DEF UsbTypeOK, deviceControlRequest, frameVars, epVars

LEMMA UsbForwardType ==
  ASSUME UsbTypeOK, UsbForward PROVE UsbTypeOK'
<1>1. Head(forward) \in Byte /\ forward' \in Seq(Byte)
  BY TakeByte DEF UsbForward, UsbTypeOK
<1>2. "control" \in UsbPc
  BY DEF UsbPc
<1>3. tx' \in Seq(Byte) /\ uPc' \in UsbPc
  BY <1>1, <1>2, UsbWriteDataType, Zenon DEF UsbForward
<1>4. QED
  BY <1>1, <1>3, Zenon DEF UsbTypeOK, UsbForward, frameVars, epVars

LEMMA NoRequestType ==
  NoRequest \in [kind : {"none", "get", "set"}, cmd : Byte, data : Payload]
BY DEF NoRequest, Byte, Payload

LEMMA UsbEndRequestType ==
  ASSUME UsbTypeOK, UsbEndRequest PROVE UsbTypeOK'
<1>1. setup.data \in Seq(Byte)
  BY DEF UsbTypeOK, Payload
<1>2. setup.data # << >> => setup.data[Len(setup.data)] \in Byte
  <2> SUFFICES ASSUME NEW d \in Seq(Byte), d # << >> PROVE d[Len(d)] \in Byte
    BY <1>1
  <2> QED OBVIOUS
<1>3. deviceType' \in Byte
  BY <1>2, Zenon DEF UsbEndRequest, UsbTypeOK
<1>4. uPc' \in UsbPc
  BY DEF UsbEndRequest, UsbPc
<1>5. QED
  BY <1>3, <1>4, NoRequestType, Zenon DEF UsbTypeOK, UsbEndRequest, frameVars, epVars

LEMMA UsbLoopType ==
  ASSUME UsbTypeOK, UsbLoop PROVE UsbTypeOK'
BY UsbStartType, UsbLengthType, UsbReportIdType, UsbBodyType, UsbIdleType,
   ControlRequestType, UsbForwardType, UsbEndRequestType, UsbCheckType
   DEF UsbLoop, UsbByte

------------------------------------------------------------------------------
\* The bridge: host, player and history.
EnvTypeOK ==
  /\ input \in Inputs /\ changes \in 0..MaxChanges /\ requests \in 0..MaxRequests
  /\ awaiting \in Byte \cup {None} /\ shown \in Seq(Byte)
  /\ todo \in Seq(Byte) /\ inReports \in Int /\ inDones \in Int

LEMMA TypeParts == TypeOK <=> MainTypeOK /\ UsbTypeOK /\ EnvTypeOK
BY Zenon DEF TypeOK, EnvTypeOK

\* What a step leaves alone keeps its type.
LEMMA MainUnchanged == MainTypeOK /\ UNCHANGED mainVars => MainTypeOK'
BY Zenon DEF MainTypeOK, mainVars, parseVars, inputVars, memVars, Mem

LEMMA UsbUnchanged == UsbTypeOK /\ UNCHANGED usbVars => UsbTypeOK'
BY Zenon DEF UsbTypeOK, usbVars, frameVars, epVars

LEMMA EnvUnchanged == EnvTypeOK /\ UNCHANGED <<hostVars, ghostVars>> => EnvTypeOK'
BY Zenon DEF EnvTypeOK, hostVars, ghostVars

LEMMA InitType == Init \/ SettledInit => TypeOK
<1> SUFFICES ASSUME Init \/ SettledInit PROVE TypeOK
  OBVIOUS
<1>0. /\ MainInit /\ EnvInit
      /\ rx = << >> /\ tx = << >> /\ forward = << >> /\ uPc = "loop" /\ uState = 0 /\ uCount = 0
      /\ currentEndpoint = DeviceEp /\ checkEndpoint \in BOOLEAN /\ configured \in BOOLEAN
      /\ fifo = [e \in Endpoint |-> << >>] /\ busy = [e \in Endpoint |-> FALSE]
      /\ setup = NoRequest /\ deviceType = 0
  BY Zenon DEF Init, SettledInit, UsbInit
<1>1. MainTypeOK
  <2>1. in \in Seq(Byte) /\ out \in Seq(Byte)
    <3>1. in = << >> /\ out = << >>
      BY <1>0, Zenon DEF MainInit
    <3>2. QED
      BY <3>1
  <2>2. mState \in 0..5 /\ packetCount \in Byte /\ cmd \in Byte /\ offset \in Nat /\ lastmidi \in Byte
    <3>1. mState = 0 /\ packetCount = 0 /\ cmd = 0 /\ offset = 0 /\ lastmidi = 0
      BY <1>0, Zenon DEF MainInit
    <3>2. QED
      BY <3>1 DEF Byte
  <2>3. isConfig \in BOOLEAN /\ readyForPacket \in BOOLEAN /\ buf \in {NULL} \cup Nat
    BY <1>0, Zenon DEF MainInit
  <2>4. controller \in Inputs /\ prevController \in Inputs
    BY <1>0, InputsAssumption, Zenon DEF MainInit
  <2>5. eeprom \in Mem /\ leds \in Mem
    <3>1. eeprom = default_config /\ leds = [a \in 0..(MemSize - 1) |-> 0]
      BY <1>0, Zenon DEF MainInit
    <3>2. QED
      BY <3>1, DefaultMem, MemAssumption DEF Mem, Byte
  <2>6. QED
    BY <2>1, <2>2, <2>3, <2>4, <2>5, Zenon DEF MainTypeOK
<1>2. UsbTypeOK
  <2>1. rx \in Seq(Byte) /\ tx \in Seq(Byte) /\ forward \in Seq(Byte)
    <3>1. rx = << >> /\ tx = << >> /\ forward = << >>
      BY <1>0, Zenon
    <3>2. QED
      BY <3>1
  <2>2. uState \in 0..3 /\ uCount \in Byte /\ deviceType \in Byte
    <3>1. uState = 0 /\ uCount = 0 /\ deviceType = 0
      BY <1>0, Zenon
    <3>2. QED
      BY <3>1 DEF Byte
  <2>3. uPc \in UsbPc /\ currentEndpoint \in Endpoint
    BY <1>0, UsbAssumption, Zenon DEF UsbPc
  <2>4. fifo \in [Endpoint -> Seq(Byte)] /\ busy \in [Endpoint -> BOOLEAN]
    <3>1. fifo = [e \in Endpoint |-> << >>] /\ busy = [e \in Endpoint |-> FALSE]
      BY <1>0, Zenon
    <3>2. QED
      BY <3>1
  <2>5. QED
    BY <1>0, <2>1, <2>2, <2>3, <2>4, NoRequestType, Zenon DEF UsbTypeOK
<1>3. EnvTypeOK
  <2>0. /\ input = 0 /\ changes = 0 /\ requests = 0 /\ awaiting = None /\ shown = Packet(0)
        /\ todo = << >> /\ inReports = 0 /\ inDones = 0
    BY <1>0, Zenon DEF EnvInit
  <2>1. 0 \in Byte
    BY DEF Byte
  <2>2. shown \in Seq(Byte)
    BY <2>0, <2>1, RidByte, OneTwoThree DEF Packet
  <2>3. changes \in 0..MaxChanges /\ requests \in 0..MaxRequests /\ inReports \in Int /\ inDones \in Int
    BY <2>0, HostAssumption
  <2>4. input \in Inputs /\ awaiting \in Byte \cup {None} /\ todo \in Seq(Byte)
    BY <2>0, InputsAssumption
  <2>5. QED
    BY <2>2, <2>3, <2>4, Zenon DEF EnvTypeOK
<1>4. QED
  BY <1>1, <1>2, <1>3, TypeParts

LEMMA NextType == TypeOK /\ [Next]_vars => TypeOK'
<1> SUFFICES ASSUME MainTypeOK, UsbTypeOK, EnvTypeOK, [Next]_vars
             PROVE  MainTypeOK' /\ UsbTypeOK' /\ EnvTypeOK'
  BY TypeParts, Zenon DEF TypeOK, EnvTypeOK
<1>1. CASE MainStep
  <2>1. MainTypeOK'
    BY <1>1, MainByteType DEF MainStep
  <2>2. UsbTypeOK'
    BY <1>1, UsbUnchanged, Zenon DEF MainStep
  <2>3. todo' \in Seq(Byte)
    <3>1. todo' = todo \/ (todo # << >> /\ todo' = Tail(todo))
      BY <1>1, Zenon DEF MainStep
    <3>2. QED
      BY <3>1, TakeByte DEF EnvTypeOK
  <2>4. inDones' \in Int
    <3>1. inDones' = inDones \/ inDones' = inDones - 1
      BY <1>1, Zenon DEF MainStep
    <3>2. QED
      BY <3>1 DEF EnvTypeOK
  <2>5. EnvTypeOK'
    BY <1>1, <2>3, <2>4, Zenon DEF EnvTypeOK, MainStep, hostVars
  <2>6. QED
    BY <2>1, <2>2, <2>5
<1>2. CASE MainPoll
  <2>1. MainTypeOK'
    BY <1>2, MainTickType, Zenon DEF MainPoll, EnvTypeOK
  <2>2. UsbTypeOK'
    BY <1>2, UsbUnchanged, Zenon DEF MainPoll
  <2>3. inReports' \in Int
    <3>1. inReports' = inReports \/ inReports' = inReports + 1
      BY <1>2, Zenon DEF MainPoll
    <3>2. QED
      BY <3>1 DEF EnvTypeOK
  <2>4. EnvTypeOK'
    BY <1>2, <2>3, Zenon DEF EnvTypeOK, MainPoll, hostVars
  <2>5. QED
    BY <2>1, <2>2, <2>4
<1>3. CASE UsbStep
  <2>1. UsbTypeOK'
    BY <1>3, UsbLoopType DEF UsbStep
  <2>2. MainTypeOK'
    BY <1>3, MainUnchanged, Zenon DEF UsbStep
  <2>3. inReports' \in Int /\ inDones' \in Int
    <3>1. /\ inReports' = inReports \/ inReports' = inReports - 1
          /\ inDones' = inDones \/ inDones' = inDones + 1
      BY <1>3, Zenon DEF UsbStep
    <3>2. QED
      BY <3>1 DEF EnvTypeOK
  <2>4. EnvTypeOK'
    BY <1>3, <2>3, Zenon DEF EnvTypeOK, UsbStep, hostVars
  <2>5. QED
    BY <2>1, <2>2, <2>4
<1>4. CASE UartToUsb
  <2>1. out' \in Seq(Byte) /\ Head(out) \in Byte
    BY <1>4, TakeByte DEF UartToUsb, MainTypeOK
  <2>2. rx' \in Seq(Byte)
    BY <1>4, <2>1 DEF UartToUsb, UsbTypeOK
  <2>3. MainTypeOK'
    BY <1>4, <2>1, Zenon DEF UartToUsb, MainTypeOK, parseVars, inputVars, memVars, Mem
  <2>4. UsbTypeOK'
    BY <1>4, <2>2, Zenon DEF UartToUsb, UsbTypeOK, frameVars, epVars
  <2>5. QED
    BY <1>4, <2>3, <2>4, EnvUnchanged, Zenon DEF UartToUsb
<1>5. CASE UartToMain
  <2>1. tx' \in Seq(Byte) /\ Head(tx) \in Byte
    BY <1>5, TakeByte DEF UartToMain, UsbTypeOK
  <2>2. in' \in Seq(Byte)
    BY <1>5, <2>1 DEF UartToMain, MainTypeOK
  <2>3. MainTypeOK'
    BY <1>5, <2>2, Zenon DEF UartToMain, MainTypeOK, parseVars, inputVars, memVars, Mem
  <2>4. UsbTypeOK'
    BY <1>5, <2>1, Zenon DEF UartToMain, UsbTypeOK, frameVars, epVars
  <2>5. QED
    BY <1>5, <2>3, <2>4, EnvUnchanged, Zenon DEF UartToMain
<1>6. CASE Enumerate
  <2>1. configured' \in BOOLEAN
    BY <1>6, Zenon DEF Enumerate, UsbConfigured
  <2>2. UsbTypeOK'
    BY <1>6, <2>1, Zenon DEF Enumerate, UsbConfigured, UsbTypeOK, frameVars
  <2>3. QED
    BY <1>6, <2>2, MainUnchanged, EnvUnchanged, Zenon DEF Enumerate
<1>7. CASE ChangeInput
  <2>1. changes' \in 0..MaxChanges
    BY <1>7, HostAssumption DEF ChangeInput, EnvTypeOK
  <2>2. input' \in Inputs
    BY <1>7 DEF ChangeInput
  <2>3. EnvTypeOK'
    BY <1>7, <2>1, <2>2, Zenon DEF ChangeInput, EnvTypeOK, ghostVars
  <2>4. QED
    BY <1>7, <2>3, MainUnchanged, UsbUnchanged, Zenon DEF ChangeInput
<1>8. CASE HostWrite
  <2>1. requests' \in 0..MaxRequests
    BY <1>8, HostAssumption DEF HostWrite, EnvTypeOK
  <2>2. PICK w \in Writes :
          /\ setup' = [kind |-> "set", cmd |-> w.cmd, data |-> w.data]
          /\ todo' = Append(todo, w.cmd)
    BY <1>8, Zenon DEF HostWrite
  <2>3. w.cmd \in Byte /\ w.data \in Payload
    BY HostAssumption
  <2>4. setup' \in [kind : {"none", "get", "set"}, cmd : Byte, data : Payload]
    BY <2>2, <2>3
  <2>5. todo' \in Seq(Byte)
    BY <2>2, <2>3 DEF EnvTypeOK
  <2>6. UsbTypeOK'
    BY <1>8, <2>4, Zenon DEF HostWrite, UsbTypeOK, frameVars, epVars
  <2>7. EnvTypeOK'
    BY <1>8, <2>1, <2>5, Zenon DEF HostWrite, EnvTypeOK
  <2>8. QED
    BY <1>8, <2>6, <2>7, MainUnchanged, Zenon DEF HostWrite
<1>9. CASE HostRead
  <2>1. requests' \in 0..MaxRequests
    BY <1>9, HostAssumption DEF HostRead, EnvTypeOK
  <2>2. PICK c \in Reads : setup' = [kind |-> "get", cmd |-> c, data |-> << >>] /\ awaiting' = c
    BY <1>9, Zenon DEF HostRead
  <2>3. c \in Byte /\ << >> \in Payload
    BY HostAssumption DEF Payload, Byte
  <2>4. setup' \in [kind : {"none", "get", "set"}, cmd : Byte, data : Payload]
    BY <2>2, <2>3
  <2>5. awaiting' \in Byte \cup {None}
    BY <2>2, <2>3
  <2>6. UsbTypeOK'
    BY <1>9, <2>4, Zenon DEF HostRead, UsbTypeOK, frameVars, epVars
  <2>7. EnvTypeOK'
    BY <1>9, <2>1, <2>5, Zenon DEF HostRead, EnvTypeOK, ghostVars
  <2>8. QED
    BY <1>9, <2>6, <2>7, MainUnchanged, Zenon DEF HostRead
<1>10. ASSUME NEW e \in Endpoint, HostCollect(e)
       PROVE  MainTypeOK' /\ UsbTypeOK' /\ EnvTypeOK'
  <2>1. fifo' \in [Endpoint -> Seq(Byte)]
    BY <1>10 DEF HostCollect, UsbTypeOK
  <2>2. busy' \in [Endpoint -> BOOLEAN]
    <3>1. busy' = [busy EXCEPT ![e] = FALSE] /\ busy \in [Endpoint -> BOOLEAN]
      BY <1>10, Zenon DEF HostCollect, UsbTypeOK
    <3>2. QED
      BY <3>1
  <2>3. fifo[e] \in Seq(Byte)
    BY DEF UsbTypeOK
  <2>4. awaiting' \in Byte \cup {None} /\ shown' \in Seq(Byte)
    BY <1>10, <2>3, Zenon DEF HostCollect, EnvTypeOK
  <2>5. UsbTypeOK'
    BY <1>10, <2>1, <2>2, Zenon DEF HostCollect, UsbTypeOK, frameVars
  <2>6. EnvTypeOK'
    BY <1>10, <2>4, Zenon DEF HostCollect, EnvTypeOK, ghostVars
  <2>7. QED
    BY <1>10, <2>5, <2>6, MainUnchanged, Zenon DEF HostCollect
<1>11. CASE UNCHANGED vars
  BY <1>11, MainUnchanged, UsbUnchanged, EnvUnchanged, Zenon DEF vars
<1>12. QED
  BY <1>1, <1>2, <1>3, <1>4, <1>5, <1>6, <1>7, <1>8, <1>9, <1>10, <1>11, Zenon DEF Next

\* Every byte that crosses the UART or an endpoint is a byte, both parsers stay
\* in their states and their uint8_t counters, wrap included, in range, for
\* every device type, memory size and set of control requests.
THEOREM TypeCorrect == Spec => []TypeOK
BY InitType, NextType, PTL DEF Spec

------------------------------------------------------------------------------
(***************************************************************************)
(* What is under way.  A point is a parser's state between two bytes, with *)
(* what is left to read from there on: the credits (FRAME_DONEs towards    *)
(* the 328p, reports towards the 16u2), the commands of the writes, and    *)
(* the command of the one read the host can have asked for, or its answer. *)
(* Goes says how a byte leads from one point to the next; states 6 to 9    *)
(* are the 16u2's 0 to 3.                                                  *)
(***************************************************************************)
Point == [st : 0..9, n : Int, c : Int, credits : Nat, todo : Seq(Byte), read : Byte \cup {None}]

\* The commands whose first byte of data is a block number.
Blocks == {COMMAND_WRITE_CONFIG, COMMAND_SET_LEDS}

SameLeft(p, q) == q.credits = p.credits /\ q.todo = p.todo /\ q.read = p.read

GoesDone(p, b, q) ==
  /\ p.st = 0 /\ b = FRAME_DONE /\ q.st = 0
  /\ p.credits = q.credits + 1 /\ q.todo = p.todo /\ q.read = p.read
GoesStart(p, b, q) ==
  /\ p.st = 0 /\ SameLeft(p, q)
  /\ \/ b = FRAME_START_FEATURE_WRITE /\ q.st = 1
     \/ b = FRAME_START_FEATURE_READ /\ q.st = 2
GoesLength(p, b, q) == p.st = 1 /\ q.st = 3 /\ q.n = b /\ SameLeft(p, q)
GoesAsk(p, b, q) ==
  /\ p.st = 2 /\ q.st = 0 /\ p.read = b /\ q.read = None
  /\ q.credits = p.credits /\ q.todo = p.todo
GoesCommand(p, b, q) ==
  /\ p.st = 3 /\ q.c = b /\ SameLeft(p, q) /\ q.n >= 1 /\ p.n <= 255
  /\ b \in Blocks => q.st = 4 /\ q.n = p.n - 1
  /\ b \notin Blocks => q.st = 5 /\ q.n = p.n
GoesOffset(p, b, q) == p.st = 4 /\ q.st = 5 /\ q.n = p.n /\ q.c = p.c /\ SameLeft(p, q)
GoesPayload(p, b, q) ==
  /\ p.st = 5 /\ q.st = 5 /\ p.n > 1 /\ p.n <= 255 /\ q.n = p.n - 1 /\ q.c = p.c /\ SameLeft(p, q)
GoesLast(p, b, q) ==
  /\ p.st = 5 /\ q.st = 0 /\ p.n = 1
  /\ p.todo # << >> /\ Head(p.todo) = p.c /\ q.todo = Tail(p.todo)
  /\ q.credits = p.credits /\ q.read = p.read
UpStart(p, b, q) == p.st = 6 /\ q.st = 7 /\ b = FRAME_START_WRITE /\ SameLeft(p, q)
UpLength(p, b, q) == p.st = 7 /\ q.st = 8 /\ b = 2 /\ SameLeft(p, q)
UpId(p, b, q) ==
  p.st = 8 /\ q.st = 9 /\ b \in {DeviceRid, REPORT_ID_CONTROL} /\ q.c = b /\ SameLeft(p, q)
UpReport(p, b, q) ==
  /\ p.st = 9 /\ q.st = 6 /\ p.c = DeviceRid
  /\ p.credits = q.credits + 1 /\ q.todo = p.todo /\ q.read = p.read
UpReply(p, b, q) ==
  /\ p.st = 9 /\ q.st = 6 /\ p.c = REPORT_ID_CONTROL /\ p.read = b /\ q.read = None
  /\ q.credits = p.credits /\ q.todo = p.todo

Goes(p, b, q) ==
  \/ GoesDone(p, b, q) \/ GoesStart(p, b, q) \/ GoesLength(p, b, q) \/ GoesAsk(p, b, q)
  \/ GoesCommand(p, b, q) \/ GoesOffset(p, b, q) \/ GoesPayload(p, b, q) \/ GoesLast(p, b, q)
  \/ UpStart(p, b, q) \/ UpLength(p, b, q) \/ UpId(p, b, q)
  \/ UpReport(p, b, q) \/ UpReply(p, b, q)

\* f takes the parser through s; a read that was found is not found again.
Chain(s, f) ==
  /\ f \in [0..Len(s) -> Point]
  /\ \A i \in 1..Len(s) : Goes(f[i - 1], s[i], f[i])
  /\ \A i, j \in 0..Len(s) : i <= j /\ f[i].read = None => f[j].read = None

LEMMA HeadTail ==
  ASSUME NEW S, NEW s \in Seq(S), s # << >>
  PROVE  /\ Len(s) \in Nat \ {0} /\ Head(s) = s[1] /\ Head(s) \in S
         /\ Tail(s) \in Seq(S) /\ Len(Tail(s)) = Len(s) - 1
         /\ \A i \in 1..(Len(s) - 1) : Tail(s)[i] = s[i + 1]
OBVIOUS

\* Reading a byte is one link of the chain.
LEMMA ChainTake ==
  ASSUME NEW s \in Seq(Byte), s # << >>, NEW f, Chain(s, f)
  PROVE  /\ f[0] \in Point /\ f[1] \in Point /\ Goes(f[0], Head(s), f[1])
         /\ \E g : Chain(Tail(s), g) /\ g[0] = f[1] /\ g[Len(Tail(s))] = f[Len(s)]
<1> DEFINE g == [i \in 0..(Len(s) - 1) |-> f[i + 1]]
<1>1. /\ Len(s) \in Nat \ {0} /\ Head(s) = s[1]
      /\ Tail(s) \in Seq(Byte) /\ Len(Tail(s)) = Len(s) - 1
      /\ \A i \in 1..(Len(s) - 1) : Tail(s)[i] = s[i + 1]
  BY HeadTail
<1>2. /\ f \in [0..Len(s) -> Point]
      /\ \A i \in 1..Len(s) : Goes(f[i - 1], s[i], f[i])
      /\ \A i, j \in 0..Len(s) : i <= j /\ f[i].read = None => f[j].read = None
  BY DEF Chain
<1>3. f[0] \in Point /\ f[1] \in Point /\ Goes(f[0], Head(s), f[1])
  BY <1>1, <1>2
<1>4. g \in [0..(Len(s) - 1) -> Point] /\ \A i \in 0..(Len(s) - 1) : g[i] = f[i + 1]
  BY <1>1, <1>2
<1> HIDE DEF g
<1>5. \A i \in 1..(Len(s) - 1) : Goes(g[i - 1], Tail(s)[i], g[i])
  <2> SUFFICES ASSUME NEW i \in 1..(Len(s) - 1) PROVE Goes(g[i - 1], Tail(s)[i], g[i])
    OBVIOUS
  <2>1. g[i - 1] = f[i] /\ g[i] = f[i + 1] /\ Tail(s)[i] = s[i + 1] /\ i + 1 \in 1..Len(s) /\ (i + 1) - 1 = i
    BY <1>1, <1>4
  <2>2. Goes(f[(i + 1) - 1], s[i + 1], f[i + 1])
    BY <1>2, <2>1
  <2>3. QED
    BY <2>1, <2>2
<1>6. \A i, j \in 0..(Len(s) - 1) : i <= j /\ g[i].read = None => g[j].read = None
  <2> SUFFICES ASSUME NEW i \in 0..(Len(s) - 1), NEW j \in 0..(Len(s) - 1), i <= j, g[i].read = None
               PROVE  g[j].read = None
    OBVIOUS
  <2>1. i + 1 \in 0..Len(s) /\ j + 1 \in 0..Len(s) /\ i + 1 <= j + 1
    BY <1>1
  <2>2. QED
    BY <1>2, <1>4, <2>1
<1>7. g[0] = f[1] /\ g[Len(s) - 1] = f[Len(s)]
  BY <1>1, <1>4
<1>8. QED
  BY <1>1, <1>3, <1>4, <1>5, <1>6, <1>7 DEF Chain

\* Two chains that meet are one.
Joined(s, f, t, h) ==
  [i \in 0..(Len(s) + Len(t)) |-> IF i <= Len(s) THEN f[i] ELSE h[i - Len(s)]]

LEMMA ChainJoin ==
  ASSUME NEW s \in Seq(Byte), NEW t \in Seq(Byte), NEW f, NEW h, Chain(s, f), Chain(t, h),
         f[Len(s)] = h[0]
  PROVE  /\ Chain(s \o t, Joined(s, f, t, h)) /\ Joined(s, f, t, h)[0] = f[0]
         /\ Joined(s, f, t, h)[Len(s) + Len(t)] = h[Len(t)]
<1> DEFINE g == Joined(s, f, t, h)
<1>1. /\ Len(s) \in Nat /\ Len(t) \in Nat /\ Len(s \o t) = Len(s) + Len(t)
      /\ \A i \in 1..Len(s) : (s \o t)[i] = s[i]
      /\ \A i \in 1..Len(t) : (s \o t)[i + Len(s)] = t[i]
  OBVIOUS
<1>2. /\ f \in [0..Len(s) -> Point]
      /\ \A i \in 1..Len(s) : Goes(f[i - 1], s[i], f[i])
      /\ \A i, j \in 0..Len(s) : i <= j /\ f[i].read = None => f[j].read = None
  BY DEF Chain
<1>3. /\ h \in [0..Len(t) -> Point]
      /\ \A i \in 1..Len(t) : Goes(h[i - 1], t[i], h[i])
      /\ \A i, j \in 0..Len(t) : i <= j /\ h[i].read = None => h[j].read = None
  BY DEF Chain
<1>4. /\ g \in [0..(Len(s) + Len(t)) -> Point]
      /\ \A i \in 0..Len(s) : g[i] = f[i]
      /\ \A i \in 0..Len(t) : g[i + Len(s)] = h[i]
  BY <1>1, <1>2, <1>3 DEF Joined
<1> HIDE DEF g
<1>5. \A i \in 1..(Len(s) + Len(t)) : Goes(g[i - 1], (s \o t)[i], g[i])
  <2> SUFFICES ASSUME NEW i \in 1..(Len(s) + Len(t)) PROVE Goes(g[i - 1], (s \o t)[i], g[i])
    OBVIOUS
  <2>1. CASE i <= Len(s)
    <3>1. i \in 1..Len(s) /\ g[i - 1] = f[i - 1] /\ g[i] = f[i] /\ (s \o t)[i] = s[i]
      BY <1>1, <1>4, <2>1
    <3>2. QED
      BY <1>2, <3>1
  <2>2. CASE i > Len(s)
    <3> DEFINE k == i - Len(s)
    <3>1. k \in 1..Len(t) /\ k - 1 \in 0..Len(t) /\ i = k + Len(s) /\ i - 1 = (k - 1) + Len(s)
      BY <1>1, <2>2
    <3> HIDE DEF k
    <3>2. g[(k - 1) + Len(s)] = h[k - 1] /\ g[k + Len(s)] = h[k]
      <4>1. k - 1 \in 0..Len(t) /\ k \in 0..Len(t)
        BY <1>1, <3>1
      <4>2. QED
        BY <1>4, <4>1, Zenon
    <3>3. (s \o t)[k + Len(s)] = t[k]
      BY <1>1, <3>1
    <3>4. Goes(h[k - 1], t[k], h[k])
      BY <1>3, <3>1
    <3>5. QED
      BY <3>1, <3>2, <3>3, <3>4
  <2>3. QED
    BY <1>1, <2>1, <2>2
<1>6. \A i, j \in 0..(Len(s) + Len(t)) : i <= j /\ g[i].read = None => g[j].read = None
  <2> SUFFICES ASSUME NEW i \in 0..(Len(s) + Len(t)), NEW j \in 0..(Len(s) + Len(t)),
                      i <= j, g[i].read = None
               PROVE  g[j].read = None
    OBVIOUS
  <2>1. CASE j <= Len(s)
    BY <1>1, <1>2, <1>4, <2>1
  <2>2. ASSUME NEW k \in 0..Len(t), j = k + Len(s) PROVE g[j].read = None
    <3>1. CASE i <= Len(s)
      <4>1. f[Len(s)].read = None
        BY <1>1, <1>2, <1>4, <3>1
      <4>2. h[k].read = None
        BY <1>1, <1>3, <4>1
      <4>3. QED
        BY <1>4, <2>2, <4>2
    <3>2. CASE i > Len(s)
      <4>1. i - Len(s) \in 0..Len(t) /\ i - Len(s) <= k /\ (i - Len(s)) + Len(s) = i
        BY <1>1, <2>2, <3>2
      <4>2. h[i - Len(s)].read = None
        BY <1>4, <4>1
      <4>3. h[k].read = None
        BY <1>3, <4>1, <4>2
      <4>4. QED
        BY <1>4, <2>2, <4>3
    <3>3. QED
      BY <1>1, <3>1, <3>2
  <2>3. CASE j > Len(s)
    <3>1. j - Len(s) \in 0..Len(t) /\ j = (j - Len(s)) + Len(s)
      BY <1>1, <2>3
    <3>2. QED
      BY <2>2, <3>1
  <2>4. QED
    BY <1>1, <2>1, <2>3
<1>7. g[0] = f[0] /\ g[Len(s) + Len(t)] = h[Len(t)]
  BY <1>1, <1>4
<1>8. QED
  BY <1>1, <1>4, <1>5, <1>6, <1>7 DEF Chain, g

\* What the host or the 16u2 adds to what is left, everywhere along the chain.
Left(p, d, t, a) ==
  [st |-> p.st, n |-> p.n, c |-> p.c, credits |-> d, todo |-> t, read |-> a]

\* A credit is added at the end.
LEMMA ChainCredit ==
  ASSUME NEW s \in Seq(Byte), NEW f, Chain(s, f)
  PROVE  LET g == [i \in 0..Len(s) |-> Left(f[i], f[i].credits + 1, f[i].todo, f[i].read)]
         IN  Chain(s, g)
<1> DEFINE g == [i \in 0..Len(s) |-> Left(f[i], f[i].credits + 1, f[i].todo, f[i].read)]
<1>1. /\ f \in [0..Len(s) -> Point] /\ Len(s) \in Nat
      /\ \A i \in 1..Len(s) : Goes(f[i - 1], s[i], f[i])
      /\ \A i, j \in 0..Len(s) : i <= j /\ f[i].read = None => f[j].read = None
  BY DEF Chain
<1>2. ASSUME NEW p \in Point
      PROVE  Left(p, p.credits + 1, p.todo, p.read) \in Point
  BY DEF Point, Left
<1>3. g \in [0..Len(s) -> Point] /\ \A i \in 0..Len(s) : g[i] = Left(f[i], f[i].credits + 1, f[i].todo, f[i].read)
  BY <1>1, <1>2
<1>4. ASSUME NEW p \in Point, NEW q \in Point, NEW b \in Byte, Goes(p, b, q)
      PROVE  Goes(Left(p, p.credits + 1, p.todo, p.read), b, Left(q, q.credits + 1, q.todo, q.read))
  BY <1>4 DEF Point, Left, Goes, SameLeft, GoesDone, GoesStart, GoesLength, GoesAsk, GoesCommand,
       GoesOffset, GoesPayload, GoesLast, UpStart, UpLength, UpId, UpReport, UpReply
<1> HIDE DEF g
<1>5. \A i \in 1..Len(s) : Goes(g[i - 1], s[i], g[i])
  <2> SUFFICES ASSUME NEW i \in 1..Len(s) PROVE Goes(g[i - 1], s[i], g[i])
    OBVIOUS
  <2>1. i - 1 \in 0..Len(s) /\ i \in 0..Len(s) /\ s[i] \in Byte /\ f[i - 1] \in Point /\ f[i] \in Point
    BY <1>1
  <2>2. QED
    BY <1>1, <1>3, <1>4, <2>1
<1>6. \A i \in 0..Len(s) : g[i].read = f[i].read
  BY <1>3 DEF Left
<1>7. Chain(s, g)
  BY <1>1, <1>3, <1>5, <1>6 DEF Chain
<1>8. QED
  BY <1>7 DEF g

\* The host sends a write.
LEMMA ChainWrite ==
  ASSUME NEW s \in Seq(Byte), NEW f, Chain(s, f), NEW c \in Byte
  PROVE  LET g == [i \in 0..Len(s) |-> Left(f[i], f[i].credits, Append(f[i].todo, c), f[i].read)]
         IN  Chain(s, g)
<1> DEFINE g == [i \in 0..Len(s) |-> Left(f[i], f[i].credits, Append(f[i].todo, c), f[i].read)]
<1>1. /\ f \in [0..Len(s) -> Point] /\ Len(s) \in Nat
      /\ \A i \in 1..Len(s) : Goes(f[i - 1], s[i], f[i])
      /\ \A i, j \in 0..Len(s) : i <= j /\ f[i].read = None => f[j].read = None
  BY DEF Chain
<1>2. ASSUME NEW p \in Point
      PROVE  Left(p, p.credits, Append(p.todo, c), p.read) \in Point
  BY DEF Point, Left
<1>3. g \in [0..Len(s) -> Point]
      /\ \A i \in 0..Len(s) : g[i] = Left(f[i], f[i].credits, Append(f[i].todo, c), f[i].read)
  BY <1>1, <1>2
<1>4. ASSUME NEW p \in Point, NEW q \in Point, NEW b \in Byte, Goes(p, b, q)
      PROVE  Goes(Left(p, p.credits, Append(p.todo, c), p.read), b,
                  Left(q, q.credits, Append(q.todo, c), q.read))
  <2>1. CASE GoesLast(p, b, q)
    <3>1. p.todo \in Seq(Byte)
      BY DEF Point
    <3>2. ASSUME NEW t \in Seq(Byte), t # << >>
          PROVE  Append(t, c) # << >> /\ Head(Append(t, c)) = Head(t) /\ Tail(Append(t, c)) = Append(Tail(t), c)
      BY <3>2
    <3>3. GoesLast(Left(p, p.credits, Append(p.todo, c), p.read), b,
                   Left(q, q.credits, Append(q.todo, c), q.read))
      BY <2>1, <3>1, <3>2 DEF GoesLast, Left
    <3>4. QED
      BY <3>3 DEF Goes
  <2>2. CASE ~GoesLast(p, b, q)
    <3>1. q.todo = p.todo
      BY <1>4, <2>2 DEF Goes, SameLeft, GoesDone, GoesStart, GoesLength, GoesAsk, GoesCommand,
         GoesOffset, GoesPayload, UpStart, UpLength, UpId, UpReport, UpReply
    <3>2. ASSUME NEW t
          PROVE  Goes(Left(p, p.credits, t, p.read), b, Left(q, q.credits, t, q.read))
      BY <1>4, <2>2 DEF Point, Left, Goes, SameLeft, GoesDone, GoesStart, GoesLength, GoesAsk,
         GoesCommand, GoesOffset, GoesPayload, UpStart, UpLength, UpId, UpReport, UpReply
    <3>3. QED
      BY <3>1, <3>2
  <2>3. QED
    BY <2>1, <2>2
<1> HIDE DEF g
<1>5. \A i \in 1..Len(s) : Goes(g[i - 1], s[i], g[i])
  <2> SUFFICES ASSUME NEW i \in 1..Len(s) PROVE Goes(g[i - 1], s[i], g[i])
    OBVIOUS
  <2>1. i - 1 \in 0..Len(s) /\ i \in 0..Len(s) /\ s[i] \in Byte /\ f[i - 1] \in Point /\ f[i] \in Point
    BY <1>1
  <2>2. QED
    BY <1>1, <1>3, <1>4, <2>1
<1>6. \A i \in 0..Len(s) : g[i].read = f[i].read
  BY <1>3 DEF Left
<1>7. Chain(s, g)
  BY <1>1, <1>3, <1>5, <1>6 DEF Chain
<1>8. QED
  BY <1>7 DEF g

\* The host asks for a read, when none is under way.
LEMMA ChainAsk ==
  ASSUME NEW s \in Seq(Byte), NEW f, Chain(s, f), NEW c \in Byte, f[0].read = None
  PROVE  LET g == [i \in 0..Len(s) |-> Left(f[i], f[i].credits, f[i].todo, c)]
         IN  Chain(s, g)
<1> DEFINE g == [i \in 0..Len(s) |-> Left(f[i], f[i].credits, f[i].todo, c)]
<1>1. /\ f \in [0..Len(s) -> Point] /\ Len(s) \in Nat
      /\ \A i \in 1..Len(s) : Goes(f[i - 1], s[i], f[i])
      /\ \A i, j \in 0..Len(s) : i <= j /\ f[i].read = None => f[j].read = None
  BY DEF Chain
<1>2. ASSUME NEW p \in Point
      PROVE  Left(p, p.credits, p.todo, c) \in Point
  BY DEF Point, Left
<1>3. g \in [0..Len(s) -> Point]
      /\ \A i \in 0..Len(s) : g[i] = Left(f[i], f[i].credits, f[i].todo, c)
  BY <1>1, <1>2
<1>4. ASSUME NEW p \in Point, NEW q \in Point, NEW b \in Byte, Goes(p, b, q), p.read = None
      PROVE  Goes(Left(p, p.credits, p.todo, c), b, Left(q, q.credits, q.todo, c))
  <2>1. p.read # b
    BY <1>4 DEF None, Byte
  <2>2. QED
    BY <1>4, <2>1 DEF Point, Left, Goes, SameLeft, GoesDone, GoesStart, GoesLength, GoesAsk, GoesCommand,
       GoesOffset, GoesPayload, GoesLast, UpStart, UpLength, UpId, UpReport, UpReply
<1>5. \A i \in 0..Len(s) : f[i].read = None
  BY <1>1
<1> HIDE DEF g
<1>6. \A i \in 1..Len(s) : Goes(g[i - 1], s[i], g[i])
  <2> SUFFICES ASSUME NEW i \in 1..Len(s) PROVE Goes(g[i - 1], s[i], g[i])
    OBVIOUS
  <2>1. i - 1 \in 0..Len(s) /\ i \in 0..Len(s) /\ s[i] \in Byte /\ f[i - 1] \in Point /\ f[i] \in Point
    BY <1>1
  <2>2. QED
    BY <1>1, <1>3, <1>4, <1>5, <2>1
<1>7. \A i \in 0..Len(s) : g[i].read # None
  BY <1>3 DEF Left, None, Byte
<1>8. Chain(s, g)
  BY <1>1, <1>3, <1>6, <1>7 DEF Chain
<1>9. QED
  BY <1>8 DEF g

\* A point inside a frame.
Inside(e, c, st, n, t) ==
  [st |-> st, n |-> n, c |-> c, credits |-> e.credits, todo |-> t, read |-> e.read]

LEMMA InsidePoint ==
  ASSUME NEW e \in Point, NEW c \in Byte, NEW st \in 0..9, NEW n \in Int, NEW t \in Seq(Byte)
  PROVE  /\ Inside(e, c, st, n, t) \in Point
         /\ Inside(e, c, st, n, t).st = st /\ Inside(e, c, st, n, t).n = n
         /\ Inside(e, c, st, n, t).c = c /\ Inside(e, c, st, n, t).todo = t
         /\ Inside(e, c, st, n, t).credits = e.credits /\ Inside(e, c, st, n, t).read = e.read
<1>1. c \in Int
  BY DEF Byte
<1>2. QED
  BY <1>1 DEF Inside, Point

\* The frames of the two control requests.
LEMMA DoneChain ==
  ASSUME NEW e \in Point, e.st = 0, e.credits = 1
  PROVE  LET h == [i \in 0..1 |-> IF i = 0 THEN e ELSE Left(e, 0, e.todo, e.read)]
         IN  Chain(<<FRAME_DONE>>, h)
<1> DEFINE h == [i \in 0..1 |-> IF i = 0 THEN e ELSE Left(e, 0, e.todo, e.read)]
<1>1. Left(e, 0, e.todo, e.read) \in Point
  BY DEF Left, Point
<1>2. GoesDone(e, FRAME_DONE, Left(e, 0, e.todo, e.read))
  BY DEF GoesDone, Left
<1>3. Len(<<FRAME_DONE>>) = 1 /\ <<FRAME_DONE>>[1] = FRAME_DONE
  OBVIOUS
<1>4. h \in [0..1 -> Point] /\ h[0] = e /\ h[1] = Left(e, 0, e.todo, e.read)
  BY <1>1
<1> HIDE DEF h
<1>5. Goes(h[0], FRAME_DONE, h[1])
  BY <1>2, <1>4 DEF Goes
<1>6. \A i, j \in 0..1 : i <= j /\ h[i].read = None => h[j].read = None
  BY <1>4 DEF Left
<1>7. \A i \in 1..1 : Goes(h[i - 1], <<FRAME_DONE>>[i], h[i])
  BY <1>3, <1>5
<1>8. Chain(<<FRAME_DONE>>, h)
  BY <1>3, <1>4, <1>6, <1>7 DEF Chain
<1>9. QED
  BY <1>8 DEF h

ReadRun(e, c) ==
  [i \in 0..2 |-> IF i = 0 THEN e ELSE
                  IF i = 1 THEN Inside(e, c, 2, 0, e.todo) ELSE Left(e, e.credits, e.todo, None)]

LEMMA ReadChain ==
  ASSUME NEW e \in Point, NEW c \in Byte, e.st = 0, e.read = c
  PROVE  /\ Chain(FeatureReadFrame(c), ReadRun(e, c)) /\ ReadRun(e, c)[0] = e
         /\ ReadRun(e, c)[Len(FeatureReadFrame(c))] = Left(e, e.credits, e.todo, None)
<1> DEFINE q == Inside(e, c, 2, 0, e.todo)
           r == Left(e, e.credits, e.todo, None)
           s == FeatureReadFrame(c)
           h == ReadRun(e, c)
<1>0. e.todo \in Seq(Byte)
  BY DEF Point
<1>1. q \in Point /\ r \in Point
  <2>1. q \in Point
    BY <1>0, InsidePoint
  <2>2. r \in Point
    BY DEF Left, Point
  <2>3. QED
    BY <2>1, <2>2
<1>2. GoesStart(e, FRAME_START_FEATURE_READ, q) /\ GoesAsk(q, c, r)
  BY DEF GoesStart, GoesAsk, SameLeft, Left, Inside
<1>3. Len(s) = 2 /\ s[1] = FRAME_START_FEATURE_READ /\ s[2] = c
  BY DEF FeatureReadFrame
<1>4. q.read # None /\ e.read # None /\ r.read = None
  BY DEF Left, None, Byte, Inside
<1>5. h \in [0..2 -> Point] /\ h[0] = e /\ h[1] = q /\ h[2] = r
  BY <1>1 DEF ReadRun
<1> HIDE DEF q, r, s
<1> HIDE DEF h
<1>6. Goes(h[0], s[1], h[1]) /\ Goes(h[1], s[2], h[2])
  BY <1>2, <1>3, <1>5 DEF Goes
<1>7. \A i \in 1..2 : Goes(h[i - 1], s[i], h[i])
  <2>1. \A i \in 1..2 : i = 1 \/ i = 2
    OBVIOUS
  <2>2. 1 - 1 = 0 /\ 2 - 1 = 1
    OBVIOUS
  <2>3. QED
    BY <1>6, <2>1, <2>2
<1>8. \A i, j \in 0..2 : i <= j /\ h[i].read = None => h[j].read = None
  BY <1>4, <1>5
<1>9. Chain(s, h)
  BY <1>3, <1>5, <1>7, <1>8 DEF Chain
<1>10. h[Len(s)] = r
  BY <1>3, <1>5
<1>11. QED
  BY <1>5, <1>9, <1>10 DEF h, r, s

\* A write is long enough for its command.
LongEnough(c, d) == Len(d) >= 1 /\ (c \in Blocks => Len(d) >= 2)

LEMMA WriteFrameShape ==
  ASSUME NEW c \in Byte, NEW d \in Payload
  PROVE  /\ Len(d) \in 0..255 /\ FeatureWriteFrame(c, d) \in Seq(Byte)
         /\ Len(FeatureWriteFrame(c, d)) = Len(d) + 3
         /\ FeatureWriteFrame(c, d)[1] = FRAME_START_FEATURE_WRITE
         /\ FeatureWriteFrame(c, d)[2] = Len(d) /\ FeatureWriteFrame(c, d)[3] = c
         /\ \A i \in 4..(Len(d) + 3) : FeatureWriteFrame(c, d)[i] = d[i - 3]
<1>1. d \in Seq(Byte) /\ Len(d) \in 0..255
  BY DEF Payload, Byte
<1>2. FeatureWriteFrame(c, d) \in Seq(Byte)
  BY FeatureFrameBytes
<1> DEFINE h == <<FRAME_START_FEATURE_WRITE, Len(d), c>>
<1>3. FRAME_START_FEATURE_WRITE \in Byte /\ Len(d) \in Byte
  BY DEF Byte, FRAME_START_FEATURE_WRITE, Payload
<1>4. h \in Seq(Byte) /\ Len(h) = 3 /\ h[1] = FRAME_START_FEATURE_WRITE /\ h[2] = Len(d) /\ h[3] = c
  BY <1>3
<1>5. FeatureWriteFrame(c, d) = h \o d
  BY DEF FeatureWriteFrame
<1> HIDE DEF h
<1>6. /\ Len(h \o d) = Len(d) + 3
      /\ \A i \in 1..(Len(d) + 3) : (h \o d)[i] = IF i <= 3 THEN h[i] ELSE d[i - 3]
  <2>1. ASSUME NEW u \in Seq(Byte), NEW v \in Seq(Byte), Len(u) = 3
        PROVE  /\ Len(u \o v) = Len(v) + 3
               /\ \A i \in 1..(Len(v) + 3) : (u \o v)[i] = IF i <= 3 THEN u[i] ELSE v[i - 3]
    <3>1. Len(v) \in Nat /\ Len(u) \in Nat /\ Len(u \o v) = Len(u) + Len(v)
      OBVIOUS
    <3>2. \A i \in 1..(Len(u) + Len(v)) : (u \o v)[i] = IF i <= Len(u) THEN u[i] ELSE v[i - Len(u)]
      OBVIOUS
    <3>3. QED
      BY <2>1, <3>1, <3>2
  <2>2. QED
    BY <1>1, <1>4, <2>1
<1>7. \A i \in 4..(Len(d) + 3) : (h \o d)[i] = d[i - 3]
  BY <1>1, <1>6
<1>8. (h \o d)[1] = h[1] /\ (h \o d)[2] = h[2] /\ (h \o d)[3] = h[3]
  BY <1>1, <1>6
<1>9. QED
  BY <1>1, <1>2, <1>4, <1>5, <1>6, <1>7, <1>8

WriteRun(e, c, d) ==
  [i \in 0..(Len(d) + 3) |->
     IF i = 0 THEN e ELSE
     IF i = Len(d) + 3 THEN Inside(e, c, 0, 0, << >>) ELSE
     IF i = 1 THEN Inside(e, c, 1, 0, <<c>>) ELSE
     IF i = 2 THEN Inside(e, c, 3, Len(d), <<c>>) ELSE
     IF i = 3 /\ c \in Blocks THEN Inside(e, c, 4, Len(d) - 1, <<c>>)
     ELSE Inside(e, c, 5, Len(d) - i + 3, <<c>>)]

LEMMA WriteChain ==
  ASSUME NEW e \in Point, NEW c \in Byte, NEW d \in Payload, LongEnough(c, d),
         e.st = 0, e.todo = <<c>>
  PROVE  /\ Chain(FeatureWriteFrame(c, d), WriteRun(e, c, d)) /\ WriteRun(e, c, d)[0] = e
         /\ WriteRun(e, c, d)[Len(FeatureWriteFrame(c, d))] = Inside(e, c, 0, 0, << >>)
<1> DEFINE s == FeatureWriteFrame(c, d)
           N == Len(d)
           T == <<c>>
           E == << >>
           h == WriteRun(e, c, d)
<1>1. /\ N \in 1..255 /\ (c \in Blocks => N >= 2)
      /\ Len(s) = N + 3 /\ s \in Seq(Byte)
      /\ s[1] = FRAME_START_FEATURE_WRITE /\ s[2] = N /\ s[3] = c
  BY WriteFrameShape DEF LongEnough
<1>N. N \in 1..255 /\ (c \in Blocks => N >= 2)
  BY <1>1
<1>2. T \in Seq(Byte) /\ E \in Seq(Byte) /\ T # << >> /\ Head(T) = c /\ Tail(T) = E /\ e.todo = T
  OBVIOUS
<1>3. h = [i \in 0..(N + 3) |->
               IF i = 0 THEN e ELSE
               IF i = N + 3 THEN Inside(e, c, 0, 0, E) ELSE
               IF i = 1 THEN Inside(e, c, 1, 0, T) ELSE
               IF i = 2 THEN Inside(e, c, 3, N, T) ELSE
               IF i = 3 /\ c \in Blocks THEN Inside(e, c, 4, N - 1, T)
               ELSE Inside(e, c, 5, N - i + 3, T)]
  BY DEF WriteRun
<1> HIDE DEF N, s, T, E, h
<1>h. /\ h[0] = e /\ h[1] = Inside(e, c, 1, 0, T) /\ h[2] = Inside(e, c, 3, N, T)
      /\ h[N + 3] = Inside(e, c, 0, 0, E)
      /\ c \in Blocks => h[3] = Inside(e, c, 4, N - 1, T)
      /\ \A i \in 3..(N + 2) : i > 3 \/ c \notin Blocks => h[i] = Inside(e, c, 5, N - i + 3, T)
  BY <1>1, <1>3
<1>4. \A i \in 0..(N + 3) : h[i] \in Point /\ h[i].read = e.read
  <2> SUFFICES ASSUME NEW i \in 0..(N + 3) PROVE h[i] \in Point /\ h[i].read = e.read
    OBVIOUS
  <2>1. CASE i = 0
    BY <1>h, <2>1
  <2>2. CASE i = 1
    BY <1>2, <1>h, <2>2, InsidePoint
  <2>3. CASE i = 2
    BY <1>1, <1>2, <1>h, <2>3, InsidePoint
  <2>4. CASE i = N + 3
    BY <1>2, <1>h, <2>4, InsidePoint
  <2>5. CASE i = 3 /\ c \in Blocks
    BY <1>1, <1>2, <1>h, <2>5, InsidePoint
  <2>6. CASE i \in 3..(N + 2) /\ (i > 3 \/ c \notin Blocks)
    BY <1>1, <1>2, <1>h, <2>6, InsidePoint
  <2>7. QED
    BY <1>1, <2>1, <2>2, <2>3, <2>4, <2>5, <2>6
<1>5. h \in [0..(N + 3) -> Point]
  BY <1>3, <1>4
<1>6. Goes(h[0], s[1], h[1])
  <2>1. GoesStart(e, s[1], Inside(e, c, 1, 0, T))
    BY <1>1, <1>2 DEF Inside, GoesStart, SameLeft
  <2>2. QED
    BY <1>h, <2>1 DEF Goes
<1>7. Goes(h[1], s[2], h[2])
  <2>1. GoesLength(Inside(e, c, 1, 0, T), N, Inside(e, c, 3, N, T))
    BY <1>1, <1>2 DEF Inside, GoesLength, SameLeft
  <2>2. QED
    BY <1>1, <1>h, <2>1 DEF Goes
<1>8. Goes(h[2], s[3], h[3])
  <2>1. CASE c \in Blocks
    <3>1. GoesCommand(Inside(e, c, 3, N, T), c, Inside(e, c, 4, N - 1, T))
      <4>1. N - 1 >= 1 /\ N <= 255
        BY <1>N, <2>1
      <4>2. QED
        BY <2>1, <4>1, Zenon DEF Inside, GoesCommand, SameLeft
    <3>2. QED
      BY <1>1, <1>h, <2>1, <3>1 DEF Goes
  <2>2. CASE c \notin Blocks
    <3>1. GoesCommand(Inside(e, c, 3, N, T), c, Inside(e, c, 5, N, T))
      <4>1. N >= 1 /\ N <= 255
        BY <1>N
      <4>2. QED
        BY <2>2, <4>1, Zenon DEF Inside, GoesCommand, SameLeft
    <3>2. h[3] = Inside(e, c, 5, N, T)
      <4>1. 3 \in 3..(N + 2) /\ N - 3 + 3 = N
        BY <1>N
      <4>2. QED
        BY <1>h, <2>2, <4>1
    <3>3. QED
      BY <1>1, <1>h, <3>1, <3>2 DEF Goes
  <2>3. QED
    BY <2>1, <2>2
<1>9. ASSUME NEW i \in 4..(N + 3) PROVE Goes(h[i - 1], s[i], h[i])
  <2>1. CASE i = 4 /\ c \in Blocks
    <3>1. GoesOffset(Inside(e, c, 4, N - 1, T), s[i], Inside(e, c, 5, N - 1, T))
      BY <1>1, <1>2 DEF Inside, GoesOffset, SameLeft
    <3>2. h[4] = Inside(e, c, 5, N - 1, T)
      <4>1. 4 \in 3..(N + 2) /\ N - 4 + 3 = N - 1
        BY <1>N, <2>1
      <4>2. QED
        BY <1>h, <4>1
    <3>3. i - 1 = 3 /\ h[3] = Inside(e, c, 4, N - 1, T)
      BY <1>h, <2>1
    <3>4. QED
      BY <2>1, <3>1, <3>2, <3>3 DEF Goes
  <2>2. CASE (i > 4 \/ c \notin Blocks) /\ i < N + 3
    <3> DEFINE k == N - i + 3
    <3>1. k \in 1..254 /\ i - 1 \in 3..(N + 2) /\ i \in 3..(N + 2) /\ N - (i - 1) + 3 = k + 1
      BY <1>N, <2>2
    <3>2. h[i - 1] = Inside(e, c, 5, N - (i - 1) + 3, T) /\ h[i] = Inside(e, c, 5, k, T)
      BY <1>h, <2>2, <3>1
    <3> HIDE DEF k
    <3>3. GoesPayload(Inside(e, c, 5, k + 1, T), s[i], Inside(e, c, 5, k, T))
      <4>1. k + 1 > 1 /\ k + 1 <= 255 /\ k = (k + 1) - 1
        BY <3>1
      <4>2. QED
        BY <4>1, Zenon DEF Inside, GoesPayload, SameLeft
    <3>4. QED
      BY <3>1, <3>2, <3>3 DEF Goes
  <2>3. CASE (i > 4 \/ c \notin Blocks) /\ i = N + 3
    <3>1. i - 1 \in 3..(N + 2) /\ N - (i - 1) + 3 = 1
      <4>1. i = N + 3
        BY <2>3
      <4>2. N \in Int /\ N >= 1
        BY <1>N
      <4>3. QED
        BY <4>1, <4>2
    <3>2. h[i - 1] = Inside(e, c, 5, N - (i - 1) + 3, T) /\ h[i] = Inside(e, c, 0, 0, E)
      BY <1>h, <2>3, <3>1
    <3>3. GoesLast(Inside(e, c, 5, 1, T), s[i], Inside(e, c, 0, 0, E))
      BY <1>2 DEF Inside, GoesLast
    <3>4. QED
      BY <3>1, <3>2, <3>3 DEF Goes
  <2>4. QED
    BY <1>N, <2>1, <2>2, <2>3
<1>10. \A i \in 1..(N + 3) : Goes(h[i - 1], s[i], h[i])
  <2>1. \A i \in 1..(N + 3) : i = 1 \/ i = 2 \/ i = 3 \/ i \in 4..(N + 3)
    BY <1>N
  <2>2. 1 - 1 = 0 /\ 2 - 1 = 1 /\ 3 - 1 = 2
    OBVIOUS
  <2>3. QED
    BY <1>6, <1>7, <1>8, <1>9, <2>1, <2>2
<1>11. Chain(s, h)
  BY <1>1, <1>4, <1>5, <1>10 DEF Chain
<1>12. QED
  BY <1>1, <1>h, <1>11 DEF h, s, E

\* The frames of a report and of a reply: both have a body of two bytes.
LEMMA UpFrameShape ==
  ASSUME NEW id \in Byte, NEW x \in Byte
  PROVE  /\ WriteFrame(<<id, x>>) \in Seq(Byte) /\ Len(WriteFrame(<<id, x>>)) = 4
         /\ WriteFrame(<<id, x>>)[1] = FRAME_START_WRITE /\ WriteFrame(<<id, x>>)[2] = 2
         /\ WriteFrame(<<id, x>>)[3] = id /\ WriteFrame(<<id, x>>)[4] = x
<1> DEFINE u == <<FRAME_START_WRITE, 2>>
           v == <<id, x>>
<1>1. FRAME_START_WRITE \in Byte /\ 2 \in Byte
  BY DEF Byte, FRAME_START_WRITE
<1>2. /\ u \in Seq(Byte) /\ Len(u) = 2 /\ u[1] = FRAME_START_WRITE /\ u[2] = 2
      /\ v \in Seq(Byte) /\ Len(v) = 2 /\ v[1] = id /\ v[2] = x
  BY <1>1
<1>3. WriteFrame(v) = u \o v
  BY <1>2 DEF WriteFrame
<1> HIDE DEF u, v
<1>4. /\ u \o v \in Seq(Byte) /\ Len(u \o v) = 4
      /\ \A i \in 1..4 : (u \o v)[i] = IF i <= 2 THEN u[i] ELSE v[i - 2]
  <2>1. u \o v \in Seq(Byte) /\ Len(u \o v) = Len(u) + Len(v)
    BY <1>2, ConcatProperties
  <2>2. \A i \in 1..(Len(u) + Len(v)) : (u \o v)[i] = IF i <= Len(u) THEN u[i] ELSE v[i - Len(u)]
    BY <1>2, ConcatProperties
  <2>3. QED
    BY <1>2, <2>1, <2>2
<1>5. (u \o v)[1] = u[1] /\ (u \o v)[2] = u[2] /\ (u \o v)[3] = v[1] /\ (u \o v)[4] = v[2]
  BY <1>4
<1>6. QED
  BY <1>2, <1>3, <1>4, <1>5 DEF v

UpRun(e, id, q) ==
  [i \in 0..4 |-> IF i = 0 THEN e ELSE IF i = 4 THEN q ELSE Inside(e, id, 6 + i, 0, e.todo)]

LEMMA UpChain ==
  ASSUME NEW e \in Point, NEW q \in Point, NEW id \in {DeviceRid, REPORT_ID_CONTROL}, NEW x \in Byte,
         e.st = 6, Goes(Inside(e, id, 9, 0, e.todo), x, q)
  PROVE  /\ Chain(WriteFrame(<<id, x>>), UpRun(e, id, q))
         /\ UpRun(e, id, q)[0] = e /\ UpRun(e, id, q)[4] = q
<1> DEFINE s == WriteFrame(<<id, x>>)
           P7 == Inside(e, id, 7, 0, e.todo)
           P8 == Inside(e, id, 8, 0, e.todo)
           P9 == Inside(e, id, 9, 0, e.todo)
           h == UpRun(e, id, q)
<1>1. id \in Byte
  BY RidByte DEF ReportId, REPORT_ID_CONTROL, Byte
<1>2. s \in Seq(Byte) /\ Len(s) = 4 /\ s[1] = FRAME_START_WRITE /\ s[2] = 2 /\ s[3] = id /\ s[4] = x
  BY <1>1, UpFrameShape
<1>3. e.todo \in Seq(Byte)
  BY DEF Point
<1>4. P7 \in Point /\ P8 \in Point /\ P9 \in Point
  BY <1>1, <1>3, InsidePoint
<1>5. P7.read = e.read /\ P8.read = e.read /\ P9.read = e.read
  BY DEF Inside
<1>6. UpStart(e, FRAME_START_WRITE, P7) /\ UpLength(P7, 2, P8) /\ UpId(P8, id, P9)
  BY DEF Inside, UpStart, UpLength, UpId, SameLeft
<1>7. e.read = None => q.read = None
  <2>1. P9.st = 9 /\ P9.read = e.read
    BY DEF Inside
  <2> HIDE DEF P9
  <2>2. Goes(P9, x, q)
    BY DEF P9
  <2>3. UpReport(P9, x, q) \/ UpReply(P9, x, q)
    BY <2>1, <2>2 DEF Goes, GoesDone, GoesStart, GoesLength, GoesAsk, GoesCommand, GoesOffset,
       GoesPayload, GoesLast, UpStart, UpLength, UpId
  <2>4. QED
    BY <2>1, <2>3 DEF UpReport, UpReply
<1>8. h \in [0..4 -> Point] /\ h[0] = e /\ h[1] = P7 /\ h[2] = P8 /\ h[3] = P9 /\ h[4] = q
  <2>1. /\ h[0] = e /\ h[1] = P7 /\ h[2] = P8 /\ h[3] = P9 /\ h[4] = q
        /\ h = [i \in 0..4 |-> h[i]]
    BY DEF UpRun
  <2>2. \A i \in 0..4 : i = 0 \/ i = 1 \/ i = 2 \/ i = 3 \/ i = 4
    OBVIOUS
  <2> HIDE DEF h, P7, P8, P9
  <2>3. \A i \in 0..4 : h[i] \in Point
    BY <1>4, <2>1, <2>2
  <2>4. QED
    BY <2>1, <2>3
<1> HIDE DEF s, P7, P8, P9, h
<1>9. Goes(h[0], s[1], h[1]) /\ Goes(h[1], s[2], h[2]) /\ Goes(h[2], s[3], h[3]) /\ Goes(h[3], s[4], h[4])
  BY <1>2, <1>6, <1>8 DEF Goes, P9
<1>10. \A i \in 1..4 : Goes(h[i - 1], s[i], h[i])
  <2>1. \A i \in 1..4 : i = 1 \/ i = 2 \/ i = 3 \/ i = 4
    OBVIOUS
  <2>2. 1 - 1 = 0 /\ 2 - 1 = 1 /\ 3 - 1 = 2 /\ 4 - 1 = 3
    OBVIOUS
  <2>3. QED
    BY <1>9, <2>1, <2>2
<1>11. \A i, j \in 0..4 : i <= j /\ h[i].read = None => h[j].read = None
  BY <1>5, <1>7, <1>8
<1>12. Chain(s, h)
  BY <1>2, <1>8, <1>10, <1>11 DEF Chain
<1>13. QED
  BY <1>8, <1>12 DEF h, s

------------------------------------------------------------------------------
(***************************************************************************)
(* The inductive invariant of the wires.                                   *)
(***************************************************************************)
\* What the protocol relies on: every write has the data its command counts
\* on, and every report has a body.
WellFormed ==
  /\ DeviceRid # REPORT_ID_MIDI
  /\ \A w \in Writes : LongEnough(w.cmd, w.data)

\* Of a frame that is being forwarded, rest is not in the ring yet; sent says that
\* the request in setup has been turned into a frame.  When the 16u2 hangs, the
\* rest stays where it is for ever.
Where(rest, sent) ==
  /\ uPc # "hung" => rest = forward /\ (sent <=> uPc = "control")
  /\ ~sent => rest = << >>
  /\ sent => setup.kind # "none"

DownHere(p) ==
  /\ p.st = mState
  /\ mState \in {3, 4, 5} => p.n = packetCount
  /\ mState \in {4, 5} => p.c = cmd
  /\ p.credits = inDones /\ p.todo = todo
DownEnd(p, sent) ==
  /\ p.st = 0 /\ p.credits = 0
  /\ p.todo = IF setup.kind = "set" /\ ~sent THEN <<setup.cmd>> ELSE << >>
  /\ p.read = IF setup.kind = "get" /\ ~sent THEN setup.cmd ELSE None
Down(a) ==
  \E rest \in Seq(Byte), sent \in BOOLEAN : \E f :
    /\ Chain(in \o (tx \o rest), f) /\ Where(rest, sent)
    /\ DownHere(f[0]) /\ f[0].read = a
    /\ DownEnd(f[Len(in \o (tx \o rest))], sent)

UpHere(p) ==
  /\ p.st = uState + 6
  /\ uState = 2 => uCount = 2
  /\ uState = 3 => uCount = 1 /\ p.c \in {DeviceRid, REPORT_ID_CONTROL} /\ currentEndpoint = endpoints[p.c]
  /\ p.credits = inReports
Up(b) ==
  \E g :
    /\ Chain(rx \o out, g)
    /\ UpHere(g[0]) /\ g[0].read = b
    /\ g[Len(rx \o out)].st = 6 /\ g[Len(rx \o out)].credits = 0 /\ g[Len(rx \o out)].read = None
    /\ uState + Len(rx) + Len(out) = 4 * (inReports + (IF b = None THEN 0 ELSE 1))

\* The one read: on its way to the 328p (a), on its way back (b), or in the bank.
Token(a, b) ==
  /\ a # None => a = awaiting /\ b = None /\ ~busy[0]
  /\ b # None => b = awaiting /\ ~busy[0]
  /\ busy[0] => awaiting # None /\ fifo[0] = <<awaiting>>
  /\ ~busy[0] => fifo[0] = << >>

SetupLong == setup.kind = "set" => LongEnough(setup.cmd, setup.data)
Wires == \E a, b : Down(a) /\ Up(b) /\ Token(a, b)
BridgeInv == TypeOK /\ SetupLong /\ ReplyMatches /\ Wires

------------------------------------------------------------------------------
\* The stream towards the 328p, step by step.
LEMMA Associative ==
  ASSUME NEW s \in Seq(Byte), NEW t \in Seq(Byte), NEW u \in Seq(Byte)
  PROVE  (s \o t) \o u = s \o (t \o u)
OBVIOUS

LEMMA Streams ==
  ASSUME NEW s \in Seq(Byte), NEW t \in Seq(Byte), NEW u \in Seq(Byte)
  PROVE  /\ s \o (t \o u) \in Seq(Byte) /\ s \o t \in Seq(Byte)
         /\ s # << >> => /\ s \o t # << >> /\ Head(s \o t) = Head(s) /\ Tail(s \o t) = Tail(s) \o t
         /\ t # << >> => Append(s, Head(t)) \o Tail(t) = s \o t
         /\ t # << >> => Append(s, Head(t)) \o (Tail(t) \o u) = s \o (t \o u)
         /\ s \o (t \o u) = (s \o t) \o u
         /\ s \o << >> = s
<1>1. /\ s \o t \in Seq(Byte) /\ t \o u \in Seq(Byte) /\ s \o (t \o u) \in Seq(Byte)
      /\ s \o (t \o u) = (s \o t) \o u /\ s \o << >> = s
  BY ConcatProperties, ConcatAssociative, ConcatEmptySeq
<1>2. ASSUME NEW v \in Seq(Byte), NEW w \in Seq(Byte), v # << >>
      PROVE  v \o w # << >> /\ Head(v \o w) = Head(v) /\ Tail(v \o w) = Tail(v) \o w
  BY <1>2
<1>3. ASSUME NEW v \in Seq(Byte), NEW w \in Seq(Byte), w # << >>
      PROVE  Append(v, Head(w)) \o Tail(w) = v \o w /\ Tail(w) \in Seq(Byte) /\ Append(v, Head(w)) \in Seq(Byte)
  BY <1>3
<1>4. t # << >> => Append(s, Head(t)) \o (Tail(t) \o u) = s \o (t \o u)
  <2> SUFFICES ASSUME t # << >> PROVE Append(s, Head(t)) \o (Tail(t) \o u) = s \o (t \o u)
    OBVIOUS
  <2>1. (Append(s, Head(t)) \o Tail(t)) \o u = Append(s, Head(t)) \o (Tail(t) \o u)
    <3>1. Append(s, Head(t)) \in Seq(Byte) /\ Tail(t) \in Seq(Byte)
      BY <1>3
    <3>3. QED
      BY <3>1, Associative
  <2>2. Append(s, Head(t)) \o Tail(t) = s \o t
    BY <1>3
  <2>3. QED
    BY <1>1, <2>1, <2>2
<1>5. QED
  BY <1>1, <1>2, <1>3, <1>4

LEMMA Moved ==
  ASSUME NEW s \in Seq(Byte), NEW t \in Seq(Byte), NEW u \in Seq(Byte), t # << >>
  PROVE  Append(s, Head(t)) \o (Tail(t) \o u) = s \o (t \o u)
BY Streams

\* The variables the stream towards the 328p depends on.
downVars == <<in, tx, uPc, forward, setup, mState, packetCount, cmd, inDones, todo>>

LEMMA DownSame ==
  ASSUME NEW a, Down(a), UNCHANGED downVars PROVE Down(a)'
BY DEF Down, downVars, Where, DownHere, DownEnd

\* A byte moves from one ring to the other.
LEMMA DownMove ==
  ASSUME TypeOK, NEW a, Down(a), UartToMain PROVE Down(a)'
<1>1. PICK rest \in Seq(Byte), sent \in BOOLEAN : \E f :
        /\ Chain(in \o (tx \o rest), f) /\ Where(rest, sent)
        /\ DownHere(f[0]) /\ f[0].read = a
        /\ DownEnd(f[Len(in \o (tx \o rest))], sent)
  BY DEF Down
<1>2. in \in Seq(Byte) /\ tx \in Seq(Byte)
  BY DEF TypeOK, MainTypeOK, UsbTypeOK
<1>3. in' \o (tx' \o rest) = in \o (tx \o rest)
  <2>1. tx # << >> /\ tx' = Tail(tx) /\ in' = Append(in, Head(tx))
    BY DEF UartToMain
  <2>2. Append(in, Head(tx)) \o (Tail(tx) \o rest) = in \o (tx \o rest)
    BY <1>2, <2>1, Moved
  <2>3. QED
    BY <2>1, <2>2
<1>4. UNCHANGED <<uPc, forward, setup, mState, packetCount, cmd, inDones, todo>>
  BY DEF UartToMain, parseVars, ghostVars
<1>5. PICK f : /\ Chain(in \o (tx \o rest), f) /\ DownHere(f[0]) /\ f[0].read = a
               /\ DownEnd(f[Len(in \o (tx \o rest))], sent) /\ Where(rest, sent)
  BY <1>1
<1>6. PICK e : e = f[Len(in \o (tx \o rest))]
  OBVIOUS
<1>7. DownHere(f[0])' /\ DownEnd(e, sent)' /\ Where(rest, sent)'
  BY <1>4, <1>5, <1>6 DEF Where, DownHere, DownEnd
<1>8. Chain(in' \o (tx' \o rest), f) /\ e = f[Len(in' \o (tx' \o rest))]
  BY <1>3, <1>5, <1>6
<1>9. QED
  BY <1>5, <1>7, <1>8 DEF Down

\* The 328p reads a byte.
Markers == {FRAME_DONE, FRAME_START_FEATURE_READ, FRAME_START_FEATURE_WRITE}
LEMMA MainLink ==
  ASSUME MainTypeOK, NEW p \in Point, NEW q \in Point, DownHere(p), Goes(p, Head(in), q), MainStep
  PROVE  /\ DownHere(q)'
         /\ mState = 2 => p.read = Head(in) /\ q.read = None
         /\ mState # 2 => q.read = p.read
         /\ mState = 0 => Head(in) \in Markers /\ (Head(in) = FRAME_DONE => inDones > 0)
         /\ mState = 5 /\ mState' = 0 => todo # << >> /\ cmd = Head(todo)
<1>0. p.st = mState /\ p.credits = inDones /\ p.todo = todo /\ mState \in 0..5 /\ packetCount \in 0..255
  BY DEF DownHere, MainTypeOK, Byte
<1>1. CASE MainStart
  <2>1. mState = 0 /\ (GoesDone(p, Head(in), q) \/ GoesStart(p, Head(in), q))
    BY <1>0, <1>1 DEF MainStart, Goes, GoesLength, GoesAsk, GoesCommand, GoesOffset, GoesPayload,
       GoesLast, UpStart, UpLength, UpId, UpReport, UpReply
  <2>2. UNCHANGED todo
    BY <2>1 DEF MainStep
  <2>3. CASE GoesDone(p, Head(in), q)
    <3>1. mState' = 0 /\ inDones' = inDones - 1
      BY <1>1, <2>1, <2>3 DEF MainStart, MainStep, GoesDone, FRAME_DONE, FRAME_START_FEATURE_WRITE,
         FRAME_START_FEATURE_READ
    <3>2. q.credits = inDones' /\ inDones > 0
      <4>1. q.credits \in Nat
        BY DEF Point
      <4>2. inDones = q.credits + 1
        BY <1>0, <2>3 DEF GoesDone
      <4>3. QED
        BY <3>1, <4>1, <4>2
    <3>3. QED
      BY <1>0, <2>1, <2>2, <2>3, <3>1, <3>2 DEF GoesDone, DownHere, Markers
  <2>4. CASE GoesStart(p, Head(in), q)
    <3>1. mState' = q.st /\ q.st \in {1, 2} /\ inDones' = inDones /\ Head(in) # FRAME_DONE
      BY <1>1, <2>1, <2>4 DEF MainStart, MainStep, GoesStart, FRAME_DONE, FRAME_START_FEATURE_WRITE,
         FRAME_START_FEATURE_READ
    <3>2. QED
      BY <1>0, <2>1, <2>2, <2>4, <3>1 DEF GoesStart, SameLeft, DownHere, Markers
  <2>5. QED
    BY <2>1, <2>3, <2>4
<1>2. CASE MainLength
  <2>1. mState = 1 /\ mState' = 3 /\ packetCount' = Head(in) /\ UNCHANGED <<todo, inDones>>
    BY <1>2 DEF MainLength, MainStep
  <2>2. GoesLength(p, Head(in), q)
    BY <1>0, <2>1 DEF Goes, GoesDone, GoesStart, GoesAsk, GoesCommand, GoesOffset, GoesPayload,
       GoesLast, UpStart, UpLength, UpId, UpReport, UpReply
  <2>3. QED
    BY <1>0, <2>1, <2>2 DEF GoesLength, SameLeft, DownHere
<1>3. CASE MainRead
  <2>1. mState = 2 /\ mState' = 0 /\ UNCHANGED <<todo, inDones>>
    BY <1>3 DEF MainRead, MainStep
  <2>2. GoesAsk(p, Head(in), q)
    BY <1>0, <2>1 DEF Goes, GoesDone, GoesStart, GoesLength, GoesCommand, GoesOffset, GoesPayload,
       GoesLast, UpStart, UpLength, UpId, UpReport, UpReply
  <2>3. QED
    BY <1>0, <2>1, <2>2 DEF GoesAsk, DownHere
<1>4. CASE MainCommand
  <2>1. /\ mState = 3 /\ cmd' = Head(in) /\ UNCHANGED <<todo, inDones>>
        /\ Head(in) \in Blocks => mState' = 4 /\ packetCount' = Dec8(packetCount)
        /\ Head(in) \notin Blocks => mState' = 5 /\ packetCount' = packetCount
    BY <1>4 DEF MainCommand, MainStep, Blocks
  <2>2. GoesCommand(p, Head(in), q) /\ p.n = packetCount
    BY <1>0, <2>1 DEF Goes, GoesDone, GoesStart, GoesLength, GoesAsk, GoesOffset, GoesPayload,
       GoesLast, UpStart, UpLength, UpId, UpReport, UpReply, DownHere
  <2>3. Head(in) \in Blocks => Dec8(packetCount) = packetCount - 1
    BY <1>0, <2>2 DEF GoesCommand, Dec8
  <2>4. QED
    BY <1>0, <2>1, <2>2, <2>3 DEF GoesCommand, SameLeft, DownHere
<1>5. CASE MainOffset
  <2>1. mState = 4 /\ mState' = 5 /\ UNCHANGED <<todo, inDones, packetCount, cmd>>
    BY <1>5 DEF MainOffset, MainStep
  <2>2. GoesOffset(p, Head(in), q)
    BY <1>0, <2>1 DEF Goes, GoesDone, GoesStart, GoesLength, GoesAsk, GoesCommand, GoesPayload,
       GoesLast, UpStart, UpLength, UpId, UpReport, UpReply
  <2>3. QED
    BY <1>0, <2>1, <2>2 DEF GoesOffset, SameLeft, DownHere
<1>6. CASE MainPayload
  <2>1. /\ mState = 5 /\ packetCount' = Dec8(packetCount) /\ mState' = FrameEnd(packetCount')
        /\ UNCHANGED <<inDones, cmd>>
    BY <1>6 DEF MainPayload, MainStep
  <2>2. (GoesPayload(p, Head(in), q) \/ GoesLast(p, Head(in), q)) /\ p.n = packetCount /\ p.c = cmd
    BY <1>0, <2>1 DEF Goes, GoesDone, GoesStart, GoesLength, GoesAsk, GoesCommand, GoesOffset,
       UpStart, UpLength, UpId, UpReport, UpReply, DownHere
  <2>3. CASE GoesPayload(p, Head(in), q)
    <3>1. packetCount' = packetCount - 1 /\ mState' = 5
      BY <1>0, <2>1, <2>2, <2>3 DEF GoesPayload, Dec8, FrameEnd
    <3>2. UNCHANGED todo
      BY <3>1 DEF MainStep
    <3>3. QED
      BY <1>0, <2>1, <2>2, <2>3, <3>1, <3>2 DEF GoesPayload, SameLeft, DownHere
  <2>4. CASE GoesLast(p, Head(in), q)
    <3>1. mState' = 0
      BY <1>0, <2>1, <2>2, <2>4 DEF GoesLast, Dec8, FrameEnd
    <3>2. todo # << >> /\ cmd = Head(todo) /\ q.todo = Tail(todo)
      BY <1>0, <2>2, <2>4 DEF GoesLast
    <3>3. todo' = Tail(todo)
      BY <2>1, <3>1, <3>2 DEF MainStep
    <3>4. QED
      BY <1>0, <2>1, <2>2, <2>4, <3>1, <3>2, <3>3 DEF GoesLast, DownHere
  <2>5. QED
    BY <2>2, <2>3, <2>4
<1>7. QED
  BY <1>1, <1>2, <1>3, <1>4, <1>5, <1>6 DEF MainStep, MainByte

LEMMA DownTake ==
  ASSUME TypeOK, NEW a, Down(a), MainStep
  PROVE  /\ mState = 2 => a = Head(in) /\ Down(None)'
         /\ mState # 2 => Down(a)'
         /\ mState = 0 => Head(in) \in Markers /\ (Head(in) = FRAME_DONE => inDones > 0)
         /\ mState = 5 /\ mState' = 0 => todo # << >> /\ cmd = Head(todo)
<1>1. PICK rest \in Seq(Byte), sent \in BOOLEAN : \E f :
        /\ Chain(in \o (tx \o rest), f) /\ Where(rest, sent)
        /\ DownHere(f[0]) /\ f[0].read = a
        /\ DownEnd(f[Len(in \o (tx \o rest))], sent)
  BY DEF Down
<1> DEFINE s == in \o (tx \o rest)
<1>2. PICK f : /\ Chain(s, f) /\ DownHere(f[0]) /\ f[0].read = a /\ DownEnd(f[Len(s)], sent)
               /\ Where(rest, sent)
  BY <1>1
<1>3. MainTypeOK /\ in \in Seq(Byte) /\ tx \in Seq(Byte)
  BY DEF TypeOK, MainTypeOK, UsbTypeOK
<1>4. in # << >> /\ in' = Tail(in)
  BY DEF MainStep, MainByte, MainStart, MainLength, MainRead, MainCommand, MainOffset, MainPayload, Receive
<1>5. UNCHANGED <<tx, uPc, forward, setup>>
  BY DEF MainStep, usbVars
<1>6. s \in Seq(Byte) /\ s # << >> /\ Head(s) = Head(in) /\ Tail(s) = in' \o (tx' \o rest)
  <2>1. tx \o rest \in Seq(Byte)
    BY <1>3, Streams
  <2>2. QED
    BY <1>3, <1>4, <1>5, <2>1, Streams
<1> HIDE DEF s
<1>7. f[0] \in Point /\ f[1] \in Point /\ Goes(f[0], Head(in), f[1])
  BY <1>2, <1>6, ChainTake
<1>8. PICK g : Chain(Tail(s), g) /\ g[0] = f[1] /\ g[Len(Tail(s))] = f[Len(s)]
  BY <1>2, <1>6, ChainTake
<1>e. PICK e : e = f[Len(s)]
  OBVIOUS
<1>9. /\ DownHere(f[1])'
      /\ mState = 2 => f[0].read = Head(in) /\ f[1].read = None
      /\ mState # 2 => f[1].read = f[0].read
      /\ mState = 0 => Head(in) \in Markers /\ (Head(in) = FRAME_DONE => inDones > 0)
      /\ mState = 5 /\ mState' = 0 => todo # << >> /\ cmd = Head(todo)
  BY <1>2, <1>3, <1>7, MainLink
<1>10. DownHere(g[0])' /\ DownEnd(e, sent)' /\ Where(rest, sent)'
  BY <1>2, <1>5, <1>8, <1>9, <1>e DEF DownHere, DownEnd, Where
<1>11. Chain(in' \o (tx' \o rest), g) /\ e = g[Len(in' \o (tx' \o rest))]
  BY <1>6, <1>8, <1>e
<1>12. Down(f[1].read)'
  BY <1>8, <1>10, <1>11 DEF Down
<1>13. QED
  BY <1>2, <1>9, <1>12

\* The stream, seen from its ends.
DownView(a, rest, sent, f, e, s) ==
  /\ rest \in Seq(Byte) /\ sent \in BOOLEAN
  /\ s = in \o (tx \o rest) /\ s \in Seq(Byte) /\ Chain(s, f)
  /\ e = f[Len(s)] /\ e \in Point /\ f[0] \in Point
  /\ DownHere(f[0]) /\ f[0].read = a /\ DownEnd(e, sent) /\ Where(rest, sent)

LEMMA DownParts ==
  ASSUME TypeOK, NEW a, Down(a)
  PROVE  \E rest, sent, f, e, s : DownView(a, rest, sent, f, e, s)
<1>1. in \in Seq(Byte) /\ tx \in Seq(Byte)
  BY DEF TypeOK, MainTypeOK, UsbTypeOK
<1>2. PICK rest \in Seq(Byte), sent \in BOOLEAN : \E f :
        /\ Chain(in \o (tx \o rest), f) /\ Where(rest, sent)
        /\ DownHere(f[0]) /\ f[0].read = a
        /\ DownEnd(f[Len(in \o (tx \o rest))], sent)
  BY DEF Down
<1>3. in \o (tx \o rest) \in Seq(Byte)
  BY <1>1, Streams
<1>4. ASSUME NEW s \in Seq(Byte), NEW f, Chain(s, f) PROVE f[0] \in Point /\ f[Len(s)] \in Point
  BY <1>4 DEF Chain
<1>5. QED
  BY <1>2, <1>3, <1>4 DEF DownView

\* The 16u2 goes on, or hangs, without having written anything.
LEMMA DownPc ==
  ASSUME TypeOK, NEW a, Down(a), uPc \in {"loop", "check"}, uPc' \in {"loop", "hung"},
         UNCHANGED <<in, tx, forward, setup, mState, packetCount, cmd, inDones, todo>>
  PROVE  Down(a)'
BY DEF Down, Where, DownHere, DownEnd

\* A FRAME_DONE at the end of a stream is one credit more all along it.
WithDone(s) == s \o <<FRAME_DONE>>

LEMMA DoneAdded ==
  ASSUME NEW s \in Seq(Byte), NEW f, Chain(s, f), NEW e, e = f[Len(s)], e.st = 0, e.credits = 0,
         NEW u, u = WithDone(s)
  PROVE  \E j : /\ Chain(u, j) /\ j[0] = Left(f[0], f[0].credits + 1, f[0].todo, f[0].read)
                /\ j[Len(u)] = Left(e, 0, e.todo, e.read)
<1> DEFINE T == <<FRAME_DONE>>
           g == [i \in 0..Len(s) |-> Left(f[i], f[i].credits + 1, f[i].todo, f[i].read)]
           d == Left(e, e.credits + 1, e.todo, e.read)
           h == [i \in 0..1 |-> IF i = 0 THEN d ELSE Left(d, 0, d.todo, d.read)]
<1>1. Chain(s, g)
  BY ChainCredit
<1>2. Len(s) \in Nat /\ e \in Point
  BY DEF Chain
<1>3. g[0] = Left(f[0], f[0].credits + 1, f[0].todo, f[0].read) /\ g[Len(s)] = d
  BY <1>2
<1>4. d \in Point /\ d.st = 0 /\ d.credits = 1
  BY <1>2 DEF Left, Point
<1>5. Left(d, 0, d.todo, d.read) = Left(e, 0, e.todo, e.read)
  BY DEF Left
<1> HIDE DEF g, d
<1>6. Chain(T, h)
  BY <1>4, DoneChain
<1>7. h[0] = d /\ h[1] = Left(e, 0, e.todo, e.read)
  BY <1>5
<1>n. Len(T) = 1
  OBVIOUS
<1>8. T \in Seq(Byte)
  BY DEF FRAME_DONE, Byte
<1> HIDE DEF h, T
<1>9. g[Len(s)] = h[0]
  BY <1>3, <1>7
<1>10. /\ Chain(s \o T, Joined(s, g, T, h)) /\ Joined(s, g, T, h)[0] = g[0]
       /\ Joined(s, g, T, h)[Len(s) + Len(T)] = h[Len(T)]
  BY <1>1, <1>6, <1>8, <1>9, ChainJoin
<1>11. u = s \o T /\ Len(u) = Len(s) + Len(T)
  <2>1. u = s \o T
    BY DEF T, WithDone
  <2>2. QED
    BY <1>8, <2>1
<1>12. QED
  BY <1>3, <1>7, <1>n, <1>10, <1>11

\* FRAME_DONE is written to the ring.
LEMMA DownDone ==
  ASSUME TypeOK, NEW a, Down(a), uPc \in {"loop", "check"}, uPc' = "loop",
         tx' = Append(tx, FRAME_DONE), inDones' = inDones + 1,
         UNCHANGED <<in, forward, setup, mState, packetCount, cmd, todo>>
  PROVE  Down(a)'
<1>1. PICK rest, sent, f, e, s : DownView(a, rest, sent, f, e, s)
  BY DownParts
<1>2. /\ rest \in Seq(Byte) /\ sent \in BOOLEAN
      /\ s = in \o (tx \o rest) /\ s \in Seq(Byte) /\ Chain(s, f)
      /\ e = f[Len(s)] /\ e \in Point /\ f[0] \in Point
      /\ DownHere(f[0]) /\ f[0].read = a /\ DownEnd(e, sent) /\ Where(rest, sent)
  BY <1>1 DEF DownView
<1>3. rest = << >> /\ sent = FALSE /\ Where(rest, sent)'
  BY <1>2 DEF Where
<1>4. in' \o (tx' \o rest) = WithDone(s)
  <2> DEFINE T == <<FRAME_DONE>>
  <2>1. in \in Seq(Byte) /\ tx \in Seq(Byte) /\ FRAME_DONE \in Byte
    BY DEF TypeOK, MainTypeOK, UsbTypeOK, FRAME_DONE, Byte
  <2>2. T \in Seq(Byte) /\ tx' = tx \o T /\ tx' \in Seq(Byte)
    BY <2>1
  <2>3. tx \o rest = tx /\ tx' \o rest = tx'
    BY <1>3, <2>1, <2>2, Streams
  <2>4. in \o (tx \o T) = (in \o tx) \o T
    BY <2>1, <2>2, Associative
  <2>5. QED
    BY <1>2, <2>1, <2>2, <2>3, <2>4 DEF WithDone
<1>5. e.st = 0 /\ e.credits = 0
  BY <1>2 DEF DownEnd
<1>6. PICK u : u = WithDone(s)
  OBVIOUS
<1>j. PICK j : /\ Chain(u, j) /\ j[0] = Left(f[0], f[0].credits + 1, f[0].todo, f[0].read)
               /\ j[Len(u)] = Left(e, 0, e.todo, e.read)
  <2>1. s \in Seq(Byte) /\ Chain(s, f) /\ e = f[Len(s)]
    BY <1>2
  <2>2. QED
    BY <1>5, <1>6, <2>1, DoneAdded
<1>7. PICK k, l : k = j[0] /\ l = Left(e, 0, e.todo, e.read)
  OBVIOUS
<1>8. DownEnd(l, sent)'
  BY <1>2, <1>7 DEF DownEnd, Left
<1>9. DownHere(k)' /\ k.read = a
  BY <1>2, <1>j, <1>7 DEF DownHere, Left
<1>10. /\ Chain(in' \o (tx' \o rest), j) /\ j[0] = k
       /\ j[Len(in' \o (tx' \o rest))] = l
  BY <1>4, <1>6, <1>j, <1>7
<1>11. QED
  BY <1>2, <1>3, <1>8, <1>9, <1>10 DEF Down

\* A control request becomes a frame.
LEMMA DownRequest ==
  ASSUME TypeOK, SetupLong, NEW a, Down(a), deviceControlRequest,
         UNCHANGED <<in, mState, packetCount, cmd, inDones, todo>>
  PROVE  Down(a)'
<1>1. PICK rest, sent, f, e, s : DownView(a, rest, sent, f, e, s)
  BY DownParts
<1>2. /\ rest \in Seq(Byte) /\ sent \in BOOLEAN
      /\ s = in \o (tx \o rest) /\ s \in Seq(Byte) /\ Chain(s, f)
      /\ e = f[Len(s)] /\ e \in Point /\ f[0] \in Point
      /\ DownHere(f[0]) /\ f[0].read = a /\ DownEnd(e, sent) /\ Where(rest, sent)
  BY <1>1 DEF DownView
<1>3. /\ uPc = "loop" /\ setup.kind # "none" /\ uPc' = "control" /\ UNCHANGED <<tx, setup>>
      /\ forward' = IF setup.kind = "set" THEN FeatureWriteFrame(setup.cmd, setup.data)
                                          ELSE FeatureReadFrame(setup.cmd)
  BY DEF deviceControlRequest
<1>4. rest = << >> /\ sent = FALSE
  BY <1>2, <1>3 DEF Where
<1>5. setup.cmd \in Byte /\ setup.data \in Payload /\ setup.kind \in {"none", "get", "set"}
  BY DEF TypeOK, UsbTypeOK
<1>6. e.st = 0 /\ e.credits = 0
  BY <1>2 DEF DownEnd
<1>7. PICK t : t = forward'
  OBVIOUS
<1>8. t \in Seq(Byte) /\ \E h, l : /\ Chain(t, h) /\ h[0] = e /\ h[Len(t)] = l
                     /\ l.st = 0 /\ l.credits = 0 /\ l.todo = << >> /\ l.read = None
  <2>1. CASE setup.kind = "set"
    <3>1. t = FeatureWriteFrame(setup.cmd, setup.data) /\ LongEnough(setup.cmd, setup.data)
      BY <1>3, <1>7, <2>1 DEF SetupLong
    <3>2. e.todo = <<setup.cmd>> /\ e.read = None
      BY <1>2, <1>4, <2>1 DEF DownEnd
    <3>3. LET h == WriteRun(e, setup.cmd, setup.data)
          IN  Chain(t, h) /\ h[0] = e /\ h[Len(t)] = Inside(e, setup.cmd, 0, 0, << >>)
      BY <1>2, <1>5, <1>6, <3>1, <3>2, WriteChain
    <3>4. /\ Inside(e, setup.cmd, 0, 0, << >>).st = 0 /\ Inside(e, setup.cmd, 0, 0, << >>).credits = 0
          /\ Inside(e, setup.cmd, 0, 0, << >>).todo = << >>
          /\ Inside(e, setup.cmd, 0, 0, << >>).read = None
      BY <1>6, <3>2 DEF Inside
    <3>5. t \in Seq(Byte)
      BY <1>5, <3>1, FeatureFrameBytes
    <3>6. QED
      BY <3>3, <3>4, <3>5
  <2>2. CASE setup.kind = "get"
    <3>1. t = FeatureReadFrame(setup.cmd)
      BY <1>3, <1>7, <2>2
    <3>2. e.todo = << >> /\ e.read = setup.cmd
      BY <1>2, <1>4, <2>2 DEF DownEnd
    <3>3. LET h == ReadRun(e, setup.cmd)
          IN  Chain(t, h) /\ h[0] = e /\ h[Len(t)] = Left(e, e.credits, e.todo, None)
      BY <1>2, <1>5, <1>6, <3>1, <3>2, ReadChain
    <3>4. /\ Left(e, e.credits, e.todo, None).st = 0 /\ Left(e, e.credits, e.todo, None).credits = 0
          /\ Left(e, e.credits, e.todo, None).todo = << >>
          /\ Left(e, e.credits, e.todo, None).read = None
      BY <1>6, <3>2 DEF Left
    <3>5. t \in Seq(Byte)
      BY <1>5, <3>1, FeatureFrameBytes
    <3>6. QED
      BY <3>3, <3>4, <3>5
  <2>3. QED
    BY <1>3, <1>5, <2>1, <2>2
<1>9. PICK h, l : /\ Chain(t, h) /\ h[0] = e /\ h[Len(t)] = l
                  /\ l.st = 0 /\ l.credits = 0 /\ l.todo = << >> /\ l.read = None
  BY <1>8
<1>10. PICK g : Chain(s \o t, g) /\ g[0] = f[0] /\ g[Len(s \o t)] = l
  <2>1. s \in Seq(Byte) /\ t \in Seq(Byte) /\ f[Len(s)] = h[0] /\ Chain(s, f)
    BY <1>2, <1>8, <1>9
  <2>2. /\ Chain(s \o t, Joined(s, f, t, h)) /\ Joined(s, f, t, h)[0] = f[0]
        /\ Joined(s, f, t, h)[Len(s) + Len(t)] = h[Len(t)]
    BY <1>9, <2>1, ChainJoin
  <2>3. Len(s \o t) = Len(s) + Len(t)
    BY <2>1
  <2>4. QED
    BY <1>9, <2>2, <2>3
<1>11. in' \o (tx' \o t) = s \o t
  <2>1. in \in Seq(Byte) /\ tx \in Seq(Byte)
    BY DEF TypeOK, MainTypeOK, UsbTypeOK
  <2>2. s = in \o tx
    BY <1>2, <1>4, <2>1, Streams
  <2>3. QED
    BY <1>3, <1>8, <2>1, <2>2, Associative
<1>12. DownHere(f[0])' /\ DownEnd(l, TRUE)' /\ Where(t, TRUE)'
  BY <1>2, <1>3, <1>7, <1>9 DEF DownHere, DownEnd, Where
<1>13. Chain(in' \o (tx' \o t), g) /\ g[0] = f[0] /\ g[Len(in' \o (tx' \o t))] = l
  BY <1>10, <1>11
<1>14. QED
  BY <1>2, <1>8, <1>12, <1>13 DEF Down

\* A byte of the frame is written to the ring, or the 16u2 hangs with it.
LEMMA DownForward ==
  ASSUME TypeOK, NEW a, Down(a), UsbForward,
         UNCHANGED <<in, mState, packetCount, cmd, inDones, todo>>
  PROVE  Down(a)'
<1>1. PICK rest, sent, f, e, s : DownView(a, rest, sent, f, e, s)
  BY DownParts
<1>2. /\ rest \in Seq(Byte) /\ sent \in BOOLEAN
      /\ s = in \o (tx \o rest) /\ s \in Seq(Byte) /\ Chain(s, f)
      /\ e = f[Len(s)] /\ e \in Point /\ f[0] \in Point
      /\ DownHere(f[0]) /\ f[0].read = a /\ DownEnd(e, sent) /\ Where(rest, sent)
  BY <1>1 DEF DownView
<1>3. /\ uPc = "control" /\ forward # << >> /\ forward' = Tail(forward) /\ UNCHANGED setup
      /\ \/ uPc' = "hung" /\ UNCHANGED tx
         \/ uPc' = "control" /\ tx' = Append(tx, Head(forward))
  BY DEF UsbForward, UsbWriteData
<1>4. rest = forward /\ sent = TRUE /\ setup.kind # "none"
  BY <1>2, <1>3 DEF Where
<1>5. DownHere(f[0])' /\ DownEnd(e, sent)'
  BY <1>2, <1>3 DEF DownHere, DownEnd
<1>6. CASE uPc' = "hung" /\ UNCHANGED tx
  <2>1. Where(rest, sent)'
    BY <1>3, <1>4, <1>6 DEF Where
  <2>2. QED
    BY <1>2, <1>5, <1>6, <2>1 DEF Down
<1>7. CASE uPc' = "control" /\ tx' = Append(tx, Head(forward))
  <2>1. PICK t : t = Tail(rest)
    OBVIOUS
  <2>2. in \in Seq(Byte) /\ tx \in Seq(Byte) /\ t \in Seq(Byte) /\ rest # << >>
    BY <1>3, <1>4, <2>1 DEF TypeOK, MainTypeOK, UsbTypeOK
  <2>3. tx' \o t = tx \o rest
    BY <1>4, <1>7, <2>1, <2>2, Streams
  <2>4. Where(t, sent)'
    BY <1>3, <1>4, <1>7, <2>1 DEF Where
  <2>5. in' \o (tx' \o t) = s
    BY <1>2, <2>3
  <2>6. Chain(in' \o (tx' \o t), f) /\ f[Len(in' \o (tx' \o t))] = e
    BY <1>2, <2>5
  <2>7. QED
    BY <1>2, <1>5, <2>2, <2>4, <2>6 DEF Down
<1>8. QED
  BY <1>3, <1>6, <1>7

\* The handler returns.
LEMMA DownEndRequest ==
  ASSUME TypeOK, NEW a, Down(a), UsbEndRequest,
         UNCHANGED <<in, mState, packetCount, cmd, inDones, todo>>
  PROVE  Down(a)'
<1>1. PICK rest, sent, f, e, s : DownView(a, rest, sent, f, e, s)
  BY DownParts
<1>2. /\ rest \in Seq(Byte) /\ sent \in BOOLEAN
      /\ s = in \o (tx \o rest) /\ s \in Seq(Byte) /\ Chain(s, f)
      /\ e = f[Len(s)] /\ e \in Point /\ f[0] \in Point
      /\ DownHere(f[0]) /\ f[0].read = a /\ DownEnd(e, sent) /\ Where(rest, sent)
  BY <1>1 DEF DownView
<1>3. /\ uPc = "control" /\ forward = << >> /\ uPc' = "check" /\ setup' = NoRequest
      /\ UNCHANGED <<tx, forward>>
  BY DEF UsbEndRequest
<1>4. rest = << >> /\ sent = TRUE
  BY <1>2, <1>3 DEF Where
<1>5. setup'.kind = "none"
  BY <1>3 DEF NoRequest
<1>6. DownHere(f[0])' /\ DownEnd(e, FALSE)' /\ Where(rest, FALSE)'
  BY <1>2, <1>3, <1>4, <1>5 DEF DownHere, DownEnd, Where
<1>7. Chain(in' \o (tx' \o rest), f) /\ f[Len(in' \o (tx' \o rest))] = e
  BY <1>2, <1>3
<1>8. QED
  BY <1>2, <1>6, <1>7 DEF Down

\* The host sends a request: what is left grows all along the stream.
LEMMA WriteAdded ==
  ASSUME NEW s \in Seq(Byte), NEW f, Chain(s, f), NEW e, e = f[Len(s)], NEW c \in Byte
  PROVE  \E j : /\ Chain(s, j)
                /\ j[0] = Left(f[0], f[0].credits, Append(f[0].todo, c), f[0].read)
                /\ j[Len(s)] = Left(e, e.credits, Append(e.todo, c), e.read)
<1> DEFINE g == [i \in 0..Len(s) |-> Left(f[i], f[i].credits, Append(f[i].todo, c), f[i].read)]
<1>1. Chain(s, g)
  BY ChainWrite
<1>2. Len(s) \in Nat
  OBVIOUS
<1>3. /\ g[0] = Left(f[0], f[0].credits, Append(f[0].todo, c), f[0].read)
      /\ g[Len(s)] = Left(e, e.credits, Append(e.todo, c), e.read)
  BY <1>2
<1> HIDE DEF g
<1>4. QED
  BY <1>1, <1>3

LEMMA AskAdded ==
  ASSUME NEW s \in Seq(Byte), NEW f, Chain(s, f), NEW e, e = f[Len(s)], NEW c \in Byte,
         f[0].read = None
  PROVE  \E j : /\ Chain(s, j) /\ j[0] = Left(f[0], f[0].credits, f[0].todo, c)
                /\ j[Len(s)] = Left(e, e.credits, e.todo, c)
<1> DEFINE g == [i \in 0..Len(s) |-> Left(f[i], f[i].credits, f[i].todo, c)]
<1>1. Chain(s, g)
  BY ChainAsk
<1>2. Len(s) \in Nat
  OBVIOUS
<1>3. /\ g[0] = Left(f[0], f[0].credits, f[0].todo, c)
      /\ g[Len(s)] = Left(e, e.credits, e.todo, c)
  BY <1>2
<1> HIDE DEF g
<1>4. QED
  BY <1>1, <1>3

LEMMA DownHostWrite ==
  ASSUME TypeOK, NEW a, Down(a), NEW c \in Byte, setup.kind = "none",
         setup'.kind = "set", setup'.cmd = c, todo' = Append(todo, c),
         UNCHANGED <<in, tx, uPc, forward, mState, packetCount, cmd, inDones>>
  PROVE  Down(a)'
<1>1. PICK rest, sent, f, e, s : DownView(a, rest, sent, f, e, s)
  BY DownParts
<1>2. /\ rest \in Seq(Byte) /\ sent \in BOOLEAN
      /\ s = in \o (tx \o rest) /\ s \in Seq(Byte) /\ Chain(s, f)
      /\ e = f[Len(s)] /\ e \in Point /\ f[0] \in Point
      /\ DownHere(f[0]) /\ f[0].read = a /\ DownEnd(e, sent) /\ Where(rest, sent)
  BY <1>1 DEF DownView
<1>3. sent = FALSE /\ rest = << >> /\ Where(rest, sent)'
  BY <1>2 DEF Where
<1>4. PICK j : /\ Chain(s, j)
               /\ j[0] = Left(f[0], f[0].credits, Append(f[0].todo, c), f[0].read)
               /\ j[Len(s)] = Left(e, e.credits, Append(e.todo, c), e.read)
  <2>1. s \in Seq(Byte) /\ Chain(s, f) /\ e = f[Len(s)]
    BY <1>2
  <2>2. QED
    BY <2>1, WriteAdded
<1>5. PICK k, l : k = j[0] /\ l = Left(e, e.credits, Append(e.todo, c), e.read)
  OBVIOUS
<1>6. DownHere(k)' /\ k.read = a
  BY <1>2, <1>4, <1>5 DEF DownHere, Left
<1>7. DownEnd(l, sent)'
  <2>1. e.st = 0 /\ e.credits = 0 /\ e.todo = << >> /\ e.read = None
    BY <1>2 DEF DownEnd
  <2>2. Append(e.todo, c) = <<c>>
    BY <2>1
  <2>3. l.st = 0 /\ l.credits = 0 /\ l.todo = <<c>> /\ l.read = None
    BY <1>5, <2>1, <2>2 DEF Left
  <2>4. QED
    BY <1>3, <2>3 DEF DownEnd
<1>8. Chain(in' \o (tx' \o rest), j) /\ j[0] = k /\ j[Len(in' \o (tx' \o rest))] = l
  BY <1>2, <1>4, <1>5
<1>9. QED
  BY <1>2, <1>3, <1>6, <1>7, <1>8 DEF Down

LEMMA DownHostRead ==
  ASSUME TypeOK, Down(None), NEW c \in Byte, setup.kind = "none",
         setup'.kind = "get", setup'.cmd = c,
         UNCHANGED <<in, tx, uPc, forward, mState, packetCount, cmd, inDones, todo>>
  PROVE  Down(c)'
<1>1. PICK rest, sent, f, e, s : DownView(None, rest, sent, f, e, s)
  BY DownParts
<1>2. /\ rest \in Seq(Byte) /\ sent \in BOOLEAN
      /\ s = in \o (tx \o rest) /\ s \in Seq(Byte) /\ Chain(s, f)
      /\ e = f[Len(s)] /\ e \in Point /\ f[0] \in Point
      /\ DownHere(f[0]) /\ f[0].read = None /\ DownEnd(e, sent) /\ Where(rest, sent)
  BY <1>1 DEF DownView
<1>3. sent = FALSE /\ rest = << >> /\ Where(rest, sent)'
  BY <1>2 DEF Where
<1>4. PICK j : /\ Chain(s, j) /\ j[0] = Left(f[0], f[0].credits, f[0].todo, c)
               /\ j[Len(s)] = Left(e, e.credits, e.todo, c)
  <2>1. s \in Seq(Byte) /\ Chain(s, f) /\ e = f[Len(s)] /\ f[0].read = None
    BY <1>2
  <2>2. QED
    BY <2>1, AskAdded
<1>5. PICK k, l : k = j[0] /\ l = Left(e, e.credits, e.todo, c)
  OBVIOUS
<1>6. DownHere(k)' /\ k.read = c
  BY <1>2, <1>4, <1>5 DEF DownHere, Left
<1>7. DownEnd(l, sent)'
  BY <1>2, <1>3, <1>5 DEF DownEnd, Left
<1>8. Chain(in' \o (tx' \o rest), j) /\ j[0] = k /\ j[Len(in' \o (tx' \o rest))] = l
  BY <1>2, <1>4, <1>5
<1>9. QED
  BY <1>2, <1>3, <1>6, <1>7, <1>8 DEF Down

------------------------------------------------------------------------------
\* The stream towards the 16u2, step by step.
UpView(b, g, e, s) ==
  /\ s = rx \o out /\ s \in Seq(Byte) /\ Chain(s, g)
  /\ e = g[Len(s)] /\ e \in Point /\ g[0] \in Point
  /\ UpHere(g[0]) /\ g[0].read = b
  /\ e.st = 6 /\ e.credits = 0 /\ e.read = None

\* Four bytes a frame.
UpLengths(b) == uState + Len(rx) + Len(out) = 4 * (inReports + (IF b = None THEN 0 ELSE 1))

LEMMA UpParts ==
  ASSUME TypeOK, NEW b, Up(b) PROVE UpLengths(b) /\ \E g, e, s : UpView(b, g, e, s)
<1>1. rx \in Seq(Byte) /\ out \in Seq(Byte)
  BY DEF TypeOK, MainTypeOK, UsbTypeOK
<1>2. rx \o out \in Seq(Byte)
  BY <1>1, JoinBytes
<1>3. ASSUME NEW s \in Seq(Byte), NEW f, Chain(s, f) PROVE f[0] \in Point /\ f[Len(s)] \in Point
  BY <1>3 DEF Chain
<1>4. QED
  BY <1>2, <1>3 DEF Up, UpView, UpLengths

LEMMA UpSame ==
  ASSUME NEW b, Up(b), UNCHANGED <<rx, out, uState, uCount, currentEndpoint, inReports>>
  PROVE  Up(b)'
BY DEF Up, UpHere

\* A byte moves from one ring to the other.
LEMMA UpMove ==
  ASSUME TypeOK, NEW b, Up(b), UartToUsb PROVE Up(b)'
<1>1. PICK g, e, s : UpView(b, g, e, s)
  BY UpParts
<1>2. /\ s = rx \o out /\ s \in Seq(Byte) /\ Chain(s, g)
      /\ e = g[Len(s)] /\ e \in Point /\ g[0] \in Point
      /\ UpHere(g[0]) /\ g[0].read = b
      /\ e.st = 6 /\ e.credits = 0 /\ e.read = None
  BY <1>1 DEF UpView
<1>3. /\ rx \in Seq(Byte) /\ out \in Seq(Byte) /\ out # << >>
      /\ out' = Tail(out) /\ rx' = Append(rx, Head(out))
      /\ UNCHANGED <<uState, uCount, currentEndpoint, inReports>>
  BY DEF TypeOK, MainTypeOK, UsbTypeOK, UartToUsb, frameVars, ghostVars
<1>4. rx' \o out' = s
  BY <1>2, <1>3, Streams
<1>5. Len(rx') + Len(out') = Len(rx) + Len(out)
  BY <1>3
<1>6. UpLengths(b)'
  <2>1. UpLengths(b)
    BY UpParts
  <2>2. Len(rx) \in Nat /\ Len(out) \in Nat /\ Len(rx') \in Nat /\ Len(out') \in Nat /\ uState \in 0..3
    BY <1>3 DEF TypeOK, UsbTypeOK
  <2>3. QED
    BY <1>3, <1>5, <2>1, <2>2 DEF UpLengths
<1>7. UpHere(g[0])'
  BY <1>2, <1>3 DEF UpHere
<1>8. Chain(rx' \o out', g) /\ g[Len(rx' \o out')] = e
  BY <1>2, <1>4
<1>9. QED
  BY <1>2, <1>6, <1>7, <1>8 DEF Up, UpLengths

\* The endpoints of the two kinds of frame.
LEMMA TheEndpoints ==
  /\ DeviceRid \in ReportId /\ REPORT_ID_CONTROL \in ReportId /\ DeviceRid # REPORT_ID_CONTROL
  /\ endpoints[DeviceRid] \in Endpoint \ {0} /\ endpoints[REPORT_ID_CONTROL] = 0
BY RidAssumption DEF ReportId, REPORT_ID_XINPUT, REPORT_ID_GAMEPAD, REPORT_ID_KBD, REPORT_ID_MIDI,
   REPORT_ID_CONTROL, endpoints, Endpoint, ENDPOINT_CONTROLEP, XINPUT_EPADDR_IN, MIDI_EPADDR_IN,
   HID_EPADDR_IN

\* The 16u2 reads a byte.
LEMMA UpLink ==
  ASSUME UsbTypeOK, inReports \in Int, NEW p \in Point, NEW q \in Point, UpHere(p),
         Goes(p, Head(rx), q), UsbByte,
         inReports' = IF uState = 3 /\ uState' = 0 /\ currentEndpoint # ENDPOINT_CONTROLEP
                        THEN inReports - 1 ELSE inReports
  PROVE  /\ UpHere(q)' /\ uState' = (IF uState = 3 THEN 0 ELSE uState + 1)
         /\ uState = 0 => Head(rx) = FRAME_START_WRITE
         /\ uState # 3 => q.read = p.read /\ inReports' = inReports
         /\ uState = 3 /\ currentEndpoint # 0 =>
              q.read = p.read /\ inReports' = inReports - 1 /\ inReports > 0
         /\ uState = 3 /\ currentEndpoint = 0 =>
              p.read = Head(rx) /\ q.read = None /\ inReports' = inReports
<1>0. p.st = uState + 6 /\ p.credits = inReports /\ uState \in 0..3
  BY DEF UpHere, UsbTypeOK
<1>1. CASE UsbStart
  <2>1. uState = 0 /\ UpStart(p, Head(rx), q)
    BY <1>0, <1>1 DEF UsbStart, Goes, GoesDone, GoesStart, GoesLength, GoesAsk, GoesCommand,
       GoesOffset, GoesPayload, GoesLast, UpLength, UpId, UpReport, UpReply
  <2>2. uState' = 1 /\ inReports' = inReports
    BY <1>1, <2>1 DEF UsbStart, UpStart
  <2>3. QED
    BY <1>0, <2>1, <2>2 DEF UpStart, SameLeft, UpHere
<1>2. CASE UsbLength
  <2>1. uState = 1 /\ uState' = 2 /\ uCount' = Head(rx) /\ inReports' = inReports
    BY <1>2 DEF UsbLength
  <2>2. UpLength(p, Head(rx), q)
    BY <1>0, <2>1 DEF Goes, GoesDone, GoesStart, GoesLength, GoesAsk, GoesCommand,
       GoesOffset, GoesPayload, GoesLast, UpStart, UpId, UpReport, UpReply
  <2>3. QED
    BY <1>0, <2>1, <2>2 DEF UpLength, SameLeft, UpHere
<1>3. CASE UsbReportId
  <2>1. uState = 2 /\ uState' = 3 /\ uCount' = Dec8(uCount) /\ inReports' = inReports
    BY <1>3 DEF UsbReportId
  <2>2. UpId(p, Head(rx), q)
    BY <1>0, <2>1 DEF Goes, GoesDone, GoesStart, GoesLength, GoesAsk, GoesCommand,
       GoesOffset, GoesPayload, GoesLast, UpStart, UpLength, UpReport, UpReply
  <2>3. Head(rx) \in {DeviceRid, REPORT_ID_CONTROL} /\ q.c = Head(rx)
    BY <2>2 DEF UpId
  <2>4. currentEndpoint' = endpoints[Head(rx)]
    BY <1>3, <2>3, TheEndpoints DEF UsbReportId
  <2>5. uCount' = 1
    BY <1>0, <2>1 DEF UpHere, Dec8
  <2>6. QED
    BY <1>0, <2>1, <2>2, <2>3, <2>4, <2>5 DEF UpId, SameLeft, UpHere
<1>4. CASE UsbBody
  <2>1. uState = 3 /\ uCount' = Dec8(uCount)
    BY <1>4 DEF UsbBody
  <2>2. uCount' = 0 /\ uState' = 0
    <3>1. uCount' = 0
      BY <2>1 DEF UpHere, Dec8
    <3>2. QED
      BY <1>4, <3>1 DEF UsbBody
  <2>3. UpReport(p, Head(rx), q) \/ UpReply(p, Head(rx), q)
    BY <1>0, <2>1 DEF Goes, GoesDone, GoesStart, GoesLength, GoesAsk, GoesCommand,
       GoesOffset, GoesPayload, GoesLast, UpStart, UpLength, UpId
  <2>4. currentEndpoint = endpoints[p.c] /\ p.c \in {DeviceRid, REPORT_ID_CONTROL}
    BY <2>1 DEF UpHere
  <2>5. CASE UpReport(p, Head(rx), q)
    <3>1. currentEndpoint # 0 /\ inReports' = inReports - 1
      BY <2>1, <2>2, <2>4, <2>5, TheEndpoints DEF UpReport, ENDPOINT_CONTROLEP
    <3>2. q.credits \in Nat /\ inReports = q.credits + 1
      BY <1>0, <2>5 DEF UpReport, Point
    <3>3. q.credits = inReports' /\ inReports > 0
      BY <3>1, <3>2
    <3>4. QED
      BY <2>1, <2>2, <2>5, <3>1, <3>3 DEF UpReport, UpHere
  <2>6. CASE UpReply(p, Head(rx), q)
    <3>1. currentEndpoint = 0 /\ inReports' = inReports
      BY <2>4, <2>6, TheEndpoints DEF UpReply, ENDPOINT_CONTROLEP
    <3>2. QED
      BY <1>0, <2>1, <2>2, <2>6, <3>1 DEF UpReply, UpHere
  <2>7. QED
    BY <2>3, <2>5, <2>6
<1>5. QED
  BY <1>1, <1>2, <1>3, <1>4 DEF UsbByte

\* A byte that is no answer leaves the bank of endpoint 0 alone; an answer
\* fills it.
AnswerByte == uState = 3 /\ currentEndpoint = 0

LEMMA BankTake ==
  ASSUME UsbTypeOK, UsbByte, rx # << >>, uState = 3 => uCount = 1,
         uState = 2 => Head(rx) \in {DeviceRid, REPORT_ID_CONTROL}
  PROVE  /\ ~AnswerByte => fifo'[0] = fifo[0] /\ busy'[0] = busy[0]
         /\ AnswerByte /\ ~busy[0] /\ fifo[0] = << >> => busy'[0] /\ fifo'[0] = <<Head(rx)>>
<1>0. /\ 0 \in Endpoint /\ fifo \in [Endpoint -> Seq(Byte)] /\ busy \in [Endpoint -> BOOLEAN]
      /\ currentEndpoint \in Endpoint
  BY DEF UsbTypeOK, Endpoint
<1>1. CASE UsbStart \/ UsbLength
  BY <1>1 DEF UsbStart, UsbLength, epVars, AnswerByte
<1>2. CASE UsbReportId
  <2>1. uState = 2 /\ UNCHANGED busy
    BY <1>2 DEF UsbReportId
  <2>2. CASE Head(rx) = REPORT_ID_CONTROL
    BY <1>2, <2>1, <2>2 DEF UsbReportId, StripsId, AnswerByte
  <2>3. CASE Head(rx) = DeviceRid
    <3>1. currentEndpoint' \in Endpoint /\ currentEndpoint' # 0
      BY <1>2, <2>3, TheEndpoints DEF UsbReportId
    <3>2. UNCHANGED fifo \/ Endpoint_Write_8(currentEndpoint', Head(rx))
      BY <1>2 DEF UsbReportId
    <3>3. fifo'[0] = fifo[0]
      BY <1>0, <3>1, <3>2 DEF Endpoint_Write_8
    <3>4. QED
      BY <2>1, <3>3 DEF AnswerByte
  <2>4. QED
    BY <2>1, <2>2, <2>3
<1>3. CASE UsbBody
  <2>1. uState = 3 /\ Endpoint_Write_8(currentEndpoint, Head(rx)) /\ uCount' = 0
    BY <1>3 DEF UsbBody, Dec8
  <2>2. busy' = [busy EXCEPT ![currentEndpoint] = @ \/ Endpoint_IsINReady(currentEndpoint)]
    BY <1>3, <2>1 DEF UsbBody
  <2>3. CASE currentEndpoint # 0
    <3>1. fifo'[0] = fifo[0]
      BY <1>0, <2>1, <2>3 DEF Endpoint_Write_8
    <3>2. busy'[0] = busy[0]
      BY <1>0, <2>2, <2>3
    <3>3. QED
      BY <2>3, <3>1, <3>2 DEF AnswerByte
  <2>4. CASE currentEndpoint = 0
    <3> SUFFICES ASSUME ~busy[0], fifo[0] = << >> PROVE busy'[0] /\ fifo'[0] = <<Head(rx)>>
      BY <2>1, <2>4 DEF AnswerByte
    <3>1. Endpoint_IsINReady(currentEndpoint)
      BY <2>4 DEF Endpoint_IsINReady, ENDPOINT_CONTROLEP
    <3>2. fifo' = [fifo EXCEPT ![currentEndpoint] = Append(@, Head(rx))]
      BY <2>1, <3>1 DEF Endpoint_Write_8
    <3>3. fifo'[0] = Append(fifo[0], Head(rx))
      BY <1>0, <2>4, <3>2
    <3>4. busy'[0]
      BY <1>0, <2>2, <2>4, <3>1
    <3>5. Append(<< >>, Head(rx)) = <<Head(rx)>>
      OBVIOUS
    <3>6. QED
      BY <3>3, <3>4, <3>5
  <2>5. QED
    BY <2>3, <2>4
<1>4. QED
  BY <1>1, <1>2, <1>3 DEF UsbByte

LEMMA UpTake ==
  ASSUME TypeOK, NEW b, Up(b), UsbByte, UNCHANGED out,
         inReports' = IF uState = 3 /\ uState' = 0 /\ currentEndpoint # ENDPOINT_CONTROLEP
                        THEN inReports - 1 ELSE inReports
  PROVE  /\ ~AnswerByte => Up(b)'
         /\ AnswerByte => b = Head(rx) /\ Up(None)'
         /\ uState = 0 => Head(rx) = FRAME_START_WRITE
         /\ uState = 3 /\ currentEndpoint # 0 => inReports > 0 /\ uState' = 0
         /\ uState = 3 => uCount = 1
         /\ uState = 2 => Head(rx) \in {DeviceRid, REPORT_ID_CONTROL}
<1>1. PICK g, e, s : UpView(b, g, e, s)
  BY UpParts
<1>2. /\ s = rx \o out /\ s \in Seq(Byte) /\ Chain(s, g)
      /\ e = g[Len(s)] /\ e \in Point /\ g[0] \in Point
      /\ UpHere(g[0]) /\ g[0].read = b
      /\ e.st = 6 /\ e.credits = 0 /\ e.read = None
  BY <1>1 DEF UpView
<1>3. UsbTypeOK /\ inReports \in Int /\ rx \in Seq(Byte) /\ out \in Seq(Byte) /\ uState \in 0..3
  BY DEF TypeOK, UsbTypeOK, MainTypeOK
<1>4. rx # << >> /\ rx' = Tail(rx)
  BY DEF UsbByte, UsbStart, UsbLength, UsbReportId, UsbBody, Take
<1>5. s # << >> /\ Head(s) = Head(rx) /\ Tail(s) = rx' \o out'
  BY <1>2, <1>3, <1>4, Streams
<1>6. g[0] \in Point /\ g[1] \in Point /\ Goes(g[0], Head(rx), g[1])
  <2>1. s \in Seq(Byte) /\ s # << >> /\ Chain(s, g)
    BY <1>2, <1>5
  <2>2. QED
    BY <1>5, <2>1, ChainTake
<1>7. PICK h : Chain(Tail(s), h) /\ h[0] = g[1] /\ h[Len(Tail(s))] = g[Len(s)]
  <2>1. s \in Seq(Byte) /\ s # << >> /\ Chain(s, g)
    BY <1>2, <1>5
  <2>2. QED
    BY <2>1, ChainTake
<1>8. PICK p, q : p = g[0] /\ q = g[1]
  OBVIOUS
<1>9. UpHere(p) /\ p \in Point /\ q \in Point /\ Goes(p, Head(rx), q)
  BY <1>2, <1>6, <1>8
<1>10. /\ UpHere(q)' /\ uState' = (IF uState = 3 THEN 0 ELSE uState + 1)
       /\ uState = 0 => Head(rx) = FRAME_START_WRITE
       /\ uState # 3 => q.read = p.read /\ inReports' = inReports
       /\ uState = 3 /\ currentEndpoint # 0 =>
            q.read = p.read /\ inReports' = inReports - 1 /\ inReports > 0
       /\ uState = 3 /\ currentEndpoint = 0 =>
            p.read = Head(rx) /\ q.read = None /\ inReports' = inReports
  BY <1>3, <1>9, UpLink
<1>11. uState = 3 => uCount = 1
  BY <1>9 DEF UpHere
<1>12. uState = 2 => Head(rx) \in {DeviceRid, REPORT_ID_CONTROL}
  <2>1. uState = 2 => p.st = 8
    BY <1>9 DEF UpHere
  <2>2. QED
    BY <1>9, <2>1 DEF Goes, GoesDone, GoesStart, GoesLength, GoesAsk, GoesCommand,
       GoesOffset, GoesPayload, GoesLast, UpStart, UpLength, UpId, UpReport, UpReply
<1>13. p.read = b
  BY <1>2, <1>8
<1>14. Head(rx) # None
  <2>1. Head(rx) \in Byte
    BY <1>3, <1>4
  <2>2. QED
    BY <2>1 DEF Byte, None
<1>15. UpLengths(q.read)'
  <2>1. UpLengths(b)
    BY UpParts
  <2>2. Len(rx) \in Nat /\ Len(out) \in Nat /\ Len(rx') = Len(rx) - 1
    BY <1>3, <1>4
  <2>3. CASE uState # 3
    BY <1>3, <1>10, <1>13, <2>1, <2>2, <2>3 DEF UpLengths
  <2>4. CASE uState = 3 /\ currentEndpoint # 0
    BY <1>3, <1>10, <1>13, <2>1, <2>2, <2>4 DEF UpLengths
  <2>5. CASE uState = 3 /\ currentEndpoint = 0
    BY <1>3, <1>10, <1>13, <1>14, <2>1, <2>2, <2>5 DEF UpLengths
  <2>6. QED
    BY <2>3, <2>4, <2>5
<1>16. Chain(rx' \o out', h) /\ h[0] = q /\ h[Len(rx' \o out')] = e
  BY <1>2, <1>5, <1>7, <1>8
<1>17. Up(q.read)'
  BY <1>2, <1>10, <1>15, <1>16 DEF Up, UpLengths
<1>18. QED
  BY <1>10, <1>11, <1>12, <1>13, <1>17 DEF AnswerByte

\* A frame of the 328p at the end of the stream.
WithFrame(s, id, x) == s \o WriteFrame(<<id, x>>)

LEMMA FrameAdded ==
  ASSUME NEW s \in Seq(Byte), NEW g, Chain(s, g), NEW id \in {DeviceRid, REPORT_ID_CONTROL},
         NEW x \in Byte, NEW d, d = g[Len(s)], d.st = 6, NEW q \in Point,
         Goes(Inside(d, id, 9, 0, d.todo), x, q)
  PROVE  \E j : /\ Chain(WithFrame(s, id, x), j) /\ j[0] = g[0]
                /\ j[Len(WithFrame(s, id, x))] = q
<1> DEFINE T == WriteFrame(<<id, x>>)
           h == UpRun(d, id, q)
<1>1. d \in Point
  BY DEF Chain
<1>2. Chain(T, h) /\ h[0] = d /\ h[4] = q
  BY <1>1, UpChain
<1>3. T \in Seq(Byte) /\ Len(T) = 4
  <2>1. id \in Byte
    BY RidByte DEF ReportId, REPORT_ID_CONTROL, Byte
  <2>2. QED
    BY <2>1, UpFrameShape
<1> HIDE DEF T, h
<1>4. T \in Seq(Byte) /\ g[Len(s)] = h[0]
  BY <1>2, <1>3
<1>5. /\ Chain(s \o T, Joined(s, g, T, h)) /\ Joined(s, g, T, h)[0] = g[0]
      /\ Joined(s, g, T, h)[Len(s) + Len(T)] = h[Len(T)]
  BY <1>2, <1>4, ChainJoin
<1>6. WithFrame(s, id, x) = s \o T /\ Len(s \o T) = Len(s) + Len(T)
  <2>1. WithFrame(s, id, x) = s \o T
    BY DEF T, WithFrame
  <2>2. QED
    BY <1>4, <2>1
<1>7. QED
  BY <1>2, <1>3, <1>5, <1>6

LEMMA ReportAdded ==
  ASSUME NEW s \in Seq(Byte), NEW g, Chain(s, g), NEW e, e = g[Len(s)],
         e.st = 6, e.credits = 0, NEW v \in Byte
  PROVE  \E j, l : /\ Chain(WithFrame(s, DeviceRid, v), j)
                   /\ j[0] = Left(g[0], g[0].credits + 1, g[0].todo, g[0].read)
                   /\ j[Len(WithFrame(s, DeviceRid, v))] = l
                   /\ l.st = 6 /\ l.credits = 0 /\ l.read = e.read
<1> DEFINE k == [i \in 0..Len(s) |-> Left(g[i], g[i].credits + 1, g[i].todo, g[i].read)]
           d == Left(e, e.credits + 1, e.todo, e.read)
           q == Left(e, 0, e.todo, e.read)
<1>1. Chain(s, k)
  BY ChainCredit
<1>2. Len(s) \in Nat /\ e \in Point
  BY DEF Chain
<1>3. k[0] = Left(g[0], g[0].credits + 1, g[0].todo, g[0].read) /\ k[Len(s)] = d
  BY <1>2
<1>4. d \in Point /\ d.st = 6 /\ q \in Point
  BY <1>2 DEF Left, Point
<1>5. Goes(Inside(d, DeviceRid, 9, 0, d.todo), v, q)
  <2>1. UpReport(Inside(d, DeviceRid, 9, 0, d.todo), v, q)
    BY DEF UpReport, Inside, Left
  <2>2. QED
    BY <2>1 DEF Goes
<1>6. q.st = 6 /\ q.credits = 0 /\ q.read = e.read
  BY DEF Left
<1> HIDE DEF k, d, q
<1>7. \E j : /\ Chain(WithFrame(s, DeviceRid, v), j) /\ j[0] = k[0]
             /\ j[Len(WithFrame(s, DeviceRid, v))] = q
  BY <1>1, <1>3, <1>4, <1>5, FrameAdded
<1>8. QED
  BY <1>3, <1>6, <1>7

LEMMA AnswerAdded ==
  ASSUME NEW s \in Seq(Byte), NEW g, Chain(s, g), NEW e, e = g[Len(s)],
         e.st = 6, e.credits = 0, NEW c \in Byte, g[0].read = None
  PROVE  \E j, l : /\ Chain(WithFrame(s, REPORT_ID_CONTROL, c), j)
                   /\ j[0] = Left(g[0], g[0].credits, g[0].todo, c)
                   /\ j[Len(WithFrame(s, REPORT_ID_CONTROL, c))] = l
                   /\ l.st = 6 /\ l.credits = 0 /\ l.read = None
<1> DEFINE d == Left(e, e.credits, e.todo, c)
           q == Left(e, 0, e.todo, None)
<1>1. PICK k : /\ Chain(s, k) /\ k[0] = Left(g[0], g[0].credits, g[0].todo, c)
               /\ k[Len(s)] = d
  BY AskAdded
<1>2. Len(s) \in Nat /\ e \in Point
  BY DEF Chain
<1>4. d.st = 6 /\ q \in Point
  BY <1>2 DEF Left, Point
<1>5. Goes(Inside(d, REPORT_ID_CONTROL, 9, 0, d.todo), c, q)
  <2>1. UpReply(Inside(d, REPORT_ID_CONTROL, 9, 0, d.todo), c, q)
    BY DEF UpReply, Inside, Left
  <2>2. QED
    BY <2>1 DEF Goes
<1>6. q.st = 6 /\ q.credits = 0 /\ q.read = None
  BY DEF Left
<1> HIDE DEF d, q
<1>7. \E j : /\ Chain(WithFrame(s, REPORT_ID_CONTROL, c), j) /\ j[0] = k[0]
             /\ j[Len(WithFrame(s, REPORT_ID_CONTROL, c))] = q
  BY <1>1, <1>4, <1>5, FrameAdded
<1>8. QED
  BY <1>1, <1>6, <1>7

LEMMA WithFrameOut ==
  ASSUME NEW r \in Seq(Byte), NEW o \in Seq(Byte), NEW id \in {DeviceRid, REPORT_ID_CONTROL},
         NEW x \in Byte
  PROVE  /\ r \o WithFrame(o, id, x) = WithFrame(r \o o, id, x)
         /\ Len(WithFrame(o, id, x)) = Len(o) + 4
         /\ Len(r) \in Nat /\ Len(o) \in Nat
<1> DEFINE T == WriteFrame(<<id, x>>)
<1>1. T \in Seq(Byte) /\ Len(T) = 4
  <2>1. id \in Byte
    BY RidByte DEF ReportId, REPORT_ID_CONTROL, Byte
  <2>2. QED
    BY <2>1, UpFrameShape
<1>2. WithFrame(o, id, x) = o \o T /\ WithFrame(r \o o, id, x) = (r \o o) \o T
  BY DEF WithFrame
<1> HIDE DEF T
<1>3. r \o (o \o T) = (r \o o) \o T
  BY <1>1, Associative
<1>4. Len(o \o T) = Len(o) + Len(T) /\ Len(o) \in Nat /\ Len(r) \in Nat
  <2>1. T \in Seq(Byte)
    BY <1>1
  <2>2. QED
    BY <2>1
<1>5. QED
  BY <1>1, <1>2, <1>3, <1>4

\* The 328p sends a report.
LEMMA UpSent ==
  ASSUME TypeOK, NEW b, Up(b), NEW v \in Byte, out' = WithFrame(out, DeviceRid, v),
         inReports' = inReports + 1, UNCHANGED <<rx, uState, uCount, currentEndpoint>>
  PROVE  Up(b)'
<1>1. PICK g, e, s : UpView(b, g, e, s)
  BY UpParts
<1>2. /\ s = rx \o out /\ s \in Seq(Byte) /\ Chain(s, g)
      /\ e = g[Len(s)] /\ e \in Point /\ g[0] \in Point
      /\ UpHere(g[0]) /\ g[0].read = b
      /\ e.st = 6 /\ e.credits = 0 /\ e.read = None
  BY <1>1 DEF UpView
<1>3. rx \in Seq(Byte) /\ out \in Seq(Byte) /\ uState \in 0..3 /\ inReports \in Int
  BY DEF TypeOK, UsbTypeOK, MainTypeOK
<1>4. PICK n : n = out'
  OBVIOUS
<1>5. /\ rx \o n = WithFrame(s, DeviceRid, v) /\ Len(n) = Len(out) + 4
      /\ Len(rx) \in Nat /\ Len(out) \in Nat
  BY <1>2, <1>3, <1>4, WithFrameOut
<1>6. PICK j, l : /\ Chain(WithFrame(s, DeviceRid, v), j)
                  /\ j[0] = Left(g[0], g[0].credits + 1, g[0].todo, g[0].read)
                  /\ j[Len(WithFrame(s, DeviceRid, v))] = l
                  /\ l.st = 6 /\ l.credits = 0 /\ l.read = e.read
  <2>1. s \in Seq(Byte) /\ Chain(s, g) /\ e = g[Len(s)] /\ e.st = 6 /\ e.credits = 0
    BY <1>2
  <2>2. QED
    BY <2>1, ReportAdded
<1>7. PICK p : p = j[0]
  OBVIOUS
<1>8. UpHere(p)' /\ p.read = b
  BY <1>2, <1>3, <1>6, <1>7 DEF UpHere, Left
<1>9. UpLengths(b)'
  <2>1. UpLengths(b)
    BY UpParts
  <2>2. Len(out') = Len(out) + 4 /\ Len(rx') = Len(rx) /\ uState' = uState
    BY <1>4, <1>5
  <2>3. PICK B : B = IF b = None THEN 0 ELSE 1
    OBVIOUS
  <2>4. B \in Int
    BY <2>3
  <2>5. uState + Len(rx) + Len(out) = 4 * (inReports + B)
    BY <2>1, <2>3 DEF UpLengths
  <2>6. uState' + Len(rx') + Len(out') = 4 * (inReports' + B)
    <3>1. ASSUME NEW u \in Int, NEW r \in Int, NEW o \in Int, NEW i \in Int,
                 u + r + o = 4 * (i + B)
          PROVE  u + r + (o + 4) = 4 * ((i + 1) + B)
      BY <2>4, <3>1
    <3>2. Len(rx) \in Int /\ Len(out) \in Int /\ uState \in Int /\ inReports \in Int
      BY <1>3, <1>5
    <3>3. uState + Len(rx) + (Len(out) + 4) = 4 * ((inReports + 1) + B)
      BY <2>5, <3>1, <3>2
    <3>4. QED
      BY <2>2, <3>3
  <2>7. QED
    BY <2>3, <2>6 DEF UpLengths
<1>10. Chain(rx' \o out', j) /\ j[0] = p /\ j[Len(rx' \o out')] = l
  BY <1>4, <1>5, <1>6, <1>7
<1>11. QED
  BY <1>2, <1>6, <1>8, <1>9, <1>10 DEF Up, UpLengths

\* The 328p answers a read.
LEMMA UpAnswered ==
  ASSUME TypeOK, Up(None), NEW c \in Byte, out' = WithFrame(out, REPORT_ID_CONTROL, c),
         UNCHANGED <<rx, uState, uCount, currentEndpoint, inReports>>
  PROVE  Up(c)'
<1>1. PICK g, e, s : UpView(None, g, e, s)
  BY UpParts
<1>2. /\ s = rx \o out /\ s \in Seq(Byte) /\ Chain(s, g)
      /\ e = g[Len(s)] /\ e \in Point /\ g[0] \in Point
      /\ UpHere(g[0]) /\ g[0].read = None
      /\ e.st = 6 /\ e.credits = 0 /\ e.read = None
  BY <1>1 DEF UpView
<1>3. rx \in Seq(Byte) /\ out \in Seq(Byte) /\ uState \in 0..3 /\ inReports \in Int
  BY DEF TypeOK, UsbTypeOK, MainTypeOK
<1>4. PICK n : n = out'
  OBVIOUS
<1>5. /\ rx \o n = WithFrame(s, REPORT_ID_CONTROL, c) /\ Len(n) = Len(out) + 4
      /\ Len(rx) \in Nat /\ Len(out) \in Nat
  BY <1>2, <1>3, <1>4, WithFrameOut
<1>6. PICK j, l : /\ Chain(WithFrame(s, REPORT_ID_CONTROL, c), j)
                  /\ j[0] = Left(g[0], g[0].credits, g[0].todo, c)
                  /\ j[Len(WithFrame(s, REPORT_ID_CONTROL, c))] = l
                  /\ l.st = 6 /\ l.credits = 0 /\ l.read = None
  <2>1. s \in Seq(Byte) /\ Chain(s, g) /\ e = g[Len(s)] /\ e.st = 6 /\ e.credits = 0 /\ g[0].read = None
    BY <1>2
  <2>2. QED
    BY <2>1, AnswerAdded
<1>7. PICK p : p = j[0]
  OBVIOUS
<1>8. UpHere(p)' /\ p.read = c
  BY <1>2, <1>3, <1>6, <1>7 DEF UpHere, Left
<1>9. UpLengths(c)'
  <2>1. UpLengths(None)
    BY UpParts
  <2>2. c # None
    BY DEF None, Byte
  <2>3. Len(out') = Len(out) + 4 /\ Len(rx') = Len(rx) /\ uState' = uState
    BY <1>4, <1>5
  <2>4. QED
    BY <1>3, <1>5, <2>1, <2>2, <2>3 DEF UpLengths
<1>10. Chain(rx' \o out', j) /\ j[0] = p /\ j[Len(rx' \o out')] = l
  BY <1>4, <1>5, <1>6, <1>7
<1>11. QED
  BY <1>2, <1>6, <1>8, <1>9, <1>10 DEF Up, UpLengths

------------------------------------------------------------------------------
\* Every step keeps what is under way in order.
LEMMA WiresInit == Init \/ SettledInit => Wires /\ SetupLong /\ ReplyMatches
<1> SUFFICES ASSUME Init \/ SettledInit PROVE Wires /\ SetupLong /\ ReplyMatches
  OBVIOUS
<1> DEFINE p == [st |-> 0, n |-> 0, c |-> 0, credits |-> 0, todo |-> << >>, read |-> None]
           q == [st |-> 6, n |-> 0, c |-> 0, credits |-> 0, todo |-> << >>, read |-> None]
           f == [i \in 0..0 |-> p]
           g == [i \in 0..0 |-> q]
           E == << >>
<1>1. p \in Point /\ q \in Point
  BY DEF Point
<1>2. /\ p.st = 0 /\ p.credits = 0 /\ p.todo = << >> /\ p.read = None
      /\ q.st = 6 /\ q.credits = 0 /\ q.read = None
  OBVIOUS
<1> HIDE DEF p, q
<1>3. f \in [0..0 -> Point] /\ f[0] = p /\ g \in [0..0 -> Point] /\ g[0] = q
  BY <1>1
<1> HIDE DEF f, g
<1>4. E \in Seq(Byte) /\ Len(E) = 0 /\ E \o E = E
  OBVIOUS
<1>5. Chain(E, f) /\ Chain(E, g)
  BY <1>3, <1>4 DEF Chain
<1>6. /\ in = E /\ tx = E /\ forward = E /\ rx = E /\ out = E /\ uPc = "loop" /\ setup.kind = "none"
      /\ mState = 0 /\ inDones = 0 /\ todo = E /\ uState = 0 /\ inReports = 0 /\ awaiting = None
      /\ busy = [e \in Endpoint |-> FALSE] /\ fifo = [e \in Endpoint |-> << >>]
      /\ reply = << >>
  BY DEF Init, SettledInit, MainInit, UsbInit, EnvInit, NoRequest
<1>7. busy[0] = FALSE /\ fifo[0] = << >>
  BY <1>6 DEF Endpoint
<1>8. DownHere(p) /\ DownEnd(p, FALSE) /\ Where(E, FALSE) /\ UpHere(q)
  BY <1>2, <1>6 DEF DownHere, DownEnd, Where, UpHere
<1> HIDE DEF E
<1>9. in \o (tx \o E) = E /\ rx \o out = E
  BY <1>4, <1>6
<1>10. Down(None)
  BY <1>2, <1>3, <1>4, <1>5, <1>8, <1>9 DEF Down
<1>11. Up(None)
  BY <1>2, <1>3, <1>4, <1>5, <1>6, <1>8, <1>9 DEF Up
<1>12. Token(None, None)
  BY <1>7 DEF Token
<1>13. SetupLong /\ ReplyMatches
  BY <1>6 DEF SetupLong, ReplyMatches
<1>14. QED
  BY <1>10, <1>11, <1>12, <1>13 DEF Wires

LEMMA TokenSame ==
  ASSUME NEW a, NEW b, Token(a, b), UNCHANGED <<awaiting, busy, fifo>>
  PROVE  Token(a, b)'
BY DEF Token

LEMMA WiresMainStep ==
  ASSUME TypeOK, Wires, MainStep PROVE Wires'
<1>1. PICK a, b : Down(a) /\ Up(b) /\ Token(a, b)
  BY DEF Wires
<1>2. UNCHANGED <<rx, uState, uCount, currentEndpoint, inReports, awaiting, busy, fifo>>
  BY DEF MainStep, usbVars, hostVars, frameVars, epVars
<1>3. CASE mState = 2
  <2>1. a = Head(in) /\ Down(None)'
    BY <1>1, <1>3, DownTake
  <2>2. in # << >> /\ out' = out \o WriteFrame(ReplyBody(Head(in)))
    BY <1>3 DEF MainStep, MainByte, MainStart, MainLength, MainRead, MainCommand, MainOffset,
       MainPayload, Receive, writeData
  <2>3. a \in Byte /\ a # None
    <3>1. in \in Seq(Byte)
      BY DEF TypeOK, MainTypeOK
    <3>2. a \in Byte
      BY <2>1, <2>2, <3>1
    <3>3. QED
      BY <3>2 DEF None, Byte
  <2>4. out' = WithFrame(out, REPORT_ID_CONTROL, a)
    BY <2>1, <2>2 DEF WithFrame, ReplyBody
  <2>5. b = None /\ a = awaiting /\ ~busy[0]
    BY <1>1, <2>3 DEF Token
  <2>6. Up(a)'
    BY <1>1, <1>2, <2>3, <2>4, <2>5, UpAnswered
  <2>7. Token(None, a)'
    BY <1>1, <1>2, <2>5 DEF Token
  <2>8. QED
    BY <2>1, <2>6, <2>7 DEF Wires
<1>4. CASE mState # 2
  <2>1. Down(a)'
    BY <1>1, <1>4, DownTake
  <2>2. UNCHANGED out
    BY <1>4 DEF MainStep, MainByte, MainStart, MainLength, MainRead, MainCommand, MainOffset, MainPayload
  <2>3. Up(b)'
    BY <1>1, <1>2, <2>2, UpSame
  <2>4. Token(a, b)'
    BY <1>1, <1>2, TokenSame
  <2>5. QED
    BY <2>1, <2>3, <2>4 DEF Wires
<1>5. QED
  BY <1>3, <1>4

\* The 328p sends a report, or nothing.
LEMMA PollStep ==
  ASSUME TypeOK, DeviceRid # REPORT_ID_MIDI, MainPoll
  PROVE  \/ /\ readyForPacket = TRUE /\ readyForPacket' = FALSE
            /\ out' = WithFrame(out, DeviceRid, input) /\ inReports' = inReports + 1
         \/ UNCHANGED <<readyForPacket, out, inReports>>
<1>1. CASE ReportDue(input)
  <2>1. readyForPacket = TRUE /\ readyForPacket' = FALSE /\ out' = out \o WriteFrame(ReportBody(input))
    BY <1>1 DEF MainPoll, MainTick, ReportDue, writeData, TypeOK, MainTypeOK
  <2>2. out' = WithFrame(out, DeviceRid, input)
    BY <2>1 DEF WithFrame, ReportBody
  <2>3. out' # out
    <3>1. out \in Seq(Byte) /\ input \in Byte
      BY InputsAssumption DEF TypeOK, MainTypeOK
    <3>2. Len(WithFrame(out, DeviceRid, input)) = Len(out) + 4 /\ Len(out) \in Nat
      BY <3>1, WithFrameOut
    <3>3. QED
      BY <2>2, <3>2
  <2>4. QED
    BY <2>1, <2>2, <2>3 DEF MainPoll
<1>2. CASE ~ReportDue(input)
  BY <1>2 DEF MainPoll, MainTick
<1>3. QED
  BY <1>1, <1>2

LEMMA WiresMainPoll ==
  ASSUME TypeOK, Wires, DeviceRid # REPORT_ID_MIDI, MainPoll PROVE Wires'
<1>1. PICK a, b : Down(a) /\ Up(b) /\ Token(a, b)
  BY DEF Wires
<1>2. /\ UNCHANGED <<rx, uState, uCount, currentEndpoint, awaiting, busy, fifo>>
      /\ UNCHANGED downVars
  BY DEF MainPoll, MainTick, usbVars, hostVars, frameVars, epVars, parseVars, downVars
<1>3. Down(a)'
  BY <1>1, <1>2, DownSame
<1>4. Token(a, b)'
  BY <1>1, <1>2, TokenSame
<1>5. input \in Byte
  BY InputsAssumption DEF TypeOK
<1>6. Up(b)'
  BY <1>1, <1>2, <1>5, PollStep, UpSent, UpSame
<1>7. QED
  BY <1>3, <1>4, <1>6 DEF Wires

\* FRAME_DONE is sent, or the 16u2 hangs over it, or it is not due.
LEMMA CheckStep ==
  ASSUME TypeOK, UsbStep, UsbIdle \/ UsbCheck
  PROVE  /\ uPc \in {"loop", "check"}
         /\ UNCHANGED <<in, out, rx, uState, uCount, currentEndpoint, forward, setup, mState, packetCount, cmd,
                        todo, inReports, awaiting, busy, fifo, readyForPacket, reply>>
         /\ \/ /\ checkEndpoint = TRUE /\ checkEndpoint' = FALSE /\ uPc' = "loop"
               /\ tx' = Append(tx, FRAME_DONE) /\ inDones' = inDones + 1
            \/ uPc' \in {"loop", "hung"} /\ UNCHANGED <<tx, inDones, checkEndpoint>>
<1>1. CheckEndpoint /\ UNCHANGED <<rx, frameVars, epVars, setup, forward>> /\ uPc \in {"loop", "check"}
  BY DEF UsbIdle, UsbCheck
<1>2. UNCHANGED <<in, out, rx, uState, uCount, currentEndpoint, forward, setup, mState, packetCount, cmd,
                  todo, inReports, awaiting, busy, fifo, readyForPacket, reply>>
  BY <1>1 DEF UsbStep, frameVars, epVars, mainVars, parseVars, hostVars, ghostVars
<1>3. checkEndpoint \in BOOLEAN
  BY DEF TypeOK, UsbTypeOK
<1>4. CASE DoneDue /\ 1 > (USB2USART_BUFLEN - 1) - Len(tx)
  <2>1. uPc' = "hung" /\ UNCHANGED tx /\ checkEndpoint' = TRUE /\ checkEndpoint = TRUE
    BY <1>1, <1>3, <1>4 DEF CheckEndpoint, UsbWriteData, DoneDue
  <2>2. QED
    BY <1>1, <1>2, <2>1 DEF UsbStep
<1>5. CASE DoneDue /\ ~(1 > (USB2USART_BUFLEN - 1) - Len(tx))
  <2>1. /\ uPc' = "loop" /\ tx' = Append(tx, FRAME_DONE)
        /\ checkEndpoint' = FALSE /\ checkEndpoint = TRUE
    BY <1>1, <1>3, <1>5 DEF CheckEndpoint, UsbWriteData, DoneDue
  <2>2. QED
    BY <1>1, <1>2, <2>1 DEF UsbStep
<1>6. CASE ~DoneDue
  <2>1. uPc' = "loop" /\ UNCHANGED <<tx, checkEndpoint>>
    BY <1>1, <1>6 DEF CheckEndpoint
  <2>2. QED
    BY <1>1, <1>2, <2>1 DEF UsbStep
<1>7. QED
  BY <1>4, <1>5, <1>6

\* The other steps of the USB task.
LEMMA TaskStep ==
  ASSUME TypeOK, UsbStep, deviceControlRequest \/ UsbForward \/ UsbEndRequest
  PROVE  UNCHANGED <<in, out, rx, uState, uCount, currentEndpoint, checkEndpoint, mState, packetCount, cmd,
                     todo, inReports, inDones, awaiting, busy, fifo, readyForPacket, reply>>
<1>1. UNCHANGED <<rx, frameVars, checkEndpoint, epVars>>
  BY DEF deviceControlRequest, UsbForward, UsbEndRequest
<1>2. QED
  BY <1>1 DEF UsbStep, frameVars, epVars, mainVars, parseVars, hostVars, ghostVars

\* A byte from the 328p.
LEMMA ByteStep ==
  ASSUME TypeOK, UsbStep, UsbByte
  PROVE  /\ rx # << >>
         /\ UNCHANGED <<in, out, tx, uPc, forward, setup, mState, packetCount, cmd, todo, inDones, awaiting,
                        readyForPacket, reply>>
         /\ inReports' = IF uState = 3 /\ uState' = 0 /\ currentEndpoint # ENDPOINT_CONTROLEP
                           THEN inReports - 1 ELSE inReports
         /\ uState = 3 /\ uState' = 0 /\ currentEndpoint # 0 => checkEndpoint' = TRUE
         /\ ~(uState = 3 /\ uState' = 0 /\ currentEndpoint # 0) => checkEndpoint' = checkEndpoint
<1>1. rx # << >> /\ UNCHANGED <<tx, uPc, setup, forward>>
  BY DEF UsbByte, UsbStart, UsbLength, UsbReportId, UsbBody, Take
<1>2. /\ UNCHANGED <<in, out, mState, packetCount, cmd, todo, awaiting, readyForPacket, reply>>
      /\ inReports' = IF uState = 3 /\ uState' = 0 /\ currentEndpoint # ENDPOINT_CONTROLEP
                        THEN inReports - 1 ELSE inReports
  BY DEF UsbStep, mainVars, parseVars, hostVars
<1>3. checkEndpoint \in BOOLEAN
  BY DEF TypeOK, UsbTypeOK
<1>4. CASE UsbStart \/ UsbLength \/ UsbReportId
  <2>1. UNCHANGED checkEndpoint /\ uState # 3
    BY <1>4 DEF UsbStart, UsbLength, UsbReportId
  <2>2. UNCHANGED inDones
    BY <2>1, <1>3 DEF UsbStep
  <2>3. QED
    BY <1>1, <1>2, <2>1, <2>2
<1>5. CASE UsbBody
  <2>1. CASE uCount' = 0
    <3>1. /\ checkEndpoint' = (checkEndpoint \/ IsReport(currentEndpoint)) /\ uState' = 0 /\ uState = 3
      BY <1>5, <2>1 DEF UsbBody
    <3>2. /\ currentEndpoint # 0 => checkEndpoint' = TRUE
          /\ currentEndpoint = 0 => checkEndpoint' = checkEndpoint
      BY <1>3, <3>1 DEF IsReport, ENDPOINT_CONTROLEP
    <3>3. UNCHANGED inDones
      BY <3>1 DEF UsbStep
    <3>4. QED
      BY <1>1, <1>2, <3>1, <3>2, <3>3
  <2>2. CASE uCount' # 0
    <3>1. UNCHANGED <<checkEndpoint, uState>> /\ uState = 3
      BY <1>5, <2>2 DEF UsbBody
    <3>2. UNCHANGED inDones
      BY <3>1, <1>3 DEF UsbStep
    <3>3. QED
      BY <1>1, <1>2, <3>1, <3>2
  <2>3. QED
    BY <2>1, <2>2
<1>6. QED
  BY <1>4, <1>5 DEF UsbByte

LEMMA WiresUsbStep ==
  ASSUME TypeOK, SetupLong, Wires, UsbStep PROVE Wires'
<1>1. PICK a, b : Down(a) /\ Up(b) /\ Token(a, b)
  BY DEF Wires
<1>2. CASE UsbByte
  <2>1. /\ rx # << >> /\ UNCHANGED downVars /\ UNCHANGED <<out, awaiting>>
        /\ inReports' = IF uState = 3 /\ uState' = 0 /\ currentEndpoint # ENDPOINT_CONTROLEP
                          THEN inReports - 1 ELSE inReports
    BY <1>2, ByteStep DEF downVars
  <2>2. Down(a)'
    BY <1>1, <2>1, DownSame
  <2>3. /\ ~AnswerByte => Up(b)'
        /\ AnswerByte => b = Head(rx) /\ Up(None)'
        /\ uState = 3 => uCount = 1
        /\ uState = 2 => Head(rx) \in {DeviceRid, REPORT_ID_CONTROL}
    BY <1>1, <1>2, <2>1, UpTake
  <2>4. /\ ~AnswerByte => fifo'[0] = fifo[0] /\ busy'[0] = busy[0]
        /\ AnswerByte /\ ~busy[0] /\ fifo[0] = << >> => busy'[0] /\ fifo'[0] = <<Head(rx)>>
    <3>1. UsbTypeOK
      BY DEF TypeOK
    <3>2. QED
      BY <1>2, <2>1, <2>3, <3>1, BankTake
  <2>5. CASE ~AnswerByte
    <3>1. Token(a, b)'
      BY <1>1, <2>1, <2>4, <2>5 DEF Token
    <3>2. QED
      BY <2>2, <2>3, <2>5, <3>1 DEF Wires
  <2>6. CASE AnswerByte
    <3>1. b = Head(rx) /\ b # None
      <4>1. rx \in Seq(Byte)
        BY DEF TypeOK, UsbTypeOK
      <4>2. Head(rx) \in Byte
        BY <2>1, <4>1
      <4>3. QED
        BY <2>3, <2>6, <4>2 DEF None, Byte
    <3>2. b = awaiting /\ ~busy[0] /\ fifo[0] = << >> /\ a = None
      BY <1>1, <3>1 DEF Token
    <3>3. busy'[0] /\ fifo'[0] = <<awaiting>>
      BY <2>4, <2>6, <3>1, <3>2
    <3>4. Token(None, None)'
      BY <2>1, <3>1, <3>2, <3>3 DEF Token
    <3>5. QED
      BY <2>2, <2>3, <2>6, <3>2, <3>4 DEF Wires
  <2>7. QED
    BY <2>5, <2>6
<1>3. ASSUME Down(a)', UNCHANGED <<out, rx, uState, uCount, currentEndpoint, inReports, awaiting, busy, fifo>>
      PROVE  Wires'
  <2>1. Up(b)'
    BY <1>1, <1>3, UpSame
  <2>2. Token(a, b)'
    BY <1>1, <1>3, TokenSame
  <2>3. QED
    BY <1>3, <2>1, <2>2 DEF Wires
<1>4. CASE UsbIdle \/ UsbCheck
  <2>1. /\ uPc \in {"loop", "check"}
        /\ UNCHANGED <<in, out, rx, uState, uCount, currentEndpoint, forward, setup, mState, packetCount, cmd,
                       todo, inReports, awaiting, busy, fifo>>
        /\ \/ uPc' = "loop" /\ tx' = Append(tx, FRAME_DONE) /\ inDones' = inDones + 1
           \/ uPc' \in {"loop", "hung"} /\ UNCHANGED <<tx, inDones>>
    BY <1>4, CheckStep
  <2>2. CASE uPc' = "loop" /\ tx' = Append(tx, FRAME_DONE) /\ inDones' = inDones + 1
    BY <1>1, <1>3, <2>1, <2>2, DownDone
  <2>3. CASE uPc' \in {"loop", "hung"} /\ UNCHANGED <<tx, inDones>>
    BY <1>1, <1>3, <2>1, <2>3, DownPc
  <2>4. QED
    BY <2>1, <2>2, <2>3
<1>5. CASE deviceControlRequest
  BY <1>1, <1>3, <1>5, TaskStep, DownRequest
<1>6. CASE UsbForward
  BY <1>1, <1>3, <1>6, TaskStep, DownForward
<1>7. CASE UsbEndRequest
  BY <1>1, <1>3, <1>7, TaskStep, DownEndRequest
<1>8. QED
  BY <1>2, <1>4, <1>5, <1>6, <1>7 DEF UsbStep, UsbLoop

LEMMA WiresHostWrite ==
  ASSUME TypeOK, WellFormed, Wires, HostWrite PROVE Wires' /\ SetupLong'
<1>1. PICK a, b : Down(a) /\ Up(b) /\ Token(a, b)
  BY DEF Wires
<1>2. PICK w \in Writes : /\ setup' = [kind |-> "set", cmd |-> w.cmd, data |-> w.data]
                          /\ todo' = Append(todo, w.cmd)
  BY DEF HostWrite
<1>3. w.cmd \in Byte /\ LongEnough(w.cmd, w.data)
  BY HostAssumption DEF WellFormed
<1>4. setup.kind = "none" /\ setup'.kind = "set" /\ setup'.cmd = w.cmd /\ setup'.data = w.data
  BY <1>2 DEF HostWrite, ControlPipeFree
<1>5. /\ UNCHANGED <<in, tx, uPc, forward, mState, packetCount, cmd, inDones>>
      /\ UNCHANGED <<out, rx, uState, uCount, currentEndpoint, inReports, awaiting, busy, fifo>>
  BY DEF HostWrite, mainVars, parseVars, frameVars, epVars
<1>6. Down(a)'
  <2>1. PICK c : c = w.cmd
    OBVIOUS
  <2>2. c \in Byte /\ setup'.cmd = c /\ todo' = Append(todo, c)
    BY <1>2, <1>3, <1>4, <2>1
  <2>3. QED
    BY <1>1, <1>4, <1>5, <2>2, DownHostWrite
<1>7. Up(b)'
  BY <1>1, <1>5, UpSame
<1>8. Token(a, b)'
  BY <1>1, <1>5, TokenSame
<1>9. SetupLong'
  BY <1>3, <1>4 DEF SetupLong
<1>10. QED
  BY <1>6, <1>7, <1>8, <1>9 DEF Wires

LEMMA WiresHostRead ==
  ASSUME TypeOK, Wires, HostRead PROVE Wires' /\ SetupLong'
<1>1. PICK a, b : Down(a) /\ Up(b) /\ Token(a, b)
  BY DEF Wires
<1>2. PICK c \in Reads : setup' = [kind |-> "get", cmd |-> c, data |-> << >>] /\ awaiting' = c
  BY DEF HostRead
<1>3. c \in Byte
  BY HostAssumption
<1>4. setup.kind = "none" /\ awaiting = None /\ setup'.kind = "get" /\ setup'.cmd = c
  BY <1>2 DEF HostRead, ControlPipeFree
<1>5. /\ UNCHANGED <<in, tx, uPc, forward, mState, packetCount, cmd, inDones, todo>>
      /\ UNCHANGED <<out, rx, uState, uCount, currentEndpoint, inReports, busy, fifo>>
  BY DEF HostRead, mainVars, parseVars, frameVars, epVars, ghostVars
<1>6. a = None /\ b = None /\ ~busy[0] /\ fifo[0] = << >>
  BY <1>1, <1>4 DEF Token
<1>7. Down(c)'
  BY <1>1, <1>3, <1>4, <1>5, <1>6, DownHostRead
<1>8. Up(None)'
  BY <1>1, <1>5, <1>6, UpSame
<1>9. Token(c, None)'
  BY <1>2, <1>5, <1>6 DEF Token
<1>10. SetupLong'
  BY <1>4 DEF SetupLong
<1>11. QED
  BY <1>7, <1>8, <1>9, <1>10 DEF Wires

LEMMA WiresHostCollect ==
  ASSUME TypeOK, Wires, ReplyMatches, NEW e \in Endpoint, HostCollect(e) PROVE Wires' /\ ReplyMatches'
<1>1. PICK a, b : Down(a) /\ Up(b) /\ Token(a, b)
  BY DEF Wires
<1>2. /\ UNCHANGED downVars
      /\ UNCHANGED <<out, rx, uState, uCount, currentEndpoint, inReports>>
  BY DEF HostCollect, mainVars, parseVars, frameVars, ghostVars, downVars
<1>3. Down(a)' /\ Up(b)'
  BY <1>1, <1>2, DownSame, UpSame
<1>4. /\ busy \in [Endpoint -> BOOLEAN] /\ fifo \in [Endpoint -> Seq(Byte)] /\ 0 \in Endpoint
      /\ busy[e] /\ busy' = [busy EXCEPT ![e] = FALSE] /\ fifo' = [fifo EXCEPT ![e] = << >>]
  BY DEF HostCollect, TypeOK, UsbTypeOK, Endpoint
<1>5. CASE e = 0
  <2>1. fifo[0] = <<awaiting>> /\ a = None /\ b = None
    BY <1>1, <1>4, <1>5 DEF Token
  <2>2. awaiting' = None /\ reply' = <<awaiting, fifo[0]>>
    BY <1>5 DEF HostCollect, ENDPOINT_CONTROLEP
  <2>3. busy'[0] = FALSE /\ fifo'[0] = << >>
    BY <1>4, <1>5
  <2>4. Token(None, None)'
    BY <2>2, <2>3 DEF Token
  <2>5. reply'[1] = awaiting /\ reply'[2] = fifo[0]
    BY <2>2
  <2>6. ReplyMatches'
    BY <2>1, <2>5 DEF ReplyMatches
  <2>7. QED
    BY <1>3, <2>1, <2>4, <2>6 DEF Wires
<1>6. CASE e # 0
  <2>1. UNCHANGED <<awaiting, reply>>
    BY <1>6 DEF HostCollect, ENDPOINT_CONTROLEP
  <2>2. busy'[0] = busy[0] /\ fifo'[0] = fifo[0]
    BY <1>4, <1>6
  <2>3. Token(a, b)'
    BY <1>1, <2>1, <2>2 DEF Token
  <2>4. ReplyMatches'
    BY <2>1 DEF ReplyMatches
  <2>5. QED
    BY <1>3, <2>3, <2>4 DEF Wires
<1>7. QED
  BY <1>5, <1>6

LEMMA BridgeStep ==
  ASSUME WellFormed, BridgeInv, [Next]_vars PROVE BridgeInv'
<1>0. TypeOK /\ SetupLong /\ ReplyMatches /\ Wires
  BY DEF BridgeInv
<1>1. TypeOK'
  BY <1>0, NextType
<1>2. SUFFICES SetupLong' /\ ReplyMatches' /\ Wires'
  BY <1>1 DEF BridgeInv
<1>3. CASE MainStep
  BY <1>0, <1>3, WiresMainStep DEF MainStep, usbVars, hostVars, SetupLong, ReplyMatches
<1>4. CASE MainPoll
  BY <1>0, <1>4, WiresMainPoll DEF MainPoll, usbVars, hostVars, SetupLong, ReplyMatches, WellFormed
<1>5. CASE UsbStep
  <2>1. UNCHANGED reply
    BY <1>5 DEF UsbStep, hostVars
  <2>2. UNCHANGED setup \/ setup' = NoRequest
    BY <1>5 DEF UsbStep, UsbLoop, UsbByte, UsbStart, UsbLength, UsbReportId, UsbBody, UsbIdle,
       deviceControlRequest, UsbForward, UsbEndRequest, UsbCheck
  <2>3. SetupLong'
    BY <1>0, <2>2 DEF SetupLong, NoRequest
  <2>4. QED
    BY <1>0, <1>5, <2>1, <2>3, WiresUsbStep DEF ReplyMatches
<1>6. ASSUME UNCHANGED <<setup, reply, awaiting, busy, fifo>>,
             NEW a, NEW b, Token(a, b), Down(a)', Up(b)'
      PROVE  SetupLong' /\ ReplyMatches' /\ Wires'
  BY <1>0, <1>6, TokenSame DEF SetupLong, ReplyMatches, Wires
<1>7. PICK a, b : Down(a) /\ Up(b) /\ Token(a, b)
  BY <1>0 DEF Wires
<1>8. CASE UartToUsb
  <2>1. UNCHANGED <<setup, reply, awaiting, busy, fifo>> /\ UNCHANGED downVars
    BY <1>8 DEF UartToUsb, hostVars, ghostVars, epVars, parseVars, downVars
  <2>2. QED
    BY <1>0, <1>6, <1>7, <1>8, <2>1, UpMove, DownSame
<1>9. CASE UartToMain
  <2>1. /\ UNCHANGED <<setup, reply, awaiting, busy, fifo>>
        /\ UNCHANGED <<rx, out, uState, uCount, currentEndpoint, inReports>>
    BY <1>9 DEF UartToMain, hostVars, ghostVars, epVars, frameVars
  <2>2. QED
    BY <1>0, <1>6, <1>7, <1>9, <2>1, DownMove, UpSame
<1>10. CASE Enumerate \/ ChangeInput \/ UNCHANGED vars
  <2>1. /\ UNCHANGED <<setup, reply, awaiting, busy, fifo>> /\ UNCHANGED downVars
        /\ UNCHANGED <<rx, out, uState, uCount, currentEndpoint, inReports>>
    BY <1>10 DEF Enumerate, UsbConfigured, ChangeInput, vars, mainVars, usbVars, hostVars, ghostVars,
       epVars, frameVars, parseVars, downVars
  <2>2. QED
    BY <1>6, <1>7, <2>1, DownSame, UpSame
<1>11. CASE HostWrite
  BY <1>0, <1>11, WiresHostWrite DEF HostWrite, ReplyMatches
<1>12. CASE HostRead
  BY <1>0, <1>12, WiresHostRead DEF HostRead, ReplyMatches
<1>13. ASSUME NEW e \in Endpoint, HostCollect(e) PROVE SetupLong' /\ ReplyMatches' /\ Wires'
  BY <1>0, <1>13, WiresHostCollect DEF HostCollect, SetupLong
<1>14. QED
  BY <1>3, <1>4, <1>5, <1>8, <1>9, <1>10, <1>11, <1>12, <1>13 DEF Next

------------------------------------------------------------------------------
\* What the invariant says of the two parsers.
LEMMA DownInStep ==
  ASSUME TypeOK, NEW a, Down(a)
  PROVE  /\ mState = 0 /\ in # << >> => Head(in) \in Markers
         /\ in = << >> /\ tx = << >> /\ uPc \notin {"control", "hung"} => mState = 0
<1>1. PICK rest, sent, f, e, s : DownView(a, rest, sent, f, e, s)
  BY DownParts
<1>2. /\ rest \in Seq(Byte) /\ sent \in BOOLEAN
      /\ s = in \o (tx \o rest) /\ s \in Seq(Byte) /\ Chain(s, f)
      /\ e = f[Len(s)] /\ e \in Point /\ f[0] \in Point
      /\ DownHere(f[0]) /\ f[0].read = a /\ DownEnd(e, sent) /\ Where(rest, sent)
  BY <1>1 DEF DownView
<1>3. in \in Seq(Byte) /\ tx \in Seq(Byte)
  BY DEF TypeOK, MainTypeOK, UsbTypeOK
<1>4. ASSUME mState = 0, in # << >> PROVE Head(in) \in Markers
  <2>1. tx \o rest \in Seq(Byte)
    BY <1>2, <1>3, JoinBytes
  <2>2. s # << >> /\ Head(s) = Head(in)
    BY <1>2, <1>3, <1>4, <2>1, Streams
  <2>3. s \in Seq(Byte) /\ Chain(s, f)
    BY <1>2
  <2>4. Goes(f[0], Head(in), f[1])
    BY <2>2, <2>3, ChainTake
  <2>5. f[0].st = 0
    BY <1>2, <1>4 DEF DownHere
  <2>6. QED
    BY <2>4, <2>5 DEF Goes, GoesDone, GoesStart, GoesLength, GoesAsk, GoesCommand, GoesOffset,
       GoesPayload, GoesLast, UpStart, UpLength, UpId, UpReport, UpReply, Markers
<1>5. ASSUME in = << >>, tx = << >>, uPc \notin {"control", "hung"} PROVE mState = 0
  <2>1. rest = << >>
    BY <1>2, <1>5 DEF Where
  <2>2. Len(s) = 0
    BY <1>2, <1>5, <2>1
  <2>3. QED
    BY <1>2, <2>2 DEF DownHere, DownEnd
<1>6. QED
  BY <1>4, <1>5

LEMMA UpInStep ==
  ASSUME TypeOK, NEW b, Up(b), uState = 0, rx # << >> PROVE Head(rx) = FRAME_START_WRITE
<1>1. PICK g, e, s : UpView(b, g, e, s)
  BY UpParts
<1>2. s = rx \o out /\ s \in Seq(Byte) /\ Chain(s, g) /\ UpHere(g[0])
  BY <1>1 DEF UpView
<1>3. rx \in Seq(Byte) /\ out \in Seq(Byte)
  BY DEF TypeOK, MainTypeOK, UsbTypeOK
<1>4. s # << >> /\ Head(s) = Head(rx)
  BY <1>2, <1>3, Streams
<1>5. Goes(g[0], Head(rx), g[1])
  BY <1>2, <1>4, ChainTake
<1>6. g[0].st = 6
  BY <1>2 DEF UpHere
<1>7. QED
  BY <1>5, <1>6 DEF Goes, GoesDone, GoesStart, GoesLength, GoesAsk, GoesCommand, GoesOffset,
     GoesPayload, GoesLast, UpStart, UpLength, UpId, UpReport, UpReply

LEMMA InStep ==
  ASSUME BridgeInv, uPc # "hung" PROVE FrameSync
<1>1. PICK a, b : Down(a) /\ Up(b)
  BY DEF BridgeInv, Wires
<1>2. TypeOK
  BY DEF BridgeInv
<1>3. QED
  BY <1>1, <1>2, DownInStep, UpInStep DEF FrameSync, Markers

LEMMA BridgeInit == Init \/ SettledInit => BridgeInv
BY InitType, WiresInit DEF BridgeInv

\* The two parsers of an Uno stay in step for ever: however FRAME_DONE, control
\* requests, reports and replies interleave on the UART, and whatever bytes they
\* carry, a parser at rest finds a marker next and the 328p's comes to rest when
\* everything has been read, unless the 16u2 stopped in the middle of a frame
\* (device_comms.h:53).
THEOREM ParsersInStep == WellFormed => (Spec => [](uPc # "hung" => FrameSync))
<1> SUFFICES ASSUME WellFormed PROVE Spec => [](uPc # "hung" => FrameSync)
  OBVIOUS
<1>1. BridgeInv /\ [Next]_vars => BridgeInv'
  BY BridgeStep
<1>2. BridgeInv => (uPc # "hung" => FrameSync)
  BY InStep
<1>3. QED
  BY BridgeInit, <1>1, <1>2, PTL DEF Spec

\* The data of a control read are always the answer to that very command
\* (usb/main.c: the bytes of endpoint 0's bank), even with reports in between.
THEOREM AnswersMatch == WellFormed => (Spec => []ReplyMatches)
<1> SUFFICES ASSUME WellFormed PROVE Spec => []ReplyMatches
  OBVIOUS
<1>1. BridgeInv /\ [Next]_vars => BridgeInv'
  BY BridgeStep
<1>2. BridgeInv => ReplyMatches
  BY DEF BridgeInv
<1>3. QED
  BY BridgeInit, <1>1, <1>2, PTL DEF Spec

\* A frame ends (main.c state 7) exactly as the oldest outstanding write of the
\* host, never as another one or as none.
THEOREM ExecutedInOrder == WellFormed => (Spec => WritesInOrder)
<1> SUFFICES ASSUME WellFormed PROVE Spec => WritesInOrder
  OBVIOUS
<1>1. BridgeInv /\ [Next]_vars => BridgeInv'
  BY BridgeStep
<1>2. BridgeInv /\ [Next]_vars => [mState = 5 /\ mState' = 0 => todo # << >> /\ cmd = Head(todo)]_vars
  <2> SUFFICES ASSUME BridgeInv, Next, mState = 5, mState' = 0 PROVE todo # << >> /\ cmd = Head(todo)
    OBVIOUS
  <2>1. MainStep
    BY DEF Next, MainPoll, MainTick, UsbStep, UartToUsb, UartToMain, Enumerate, ChangeInput, HostWrite,
       HostRead, HostCollect, mainVars, parseVars
  <2>2. PICK a : Down(a)
    BY DEF BridgeInv, Wires
  <2>3. QED
    BY <2>1, <2>2, DownTake DEF BridgeInv
<1>3. QED
  BY BridgeInit, <1>1, <1>2, PTL DEF Spec, WritesInOrder

------------------------------------------------------------------------------
\* The account of the permissions to send, with what is proved about it.
Account == INSTANCE ReportCreditProofs WITH
  ready <- readyForPacket, reports <- inReports, check <- checkEndpoint, dones <- inDones

LEMMA AccountStep ==
  ASSUME WellFormed, BridgeInv, [Next]_vars
  PROVE  [Credit!Next]_<<readyForPacket, inReports, checkEndpoint, inDones>>
<1>0. TypeOK
  BY DEF BridgeInv
<1>1. PICK a, b : Down(a) /\ Up(b)
  BY DEF BridgeInv, Wires
<1>2. CASE MainStep
  <2>1. mState = 0 => Head(in) \in Markers /\ (Head(in) = FRAME_DONE => inDones > 0)
    BY <1>0, <1>1, <1>2, DownTake
  <2>2. UNCHANGED <<inReports, checkEndpoint>>
    BY <1>2 DEF MainStep, usbVars
  <2>3. readyForPacket \in BOOLEAN
    BY <1>0 DEF TypeOK, MainTypeOK
  <2>4. CASE mState = 0 /\ Head(in) = FRAME_DONE
    <3>1. readyForPacket' = TRUE /\ inDones' = inDones - 1
      <4>1. MainStart /\ inDones' = inDones - 1
        BY <1>2, <2>4 DEF MainStep, MainByte, MainLength, MainRead, MainCommand, MainOffset, MainPayload
      <4>2. readyForPacket' = (readyForPacket \/ Head(in) = FRAME_DONE)
        BY <4>1 DEF MainStart
      <4>3. QED
        BY <2>3, <2>4, <4>1, <4>2, Zenon
    <3>2. Credit!ReceiveDone
      BY <2>1, <2>2, <2>4, <3>1 DEF Credit!ReceiveDone
    <3>3. QED
      BY <3>2 DEF Credit!Next
  <2>5. CASE ~(mState = 0 /\ Head(in) = FRAME_DONE)
    <3>1. UNCHANGED inDones
      BY <1>2, <2>5 DEF MainStep
    <3>2. UNCHANGED readyForPacket
      BY <1>2, <2>3, <2>5 DEF MainStep, MainByte, MainStart, MainLength, MainRead, MainCommand, MainOffset,
         MainPayload
    <3>3. QED
      BY <2>2, <3>1, <3>2
  <2>6. QED
    BY <2>4, <2>5
<1>3. CASE MainPoll
  <2>1. UNCHANGED <<checkEndpoint, inDones>>
    BY <1>3 DEF MainPoll, usbVars
  <2>2. \/ readyForPacket = TRUE /\ readyForPacket' = FALSE /\ inReports' = inReports + 1
        \/ UNCHANGED <<readyForPacket, inReports>>
    BY <1>0, <1>3, PollStep DEF WellFormed
  <2>3. QED
    BY <2>1, <2>2 DEF Credit!Next, Credit!SendReport
<1>4. CASE UsbStep /\ UsbByte
  <2>1. /\ UNCHANGED <<readyForPacket, inDones, out>>
        /\ inReports' = IF uState = 3 /\ uState' = 0 /\ currentEndpoint # ENDPOINT_CONTROLEP
                          THEN inReports - 1 ELSE inReports
        /\ uState = 3 /\ uState' = 0 /\ currentEndpoint # 0 => checkEndpoint' = TRUE
        /\ ~(uState = 3 /\ uState' = 0 /\ currentEndpoint # 0) => checkEndpoint' = checkEndpoint
    BY <1>0, <1>4, ByteStep
  <2>2. CASE uState = 3 /\ uState' = 0 /\ currentEndpoint # 0
    <3>1. inReports > 0
      BY <1>0, <1>1, <1>4, <2>1, <2>2, UpTake
    <3>2. inReports' = inReports - 1 /\ checkEndpoint' = TRUE
      BY <2>1, <2>2 DEF ENDPOINT_CONTROLEP
    <3>3. Credit!FinishReport
      BY <2>1, <3>1, <3>2 DEF Credit!FinishReport
    <3>4. QED
      BY <3>3 DEF Credit!Next
  <2>3. CASE ~(uState = 3 /\ uState' = 0 /\ currentEndpoint # 0)
    <3>1. inReports' = inReports /\ checkEndpoint' = checkEndpoint
      BY <2>1, <2>3 DEF ENDPOINT_CONTROLEP
    <3>2. QED
      BY <2>1, <3>1
  <2>4. QED
    BY <2>2, <2>3
<1>5. CASE UsbStep /\ (UsbIdle \/ UsbCheck)
  <2>1. /\ UNCHANGED <<readyForPacket, inReports>>
        /\ \/ checkEndpoint = TRUE /\ checkEndpoint' = FALSE /\ inDones' = inDones + 1
           \/ UNCHANGED <<inDones, checkEndpoint>>
    BY <1>0, <1>5, CheckStep
  <2>2. QED
    BY <2>1 DEF Credit!Next, Credit!SendDone
<1>6. CASE UsbStep /\ (deviceControlRequest \/ UsbForward \/ UsbEndRequest)
  BY <1>0, <1>6, TaskStep
<1>7. CASE ~MainStep /\ ~MainPoll /\ ~UsbStep
  BY <1>7 DEF Next, UartToUsb, UartToMain, Enumerate, UsbConfigured, ChangeInput, HostWrite, HostRead,
     HostCollect, vars, mainVars, usbVars, ghostVars
<1>8. QED
  BY <1>2, <1>3, <1>4, <1>5, <1>6, <1>7 DEF UsbStep, UsbLoop

LEMMA AccountInit == Init => Credit!Init
BY DEF Init, MainInit, UsbInit, EnvInit, Credit!Init

\* The two main loops implement the account: readyForPacket and checkEndpoint
\* hand the permission to send back and forth as ReportCredit says, whatever else
\* is on the wires.
THEOREM ImplementsCredit == WellFormed => (Spec => CreditSpec)
<1> SUFFICES ASSUME WellFormed PROVE Spec => CreditSpec
  OBVIOUS
<1>1. BridgeInv /\ [Next]_vars => BridgeInv'
  BY BridgeStep
<1>2. BridgeInv /\ [Next]_vars => [Credit!Next]_(Credit!vars)
  BY AccountStep DEF Credit!vars
<1>3. QED
  BY BridgeInit, AccountInit, <1>1, <1>2, PTL DEF Spec, CreditSpec, Credit!Spec

\* The bytes on their way to the 16u2: four for each report and for the answer,
\* of which there are two and one at most, so neither ring, which nothing else
\* protects (RingBuffer_Insert, USART1_RX_vect), is ever offered more.
THEOREM UplinkFits == WellFormed => (Spec => []UplinkBounded)
<1> DEFINE Inv == BridgeInv /\ Account!Inv
<1> SUFFICES ASSUME WellFormed PROVE Spec => []UplinkBounded
  OBVIOUS
<1>1. Init => Inv
  <2>1. Init => Account!Init
    BY DEF Init, MainInit, UsbInit, EnvInit, Account!Init
  <2>2. QED
    BY <2>1, BridgeInit, Account!InitInv
<1>2. Inv /\ [Next]_vars => Inv'
  <2> SUFFICES ASSUME Inv, [Next]_vars PROVE Inv'
    OBVIOUS
  <2>1. BridgeInv'
    BY BridgeStep
  <2>2. [Credit!Next]_<<readyForPacket, inReports, checkEndpoint, inDones>>
    BY AccountStep
  <2>3. [Account!Next]_(Account!vars)
    BY <2>2 DEF Credit!Next, Credit!SendReport, Credit!FinishReport, Credit!SendDone, Credit!ReceiveDone,
       Account!Next, Account!SendReport, Account!FinishReport, Account!SendDone, Account!ReceiveDone,
       Account!vars
  <2>4. Account!Inv'
    BY <2>3, Account!NextInv
  <2>5. QED
    BY <2>1, <2>4
<1>3. Inv => UplinkBounded
  <2> SUFFICES ASSUME Inv PROVE UplinkBounded
    OBVIOUS
  <2>1. TypeOK /\ \E b : Up(b)
    BY DEF BridgeInv, Wires
  <2>2. PICK b : Up(b)
    BY <2>1
  <2>3. UpLengths(b)
    BY <2>1, <2>2, UpParts
  <2>4. inReports \in Nat /\ inReports <= 2
    BY DEF Account!Inv, Account!TypeOK, Account!CreditBound, Account!Credits, Account!Held
  <2>5. Len(rx) \in Nat /\ Len(out) \in Nat /\ uState \in 0..3
    BY <2>1 DEF TypeOK, MainTypeOK, UsbTypeOK
  <2>6. Len(out) + Len(rx) <= 12
    <3>1. PICK B : B = IF b = None THEN 0 ELSE 1
      OBVIOUS
    <3>2. B \in 0..1
      BY <3>1
    <3>3. uState + Len(rx) + Len(out) = 4 * (inReports + B)
      BY <2>3, <3>1 DEF UpLengths
    <3>4. QED
      BY <2>4, <2>5, <3>2, <3>3
  <2>7. Len(WriteFrame(<<DeviceRid, 0>>)) = 4 /\ Len(WriteFrame(ReplyBody(0))) = 4
    <3>1. DeviceRid \in Byte /\ REPORT_ID_CONTROL \in Byte /\ 0 \in Byte
      BY RidByte DEF REPORT_ID_CONTROL, Byte
    <3>2. Len(WriteFrame(<<DeviceRid, 0>>)) = 4 /\ Len(WriteFrame(<<REPORT_ID_CONTROL, 0>>)) = 4
      BY <3>1, UpFrameShape
    <3>3. QED
      BY <3>2 DEF ReplyBody
  <2>8. QED
    <3>1. PICK x, y : x = Len(WriteFrame(<<DeviceRid, 0>>)) /\ y = Len(WriteFrame(ReplyBody(0)))
      OBVIOUS
    <3>2. x = 4 /\ y = 4
      BY <2>7, <3>1, Zenon
    <3>3. Len(out) + Len(rx) <= 2 * x + y
      BY <2>5, <2>6, <3>2
    <3>4. QED
      BY <3>1, <3>3, Zenon DEF UplinkBounded
<1>4. QED
  BY <1>1, <1>2, <1>3, PTL DEF Spec

------------------------------------------------------------------------------
\* A settled bridge whose host never reads: a single permission is about, the
\* endpoint is the device's, and it is ready unless the 16u2 is waiting for it.
Free == checkEndpoint = TRUE \/ busy[DeviceEp] = FALSE
Silent == awaiting = None /\ configured = TRUE /\ currentEndpoint = DeviceEp /\ Free
SettledInv == BridgeInv /\ Silent /\ Account!Single

LEMMA SettledStart == SettledInit => SettledInv
<1> SUFFICES ASSUME SettledInit PROVE SettledInv
  OBVIOUS
<1>1. BridgeInv
  BY BridgeInit
<1>2. Silent
  BY UsbAssumption DEF SettledInit, EnvInit, Silent, Free
<1>3. readyForPacket = TRUE /\ inReports = 0 /\ checkEndpoint = FALSE /\ inDones = 0
  BY Zenon DEF SettledInit, MainInit, EnvInit
<1>4. Account!Held(readyForPacket) = 1 /\ Account!Held(checkEndpoint) = 0
  BY <1>3, Account!HeldValue
<1>5. Account!Credits = 1
  BY <1>3, <1>4 DEF Account!Credits
<1>6. Account!TypeOK
  <2>1. inReports \in Nat /\ inDones \in Nat
    BY <1>3
  <2>2. QED
    BY <1>3, <2>1, Zenon DEF Account!TypeOK
<1>7. QED
  BY <1>1, <1>2, <1>5, <1>6 DEF SettledInv, Account!Single

\* Nothing but a report is on its way to the 16u2.
LEMMA OnlyReports ==
  TypeOK /\ Up(None) /\ uState = 3 => currentEndpoint = endpoints[DeviceRid]
<1> SUFFICES ASSUME TypeOK, Up(None), uState = 3 PROVE currentEndpoint = endpoints[DeviceRid]
  OBVIOUS
<1>1. PICK g, e, s : UpView(None, g, e, s)
  BY UpParts
<1>2. /\ s = rx \o out /\ s \in Seq(Byte) /\ Chain(s, g) /\ UpHere(g[0])
      /\ e = g[Len(s)] /\ e.st = 6 /\ g[0].read = None
  BY <1>1 DEF UpView
<1>3. g[0].st = 9 /\ currentEndpoint = endpoints[g[0].c]
  BY <1>2 DEF UpHere
<1>4. s # << >>
  <2>1. Len(s) # 0
    BY <1>2, <1>3
  <2>2. QED
    BY <1>2, <2>1
<1>5. Goes(g[0], Head(s), g[1])
  BY <1>2, <1>4, ChainTake
<1>6. Head(s) \in Byte
  BY <1>2, <1>4
<1>7. UpReport(g[0], Head(s), g[1]) \/ UpReply(g[0], Head(s), g[1])
  BY <1>3, <1>5 DEF Goes, GoesDone, GoesStart, GoesLength, GoesAsk, GoesCommand, GoesOffset,
     GoesPayload, GoesLast, UpStart, UpLength, UpId
<1>8. ~UpReply(g[0], Head(s), g[1])
  <2>1. -1 \notin Byte
    BY DEF Byte
  <2>2. QED
    BY <1>2, <1>6, <2>1, Zenon DEF UpReply, None
<1>9. QED
  BY <1>3, <1>7, <1>8 DEF UpReport

LEMMA NoAnswer ==
  BridgeInv /\ awaiting = None /\ uState = 3 => currentEndpoint = endpoints[DeviceRid]
<1> SUFFICES ASSUME BridgeInv, awaiting = None, uState = 3 PROVE currentEndpoint = endpoints[DeviceRid]
  OBVIOUS
<1>1. TypeOK /\ \E a, b : Down(a) /\ Up(b) /\ Token(a, b)
  BY DEF BridgeInv, Wires
<1>2. PICK b : Up(b) /\ (b # None => b = awaiting)
  BY <1>1 DEF Token
<1>3. QED
  BY <1>1, <1>2, OnlyReports

\* The endpoint table and the device type agree on the device's endpoint.
DeviceTable == endpoints[DeviceRid] = DeviceEp

LEMMA SilentUsb ==
  ASSUME DeviceTable, BridgeInv, BridgeInv', Silent, UsbStep PROVE Silent'
<1>0. /\ TypeOK /\ awaiting' = None /\ DeviceEp \in Endpoint \ {0}
      /\ busy \in [Endpoint -> BOOLEAN] /\ checkEndpoint \in BOOLEAN
  BY UsbAssumption DEF BridgeInv, TypeOK, UsbTypeOK, Silent, UsbStep, hostVars, ENDPOINT_CONTROLEP
<1>1. CASE UsbStart \/ UsbLength
  BY <1>0, <1>1 DEF UsbStart, UsbLength, epVars, Silent, Free
<1>2. CASE UsbReportId
  <2>1. uState' = 3 /\ UNCHANGED <<configured, busy, checkEndpoint>>
    BY <1>2 DEF UsbReportId
  <2>2. (BridgeInv /\ awaiting = None /\ uState = 3 => currentEndpoint = endpoints[DeviceRid])'
    BY NoAnswer, PTL
  <2>3. currentEndpoint' = DeviceEp
    BY <1>0, <2>1, <2>2 DEF DeviceTable
  <2>4. QED
    BY <1>0, <2>1, <2>3 DEF Silent, Free
<1>3. CASE UsbBody
  <2>1. UNCHANGED <<configured, currentEndpoint>>
    BY <1>3 DEF UsbBody
  <2>2. currentEndpoint = DeviceEp /\ IsReport(currentEndpoint)
    BY <1>0 DEF Silent, IsReport, ENDPOINT_CONTROLEP
  <2>3. checkEndpoint' = TRUE \/ UNCHANGED <<busy, checkEndpoint>>
    BY <1>0, <1>3, <2>2, Zenon DEF UsbBody
  <2>4. QED
    BY <1>0, <2>1, <2>3 DEF Silent, Free
<1>4. CASE UsbIdle \/ UsbCheck
  <2>1. CheckEndpoint /\ UNCHANGED <<frameVars, epVars>>
    BY <1>4 DEF UsbIdle, UsbCheck
  <2>2. UNCHANGED <<configured, currentEndpoint, busy>>
    BY <2>1 DEF frameVars, epVars
  <2>3. DoneDue => busy[DeviceEp] = FALSE
    BY <1>0 DEF DoneDue, Endpoint_IsINReady, Silent
  <2>4. ~DoneDue => UNCHANGED checkEndpoint
    BY <2>1 DEF CheckEndpoint
  <2>5. QED
    BY <1>0, <2>2, <2>3, <2>4, Zenon DEF Silent, Free
<1>5. CASE deviceControlRequest \/ UsbForward \/ UsbEndRequest
  BY <1>0, <1>5 DEF deviceControlRequest, UsbForward, UsbEndRequest, frameVars, epVars, Silent, Free
<1>6. QED
  BY <1>1, <1>2, <1>3, <1>4, <1>5 DEF UsbStep, UsbLoop, UsbByte

LEMMA SilentStep ==
  ASSUME DeviceTable, Reads = {}, BridgeInv, BridgeInv', Silent, [Next]_vars PROVE Silent'
<1>1. CASE UsbStep
  BY <1>1, SilentUsb
<1>2. CASE MainStep \/ MainPoll \/ UartToUsb \/ UartToMain \/ ChangeInput \/ HostWrite \/ UNCHANGED vars
  BY <1>2 DEF MainStep, MainPoll, UartToUsb, UartToMain, ChangeInput, HostWrite, vars, usbVars, hostVars,
     frameVars, epVars, Silent, Free
<1>3. CASE Enumerate
  BY <1>3 DEF Enumerate, UsbConfigured, Silent
<1>4. CASE HostRead
  BY <1>4 DEF HostRead
<1>5. ASSUME NEW e \in Endpoint, HostCollect(e) PROVE Silent'
  <2>1. /\ busy' = [busy EXCEPT ![e] = FALSE] /\ UNCHANGED <<checkEndpoint, configured, currentEndpoint>>
        /\ awaiting' = None
    BY <1>5 DEF HostCollect, frameVars, Silent
  <2>2. busy \in [Endpoint -> BOOLEAN] /\ DeviceEp \in Endpoint
    BY UsbAssumption DEF BridgeInv, TypeOK, UsbTypeOK
  <2>3. busy[DeviceEp] = FALSE => busy'[DeviceEp] = FALSE
    BY <2>1, <2>2
  <2>4. QED
    BY <2>1, <2>3, Zenon DEF Silent, Free
<1>6. QED
  BY <1>1, <1>2, <1>3, <1>4, <1>5 DEF Next

LEMMA SettledStep ==
  ASSUME WellFormed, DeviceTable, Reads = {}, SettledInv, [Next]_vars PROVE SettledInv'
<1>0. BridgeInv /\ Silent /\ Account!Single
  BY DEF SettledInv
<1>1. BridgeInv'
  BY <1>0, BridgeStep
<1>2. Silent'
  BY <1>0, <1>1, SilentStep
<1>3. [Credit!Next]_<<readyForPacket, inReports, checkEndpoint, inDones>>
  BY <1>0, AccountStep
<1>4. [Account!Next]_(Account!vars)
  BY <1>3 DEF Credit!Next, Credit!SendReport, Credit!FinishReport, Credit!SendDone, Credit!ReceiveDone,
     Account!Next, Account!SendReport, Account!FinishReport, Account!SendDone, Account!ReceiveDone,
     Account!vars
<1>5. Account!Single'
  BY <1>0, <1>4, Account!NextSingle
<1>6. QED
  BY <1>1, <1>2, <1>5 DEF SettledInv

\* A report at its id means that the one permission is spent.
LEMMA ReportSpends ==
  ASSUME SettledInv, uState = 2 PROVE Endpoint_IsINReady(DeviceEp)
<1>1. TypeOK /\ awaiting = None /\ \E a, b : Down(a) /\ Up(b) /\ Token(a, b)
  BY DEF SettledInv, BridgeInv, Wires, Silent
<1>2. PICK b : Up(b) /\ (b # None => b = awaiting)
  BY <1>1 DEF Token
<1>3. Up(None)
  BY <1>1, <1>2
<1>4. UpLengths(None)
  BY <1>1, <1>3, UpParts
<1>5. Len(rx) \in Nat /\ Len(out) \in Nat
  BY <1>1 DEF TypeOK, MainTypeOK, UsbTypeOK
<1>6. inReports \in Nat /\ inDones \in Nat /\ checkEndpoint \in BOOLEAN /\ readyForPacket \in BOOLEAN
  BY Zenon DEF SettledInv, Account!Single, Account!TypeOK
<1>7. Account!Credits = 1
  BY Zenon DEF SettledInv, Account!Single
<1>8. 2 + Len(rx) + Len(out) = 4 * inReports
  BY <1>4, <1>6 DEF UpLengths
<1>9. inReports > 0
  BY <1>5, <1>6, <1>8
<1>10. PICK r, c : r = Account!Held(readyForPacket) /\ c = Account!Held(checkEndpoint)
  OBVIOUS
<1>11. r \in 0..1 /\ c \in 0..1 /\ (checkEndpoint => c = 1)
  BY <1>6, <1>10, Account!HeldValue
<1>12. r + inReports + c + inDones = 1
  BY <1>7, <1>10 DEF Account!Credits
<1>13. c # 1
  BY <1>6, <1>9, <1>11, <1>12
<1>14. checkEndpoint = FALSE
  BY <1>6, <1>11, <1>13, Zenon
<1>15. configured = TRUE /\ busy[DeviceEp] = FALSE
  BY <1>14, Zenon DEF SettledInv, Silent, Free
<1>16. QED
  BY <1>15, Zenon DEF Endpoint_IsINReady

\* Once the device has settled and if the host does not read, a report never finds
\* its endpoint occupied: "Once the endpoint is ready, let the 328p know so it can
\* send data" (usb/main.c:71), for every report, whatever the two loops' speeds and
\* whatever writes are on the wires.
THEOREM ReportsFindRoom ==
  WellFormed /\ DeviceTable /\ Reads = {} => (SettledSpec => ReportOnlyWhenReady)
<1> SUFFICES ASSUME WellFormed, DeviceTable, Reads = {} PROVE SettledSpec => ReportOnlyWhenReady
  OBVIOUS
<1>1. SettledInv /\ [Next]_vars => SettledInv'
  BY SettledStep
<1>2. SettledInv /\ SettledInv' /\ [Next]_vars =>
        [uState = 2 /\ uState' = 3 /\ currentEndpoint' # ENDPOINT_CONTROLEP
           => Endpoint_IsINReady(currentEndpoint')]_vars
  <2> SUFFICES ASSUME SettledInv, SettledInv', uState = 2 PROVE Endpoint_IsINReady(currentEndpoint')
    OBVIOUS
  <2>1. currentEndpoint' = DeviceEp
    BY DEF SettledInv, Silent
  <2>2. Endpoint_IsINReady(DeviceEp)
    BY ReportSpends
  <2>3. QED
    BY <2>1, <2>2
<1>3. QED
  BY SettledStart, <1>1, <1>2, PTL DEF SettledSpec, ReportOnlyWhenReady

------------------------------------------------------------------------------
(***************************************************************************)
(* The single slot.  The last byte under way is the state sent last; the   *)
(* bank holds what has been read of it, and then the whole report, until   *)
(* the host collects it.                                                   *)
(***************************************************************************)
Final(s) == s[Len(s)]
Begun(k) == IF k = 3 /\ ~StripsId(DeviceRid) THEN <<DeviceRid>> ELSE << >>
BankInv ==
  /\ \A e \in Endpoint : e # DeviceEp => busy[e] = FALSE
  /\ busy[DeviceEp] = TRUE => fifo[DeviceEp] = Packet(prevController)
  /\ busy[DeviceEp] = FALSE => fifo[DeviceEp] = Begun(uState)
WayInv == inReports > 0 => Final(rx \o out) = prevController
ShownInv == inReports = 0 /\ busy[DeviceEp] = FALSE => shown = Packet(prevController)
SlotInv == BankInv /\ WayInv /\ ShownInv

\* Where the one permission is, and the report it stands for.
OneReport ==
  /\ inReports \in {0, 1} /\ uState \in 0..3
  /\ uState + Len(rx) + Len(out) = 4 * inReports
  /\ readyForPacket = TRUE => inReports = 0 /\ busy[DeviceEp] = FALSE
  /\ busy[DeviceEp] = TRUE => inReports = 0
  /\ uState = 3 => uCount = 1

LEMMA OneReportHolds == SettledInv => OneReport
<1> SUFFICES ASSUME SettledInv PROVE OneReport
  OBVIOUS
<1>1. TypeOK /\ awaiting = None /\ \E a, b : Down(a) /\ Up(b) /\ Token(a, b)
  BY DEF SettledInv, BridgeInv, Wires, Silent
<1>2. PICK b : Up(b) /\ (b # None => b = awaiting)
  BY <1>1 DEF Token
<1>3. Up(None)
  BY <1>1, <1>2
<1>4. UpLengths(None) /\ \E g, e, s : UpView(None, g, e, s)
  BY <1>1, <1>3, UpParts
<1>5. uState = 3 => uCount = 1
  BY <1>4 DEF UpView, UpHere
<1>6. inReports \in Nat /\ inDones \in Nat /\ checkEndpoint \in BOOLEAN /\ readyForPacket \in BOOLEAN
  BY Zenon DEF SettledInv, Account!Single, Account!TypeOK
<1>7. Account!Credits = 1
  BY Zenon DEF SettledInv, Account!Single
<1>8. uState + Len(rx) + Len(out) = 4 * inReports
  BY <1>4, <1>6 DEF UpLengths
<1>9. PICK r, c : r = Account!Held(readyForPacket) /\ c = Account!Held(checkEndpoint)
  OBVIOUS
<1>10. r \in 0..1 /\ c \in 0..1 /\ (checkEndpoint => c = 1) /\ (readyForPacket => r = 1)
  BY <1>6, <1>9, Account!HeldValue
<1>11. r + inReports + c + inDones = 1
  BY <1>7, <1>9 DEF Account!Credits
<1>12. /\ inReports \in {0, 1} /\ (c = 1 => inReports = 0) /\ (r = 1 => inReports = 0 /\ c # 1)
  BY <1>6, <1>10, <1>11
<1>13. busy[DeviceEp] = TRUE => checkEndpoint = TRUE
  BY Zenon DEF SettledInv, Silent, Free
<1>14. busy[DeviceEp] \in BOOLEAN /\ uState \in 0..3
  BY <1>1, UsbAssumption DEF TypeOK, UsbTypeOK
<1>15. busy[DeviceEp] = TRUE => inReports = 0
  BY <1>10, <1>12, <1>13, Zenon
<1>16. readyForPacket = TRUE => inReports = 0 /\ busy[DeviceEp] = FALSE
  BY <1>10, <1>12, <1>13, <1>14, Zenon
<1>17. QED
  BY <1>5, <1>8, <1>12, <1>14, <1>15, <1>16 DEF OneReport

\* The slot is full when a report is under way or in the bank.
Full == out # << >> \/ rx # << >> \/ uState # 0 \/ busy[DeviceEp]
LEMMA FullMeans == TypeOK /\ OneReport => (Full <=> inReports = 1 \/ busy[DeviceEp] = TRUE)
<1> SUFFICES ASSUME TypeOK, OneReport PROVE Full <=> inReports = 1 \/ busy[DeviceEp] = TRUE
  OBVIOUS
<1>1. /\ rx \in Seq(Byte) /\ out \in Seq(Byte) /\ busy[DeviceEp] \in BOOLEAN
      /\ inReports \in {0, 1} /\ uState \in 0..3 /\ uState + Len(rx) + Len(out) = 4 * inReports
  BY UsbAssumption DEF TypeOK, MainTypeOK, UsbTypeOK, OneReport
<1>2. Len(rx) \in Nat /\ Len(out) \in Nat
      /\ (Len(rx) = 0 <=> rx = << >>) /\ (Len(out) = 0 <=> out = << >>)
  BY <1>1
<1>3. (out # << >> \/ rx # << >> \/ uState # 0) <=> inReports = 1
  BY <1>1, <1>2
<1>4. QED
  BY <1>1, <1>3, Zenon DEF Full

\* A packet is what the bank holds before its last byte, and that byte.
LEMMA PacketGrows ==
  ASSUME NEW v \in Byte PROVE Packet(v) = Append(Begun(3), v)
<1>1. DeviceRid # REPORT_ID_CONTROL
  BY TheEndpoints
<1>2. StripsId(DeviceRid) <=> DeviceRid \in {REPORT_ID_MIDI, REPORT_ID_GAMEPAD}
  BY <1>1 DEF StripsId
<1>3. Append(<< >>, v) = <<v>> /\ Append(<<DeviceRid>>, v) = <<DeviceRid, v>>
  <2>1. ASSUME NEW r \in Byte PROVE Append(<<r>>, v) = <<r, v>>
    <3>1. PICK s, t : s = Append(<<r>>, v) /\ t = <<r, v>>
      OBVIOUS
    <3>2. <<r>> \in Seq(Byte) /\ Len(<<r>>) = 1 /\ <<r>>[1] = r
      OBVIOUS
    <3>3. s \in Seq(Byte) /\ Len(s) = 2 /\ s[1] = r /\ s[2] = v
      BY <3>1, <3>2
    <3>4. t \in Seq(Byte) /\ Len(t) = 2 /\ t[1] = r /\ t[2] = v
      BY <3>1
    <3>5. s = t
      BY <3>3, <3>4, SeqEqual
    <3>6. QED
      BY <3>1, <3>5
  <2>2. Append(<< >>, v) = <<v>>
    OBVIOUS
  <2>3. QED
    BY <2>1, <2>2, RidByte, Zenon
<1>4. CASE StripsId(DeviceRid)
  BY <1>2, <1>3, <1>4, Zenon DEF Packet, Begun
<1>5. CASE ~StripsId(DeviceRid)
  BY <1>2, <1>3, <1>5, Zenon DEF Packet, Begun
<1>6. QED
  BY <1>4, <1>5

LEMMA PacketInjective ==
  ASSUME NEW v \in Byte, NEW w \in Byte, v # w PROVE Packet(v) # Packet(w)
BY DEF Packet

LEMMA FinalTail ==
  ASSUME NEW s \in Seq(Byte), NEW t \in Seq(Byte), s # << >>
  PROVE  /\ Len(s) + Len(t) > 1 => Final(Tail(s) \o t) = Final(s \o t)
         /\ Len(s) + Len(t) = 1 => Final(s \o t) = Head(s)
<1>1. s \o t \in Seq(Byte) /\ s \o t # << >> /\ Head(s \o t) = Head(s) /\ Tail(s \o t) = Tail(s) \o t
  BY Streams
<1>2. PICK u : u = s \o t
  OBVIOUS
<1>3. Len(u) = Len(s) + Len(t)
  BY <1>2
<1>4. u \in Seq(Byte) /\ u # << >>
  BY <1>1, <1>2
<1>5. /\ Len(u) \in Nat \ {0} /\ Head(u) = u[1] /\ Tail(u) \in Seq(Byte) /\ Len(Tail(u)) = Len(u) - 1
      /\ \A i \in 1..(Len(u) - 1) : Tail(u)[i] = u[i + 1]
  BY <1>4, HeadTail
<1>6. Len(u) > 1 => Tail(u)[Len(u) - 1] = u[Len(u)]
  <2>1. Len(u) > 1 => Len(u) - 1 \in 1..(Len(u) - 1) /\ (Len(u) - 1) + 1 = Len(u)
    BY <1>5
  <2>2. QED
    BY <1>5, <2>1
<1>7. QED
  BY <1>1, <1>2, <1>3, <1>5, <1>6 DEF Final

LEMMA FinalFrame ==
  ASSUME NEW s \in Seq(Byte), NEW x \in Byte PROVE Final(WithFrame(s, DeviceRid, x)) = x
<1>1. PICK T : T = WriteFrame(<<DeviceRid, x>>)
  OBVIOUS
<1>2. T \in Seq(Byte) /\ Len(T) = 4 /\ T[4] = x
  BY <1>1, RidByte, UpFrameShape
<1>3. Len(s \o T) = Len(s) + Len(T) /\ Len(s) \in Nat
  <2>1. T \in Seq(Byte)
    BY <1>2
  <2>2. QED
    BY <2>1
<1>4. (s \o T)[Len(s) + 4] = T[4]
  BY <1>2, <1>3
<1>5. QED
  BY <1>1, <1>2, <1>3, <1>4 DEF Final, WithFrame

LEMMA SlotStart == SettledInit => SlotInv
<1> SUFFICES ASSUME SettledInit PROVE SlotInv
  OBVIOUS
<1>1. /\ busy = [e \in Endpoint |-> FALSE] /\ fifo = [e \in Endpoint |-> << >>] /\ uState = 0
      /\ prevController = 0 /\ shown = Packet(0) /\ inReports = 0
  BY DEF SettledInit, MainInit, EnvInit
<1>2. DeviceEp \in Endpoint
  BY UsbAssumption
<1>3. BankInv
  BY <1>1, <1>2 DEF BankInv, Begun
<1>4. WayInv /\ ShownInv
  BY <1>1 DEF WayInv, ShownInv
<1>5. QED
  BY <1>3, <1>4 DEF SlotInv

\* What the invariant and the slot depend on.
slotVars == <<rx, out, uState, busy, fifo, prevController, inReports, shown>>
LEMMA SlotSame ==
  ASSUME SlotInv, UNCHANGED slotVars PROVE SlotInv' /\ UNCHANGED Slot!vars
BY DEF SlotInv, BankInv, WayInv, ShownInv, slotVars, Slot!vars

\* Changes of the slot, in terms of what fills it.
LEMMA SlotKept ==
  ASSUME TypeOK, TypeOK', OneReport, OneReport', UNCHANGED <<prevController, shown>>,
         (inReports = 1 \/ busy[DeviceEp] = TRUE) <=> (inReports' = 1 \/ busy'[DeviceEp] = TRUE)
  PROVE  UNCHANGED Slot!vars
<1>1. Full <=> inReports = 1 \/ busy[DeviceEp] = TRUE
  BY FullMeans
<1>2. (TypeOK /\ OneReport => (Full <=> inReports = 1 \/ busy[DeviceEp] = TRUE))'
  BY FullMeans, PTL
<1>3. Full' <=> Full
  BY <1>1, <1>2
<1>4. Packet(prevController)' = Packet(prevController)
  BY DEF Packet
<1>5. QED
  BY <1>3, <1>4, Zenon DEF Full, Slot!vars

\* A report is sent: the slot was empty.
LEMMA SlotPut ==
  ASSUME WellFormed, TypeOK, TypeOK', OneReport, OneReport', SlotInv, MainPoll
  PROVE  SlotInv' /\ [Slot!Next]_(Slot!vars)
<1>0. /\ UNCHANGED <<rx, uState, busy, fifo, shown>> /\ input \in Inputs /\ input \in Byte
      /\ prevController \in Byte /\ rx \in Seq(Byte) /\ out \in Seq(Byte) /\ busy[DeviceEp] \in BOOLEAN
  BY InputsAssumption, UsbAssumption
  DEF MainPoll, usbVars, hostVars, frameVars, epVars, TypeOK, MainTypeOK, UsbTypeOK
<1>1. CASE ReportDue(input)
  <2>1. /\ input # prevController /\ readyForPacket = TRUE /\ prevController' = input
        /\ out' = out \o WriteFrame(ReportBody(input))
    BY <1>1 DEF ReportDue, MainPoll, MainTick, writeData, TypeOK, MainTypeOK
  <2>2. out' = WithFrame(out, DeviceRid, input)
    BY <2>1 DEF WithFrame, ReportBody, WellFormed
  <2>3. inReports = 0 /\ busy[DeviceEp] = FALSE
    BY <2>1 DEF OneReport
  <2>4. rx \o out' = WithFrame(rx \o out, DeviceRid, input) /\ Len(out') = Len(out) + 4 /\ Len(out) \in Nat
    BY <1>0, <2>2, WithFrameOut
  <2>5. inReports' = 1
    <3>1. out' # out
      BY <2>4
    <3>2. QED
      BY <2>3, <3>1 DEF MainPoll
  <2>6. rx \o out \in Seq(Byte)
    BY <1>0, JoinBytes
  <2>7. Final(rx' \o out') = input
    BY <1>0, <2>4, <2>6, FinalFrame
  <2>8. WayInv' /\ ShownInv'
    BY <2>1, <2>5, <2>7 DEF WayInv, ShownInv
  <2>9. BankInv'
    BY <1>0, <2>3 DEF SlotInv, BankInv
  <2>10. ~Full
    BY <2>3, FullMeans
  <2>11. Full'
    <3>1. (TypeOK /\ OneReport => (Full <=> inReports = 1 \/ busy[DeviceEp] = TRUE))'
      BY FullMeans, PTL
    <3>2. QED
      BY <2>5, <3>1
  <2>12. Packet(input) # Packet(prevController)
    BY <1>0, <2>1, PacketInjective
  <2>13. Packet(prevController)' = Packet(input)
    BY <2>1 DEF Packet
  <2>14. Slot!Put(Packet(input))
    BY <1>0, <2>10, <2>11, <2>12, <2>13, Zenon DEF Slot!Put, Full
  <2>15. Slot!Next
    BY <1>0, <2>14, Zenon DEF Slot!Next
  <2>16. QED
    BY <2>8, <2>9, <2>15 DEF SlotInv
<1>2. CASE ~ReportDue(input)
  <2>1. UNCHANGED <<out, prevController>>
    BY <1>2 DEF MainPoll, MainTick
  <2>2. UNCHANGED inReports
    BY <2>1 DEF MainPoll
  <2>3. UNCHANGED slotVars
    BY <1>0, <2>1, <2>2 DEF slotVars
  <2>4. QED
    BY <2>3, SlotSame
<1>3. QED
  BY <1>1, <1>2

\* The host collects: the slot was full.
LEMMA SlotCollect ==
  ASSUME TypeOK, TypeOK', OneReport, OneReport', SlotInv, NEW e \in Endpoint, HostCollect(e)
  PROVE  SlotInv' /\ [Slot!Next]_(Slot!vars)
<1>0. /\ UNCHANGED <<rx, out, uState, prevController, inReports>> /\ busy[e] = TRUE
      /\ busy' = [busy EXCEPT ![e] = FALSE] /\ fifo' = [fifo EXCEPT ![e] = << >>]
      /\ busy \in [Endpoint -> BOOLEAN] /\ fifo \in [Endpoint -> Seq(Byte)]
  BY DEF HostCollect, mainVars, inputVars, frameVars, ghostVars, TypeOK, UsbTypeOK
<1>1. e = DeviceEp
  BY <1>0 DEF SlotInv, BankInv
<1>2. e # ENDPOINT_CONTROLEP /\ DeviceEp \in Endpoint
  BY <1>1, UsbAssumption
<1>3. shown' = fifo[DeviceEp]
  BY <1>1, <1>2 DEF HostCollect
<1>4. inReports = 0 /\ busy[DeviceEp] = TRUE /\ fifo[DeviceEp] = Packet(prevController)
  BY <1>0, <1>1 DEF OneReport, SlotInv, BankInv
<1>5. busy'[DeviceEp] = FALSE /\ fifo'[DeviceEp] = << >>
  BY <1>0, <1>1, <1>2
<1>6. Full
  BY <1>4, FullMeans
<1>7. ~Full'
  <2>1. (TypeOK /\ OneReport => (Full <=> inReports = 1 \/ busy[DeviceEp] = TRUE))'
    BY FullMeans, PTL
  <2>2. QED
    BY <1>0, <1>4, <1>5, <2>1
<1>8. uState = 0
  <2>1. /\ uState \in 0..3 /\ Len(rx) \in Nat /\ Len(out) \in Nat
        /\ uState + Len(rx) + Len(out) = 4 * inReports
    <3>1. rx \in Seq(Byte) /\ out \in Seq(Byte)
      BY DEF TypeOK, MainTypeOK, UsbTypeOK
    <3>2. Len(rx) \in Nat /\ Len(out) \in Nat
      BY <3>1
    <3>3. QED
      BY <3>2, Zenon DEF OneReport
  <2>2. QED
    BY <1>4, <2>1
<1>9. BankInv'
  BY <1>0, <1>1, <1>2, <1>5, <1>8 DEF SlotInv, BankInv, Begun
<1>10. WayInv' /\ ShownInv'
  BY <1>0, <1>3, <1>4 DEF WayInv, ShownInv, Packet
<1>11. Packet(prevController)' = Packet(prevController)
  BY <1>0 DEF Packet
<1>12. Slot!Collect
  BY <1>3, <1>4, <1>6, <1>7, <1>11, Zenon DEF Slot!Collect, Full
<1>13. QED
  BY <1>9, <1>10, <1>12 DEF SlotInv, Slot!Next

\* The 16u2 reads a byte of the report; the last one hands the bank over.
LEMMA SlotByte ==
  ASSUME SettledInv, SettledInv', OneReport, OneReport', SlotInv, UsbStep, UsbByte
  PROVE  SlotInv' /\ UNCHANGED Slot!vars
<1>0. /\ TypeOK /\ TypeOK' /\ currentEndpoint = DeviceEp /\ currentEndpoint' = DeviceEp
      /\ configured = TRUE /\ awaiting = None
  BY DEF SettledInv, BridgeInv, Silent
<1>1. /\ rx \in Seq(Byte) /\ out \in Seq(Byte) /\ uState \in 0..3 /\ uCount \in Byte
      /\ busy \in [Endpoint -> BOOLEAN] /\ fifo \in [Endpoint -> Seq(Byte)]
      /\ DeviceEp \in Endpoint /\ DeviceEp # 0
  BY <1>0, UsbAssumption DEF TypeOK, MainTypeOK, UsbTypeOK, ENDPOINT_CONTROLEP
<1>2. /\ rx # << >> /\ UNCHANGED out
      /\ inReports' = IF uState = 3 /\ uState' = 0 /\ currentEndpoint # ENDPOINT_CONTROLEP
                        THEN inReports - 1 ELSE inReports
  BY <1>0, ByteStep
<1>3. rx' = Tail(rx) /\ UNCHANGED <<prevController, shown>>
  BY DEF UsbByte, UsbStart, UsbLength, UsbReportId, UsbBody, Take, UsbStep, mainVars, inputVars, hostVars
<1>4. Up(None)
  <2>1. \E a, b : Down(a) /\ Up(b) /\ Token(a, b)
    BY DEF SettledInv, BridgeInv, Wires
  <2>2. QED
    BY <1>0, <2>1 DEF Token
<1>5. /\ uState = 0 => Head(rx) = FRAME_START_WRITE
      /\ uState = 2 => Head(rx) \in {DeviceRid, REPORT_ID_CONTROL}
  BY <1>0, <1>2, <1>4, UpTake
<1>6. inReports = 1 /\ Len(rx) + Len(out) = 4 - uState
  <2>1. Len(rx) \in Nat /\ Len(out) \in Nat /\ Len(rx) # 0
    BY <1>1, <1>2
  <2>2. inReports \in {0, 1} /\ uState + Len(rx) + Len(out) = 4 * inReports
    BY DEF OneReport
  <2>3. QED
    BY <1>1, <2>1, <2>2
<1>7. busy[DeviceEp] = FALSE /\ fifo[DeviceEp] = Begun(uState) /\ Final(rx \o out) = prevController
  BY <1>1, <1>6 DEF OneReport, SlotInv, BankInv, WayInv
<1>8. Endpoint_IsINReady(DeviceEp)
  BY <1>0, <1>7 DEF Endpoint_IsINReady
<1>9. CASE uState # 3
  <2>1. Final(rx' \o out') = prevController
    <3>1. Len(rx) + Len(out) > 1
      BY <1>1, <1>6, <1>9
    <3>2. QED
      BY <1>1, <1>2, <1>3, <1>7, <3>1, FinalTail
  <2>2. inReports' = 1
    BY <1>2, <1>6, <1>9
  <2>3. WayInv' /\ ShownInv'
    BY <1>3, <2>1, <2>2 DEF WayInv, ShownInv
  <2>4. UNCHANGED busy /\ fifo'[DeviceEp] = Begun(uState')
    <3>1. CASE UsbStart
      BY <1>5, <1>7, <3>1 DEF UsbStart, epVars, Begun
    <3>2. CASE UsbLength
      BY <1>7, <3>2 DEF UsbLength, epVars, Begun
    <3>3. CASE UsbReportId
      <4>1. uState = 2 /\ uState' = 3 /\ UNCHANGED busy
        BY <3>3 DEF UsbReportId
      <4>2. Head(rx) = DeviceRid
        <5>1. Head(rx) = REPORT_ID_CONTROL => currentEndpoint' = 0
          BY <3>3, TheEndpoints DEF UsbReportId
        <5>2. QED
          BY <1>0, <1>1, <1>5, <4>1, <5>1
      <4>3. CASE StripsId(DeviceRid)
        BY <1>7, <3>3, <4>1, <4>2, <4>3 DEF UsbReportId, Begun
      <4>4. CASE ~StripsId(DeviceRid)
        <5>1. fifo' = [fifo EXCEPT ![DeviceEp] = Append(@, DeviceRid)]
          BY <1>0, <1>8, <3>3, <4>2, <4>4 DEF UsbReportId, Endpoint_Write_8
        <5>2. fifo[DeviceEp] = << >>
          BY <1>7, <4>1 DEF Begun
        <5>3. Append(<< >>, DeviceRid) = <<DeviceRid>>
          BY RidByte
        <5>4. fifo'[DeviceEp] = <<DeviceRid>>
          BY <1>1, <5>1, <5>2, <5>3
        <5>5. QED
          BY <4>1, <4>4, <5>4 DEF Begun
      <4>5. QED
        BY <4>3, <4>4
    <3>4. QED
      BY <1>9, <3>1, <3>2, <3>3 DEF UsbByte, UsbBody
  <2>5. BankInv'
    BY <1>7, <2>4 DEF SlotInv, BankInv
  <2>6. UNCHANGED Slot!vars
    BY <1>0, <1>3, <1>6, <2>2, SlotKept
  <2>7. QED
    BY <2>3, <2>5, <2>6 DEF SlotInv
<1>10. CASE uState = 3
  <2>1. UsbBody
    BY <1>10 DEF UsbByte, UsbStart, UsbLength, UsbReportId
  <2>2. uCount' = 0
    <3>1. uCount = 1
      BY <1>10 DEF OneReport
    <3>2. Dec8(1) = 0
      BY DEF Dec8
    <3>3. QED
      BY <2>1, <3>1, <3>2 DEF UsbBody
  <2>3. /\ uState' = 0 /\ Endpoint_Write_8(DeviceEp, Head(rx))
        /\ busy' = [busy EXCEPT ![DeviceEp] = @ \/ Endpoint_IsINReady(DeviceEp)]
    BY <1>0, <2>1, <2>2 DEF UsbBody
  <2>4. Head(rx) = prevController /\ prevController \in Byte
    <3>1. Len(rx) + Len(out) = 1
      BY <1>6, <1>10
    <3>2. Final(rx \o out) = Head(rx)
      BY <1>1, <1>2, <3>1, FinalTail
    <3>3. QED
      BY <1>0, <1>7, <3>2, InputsAssumption DEF TypeOK, MainTypeOK
  <2>5. fifo' = [fifo EXCEPT ![DeviceEp] = Append(@, Head(rx))]
    BY <1>8, <2>3 DEF Endpoint_Write_8
  <2>6. fifo'[DeviceEp] = Packet(prevController)
    <3>1. fifo'[DeviceEp] = Append(fifo[DeviceEp], prevController)
      BY <1>1, <2>4, <2>5
    <3>2. fifo[DeviceEp] = Begun(3)
      BY <1>7, <1>10
    <3>3. QED
      BY <2>4, <3>1, <3>2, PacketGrows
  <2>7. busy'[DeviceEp] = TRUE /\ \A e \in Endpoint : e # DeviceEp => busy'[e] = busy[e]
    <3>1. busy[DeviceEp] \/ Endpoint_IsINReady(DeviceEp)
      BY <1>8
    <3>2. PICK B : B = (busy[DeviceEp] \/ Endpoint_IsINReady(DeviceEp))
      OBVIOUS
    <3>3. B = TRUE
      BY <3>1, <3>2
    <3>4. busy' = [busy EXCEPT ![DeviceEp] = B]
      BY <2>3, <3>2
    <3>5. QED
      BY <1>1, <3>3, <3>4
  <2>8. inReports' = 0
    BY <1>0, <1>1, <1>2, <1>6, <1>10, <2>3 DEF ENDPOINT_CONTROLEP
  <2>9. Packet(prevController)' = Packet(prevController)
    BY <1>3 DEF Packet
  <2>10. BankInv'
    BY <2>6, <2>7, <2>9 DEF SlotInv, BankInv
  <2>11. WayInv' /\ ShownInv'
    BY <2>7, <2>8 DEF WayInv, ShownInv
  <2>12. UNCHANGED Slot!vars
    BY <1>0, <1>3, <1>6, <2>7, SlotKept
  <2>13. QED
    BY <2>10, <2>11, <2>12 DEF SlotInv
<1>11. QED
  BY <1>9, <1>10

\* A byte moves from one ring to the other.
LEMMA SlotMove ==
  ASSUME TypeOK, TypeOK', OneReport, OneReport', SlotInv, UartToUsb
  PROVE  SlotInv' /\ UNCHANGED Slot!vars
<1>1. /\ rx \in Seq(Byte) /\ out \in Seq(Byte) /\ out # << >>
      /\ out' = Tail(out) /\ rx' = Append(rx, Head(out))
      /\ UNCHANGED <<uState, busy, fifo, prevController, inReports, shown>>
  BY DEF UartToUsb, TypeOK, MainTypeOK, UsbTypeOK, inputVars, frameVars, epVars, hostVars, ghostVars
<1>2. rx' \o out' = rx \o out
  BY <1>1, Streams
<1>3. WayInv'
  BY <1>1, <1>2 DEF SlotInv, WayInv
<1>4. BankInv' /\ ShownInv'
  BY <1>1 DEF SlotInv, BankInv, ShownInv, Packet
<1>5. UNCHANGED Slot!vars
  BY <1>1, SlotKept
<1>6. QED
  BY <1>3, <1>4, <1>5 DEF SlotInv

\* Without a read, the 328p's parser is never at one.
LEMMA NoAsk == ASSUME SettledInv, MainStep PROVE mState # 2
<1>1. TypeOK /\ awaiting = None /\ \E a, b : Down(a) /\ Up(b) /\ Token(a, b)
  BY DEF SettledInv, BridgeInv, Wires, Silent
<1>2. PICK a : Down(a) /\ (a # None => a = awaiting)
  BY <1>1 DEF Token
<1>3. Down(None)
  BY <1>1, <1>2
<1>4. mState = 2 => None = Head(in)
  BY <1>1, <1>3, DownTake
<1>5. in \in Seq(Byte) /\ in # << >>
  BY <1>1 DEF TypeOK, MainTypeOK, MainStep, MainByte, MainStart, MainLength, MainRead, MainCommand, MainOffset,
     MainPayload, Receive
<1>6. Head(in) \in Byte
  BY <1>5, TakeByte
<1>7. None \notin Byte
  BY DEF None, Byte
<1>8. QED
  BY <1>4, <1>6, <1>7

LEMMA SlotStep ==
  ASSUME WellFormed, Reads = {}, SettledInv, SettledInv', OneReport, OneReport', SlotInv, [Next]_vars
  PROVE  SlotInv' /\ [Slot!Next]_(Slot!vars)
<1>0. TypeOK /\ TypeOK'
  BY DEF SettledInv, BridgeInv
<1>1. CASE MainPoll
  BY <1>0, <1>1, SlotPut
<1>2. CASE UsbStep /\ UsbByte
  BY <1>2, SlotByte
<1>3. CASE UartToUsb
  BY <1>0, <1>3, SlotMove
<1>4. ASSUME NEW e \in Endpoint, HostCollect(e) PROVE SlotInv' /\ [Slot!Next]_(Slot!vars)
  BY <1>0, <1>4, SlotCollect
<1>5. CASE UsbStep /\ ~UsbByte
  <2>1. UNCHANGED <<rx, out, uState, inReports, busy, fifo>>
    BY <1>0, <1>5, CheckStep, TaskStep DEF UsbStep, UsbLoop
  <2>2. UNCHANGED <<prevController, shown>>
    BY <1>5 DEF UsbStep, mainVars, inputVars, hostVars
  <2>3. QED
    BY <2>1, <2>2, SlotSame DEF slotVars
<1>6. CASE HostWrite \/ ChangeInput \/ Enumerate \/ UartToMain \/ UNCHANGED vars
  <2>1. UNCHANGED slotVars
    BY <1>6 DEF HostWrite, ChangeInput, Enumerate, UsbConfigured, UartToMain, vars, mainVars, usbVars, hostVars,
       ghostVars, inputVars, frameVars, epVars, slotVars
  <2>2. QED
    BY <2>1, SlotSame
<1>7. CASE HostRead
  BY <1>7 DEF HostRead
<1>8. CASE MainStep
  <2>1. UNCHANGED <<rx, uState, busy, fifo, shown, inReports>>
    BY <1>8 DEF MainStep, usbVars, hostVars, frameVars, epVars
  <2>2. UNCHANGED prevController
    BY <1>8 DEF MainStep, MainByte, MainStart, MainLength, MainRead, MainCommand, MainOffset, MainPayload, inputVars
  <2>3. UNCHANGED out
    <3>1. mState # 2
      BY <1>8, NoAsk
    <3>2. QED
      BY <1>8, <3>1 DEF MainStep, MainByte, MainStart, MainLength, MainRead, MainCommand, MainOffset, MainPayload
  <2>4. QED
    BY <2>1, <2>2, <2>3, SlotSame DEF slotVars
<1>9. QED
  BY <1>1, <1>2, <1>3, <1>4, <1>5, <1>6, <1>7, <1>8 DEF Next

\* SlotSpec without its fairness.
SlotSteps == Slot!Init /\ [][Slot!Next]_(Slot!vars)

\* A settled bridge whose host sends any long enough writes and no reads is a single
\* slot, for every device type but MIDI and every set of inputs: a state of the controller is
\* sent only when the last one has been collected, and what the host collects is
\* exactly that state, however the 328p, the 16u2 and the UART interleave.
THEOREM SettledIsSlot ==
  WellFormed /\ DeviceTable /\ Reads = {} => (SettledSpec => SlotSteps)
<1> SUFFICES ASSUME WellFormed, DeviceTable, Reads = {} PROVE SettledSpec => SlotSteps
  OBVIOUS
<1>1. SettledInv /\ [Next]_vars => SettledInv'
  BY SettledStep
<1>2. SettledInit => Slot!Init
  <2> SUFFICES ASSUME SettledInit PROVE Slot!Init
    OBVIOUS
  <2>1. /\ out = << >> /\ rx = << >> /\ uState = 0 /\ busy = [e \in Endpoint |-> FALSE]
        /\ prevController = 0 /\ shown = Packet(0)
    BY DEF SettledInit, MainInit, EnvInit
  <2>2. busy[DeviceEp] = FALSE
    BY <2>1, UsbAssumption
  <2>3. QED
    BY <2>1, <2>2, Zenon DEF Slot!Init
<1>3. SettledInv /\ SettledInv' /\ OneReport /\ OneReport' /\ SlotInv /\ [Next]_vars =>
        SlotInv' /\ [Slot!Next]_(Slot!vars)
  BY SlotStep
<1>4. QED
  BY SettledStart, SlotStart, OneReportHolds, <1>1, <1>2, <1>3, PTL DEF SettledSpec, SlotSteps

------------------------------------------------------------------------------
(***************************************************************************)
(* What the bytes under way do to the memories.  A Parser is the whole     *)
(* state of the 328p's parser with the memories it writes.  Runs says how  *)
(* a byte changes it; Leads(p, s, k, e) that the bytes s take it from p to *)
(* e, finishing k writes, and that a point with no write left to finish    *)
(* already has the memories of e.                                          *)
(***************************************************************************)
Parser == [st : 0..5, n : Byte, c : Byte, conf : BOOLEAN, buf : {NULL} \cup Nat, off : Nat,
           ee : Mem, leds : Mem]

SameRegs(p, q) == q.n = p.n /\ q.c = p.c /\ q.conf = p.conf /\ q.buf = p.buf /\ q.off = p.off
SameMem(p, q)  == q.ee = p.ee /\ q.leds = p.leds

RunsStart(p, b, q) ==
  /\ p.st = 0 /\ SameRegs(p, q) /\ SameMem(p, q)
  /\ q.st = CASE b = FRAME_START_FEATURE_WRITE -> 1
              [] b = FRAME_START_FEATURE_READ  -> 2
              [] OTHER -> 0
RunsLength(p, b, q) ==
  /\ p.st = 1 /\ q.st = 3 /\ q.n = b
  /\ q.c = p.c /\ q.conf = p.conf /\ q.buf = p.buf /\ q.off = p.off /\ SameMem(p, q)
RunsRead(p, b, q) == p.st = 2 /\ q.st = 0 /\ SameRegs(p, q) /\ SameMem(p, q)
RunsCommand(p, b, q) ==
  /\ p.st = 3 /\ q.c = b /\ q.conf = (p.conf \/ b = COMMAND_WRITE_CONFIG)
  /\ q.buf = CASE b = COMMAND_WRITE_CONFIG -> p.buf
               [] b = COMMAND_SET_LEDS     -> 0
               [] OTHER                    -> NULL
  /\ q.st = IF b \in Blocks THEN 4 ELSE 5
  /\ q.n = IF b \in Blocks THEN Dec8(p.n) ELSE p.n
  /\ q.off = p.off /\ SameMem(p, q)
RunsOffset(p, b, q) ==
  /\ p.st = 4 /\ q.st = 5 /\ q.off = BlockAddress(b)
  /\ q.buf = IF p.buf = NULL THEN NULL ELSE p.buf + BlockAddress(b)
  /\ q.n = p.n /\ q.c = p.c /\ q.conf = p.conf /\ SameMem(p, q)

\* Where a payload byte goes.
ToLeds(p) == ~p.conf /\ p.buf # NULL
RunsPayload(p, b, q) ==
  /\ p.st = 5 /\ q.n = Dec8(p.n) /\ q.st = FrameEnd(q.n) /\ q.c = p.c /\ q.conf = p.conf
  /\ LET stored == IF p.conf THEN Stored(p.ee, p.off, b) ELSE p.ee
     IN  q.ee = IF q.n = 0 THEN handleCommand(p.c, stored) ELSE stored
  /\ q.off = IF p.conf THEN p.off + 1 ELSE p.off
  /\ q.leds = IF ToLeds(p) THEN Stored(p.leds, p.buf, b) ELSE p.leds
  /\ q.buf = IF ToLeds(p) THEN p.buf + 1 ELSE p.buf

Runs(p, b, q) ==
  \/ RunsStart(p, b, q) \/ RunsLength(p, b, q) \/ RunsRead(p, b, q)
  \/ RunsCommand(p, b, q) \/ RunsOffset(p, b, q) \/ RunsPayload(p, b, q)

\* One write finished, or none.
Ended(p, q) == IF p.st = 5 /\ q.st = 0 THEN 1 ELSE 0

Track(s, h, l, e) ==
  /\ h \in [0..Len(s) -> Parser] /\ l \in [0..Len(s) -> Nat]
  /\ \A i \in 1..Len(s) : Runs(h[i - 1], s[i], h[i]) /\ l[i - 1] = l[i] + Ended(h[i - 1], h[i])
  /\ \A i \in 0..Len(s) : l[i] = 0 => SameMem(h[i], e)
  /\ h[Len(s)] = e /\ l[Len(s)] = 0

Leads(p, s, k, e) == \E h, l : Track(s, h, l, e) /\ h[0] = p /\ l[0] = k

LEMMA LeadsType ==
  ASSUME NEW p, NEW s \in Seq(Byte), NEW k, NEW e, Leads(p, s, k, e)
  PROVE  p \in Parser /\ e \in Parser /\ k \in Nat /\ (k = 0 => SameMem(p, e))
<1>1. PICK h, l : Track(s, h, l, e) /\ h[0] = p /\ l[0] = k
  BY DEF Leads
<1>2. Len(s) \in Nat /\ 0 \in 0..Len(s) /\ Len(s) \in 0..Len(s)
  OBVIOUS
<1>3. QED
  BY <1>1, <1>2 DEF Track

LEMMA LeadsNothing ==
  ASSUME NEW p \in Parser PROVE Leads(p, << >>, 0, p)
<1> DEFINE h == [i \in 0..0 |-> p]
           l == [i \in 0..0 |-> 0]
<1>1. Len(<< >>) = 0
  OBVIOUS
<1>2. \A i \in 1..0 : Runs(h[i - 1], << >>[i], h[i]) /\ l[i - 1] = l[i] + Ended(h[i - 1], h[i])
  OBVIOUS
<1>3. Track(<< >>, h, l, p)
  BY <1>1, <1>2 DEF Track, SameMem
<1>4. h[0] = p /\ l[0] = 0
  OBVIOUS
<1>5. QED
  BY <1>3, <1>4 DEF Leads

\* A byte that neither ends a write nor is part of its payload.
LEMMA LeadsByte ==
  ASSUME NEW p \in Parser, NEW q \in Parser, NEW b \in Byte, Runs(p, b, q), p.st # 5, SameMem(p, q)
  PROVE  Leads(p, <<b>>, 0, q)
<1> DEFINE s == <<b>>
           h == [i \in 0..1 |-> IF i = 0 THEN p ELSE q]
           l == [i \in 0..1 |-> 0]
<1>1. s \in Seq(Byte) /\ Len(s) = 1 /\ s[1] = b
  OBVIOUS
<1>2. h \in [0..1 -> Parser] /\ l \in [0..1 -> Nat] /\ h[0] = p /\ h[1] = q /\ l[0] = 0 /\ l[1] = 0
  OBVIOUS
<1> HIDE DEF s, h, l
<1>3. Ended(p, q) = 0
  BY DEF Ended
<1>4. \A i \in 1..1 : Runs(h[i - 1], s[i], h[i]) /\ l[i - 1] = l[i] + Ended(h[i - 1], h[i])
  <2> SUFFICES ASSUME NEW i \in 1..1
               PROVE  Runs(h[i - 1], s[i], h[i]) /\ l[i - 1] = l[i] + Ended(h[i - 1], h[i])
    OBVIOUS
  <2>1. i = 1 /\ i - 1 = 0
    OBVIOUS
  <2>2. QED
    BY <1>1, <1>2, <1>3, <2>1
<1>5. \A i \in 0..1 : l[i] = 0 => SameMem(h[i], q)
  <2>1. \A i \in 0..1 : i = 0 \/ i = 1
    OBVIOUS
  <2>2. SameMem(h[0], q) /\ SameMem(h[1], q)
    BY <1>2 DEF SameMem
  <2>3. QED
    BY <2>1, <2>2
<1>6. Track(s, h, l, q)
  BY <1>1, <1>2, <1>4, <1>5 DEF Track
<1>7. QED
  BY <1>2, <1>6 DEF Leads, s

\* Reading a byte is one link.
LEMMA LeadsTake ==
  ASSUME NEW s \in Seq(Byte), s # << >>, NEW p, NEW k, NEW e, Leads(p, s, k, e)
  PROVE  \E q \in Parser, n \in Nat :
           Runs(p, Head(s), q) /\ k = n + Ended(p, q) /\ Leads(q, Tail(s), n, e)
<1>1. PICK h, l : Track(s, h, l, e) /\ h[0] = p /\ l[0] = k
  BY DEF Leads
<1>2. /\ h \in [0..Len(s) -> Parser] /\ l \in [0..Len(s) -> Nat]
      /\ \A i \in 1..Len(s) : Runs(h[i - 1], s[i], h[i]) /\ l[i - 1] = l[i] + Ended(h[i - 1], h[i])
      /\ \A i \in 0..Len(s) : l[i] = 0 => SameMem(h[i], e)
      /\ h[Len(s)] = e /\ l[Len(s)] = 0
  BY <1>1 DEF Track
<1>3. /\ Len(s) \in Nat \ {0} /\ Head(s) = s[1]
      /\ Tail(s) \in Seq(Byte) /\ Len(Tail(s)) = Len(s) - 1
      /\ \A i \in 1..(Len(s) - 1) : Tail(s)[i] = s[i + 1]
  BY HeadTail
<1> DEFINE N == Len(s) - 1
           g == [i \in 0..N |-> h[i + 1]]
           m == [i \in 0..N |-> l[i + 1]]
<1>4. N \in Nat /\ Len(s) = N + 1 /\ Len(Tail(s)) = N
  BY <1>3
<1> HIDE DEF N
<1>5. /\ g \in [0..N -> Parser] /\ m \in [0..N -> Nat]
      /\ \A i \in 0..N : g[i] = h[i + 1] /\ m[i] = l[i + 1]
  BY <1>2, <1>4
<1> HIDE DEF g, m
<1>6. ASSUME NEW i \in 1..N
      PROVE  Runs(g[i - 1], Tail(s)[i], g[i]) /\ m[i - 1] = m[i] + Ended(g[i - 1], g[i])
  <2>1. /\ i + 1 \in 1..Len(s) /\ (i + 1) - 1 = i /\ i - 1 \in 0..N /\ i \in 0..N /\ (i - 1) + 1 = i
        /\ i \in 1..(Len(s) - 1)
    BY <1>4
  <2>2. g[i - 1] = h[i] /\ g[i] = h[i + 1] /\ m[i - 1] = l[i] /\ m[i] = l[i + 1] /\ Tail(s)[i] = s[i + 1]
    BY <1>3, <1>5, <2>1
  <2>3. Runs(h[(i + 1) - 1], s[i + 1], h[i + 1]) /\ l[(i + 1) - 1] = l[i + 1] + Ended(h[(i + 1) - 1], h[i + 1])
    BY <1>2, <2>1
  <2>4. QED
    BY <2>1, <2>2, <2>3
<1>7. \A i \in 0..N : m[i] = 0 => SameMem(g[i], e)
  <2> SUFFICES ASSUME NEW i \in 0..N, m[i] = 0 PROVE SameMem(g[i], e)
    OBVIOUS
  <2>1. i + 1 \in 0..Len(s)
    BY <1>4
  <2>2. QED
    BY <1>2, <1>5, <2>1
<1>8. g[N] = e /\ m[N] = 0
  BY <1>2, <1>4, <1>5
<1>9. Track(Tail(s), g, m, e)
  BY <1>4, <1>5, <1>6, <1>7, <1>8 DEF Track
<1>10. g[0] = h[1] /\ m[0] = l[1] /\ h[1] \in Parser /\ l[1] \in Nat
  BY <1>2, <1>4, <1>5
<1>11. Runs(p, Head(s), h[1]) /\ k = l[1] + Ended(p, h[1])
  <2>1. 1 \in 1..Len(s) /\ 1 - 1 = 0
    BY <1>3
  <2>2. Runs(h[1 - 1], s[1], h[1]) /\ l[1 - 1] = l[1] + Ended(h[1 - 1], h[1])
    BY <1>2, <2>1
  <2>3. QED
    BY <1>1, <1>3, <2>1, <2>2
<1>12. Leads(h[1], Tail(s), l[1], e)
  BY <1>9, <1>10 DEF Leads
<1>13. QED
  BY <1>10, <1>11, <1>12

\* What follows one stream follows the other.
LEMMA LeadsOn ==
  ASSUME NEW s \in Seq(Byte), NEW t \in Seq(Byte), NEW p, NEW k, NEW e, NEW j, NEW x,
         Leads(p, s, k, e), Leads(e, t, j, x)
  PROVE  Leads(p, s \o t, k + j, x)
<1>1. PICK h, l : Track(s, h, l, e) /\ h[0] = p /\ l[0] = k
  BY DEF Leads
<1>2. PICK g, m : Track(t, g, m, x) /\ g[0] = e /\ m[0] = j
  BY DEF Leads
<1>3. PICK N, M : N = Len(s) /\ M = Len(t)
  OBVIOUS
<1>4. /\ N \in Nat /\ M \in Nat /\ Len(s \o t) = N + M
      /\ \A i \in 1..N : (s \o t)[i] = s[i]
      /\ \A i \in 1..M : (s \o t)[i + N] = t[i]
  BY <1>3
<1>5. /\ h \in [0..N -> Parser] /\ l \in [0..N -> Nat]
      /\ \A i \in 1..N : Runs(h[i - 1], s[i], h[i]) /\ l[i - 1] = l[i] + Ended(h[i - 1], h[i])
      /\ \A i \in 0..N : l[i] = 0 => SameMem(h[i], e)
      /\ h[N] = e /\ l[N] = 0
  BY <1>1, <1>3 DEF Track
<1>6. /\ g \in [0..M -> Parser] /\ m \in [0..M -> Nat]
      /\ \A i \in 1..M : Runs(g[i - 1], t[i], g[i]) /\ m[i - 1] = m[i] + Ended(g[i - 1], g[i])
      /\ \A i \in 0..M : m[i] = 0 => SameMem(g[i], x)
      /\ g[M] = x /\ m[M] = 0
  BY <1>2, <1>3 DEF Track
<1>7. j \in Nat /\ (j = 0 => SameMem(e, x))
  BY <1>2, <1>4, <1>6
<1> DEFINE f == [i \in 0..(N + M) |-> IF i <= N THEN h[i] ELSE g[i - N]]
           n == [i \in 0..(N + M) |-> IF i <= N THEN l[i] + j ELSE m[i - N]]
<1>8. /\ f \in [0..(N + M) -> Parser] /\ n \in [0..(N + M) -> Nat]
      /\ \A i \in 0..N : f[i] = h[i] /\ n[i] = l[i] + j
  BY <1>4, <1>5, <1>6, <1>7
<1>9. \A i \in 0..M : f[i + N] = g[i] /\ n[i + N] = m[i]
  <2> SUFFICES ASSUME NEW i \in 0..M PROVE f[i + N] = g[i] /\ n[i + N] = m[i]
    OBVIOUS
  <2>1. CASE i = 0
    <3>1. i + N = N /\ N \in 0..N
      BY <1>4, <2>1
    <3>2. f[N] = h[N] /\ n[N] = l[N] + j
      BY <1>8, <3>1
    <3>3. l[N] + j = j
      BY <1>5, <1>7
    <3>4. QED
      BY <1>2, <1>5, <2>1, <3>1, <3>2, <3>3
  <2>2. CASE i # 0
    <3>1. i + N \in 0..(N + M) /\ ~(i + N <= N) /\ (i + N) - N = i
      BY <1>4, <2>2
    <3>2. QED
      BY <3>1
  <2>3. QED
    BY <2>1, <2>2
<1> HIDE DEF f, n
<1>10. ASSUME NEW i \in 1..(N + M)
       PROVE  Runs(f[i - 1], (s \o t)[i], f[i]) /\ n[i - 1] = n[i] + Ended(f[i - 1], f[i])
  <2>1. CASE i <= N
    <3>1. i \in 1..N /\ i - 1 \in 0..N /\ i \in 0..N
      BY <1>4, <2>1
    <3>2. f[i - 1] = h[i - 1] /\ f[i] = h[i] /\ (s \o t)[i] = s[i] /\ n[i - 1] = l[i - 1] + j /\ n[i] = l[i] + j
      BY <1>4, <1>8, <3>1
    <3>3. Runs(h[i - 1], s[i], h[i]) /\ l[i - 1] = l[i] + Ended(h[i - 1], h[i])
      BY <1>5, <3>1
    <3>4. l[i] \in Nat /\ Ended(h[i - 1], h[i]) \in Nat
      BY <1>5, <3>1 DEF Ended
    <3>5. QED
      BY <1>7, <3>2, <3>3, <3>4
  <2>2. CASE i > N
    <3>1. PICK u \in 1..M : i = u + N
      <4>1. i - N \in 1..M /\ i = (i - N) + N
        BY <1>4, <2>2
      <4>2. QED
        BY <4>1
    <3>2. u - 1 \in 0..M /\ u \in 0..M /\ i - 1 = (u - 1) + N
      BY <1>4, <3>1
    <3>3. f[i - 1] = g[u - 1] /\ f[i] = g[u] /\ n[i - 1] = m[u - 1] /\ n[i] = m[u]
      BY <1>9, <3>1, <3>2
    <3>4. (s \o t)[i] = t[u]
      BY <1>4, <3>1
    <3>5. QED
      BY <1>6, <3>1, <3>3, <3>4
  <2>3. QED
    BY <1>4, <2>1, <2>2
<1>11. ASSUME NEW i \in 0..(N + M), n[i] = 0 PROVE SameMem(f[i], x)
  <2>1. CASE i <= N
    <3>1. i \in 0..N
      BY <1>4, <2>1
    <3>2. f[i] = h[i] /\ l[i] \in Nat /\ l[i] + j = 0
      BY <1>5, <1>8, <1>11, <3>1
    <3>3. l[i] = 0 /\ j = 0
      BY <1>7, <3>2
    <3>4. SameMem(h[i], e) /\ SameMem(e, x)
      BY <1>5, <1>7, <3>1, <3>3
    <3>5. QED
      BY <3>2, <3>4 DEF SameMem
  <2>2. CASE i > N
    <3>1. PICK u \in 0..M : i = u + N
      <4>1. i - N \in 0..M /\ i = (i - N) + N
        BY <1>4, <2>2
      <4>2. QED
        BY <4>1
    <3>2. QED
      BY <1>6, <1>9, <1>11, <3>1
  <2>3. QED
    BY <1>4, <2>1, <2>2
<1>12. f[N + M] = x /\ n[N + M] = 0 /\ f[0] = p /\ n[0] = k + j
  <2>1. M \in 0..M /\ 0 \in 0..N /\ M + N = N + M
    BY <1>4
  <2>2. f[M + N] = g[M] /\ n[M + N] = m[M] /\ f[0] = h[0] /\ n[0] = l[0] + j
    BY <1>8, <1>9, <2>1
  <2>3. QED
    BY <1>1, <1>6, <2>1, <2>2
<1>13. Track(s \o t, f, n, x)
  BY <1>4, <1>8, <1>10, <1>11, <1>12 DEF Track
<1>14. QED
  BY <1>12, <1>13 DEF Leads

\* The bytes d[1] to d[j] laid over memory m from address o on.
Laid(m, o, d, j) ==
  [a \in DOMAIN m |-> IF a - o + 1 \in 1..j THEN d[a - o + 1] ELSE m[a]]

LEMMA LaidStep ==
  ASSUME NEW m \in Mem, NEW o \in Nat, NEW d \in Seq(Byte), NEW j \in 0..Len(d)
  PROVE  /\ Laid(m, o, d, j) \in Mem /\ Laid(m, o, d, 0) = m
         /\ j < Len(d) => Stored(Laid(m, o, d, j), o + j, d[j + 1]) = Laid(m, o, d, j + 1)
<1>0. /\ MemSize \in Nat /\ Len(d) \in Nat /\ j \in Nat /\ \A i \in 1..Len(d) : d[i] \in Byte
      /\ DOMAIN m = 0..(MemSize - 1) /\ m = [a \in 0..(MemSize - 1) |-> m[a]]
  BY MemAssumption DEF Mem
<1> DEFINE A == 0..(MemSize - 1)
<1>1. \A i \in 0..Len(d) : Laid(m, o, d, i) = [a \in A |-> IF a - o + 1 \in 1..i THEN d[a - o + 1] ELSE m[a]]
  BY <1>0 DEF Laid
<1>2. ASSUME NEW i \in 0..Len(d) PROVE Laid(m, o, d, i) \in Mem
  <2>1. \A a \in A : m[a] \in Byte /\ (a - o + 1 \in 1..i => d[a - o + 1] \in Byte)
    BY <1>0 DEF Mem
  <2>2. QED
    BY <1>1, <2>1 DEF Mem
<1>3. Laid(m, o, d, 0) = m
  <2>1. \A a \in A : a - o + 1 \notin 1..0
    BY <1>0
  <2>2. [a \in A |-> IF a - o + 1 \in 1..0 THEN d[a - o + 1] ELSE m[a]] = [a \in A |-> m[a]]
    BY <2>1
  <2>3. QED
    BY <1>0, <1>1, <2>2
<1>4. ASSUME j < Len(d)
      PROVE  Stored(Laid(m, o, d, j), o + j, d[j + 1]) = Laid(m, o, d, j + 1)
  <2>1. PICK u, v : u = Laid(m, o, d, j) /\ v = Laid(m, o, d, j + 1)
    OBVIOUS
  <2>2. j \in 0..Len(d) /\ j + 1 \in 0..Len(d)
    BY <1>0, <1>4
  <2>3. /\ u \in [A -> Byte] /\ v \in [A -> Byte] /\ DOMAIN u = A
        /\ \A a \in A : u[a] = IF a - o + 1 \in 1..j THEN d[a - o + 1] ELSE m[a]
        /\ \A a \in A : v[a] = IF a - o + 1 \in 1..(j + 1) THEN d[a - o + 1] ELSE m[a]
    BY <1>1, <1>2, <2>1, <2>2 DEF Mem
  <2> HIDE DEF A
  <2>4. ASSUME NEW a \in A PROVE a \in Int
    BY <1>0 DEF A
  <2>5. ASSUME NEW a \in A, a # o + j PROVE v[a] = u[a]
    <3>1. a - o + 1 \in 1..j <=> a - o + 1 \in 1..(j + 1)
      BY <1>0, <2>4, <2>5
    <3>2. QED
      BY <2>3, <3>1
  <2>6. ASSUME o + j \in A PROVE v[o + j] = d[j + 1]
    <3>1. (o + j) - o + 1 = j + 1 /\ j + 1 \in 1..(j + 1)
      BY <1>0
    <3>2. QED
      BY <2>3, <2>6, <3>1
  <2>7. CASE o + j \in A
    <3>1. [u EXCEPT ![o + j] = d[j + 1]] = v
      BY <2>3, <2>5, <2>6, <2>7
    <3>2. QED
      BY <2>1, <2>3, <2>7, <3>1 DEF Stored
  <2>8. CASE o + j \notin A
    <3>1. u = v
      BY <2>3, <2>5, <2>8
    <3>2. QED
      BY <2>1, <2>3, <2>8, <3>1 DEF Stored
  <2>9. QED
    BY <2>7, <2>8
<1>5. QED
  BY <1>2, <1>3, <1>4

\* The parser after j bytes of the payload d, from p.
ConfAfter(p, d, j) == IF p.conf THEN Laid(p.ee, p.off, d, j) ELSE p.ee
LedsAfter(p, d, j) == IF ToLeds(p) THEN Laid(p.leds, p.buf, d, j) ELSE p.leds
Paid(p, d, j) ==
  [st   |-> IF j = Len(d) THEN 0 ELSE 5,
   n    |-> Len(d) - j,
   c    |-> p.c,
   conf |-> p.conf,
   buf  |-> IF ToLeds(p) THEN p.buf + j ELSE p.buf,
   off  |-> IF p.conf THEN p.off + j ELSE p.off,
   ee   |-> IF j = Len(d) THEN handleCommand(p.c, ConfAfter(p, d, j)) ELSE ConfAfter(p, d, j),
   leds |-> LedsAfter(p, d, j)]

LEMMA PaidType ==
  ASSUME NEW p \in Parser, NEW d \in Payload, NEW j \in 0..Len(d)
  PROVE  Paid(p, d, j) \in Parser
<1>1. d \in Seq(Byte) /\ Len(d) \in 0..255 /\ j \in Nat
  BY DEF Payload, Byte
<1>2. /\ p.c \in Byte /\ p.conf \in BOOLEAN /\ p.buf \in {NULL} \cup Nat /\ p.off \in Nat
      /\ p.ee \in Mem /\ p.leds \in Mem
  BY DEF Parser
<1>3. ToLeds(p) => p.buf \in Nat
  BY <1>2 DEF ToLeds
<1>4. ConfAfter(p, d, j) \in Mem /\ LedsAfter(p, d, j) \in Mem
  BY <1>1, <1>2, <1>3, LaidStep DEF ConfAfter, LedsAfter
<1>5. handleCommand(p.c, ConfAfter(p, d, j)) \in Mem
  BY <1>4, DefaultMem DEF handleCommand
<1>6. PICK st, n, b, o, m :
        /\ st = (IF j = Len(d) THEN 0 ELSE 5) /\ n = Len(d) - j
        /\ b = (IF ToLeds(p) THEN p.buf + j ELSE p.buf)
        /\ o = (IF p.conf THEN p.off + j ELSE p.off)
        /\ m = (IF j = Len(d) THEN handleCommand(p.c, ConfAfter(p, d, j)) ELSE ConfAfter(p, d, j))
  OBVIOUS
<1>7. st \in 0..5 /\ n \in Byte /\ m \in Mem
  <2>1. st \in 0..5
    BY <1>6
  <2>2. n \in Byte
    <3>1. ASSUME NEW N \in 0..255, NEW i \in 0..N PROVE N - i \in 0..255
      OBVIOUS
    <3>2. QED
      BY <1>1, <1>6, <3>1 DEF Byte
  <2>3. m \in Mem
    BY <1>4, <1>5, <1>6, Zenon
  <2>4. QED
    BY <2>1, <2>2, <2>3
<1>8. b \in {NULL} \cup Nat
  BY <1>1, <1>2, <1>3, <1>6
<1>9. o \in Nat
  BY <1>1, <1>2, <1>6
<1>10. QED
  BY <1>2, <1>4, <1>6, <1>7, <1>8, <1>9 DEF Paid, Parser

LEMMA PaidStep ==
  ASSUME NEW p \in Parser, NEW d \in Payload, NEW j \in 0..Len(d), j < Len(d)
  PROVE  Runs(Paid(p, d, j), d[j + 1], Paid(p, d, j + 1))
<1>1. d \in Seq(Byte) /\ Len(d) \in 0..255 /\ j \in Nat /\ j # Len(d)
  BY DEF Payload, Byte
<1>2. /\ p.c \in Byte /\ p.conf \in BOOLEAN /\ p.buf \in {NULL} \cup Nat /\ p.off \in Nat
      /\ p.ee \in Mem /\ p.leds \in Mem
  BY DEF Parser
<1>3. PICK x, y, b : x = Paid(p, d, j) /\ y = Paid(p, d, j + 1) /\ b = d[j + 1]
  OBVIOUS
<1>4. /\ x.st = 5 /\ x.n = Len(d) - j /\ x.c = p.c /\ x.conf = p.conf
      /\ x.buf = (IF ToLeds(p) THEN p.buf + j ELSE p.buf)
      /\ x.off = (IF p.conf THEN p.off + j ELSE p.off)
      /\ x.ee = ConfAfter(p, d, j) /\ x.leds = LedsAfter(p, d, j)
  BY <1>1, <1>3 DEF Paid
<1>5. /\ y.st = (IF j + 1 = Len(d) THEN 0 ELSE 5) /\ y.n = Len(d) - (j + 1) /\ y.c = p.c /\ y.conf = p.conf
      /\ y.buf = (IF ToLeds(p) THEN p.buf + (j + 1) ELSE p.buf)
      /\ y.off = (IF p.conf THEN p.off + (j + 1) ELSE p.off)
      /\ y.ee = (IF j + 1 = Len(d) THEN handleCommand(p.c, ConfAfter(p, d, j + 1)) ELSE ConfAfter(p, d, j + 1))
      /\ y.leds = LedsAfter(p, d, j + 1)
  BY <1>3 DEF Paid
<1>6. y.n = Dec8(x.n) /\ (y.n = 0 <=> j + 1 = Len(d)) /\ y.st = FrameEnd(y.n)
  <2>1. ASSUME NEW N \in 0..255, NEW i \in Nat, i < N
        PROVE  N - (i + 1) = Dec8(N - i) /\ (N - (i + 1) = 0 <=> i + 1 = N)
    BY <2>1 DEF Dec8
  <2>2. y.n = Dec8(x.n) /\ (y.n = 0 <=> j + 1 = Len(d))
    BY <1>1, <1>4, <1>5, <2>1
  <2>3. QED
    BY <1>5, <2>2, Zenon DEF FrameEnd
<1>7. ToLeds(x) <=> ToLeds(p)
  <2>1. CASE ToLeds(p)
    <3>1. p.buf \in Nat /\ x.buf = p.buf + j
      BY <1>2, <1>4, <2>1 DEF ToLeds
    <3>2. x.buf # NULL
      BY <1>1, <3>1 DEF NULL
    <3>3. QED
      BY <1>4, <2>1, <3>2 DEF ToLeds
  <2>2. CASE ~ToLeds(p)
    BY <1>4, <2>2 DEF ToLeds
  <2>3. QED
    BY <2>1, <2>2
<1>8. ConfAfter(p, d, j + 1) = IF x.conf THEN Stored(x.ee, x.off, b) ELSE x.ee
  <2>1. CASE p.conf
    <3>1. Stored(Laid(p.ee, p.off, d, j), p.off + j, d[j + 1]) = Laid(p.ee, p.off, d, j + 1)
      BY <1>1, <1>2, LaidStep
    <3>2. QED
      BY <1>3, <1>4, <2>1, <3>1, Zenon DEF ConfAfter
  <2>2. CASE ~p.conf
    BY <1>4, <2>2 DEF ConfAfter
  <2>3. QED
    BY <2>1, <2>2
<1>9. LedsAfter(p, d, j + 1) = IF ToLeds(x) THEN Stored(x.leds, x.buf, b) ELSE x.leds
  <2>1. CASE ToLeds(p)
    <3>1. p.buf \in Nat
      BY <1>2, <2>1 DEF ToLeds
    <3>2. Stored(Laid(p.leds, p.buf, d, j), p.buf + j, d[j + 1]) = Laid(p.leds, p.buf, d, j + 1)
      BY <1>1, <1>2, <3>1, LaidStep
    <3>3. QED
      BY <1>3, <1>4, <1>7, <2>1, <3>2 DEF LedsAfter
  <2>2. CASE ~ToLeds(p)
    BY <1>4, <1>7, <2>2 DEF LedsAfter
  <2>3. QED
    BY <2>1, <2>2
<1>10. y.off = IF x.conf THEN x.off + 1 ELSE x.off
  <2>1. CASE p.conf
    <3>1. p.off + (j + 1) = (p.off + j) + 1
      BY <1>1, <1>2
    <3>2. QED
      BY <1>4, <1>5, <2>1, <3>1, Zenon
  <2>2. CASE ~p.conf
    BY <1>4, <1>5, <2>2, Zenon
  <2>3. QED
    BY <2>1, <2>2
<1>11. y.buf = IF ToLeds(x) THEN x.buf + 1 ELSE x.buf
  <2>1. CASE ToLeds(p)
    <3>1. p.buf \in Nat
      BY <1>2, <2>1 DEF ToLeds
    <3>2. QED
      BY <1>1, <1>4, <1>5, <1>7, <2>1, <3>1
  <2>2. CASE ~ToLeds(p)
    BY <1>4, <1>5, <1>7, <2>2
  <2>3. QED
    BY <2>1, <2>2
<1>12. y.ee = IF y.n = 0 THEN handleCommand(x.c, ConfAfter(p, d, j + 1)) ELSE ConfAfter(p, d, j + 1)
  BY <1>4, <1>5, <1>6
<1>13. RunsPayload(x, b, y)
  BY <1>4, <1>5, <1>6, <1>8, <1>9, <1>10, <1>11, <1>12, Zenon DEF RunsPayload
<1>14. QED
  BY <1>3, <1>13 DEF Runs

\* A payload is one write.
LEMMA LeadsPayload ==
  ASSUME NEW p \in Parser, NEW d \in Payload, Len(d) >= 1, p.st = 5, p.n = Len(d)
  PROVE  Leads(p, d, 1, Paid(p, d, Len(d)))
<1>1. PICK N : N = Len(d)
  OBVIOUS
<1>2. d \in Seq(Byte) /\ N \in 1..255 /\ N \in Nat
  <2>1. d \in Seq(Byte) /\ Len(d) \in 0..255
    BY DEF Payload, Byte
  <2>2. N \in 0..255 /\ N >= 1
    BY <1>1, <2>1, Zenon
  <2>3. QED
    BY <2>1, <2>2
<1> DEFINE h == [i \in 0..N |-> Paid(p, d, i)]
           l == [i \in 0..N |-> IF i = N THEN 0 ELSE 1]
<1>3. h \in [0..N -> Parser] /\ l \in [0..N -> Nat]
  BY <1>1, <1>2, PaidType
<1>4. /\ \A i \in 0..N : h[i] = Paid(p, d, i)
      /\ \A i \in 0..N : l[i] = IF i = N THEN 0 ELSE 1
  OBVIOUS
<1> HIDE DEF h, l
<1>5. ASSUME NEW i \in 1..N
      PROVE  Runs(h[i - 1], d[i], h[i]) /\ l[i - 1] = l[i] + Ended(h[i - 1], h[i])
  <2>1. PICK j \in 0..N : i = j + 1 /\ j < N
    <3>1. i - 1 \in 0..N /\ i = (i - 1) + 1 /\ i - 1 < N
      BY <1>2
    <3>2. QED
      BY <3>1
  <2>2. i - 1 = j /\ i \in 0..N /\ j # N
    BY <1>2, <2>1
  <2>3. h[i - 1] = Paid(p, d, j) /\ h[i] = Paid(p, d, j + 1)
    BY <1>4, <2>1, <2>2
  <2>4. Runs(Paid(p, d, j), d[j + 1], Paid(p, d, j + 1))
    BY <1>1, <2>1, PaidStep
  <2>5. h[i - 1].st = 5 /\ h[i].st = IF i = N THEN 0 ELSE 5
    BY <1>1, <2>1, <2>2, <2>3 DEF Paid
  <2>6. Ended(h[i - 1], h[i]) = IF i = N THEN 1 ELSE 0
    BY <2>5 DEF Ended
  <2>7. l[i - 1] = 1 /\ l[i] = IF i = N THEN 0 ELSE 1
    BY <1>4, <2>1, <2>2
  <2>8. l[i - 1] = l[i] + Ended(h[i - 1], h[i])
    BY <2>6, <2>7
  <2>9. QED
    BY <2>1, <2>3, <2>4, <2>8
<1>6. \A i \in 0..N : l[i] = 0 => i = N
  BY <1>4
<1>7. h[N] = Paid(p, d, N) /\ l[N] = 0 /\ l[0] = 1
  BY <1>2, <1>4
<1>8. \A i \in 0..N : l[i] = 0 => SameMem(h[i], Paid(p, d, N))
  BY <1>6, <1>7 DEF SameMem
<1>9. Track(d, h, l, Paid(p, d, N))
  BY <1>1, <1>3, <1>5, <1>7, <1>8 DEF Track
<1>10. h[0] = p
  <2>1. h[0] = Paid(p, d, 0) /\ h[0] \in Parser /\ 0 # N
    BY <1>2, <1>3, <1>4
  <2>2. ConfAfter(p, d, 0) = p.ee /\ LedsAfter(p, d, 0) = p.leds
    <3>1. p.ee \in Mem /\ p.leds \in Mem /\ p.off \in Nat /\ p.buf \in {NULL} \cup Nat /\ 0 \in 0..Len(d)
      BY <1>1, <1>2 DEF Parser
    <3>2. ToLeds(p) => p.buf \in Nat
      BY <3>1 DEF ToLeds
    <3>3. QED
      BY <1>2, <3>1, <3>2, LaidStep DEF ConfAfter, LedsAfter
  <2>3. /\ h[0].st = 5 /\ h[0].n = N /\ h[0].c = p.c /\ h[0].conf = p.conf /\ h[0].ee = p.ee /\ h[0].leds = p.leds
        /\ h[0].buf = (IF ToLeds(p) THEN p.buf + 0 ELSE p.buf)
        /\ h[0].off = (IF p.conf THEN p.off + 0 ELSE p.off)
    BY <1>1, <1>2, <2>1, <2>2 DEF Paid
  <2>4. h[0].buf = p.buf
    <3>1. CASE ToLeds(p)
      <4>1. p.buf \in Nat
        BY <3>1 DEF ToLeds, Parser
      <4>2. QED
        BY <2>3, <4>1
    <3>2. CASE ~ToLeds(p)
      BY <2>3, <3>2
    <3>3. QED
      BY <3>1, <3>2
  <2>5. h[0].off = p.off
    BY <2>3 DEF Parser
  <2>6. QED
    BY <1>1, <2>1, <2>3, <2>4, <2>5 DEF Parser
<1>11. QED
  BY <1>1, <1>7, <1>9, <1>10 DEF Leads

\* What a command makes of the configuration and of the LEDs (the code's effect as
\* HostWrite states it).
ConfigOf(c, d, m) ==
  CASE c = COMMAND_WRITE_CONFIG -> Written(m, d) [] c = COMMAND_RESET -> default_config [] OTHER -> m
LedsOf(c, d, m) == IF c = COMMAND_SET_LEDS THEN Written(m, d) ELSE m

LEMMA AddressNat == ASSUME NEW n \in Byte PROVE BlockAddress(n) \in Nat
<1>1. n \in Nat /\ PACKET_SIZE \in Nat
  BY MemAssumption DEF Byte
<1>2. QED
  BY <1>1 DEF BlockAddress

\* Laying the bytes after the block number at the block's address is Written.
LEMMA LaidWritten ==
  ASSUME NEW m \in Mem, NEW d \in Payload, Len(d) >= 1
  PROVE  Laid(m, BlockAddress(d[1]), Tail(d), Len(d) - 1) = Written(m, d)
<1>1. d \in Seq(Byte) /\ d # << >> /\ Len(d) \in Nat /\ d[1] \in Byte
  BY DEF Payload
<1>2. PICK o \in Nat : o = BlockAddress(d[1])
  BY <1>1, AddressNat
<1>3. o = d[1] * PACKET_SIZE
  BY <1>2 DEF BlockAddress
<1>4. \A i \in 1..(Len(d) - 1) : Tail(d)[i] = d[i + 1]
  BY <1>1, HeadTail
<1>5. DOMAIN m = 0..(MemSize - 1) /\ MemSize \in Nat
  BY MemAssumption DEF Mem
<1>6. PICK A : A = DOMAIN m
  OBVIOUS
<1>7. \A a \in A : a \in Int
  BY <1>5, <1>6
<1>8. ASSUME NEW a \in A
      PROVE  (IF a - o + 1 \in 1..(Len(d) - 1) THEN Tail(d)[a - o + 1] ELSE m[a])
               = (IF a - o + 2 \in 2..Len(d) THEN d[a - o + 2] ELSE m[a])
  <2>1. PICK i \in Int : i = a - o + 1
    BY <1>7
  <2>2. a - o + 2 = i + 1
    BY <1>7, <2>1
  <2>3. i \in 1..(Len(d) - 1) <=> i + 1 \in 2..Len(d)
    BY <1>1
  <2>4. i \in 1..(Len(d) - 1) => Tail(d)[i] = d[i + 1]
    BY <1>4
  <2>5. QED
    BY <2>1, <2>2, <2>3, <2>4
<1>9. [a \in A |-> IF a - o + 1 \in 1..(Len(d) - 1) THEN Tail(d)[a - o + 1] ELSE m[a]]
        = [a \in A |-> IF a - o + 2 \in 2..Len(d) THEN d[a - o + 2] ELSE m[a]]
  BY <1>8
<1>10. Laid(m, o, Tail(d), Len(d) - 1) = [a \in A |-> IF a - o + 1 \in 1..(Len(d) - 1) THEN Tail(d)[a - o + 1] ELSE m[a]]
  BY <1>6 DEF Laid
<1>11. Written(m, d) = [a \in A |-> IF a - o + 2 \in 2..Len(d) THEN d[a - o + 2] ELSE m[a]]
  BY <1>3, <1>6 DEF Written
<1>12. QED
  BY <1>2, <1>9, <1>10, <1>11

\* The parser of p with other registers.
At(p, st, n, c, conf, b, o) ==
  [st |-> st, n |-> n, c |-> c, conf |-> conf, buf |-> b, off |-> o, ee |-> p.ee, leds |-> p.leds]

LEMMA Tuples ==
  ASSUME NEW a \in Byte, NEW b \in Byte, NEW c \in Byte
  PROVE  /\ <<a>> \in Seq(Byte) /\ <<a, b>> \in Seq(Byte)
         /\ <<a>> \o <<b>> = <<a, b>> /\ <<a, b>> \o <<c>> = <<a, b, c>>
<1>1. /\ <<a>> \in Seq(Byte) /\ <<b>> \in Seq(Byte) /\ <<c>> \in Seq(Byte)
      /\ <<a, b>> \in Seq(Byte) /\ <<a, b, c>> \in Seq(Byte)
  BY OneTwoThree
<1>2. <<a>> \o <<b>> = <<a, b>>
  <2>1. PICK u, v : u = <<a>> \o <<b>> /\ v = <<a, b>>
    OBVIOUS
  <2>2. u \in Seq(Byte) /\ v \in Seq(Byte) /\ Len(u) = 2 /\ Len(v) = 2
    BY <1>1, <2>1
  <2>3. u[1] = a /\ u[2] = b /\ v[1] = a /\ v[2] = b
    BY <1>1, <2>1
  <2>4. \A i \in 1..2 : u[i] = v[i]
    BY <2>3
  <2>5. u = v
    BY <2>2, <2>4, SeqEqual
  <2>6. QED
    BY <2>1, <2>5
<1>3. <<a, b>> \o <<c>> = <<a, b, c>>
  <2>1. PICK u, v : u = <<a, b>> \o <<c>> /\ v = <<a, b, c>>
    OBVIOUS
  <2>2. u \in Seq(Byte) /\ v \in Seq(Byte) /\ Len(u) = 3 /\ Len(v) = 3
    BY <1>1, <2>1
  <2>3. u[1] = a /\ u[2] = b /\ u[3] = c /\ v[1] = a /\ v[2] = b /\ v[3] = c
    BY <1>1, <2>1
  <2>4. \A i \in 1..3 : u[i] = v[i]
    BY <2>3
  <2>5. u = v
    BY <2>2, <2>4, SeqEqual
  <2>6. QED
    BY <2>1, <2>5
<1>4. QED
  BY <1>1, <1>2, <1>3

\* FRAME_DONE and a read leave everything as it is.
LEMMA LeadsIdle ==
  ASSUME NEW e \in Parser, e.st = 0, NEW c \in Byte
  PROVE  Leads(e, <<FRAME_DONE>>, 0, e) /\ Leads(e, FeatureReadFrame(c), 0, e)
<1>1. FRAME_DONE \in Byte /\ FRAME_START_FEATURE_READ \in Byte
  BY DEF FRAME_DONE, FRAME_START_FEATURE_READ, Byte
<1>2. Leads(e, <<FRAME_DONE>>, 0, e)
  <2>1. RunsStart(e, FRAME_DONE, e)
    BY DEF RunsStart, SameRegs, SameMem, FRAME_DONE, FRAME_START_FEATURE_WRITE, FRAME_START_FEATURE_READ
  <2>2. SameMem(e, e) /\ Runs(e, FRAME_DONE, e)
    BY <2>1 DEF SameMem, Runs
  <2>3. QED
    BY <1>1, <2>2, LeadsByte
<1>3. PICK q : q = At(e, 2, e.n, e.c, e.conf, e.buf, e.off)
  OBVIOUS
<1>4. /\ q \in Parser /\ SameMem(e, q) /\ q.st = 2 /\ SameRegs(e, q)
      /\ SameMem(q, e) /\ SameRegs(q, e)
  <2>1. /\ e.n \in Byte /\ e.c \in Byte /\ e.conf \in BOOLEAN /\ e.buf \in {NULL} \cup Nat /\ e.off \in Nat
        /\ 2 \in 0..5
    BY DEF Parser
  <2>2. /\ q \in Parser /\ SameMem(e, q) /\ q.st = 2 /\ q.n = e.n /\ q.c = e.c /\ q.conf = e.conf
        /\ q.buf = e.buf /\ q.off = e.off
    BY <1>3, <2>1 DEF At, Parser, SameMem
  <2>3. QED
    BY <2>2, Zenon DEF SameRegs, SameMem
<1>5. Leads(e, <<FRAME_START_FEATURE_READ>>, 0, q)
  <2>1. RunsStart(e, FRAME_START_FEATURE_READ, q)
    BY <1>4 DEF RunsStart, FRAME_START_FEATURE_WRITE, FRAME_START_FEATURE_READ
  <2>2. QED
    BY <1>1, <1>4, <2>1, LeadsByte DEF Runs
<1>6. Leads(q, <<c>>, 0, e)
  <2>1. RunsRead(q, c, e)
    BY <1>4 DEF RunsRead
  <2>2. QED
    BY <1>4, <2>1, LeadsByte DEF Runs
<1>7. Leads(e, <<FRAME_START_FEATURE_READ>> \o <<c>>, 0 + 0, e)
  <2>1. <<FRAME_START_FEATURE_READ>> \in Seq(Byte) /\ <<c>> \in Seq(Byte)
    BY <1>1
  <2>2. QED
    BY <1>5, <1>6, <2>1, LeadsOn
<1>8. 0 + 0 = 0 /\ <<FRAME_START_FEATURE_READ>> \o <<c>> = FeatureReadFrame(c)
  <2>1. <<FRAME_START_FEATURE_READ>> \o <<c>> = <<FRAME_START_FEATURE_READ, c>>
    BY <1>1, Tuples
  <2>2. QED
    BY <2>1 DEF FeatureReadFrame
<1>9. QED
  BY <1>2, <1>7, <1>8

\* The marker, the length and the command.
AfterCommand(e, c, n) ==
  At(e, IF c \in Blocks THEN 4 ELSE 5, IF c \in Blocks THEN n - 1 ELSE n, c,
     e.conf \/ c = COMMAND_WRITE_CONFIG,
     CASE c = COMMAND_WRITE_CONFIG -> e.buf [] c = COMMAND_SET_LEDS -> 0 [] OTHER -> NULL,
     e.off)

LEMMA LeadsHeader ==
  ASSUME NEW e \in Parser, e.st = 0, NEW c \in Byte, NEW n \in Byte, n >= 1
  PROVE  /\ AfterCommand(e, c, n) \in Parser
         /\ Leads(e, <<FRAME_START_FEATURE_WRITE, n, c>>, 0, AfterCommand(e, c, n))
<1>0. /\ e.n \in Byte /\ e.c \in Byte /\ e.conf \in BOOLEAN /\ e.buf \in {NULL} \cup Nat /\ e.off \in Nat
      /\ 0 \in 0..5 /\ 1 \in 0..5 /\ 3 \in 0..5
  BY DEF Parser
<1>1. FRAME_START_FEATURE_WRITE \in Byte
  BY DEF FRAME_START_FEATURE_WRITE, Byte
<1>2. PICK p1, p2, p3 :
        /\ p1 = At(e, 1, e.n, e.c, e.conf, e.buf, e.off)
        /\ p2 = At(e, 3, n, e.c, e.conf, e.buf, e.off)
        /\ p3 = AfterCommand(e, c, n)
  OBVIOUS
<1>3. /\ p1 \in Parser /\ SameMem(e, p1) /\ p1.st = 1 /\ SameRegs(e, p1)
      /\ p2 \in Parser /\ SameMem(e, p2) /\ p2.st = 3 /\ p2.n = n
      /\ p2.c = e.c /\ p2.conf = e.conf /\ p2.buf = e.buf /\ p2.off = e.off
  <2>1. /\ p1 \in Parser /\ SameMem(e, p1) /\ p1.st = 1 /\ p1.n = e.n /\ p1.c = e.c /\ p1.conf = e.conf
        /\ p1.buf = e.buf /\ p1.off = e.off
    BY <1>0, <1>2 DEF At, Parser, SameMem
  <2>2. /\ p2 \in Parser /\ SameMem(e, p2) /\ p2.st = 3 /\ p2.n = n /\ p2.c = e.c /\ p2.conf = e.conf
        /\ p2.buf = e.buf /\ p2.off = e.off
    BY <1>0, <1>2 DEF At, Parser, SameMem
  <2>3. QED
    BY <2>1, <2>2, Zenon DEF SameRegs
<1>4. PICK st, m, conf, b :
        /\ st = (IF c \in Blocks THEN 4 ELSE 5) /\ m = (IF c \in Blocks THEN n - 1 ELSE n)
        /\ conf = (e.conf \/ c = COMMAND_WRITE_CONFIG)
        /\ b = (CASE c = COMMAND_WRITE_CONFIG -> e.buf [] c = COMMAND_SET_LEDS -> 0 [] OTHER -> NULL)
  OBVIOUS
<1>5. st \in 0..5 /\ m \in Byte /\ conf \in BOOLEAN /\ b \in {NULL} \cup Nat
  <2>1. st \in 0..5
    BY <1>4
  <2>2. m \in Byte
    BY <1>4 DEF Byte
  <2>3. conf \in BOOLEAN
    BY <1>0, <1>4, Zenon
  <2>4. b \in {NULL} \cup Nat
    BY <1>0, <1>4 DEF COMMAND_WRITE_CONFIG, COMMAND_SET_LEDS
  <2>5. QED
    BY <2>1, <2>2, <2>3, <2>4
<1>6. p3 = At(e, st, m, c, conf, b, e.off)
  BY <1>2, <1>4, Zenon DEF AfterCommand
<1>7. /\ p3 \in Parser /\ SameMem(e, p3) /\ p3.st = st /\ p3.n = m /\ p3.c = c /\ p3.conf = conf
      /\ p3.buf = b /\ p3.off = e.off
  BY <1>0, <1>5, <1>6 DEF At, Parser, SameMem
<1>8. SameMem(p1, p2) /\ SameMem(p2, p3)
  BY <1>3, <1>7 DEF SameMem
<1>9. Leads(e, <<FRAME_START_FEATURE_WRITE>>, 0, p1)
  <2>1. RunsStart(e, FRAME_START_FEATURE_WRITE, p1)
    BY <1>3 DEF RunsStart, FRAME_START_FEATURE_WRITE, FRAME_START_FEATURE_READ
  <2>2. QED
    BY <1>1, <1>3, <2>1, LeadsByte DEF Runs
<1>10. Leads(p1, <<n>>, 0, p2)
  <2>1. RunsLength(p1, n, p2)
    BY <1>3, <1>8 DEF RunsLength, SameRegs
  <2>2. QED
    BY <1>3, <1>8, <2>1, LeadsByte DEF Runs
<1>11. Leads(p2, <<c>>, 0, p3)
  <2>1. n - 1 = Dec8(n)
    BY DEF Dec8, Byte
  <2>2. m = IF c \in Blocks THEN Dec8(p2.n) ELSE p2.n
    BY <1>3, <1>4, <2>1, Zenon
  <2>3. RunsCommand(p2, c, p3)
    BY <1>3, <1>4, <1>7, <1>8, <2>2, Zenon DEF RunsCommand
  <2>4. QED
    BY <1>3, <1>7, <1>8, <2>3, LeadsByte DEF Runs
<1>12. /\ <<FRAME_START_FEATURE_WRITE>> \in Seq(Byte) /\ <<n>> \in Seq(Byte) /\ <<c>> \in Seq(Byte)
       /\ <<FRAME_START_FEATURE_WRITE, n>> \in Seq(Byte)
       /\ <<FRAME_START_FEATURE_WRITE>> \o <<n>> = <<FRAME_START_FEATURE_WRITE, n>>
       /\ <<FRAME_START_FEATURE_WRITE, n>> \o <<c>> = <<FRAME_START_FEATURE_WRITE, n, c>>
  BY <1>1, Tuples
<1>13. 0 + 0 = 0
  OBVIOUS
<1>14. Leads(e, <<FRAME_START_FEATURE_WRITE, n>>, 0, p2)
  BY <1>9, <1>10, <1>12, <1>13, LeadsOn
<1>15. Leads(e, <<FRAME_START_FEATURE_WRITE, n, c>>, 0, p3)
  BY <1>11, <1>12, <1>13, <1>14, LeadsOn
<1>16. QED
  BY <1>2, <1>7, <1>15

LEMMA CommandPoint ==
  ASSUME NEW e \in Parser, NEW c \in Byte, NEW n, NEW q, q = AfterCommand(e, c, n)
  PROVE  /\ q.st = (IF c \in Blocks THEN 4 ELSE 5) /\ q.n = (IF c \in Blocks THEN n - 1 ELSE n)
         /\ q.c = c /\ q.conf = (e.conf \/ c = COMMAND_WRITE_CONFIG)
         /\ q.buf = (CASE c = COMMAND_WRITE_CONFIG -> e.buf [] c = COMMAND_SET_LEDS -> 0 [] OTHER -> NULL)
         /\ q.ee = e.ee /\ q.leds = e.leds
BY DEF AfterCommand, At

LEMMA PaidEnd ==
  ASSUME NEW p \in Parser, NEW d, NEW x, x = Paid(p, d, Len(d))
  PROVE  /\ x.st = 0 /\ x.conf = p.conf /\ x.ee = handleCommand(p.c, ConfAfter(p, d, Len(d)))
         /\ x.leds = LedsAfter(p, d, Len(d))
BY DEF Paid

\* Where a write leaves the parser.
WriteDone(e, c, d, x) ==
  /\ x \in Parser /\ x.st = 0 /\ (x.conf => e.conf \/ c = COMMAND_WRITE_CONFIG)
  /\ x.ee = ConfigOf(c, d, e.ee) /\ x.leds = LedsOf(c, d, e.leds)

\* A write without a block number: only a reset may follow a configuration write.
LEMMA LeadsPlain ==
  ASSUME NEW e \in Parser, e.st = 0, NEW c \in Byte, NEW d \in Payload, LongEnough(c, d),
         c \notin Blocks, e.conf => c = COMMAND_RESET
  PROVE  \E x : Leads(e, FeatureWriteFrame(c, d), 1, x) /\ WriteDone(e, c, d, x)
<1>1. d \in Seq(Byte) /\ Len(d) \in Byte /\ Len(d) >= 1
  BY DEF Payload, LongEnough
<1>2. PICK q : q = AfterCommand(e, c, Len(d))
  OBVIOUS
<1>3. q \in Parser /\ Leads(e, <<FRAME_START_FEATURE_WRITE, Len(d), c>>, 0, q)
  BY <1>1, <1>2, LeadsHeader
<1>4. c # COMMAND_WRITE_CONFIG /\ c # COMMAND_SET_LEDS
  BY DEF Blocks
<1>5. /\ q.st = 5 /\ q.n = Len(d) /\ q.c = c /\ (q.conf => e.conf) /\ q.buf = NULL
      /\ q.ee = e.ee /\ q.leds = e.leds
  <2>1. /\ q.st = (IF c \in Blocks THEN 4 ELSE 5) /\ q.n = (IF c \in Blocks THEN Len(d) - 1 ELSE Len(d))
        /\ q.c = c /\ q.conf = (e.conf \/ c = COMMAND_WRITE_CONFIG)
        /\ q.buf = (CASE c = COMMAND_WRITE_CONFIG -> e.buf [] c = COMMAND_SET_LEDS -> 0 [] OTHER -> NULL)
        /\ q.ee = e.ee /\ q.leds = e.leds
    BY <1>2, CommandPoint
  <2>2. q.st = 5 /\ q.n = Len(d)
    BY <2>1
  <2>3. q.conf => e.conf
    BY <1>4, <2>1, Zenon
  <2>4. q.buf = NULL
    BY <1>4, <2>1
  <2>5. QED
    BY <2>1, <2>2, <2>3, <2>4, Zenon
<1>6. PICK x : x = Paid(q, d, Len(d))
  OBVIOUS
<1>7. Leads(q, d, 1, x)
  BY <1>1, <1>3, <1>5, <1>6, LeadsPayload
<1>8. Leads(e, FeatureWriteFrame(c, d), 1, x)
  <2>1. <<FRAME_START_FEATURE_WRITE, Len(d), c>> \in Seq(Byte)
    <3>1. FRAME_START_FEATURE_WRITE \in Byte
      BY DEF FRAME_START_FEATURE_WRITE, Byte
    <3>2. QED
      BY <1>1, <3>1, OneTwoThree
  <2>2. Leads(e, <<FRAME_START_FEATURE_WRITE, Len(d), c>> \o d, 0 + 1, x)
    BY <1>1, <1>3, <1>7, <2>1, LeadsOn
  <2>3. 0 + 1 = 1
    OBVIOUS
  <2>4. QED
    BY <2>2, <2>3 DEF FeatureWriteFrame
<1>9. /\ x.st = 0 /\ x.conf = q.conf /\ x.ee = handleCommand(c, ConfAfter(q, d, Len(d)))
      /\ x.leds = LedsAfter(q, d, Len(d))
  <2>1. /\ x.st = 0 /\ x.conf = q.conf /\ x.ee = handleCommand(q.c, ConfAfter(q, d, Len(d)))
        /\ x.leds = LedsAfter(q, d, Len(d))
    BY <1>3, <1>6, PaidEnd
  <2>2. QED
    BY <1>5, <2>1, Zenon
<1>10. x.leds = LedsOf(c, d, e.leds)
  BY <1>4, <1>5, <1>9, Zenon DEF LedsAfter, ToLeds, LedsOf
<1>11. x.ee = ConfigOf(c, d, e.ee)
  <2>1. CASE c = COMMAND_RESET
    BY <1>4, <1>9, <2>1 DEF handleCommand, ConfigOf
  <2>2. CASE c # COMMAND_RESET
    <3>1. ~q.conf
      BY <1>5, <2>2
    <3>2. ConfAfter(q, d, Len(d)) = e.ee
      BY <1>5, <3>1, Zenon DEF ConfAfter
    <3>3. QED
      BY <1>4, <1>9, <2>2, <3>2 DEF handleCommand, ConfigOf
  <2>3. QED
    BY <2>1, <2>2
<1>12. x \in Parser
  BY <1>1, <1>7, LeadsType
<1>13. WriteDone(e, c, d, x)
  BY <1>5, <1>9, <1>10, <1>11, <1>12 DEF WriteDone
<1>14. QED
  BY <1>8, <1>13

\* A write with a block number.
LEMMA LeadsBlock ==
  ASSUME NEW e \in Parser, e.st = 0, NEW c \in Byte, NEW d \in Payload, LongEnough(c, d),
         c \in Blocks, e.conf => c = COMMAND_WRITE_CONFIG
  PROVE  \E x : Leads(e, FeatureWriteFrame(c, d), 1, x) /\ WriteDone(e, c, d, x)
<1>1. d \in Seq(Byte) /\ Len(d) \in Byte /\ Len(d) \in Nat /\ Len(d) >= 2
  BY DEF Payload, LongEnough
<1>2. PICK q : q = AfterCommand(e, c, Len(d))
  OBVIOUS
<1>3. q \in Parser /\ Leads(e, <<FRAME_START_FEATURE_WRITE, Len(d), c>>, 0, q)
  BY <1>1, <1>2, LeadsHeader
<1>4. /\ q.st = 4 /\ q.n = Len(d) - 1 /\ q.c = c /\ q.conf = (e.conf \/ c = COMMAND_WRITE_CONFIG)
      /\ q.ee = e.ee /\ q.leds = e.leds /\ (c = COMMAND_SET_LEDS => q.buf = 0)
  <2>1. COMMAND_WRITE_CONFIG # COMMAND_SET_LEDS
    BY DEF COMMAND_WRITE_CONFIG, COMMAND_SET_LEDS
  <2>2. QED
    <3>1. /\ q.st = (IF c \in Blocks THEN 4 ELSE 5) /\ q.n = (IF c \in Blocks THEN Len(d) - 1 ELSE Len(d))
          /\ q.c = c /\ q.conf = (e.conf \/ c = COMMAND_WRITE_CONFIG)
          /\ q.buf = (CASE c = COMMAND_WRITE_CONFIG -> e.buf [] c = COMMAND_SET_LEDS -> 0 [] OTHER -> NULL)
          /\ q.ee = e.ee /\ q.leds = e.leds
      BY <1>2, CommandPoint
    <3>2. q.st = 4 /\ q.n = Len(d) - 1
      BY <3>1
    <3>3. c = COMMAND_SET_LEDS => q.buf = 0
      BY <2>1, <3>1
    <3>4. QED
      BY <3>1, <3>2, <3>3, Zenon
<1>5. PICK t : t = Tail(d)
  OBVIOUS
<1>6. /\ d # << >> /\ d[1] \in Byte /\ t \in Seq(Byte) /\ Len(t) = Len(d) - 1 /\ Len(t) >= 1
      /\ Len(t) \in Byte /\ <<d[1]>> \in Seq(Byte)
  <2>1. d # << >> /\ d[1] \in Byte /\ <<d[1]>> \in Seq(Byte)
    BY <1>1
  <2>2. t \in Seq(Byte) /\ Len(t) = Len(d) - 1
    BY <1>1, <1>5, <2>1, HeadTail
  <2>3. Len(t) >= 1 /\ Len(t) \in Byte
    <3>1. ASSUME NEW n \in Byte, n >= 2 PROVE n - 1 >= 1 /\ n - 1 \in Byte
      BY <3>1 DEF Byte
    <3>2. QED
      BY <1>1, <2>2, <3>1
  <2>4. QED
    BY <2>1, <2>2, <2>3
<1>7. t \in Payload /\ <<d[1]>> \o t = d
  <2>1. t \in Payload
    BY <1>6 DEF Payload
  <2>2. <<d[1]>> \o Tail(d) = d
    BY <1>1, <1>6
  <2>3. QED
    BY <1>5, <2>1, <2>2
<1>8. PICK o \in Nat : o = BlockAddress(d[1])
  BY <1>6, AddressNat
<1>9. PICK b : b = IF q.buf = NULL THEN NULL ELSE q.buf + o
  OBVIOUS
<1>10. /\ q.conf \in BOOLEAN /\ q.n \in Byte /\ q.buf \in {NULL} \cup Nat /\ b \in {NULL} \cup Nat
       /\ q.ee \in Mem /\ q.leds \in Mem
  BY <1>3, <1>8, <1>9 DEF Parser
<1>11. PICK p : p = At(q, 5, q.n, c, q.conf, b, o)
  OBVIOUS
<1>12. /\ p \in Parser /\ SameMem(q, p) /\ p.st = 5 /\ p.n = q.n /\ p.c = c /\ p.conf = q.conf
       /\ p.buf = b /\ p.off = o
  BY <1>10, <1>11 DEF At, Parser, SameMem
<1>13. Leads(q, <<d[1]>>, 0, p)
  <2>1. RunsOffset(q, d[1], p)
    BY <1>4, <1>8, <1>9, <1>12, Zenon DEF RunsOffset
  <2>2. QED
    BY <1>3, <1>4, <1>6, <1>12, <2>1, LeadsByte DEF Runs
<1>14. PICK x : x = Paid(p, t, Len(t))
  OBVIOUS
<1>15. Leads(p, t, 1, x)
  BY <1>4, <1>6, <1>7, <1>12, <1>14, LeadsPayload
<1>16. Leads(e, FeatureWriteFrame(c, d), 1, x)
  <2>1. <<FRAME_START_FEATURE_WRITE, Len(d), c>> \in Seq(Byte)
    <3>1. FRAME_START_FEATURE_WRITE \in Byte
      BY DEF FRAME_START_FEATURE_WRITE, Byte
    <3>2. QED
      BY <1>1, <3>1, OneTwoThree
  <2>2. 0 + 1 = 1
    OBVIOUS
  <2>3. Leads(q, d, 1, x)
    BY <1>6, <1>7, <1>13, <1>15, <2>2, LeadsOn
  <2>4. Leads(e, <<FRAME_START_FEATURE_WRITE, Len(d), c>> \o d, 1, x)
    BY <1>1, <1>3, <2>1, <2>2, <2>3, LeadsOn
  <2>5. QED
    BY <2>4 DEF FeatureWriteFrame
<1>17. /\ x.st = 0 /\ x.conf = p.conf /\ x.ee = handleCommand(c, ConfAfter(p, t, Len(t)))
       /\ x.leds = LedsAfter(p, t, Len(t))
  BY <1>12, <1>14, PaidEnd
<1>18. p.ee = e.ee /\ p.leds = e.leds
  BY <1>4, <1>12 DEF SameMem
<1>19. ASSUME NEW m \in Mem PROVE Laid(m, o, t, Len(t)) = Written(m, d)
  BY <1>1, <1>5, <1>6, <1>8, LaidWritten
<1>20. c # COMMAND_RESET
  BY DEF Blocks, COMMAND_RESET, COMMAND_WRITE_CONFIG, COMMAND_SET_LEDS
<1>21. x.ee = ConfAfter(p, t, Len(t))
  BY <1>17, <1>20 DEF handleCommand
<1>22. CASE c = COMMAND_WRITE_CONFIG
  <2>1. p.conf = TRUE
    BY <1>4, <1>12, <1>22, Zenon
  <2>2. x.ee = Written(e.ee, d)
    <3>1. x.ee = Laid(p.ee, p.off, t, Len(t))
      BY <1>21, <2>1, Zenon DEF ConfAfter
    <3>2. QED
      BY <1>4, <1>10, <1>12, <1>18, <1>19, <3>1, Zenon
  <2>3. x.leds = e.leds
    BY <1>17, <1>18, <2>1, Zenon DEF LedsAfter, ToLeds
  <2>4. c # COMMAND_SET_LEDS
    BY <1>22 DEF COMMAND_WRITE_CONFIG, COMMAND_SET_LEDS
  <2>5. x.ee = ConfigOf(c, d, e.ee) /\ x.leds = LedsOf(c, d, e.leds)
    BY <1>20, <1>22, <2>2, <2>3, <2>4 DEF ConfigOf, LedsOf
  <2>6. QED
    BY <1>1, <1>6, <1>15, <1>16, <1>17, <1>22, <2>5, LeadsType DEF WriteDone
<1>23. CASE c = COMMAND_SET_LEDS
  <2>1. c # COMMAND_WRITE_CONFIG
    BY <1>23 DEF COMMAND_WRITE_CONFIG, COMMAND_SET_LEDS
  <2>2. p.conf = FALSE
    <3>1. e.conf = FALSE
      BY <2>1 DEF Parser
    <3>2. QED
      BY <1>4, <1>12, <2>1, <3>1
  <2>3. b = o /\ b # NULL
    BY <1>4, <1>8, <1>9, <1>23 DEF NULL
  <2>4. x.ee = e.ee
    BY <1>18, <1>21, <2>2, Zenon DEF ConfAfter
  <2>5. x.leds = Written(e.leds, d)
    <3>1. x.leds = Laid(p.leds, p.buf, t, Len(t))
      BY <1>12, <1>17, <2>2, <2>3, Zenon DEF LedsAfter, ToLeds
    <3>2. QED
      BY <1>4, <1>10, <1>12, <1>18, <1>19, <2>3, <3>1, Zenon
  <2>6. x.ee = ConfigOf(c, d, e.ee) /\ x.leds = LedsOf(c, d, e.leds)
    BY <1>20, <1>23, <2>1, <2>4, <2>5 DEF ConfigOf, LedsOf
  <2>7. x \in Parser /\ ~x.conf
    BY <1>6, <1>15, <1>17, <2>2, LeadsType
  <2>8. QED
    BY <1>16, <1>17, <2>6, <2>7 DEF WriteDone
<1>24. QED
  BY <1>22, <1>23 DEF Blocks

------------------------------------------------------------------------------
\* Every write has the data its command counts on.
LongWrites == \A w \in Writes : LongEnough(w.cmd, w.data)

\* isConfig is never cleared: after a configuration write the payload of any command
\* goes to the configuration (run uno_config_leak).  A reset overwrites that; other
\* commands must not be mixed with configuration writes.
ConfigOnly == \A w \in Writes : w.cmd \in {COMMAND_WRITE_CONFIG, COMMAND_RESET}
Separate == ConfigOnly \/ \A w \in Writes : w.cmd # COMMAND_WRITE_CONFIG

\* The parser and its memories as they are.
Now == [st |-> mState, n |-> packetCount, c |-> cmd, conf |-> isConfig, buf |-> buf, off |-> offset,
        ee |-> eeprom, leds |-> leds]

\* A write that is not a frame yet; its effect is wanted and not under way.
Pending == setup.kind = "set" /\ uPc # "control"

\* What the host wants, if everything under way leads to e.
Owed(e) ==
  [eeprom |-> IF Pending THEN ConfigOf(setup.cmd, setup.data, e.ee) ELSE e.ee,
   leds   |-> IF Pending THEN LedsOf(setup.cmd, setup.data, e.leds) ELSE e.leds,
   type   |-> IF setup.kind = "set" /\ setup.cmd = COMMAND_WRITE_SUBTYPE
                THEN setup.data[Len(setup.data)] ELSE deviceType]

Counted(k) == Len(todo) = k + (IF Pending THEN 1 ELSE 0)

Memories ==
  \E e, k : /\ Leads(Now, in \o (tx \o forward), k, e)
            /\ e.st = 0 /\ (e.conf => ConfigOnly)
            /\ Counted(k) /\ wanted = Owed(e)

\* Between requests nothing is left to forward.
Tidy == (uPc # "control" => forward = << >>) /\ (uPc = "control" => setup.kind # "none")

\* The 16u2 hangs with a request: no later request is served, and nothing is claimed.
Stuck == uPc = "hung" /\ setup.kind # "none"

FromHost == setup.kind = "set" => \E w \in Writes : setup.cmd = w.cmd /\ setup.data = w.data

MemoryInv == FromHost /\ (Stuck \/ (Tidy /\ Memories))

LEMMA NowType == ASSUME TypeOK PROVE Now \in Parser
BY DEF TypeOK, MainTypeOK, Now, Parser

LEMMA MemoryShown == MemoryInv /\ TypeOK => MemoryFaithful
<1> SUFFICES ASSUME MemoryInv, TypeOK, todo = << >>, setup.kind = "none"
             PROVE  wanted = [eeprom |-> eeprom, leds |-> leds, type |-> deviceType]
  BY DEF MemoryFaithful
<1>1. Memories
  BY DEF MemoryInv, Stuck
<1>2. PICK e, k : /\ Leads(Now, in \o (tx \o forward), k, e) /\ Counted(k) /\ wanted = Owed(e)
  BY <1>1 DEF Memories
<1>3. in \o (tx \o forward) \in Seq(Byte)
  BY JoinBytes DEF TypeOK, MainTypeOK, UsbTypeOK
<1>4. k \in Nat /\ (k = 0 => SameMem(Now, e))
  BY <1>2, <1>3, LeadsType
<1>5. ~Pending
  BY DEF Pending
<1>6. k = 0
  <2>1. Len(todo) = 0
    OBVIOUS
  <2>2. QED
    BY <1>2, <1>4, <1>5, <2>1 DEF Counted
<1>7. e.ee = eeprom /\ e.leds = leds
  BY <1>4, <1>6 DEF SameMem, Now
<1>8. QED
  BY <1>2, <1>5, <1>7 DEF Owed

\* The variables the memories depend on.
memoryVars == <<in, tx, forward, uPc, setup, deviceType, parseVars, memVars, todo, wanted>>

LEMMA MemorySame ==
  ASSUME MemoryInv, UNCHANGED memoryVars PROVE MemoryInv'
<1>1. UNCHANGED <<in, tx, forward, uPc, setup, deviceType, mState, packetCount, cmd, isConfig, buf, offset, eeprom,
                  leds, todo, wanted>>
  BY DEF memoryVars, parseVars, memVars
<1>2. /\ UNCHANGED Now /\ UNCHANGED Pending
  BY <1>1, Zenon DEF Now, Pending
<1>3. FromHost' /\ (Stuck => Stuck') /\ (Tidy => Tidy')
  BY <1>1, Zenon DEF MemoryInv, FromHost, Stuck, Tidy
<1>4. \A e : UNCHANGED Owed(e)
  BY <1>1, <1>2, Zenon DEF Owed
<1>5. \A k : Counted(k) => Counted(k)'
  BY <1>1, <1>2, Zenon DEF Counted
<1>6. Memories => Memories'
  BY <1>1, <1>2, <1>4, <1>5, Zenon DEF Memories
<1>7. QED
  BY <1>3, <1>6 DEF MemoryInv

\* The 328p's step is what Runs says.
LEMMA NowRuns ==
  ASSUME TypeOK, TypeOK', MainByte, NEW q \in Parser, Runs(Now, Head(in), q)
  PROVE  Now' = q
<1>0. /\ Now.st = mState /\ Now.n = packetCount /\ Now.c = cmd /\ Now.conf = isConfig /\ Now.buf = buf
      /\ Now.off = offset /\ Now.ee = eeprom /\ Now.leds = leds
  BY DEF Now
<1>1. SUFFICES /\ q.st = mState' /\ q.n = packetCount' /\ q.c = cmd' /\ q.conf = isConfig' /\ q.buf = buf'
               /\ q.off = offset' /\ q.ee = eeprom' /\ q.leds = leds'
  BY <1>1 DEF Now, Parser
<1>2. CASE MainStart
  <2>1. RunsStart(Now, Head(in), q)
    BY <1>0, <1>2 DEF MainStart, Runs, RunsLength, RunsRead, RunsCommand, RunsOffset, RunsPayload
  <2>2. UNCHANGED <<packetCount, cmd, isConfig, buf, offset, eeprom, leds>>
    BY <1>2 DEF MainStart, memVars
  <2>3. QED
    BY <1>0, <1>2, <2>1, <2>2, Zenon DEF MainStart, RunsStart, SameRegs, SameMem
<1>3. CASE MainLength
  <2>1. RunsLength(Now, Head(in), q)
    BY <1>0, <1>3 DEF MainLength, Runs, RunsStart, RunsRead, RunsCommand, RunsOffset, RunsPayload
  <2>2. UNCHANGED <<cmd, isConfig, buf, offset, eeprom, leds>>
    BY <1>3 DEF MainLength, memVars
  <2>3. QED
    BY <1>0, <1>3, <2>1, <2>2, Zenon DEF MainLength, RunsLength, SameMem
<1>4. CASE MainRead
  <2>1. RunsRead(Now, Head(in), q)
    BY <1>0, <1>4 DEF MainRead, Runs, RunsStart, RunsLength, RunsCommand, RunsOffset, RunsPayload
  <2>2. UNCHANGED <<packetCount, cmd, isConfig, buf, offset, eeprom, leds>>
    BY <1>4 DEF MainRead, memVars
  <2>3. QED
    BY <1>0, <1>4, <2>1, <2>2, Zenon DEF MainRead, RunsRead, SameRegs, SameMem
<1>5. CASE MainCommand
  <2>1. RunsCommand(Now, Head(in), q)
    BY <1>0, <1>5 DEF MainCommand, Runs, RunsStart, RunsLength, RunsRead, RunsOffset, RunsPayload
  <2>2. UNCHANGED <<offset, eeprom, leds>>
    BY <1>5 DEF MainCommand, memVars
  <2>3. /\ cmd' = Head(in) /\ isConfig' = (isConfig \/ Head(in) = COMMAND_WRITE_CONFIG)
        /\ buf' = (CASE Head(in) = COMMAND_WRITE_CONFIG -> buf [] Head(in) = COMMAND_SET_LEDS -> 0 [] OTHER -> NULL)
    BY <1>5, Zenon DEF MainCommand
  <2>4. /\ mState' = (IF Head(in) \in Blocks THEN 4 ELSE 5)
        /\ packetCount' = (IF Head(in) \in Blocks THEN Dec8(packetCount) ELSE packetCount)
    BY <1>5 DEF MainCommand, Blocks
  <2>5. q.c = cmd' /\ q.conf = isConfig' /\ q.buf = buf'
    BY <1>0, <2>1, <2>3, Zenon DEF RunsCommand
  <2>6. q.st = mState' /\ q.n = packetCount' /\ q.off = offset' /\ q.ee = eeprom' /\ q.leds = leds'
    BY <1>0, <2>1, <2>2, <2>4, Zenon DEF RunsCommand, SameMem
  <2>7. QED
    BY <2>5, <2>6
<1>6. CASE MainOffset
  <2>1. RunsOffset(Now, Head(in), q)
    BY <1>0, <1>6 DEF MainOffset, Runs, RunsStart, RunsLength, RunsRead, RunsCommand, RunsPayload
  <2>2. UNCHANGED <<packetCount, cmd, isConfig, eeprom, leds>>
    BY <1>6 DEF MainOffset, memVars
  <2>3. /\ offset' = BlockAddress(Head(in)) /\ mState' = 5
        /\ buf' = (IF buf = NULL THEN NULL ELSE buf + BlockAddress(Head(in)))
    BY <1>6, Zenon DEF MainOffset
  <2>4. QED
    BY <1>0, <2>1, <2>2, <2>3, Zenon DEF RunsOffset, SameMem
<1>7. CASE MainPayload
  <2>1. RunsPayload(Now, Head(in), q)
    BY <1>0, <1>7 DEF MainPayload, Runs, RunsStart, RunsLength, RunsRead, RunsCommand, RunsOffset
  <2>2. UNCHANGED <<cmd, isConfig>>
    BY <1>7 DEF MainPayload
  <2>3. packetCount' = Dec8(packetCount) /\ q.n = packetCount' /\ q.st = mState'
    BY <1>0, <1>7, <2>1, Zenon DEF MainPayload, RunsPayload
  <2>4. q.ee = eeprom' /\ q.off = offset'
    BY <1>0, <1>7, <2>1, <2>3, Zenon DEF MainPayload, RunsPayload
  <2>5. q.leds = leds' /\ q.buf = buf'
    <3>1. CASE ~isConfig /\ buf # NULL
      BY <1>0, <1>7, <2>1, <3>1, Zenon DEF MainPayload, RunsPayload, ToLeds
    <3>2. CASE ~(~isConfig /\ buf # NULL)
      BY <1>0, <1>7, <2>1, <3>2, Zenon DEF MainPayload, RunsPayload, ToLeds
    <3>3. QED
      BY <3>1, <3>2
  <2>6. QED
    BY <1>0, <2>1, <2>2, <2>3, <2>4, <2>5, Zenon DEF RunsPayload
<1>8. QED
  BY <1>2, <1>3, <1>4, <1>5, <1>6, <1>7 DEF MainByte

LEMMA MemoryTake ==
  ASSUME TypeOK, TypeOK', Memories, MainStep PROVE Memories'
<1>1. in \in Seq(Byte) /\ tx \in Seq(Byte) /\ forward \in Seq(Byte) /\ todo \in Seq(Byte)
  BY DEF TypeOK, MainTypeOK, UsbTypeOK
<1>2. PICK e, k : /\ Leads(Now, in \o (tx \o forward), k, e) /\ e.st = 0 /\ (e.conf => ConfigOnly)
                  /\ Counted(k) /\ wanted = Owed(e)
  BY DEF Memories
<1>3. in # << >> /\ in' = Tail(in)
  BY DEF MainStep, MainByte, MainStart, MainLength, MainRead, MainCommand, MainOffset, MainPayload, Receive
<1>4. UNCHANGED <<tx, uPc, forward, setup, deviceType, wanted>>
  BY DEF MainStep, usbVars
<1>5. PICK s : s = in \o (tx \o forward)
  OBVIOUS
<1>6. s \in Seq(Byte) /\ s # << >> /\ Head(s) = Head(in) /\ Tail(s) = in' \o (tx' \o forward')
  <2>1. tx \o forward \in Seq(Byte)
    BY <1>1, Streams
  <2>2. QED
    BY <1>1, <1>3, <1>4, <1>5, <2>1, Streams
<1>7. PICK q \in Parser, n \in Nat :
        Runs(Now, Head(s), q) /\ k = n + Ended(Now, q) /\ Leads(q, Tail(s), n, e)
  BY <1>2, <1>5, <1>6, LeadsTake
<1>8. Now' = q
  BY <1>6, <1>7, NowRuns DEF MainStep
<1>9. UNCHANGED Pending /\ Owed(e)' = Owed(e)
  BY <1>4, Zenon DEF Pending, Owed
<1>10. Counted(n)'
  <2>1. Now.st = mState /\ q.st = mState'
    <3>1. Now'.st = mState'
      BY DEF Now
    <3>2. QED
      BY <1>8, <3>1 DEF Now
  <2>2. PICK w \in Nat : w = IF Pending THEN 1 ELSE 0
    OBVIOUS
  <2>3. w = IF Pending' THEN 1 ELSE 0
    BY <1>9, <2>2
  <2>4. Len(todo) = (n + Ended(Now, q)) + w
    BY <1>2, <1>7, <2>2 DEF Counted
  <2>5. Len(todo') = n + w
    <3>1. CASE mState = 5 /\ mState' = 0
      <4>1. Len(todo) = (n + 1) + w
        BY <2>1, <2>4, <3>1 DEF Ended
      <4>2. todo # << >>
        BY <1>7, <2>2, <4>1
      <4>3. todo' = Tail(todo)
        BY <3>1, <4>2 DEF MainStep
      <4>4. QED
        BY <1>1, <1>7, <2>2, <4>1, <4>2, <4>3
    <3>2. CASE ~(mState = 5 /\ mState' = 0)
      <4>1. todo' = todo /\ Ended(Now, q) = 0
        BY <2>1, <3>2 DEF MainStep, Ended
      <4>2. QED
        BY <1>7, <2>2, <2>4, <4>1
    <3>3. QED
      BY <3>1, <3>2
  <2>6. QED
    BY <2>3, <2>5 DEF Counted
<1>11. Leads(Now', in' \o (tx' \o forward'), n, e)
  BY <1>6, <1>7, <1>8
<1>12. QED
  BY <1>2, <1>4, <1>9, <1>10, <1>11 DEF Memories

\* A byte moves from one ring to the other.
LEMMA MemoryMove ==
  ASSUME TypeOK, MemoryInv, UartToMain PROVE MemoryInv'
<1>1. in \in Seq(Byte) /\ tx \in Seq(Byte) /\ forward \in Seq(Byte)
  BY DEF TypeOK, MainTypeOK, UsbTypeOK
<1>2. tx # << >> /\ tx' = Tail(tx) /\ in' = Append(in, Head(tx))
  BY DEF UartToMain
<1>3. UNCHANGED <<forward, uPc, setup, deviceType, mState, packetCount, cmd, isConfig, buf, offset, eeprom, leds,
                  todo, wanted>>
  BY DEF UartToMain, parseVars, memVars, ghostVars
<1>4. in' \o (tx' \o forward') = in \o (tx \o forward)
  BY <1>1, <1>2, <1>3, Moved
<1>5. UNCHANGED Now /\ UNCHANGED Pending /\ \A e : UNCHANGED Owed(e)
  BY <1>3, Zenon DEF Now, Pending, Owed
<1>6. \A k : Counted(k) => Counted(k)'
  BY <1>3, <1>5, Zenon DEF Counted
<1>7. Memories => Memories'
  BY <1>3, <1>4, <1>5, <1>6, Zenon DEF Memories
<1>8. FromHost' /\ (Stuck => Stuck') /\ (Tidy => Tidy')
  BY <1>3, Zenon DEF MemoryInv, FromHost, Stuck, Tidy
<1>9. QED
  BY <1>7, <1>8 DEF MemoryInv

\* The end of the 16u2's loop, with FRAME_DONE or without.
LEMMA MemoryCheck ==
  ASSUME TypeOK, Tidy, Memories, UsbStep, UsbIdle \/ UsbCheck PROVE Tidy' /\ Memories'
<1>1. in \in Seq(Byte) /\ tx \in Seq(Byte)
  BY DEF TypeOK, MainTypeOK, UsbTypeOK
<1>2. /\ uPc \in {"loop", "check"} /\ uPc' \in {"loop", "hung"}
      /\ UNCHANGED <<in, forward, setup, mState, packetCount, cmd, todo>>
      /\ (tx' = Append(tx, FRAME_DONE) \/ tx' = tx)
  BY CheckStep
<1>3. UNCHANGED <<deviceType, isConfig, buf, offset, eeprom, leds, wanted>>
  BY DEF UsbStep, UsbIdle, UsbCheck, mainVars, parseVars, memVars
<1>4. forward = << >> /\ Tidy'
  BY <1>2 DEF Tidy
<1>5. UNCHANGED Now
  BY <1>2, <1>3, Zenon DEF Now
<1>6. UNCHANGED Pending
  BY <1>2 DEF Pending
<1>7. PICK e, k : /\ Leads(Now, in \o (tx \o forward), k, e) /\ e.st = 0 /\ (e.conf => ConfigOnly)
                  /\ Counted(k) /\ wanted = Owed(e)
  BY DEF Memories
<1>8. Owed(e)' = Owed(e) /\ Counted(k)'
  BY <1>2, <1>3, <1>6, <1>7, Zenon DEF Owed, Counted
<1>9. Leads(Now, in' \o (tx' \o forward'), k, e)
  <2>1. PICK s : s = in \o (tx \o forward)
    OBVIOUS
  <2>2. CASE tx' = tx
    BY <1>2, <1>7, <2>2
  <2>3. CASE tx' = Append(tx, FRAME_DONE)
    <3> DEFINE T == <<FRAME_DONE>>
    <3>1. FRAME_DONE \in Byte
      BY DEF FRAME_DONE, Byte
    <3>2. T \in Seq(Byte) /\ tx' = tx \o T /\ tx' \in Seq(Byte)
      BY <1>1, <2>3, <3>1
    <3>3. tx \o forward = tx /\ tx' \o forward' = tx'
      BY <1>1, <1>2, <1>4, <3>2, Streams
    <3>4. in \o (tx \o T) = (in \o tx) \o T /\ in \o tx \in Seq(Byte)
      BY <1>1, <3>2, Associative, JoinBytes
    <3>5. in' \o (tx' \o forward') = s \o T /\ s \in Seq(Byte)
      BY <1>2, <2>1, <3>2, <3>3, <3>4
    <3>6. e \in Parser /\ k \in Nat
      BY <1>7, <2>1, <3>5, LeadsType
    <3>7. Leads(e, T, 0, e)
      BY <1>7, <3>1, <3>6, LeadsIdle
    <3>8. Leads(Now, s \o T, k + 0, e)
      BY <1>7, <2>1, <3>2, <3>5, <3>7, LeadsOn
    <3>9. k + 0 = k
      BY <3>6
    <3>10. QED
      BY <3>5, <3>8, <3>9
  <2>4. QED
    BY <1>2, <2>2, <2>3
<1>10. QED
  BY <1>3, <1>4, <1>5, <1>7, <1>8, <1>9 DEF Memories

\* A request becomes a frame: its effect goes from owed to under way.
LEMMA MemoryRequest ==
  ASSUME TypeOK, LongWrites, Separate, FromHost, Tidy, Memories, UsbStep, deviceControlRequest
  PROVE  Tidy' /\ Memories'
<1>1. in \in Seq(Byte) /\ tx \in Seq(Byte) /\ setup.cmd \in Byte /\ setup.data \in Payload
  BY DEF TypeOK, MainTypeOK, UsbTypeOK
<1>2. /\ uPc = "loop" /\ setup.kind # "none" /\ uPc' = "control" /\ UNCHANGED <<tx, setup, deviceType>>
      /\ forward' = IF setup.kind = "set" THEN FeatureWriteFrame(setup.cmd, setup.data)
                                          ELSE FeatureReadFrame(setup.cmd)
  BY DEF deviceControlRequest
<1>3. UNCHANGED <<in, mState, packetCount, cmd, isConfig, buf, offset, eeprom, leds, todo, wanted>>
  BY DEF UsbStep, mainVars, parseVars, memVars
<1>4. forward = << >> /\ Tidy'
  BY <1>2 DEF Tidy
<1>5. UNCHANGED Now
  BY <1>3, Zenon DEF Now
<1>6. PICK e, k : /\ Leads(Now, in \o (tx \o forward), k, e) /\ e.st = 0 /\ (e.conf => ConfigOnly)
                  /\ Counted(k) /\ wanted = Owed(e)
  BY DEF Memories
<1>7. PICK t : t = forward'
  OBVIOUS
<1>8. in \o (tx \o forward) = in \o tx /\ in \o tx \in Seq(Byte)
  BY <1>1, <1>4, Streams
<1>9. e \in Parser /\ k \in Nat
  BY <1>6, <1>8, LeadsType
<1>10. ~Pending' /\ (Pending <=> setup.kind = "set")
  BY <1>2 DEF Pending
<1>11. ASSUME NEW x, NEW j \in Nat, t \in Seq(Byte), Leads(e, t, j, x), x.st = 0, x.conf => ConfigOnly,
              Counted(k + j)', wanted' = Owed(x)'
       PROVE  Memories'
  <2>1. Leads(Now, (in \o tx) \o t, k + j, x)
    BY <1>6, <1>8, <1>11, LeadsOn
  <2>2. (in \o tx) \o t = in' \o (tx' \o forward')
    BY <1>1, <1>2, <1>3, <1>7, <1>11, Associative
  <2>3. Leads(Now', in' \o (tx' \o forward'), k + j, x)
    BY <1>5, <2>1, <2>2
  <2>4. QED
    BY <1>11, <2>3 DEF Memories
<1>12. CASE setup.kind = "set"
  <2>1. PICK w \in Writes : setup.cmd = w.cmd /\ setup.data = w.data
    BY <1>12 DEF FromHost
  <2>2. LongEnough(setup.cmd, setup.data)
    BY <2>1 DEF LongWrites
  <2>3. e.conf => setup.cmd \in {COMMAND_WRITE_CONFIG, COMMAND_RESET}
    BY <1>6, <2>1 DEF ConfigOnly
  <2>4. PICK x : Leads(e, FeatureWriteFrame(setup.cmd, setup.data), 1, x)
                 /\ WriteDone(e, setup.cmd, setup.data, x)
    <3>1. CASE setup.cmd \in Blocks
      <4>1. e.conf => setup.cmd = COMMAND_WRITE_CONFIG
        BY <2>3, <3>1 DEF Blocks, COMMAND_WRITE_CONFIG, COMMAND_SET_LEDS, COMMAND_RESET
      <4>2. QED
        BY <1>1, <1>6, <1>9, <2>2, <3>1, <4>1, LeadsBlock
    <3>2. CASE setup.cmd \notin Blocks
      <4>1. e.conf => setup.cmd = COMMAND_RESET
        BY <2>3, <3>2 DEF Blocks
      <4>2. QED
        BY <1>1, <1>6, <1>9, <2>2, <3>2, <4>1, LeadsPlain
    <3>3. QED
      BY <3>1, <3>2
  <2>5. t = FeatureWriteFrame(setup.cmd, setup.data) /\ t \in Seq(Byte)
    BY <1>1, <1>2, <1>7, <1>12, FeatureFrameBytes
  <2>6. x.conf => ConfigOnly
    <3>1. setup.cmd = COMMAND_WRITE_CONFIG => ConfigOnly
      BY <2>1 DEF Separate
    <3>2. QED
      BY <1>6, <2>4, <3>1 DEF WriteDone
  <2>7. Counted(k + 1)'
    <3>1. Len(todo) = k + 1
      BY <1>6, <1>10, <1>12 DEF Counted
    <3>2. Len(todo') = (k + 1) + 0
      BY <1>3, <1>9, <3>1
    <3>3. QED
      BY <1>10, <3>2 DEF Counted
  <2>8. wanted' = Owed(x)'
    <3>1. x.ee = ConfigOf(setup.cmd, setup.data, e.ee) /\ x.leds = LedsOf(setup.cmd, setup.data, e.leds)
      BY <2>4 DEF WriteDone
    <3>2. QED
      BY <1>2, <1>3, <1>6, <1>10, <1>12, <3>1, Zenon DEF Owed
  <2>9. x.st = 0 /\ 1 \in Nat
    BY <2>4 DEF WriteDone
  <2>10. QED
    BY <1>4, <1>11, <2>4, <2>5, <2>6, <2>7, <2>8, <2>9
<1>13. CASE setup.kind # "set"
  <2>1. t = FeatureReadFrame(setup.cmd) /\ t \in Seq(Byte)
    BY <1>1, <1>2, <1>7, <1>13, FeatureFrameBytes
  <2>2. Leads(e, t, 0, e)
    BY <1>1, <1>6, <1>9, <2>1, LeadsIdle
  <2>3. Counted(k + 0)'
    <3>1. k + 0 = k
      BY <1>9
    <3>2. Len(todo') = k + 0
      BY <1>3, <1>6, <1>10, <1>13 DEF Counted
    <3>3. QED
      BY <1>9, <1>10, <3>1, <3>2 DEF Counted
  <2>4. wanted' = Owed(e)'
    BY <1>2, <1>3, <1>6, <1>10, <1>13, Zenon DEF Owed
  <2>5. 0 \in Nat
    OBVIOUS
  <2>6. QED
    BY <1>4, <1>6, <1>11, <2>1, <2>2, <2>3, <2>4, <2>5
<1>14. QED
  BY <1>12, <1>13

\* A byte of the frame is written to the ring, or the 16u2 hangs with it.
LEMMA MemoryForward ==
  ASSUME TypeOK, Tidy, Memories, UsbStep, UsbForward PROVE Stuck' \/ (Tidy' /\ Memories')
<1>1. in \in Seq(Byte) /\ tx \in Seq(Byte) /\ forward \in Seq(Byte)
  BY DEF TypeOK, MainTypeOK, UsbTypeOK
<1>2. /\ uPc = "control" /\ forward # << >> /\ forward' = Tail(forward) /\ UNCHANGED <<setup, deviceType>>
      /\ \/ uPc' = "hung" /\ UNCHANGED tx
         \/ uPc' = "control" /\ tx' = Append(tx, Head(forward))
  BY DEF UsbForward, UsbWriteData
<1>3. UNCHANGED <<in, mState, packetCount, cmd, isConfig, buf, offset, eeprom, leds, todo, wanted>>
  BY DEF UsbStep, mainVars, parseVars, memVars
<1>4. CASE uPc' = "hung"
  BY <1>2, <1>4 DEF Stuck, Tidy
<1>5. CASE uPc' = "control" /\ tx' = Append(tx, Head(forward))
  <2>1. tx' \o forward' = tx \o forward
    BY <1>1, <1>2, <1>5, Streams
  <2>2. UNCHANGED Now /\ UNCHANGED Pending /\ \A e : UNCHANGED Owed(e)
    BY <1>2, <1>3, <1>5, Zenon DEF Now, Pending, Owed
  <2>3. \A k : Counted(k) => Counted(k)'
    BY <1>3, <2>2, Zenon DEF Counted
  <2>4. Memories'
    BY <1>3, <2>1, <2>2, <2>3, Zenon DEF Memories
  <2>5. Tidy'
    BY <1>2, <1>5, Zenon DEF Tidy
  <2>6. QED
    BY <2>4, <2>5
<1>6. QED
  BY <1>2, <1>4, <1>5

\* The handler returns, having kept the subtype.
LEMMA MemoryEnd ==
  ASSUME TypeOK, LongWrites, FromHost, Tidy, Memories, UsbStep, UsbEndRequest PROVE Tidy' /\ Memories'
<1>1. /\ uPc = "control" /\ forward = << >> /\ uPc' = "check" /\ setup' = NoRequest
      /\ UNCHANGED <<tx, forward>>
      /\ IF setup.kind = "set" /\ setup.cmd = COMMAND_WRITE_SUBTYPE
           THEN deviceType' \in (IF setup.data = << >> THEN Byte ELSE {setup.data[Len(setup.data)]})
           ELSE deviceType' = deviceType
  BY DEF UsbEndRequest
<1>2. UNCHANGED <<in, mState, packetCount, cmd, isConfig, buf, offset, eeprom, leds, todo, wanted>>
  BY DEF UsbStep, mainVars, parseVars, memVars
<1>3. setup'.kind = "none"
  BY <1>1 DEF NoRequest
<1>4. ~Pending /\ ~Pending' /\ Tidy'
  BY <1>1, <1>3 DEF Pending, Tidy
<1>5. setup.kind = "set" => setup.data # << >>
  <2> SUFFICES ASSUME setup.kind = "set" PROVE setup.data # << >>
    OBVIOUS
  <2>1. LongEnough(setup.cmd, setup.data)
    BY DEF FromHost, LongWrites
  <2>2. QED
    BY <2>1 DEF LongEnough
<1>6. PICK v : v = IF setup.kind = "set" /\ setup.cmd = COMMAND_WRITE_SUBTYPE
                     THEN setup.data[Len(setup.data)] ELSE deviceType
  OBVIOUS
<1>7. deviceType' = v
  <2>1. CASE setup.kind = "set" /\ setup.cmd = COMMAND_WRITE_SUBTYPE
    BY <1>1, <1>5, <1>6, <2>1
  <2>2. CASE ~(setup.kind = "set" /\ setup.cmd = COMMAND_WRITE_SUBTYPE)
    BY <1>1, <1>6, <2>2
  <2>3. QED
    BY <2>1, <2>2
<1>8. PICK e, k : /\ Leads(Now, in \o (tx \o forward), k, e) /\ e.st = 0 /\ (e.conf => ConfigOnly)
                  /\ Counted(k) /\ wanted = Owed(e)
  BY DEF Memories
<1>9. Owed(e) = [eeprom |-> e.ee, leds |-> e.leds, type |-> v]
  BY <1>4, <1>6, Zenon DEF Owed
<1>10. Owed(e)' = [eeprom |-> e.ee, leds |-> e.leds, type |-> v]
  BY <1>3, <1>4, <1>7 DEF Owed
<1>11. Counted(k)'
  BY <1>2, <1>4, <1>8, Zenon DEF Counted
<1>12. UNCHANGED Now
  BY <1>2, Zenon DEF Now
<1>13. Leads(Now', in' \o (tx' \o forward'), k, e)
  BY <1>1, <1>2, <1>8, <1>12, Zenon
<1>14. QED
  BY <1>2, <1>4, <1>8, <1>9, <1>10, <1>11, <1>13 DEF Memories

\* The host sends a write: its effect is owed.
LEMMA MemoryWrite ==
  ASSUME TypeOK, Tidy, Memories, HostWrite PROVE FromHost' /\ Tidy' /\ Memories'
<1>1. setup.kind = "none"
  BY DEF HostWrite, ControlPipeFree
<1>2. UNCHANGED <<in, tx, uPc, forward, deviceType, mState, packetCount, cmd, isConfig, buf, offset, eeprom, leds>>
  BY DEF HostWrite, mainVars, parseVars, memVars
<1>3. PICK w \in Writes :
        /\ setup' = [kind |-> "set", cmd |-> w.cmd, data |-> w.data]
        /\ todo' = Append(todo, w.cmd)
        /\ wanted' =
             CASE w.cmd = COMMAND_WRITE_CONFIG -> [wanted EXCEPT !.eeprom = Written(@, w.data)]
               [] w.cmd = COMMAND_SET_LEDS -> [wanted EXCEPT !.leds = Written(@, w.data)]
               [] w.cmd = COMMAND_RESET -> [wanted EXCEPT !.eeprom = default_config]
               [] w.cmd = COMMAND_WRITE_SUBTYPE -> [wanted EXCEPT !.type = w.data[Len(w.data)]]
               [] OTHER -> wanted
  BY Zenon DEF HostWrite
<1>4. uPc # "control" /\ forward = << >>
  BY <1>1 DEF Tidy
<1>5. setup'.kind = "set" /\ setup'.cmd = w.cmd /\ setup'.data = w.data
  BY <1>3
<1>6. ~Pending /\ Pending' /\ Tidy' /\ FromHost'
  BY <1>1, <1>2, <1>3, <1>4, <1>5 DEF Pending, Tidy, FromHost
<1>7. PICK e, k : /\ Leads(Now, in \o (tx \o forward), k, e) /\ e.st = 0 /\ (e.conf => ConfigOnly)
                  /\ Counted(k) /\ wanted = Owed(e)
  BY DEF Memories
<1>8. wanted = [eeprom |-> e.ee, leds |-> e.leds, type |-> deviceType]
  BY <1>1, <1>6, <1>7 DEF Owed
<1>9. Owed(e)' = [eeprom |-> ConfigOf(w.cmd, w.data, e.ee), leds |-> LedsOf(w.cmd, w.data, e.leds),
                  type |-> IF w.cmd = COMMAND_WRITE_SUBTYPE THEN w.data[Len(w.data)] ELSE deviceType]
  BY <1>2, <1>5, <1>6, Zenon DEF Owed
<1>10. wanted' = Owed(e)'
  <2>0. /\ COMMAND_WRITE_CONFIG = 61 /\ COMMAND_SET_LEDS = 57 /\ COMMAND_RESET = 58
        /\ COMMAND_WRITE_SUBTYPE = 56
    BY DEF COMMAND_WRITE_CONFIG, COMMAND_SET_LEDS, COMMAND_RESET, COMMAND_WRITE_SUBTYPE
  <2>1. CASE w.cmd = COMMAND_WRITE_CONFIG
    <3>1. wanted' = [wanted EXCEPT !.eeprom = Written(@, w.data)]
      BY <1>3, <2>0, <2>1
    <3>2. wanted' = [eeprom |-> Written(e.ee, w.data), leds |-> e.leds, type |-> deviceType]
      BY <1>8, <3>1
    <3>3. QED
      BY <1>9, <2>0, <2>1, <3>2 DEF ConfigOf, LedsOf
  <2>2. CASE w.cmd = COMMAND_SET_LEDS
    <3>1. wanted' = [wanted EXCEPT !.leds = Written(@, w.data)]
      BY <1>3, <2>0, <2>2
    <3>2. wanted' = [eeprom |-> e.ee, leds |-> Written(e.leds, w.data), type |-> deviceType]
      BY <1>8, <3>1
    <3>3. QED
      BY <1>9, <2>0, <2>2, <3>2 DEF ConfigOf, LedsOf
  <2>3. CASE w.cmd = COMMAND_RESET
    <3>1. wanted' = [wanted EXCEPT !.eeprom = default_config]
      BY <1>3, <2>0, <2>3
    <3>2. wanted' = [eeprom |-> default_config, leds |-> e.leds, type |-> deviceType]
      BY <1>8, <3>1
    <3>3. QED
      BY <1>9, <2>0, <2>3, <3>2 DEF ConfigOf, LedsOf
  <2>4. CASE w.cmd = COMMAND_WRITE_SUBTYPE
    <3>1. wanted' = [wanted EXCEPT !.type = w.data[Len(w.data)]]
      BY <1>3, <2>0, <2>4
    <3>2. wanted' = [eeprom |-> e.ee, leds |-> e.leds, type |-> w.data[Len(w.data)]]
      BY <1>8, <3>1
    <3>3. QED
      BY <1>9, <2>0, <2>4, <3>2 DEF ConfigOf, LedsOf
  <2>5. CASE w.cmd \notin {COMMAND_WRITE_CONFIG, COMMAND_SET_LEDS, COMMAND_RESET, COMMAND_WRITE_SUBTYPE}
    <3>1. wanted' = wanted
      BY <1>3, <2>5
    <3>2. QED
      BY <1>8, <1>9, <2>5, <3>1 DEF ConfigOf, LedsOf
  <2>6. QED
    BY <2>1, <2>2, <2>3, <2>4, <2>5
<1>11. Counted(k)'
  <2>1. todo \in Seq(Byte)
    BY DEF TypeOK
  <2>2. Len(todo) = k + 0
    BY <1>6, <1>7 DEF Counted
  <2>3. k \in Nat
    <3>1. in \o (tx \o forward) \in Seq(Byte)
      BY JoinBytes DEF TypeOK, MainTypeOK, UsbTypeOK
    <3>2. QED
      BY <1>7, <3>1, LeadsType
  <2>4. Len(todo') = k + 1
    BY <1>3, <2>1, <2>2, <2>3
  <2>5. QED
    BY <1>6, <2>4 DEF Counted
<1>12. UNCHANGED Now
  BY <1>2, Zenon DEF Now
<1>13. Leads(Now', in' \o (tx' \o forward'), k, e)
  BY <1>2, <1>7, <1>12, Zenon
<1>14. QED
  BY <1>6, <1>7, <1>10, <1>11, <1>13 DEF Memories

LEMMA MemoryRead ==
  ASSUME TypeOK, Tidy, Memories, HostRead PROVE FromHost' /\ Tidy' /\ Memories'
<1>1. setup.kind = "none"
  BY DEF HostRead, ControlPipeFree
<1>2. UNCHANGED <<in, tx, uPc, forward, deviceType, mState, packetCount, cmd, isConfig, buf, offset, eeprom, leds,
                  todo, wanted>>
  BY DEF HostRead, mainVars, parseVars, memVars, ghostVars
<1>3. setup'.kind = "get"
  BY DEF HostRead
<1>4. ~Pending /\ ~Pending' /\ Tidy' /\ FromHost'
  BY <1>1, <1>2, <1>3 DEF Pending, Tidy, FromHost
<1>5. UNCHANGED Now
  BY <1>2, Zenon DEF Now
<1>6. \A e : Owed(e)' = Owed(e)
  BY <1>1, <1>2, <1>3, <1>4, Zenon DEF Owed
<1>7. \A k : Counted(k) => Counted(k)'
  BY <1>2, <1>4, Zenon DEF Counted
<1>8. Memories'
  BY <1>2, <1>5, <1>6, <1>7, Zenon DEF Memories
<1>9. QED
  BY <1>4, <1>8

\* A 16u2 that hangs with a request stays there.
LEMMA StuckStays ==
  ASSUME Stuck, [Next]_vars PROVE Stuck' /\ UNCHANGED setup
<1>1. uPc = "hung" /\ setup.kind # "none"
  BY DEF Stuck
<1>2. UNCHANGED <<uPc, setup>>
  <2>1. CASE UsbStep
    BY <1>1, <2>1 DEF UsbStep, UsbLoop, UsbByte, UsbStart, UsbLength, UsbReportId, UsbBody, Take, UsbIdle,
       deviceControlRequest, UsbForward, UsbEndRequest, UsbCheck
  <2>2. CASE MainStep \/ MainPoll
    BY <2>2 DEF MainStep, MainPoll, usbVars
  <2>3. CASE UartToUsb \/ UartToMain
    BY <2>3 DEF UartToUsb, UartToMain
  <2>4. CASE Enumerate \/ ChangeInput
    BY <2>4 DEF Enumerate, UsbConfigured, ChangeInput, usbVars
  <2>5. CASE HostWrite \/ HostRead
    BY <1>1, <2>5 DEF HostWrite, HostRead, ControlPipeFree
  <2>6. CASE \E e \in Endpoint : HostCollect(e)
    BY <2>6 DEF HostCollect
  <2>7. CASE UNCHANGED vars
    BY <2>7 DEF vars, usbVars
  <2>8. QED
    BY <2>1, <2>2, <2>3, <2>4, <2>5, <2>6, <2>7 DEF Next
<1>3. QED
  BY <1>1, <1>2 DEF Stuck

LEMMA MemoryStep ==
  ASSUME LongWrites, Separate, TypeOK, TypeOK', MemoryInv, [Next]_vars PROVE MemoryInv'
<1>1. CASE Stuck
  <2>1. Stuck' /\ UNCHANGED setup
    BY <1>1, StuckStays
  <2>2. QED
    BY <2>1 DEF MemoryInv, FromHost
<1> SUFFICES ASSUME ~Stuck PROVE MemoryInv'
  BY <1>1
<1>2. FromHost /\ Tidy /\ Memories
  BY DEF MemoryInv
<1>3. CASE MainStep
  <2>1. Memories'
    BY <1>2, <1>3, MemoryTake
  <2>2. UNCHANGED <<uPc, forward, setup>>
    BY <1>3 DEF MainStep, usbVars
  <2>3. QED
    BY <1>2, <2>1, <2>2 DEF MemoryInv, FromHost, Tidy
<1>4. CASE UartToMain
  BY <1>4, MemoryMove
<1>5. CASE UsbStep /\ (UsbIdle \/ UsbCheck)
  <2>1. Tidy' /\ Memories'
    BY <1>2, <1>5, MemoryCheck
  <2>2. UNCHANGED setup
    BY <1>5 DEF UsbIdle, UsbCheck
  <2>3. QED
    BY <1>2, <2>1, <2>2 DEF MemoryInv, FromHost
<1>6. CASE UsbStep /\ deviceControlRequest
  <2>1. Tidy' /\ Memories'
    BY <1>2, <1>6, MemoryRequest
  <2>2. UNCHANGED setup
    BY <1>6 DEF deviceControlRequest
  <2>3. QED
    BY <1>2, <2>1, <2>2 DEF MemoryInv, FromHost
<1>7. CASE UsbStep /\ UsbForward
  <2>1. Stuck' \/ (Tidy' /\ Memories')
    BY <1>2, <1>7, MemoryForward
  <2>2. UNCHANGED setup
    BY <1>7 DEF UsbForward
  <2>3. QED
    BY <1>2, <2>1, <2>2 DEF MemoryInv, FromHost
<1>8. CASE UsbStep /\ UsbEndRequest
  <2>1. Tidy' /\ Memories'
    BY <1>2, <1>8, MemoryEnd
  <2>2. setup'.kind = "none"
    BY <1>8 DEF UsbEndRequest, NoRequest
  <2>3. QED
    BY <2>1, <2>2 DEF MemoryInv, FromHost
<1>9. CASE HostWrite
  BY <1>2, <1>9, MemoryWrite DEF MemoryInv
<1>10. CASE HostRead
  BY <1>2, <1>10, MemoryRead DEF MemoryInv
<1>11. CASE UsbStep /\ UsbByte
  <2>1. UNCHANGED <<tx, uPc, forward, setup, deviceType>>
    BY <1>11 DEF UsbByte, UsbStart, UsbLength, UsbReportId, UsbBody, Take
  <2>2. UNCHANGED memoryVars
    BY <1>11, <2>1 DEF UsbStep, mainVars, memoryVars
  <2>3. QED
    BY <2>2, MemorySame
<1>12. CASE MainPoll \/ UartToUsb \/ Enumerate \/ ChangeInput \/ UNCHANGED vars
  <2>1. UNCHANGED memoryVars
    BY <1>12 DEF MainPoll, MainTick, UartToUsb, Enumerate, UsbConfigured, ChangeInput, vars, mainVars, usbVars,
       ghostVars, memoryVars
  <2>2. QED
    BY <2>1, MemorySame
<1>13. CASE \E e \in Endpoint : HostCollect(e)
  <2>1. UNCHANGED memoryVars
    BY <1>13 DEF HostCollect, mainVars, ghostVars, memoryVars
  <2>2. QED
    BY <2>1, MemorySame
<1>14. QED
  BY <1>3, <1>4, <1>5, <1>6, <1>7, <1>8, <1>9, <1>10, <1>11, <1>12, <1>13 DEF Next, UsbStep, UsbLoop

LEMMA MemoryStart == Init \/ SettledInit => MemoryInv
<1> SUFFICES ASSUME Init \/ SettledInit PROVE MemoryInv
  OBVIOUS
<1>1. /\ MainInit /\ EnvInit /\ tx = << >> /\ forward = << >> /\ uPc = "loop" /\ setup = NoRequest
  BY Zenon DEF Init, SettledInit, UsbInit
<1>2. /\ in = << >> /\ mState = 0 /\ isConfig = FALSE /\ todo = << >>
      /\ wanted = [eeprom |-> eeprom, leds |-> leds, type |-> deviceType]
  BY <1>1, Zenon DEF MainInit, EnvInit
<1>3. setup.kind = "none"
  BY <1>1 DEF NoRequest
<1>4. FromHost /\ Tidy /\ ~Pending
  BY <1>1, <1>3 DEF FromHost, Tidy, Pending
<1>5. Now \in Parser
  BY InitType, NowType
<1>6. in \o (tx \o forward) = << >>
  BY <1>1, <1>2
<1>7. Leads(Now, in \o (tx \o forward), 0, Now)
  BY <1>5, <1>6, LeadsNothing
<1>8. Now.st = 0 /\ Now.conf = FALSE /\ Now.ee = eeprom /\ Now.leds = leds
  BY <1>2 DEF Now
<1>9. Counted(0)
  <2>1. Len(todo) = 0
    BY <1>2
  <2>2. QED
    BY <1>4, <2>1 DEF Counted
<1>10. Owed(Now) = wanted
  BY <1>2, <1>3, <1>4, <1>8 DEF Owed
<1>11. Memories
  BY <1>7, <1>8, <1>9, <1>10 DEF Memories
<1>12. QED
  BY <1>4, <1>11 DEF MemoryInv

\* Once the 328p has executed every write of the host, the configuration, the LEDs
\* and the subtype are what the host asked for, whatever the order in which requests,
\* reports, FRAME_DONEs and the bytes on the UART interleave: for every device type,
\* memory and block size, and any writes long enough for their commands that do not
\* mix configuration writes with commands other than a reset.
THEOREM MemoriesAsAsked ==
  LongWrites /\ Separate => (Spec \/ SettledSpec => []MemoryFaithful)
<1> SUFFICES ASSUME LongWrites, Separate PROVE Spec \/ SettledSpec => []MemoryFaithful
  OBVIOUS
<1>1. Init \/ SettledInit => TypeOK /\ MemoryInv
  BY InitType, MemoryStart
<1>2. TypeOK /\ [Next]_vars => TypeOK'
  BY NextType
<1>3. MemoryInv /\ TypeOK /\ TypeOK' /\ [Next]_vars => MemoryInv'
  BY MemoryStep
<1>4. MemoryInv /\ TypeOK => MemoryFaithful
  BY MemoryShown
<1>5. QED
  BY <1>1, <1>2, <1>3, <1>4, PTL DEF Spec, SettledSpec
==============================================================================
