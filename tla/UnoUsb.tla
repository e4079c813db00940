------------------------------- MODULE UnoUsb --------------------------------
(***************************************************************************)
(* The 16u2 of an Uno (uno/usb/main.c, uno/usb/device_comms.h): one main   *)
(* loop that moves bytes received from the 328p into USB endpoints and,    *)
(* when none are waiting, runs the USB task (control requests) and tells   *)
(* the 328p with FRAME_DONE that the endpoint can take another report.     *)
(*                                                                         *)
(* The rings are the sequences of their unread bytes.  An IN endpoint is   *)
(* one bank: `fifo' is what the program has written to it, `busy' that the *)
(* bank has been handed over and the host has not yet collected it.        *)
(***************************************************************************)
EXTENDS UnoProtocol

CONSTANTS
  DeviceEp,          \* the endpoint of the configured device type
  USB2USART_BUFLEN   \* length of the transmit ring (128)

ASSUME UsbAssumption ==
  DeviceEp \in Endpoint \ {ENDPOINT_CONTROLEP} /\ USB2USART_BUFLEN \in Nat

\* What the 16u2's main loop is doing: "loop" (top of the loop), "control"
\* (forwarding a control request), "check" (after USB_USBTask), or "hung" (in
\* writeData's wait for space, which tests a value it never reads again).
UsbPc == {"loop", "control", "check", "hung"}

VARIABLES
  rx, tx,                                  \* USARTtoUSB, USBtoUSART rings
  uPc, uState, uCount,                     \* main loop; state, packetCount
  currentEndpoint, checkEndpoint,
  configured,                              \* the host has configured the device
  fifo, busy,                              \* endpoint banks
  setup,                                   \* control request waiting on EP0
  forward,                                 \* rest of the frame being forwarded
  deviceType                               \* config.deviceType in the 16u2's EEPROM

frameVars == <<uState, uCount, currentEndpoint>>
epVars    == <<configured, fifo, busy>>
usbVars   == <<rx, tx, uPc, frameVars, checkEndpoint, epVars, setup, forward, deviceType>>

NoRequest == [kind |-> "none", cmd |-> 0, data |-> << >>]

UsbInit ==
  /\ rx = << >> /\ tx = << >>
  /\ uPc = "loop" /\ uState = 0 /\ uCount = 0
  /\ currentEndpoint = DeviceEp /\ checkEndpoint = TRUE
  /\ configured = FALSE
  /\ fifo = [e \in Endpoint |-> << >>]
  /\ busy = [e \in Endpoint |-> FALSE]
  /\ setup = NoRequest /\ forward = << >>
  /\ deviceType = 0

\* The table `endpoints'.
endpoints == [r \in ReportId |->
  CASE r = REPORT_ID_CONTROL -> ENDPOINT_CONTROLEP
    [] r = REPORT_ID_XINPUT  -> XINPUT_EPADDR_IN
    [] r = REPORT_ID_MIDI    -> MIDI_EPADDR_IN
    [] OTHER                 -> HID_EPADDR_IN]

------------------------------------------------------------------------------
\* The endpoint hardware.  EP0 exists from power-up, the others once the host
\* has configured the device.
Endpoint_IsINReady(e) == ~busy[e] /\ (e = ENDPOINT_CONTROLEP \/ configured)

\* A byte written to a bank that is not the program's to write is lost.
Endpoint_Write_8(e, b) ==
  fifo' = IF Endpoint_IsINReady(e) THEN [fifo EXCEPT ![e] = Append(@, b)] ELSE fifo

\* EVENT_USB_Device_ConfigurationChanged: the report endpoints come into being,
\* with empty banks (nothing could be written to them before).
UsbConfigured ==
  /\ uPc = "loop" /\ rx = << >> /\ ~configured
  /\ configured' = TRUE
  /\ UNCHANGED <<rx, tx, uPc, frameVars, checkEndpoint, fifo, busy, setup, forward, deviceType>>

------------------------------------------------------------------------------
\* Bytes from the 328p, one action per parser state.
Take == uPc = "loop" /\ rx # << >> /\ rx' = Tail(rx)

UsbStart ==
  /\ uState = 0 /\ Take
  /\ uState' = IF Head(rx) = FRAME_START_WRITE THEN 1 ELSE 0
  /\ UNCHANGED <<tx, uPc, uCount, currentEndpoint, checkEndpoint, epVars, setup, forward, deviceType>>

UsbLength ==
  /\ uState = 1 /\ Take
  /\ uCount' = Head(rx) /\ uState' = 2
  /\ UNCHANGED <<tx, uPc, currentEndpoint, checkEndpoint, epVars, setup, forward, deviceType>>

\* The report ids that select an endpoint but are not part of the report.
StripsIdOfReports(r) == r \in {REPORT_ID_MIDI, REPORT_ID_GAMEPAD}
StripsId(r) == r \in {REPORT_ID_MIDI, REPORT_ID_GAMEPAD, REPORT_ID_CONTROL}

\* Whether a packet finished on endpoint e is a report, after which the 328p
\* waits for FRAME_DONE.
IsReportAny(e) == TRUE
IsReportHid(e) == e = HID_EPADDR_IN
IsReport(e) == e # ENDPOINT_CONTROLEP

\* The report id selects the endpoint; it is part of the report only for the
\* device types whose descriptors declare report ids.  A byte that is no report
\* id reads past the table: any endpoint may result.
UsbReportId ==
  /\ uState = 2 /\ Take
  /\ uState' = 3 /\ uCount' = Dec8(uCount)
  /\ currentEndpoint' \in (IF Head(rx) \in ReportId THEN {endpoints[Head(rx)]}
                                                    ELSE Endpoint)
  /\ IF StripsId(Head(rx))
       THEN UNCHANGED fifo
       ELSE Endpoint_Write_8(currentEndpoint', Head(rx))
  /\ UNCHANGED <<tx, uPc, checkEndpoint, configured, busy, setup, forward, deviceType>>

\* A body byte; the last one hands the bank over (Endpoint_ClearIN).
UsbBody ==
  /\ uState = 3 /\ Take
  /\ uCount' = Dec8(uCount)
  /\ Endpoint_Write_8(currentEndpoint, Head(rx))
  /\ IF uCount' = 0
       THEN /\ busy' = [busy EXCEPT ![currentEndpoint] =
                          @ \/ Endpoint_IsINReady(currentEndpoint)]
            /\ uState' = 0
            /\ checkEndpoint' = (checkEndpoint \/ IsReport(currentEndpoint))
       ELSE UNCHANGED <<busy, uState, checkEndpoint>>
  /\ UNCHANGED <<tx, uPc, currentEndpoint, configured, setup, forward, deviceType>>

------------------------------------------------------------------------------
\* writeData of one byte; every caller writes one byte at a time.  When the
\* ring is full the wait never ends.
UsbWriteData(b, next) ==
  IF 1 > (USB2USART_BUFLEN - 1) - Len(tx)
    THEN uPc' = "hung" /\ UNCHANGED tx
    ELSE uPc' = next /\ tx' = Append(tx, b)

\* Whether FRAME_DONE is due.
DoneDueUnchecked == checkEndpoint
DoneDue == checkEndpoint /\ Endpoint_IsINReady(currentEndpoint)

\* Tell the 328p it may send: the tail of the main loop's other branch.
CheckEndpoint ==
  IF DoneDue
    THEN UsbWriteData(FRAME_DONE, "loop") /\ checkEndpoint' = (uPc' = "hung")
    ELSE uPc' = "loop" /\ UNCHANGED <<checkEndpoint, tx>>

\* Nothing received and no control request.
UsbIdle ==
  /\ uPc = "loop" /\ rx = << >> /\ setup.kind = "none"
  /\ CheckEndpoint
  /\ UNCHANGED <<rx, frameVars, epVars, setup, forward, deviceType>>

\* USB_USBTask finds a SETUP packet: deviceControlRequest picks the handler,
\* which sends the frame's bytes one writeData at a time.
deviceControlRequest ==
  /\ uPc = "loop" /\ rx = << >> /\ setup.kind # "none"
  /\ uPc' = "control"
  /\ forward' = IF setup.kind = "set" THEN FeatureWriteFrame(setup.cmd, setup.data)
                                      ELSE FeatureReadFrame(setup.cmd)
  /\ UNCHANGED <<rx, tx, frameVars, checkEndpoint, epVars, setup, deviceType>>

UsbForward ==
  /\ uPc = "control" /\ forward # << >>
  /\ UsbWriteData(Head(forward), "control")
  /\ forward' = Tail(forward)
  /\ UNCHANGED <<rx, frameVars, checkEndpoint, epVars, setup, deviceType>>

\* The handler returns.  A write keeps the subtype (its last byte, which is
\* uninitialised when there was none) and ends with the status stage; a read
\* leaves the data stage to the bytes the 328p will send.
UsbEndRequest ==
  /\ uPc = "control" /\ forward = << >>
  /\ IF setup.kind = "set" /\ setup.cmd = COMMAND_WRITE_SUBTYPE
       THEN deviceType' \in (IF setup.data = << >> THEN Byte
                                                   ELSE {setup.data[Len(setup.data)]})
       ELSE UNCHANGED deviceType
  /\ setup' = NoRequest
  /\ uPc' = "check"
  /\ UNCHANGED <<rx, tx, frameVars, checkEndpoint, epVars, forward>>

UsbCheck ==
  /\ uPc = "check"
  /\ CheckEndpoint
  /\ UNCHANGED <<rx, frameVars, epVars, setup, forward, deviceType>>

UsbByte == UsbStart \/ UsbLength \/ UsbReportId \/ UsbBody

UsbLoop == UsbByte \/ UsbIdle \/ deviceControlRequest \/ UsbForward
             \/ UsbEndRequest \/ UsbCheck

UsbTypeOK ==
  /\ rx \in Seq(Byte) /\ tx \in Seq(Byte)
  /\ uPc \in UsbPc /\ uState \in 0..3 /\ uCount \in Byte
  /\ currentEndpoint \in Endpoint /\ checkEndpoint \in BOOLEAN
  /\ configured \in BOOLEAN
  /\ fifo \in [Endpoint -> Seq(Byte)] /\ busy \in [Endpoint -> BOOLEAN]
  /\ setup \in [kind : {"none", "get", "set"}, cmd : Byte, data : Payload]
  /\ forward \in Seq(Byte) /\ deviceType \in Byte
==============================================================================
