----------------------------- MODULE UnoProtocol -----------------------------
(***************************************************************************)
(* The bytes the two micro-controllers of an Uno exchange over the UART:   *)
(* the 328p (uno/main/main.c) reads the inputs and builds reports, the     *)
(* 16u2 (uno/usb/main.c) owns the USB endpoints.  There is no escaping: a  *)
(* payload byte may equal a frame marker, so both ends must count bytes.   *)
(***************************************************************************)
EXTENDS Integers, Sequences

Byte == 0..255

\* What one length byte can announce.
Payload == {d \in Seq(Byte) : Len(d) \in Byte}

\* uint8_t decrement, wrapping at zero.
Dec8(n) == (n + 255) % 256

\* Frame markers (uno/shared/device_consts.h).
FRAME_DONE                == 119
FRAME_START_WRITE         == 120
FRAME_START_FEATURE_READ  == 125
FRAME_START_FEATURE_WRITE == 126

\* The commands whose handling differs on the wire (enum SerialCommands).
COMMAND_REBOOT          == 48
COMMAND_JUMP_BOOTLOADER == 49
COMMAND_WRITE_SUBTYPE   == 56
COMMAND_SET_LEDS        == 57
COMMAND_RESET           == 58
COMMAND_SET_SP          == 59
COMMAND_WRITE_CONFIG    == 61
COMMAND_READ_CONFIG     == 62

\* Report identifiers (enum HID_Report), one per kind of device modelled.
REPORT_ID_XINPUT  == 0
REPORT_ID_GAMEPAD == 4
REPORT_ID_KBD     == 6
REPORT_ID_MIDI    == 7
REPORT_ID_CONTROL == 8
ReportId == {REPORT_ID_XINPUT, REPORT_ID_GAMEPAD, REPORT_ID_KBD,
             REPORT_ID_MIDI, REPORT_ID_CONTROL}

\* USB endpoint numbers; the control endpoint is 0.
ENDPOINT_CONTROLEP == 0
HID_EPADDR_IN      == 1
XINPUT_EPADDR_IN   == 2
MIDI_EPADDR_IN     == 3
Endpoint == 0..3

\* A frame from the 328p: marker, length, body (body[1] is the report id).
WriteFrame(body) == <<FRAME_START_WRITE, Len(body)>> \o body

\* A feature-write frame from the 16u2; len counts the payload only.
FeatureWriteFrame(cmd, data) ==
  <<FRAME_START_FEATURE_WRITE, Len(data), cmd>> \o data

FeatureReadFrame(cmd) == <<FRAME_START_FEATURE_READ, cmd>>
==============================================================================
