----------------------------- MODULE MCUnoBridge -----------------------------
(***************************************************************************)
(* Constants for model checking UnoBridge.  Payloads and inputs include    *)
(* bytes equal to the frame markers.                                       *)
(***************************************************************************)
EXTENDS UnoBridge

\* Neutral, FRAME_DONE and FRAME_START_WRITE as controller values.
MCInputs == {0, FRAME_DONE, FRAME_START_WRITE}

\* Two values, for the runs with many control requests.
MCTwoInputs == {0, FRAME_START_WRITE}

\* MIDI: bit 0 is mapped to a note, bit 1 is not.
MCMidiInputs == 0..3

Write(c, d) == [cmd |-> c, data |-> d]

\* Two configuration blocks (the second of one byte) and a reset.
MCConfigWrites ==
  {Write(COMMAND_WRITE_CONFIG, <<0, FRAME_START_FEATURE_WRITE, FRAME_DONE>>),
   Write(COMMAND_WRITE_CONFIG, <<1, COMMAND_SET_LEDS>>),
   Write(COMMAND_RESET, <<0>>)}

\* Writes that leave the configuration alone.
MCOtherWrites ==
  {Write(COMMAND_SET_LEDS, <<1, FRAME_DONE, FRAME_START_FEATURE_READ>>),
   Write(COMMAND_SET_SP, <<1>>),
   Write(COMMAND_WRITE_SUBTYPE, <<COMMAND_WRITE_CONFIG>>)}

\* A configuration write and a write that does nothing with its payload.
MCMixedWrites ==
  {Write(COMMAND_WRITE_CONFIG, <<0, 7>>), Write(COMMAND_SET_SP, <<1>>)}
==============================================================================
