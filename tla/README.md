# A TLA+ model of the guitar adaptor firmware

The firmware turns an Arduino Uno, Mega, Micro or a Pico wired to a guitar,
drum kit or pad into a USB controller. The code is small, but much of it is
concurrent: on an Uno two micro-controllers run their own main loops and
interrupts and talk over a UART without framing bytes, acknowledgements or
checksums; the other boards add a radio link, an I2C bus, PlayStation pads and a
configuration that survives power cuts and firmware updates.

## Inventory

| Part | State | Operations | Interacts with |
|---|---|---|---|
| 328p main loop (`avr/uno/main/main.c`) | rings `in`, `out`; parser state, `packetCount`, `cmd`, `isConfig`, `buf`, `offset`; `readyForPacket`; `controller`, `prevController` | parse one byte, answer a read, poll and report | UART, inputs, EEPROM, LEDs |
| 16u2 main loop (`avr/uno/usb/main.c`) | rings; parser state and count; `currentEndpoint`, `checkEndpoint`; endpoint banks; `config.deviceType` | parse one byte, run the USB task, forward a control request, signal `FRAME_DONE` | UART, USB host |
| Transmit rings (`main.c`, `device_comms.h`, LUFA's `RingBuffer.h`) | memory, pointers, count, interrupt enable | `writeData`, `UDRE` interrupt | both loops |
| Command handler (`serial_handler.c`) | `dbuf` | read and write feature reports | all mains |
| Inputs (`input_handler.c`, `direct.h`, `pins.c`) | `pinData` debounce times, search flags, converter and current axis | poll, map, search for pins, convert | pins, I2C, SPI |
| Configuration (`lib/eeprom`) | EEPROM or flash | load with migration, write, reset | all mains |
| RF link (`rf/*.c`, nRF24 library) | radio FIFOs, acknowledgement payloads | transmit, receive, relay commands | 328p, Micro, Pico |
| I2C driver (`i2c.c`), Wii extension (`wii_ext.h`) | `twi_state`, buffer, index; `wiiExtensionID`, `readFunction`, `bytes`, `buttons` | start, interrupt, time out; identify, initialise, poll | inputs |
| PS2 pad (`ps2_cnt.h`) | `ps2CtrlType`, `buttonWord`, the pad's own mode | exchange, retry, configure, poll | inputs, SPI |
| Reports, LEDs | previous MIDI velocities, key slots, LED state | build a report | mains |
| Micro and Pico mains | one loop each | poll, write endpoints | USB stacks |

What is hard to test: the interleaving of the two loops, the interrupts and
the host; the flow control that replaces a test for space in the rings; staying
in frame with unescaped payloads; `uint8_t` counters at zero; writes to EEPROM
cut short; late answers over RF. `PROJECT.json` lists each hazard at its line.

What makes the parts correct: frames are never lost or misread; a reply answers
the request that was made; the host's writes reach the memory they were meant
for and no other; the permission to send a report is neither lost nor
multiplied; what the player holds reaches the host; the rings keep order and
never stall; a migrated configuration means what it meant, and what runs is what
is stored; a command over the radio is executed at most once and in order and a read
ends; the device plugged in is the one whose reports are read, whatever was
plugged in before; no driver waits for ever; an axis shows its own pin.

## Modules

* `UnoProtocol` - bytes, frame markers, commands, report ids, frames.
* `UnoMain` - the 328p. One action per parser state (`MainStart`, `MainLength`,
  `MainRead`, `MainCommand`, `MainOffset`, `MainPayload`), each consuming one
  byte of `in`, and `MainTick`, the other branch of the loop. The variables are
  the program's (`state` is `mState`). The data of a reply are one byte, the command
  answered; a controller is one byte; the configuration and the LED state are
  functions of `MemSize` bytes.
* `UnoUsb` - the 16u2. `UsbStart`, `UsbLength`, `UsbReportId`, `UsbBody` parse;
  `deviceControlRequest`, `UsbForward` (one `writeData` at a time, so bytes
  from the UART pile up meanwhile) and `UsbEndRequest` serve a control request;
  `UsbIdle` and `UsbCheck` end an iteration. LUFA's `Endpoint_IsINReady` and
  `Endpoint_Write_8` have the hardware's registers behind them: one bank, whose
  bytes are lost when it is not the program's to write.
* `UnoBridge` - both, the UART, the host and the player. A ring is the sequence
  of its unread bytes, so a byte moves between the two with one action. Four
  history variables serve the properties and are read by no action of the code.
* `ReportCredit`, `ReportSlot` - abstract specifications. The first is the flow
  control as an account of credits (a flag set on either side, a report or a
  `FRAME_DONE` under way); the second is what a player may expect, a path that
  holds one report and delivers the latest state.
* `UsartTx` - the two transmit rings at the level of the instructions whose
  order matters: store, publish, enable, and the interrupt between any two.
* `InputHandler` - `tickInputs`: what a button or stick delivers is the player's,
  the debounce times are ages that stop counting above the longest of them.
* `ConfigStore` - `loadConfig`, `writeConfigBlock` and `resetConfig` of both
  `eeprom.c`. Memory is a function from cells to bytes; a save is a sequence of
  pieces (a byte of EEPROM, the erased sector, a page of flash) and the power
  can fail between any two. The fields are the ones `loadConfig` tests or
  changes, in the order of `Configuration_t`; signature and version keep two
  bytes because the AVR reads them one byte out of place when it looks for an
  old configuration.
* `RfLink` - the transmitter's loop with its sleep, the receiver's loop and
  control requests (the Micro's, which the Pico repeats), and the radio between them. External: the
  retransmission, duplicate detection, acknowledgement payloads and the
  interrupt line of the nRF24L01, as its driver uses them. Time is not modelled, so
  the transmitter may go to sleep (`Sleep`) at any moment, not only ten minutes after
  the last change of a button it polled; a move does not wake it (`PlayerMoves`),
  unless it is of a button on the interrupt's pin (`INT1_vect`).
* `Twi` - the AVR's I2C driver: the calls with their two waits and timeouts and
  one action per event of the interrupt. External: the bus, with faults.
* `WiiExt` - `initWiiExt` and `tickWiiExtInput`, one I2C access per step, and
  the player who swaps extensions. External: an extension answers zeroes or ones
  until it got both initialisation writes. Classic controllers come in two kinds
  with the same ID; one switches to a high resolution when it is told to, whose
  reports are longer (`bytes`). Axes (`shown`) and `buttons` are kept apart because
  `readDrawsomeExt` sets only the former. Extensions that take the guitar's path
  (nunchuk, drums, turntable, Taiko drum, uDraw) are the guitar.
* `Ps2` - `autoShiftData`, `sendCommand`, `read`, `begin`, `tickPS2CtrlInput`, one
  exchange per step, for every kind of pad `read` tells apart. External: the pad, which answers with the header of the mode
  it was in and then obeys; the exchange may be lost either way.
* `DirectInput` - `tickAnalog`, which converts one axis after the other without
  waiting, and the pin search, which uses the same converter.
* `InputDevices` - the three drivers under `initInputs` and `tickInputs`;
  `MCInputDevices` gives its constants.
* `MCUnoBridge` - inputs and control writes for model checking; they include
  bytes equal to every frame marker.
* `ReportCreditProofs`, `UsartTxProofs`, `UnoBridgeProofs`, `DirectInputProofs`,
  `InputDevicesProofs`, `InputHandlerProofs`, `RfLinkProofs`, `ConfigStoreProofs` - the
  proofs.

Definitions named `...Stuck`, `...Early`, `...Late`, `...Any` and the like, next
to the definition they resemble, are plausible bugs; substituting one must
violate the property `PROJECT.json` pairs it with.

## Runs

* `uno_boot` - power-up, two input changes, enumeration at any time, two control
  requests out of a read, two configuration writes and a reset. Both parsers
  stay in frame (`FrameSync`); a read gets its own answer (`ReplyMatches`); the
  328p executes the writes in order (`WritesInOrder`) and memory is what the
  host asked for once they are done (`MemoryFaithful`); the flow control implements
  `ReportCredit` (`CreditSpec`).
* `uno_live` - power-up, an XInput device with four input changes and two control
  reads: `readyForPacket` always returns (`CreditReturns`), although the reply takes
  over `currentEndpoint`, and the uplink never holds more than two reports and a
  reply (`UplinkBounded`), however far the 16u2's loop falls behind.
* `uno_settled` - the state after an undisturbed start, with writes that leave
  the configuration alone: the bridge implements `ReportSlot` (`SlotSpec`, its
  fairness included), reports meet only ready endpoints, and the host comes to
  see what the player holds (`LatestShown`).
* `usart_tx` - both transmit rings, N = 3, five bytes, so that each pointer
  goes round and the ring is full, empty and wrapped.
* `input_handler` - all mappings on, four actions of the player at any time.
  Merged strum keeps changes of either direction a debounce time apart
  (`StrumSpacing`); a poll leaves a strum direction out of date only while
  its time runs (`NoStale`); what is let go of is reported released, mapped
  buttons included (`AllReleased`); START and BACK become HOME although their
  times run separately (`HomeReached`). It assumes that every button has an
  entry in `pinData`, as with a Wii or PS2 controller: wired directly without a
  pin for HOME or a direction, nothing clears the bit a mapping has set. HOME is not steady
  either: while START and BACK are held it is cleared and set again.

* `config_store` - a configuration of any generation, or none, on either board,
  with two power cuts and two blocks or resets. Once loaded, what runs is what is
  stored, under a valid signature (`BootedIsStored`); a migration that is not
  interrupted keeps the sense of the whammy, the tilt axis, the kind of device
  and every field the version had (`MeaningPreserved`); the Pico's flash never
  holds parts of two configurations (`NoMixedConfig`). Two limits are part of
  the statements: an AVR configuration of before version 8 is found only if its
  first pin is 0 (the byte read as the top of the version), and a cut during the
  save may change the meaning, because the migration is not idempotent.
* `rf_link` - a move of the player, three commands, any losses. A relayed write
  is executed at most once and in order (`ExecutedOnce`); a read ends, the
  transmitter asleep or not (`ReadReturns`); a write ends while the transmitter is
  awake (`WriteReturns`); as long as no command is relayed and the transmitter is awake the
  host comes to see the player's last state (`LatestReaches`), which rests on the
  packet sent every 100 ms. Deadlock is not checked: when the transmitter sleeps
  and nobody moves, the system rests. What the code does not promise: an answer
  may belong to an earlier read, a write behind a read may be lost, a relayed
  write hangs the receiver while the transmitter sleeps, and it may go to sleep with
  moves of an axis, or a press since its last poll, that the host has not seen.
* `input_devices` - one of the three drivers. Wii: extensions are swapped and
  buttons pressed at any time, also within an access. On a bus without faults no
  report is read as another extension's, nor in the wrong resolution or length
  (`NotMisread`), and a known extension ends up found, with its axes and buttons
  shown as they are held (`WiiFound`); with a fault of the bus every call of the I2C
  driver still returns (`CallReturns`), although a stop condition that was given up
  on leaves the driver useless. What the code does not promise, and the statement
  leaves out: nothing sets `buttons` for the drawing tablet, so the host goes on being
  shown those of the extension before it; and a classic controller on which something
  moves between every two reads is never done being initialised (here the player stops
  moving). PS2: a pad is left in configuration mode only if every try of a
  command was lost (`NotLeftInConfig`), and a pad left plugged in is read for
  good (`Ps2Shown`). Direct: an axis holds conversions of its own pin
  (`AxisFromItsPin`) and comes to show its voltage (`AxisShows`), and the answer to
  a search names a pin that moved after it was asked for (`FreshAnswer`).

Four runs end in a violation; each refutes a sentence in the code.

* `uno_config_leak` - `isConfig` is cleared only in RF mode. A later command
  whose payload should be read and dropped writes the configuration.
* `uno_midi_silent` - a MIDI report without events is one byte, the 16u2's count
  wraps, it never finishes the report, and the 328p is silent for ever.
* `config_fresh` - a device without a valid configuration takes the default one
  as if it were of version 0; the migrations flip its whammy and turn its
  orientation from X to Z, so it differs from a device that was reset.
* `rf_deaf` - once a relayed command was acknowledged, `TX_DS` holds the interrupt
  line low and the main loop, which waits for its fall, reads no more states
  until the next control request.

Two more were seen while modelling and have no run of their own. From power-up
`readyForPacket` is already true, so the first report does not wait for the
endpoint (`ReportOnlyWhenReady` holds in `uno_settled`, not from `Init`); and with
`MaxIsr` = 2, two `UDRE` interrupts between saving the write pointer and
enabling the interrupt make the 16u2 send bytes nobody wrote.

**Bounds.** Two requests are the least with which one frame can corrupt the
next; two changes use both start-up credits. In `uno_live` four changes are two more than
there are credits: if `readyForPacket` were ignored, they would be as many reports at
once. A payload is at most three bytes and a block two, so a block has a first, a last
and a following one. `PACKET_SIZE` (28) and the ring length (128) are constants of the
theorems, which hold for all of them. `MaxIsr` bounds the interrupts that fall
between two adjacent instructions. `config_store` has a version on either side of
every test of `loadConfig`, and two cuts so that a second one can hit the repair
of the first. In `rf_link` the FIFOs have two places instead of three: enough for one to be full, empty
and in between; three commands fill them with one left to wait. In `input_devices` three actions of the
player replace an extension, with a press before, in between or after; the classic
controllers and the drawing tablet are the ones with extra steps. One fault is enough to
wedge the bus, and on a bus that fails the player does nothing (`MaxFaultyPlugs` = 0): `NotMisread` and
`WiiFound` speak of a good bus, and whether a call returns does not depend on swaps.
`MaxTries` = `MaxLosses` = 3 lets a whole command be lost; two pins, both analog and
both axes, let each be searched while the other is converted.

**Fairness.** Both main loops and the UART run for ever (no action of theirs is
optional), and a host that has opened the device enumerates it and polls its
interrupt endpoints: weak fairness of each. Nobody is obliged to play or to
send requests. `input_handler` assumes that the loop polls and time passes. Only
`uno_live`, `uno_settled`, `uno_midi_silent`, `usart_tx`, `input_handler`, `rf_link`,
`rf_deaf` and `input_devices` use fairness. `rf_link`: both loops run and 500 ms pass;
strong fairness of `Delivered` says that a radio given the chance again and again
gets a packet through. `input_devices`: the main loop runs, and so do the TWI interrupt and
the converter; nobody is obliged to release a bus that is held.

## Proofs

All for arbitrary constants within the named assumptions.

* `UnoBridgeProofs!TypeCorrect`: `Spec => []TypeOK`. `TypeOK` is inductive as it
  stands; the proof has a lemma per action of either loop and one step per
  action of the bridge.
* `UnoBridgeProofs`: `ParsersInStep` (`FrameSync`), `AnswersMatch` (`ReplyMatches`),
  `ExecutedInOrder` (`WritesInOrder`), `ImplementsCredit` (`CreditSpec`), `UplinkFits`
  (`UplinkBounded`) and `ReportsFindRoom` (`ReportOnlyWhenReady`). None of these is
  inductive: each depends on bytes that are anywhere between the rest of a frame
  being forwarded and the other side's parser. `BridgeInv` says where they may be.
  A `Point` is a state of a parser together with what the bytes from there on still
  contain: credits, outstanding writes, the one read. `Goes` says how a byte takes
  a point to the next, and a `Chain` is a function that gives every position of
  a stream its point. `Down` says that the bytes towards the 328p (its ring, the
  16u2's ring, the rest of the frame being forwarded) have a chain that starts where
  the 328p's parser is and ends at rest with nothing left; `Up` says the same of the
  bytes towards the 16u2; `Token` says that the one read is in one of the two
  streams or in endpoint 0's bank. Reading a byte drops the first point of a chain,
  sending a frame adds points that are given explicitly, moving a byte between
  rings leaves the stream as it is: so no step needs an induction over the stream.
  `UplinkFits` also uses the bound of `ReportCreditProofs`, instantiated on the
  bridge's state, and that every frame towards the 16u2 has four bytes.

  The hypothesis is `WellFormed`: the device is not a MIDI instrument, and a write
  has at least one byte of data, two if the first is a block number. Both exclude
  what the code really gets wrong: a MIDI report without events is the violation
  of `uno_midi_silent`, and a shorter write wraps `packetCount` (`main.c:131`, listed
  as a hazard). The constants of every other run of the bridge satisfy it. `FrameSync` is
  stated for a 16u2 that has not stopped in the wait of `device_comms.h:53`, which
  may leave a frame half sent; the other theorems hold then too.

  `ReportsFindRoom` is about `SettledSpec`, with no reads and an endpoint table that
  agrees with the device's endpoint (`DeviceTable`), as in `uno_settled`. A settled
  bridge has one permission in all (`ReportCreditProofs!Single`); a report at its id
  is that permission, so `checkEndpoint` is clear, and it is cleared only when the
  endpoint was found ready. From power-up the statement is false, since both
  flags start out set.

  `SettledIsSlot` is about the same specification: `SettledSpec => SlotSteps`, the
  refinement of `ReportSlot` without its fairness. One permission means that at most
  one report is anywhere between the 328p and the host (`OneReport`); `SlotInv` says
  what is known of it at each place: the last byte under way is the state sent last
  (`WayInv`), the bank holds the part of that packet already read (`BankInv`), and
  with nothing under way the host has been shown that state (`ShownInv`).

  `MemoriesAsAsked` is `MemoryFaithful` for `Spec` and `SettledSpec`. What the host wants
  depends on bytes that have not been parsed yet, so its invariant follows the whole
  parser, registers and memories included (`Parser`), through the stream: `Leads(p, s,
  k, e)` says that the bytes `s` take it from `p` to `e` and finish `k` writes, and that
  a point with no write left to finish has the memories of `e` already. `MemoryInv` says
  that the bytes under way lead from the parser as it is (`Now`) to an `e` at rest, that
  the writes counted on the way are those in `todo`, and that what the host wants is
  what `e` holds plus the effect of a request that is not a frame yet (`Owed`). Only
  five facts about `Leads` are used (nothing read, one byte, a payload, one stream
  after the other, the first byte dropped), so that again no step needs an induction
  over the stream; that a payload stored byte by byte is the block the host meant
  (`LaidStep`, `LaidWritten`) is the only arithmetic. The hypotheses are `LongWrites`, as
  above but for MIDI devices too, and `Separate`: configuration writes are not mixed
  with commands other than a reset, because `isConfig` is never cleared and a later
  payload would go to the configuration, which is the violation of `uno_config_leak`.
  A 16u2 that hangs with a request in hand claims nothing (`Stuck`). The invariant was
  checked with TLC, the stream folded through the parser, for the constants of
  `uno_boot` and `uno_settled` and for a ring of three bytes before it was proved.
* `UsartTxProofs`: `mFifo`, `mWakeup`, `uFifo`, `uWakeup`, `TypeCorrect`. The
  inductive invariant says the ring is a window on the sequence of bytes
  written: the slot i places after the read pointer holds byte `got + i`. The
  order on the line is not inductive without it. For the 16u2 it also says that
  between publishing and enabling an interrupt that is still on has two bytes
  ahead of it, less those it has already sent; this is where `MaxIsr <= 1` is
  needed: with two, TLC finds the ring overtaken.
* `ReportCreditProofs`: `CreditKept` and `AtMostTwoReports`. The number of credits is
  between one and two in every reachable state; `ImplementsCredit` carries the
  bound over to the bridge.
* `DirectInputProofs`: `AxesApart` (`DirectSpec => []AxisFromItsPin`) and
  `AnswersFresh` (`DirectSpec => FreshAnswer`), for any pins and axes. The first
  is not inductive: what is stored is whatever the converter delivers. `IInv`
  adds that, unless `first` is set, the converter's channel is the current axis's
  pin and a finished result is that pin's, and that a search has set `first`. For
  the second, `Unmoved` adds that while a search runs every pin that has not
  moved still reads as it did when the search was asked for; it covers both
  searches at once, because the second may be asked for before the first is
  answered.
* `InputDevicesProofs`: `TypeCorrect`, `ReportsNotMisread` (`NotMisread`),
  `ConfigModeLeft` (`NotLeftInConfig`) for the three drivers together, and
  `DirectAlone`: `Spec => DirectSpec`, so the theorems of `DirectInputProofs` hold
  of the composition. `ConfInv` is what makes `NotLeftInConfig` inductive: inside the
  commands that leave configuration mode, a pad still in it has lost every try so
  far. A pad swapped for another half way is covered because the new one starts
  outside configuration mode.
  `NotMisread` rests on the Wii extension driver and the I2C driver below it. `TwiInv`
  types the interrupt's state and bounds the indices into its buffer; `CallInv` says
  that the I2C call in progress is the access the program is waiting in. On a bus
  without faults, `Quiet` says that no interrupt, buffer content or error outlives the
  call it belongs to, and `Agree` that an extension that is fully initialised is the
  one the program found since it was plugged in, at every point from the
  identification to the decoding: `Place` relates where the program is to what is
  plugged in and to the resolution it has been switched to, and `Heard` says that the
  bytes read so far are that extension's. `Sized` says that the function for the long
  reports is given long ones, although `bytes` is left as it is when another
  extension is found.
* `InputHandlerProofs`: `MergedStrumSpaced` (`StrumSpacing`) and `StrumNotStale`
  (`NoStale`), for any debounce times, buttons and mappings. `StrumSpacing` speaks of the
  time since the last change of either direction, which the program does not keep;
  `HandlerInv` says that the time both directions share is never ahead of it,
  although a held button restarts the shared time as well. The bit is compared in
  place (`Differs`), so a direction held and one in the report differ as numbers
  exactly when they differ as Booleans only if the bit is not 0 (`StrumDiffers`).
* `RfLinkProofs`: `TypeCorrect` and `WritesOnceInOrder` (`ExecutedOnce`). The writes
  are numbered; `OrderInv` orders the numbers executed, those in the transmitter's
  FIFO, those the receiver still has to deliver and the one the request handler
  holds, in that sequence. The step that matters is a repeated packet: the head of
  the receiver's FIFO that was delivered, and whose acknowledgement was lost, is
  not among those still to deliver (`Pending`).
* `ConfigStoreProofs`: `TypeCorrect`, `BootsWhatIsStored`, `MeaningKept`, `NeverMixed`,
  for any versions, subtypes, cuts and writes. `StoreInv` says that there is a
  configuration `c` the memory is becoming (`Target`): a prefix of its cells, in
  the order the platform writes them, has been written, the rest are the pieces in
  `todo`, and `c` is what runs. `HeaderInv` is about the AVR's search for an old
  configuration one cell lower: the signature there is spoilt before, or the
  version after, anything that could look current, whichever way the bytes are
  written. The migration itself is a set of lemmas about operators
  (`MigratedOf`, `MigrationMeaning`, `RemappedMeaning`).

Only model-checked: liveness (`CreditReturns`, `LatestShown`, and the properties of
`RfLink`, `WiiExt`, `Ps2`, `DirectInput` and `InputHandler` that say something happens in
the end), and with it the fairness that `SlotSpec` contains. Every invariant of the runs
is a theorem.

## Not modelled, and the plan

* Restarts of one Uno micro-controller while the other runs, writes of length zero
  and the 16u2's wait for space (`UnoReboot` in the plan).
* The endpoint side of the Micro and the Pico: one loop each around a USB
  stack that is outside the repository; their control requests are the ones of
  `RfLink` and `ConfigStore`.
* The Uno's RF receiver: its relaying differs from the Micro's (it waits for an
  empty FIFO and sends the block after the one written).
* The contents of reports (keyboard, mouse, PS3, XInput), axis scaling, tilt and
  LEDs: data transformations without state, planned as pure operators.
* Repeated starts of the I2C driver, which no caller asks for, and the Pico's
  drivers, which call its SDK.
* The multi-adaptor build, descriptors, register-level pin, timer and SPI code,
  the stock usbserial firmware and the vendored libraries stay out.

Next:

1. `UnoReboot`, then reports as pure operators.
