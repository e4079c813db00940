----------------------------- MODULE ConfigStore -----------------------------
(***************************************************************************)
(* The stored configuration (eeprom.c of the AVR and of the Pico): loading *)
(* it at power-up with the migration of old versions, writing it block by  *)
(* block for the host, resetting it, and power cuts in the middle of any   *)
(* of these.                                                               *)
(*                                                                         *)
(* The memory is a function from cells to bytes.  A configuration is the   *)
(* fields that loadConfig tests or changes, one cell each and in the order *)
(* of Configuration_t; signature and version keep two of their four bytes, *)
(* because the AVR reads them one byte out of place when it looks for a    *)
(* configuration of an old firmware.                                       *)
(***************************************************************************)
EXTENDS Integers, Sequences

CONSTANTS
  Versions,   \* the versions a stored configuration may have
  SubTypes,   \* its subType
  MaxCuts,    \* bound on power cuts and reboots
  MaxWrites   \* bound on blocks and resets sent by the host

CONFIG_VERSION == 15

ASSUME VersionsAssumption == Versions \subseteq 1..CONFIG_VERSION
ASSUME SubTypesAssumption == SubTypes \subseteq 0..40
ASSUME BoundsAssumption == MaxCuts \in Nat /\ MaxWrites \in Nat

subType == 1    pollRate == 2   sig0 == 3       sig1 == 4
ver0 == 5       ver1 == 6       up == 7         r_x_inverted == 8
orientation == 9   leds == 10   midi == 11      rfInEnabled == 12
axisScale == 13    debounce == 14               combinedStrum == 15
Fields == 1..15
Byte == 0..255
Erased == 255

REAL_GUITAR_SUBTYPE == 7
REAL_DRUM_SUBTYPE == 8
XINPUT_GUITAR_HERO_DRUMS == 13
XINPUT_GUITAR_HERO_GUITAR == 15
isGuitar(s) == s \in {9, 14, 15, 21, 22, 23, 27, 29, 32, 36, 37, 38}

ARDWIINO_DEVICE_TYPE == <<21, 212>>
Signature(c) == <<c[sig0], c[sig1]>>
Version(c) == c[ver0] + 256 * c[ver1]

\* DEFAULT_CONFIG; 1 stands for the default of the fields that are arrays.
default_config == <<XINPUT_GUITAR_HERO_GUITAR, 0, 21, 212, CONFIG_VERSION, 0,
                    255, 0, 0, 1, 1, 0, 1, 1, 0>>

VARIABLES
  platform,    \* which of the two implementations: "avr" or "pico"
  order,       \* the order in which eeprom_update_block writes its bytes
  mem,         \* EEPROM or flash
  on,          \* the device is powered
  config,      \* what loadConfig returned
  newConfig,   \* Pico: the copy in RAM that host writes go to
  todo,        \* what is still to be written, a sequence of pieces of memory
  half,        \* the host has sent the first block of a configuration
  origin,      \* history: the configuration found in memory at first
  intact,      \* history: no host write and no power cut during a save so far
  written,     \* history: written by the host since power-up
  cuts, writes \* history: what MaxCuts and MaxWrites bound

ghosts == <<origin, intact, written, cuts, writes>>
vars == <<platform, order, mem, on, config, newConfig, todo, half, ghosts>>

\* readConfigBlock: config_pointer is cell 1, test is the cell before it.
config_pointer == 1
test == 0
readBlock(at) == [i \in Fields |-> mem[at + i - 1]]

------------------------------------------------------------------------------
\* The version below which loadConfig gives the field its default.
Since(f) ==
  IF platform = "pico"
  THEN CASE f = axisScale -> 12 [] f = debounce -> 13 [] f = combinedStrum -> 15 [] OTHER -> 0
  ELSE CASE f = midi -> 2 [] f = leds -> 4 [] f = pollRate -> 6 [] f = rfInEnabled -> 7
         [] f \in {axisScale, debounce} -> 13 [] f = combinedStrum -> 15 [] OTHER -> 0

(***************************************************************************)
(* What can be in memory at first: nothing, or the configuration of some   *)
(* version, with the user's values (7, or 1 for a flag) in the fields that *)
(* version had.  Before version 8 the AVR kept it one cell lower.          *)
(***************************************************************************)
Stored(v, s, pin, inverted, gyro) ==
  [f \in Fields |->
     CASE f = subType -> s          [] f = up -> pin
       [] f = r_x_inverted -> inverted [] f = orientation -> gyro
       [] f = sig0 -> ARDWIINO_DEVICE_TYPE[1] [] f = sig1 -> ARDWIINO_DEVICE_TYPE[2]
       [] f = ver0 -> v             [] f = ver1 -> 0
       [] f \in {rfInEnabled, combinedStrum} -> IF v < Since(f) THEN Erased ELSE 1
       [] OTHER -> IF v < Since(f) THEN Erased ELSE 7]

ErasedConfig == [f \in Fields |-> Erased]
Base == IF platform = "avr" /\ Version(origin) < 8 THEN test ELSE config_pointer

Init ==
  /\ platform \in {"avr", "pico"}
  /\ order \in IF platform = "avr" THEN {"up", "down"} ELSE {"up"}
  /\ \/ origin = ErasedConfig
     \/ \E v \in Versions, s \in SubTypes, pin \in {0, 5}, inverted \in {0, 1} :
          \E gyro \in IF v < 14 THEN {0, 3, 4} ELSE 0..2 :
            /\ s \in {REAL_GUITAR_SUBTYPE, REAL_DRUM_SUBTYPE} => platform = "avr"
            /\ origin = Stored(v, s, pin, inverted, gyro)
  /\ mem = [c \in 0..15 |-> IF c - Base + 1 \in Fields THEN origin[c - Base + 1]
                            ELSE Erased]
  /\ on = FALSE /\ todo = <<>> /\ half = FALSE
  /\ config = ErasedConfig /\ newConfig = ErasedConfig
  /\ intact = TRUE /\ written = FALSE /\ cuts = 0 /\ writes = 0

------------------------------------------------------------------------------
(***************************************************************************)
(* Writing.  A piece is a function on the cells written at once: one cell  *)
(* of EEPROM, the erased sector, a page of flash.                          *)
(***************************************************************************)
\* eeprom_update_block of the cells from..to (outside the repository).
updateBlockAtTest(c, from, to) ==                                         \* mutant
  [k \in 1..(to - from + 1) |-> LET i == from + k - 1 IN [cell \in {i - 1} |-> c[i]]]
updateBlock(c, from, to) ==
  [k \in 1..(to - from + 1) |->
     LET i == IF order = "up" THEN from + k - 1 ELSE to - k + 1 IN [cell \in {i} |-> c[i]]]

\* Page 0 ends inside axisScale; the rest of the 275 bytes is in page 1.
Page(n) == IF n = 0 THEN 1..12 ELSE 13..15

\* flash_range_erase and flash_range_program, interrupts disabled.
flash(c) == <<[i \in Fields |-> Erased], [i \in Page(0) |-> c[i]], [i \in Page(1) |-> c[i]]>>

\* writeConfigBlock of the Pico: what newConfig becomes, and what is written.
patched(old, c, from, to) == [i \in Fields |-> IF i \in from..to THEN c[i] ELSE old[i]]
flushedEager(c, to) == flash(c)                                           \* mutant
flushed(c, to) == IF to >= Len(default_config) THEN flash(c) ELSE <<>>

writeConfigBlock(c, from, to) ==
  IF platform = "avr"
  THEN todo' = updateBlock(c, from, to) /\ UNCHANGED newConfig
  ELSE /\ newConfig' = patched(newConfig, c, from, to)
       /\ todo' = flushed(newConfig', to)

\* The next piece reaches the memory.
Save ==
  /\ on /\ todo # <<>>
  /\ mem' = [c \in DOMAIN mem |-> IF c \in DOMAIN Head(todo) THEN Head(todo)[c] ELSE mem[c]]
  /\ todo' = Tail(todo)
  /\ UNCHANGED <<platform, order, on, config, newConfig, half, ghosts>>

------------------------------------------------------------------------------
(***************************************************************************)
(* loadConfig.                                                             *)
(***************************************************************************)
signatureChecked(c) ==
  IF Signature(c) = ARDWIINO_DEVICE_TYPE THEN c
  ELSE [default_config EXCEPT ![ver0] = 0]

\* The fields that did not exist yet take their defaults.
defaulted(c) ==
  [f \in Fields |-> IF Version(c) < Since(f) THEN default_config[f] ELSE c[f]]

remapped(c) ==
  IF platform = "pico" THEN c
  ELSE [c EXCEPT ![subType] = CASE @ = REAL_GUITAR_SUBTYPE -> XINPUT_GUITAR_HERO_GUITAR
                                [] @ = REAL_DRUM_SUBTYPE -> XINPUT_GUITAR_HERO_DRUMS
                                [] OTHER -> @]

flipped(c) ==
  IF Version(c) < 9 /\ isGuitar(c[subType])
  THEN [c EXCEPT ![r_x_inverted] = IF @ = 0 THEN 1 ELSE 0] ELSE c

\* GyroOrientationOld has two values for each of Z, Y, X; GyroOrientation is X, Y, Z.
reoriented(c) ==
  IF Version(c) < 14 /\ c[orientation] \in 0..5
  THEN [c EXCEPT ![orientation] = 2 - @ \div 2] ELSE c

migratedFlipFirst(c) == reoriented(remapped(flipped(defaulted(c))))       \* mutant
migrated(c) == reoriented(flipped(remapped(defaulted(c))))

currentOffByOne(c) == Version(c) >= CONFIG_VERSION - 1                   \* mutant
current(c) == Version(c) >= CONFIG_VERSION
stamped(c) == [c EXCEPT ![ver0] = CONFIG_VERSION, ![ver1] = 0]

found ==
  IF platform = "avr" /\ Version(readBlock(config_pointer)) < 8
  THEN readBlock(test) ELSE readBlock(config_pointer)

loadConfig ==
  /\ ~on /\ on' = TRUE /\ written' = FALSE
  /\ LET c == signatureChecked(found)
         m == migrated(c)
     IN IF current(c)
        THEN /\ config' = m /\ todo' = <<>>
             /\ newConfig' = IF platform = "pico" THEN m ELSE newConfig
        ELSE /\ config' = stamped(m)
             /\ writeConfigBlock(config', 1, Len(default_config))
  /\ UNCHANGED <<platform, order, mem, half, origin, intact, cuts, writes>>

------------------------------------------------------------------------------
(***************************************************************************)
(* The host and the power.                                                 *)
(***************************************************************************)
\* What the host writes: 8 in every field that loadConfig leaves alone.
HostConfig == [default_config EXCEPT ![pollRate] = 8, ![leds] = 8, ![midi] = 8,
                                     ![axisScale] = 8, ![debounce] = 8]

Idle == on /\ todo = <<>>
HostSteps == /\ Idle /\ writes < MaxWrites
             /\ writes' = writes + 1 /\ written' = TRUE /\ intact' = FALSE
             /\ UNCHANGED <<platform, order, mem, on, config, origin, cuts>>

\* COMMAND_WRITE_CONFIG: the host sends a configuration in two blocks, in order,
\* and may stop or start again after the first.
HostWriteFirst == HostSteps /\ half' = TRUE /\ writeConfigBlock(HostConfig, 1, 8)
HostWriteLast == /\ HostSteps /\ half /\ half' = FALSE
                 /\ writeConfigBlock(HostConfig, 9, 15)

\* COMMAND_RESET
resetConfig == /\ HostSteps /\ half' = FALSE
               /\ writeConfigBlock(default_config, 1, Len(default_config))

\* A power cut at any moment, or COMMAND_REBOOT: RAM is lost.
PowerCut ==
  /\ on /\ cuts < MaxCuts
  /\ on' = FALSE /\ todo' = <<>> /\ half' = FALSE /\ cuts' = cuts + 1
  /\ config' = ErasedConfig /\ newConfig' = ErasedConfig
  /\ intact' = (intact /\ todo = <<>>)
  /\ UNCHANGED <<platform, order, mem, origin, written, writes>>

Next == \/ loadConfig \/ Save \/ resetConfig \/ PowerCut
        \/ HostWriteFirst \/ HostWriteLast
        \/ Idle /\ cuts = MaxCuts /\ writes = MaxWrites /\ UNCHANGED vars

Spec == Init /\ [][Next]_vars

------------------------------------------------------------------------------
(***************************************************************************)
(* Properties.                                                             *)
(***************************************************************************)
\* Every variable has its type; what is left to write is a sequence of pieces of
\* a configuration.
TypeOK ==
  /\ platform \in {"avr", "pico"} /\ order \in {"up", "down"}
  /\ mem \in [0..15 -> Byte] /\ on \in BOOLEAN
  /\ config \in [Fields -> Byte] /\ newConfig \in [Fields -> Byte]
  /\ \A k \in 1..Len(todo) : DOMAIN todo[k] \subseteq Fields
  /\ half \in BOOLEAN /\ intact \in BOOLEAN /\ written \in BOOLEAN
  /\ cuts \in 0..MaxCuts /\ writes \in 0..MaxWrites

\* Whatever was in memory and wherever a power cut hit, once loadConfig is done
\* the configuration in use is the stored one (but for the subtypes that are
\* mapped at every power-up), with a valid signature: the next power-up will run
\* with the same configuration.
BootedIsStored ==
  Idle /\ ~written => /\ config = remapped(readBlock(config_pointer))
                      /\ Signature(config) = ARDWIINO_DEVICE_TYPE

\* What a configuration means, whatever its version: which way the whammy goes,
\* which axis tilts, what the device is, and the fields its version has.
OldAxis(g) == <<"Z", "Z", "Y", "Y", "X", "X">>[g + 1]
NewAxis(g) == <<"X", "Y", "Z">>[g + 1]
Kind(s) == CASE s = REAL_GUITAR_SUBTYPE -> XINPUT_GUITAR_HERO_GUITAR
             [] s = REAL_DRUM_SUBTYPE -> XINPUT_GUITAR_HERO_DRUMS [] OTHER -> s
Meaning(c) ==
  [kind |-> Kind(c[subType]),
   whammyUp |-> (c[r_x_inverted] = 1) = (isGuitar(Kind(c[subType])) /\ Version(c) < 9),
   axis |-> IF Version(c) < 14 THEN OldAxis(c[orientation]) ELSE NewAxis(c[orientation]),
   rest |-> [f \in {up, pollRate, leds, midi, rfInEnabled, axisScale, debounce, combinedStrum} |->
               IF Version(c) < Since(f) THEN default_config[f] ELSE c[f]]]

\* A configuration of any version keeps its meaning through loadConfig and any
\* number of restarts, so long as no power cut interrupts the save.  A
\* configuration of before version 8 is found only if its first pin is 0, the
\* byte read for the top of the version.
Findable == Version(origin) >= 8 \/ platform = "pico" \/ origin[up] = 0
MeaningPreserved ==
  /\ Idle /\ intact /\ Signature(origin) = ARDWIINO_DEVICE_TYPE /\ Findable
  => Meaning(config) = Meaning(origin)

\* The Pico collects the host's blocks in RAM until the last one: flash never
\* mixes two configurations, wherever the host stops or the power is cut.
NoMixedConfig ==
  platform = "pico" =>
    ~ \E i, j \in {pollRate, leds, midi, axisScale, debounce} : mem[i] = 7 /\ mem[j] = 8

\* A device whose memory holds no valid configuration runs with the default one.
FreshIsDefault ==
  Idle /\ intact /\ origin = ErasedConfig => config = default_config
==============================================================================
