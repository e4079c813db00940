-------------------------- MODULE ConfigStoreProofs ---------------------------
(***************************************************************************)
(* The stored configuration, for every set of versions and subtypes and    *)
(* any number of power cuts, reboots and host writes: a configuration      *)
(* keeps its meaning through the migration, what runs is what is stored,   *)
(* and the Pico's flash never mixes two configurations.                    *)
(***************************************************************************)
EXTENDS ConfigStore, TLAPS

Config == [Fields -> Byte]
Good(c) == Signature(c) = ARDWIINO_DEVICE_TYPE

\* The fields of both implementations whose value only a missing version changes.
Plain == {up, pollRate, leds, midi, rfInEnabled, axisScale, debounce, combinedStrum}
\* The cells of signature and version.
Header == 3..6

------------------------------------------------------------------------------
(***************************************************************************)
(* The migration.                                                          *)
(***************************************************************************)
LEMMA DefaultConfig ==
  /\ default_config \in Config /\ Len(default_config) = 15
  /\ default_config[3] = 21 /\ default_config[4] = 212
  /\ default_config[5] = 15 /\ default_config[6] = 0
  /\ default_config[1] = 15 /\ default_config[10] = 1 /\ default_config[11] = 1
  /\ default_config[2] = 0 /\ default_config[13] = 1 /\ default_config[14] = 1
BY DEF default_config, Config, Fields, Byte, CONFIG_VERSION, XINPUT_GUITAR_HERO_GUITAR

LEMMA VersionNat == ASSUME NEW c \in Config PROVE Version(c) \in Nat
<1>1. c[5] \in 0..255 /\ c[6] \in 0..255
  BY DEF Config, Fields, Byte
<1>2. ASSUME NEW x \in 0..255, NEW y \in 0..255 PROVE x + 256 * y \in Nat
  OBVIOUS
<1>3. QED
  BY <1>1, <1>2 DEF Version, ver0, ver1

LEMMA SinceBounds == \A f : Since(f) \in 0..15
BY DEF Since

LEMMA HostConfigType ==
  /\ HostConfig \in Config
  /\ \A i \in Header : HostConfig[i] = default_config[i]
  /\ \A i \in {pollRate, leds, midi, axisScale, debounce} : HostConfig[i] = 8
BY DefaultConfig DEF HostConfig, Config, Fields, Byte, Header, pollRate, leds, midi, axisScale,
   debounce

LEMMA DefaultedOf ==
  ASSUME NEW c \in Config
  PROVE  /\ defaulted(c) \in Config
         /\ \A f \in {subType, sig0, sig1, ver0, ver1, up, r_x_inverted, orientation} :
              defaulted(c)[f] = c[f]
         /\ Version(defaulted(c)) = Version(c)
         /\ Version(c) >= 15 => defaulted(c) = c
<1>1. defaulted(c) \in Config
  BY DefaultConfig DEF defaulted, Config
<1>2. \A f \in {subType, sig0, sig1, ver0, ver1, up, r_x_inverted, orientation} :
        f \in Fields /\ Since(f) = 0
  BY DEF Fields, Since, subType, sig0, sig1, ver0, ver1, up, r_x_inverted, orientation, midi, leds,
         pollRate, rfInEnabled, axisScale, debounce, combinedStrum
<1>3. \A f \in {subType, sig0, sig1, ver0, ver1, up, r_x_inverted, orientation} :
        defaulted(c)[f] = c[f]
  BY <1>2, VersionNat DEF defaulted
<1>4. Version(defaulted(c)) = Version(c)
  BY <1>3 DEF Version
<1>5. ASSUME Version(c) >= 15 PROVE defaulted(c) = c
  <2>1. \A f \in Fields : ~(Version(c) < Since(f))
    BY <1>5, VersionNat, SinceBounds
  <2>2. QED
    BY <1>1, <2>1 DEF defaulted, Config
<1>6. QED
  BY <1>1, <1>3, <1>4, <1>5

LEMMA RemappedOf ==
  ASSUME NEW c \in Config
  PROVE  /\ remapped(c) \in Config
         /\ \A f \in Fields \ {subType} : remapped(c)[f] = c[f]
         /\ platform = "avr" => remapped(c)[subType] = Kind(c[subType])
         /\ platform = "pico" => remapped(c) = c
         /\ Version(remapped(c)) = Version(c) /\ Signature(remapped(c)) = Signature(c)
BY DEF remapped, Config, Fields, Byte, Kind, subType, Version, Signature, ver0, ver1, sig0, sig1,
       REAL_GUITAR_SUBTYPE, REAL_DRUM_SUBTYPE, XINPUT_GUITAR_HERO_GUITAR, XINPUT_GUITAR_HERO_DRUMS

\* Mapping a subtype again changes nothing.
LEMMA RemappedTwice ==
  ASSUME NEW c \in Config, platform \in {"avr", "pico"},
         platform = "avr" => c[subType] \notin {REAL_GUITAR_SUBTYPE, REAL_DRUM_SUBTYPE}
  PROVE  remapped(c) = c
BY DEF remapped, Config, Fields, subType

LEMMA FlippedOf ==
  ASSUME NEW c \in Config
  PROVE  /\ flipped(c) \in Config
         /\ \A f \in Fields \ {r_x_inverted} : flipped(c)[f] = c[f]
         /\ flipped(c)[r_x_inverted] =
              IF Version(c) < 9 /\ isGuitar(c[subType])
              THEN (IF c[r_x_inverted] = 0 THEN 1 ELSE 0) ELSE c[r_x_inverted]
         /\ Version(flipped(c)) = Version(c)
         /\ Version(c) >= 9 => flipped(c) = c
<1>1. r_x_inverted \in Fields
  BY DEF Fields, r_x_inverted
<1>2. /\ flipped(c) \in Config
      /\ \A f \in Fields \ {r_x_inverted} : flipped(c)[f] = c[f]
      /\ flipped(c)[r_x_inverted] =
              IF Version(c) < 9 /\ isGuitar(c[subType])
              THEN (IF c[r_x_inverted] = 0 THEN 1 ELSE 0) ELSE c[r_x_inverted]
  BY <1>1 DEF flipped, Config, Byte
<1>3. Version(flipped(c)) = Version(c)
  BY <1>2 DEF Version, Fields, ver0, ver1, r_x_inverted
<1>4. Version(c) >= 9 => flipped(c) = c
  BY VersionNat DEF flipped
<1>5. QED
  BY <1>2, <1>3, <1>4

LEMMA ReorientedOf ==
  ASSUME NEW c \in Config
  PROVE  /\ reoriented(c) \in Config
         /\ \A f \in Fields \ {orientation} : reoriented(c)[f] = c[f]
         /\ Version(c) < 14 /\ c[orientation] \in 0..5 =>
              reoriented(c)[orientation] = 2 - c[orientation] \div 2
         /\ Version(c) >= 14 => reoriented(c) = c
<1>1. orientation \in Fields
  BY DEF Fields, orientation
<1>2. c[orientation] \in 0..5 => (2 - c[orientation] \div 2) \in Byte
  BY DEF Byte
<1>3. QED
  BY <1>1, <1>2, VersionNat DEF reoriented, Config

\* What loadConfig makes of a configuration, field by field.
LEMMA MigratedOf ==
  ASSUME NEW c \in Config
  PROVE  /\ migrated(c) \in Config
         /\ \A f \in {sig0, sig1, ver0, ver1} : migrated(c)[f] = c[f]
         /\ \A f \in Plain :
              migrated(c)[f] = IF Version(c) < Since(f) THEN default_config[f] ELSE c[f]
         /\ migrated(c)[subType] = remapped(c)[subType]
         /\ migrated(c)[r_x_inverted] =
              IF Version(c) < 9 /\ isGuitar(remapped(c)[subType])
              THEN (IF c[r_x_inverted] = 0 THEN 1 ELSE 0) ELSE c[r_x_inverted]
         /\ Version(c) < 14 /\ c[orientation] \in 0..5 =>
              migrated(c)[orientation] = 2 - c[orientation] \div 2
         /\ Version(c) >= 14 => migrated(c)[orientation] = c[orientation]
         /\ Version(c) >= 15 => migrated(c) = remapped(c)
<1> DEFINE d == defaulted(c) r == remapped(d) f1 == flipped(r)
<1>1. /\ d \in Config /\ Version(d) = Version(c) /\ (Version(c) >= 15 => d = c)
      /\ \A f \in {subType, sig0, sig1, ver0, ver1, up, r_x_inverted, orientation} : d[f] = c[f]
  BY DefaultedOf
<1>2. /\ r \in Config /\ Version(r) = Version(c)
      /\ \A f \in Fields \ {subType} : r[f] = d[f]
  BY <1>1, RemappedOf
<1>3. /\ f1 \in Config /\ Version(f1) = Version(c) /\ (Version(c) >= 9 => f1 = r)
      /\ \A f \in Fields \ {r_x_inverted} : f1[f] = r[f]
      /\ f1[r_x_inverted] = IF Version(c) < 9 /\ isGuitar(r[subType])
                            THEN (IF r[r_x_inverted] = 0 THEN 1 ELSE 0) ELSE r[r_x_inverted]
  BY <1>2, FlippedOf
<1>4. /\ migrated(c) \in Config
      /\ \A f \in Fields \ {orientation} : migrated(c)[f] = f1[f]
      /\ Version(c) < 14 /\ f1[orientation] \in 0..5 =>
           migrated(c)[orientation] = 2 - f1[orientation] \div 2
      /\ Version(c) >= 14 => migrated(c) = f1
  BY <1>3, ReorientedOf DEF migrated
<1>5. r[subType] = remapped(c)[subType]
  BY <1>1, RemappedOf DEF remapped, Config, Fields, subType
<1>6. \A f \in Plain : d[f] = IF Version(c) < Since(f) THEN default_config[f] ELSE c[f]
  BY DEF defaulted, Plain, Fields, up, pollRate, leds, midi, rfInEnabled, axisScale, debounce,
         combinedStrum
<1>7. /\ \A f \in Plain \cup {sig0, sig1, ver0, ver1} : f \in Fields \ {subType, r_x_inverted, orientation}
      /\ subType \in Fields \ {r_x_inverted, orientation}
      /\ r_x_inverted \in Fields \ {subType, orientation}
      /\ orientation \in Fields \ {subType, r_x_inverted}
  BY DEF Plain, Fields, up, pollRate, leds, midi, rfInEnabled, axisScale, debounce,
         combinedStrum, sig0, sig1, ver0, ver1, subType, r_x_inverted, orientation
<1> HIDE DEF d, r, f1
<1>8. \A f \in Plain \cup {sig0, sig1, ver0, ver1} : migrated(c)[f] = d[f]
  BY <1>2, <1>3, <1>4, <1>7
<1>9. migrated(c)[subType] = remapped(c)[subType]
  BY <1>3, <1>4, <1>5, <1>7
<1>10. migrated(c)[r_x_inverted] =
         IF Version(c) < 9 /\ isGuitar(remapped(c)[subType])
         THEN (IF c[r_x_inverted] = 0 THEN 1 ELSE 0) ELSE c[r_x_inverted]
  BY <1>1, <1>2, <1>3, <1>4, <1>5, <1>7
<1>11. f1[orientation] = c[orientation]
  BY <1>1, <1>2, <1>3, <1>7
<1>12. Version(c) >= 15 => migrated(c) = remapped(c)
  BY <1>1, <1>3, <1>4, VersionNat DEF r
<1>13. QED
  BY <1>1, <1>4, <1>6, <1>8, <1>9, <1>10, <1>11, <1>12

LEMMA StampedOf ==
  ASSUME NEW c \in Config
  PROVE  /\ stamped(c) \in Config
         /\ \A f \in Fields \ {ver0, ver1} : stamped(c)[f] = c[f]
         /\ Version(stamped(c)) = CONFIG_VERSION
         /\ stamped(c)[5] = 15 /\ stamped(c)[6] = 0
<1>1. ver0 \in Fields /\ ver1 \in Fields /\ ver0 # ver1 /\ CONFIG_VERSION \in Byte /\ 0 \in Byte
  BY DEF ver0, ver1, Fields, Byte, CONFIG_VERSION
<1>2. /\ stamped(c) \in Config
      /\ \A f \in Fields \ {ver0, ver1} : stamped(c)[f] = c[f]
      /\ stamped(c)[ver0] = CONFIG_VERSION /\ stamped(c)[ver1] = 0
  BY <1>1 DEF stamped, Config
<1>3. QED
  BY <1>2 DEF Version, CONFIG_VERSION, ver0, ver1

\* The two values GyroOrientationOld had for an axis become the one it has now.
LEMMA SameAxis == ASSUME NEW g \in 0..5 PROVE NewAxis(2 - g \div 2) = OldAxis(g)
<1>1. /\ 2 - 0 \div 2 = 2 /\ 2 - 1 \div 2 = 2 /\ 2 - 2 \div 2 = 1
      /\ 2 - 3 \div 2 = 1 /\ 2 - 4 \div 2 = 0 /\ 2 - 5 \div 2 = 0
  OBVIOUS
<1>2. NewAxis(0) = "X" /\ NewAxis(1) = "Y" /\ NewAxis(2) = "Z"
  BY DEF NewAxis
<1>3. /\ OldAxis(0) = "Z" /\ OldAxis(1) = "Z" /\ OldAxis(2) = "Y"
      /\ OldAxis(3) = "Y" /\ OldAxis(4) = "X" /\ OldAxis(5) = "X"
  BY DEF OldAxis
<1>4. g \in {0, 1, 2, 3, 4, 5}
  OBVIOUS
<1>5. QED
  BY <1>1, <1>2, <1>3, <1>4

\* A migrated configuration means what the old one meant, whatever its version.
LEMMA MigrationMeaning ==
  ASSUME NEW c \in Config, platform \in {"avr", "pico"},
         c[r_x_inverted] \in {0, 1},
         c[orientation] \in IF Version(c) < 14 THEN 0..5 ELSE 0..2,
         platform = "pico" => c[subType] \notin {REAL_GUITAR_SUBTYPE, REAL_DRUM_SUBTYPE}
  PROVE  Meaning(stamped(migrated(c))) = Meaning(c)
<1> DEFINE m == migrated(c) n == stamped(m)
<1>1. m \in Config /\ Version(c) \in Nat
  BY MigratedOf, VersionNat
<1>2. /\ n \in Config /\ Version(n) = 15
      /\ \A f \in Fields \ {ver0, ver1} : n[f] = m[f]
  BY <1>1, StampedOf DEF CONFIG_VERSION
<1>3. /\ \A f \in Plain : f \in Fields \ {ver0, ver1}
      /\ subType \in Fields \ {ver0, ver1} /\ r_x_inverted \in Fields \ {ver0, ver1}
      /\ orientation \in Fields \ {ver0, ver1}
  BY DEF Plain, Fields, up, pollRate, leds, midi, rfInEnabled, axisScale, debounce,
         combinedStrum, ver0, ver1, subType, r_x_inverted, orientation
<1>4. n[subType] = Kind(c[subType]) /\ remapped(c)[subType] = Kind(c[subType])
  <2>1. n[subType] = remapped(c)[subType]
    BY <1>2, <1>3, MigratedOf
  <2>2. remapped(c)[subType] = Kind(c[subType])
    BY RemappedOf DEF Kind
  <2>3. QED
    BY <2>1, <2>2
<1>5. Kind(n[subType]) = Kind(c[subType])
  BY <1>4 DEF Kind, REAL_GUITAR_SUBTYPE, REAL_DRUM_SUBTYPE, XINPUT_GUITAR_HERO_GUITAR,
              XINPUT_GUITAR_HERO_DRUMS
<1>6. ((n[r_x_inverted] = 1) = (isGuitar(Kind(n[subType])) /\ Version(n) < 9))
      = ((c[r_x_inverted] = 1) = (isGuitar(Kind(c[subType])) /\ Version(c) < 9))
  <2>1. n[r_x_inverted] = IF Version(c) < 9 /\ isGuitar(Kind(c[subType]))
                          THEN (IF c[r_x_inverted] = 0 THEN 1 ELSE 0) ELSE c[r_x_inverted]
    BY <1>2, <1>3, <1>4, MigratedOf
  <2>2. ~(Version(n) < 9)
    BY <1>2
  <2>3. isGuitar(Kind(c[subType])) \in BOOLEAN
    BY DEF isGuitar
  <2>4. QED
    BY <2>1, <2>2, <2>3
<1>7. (IF Version(n) < 14 THEN OldAxis(n[orientation]) ELSE NewAxis(n[orientation]))
      = (IF Version(c) < 14 THEN OldAxis(c[orientation]) ELSE NewAxis(c[orientation]))
  <2>1. CASE Version(c) < 14
    <3>1. c[orientation] \in 0..5
      BY <2>1
    <3>2. n[orientation] = 2 - c[orientation] \div 2
      BY <1>2, <1>3, <2>1, <3>1, MigratedOf
    <3>3. NewAxis(2 - c[orientation] \div 2) = OldAxis(c[orientation])
      BY <3>1, SameAxis
    <3>4. QED
      BY <1>2, <2>1, <3>2, <3>3
  <2>2. CASE ~(Version(c) < 14)
    BY <1>1, <1>2, <1>3, <2>2, MigratedOf
  <2>3. QED
    BY <2>1, <2>2
<1>8. \A f \in Plain : (IF Version(n) < Since(f) THEN default_config[f] ELSE n[f])
                     = (IF Version(c) < Since(f) THEN default_config[f] ELSE c[f])
  BY <1>2, <1>3, MigratedOf, SinceBounds
<1> HIDE DEF m, n
<1>9. Meaning(n) = Meaning(c)
  BY <1>5, <1>6, <1>7, <1>8 DEF Meaning, Plain
<1>10. QED
  BY <1>9 DEF m, n

\* The mapping of the subtypes keeps the meaning too.
LEMMA RemappedMeaning ==
  ASSUME NEW c \in Config, Version(c) >= CONFIG_VERSION, platform \in {"avr", "pico"}
  PROVE  Meaning(remapped(c)) = Meaning(c)
<1>1. CASE platform = "pico"
  BY <1>1, RemappedOf
<1>2. CASE platform = "avr"
  <2> DEFINE n == remapped(c)
  <2>1. /\ \A f \in Plain : n[f] = c[f]
        /\ n[r_x_inverted] = c[r_x_inverted] /\ n[orientation] = c[orientation]
        /\ n[subType] = Kind(c[subType]) /\ Version(n) = Version(c)
    BY <1>2, RemappedOf
    DEF Plain, Fields, up, pollRate, leds, midi, rfInEnabled, axisScale, debounce,
        combinedStrum, subType, r_x_inverted, orientation
  <2>2. Kind(n[subType]) = Kind(c[subType])
    BY <2>1 DEF Kind, REAL_GUITAR_SUBTYPE, REAL_DRUM_SUBTYPE, XINPUT_GUITAR_HERO_GUITAR,
                XINPUT_GUITAR_HERO_DRUMS
  <2> HIDE DEF n
  <2>3. Meaning(n) = Meaning(c)
    BY <2>1, <2>2 DEF Meaning, Plain
  <2>4. QED
    BY <2>3 DEF n
<1>3. QED
  BY <1>1, <1>2

------------------------------------------------------------------------------
(***************************************************************************)
(* What loadConfig finds.                                                  *)
(***************************************************************************)
Users == {pollRate, leds, midi, axisScale, debounce}
\* No mixture of the user's first configuration and the host's.
Clean(c) == \A i, j \in Users : ~(c[i] = 7 /\ c[j] = 8)

\* The migration mixes nothing.
LEMMA MigrationClean ==
  ASSUME NEW c \in Config, Clean(c) PROVE Clean(stamped(migrated(c)))
<1>1. migrated(c) \in Config
  BY MigratedOf
<1>2. \A f \in Users : f \in Plain /\ f \in Fields \ {ver0, ver1} /\ default_config[f] \in {0, 1}
  BY DefaultConfig
  DEF Users, Plain, Fields, ver0, ver1, pollRate, leds, midi, axisScale, debounce
<1>3. \A f \in Users : stamped(migrated(c))[f] \in {0, 1, c[f]}
  BY <1>1, <1>2, MigratedOf, StampedOf
<1>4. QED
  BY <1>3 DEF Clean

LEMMA CheckedOf ==
  ASSUME NEW c \in Config
  PROVE  /\ signatureChecked(c) \in Config /\ Good(signatureChecked(c))
         /\ Good(c) => signatureChecked(c) = c
         /\ Version(signatureChecked(c)) >= 15 => Good(c)
         /\ Clean(c) => Clean(signatureChecked(c))
<1>1. CASE Good(c)
  BY <1>1 DEF Good, signatureChecked
<1>2. CASE ~Good(c)
  <2> DEFINE d == [default_config EXCEPT ![ver0] = 0]
  <2>1. /\ d \in Config /\ d[5] = 0 /\ \A f \in Fields \ {5} : d[f] = default_config[f]
    BY DefaultConfig DEF Config, Fields, Byte, ver0
  <2>2. signatureChecked(c) = d
    BY <1>2 DEF Good, signatureChecked
  <2> HIDE DEF d
  <2>3. Good(d)
    BY <2>1, DefaultConfig DEF Good, Signature, ARDWIINO_DEVICE_TYPE, sig0, sig1, Fields
  <2>4. Version(d) = 0
    BY <2>1, DefaultConfig DEF Version, ver0, ver1, Fields
  <2>5. Clean(d)
    BY <2>1, DefaultConfig DEF Clean, Users, Fields, pollRate, leds, midi, axisScale, debounce
  <2>6. QED
    BY <1>2, <2>1, <2>2, <2>3, <2>4, <2>5
<1>3. QED
  BY <1>1, <1>2

LEMMA BlockOf ==
  ASSUME mem \in [0..15 -> Byte]
  PROVE  /\ readBlock(config_pointer) \in Config /\ readBlock(test) \in Config /\ found \in Config
         /\ \A i \in Fields : readBlock(config_pointer)[i] = mem[i]
         /\ \A i \in Fields : readBlock(test)[i] = mem[i - 1]
<1>1. \A i \in Fields : i - 1 \in 0..15 /\ i \in 0..15 /\ 1 + i - 1 = i /\ 0 + i - 1 = i - 1
  BY DEF Fields
<1>2. /\ readBlock(config_pointer) = [i \in Fields |-> mem[i]]
      /\ readBlock(test) = [i \in Fields |-> mem[i - 1]]
  BY <1>1 DEF readBlock, config_pointer, test
<1>3. QED
  BY <1>1, <1>2 DEF Config, found

(***************************************************************************)
(* The AVR takes what lies one cell lower for a configuration only if it   *)
(* is an old one: its last signature byte is overwritten before, or its    *)
(* version after, anything that would make its version look current.       *)
(***************************************************************************)
OldOrWritten(m) == m[3] = 212 => m[5] = 15 \/ (m[5] = 0 /\ m[4] < 8)
HeaderInv == platform = "avr" => OldOrWritten(mem)

LEMMA FoundCurrent ==
  ASSUME mem \in [0..15 -> Byte], HeaderInv, Good(found), Version(found) >= CONFIG_VERSION
  PROVE  found = readBlock(config_pointer)
<1> SUFFICES ASSUME platform = "avr", Version(readBlock(config_pointer)) < 8 PROVE FALSE
  BY DEF found
<1>1. found = readBlock(test)
  BY DEF found
<1>2. mem[3] \in 0..255 /\ mem[4] \in 0..255 /\ mem[5] \in 0..255 /\ mem[6] \in 0..255
  BY DEF Byte
<1>3. mem[3] = 212
  BY <1>1, BlockOf DEF Good, Signature, ARDWIINO_DEVICE_TYPE, sig0, sig1, Fields
<1>4. mem[4] + 256 * mem[5] >= 15
  BY <1>1, BlockOf DEF Version, ver0, ver1, Fields, CONFIG_VERSION
<1>5. mem[5] + 256 * mem[6] < 8
  BY BlockOf DEF Version, ver0, ver1, Fields
<1>6. ASSUME NEW x \in 0..255, NEW y \in 0..255, NEW z \in 0..255,
             x + 256 * y >= 15, y + 256 * z < 8, y = 15 \/ (y = 0 /\ x < 8)
      PROVE  FALSE
  BY <1>6
<1>7. QED
  BY <1>2, <1>3, <1>4, <1>5, <1>6 DEF HeaderInv, OldOrWritten

(***************************************************************************)
(* The configuration that was there at first.                              *)
(***************************************************************************)
OriginInv ==
  /\ origin \in Config
  /\ Good(origin) =>
       /\ origin[r_x_inverted] \in {0, 1} /\ origin[ver1] = 0
       /\ origin[orientation] \in IF Version(origin) < 14 THEN 0..5 ELSE 0..2
       /\ platform = "pico" => origin[subType] \notin {REAL_GUITAR_SUBTYPE, REAL_DRUM_SUBTYPE}
Traceable == Good(origin) /\ Findable
Start == mem = [c \in 0..15 |-> IF c - Base + 1 \in Fields THEN origin[c - Base + 1] ELSE Erased]

LEMMA FoundOrigin ==
  ASSUME platform \in {"avr", "pico"}, mem \in [0..15 -> Byte], OriginInv, Traceable, Start
  PROVE  found = origin
<1>1. Version(origin) \in Nat
  BY VersionNat DEF OriginInv
<1>2. CASE Base = 1
  <2>1. \A i \in Fields : mem[i] = origin[i]
    <3>1. \A i \in Fields : i \in 0..15 /\ i - 1 + 1 = i
      BY DEF Fields
    <3>2. QED
      BY <1>2, <3>1 DEF Start
  <2>2. readBlock(config_pointer) = origin
    BY <2>1, BlockOf DEF OriginInv, Config
  <2>3. ~(platform = "avr" /\ Version(origin) < 8)
    BY <1>2 DEF Base, test, config_pointer
  <2>4. QED
    BY <2>2, <2>3 DEF found
<1>3. CASE Base = 0
  <2>1. platform = "avr" /\ Version(origin) < 8
    BY <1>3 DEF Base, test, config_pointer
  <2>2. \A i \in Fields : mem[i - 1] = origin[i]
    <3>1. \A i \in Fields : i - 1 \in 0..15 /\ (i - 1) - 0 + 1 = i
      BY DEF Fields
    <3>2. QED
      BY <1>3, <3>1 DEF Start
  <2>3. readBlock(test) = origin
    BY <2>2, BlockOf DEF OriginInv, Config
  <2>4. mem[5] = 0 /\ mem[6] = 0
    <3>1. mem[5] = origin[6] /\ mem[6] = origin[7]
      <4>1. 6 \in Fields /\ 7 \in Fields /\ 6 - 1 = 5 /\ 7 - 1 = 6
        BY DEF Fields
      <4>2. QED
        BY <2>2, <4>1
    <3>2. QED
      BY <1>1, <2>1, <3>1 DEF OriginInv, Traceable, Findable, ver1, up
  <2>5. Version(readBlock(config_pointer)) < 8
    BY <2>4, BlockOf DEF Version, ver0, ver1, Fields
  <2>6. QED
    BY <2>1, <2>3, <2>5 DEF found
<1>4. QED
  BY <1>2, <1>3 DEF Base, test, config_pointer

------------------------------------------------------------------------------
(***************************************************************************)
(* Saving.  c is what the memory m will hold when the pieces in t have     *)
(* been written: on the AVR cell by cell, those from a to b to go; on the  *)
(* Pico the erased sector and two pages.                                   *)
(***************************************************************************)
Piece == UNION {[D -> Byte] : D \in SUBSET Fields}
Cell(c, i) == [cell \in {i} |-> c[i]]
At(ord, a, b, k) == IF ord = "up" THEN a + k - 1 ELSE b - k + 1

AvrSaves(ord, t, m, c, a, b) ==
  /\ Len(t) = b - a + 1
  /\ \A k \in 1..Len(t) : t[k] = Cell(c, At(ord, a, b, k))
  /\ \A i \in Fields \ (a..b) : m[i] = c[i]
  /\ \A i \in Header \cap (a..b) : c[i] = default_config[i]
  /\ ord = "up" /\ a \in 4..8 => m[3] = 21
  /\ ord = "down" /\ b \in 1..4 => m[5] = 15

PageOf(c, n) == [i \in Page(n) |-> c[i]]
PicoSaves(t, m, c) ==
  /\ Clean(c)
  /\ \/ t = <<ErasedConfig, PageOf(c, 0), PageOf(c, 1)>>
     \/ t = <<PageOf(c, 0), PageOf(c, 1)>> /\ \A i \in Fields : m[i] = Erased
     \/ t = <<PageOf(c, 1)>> /\ \A i \in Fields : m[i] = IF i \in Page(0) THEN c[i] ELSE Erased
     \/ t = <<>> /\ \A i \in Fields : m[i] = c[i]

After(t, m) == [c \in DOMAIN m |-> IF c \in DOMAIN Head(t) THEN Head(t)[c] ELSE m[c]]

\* An element of a sequence is one of its set's members.
LEMMA ElementOf ==
  ASSUME NEW S, NEW s \in Seq(S), NEW i \in 1..Len(s) PROVE s[i] \in S
OBVIOUS

LEMMA PieceOf ==
  ASSUME NEW p \in Piece
  PROVE  DOMAIN p \subseteq Fields /\ \A i \in DOMAIN p : p[i] \in Byte
BY DEF Piece

LEMMA PiecesOf ==
  ASSUME NEW c \in Config
  PROVE  /\ \A i \in Fields : Cell(c, i) \in Piece
         /\ PageOf(c, 0) \in Piece /\ PageOf(c, 1) \in Piece /\ ErasedConfig \in Piece
<1>1. ASSUME NEW i \in Fields PROVE Cell(c, i) \in Piece
  <2>1. Cell(c, i) \in [{i} -> Byte] /\ {i} \in SUBSET Fields
    BY DEF Cell, Config
  <2>2. QED
    BY <2>1 DEF Piece
<1>2. ASSUME NEW n PROVE PageOf(c, n) \in Piece
  <2>1. Page(n) \in SUBSET Fields
    BY DEF Page, Fields
  <2>2. PageOf(c, n) \in [Page(n) -> Byte]
    BY <2>1 DEF PageOf, Config
  <2>3. QED
    BY <2>1, <2>2 DEF Piece
<1>3. ErasedConfig \in Piece
  <2>1. ErasedConfig \in [Fields -> Byte] /\ Fields \in SUBSET Fields
    BY DEF ErasedConfig, Erased, Byte
  <2>2. QED
    BY <2>1 DEF Piece
<1>4. QED
  BY <1>1, <1>2, <1>3

LEMMA AfterType ==
  ASSUME NEW t \in Seq(Piece), t # <<>>, NEW m \in [0..15 -> Byte]
  PROVE  After(t, m) \in [0..15 -> Byte] /\ Tail(t) \in Seq(Piece)
<1>1. Head(t) \in Piece /\ Tail(t) \in Seq(Piece)
  OBVIOUS
<1>2. QED
  BY <1>1, PieceOf DEF After

LEMMA UpdateBlockOf ==
  ASSUME order \in {"up", "down"}, NEW c \in Config, NEW a \in Fields, NEW b \in Fields, a <= b
  PROVE  /\ updateBlock(c, a, b) \in Seq(Piece) /\ Len(updateBlock(c, a, b)) = b - a + 1
         /\ \A k \in 1..(b - a + 1) : updateBlock(c, a, b)[k] = Cell(c, At(order, a, b, k))
<1>1. a \in 1..15 /\ b \in 1..15
  BY DEF Fields
<1>2. \A k \in 1..(b - a + 1) : At(order, a, b, k) \in Fields
  BY <1>1 DEF At, Fields
<1>3. updateBlock(c, a, b) = [k \in 1..(b - a + 1) |-> Cell(c, At(order, a, b, k))]
  BY DEF updateBlock, Cell, At
<1>4. \A k \in 1..(b - a + 1) : Cell(c, At(order, a, b, k)) \in Piece
  BY <1>2, PiecesOf
<1>5. b - a + 1 \in Nat
  BY <1>1
<1>6. ASSUME NEW n \in Nat, NEW f, f = [k \in 1..n |-> f[k]], \A k \in 1..n : f[k] \in Piece
      PROVE  f \in Seq(Piece) /\ Len(f) = n
  BY <1>6
<1>7. QED
  BY <1>3, <1>4, <1>5, <1>6

\* A byte of EEPROM is written.
LEMMA AvrSave ==
  ASSUME NEW ord \in {"up", "down"}, NEW t \in Seq(Piece), t # <<>>, NEW m \in [0..15 -> Byte],
         NEW c \in Config, NEW a \in 1..16, NEW b \in 0..15, AvrSaves(ord, t, m, c, a, b),
         OldOrWritten(m)
  PROVE  /\ \E x \in 1..16, y \in 0..15 : AvrSaves(ord, Tail(t), After(t, m), c, x, y)
         /\ OldOrWritten(After(t, m))
<1> DEFINE w == IF ord = "up" THEN a ELSE b
           a1 == IF ord = "up" THEN a + 1 ELSE a
           b1 == IF ord = "up" THEN b ELSE b - 1
<1>1. Len(t) \in Nat /\ Len(t) # 0 /\ 1 \in 1..Len(t)
  OBVIOUS
<1>2. Len(t) = b - a + 1 /\ a <= b /\ a \in 1..15 /\ b \in 1..15
  BY <1>1 DEF AvrSaves
<1>3. w \in a..b /\ w \in Fields /\ w \in 1..15
  BY <1>2 DEF Fields
<1>4. Head(t) = Cell(c, w)
  <2>1. Head(t) = t[1] /\ t[1] = Cell(c, At(ord, a, b, 1))
    BY <1>1 DEF AvrSaves
  <2>2. At(ord, a, b, 1) = w
    BY <1>2 DEF At
  <2>3. QED
    BY <2>1, <2>2
<1>5. /\ After(t, m)[w] = c[w]
      /\ \A i \in (0..15) \ {w} : After(t, m)[i] = m[i]
  BY <1>3, <1>4 DEF After, Cell
<1>6. /\ Tail(t) \in Seq(Piece) /\ Len(Tail(t)) = Len(t) - 1
      /\ \A k \in 1..(Len(t) - 1) : Tail(t)[k] = t[k + 1]
  BY <1>1
<1>7. a1 \in 1..16 /\ b1 \in 0..15 /\ Len(Tail(t)) = b1 - a1 + 1
  BY <1>2, <1>6
<1>8. \A k \in 1..Len(Tail(t)) : Tail(t)[k] = Cell(c, At(ord, a1, b1, k))
  <2> SUFFICES ASSUME NEW k \in 1..Len(Tail(t)) PROVE Tail(t)[k] = Cell(c, At(ord, a1, b1, k))
    OBVIOUS
  <2>1. k \in 1..(Len(t) - 1) /\ k + 1 \in 1..Len(t)
    BY <1>1, <1>6
  <2>2. Tail(t)[k] = Cell(c, At(ord, a, b, k + 1))
    BY <1>6, <2>1 DEF AvrSaves
  <2>3. At(ord, a, b, k + 1) = At(ord, a1, b1, k)
    BY <1>2, <2>1 DEF At
  <2>4. QED
    BY <2>2, <2>3
<1>9. a1..b1 = (a..b) \ {w}
  <2>1. ASSUME NEW x \in 1..15, NEW y \in 1..15
        PROVE  (x + 1)..y = (x..y) \ {x} /\ x..(y - 1) = (x..y) \ {y}
    <3>1. \A i \in Int : i \in (x + 1)..y <=> i \in x..y /\ i # x
      OBVIOUS
    <3>2. \A i \in Int : i \in x..(y - 1) <=> i \in x..y /\ i # y
      OBVIOUS
    <3>3. x..y \subseteq Int /\ (x + 1)..y \subseteq Int /\ x..(y - 1) \subseteq Int
      OBVIOUS
    <3>4. ASSUME NEW A, NEW B, NEW e, A \subseteq Int, B \subseteq Int,
                 \A i \in Int : i \in A <=> i \in B /\ i # e
          PROVE  A = B \ {e}
      BY <3>4
    <3>5. (x + 1)..y = (x..y) \ {x}
      BY <3>1, <3>3, <3>4, Zenon
    <3>6. x..(y - 1) = (x..y) \ {y}
      BY <3>2, <3>3, <3>4, Zenon
    <3>7. QED
      BY <3>5, <3>6
  <2>2. QED
    BY <1>2, <2>1
<1>10. \A i \in Fields : i \in 0..15
  BY DEF Fields
<1> HIDE DEF w
<1>11. \A i \in Fields \ (a1..b1) : After(t, m)[i] = c[i]
  BY <1>3, <1>5, <1>9, <1>10 DEF AvrSaves
<1>12. \A i \in Header \cap (a1..b1) : c[i] = default_config[i]
  BY <1>9 DEF AvrSaves
<1>13. w \in Header => c[w] = default_config[w]
  BY <1>3 DEF AvrSaves
<1>14. ord = "up" /\ a1 \in 4..8 => After(t, m)[3] = 21
  BY <1>2, <1>5, <1>13, DefaultConfig DEF AvrSaves, w, Header
<1>15. ord = "down" /\ b1 \in 1..4 => After(t, m)[5] = 15
  BY <1>2, <1>5, <1>13, DefaultConfig DEF AvrSaves, w, Header
<1>16. AvrSaves(ord, Tail(t), After(t, m), c, a1, b1)
  BY <1>7, <1>8, <1>11, <1>12, <1>14, <1>15 DEF AvrSaves
<1>17. OldOrWritten(After(t, m))
  <2>1. CASE w = 3
    BY <1>5, <1>13, <2>1, DefaultConfig DEF Header, OldOrWritten
  <2>2. CASE w = 5
    BY <1>5, <1>13, <2>2, DefaultConfig DEF Header, OldOrWritten
  <2>3. CASE w = 4
    BY <1>5, <2>3 DEF AvrSaves, w, OldOrWritten
  <2>4. CASE w \notin {3, 4, 5}
    BY <1>5, <2>4 DEF OldOrWritten
  <2>5. QED
    BY <2>1, <2>2, <2>3, <2>4
<1>18. QED
  BY <1>7, <1>16, <1>17

LEMMA CleanFrom ==
  ASSUME NEW c, Clean(c), NEW n, \A i \in Users : n[i] = c[i] \/ n[i] = 255 PROVE Clean(n)
<1> SUFFICES ASSUME NEW i \in Users, NEW j \in Users, n[i] = 7, n[j] = 8 PROVE FALSE
  BY DEF Clean
<1>1. c[i] = 7 /\ c[j] = 8
  OBVIOUS
<1>2. QED
  BY <1>1 DEF Clean

\* The sector is erased or a page of flash is written.
LEMMA PicoSave ==
  ASSUME NEW t \in Seq(Piece), t # <<>>, NEW m \in [0..15 -> Byte], NEW c \in Config,
         PicoSaves(t, m, c)
  PROVE  PicoSaves(Tail(t), After(t, m), c) /\ Clean(After(t, m))
<1>0. /\ Page(0) = 1..12 /\ Page(1) = 13..15 /\ Fields = 1..15 /\ Clean(c)
      /\ \A i \in Fields : i \in 0..15 /\ (i \in Page(0) \/ i \in Page(1))
      /\ \A i \in Page(0) : i \notin Page(1)
  BY DEF Page, Fields, PicoSaves
<1>1. \A i \in Users : i \in Fields
  BY DEF Users, Fields, pollRate, leds, midi, axisScale, debounce
<1>2. CASE t = <<ErasedConfig, PageOf(c, 0), PageOf(c, 1)>>
  <2>1. Head(t) = ErasedConfig /\ Tail(t) = <<PageOf(c, 0), PageOf(c, 1)>>
    BY <1>2
  <2>2. \A i \in Fields : After(t, m)[i] = Erased
    BY <1>0, <2>1 DEF After, ErasedConfig
  <2>3. QED
    BY <1>0, <1>1, <2>1, <2>2 DEF PicoSaves, Clean, Erased
<1>3. CASE t = <<PageOf(c, 0), PageOf(c, 1)>> /\ \A i \in Fields : m[i] = Erased
  <2>1. Head(t) = PageOf(c, 0) /\ Tail(t) = <<PageOf(c, 1)>>
    BY <1>3
  <2>2. \A i \in Fields : After(t, m)[i] = IF i \in Page(0) THEN c[i] ELSE Erased
    BY <1>0, <1>3, <2>1 DEF After, PageOf
  <2>3. Clean(After(t, m))
    <3>1. \A i \in Users : After(t, m)[i] = c[i] \/ After(t, m)[i] = 255
      BY <1>1, <2>2 DEF Erased
    <3>2. QED
      BY <1>0, <3>1, CleanFrom
  <2>4. QED
    BY <1>0, <2>1, <2>2, <2>3 DEF PicoSaves
<1>4. CASE t = <<PageOf(c, 1)>> /\ \A i \in Fields : m[i] = IF i \in Page(0) THEN c[i] ELSE Erased
  <2>1. Head(t) = PageOf(c, 1) /\ Tail(t) = <<>>
    BY <1>4
  <2>2. \A i \in Fields : After(t, m)[i] = c[i]
    BY <1>0, <1>4, <2>1 DEF After, PageOf
  <2>3. Clean(After(t, m))
    BY <1>0, <1>1, <2>2, CleanFrom
  <2>4. QED
    BY <1>0, <2>1, <2>2, <2>3 DEF PicoSaves
<1>5. QED
  BY <1>2, <1>3, <1>4 DEF PicoSaves

------------------------------------------------------------------------------
(***************************************************************************)
(* The inductive invariant.                                                *)
(***************************************************************************)
TypeInv ==
  /\ platform \in {"avr", "pico"} /\ order \in {"up", "down"}
  /\ mem \in [0..15 -> Byte] /\ on \in BOOLEAN
  /\ config \in Config /\ newConfig \in Config /\ todo \in Seq(Piece)
  /\ half \in BOOLEAN /\ intact \in BOOLEAN /\ written \in BOOLEAN
  /\ cuts \in 0..MaxCuts /\ writes \in 0..MaxWrites

\* A configuration whose loading was not interrupted is stored with its meaning.
Kept ==
  /\ Good(readBlock(config_pointer)) /\ Version(readBlock(config_pointer)) >= CONFIG_VERSION
  /\ Meaning(readBlock(config_pointer)) = Meaning(origin)

\* What the memory is becoming is what runs, and means what the first one meant.
Becomes(c) ==
  /\ platform = "avr" => \E a \in 1..16, b \in 0..15 : AvrSaves(order, todo, mem, c, a, b)
  /\ platform = "pico" => PicoSaves(todo, mem, c)
  /\ on /\ ~written => config = remapped(c) /\ Good(c)
  /\ on /\ intact /\ Traceable =>
       Version(c) >= CONFIG_VERSION /\ Meaning(config) = Meaning(origin)
Target == \E c \in Config : Becomes(c)

Orderly ==
  /\ ~on => todo = <<>> /\ ~half
  /\ intact => ~written
  /\ ~on /\ intact /\ Traceable => Start \/ Kept
Unmixed == platform = "pico" => Clean(mem) /\ (half => newConfig[pollRate] = 8)

StoreInv == TypeInv /\ OriginInv /\ Orderly /\ Unmixed /\ HeaderInv /\ Target

\* With nothing left to write, the memory holds what it became.
LEMMA RestSaves ==
  ASSUME NEW ord, NEW m, NEW c, \A i \in Fields : m[i] = c[i]
  PROVE  AvrSaves(ord, <<>>, m, c, 1, 0) /\ (Clean(c) => PicoSaves(<<>>, m, c))
BY DEF AvrSaves, PicoSaves

LEMMA RestHolds ==
  ASSUME TypeInv, todo = <<>>, NEW c \in Config, Becomes(c)
  PROVE  readBlock(config_pointer) = c /\ (\A i \in Fields : mem[i] = c[i])
<1>1. \A i \in Fields : mem[i] = c[i]
  <2>1. CASE platform = "avr"
    <3>1. PICK a \in 1..16, b \in 0..15 : AvrSaves(order, todo, mem, c, a, b)
      BY <2>1 DEF Becomes
    <3>2. b - a + 1 = 0 /\ \A i \in Fields \ (a..b) : mem[i] = c[i]
      BY <3>1 DEF AvrSaves
    <3>3. \A i \in Fields : i \notin a..b
      BY <3>2
    <3>4. QED
      BY <3>2, <3>3
  <2>2. CASE platform = "pico"
    BY <2>2 DEF Becomes, PicoSaves
  <2>3. QED
    BY <2>1, <2>2 DEF TypeInv
<1>2. readBlock(config_pointer) = c
  BY <1>1, BlockOf DEF TypeInv, Config
<1>3. QED
  BY <1>1, <1>2

\* The platform and what was there at first never change, nor what depends on them.
LEMMA SameWorld ==
  ASSUME UNCHANGED <<platform, origin>>
  PROVE  /\ OriginInv => OriginInv'
         /\ Traceable' <=> Traceable
BY DEF OriginInv, Traceable, Findable

LEMMA SameRemapped ==
  ASSUME UNCHANGED platform, NEW c PROVE remapped(c)' = remapped(c)
BY DEF remapped

LEMMA SameMeaning ==
  ASSUME UNCHANGED <<platform, origin>>, Meaning(config') = Meaning(origin)
  PROVE  (Meaning(config) = Meaning(origin))'
BY DEF Meaning, Since

\* The step of every action, from what the memory becomes by it.
LEMMA Becoming ==
  ASSUME UNCHANGED <<platform, order, origin>>, NEW c \in Config,
         platform = "avr" => \E a \in 1..16, b \in 0..15 : AvrSaves(order, todo', mem', c, a, b),
         platform = "pico" => PicoSaves(todo', mem', c),
         on' /\ ~written' => config' = remapped(c) /\ Good(c),
         on' /\ intact' /\ Traceable =>
           Version(c) >= CONFIG_VERSION /\ Meaning(config') = Meaning(origin)
  PROVE  Target'
<1>1. on' /\ ~written' => config' = remapped(c)' /\ Good(c)
  BY SameRemapped
<1>2. on' /\ intact' /\ Traceable' => Version(c) >= CONFIG_VERSION /\ (Meaning(config) = Meaning(origin))'
  BY SameWorld, SameMeaning
<1>3. Becomes(c)'
  BY <1>1, <1>2 DEF Becomes
<1>4. QED
  BY <1>3 DEF Target

LEMMA SaveInv == StoreInv /\ Save => StoreInv'
<1> SUFFICES ASSUME StoreInv, Save PROVE StoreInv'
  OBVIOUS
<1>1. /\ on /\ todo # <<>> /\ mem' = After(todo, mem) /\ todo' = Tail(todo)
      /\ UNCHANGED <<platform, order, on, config, newConfig, half, origin, intact, written, cuts, writes>>
  BY DEF Save, After, ghosts
<1>2. PICK c \in Config : Becomes(c)
  BY DEF StoreInv, Target
<1>3. todo \in Seq(Piece) /\ mem \in [0..15 -> Byte] /\ platform \in {"avr", "pico"} /\ order \in {"up", "down"}
  BY DEF StoreInv, TypeInv
<1>4. mem' \in [0..15 -> Byte] /\ todo' \in Seq(Piece)
  BY <1>1, <1>3, AfterType
<1>5. TypeInv'
  BY <1>1, <1>4 DEF StoreInv, TypeInv
<1>6. /\ platform = "avr" => \E a \in 1..16, b \in 0..15 : AvrSaves(order, todo', mem', c, a, b)
      /\ HeaderInv'
  <2>1. CASE platform = "avr"
    <3>1. PICK a \in 1..16, b \in 0..15 : AvrSaves(order, todo, mem, c, a, b)
      BY <1>2, <2>1 DEF Becomes
    <3>2. OldOrWritten(mem)
      BY <2>1 DEF StoreInv, HeaderInv
    <3>3. /\ \E x \in 1..16, y \in 0..15 : AvrSaves(order, Tail(todo), After(todo, mem), c, x, y)
          /\ OldOrWritten(After(todo, mem))
      BY <1>1, <1>3, <3>1, <3>2, AvrSave
    <3>4. QED
      BY <1>1, <3>3 DEF HeaderInv
  <2>2. CASE platform # "avr"
    BY <1>1, <2>2 DEF HeaderInv
  <2>3. QED
    BY <2>1, <2>2
<1>7. platform = "pico" => PicoSaves(todo', mem', c) /\ Clean(mem')
  BY <1>1, <1>2, <1>3, PicoSave DEF Becomes
<1>8. Unmixed'
  BY <1>1, <1>7 DEF StoreInv, Unmixed
<1>9. Orderly'
  BY <1>1 DEF StoreInv, Orderly
<1>10. Target'
  BY <1>1, <1>2, <1>6, <1>7, Becoming DEF Becomes
<1>11. QED
  BY <1>1, <1>5, <1>6, <1>8, <1>9, <1>10, SameWorld DEF StoreInv

\* The memory alone survives a power cut.
LEMMA PowerCutInv == StoreInv /\ PowerCut => StoreInv'
<1> SUFFICES ASSUME StoreInv, PowerCut PROVE StoreInv'
  OBVIOUS
<1>1. /\ on /\ on' = FALSE /\ todo' = <<>> /\ half' = FALSE /\ cuts' = cuts + 1 /\ cuts < MaxCuts
      /\ config' = ErasedConfig /\ newConfig' = ErasedConfig
      /\ intact' = (intact /\ todo = <<>>)
      /\ UNCHANGED <<platform, order, mem, origin, written, writes>>
  BY DEF PowerCut
<1>2. PICK c \in Config : Becomes(c)
  BY DEF StoreInv, Target
<1>3. ErasedConfig \in Config /\ intact' \in BOOLEAN /\ (intact' => intact /\ todo = <<>>)
  <2>1. ErasedConfig \in Config
    BY DEF ErasedConfig, Erased, Config, Byte
  <2>2. intact' \in BOOLEAN /\ (intact' => intact /\ todo = <<>>)
    BY <1>1, Zenon
  <2>3. QED
    BY <2>1, <2>2
<1>4. TypeInv'
  <2>1. cuts' \in 0..MaxCuts
    BY <1>1, BoundsAssumption DEF StoreInv, TypeInv
  <2>2. todo' \in Seq(Piece)
    BY <1>1
  <2>3. on' \in BOOLEAN /\ half' \in BOOLEAN
    BY <1>1, Zenon
  <2>4. QED
    BY <1>1, <1>3, <2>1, <2>2, <2>3 DEF StoreInv, TypeInv
<1>5. HeaderInv' /\ Unmixed'
  BY <1>1 DEF StoreInv, HeaderInv, OldOrWritten, Unmixed
<1>6. ASSUME intact', Traceable PROVE Kept'
  <2>1. intact /\ todo = <<>> /\ ~written
    BY <1>3, <1>6 DEF StoreInv, Orderly
  <2>2. readBlock(config_pointer) = c
    BY <1>2, <2>1, RestHolds DEF StoreInv
  <2>3. /\ config = remapped(c) /\ Good(c)
        /\ Version(c) >= CONFIG_VERSION /\ Meaning(config) = Meaning(origin)
    BY <1>1, <1>2, <1>6, <2>1 DEF Becomes
  <2>4. Meaning(c) = Meaning(origin)
    BY <2>3, RemappedMeaning DEF StoreInv, TypeInv
  <2>5. Kept
    BY <2>2, <2>3, <2>4 DEF Kept
  <2>6. QED
    BY <1>1, <2>5 DEF Kept, readBlock, Meaning, Since
<1>7. Orderly'
  <2>1. Traceable' <=> Traceable
    BY <1>1, SameWorld
  <2>2. intact' => ~written'
    BY <1>1, <1>3 DEF StoreInv, Orderly
  <2>3. QED
    BY <1>1, <1>6, <2>1, <2>2 DEF Orderly
<1>8. Target'
  <2> DEFINE d == readBlock(config_pointer)
  <2>1. d \in Config /\ \A i \in Fields : mem'[i] = d[i]
    BY <1>1, BlockOf DEF StoreInv, TypeInv
  <2>2. platform = "pico" => Clean(d)
    <3>1. \A i \in Users : i \in Fields
      BY DEF Users, Fields, pollRate, leds, midi, axisScale, debounce
    <3>2. QED
      BY <1>1, <2>1, <3>1 DEF StoreInv, Unmixed, Clean
  <2> HIDE DEF d
  <2>3. /\ platform = "avr" => \E a \in 1..16, b \in 0..15 : AvrSaves(order, todo', mem', d, a, b)
        /\ platform = "pico" => PicoSaves(todo', mem', d)
    <3>1. 1 \in 1..16 /\ 0 \in 0..15
      OBVIOUS
    <3>2. QED
      BY <1>1, <2>1, <2>2, <3>1, RestSaves
  <2>4. QED
    BY <1>1, <2>1, <2>3, Becoming
<1>9. QED
  BY <1>1, <1>4, <1>5, <1>7, <1>8, SameWorld DEF StoreInv

LEMMA PatchedOf ==
  ASSUME NEW c \in Config, NEW d \in Config, NEW from, NEW to
  PROVE  /\ patched(c, d, from, to) \in Config
         /\ \A i \in Fields : i \in from..to => patched(c, d, from, to)[i] = d[i]
         /\ \A i \in Fields : i \notin from..to => patched(c, d, from, to)[i] = c[i]
BY DEF patched, Config

\* writeConfigBlock with nothing left to write from before: of a whole
\* configuration or of one of the host's two blocks.
LEMMA AvrWrite ==
  ASSUME TypeInv, NEW c \in Config, \A i \in Fields : mem[i] = c[i], NEW d \in Config,
         \A i \in Header : d[i] = default_config[i],
         NEW from \in {1, 9}, NEW to \in {8, 15}, from <= to
  PROVE  /\ updateBlock(d, from, to) \in Seq(Piece)
         /\ AvrSaves(order, updateBlock(d, from, to), mem, patched(c, d, from, to), from, to)
<1>1. from \in Fields /\ to \in Fields /\ from \in 1..15 /\ to \in 1..15
  BY DEF Fields
<1>2. /\ updateBlock(d, from, to) \in Seq(Piece) /\ Len(updateBlock(d, from, to)) = to - from + 1
      /\ \A k \in 1..(to - from + 1) : updateBlock(d, from, to)[k] = Cell(d, At(order, from, to, k))
  BY <1>1, UpdateBlockOf DEF TypeInv
<1> DEFINE n == patched(c, d, from, to)
<1>3. /\ \A i \in Fields : i \in from..to => n[i] = d[i]
      /\ \A i \in Fields : i \notin from..to => n[i] = c[i]
  BY PatchedOf
<1>4. \A i \in from..to : i \in Fields
  BY DEF Fields
<1>5. \A k \in 1..(to - from + 1) : At(order, from, to, k) \in from..to
  BY <1>1 DEF At, TypeInv
<1> HIDE DEF n
<1>6. \A k \in 1..(to - from + 1) : Cell(d, At(order, from, to, k)) = Cell(n, At(order, from, to, k))
  BY <1>3, <1>4, <1>5 DEF Cell
<1>7. ~(from \in 4..8) /\ ~(to \in 1..4)
  OBVIOUS
<1>8. AvrSaves(order, updateBlock(d, from, to), mem, n, from, to)
  <2>1. \A k \in 1..Len(updateBlock(d, from, to)) :
          updateBlock(d, from, to)[k] = Cell(n, At(order, from, to, k))
    BY <1>2, <1>6
  <2>2. \A i \in Fields \ (from..to) : mem[i] = n[i]
    BY <1>3
  <2>3. \A i \in Header \cap (from..to) : n[i] = default_config[i]
    BY <1>3, <1>4
  <2>4. QED
    BY <1>2, <1>7, <2>1, <2>2, <2>3 DEF AvrSaves
<1>9. QED
  BY <1>2, <1>8 DEF n

LEMMA PicoWrite ==
  ASSUME NEW d \in Config, Clean(d), NEW m
  PROVE  flash(d) \in Seq(Piece) /\ PicoSaves(flash(d), m, d)
<1>1. flash(d) = <<ErasedConfig, PageOf(d, 0), PageOf(d, 1)>>
  BY DEF flash, ErasedConfig, PageOf
<1>2. PageOf(d, 0) \in Piece /\ PageOf(d, 1) \in Piece /\ ErasedConfig \in Piece
  BY PiecesOf
<1>3. QED
  BY <1>1, <1>2 DEF PicoSaves

\* What the host sends.
LEMMA HostStep ==
  ASSUME StoreInv, HostSteps, NEW d \in Config, \A i \in Header : d[i] = default_config[i],
         NEW from \in {1, 9}, NEW to \in {8, 15}, from <= to, writeConfigBlock(d, from, to),
         half' \in BOOLEAN,
         platform = "pico" => /\ half' => newConfig'[pollRate] = 8
                              /\ to = 15 => Clean(newConfig')
  PROVE  StoreInv'
<1>1. /\ on /\ todo = <<>> /\ writes < MaxWrites /\ writes' = writes + 1
      /\ written' = TRUE /\ intact' = FALSE
      /\ UNCHANGED <<platform, order, mem, on, config, origin, cuts>>
  BY DEF HostSteps, Idle
<1>2. PICK c \in Config : Becomes(c)
  BY DEF StoreInv, Target
<1>3. TypeInv /\ newConfig \in Config /\ platform \in {"avr", "pico"}
  BY DEF StoreInv, TypeInv
<1>4. \A i \in Fields : mem[i] = c[i]
  BY <1>1, <1>2, <1>3, RestHolds
<1>5. \E n \in Config :
        /\ platform = "avr" => \E a \in 1..16, b \in 0..15 : AvrSaves(order, todo', mem', n, a, b)
        /\ platform = "pico" => PicoSaves(todo', mem', n)
        /\ todo' \in Seq(Piece) /\ newConfig' \in Config
  <2>1. CASE platform = "avr"
    <3>1. todo' = updateBlock(d, from, to) /\ newConfig' = newConfig
      BY <2>1 DEF writeConfigBlock
    <3>2. /\ updateBlock(d, from, to) \in Seq(Piece)
          /\ AvrSaves(order, updateBlock(d, from, to), mem, patched(c, d, from, to), from, to)
      BY <1>3, <1>4, AvrWrite
    <3>3. patched(c, d, from, to) \in Config /\ from \in 1..16 /\ to \in 0..15
      BY PatchedOf
    <3>4. QED
      BY <1>1, <1>3, <2>1, <3>1, <3>2, <3>3
  <2>2. CASE platform = "pico"
    <3>1. newConfig' = patched(newConfig, d, from, to) /\ todo' = flushed(newConfig', to)
      BY <2>2 DEF writeConfigBlock
    <3>2. newConfig' \in Config
      BY <1>3, <3>1, PatchedOf
    <3>3. CASE to = 15
      <4>1. todo' = flash(newConfig')
        BY <3>1, <3>3, DefaultConfig DEF flushed
      <4>2. flash(newConfig') \in Seq(Piece) /\ PicoSaves(flash(newConfig'), mem', newConfig')
        BY <2>2, <3>2, <3>3, PicoWrite
      <4>3. QED
        BY <2>2, <3>2, <4>1, <4>2
    <3>4. CASE to = 8
      <4>1. todo' = <<>>
        BY <3>1, <3>4, DefaultConfig DEF flushed
      <4>2. Clean(c)
        BY <1>2, <2>2 DEF Becomes, PicoSaves
      <4>3. PicoSaves(<<>>, mem', c)
        BY <1>1, <1>4, <4>2, RestSaves
      <4>4. QED
        BY <2>2, <3>2, <4>1, <4>3
    <3>5. QED
      BY <3>3, <3>4
  <2>3. QED
    BY <1>3, <2>1, <2>2
<1>6. PICK n \in Config :
        /\ platform = "avr" => \E a \in 1..16, b \in 0..15 : AvrSaves(order, todo', mem', n, a, b)
        /\ platform = "pico" => PicoSaves(todo', mem', n)
        /\ todo' \in Seq(Piece) /\ newConfig' \in Config
  BY <1>5
<1>7. TypeInv'
  <2>1. writes' \in 0..MaxWrites
    BY <1>1, <1>3, BoundsAssumption DEF TypeInv
  <2>2. written' \in BOOLEAN /\ intact' \in BOOLEAN
    BY <1>1, Zenon
  <2>3. QED
    BY <1>1, <1>3, <1>6, <2>1, <2>2 DEF TypeInv
<1>8. Target'
  BY <1>1, <1>6, Becoming
<1>9. HeaderInv' /\ Unmixed' /\ Orderly'
  BY <1>1 DEF StoreInv, HeaderInv, OldOrWritten, Unmixed, Orderly
<1>10. QED
  BY <1>1, <1>7, <1>8, <1>9, SameWorld DEF StoreInv

LEMMA HostInv == StoreInv /\ (HostWriteFirst \/ HostWriteLast \/ resetConfig) => StoreInv'
<1> SUFFICES ASSUME StoreInv, HostWriteFirst \/ HostWriteLast \/ resetConfig PROVE StoreInv'
  OBVIOUS
<1>1. newConfig \in Config /\ Len(default_config) = 15 /\ default_config \in Config
  BY DefaultConfig DEF StoreInv, TypeInv
<1>2. \A i \in Users : i \in Fields
  BY DEF Users, Fields, pollRate, leds, midi, axisScale, debounce
<1>3. /\ HostConfig \in Config /\ \A i \in Header : HostConfig[i] = default_config[i]
      /\ \A i \in Users : HostConfig[i] = 8
  BY HostConfigType DEF Users
<1>4. CASE HostWriteFirst
  <2>1. HostSteps /\ half' = TRUE /\ writeConfigBlock(HostConfig, 1, 8)
    BY <1>4 DEF HostWriteFirst
  <2>2. platform = "pico" => newConfig'[pollRate] = 8
    <3>1. 2 \in Fields /\ 2 \in 1..8 /\ 2 \in Users /\ pollRate = 2
      BY DEF Fields, Users, pollRate
    <3>2. platform = "pico" => newConfig' = patched(newConfig, HostConfig, 1, 8)
      BY <2>1 DEF writeConfigBlock
    <3>3. QED
      BY <1>1, <1>3, <3>1, <3>2, PatchedOf
  <2>3. QED
    BY <1>3, <2>1, <2>2, HostStep
<1>5. CASE HostWriteLast
  <2>1. HostSteps /\ half /\ half' = FALSE /\ writeConfigBlock(HostConfig, 9, 15)
    BY <1>5 DEF HostWriteLast
  <2>2. ASSUME platform = "pico" PROVE Clean(newConfig')
    <3>1. newConfig' = patched(newConfig, HostConfig, 9, 15) /\ newConfig[pollRate] = 8
      BY <2>1, <2>2 DEF writeConfigBlock, StoreInv, Unmixed
    <3>2. \A i \in Users : i = pollRate \/ i \in 9..15
      BY DEF Users, pollRate, leds, midi, axisScale, debounce
    <3>3. pollRate \in Fields /\ pollRate \notin 9..15
      BY DEF Fields, pollRate
    <3>4. \A i \in Users : newConfig'[i] = 8
      BY <1>1, <1>2, <1>3, <3>1, <3>2, <3>3, PatchedOf
    <3>5. QED
      BY <3>4 DEF Clean
  <2>3. half' \in BOOLEAN /\ ~half'
    BY <2>1, Zenon
  <2>4. QED
    BY <1>3, <2>1, <2>2, <2>3, HostStep
<1>6. CASE resetConfig
  <2>1. HostSteps /\ half' = FALSE /\ writeConfigBlock(default_config, 1, 15)
    BY <1>1, <1>6 DEF resetConfig
  <2>2. ASSUME platform = "pico" PROVE Clean(newConfig')
    <3>1. newConfig' = patched(newConfig, default_config, 1, 15)
      BY <2>1, <2>2 DEF writeConfigBlock
    <3>2. \A i \in Users : i \in 1..15 /\ default_config[i] # 7
      BY DefaultConfig DEF Users, pollRate, leds, midi, axisScale, debounce
    <3>3. \A i \in Users : newConfig'[i] # 7
      BY <1>1, <1>2, <3>1, <3>2, PatchedOf
    <3>4. QED
      BY <3>3 DEF Clean
  <2>3. half' \in BOOLEAN /\ ~half'
    BY <2>1, Zenon
  <2>4. QED
    BY <1>1, <2>1, <2>2, <2>3, HostStep
<1>7. QED
  BY <1>4, <1>5, <1>6

\* loadConfig.
LEMMA LoadInv == StoreInv /\ loadConfig => StoreInv'
<1> SUFFICES ASSUME StoreInv, loadConfig PROVE StoreInv'
  OBVIOUS
<1> DEFINE block == readBlock(config_pointer)
           c == signatureChecked(found)
<1>1. /\ ~on /\ on' = TRUE /\ written' = FALSE
      /\ UNCHANGED <<platform, order, mem, half, origin, intact, cuts, writes>>
      /\ \/ /\ current(c) /\ config' = migrated(c) /\ todo' = <<>>
            /\ newConfig' = IF platform = "pico" THEN migrated(c) ELSE newConfig
         \/ /\ ~current(c) /\ config' = stamped(migrated(c))
            /\ writeConfigBlock(config', 1, Len(default_config))
  BY DEF loadConfig
<1>2. TypeInv /\ newConfig \in Config /\ platform \in {"avr", "pico"} /\ mem \in [0..15 -> Byte]
  BY DEF StoreInv, TypeInv
<1>3. /\ todo = <<>> /\ ~half /\ HeaderInv /\ OriginInv
      /\ intact /\ Traceable => Start \/ Kept
  BY <1>1 DEF StoreInv, Orderly
<1>4. found \in Config /\ block \in Config /\ \A i \in Fields : mem[i] = block[i]
  BY <1>2, BlockOf
<1>5. /\ c \in Config /\ Good(c) /\ (Good(found) => c = found)
      /\ Version(c) >= 15 => Good(found)
      /\ Clean(found) => Clean(c)
  BY <1>4, CheckedOf
<1>6. migrated(c) \in Config /\ remapped(c) \in Config
  BY <1>5, MigratedOf, RemappedOf
<1>7. platform = "pico" => found = block /\ Clean(block)
  <2>1. platform = "pico" => found = block
    BY DEF found
  <2>2. \A i \in Users : i \in Fields
    BY DEF Users, Fields, pollRate, leds, midi, axisScale, debounce
  <2>3. platform = "pico" => Clean(block)
    BY <1>4, <2>2 DEF StoreInv, Unmixed, Clean
  <2>4. QED
    BY <2>1, <2>3
\* What a configuration that was never interrupted is found to be.
<1>8. ASSUME intact, Traceable
      PROVE  /\ found = origin /\ c = origin
             \/ /\ found = block /\ c = block /\ Version(block) >= CONFIG_VERSION
                /\ Meaning(block) = Meaning(origin)
  <2>1. CASE Start
    <3>1. found = origin
      BY <1>2, <1>3, <1>8, <2>1, FoundOrigin
    <3>2. QED
      BY <1>5, <1>8, <3>1 DEF Traceable
  <2>2. CASE Kept
    <3>1. Good(block) /\ Version(block) >= CONFIG_VERSION /\ Meaning(block) = Meaning(origin)
      BY <2>2 DEF Kept
    <3>2. Version(block) \in Nat /\ ~(Version(block) < 8)
      BY <1>4, <3>1, VersionNat DEF CONFIG_VERSION
    <3>3. found = block
      BY <3>2 DEF found
    <3>4. QED
      BY <1>5, <3>1, <3>3
  <2>3. QED
    BY <1>3, <1>8, <2>1, <2>2
<1> HIDE DEF block, c
<1>9. HeaderInv' /\ OriginInv'
  BY <1>1, <1>3, SameWorld DEF HeaderInv, OldOrWritten
<1>10. Orderly' /\ on' \in BOOLEAN /\ written' \in BOOLEAN
  BY <1>1, Zenon DEF Orderly
<1>11. Unmixed'
  BY <1>1, <1>3 DEF StoreInv, Unmixed
<1>12. CASE /\ current(c) /\ config' = migrated(c) /\ todo' = <<>>
            /\ newConfig' = IF platform = "pico" THEN migrated(c) ELSE newConfig
  <2>1. Version(c) >= CONFIG_VERSION /\ Version(c) >= 15
    BY <1>12 DEF current, CONFIG_VERSION
  <2>2. c = found /\ Good(found)
    BY <1>5, <2>1
  <2>3. found = block
    BY <1>2, <1>3, <2>1, <2>2, FoundCurrent DEF block
  <2>4. config' = remapped(block)
    BY <1>5, <1>12, <2>1, <2>2, <2>3, MigratedOf
  <2>5. Meaning(remapped(block)) = Meaning(block)
    BY <1>2, <1>4, <2>1, <2>2, <2>3, RemappedMeaning
  <2>6. intact' /\ Traceable => Meaning(config') = Meaning(origin)
    <3>1. intact' = intact
      BY <1>1
    <3>2. intact /\ Traceable => Meaning(block) = Meaning(origin)
      BY <1>8, <2>3
    <3>3. QED
      BY <2>4, <2>5, <3>1, <3>2
  <2>7. /\ platform = "avr" => \E a \in 1..16, b \in 0..15 : AvrSaves(order, todo', mem', block, a, b)
        /\ platform = "pico" => PicoSaves(todo', mem', block)
    <3>1. 1 \in 1..16 /\ 0 \in 0..15
      OBVIOUS
    <3>2. QED
      BY <1>1, <1>4, <1>7, <1>12, <3>1, RestSaves
  <2>8. Target'
    BY <1>1, <1>4, <2>1, <2>2, <2>3, <2>4, <2>6, <2>7, Becoming
  <2>9. TypeInv'
    <3>1. todo' \in Seq(Piece) /\ newConfig' \in Config
      BY <1>2, <1>6, <1>12
    <3>2. QED
      BY <1>1, <1>2, <1>6, <1>10, <1>12, <3>1 DEF TypeInv
  <2>10. QED
    BY <1>9, <1>10, <1>11, <2>8, <2>9 DEF StoreInv
<1>13. CASE /\ ~current(c) /\ config' = stamped(migrated(c))
            /\ writeConfigBlock(config', 1, Len(default_config))
  <2> DEFINE d == stamped(migrated(c))
  <2>1. config' = d /\ writeConfigBlock(d, 1, 15)
    BY <1>13, DefaultConfig
  <2>2. /\ d \in Config /\ Version(d) = CONFIG_VERSION /\ d[5] = 15 /\ d[6] = 0
        /\ \A f \in Fields \ {ver0, ver1} : d[f] = migrated(c)[f]
    BY <1>6, StampedOf
  <2>3. d[3] = c[3] /\ d[4] = c[4] /\ d[1] = migrated(c)[1]
    BY <1>5, <2>2, MigratedOf DEF Fields, ver0, ver1, sig0, sig1
  <2>4. Good(d) /\ d[3] = 21 /\ d[4] = 212
    BY <1>5, <2>3 DEF Good, Signature, ARDWIINO_DEVICE_TYPE, sig0, sig1
  <2>5. \A i \in Header : d[i] = default_config[i]
    <3>1. \A i \in Header : i \in {3, 4, 5, 6}
      BY DEF Header
    <3>2. QED
      BY <2>2, <2>4, <3>1, DefaultConfig
  <2>6. remapped(d) = d
    <3>1. d[subType] = remapped(c)[subType]
      BY <1>5, <2>3, MigratedOf DEF subType
    <3>2. platform = "avr" => d[subType] = Kind(c[subType])
      BY <1>5, <3>1, RemappedOf
    <3>3. platform = "avr" => d[subType] \notin {REAL_GUITAR_SUBTYPE, REAL_DRUM_SUBTYPE}
      BY <3>2 DEF Kind, REAL_GUITAR_SUBTYPE, REAL_DRUM_SUBTYPE, XINPUT_GUITAR_HERO_GUITAR,
                  XINPUT_GUITAR_HERO_DRUMS
    <3>4. QED
      BY <1>2, <2>2, <3>3, RemappedTwice
  <2>7. platform = "pico" => Clean(d)
    BY <1>5, <1>7, MigrationClean
  <2>8. ASSUME intact, Traceable PROVE Meaning(d) = Meaning(origin)
    <3>1. c = origin
      BY <1>8, <1>13, <2>8 DEF current
    <3>2. /\ origin[r_x_inverted] \in {0, 1}
          /\ origin[orientation] \in IF Version(origin) < 14 THEN 0..5 ELSE 0..2
          /\ platform = "pico" => origin[subType] \notin {REAL_GUITAR_SUBTYPE, REAL_DRUM_SUBTYPE}
      BY <1>3, <2>8 DEF OriginInv, Traceable
    <3>3. QED
      BY <1>2, <1>5, <3>1, <3>2, MigrationMeaning
  <2>9. /\ platform = "avr" => \E a \in 1..16, b \in 0..15 : AvrSaves(order, todo', mem', d, a, b)
        /\ platform = "pico" => PicoSaves(todo', mem', d)
        /\ todo' \in Seq(Piece) /\ newConfig' \in Config
    <3>0. \A i \in Fields : i \in 1..15
      BY DEF Fields
    <3>1. CASE platform = "avr"
      <4>1. todo' = updateBlock(d, 1, 15) /\ newConfig' = newConfig
        BY <2>1, <3>1 DEF writeConfigBlock
      <4>2. patched(block, d, 1, 15) = d
        BY <1>4, <2>2, <3>0, PatchedOf DEF Config
      <4>3. /\ updateBlock(d, 1, 15) \in Seq(Piece)
            /\ AvrSaves(order, updateBlock(d, 1, 15), mem, patched(block, d, 1, 15), 1, 15)
        BY <1>2, <1>4, <2>2, <2>5, AvrWrite
      <4>4. 1 \in 1..16 /\ 15 \in 0..15
        OBVIOUS
      <4>5. QED
        BY <1>1, <1>2, <3>1, <4>1, <4>2, <4>3, <4>4
    <3>2. CASE platform = "pico"
      <4>1. newConfig' = patched(newConfig, d, 1, 15) /\ todo' = flushed(newConfig', 15)
        BY <2>1, <3>2 DEF writeConfigBlock
      <4>2. patched(newConfig, d, 1, 15) = d
        BY <1>2, <2>2, <3>0, PatchedOf DEF Config
      <4>3. todo' = flash(d)
        BY <4>1, <4>2, DefaultConfig DEF flushed
      <4>4. QED
        BY <2>2, <2>7, <3>2, <4>1, <4>2, <4>3, PicoWrite
    <3>3. QED
      BY <1>2, <3>1, <3>2
  <2> HIDE DEF d
  <2>10. Target'
    <3>1. intact' = intact
      BY <1>1
    <3>2. CONFIG_VERSION >= CONFIG_VERSION
      BY DEF CONFIG_VERSION
    <3>3. QED
      BY <1>1, <2>1, <2>2, <2>4, <2>6, <2>8, <2>9, <3>1, <3>2, Becoming
  <2>11. TypeInv'
    BY <1>1, <1>2, <1>10, <2>1, <2>2, <2>9 DEF TypeInv
  <2>12. QED
    BY <1>9, <1>10, <1>11, <2>10, <2>11 DEF StoreInv
<1>14. QED
  BY <1>1, <1>12, <1>13

------------------------------------------------------------------------------
(***************************************************************************)
(* The initial states.                                                     *)
(***************************************************************************)
LEMMA StoredOf ==
  ASSUME NEW v \in Versions, NEW s \in SubTypes, NEW pin \in {0, 5}, NEW inverted \in {0, 1},
         NEW gyro \in 0..4
  PROVE  LET c == Stored(v, s, pin, inverted, gyro) IN
         /\ c \in Config
         /\ c[1] = s /\ c[3] = 21 /\ c[4] = 212 /\ c[5] = v /\ c[6] = 0
         /\ c[8] = inverted /\ c[9] = gyro
         /\ \A f \in Users : c[f] \in {7, 255}
<1> DEFINE c == Stored(v, s, pin, inverted, gyro)
<1>1. v \in Byte /\ s \in Byte /\ pin \in Byte /\ inverted \in Byte /\ gyro \in Byte
      /\ ARDWIINO_DEVICE_TYPE[1] = 21 /\ ARDWIINO_DEVICE_TYPE[2] = 212
  BY VersionsAssumption, SubTypesAssumption DEF Byte, CONFIG_VERSION, ARDWIINO_DEVICE_TYPE
<1> USE DEF subType, pollRate, sig0, sig1, ver0, ver1, up, r_x_inverted, orientation, leds, midi,
            rfInEnabled, axisScale, debounce, combinedStrum, Erased
<1>2. /\ c[1] = s /\ c[3] = 21 /\ c[4] = 212 /\ c[5] = v /\ c[6] = 0 /\ c[7] = pin
      /\ c[8] = inverted /\ c[9] = gyro
  BY <1>1 DEF Stored, Fields
<1>3. /\ c[2] \in {7, 255} /\ c[10] \in {7, 255} /\ c[11] \in {7, 255}
      /\ c[13] \in {7, 255} /\ c[14] \in {7, 255}
  BY DEF Stored, Fields
<1>4. c[12] \in {1, 255} /\ c[15] \in {1, 255}
  BY DEF Stored, Fields
<1>5. c \in Config
  <2>1. \A f \in Fields : f \in {1, 2, 3, 4, 5, 6, 7, 8, 9, 10, 11, 12, 13, 14, 15}
    BY DEF Fields
  <2>2. \A x : x \in {1, 7, 255, 21, 212, 0} => x \in Byte
    BY DEF Byte
  <2>3. c = [f \in Fields |-> c[f]]
    BY DEF Stored
  <2> HIDE DEF c
  <2>4. \A f \in Fields : c[f] \in Byte
    BY <1>1, <1>2, <1>3, <1>4, <2>1, <2>2
  <2>5. QED
    BY <2>3, <2>4 DEF Config
<1>6. \A f \in Users : c[f] \in {7, 255}
  BY <1>3 DEF Users
<1>7. QED
  BY <1>2, <1>5, <1>6

LEMMA InitStore == Init => StoreInv
<1> SUFFICES ASSUME Init PROVE StoreInv
  OBVIOUS
<1>1. /\ platform \in {"avr", "pico"} /\ order \in {"up", "down"}
      /\ on = FALSE /\ todo = <<>> /\ half = FALSE
      /\ config = ErasedConfig /\ newConfig = ErasedConfig
      /\ intact = TRUE /\ written = FALSE /\ cuts = 0 /\ writes = 0 /\ Start
  BY DEF Init, Start
<1>2. ErasedConfig \in Config /\ \A i \in Fields : ErasedConfig[i] = 255
  BY DEF ErasedConfig, Erased, Config, Byte
<1>3. /\ OriginInv /\ \A f \in Users : origin[f] \in {7, 255}
      /\ \/ origin = ErasedConfig
         \/ origin[3] = 21 /\ origin[4] = 212 /\ origin[6] = 0
  <2>1. CASE origin = ErasedConfig
    <3>1. ~Good(origin)
      BY <1>2, <2>1 DEF Good, Signature, ARDWIINO_DEVICE_TYPE, sig0, sig1, Fields
    <3>2. \A f \in Users : f \in Fields
      BY DEF Users, Fields, pollRate, leds, midi, axisScale, debounce
    <3>3. QED
      BY <1>2, <2>1, <3>1, <3>2 DEF OriginInv
  <2>2. CASE \E v \in Versions, s \in SubTypes, pin \in {0, 5}, inverted \in {0, 1} :
               \E gyro \in IF v < 14 THEN {0, 3, 4} ELSE 0..2 :
                 /\ s \in {REAL_GUITAR_SUBTYPE, REAL_DRUM_SUBTYPE} => platform = "avr"
                 /\ origin = Stored(v, s, pin, inverted, gyro)
    <3>1. PICK v \in Versions, s \in SubTypes, pin \in {0, 5}, inverted \in {0, 1} :
             \E gyro \in IF v < 14 THEN {0, 3, 4} ELSE 0..2 :
               /\ s \in {REAL_GUITAR_SUBTYPE, REAL_DRUM_SUBTYPE} => platform = "avr"
               /\ origin = Stored(v, s, pin, inverted, gyro)
      BY <2>2
    <3>2. PICK gyro \in IF v < 14 THEN {0, 3, 4} ELSE 0..2 :
            /\ s \in {REAL_GUITAR_SUBTYPE, REAL_DRUM_SUBTYPE} => platform = "avr"
            /\ origin = Stored(v, s, pin, inverted, gyro)
      BY <3>1
    <3>3. gyro \in 0..4 /\ v \in Nat
      BY VersionsAssumption DEF CONFIG_VERSION
    <3>4. /\ origin \in Config
          /\ origin[1] = s /\ origin[3] = 21 /\ origin[4] = 212 /\ origin[5] = v /\ origin[6] = 0
          /\ origin[8] = inverted /\ origin[9] = gyro
          /\ \A f \in Users : origin[f] \in {7, 255}
      BY <3>2, <3>3, StoredOf
    <3>5. Version(origin) = v
      BY <3>3, <3>4 DEF Version, ver0, ver1
    <3>6. gyro \in IF Version(origin) < 14 THEN 0..5 ELSE 0..2
      BY <3>2, <3>3, <3>5
    <3>7. OriginInv
      BY <3>2, <3>4, <3>6 DEF OriginInv, ver1, r_x_inverted, orientation, subType
    <3>8. QED
      BY <3>4, <3>7
  <2>3. QED
    BY <2>1, <2>2 DEF Init
<1>4. origin \in Config /\ Version(origin) \in Nat
  BY <1>3, VersionNat DEF OriginInv
<1>5. mem \in [0..15 -> Byte]
  <2>1. \A c \in 0..15 : c - Base + 1 \in Fields => origin[c - Base + 1] \in Byte
    BY <1>4 DEF Config
  <2>2. QED
    BY <1>1, <2>1 DEF Start, Erased, Byte
<1>6. TypeInv
  <2>1. /\ on \in BOOLEAN /\ half \in BOOLEAN /\ intact \in BOOLEAN /\ written \in BOOLEAN
    BY <1>1, Zenon
  <2>2. cuts \in 0..MaxCuts /\ writes \in 0..MaxWrites
    BY <1>1, BoundsAssumption
  <2>3. todo \in Seq(Piece)
    BY <1>1
  <2>4. QED
    BY <1>1, <1>2, <1>5, <2>1, <2>2, <2>3 DEF TypeInv
<1>7. Orderly
  BY <1>1 DEF Orderly
<1>8. Base = 1 => \A i \in Fields : mem[i] = origin[i]
  <2>1. \A i \in Fields : i \in 0..15 /\ i - 1 + 1 = i
    BY DEF Fields
  <2>2. QED
    BY <1>1, <2>1 DEF Start
<1>9. Base = 0 => /\ platform = "avr" /\ Version(origin) < 8
                  /\ mem[4] = origin[5] /\ mem[5] = origin[6]
  <2>1. Base = 0 => platform = "avr" /\ Version(origin) < 8
    BY DEF Base, config_pointer, test
  <2>2. Base = 0 => mem[4] = origin[5] /\ mem[5] = origin[6]
    <3>1. 4 - 0 + 1 = 5 /\ 5 - 0 + 1 = 6 /\ 5 \in Fields /\ 6 \in Fields /\ 4 \in 0..15 /\ 5 \in 0..15
      BY DEF Fields
    <3>2. QED
      BY <1>1, <3>1 DEF Start
  <2>3. QED
    BY <2>1, <2>2
<1>10. Base \in {0, 1}
  BY DEF Base, config_pointer, test
<1>11. Unmixed
  <2> SUFFICES ASSUME platform = "pico" PROVE Clean(mem)
    BY <1>1 DEF Unmixed
  <2>1. Base = 1
    BY DEF Base, config_pointer
  <2>2. \A f \in Users : mem[f] \in {7, 255}
    <3>1. \A f \in Users : f \in Fields
      BY DEF Users, Fields, pollRate, leds, midi, axisScale, debounce
    <3>2. QED
      BY <1>3, <1>8, <2>1, <3>1
  <2>3. QED
    BY <2>2 DEF Clean
<1>12. HeaderInv
  <2>1. CASE Base = 1
    <3>1. mem[3] = origin[3]
      BY <1>8, <2>1 DEF Fields
    <3>2. origin[3] # 212
      BY <1>2, <1>3 DEF Fields
    <3>3. QED
      BY <3>1, <3>2 DEF HeaderInv, OldOrWritten
  <2>2. CASE Base = 0
    <3>1. origin[6] = 0
      <4>1. origin # ErasedConfig
        <5>1. ErasedConfig[5] = 255 /\ ErasedConfig[6] = 255
          BY <1>2 DEF Fields
        <5>2. ~(Version(ErasedConfig) < 8)
          BY <5>1 DEF Version, ver0, ver1
        <5>3. QED
          BY <1>9, <2>2, <5>2
      <4>2. QED
        BY <1>3, <4>1
    <3>2. origin[5] \in 0..255
      BY <1>4 DEF Config, Fields, Byte
    <3>3. origin[5] < 8
      BY <1>9, <2>2, <3>1, <3>2 DEF Version, ver0, ver1
    <3>4. QED
      BY <1>9, <2>2, <3>1, <3>3 DEF HeaderInv, OldOrWritten
  <2>3. QED
    BY <1>10, <2>1, <2>2
<1>13. Target
  <2> DEFINE d == readBlock(config_pointer)
  <2>1. d \in Config /\ \A i \in Fields : mem[i] = d[i]
    BY <1>5, BlockOf
  <2>2. platform = "pico" => Clean(d)
    <3>1. \A i \in Users : i \in Fields
      BY DEF Users, Fields, pollRate, leds, midi, axisScale, debounce
    <3>2. QED
      BY <1>11, <2>1, <3>1 DEF Unmixed, Clean
  <2> HIDE DEF d
  <2>3. /\ platform = "avr" => \E a \in 1..16, b \in 0..15 : AvrSaves(order, todo, mem, d, a, b)
        /\ platform = "pico" => PicoSaves(todo, mem, d)
    <3>1. 1 \in 1..16 /\ 0 \in 0..15
      OBVIOUS
    <3>2. QED
      BY <1>1, <2>1, <2>2, <3>1, RestSaves
  <2>4. Becomes(d)
    BY <1>1, <2>3 DEF Becomes
  <2>5. QED
    BY <2>1, <2>4 DEF Target
<1>14. QED
  BY <1>3, <1>6, <1>7, <1>11, <1>12, <1>13 DEF StoreInv

LEMMA NextStore == StoreInv /\ [Next]_vars => StoreInv'
<1> SUFFICES ASSUME StoreInv, [Next]_vars PROVE StoreInv'
  OBVIOUS
<1>1. CASE UNCHANGED vars
  <2>1. UNCHANGED <<platform, order, mem, on, config, newConfig, todo, half, origin, intact, written,
                    cuts, writes>>
    BY <1>1 DEF vars, ghosts
  <2>2. TypeInv' /\ HeaderInv' /\ Unmixed'
    BY <2>1 DEF StoreInv, TypeInv, HeaderInv, OldOrWritten, Unmixed
  <2>3. PICK c \in Config : Becomes(c)
    BY DEF StoreInv, Target
  <2>4. Target'
    BY <2>1, <2>3, Becoming DEF Becomes
  <2>5. (Start => Start') /\ (Kept => Kept') /\ (Traceable' <=> Traceable)
    BY <2>1, SameWorld DEF Start, Base, Kept, readBlock, Meaning, Since
  <2>6. Orderly'
    BY <2>1, <2>5 DEF StoreInv, Orderly
  <2>7. QED
    BY <2>1, <2>2, <2>4, <2>6, SameWorld DEF StoreInv
<1>2. QED
  BY <1>1, LoadInv, SaveInv, HostInv, PowerCutInv DEF Next

LEMMA Invariant == Spec => []StoreInv
BY InitStore, NextStore, PTL DEF Spec

------------------------------------------------------------------------------
\* Type correctness; in particular nothing but the cells of a configuration is
\* ever written.
THEOREM TypeCorrect == Spec => []TypeOK
<1>1. StoreInv => TypeOK
  <2> SUFFICES ASSUME StoreInv PROVE TypeOK
    OBVIOUS
  <2>1. \A k \in 1..Len(todo) : DOMAIN todo[k] \subseteq Fields
    BY ElementOf, PieceOf DEF StoreInv, TypeInv
  <2>2. QED
    BY <2>1 DEF StoreInv, TypeInv, TypeOK, Config
<1>2. QED
  BY Invariant, <1>1, PTL

\* Whatever was in memory, and wherever loadConfig, writeConfigBlock or resetConfig
\* was cut off before: what loadConfig returns is what it leaves stored.
THEOREM BootsWhatIsStored == Spec => []BootedIsStored
<1>1. StoreInv => BootedIsStored
  <2> SUFFICES ASSUME StoreInv, on, todo = <<>>, ~written
               PROVE  /\ config = remapped(readBlock(config_pointer))
                      /\ Signature(config) = ARDWIINO_DEVICE_TYPE
    BY DEF BootedIsStored, Idle
  <2>1. PICK c \in Config : Becomes(c)
    BY DEF StoreInv, Target
  <2>2. readBlock(config_pointer) = c /\ config = remapped(c) /\ Good(c)
    BY <2>1, RestHolds DEF StoreInv, Becomes
  <2>3. QED
    BY <2>2, RemappedOf DEF Good
<1>2. QED
  BY Invariant, <1>1, PTL

\* The migration of loadConfig, of any version and subtype, and any number of
\* restarts after it leave the meaning of a configuration as it was.
THEOREM MeaningKept == Spec => []MeaningPreserved
<1>1. StoreInv => MeaningPreserved
  BY DEF StoreInv, Target, Becomes, MeaningPreserved, Traceable, Good, Idle
<1>2. QED
  BY Invariant, <1>1, PTL

\* writeConfigBlock of the Pico: flash never mixes two configurations.
THEOREM NeverMixed == Spec => []NoMixedConfig
<1>1. StoreInv => NoMixedConfig
  BY DEF StoreInv, Unmixed, Clean, Users, NoMixedConfig
<1>2. QED
  BY Invariant, <1>1, PTL
==============================================================================
