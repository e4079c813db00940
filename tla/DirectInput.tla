----------------------------- MODULE DirectInput -----------------------------
(***************************************************************************)
(* Pins read directly (direct.h): tickDirectInput converts one axis after  *)
(* the other without waiting for the converter (tickAnalog), and the       *)
(* configuration tool can ask it to search for the pin that moves, which   *)
(* takes the converter away in between.                                    *)
(*                                                                         *)
(* A pin has one of two voltages; a conversion's result is the pin and the *)
(* voltage it was made of, so that a result stored for another axis shows. *)
(* Scaling is left out.                                                    *)
(***************************************************************************)
EXTENDS Integers, Sequences, FiniteSetsExt

CONSTANTS
  NumPins, PIN_A0,   \* the pins are 1..NumPins; from PIN_A0 they are analog too
  Skipped,           \* shouldSkipPin
  Axes               \* the pins of joyData, in order

ASSUME PinsAssumption == NumPins \in Nat /\ PIN_A0 \in 1..NumPins /\ Skipped \subseteq 1..NumPins
ASSUME AxesAssumption == Axes \in Seq(PIN_A0..NumPins)

VARIABLES
  lookingForDigital, lookingForAnalog, detectedPin,
  lastDigitalValue, lastAnalogValue,
  mode,             \* pinMode: "INPUT" or "INPUT_PULLUP"
  first, currentAnalog,
  joyData,          \* the values of the axes
  adc,              \* the converter: running, its channel and its last result
  volt,             \* the voltage of each pin
  asked, moved      \* history since the last answer: a search was asked for, and
                    \* the pins that moved after that

searchVars == <<lookingForDigital, lookingForAnalog, detectedPin, lastDigitalValue,
                lastAnalogValue, mode>>
analogVars == <<first, currentAnalog, joyData>>
directVars == <<searchVars, analogVars, adc, volt, asked, moved>>

Pins == 1..NumPins
AnalogPins == PIN_A0..NumPins
NoPin == 0                        \* 0xff
Sample(p) == [pin |-> p, volt |-> volt[p]]

\* initDirectInput; nothing has been converted yet.
InitDirect ==
  /\ lookingForDigital = FALSE /\ lookingForAnalog = FALSE /\ detectedPin = NoPin
  /\ lastDigitalValue = [p \in Pins |-> 0] /\ lastAnalogValue = [p \in AnalogPins |-> 0]
  /\ mode = [p \in Pins |-> IF \E i \in DOMAIN Axes : Axes[i] = p THEN "INPUT" ELSE "INPUT_PULLUP"]
  /\ first = TRUE /\ currentAnalog = 1
  /\ joyData = [i \in DOMAIN Axes |-> [pin |-> NoPin, volt |-> 0]]
  /\ adc = [busy |-> FALSE, pin |-> NoPin, data |-> [pin |-> NoPin, volt |-> 0]]
  /\ volt = [p \in Pins |-> 0] /\ asked = FALSE /\ moved = {}

------------------------------------------------------------------------------
(***************************************************************************)
(* The converter.                                                          *)
(***************************************************************************)
Converted == [adc EXCEPT !.busy = FALSE, !.data = Sample(adc.pin)]
Conversion == adc.busy /\ adc' = Converted /\ UNCHANGED <<searchVars, analogVars, volt, asked, moved>>

\* analogRead waits for its own conversion, of p.
AnalogRead(p) == [busy |-> FALSE, pin |-> p, data |-> Sample(p)]

\* stopReading: the conversion that runs is waited for, and its result dropped.
stopReadingOnly == UNCHANGED analogVars                                   \* mutant
stopReading == first' = TRUE /\ UNCHANGED <<currentAnalog, joyData>>

\* tickAnalog: keep the result and start the next conversion, unless it still runs.
FollowingSame == currentAnalog                                            \* mutant
Following == IF first THEN currentAnalog
             ELSE IF currentAnalog = Len(Axes) THEN 1 ELSE currentAnalog + 1
tickAnalog ==
  IF Axes = <<>> \/ (~first /\ adc.busy) THEN UNCHANGED <<analogVars, adc>>
  ELSE /\ joyData' = IF first THEN joyData ELSE [joyData EXCEPT ![currentAnalog] = adc.data]
       /\ currentAnalog' = Following
       /\ first' = FALSE
       /\ adc' = [adc EXCEPT !.busy = TRUE, !.pin = Axes[Following]]

------------------------------------------------------------------------------
(***************************************************************************)
(* The search, with the commands that start it and ask for its result.     *)
(***************************************************************************)
Searched == Pins \ Skipped

\* Commands that change nothing (a search of that kind runs) are stuttering steps.
findDigitalPin ==
  /\ ~lookingForDigital
  /\ lookingForDigital' = TRUE /\ detectedPin' = NoPin
  /\ mode' = [p \in Pins |-> IF p \in Searched THEN "INPUT_PULLUP" ELSE mode[p]]
  /\ lastDigitalValue' = [p \in Pins |-> IF p \in Searched THEN volt[p] ELSE lastDigitalValue[p]]
  /\ stopReading /\ adc' = (IF adc.busy THEN Converted ELSE adc)
  /\ asked' = TRUE
  /\ UNCHANGED <<lookingForAnalog, lastAnalogValue, volt, moved>>

findAnalogPin ==
  /\ ~lookingForAnalog
  /\ lookingForAnalog' = TRUE /\ detectedPin' = NoPin
  /\ mode' = [p \in Pins |-> IF p \in AnalogPins THEN "INPUT_PULLUP" ELSE mode[p]]
  /\ lastAnalogValue' = [p \in AnalogPins |-> volt[p]]
  /\ stopReading /\ adc' = AnalogRead(NumPins)
  /\ asked' = TRUE
  /\ UNCHANGED <<lookingForDigital, lastDigitalValue, volt, moved>>

\* Both searches end; only a digital one puts the pins back.
StopSearch ==
  /\ lookingForDigital' = FALSE /\ lookingForAnalog' = FALSE
  /\ IF lookingForDigital
     THEN /\ mode' = [p \in Pins |-> IF p \in Searched THEN "INPUT" ELSE mode[p]]
          /\ lastDigitalValue' = volt
     ELSE UNCHANGED <<mode, lastDigitalValue>>
stopSearchingDigital ==                                                   \* mutant
  IF lookingForDigital THEN StopSearch
  ELSE UNCHANGED <<lookingForDigital, lookingForAnalog, mode, lastDigitalValue>>
stopSearching == StopSearch

\* COMMAND_GET_FOUND
GetFound ==
  /\ stopSearching /\ asked' = FALSE /\ moved' = {}
  /\ UNCHANGED <<detectedPin, lastAnalogValue, analogVars, adc, volt>>

AnalogMoved == {p \in AnalogPins : volt[p] # lastAnalogValue[p]}
DigitalMoved == {p \in Searched : volt[p] # lastDigitalValue[p]}

tickDirectInput ==
  /\ \/ /\ lookingForAnalog
        /\ IF AnalogMoved = {}
           THEN UNCHANGED searchVars /\ adc' = AnalogRead(NumPins)
           ELSE /\ detectedPin' = Min(AnalogMoved) /\ adc' = AnalogRead(Min(AnalogMoved))
                /\ lookingForAnalog' = FALSE
                /\ UNCHANGED <<lookingForDigital, lastDigitalValue, lastAnalogValue, mode>>
        /\ UNCHANGED analogVars
     \/ /\ ~lookingForAnalog /\ lookingForDigital
        /\ IF DigitalMoved = {} THEN UNCHANGED searchVars
           ELSE stopSearching /\ detectedPin' = Min(DigitalMoved) /\ UNCHANGED lastAnalogValue
        /\ UNCHANGED <<analogVars, adc>>
     \/ ~lookingForAnalog /\ ~lookingForDigital /\ tickAnalog /\ UNCHANGED searchVars
  /\ UNCHANGED <<volt, asked, moved>>

\* The player.
MovePin(p) ==
  /\ volt' = [volt EXCEPT ![p] = 1 - @] /\ moved' = (IF asked THEN moved \cup {p} ELSE moved)
  /\ UNCHANGED <<searchVars, analogVars, adc, asked>>

DirectNext ==
  \/ tickDirectInput \/ Conversion
  \/ findDigitalPin \/ findAnalogPin \/ GetFound
  \/ \E p \in Pins : MovePin(p)

DirectSpec == InitDirect /\ [][DirectNext]_directVars

------------------------------------------------------------------------------
TypeOKDirect ==
  /\ lookingForDigital \in BOOLEAN /\ lookingForAnalog \in BOOLEAN
  /\ detectedPin \in Pins \cup {NoPin}
  /\ lastDigitalValue \in [Pins -> {0, 1}] /\ lastAnalogValue \in [AnalogPins -> {0, 1}]
  /\ mode \in [Pins -> {"INPUT", "INPUT_PULLUP"}]
  /\ first \in BOOLEAN /\ currentAnalog \in 1..(Len(Axes) + 1)
  /\ adc.busy \in BOOLEAN /\ volt \in [Pins -> {0, 1}] /\ asked \in BOOLEAN /\ moved \subseteq Pins

\* An axis only ever holds a conversion of its own pin, although a search, which
\* may start and stop with a conversion running, uses the same converter.
AxisFromItsPin == \A i \in DOMAIN Axes : joyData[i].pin \in {NoPin, Axes[i]}

\* If a search was asked for since the answer before, the answer to COMMAND_GET_FOUND
\* names a pin that moved after that: no search and no result outlives its answer,
\* however the two kinds are mixed.
FreshAnswer ==
  [][GetFound /\ asked => detectedPin \in moved \cup {NoPin}]_directVars

\* Without a search every axis comes to hold the voltage of its pin.
Searching == lookingForDigital \/ lookingForAnalog
AxisShows ==
  \A i \in DOMAIN Axes :
    (joyData[i].volt # volt[Axes[i]]) ~> (joyData[i].volt = volt[Axes[i]] \/ Searching)
==============================================================================
