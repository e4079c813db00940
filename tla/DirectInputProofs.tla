-------------------------- MODULE DirectInputProofs --------------------------
(***************************************************************************)
(* For any number of pins and axes: an axis only ever holds a conversion   *)
(* of its own pin, and the answer to a search names a pin that moved.      *)
(***************************************************************************)
EXTENDS DirectInput, WellFoundedInduction, TLAPS

Result == [pin : Nat, volt : {0, 1}]
Adc == [busy : BOOLEAN, pin : Nat, data : Result]

(***************************************************************************)
(* Between two ticks the converter belongs to the current axis, unless     *)
(* first is set and its result will not be used; a search sets first.      *)
(***************************************************************************)
Own ==
  ~first => /\ currentAnalog \in DOMAIN Axes
            /\ adc.pin = Axes[currentAnalog]
            /\ ~adc.busy => adc.data.pin = adc.pin

AdcType ==
  /\ adc \in Adc /\ (adc.busy => adc.pin \in Pins)
  /\ joyData \in [DOMAIN Axes -> Result]
  /\ volt \in [Pins -> {0, 1}]
Position == currentAnalog \in Nat /\ (Axes # <<>> => currentAnalog \in 1..Len(Axes))

IInv == AdcType /\ Position /\ Own /\ (Searching => first) /\ AxisFromItsPin

LEMMA PinsNat == Pins \subseteq Nat /\ AnalogPins \subseteq Pins /\ NumPins \in AnalogPins
  BY PinsAssumption DEF Pins, AnalogPins

\* A sample of a pin is a result of that pin.
LEMMA SampleOf ==
  ASSUME volt \in [Pins -> {0, 1}], NEW p \in Pins
  PROVE  Sample(p) \in Result /\ Sample(p).pin = p
  BY PinsNat DEF Sample, Result

\* The initial state, where nothing has been converted.
LEMMA InitIInv == InitDirect => IInv
<1> SUFFICES ASSUME InitDirect PROVE IInv
  OBVIOUS
<1>1. [pin |-> NoPin, volt |-> 0] \in Result
  BY DEF Result, NoPin
<1>2. AdcType
  BY <1>1 DEF InitDirect, AdcType, Adc, NoPin
<1>3. Position
  BY AxesAssumption DEF InitDirect, Position
<1>4. AxisFromItsPin
  BY DEF InitDirect, AxisFromItsPin
<1>5. Own /\ (Searching => first)
  BY DEF InitDirect, Own
<1> QED
  BY <1>2, <1>3, <1>4, <1>5 DEF IInv

\* A conversion that ends leaves the result of its own channel.
LEMMA ConvertedOf ==
  ASSUME AdcType, adc.busy
  PROVE  /\ Converted \in Adc /\ ~Converted.busy
         /\ Converted.pin = adc.pin /\ Converted.data.pin = adc.pin
  <1>1. Sample(adc.pin) \in Result /\ Sample(adc.pin).pin = adc.pin
    BY SampleOf DEF AdcType
  <1> QED
    BY <1>1 DEF AdcType, Converted, Adc

LEMMA AnalogReadOf ==
  ASSUME AdcType, NEW p \in Pins
  PROVE  AnalogRead(p) \in Adc /\ ~AnalogRead(p).busy
  <1>1. Sample(p) \in Result
    BY SampleOf DEF AdcType
  <1> QED
    BY <1>1, PinsNat DEF AnalogRead, Adc

\* The lowest of some pins is one of them.
LEMMA LowestPin ==
  ASSUME NEW S \in SUBSET Pins, S # {}
  PROVE  Min(S) \in S
<1>1. S \subseteq Nat
  BY PinsNat
<1> DEFINE Less == {ss \in Nat \X Nat : ss[1] < ss[2]}
<1>2. IsWellFoundedOn(Less, Nat)
  BY NatLessThanWellFounded, Zenon DEF OpToRel
<1>3. PICK x \in S : \A y \in S : ~(<<y, x>> \in Less)
  <2> HIDE DEF Less
  <2> QED BY <1>1, <1>2, WFMin
<1>4. ASSUME NEW y \in S PROVE x <= y
  <2>1. x \in Nat /\ y \in Nat
    BY <1>1
  <2>2. <<y, x>> \in Nat \X Nat /\ <<y, x>>[1] = y /\ <<y, x>>[2] = x
    BY <2>1
  <2>3. ~(y < x)
    BY <1>3, <2>2, Zenon
  <2> QED
    BY <2>1, <2>3
<1> QED
  BY <1>4 DEF Min

\* Steps that leave the axes and the converter alone, or let it finish.
LEMMA ConversionStep ==
  ASSUME IInv, adc' \in Adc, joyData' = joyData, volt' \in [Pins -> {0, 1}],
         UNCHANGED <<first, currentAnalog>>, Searching' => first,
         \/ adc' = adc
         \/ ~adc'.busy /\ adc'.pin = adc.pin /\ adc'.data.pin = adc.pin
         \/ first /\ ~adc'.busy
  PROVE  IInv'
<1>1. AdcType'
  BY DEF IInv, AdcType
<1>2. Position'
  BY DEF IInv, Position
<1>3. AxisFromItsPin'
  BY DEF IInv, AxisFromItsPin
<1>4. Own'
  BY DEF IInv, Own
<1> QED
  BY <1>1, <1>2, <1>3, <1>4 DEF IInv

\* Starting a search.
LEMMA StopStep ==
  ASSUME IInv, stopReading, adc' \in Adc, ~adc'.busy \/ adc' = adc, UNCHANGED volt
  PROVE  IInv'
<1>1. AdcType'
  BY DEF IInv, AdcType, stopReading
<1>2. Position'
  BY DEF IInv, Position, stopReading
<1>3. AxisFromItsPin'
  BY DEF IInv, AxisFromItsPin, stopReading
<1>4. Own' /\ first'
  BY DEF Own, stopReading
<1> QED
  BY <1>1, <1>2, <1>3, <1>4 DEF IInv

\* An element of a sequence is one of its set's members.
LEMMA ElementOf ==
  ASSUME NEW S, NEW s \in Seq(S), NEW i \in 1..Len(s)
  PROVE  s[i] \in S
  OBVIOUS

\* The round robin keeps a result only of the axis it is about to leave.
LEMMA TickAnalogStep ==
  ASSUME IInv, tickAnalog, UNCHANGED <<searchVars, volt>>, ~Searching
  PROVE  IInv'
<1>0. ~Searching'
  BY DEF searchVars, Searching
<1>1. CASE UNCHANGED <<analogVars, adc>>
  BY <1>0, <1>1 DEF IInv, AdcType, Position, Own, AxisFromItsPin, analogVars
<1>2. CASE /\ Axes # <<>> /\ (first \/ ~adc.busy)
           /\ joyData' = IF first THEN joyData ELSE [joyData EXCEPT ![currentAnalog] = adc.data]
           /\ currentAnalog' = Following
           /\ first' = FALSE
           /\ adc' = [adc EXCEPT !.busy = TRUE, !.pin = Axes[Following]]
  <2>1. Following \in 1..Len(Axes) /\ currentAnalog \in 1..Len(Axes)
    BY <1>2, AxesAssumption DEF IInv, Position, Following
  <2>2. Axes[Following] \in Pins /\ DOMAIN Axes = 1..Len(Axes)
    <3>1. DOMAIN Axes = 1..Len(Axes)
      BY AxesAssumption
    <3>2. Axes[Following] \in PIN_A0..NumPins
      BY <2>1, AxesAssumption, ElementOf, Zenon
    <3> QED
      BY <3>1, <3>2, PinsNat DEF AnalogPins
  <2>3. adc' \in Adc /\ adc'.busy /\ adc'.pin = Axes[Following]
    BY <1>2, <2>2, PinsNat DEF IInv, AdcType, Adc
  <2>4. adc.data \in Result
    BY DEF IInv, AdcType, Adc
  <2>5. joyData' \in [DOMAIN Axes -> Result]
    BY <1>2, <2>1, <2>2, <2>4 DEF IInv, AdcType
  <2>6. AdcType' /\ Position' /\ Own'
    BY <1>2, <2>1, <2>2, <2>3, <2>5 DEF IInv, AdcType, Position, Own
  <2>7. AxisFromItsPin'
    <3>1. CASE first
      BY <1>2, <3>1 DEF IInv, AxisFromItsPin
    <3>2. CASE ~first
      <4>1. adc.data.pin = Axes[currentAnalog]
        BY <1>2, <3>2 DEF IInv, Own
      <4>2. joyData' = [joyData EXCEPT ![currentAnalog] = adc.data]
        BY <1>2, <3>2
      <4> QED
        BY <2>1, <2>2, <4>1, <4>2 DEF IInv, AdcType, AxisFromItsPin
    <3> QED
      BY <3>1, <3>2
  <2> QED
    BY <1>0, <2>6, <2>7 DEF IInv
<1> QED
  BY <1>1, <1>2 DEF tickAnalog

LEMMA NextIInv == IInv /\ [DirectNext]_directVars => IInv'
<1> SUFFICES ASSUME IInv, [DirectNext]_directVars PROVE IInv'
  OBVIOUS
<1>0. /\ adc \in Adc /\ volt \in [Pins -> {0, 1}] /\ AdcType
      /\ Searching => first
  BY DEF IInv, AdcType
<1>1. CASE tickDirectInput
  <2>1. CASE /\ lookingForAnalog /\ UNCHANGED analogVars
             /\ \E p \in Pins : adc' = AnalogRead(p)
    <3>1. adc' \in Adc /\ ~adc'.busy
      BY <1>0, <2>1, AnalogReadOf
    <3>2. first
      BY <1>0, <2>1 DEF Searching
    <3> QED
      BY <1>0, <1>1, <2>1, <3>1, <3>2, ConversionStep DEF tickDirectInput, analogVars
  <2>2. CASE ~lookingForAnalog /\ lookingForDigital /\ UNCHANGED <<analogVars, adc>>
    <3>1. first
      BY <1>0, <2>2 DEF Searching
    <3> QED
      BY <1>0, <1>1, <2>2, <3>1, ConversionStep DEF tickDirectInput, analogVars
  <2>3. CASE ~lookingForAnalog /\ ~lookingForDigital /\ tickAnalog /\ UNCHANGED searchVars
    <3>1. ~Searching
      BY <2>3 DEF Searching
    <3> QED
      BY <1>1, <2>3, <3>1, TickAnalogStep DEF tickDirectInput
  <2>4. AnalogMoved # {} => Min(AnalogMoved) \in Pins
    BY LowestPin, PinsNat DEF AnalogMoved
  <2> QED
    BY <1>1, <2>1, <2>2, <2>3, <2>4, PinsNat DEF tickDirectInput
<1>2. CASE Conversion
  <2>1. /\ adc' \in Adc /\ ~adc'.busy
        /\ adc'.pin = adc.pin /\ adc'.data.pin = adc.pin
    BY <1>0, <1>2, ConvertedOf DEF Conversion
  <2>2. Searching' = Searching
    BY <1>2 DEF Conversion, searchVars, Searching
  <2> QED
    BY <1>0, <1>2, <2>1, <2>2, ConversionStep DEF Conversion, analogVars
<1>3. CASE findDigitalPin
  <2>1. adc' \in Adc /\ (~adc'.busy \/ adc' = adc)
    BY <1>0, <1>3, ConvertedOf DEF findDigitalPin
  <2> QED
    BY <1>3, <2>1, StopStep DEF findDigitalPin
<1>4. CASE findAnalogPin
  <2>1. adc' \in Adc /\ ~adc'.busy
    BY <1>0, <1>4, AnalogReadOf, PinsNat DEF findAnalogPin
  <2> QED
    BY <1>4, <2>1, StopStep DEF findAnalogPin
<1>5. CASE GetFound
  <2>1. ~Searching'
    BY <1>5, Zenon DEF GetFound, stopSearching, StopSearch, Searching
  <2> QED
    BY <1>0, <1>5, <2>1, ConversionStep DEF GetFound, analogVars
<1>6. CASE \E p \in Pins : MovePin(p)
  <2>1. Searching' = Searching
    BY <1>6 DEF MovePin, searchVars, Searching
  <2>2. volt' \in [Pins -> {0, 1}]
    BY <1>0, <1>6 DEF MovePin
  <2> QED
    BY <1>0, <1>6, <2>1, <2>2, ConversionStep DEF MovePin, analogVars
<1>7. CASE UNCHANGED directVars
  <2>1. Searching' = Searching
    BY <1>7 DEF directVars, searchVars, Searching
  <2> QED
    BY <1>0, <1>7, <2>1, ConversionStep DEF directVars, analogVars
<1> QED
  BY <1>1, <1>2, <1>3, <1>4, <1>5, <1>6, <1>7 DEF DirectNext

\* Whatever the tool asks for and whenever a conversion ends, an axis holds
\* conversions of its own pin only (tickAnalog, stopReading), for any number of
\* pins and axes.
THEOREM AxesApart == DirectSpec => []AxisFromItsPin
<1>1. IInv => AxisFromItsPin
  BY DEF IInv
<1> QED
  BY InitIInv, NextIInv, <1>1, PTL DEF DirectSpec

------------------------------------------------------------------------------
(***************************************************************************)
(* The search.  Since it was asked for, only the pins that moved differ    *)
(* from what they were; it may have been asked for twice, once of each     *)
(* kind, before the answer is fetched.                                     *)
(***************************************************************************)
Unmoved ==
  /\ Searching => asked
  /\ lookingForDigital => \A p \in Searched \ moved : volt[p] = lastDigitalValue[p]
  /\ lookingForAnalog => \A p \in AnalogPins \ moved : volt[p] = lastAnalogValue[p]
  /\ asked => detectedPin \in moved \cup {NoPin}
SearchInv == IInv /\ TypeOKDirect /\ Unmoved

LEMMA InitSearchInv == InitDirect => SearchInv
<1> SUFFICES ASSUME InitDirect PROVE SearchInv
  OBVIOUS
<1>1. TypeOKDirect
  <2>1. /\ lookingForDigital \in BOOLEAN /\ lookingForAnalog \in BOOLEAN
        /\ first \in BOOLEAN /\ asked \in BOOLEAN /\ moved \subseteq Pins
        /\ detectedPin \in Pins \cup {NoPin}
    BY Zenon DEF InitDirect
  <2>2. /\ lastDigitalValue \in [Pins -> {0, 1}] /\ lastAnalogValue \in [AnalogPins -> {0, 1}]
        /\ mode \in [Pins -> {"INPUT", "INPUT_PULLUP"}] /\ volt \in [Pins -> {0, 1}]
        /\ adc.busy \in BOOLEAN
    BY DEF InitDirect
  <2>3. currentAnalog \in 1..(Len(Axes) + 1)
    <3>1. Len(Axes) \in Nat
      BY AxesAssumption
    <3> QED
      BY <3>1 DEF InitDirect
  <2> QED
    BY <2>1, <2>2, <2>3 DEF TypeOKDirect
<1>2. Unmoved
  BY DEF InitDirect, Unmoved, Searching
<1> QED
  BY <1>1, <1>2, InitIInv DEF SearchInv

\* The pin a search finds has moved.
LEMMA FoundPin ==
  ASSUME SearchInv
  PROVE  /\ lookingForAnalog /\ AnalogMoved # {} => Min(AnalogMoved) \in moved
         /\ lookingForDigital /\ DigitalMoved # {} => Min(DigitalMoved) \in moved
<1>1. AnalogMoved \subseteq Pins /\ DigitalMoved \subseteq Pins
  BY PinsNat DEF AnalogMoved, DigitalMoved, Searched
<1>2. lookingForAnalog => AnalogMoved \subseteq moved
  BY DEF AnalogMoved, SearchInv, Unmoved
<1>3. lookingForDigital => DigitalMoved \subseteq moved
  BY DEF DigitalMoved, SearchInv, Unmoved
<1> QED
  BY <1>1, <1>2, <1>3, LowestPin

\* A step that neither starts a search nor ends one by its answer.
LEMMA SameSearch ==
  ASSUME SearchInv, IInv', UNCHANGED <<volt, asked, moved, lastAnalogValue>>,
         lookingForDigital' \in BOOLEAN /\ (lookingForDigital' => lookingForDigital),
         lookingForAnalog' \in BOOLEAN /\ (lookingForAnalog' => lookingForAnalog),
         lastDigitalValue' \in [Pins -> {0, 1}],
         lookingForDigital' => lastDigitalValue' = lastDigitalValue,
         mode' \in [Pins -> {"INPUT", "INPUT_PULLUP"}],
         first' \in BOOLEAN, currentAnalog' \in 1..(Len(Axes) + 1),
         detectedPin' = detectedPin \/ detectedPin' \in moved
  PROVE  SearchInv'
<1>1. adc'.busy \in BOOLEAN
  BY DEF IInv, AdcType, Adc
<1>2. TypeOKDirect'
  BY <1>1 DEF SearchInv, TypeOKDirect
<1>3. Unmoved'
  BY DEF SearchInv, Unmoved, Searching
<1> QED
  BY <1>2, <1>3 DEF SearchInv

LEMMA NextSearchInv == SearchInv /\ [DirectNext]_directVars => SearchInv'
<1> SUFFICES ASSUME SearchInv, [DirectNext]_directVars PROVE SearchInv'
  OBVIOUS
<1>0. IInv' /\ adc'.busy \in BOOLEAN
  <2>1. IInv'
    BY NextIInv DEF SearchInv
  <2> QED
    BY <2>1 DEF IInv, AdcType, Adc
<1>1. TypeOKDirect /\ Unmoved /\ IInv
  BY DEF SearchInv
<1>2. /\ lookingForDigital \in BOOLEAN /\ lookingForAnalog \in BOOLEAN
      /\ lastDigitalValue \in [Pins -> {0, 1}] /\ volt \in [Pins -> {0, 1}]
      /\ mode \in [Pins -> {"INPUT", "INPUT_PULLUP"}]
      /\ first \in BOOLEAN /\ currentAnalog \in 1..(Len(Axes) + 1)
  BY <1>1 DEF TypeOKDirect
\* The pins put back by the end of a search.
<1>3. stopSearching =>
        /\ lookingForDigital' = FALSE /\ lookingForAnalog' = FALSE
        /\ mode' \in [Pins -> {"INPUT", "INPUT_PULLUP"}]
        /\ lastDigitalValue' \in [Pins -> {0, 1}]
  BY <1>2 DEF stopSearching, StopSearch
<1>4. CASE tickDirectInput
  <2>0. UNCHANGED <<volt, asked, moved>>
    BY <1>4 DEF tickDirectInput
  <2>1. CASE UNCHANGED <<searchVars, analogVars>>
    BY <1>0, <1>2, <2>0, <2>1, SameSearch DEF searchVars, analogVars
  <2>2. CASE /\ lookingForAnalog /\ AnalogMoved # {} /\ detectedPin' = Min(AnalogMoved)
             /\ lookingForAnalog' = FALSE
             /\ UNCHANGED <<lookingForDigital, lastDigitalValue, lastAnalogValue, mode, analogVars>>
    BY <1>0, <1>2, <2>0, <2>2, FoundPin, SameSearch DEF analogVars
  <2>3. CASE /\ lookingForDigital /\ DigitalMoved # {} /\ detectedPin' = Min(DigitalMoved)
             /\ stopSearching /\ UNCHANGED <<lastAnalogValue, analogVars>>
    BY <1>0, <1>2, <1>3, <2>0, <2>3, FoundPin, SameSearch DEF analogVars
  <2>4. CASE tickAnalog /\ UNCHANGED searchVars
    <3>1. first' \in BOOLEAN /\ currentAnalog' \in 1..(Len(Axes) + 1)
      <4>1. CASE UNCHANGED analogVars
        BY <1>2, <4>1 DEF analogVars
      <4>2. CASE Axes # <<>> /\ currentAnalog' = Following /\ first' = FALSE
        <5>1. Len(Axes) \in Nat /\ currentAnalog \in 1..Len(Axes)
          BY <1>1, <4>2, AxesAssumption DEF IInv, Position
        <5>2. currentAnalog' \in 1..(Len(Axes) + 1)
          BY <4>2, <5>1 DEF Following
        <5> QED
          BY <4>2, <5>2
      <4> QED
        BY <2>4, <4>1, <4>2 DEF tickAnalog
    <3> QED
      BY <1>0, <1>2, <2>0, <2>4, <3>1, SameSearch DEF searchVars
  <2> QED
    BY <1>4, <2>1, <2>2, <2>3, <2>4 DEF tickDirectInput
<1>5. CASE Conversion
  BY <1>0, <1>2, <1>5, SameSearch DEF Conversion, searchVars, analogVars
<1>6. CASE findDigitalPin
  <2>1. /\ lookingForDigital' = TRUE /\ asked' = TRUE /\ first' = TRUE /\ detectedPin' = NoPin
        /\ UNCHANGED <<lookingForAnalog, lastAnalogValue, volt, moved, currentAnalog>>
        /\ mode' \in [Pins -> {"INPUT", "INPUT_PULLUP"}]
        /\ lastDigitalValue' \in [Pins -> {0, 1}]
        /\ \A p \in Searched : volt[p] = lastDigitalValue'[p]
    BY <1>2, <1>6 DEF findDigitalPin, stopReading, Searched
  <2>2. TypeOKDirect'
    BY <1>0, <1>1, <2>1 DEF TypeOKDirect
  <2>3. Unmoved'
    BY <1>1, <2>1 DEF Unmoved, Searching
  <2> QED
    BY <1>0, <2>2, <2>3 DEF SearchInv
<1>7. CASE findAnalogPin
  <2>1. /\ lookingForAnalog' = TRUE /\ asked' = TRUE /\ first' = TRUE /\ detectedPin' = NoPin
        /\ UNCHANGED <<lookingForDigital, lastDigitalValue, volt, moved, currentAnalog>>
        /\ mode' \in [Pins -> {"INPUT", "INPUT_PULLUP"}]
        /\ lastAnalogValue' \in [AnalogPins -> {0, 1}]
        /\ \A p \in AnalogPins : volt[p] = lastAnalogValue'[p]
    BY <1>2, <1>7, PinsNat DEF findAnalogPin, stopReading
  <2>2. TypeOKDirect'
    BY <1>0, <1>1, <2>1 DEF TypeOKDirect
  <2>3. Unmoved'
    BY <1>1, <2>1 DEF Unmoved, Searching
  <2> QED
    BY <1>0, <2>2, <2>3 DEF SearchInv
<1>8. CASE GetFound
  <2>1. /\ lookingForDigital' = FALSE /\ lookingForAnalog' = FALSE /\ asked' = FALSE /\ moved' = {}
        /\ UNCHANGED <<detectedPin, lastAnalogValue, first, currentAnalog, volt>>
        /\ mode' \in [Pins -> {"INPUT", "INPUT_PULLUP"}]
        /\ lastDigitalValue' \in [Pins -> {0, 1}]
    BY <1>3, <1>8 DEF GetFound, analogVars
  <2>2. TypeOKDirect'
    BY <1>0, <1>1, <2>1 DEF TypeOKDirect
  <2>3. Unmoved'
    BY <2>1 DEF Unmoved, Searching
  <2> QED
    BY <1>0, <2>2, <2>3 DEF SearchInv
<1>9. CASE \E p \in Pins : MovePin(p)
  <2>1. PICK p \in Pins : MovePin(p)
    BY <1>9
  <2>2. /\ volt' \in [Pins -> {0, 1}] /\ UNCHANGED <<searchVars, analogVars, adc, asked>>
        /\ \A q \in Pins \ {p} : volt'[q] = volt[q]
        /\ moved' = IF asked THEN moved \cup {p} ELSE moved
    BY <1>2, <2>1 DEF MovePin
  <2>3. TypeOKDirect'
    BY <1>0, <1>1, <2>2 DEF TypeOKDirect, searchVars, analogVars
  <2>4. Unmoved'
    BY <1>1, <2>2, PinsNat DEF Unmoved, Searching, searchVars, Searched
  <2> QED
    BY <1>0, <2>3, <2>4 DEF SearchInv
<1>10. CASE UNCHANGED directVars
  BY <1>0, <1>2, <1>10, SameSearch DEF directVars, searchVars, analogVars
<1> QED
  BY <1>4, <1>5, <1>6, <1>7, <1>8, <1>9, <1>10 DEF DirectNext

\* No search and no result outlives its answer (GetFound, findDigitalPin,
\* findAnalogPin, tickDirectInput): what COMMAND_GET_FOUND reports moved since the
\* search was asked for, for any number of pins and however the kinds are mixed.
THEOREM AnswersFresh == DirectSpec => FreshAnswer
<1>1. SearchInv /\ SearchInv' => [GetFound /\ asked => detectedPin \in moved \cup {NoPin}]_directVars
  BY DEF SearchInv, Unmoved
<1> QED
  BY InitSearchInv, NextSearchInv, <1>1, PTL DEF DirectSpec, FreshAnswer

==============================================================================
