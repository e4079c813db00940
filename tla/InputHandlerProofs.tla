------------------------- MODULE InputHandlerProofs --------------------------
(***************************************************************************)
(* The debouncing of the strum, for any debounce times, any buttons with a *)
(* pin and any of the mappings: changes of a merged strum are apart, and a *)
(* poll leaves a direction out of date only while its time runs.           *)
(***************************************************************************)
EXTENDS InputHandler, TLAPS

UP   == XBOX_DPAD_UP
DOWN == XBOX_DPAD_DOWN

HandlerType ==
  /\ level \in [Buttons -> BOOLEAN] /\ buttons \in [Buttons -> BOOLEAN]
  /\ age \in [Buttons -> Nat] /\ quiet \in Nat /\ l_y \in {-1, 0, 1} /\ changes \in Nat

\* The time both directions share is restarted by every change of either, and by
\* more than that: it is never ahead of the time since the last change.
HandlerInv == HandlerType /\ (mergedStrum => age[DOWN] <= quiet)

LEMMA StrumButtons ==
  /\ UP \in Buttons /\ DOWN \in Buttons /\ UP # DOWN /\ Strum = {UP, DOWN} /\ Strum \subseteq Buttons
  /\ XBOX_START \notin Strum /\ XBOX_BACK \notin Strum /\ XBOX_HOME \notin Strum
BY DEF UP, DOWN, Strum, Buttons, XBOX_DPAD_UP, XBOX_DPAD_DOWN, XBOX_START, XBOX_BACK, XBOX_HOME

\* What the two directions use.
LEMMA TimerStrum ==
  /\ Timer(DOWN) = DOWN /\ (mergedStrum => Timer(UP) = DOWN) /\ (~mergedStrum => Timer(UP) = UP)
  /\ \A b \in Buttons : Timer(b) \in Buttons
  /\ \A b \in Buttons \ Strum : Timer(b) = b
  /\ \A b \in Strum : milliDeBounce(b) = StrumDebounce /\ milliDeBounce(Timer(b)) = StrumDebounce
BY StrumButtons DEF Timer, milliDeBounce, UP, DOWN

\* A strum bit that is not what is held differs from it, bit 1 as well as bit 0.
LEMMA StrumDiffers ==
  ASSUME HandlerType, NEW b \in Strum, level[b] # buttons[b] PROVE Differs(b)
<1>1. level[b] \in BOOLEAN /\ buttons[b] \in BOOLEAN
  BY StrumButtons DEF HandlerType
<1>2. 2 ^ 0 = 1 /\ 2 ^ 1 = 2
  OBVIOUS
<1>3. b = 0 \/ b = 1
  BY StrumButtons DEF Strum, XBOX_DPAD_UP, XBOX_DPAD_DOWN
<1>4. 2 ^ b # 0
  <2>1. CASE b = 0
    BY <1>2, <2>1
  <2>2. CASE b = 1
    BY <1>2, <2>2
  <2>3. QED
    BY <1>3, <2>1, <2>2
<1>5. PICK w : w = 2 ^ b
  OBVIOUS
<1>6. w # 0
  BY <1>4, <1>5
<1>7. (IF level[b] THEN 1 ELSE 0) # (IF buttons[b] THEN w ELSE 0)
  BY <1>1, <1>6
<1>8. QED
  BY <1>5, <1>7 DEF Differs

LEMMA AgeAfterUpType ==
  ASSUME HandlerType PROVE AgeAfterUp \in [Buttons -> Nat] /\ \A b \in Buttons : AgeAfterUp[b] \in {0, age[b]}
BY TimerStrum, StrumButtons DEF HandlerType, AgeAfterUp, UP

\* With a merged strum the directions never both fire, and only after the time.
LEMMA OneFires ==
  ASSUME HandlerType, mergedStrum, NEW b \in Strum, b \in Fired
  PROVE  age[DOWN] > StrumDebounce /\ \A c \in Strum : c \in Fired => c = b
<1>0. StrumDebounce \in Nat /\ age[DOWN] \in Nat
  BY DebounceAssumption, StrumButtons DEF HandlerType
<1>1. ASSUME UP \in Fired PROVE age[DOWN] > StrumDebounce /\ DOWN \notin Fired
  <2>1. Fires(UP, age)
    BY <1>1 DEF Fired, UP
  <2>2. age[DOWN] > StrumDebounce
    BY <2>1, TimerStrum, StrumButtons DEF Fires
  <2>3. AgeAfterUp = [age EXCEPT ![DOWN] = 0]
    BY <2>1, TimerStrum DEF AgeAfterUp, UP
  <2>4. AgeAfterUp[DOWN] = 0
    BY <2>3, StrumButtons DEF HandlerType
  <2>5. ~Fires(DOWN, AgeAfterUp)
    BY <1>0, <2>4, TimerStrum, StrumButtons DEF Fires
  <2>6. QED
    BY <2>2, <2>5, StrumButtons DEF Fired, UP, DOWN
<1>2. ASSUME DOWN \in Fired PROVE age[DOWN] > StrumDebounce
  <2>1. Fires(DOWN, AgeAfterUp)
    BY <1>2, StrumButtons DEF Fired, UP, DOWN
  <2>2. AgeAfterUp[DOWN] > StrumDebounce
    BY <2>1, TimerStrum, StrumButtons DEF Fires
  <2>3. AgeAfterUp[DOWN] \in {0, age[DOWN]}
    BY AgeAfterUpType, StrumButtons
  <2>4. QED
    BY <1>0, <2>2, <2>3
<1>3. QED
  BY <1>1, <1>2, StrumButtons

LEMMA HandlerInit == Init => HandlerInv
BY StrumButtons DEF Init, HandlerInv, HandlerType

LEMMA OlderMonotone ==
  ASSUME NEW x \in Nat, NEW y \in Nat, x <= y
  PROVE  Older(x) \in Nat /\ Older(y) \in Nat /\ Older(x) <= Older(y)
<1>1. Cap \in Nat
  BY DebounceAssumption DEF Cap
<1>2. QED
  BY <1>1 DEF Older

LEMMA TickType ==
  ASSUME HandlerType, tickInputs PROVE HandlerType'
<1>1. UNCHANGED <<level, l_y, changes>> /\ age' \in [Buttons -> Nat] /\ quiet' \in Nat
  BY DEF tickInputs, HandlerType
<1>2. Read \in [Buttons -> BOOLEAN]
  BY DEF Read, HandlerType
<1>3. CheckJoy(Read) \in [Buttons -> BOOLEAN]
  BY DEF CheckJoy
<1>4. MapHome(CheckJoy(Read)) \in [Buttons -> BOOLEAN]
  BY <1>3 DEF MapHome
<1>5. QED
  BY <1>1, <1>4 DEF tickInputs, HandlerType

LEMMA HandlerStep == HandlerInv /\ [Next]_vars => HandlerInv'
<1> SUFFICES ASSUME HandlerInv, [Next]_vars PROVE HandlerInv'
  OBVIOUS
<1>0. HandlerType /\ (mergedStrum => age[DOWN] <= quiet) /\ DOWN \in Buttons
  BY StrumButtons DEF HandlerInv
<1>1. CASE tickInputs
  <2>1. HandlerType'
    BY <1>0, <1>1, TickType
  <2>2. ASSUME mergedStrum PROVE age'[DOWN] <= quiet'
    <3>1. age'[DOWN] = IF \E f \in Fired : Timer(f) = DOWN THEN 0 ELSE age[DOWN]
      BY <1>0, <1>1 DEF tickInputs
    <3>2. age[DOWN] \in Nat /\ quiet \in Nat /\ quiet' \in Nat
      BY <1>0, <2>1 DEF HandlerType
    <3>3. CASE StrumRead
      <4>1. PICK b \in Strum : b \in Fired
        BY <3>3, StrumButtons DEF StrumRead, Read
      <4>2. Timer(b) = DOWN
        BY <2>2, TimerStrum, StrumButtons
      <4>3. QED
        BY <3>1, <3>2, <4>1, <4>2
    <3>4. CASE ~StrumRead
      <4>1. quiet' = quiet
        BY <1>1, <3>4 DEF tickInputs
      <4>2. QED
        BY <1>0, <2>2, <3>1, <3>2, <4>1
    <3>5. QED
      BY <3>3, <3>4
  <2>3. QED
    BY <2>1, <2>2 DEF HandlerInv
<1>2. CASE Millisecond
  <2>1. \A t \in Nat : Older(t) \in Nat
    BY OlderMonotone
  <2>2. HandlerType'
    BY <1>0, <1>2, <2>1 DEF Millisecond, HandlerType
  <2>3. age'[DOWN] = Older(age[DOWN]) /\ quiet' = Older(quiet) /\ age[DOWN] \in Nat /\ quiet \in Nat
    BY <1>0, <1>2 DEF Millisecond, HandlerType
  <2>4. mergedStrum => age'[DOWN] <= quiet'
    BY <1>0, <2>3, OlderMonotone
  <2>5. QED
    BY <2>2, <2>4 DEF HandlerInv
<1>3. CASE MoveStick
  BY <1>0, <1>3 DEF MoveStick, HandlerType, HandlerInv
<1>4. ASSUME NEW b \in Buttons, Press(b) PROVE HandlerInv'
  BY <1>0, <1>4 DEF Press, HandlerType, HandlerInv
<1>5. CASE UNCHANGED vars
  BY <1>0, <1>5 DEF vars, HandlerType, HandlerInv
<1>6. QED
  BY <1>1, <1>2, <1>3, <1>4, <1>5 DEF Next

\* For any debounce times and mappings, two changes read from a merged strum, of the
\* same direction or of both, are further apart than the debounce time
\* (input_handler.c:61: pin2 is the DOWN pin for both).
THEOREM MergedStrumSpaced == Spec => StrumSpacing
<1>1. HandlerInv /\ [Next]_vars =>
        [mergedStrum /\ tickInputs /\ StrumRead =>
           /\ quiet > StrumDebounce
           /\ \E b \in Strum : Read[b] = buttons[b]]_vars
  <2> SUFFICES ASSUME HandlerInv, mergedStrum, StrumRead
               PROVE  quiet > StrumDebounce /\ \E b \in Strum : Read[b] = buttons[b]
    OBVIOUS
  <2>0. HandlerType /\ age[DOWN] <= quiet
    BY DEF HandlerInv
  <2>1. PICK b \in Strum : b \in Fired
    BY StrumButtons DEF StrumRead, Read
  <2>2. age[DOWN] > StrumDebounce /\ \A c \in Strum : c \in Fired => c = b
    BY <2>0, <2>1, OneFires
  <2>3. PICK c \in Strum : c # b
    BY StrumButtons
  <2>4. c \notin Fired
    BY <2>2, <2>3
  <2>5. Read[c] = buttons[c]
    BY <2>3, <2>4, StrumButtons DEF Read
  <2>6. quiet > StrumDebounce
    <3>1. age[DOWN] \in Nat /\ quiet \in Nat /\ StrumDebounce \in Nat
      BY <2>0, DebounceAssumption, StrumButtons DEF HandlerType
    <3>2. QED
      BY <2>0, <2>2, <3>1
  <2>7. QED
    BY <2>5, <2>6
<1>2. QED
  BY HandlerInit, HandlerStep, <1>1, PTL DEF Spec, StrumSpacing

\* A direction the poll does not fire although it is out of date.
LEMMA NotFired ==
  ASSUME HandlerType, NEW b \in Valid \cap Strum, b \notin Fired, level[b] # buttons[b], tickInputs
  PROVE  age'[Timer(b)] <= StrumDebounce
<1>1. b \in Buttons /\ Differs(b) /\ Timer(b) \in Buttons /\ milliDeBounce(Timer(b)) = StrumDebounce
  BY StrumDiffers, StrumButtons, TimerStrum
<1>2. PICK t : t = IF b = UP THEN age ELSE AgeAfterUp
  OBVIOUS
<1>3. ~(t[Timer(b)] > StrumDebounce)
  BY <1>1, <1>2 DEF Fired, Fires, UP
<1>4. age'[Timer(b)] = IF \E f \in Fired : Timer(f) = Timer(b) THEN 0 ELSE age[Timer(b)]
  BY <1>1 DEF tickInputs
<1>5. age[Timer(b)] \in Nat /\ StrumDebounce \in Nat
  BY <1>1, DebounceAssumption DEF HandlerType
<1>6. CASE \E f \in Fired : Timer(f) = Timer(b)
  BY <1>4, <1>5, <1>6
<1>7. CASE ~\E f \in Fired : Timer(f) = Timer(b)
  <2>1. t[Timer(b)] = age[Timer(b)]
    <3>1. CASE b = UP
      BY <1>2, <3>1
    <3>2. CASE b # UP /\ Fires(UP, age)
      <4>1. UP \in Fired
        BY <3>2, StrumButtons DEF Fired, UP
      <4>2. Timer(UP) # Timer(b)
        BY <1>7, <4>1
      <4>3. AgeAfterUp = [age EXCEPT ![Timer(UP)] = 0]
        BY <3>2 DEF AgeAfterUp, UP
      <4>4. QED
        BY <1>1, <1>2, <3>2, <4>2, <4>3 DEF HandlerType
    <3>3. CASE b # UP /\ ~Fires(UP, age)
      BY <1>2, <3>3 DEF AgeAfterUp, UP
    <3>4. QED
      BY <3>1, <3>2, <3>3
  <2>2. QED
    BY <1>3, <1>4, <1>5, <1>7, <2>1
<1>8. QED
  BY <1>6, <1>7

\* For any debounce times and mappings, a poll that leaves a strum direction other
\* than it is held does so only while the time it uses runs: no release and no
\* press of a direction at rest is missed, merged strum or not.
THEOREM StrumNotStale == Spec => NoStale
<1>1. HandlerInv /\ [Next]_vars =>
        [tickInputs => \A b \in Valid \cap Strum :
           buttons'[b] # level[b] /\ (mapJoyLeftDpad => l_y = 0)
             => age'[Timer(b)] <= milliDeBounce(b)]_vars
  <2> SUFFICES ASSUME HandlerInv, tickInputs, NEW b \in Valid \cap Strum,
                      buttons'[b] # level[b], mapJoyLeftDpad => l_y = 0
               PROVE  age'[Timer(b)] <= milliDeBounce(b)
    OBVIOUS
  <2>0. HandlerType /\ b \in Strum /\ b \in Buttons
    BY StrumButtons DEF HandlerInv
  <2>1. buttons'[b] = CheckJoy(Read)[b]
    <3>0. CheckJoy(Read) \in [Buttons -> BOOLEAN]
      BY DEF CheckJoy
    <3>1. PICK bits : bits = CheckJoy(Read) /\ bits \in [Buttons -> BOOLEAN]
      BY <3>0
    <3>2. MapHome(bits)[b] = bits[b]
      BY <2>0, <3>1, StrumButtons DEF MapHome
    <3>3. QED
      BY <3>1, <3>2 DEF tickInputs
  <2>2. Read[b] \in BOOLEAN
    BY <2>0 DEF Read, HandlerType
  <2>3. CheckJoy(Read)[b] = Read[b]
    <3>1. CheckJoy(Read)[b] = (\/ Read[b]
                               \/ mapJoyLeftDpad /\ b = XBOX_DPAD_DOWN /\ l_y < 0
                               \/ mapJoyLeftDpad /\ b = XBOX_DPAD_UP /\ l_y > 0)
      BY <2>0 DEF CheckJoy
    <3>2. ~(mapJoyLeftDpad /\ l_y < 0) /\ ~(mapJoyLeftDpad /\ l_y > 0)
      OBVIOUS
    <3>3. QED
      BY <2>2, <3>1, <3>2, Zenon
  <2>4. b \notin Fired /\ level[b] # buttons[b]
    BY <2>0, <2>1, <2>3 DEF Read
  <2>5. milliDeBounce(b) = StrumDebounce
    BY <2>0, TimerStrum
  <2>6. QED
    BY <2>0, <2>4, <2>5, NotFired
<1>2. QED
  BY HandlerInit, HandlerStep, <1>1, PTL DEF Spec, NoStale
==============================================================================
