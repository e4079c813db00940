---------------------------- MODULE InputHandler -----------------------------
(***************************************************************************)
(* tickInputs (shared/input/input_handler.c): the buttons are polled and   *)
(* debounced, the left stick and START + BACK are mapped onto further      *)
(* buttons, all in place in controller->buttons, so that each poll starts  *)
(* from what the mappings left there.                                      *)
(*                                                                         *)
(* A time is kept as the milliseconds since it, up to the first value that *)
(* exceeds every debounce time.  The buttons modelled are the ones that    *)
(* share state: the two strum directions and the three of the HOME         *)
(* mapping.  The device is a guitar, so its strum has a time of its own.   *)
(* The drivers behind read_button_function and the stick, and the whammy   *)
(* and tilt axes, which touch no button, are left out: level and l_y are   *)
(* what they deliver.                                                      *)
(***************************************************************************)
EXTENDS Integers

CONSTANTS
  Valid,            \* buttons with an entry in pinData
  ButtonDebounce, StrumDebounce,
  mergedStrum, mapJoyLeftDpad, mapStartSelectHome,
  MaxChanges        \* bound on what the player does

XBOX_DPAD_UP   == 0
XBOX_DPAD_DOWN == 1
XBOX_START     == 4
XBOX_BACK      == 5
XBOX_HOME      == 10
Strum   == {XBOX_DPAD_UP, XBOX_DPAD_DOWN}
Buttons == Strum \cup {XBOX_START, XBOX_BACK, XBOX_HOME}

\* pinData is compacted, so index and button agree for the strum only if both
\* directions have a pin.
ASSUME ValidAssumption == Valid \subseteq Buttons /\ (mergedStrum => Strum \subseteq Valid)
ASSUME DebounceAssumption ==
  ButtonDebounce \in Nat /\ StrumDebounce \in Nat /\ MaxChanges \in Nat
ASSUME FlagAssumption ==
  mergedStrum \in BOOLEAN /\ mapJoyLeftDpad \in BOOLEAN /\ mapStartSelectHome \in BOOLEAN

VARIABLES
  level,     \* what read_button_function returns
  l_y,       \* the stick: -1, 0 or 1 for below, within, above the threshold
  buttons,   \* controller->buttons
  age,       \* millis() - lastMillis
  quiet,     \* history: time since a strum direction last changed
  changes    \* history: what the player has done so far

vars == <<level, l_y, buttons, age, quiet, changes>>

milliDeBounce(b) == IF b \in Strum THEN StrumDebounce ELSE ButtonDebounce
Cap == (IF ButtonDebounce > StrumDebounce THEN ButtonDebounce ELSE StrumDebounce) + 1

Init ==
  /\ level = [b \in Buttons |-> FALSE] /\ l_y = 0
  /\ buttons = [b \in Buttons |-> FALSE]
  /\ age = [b \in Buttons |-> 0] /\ quiet = 0 /\ changes = 0

------------------------------------------------------------------------------
\* The button whose debounce data are used for b (pin2).
TimerOwn(b) == b
Timer(b) == IF mergedStrum /\ b = XBOX_DPAD_UP THEN XBOX_DPAD_DOWN ELSE b

\* val != bit_check(...): a Boolean against a bit in place, so a button that is
\* held and reported still differs unless its bit is bit 0.
DiffersPressed(b) == level[b] /\ ~buttons[b]
Differs(b) == (IF level[b] THEN 1 ELSE 0) # (IF buttons[b] THEN 2 ^ b ELSE 0)

\* Whether the loop stores button b, with times t.
Fires(b, t) == b \in Valid /\ t[Timer(b)] > milliDeBounce(Timer(b)) /\ Differs(b)

\* The loop.  Only UP, the first, uses another button's time, so the others see
\* the times that UP leaves and are independent of each other.
AgeAfterUp == IF Fires(XBOX_DPAD_UP, age) THEN [age EXCEPT ![Timer(XBOX_DPAD_UP)] = 0] ELSE age
Fired == {b \in Buttons : Fires(b, IF b = XBOX_DPAD_UP THEN age ELSE AgeAfterUp)}
Read  == [b \in Buttons |-> IF b \in Fired THEN level[b] ELSE buttons[b]]

\* CHECK_JOY of the vertical axis sets a bit and clears none.  The horizontal one
\* does the same to two buttons that share nothing.
CheckJoyLoose(bits) ==
  [b \in Buttons |->
     \/ bits[b]
     \/ mapJoyLeftDpad /\ b = XBOX_DPAD_DOWN /\ l_y < 0
     \/ mapJoyLeftDpad /\ b = XBOX_DPAD_UP /\ l_y >= 0]
CheckJoy(bits) ==
  [b \in Buttons |->
     \/ bits[b]
     \/ mapJoyLeftDpad /\ b = XBOX_DPAD_DOWN /\ l_y < 0
     \/ mapJoyLeftDpad /\ b = XBOX_DPAD_UP /\ l_y > 0]

\* START and BACK together become HOME.
MapHomeClears(bits) ==
  IF mapStartSelectHome /\ bits[XBOX_START] /\ bits[XBOX_BACK]
    THEN [b \in Buttons |-> b \in Strum /\ bits[b]]
    ELSE bits
MapHome(bits) ==
  IF mapStartSelectHome /\ bits[XBOX_START] /\ bits[XBOX_BACK]
    THEN [bits EXCEPT ![XBOX_START] = FALSE, ![XBOX_BACK] = FALSE, ![XBOX_HOME] = TRUE]
    ELSE bits

StrumRead == \E b \in Strum : Read[b] # buttons[b]

tickInputs ==
  /\ age' = [b \in Buttons |-> IF \E f \in Fired : Timer(f) = b THEN 0 ELSE age[b]]
  /\ buttons' = MapHome(CheckJoy(Read))
  /\ quiet' = IF StrumRead THEN 0 ELSE quiet
  /\ UNCHANGED <<level, l_y, changes>>

------------------------------------------------------------------------------
\* A millisecond passes; polls are neither that regular nor that frequent.
Older(t) == IF t < Cap THEN t + 1 ELSE t
Millisecond ==
  /\ age' = [b \in Buttons |-> Older(age[b])] /\ quiet' = Older(quiet)
  /\ UNCHANGED <<level, l_y, buttons, changes>>

Press(b) ==
  /\ changes < MaxChanges /\ changes' = changes + 1
  /\ level' = [level EXCEPT ![b] = ~@]
  /\ UNCHANGED <<l_y, buttons, age, quiet>>

MoveStick ==
  /\ changes < MaxChanges /\ changes' = changes + 1
  /\ l_y' \in {-1, 0, 1} \ {l_y}
  /\ UNCHANGED <<level, buttons, age, quiet>>

Next == tickInputs \/ Millisecond \/ MoveStick \/ \E b \in Buttons : Press(b)

\* The main loop polls for ever and time passes.
Spec == Init /\ [][Next]_vars /\ WF_vars(tickInputs) /\ WF_vars(Millisecond)

------------------------------------------------------------------------------
\* With merged strum, a change read from either strum direction locks both for
\* the debounce time ("grab debounce data from the same button for both",
\* input_handler.c:61): no two changes are closer, and never two in one poll.
StrumSpacing ==
  [][mergedStrum /\ tickInputs /\ StrumRead =>
       /\ quiet > StrumDebounce
       /\ \E b \in Strum : Read[b] = buttons[b]]_vars

\* With the stick at rest, a poll leaves a strum direction different from what is
\* held only while the debounce time it uses is running, although a held button
\* restarts that time again and again and the two directions share it: a release
\* is delayed, never missed.
NoStale ==
  [][tickInputs => \A b \in Valid \cap Strum :
       buttons'[b] # level[b] /\ (mapJoyLeftDpad => l_y = 0)
         => age'[Timer(b)] <= milliDeBounce(b)]_vars

Held == \E b \in Buttons : level[b]

\* When the player lets go of everything, everything is reported released: the bits
\* the mappings set are cleared by the poll, although no pin set them.
AllReleased == (~Held /\ l_y = 0) ~> (Held \/ l_y # 0 \/ \A b \in Buttons : ~buttons[b])

\* START and BACK held together are reported as HOME, although their debounce
\* times run separately and the mapping clears the bits the poll compares with.
HomeReached ==
  (level[XBOX_START] /\ level[XBOX_BACK]) ~>
    (buttons[XBOX_HOME] \/ ~level[XBOX_START] \/ ~level[XBOX_BACK])
==============================================================================
