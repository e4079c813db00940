----------------------------- MODULE InputDevices ----------------------------
(***************************************************************************)
(* The input drivers behind tickInputs: initInputs picks one tick_function *)
(* for the life of the program.  tickDirectInput runs with any of them; it *)
(* shares nothing with the other two and is taken on its own, as it is     *)
(* when everything is wired directly.                                      *)
(***************************************************************************)
EXTENDS WiiExt, Ps2, DirectInput

VARIABLE inputType     \* config.main.inputType

vars == <<inputType, twiVars, wiiVars, ps2Vars, directVars>>

\* initInputs.  Nothing is plugged into the socket that is not used.
Init ==
  /\ InitWii /\ InitPs2 /\ InitDirect
  /\ inputType \in {"WII", "DIRECT", "PS2"}
  /\ inputType # "PS2" => pad = NoPad /\ player = "up"
  /\ inputType # "WII" => plugged = "none" /\ level = "up"

\* tickInputs, as far as it goes to the drivers
Wii(A) == inputType = "WII" /\ A /\ UNCHANGED <<inputType, ps2Vars, directVars>>
PS2(A) == inputType = "PS2" /\ A /\ UNCHANGED <<inputType, twiVars, wiiVars, directVars>>
Direct(A) == inputType = "DIRECT" /\ A /\ UNCHANGED <<inputType, twiVars, wiiVars, ps2Vars>>

Next == Wii(WiiNext) \/ PS2(Ps2Next) \/ Direct(DirectNext)

\* The main loop runs, and so do the TWI interrupt with the bus and the
\* converter; nobody is obliged to play, to break the bus, to let go of it or to
\* send commands.
MainLoop == Wii(WiiProgram \/ Driver) \/ PS2(Ps2Program) \/ Direct(tickDirectInput)
Hardware == Wii(Bus) \/ Direct(Conversion)
Fairness == WF_vars(MainLoop) /\ WF_vars(Hardware)

Spec == Init /\ [][Next]_vars /\ Fairness

TypeOK == TypeOKWii /\ TypeOKPs2 /\ TypeOKDirect /\ inputType \in {"WII", "DIRECT", "PS2"}
==============================================================================
