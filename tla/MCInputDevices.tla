---------------------------- MODULE MCInputDevices ---------------------------
(***************************************************************************)
(* Constants for model checking InputDevices.                              *)
(***************************************************************************)
EXTENDS InputDevices

\* Two axes, on the two pins, both analog.
MCAxes == <<1, 2>>
==============================================================================
