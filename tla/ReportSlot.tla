----------------------------- MODULE ReportSlot ------------------------------
(***************************************************************************)
(* What the Uno's two micro-controllers together promise the player: the   *)
(* path from the 328p to the host is a single slot.  A controller state    *)
(* enters it only when it differs from the last one and the previous one   *)
(* has been collected, every state that enters is shown to the host, in    *)
(* order and unaltered, and none stays in the slot for ever.               *)
(***************************************************************************)
CONSTANT States, Neutral

VARIABLES last,   \* the state put into the slot most recently
          full,   \* whether the host has yet to collect it
          shown   \* the state the host saw most recently

vars == <<last, full, shown>>

Init == last = Neutral /\ ~full /\ shown = Neutral

Put(s) == /\ ~full /\ s # last
          /\ last' = s /\ full' = TRUE
          /\ UNCHANGED shown

Collect == /\ full
           /\ shown' = last /\ full' = FALSE
           /\ UNCHANGED last

Next == Collect \/ \E s \in States : Put(s)

Spec == Init /\ [][Next]_vars /\ WF_vars(Collect)
==============================================================================
