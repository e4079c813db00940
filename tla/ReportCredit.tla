---------------------------- MODULE ReportCredit -----------------------------
(***************************************************************************)
(* The flow control between the 328p and the 16u2, reduced to who holds    *)
(* the permission ("credit") to send a report.  readyForPacket is a credit *)
(* in the 328p's hands; sending a report turns it into a report under way; *)
(* finishing the report sets checkEndpoint; a ready endpoint turns         *)
(* checkEndpoint into a FRAME_DONE under way, and its arrival sets         *)
(* readyForPacket.  Both flags can already be set when they are set again, *)
(* and then two credits merge into one.                                    *)
(***************************************************************************)
EXTENDS Integers

VARIABLES ready,    \* readyForPacket
          reports,  \* report frames the 16u2 has not finished
          check,    \* checkEndpoint
          dones     \* FRAME_DONE bytes the 328p has not read

vars == <<ready, reports, check, dones>>

\* Both flags start out TRUE: readyForPacket on the 328p, checkEndpoint on the
\* 16u2.
Init == ready = TRUE /\ reports = 0 /\ check = TRUE /\ dones = 0

\* 328p: the report is handed to the UART.
SendReport == /\ ready
              /\ ready' = FALSE /\ reports' = reports + 1
              /\ UNCHANGED <<check, dones>>

\* 16u2: last byte of a report.
FinishReport == /\ reports > 0
                /\ reports' = reports - 1 /\ check' = TRUE
                /\ UNCHANGED <<ready, dones>>

\* 16u2: the endpoint is ready, FRAME_DONE is queued.
SendDone == /\ check
            /\ check' = FALSE /\ dones' = dones + 1
            /\ UNCHANGED <<ready, reports>>

\* 328p: FRAME_DONE is read.
ReceiveDone == /\ dones > 0
               /\ dones' = dones - 1 /\ ready' = TRUE
               /\ UNCHANGED <<reports, check>>

Next == SendReport \/ FinishReport \/ SendDone \/ ReceiveDone

Spec == Init /\ [][Next]_vars

Held(flag) == IF flag THEN 1 ELSE 0

TypeOK == /\ ready \in BOOLEAN /\ check \in BOOLEAN
          /\ reports \in Nat /\ dones \in Nat

Credits == Held(ready) + reports + Held(check) + dones

\* The credit is never lost (the 328p would fall silent for ever) and there are
\* never more than the two that exist at power-up.
CreditBound == Credits \in 1..2

\* Hence the 328p's transmit ring holds at most two reports at a time.
ReportsBounded == reports <= 2
==============================================================================
