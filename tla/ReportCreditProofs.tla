------------------------- MODULE ReportCreditProofs --------------------------
(***************************************************************************)
(* The credit account of ReportCredit is never empty and never above two.  *)
(***************************************************************************)
EXTENDS ReportCredit, TLAPS

\* The account is its own inductive invariant once the counters are naturals.
Inv == TypeOK /\ CreditBound

LEMMA InitInv == Init => Inv
BY DEF Init, Inv, TypeOK, CreditBound, Credits, Held

\* What a flag holds, and what setting or clearing it makes of that.
LEMMA HeldValue ==
  ASSUME NEW flag \in BOOLEAN
  PROVE  /\ Held(flag) \in 0..1
         /\ Held(TRUE) = 1 /\ Held(FALSE) = 0
         /\ flag => Held(flag) = 1
BY DEF Held

\* The arithmetic of a step, apart from the flags that guard it.
LEMMA Arithmetic ==
  ASSUME NEW r \in 0..1, NEW n \in Nat, NEW c \in 0..1, NEW d \in Nat, r + n + c + d \in 1..2
  PROVE  /\ r = 1 => 0 + (n + 1) + c + d \in 1..2
         /\ n > 0 => r + (n - 1) + 1 + d \in 1..2 /\ n - 1 \in Nat
         /\ c = 1 => r + n + 0 + (d + 1) \in 1..2
         /\ d > 0 => 1 + n + c + (d - 1) \in 1..2 /\ d - 1 \in Nat
OBVIOUS

LEMMA NextInv == Inv /\ [Next]_vars => Inv'
<1> SUFFICES ASSUME Inv, [Next]_vars PROVE Inv'
  OBVIOUS
<1>0. /\ Held(ready) \in 0..1 /\ Held(check) \in 0..1
      /\ reports \in Nat /\ dones \in Nat
      /\ Held(ready) + reports + Held(check) + dones \in 1..2
  BY HeldValue DEF Inv, TypeOK, CreditBound, Credits
<1>1. CASE SendReport
  <2>1. Held(ready) = 1 /\ Held(ready') = 0 /\ Held(check') = Held(check)
    BY <1>1, HeldValue DEF SendReport, Inv, TypeOK
  <2>2. reports' = reports + 1 /\ dones' = dones
    BY <1>1 DEF SendReport
  <2>3. CreditBound'
    BY <1>0, <2>1, <2>2, Arithmetic DEF CreditBound, Credits
  <2>4. ready' \in BOOLEAN /\ check' \in BOOLEAN
    BY <1>1, Zenon DEF SendReport, Inv, TypeOK
  <2>5. reports' \in Nat /\ dones' \in Nat
    BY <1>0, <2>2
  <2>6. QED
    BY <2>3, <2>4, <2>5, Zenon DEF Inv, TypeOK
<1>2. CASE FinishReport
  <2>1. Held(check') = 1 /\ Held(ready') = Held(ready)
    BY <1>2, HeldValue DEF FinishReport, Inv, TypeOK
  <2>2. reports > 0 /\ reports' = reports - 1 /\ dones' = dones
    BY <1>2 DEF FinishReport
  <2>3. CreditBound' /\ reports' \in Nat /\ dones' \in Nat
    BY <1>0, <2>1, <2>2, Arithmetic DEF CreditBound, Credits
  <2>4. ready' \in BOOLEAN /\ check' \in BOOLEAN
    BY <1>2, Zenon DEF FinishReport, Inv, TypeOK
  <2>5. QED
    BY <2>3, <2>4, Zenon DEF Inv, TypeOK
<1>3. CASE SendDone
  <2>1. Held(check) = 1 /\ Held(check') = 0 /\ Held(ready') = Held(ready)
    BY <1>3, HeldValue DEF SendDone, Inv, TypeOK
  <2>2. dones' = dones + 1 /\ reports' = reports
    BY <1>3 DEF SendDone
  <2>3. CreditBound'
    BY <1>0, <2>1, <2>2, Arithmetic DEF CreditBound, Credits
  <2>4. ready' \in BOOLEAN /\ check' \in BOOLEAN
    BY <1>3, Zenon DEF SendDone, Inv, TypeOK
  <2>5. reports' \in Nat /\ dones' \in Nat
    BY <1>0, <2>2
  <2>6. QED
    BY <2>3, <2>4, <2>5, Zenon DEF Inv, TypeOK
<1>4. CASE ReceiveDone
  <2>1. Held(ready') = 1 /\ Held(check') = Held(check)
    BY <1>4, HeldValue DEF ReceiveDone, Inv, TypeOK
  <2>2. dones > 0 /\ dones' = dones - 1 /\ reports' = reports
    BY <1>4 DEF ReceiveDone
  <2>3. CreditBound' /\ reports' \in Nat /\ dones' \in Nat
    BY <1>0, <2>1, <2>2, Arithmetic DEF CreditBound, Credits
  <2>4. ready' \in BOOLEAN /\ check' \in BOOLEAN
    BY <1>4, Zenon DEF ReceiveDone, Inv, TypeOK
  <2>5. QED
    BY <2>3, <2>4, Zenon DEF Inv, TypeOK
<1>5. CASE UNCHANGED vars
  BY <1>5 DEF vars, Inv, TypeOK, CreditBound, Credits
<1>6. QED
  BY <1>1, <1>2, <1>3, <1>4, <1>5 DEF Next

\* With a single permission about, every step moves it and none makes another.
Single == TypeOK /\ Credits = 1

LEMMA ArithmeticOne ==
  ASSUME NEW r \in 0..1, NEW n \in Nat, NEW c \in 0..1, NEW d \in Nat, r + n + c + d = 1
  PROVE  /\ r = 1 => 0 + (n + 1) + c + d = 1
         /\ n > 0 => r + (n - 1) + 1 + d = 1 /\ n - 1 \in Nat
         /\ c = 1 => r + n + 0 + (d + 1) = 1
         /\ d > 0 => 1 + n + c + (d - 1) = 1 /\ d - 1 \in Nat
OBVIOUS

LEMMA NextSingle == Single /\ [Next]_vars => Single'
<1> SUFFICES ASSUME Single, [Next]_vars PROVE Single'
  OBVIOUS
<1>0. /\ Held(ready) \in 0..1 /\ Held(check) \in 0..1
      /\ reports \in Nat /\ dones \in Nat
      /\ Held(ready) + reports + Held(check) + dones = 1
  BY HeldValue DEF Single, TypeOK, Credits
<1>1. CASE SendReport
  <2>1. Held(ready) = 1 /\ Held(ready') = 0 /\ Held(check') = Held(check)
    BY <1>1, HeldValue DEF SendReport, Single, TypeOK
  <2>2. reports' = reports + 1 /\ dones' = dones
    BY <1>1 DEF SendReport
  <2>3. Credits' = 1
    BY <1>0, <2>1, <2>2, ArithmeticOne DEF Credits
  <2>4. ready' \in BOOLEAN /\ check' \in BOOLEAN
    BY <1>1, Zenon DEF SendReport, Single, TypeOK
  <2>5. reports' \in Nat /\ dones' \in Nat
    BY <1>0, <2>2
  <2>6. QED
    BY <2>3, <2>4, <2>5, Zenon DEF Single, TypeOK
<1>2. CASE FinishReport
  <2>1. Held(check') = 1 /\ Held(ready') = Held(ready)
    BY <1>2, HeldValue DEF FinishReport, Single, TypeOK
  <2>2. reports > 0 /\ reports' = reports - 1 /\ dones' = dones
    BY <1>2 DEF FinishReport
  <2>3. Credits' = 1 /\ reports' \in Nat /\ dones' \in Nat
    BY <1>0, <2>1, <2>2, ArithmeticOne DEF Credits
  <2>4. ready' \in BOOLEAN /\ check' \in BOOLEAN
    BY <1>2, Zenon DEF FinishReport, Single, TypeOK
  <2>5. QED
    BY <2>3, <2>4, Zenon DEF Single, TypeOK
<1>3. CASE SendDone
  <2>1. Held(check) = 1 /\ Held(check') = 0 /\ Held(ready') = Held(ready)
    BY <1>3, HeldValue DEF SendDone, Single, TypeOK
  <2>2. dones' = dones + 1 /\ reports' = reports
    BY <1>3 DEF SendDone
  <2>3. Credits' = 1
    BY <1>0, <2>1, <2>2, ArithmeticOne DEF Credits
  <2>4. ready' \in BOOLEAN /\ check' \in BOOLEAN
    BY <1>3, Zenon DEF SendDone, Single, TypeOK
  <2>5. reports' \in Nat /\ dones' \in Nat
    BY <1>0, <2>2
  <2>6. QED
    BY <2>3, <2>4, <2>5, Zenon DEF Single, TypeOK
<1>4. CASE ReceiveDone
  <2>1. Held(ready') = 1 /\ Held(check') = Held(check)
    BY <1>4, HeldValue DEF ReceiveDone, Single, TypeOK
  <2>2. dones > 0 /\ dones' = dones - 1 /\ reports' = reports
    BY <1>4 DEF ReceiveDone
  <2>3. Credits' = 1 /\ reports' \in Nat /\ dones' \in Nat
    BY <1>0, <2>1, <2>2, ArithmeticOne DEF Credits
  <2>4. ready' \in BOOLEAN /\ check' \in BOOLEAN
    BY <1>4, Zenon DEF ReceiveDone, Single, TypeOK
  <2>5. QED
    BY <2>3, <2>4, Zenon DEF Single, TypeOK
<1>5. CASE UNCHANGED vars
  BY <1>5 DEF vars, Single, TypeOK, Credits
<1>6. QED
  BY <1>1, <1>2, <1>3, <1>4, <1>5 DEF Next

\* However the 328p and the 16u2 interleave, the permission to send a report is
\* never lost, and readyForPacket and checkEndpoint both starting out set never
\* grows into more than two permissions.
THEOREM CreditKept == Spec => []CreditBound
<1>1. Inv => CreditBound
  BY DEF Inv
<1>2. QED
  BY <1>1, InitInv, NextInv, PTL DEF Spec

\* The 328p's transmit ring, which nothing else protects, is offered at most
\* two reports the 16u2 has not finished.
THEOREM AtMostTwoReports == Spec => []ReportsBounded
<1>1. Inv => ReportsBounded
  BY DEF Inv, TypeOK, CreditBound, Credits, Held, ReportsBounded
<1>2. QED
  BY <1>1, InitInv, NextInv, PTL DEF Spec
==============================================================================
