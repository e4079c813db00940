------------------------------- MODULE UsartTx -------------------------------
(***************************************************************************)
(* The two transmit rings between a main loop that writes and a "data      *)
(* register empty" interrupt that reads, instruction order and all.        *)
(*                                                                         *)
(* On the 328p (prefix m) the ring is LUFA's RingBuffer_t with a Count,    *)
(* and the interrupt tests it before reading.  On the 16u2 (prefix u) it   *)
(* is two pointers, and the interrupt reads first and tests afterwards.    *)
(* In both, the program re-enables the interrupt after each write.         *)
(*                                                                         *)
(* The bytes written are numbered 0, 1, 2, ... and a slot holds the number *)
(* of the byte last stored there, so the order on the line can be stated   *)
(* without a history: mGot bytes have been sent, and mLine is the last.    *)
(***************************************************************************)
EXTENDS Integers

CONSTANTS
  N,         \* length of either ring (128)
  MaxLen,    \* longest writeData call on the 328p
  MaxIsr,    \* interrupts that can fall between publishing and re-enabling
  MaxBytes   \* bound on the bytes written

ASSUME NAssumption == N \in Nat /\ N > 1
ASSUME BoundAssumption == MaxLen \in Nat /\ MaxIsr \in Nat /\ MaxBytes \in Nat

VARIABLES
  mMem, mIn, mOut, mCount,   \* the 328p's ring
  mIe,                       \* UDRIE0
  mPc, mLeft,                \* writeData: next instruction, bytes left
  mSent, mGot, mLine,        \* bytes stored, bytes on the line, the last one
  uMem, uWp, uRp,            \* the 16u2's ring
  uIe,                       \* UDRIE1
  uPc, uTmp,                 \* writeData: next instruction, tmp
  uIsr,                      \* interrupts since the write pointer was saved
  uSent, uGot, uLine

mVars == <<mMem, mIn, mOut, mCount, mIe, mPc, mLeft, mSent, mGot, mLine>>
uVars == <<uMem, uWp, uRp, uIe, uPc, uTmp, uIsr, uSent, uGot, uLine>>
vars  == <<mVars, uVars>>

Slot == 0..(N - 1)

WrapLate(i) == IF i <= N THEN i ELSE i - N

\* A pointer past the end of the ring wraps (++In == End, andi 0x7F).
Wrap(i) == IF i < N THEN i ELSE i - N

Init ==
  /\ mMem = [i \in Slot |-> 0] /\ mIn = 0 /\ mOut = 0 /\ mCount = 0
  /\ mIe = FALSE /\ mPc = "idle" /\ mLeft = 0
  /\ mSent = 0 /\ mGot = 0 /\ mLine = -1
  /\ uMem = [i \in Slot |-> 0] /\ uWp = 0 /\ uRp = 0
  /\ uIe = FALSE /\ uPc = "idle" /\ uTmp = 0 /\ uIsr = 0
  /\ uSent = 0 /\ uGot = 0 /\ uLine = -1

------------------------------------------------------------------------------
(* The 328p.                                                               *)

\* writeData(buf, len) is called.  RingBuffer_Insert does not test for space:
\* its callers stay within the ring (UnoBridge!UplinkBounded).
mCall(len) ==
  /\ mPc = "idle" /\ mCount + len <= N /\ mSent + len <= MaxBytes
  /\ mPc' = "store" /\ mLeft' = len
  /\ UNCHANGED <<mMem, mIn, mOut, mCount, mIe, mSent, mGot, mLine>>

\* RingBuffer_Insert: the byte and the In pointer ...
mStore ==
  /\ mPc = "store"
  /\ mMem' = [mMem EXCEPT ![mIn] = mSent] /\ mSent' = mSent + 1
  /\ mIn' = Wrap(mIn + 1)
  /\ mPc' = "count"
  /\ UNCHANGED <<mOut, mCount, mIe, mLeft, mGot, mLine>>

\* ... then the count, with interrupts disabled.
mCountUp ==
  /\ mPc = "count"
  /\ mCount' = mCount + 1 /\ mLeft' = mLeft - 1
  /\ mPc' = IF mLeft' = 0 THEN "enable" ELSE "store"
  /\ UNCHANGED <<mMem, mIn, mOut, mIe, mSent, mGot, mLine>>

\* The same with the bit flipped instead of set.
mEnableFlip ==
  /\ mPc = "enable"
  /\ mIe' = ~mIe /\ mPc' = "idle"
  /\ UNCHANGED <<mMem, mIn, mOut, mCount, mLeft, mSent, mGot, mLine>>

\* "Enable tx interrupt to push data".
mEnable ==
  /\ mPc = "enable"
  /\ mIe' = TRUE /\ mPc' = "idle"
  /\ UNCHANGED <<mMem, mIn, mOut, mCount, mLeft, mSent, mGot, mLine>>

\* Whether ISR(USART_UDRE_vect) finds a byte to send.
mHasByteAlways == TRUE
mHasByteLate == mCount > 1
mHasByte == mCount # 0

\* ISR(USART_UDRE_vect), with RingBuffer_Remove.
mUdre ==
  /\ mIe
  /\ IF mHasByte
       THEN /\ mLine' = mMem[mOut] /\ mGot' = mGot + 1
            /\ mOut' = Wrap(mOut + 1)
            /\ mCount' = mCount - 1
            /\ UNCHANGED mIe
       ELSE mIe' = FALSE /\ UNCHANGED <<mLine, mGot, mOut, mCount>>
  /\ UNCHANGED <<mMem, mIn, mPc, mLeft, mSent>>

mProgram == mStore \/ mCountUp \/ mEnable

------------------------------------------------------------------------------
(* The 16u2; every caller of writeData passes one byte.                    *)

uFreeAll == N - Wrap(uWp - uRp + N)

\* USBtoUSART_free, from pointers read once.
uFree == (N - 1) - Wrap(uWp - uRp + N)

uCall ==
  /\ uPc = "idle" /\ uSent < MaxBytes
  /\ uPc' = IF 1 > uFree THEN "hung" ELSE "store"
  /\ UNCHANGED <<uMem, uWp, uRp, uIe, uTmp, uIsr, uSent, uGot, uLine>>

\* The byte goes to tmp, which wraps.
uStore ==
  /\ uPc = "store"
  /\ uMem' = [uMem EXCEPT ![uWp] = uSent] /\ uSent' = uSent + 1
  /\ uTmp' = Wrap(uWp + 1)
  /\ uPc' = "publish"
  /\ UNCHANGED <<uWp, uRp, uIe, uIsr, uGot, uLine>>

\* "Save back new pointer position".
uPublish ==
  /\ uPc = "publish"
  /\ uWp' = uTmp /\ uIsr' = 0
  /\ uPc' = "enable"
  /\ UNCHANGED <<uMem, uRp, uIe, uTmp, uSent, uGot, uLine>>

\* "Enable USART again to flush the buffer".
uEnable ==
  /\ uPc = "enable"
  /\ uIe' = TRUE
  /\ uPc' = "idle"
  /\ UNCHANGED <<uMem, uWp, uRp, uTmp, uIsr, uSent, uGot, uLine>>

\* Whether the interrupt stays on after sending a byte.
uMoreBefore == uRp # uWp
uMore == uRp' # uWp

\* ISR(USART1_UDRE_vect): sends the byte at the read pointer, advances it and
\* turns itself off if it has reached the write pointer.
uUdre ==
  /\ uIe /\ (uPc = "enable" => uIsr < MaxIsr)
  /\ uLine' = uMem[uRp] /\ uGot' = uGot + 1
  /\ uRp' = Wrap(uRp + 1)
  /\ uIe' = uMore
  /\ uIsr' = IF uPc = "enable" THEN uIsr + 1 ELSE uIsr
  /\ UNCHANGED <<uMem, uWp, uPc, uTmp, uSent>>

uProgram == uStore \/ uPublish \/ uEnable

------------------------------------------------------------------------------
mNext == mUdre \/ mProgram \/ \E len \in 1..MaxLen : mCall(len)
uNext == uUdre \/ uProgram \/ uCall

Next == \/ mNext /\ UNCHANGED uVars
        \/ uNext /\ UNCHANGED mVars

\* A call in progress finishes, and an enabled interrupt is served; nobody is
\* obliged to call writeData.
Fairness == /\ WF_vars(mProgram /\ UNCHANGED uVars) /\ WF_vars(mUdre /\ UNCHANGED uVars)
            /\ WF_vars(uProgram /\ UNCHANGED mVars) /\ WF_vars(uUdre /\ UNCHANGED mVars)

Spec == Init /\ [][Next]_vars
FairSpec == Spec /\ Fairness

------------------------------------------------------------------------------
mTypeOK ==
  /\ mMem \in [Slot -> Int] /\ mIn \in Slot /\ mOut \in Slot /\ mCount \in 0..N
  /\ mIe \in BOOLEAN /\ mPc \in {"idle", "store", "count", "enable"} /\ mLeft \in Nat
  /\ mSent \in Nat /\ mGot \in Nat /\ mLine \in Int

uTypeOK ==
  /\ uMem \in [Slot -> Int] /\ uWp \in Slot /\ uRp \in Slot /\ uTmp \in Slot
  /\ uIe \in BOOLEAN /\ uPc \in {"idle", "store", "publish", "enable", "hung"}
  /\ uIsr \in Nat /\ uSent \in Nat /\ uGot \in Nat /\ uLine \in Int

TypeOK == mTypeOK /\ uTypeOK

\* 328p: bytes leave in the order they were written, none lost, none twice.
mInOrder == mLine = mGot - 1 /\ mGot <= mSent

\* 16u2: the same, of a ring whose interrupt never tests for "empty" first.
uInOrder == uLine = uGot - 1 /\ uGot <= uSent

\* 328p: with bytes in the ring and no writeData running, the interrupt that
\* will send them is enabled.  (writeData re-enables it on the way out and the
\* interrupt disables itself: the order of the two must not leave it off.)
mNoStall == mCount > 0 /\ mPc = "idle" => mIe

\* 16u2: likewise, and with an empty ring it is off, since it would send a byte
\* nobody wrote.
uNoStall == uPc = "idle" => (uIe <=> uWp # uRp)

\* Everything written is sent, unless the 16u2's program is stuck in writeData's
\* wait for space.
AllSent == \A n \in 1..MaxBytes : /\ (mSent = n) ~> (mGot >= n)
                                  /\ (uSent = n) ~> (uGot >= n)

==============================================================================
