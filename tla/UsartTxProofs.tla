---------------------------- MODULE UsartTxProofs ----------------------------
(***************************************************************************)
(* For rings of every length: bytes leave both transmit rings in order,    *)
(* none lost and none twice, and neither ring stalls with bytes in it.     *)
(* The 16u2 needs one assumption on timing, MaxIsr <= 1.                   *)
(***************************************************************************)
EXTENDS UsartTx, TLAPS

\* Bytes in the 328p's ring, the one stored but not yet counted included.
mOcc == mCount + (IF mPc = "count" THEN 1 ELSE 0)

\* The ring is the window mGot .. mSent-1 of the bytes written, laid out from
\* mOut; a call in progress has room for what it still has to insert.
mInv ==
  /\ mTypeOK
  /\ mSent = mGot + mOcc
  /\ mPc \in {"store", "count"} => mLeft >= 1 /\ mCount + mLeft <= N
  /\ mIn = Wrap(mOut + mOcc)
  /\ \A i \in 0..(mOcc - 1) : mMem[Wrap(mOut + i)] = mGot + i
  /\ mLine = mGot - 1
  /\ mNoStall

\* Bytes published in the 16u2's ring and not yet sent.
uPend == uSent - uGot - (IF uPc = "publish" THEN 1 ELSE 0)

\* The interrupt is on exactly when bytes are pending, except between saving
\* the write pointer and re-enabling: then an interrupt that is still on has at
\* least two bytes ahead of it, less the one it may already have sent.
uInv ==
  /\ uTypeOK
  /\ uPend \in 0..(N - 1)
  /\ uPc \in {"store", "publish"} => uPend <= N - 2
  /\ uPc = "publish" => uTmp = Wrap(uWp + 1) /\ uMem[uWp] = uSent - 1
  /\ uWp = Wrap(uRp + uPend)
  /\ \A i \in 0..(uPend - 1) : uMem[Wrap(uRp + i)] = uGot + i
  /\ uLine = uGot - 1
  /\ uPc # "enable" => (uIe <=> uPend > 0)
  /\ uPc = "enable" => uPend >= 1 /\ (uIe => uPend + uIsr >= 2)

------------------------------------------------------------------------------
\* Wrap keeps a pointer in the ring when it is less than two turns along, and
\* advancing a pointer shifts what it points at by one.
LEMMA WrapInSlot ==
  ASSUME NEW i \in 0..(2 * N - 1) PROVE Wrap(i) \in Slot
BY NAssumption DEF Wrap, Slot

LEMMA WrapStep ==
  ASSUME NEW p \in Slot, NEW k \in 0..(N - 1)
  PROVE  Wrap(Wrap(p + 1) + k) = Wrap(p + k + 1)
BY NAssumption DEF Wrap, Slot

\* Two places of the same window are different slots.
LEMMA WrapInjective ==
  ASSUME NEW p \in Slot, NEW j \in 0..(N - 1), NEW k \in 0..(N - 1),
         Wrap(p + j) = Wrap(p + k)
  PROVE  j = k
BY NAssumption DEF Wrap, Slot

------------------------------------------------------------------------------
\* 328p: every step of its program and its interrupt keeps mInv.
LEMMA mStoreInv == mInv /\ mStore => mInv'
<1> SUFFICES ASSUME mInv, mStore PROVE mInv'
  OBVIOUS
<1> USE NAssumption DEF mInv, mStore
<1>1. mCount \in 0..(N - 1) /\ mOcc = mCount /\ mOcc' = mCount + 1
  BY DEF mOcc, mTypeOK
<1>2. mIn' \in Slot /\ mIn' = Wrap(mOut + mOcc')
  BY <1>1 DEF mTypeOK, Wrap, Slot
<1>3. mTypeOK'
  BY <1>2 DEF mTypeOK
<1>4. ASSUME NEW i \in 0..(mOcc' - 1)
      PROVE  mMem'[Wrap(mOut' + i)] = mGot' + i
  <2>1. mOut \in Slot /\ i \in 0..(N - 1) /\ mIn = Wrap(mOut + mCount)
    BY <1>1 DEF mTypeOK
  <2>2. Wrap(mOut + i) \in Slot
    BY <2>1 DEF Wrap, Slot
  <2>3. CASE i = mCount
    BY <1>1, <2>1, <2>2, <2>3 DEF mTypeOK
  <2>4. CASE i # mCount
    <3>1. Wrap(mOut + i) # mIn
      BY <1>1, <2>1, <2>4, WrapInjective
    <3>2. i \in 0..(mOcc - 1)
      BY <1>1, <2>4
    <3>3. QED
      BY <2>2, <3>1, <3>2 DEF mTypeOK
  <2>5. QED
    BY <2>3, <2>4
<1>5. QED
  BY <1>1, <1>2, <1>3, <1>4 DEF mTypeOK, mNoStall

LEMMA mUdreInv == mInv /\ mUdre => mInv'
<1> SUFFICES ASSUME mInv, mUdre PROVE mInv'
  OBVIOUS
<1> USE NAssumption DEF mInv, mUdre, mHasByte
<1>1. CASE mCount = 0
  <2>1. mOcc' = mOcc /\ mTypeOK'
    BY <1>1 DEF mOcc, mTypeOK
  <2>2. QED
    BY <1>1, <2>1 DEF mTypeOK, mNoStall
<1>2. CASE mCount # 0
  <2>1. mOcc \in 1..N /\ mOcc' = mOcc - 1 /\ mOut \in Slot
    BY <1>2 DEF mOcc, mTypeOK
  <2>2. mOut' = Wrap(mOut + 1) /\ mOut' \in Slot
    BY <1>2, <2>1, WrapInSlot DEF Slot
  <2>3. mLine' = mGot
    <3>1. mMem[Wrap(mOut + 0)] = mGot + 0
      BY <2>1
    <3>2. QED
      BY <1>2, <2>1, <3>1 DEF Wrap, Slot, mTypeOK
  <2>4. mTypeOK'
    BY <1>2, <2>2, <2>3 DEF mTypeOK
  <2>5. mIn' = Wrap(mOut' + mOcc')
    <3>1. Wrap(mOut' + (mOcc - 1)) = Wrap(mOut + (mOcc - 1) + 1)
      BY <2>1, <2>2, WrapStep
    <3>2. QED
      BY <1>2, <2>1, <3>1 DEF Slot
  <2>6. ASSUME NEW i \in 0..(mOcc' - 1)
        PROVE  mMem'[Wrap(mOut' + i)] = mGot' + i
    <3>1. i + 1 \in 0..(mOcc - 1) /\ i \in 0..(N - 1)
      BY <2>1
    <3>2. Wrap(mOut' + i) = Wrap(mOut + i + 1)
      BY <2>1, <2>2, <3>1, WrapStep
    <3>3. mMem[Wrap(mOut + (i + 1))] = mGot + (i + 1)
      BY <3>1
    <3>4. mOut + i + 1 = mOut + (i + 1)
      BY <2>1, <3>1 DEF Slot
    <3>5. QED
      BY <1>2, <3>1, <3>2, <3>3, <3>4 DEF mTypeOK
  <2>7. QED
    BY <1>2, <2>1, <2>3, <2>4, <2>5, <2>6 DEF mTypeOK, mNoStall
<1>3. QED
  BY <1>1, <1>2

LEMMA mNextInv == mInv /\ mNext => mInv'
<1> SUFFICES ASSUME mInv, mNext PROVE mInv'
  OBVIOUS
<1> USE NAssumption, BoundAssumption
<1>1. CASE mUdre
  BY <1>1, mUdreInv
<1>2. CASE mStore
  BY <1>2, mStoreInv
<1>3. CASE mCountUp
  <2>1. mOcc' = mOcc /\ mTypeOK'
    BY <1>3 DEF mInv, mTypeOK, mCountUp, mOcc
  <2>2. QED
    BY <1>3, <2>1 DEF mInv, mTypeOK, mCountUp, mNoStall
<1>4. CASE mEnable
  <2>1. mOcc' = mOcc /\ mTypeOK'
    BY <1>4 DEF mInv, mTypeOK, mEnable, mOcc
  <2>2. QED
    BY <1>4, <2>1 DEF mInv, mEnable, mNoStall
<1>5. ASSUME NEW len \in 1..MaxLen, mCall(len) PROVE mInv'
  <2>1. mOcc' = mOcc /\ mTypeOK'
    BY <1>5 DEF mInv, mTypeOK, mCall, mOcc
  <2>2. QED
    BY <1>5, <2>1 DEF mInv, mCall, mNoStall
<1>6. QED
  BY <1>1, <1>2, <1>3, <1>4, <1>5 DEF mNext, mProgram

------------------------------------------------------------------------------
\* 16u2: the same for its ring.
LEMMA uStoreInv == uInv /\ uStore => uInv'
<1> SUFFICES ASSUME uInv, uStore PROVE uInv'
  OBVIOUS
<1> USE NAssumption DEF uInv, uStore
<1>1. uPend \in 0..(N - 2) /\ uPend' = uPend /\ uWp \in Slot /\ uRp \in Slot
  BY DEF uPend, uTypeOK
<1>2. uTmp' \in Slot
  BY <1>1, WrapInSlot DEF Slot
<1>3. uTypeOK'
  BY <1>2 DEF uTypeOK
<1>4. uMem'[uWp] = uSent' - 1
  BY <1>1 DEF uTypeOK
<1>5. ASSUME NEW i \in 0..(uPend - 1)
      PROVE  uMem'[Wrap(uRp + i)] = uGot + i
  <2>1. Wrap(uRp + i) # uWp
    BY <1>1, WrapInjective
  <2>2. Wrap(uRp + i) \in Slot
    BY <1>1 DEF Wrap, Slot
  <2>3. QED
    BY <1>5, <2>1, <2>2 DEF uTypeOK
<1>6. QED
  BY <1>1, <1>3, <1>4, <1>5

\* Publishing: the window grows by the byte just stored.
LEMMA uPublishInv == uInv /\ uPublish => uInv'
<1> SUFFICES ASSUME uInv, uPublish PROVE uInv'
  OBVIOUS
<1> USE NAssumption DEF uInv, uPublish
<1>1. uPend \in 0..(N - 2) /\ uPend' = uPend + 1 /\ uWp \in Slot /\ uRp \in Slot
  BY DEF uPend, uTypeOK
<1>2. uTypeOK'
  BY DEF uTypeOK
<1>3. uWp' = Wrap(uRp' + uPend')
  BY <1>1 DEF Wrap, Slot
<1>4. ASSUME NEW i \in 0..(uPend' - 1)
      PROVE  uMem'[Wrap(uRp' + i)] = uGot' + i
  <2>1. CASE i = uPend
    BY <1>1, <2>1 DEF uPend, uTypeOK
  <2>2. CASE i # uPend
    BY <1>1, <2>2
  <2>3. QED
    BY <2>1, <2>2
<1>5. uPend' >= 1 /\ (uIe' => uPend' + uIsr' >= 2)
  BY <1>1
<1>6. QED
  BY <1>1, <1>2, <1>3, <1>4, <1>5 DEF uTypeOK

\* The interrupt always finds a byte that was published.
LEMMA uUdreInv ==
  ASSUME MaxIsr <= 1 PROVE uInv /\ uUdre => uInv'
<1> SUFFICES ASSUME uInv, uUdre PROVE uInv'
  OBVIOUS
<1> USE NAssumption, BoundAssumption DEF uInv, uUdre, uMore
<1>1. uPend \in 1..(N - 1) /\ uPend' = uPend - 1 /\ uWp \in Slot /\ uRp \in Slot
  BY DEF uPend, uTypeOK
<1>2. uRp' = Wrap(uRp + 1) /\ uRp' \in Slot
  BY <1>1, WrapInSlot DEF Slot
<1>3. uLine' = uGot
  <2>1. uMem[Wrap(uRp + 0)] = uGot + 0
    BY <1>1
  <2>2. QED
    BY <1>1, <2>1 DEF Wrap, Slot, uTypeOK
<1>4. uTypeOK'
  BY <1>2, <1>3 DEF uTypeOK
<1>5. uWp' = Wrap(uRp' + uPend')
  <2>1. Wrap(uRp' + (uPend - 1)) = Wrap(uRp + (uPend - 1) + 1)
    BY <1>1, <1>2, WrapStep
  <2>2. QED
    BY <1>1, <2>1 DEF Slot
<1>6. ASSUME NEW i \in 0..(uPend' - 1)
      PROVE  uMem'[Wrap(uRp' + i)] = uGot' + i
  <2>1. i + 1 \in 0..(uPend - 1) /\ i \in 0..(N - 1)
    BY <1>1
  <2>2. Wrap(uRp' + i) = Wrap(uRp + i + 1)
    BY <1>1, <1>2, <2>1, WrapStep
  <2>3. uMem[Wrap(uRp + (i + 1))] = uGot + (i + 1)
    BY <2>1
  <2>4. uRp + i + 1 = uRp + (i + 1)
    BY <1>1, <2>1 DEF Slot
  <2>5. QED
    BY <2>1, <2>2, <2>3, <2>4 DEF uTypeOK
<1>7. uIe' <=> uPend' > 0
  <2>1. (uRp' # uWp) <=> uPend' > 0
    BY <1>1, <1>2, <1>5 DEF Wrap, Slot
  <2>2. uIe' = (uRp' # uWp)
    OBVIOUS
  <2>3. QED
    BY <2>1, <2>2, Zenon
<1>8. uPc = "enable" => uPend' >= 1 /\ uPend' + uIsr' >= 2
  BY <1>1 DEF uTypeOK
<1>9. uPc = "publish" => uTmp' = Wrap(uWp' + 1) /\ uMem'[uWp'] = uSent' - 1
  OBVIOUS
<1>10. QED
  BY <1>1, <1>3, <1>4, <1>5, <1>6, <1>7, <1>8, <1>9 DEF uTypeOK

LEMMA uNextInv ==
  ASSUME MaxIsr <= 1 PROVE uInv /\ uNext => uInv'
<1> SUFFICES ASSUME uInv, uNext PROVE uInv'
  OBVIOUS
<1> USE NAssumption, BoundAssumption
<1>1. CASE uUdre
  BY <1>1, uUdreInv
<1>2. CASE uStore
  BY <1>2, uStoreInv
<1>3. CASE uPublish
  BY <1>3, uPublishInv
<1>4. CASE uEnable
  <2>1. uPend' = uPend /\ uTypeOK'
    BY <1>4 DEF uInv, uTypeOK, uEnable, uPend
  <2>2. QED
    BY <1>4, <2>1 DEF uInv, uEnable
<1>5. CASE uCall
  <2>1. uPend' = uPend /\ uTypeOK'
    BY <1>5 DEF uInv, uTypeOK, uCall, uPend
  <2>2. uPc' = "store" => uPend' <= N - 2
    BY <1>5, <2>1 DEF uInv, uTypeOK, uCall, uFree, Wrap, Slot
  <2>3. QED
    BY <1>5, <2>1, <2>2 DEF uInv, uCall
<1>6. QED
  BY <1>1, <1>2, <1>3, <1>4, <1>5 DEF uNext, uProgram

------------------------------------------------------------------------------
LEMMA mInitInv == Init => mInv
<1> SUFFICES ASSUME Init PROVE mInv
  OBVIOUS
<1> USE NAssumption DEF Init
<1>1. mOcc = 0 /\ mMem \in [Slot -> Int] /\ mIn \in Slot /\ mOut \in Slot
  BY DEF mOcc, Slot
<1>2. mTypeOK
  <2>1. mIe \in BOOLEAN /\ mPc \in {"idle", "store", "count", "enable"}
    OBVIOUS
  <2>2. mCount \in 0..N /\ mLeft \in Nat /\ mSent \in Nat /\ mGot \in Nat /\ mLine \in Int
    OBVIOUS
  <2>3. QED
    BY <1>1, <2>1, <2>2, Zenon DEF mTypeOK
<1>3. QED
  BY <1>1, <1>2 DEF mInv, mNoStall, Wrap

LEMMA uInitInv == Init => uInv
<1> SUFFICES ASSUME Init PROVE uInv
  OBVIOUS
<1> USE NAssumption DEF Init
<1>1. uPend = 0 /\ uMem \in [Slot -> Int]
      /\ uWp \in Slot /\ uRp \in Slot /\ uTmp \in Slot
  BY DEF uPend, Slot
<1>2. uTypeOK
  <2>1. uIe \in BOOLEAN /\ uPc \in {"idle", "store", "publish", "enable", "hung"}
    OBVIOUS
  <2>2. uIsr \in Nat /\ uSent \in Nat /\ uGot \in Nat /\ uLine \in Int
    OBVIOUS
  <2>3. QED
    BY <1>1, <2>1, <2>2, Zenon DEF uTypeOK
<1>3. uIe <=> uPend > 0
  BY <1>1
<1>4. QED
  BY <1>1, <1>2, <1>3 DEF uInv, Wrap

\* The 328p's invariant holds for ever; the 16u2's, if at most one interrupt
\* falls between saving the write pointer and re-enabling.
LEMMA mAlways == Spec => []mInv
<1>1. ASSUME mInv, UNCHANGED mVars PROVE mInv'
  BY <1>1 DEF mVars, mInv, mTypeOK, mOcc, mNoStall
<1>2. mInv /\ [Next]_vars => mInv'
  BY <1>1, mNextInv DEF Next, vars
<1>3. QED
  BY <1>2, mInitInv, PTL DEF Spec

LEMMA uAlways == ASSUME MaxIsr <= 1 PROVE Spec => []uInv
<1>1. ASSUME uInv, UNCHANGED uVars PROVE uInv'
  BY <1>1 DEF uVars, uInv, uTypeOK, uPend
<1>2. uInv /\ [Next]_vars => uInv'
  BY <1>1, uNextInv DEF Next, vars
<1>3. QED
  BY <1>2, uInitInv, PTL DEF Spec

------------------------------------------------------------------------------
\* The 328p's transmitter, for every ring length and every interleaving of
\* writeData with the interrupt: no byte is lost, repeated or reordered.
THEOREM mFifo == Spec => []mInOrder
<1>1. mInv => mInOrder
  BY DEF mInv, mInOrder, mOcc, mTypeOK
<1>2. QED
  BY <1>1, mAlways, PTL

\* ... and the interrupt is on whenever writeData has left bytes in the ring.
THEOREM mWakeup == Spec => []mNoStall
<1>1. mInv => mNoStall
  BY DEF mInv
<1>2. QED
  BY <1>1, mAlways, PTL

\* The 16u2's transmitter, whose interrupt sends before it tests: the same two
\* facts, if at most one interrupt falls between saving the write pointer and
\* re-enabling the interrupt.
THEOREM uFifo == MaxIsr <= 1 => (Spec => []uInOrder)
<1> SUFFICES ASSUME MaxIsr <= 1 PROVE Spec => []uInOrder
  OBVIOUS
<1>1. uInv => uInOrder
  BY NAssumption DEF uInv, uInOrder, uPend, uTypeOK
<1>2. QED
  BY <1>1, uAlways, PTL

\* ... and, on the same assumption, the interrupt is on exactly when bytes have
\* been published and not sent.
THEOREM uWakeup == MaxIsr <= 1 => (Spec => []uNoStall)
<1> SUFFICES ASSUME MaxIsr <= 1 PROVE Spec => []uNoStall
  OBVIOUS
<1>1. ASSUME uInv PROVE uNoStall
  <2> SUFFICES ASSUME uPc = "idle" PROVE uIe <=> uWp # uRp
    BY DEF uNoStall
  <2>1. uIe <=> uPend > 0
    BY <1>1 DEF uInv
  <2>2. (uWp # uRp) <=> uPend > 0
    BY <1>1, NAssumption DEF uInv, uTypeOK, Wrap, Slot
  <2>3. QED
    BY <2>1, <2>2, Zenon
<1>2. QED
  BY <1>1, uAlways, PTL

\* Types of both transmitters: in particular the 328p's Count never passes the
\* ring's length, given callers that stay within it.
THEOREM TypeCorrect == MaxIsr <= 1 => (Spec => []TypeOK)
<1> SUFFICES ASSUME MaxIsr <= 1 PROVE Spec => []TypeOK
  OBVIOUS
<1>1. mInv /\ uInv => TypeOK
  BY DEF mInv, uInv, TypeOK
<1>2. QED
  BY <1>1, mAlways, uAlways, PTL
==============================================================================
