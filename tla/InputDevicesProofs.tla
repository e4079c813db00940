-------------------------- MODULE InputDevicesProofs --------------------------
(***************************************************************************)
(* The input drivers together, for every value of the constants.  The      *)
(* sockets share nothing, so the invariants of the Wii driver, of the PS2  *)
(* driver and of DirectInputProofs hold side by side.  Wii: for any number *)
(* of faults of the bus, any set of extensions and any number of swaps the *)
(* I2C driver's counters stay within the transaction, and on a bus without *)
(* faults a report is never interpreted as another extension's.  PS2: for  *)
(* any number of tries, of losses and of swapped pads, a pad is left in    *)
(* configuration mode only if every try of one command was lost.           *)
(***************************************************************************)
EXTENDS InputDevices, DirectInputProofs, TLAPS

------------------------------------------------------------------------------
(***************************************************************************)
(* The I2C driver and the Wii extension on top of it.                      *)
(***************************************************************************)
Bytes == [from : Exts \cup {"bad", "classic"}, says : {"up", "down"}]
Words == {"value"} \cup ReadAt \cup WriteAt
Events == {"start", "sla", "data"}
CallType == [op : {"none", "read", "write"}, data : Seq(Words), len : Nat,
             at : {"wait", "run", "done"}, ok : BOOLEAN]

CallShape ==
  /\ call \in CallType
  /\ call.op = "write" => call.len = Len(call.data)
  /\ call.op = "read" => call.len \in {Short, Long} /\ call.data = <<>>
  /\ call.at # "done" => call.op # "none"

(***************************************************************************)
(* The driver.  A transaction may outlive its call (the call gave up), but *)
(* a call that runs or has succeeded owns the buffer.                      *)
(***************************************************************************)
Owned == call.at = "run" \/ (call.at = "done" /\ call.ok)
TwiInv ==
  /\ TypeOKTwi
  /\ CallShape
  /\ twi_state = "READY" => hw = "idle"
  /\ call.at = "run" => twi_state \in {"READY", Mode(call.op)}
  /\ call.at = "done" /\ call.ok => twi_state = "READY"
  /\ twi_state = "MRX" => /\ twi_masterBuffer \in Seq(Bytes) /\ Len(twi_masterBuffer) = index
                          /\ hw \in Events => index < length
  /\ twi_state = "MTX" => Len(twi_masterBuffer) = length
  /\ Owned /\ call.op = "read" =>
       twi_masterBuffer \in Seq(Bytes) /\ Len(twi_masterBuffer) = index

------------------------------------------------------------------------------
LEMMA Element ==
  ASSUME NEW S, NEW s \in Seq(S), NEW i \in 1..Len(s) PROVE s[i] \in S
OBVIOUS

LEMMA AppendOne ==
  ASSUME NEW S, NEW s \in Seq(S), NEW e \in S
  PROVE  /\ Append(s, e) \in Seq(S) /\ Len(Append(s, e)) = Len(s) + 1
         /\ \A i \in 1..Len(s) : Append(s, e)[i] = s[i]
         /\ Append(s, e)[Len(s) + 1] = e
OBVIOUS

\* The call record with its place or its result changed.
LEMMA CallAt ==
  ASSUME CallShape, NEW a \in {"wait", "run", "done"}, NEW b \in BOOLEAN
  PROVE  LET c == [call EXCEPT !.at = a] d == [call EXCEPT !.at = a, !.ok = b] IN
         /\ c \in CallType /\ c.op = call.op /\ c.data = call.data /\ c.len = call.len
         /\ c.at = a /\ c.ok = call.ok
         /\ d \in CallType /\ d.op = call.op /\ d.data = call.data /\ d.len = call.len
         /\ d.at = a /\ d.ok = b
BY DEF CallShape, CallType

LEMMA EnterTwi == TwiInv /\ Enter => TwiInv'
<1> SUFFICES ASSUME TwiInv, Enter PROVE TwiInv'
  OBVIOUS
<1>1. /\ call'.at = "run" /\ call' \in CallType /\ call'.op = call.op
      /\ call'.data = call.data /\ call'.len = call.len /\ call'.ok = call.ok
  BY CallAt DEF Enter, TwiInv
<1>2. CallShape'
  BY <1>1 DEF TwiInv, CallShape, Enter
<1>3. /\ length' = call.len /\ index' = 0 /\ twi_masterBuffer' = call.data
      /\ hw' = "start" /\ twi_state' = Mode(call.op) /\ twi_error' = FALSE
      /\ UNCHANGED <<held, faults>> /\ call.at = "wait"
  BY DEF Enter
<1>4. call.op \in {"read", "write"} /\ call.len \in Nat /\ Len(call.data) <= call.len
  BY <1>3 DEF TwiInv, CallShape, CallType, Short, Long
<1>5. TypeOKTwi'
  <2>1. index' \in 0..length' /\ length' \in Nat /\ Len(twi_masterBuffer') <= length'
    BY <1>3, <1>4
  <2>2. twi_state' \in {"MTX", "MRX"} /\ twi_error' \in BOOLEAN /\ hw' = "start"
    BY <1>3 DEF Mode
  <2>3. call'.at \in {"wait", "run", "done"} /\ call'.ok \in BOOLEAN
    BY <1>1 DEF TwiInv, TypeOKTwi
  <2>4. QED
    BY <1>3, <2>1, <2>2, <2>3 DEF TwiInv, TypeOKTwi
<1>6. CASE call.op = "read"
  <2>1. twi_masterBuffer' = <<>> /\ length' \in {2, 3} /\ twi_state' = "MRX"
    BY <1>3, <1>6 DEF TwiInv, CallShape, Mode, Short, Long
  <2>2. QED
    BY <1>1, <1>2, <1>3, <1>5, <1>6, <2>1 DEF TwiInv, Owned, Mode
<1>7. CASE call.op = "write"
  <2>1. twi_state' = "MTX" /\ Len(twi_masterBuffer') = length'
    BY <1>3, <1>7 DEF TwiInv, CallShape, Mode
  <2>2. QED
    BY <1>1, <1>2, <1>3, <1>5, <1>7, <2>1 DEF TwiInv, Owned, Mode
<1>8. QED
  BY <1>4, <1>6, <1>7

LEMMA LeaveTwi == TwiInv /\ (Leave \/ GiveUp) => TwiInv'
<1> SUFFICES ASSUME TwiInv, Leave \/ GiveUp PROVE TwiInv'
  OBVIOUS
<1>1. UNCHANGED <<twi_state, twi_error, twi_masterBuffer, index, length, hw, held, faults>>
  BY DEF Leave, GiveUp
<1>2. /\ call' \in CallType /\ call'.op = call.op /\ call'.data = call.data
      /\ call'.len = call.len /\ call'.at = "done"
  <2>1. \E b \in BOOLEAN : call' = [call EXCEPT !.at = "done", !.ok = b]
    <3>1. (~twi_error) \in BOOLEAN /\ (index > 0) \in BOOLEAN
      BY DEF TwiInv, TypeOKTwi
    <3>2. (IF call.op = "write" THEN ~twi_error ELSE index > 0) \in BOOLEAN
      BY <3>1, Zenon
    <3>3. QED
      BY <3>2, Zenon DEF Leave, GiveUp
  <2>2. PICK b \in BOOLEAN : call' = [call EXCEPT !.at = "done", !.ok = b]
    BY <2>1
  <2>3. QED
    BY <2>2, CallAt DEF TwiInv
<1>3. CallShape' /\ TypeOKTwi'
  BY <1>1, <1>2 DEF TwiInv, CallShape, CallType, TypeOKTwi
<1>4. call'.ok => call.at = "run" /\ twi_state = "READY"
  BY CallAt DEF Leave, GiveUp, TwiInv
<1>5. QED
  BY <1>1, <1>2, <1>3, <1>4 DEF TwiInv, Owned
\* While the hardware has an event due, a transaction is going on.
LEMMA UnderWay ==
  ASSUME TwiInv, hw \in Events
  PROVE  twi_state \in {"MTX", "MRX"} /\ (Owned => call.at = "run" /\ twi_state = Mode(call.op))
BY DEF TwiInv, TypeOKTwi, Owned, Events

\* A step of the bus that moves no byte: it may end the transaction, set the error
\* or kill the bus.
LEMMA QuietStep ==
  ASSUME TwiInv, hw \in Events, UNCHANGED <<call, twi_masterBuffer, index, length>>,
         twi_error' \in BOOLEAN, held' \in BOOLEAN, faults' \in 0..MaxFaults,
         \/ twi_state' = "READY" /\ hw' = "idle"
         \/ twi_state' = twi_state /\ hw' \in Events \cup {"dead"}
  PROVE  TwiInv'
<1>1. twi_state \in {"MTX", "MRX"} /\ (Owned => call.at = "run" /\ twi_state = Mode(call.op))
  BY UnderWay
<1>2. TypeOKTwi'
  BY DEF TwiInv, TypeOKTwi, Events
<1>3. CallShape' /\ (Owned' <=> Owned)
  BY DEF TwiInv, CallShape, Owned
<1>4. CASE twi_state' = "READY" /\ hw' = "idle"
  BY <1>1, <1>2, <1>3, <1>4 DEF TwiInv
<1>5. CASE twi_state' = twi_state /\ hw' \in Events \cup {"dead"}
  BY <1>1, <1>2, <1>3, <1>5 DEF TwiInv, Events, Owned
<1>6. QED
  BY <1>4, <1>5

LEMMA FaultCount == ASSUME TwiInv, Fault PROVE faults' \in 0..MaxFaults /\ faults' # 0
BY FaultsAssumption DEF Fault, TwiInv, TypeOKTwi

LEMMA StopTwi ==
  ASSUME TwiInv, twi_stop
  PROVE  /\ faults' \in 0..MaxFaults
         /\ \/ twi_state' = "READY" /\ hw' = "idle" /\ faults' = faults
            \/ twi_state' = twi_state /\ hw' = "dead" /\ faults' # 0
BY FaultCount DEF twi_stop, TwiInv, TypeOKTwi

\* A byte goes out.
LEMMA SentTwi == TwiInv /\ hw \in Events /\ Sent => TwiInv'
<1> SUFFICES ASSUME TwiInv, hw \in Events, Sent PROVE TwiInv'
  OBVIOUS
<1>1. twi_error \in BOOLEAN /\ held \in BOOLEAN /\ faults \in 0..MaxFaults
  BY DEF TwiInv, TypeOKTwi
<1>2. CASE More(index)
  <2>1. /\ index' = index + 1 /\ hw' = "data" /\ twi_state = "MTX"
        /\ UNCHANGED <<twi_state, faults, call, twi_error, twi_masterBuffer, length, held>>
    BY <1>2 DEF Sent
  <2>2. index' \in 0..length
    BY <1>2, <2>1 DEF More, TwiInv, TypeOKTwi
  <2>3. TypeOKTwi'
    BY <2>1, <2>2 DEF TwiInv, TypeOKTwi
  <2>4. CallShape'
    BY <2>1 DEF TwiInv, CallShape
  <2>5. Owned' <=> Owned
    BY <2>1 DEF Owned
  <2>6. Owned => call.op # "read"
    BY <2>1, UnderWay DEF Mode
  <2>7. QED
    BY <2>1, <2>3, <2>4, <2>5, <2>6 DEF TwiInv
<1>3. CASE ~More(index)
  <2>1. twi_stop /\ UNCHANGED <<index, call, twi_error, twi_masterBuffer, length, held>>
    BY <1>3 DEF Sent
  <2>2. QED
    BY <1>1, <2>1, StopTwi, QuietStep
<1>4. QED
  BY <1>2, <1>3

\* A byte comes in.
LEMMA GotTwi ==
  ASSUME NEW byte \in Bytes PROVE TwiInv /\ Got(byte) => TwiInv'
<1> SUFFICES ASSUME TwiInv, Got(byte) PROVE TwiInv'
  OBVIOUS
<1>1. /\ twi_state = "MRX" /\ hw = "data" /\ index' = index + 1
      /\ twi_masterBuffer' = Append(twi_masterBuffer, byte)
      /\ UNCHANGED <<call, twi_error, length, held>>
  BY DEF Got
<1>2. /\ twi_masterBuffer \in Seq(Bytes) /\ Len(twi_masterBuffer) = index
      /\ index \in Nat /\ length \in Nat /\ index < length
  BY <1>1 DEF TwiInv, TypeOKTwi, Events
<1>3. /\ twi_masterBuffer' \in Seq(Bytes) /\ Len(twi_masterBuffer') = index'
      /\ index' \in 0..length
  BY <1>1, <1>2, AppendOne
<1>4. /\ faults' \in 0..MaxFaults
      /\ \/ More(index') /\ hw' = hw /\ twi_state' = twi_state
         \/ twi_state' = "READY" /\ hw' = "idle"
         \/ twi_state' = twi_state /\ hw' = "dead"
  BY StopTwi DEF Got, TwiInv, TypeOKTwi
<1>5. TypeOKTwi'
  BY <1>1, <1>3, <1>4 DEF TwiInv, TypeOKTwi
<1>6. CallShape' /\ (Owned' <=> Owned)
  BY <1>1 DEF TwiInv, CallShape, Owned
<1>7. Owned => call.at = "run" /\ twi_state = Mode(call.op)
  BY <1>1, UnderWay DEF Events
<1>8. hw' \in Events => index' < length'
  BY <1>1, <1>4 DEF More, Events
<1>9. QED
  BY <1>1, <1>3, <1>4, <1>5, <1>6, <1>7, <1>8 DEF TwiInv, Owned

LEMMA VectTwi ==
  ASSUME NEW present \in BOOLEAN, NEW byte \in Bytes
  PROVE  TwiInv /\ TWI_vect(present, byte) => TwiInv'
<1> SUFFICES ASSUME TwiInv, TWI_vect(present, byte) PROVE TwiInv'
  OBVIOUS
<1>1. twi_error \in BOOLEAN /\ held \in BOOLEAN /\ faults \in 0..MaxFaults
  BY DEF TwiInv, TypeOKTwi
<1>2. CASE StartSent
  <2>1. hw = "start" /\ hw' = "sla"
    BY <1>2 DEF StartSent
  <2>2. QED
    BY <1>1, <1>2, <2>1, QuietStep DEF StartSent, Events
<1>3. CASE hw \in {"sla", "data"} /\ Sent
  BY <1>3, SentTwi DEF Events
<1>4. CASE Addressed
  <2>1. hw = "sla" /\ hw' = "data"
    BY <1>4 DEF Addressed
  <2>2. QED
    BY <1>1, <1>4, <2>1, QuietStep DEF Addressed, Events
<1>5. CASE hw \in {"sla", "data"} /\ Refused
  <2>1. twi_error' \in BOOLEAN
    BY <1>5, Zenon DEF Refused
  <2>2. twi_stop /\ UNCHANGED <<call, twi_masterBuffer, index, length, held>> /\ hw \in Events
    BY <1>5 DEF Refused, Events
  <2>3. QED
    BY <1>1, <2>1, <2>2, StopTwi, QuietStep
<1>6. CASE Got(byte)
  BY <1>6, GotTwi
<1>7. QED
  BY <1>2, <1>3, <1>4, <1>5, <1>6 DEF TWI_vect

LEMMA FaultsTwi == TwiInv /\ (BusError \/ Hold \/ LetGo) => TwiInv'
<1> SUFFICES ASSUME TwiInv, BusError \/ Hold \/ LetGo PROVE TwiInv'
  OBVIOUS
<1>1. twi_error \in BOOLEAN /\ held \in BOOLEAN /\ faults \in 0..MaxFaults
  BY DEF TwiInv, TypeOKTwi
<1>2. CASE BusError
  <2>1. /\ hw \in Events /\ twi_error' = TRUE /\ faults' \in 0..MaxFaults
        /\ UNCHANGED <<call, twi_masterBuffer, index, length, held>>
        /\ \/ twi_state' = "READY" /\ hw' = "idle"
           \/ twi_state' = twi_state /\ hw' \in Events \cup {"dead"}
    BY <1>2, FaultCount DEF BusError, Events
  <2>2. QED
    BY <1>1, <2>1, QuietStep
<1>3. CASE Hold
  <2>1. faults' \in 0..MaxFaults /\ held' = TRUE
    BY <1>3, FaultCount DEF Hold
  <2>2. /\ hw \in Events
        /\ UNCHANGED <<call, twi_state, twi_error, twi_masterBuffer, index, length, hw>>
    BY <1>3 DEF Hold, Events
  <2>3. QED
    BY <1>1, <2>1, <2>2, QuietStep
<1>4. CASE LetGo
  BY <1>4 DEF LetGo, TwiInv, TypeOKTwi, CallShape, Owned
<1>5. QED
  BY <1>2, <1>3, <1>4
------------------------------------------------------------------------------
(***************************************************************************)
(* The program.                                                            *)
(***************************************************************************)
\* The call in progress is the access pc stands for.
CallInv ==
  /\ pc = "tick" => call = NoCall /\ ~pointing
  /\ pc \in WriteAt => /\ ~pointing /\ call.op = "write"
                       /\ call.data = <<pc, "value">>
  /\ pc \in ReadAt /\ pointing => call.op = "write" /\ call.data = <<pc>>
  /\ pc \in ReadAt /\ ~pointing => call.op = "read" /\ call.len = ReadLen(pc)

\* The function for eight bytes is given eight.
Sized == readFunction = "classicHighRes" => bytes = Long

(***************************************************************************)
(* On a bus without faults nothing outlives its call, so what is in the    *)
(* buffer belongs to the access pc stands for.                             *)
(***************************************************************************)
Running == call.at = "run" /\ twi_state = Mode(call.op)
Quiet ==
  /\ ~held
  /\ Running => hw \in Events
  /\ ~Running => twi_state = "READY" /\ hw = "idle"
  /\ call.at # "wait" /\ call.op # "none" => length = call.len
  /\ Running /\ hw \in {"start", "sla"} => index = 0
  /\ call.at # "wait" /\ call.op = "write" =>
       twi_masterBuffer = call.data /\ (call.at = "done" => (call.ok <=> ~twi_error))
  /\ call.at # "wait" /\ call.op = "read" =>
       /\ twi_masterBuffer \in Seq(Bytes) /\ Len(twi_masterBuffer) = index
       /\ ~Running => index \in {0, call.len}
       /\ call.at = "done" => (call.ok <=> index > 0)

(***************************************************************************)
(* And what the program believes agrees with what is plugged in whenever   *)
(* the extension is fully initialised, which only this program's two       *)
(* writes, made since it was plugged in, can do: from the ID's bytes,      *)
(* through the wiiExtensionID of the longer initialisations and the        *)
(* resolution a classic controller was switched to and shows in both       *)
(* checks, to readFunction; and so the bytes of a report are               *)
(* readFunction's, or bad.                                                 *)
(***************************************************************************)
Longer == {"d1", "d2", "hires", "check", "validate"}
Listening == IDAt \cup {"check", "validate"}
Resolved == plugged = "classicHighRes" => device = "hires"
Sends == IF pc \in IDAt THEN ID ELSE Format

Heard ==
  /\ call.op = "write" => ~twi_error
  /\ call.op = "read" /\ ~Running => index = call.len
  /\ call.op = "read" => \A i \in 1..index : twi_masterBuffer[i].from = Sends

\* What holds of the program's place and what is plugged in, call or no call.
Place ==
  /\ Ready => plugged # "none"
  /\ pc \in {"d1", "d2"} => wiiExtensionID = "drawsome"
  /\ pc \in {"hires", "check", "validate"} => wiiExtensionID = "classic"
  /\ Ready /\ pc \in Longer => wiiExtensionID = ID
  /\ Ready /\ pc \in {"check", "validate"} => Resolved
  /\ Ready /\ pc = "validate" => check # <<>>
  /\ Ready /\ (pc = "poll" \/ (pc = "tick" /\ wiiExtensionID \in Known)) =>
       readFunction = plugged /\ Resolved
  /\ pc = "w1" => ~Ready
  /\ shown # "misread" /\ buttons # "misread"
Agree ==
  /\ Place
  /\ pc \in Listening /\ call.at # "wait" /\ Ready => Heard
  /\ pc = "hires" /\ call.at # "wait" /\ ~Running /\ Ready => Resolved
  /\ pc = "poll" /\ call.at # "wait" /\ call.op = "read" =>
       \A i \in 1..index : twi_masterBuffer[i].from \in {"bad", readFunction}
NoFault == faults = 0 => Quiet /\ Agree

WiiInv == TwiInv /\ TypeOKWii /\ CallInv /\ Sized /\ NoFault

\* A call starts, or the program goes on without one: the driver is left alone.
LEMMA CallStep ==
  ASSUME TwiInv, CallShape', ~Owned', call'.at \in {"wait", "done"},
         UNCHANGED <<twi_state, twi_error, twi_masterBuffer, index, length, hw, held, faults>>
  PROVE  TwiInv' /\ (Quiet /\ call.at = "done" /\ (call'.at = "done" => call'.op = "none") => Quiet')
<1>1. TypeOKTwi'
  BY DEF TwiInv, TypeOKTwi, CallShape, CallType
<1>2. TwiInv'
  BY <1>1 DEF TwiInv, Owned
<1>3. ~Running'
  BY DEF Running
<1>4. Quiet /\ call.at = "done" /\ (call'.at = "done" => call'.op = "none") => Quiet'
  BY <1>3 DEF Quiet, Running
<1>5. QED
  BY <1>2, <1>4

LEMMA AccessStep ==
  ASSUME NEW p \in ReadAt \cup WriteAt, Access(p)
  PROVE  /\ CallShape' /\ ~Owned' /\ call'.at = "wait" /\ CallInv'
         /\ pc' = p /\ pointing' \in BOOLEAN
<1>1. CASE p \in ReadAt
  <2>1. /\ pc' = p /\ pointing' = TRUE /\ p \notin WriteAt /\ p # "tick"
        /\ call' = [op |-> "write", data |-> <<p>>, len |-> Len(<<p>>), at |-> "wait", ok |-> FALSE]
    BY <1>1 DEF Access, writeTo, ReadAt, WriteAt
  <2>2. <<p>> \in Seq(Words) /\ Len(<<p>>) = 1
    BY DEF Words
  <2>3. CallShape' /\ ~Owned' /\ call'.at = "wait"
    BY <2>1, <2>2 DEF CallShape, CallType, Owned
  <2>4. QED
    BY <2>1, <2>3 DEF CallInv
<1>2. CASE p \in WriteAt
  <2>0. p \notin ReadAt /\ p # "tick"
    BY <1>2 DEF ReadAt, WriteAt
  <2>1. /\ pc' = p /\ pointing' = FALSE
        /\ call' = [op |-> "write", data |-> <<p, "value">>, len |-> Len(<<p, "value">>),
                    at |-> "wait", ok |-> FALSE]
    <3>1. pc' = p
      BY DEF Access
    <3>2. pointing' = FALSE
      <4>1. pointing' = (p \in ReadAt)
        BY DEF Access
      <4>2. (p \in ReadAt) = FALSE
        BY <2>0
      <4>3. QED
        BY <4>1, <4>2
    <3>3. call' = [op |-> "write", data |-> <<p, "value">>, len |-> Len(<<p, "value">>),
                   at |-> "wait", ok |-> FALSE]
      BY <2>0 DEF Access, writeTo
    <3>4. QED
      BY <3>1, <3>2, <3>3
  <2>2. <<p, "value">> \in Seq(Words) /\ Len(<<p, "value">>) = 2
    BY DEF Words
  <2>3. CallShape' /\ ~Owned' /\ call'.at = "wait"
    BY <2>1, <2>2 DEF CallShape, CallType, Owned
  <2>4. QED
    BY <1>2, <2>0, <2>1, <2>3 DEF CallInv
<1>3. QED
  BY <1>1, <1>2

LEMMA NoAccessStep ==
  ASSUME NoAccess("tick")
  PROVE  /\ CallShape' /\ ~Owned' /\ call'.at = "done" /\ call'.op = "none" /\ CallInv'
         /\ pc' = "tick" /\ pointing' = FALSE
<1>1. /\ pc' = "tick" /\ pointing' = FALSE
      /\ call' = [op |-> "none", data |-> <<>>, len |-> 0, at |-> "done", ok |-> FALSE]
  BY DEF NoAccess, NoCall
<1>2. CallShape' /\ ~Owned' /\ call'.at = "done" /\ call'.op = "none"
  BY <1>1 DEF CallShape, CallType, Owned
<1>3. CallInv'
  BY <1>1 DEF CallInv, NoCall, ReadAt, WriteAt
<1>4. QED
  BY <1>1, <1>2, <1>3

\* The pointer was written and the read starts.
LEMMA ReadPointedInv == WiiInv /\ ReadPointed => WiiInv'
<1> SUFFICES ASSUME WiiInv, ReadPointed PROVE WiiInv'
  OBVIOUS
<1>1. pc \in ReadAt
  BY DEF ReadPointed, WiiInv, CallInv, TypeOKWii
<1>2. /\ call' = [op |-> "read", data |-> <<>>, len |-> ReadLen(pc), at |-> "wait", ok |-> FALSE]
      /\ pointing' = FALSE /\ call.at = "done"
      /\ UNCHANGED <<pc, wiiExtensionID, readFunction, bytes, check, shown, buttons, plugged,
                     device, level, plugs>>
  BY DEF ReadPointed, readFrom, envVars, madeVars
<1>3. ReadLen(pc) \in {Short, Long} /\ ReadLen(pc)' = ReadLen(pc)
  BY <1>2 DEF WiiInv, TypeOKWii, ReadLen
<1>4. CallShape' /\ ~Owned' /\ call'.at = "wait"
  BY <1>2, <1>3 DEF CallShape, CallType, Owned, Short, Long
<1>5. TwiInv' /\ (Quiet => Quiet')
  BY <1>2, <1>4, CallStep DEF ReadPointed, WiiInv
<1>6. CallInv'
  BY <1>1, <1>2, <1>3 DEF CallInv, ReadAt, WriteAt
<1>7. TypeOKWii' /\ Sized'
  <2>1. pointing' \in BOOLEAN
    BY <1>2, Zenon
  <2>2. QED
    BY <1>2, <1>5, <2>1 DEF WiiInv, TwiInv, TypeOKWii, Sized
<1>8. Place => Place'
  BY <1>2 DEF Place, Ready, Resolved, ID
<1>9. Agree => Agree'
  BY <1>1, <1>2, <1>4, <1>8 DEF Agree, ReadAt
<1>10. QED
  BY <1>5, <1>6, <1>7, <1>9 DEF WiiInv, NoFault, ReadPointed

\* What an access hears from a fully initialised extension is complete, and the
\* extension's own.
LEMMA HeardComplete ==
  ASSUME WiiInv, faults = 0, Ready, NEW p \in Listening, Done(p)
  PROVE  /\ Complete /\ twi_masterBuffer[1].from = Sends /\ Sends # "bad"
         /\ twi_masterBuffer # <<>>
<1>1. Quiet /\ Agree /\ pc = p /\ call.at = "done" /\ pc \in ReadAt
  BY DEF WiiInv, NoFault, Done, ReadAt, Listening, IDAt
<1>2. ~Running /\ Heard
  BY <1>1 DEF Running, Agree
<1>3. call.op = "read"
  <2>1. CASE pointing
    <3>1. call.op = "write" /\ ~call.ok
      BY <1>1, <2>1 DEF WiiInv, CallInv, Done
    <3>2. call.ok <=> ~twi_error
      BY <1>1, <3>1 DEF Quiet
    <3>3. ~twi_error
      BY <1>2, <3>1 DEF Heard
    <3>4. QED
      BY <3>1, <3>2, <3>3, Zenon
  <2>2. CASE ~pointing
    BY <1>1, <2>2 DEF WiiInv, CallInv
  <2>3. QED
    BY <2>1, <2>2 DEF WiiInv, TypeOKWii
<1>4. /\ call.len \in {2, 3} /\ index = call.len /\ Len(twi_masterBuffer) = call.len
      /\ twi_masterBuffer \in Seq(Bytes)
      /\ \A i \in 1..call.len : twi_masterBuffer[i].from = Sends
  BY <1>1, <1>2, <1>3 DEF Quiet, Heard, WiiInv, TwiInv, CallShape, Short, Long
<1>5. call.ok
  <2>1. call.ok <=> index > 0
    BY <1>1, <1>3 DEF Quiet
  <2>2. index > 0
    BY <1>4
  <2>3. QED
    BY <2>1, <2>2, Zenon
<1>6. 1 \in 1..call.len /\ twi_masterBuffer # <<>>
  BY <1>4
<1>7. Complete
  BY <1>3, <1>4, <1>5, <1>6 DEF Complete
<1>8. plugged \in Exts
  BY <1>1 DEF Agree, Place, WiiInv, TypeOKWii
<1>9. Sends # "bad"
  BY <1>8, ExtsAssumption DEF Sends, ID, Format
<1>10. QED
  BY <1>4, <1>6, <1>7, <1>9

LEMMA IDAgrees ==
  ASSUME WiiInv, faults = 0, Ready, NEW p \in IDAt, Done(p)
  PROVE  readExtID = {ID} /\ ID # "NOT_INITIALISED"
<1>1. Complete /\ twi_masterBuffer[1].from = Sends /\ Sends # "bad"
  BY HeardComplete DEF Listening
<1>2. Sends = ID
  BY DEF Done, Sends
<1>3. plugged \in Exts
  BY DEF WiiInv, NoFault, Agree, Place, TypeOKWii
<1>4. QED
  BY <1>1, <1>2, <1>3, ExtsAssumption DEF readExtID, verifyData, ID

\* A step of the program that starts an access or ends the tick.
LEMMA ProgramStep ==
  ASSUME WiiInv, call.at = "done",
         UNCHANGED <<twi_state, twi_error, twi_masterBuffer, index, length, hw, held, faults>>,
         UNCHANGED envVars,
         (\E p \in ReadAt \cup WriteAt : Access(p)) \/ NoAccess("tick"),
         wiiExtensionID' \in Known \cup {"NO_EXTENSION", "NOT_INITIALISED"},
         readFunction' \in Formats \cup {"NULL"}, bytes' \in {Short, Long}, Sized',
         shown' \in {"up", "down", "junk", "misread"},
         buttons' \in {"up", "down", "junk", "misread"},
         faults = 0 => Place'
  PROVE  WiiInv'
<1>1. /\ CallShape' /\ ~Owned' /\ CallInv'
      /\ call'.at = "wait" \/ (call'.at = "done" /\ call'.op = "none" /\ pc' = "tick")
      /\ pc' \in {"tick"} \cup ReadAt \cup WriteAt /\ pointing' \in BOOLEAN
  BY AccessStep, NoAccessStep
<1>2. TwiInv' /\ (Quiet => Quiet')
  BY <1>1, CallStep DEF WiiInv
<1>3. TypeOKWii'
  BY <1>1, <1>2 DEF WiiInv, TwiInv, TypeOKWii, envVars
<1>4. ASSUME faults = 0 PROVE Agree'
  <2>1. ~(pc' \in Listening \cup {"poll", "hires"} /\ call'.at # "wait")
    BY <1>1 DEF Listening, IDAt
  <2>2. QED
    BY <1>4, <2>1 DEF Agree
<1>5. QED
  BY <1>1, <1>2, <1>3, <1>4 DEF WiiInv, NoFault

\* Of the place the program goes to, with what is plugged in left alone.
LEMMA PlaceStep ==
  ASSUME UNCHANGED envVars, Ready => plugged # "none",
         pc' \in {"d1", "d2"} => wiiExtensionID' = "drawsome",
         pc' \in {"hires", "check", "validate"} => wiiExtensionID' = "classic",
         Ready /\ pc' \in Longer => wiiExtensionID' = ID,
         Ready /\ pc' \in {"check", "validate"} => Resolved,
         Ready /\ pc' = "validate" => check' # <<>>,
         Ready /\ (pc' = "poll" \/ (pc' = "tick" /\ wiiExtensionID' \in Known)) =>
           readFunction' = plugged /\ Resolved,
         pc' = "w1" => ~Ready,
         shown' # "misread", buttons' # "misread"
  PROVE  Place'
<1>1. (Ready' <=> Ready) /\ (Resolved' <=> Resolved) /\ ID' = ID /\ plugged' = plugged
  BY DEF envVars, Ready, Resolved, ID
<1>2. QED
  BY <1>1 DEF Place

\* What is known of the program before such a step.
LEMMA Known0 ==
  ASSUME WiiInv
  PROVE  /\ wiiExtensionID \in Known \cup {"NO_EXTENSION", "NOT_INITIALISED"}
         /\ readFunction \in Formats \cup {"NULL"} /\ bytes \in {Short, Long} /\ Sized
         /\ shown \in {"up", "down", "junk", "misread"}
         /\ buttons \in {"up", "down", "junk", "misread"}
         /\ plugged \in Exts \cup {"none"}
         /\ faults = 0 => Place
BY DEF WiiInv, TypeOKWii, NoFault, Agree

\* The end of initWiiExt.
LEMMA SelectOf ==
  ASSUME NEW id, NEW f \in Formats \cup {"NULL"}, Select(id, f)
  PROVE  /\ NoAccess("tick") /\ pc' = "tick"
         /\ wiiExtensionID' \in Known \cup {"NO_EXTENSION"}
         /\ readFunction' \in Formats \cup {"NULL"}
         /\ wiiExtensionID' \in Known =>
              wiiExtensionID' = id /\ readFunction' = IF id = "classic" THEN f ELSE id
         /\ readFunction' = "classicHighRes" => f = "classicHighRes"
BY DEF Select, NoAccess, Known, Formats

\* An extension that spells an ID of the switch other than the classic
\* controller's reports in a single format.
LEMMA OneFormat ==
  ASSUME plugged \in Exts, ID # "classic" PROVE plugged = ID /\ Resolved
BY DEF ID, Resolved

LEMMA IdentifyInv ==
  WiiInv /\ (FirstID \/ SecondID)
    /\ UNCHANGED <<twi_state, twi_error, twi_masterBuffer, index, length, hw, held, faults>>
  => WiiInv'
<1> SUFFICES ASSUME WiiInv, FirstID \/ SecondID,
      UNCHANGED <<twi_state, twi_error, twi_masterBuffer, index, length, hw, held, faults>>
    PROVE WiiInv'
  OBVIOUS
<1>1. PICK p \in IDAt, id \in readExtID :
        /\ Done(p)
        /\ \/ id = "NOT_INITIALISED" /\ Access("w1") /\ wiiExtensionID' = id
              /\ UNCHANGED readFunction
           \/ Identified(id)
  BY DEF FirstID, SecondID, IDAt
<1>2. UNCHANGED <<bytes, check, shown, buttons, envVars>> /\ call.at = "done"
  BY <1>1 DEF FirstID, SecondID, Done, madeVars
<1>3. faults = 0 /\ Ready => id = ID /\ id # "NOT_INITIALISED"
  BY <1>1, IDAgrees
<1>4. /\ readFunction \in Formats \cup {"NULL"} /\ bytes \in {Short, Long} /\ Sized
      /\ shown \in {"up", "down", "junk", "misread"}
      /\ buttons \in {"up", "down", "junk", "misread"}
      /\ plugged \in Exts \cup {"none"}
      /\ faults = 0 => Place
  BY Known0
<1>5. faults = 0 => (Ready => plugged # "none") /\ shown' # "misread" /\ buttons' # "misread"
  BY <1>2, <1>4 DEF Place
<1>6. CASE id = "NOT_INITIALISED" /\ Access("w1") /\ wiiExtensionID' = id /\ UNCHANGED readFunction
  <2>1. pc' = "w1" /\ "w1" \in WriteAt
    BY <1>6 DEF Access, WriteAt
  <2>2. faults = 0 => Place'
    BY <1>2, <1>3, <1>5, <1>6, <2>1, PlaceStep DEF Longer
  <2>3. QED
    BY <1>2, <1>4, <1>6, <2>1, <2>2, ProgramStep DEF Sized
<1>7. CASE id = "drawsome" /\ Identified(id)
  <2>1. Access("d1") /\ wiiExtensionID' = id /\ readFunction' = readFunction
    BY <1>7 DEF Identified
  <2>2. pc' = "d1" /\ "d1" \in WriteAt
    BY <2>1 DEF Access, WriteAt
  <2>3. faults = 0 => Place'
    BY <1>2, <1>3, <1>5, <1>7, <2>1, <2>2, PlaceStep
  <2>4. QED
    BY <1>2, <1>4, <1>7, <2>1, <2>2, <2>3, ProgramStep DEF Sized, Known
<1>8. CASE id = "classic" /\ Identified(id)
  <2>1. Access("hires") /\ wiiExtensionID' = id /\ readFunction' = readFunction
    BY <1>8 DEF Identified
  <2>2. pc' = "hires" /\ "hires" \in WriteAt
    BY <2>1 DEF Access, WriteAt
  <2>3. faults = 0 => Place'
    BY <1>2, <1>3, <1>5, <1>8, <2>1, <2>2, PlaceStep
  <2>4. QED
    BY <1>2, <1>4, <1>8, <2>1, <2>2, <2>3, ProgramStep DEF Sized, Known
<1>9. CASE id # "drawsome" /\ id # "classic" /\ Identified(id)
  <2>1. Select(id, readFunction)
    BY <1>9 DEF Identified
  <2>2. /\ NoAccess("tick") /\ pc' = "tick"
        /\ wiiExtensionID' \in Known \cup {"NO_EXTENSION"}
        /\ readFunction' \in Formats \cup {"NULL"}
        /\ wiiExtensionID' \in Known => readFunction' = id
        /\ readFunction' = "classicHighRes" => readFunction = "classicHighRes"
    BY <1>4, <1>9, <2>1, SelectOf
  <2>3. faults = 0 /\ Ready => plugged = id /\ Resolved
    BY <1>3, <1>4, <1>5, <1>9, OneFormat
  <2>4. faults = 0 => Place'
    BY <1>2, <1>5, <2>2, <2>3, PlaceStep DEF Longer
  <2>5. QED
    BY <1>2, <1>4, <2>2, <2>4, ProgramStep DEF Sized
<1>10. QED
  BY <1>1, <1>6, <1>7, <1>8, <1>9

\* The longer initialisations and the polls.
LEMMA InitialiseInv ==
  WiiInv /\ (Written \/ DrawsomeReady \/ Checked \/ Validated \/ tickWiiExtInput)
    /\ UNCHANGED <<twi_state, twi_error, twi_masterBuffer, index, length, hw, held, faults>>
  => WiiInv'
<1> SUFFICES ASSUME WiiInv, Written \/ DrawsomeReady \/ Checked \/ Validated \/ tickWiiExtInput,
      UNCHANGED <<twi_state, twi_error, twi_masterBuffer, index, length, hw, held, faults>>
    PROVE WiiInv'
  OBVIOUS
<1>1. /\ wiiExtensionID \in Known \cup {"NO_EXTENSION", "NOT_INITIALISED"}
      /\ readFunction \in Formats \cup {"NULL"} /\ bytes \in {Short, Long} /\ Sized
      /\ shown \in {"up", "down", "junk", "misread"}
      /\ buttons \in {"up", "down", "junk", "misread"}
      /\ plugged \in Exts \cup {"none"}
      /\ faults = 0 => Place
  BY Known0
<1>2. UNCHANGED <<shown, buttons, envVars>>
  BY DEF Written, DrawsomeReady, Checked, Validated, tickWiiExtInput, madeVars
<1>3. call.at = "done"
  BY DEF Written, DrawsomeReady, Checked, Validated, tickWiiExtInput, Done, WiiInv, CallInv, NoCall
<1>4. faults = 0 => (Ready => plugged # "none") /\ shown' # "misread" /\ buttons' # "misread"
  BY <1>1, <1>2 DEF Place
<1>5. ASSUME NEW p \in {"w2", "id2", "d2", "check", "validate", "id1", "poll"}, Access(p),
             UNCHANGED <<wiiExtensionID, readFunction, bytes>>,
             p = "d2" => pc = "d1",
             p = "check" => pc \in {"hires", "validate"},
             p = "validate" => pc = "check",
             p = "check" /\ faults = 0 /\ Ready => Resolved,
             p = "validate" /\ faults = 0 /\ Ready => check' # <<>>,
             p = "poll" => pc = "tick" /\ wiiExtensionID \in Known
      PROVE  WiiInv'
  <2>1. pc' = p /\ p \in ReadAt \cup WriteAt
    BY <1>5 DEF Access, ReadAt, WriteAt
  <2>2. ASSUME faults = 0 PROVE Place'
    <3>1. Place
      BY <1>1, <2>2
    <3>2. p = "d2" => wiiExtensionID' = "drawsome" /\ (Ready => wiiExtensionID' = ID)
      BY <1>5, <3>1 DEF Place, Longer
    <3>3. p \in {"check", "validate"} =>
            wiiExtensionID' = "classic" /\ (Ready => wiiExtensionID' = ID /\ Resolved)
      BY <1>5, <2>2, <3>1 DEF Place, Longer
    <3>4. p = "poll" /\ Ready => readFunction' = plugged /\ Resolved
      BY <1>5, <3>1 DEF Place
    <3>5. QED
      BY <1>2, <1>4, <1>5, <2>1, <2>2, <3>2, <3>3, <3>4, PlaceStep DEF Longer
  <2>3. QED
    BY <1>1, <1>2, <1>3, <1>5, <2>1, <2>2, ProgramStep DEF Sized
<1>6. ASSUME NEW f \in Formats \cup {"NULL"}, Select(wiiExtensionID, f), bytes' \in {Short, Long},
             f = "classicHighRes" => bytes' = Long,
             faults = 0 /\ Ready =>
               plugged = (IF wiiExtensionID = "classic" THEN f ELSE wiiExtensionID) /\ Resolved
      PROVE  WiiInv'
  <2>1. /\ NoAccess("tick") /\ pc' = "tick"
        /\ wiiExtensionID' \in Known \cup {"NO_EXTENSION"}
        /\ readFunction' \in Formats \cup {"NULL"}
        /\ wiiExtensionID' \in Known =>
             readFunction' = IF wiiExtensionID = "classic" THEN f ELSE wiiExtensionID
        /\ readFunction' = "classicHighRes" => f = "classicHighRes"
    BY <1>6, SelectOf
  <2>2. faults = 0 => Place'
    BY <1>2, <1>4, <1>6, <2>1, PlaceStep DEF Longer
  <2>3. Sized'
    BY <1>6, <2>1 DEF Sized
  <2>4. QED
    BY <1>1, <1>2, <1>3, <1>6, <2>1, <2>2, <2>3, ProgramStep
<1>7. CASE Written
  <2>1. pc = "hires" /\ faults = 0 /\ Ready => Resolved
    BY <1>3 DEF WiiInv, NoFault, Agree, Running
  <2>2. UNCHANGED <<wiiExtensionID, readFunction, bytes>>
    BY <1>7 DEF Written
  <2>3. QED
    BY <1>5, <1>7, <2>1, <2>2 DEF Written, Done
<1>8. CASE DrawsomeReady
  <2>1. pc = "d2" /\ Select(wiiExtensionID, readFunction) /\ bytes' = bytes
    BY <1>8 DEF DrawsomeReady, Done
  <2>2. faults = 0 /\ Ready => wiiExtensionID = ID /\ wiiExtensionID = "drawsome" /\ plugged \in Exts
    BY <1>1, <2>1 DEF Place, Longer
  <2>3. faults = 0 /\ Ready => plugged = wiiExtensionID /\ Resolved
    BY <2>2, OneFormat
  <2>4. QED
    BY <1>1, <1>6, <2>1, <2>2, <2>3 DEF Sized
<1>9. CASE Checked
  <2>1. /\ Done("check") /\ pc = "check" /\ Access("validate")
        /\ check' = IF Complete THEN twi_masterBuffer ELSE <<>>
        /\ UNCHANGED <<wiiExtensionID, readFunction, bytes>>
    BY <1>9 DEF Checked, Done
  <2>2. faults = 0 /\ Ready => Complete /\ twi_masterBuffer # <<>>
    BY <2>1, HeardComplete DEF Listening
  <2>3. QED
    BY <1>5, <2>1, <2>2
<1>10. CASE Validated
  <2>1. Done("validate") /\ pc = "validate"
    BY <1>10 DEF Validated, Done
  <2>2. CASE Access("check") /\ UNCHANGED <<wiiExtensionID, readFunction, bytes>>
    <3>1. faults = 0 /\ Ready => Resolved
      BY <1>1, <2>1 DEF Place
    <3>2. QED
      BY <1>5, <2>1, <2>2, <3>1
  <2>3. CASE /\ (Complete /\ twi_masterBuffer = check) \/ ~Complete \/ check = <<>>
             /\ \E f \in highRes : /\ Select(wiiExtensionID, f)
                                   /\ bytes' = IF f = "classicHighRes" THEN Long ELSE Short
    <3>1. PICK f \in highRes : /\ Select(wiiExtensionID, f)
                               /\ bytes' = IF f = "classicHighRes" THEN Long ELSE Short
      BY <2>3
    <3>2. f \in {"classic", "classicHighRes"}
      BY <3>1 DEF highRes
    <3>3. ASSUME faults = 0, Ready PROVE plugged = f /\ wiiExtensionID = "classic" /\ Resolved
      <4>1. /\ wiiExtensionID = "classic" /\ wiiExtensionID = ID /\ Resolved /\ check # <<>>
            /\ plugged \in Exts
        BY <1>1, <2>1, <3>3 DEF Place, Longer
      <4>2. Complete /\ twi_masterBuffer[1].from = Sends
        BY <2>1, <3>3, HeardComplete DEF Listening
      <4>3. twi_masterBuffer = check
        BY <2>3, <4>1, <4>2
      <4>4. Sends = plugged /\ plugged \in {"classic", "classicHighRes"}
        BY <2>1, <4>1 DEF Sends, Format, ID, Resolved, IDAt
      <4>5. highRes = {plugged}
        BY <4>1, <4>2, <4>3, <4>4 DEF highRes
      <4>6. QED
        BY <3>1, <4>1, <4>5
    <3>4. QED
      BY <1>6, <3>1, <3>2, <3>3 DEF Formats, Known
  <2>4. QED
    BY <1>10, <2>2, <2>3 DEF Validated
<1>11. CASE tickWiiExtInput
  <2>1. /\ pc = "tick" /\ UNCHANGED <<wiiExtensionID, readFunction, bytes>>
        /\ \/ Access("id1")
           \/ Access("poll") /\ wiiExtensionID \in Known
    BY <1>1, <1>11 DEF tickWiiExtInput
  <2>2. QED
    BY <1>5, <2>1
<1>12. QED
  BY <1>7, <1>8, <1>9, <1>10, <1>11

\* A report: its bytes are readFunction's, or bad, and as many as it looks at.
LEMMA PolledInv ==
  WiiInv /\ Polled
    /\ UNCHANGED <<twi_state, twi_error, twi_masterBuffer, index, length, hw, held, faults>>
  => WiiInv'
<1> SUFFICES ASSUME WiiInv, Polled,
      UNCHANGED <<twi_state, twi_error, twi_masterBuffer, index, length, hw, held, faults>>
    PROVE WiiInv'
  OBVIOUS
<1>1. /\ wiiExtensionID \in Known \cup {"NO_EXTENSION", "NOT_INITIALISED"}
      /\ readFunction \in Formats \cup {"NULL"} /\ bytes \in {Short, Long} /\ Sized
      /\ shown \in {"up", "down", "junk", "misread"}
      /\ buttons \in {"up", "down", "junk", "misread"}
      /\ plugged \in Exts \cup {"none"}
      /\ faults = 0 => Place
  BY Known0
<1>2. /\ pc = "poll" /\ call.at = "done"
      /\ UNCHANGED <<wiiExtensionID, readFunction, bytes, check, envVars>>
  BY DEF Polled, Done
<1>3. /\ faults = 0 => (Ready => plugged # "none") /\ shown # "misread" /\ buttons # "misread"
      /\ faults = 0 /\ Ready => readFunction = plugged /\ Resolved
  BY <1>1, <1>2 DEF Place
<1>4. CASE Access("id1") /\ UNCHANGED madeVars
  <2>1. pc' = "id1" /\ "id1" \in ReadAt /\ UNCHANGED <<shown, buttons>>
    BY <1>4 DEF Access, ReadAt, madeVars
  <2>2. faults = 0 => Place'
    BY <1>2, <1>3, <2>1, PlaceStep DEF Longer
  <2>3. QED
    BY <1>1, <1>2, <1>4, <2>1, <2>2, ProgramStep DEF Sized
<1>5. CASE /\ Complete => verifyData
           /\ NoAccess("tick")
           /\ shown' = IF readFunction = "NULL" THEN shown ELSE Made
           /\ buttons' = IF readFunction \in SetsButtons THEN Made ELSE buttons
  <2>1. Complete => call.op = "read" /\ call.ok /\ Len(twi_masterBuffer) = call.len
    BY DEF Complete
  <2>2. Complete => call.len \in {2, 3} /\ 1 \in 1..Len(twi_masterBuffer)
    BY <2>1 DEF WiiInv, TwiInv, CallShape, Short, Long
  <2>3. Complete => twi_masterBuffer \in Seq(Bytes) /\ Len(twi_masterBuffer) = index
    BY <1>2, <2>1 DEF WiiInv, TwiInv, Owned
  <2>4. Complete => twi_masterBuffer[1] \in Bytes
    BY <2>2, <2>3, Element
  <2>5. Made \in {"up", "down", "junk", "misread"}
    BY <2>4 DEF Made, Bytes
  <2>6. ASSUME faults = 0 PROVE Made # "misread"
    <3>1. CASE Complete
      <4>1. twi_masterBuffer[1].from \in {"bad", readFunction}
        BY <1>2, <2>1, <2>2, <2>3, <2>6, <3>1 DEF WiiInv, NoFault, Agree
      <4>2. twi_masterBuffer[1].from = readFunction
        BY <1>5, <3>1, <4>1 DEF verifyData
      <4>3. call.len = bytes
        BY <1>2, <2>1, <3>1 DEF WiiInv, TypeOKWii, CallInv, ReadAt, ReadLen, IDAt
      <4>4. Fits
        BY <1>1, <4>2, <4>3 DEF Fits, Sized
      <4>5. QED
        BY <2>4, <3>1, <4>4 DEF Made, Bytes
    <3>2. CASE ~Complete
      BY <3>2 DEF Made
    <3>3. QED
      BY <3>1, <3>2
  <2>7. /\ pc' = "tick"
        /\ shown' \in {"up", "down", "junk", "misread"}
        /\ buttons' \in {"up", "down", "junk", "misread"}
        /\ faults = 0 => shown' # "misread" /\ buttons' # "misread"
    BY <1>1, <1>3, <1>5, <2>5, <2>6 DEF NoAccess
  <2>8. faults = 0 => Place'
    BY <1>2, <1>3, <2>7, PlaceStep DEF Longer
  <2>9. QED
    BY <1>1, <1>2, <1>5, <2>7, <2>8, ProgramStep DEF Sized
<1>6. QED
  BY <1>4, <1>5 DEF Polled
------------------------------------------------------------------------------
(***************************************************************************)
(* The driver and the bus under the program.                               *)
(***************************************************************************)
\* The program's variables and the extension are left alone.
LEMMA LeftAlone ==
  UNCHANGED wiiVars =>
    /\ UNCHANGED <<pc, pointing, wiiExtensionID, readFunction, bytes, check, shown, buttons,
                   plugged, device, level, plugs>>
    /\ (Ready' <=> Ready) /\ (Resolved' <=> Resolved) /\ Sends' = Sends
    /\ (Place => Place')
<1> SUFFICES ASSUME UNCHANGED wiiVars
             PROVE  /\ UNCHANGED <<pc, pointing, wiiExtensionID, readFunction, bytes, check, shown,
                                   buttons, plugged, device, level, plugs>>
                    /\ (Ready' <=> Ready) /\ (Resolved' <=> Resolved) /\ Sends' = Sends
                    /\ (Place => Place')
  OBVIOUS
<1>1. UNCHANGED <<pc, pointing, wiiExtensionID, readFunction, bytes, check, shown, buttons,
                  plugged, device, level, plugs>>
  BY DEF wiiVars, envVars, madeVars
<1>2. (Ready' <=> Ready) /\ (Resolved' <=> Resolved) /\ Sends' = Sends /\ ID' = ID
  BY <1>1 DEF Ready, Resolved, Sends, Format, ID
<1>3. QED
  BY <1>1, <1>2 DEF Place

\* A step of the call in progress.
LEMMA SameAccess ==
  ASSUME WiiInv, TwiInv', UNCHANGED wiiVars, call.at # "done" \/ call' = call,
         call'.op = call.op, call'.data = call.data, call'.len = call.len,
         faults' = 0 => Quiet' /\ Agree'
  PROVE  WiiInv'
<1>1. UNCHANGED <<pc, pointing, wiiExtensionID, readFunction, bytes, check, shown, buttons,
                  plugged, device, level, plugs>>
  BY LeftAlone
<1>2. TypeOKWii' /\ Sized'
  BY <1>1 DEF WiiInv, TypeOKWii, TwiInv, Sized
<1>3. pc = "tick" => call.at = "done" /\ call' = call
  BY DEF WiiInv, CallInv, NoCall
<1>4. CallInv'
  BY <1>1, <1>3 DEF WiiInv, CallInv, ReadLen
<1>5. QED
  BY <1>2, <1>4 DEF WiiInv, NoFault

LEMMA EnterInv == WiiInv /\ Enter /\ UNCHANGED wiiVars => WiiInv'
<1> SUFFICES ASSUME WiiInv, Enter, UNCHANGED wiiVars PROVE WiiInv'
  OBVIOUS
<1>1. TwiInv'
  BY EnterTwi DEF WiiInv
<1>2. /\ call'.at = "run" /\ call'.op = call.op
      /\ call'.data = call.data /\ call'.len = call.len /\ call'.ok = call.ok
  BY CallAt DEF Enter, WiiInv, TwiInv
<1>3. /\ length' = call.len /\ index' = 0 /\ twi_masterBuffer' = call.data
      /\ hw' = "start" /\ twi_state' = Mode(call.op) /\ twi_error' = FALSE
      /\ UNCHANGED <<held, faults>> /\ call.at = "wait"
  BY DEF Enter
<1>4. Running' /\ (call.op = "read" => call.data = <<>>)
  BY <1>2, <1>3 DEF Running, WiiInv, TwiInv, CallShape, Mode
<1>5. ASSUME faults' = 0 PROVE Quiet' /\ Agree'
  <2>1. Quiet /\ Agree
    BY <1>3, <1>5 DEF WiiInv, NoFault
  <2>2. Quiet'
    <3>1. call.op = "read" => twi_masterBuffer' \in Seq(Bytes) /\ Len(twi_masterBuffer') = index'
      BY <1>1, <1>3 DEF TwiInv, Mode
    <3>2. ~held' /\ hw' \in Events
      BY <1>3, <2>1 DEF Quiet, Events
    <3>3. QED
      BY <1>2, <1>3, <1>4, <3>1, <3>2 DEF Quiet
  <2>3. Agree'
    <3>1. Place' /\ Heard' /\ (\A i \in 1..index' : FALSE)
      BY <1>2, <1>3, <1>4, <2>1, LeftAlone DEF Agree, Heard
    <3>2. QED
      BY <1>4, <3>1 DEF Agree
  <2>4. QED
    BY <2>2, <2>3
<1>6. QED
  BY <1>1, <1>2, <1>3, <1>5, SameAccess

LEMMA LeaveInv == WiiInv /\ (Leave \/ GiveUp) /\ UNCHANGED wiiVars => WiiInv'
<1> SUFFICES ASSUME WiiInv, Leave \/ GiveUp, UNCHANGED wiiVars PROVE WiiInv'
  OBVIOUS
<1>1. TwiInv'
  BY LeaveTwi DEF WiiInv
<1>2. UNCHANGED <<twi_state, twi_error, twi_masterBuffer, index, length, hw, held, faults>>
  BY DEF Leave, GiveUp
<1>3. TwiInv /\ CallShape /\ twi_error \in BOOLEAN /\ index \in Nat
  BY DEF WiiInv, TwiInv, TypeOKTwi
<1>4. /\ call'.op = call.op /\ call'.data = call.data /\ call'.len = call.len
      /\ call'.at = "done" /\ call.at # "done"
      /\ Leave => /\ call.at = "run" /\ ~Running
                  /\ call.op = "write" => (call'.ok <=> ~twi_error)
                  /\ call.op = "read" => (call'.ok <=> index > 0)
  <2>1. CASE Leave
    <3>1. PICK b \in BOOLEAN : /\ call' = [call EXCEPT !.at = "done", !.ok = b]
                               /\ b = IF call.op = "write" THEN ~twi_error ELSE index > 0
      <4>1. (~twi_error) \in BOOLEAN /\ (index > 0) \in BOOLEAN
        BY <1>3
      <4>2. (IF call.op = "write" THEN ~twi_error ELSE index > 0) \in BOOLEAN
        BY <4>1, Zenon
      <4>3. QED
        BY <2>1, <4>2, Zenon DEF Leave
    <3>2. /\ call'.op = call.op /\ call'.data = call.data /\ call'.len = call.len
          /\ call'.at = "done" /\ call'.ok = b
      BY <1>3, <3>1, CallAt
    <3>3. call.at = "run" /\ ~Running
      BY <2>1 DEF Leave, Running
    <3>4. call.op = "write" => (call'.ok <=> ~twi_error)
      BY <3>1, <3>2, Zenon
    <3>5. call.op = "read" => (call'.ok <=> index > 0)
      <4>1. call.op = "read" => b = (index > 0)
        BY <3>1, Zenon
      <4>2. QED
        BY <3>2, <4>1, Zenon
    <3>6. QED
      BY <3>2, <3>3, <3>4, <3>5
  <2>2. CASE GiveUp /\ ~Leave
    BY <1>3, <2>2, CallAt DEF GiveUp, timedOut
  <2>3. QED
    BY <2>1, <2>2
<1>5. ~Running'
  BY <1>4 DEF Running
<1>6. ASSUME faults' = 0 PROVE Quiet' /\ Agree'
  <2>1. Quiet /\ Agree
    BY <1>2, <1>6 DEF WiiInv, NoFault
  <2>2. Leave
    BY <2>1 DEF Quiet, Running, GiveUp, timedOut, Events
  <2>3. Quiet'
    <3>1. ~held' /\ (Running' => hw' \in Events) /\ (~Running' => twi_state' = "READY" /\ hw' = "idle")
          /\ (call'.at # "wait" /\ call'.op # "none" => length' = call'.len)
          /\ (Running' /\ hw' \in {"start", "sla"} => index' = 0)
      BY <1>2, <1>4, <1>5, <2>1, <2>2 DEF Quiet
    <3>2. call'.at # "wait" /\ call'.op = "write" =>
            twi_masterBuffer' = call'.data /\ (call'.at = "done" => (call'.ok <=> ~twi_error'))
      <4>1. call.op = "write" => twi_masterBuffer = call.data
        BY <1>4, <2>1, <2>2 DEF Quiet
      <4>2. call'.op = "write" => (call'.ok <=> ~twi_error')
        BY <1>2, <1>4, <2>2, Zenon
      <4>3. QED
        BY <1>2, <1>4, <4>1, <4>2, Zenon
    <3>3. call'.at # "wait" /\ call'.op = "read" =>
            /\ twi_masterBuffer' \in Seq(Bytes) /\ Len(twi_masterBuffer') = index'
            /\ ~Running' => index' \in {0, call'.len}
      BY <1>2, <1>4, <2>1, <2>2 DEF Quiet
    <3>4. call'.at # "wait" /\ call'.op = "read" => (call'.at = "done" => (call'.ok <=> index' > 0))
      BY <1>2, <1>4, <2>2, Zenon
    <3>5. QED
      BY <3>1, <3>2, <3>3, <3>4, Zenon DEF Quiet
  <2>4. Agree'
    <3>1. call.at = "run" /\ ~Running
      BY <1>4, <2>2
    <3>2. Place' /\ (Heard => Heard')
      BY <1>2, <1>4, <1>5, <2>1, <3>1, LeftAlone DEF Agree, Heard
    <3>3. QED
      BY <1>2, <1>4, <1>5, <2>1, <3>1, <3>2, LeftAlone DEF Agree
  <2>5. QED
    BY <2>3, <2>4
<1>7. QED
  BY <1>1, <1>4, <1>6, SameAccess

LEMMA BusFaultsInv == WiiInv /\ (BusError \/ Hold \/ LetGo) /\ UNCHANGED wiiVars => WiiInv'
<1> SUFFICES ASSUME WiiInv, BusError \/ Hold \/ LetGo, UNCHANGED wiiVars PROVE WiiInv'
  OBVIOUS
<1>1. TwiInv' /\ UNCHANGED call
  BY FaultsTwi DEF WiiInv, BusError, Hold, LetGo
<1>2. faults' # 0
  <2>1. CASE BusError \/ Hold
    BY <2>1, FaultCount DEF WiiInv, BusError, Hold
  <2>2. CASE LetGo
    BY <2>2 DEF LetGo, WiiInv, NoFault, Quiet
  <2>3. QED
    BY <2>1, <2>2
<1>3. QED
  BY <1>1, <1>2, SameAccess

\* The interrupt on a bus without faults.
LEMMA VectQuiet ==
  ASSUME TwiInv, Quiet, NEW present \in BOOLEAN, NEW byte \in Bytes, TWI_vect(present, byte),
         faults' = 0, call.op = "write" => call.len > 0
  PROVE  /\ Quiet' /\ Running
         /\ call.op = "write" => (twi_error' => twi_error \/ ~present)
         /\ call.op = "write" /\ present /\ ~Running' => Sending
         /\ call.op = "read" =>
              \/ /\ UNCHANGED <<twi_masterBuffer, index>> /\ (Running' \/ ~present)
              \/ /\ twi_masterBuffer' = Append(twi_masterBuffer, byte) /\ index' = index + 1
                 /\ Running' \/ index' = call.len
<1>1. hw \in Events /\ UNCHANGED <<call, length, held>>
  BY DEF TWI_vect, StartSent, Sent, Addressed, Got, Refused, Events
<1>2. Running
  BY <1>1 DEF Quiet, Events
<1>3. /\ call.at = "run" /\ call.op \in {"read", "write"} /\ length = call.len
      /\ call.op = "write" <=> twi_state = "MTX"
      /\ call.op = "read" <=> twi_state = "MRX"
      /\ call.op = "write" => twi_masterBuffer = call.data
      /\ call.op = "read" => /\ twi_masterBuffer \in Seq(Bytes) /\ Len(twi_masterBuffer) = index
                             /\ index < length
      /\ index \in 0..length /\ length \in Nat
      /\ hw \in {"start", "sla"} => index = 0
  BY <1>1, <1>2 DEF Running, Mode, TwiInv, TypeOKTwi, CallShape, CallType, Quiet, Events
<1>4. twi_stop => twi_state' = "READY" /\ hw' = "idle"
  BY StopTwi
<1>5. CASE StartSent
  <2>1. Running' /\ UNCHANGED <<twi_error, twi_masterBuffer, index>> /\ hw' = "sla" /\ hw = "start"
    BY <1>2, <1>5 DEF StartSent, Running
  <2>2. QED
    BY <1>1, <1>2, <1>3, <2>1 DEF Quiet, Events
<1>6. CASE present /\ hw \in {"sla", "data"} /\ Sent
  <2>1. /\ call.op = "write" /\ UNCHANGED <<twi_error, twi_masterBuffer>>
        /\ \/ hw' = "data" /\ twi_state' = twi_state
           \/ twi_state' = "READY" /\ hw' = "idle" /\ index = length
    BY <1>3, <1>4, <1>6 DEF Sent, More
  <2>2. IF hw' = "data" THEN Running' ELSE ~Running' /\ twi_state' = "READY" /\ hw' = "idle"
    BY <1>1, <1>2, <2>1 DEF Running, Mode
  <2>3. ~Running' => Sending
    BY <1>3, <1>6, <2>1, <2>2 DEF Sending
  <2>4. Quiet'
    BY <1>1, <1>3, <2>1, <2>2 DEF Quiet, Events
  <2>5. QED
    BY <1>2, <1>3, <2>1, <2>3, <2>4
<1>7. CASE present /\ Addressed
  <2>1. /\ Running' /\ UNCHANGED <<twi_error, twi_masterBuffer, index>> /\ hw' = "data"
        /\ call.op = "read"
    BY <1>2, <1>3, <1>7 DEF Addressed, Running
  <2>2. QED
    BY <1>1, <1>2, <1>3, <2>1 DEF Quiet, Events
<1>8. CASE ~present /\ (hw = "sla" \/ (hw = "data" /\ twi_state = "MTX")) /\ Refused
  <2>1. twi_state' = "READY" /\ hw' = "idle" /\ UNCHANGED <<twi_masterBuffer, index>>
    BY <1>4, <1>8 DEF Refused
  <2>2. ~Running'
    BY <2>1 DEF Running, Mode
  <2>3. call.op = "read" => index = 0
    BY <1>3, <1>8
  <2>4. Quiet'
    BY <1>1, <1>3, <2>1, <2>2, <2>3 DEF Quiet
  <2>5. QED
    BY <1>2, <1>8, <2>1, <2>4
<1>9. CASE Got(byte)
  <2>1. /\ twi_masterBuffer' = Append(twi_masterBuffer, byte) /\ index' = index + 1
        /\ call.op = "read" /\ hw = "data" /\ twi_state = "MRX"
        /\ \/ index' < length /\ hw' = "data" /\ twi_state' = "MRX"
           \/ ~(index' < length) /\ twi_state' = "READY" /\ hw' = "idle"
    BY <1>3, <1>4, <1>9 DEF Got, More
  <2>2. /\ twi_masterBuffer' \in Seq(Bytes) /\ Len(twi_masterBuffer') = index'
    BY <1>3, <2>1, AppendOne
  <2>3. IF hw' = "data" THEN Running'
        ELSE ~Running' /\ twi_state' = "READY" /\ hw' = "idle" /\ index' = call.len
    BY <1>1, <1>3, <2>1 DEF Running, Mode
  <2>4. Quiet'
    BY <1>1, <1>3, <2>1, <2>2, <2>3 DEF Quiet, Events
  <2>5. QED
    BY <1>2, <2>1, <2>3, <2>4
<1>10. QED
  BY <1>5, <1>6, <1>7, <1>8, <1>9 DEF TWI_vect

LEMMA BusInv == WiiInv /\ Bus => WiiInv'
<1> SUFFICES ASSUME WiiInv, Bus PROVE WiiInv'
  OBVIOUS
<1> DEFINE told == IF index = 0 \/ twi_state # "MRX" THEN level ELSE twi_masterBuffer[1].says
           byte == Byte(told)
           present == plugged # "none"
<1>1. TWI_vect(present, byte)
  BY DEF Bus
<1>2. /\ TwiInv /\ index \in Nat /\ faults \in Nat
      /\ level \in {"up", "down"} /\ plugged \in Exts \cup {"none"}
      /\ device \in {"raw", "half", "ready", "hires"}
  BY FaultsAssumption DEF WiiInv, TypeOKWii, TwiInv, TypeOKTwi
<1>3. byte \in Bytes /\ byte.from = IF Ready /\ present THEN Sends ELSE "bad"
  <2>1. told \in {"up", "down"}
    <3>1. CASE index = 0 \/ twi_state # "MRX"
      BY <1>2, <3>1
    <3>2. CASE ~(index = 0 \/ twi_state # "MRX")
      <4>1. twi_masterBuffer \in Seq(Bytes) /\ 1 \in 1..Len(twi_masterBuffer)
        BY <1>2, <3>2 DEF TwiInv
      <4>2. twi_masterBuffer[1] \in Bytes
        BY <4>1, Element
      <4>3. QED
        BY <3>2, <4>2 DEF Bytes
    <3>3. QED
      BY <3>1, <3>2
  <2>2. present => Sends \in Exts \cup {"classic"}
    BY <1>2 DEF Sends, Format, ID
  <2>3. byte = IF present /\ Ready THEN [from |-> Sends, says |-> told] ELSE Bad
    BY DEF Byte, Sends
  <2>4. QED
    BY <2>1, <2>2, <2>3 DEF Bad, Bytes
<1>4. present \in BOOLEAN
  OBVIOUS
<1> HIDE DEF told, byte
<1>5. TwiInv'
  BY <1>1, <1>2, <1>3, <1>4, VectTwi
<1>6. UNCHANGED <<pc, pointing, wiiExtensionID, readFunction, bytes, check, shown, buttons,
                  plugged, level, plugs, call>>
  BY <1>1 DEF Bus, TWI_vect, StartSent, Sent, Addressed, Got, Refused, madeVars
<1>7. device' \in {"raw", "half", "ready", "hires"}
  BY <1>2 DEF Bus
<1>8. TypeOKWii' /\ Sized'
  BY <1>5, <1>6, <1>7 DEF WiiInv, TypeOKWii, TwiInv, Sized
<1>9. CallInv'
  BY <1>6 DEF WiiInv, CallInv, ReadLen
<1>10. ASSUME faults' = 0 PROVE Quiet' /\ Agree'
  <2>1. faults = 0
    BY <1>1, <1>2, <1>10
    DEF TWI_vect, StartSent, Sent, Addressed, Got, Refused, twi_stop, Fault
  <2>2. Quiet /\ Agree /\ Place
    BY <2>1 DEF WiiInv, NoFault, Agree
  <2>3. call.op = "write" => /\ call.data = <<pc, "value">> \/ call.data = <<pc>>
                             /\ call.len = Len(call.data)
    BY DEF WiiInv, CallInv, TypeOKWii, NoCall, TwiInv, CallShape
  <2>4. call.op = "write" => call.data[1] = pc /\ call.len > 0
    BY <2>3
  <2>5. /\ Quiet' /\ Running
        /\ call.op = "write" => (twi_error' => twi_error \/ ~present)
        /\ call.op = "write" /\ present /\ ~Running' => Sending
        /\ call.op = "read" =>
             \/ /\ UNCHANGED <<twi_masterBuffer, index>> /\ (Running' \/ ~present)
             \/ /\ twi_masterBuffer' = Append(twi_masterBuffer, byte) /\ index' = index + 1
                /\ Running' \/ index' = call.len
    BY <1>1, <1>2, <1>3, <1>4, <1>10, <2>2, <2>4, VectQuiet
  <2>6. Sending => call.op = "write" /\ twi_masterBuffer[1] = pc
    <3> SUFFICES ASSUME Sending PROVE call.op = "write" /\ twi_masterBuffer[1] = pc
      OBVIOUS
    <3>1. call.op = "write" /\ call.at = "run"
      BY <1>2, <2>5 DEF Sending, Running, Mode, TwiInv, CallShape, CallType
    <3>2. QED
      BY <2>2, <2>4, <3>1 DEF Quiet
  \* What the step does to the extension.
  <2>7. /\ ~present \/ ~Sending => device' = device
        /\ present /\ Sending => device' =
             CASE pc = "w1" -> "half"
               [] pc = "w2" /\ device = "half" -> "ready"
               [] pc = "hires" /\ plugged = "classicHighRes" /\ Ready -> "hires"
               [] OTHER -> device
    BY <2>6 DEF Bus
  <2>8. (Ready' => present /\ (Ready \/ pc = "w2")) /\ (call.op = "read" => device' = device)
    <3>1. call.op = "read" => device' = device
      BY <2>6, <2>7
    <3>2. CASE ~present \/ ~Sending
      BY <2>2, <2>7, <3>1, <3>2 DEF Place, Ready
    <3>3. CASE present /\ Sending
      BY <2>7, <3>1, <3>3 DEF Ready
    <3>4. QED
      BY <3>1, <3>2, <3>3
  <2>9. pc \notin {"w1", "w2"} => (Resolved => Resolved') /\ (Ready' => Ready)
    BY <1>6, <2>7, <2>8 DEF Resolved
  <2>10. pc = "hires" /\ ~Running' /\ Ready' => Resolved'
    <3> SUFFICES ASSUME pc = "hires", ~Running', Ready' PROVE Resolved'
      OBVIOUS
    <3>1. call.op = "write" /\ Ready /\ present
      BY <2>8 DEF WiiInv, CallInv, WriteAt
    <3>2. Sending
      BY <2>5, <3>1
    <3>3. QED
      BY <1>6, <2>7, <3>1, <3>2 DEF Resolved
  <2>11. Place'
    <3>1. ID' = ID
      BY <1>6 DEF ID
    <3>2. pc \in Longer \cup {"poll", "tick"} => pc \notin {"w1", "w2"}
      BY DEF Longer
    <3>3. /\ Ready' => plugged' # "none"
          /\ pc' = "w1" => ~Ready'
          /\ shown' # "misread" /\ buttons' # "misread"
          /\ pc' \in {"d1", "d2"} => wiiExtensionID' = "drawsome"
          /\ pc' \in {"hires", "check", "validate"} => wiiExtensionID' = "classic"
      BY <1>6, <2>2, <2>8 DEF Place
    <3>4. /\ Ready' /\ pc' \in Longer => wiiExtensionID' = ID'
          /\ Ready' /\ pc' \in {"check", "validate"} => Resolved'
          /\ Ready' /\ pc' = "validate" => check' # <<>>
      BY <1>6, <2>2, <2>9, <3>1, <3>2 DEF Place, Longer
    <3>5. Ready' /\ (pc' = "poll" \/ (pc' = "tick" /\ wiiExtensionID' \in Known)) =>
            readFunction' = plugged' /\ Resolved'
      BY <1>6, <2>2, <2>9, <3>2 DEF Place
    <3>6. QED
      BY <3>3, <3>4, <3>5 DEF Place
  \* The bytes of a read: those before and perhaps one more.
  <2>12. ASSUME NEW S, call.op = "read", byte.from \in S,
                \A i \in 1..index : twi_masterBuffer[i].from \in S
         PROVE  \A i \in 1..index' : twi_masterBuffer'[i].from \in S
    <3>1. twi_masterBuffer \in Seq(Bytes) /\ Len(twi_masterBuffer) = index
      BY <2>2, <2>5, <2>12 DEF Quiet, Running
    <3>2. CASE UNCHANGED <<twi_masterBuffer, index>>
      BY <2>12, <3>2
    <3>3. CASE twi_masterBuffer' = Append(twi_masterBuffer, byte) /\ index' = index + 1
      <4>1. /\ \A i \in 1..index : twi_masterBuffer'[i] = twi_masterBuffer[i]
            /\ twi_masterBuffer'[index + 1] = byte /\ index \in Nat
        BY <1>3, <3>1, <3>3, AppendOne
      <4>2. \A i \in 1..index' : i \in 1..index \/ i = index + 1
        BY <3>3, <4>1
      <4>3. QED
        BY <2>12, <4>1, <4>2, Zenon
    <3>4. QED
      BY <2>5, <2>12, <3>2, <3>3
  <2>13. pc \in Listening /\ Ready' => Heard'
    <3> SUFFICES ASSUME pc \in Listening, Ready' PROVE Heard'
      OBVIOUS
    <3>1. Ready /\ present /\ call.at = "run" /\ byte.from = Sends
      BY <1>3, <2>5, <2>8, <2>9 DEF Running, Listening, IDAt
    <3>2. Heard
      BY <2>2, <3>1 DEF Agree
    <3>3. call.op = "write" => ~twi_error'
      BY <2>5, <3>1, <3>2 DEF Heard
    <3>4. call.op = "read" /\ ~Running' => index' = call.len
      BY <2>5, <3>1
    <3>5. call.op = "read" => Sends' = Sends
      BY <1>6, <2>8 DEF Sends, Format, ID
    <3>6. call.op = "read" => \A i \in 1..index' : twi_masterBuffer'[i].from \in {Sends}
      BY <2>12, <3>1, <3>2 DEF Heard
    <3>7. QED
      BY <1>6, <3>3, <3>4, <3>5, <3>6 DEF Heard
  <2>14. pc = "poll" /\ call.op = "read" =>
           \A i \in 1..index' : twi_masterBuffer'[i].from \in {"bad", readFunction}
    <3> SUFFICES ASSUME pc = "poll", call.op = "read"
                 PROVE  \A i \in 1..index' : twi_masterBuffer'[i].from \in {"bad", readFunction}
      OBVIOUS
    <3>1. \A i \in 1..index : twi_masterBuffer[i].from \in {"bad", readFunction}
      BY <2>2, <2>5 DEF Agree, Running
    <3>2. Ready => Sends = readFunction
      BY <2>2 DEF Place, Sends, Format, ID, Resolved, IDAt
    <3>3. byte.from \in {"bad", readFunction}
      BY <1>3, <3>2
    <3>4. QED
      BY <2>12, <3>1, <3>3
  <2>15. Agree'
    BY <1>6, <2>10, <2>11, <2>13, <2>14 DEF Agree
  <2>16. QED
    BY <2>5, <2>15
<1>11. QED
  BY <1>5, <1>8, <1>9, <1>10 DEF WiiInv, NoFault

\* The player: a freshly plugged extension is not initialised.
LEMMA PlugInv ==
  ASSUME WiiInv, UNCHANGED twiVars,
         \/ \E e \in Exts \cup {"none"} : Plug(e)
         \/ Press
         \/ UNCHANGED wiiVars
  PROVE  WiiInv'
<1>1. UNCHANGED <<pc, pointing, wiiExtensionID, readFunction, bytes, check, shown, buttons>>
  BY DEF Plug, Press, wiiVars, madeVars
<1>2. /\ plugged' \in Exts \cup {"none"} /\ device' \in {"raw", "half", "ready", "hires"}
      /\ level' \in {"up", "down"} /\ plugs' \in 0..MaxPlugs
  <2>1. plugs \in 0..MaxPlugs /\ (MayPlay => plugs + 1 \in 0..MaxPlugs)
    BY PlugsAssumption DEF MayPlay, WiiInv, TypeOKWii
  <2>2. QED
    BY <2>1 DEF Plug, Press, wiiVars, envVars, WiiInv, TypeOKWii
<1>3. ~Ready' \/ UNCHANGED <<plugged, device>>
  BY DEF Plug, Press, wiiVars, envVars, Ready
<1>4. TwiInv' /\ CallInv' /\ (Quiet => Quiet')
  BY <1>1 DEF WiiInv, TwiInv, TypeOKTwi, CallShape, Owned, CallInv, ReadLen, Quiet, Running, twiVars
<1>5. TypeOKWii' /\ Sized'
  BY <1>1, <1>2, <1>4 DEF WiiInv, TypeOKWii, TwiInv, Sized
<1>6. Agree => Agree'
  <2>1. CASE ~Ready'
    <3>1. Place => Place'
      BY <1>1, <2>1 DEF Place
    <3>2. QED
      BY <1>1, <2>1, <3>1 DEF Agree, twiVars
  <2>2. CASE UNCHANGED <<plugged, device>>
    <3>1. /\ (Ready' <=> Ready) /\ (Resolved' <=> Resolved) /\ Sends' = Sends /\ ID' = ID
          /\ (Running' <=> Running)
      BY <1>1, <2>2 DEF Ready, Resolved, Sends, Format, ID, Running, twiVars
    <3>2. (Place => Place') /\ (Heard => Heard')
      BY <1>1, <2>2, <3>1 DEF Place, Heard, twiVars
    <3>3. QED
      BY <1>1, <3>1, <3>2 DEF Agree, twiVars
  <2>3. QED
    BY <1>3, <2>1, <2>2
<1>7. QED
  BY <1>4, <1>5, <1>6 DEF WiiInv, NoFault, twiVars

------------------------------------------------------------------------------
LEMMA InitWiiInv == InitWii => WiiInv
<1> SUFFICES ASSUME InitWii PROVE WiiInv
  OBVIOUS
<1>1. call = [op |-> "none", data |-> <<>>, len |-> 0, at |-> "done", ok |-> FALSE]
  BY DEF InitWii, InitTwi, NoCall
<1>2. CallShape /\ ~Owned /\ ~Running
  BY <1>1 DEF CallShape, CallType, Owned, Running
<1>3. TypeOKTwi
  <2>1. index \in 0..length /\ length \in Nat /\ Len(twi_masterBuffer) <= length
    BY DEF InitWii, InitTwi
  <2>2. faults \in 0..MaxFaults
    BY FaultsAssumption DEF InitWii, InitTwi
  <2>3. twi_error \in BOOLEAN /\ held \in BOOLEAN
    BY Zenon DEF InitWii, InitTwi
  <2>4. call.at = "done" /\ call.ok \in BOOLEAN /\ twi_state = "READY" /\ hw = "idle"
    BY <1>1 DEF InitWii, InitTwi
  <2>5. QED
    BY <2>1, <2>2, <2>3, <2>4 DEF TypeOKTwi
<1>4. TwiInv
  BY <1>1, <1>2, <1>3 DEF TwiInv, InitWii, InitTwi
<1>5. TypeOKWii
  <2>1. plugs \in 0..MaxPlugs
    BY PlugsAssumption DEF InitWii
  <2>2. pointing \in BOOLEAN
    BY Zenon DEF InitWii
  <2>3. QED
    BY <1>3, <2>1, <2>2 DEF TypeOKWii, InitWii
<1>6. CallInv /\ Sized
  BY DEF CallInv, Sized, InitWii, InitTwi, ReadAt, WriteAt
<1>7. Quiet /\ Agree
  BY <1>1, <1>2 DEF Quiet, Agree, Place, InitWii, InitTwi, Ready, Known, Longer, Listening, IDAt
<1>8. QED
  BY <1>4, <1>5, <1>6, <1>7 DEF WiiInv, NoFault

LEMMA WiiStep == WiiInv /\ [WiiNext]_<<twiVars, wiiVars>> => WiiInv'
<1> SUFFICES ASSUME WiiInv, [WiiNext]_<<twiVars, wiiVars>> PROVE WiiInv'
  OBVIOUS
<1>1. CASE WiiProgram
  BY <1>1, ReadPointedInv, IdentifyInv, InitialiseInv, PolledInv DEF WiiProgram, Steps
<1>2. CASE Driver
  BY <1>2, EnterInv, LeaveInv DEF Driver
<1>3. CASE Bus
  BY <1>3, BusInv
<1>4. CASE (BusError \/ Hold \/ LetGo) /\ UNCHANGED wiiVars
  BY <1>4, BusFaultsInv
<1>5. CASE (\E e \in Exts \cup {"none"} : Plug(e)) \/ Press
  BY <1>5, PlugInv DEF Plug, Press
<1>6. CASE UNCHANGED <<twiVars, wiiVars>>
  BY <1>6, PlugInv
<1>7. QED
  BY <1>1, <1>2, <1>3, <1>4, <1>5, <1>6 DEF WiiNext

------------------------------------------------------------------------------
(***************************************************************************)
(* The PS2 driver.                                                         *)
(***************************************************************************)
CommandAt == {"enter", "mode", "pressures", "exit", "unstick"}
PadModes == {"digital", "analog", "pressure"} \cup Simple
PadType == [kind : Pads \cup {"none"}, conf : BOOLEAN, mode : PadModes]

\* Only a pad that has a configuration mode is in it.
ConfHasIt == pad.conf => pad.kind = "dualshock"

\* The inductive invariant.  While the driver leaves configuration mode, a pad
\* that is still in it has missed every try so far; outside the commands, it has
\* missed all of them.
ConfInv ==
  /\ ppc \notin CommandAt => tries = 0
  /\ ConfHasIt
  /\ pad.conf /\ ppc \in {"tick", "begin", "read"} => losses >= MaxTries
  /\ pad.conf /\ ppc \in {"exit", "unstick"} => losses >= tries
Ps2Inv == TypeOKPs2 /\ ConfInv

\* A fresh pad is not in configuration mode.
LEMMA FreshPad == \A k \in Pads : Fresh(k) \in PadType /\ ~Fresh(k).conf
BY DEF Fresh, PadType, PadModes, Simple

\* What a pad that gets a command becomes.
LEMMA ObeyedPad ==
  ASSUME TypeOKPs2, ConfHasIt, NEW c
  PROVE  /\ Obeyed(c) \in PadType
         /\ Obeyed(c).conf => Obeyed(c).kind = "dualshock"
         /\ c # "enter" /\ Obeyed(c).conf => pad.conf
         /\ c = "exit" => ~Obeyed(c).conf
<1>1. pad \in PadType
  BY DEF TypeOKPs2, PadType, PadModes
<1>2. CASE pad.kind # "dualshock"
  <2>1. Obeyed(c) = pad
    BY <1>2 DEF Obeyed
  <2>2. ~pad.conf
    BY <1>2, Zenon DEF ConfHasIt
  <2>3. QED
    BY <1>1, <2>1, <2>2
<1>3. CASE pad.kind = "dualshock" /\ c = "enter"
  BY <1>1, <1>3 DEF Obeyed, PadType
<1>4. CASE pad.kind = "dualshock" /\ c = "exit"
  BY <1>1, <1>4 DEF Obeyed, PadType
<1>5. CASE pad.kind = "dualshock" /\ c \notin {"enter", "exit"}
  BY <1>1, <1>5 DEF Obeyed, PadType, PadModes
<1>6. QED
  BY <1>2, <1>3, <1>4, <1>5

\* The outcome of an exchange: a pad is in configuration mode after "exit" only
\* if the exchange was lost.
LEMMA ExchangeOutcome ==
  ASSUME TypeOKPs2, ConfHasIt, NEW c, NEW r \in Exchanges(c), Exchange(r)
  PROVE  /\ pad' \in PadType /\ ConfHasIt'
         /\ losses' \in 0..MaxLosses /\ losses' >= losses
         /\ c # "enter" /\ pad'.conf => pad.conf
         /\ c = "exit" /\ pad'.conf => losses' = losses + 1 /\ r.in = "NULL"
         /\ UNCHANGED <<player, moves>>
<1> USE LossesAssumption
<1>0. pad \in PadType /\ losses \in 0..MaxLosses
  BY DEF TypeOKPs2, PadType, PadModes
<1>1. CASE pad = NoPad
  <2>1. r = [in |-> "NULL", pad |-> pad, lost |-> 0]
    BY <1>1 DEF Exchanges
  <2>2. pad' = pad /\ losses' = losses /\ ~pad.conf
    BY <1>0, <1>1, <2>1 DEF Exchange, NoPad
  <2>3. QED
    BY <1>0, <2>2 DEF Exchange, ConfHasIt
<1>2. CASE pad # NoPad /\ r.lost = 0
  <2>1. r.pad = Obeyed(c)
    BY <1>2 DEF Exchanges
  <2>2. pad' = Obeyed(c) /\ losses' = losses
    BY <1>0, <1>2, <2>1 DEF Exchange
  <2>3. QED
    BY <1>0, <2>2, ObeyedPad DEF Exchange, ConfHasIt
<1>3. CASE pad # NoPad /\ r.lost # 0
  <2>1. r.pad \in {pad, Obeyed(c)} /\ losses < MaxLosses /\ r.lost = 1 /\ r.in = "NULL"
    BY <1>3 DEF Exchanges
  <2>2. pad' \in {pad, Obeyed(c)} /\ losses' = losses + 1
    BY <2>1 DEF Exchange
  <2>3. QED
    BY <1>0, <2>1, <2>2, ObeyedPad DEF Exchange, ConfHasIt
<1>4. QED
  BY <1>1, <1>2, <1>3
\* read() returns: to begin(), to the end of the tick, or on to the commands.
LEMMA ReturnTo ==
  ASSUME TypeOKPs2, NEW ok \in BOOLEAN,
         NEW t \in PadTypes, Return(ok, t)
  PROVE  /\ ppc' \in {"begin", "enter", "tick"} /\ reads' \in 0..Disposable
         /\ ps2CtrlType' \in PadTypes
BY DEF Return, TypeOKPs2, Disposable, PadTypes

LEMMA readInv == Ps2Inv /\ read => Ps2Inv'
<1> SUFFICES ASSUME Ps2Inv, read PROVE Ps2Inv'
  OBVIOUS
<1>1. PICK r \in Exchanges("poll") :
        /\ Exchange(r)
        /\ \/ r.in = "NULL" /\ Return(FALSE, ps2CtrlType) /\ UNCHANGED buttonWord
           \/ /\ r.in = "config" /\ ppc' = "unstick"
              /\ UNCHANGED <<reads, ps2CtrlType, buttonWord>>
           \/ /\ r.in \notin {"NULL", "config"} /\ Return(TRUE, Typed(r.in))
              /\ buttonWord' = player
  BY DEF read
<1>2. /\ pad' \in PadType /\ ConfHasIt' /\ losses' \in 0..MaxLosses /\ losses' >= losses
      /\ pad'.conf => pad.conf
      /\ UNCHANGED <<player, moves>>
  BY <1>1, ExchangeOutcome DEF Ps2Inv, ConfInv
<1>3. tries = 0 /\ tries' = 0 /\ UNCHANGED <<reading, cnt>> /\ ppc \in {"begin", "read"}
  BY DEF read, Ps2Inv, ConfInv, CommandAt
<1>4. Typed(r.in) \in PadTypes
  BY DEF Typed, Ps2Inv, TypeOKPs2, PadTypes
<1>5. /\ ppc' \in {"begin", "enter", "tick", "unstick"} /\ reads' \in 0..Disposable
      /\ ps2CtrlType' \in PadTypes
      /\ buttonWord' \in {"up", "down"}
  BY <1>1, <1>4, ReturnTo DEF Ps2Inv, TypeOKPs2
<1>6. TypeOKPs2'
  BY <1>2, <1>3, <1>5 DEF Ps2Inv, TypeOKPs2, PadType, PadModes
<1>7. pad'.conf => losses' >= MaxTries
  BY <1>2, <1>3, TriesAssumption, LossesAssumption DEF Ps2Inv, ConfInv, TypeOKPs2
<1>8. losses' >= tries'
  BY <1>2, <1>3
<1>9. ConfInv'
  BY <1>2, <1>3, <1>5, <1>7, <1>8 DEF ConfInv
<1>10. QED
  BY <1>6, <1>9 DEF Ps2Inv
\* One try of a command.  A try that ends the command with the pad still in
\* configuration mode was the last of MaxTries that were all lost.
LEMMA sendCommandInv == Ps2Inv /\ sendCommand => Ps2Inv'
<1> SUFFICES ASSUME Ps2Inv, sendCommand PROVE Ps2Inv'
  OBVIOUS
<1> USE TriesAssumption, LossesAssumption
<1> DEFINE n(r) == IF r.in = "NULL" \/ cnt = 3 THEN cnt ELSE cnt + 1
<1>1. PICK r \in Exchanges(Command) :
        /\ Exchange(r)
        /\ IF Granted(Command, r.in, n(r)) \/ Tried = MaxTries
           THEN /\ tries' = 0 /\ cnt' = 0
                /\ IF ppc = "unstick" THEN Return(TRUE, ps2CtrlType) /\ UNCHANGED reading
                   ELSE /\ ppc' = After[ppc] /\ reading' = "read"
                        /\ UNCHANGED <<reads, ps2CtrlType>>
           ELSE /\ tries' = Tried /\ cnt' = n(r)
                /\ UNCHANGED <<ppc, reading, reads, ps2CtrlType>>
  BY DEF sendCommand
<1>2. /\ pad' \in PadType /\ ConfHasIt' /\ losses' \in 0..MaxLosses /\ losses' >= losses
      /\ Command # "enter" /\ pad'.conf => pad.conf
      /\ Command = "exit" /\ pad'.conf => losses' = losses + 1 /\ r.in = "NULL"
      /\ UNCHANGED <<player, moves>>
  BY <1>1, ExchangeOutcome DEF Ps2Inv, ConfInv
<1>3. ppc \in CommandAt /\ buttonWord' = buttonWord
  BY DEF sendCommand, CommandAt
<1>4. /\ tries \in 0..(MaxTries - 1) /\ cnt \in 0..3 /\ losses \in Nat
  BY DEF Ps2Inv, TypeOKPs2
<1>5. ppc \in {"exit", "unstick"} => Command = "exit" /\ (pad'.conf => losses' >= Tried)
  BY <1>2, <1>4 DEF Command, Tried, Ps2Inv, ConfInv
<1>6. CASE Granted(Command, r.in, n(r)) \/ Tried = MaxTries
  <2>1. tries' = 0 /\ cnt' = 0
    BY <1>1, <1>6
  <2>2. ppc \in {"exit", "unstick"} /\ pad'.conf => losses' >= MaxTries
    <3>1. ASSUME ppc \in {"exit", "unstick"}, pad'.conf PROVE Tried = MaxTries
      BY <1>2, <1>5, <1>6, <3>1 DEF Granted
    <3>2. QED
      BY <1>5, <3>1
  <2>3. CASE ppc = "unstick"
    <3>1. Return(TRUE, ps2CtrlType) /\ reading' = reading
      BY <1>1, <1>6, <2>3
    <3>2. /\ ppc' \in {"begin", "enter", "tick"} /\ reads' \in 0..Disposable
          /\ ps2CtrlType' \in PadTypes
      BY <3>1, ReturnTo DEF Ps2Inv, TypeOKPs2
    <3>3. TypeOKPs2'
      BY <1>2, <1>3, <2>1, <3>1, <3>2 DEF Ps2Inv, TypeOKPs2, PadType, PadModes
    <3>4. ConfInv'
      BY <1>2, <2>1, <2>2, <2>3, <3>2 DEF ConfInv, CommandAt
    <3>5. QED
      BY <3>3, <3>4 DEF Ps2Inv
  <2>4. CASE ppc # "unstick"
    <3>1. ppc' = After[ppc] /\ reading' = "read" /\ UNCHANGED <<reads, ps2CtrlType>>
      BY <1>1, <1>6, <2>4
    <3>2. /\ ppc = "exit" => ppc' = "read"
          /\ ppc # "exit" => ppc' \in {"mode", "pressures", "exit"}
      BY <1>3, <2>4, <3>1 DEF After, CommandAt
    <3>3. TypeOKPs2'
      BY <1>2, <1>3, <2>1, <3>1, <3>2 DEF Ps2Inv, TypeOKPs2, PadType, PadModes
    <3>4. losses' >= 0
      BY <1>2
    <3>5. ConfInv'
      BY <1>2, <2>1, <2>2, <3>2, <3>4 DEF ConfInv, CommandAt
    <3>6. QED
      BY <3>3, <3>5 DEF Ps2Inv
  <2>5. QED
    BY <2>3, <2>4
<1>7. CASE ~(Granted(Command, r.in, n(r)) \/ Tried = MaxTries)
  <2>1. tries' = Tried /\ cnt' = n(r) /\ UNCHANGED <<ppc, reading, reads, ps2CtrlType>>
    BY <1>1, <1>7
  <2>2. tries' \in 0..(MaxTries - 1) /\ cnt' \in 0..3
    BY <1>4, <1>7, <2>1 DEF Tried
  <2>3. TypeOKPs2'
    BY <1>2, <1>3, <2>1, <2>2 DEF Ps2Inv, TypeOKPs2, PadType, PadModes
  <2>4. ConfInv'
    BY <1>2, <1>3, <1>5, <2>1 DEF ConfInv, CommandAt
  <2>5. QED
    BY <2>3, <2>4 DEF Ps2Inv
<1>8. QED
  BY <1>6, <1>7

LEMMA PlayerInv == Ps2Inv /\ Player => Ps2Inv'
<1> SUFFICES ASSUME Ps2Inv, Player PROVE Ps2Inv'
  OBVIOUS
<1>1. pad \in PadType /\ (pad.conf => pad.kind = "dualshock")
  BY DEF Ps2Inv, TypeOKPs2, PadType, PadModes, ConfInv, ConfHasIt
<1>2. pad' \in PadType /\ (pad'.conf => pad.conf /\ pad'.kind = pad.kind)
  <2>1. CASE pad' = NoPad
    BY <2>1 DEF NoPad, PadType, PadModes
  <2>2. CASE \E k \in Pads : pad' = Fresh(k)
    BY <2>2, FreshPad
  <2>3. CASE pad' = pad
    BY <1>1, <2>3
  <2>4. CASE /\ ~pad.conf
             /\ pad' = [pad EXCEPT !.mode = IF @ = "digital" THEN "analog" ELSE "digital"]
    BY <1>1, <2>4 DEF PadType, PadModes
  <2>5. QED
    BY <2>1, <2>2, <2>3, <2>4 DEF Player
<1>3. moves' \in 0..MaxMoves /\ player' \in {"up", "down"}
  BY LossesAssumption DEF Player, Ps2Inv, TypeOKPs2
<1>4. UNCHANGED <<ppc, reading, reads, tries, cnt, ps2CtrlType, buttonWord, losses>>
  BY DEF Player
<1>5. TypeOKPs2'
  BY <1>2, <1>3, <1>4 DEF Ps2Inv, TypeOKPs2, PadType, PadModes
<1>6. ConfInv'
  BY <1>1, <1>2, <1>4 DEF Ps2Inv, ConfInv, ConfHasIt
<1>7. QED
  BY <1>5, <1>6 DEF Ps2Inv

LEMMA InitPs2Inv == InitPs2 => Ps2Inv
<1> SUFFICES ASSUME InitPs2 PROVE Ps2Inv
  OBVIOUS
<1>1. pad \in PadType /\ ~pad.conf
  <2>1. CASE pad = NoPad
    BY <2>1 DEF NoPad, PadType, PadModes
  <2>2. CASE \E k \in Pads : pad = Fresh(k)
    BY <2>2, FreshPad
  <2>3. QED
    BY <2>1, <2>2 DEF InitPs2
<1>2. TypeOKPs2
  BY <1>1, TriesAssumption, LossesAssumption DEF InitPs2, TypeOKPs2, PadType, PadModes, PadTypes, Disposable
<1>3. ConfInv
  BY <1>1 DEF InitPs2, ConfInv, ConfHasIt
<1>4. QED
  BY <1>2, <1>3 DEF Ps2Inv

LEMMA Ps2Step == Ps2Inv /\ [Ps2Next]_ps2Vars => Ps2Inv'
<1> SUFFICES ASSUME Ps2Inv, [Ps2Next]_ps2Vars PROVE Ps2Inv'
  OBVIOUS
<1>1. CASE tickPS2CtrlInput
  BY <1>1 DEF tickPS2CtrlInput, Ps2Inv, TypeOKPs2, ConfInv, ConfHasIt, CommandAt
<1>2. CASE UNCHANGED ps2Vars
  BY <1>2 DEF ps2Vars, Ps2Inv, TypeOKPs2, ConfInv, ConfHasIt
<1>3. QED
  BY <1>1, <1>2, readInv, sendCommandInv, PlayerInv DEF Ps2Next, Ps2Program

------------------------------------------------------------------------------
(***************************************************************************)
(* All of the drivers.                                                     *)
(***************************************************************************)
Inv == WiiInv /\ Ps2Inv /\ SearchInv /\ inputType \in {"WII", "DIRECT", "PS2"}

\* A step of the system is a step of one driver, and stutters in the others.
LEMMA OneDriver ==
  [Next]_vars => /\ [WiiNext]_<<twiVars, wiiVars>>
                 /\ [Ps2Next]_ps2Vars
                 /\ [DirectNext]_directVars
                 /\ UNCHANGED inputType
<1> USE DEF vars
<1>1. CASE Wii(WiiNext)
  BY <1>1 DEF Wii
<1>2. CASE PS2(Ps2Next)
  BY <1>2 DEF PS2
<1>3. CASE Direct(DirectNext)
  BY <1>3 DEF Direct
<1>4. CASE UNCHANGED vars
  BY <1>4
<1>5. QED
  BY <1>1, <1>2, <1>3, <1>4 DEF Next

LEMMA InitInv == Init => Inv
BY InitWiiInv, InitPs2Inv, InitSearchInv DEF Init, Inv

LEMMA NextInv == Inv /\ [Next]_vars => Inv'
<1> SUFFICES ASSUME Inv, [Next]_vars PROVE Inv'
  OBVIOUS
<1>1. /\ [WiiNext]_<<twiVars, wiiVars>> /\ [Ps2Next]_ps2Vars /\ [DirectNext]_directVars
      /\ UNCHANGED inputType
  BY OneDriver
<1>2. WiiInv' /\ Ps2Inv' /\ SearchInv'
  BY <1>1, WiiStep, Ps2Step, NextSearchInv DEF Inv
<1>3. QED
  BY <1>1, <1>2 DEF Inv

LEMMA Invariant == Spec => []Inv
BY InitInv, NextInv, PTL DEF Spec

\* Type correctness of the drivers behind tickInputs.
THEOREM TypeCorrect == Spec => []TypeOK
<1>1. Inv => TypeOK
  BY DEF Inv, WiiInv, Ps2Inv, SearchInv, TypeOK
<1>2. QED
  BY Invariant, <1>1, PTL

\* Whatever is plugged in and out between and during the accesses of initWiiExt and
\* tickWiiExtInput, a report is interpreted as what it is on a bus without faults:
\* the ID that chose readFunction and the report come from the same extension,
\* because a swapped one is not initialised and says so.
THEOREM ReportsNotMisread == Spec => []NotMisread
<1>1. Inv => NotMisread
  BY DEF Inv, WiiInv, NoFault, Agree, Place, NotMisread
<1>2. QED
  BY Invariant, <1>1, PTL

\* autoShiftData, sendCommand and initialisePS2Ctrl leave a pad in configuration mode
\* only if as many exchanges were lost as one command is tried.
THEOREM ConfigModeLeft == Spec => []NotLeftInConfig
<1>1. Inv => NotLeftInConfig
  BY DEF Inv, Ps2Inv, ConfInv, NotLeftInConfig
<1>2. QED
  BY Invariant, <1>1, PTL

\* Pins read directly behave among the other drivers as they do on their own, so
\* AxesApart and AnswersFresh hold of the whole.
THEOREM DirectAlone == Spec => DirectSpec
<1>1. Init => InitDirect
  BY DEF Init
<1>2. QED
  BY <1>1, OneDriver, PTL DEF Spec, DirectSpec

==============================================================================
