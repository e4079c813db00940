--------------------------------- MODULE Twi ---------------------------------
(***************************************************************************)
(* The AVR's I2C driver (i2c.c): twi_writeTo and twi_readFrom start a      *)
(* transaction and wait for it with a timeout; the TWI interrupt runs it   *)
(* byte by byte.  Every caller asks for a stop at the end, so there is no  *)
(* repeated start.                                                         *)
(*                                                                         *)
(* The hardware and the bus are outside the repository: hw is the event    *)
(* the next interrupt will report.  A fault is noise on the bus, a device  *)
(* that holds the clock for longer than the timeout, or a stop condition   *)
(* that cannot be sent for as long.                                        *)
(***************************************************************************)
EXTENDS Integers, Sequences

CONSTANT MaxFaults   \* bound on the faults of the bus

ASSUME FaultsAssumption == MaxFaults \in Nat

VARIABLES
  call,             \* the call in progress: what, how long, where it is, its result
  twi_state,        \* "READY", "MTX" or "MRX"
  twi_error,        \* twi_error # 0xFF
  twi_masterBuffer, \* the bytes to send, or the bytes received
  index, length,    \* twi_masterBufferIndex, and the bytes wanted
  hw,               \* "idle", or the event that is due: "start", "sla", "data";
                    \* "dead" once a stop condition was given up on
  held,             \* the bus is held low
  faults            \* history: what MaxFaults bounds

twiVars == <<call, twi_state, twi_error, twi_masterBuffer, index, length, hw, held, faults>>

NoCall == [op |-> "none", data |-> <<>>, len |-> 0, at |-> "done", ok |-> FALSE]

\* twi_init
InitTwi ==
  /\ call = NoCall /\ twi_state = "READY" /\ twi_error = FALSE
  /\ twi_masterBuffer = <<>> /\ index = 0 /\ length = 0
  /\ hw = "idle" /\ held = FALSE /\ faults = 0

Mode(op) == IF op = "write" THEN "MTX" ELSE "MRX"
Fault == faults < MaxFaults /\ faults' = faults + 1

------------------------------------------------------------------------------
(***************************************************************************)
(* The program's side.                                                     *)
(***************************************************************************)
writeTo(data) ==
  call' = [op |-> "write", data |-> data, len |-> Len(data), at |-> "wait", ok |-> FALSE]
readFrom(n) ==
  call' = [op |-> "read", data |-> <<>>, len |-> n, at |-> "wait", ok |-> FALSE]

\* The driver is ready: set up the transaction and send the start condition.
Enter ==
  /\ call.at = "wait" /\ twi_state = "READY"
  /\ twi_state' = Mode(call.op) /\ twi_error' = FALSE
  /\ index' = 0 /\ length' = call.len
  /\ twi_masterBuffer' = call.data
  /\ hw' = "start" /\ call' = [call EXCEPT !.at = "run"]
  /\ UNCHANGED <<held, faults>>

\* The transaction is over: a write reports twi_error, a read whether it got any
\* byte at all.
Leave ==
  /\ call.at = "run" /\ twi_state # Mode(call.op)
  /\ call' = [call EXCEPT !.at = "done",
                          !.ok = IF call.op = "write" THEN ~twi_error ELSE index > 0]
  /\ UNCHANGED <<twi_state, twi_error, twi_masterBuffer, index, length, hw, held, faults>>

\* timeoutCounter reaches 0 in one of the two waits.  A transaction takes much
\* less, so that only happens on a bus that is held or dead.
timedOutOnlyInside == call.at = "run" /\ twi_state = Mode(call.op)        \* mutant
timedOut == \/ call.at = "wait" /\ twi_state # "READY"
            \/ call.at = "run" /\ twi_state = Mode(call.op)
GiveUp ==
  /\ timedOut /\ (held \/ hw = "dead")
  /\ call' = [call EXCEPT !.at = "done", !.ok = FALSE]
  /\ UNCHANGED <<twi_state, twi_error, twi_masterBuffer, index, length, hw, held, faults>>

------------------------------------------------------------------------------
(***************************************************************************)
(* The interrupt.  present: a device acknowledges; byte: what it sends.    *)
(***************************************************************************)
\* twi_stop: in the worst case it gives up and twi_state stays as it is.
twi_stop ==
  \/ twi_state' = "READY" /\ hw' = "idle" /\ UNCHANGED faults
  \/ Fault /\ hw' = "dead" /\ UNCHANGED twi_state

\* More bytes are to be sent or received after the first i.
MoreOneTooMany(i) == i <= length                                          \* mutant
More(i) == i < length

\* TW_START: the address goes out.
StartSent ==
  /\ hw = "start" /\ hw' = "sla"
  /\ UNCHANGED <<call, twi_state, twi_error, twi_masterBuffer, index, length, held, faults>>

\* TW_MT_SLA_ACK, TW_MT_DATA_ACK: the next byte or the end.
Sent ==
  /\ twi_state = "MTX"
  /\ IF More(index)
     THEN index' = index + 1 /\ hw' = "data" /\ UNCHANGED <<twi_state, faults>>
     ELSE twi_stop /\ UNCHANGED index
  /\ UNCHANGED <<call, twi_error, twi_masterBuffer, length, held>>

\* TW_MR_SLA_ACK
Addressed ==
  /\ twi_state = "MRX" /\ hw = "sla" /\ hw' = "data"
  /\ UNCHANGED <<call, twi_state, twi_error, twi_masterBuffer, index, length, held, faults>>

\* TW_MR_DATA_ACK, TW_MR_DATA_NACK: the last byte is not acknowledged and ends it.
Got(byte) ==
  /\ twi_state = "MRX" /\ hw = "data"
  /\ twi_masterBuffer' = Append(twi_masterBuffer, byte) /\ index' = index + 1
  /\ IF More(index') THEN UNCHANGED <<hw, twi_state, faults>> ELSE twi_stop
  /\ UNCHANGED <<call, twi_error, length, held>>

\* TW_MT_SLA_NACK, TW_MT_DATA_NACK, TW_MR_SLA_NACK
Refused ==
  /\ twi_error' = (twi_error \/ twi_state = "MTX") /\ twi_stop
  /\ UNCHANGED <<call, twi_masterBuffer, index, length, held>>

TWI_vect(present, byte) ==
  /\ ~held
  /\ \/ StartSent
     \/ present /\ hw \in {"sla", "data"} /\ Sent
     \/ present /\ Addressed
     \/ ~present /\ (hw = "sla" \/ (hw = "data" /\ twi_state = "MTX")) /\ Refused
     \/ Got(byte)

\* TW_MT_ARB_LOST releases the bus, TW_BUS_ERROR sends a stop condition, which
\* may be given up on.
BusError ==
  /\ ~held /\ hw \in {"start", "sla", "data"} /\ Fault
  /\ twi_error' = TRUE
  /\ \/ twi_state' = "READY" /\ hw' = "idle"
     \/ hw' = "dead" /\ UNCHANGED twi_state
  /\ UNCHANGED <<call, twi_masterBuffer, index, length, held>>

\* A device holds the clock, and lets go of it.
Hold ==
  /\ ~held /\ hw \in {"start", "sla", "data"} /\ Fault /\ held' = TRUE
  /\ UNCHANGED <<call, twi_state, twi_error, twi_masterBuffer, index, length, hw>>
LetGo ==
  /\ held /\ held' = FALSE
  /\ UNCHANGED <<call, twi_state, twi_error, twi_masterBuffer, index, length, hw, faults>>

TypeOKTwi ==
  /\ twi_state \in {"READY", "MTX", "MRX"} /\ twi_error \in BOOLEAN
  /\ index \in 0..length /\ length \in Nat /\ Len(twi_masterBuffer) <= length
  /\ call.at \in {"wait", "run", "done"} /\ call.ok \in BOOLEAN
  /\ hw \in {"idle", "start", "sla", "data", "dead"} /\ held \in BOOLEAN
  /\ faults \in 0..MaxFaults
==============================================================================
