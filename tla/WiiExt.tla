------------------------------- MODULE WiiExt --------------------------------
(***************************************************************************)
(* The Wii extension (wii_ext.h) on top of the I2C driver: finding out     *)
(* what is plugged in, initialising it and polling it, while the player    *)
(* plugs extensions in and out.                                            *)
(*                                                                         *)
(* The extension is outside the repository: a freshly plugged one answers  *)
(* with zeroes or ones ("bad") until it got both initialisation writes.    *)
(* A byte is what it came from and what it says.  A classic controller     *)
(* spells the same ID whether or not it has a high resolution; one that    *)
(* has it reports in that format once it was told to.  Local arrays that a *)
(* failed read leaves uninitialised hold anything ("junk").                *)
(***************************************************************************)
EXTENDS Twi

CONSTANTS
  Exts,           \* the extensions the player has
  MaxPlugs,       \* bound on what the player does,
  MaxFaultyPlugs  \* if the bus fails too

ASSUME ExtsAssumption ==
  Exts \subseteq {"guitar", "classic", "classicHighRes", "drawsome", "unknown"}
ASSUME PlugsAssumption == MaxPlugs \in Nat /\ MaxFaultyPlugs \in 0..MaxPlugs

VARIABLES
  pc,              \* where tickWiiExtInput or initWiiExt is: the I2C access it makes
  pointing,        \* that access is a read and its pointer is being written
  wiiExtensionID, readFunction,
  bytes,           \* how much a poll reads
  check,           \* the first of the two reads of a classic controller
  shown,           \* the axes readFunction last set
  buttons,         \* the buttons a readFunction last set, which readWiiButton reports
  plugged, device, \* the extension and how far it is initialised
  level,           \* what the player holds: "up" or "down"
  plugs            \* history: what MaxPlugs bounds

envVars == <<plugged, device, level, plugs>>
madeVars == <<shown, buttons>>
wiiVars == <<pc, pointing, wiiExtensionID, readFunction, bytes, check, madeVars, envVars>>

Known == {"guitar", "classic", "drawsome"}           \* the IDs of the switch
Formats == Known \cup {"classicHighRes"}
WriteAt == {"w1", "w2", "d1", "d2", "hires"}
ReadAt == {"poll", "id1", "id2", "check", "validate"}
IDAt == {"id1", "id2"}

\* What is read: an ID and a report take six bytes, a report in high resolution
\* eight; two and three here.
Short == 2
Long == 3
ReadLen(p) == CASE p \in IDAt -> Short [] p = "poll" -> bytes [] OTHER -> Long

Bad == [from |-> "bad", says |-> "up"]
Ready == device \in {"ready", "hires"}
ID == IF plugged = "classicHighRes" THEN "classic" ELSE plugged
Format == IF device = "hires" THEN plugged ELSE ID
Byte(says) == IF plugged # "none" /\ Ready
              THEN [from |-> IF pc \in IDAt THEN ID ELSE Format, says |-> says]
              ELSE Bad

InitWii ==
  /\ InitTwi
  /\ pc = "tick" /\ pointing = FALSE
  /\ wiiExtensionID = "NO_EXTENSION" /\ readFunction = "NULL"
  /\ bytes = Short /\ check = <<>>
  /\ shown = "up" /\ buttons = "up"
  /\ plugged \in Exts \cup {"none"} /\ device = "raw"
  /\ level \in {"up", "down"} /\ plugs = 0

------------------------------------------------------------------------------
(***************************************************************************)
(* Accesses.                                                               *)
(***************************************************************************)
\* Start the access at a place: twi_writeSingleToPointer is one write,
\* twi_readFromPointerSlow a write of the pointer and a read.
Access(p) ==
  /\ pc' = p /\ pointing' = (p \in ReadAt)
  /\ writeTo(IF p \in ReadAt THEN <<p>> ELSE <<p, "value">>)
NoAccess(p) == pc' = p /\ pointing' = FALSE /\ call' = NoCall

\* The pointer was written: read.  (If it was not, the access failed.)
ReadPointed ==
  /\ pointing /\ call.at = "done" /\ call.ok
  /\ pointing' = FALSE /\ readFrom(ReadLen(pc))
  /\ UNCHANGED <<twi_state, twi_error, twi_masterBuffer, index, length, hw, held, faults>>
  /\ UNCHANGED <<pc, wiiExtensionID, readFunction, bytes, check, madeVars, envVars>>

Done(p) == /\ pc = p /\ call.at = "done"
           /\ p \in ReadAt => ~pointing \/ ~call.ok

\* The whole of the data was read; otherwise some or all of it is junk.
Complete == /\ call.op = "read" /\ call.ok /\ Len(twi_masterBuffer) = call.len
            /\ \A i \in 1..call.len : twi_masterBuffer[i].from = twi_masterBuffer[1].from
verifyDataAlways == TRUE                                                  \* mutant
verifyData == twi_masterBuffer[1].from # "bad"   \* not all 0 and not all 1

\* readExtID: the ID the data spells, whether or not the read succeeded.
readExtID ==
  CASE ~Complete -> Known \cup {"unknown", "NOT_INITIALISED"}
    [] Complete /\ ~verifyData -> {"NOT_INITIALISED"}
    [] OTHER -> {twi_masterBuffer[1].from}

------------------------------------------------------------------------------
(***************************************************************************)
(* initWiiExt.                                                             *)
(***************************************************************************)
\* The switch at its end; a classic controller's readFunction, f, is set before it.
Select(id, f) ==
  /\ wiiExtensionID' = IF id \in Known THEN id ELSE "NO_EXTENSION"
  /\ readFunction' = CASE id = "classic" -> f
                       [] id \in Known \ {"classic"} -> id
                       [] OTHER -> "NULL"
  /\ NoAccess("tick")

Identified(id) ==
  CASE id = "drawsome" -> Access("d1") /\ wiiExtensionID' = id /\ UNCHANGED readFunction
    [] id = "classic" -> Access("hires") /\ wiiExtensionID' = id /\ UNCHANGED readFunction
    [] OTHER -> Select(id, readFunction)

FirstID ==
  /\ Done("id1")
  /\ \E id \in readExtID :
       IF id = "NOT_INITIALISED"
       THEN Access("w1") /\ wiiExtensionID' = id /\ UNCHANGED readFunction
       ELSE Identified(id)
  /\ UNCHANGED <<bytes, check, madeVars, envVars>>

SecondID ==
  /\ Done("id2")
  /\ \E id \in readExtID : Identified(id)
  /\ UNCHANGED <<bytes, check, madeVars, envVars>>

\* The writes, whose results nobody looks at.
WrittenOnce ==                                                            \* mutant
  /\ \/ Done("w1") /\ Access("id2")
     \/ Done("d1") /\ Access("d2")
     \/ Done("hires") /\ Access("check")
  /\ UNCHANGED <<wiiExtensionID, readFunction, bytes, check, madeVars, envVars>>
Written ==
  /\ \/ Done("w1") /\ Access("w2")
     \/ Done("w2") /\ Access("id2")
     \/ Done("d1") /\ Access("d2")
     \/ Done("hires") /\ Access("check")
  /\ UNCHANGED <<wiiExtensionID, readFunction, bytes, check, madeVars, envVars>>
DrawsomeReady ==
  /\ Done("d2") /\ Select(wiiExtensionID, readFunction)
  /\ UNCHANGED <<bytes, check, madeVars, envVars>>

\* The classic controller is read twice until both reads agree.
Checked ==
  /\ Done("check") /\ check' = (IF Complete THEN twi_masterBuffer ELSE <<>>)
  /\ Access("validate")
  /\ UNCHANGED <<wiiExtensionID, readFunction, bytes, madeVars, envVars>>

\* highRes: its bytes are not both zero; what only a classic controller tells.
highRes == IF check # <<>> /\ Complete /\ check[1].from \in {"classic", "classicHighRes"}
           THEN {check[1].from} ELSE {"classic", "classicHighRes"}
Validated ==
  /\ Done("validate")
  /\ LET same == Complete /\ twi_masterBuffer = check
         junk == ~Complete \/ check = <<>>
     IN \/ /\ same \/ junk
           /\ \E f \in highRes : /\ Select(wiiExtensionID, f)
                                /\ bytes' = IF f = "classicHighRes" THEN Long ELSE Short
        \/ ~same /\ Access("check") /\ UNCHANGED <<wiiExtensionID, readFunction, bytes>>
  /\ check' = <<>> /\ UNCHANGED <<madeVars, envVars>>

------------------------------------------------------------------------------
(***************************************************************************)
(* tickWiiExtInput.                                                        *)
(***************************************************************************)
tickWiiExtInput ==
  /\ pc = "tick"
  /\ Access(IF wiiExtensionID \in {"NOT_INITIALISED", "NO_EXTENSION"} THEN "id1" ELSE "poll")
  /\ UNCHANGED <<wiiExtensionID, readFunction, bytes, check, madeVars, envVars>>

Fits == /\ twi_masterBuffer[1].from = readFunction
        /\ readFunction = "classicHighRes" => call.len = Long
\* What readFunction makes of the data: "misread" if they are another format's, or
\* fewer than it looks at.
Made == CASE ~Complete -> "junk"
          [] Complete /\ ~Fits -> "misread"
          [] OTHER -> twi_masterBuffer[1].says
\* readDrawsomeExt sets axes only.
SetsButtons == Formats \ {"drawsome"}

\* A read that succeeds with bad data starts all over (a read that stopped short
\* may look bad); a read that fails goes on with what the array holds.
Polled ==
  /\ Done("poll")
  /\ \/ /\ call.op = "read" /\ call.ok /\ (Complete => ~verifyData)
        /\ Access("id1") /\ UNCHANGED madeVars
     \/ /\ Complete => verifyData
        /\ NoAccess("tick")
        /\ shown' = IF readFunction = "NULL" THEN shown ELSE Made
        /\ buttons' = IF readFunction \in SetsButtons THEN Made ELSE buttons
  /\ UNCHANGED <<wiiExtensionID, readFunction, bytes, check, envVars>>

Steps == FirstID \/ SecondID \/ Written \/ DrawsomeReady \/ Checked \/ Validated
         \/ tickWiiExtInput \/ Polled
WiiProgram ==
  \/ ReadPointed
  \/ /\ Steps
     /\ UNCHANGED <<twi_state, twi_error, twi_masterBuffer, index, length, hw, held, faults>>

------------------------------------------------------------------------------
(***************************************************************************)
(* The player and the extension.                                           *)
(***************************************************************************)
\* The bounds: MaxPlugs actions of the player on a good bus, fewer on one that fails.
MayPlay == plugs < IF faults = 0 THEN MaxPlugs ELSE MaxFaultyPlugs
MayFail == faults' # faults => plugs <= MaxFaultyPlugs
Plug(e) ==
  /\ MayPlay /\ plugs' = plugs + 1
  /\ e # plugged /\ (plugged = "none" \/ e = "none")
  /\ plugged' = e /\ device' = "raw"
  /\ UNCHANGED <<pc, pointing, wiiExtensionID, readFunction, bytes, check, madeVars, level, twiVars>>
Press ==
  /\ MayPlay /\ plugs' = plugs + 1
  /\ level' = IF level = "up" THEN "down" ELSE "up"
  /\ UNCHANGED <<pc, pointing, wiiExtensionID, readFunction, bytes, check, madeVars, plugged,
                 device, twiVars>>

\* The interrupt, with what the extension does: it answers while it is plugged
\* in, a report does not change while it is read, and a completed write moves its
\* initialisation on or turns its high resolution on.
Sending == twi_state = "MTX" /\ hw = "data" /\ index = length
Bus ==
  /\ TWI_vect(plugged # "none",
              Byte(IF index = 0 \/ twi_state # "MRX" THEN level
                   ELSE twi_masterBuffer[1].says))
  /\ MayFail
  /\ device' = IF plugged = "none" \/ ~Sending THEN device
               ELSE CASE twi_masterBuffer[1] = "w1" -> "half"
                      [] twi_masterBuffer[1] = "w2" /\ device = "half" -> "ready"
                      [] twi_masterBuffer[1] = "hires" /\ plugged = "classicHighRes" /\ Ready ->
                           "hires"
                      [] OTHER -> device
  /\ UNCHANGED <<pc, pointing, wiiExtensionID, readFunction, bytes, check, madeVars, plugged, level,
                 plugs>>

Driver == (Enter \/ Leave \/ GiveUp) /\ UNCHANGED wiiVars
WiiNext ==
  \/ WiiProgram \/ Driver \/ Bus
  \/ (BusError \/ Hold \/ LetGo) /\ MayFail /\ UNCHANGED wiiVars
  \/ (\E e \in Exts \cup {"none"} : Plug(e)) \/ Press

TypeOKWii ==
  /\ TypeOKTwi
  /\ pc \in {"tick"} \cup ReadAt \cup WriteAt /\ pointing \in BOOLEAN
  /\ wiiExtensionID \in Known \cup {"NO_EXTENSION", "NOT_INITIALISED"}
  /\ readFunction \in Formats \cup {"NULL"} /\ bytes \in {Short, Long}
  /\ shown \in {"up", "down", "junk", "misread"}
  /\ buttons \in {"up", "down", "junk", "misread"}
  /\ plugged \in Exts \cup {"none"} /\ device \in {"raw", "half", "ready", "hires"}
  /\ level \in {"up", "down"} /\ plugs \in 0..MaxPlugs

\* On a bus without faults a report is only ever interpreted as what it is: it
\* comes from the extension readFunction is for, in the resolution and the length
\* it is for, however extensions are swapped between and during the accesses.
NotMisread == faults = 0 => shown # "misread" /\ buttons # "misread"

\* On a bus without faults an extension the code knows is found, and from then
\* on read as what it is: its axes and its buttons are shown as the player holds
\* them, whatever was plugged in before and wherever the program was when it was
\* swapped.  (Nothing sets buttons for the drawing tablet: with it the host goes
\* on being shown those of the extension before it, so of its buttons nothing is
\* said.)
WiiFound ==
  (plugs = MaxPlugs /\ plugged \in Formats)
    ~> [](\/ faults > 0
         \/ /\ readFunction = plugged /\ shown = level
            /\ plugged \in SetsButtons => buttons = level)

\* Every call of the driver comes back, also on a bus that is held or dead.
CallReturns == (call.at # "done") ~> (call.at = "done")
==============================================================================
