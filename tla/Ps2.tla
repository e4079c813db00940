--------------------------------- MODULE Ps2 ---------------------------------
(***************************************************************************)
(* A Playstation controller (ps2_cnt.h): finding it, taking it through its *)
(* configuration mode and polling it.  One action is one exchange          *)
(* (autoShiftData); between two of them the player may unplug the pad.     *)
(*                                                                         *)
(* The pad is outside the repository.  It answers an exchange with the     *)
(* header of the mode it was in before, and then does what it was told; a  *)
(* pad without a configuration mode does nothing.  An exchange may be lost *)
(* on its way to the pad or back.                                          *)
(***************************************************************************)
EXTENDS Integers

\* The pads that only ever report in a mode of their own.
Simple == {"mouse", "flightstick", "negcon", "jogcon"}

CONSTANTS
  Pads,        \* the pads the player has
  MaxTries,    \* exchanges sendCommand makes in COMMAND_TIMEOUT
  MaxLosses,   \* bound on the exchanges lost
  MaxMoves     \* bound on what the player does

ASSUME PadsAssumption == Pads \subseteq {"dualshock", "digital"} \cup Simple
ASSUME TriesAssumption == MaxTries \in Nat \ {0}
ASSUME LossesAssumption == MaxLosses \in Nat /\ MaxMoves \in Nat

VARIABLES
  ppc,          \* where tickPS2CtrlInput is: the exchange it makes next
  reading,      \* which call of read() the command "unstick" belongs to
  reads,        \* readings begin() has made
  tries, cnt,   \* of sendCommand; cnt stops at 3, all that is asked of it
  ps2CtrlType, buttonWord,
  pad,          \* the pad: its kind, whether it is in configuration mode, its mode
  player,       \* what the player holds
  losses, moves \* history: what the bounds bound

ps2Vars == <<ppc, reading, reads, tries, cnt, ps2CtrlType, buttonWord, pad, player, losses, moves>>

NoPad == [kind |-> "none", conf |-> FALSE, mode |-> "digital"]
Fresh(k) == [kind |-> k, conf |-> FALSE, mode |-> IF k \in Simple THEN k ELSE "digital"]

InitPs2 ==
  /\ ppc = "tick" /\ reading = "read" /\ reads = 0 /\ tries = 0 /\ cnt = 0
  /\ ps2CtrlType = "NO_DEVICE" /\ buttonWord = "up"
  /\ pad \in {Fresh(k) : k \in Pads} \cup {NoPad} /\ player \in {"up", "down"}
  /\ losses = 0 /\ moves = 0

------------------------------------------------------------------------------
(***************************************************************************)
(* autoShiftData.                                                          *)
(***************************************************************************)
BUFFER_SIZE == 32
len == [poll |-> 3, enter |-> 4, exit |-> 4, mode |-> 5, pressures |-> 9]
replyLen == [digital |-> 2, mouse |-> 4, flightstick |-> 6, negcon |-> 6, jogcon |-> 6,
             analog |-> 6, pressure |-> 18, config |-> 6]

\* What is left of the reply after the command, in a uint8_t.
left(c, h) == (replyLen[h] - len[c] + 3) % 256
gathered(c, h) == left(c, h) = 0 \/ len[c] + left(c, h) <= BUFFER_SIZE

Header == IF pad.conf THEN "config" ELSE pad.mode
Obeyed(c) ==
  IF pad.kind # "dualshock" THEN pad
  ELSE CASE c = "enter" -> [pad EXCEPT !.conf = TRUE]
         [] c = "exit" -> [pad EXCEPT !.conf = FALSE]
         [] c = "mode" /\ pad.conf /\ pad.mode = "digital" -> [pad EXCEPT !.mode = "analog"]
         [] c = "pressures" /\ pad.conf /\ pad.mode = "analog" -> [pad EXCEPT !.mode = "pressure"]
         [] OTHER -> pad

\* The outcomes of an exchange: what is returned and what the pad has become.
Exchanges(c) ==
  IF pad = NoPad THEN {[in |-> "NULL", pad |-> pad, lost |-> 0]}
  ELSE {[in |-> IF gathered(c, Header) THEN Header ELSE "NULL", pad |-> Obeyed(c), lost |-> 0]}
       \cup {[in |-> "NULL", pad |-> p, lost |-> 1] :
               p \in IF losses < MaxLosses THEN {pad, Obeyed(c)} ELSE {}}

Exchange(r) == pad' = r.pad /\ losses' = losses + r.lost /\ UNCHANGED <<player, moves>>

------------------------------------------------------------------------------
(***************************************************************************)
(* read and begin.                                                         *)
(***************************************************************************)
Disposable == 5

\* read() returns to begin() or to the end of the tick.
Return(ok, type) ==
  \/ /\ reading = "begin" /\ reads < Disposable
     /\ ppc' = "begin" /\ reads' = reads + 1 /\ ps2CtrlType' = type
  \/ /\ reading = "begin" /\ reads = Disposable
     /\ ppc' = (IF ok THEN "enter" ELSE "tick") /\ reads' = 0 /\ ps2CtrlType' = type
  \/ /\ reading = "read"
     /\ ppc' = "tick" /\ ps2CtrlType' = (IF ok THEN type ELSE "NO_DEVICE")
     /\ UNCHANGED reads

\* A digital reply leaves the type alone.  An analog one makes a guitar a
\* PSX_GUITAR_HERO_CONTROLLER, and then a PSX_DUALSHOCK_1_CONTROLLER like any other.
\* (Only a flight stick would stay what typeIsGuitar made it; it is not set here.)
Typed(in) ==
  CASE in = "mouse" -> "MOUSE"
    [] in = "flightstick" -> "ANALOG"
    [] in = "negcon" -> "NEGCON"
    [] in = "jogcon" -> "JOGCON"
    [] in = "analog" -> "DUALSHOCK_1"
    [] in = "pressure" -> "DUALSHOCK_2"
    [] OTHER -> ps2CtrlType

read ==
  /\ ppc \in {"begin", "read"}
  /\ \E r \in Exchanges("poll") :
       /\ Exchange(r)
       /\ \/ r.in = "NULL" /\ Return(FALSE, ps2CtrlType) /\ UNCHANGED buttonWord
          \/ /\ r.in = "config" /\ ppc' = "unstick"
             /\ UNCHANGED <<reads, ps2CtrlType, buttonWord>>
          \/ /\ r.in \notin {"NULL", "config"} /\ Return(TRUE, Typed(r.in))
             /\ buttonWord' = player
  /\ UNCHANGED <<reading, tries, cnt>>

------------------------------------------------------------------------------
(***************************************************************************)
(* sendCommand, one try at a time.                                         *)
(***************************************************************************)
GrantedUnchecked(c, in, n) ==                                             \* mutant
  CASE c = "enter" -> in = "config"
    [] c = "exit" -> in # "config"
    [] OTHER -> in # "NULL" /\ n >= 3
Granted(c, in, n) ==
  /\ in # "NULL"
  /\ CASE c = "enter" -> in = "config"
       [] c = "exit" -> in # "config"
       [] OTHER -> n >= 3

TriedAfresh == 1                                                          \* mutant
Tried == tries + 1

\* The command itself and what follows it, whether it succeeded or not.
After == [enter |-> "mode", mode |-> "pressures", pressures |-> "exit", exit |-> "read"]
Command == IF ppc = "unstick" THEN "exit" ELSE ppc

sendCommand ==
  /\ ppc \in {"enter", "mode", "pressures", "exit", "unstick"}
  /\ \E r \in Exchanges(Command) :
       LET n == IF r.in = "NULL" \/ cnt = 3 THEN cnt ELSE cnt + 1 IN
       /\ Exchange(r)
       /\ IF Granted(Command, r.in, n) \/ Tried = MaxTries
          THEN /\ tries' = 0 /\ cnt' = 0
               /\ IF ppc = "unstick" THEN Return(TRUE, ps2CtrlType) /\ UNCHANGED reading
                  ELSE /\ ppc' = After[ppc] /\ reading' = "read"
                       /\ UNCHANGED <<reads, ps2CtrlType>>
          ELSE /\ tries' = Tried /\ cnt' = n
               /\ UNCHANGED <<ppc, reading, reads, ps2CtrlType>>
  /\ UNCHANGED buttonWord

------------------------------------------------------------------------------
tickPS2CtrlInput ==
  /\ ppc = "tick"
  /\ ppc' = (IF ps2CtrlType = "NO_DEVICE" THEN "begin" ELSE "read") /\ reading' = ppc'
  /\ UNCHANGED <<reads, tries, cnt, ps2CtrlType, buttonWord, pad, player, losses, moves>>

Ps2Program == tickPS2CtrlInput \/ read \/ sendCommand

(***************************************************************************)
(* The player plugs pads in and out, presses buttons, and with the ANALOG  *)
(* button of a pad that is not locked switches its mode.                   *)
(***************************************************************************)
Player ==
  /\ moves < MaxMoves /\ moves' = moves + 1
  /\ \/ /\ pad # NoPad /\ pad' = NoPad /\ UNCHANGED player
     \/ pad = NoPad /\ (\E k \in Pads : pad' = Fresh(k)) /\ UNCHANGED player
     \/ player' = (IF player = "up" THEN "down" ELSE "up") /\ UNCHANGED pad
     \/ /\ pad.kind = "dualshock" /\ ~pad.conf /\ UNCHANGED player
        /\ pad' = [pad EXCEPT !.mode = IF @ = "digital" THEN "analog" ELSE "digital"]
  /\ UNCHANGED <<ppc, reading, reads, tries, cnt, ps2CtrlType, buttonWord, losses>>

Ps2Next == Ps2Program \/ Player

PadTypes ==
  {"NO_DEVICE", "MOUSE", "ANALOG", "NEGCON", "JOGCON", "DUALSHOCK_1", "DUALSHOCK_2"}
TypeOKPs2 ==
  /\ ppc \in {"tick", "begin", "enter", "mode", "pressures", "exit", "read", "unstick"}
  /\ reading \in {"begin", "read"} /\ reads \in 0..Disposable
  /\ tries \in 0..(MaxTries - 1) /\ cnt \in 0..3
  /\ ps2CtrlType \in PadTypes
  /\ buttonWord \in {"up", "down"} /\ player \in {"up", "down"}
  /\ pad \in [kind : Pads \cup {"none"}, conf : BOOLEAN,
              mode : {"digital", "analog", "pressure"} \cup Simple]
  /\ losses \in 0..MaxLosses /\ moves \in 0..MaxMoves

\* A pad is never left in configuration mode, where it reports no buttons, at the
\* end of a tick, whichever replies are lost and however pads are swapped in the
\* middle of the commands: only losing every try of one command can do that.
NotLeftInConfig == ppc = "tick" /\ pad.conf => losses >= MaxTries

\* Once the player leaves a pad plugged in, what it holds is read, and keeps
\* being read, however far the last pad had got and whatever was lost; a pad
\* without configuration mode, which never grants a command, included.
Ps2Shown == (moves = MaxMoves /\ pad # NoPad) ~> [](buttonWord = player /\ ~pad.conf)
==============================================================================
