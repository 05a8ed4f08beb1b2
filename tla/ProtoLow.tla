------------------------------ MODULE ProtoLow ------------------------------
(***************************************************************************)
(* The handshake of one command on the parallel port: the Amiga's side     *)
(* (amiga/src/arch/m68k/mach-cia/proto_low.s, amiga/src/proto/proto_atom.c)*)
(* and the firmware's (mcu/src/arch/common/proto_low.c,                    *)
(* mcu/src/proto/proto_atom.c).                                            *)
(*                                                                         *)
(* The Amiga puts a command on the data lines and lowers CLK; the firmware *)
(* lowers RAK when it gets to the command.  From there the Amiga clocks    *)
(* one byte per edge of CLK without waiting for anything: the firmware,    *)
(* which has its interrupts off, keeps up with the CIA (docs/pamela.rst).  *)
(* This is CaughtUp.  At the end the Amiga raises CLK and the firmware     *)
(* raises RAK.  The Amiga's two waits for RAK are guarded by a timer.      *)
(*                                                                         *)
(* In this module the Amiga only gives up on a firmware that has not       *)
(* noticed its command; ProtoTimeout drops that restriction.               *)
(***************************************************************************)
EXTENDS Integers, Sequences

CONSTANTS
  Actions, Writes, Reads,   \* the commands the firmware knows, by their kind
  Unknown,                  \* others
  Words                     \* a command that moves data -> its size in words

Known == Actions \cup Writes \cup Reads
Cmds  == Known \cup Unknown
Moves == Writes \cup Reads
Idle  == 0                  \* the command on the lines of an idle port

(* The assembler loops count down with dbra: a block of no words would be  *)
(* one of 65536.  Both sides know the size (PamelaLink!BlocksInStep).      *)
ASSUME ProtoAssumption ==
  /\ Cmds \subseteq 1 .. 254
  /\ Actions \cap Moves = {} /\ Writes \cap Reads = {} /\ Unknown \cap Known = {}
  /\ Words \in [Moves -> Nat \ {0}]

ByKind(c, write, read, other) ==
  IF c \in Writes THEN write ELSE IF c \in Reads THEN read ELSE other

Bytes(c) == IF c \in Moves THEN 2 * Words[c] ELSE 0

(* What the data lines can show: a command or the n-th byte of a transfer. *)
Cmd(c)     == [cmd |-> c, byte |-> 0]
Byte(c, n) == [cmd |-> c, byte |-> n]
Signals    == [cmd : 0 .. 255, byte : Nat]
Floating   == Cmd(255)

(* The transfer of c as its receiver should get it.                        *)
Message(c) == [n \in 1 .. Bytes(c) |-> Byte(c, n)]

VARIABLES
  clk, rak,       \* the control lines
  dataA, ddrA,    \* the Amiga's data register and its direction
  dataM, ddrM,    \* the firmware's
  pcA, cmd,       \* where the Amiga is, in which command
  sent, gotA,     \* the bytes it clocked, those it read
  result,         \* what its last call returned
  pcM, cmdM,      \* where the firmware is, in which command
  done, gotM,     \* the bytes it moved, those it read
  ran             \* how often the firmware took up the Amiga's present call

amigaVars == <<dataA, ddrA, pcA, cmd, sent, gotA, result>>
mcuVars   == <<rak, dataM, ddrM, pcM, cmdM, done, gotM, ran>>
protoVars == <<clk, amigaVars, mcuVars>>

Levels  == {"lo", "hi"}
Results == {"none", "OK", "RAK_INVALID", "TIMEOUT"}

(* The Amiga is before the access to the port that its place is named for. *)
PlacesA == {"idle", "clk_lo", "wait_rak_lo", "set_data", "clk_set", "ddr_in",
            "ddr_clk", "clk_get", "get_data", "ddr_lo", "ddr_out", "clk_hi",
            "wait_rak_hi"}

(* The firmware is elsewhere, between its test of CLK and reading the      *)
(* command, before it answers, or waits for an edge of CLK.                *)
PlacesM == {"away", "fetch", "seen", "take", "turn", "give", "return", "end"}

ProtoInit ==
  /\ clk = "hi" /\ rak = "hi"
  /\ dataA = Cmd(Idle) /\ ddrA = "out" /\ dataM = Floating /\ ddrM = "in"
  /\ pcA = "idle" /\ cmd = Idle /\ sent = 0 /\ gotA = <<>> /\ result = "none"
  /\ pcM = "away" /\ cmdM = Idle /\ done = 0 /\ gotM = <<>> /\ ran = 0

(* What each side reads from the data lines.                               *)
PinsA == IF ddrM = "out" THEN dataM ELSE Floating
PinsM == IF ddrA = "out" THEN dataA ELSE Floating

(* The level of CLK with which byte n is valid.                            *)
WriteLevel(n) == IF n % 2 = 1 THEN "hi" ELSE "lo"
ReadLevel(n)  == IF n % 2 = 1 THEN "lo" ELSE "hi"

(* The level the firmware waits for.  The last wait is not a part of the   *)
(* synchronous phase: its interrupts are on again.                         *)
Awaits(level) ==
  \/ pcM = "take" /\ level = WriteLevel(done + 1)
  \/ pcM = "turn" /\ level = "hi"
  \/ pcM = "give" /\ level = ReadLevel(done + 1)
  \/ pcM = "return" /\ level = "lo"

CaughtUp == ~Awaits(clk)

----------------------------------------------------------------------------
(* The Amiga *)

(* A call returns: the idle command is put on the data lines.              *)
Return(r) ==
  /\ dataA' = Cmd(Idle) /\ pcA' = "idle" /\ result' = r
  /\ UNCHANGED <<ddrA, cmd, sent, gotA>>

(* One access to the port in the middle of a call.                         *)
Goes(place) == pcA' = place /\ UNCHANGED <<cmd, result>>
SetsClk(level, place) ==
  /\ clk' = level /\ Goes(place)
  /\ UNCHANGED <<dataA, ddrA, gotA>> /\ UNCHANGED mcuVars

(* Mutant: RAK is not tested.                                              *)
CallUnchecked(c) ==
  /\ pcA = "idle"
  /\ cmd' = c /\ sent' = 0 /\ gotA' = <<>> /\ ran' = 0
  /\ dataA' = Cmd(c) /\ pcA' = "clk_lo" /\ result' = "none"
  /\ UNCHANGED <<ddrA, clk, rak, dataM, ddrM, pcM, cmdM, done, gotM>>

(* check_rak_hi, set_cmd *)
Call(c) ==
  /\ pcA = "idle"
  /\ cmd' = c /\ sent' = 0 /\ gotA' = <<>> /\ ran' = 0
  /\ IF rak = "hi"
     THEN dataA' = Cmd(c) /\ pcA' = "clk_lo" /\ result' = "none"
     ELSE dataA' = Cmd(Idle) /\ pcA' = "idle" /\ result' = "RAK_INVALID"
  /\ UNCHANGED <<ddrA, clk, rak, dataM, ddrM, pcM, cmdM, done, gotM>>

ClkLo == pcA = "clk_lo" /\ SetsClk("lo", "wait_rak_lo") /\ UNCHANGED sent

(* wait_rak_lo *)
RakLo ==
  /\ pcA = "wait_rak_lo" /\ rak = "lo"
  /\ Goes(ByKind(cmd, "set_data", "ddr_in", "clk_hi"))
  /\ UNCHANGED <<clk, dataA, ddrA, sent, gotA>> /\ UNCHANGED mcuVars

(* Mutant: the timeout is only tested once the firmware has answered.      *)
GiveUpLate ==
  /\ pcA = "wait_rak_lo" /\ rak = "lo"
  /\ clk' = "hi" /\ Return("TIMEOUT") /\ UNCHANGED mcuVars

(* ... with a timeout: pla_abort raises CLK.                               *)
GiveUp ==
  /\ pcA = "wait_rak_lo" /\ rak = "hi" /\ pcM = "away"
  /\ clk' = "hi" /\ Return("TIMEOUT") /\ UNCHANGED mcuVars

(* set_data, clk_hi, set_data, clk_lo; the loop of proto_low_write_block   *)
SetData ==
  /\ pcA = "set_data" /\ CaughtUp
  /\ dataA' = Byte(cmd, sent + 1) /\ Goes("clk_set")
  /\ UNCHANGED <<clk, ddrA, sent, gotA>> /\ UNCHANGED mcuVars

ClkSet ==
  /\ pcA = "clk_set" /\ CaughtUp
  /\ sent' = sent + 1
  /\ SetsClk(WriteLevel(sent + 1),
             IF sent + 1 = Bytes(cmd) THEN "clk_hi" ELSE "set_data")

(* ddr_in, clk_hi *)
DdrIn ==
  /\ pcA = "ddr_in" /\ ddrA' = "in" /\ Goes("ddr_clk")
  /\ UNCHANGED <<clk, dataA, sent, gotA>> /\ UNCHANGED mcuVars

DdrClk == pcA = "ddr_clk" /\ CaughtUp /\ SetsClk("hi", "clk_get") /\ UNCHANGED sent

(* clk_lo, get_data, clk_hi, get_data; the loop of proto_low_read_block    *)
ClkGet ==
  /\ pcA = "clk_get" /\ CaughtUp
  /\ SetsClk(ReadLevel(sent + 1), "get_data") /\ UNCHANGED sent

GetData ==
  /\ pcA = "get_data" /\ CaughtUp
  /\ sent' = sent + 1 /\ gotA' = Append(gotA, PinsA)
  /\ Goes(IF sent + 1 = Bytes(cmd) THEN "ddr_lo" ELSE "clk_get")
  /\ UNCHANGED <<clk, dataA, ddrA>> /\ UNCHANGED mcuVars

(* clk_lo, ddr_out *)
DdrLo == pcA = "ddr_lo" /\ CaughtUp /\ SetsClk("lo", "ddr_out") /\ UNCHANGED sent

DdrOut ==
  /\ pcA = "ddr_out" /\ CaughtUp
  /\ ddrA' = "out" /\ Goes("clk_hi")
  /\ UNCHANGED <<clk, dataA, sent, gotA>> /\ UNCHANGED mcuVars

ClkHi == pcA = "clk_hi" /\ CaughtUp /\ SetsClk("hi", "wait_rak_hi") /\ UNCHANGED sent

(* wait_rak_hi *)
RakHi ==
  /\ pcA = "wait_rak_hi" /\ rak = "hi"
  /\ Return("OK") /\ UNCHANGED clk /\ UNCHANGED mcuVars

(* ... with a timeout *)
GiveUpEnd ==
  /\ pcA = "wait_rak_hi" /\ rak = "lo"
  /\ Return("TIMEOUT") /\ UNCHANGED clk /\ UNCHANGED mcuVars

Access ==
  \/ ClkLo \/ RakLo \/ SetData \/ ClkSet \/ DdrIn \/ DdrClk \/ ClkGet
  \/ GetData \/ DdrLo \/ DdrOut \/ ClkHi \/ RakHi

----------------------------------------------------------------------------
(* The firmware *)

(* proto_low_get_cmd: CLK is tested, then the lines are read.              *)
LookAtClk ==
  /\ pcM = "away" /\ clk = "lo"
  /\ pcM' = "fetch"
  /\ UNCHANGED <<clk, rak, dataM, ddrM, cmdM, done, gotM, ran>> /\ UNCHANGED amigaVars

(* A command that no handler knows is left alone.                          *)
Fetch ==
  /\ pcM = "fetch"
  /\ IF PinsM \in {Cmd(c) : c \in Known}
     THEN pcM' = "seen" /\ cmdM' = PinsM.cmd
     ELSE pcM' = "away" /\ UNCHANGED cmdM
  /\ UNCHANGED <<clk, rak, dataM, ddrM, done, gotM, ran>> /\ UNCHANGED amigaVars

(* rak_lo, at the beginning of all functions                               *)
RakSync ==
  /\ pcM = "seen"
  /\ rak' = "lo" /\ done' = 0 /\ gotM' = <<>> /\ ran' = ran + 1
  /\ pcM' = ByKind(cmdM, "take", "turn", "end")
  /\ UNCHANGED <<clk, dataM, ddrM, cmdM>> /\ UNCHANGED amigaVars

(* Mutant: only the edges that lower CLK are waited for.                   *)
TakeEarly ==
  /\ pcM = "take" /\ clk = "lo"
  /\ gotM' = Append(gotM, PinsM) /\ done' = done + 1
  /\ pcM' = IF done + 1 = Bytes(cmdM) THEN "end" ELSE "take"
  /\ UNCHANGED <<clk, rak, dataM, ddrM, cmdM, ran>> /\ UNCHANGED amigaVars

(* wait_clk, din: the loop of proto_low_write_block                        *)
Take ==
  /\ pcM = "take" /\ clk = WriteLevel(done + 1)
  /\ gotM' = Append(gotM, PinsM) /\ done' = done + 1
  /\ pcM' = IF done + 1 = Bytes(cmdM) THEN "end" ELSE "take"
  /\ UNCHANGED <<clk, rak, dataM, ddrM, cmdM, ran>> /\ UNCHANGED amigaVars

(* wait_clk_hi, ddr_out *)
TurnOut ==
  /\ pcM = "turn" /\ clk = "hi"
  /\ ddrM' = "out" /\ pcM' = "give"
  /\ UNCHANGED <<clk, rak, dataM, cmdM, done, gotM, ran>> /\ UNCHANGED amigaVars

(* wait_clk, dout: the loop of proto_low_read_block                        *)
Give ==
  /\ pcM = "give" /\ clk = ReadLevel(done + 1)
  /\ dataM' = Byte(cmdM, done + 1) /\ done' = done + 1
  /\ pcM' = IF done + 1 = Bytes(cmdM) THEN "return" ELSE "give"
  /\ UNCHANGED <<clk, rak, ddrM, cmdM, gotM, ran>> /\ UNCHANGED amigaVars

(* Mutant: the lines are not turned back.                                  *)
TurnNothing ==
  /\ pcM = "return" /\ clk = "lo"
  /\ pcM' = "end"
  /\ UNCHANGED <<clk, rak, dataM, ddrM, cmdM, done, gotM, ran>> /\ UNCHANGED amigaVars

(* wait_clk_lo, ddr_in *)
TurnIn ==
  /\ pcM = "return" /\ clk = "lo"
  /\ ddrM' = "in" /\ pcM' = "end"
  /\ UNCHANGED <<clk, rak, dataM, cmdM, done, gotM, ran>> /\ UNCHANGED amigaVars

(* Mutant: RAK stays low.                                                  *)
EndInRakLo ==
  /\ pcM = "end" /\ clk = "hi"
  /\ pcM' = "away"
  /\ UNCHANGED <<clk, rak, dataM, ddrM, cmdM, done, gotM, ran>> /\ UNCHANGED amigaVars

(* proto_low_end *)
End ==
  /\ pcM = "end" /\ clk = "hi"
  /\ rak' = "hi" /\ pcM' = "away"
  /\ UNCHANGED <<clk, dataM, ddrM, cmdM, done, gotM, ran>> /\ UNCHANGED amigaVars

Firmware ==
  LookAtClk \/ Fetch \/ RakSync \/ Take \/ TurnOut \/ Give \/ TurnIn \/ End

ProtoNext == \/ \E c \in Cmds : Call(c)
             \/ Access \/ GiveUp \/ GiveUpEnd
             \/ Firmware

ProtoSpec == ProtoInit /\ [][ProtoNext]_protoVars

(* Each side goes on, and the Amiga's timer expires.  Nobody has to call.  *)
ProtoFairness ==
  /\ WF_protoVars(Access) /\ WF_protoVars(Firmware) /\ SF_protoVars(GiveUp)

FairProtoSpec == ProtoSpec /\ ProtoFairness

----------------------------------------------------------------------------
(* Properties *)

(* Every variable has the type the registers and buffers give it.          *)
ProtoTypeOK ==
  /\ clk \in Levels /\ rak \in Levels
  /\ dataA \in Signals /\ dataM \in Signals
  /\ ddrA \in {"in", "out"} /\ ddrM \in {"in", "out"}
  /\ pcA \in PlacesA /\ cmd \in Cmds \cup {Idle} /\ sent \in Nat
  /\ gotA \in Seq(Signals) /\ result \in Results
  /\ pcM \in PlacesM /\ cmdM \in Known \cup {Idle} /\ done \in Nat
  /\ gotM \in Seq(Signals) /\ ran \in Nat

(* The data lines never have two drivers (docs/pamela.rst: "to avoid bus   *)
(* contention"), although each side turns them in its own time.            *)
OneDriver == ~(ddrA = "out" /\ ddrM = "out")

(* What one side takes from the lines is what the other side put there for *)
(* it: no byte is missed, read twice, or taken for one of another call.    *)
ReceivedAsSent ==
  /\ pcM = "end" /\ cmdM \in Writes => gotM = Message(cmdM)
  /\ pcA \in {"ddr_lo", "ddr_out", "clk_hi", "wait_rak_hi"} /\ cmd \in Reads
       => gotA = Message(cmd)

(* A call that returns OK was taken up by the firmware exactly once, as    *)
(* the command it is; one that is refused was not; and a call that has     *)
(* returned is not taken up any more.                                      *)
ResultsAreTrue ==
  /\ result = "OK" => ran = 1 /\ cmdM = cmd
  /\ result = "RAK_INVALID" => ran = 0
  /\ pcM = "seen" => pcA = "wait_rak_lo" /\ cmdM = cmd /\ ran = 0

(* The firmware always comes back from a command to its loop, also if the  *)
(* Amiga gives up (docs/pamela.rst: waits for signals are guarded).        *)
DeviceComesBack == rak = "lo" ~> rak = "hi"
=============================================================================
