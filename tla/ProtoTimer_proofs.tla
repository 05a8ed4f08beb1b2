-------------------------- MODULE ProtoTimer_proofs --------------------------
(***************************************************************************)
(* For any set of commands and any sizes of their blocks: the data lines   *)
(* have one driver, every byte arrives, and the results the Amiga gets     *)
(* are true.  The calls with their timer are calls of ProtoLow, so that    *)
(* this holds for them too, and the timer that a call sees expire is its   *)
(* own.                                                                    *)
(***************************************************************************)
EXTENDS ProtoTimer, TLAPS

----------------------------------------------------------------------------
(* The handshake *)


(* The first k bytes of the transfer of c.                                 *)
Prefix(c, k) == [n \in 1 .. k |-> Byte(c, n)]

(* The firmware is in the middle of a command exactly while RAK is low,    *)
(* and each side drives the lines between its two turns of them.           *)
LinesInv ==
  /\ rak = "lo" <=> pcM \in {"take", "turn", "give", "return", "end"}
  /\ ddrM = "out" <=> pcM \in {"give", "return"}
  /\ ddrA = "in" <=> pcA \in {"ddr_clk", "clk_get", "get_data", "ddr_lo", "ddr_out"}
  /\ clk = "lo" => pcA \notin {"idle", "clk_lo", "wait_rak_hi"}

(* Between CLK low and RAK low: the firmware takes up this call or none.   *)
BeginInv ==
  /\ pcM = "fetch" => pcA = "wait_rak_lo" /\ dataA = Cmd(cmd)
  /\ pcM = "seen" => pcA = "wait_rak_lo" /\ cmdM = cmd
  /\ pcM \in {"seen", "take", "turn", "give", "return", "end"} => cmdM \in Known
  /\ pcA = "idle" => pcM \in {"away", "end"}
  /\ pcA = "clk_lo" => /\ pcM = "away" /\ ran = 0 /\ dataA = Cmd(cmd)
                       /\ sent = 0 /\ gotA = <<>>
  /\ pcA = "wait_rak_lo" =>
       /\ clk = "lo" /\ dataA = Cmd(cmd) /\ sent = 0 /\ gotA = <<>>
       /\ pcM \in {"away", "fetch", "seen"} => ran = 0
       /\ rak = "lo" => done = 0 /\ pcM # "give" /\ pcM # "return"
       /\ pcM = "end" => cmdM \in Actions

(* While RAK is low and the Amiga is in its call both are in the same one. *)
SameInv ==
  /\ pcA \in {"set_data", "clk_set"} => cmd \in Writes /\ pcM = "take"
  /\ pcA \in {"ddr_in", "ddr_clk", "clk_get", "get_data", "ddr_lo", "ddr_out"} =>
       cmd \in Reads /\ pcM \in {"turn", "give", "return", "end"}
  /\ pcA = "clk_hi" => pcM \in {"take", "end"} /\ clk = "lo"
  /\ pcA \notin {"idle", "clk_lo", "wait_rak_lo"} => cmdM = cmd /\ ran = 1
  /\ pcA = "wait_rak_lo" /\ rak = "lo" => cmdM = cmd /\ ran = 1
  /\ pcA = "wait_rak_hi" => pcM \in {"end", "away"}
  /\ pcM \in {"take", "turn", "give", "return"} =>
       pcM = "take" <=> cmdM \in Writes
  /\ pcM \in {"turn", "give", "return"} => cmdM \in Reads

(* Writing: the firmware is at most one byte behind, and that byte is      *)
(* still on the lines.                                                     *)
WriteInv ==
  /\ pcM = "take" => done < Bytes(cmdM) /\ gotM = Prefix(cmdM, done)
  /\ pcM = "end" /\ cmdM \in Writes => gotM = Message(cmdM)
  /\ pcA = "set_data" => sent < Bytes(cmd)
  /\ pcA = "clk_set" => sent < Bytes(cmd) /\ done = sent /\ dataA = Byte(cmd, sent + 1)
  /\ pcA = "clk_hi" /\ cmd \in Writes => sent = Bytes(cmd)
  /\ pcA \in {"set_data", "clk_set"} => clk = WriteLevel(sent)
  /\ (pcA \in {"set_data", "clk_hi"} /\ pcM = "take") =>
       \/ done = sent
       \/ done + 1 = sent /\ dataA = Byte(cmd, sent)

(* Reading: the firmware is at most one byte ahead, and that byte is still *)
(* on the lines.                                                           *)
ReadInv ==
  /\ pcM = "turn" => done = 0
  /\ pcM = "give" => done < Bytes(cmdM)
  /\ pcM = "return" => done = Bytes(cmdM) /\ dataM = Byte(cmdM, done)
  /\ pcA \in {"ddr_in", "ddr_clk"} => pcM = "turn" /\ clk = "lo" /\ sent = 0
  /\ pcA = "clk_get" => /\ sent < Bytes(cmd) /\ clk = ReadLevel(sent) /\ done = sent
                        /\ pcM \in {"turn", "give"}
  /\ pcA = "get_data" => /\ sent < Bytes(cmd) /\ clk = ReadLevel(sent + 1)
                         /\ \/ done = sent /\ pcM = "give"
                            \/ /\ done = sent + 1 /\ dataM = Byte(cmd, done)
                               /\ pcM = IF done = Bytes(cmd) THEN "return" ELSE "give"
  /\ pcA = "ddr_lo" => pcM = "return" /\ clk = "hi"
  /\ pcA = "ddr_out" => pcM \in {"return", "end"} /\ clk = "lo"
  /\ pcA = "clk_hi" /\ cmd \in Reads => pcM = "end"
  /\ pcA \in {"ddr_in", "ddr_clk", "clk_get", "get_data"} => gotA = Prefix(cmd, sent)
  /\ pcA \in {"ddr_lo", "ddr_out", "clk_hi", "wait_rak_hi"} /\ cmd \in Reads
       => gotA = Message(cmd)

(* What the Amiga's call returned is what happened.                        *)
ResultInv ==
  /\ pcA # "idle" => result = "none"
  /\ result = "OK" => ran = 1 /\ cmdM = cmd
  /\ result = "RAK_INVALID" => ran = 0

ProtoInv ==
  /\ ProtoTypeOK /\ LinesInv /\ BeginInv /\ SameInv /\ WriteInv /\ ReadInv /\ ResultInv

----------------------------------------------------------------------------
(* A transfer has an even number of bytes, and at least one word.          *)
LEMMA BytesEven ==
  \A c \in Moves : /\ Bytes(c) \in Nat /\ Bytes(c) >= 2 /\ Bytes(c) % 2 = 0
<1> SUFFICES ASSUME NEW c \in Moves
             PROVE Bytes(c) \in Nat /\ Bytes(c) >= 2 /\ Bytes(c) % 2 = 0
  OBVIOUS
<1>1. Words[c] \in Nat \ {0}
  BY ProtoAssumption
<1>2. Bytes(c) = 2 * Words[c]
  BY DEF Bytes
<1>3. \A w \in Nat \ {0} : 2 * w \in Nat /\ 2 * w >= 2 /\ (2 * w) % 2 = 0
  OBVIOUS
<1>4. QED
  BY <1>1, <1>2, <1>3

(* CLK changes with every byte, from low when writing and from high when   *)
(* reading, and returns there with the last byte.                          *)
LEMMA LevelsAlternate ==
  \A n \in Nat : /\ WriteLevel(n) \in Levels /\ ReadLevel(n) \in Levels
                 /\ WriteLevel(n + 1) # WriteLevel(n)
                 /\ ReadLevel(n + 1) # ReadLevel(n)
                 /\ n % 2 = 0 => WriteLevel(n) = "lo" /\ ReadLevel(n) = "hi"
  BY DEF WriteLevel, ReadLevel, Levels

(* A receiver that appends the next byte has the next prefix.              *)
LEMMA PrefixGrows ==
  \A k \in Nat : \A c : Append(Prefix(c, k), Byte(c, k + 1)) = Prefix(c, k + 1)
  BY DEF Prefix, Byte

LEMMA PrefixAll ==
  \A c : Prefix(c, 0) = <<>> /\ Prefix(c, Bytes(c)) = Message(c)
  BY DEF Prefix, Message

(* A command on the lines is told from any other and from none.            *)
LEMMA CmdsDiffer ==
  \A c, d : /\ Cmd(c) = Cmd(d) => c = d
            /\ Cmd(c).cmd = c
  BY DEF Cmd

(* A command is of one kind.                                               *)
LEMMA Kinds ==
  /\ Known \subseteq Cmds /\ Cmds \subseteq 1 .. 254 /\ Moves \subseteq Known
  /\ \A c \in Writes : c \in Moves /\ c \notin Reads /\ c \notin Actions
  /\ \A c \in Reads : c \in Moves /\ c \notin Writes /\ c \notin Actions
  /\ \A c \in Known : c \in Writes \/ c \in Reads \/ c \in Actions
  BY ProtoAssumption DEF Known, Cmds, Moves

----------------------------------------------------------------------------
LEMMA ProtoInitInv == ProtoInit => ProtoInv
  BY PrefixAll
     DEF ProtoInit, ProtoInv, ProtoTypeOK, LinesInv, BeginInv, SameInv, WriteInv,
         ReadInv, ResultInv, Levels, Results, PlacesA, PlacesM, Signals, Floating,
         Cmd, Idle, Cmds

(* No step of either side breaks the invariant.                            *)
LEMMA ProtoStep == ProtoInv /\ [ProtoNext]_protoVars => ProtoInv'
<1> SUFFICES ASSUME ProtoInv, [ProtoNext]_protoVars PROVE ProtoInv'
  OBVIOUS
<1>1. /\ \A c \in Cmds : Cmd(c) \in Signals
      /\ Cmd(Idle) \in Signals /\ Floating \in Signals
      /\ Byte(cmd, sent + 1) \in Signals /\ Byte(cmdM, done + 1) \in Signals
  BY Kinds DEF Cmd, Byte, Signals, Floating, Idle, ProtoInv, ProtoTypeOK
<1>2. /\ PinsA \in Signals /\ PinsM \in Signals
      /\ ddrA = "out" => PinsM = dataA
      /\ ddrM = "out" => PinsA = dataM
  BY <1>1 DEF PinsA, PinsM, ProtoInv, ProtoTypeOK
<1>3. /\ cmd \in Moves =>
           /\ Bytes(cmd) \in Nat /\ Bytes(cmd) >= 2
           /\ WriteLevel(Bytes(cmd)) = "lo" /\ ReadLevel(Bytes(cmd)) = "hi"
      /\ cmdM \in Moves => Bytes(cmdM) \in Nat /\ Bytes(cmdM) >= 2
  BY BytesEven, LevelsAlternate
<1>4. /\ WriteLevel(sent) \in Levels /\ ReadLevel(sent) \in Levels
      /\ WriteLevel(sent + 1) \in Levels /\ ReadLevel(sent + 1) \in Levels
      /\ WriteLevel(sent + 1) # WriteLevel(sent)
      /\ ReadLevel(sent + 1) # ReadLevel(sent)
      /\ ReadLevel(done + 1) # ReadLevel(done)
      /\ WriteLevel(0) = "lo" /\ ReadLevel(0) = "hi"
  <2>1. 0 \in Nat /\ 0 % 2 = 0
    OBVIOUS
  <2>2. sent \in Nat /\ sent + 1 \in Nat /\ done \in Nat
    BY DEF ProtoInv, ProtoTypeOK
  <2>3. QED
    BY <2>1, <2>2, LevelsAlternate
<1>5. /\ Append(Prefix(cmd, sent), Byte(cmd, sent + 1)) = Prefix(cmd, sent + 1)
      /\ Append(Prefix(cmdM, done), Byte(cmdM, done + 1)) = Prefix(cmdM, done + 1)
      /\ Prefix(cmd, 0) = <<>> /\ Prefix(cmdM, 0) = <<>>
      /\ Prefix(cmd, Bytes(cmd)) = Message(cmd)
      /\ Prefix(cmdM, Bytes(cmdM)) = Message(cmdM)
  BY PrefixGrows, PrefixAll DEF ProtoInv, ProtoTypeOK
<1> USE DEF ProtoInv, ProtoTypeOK, Levels, Results, PlacesA, PlacesM, LinesInv,
            BeginInv, SameInv, WriteInv, ReadInv, ResultInv
<1> USE DEF amigaVars, mcuVars, Goes, SetsClk, Return, ByKind, CaughtUp, Awaits
<1>6. ASSUME NEW c \in Cmds, Call(c) PROVE ProtoInv'
  BY <1>6, <1>1 DEF Call
<1>7. CASE ClkLo
  BY <1>7 DEF ClkLo
<1>8. CASE RakLo
  BY <1>8, <1>4, <1>5, Kinds DEF RakLo
<1>9. CASE SetData
  BY <1>9, <1>1 DEF SetData
<1>10. CASE ClkSet
  BY <1>10, <1>3, <1>4, Kinds DEF ClkSet
<1>11. CASE DdrIn
  BY <1>11 DEF DdrIn
<1>12. CASE DdrClk
  BY <1>12, <1>3, <1>4, Kinds DEF DdrClk
<1>13. CASE ClkGet
  BY <1>13, <1>4 DEF ClkGet
<1>14. CASE GetData
  BY <1>14, <1>2, <1>5 DEF GetData
<1>15. CASE DdrLo
  BY <1>15 DEF DdrLo
<1>16. CASE DdrOut
  BY <1>16, Kinds DEF DdrOut
<1>17. CASE ClkHi
  BY <1>17, <1>3, Kinds DEF ClkHi
<1>18. CASE RakHi
  BY <1>18, <1>1 DEF RakHi
<1>19. CASE GiveUp
  BY <1>19, <1>1 DEF GiveUp
<1>20. CASE GiveUpEnd
  BY <1>20, <1>1 DEF GiveUpEnd
<1>21. CASE LookAtClk
  BY <1>21 DEF LookAtClk
<1>22. CASE Fetch
  BY <1>22, <1>2, CmdsDiffer DEF Fetch
<1>23. CASE RakSync
  BY <1>23, <1>3, <1>5, Kinds DEF RakSync
<1>24. CASE Take
  BY <1>24, <1>2, <1>4, <1>5 DEF Take
<1>25. CASE TurnOut
  BY <1>25 DEF TurnOut
<1>26. CASE Give
  BY <1>26, <1>1, <1>3, <1>4, Kinds DEF Give
<1>27. CASE TurnIn
  BY <1>27, <1>3, Kinds DEF TurnIn
<1>28. CASE End
  BY <1>28 DEF End
<1>29. CASE UNCHANGED protoVars
  BY <1>29 DEF protoVars
<1>30. QED
  BY <1>6, <1>7, <1>8, <1>9, <1>10, <1>11, <1>12, <1>13, <1>14, <1>15, <1>16, <1>17,
     <1>18, <1>19, <1>20, <1>21, <1>22, <1>23, <1>24, <1>25, <1>26, <1>27, <1>28, <1>29
     DEF ProtoNext, Access, Firmware

----------------------------------------------------------------------------
(* The strengthening holds in every state of every behaviour.              *)
THEOREM ProtoInvariant == ProtoSpec => []ProtoInv
<1>1. ProtoInit => ProtoInv
  BY ProtoInitInv
<1>2. ProtoInv /\ [ProtoNext]_protoVars => ProtoInv'
  BY ProtoStep
<1>3. QED
  BY <1>1, <1>2, PTL DEF ProtoSpec

(* Registers, places and counters keep their types.                        *)
THEOREM ProtoTypeCorrect == ProtoSpec => []ProtoTypeOK
<1>1. ProtoInv => ProtoTypeOK
  BY DEF ProtoInv
<1>2. QED
  BY <1>1, ProtoInvariant, PTL

(* The two sides never drive the data lines together: the firmware drives  *)
(* them only between the two edges of CLK with which the Amiga has turned  *)
(* its side to input.                                                      *)
THEOREM LinesHaveOneDriver == ProtoSpec => []OneDriver
<1>1. ProtoInv => OneDriver
  BY DEF ProtoInv, ProtoTypeOK, LinesInv, BeginInv, SameInv, ReadInv, OneDriver,
         PlacesA, PlacesM
<1>2. QED
  BY <1>1, ProtoInvariant, PTL

(* A block arrives complete and in order, in both directions.              *)
THEOREM BytesArrive == ProtoSpec => []ReceivedAsSent
<1>1. ProtoInv => ReceivedAsSent
  BY DEF ProtoInv, WriteInv, ReadInv, ReceivedAsSent
<1>2. QED
  BY <1>1, ProtoInvariant, PTL

(* What a call returns is what the firmware did.                           *)
THEOREM ResultsTrue == ProtoSpec => []ResultsAreTrue
<1>1. ProtoInv => ResultsAreTrue
  BY DEF ProtoInv, BeginInv, ResultInv, ResultsAreTrue
<1>2. QED
  BY <1>1, ProtoInvariant, PTL

----------------------------------------------------------------------------
(* The timer around it *)


(* The flag stands for a request that is back, and between timer_start and *)
(* timer_stop the request comes back only because the time has elapsed.    *)
TimerInv ==
  /\ stage \in Stages /\ timerReq \in TimerReqs
  /\ flag \in BOOLEAN /\ sync \in BOOLEAN /\ elapsed \in BOOLEAN
  /\ flag <=> timerReq = "back"
  /\ stage \in {"started", "called"} /\ timerReq # "running"
       => elapsed /\ timerReq # "aborted"
  /\ GivesUpInTime

(* A timeout is no result of the accesses that do not look at the flag.    *)
LEMMA AccessKeepsResult ==
  ASSUME Access PROVE result' = result \/ result' = "OK"
BY DEF Access, ClkLo, RakLo, SetData, ClkSet, DdrIn, DdrClk, ClkGet, GetData,
       DdrLo, DdrOut, ClkHi, RakHi, Goes, SetsClk, Return

(* The timer's invariant, for any commands.                                *)
THEOREM TimerInvariant == TimedSpec => []TimerInv
<1>1. TimedInit => TimerInv
  BY DEF TimedInit, ProtoInit, TimerInv, GivesUpInTime, Stages, TimerReqs
<1>2. TimerInv /\ [TimedNext]_timedVars => TimerInv'
  <2> SUFFICES ASSUME TimerInv, [TimedNext]_timedVars PROVE TimerInv'
    OBVIOUS
  <2> USE DEF TimerInv, GivesUpInTime, Stages, TimerReqs
  <2>1. CASE Enter
    BY <2>1 DEF Enter, protoVars, amigaVars
  <2>2. CASE StartTimer
    BY <2>2 DEF StartTimer, protoVars, amigaVars
  <2>3. CASE AwaitSync
    BY <2>3 DEF AwaitSync, protoVars, amigaVars
  <2>13. CASE GotSync
    BY <2>13 DEF GotSync, protoVars, amigaVars
  <2>4. CASE StopTimer
    BY <2>4 DEF StopTimer, protoVars, amigaVars
  <2>5. ASSUME NEW c \in Cmds, MakeCall(c) PROVE TimerInv'
    <3>1. result' # "TIMEOUT"
      BY <2>5 DEF MakeCall, Call
    <3>2. QED
      BY <2>5, <3>1 DEF MakeCall
  <2>6. CASE InCall
    BY <2>6, AccessKeepsResult DEF InCall, timerVars
  <2>7. CASE GiveUpByFlag
    BY <2>7 DEF GiveUpByFlag, timerVars
  <2>8. CASE Elapse
    BY <2>8 DEF Elapse, protoVars, amigaVars
  <2>9. CASE Exception
    BY <2>9 DEF Exception, protoVars, amigaVars
  <2>10. CASE AtFirmware
    <3>1. UNCHANGED result
      BY <2>10 DEF AtFirmware, Firmware, LookAtClk, Fetch, RakSync, Take, TurnOut,
                   Give, TurnIn, End, amigaVars
    <3>2. QED
      BY <2>10, <3>1 DEF AtFirmware, timerVars
  <2>11. CASE UNCHANGED timedVars
    BY <2>11 DEF timedVars, timerVars, protoVars, amigaVars
  <2>12. QED
    BY <2>1, <2>2, <2>3, <2>4, <2>5, <2>6, <2>7, <2>8, <2>9, <2>10, <2>11,
       <2>13 DEF TimedNext, TimedStep
<1>3. QED
  BY <1>1, <1>2, PTL DEF TimedSpec

(* A call that gives up has waited for its own time: the flag that an      *)
(* earlier call's AbortIO sets belongs to that call.                       *)
THEOREM TimeoutsAreTheCalls == TimedSpec => []GivesUpInTime
<1>1. TimerInv => GivesUpInTime
  BY DEF TimerInv
<1>2. QED
  BY <1>1, TimerInvariant, PTL

(* timer_start never sends the request while it is with timer.device or    *)
(* its reply has not been taken from the port.                             *)
THEOREM RequestSentOnceBack == TimedSpec => RequestNotInUse
<1> DEFINE Sends == stage' = "started" /\ stage # "started" => timerReq = "back"
<1>1. TimerInv /\ [TimedNext]_timedVars => [Sends]_timedVars
  <2> SUFFICES ASSUME TimerInv, TimedNext PROVE Sends
    OBVIOUS
  <2>1. CASE StartTimer
    BY <2>1 DEF StartTimer, TimerInv
  <2>2. CASE ~StartTimer
    BY <2>2 DEF TimedNext, TimedStep, Enter, AwaitSync, GotSync, StopTimer, MakeCall,
                InCall, GiveUpByFlag, Elapse, Exception, AtFirmware, timerVars
  <2>3. QED
    BY <2>1, <2>2
<1>2. QED
  BY <1>1, TimerInvariant, PTL DEF TimedSpec, RequestNotInUse

(* With the timer the Amiga does nothing on the port that it does not do   *)
(* in ProtoLow, where it may give up at any time: the theorems about       *)
(* ProtoSpec are theorems about TimedSpec.                                 *)
THEOREM TimedImplementsProto == TimedSpec => ProtoSpec
<1>1. TimedInit => ProtoInit
  BY DEF TimedInit
<1>2. [TimedNext]_timedVars => [ProtoNext]_protoVars
  <2> SUFFICES ASSUME [TimedNext]_timedVars PROVE [ProtoNext]_protoVars
    OBVIOUS
  <2>1. CASE Enter \/ StartTimer \/ AwaitSync \/ GotSync \/ StopTimer \/ Elapse \/ Exception
    BY <2>1 DEF Enter, StartTimer, AwaitSync, GotSync, StopTimer, Elapse, Exception
  <2>2. ASSUME NEW c \in Cmds, MakeCall(c) PROVE ProtoNext
    BY <2>2 DEF MakeCall, ProtoNext
  <2>3. CASE InCall \/ GiveUpByFlag \/ AtFirmware
    BY <2>3 DEF InCall, GiveUpByFlag, AtFirmware, ProtoNext
  <2>4. CASE UNCHANGED timedVars
    BY <2>4 DEF timedVars
  <2>5. QED
    BY <2>1, <2>2, <2>3, <2>4 DEF TimedNext, TimedStep
<1>3. QED
  BY <1>1, <1>2, PTL DEF TimedSpec, ProtoSpec

(* What is proved of ProtoSpec, for the calls with their timer.            *)
THEOREM TimedCallsAreRight ==
  TimedSpec => [](OneDriver /\ ReceivedAsSent /\ ResultsAreTrue)
BY TimedImplementsProto, LinesHaveOneDriver, BytesArrive, ResultsTrue, PTL
=============================================================================
