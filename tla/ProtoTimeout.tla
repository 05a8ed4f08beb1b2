---------------------------- MODULE ProtoTimeout ----------------------------
(***************************************************************************)
(* ProtoLow with an Amiga whose timer may expire at any moment of its wait *)
(* for RAK: the test of RAK, the test of the timeout flag and raising CLK  *)
(* are steps that the firmware runs between.                               *)
(***************************************************************************)
EXTENDS MCProto

(* wait_rak_lo_busy: RAK was still high, then the flag was set.            *)
Expire ==
  /\ pcA = "wait_rak_lo" /\ rak = "hi"
  /\ Goes("abort")
  /\ UNCHANGED <<clk, dataA, ddrA, sent, gotA>> /\ UNCHANGED mcuVars

(* pla_abort *)
Abort ==
  /\ pcA = "abort"
  /\ clk' = "hi" /\ Return("TIMEOUT") /\ UNCHANGED mcuVars

TimeoutNext == ProtoNext \/ Expire \/ Abort

TimeoutSpec ==
  /\ ProtoInit /\ [][TimeoutNext]_protoVars
  /\ ProtoFairness /\ WF_protoVars(Abort)
=============================================================================
