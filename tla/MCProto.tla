------------------------------- MODULE MCProto -------------------------------
(***************************************************************************)
(* Commands for checking ProtoLow and ProtoTimeout with TLC: a ping, words *)
(* and blocks in both directions, and a command nobody knows.              *)
(***************************************************************************)
EXTENDS ProtoLow

SomeWords == [c \in Moves |-> IF c \in {48, 32} THEN 1 ELSE 3]
=============================================================================
