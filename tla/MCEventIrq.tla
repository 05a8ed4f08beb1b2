----------------------------- MODULE MCEventIrq -----------------------------
(***************************************************************************)
(* EventIrq for TLC: the channels are a set of model values.               *)
(***************************************************************************)
EXTENDS EventIrq

CONSTANTS c1, c2, c3, c4

FourChannels == {c1, c2, c3, c4}
=============================================================================
