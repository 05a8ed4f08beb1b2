------------------------------- MODULE MCLink -------------------------------
(***************************************************************************)
(* PamelaLink with the handler tables of MCDevice.                         *)
(***************************************************************************)
EXTENDS PamelaLink, MCDevice
=============================================================================
