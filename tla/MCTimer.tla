------------------------------- MODULE MCTimer -------------------------------
(***************************************************************************)
(* ProtoTimer with the commands of MCProto.                                *)
(***************************************************************************)
EXTENDS ProtoTimer, MCProto
=============================================================================
