------------------------------- MODULE MCReq --------------------------------
(***************************************************************************)
(* PamelaReq with the handler tables of MCDevice.                          *)
(***************************************************************************)
EXTENDS PamelaReq, MCDevice

(* A request handler as REQ_HANDLER_BEGIN makes it: one MTU for all.       *)
Service(slots) ==
  [ReqHandler({1}, slots) EXCEPT
     !.defMtu = 4, !.pre = Both({"ok", "err"}),
     !.cuts = [Both({}) EXCEPT !["read"] = {2}]]

TwoSlots   == [s \in {0} |-> Service(2)]
Packets    == [d \in Dirs |-> IF d = "read" THEN {4} ELSE {2}]
=============================================================================
