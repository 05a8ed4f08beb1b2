------------------------------ MODULE MCEngine ------------------------------
(***************************************************************************)
(* PamelaEngine with the handler tables of MCDevice.                       *)
(***************************************************************************)
EXTENDS PamelaEngine, MCDevice

(* A handler that may poll but, like the request handlers, ends a transfer *)
(* at once: the engine answers a client when the last block has moved.     *)
EngineHandler(slots) ==
  [TestHandler({1}, slots) EXCEPT
     !.close = {"ok"}, !.pre = Both({"ok", "err"}), !.post = Both({"ok"}), !.cuts = Both({0})]

OneEngine == [s \in {0} |-> EngineHandler(1)]
BothOne == Both({2})
=============================================================================
