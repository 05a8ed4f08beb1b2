------------------------------ MODULE MCDevice ------------------------------
(***************************************************************************)
(* Handler tables and transfer sizes for checking PamelaDevice and         *)
(* PamelaLink with TLC.                                                    *)
(***************************************************************************)
EXTENDS PamelaDevice

Both(S) == [d \in Dirs |-> S]

(* The handler of mcu/src/test/test-pamela.c: everything may poll.         *)
TestHandler(ports, slots) ==
  [ports |-> ports, slots |-> slots, defMtu |-> 2, maxMtu |-> 4,
   open |-> Results, close |-> {"ok", "poll"}, reset |-> {"ok", "poll"},
   pre |-> Both(Results), post |-> Both(Results),
   cuts |-> [Both({0, 2}) EXCEPT !["read"] = {0, 1, 2}],
   mtus |-> {}, task |-> FALSE]

(* A request handler (mcu/src/pamela_req): it never polls but may start a  *)
(* channel task.                                                           *)
ReqHandler(ports, slots) ==
  [ports |-> ports, slots |-> slots, defMtu |-> 2, maxMtu |-> 4,
   open |-> {"ok", "err"}, close |-> {"ok"}, reset |-> {"ok"},
   pre |-> Both({"ok", "err"}), post |-> [Both({"ok", "err"}) EXCEPT !["read"] = {"ok"}],
   cuts |-> Both({0, 2}), mtus |-> {}, task |-> TRUE]

(* A request handler that may poll when it opens and closes.               *)
SlowHandler(ports, slots) ==
  [ReqHandler(ports, slots) EXCEPT
     !.open = {"ok", "poll"}, !.close = {"ok", "poll"}, !.reset = {"ok", "poll"},
     !.pre = Both({"ok"}), !.post = Both({"ok"}), !.cuts = Both({})]

OneTest == [s \in {0} |-> TestHandler({1}, 1)]
TwoSlot == [s \in {0} |-> TestHandler({1}, 2)]
OneReq  == [s \in {0} |-> ReqHandler({1}, 1)]
OneSlow == [s \in {0} |-> SlowHandler({1}, 2)]

NoSizes    == Both({})
WriteOne   == [NoSizes EXCEPT !["write"] = {2}]
WriteZero  == [NoSizes EXCEPT !["write"] = {0}]
OddReads   == [d \in Dirs |-> IF d = "read" THEN {1, 5} ELSE {2, 4}]
=============================================================================
