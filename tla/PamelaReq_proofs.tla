-------------------------- MODULE PamelaReq_proofs --------------------------
(***************************************************************************)
(* For any number of channels, slots and sizes: a client of a request      *)
(* service gets the reply to its own request, and the slot is always in    *)
(* the state that the client's next step needs.                            *)
(*                                                                         *)
(* The argument: every step is one of PamelaLink and keeps LinkInv.  So    *)
(* what is left is what the call of a channel's client, the channel and    *)
(* the channel's slot know of each other; and as no two channels have the  *)
(* same slot, a step of one channel does not touch what another one knows. *)
(***************************************************************************)
EXTENDS PamelaReq, PamelaLink_proofs

(* pamlib_req_transfer reads right after its last block, without waiting   *)
(* for the end of the post-processing; else the client is a careful user.  *)
Client == CarefulUser /\ "rerequest" \in Liberties

(* What the slot of an active channel holds, by the call of its client.    *)
Expects(sl, cl, tg) ==
  /\ cl = "none" => sl.state = "IDLE"
  /\ cl = "write" => sl.state = "IN_WRITE"
  /\ cl = "written" => sl.state \in {"POLLING", "READ_WAIT"} /\ sl.data = tg
  /\ cl = "read" => sl.state = "IN_READ" /\ sl.data = tg

(* The channel's task runs while the client waits for a polling handler.   *)
TaskInv(k, cl, sl) ==
  k.task => k.state = "ACTIVE" /\ cl = "written" /\ sl.state = "POLLING"

(* A slot whose handler failed will not let its client read.               *)
Refuses(k, sl) ==
  sl.state = "IN_WRITE" \/ (sl.state = "POLLING" /\ ~k.task)

(* A channel k, its copy l, the user's view of it (u, x), the call and the *)
(* request of its client, and its slot.                                    *)
Served(k, l, u, x, cl, tg, sl) ==
  /\ k.state \in {"INACTIVE", "ACTIVE", "OPEN_ERROR", "ERROR"}
  /\ k.state # "ACTIVE" => \A d \in Dirs : k.bits[d] = {}
  /\ k.state = "ACTIVE" => Expects(sl, cl, tg)
  /\ cl # "none" => u = "open" /\ l.view = "ACTIVE" /\ l.mtu # 0
  /\ cl = "none" /\ u = "open" => l.view = k.state
  /\ cl = "written" /\ k.state # "ACTIVE" => Refuses(k, sl)
  /\ x["write"] \in (IF cl = "write" THEN {"asked", "moving"} ELSE {"idle"})
  /\ x["read"] \in (IF cl = "read" THEN {"asked", "moving"} ELSE {"idle"})
  /\ ~Hasty => TaskInv(k, cl, sl)

ServedInv ==
  \A c \in Channels :
    Served(chn[c], lib[c], use[c], xfer[c], call[c], tag[c], slot[chn[c].slot])

ReqInv == LinkInv /\ ReqTypeOK /\ ServedInv

----------------------------------------------------------------------------
(* The service never polls, and every channel that has one has this one.   *)

LEMMA RequestHandler ==
  ASSUME NEW srv
  PROVE  LET h == HandlerOf(srv)
         IN  /\ h.open \subseteq {"ok", "err"} /\ h.close = {"ok"} /\ h.reset = {"ok"}
             /\ \A d \in Dirs : h.pre[d] = {"ok", "err"}
             /\ h.post["read"] = {"ok"} /\ h.post["write"] = {"ok", "err"}
  BY ReqAssumption DEF HandlerOf, SrvId

LEMMA OnlyService ==
  ASSUME DeviceInv, NEW c \in Channels, Bound(c)
  PROVE  chn[c].service = 0 /\ chn[c].slot \in Slots
<1>1. chn[c].service \in Services /\ chn[c].slot \in Nat
  BY DEF DeviceInv, TypeOK, Channel, Bound
<1>2. chn[c].service = 0
  BY <1>1, ReqAssumption DEF Services
<1>3. HandlerTable[0].slots \in Nat
  BY HandlerType DEF HandlerOf, SrvId, HandlerRec
<1>4. chn[c].slot < HandlerTable[0].slots
  BY DEF DeviceInv, SlotInRange, HandlerOf, SrvId
<1>5. QED
  BY <1>1, <1>2, <1>3, <1>4 DEF Slots

LEMMA OtherSlots ==
  ASSUME DeviceInv, NEW c \in Channels, NEW o \in Channels, o # c,
         Bound(c), Bound(o)
  PROVE  chn[o].slot # chn[c].slot
  BY OnlyService DEF DeviceInv, SlotsExclusive

(* A user that sees its channel active finds the channel idle where it has *)
(* no transfer.                                                            *)
LEMMA QuietBits ==
  ASSUME NEW k, NEW l, NEW x, NEW p, NEW d \in Dirs,
         Fits(k, l, "open", x, p), l.view = "ACTIVE", x[d] = "idle"
  PROVE  k.bits[d] = {}
  BY DEF Fits, XferInv, Dead, Ended

(* What a step of a channel does to slots, if anything: it sets the one    *)
(* that the channel has after the step.                                    *)
OwnSlot(c) ==
  \/ slot' = slot
  \/ Bound(c)' /\ \E v : slot' = [slot EXCEPT ![chn'[c].slot] = v]

Alone(c) ==
  /\ OwnSlot(c)
  /\ \A o \in Channels : o # c =>
       /\ chn'[o] = chn[o] /\ lib'[o] = lib[o] /\ use'[o] = use[o]
       /\ xfer'[o] = xfer[o] /\ call'[o] = call[o] /\ tag'[o] = tag[o]

ServedOne(c) ==
  Served(chn[c], lib[c], use[c], xfer[c], call[c], tag[c], slot[chn[c].slot])

(* Without a service there is nothing to know of a slot.                   *)
LEMMA NoSlotToKnow ==
  ASSUME LinkInv, NEW c \in Channels, ~Bound(c), ServedOne(c), NEW sl
  PROVE  Served(chn[c], lib[c], use[c], xfer[c], call[c], tag[c], sl)
<1>1. chn[c].state # "ACTIVE"
  BY DEF LinkInv, DeviceInv, ActiveIsBound, ActiveStates
<1>2. use[c] # "open"
  BY DEF LinkInv, Fits, LifeInv, Bound
<1>3. QED
  BY <1>1, <1>2 DEF ServedOne, Served, TaskInv

LEMMA LeavesSlots ==
  ASSUME NEW c \in Channels, slot' = slot PROVE OwnSlot(c)
  BY DEF OwnSlot

LEMMA SetsSlot ==
  ASSUME NEW c \in Channels, Bound(c)', NEW v, slot' = [slot EXCEPT ![chn'[c].slot] = v]
  PROVE  OwnSlot(c)
  BY DEF OwnSlot

LEMMA OneServed ==
  ASSUME ReqInv, LinkInv', NEW c \in Channels, Alone(c), ServedOne(c)'
  PROVE  ServedInv'
<1> SUFFICES ASSUME NEW o \in Channels, o # c PROVE ServedOne(o)'
  BY DEF ServedInv, ServedOne
<1>1. ServedOne(o)
  BY DEF ReqInv, ServedInv, ServedOne
<1>2. /\ chn'[o] = chn[o] /\ lib'[o] = lib[o] /\ use'[o] = use[o]
      /\ xfer'[o] = xfer[o] /\ call'[o] = call[o] /\ tag'[o] = tag[o]
  BY DEF Alone
<1>3. CASE Bound(o)
  <2>1. slot'[chn[o].slot] = slot[chn[o].slot]
    <3>1. CASE slot' = slot
      BY <3>1
    <3>2. ASSUME NEW v, Bound(c)', slot' = [slot EXCEPT ![chn'[c].slot] = v]
          PROVE  slot'[chn[o].slot] = slot[chn[o].slot]
      <4>1. chn'[o].slot # chn'[c].slot
        <5>1. Bound(o)' /\ DeviceInv'
          BY <1>2, <1>3 DEF Bound, LinkInv
        <5>2. (Bound(o) /\ Bound(c) /\ DeviceInv => chn[o].slot # chn[c].slot)'
          BY OtherSlots, PTL
        <5>3. QED
          BY <3>2, <5>1, <5>2
      <4>2. chn[o].slot \in Slots /\ slot \in [Slots -> ReqSlot]
        BY <1>3, OnlyService DEF ReqInv, LinkInv, ReqTypeOK
      <4>3. QED
        BY <1>2, <3>2, <4>1, <4>2
    <3>3. QED
      BY <3>1, <3>2 DEF Alone, OwnSlot
  <2>2. QED
    BY <1>1, <1>2, <2>1 DEF ServedOne
<1>4. CASE ~Bound(o)
  <2>1. Served(chn[o], lib[o], use[o], xfer[o], call[o], tag[o], slot'[chn[o].slot])
    BY <1>1, <1>4, NoSlotToKnow DEF ReqInv
  <2>2. QED
    BY <1>2, <2>1 DEF ServedOne
<1>5. QED
  BY <1>3, <1>4

----------------------------------------------------------------------------
(* What is known before a step of channel c. *)

Known(c) ==
  /\ DeviceInv /\ chn[c] \in Channel /\ lib[c] \in LibChannel
  /\ Fits(chn[c], lib[c], use[c], xfer[c], c \in pend)
  /\ lib \in [Channels -> LibChannel] /\ use \in [Channels -> Uses]
  /\ xfer \in [Channels -> [Dirs -> Xfers]]
  /\ call \in [Channels -> Calls] /\ tag \in [Channels -> Tags]
  /\ slot \in [Slots -> ReqSlot]
  /\ Served(chn[c], lib[c], use[c], xfer[c], call[c], tag[c], slot[chn[c].slot])

LEMMA Knows == ASSUME ReqInv, NEW c \in Channels PROVE Known(c)
  BY Before DEF Known, ReqInv, ReqTypeOK, ServedInv, LinkInv, LinkTypeOK, LibTypeOK

LEMMA CloseReqServed ==
  ASSUME Client, ReqInv, NEW c \in Channels, CloseReq(c)
  PROVE  LinkInv' /\ Alone(c) /\ ServedOne(c)'
<1> DEFINE k == chn[c]
<1>0. Known(c)
  BY Knows
<1> USE <1>0 DEF Known
<1>1. CloseChannel(c) /\ call[c] = "none" /\ UNCHANGED <<slot, call, tag>>
  BY DEF CloseReq, Idle, Stays
<1>2. LinkInv'
  BY <1>1, CloseChannelKeeps DEF Client, CarefulUser, ReqInv
<1>3. CmdClose(c) /\ DeviceInv
  BY <1>1 DEF CloseChannel, LibClose
<1>4. \A o \in Channels : o # c => chn'[o] = chn[o]
  BY <1>3, CmdCloseLegit, DeviceStep
<1>5. /\ lib' = [lib EXCEPT ![c].mtu = 0] /\ use' = [use EXCEPT ![c] = "closing"]
      /\ xfer' = [xfer EXCEPT ![c] = NoXfer]
  BY <1>1 DEF CloseChannel, LibClose
<1>6. Alone(c)
  BY <1>1, <1>4, <1>5 DEF Alone, OwnSlot
<1>7. use'[c] = "closing" /\ xfer'[c] = NoXfer /\ call'[c] = "none" /\ tag'[c] = tag[c]
  BY <1>1, <1>5
<1>8. CASE chn'[c] = k
  BY <1>1, <1>2, <1>6, <1>7, <1>8, NoXferType
     DEF ServedOne, Served, TaskInv, Dirs
<1>9. CASE chn'[c] # k
  <2>1. PICK k1 \in Channel : chn'[c] = CloseDone(k1) /\ k1.task = k.task
    <3>1. chn'[c] \in CloseWork(k) \/ chn'[c] = CloseDone(k)
      BY <1>3, <1>9, BecomesOne DEF CmdClose, Hang
    <3>2. CASE chn'[c] \in CloseWork(k)
      <4>1. chn'[c] = CloseDone([k EXCEPT !.session = "none"])
        BY <3>2, RequestHandler DEF CloseWork, Close
      <4>2. [k EXCEPT !.session = "none"] \in Channel
        BY DEF Channel
      <4>3. QED
        BY <4>1, <4>2 DEF Channel
    <3>3. QED
      BY <3>1, <3>2
  <2>2. /\ chn'[c].state = "INACTIVE" /\ chn'[c].task = k.task
        /\ \A d \in Dirs : chn'[c].bits[d] = {}
    BY <2>1, CloseDoneFields
  <2>3. QED
    BY <1>1, <1>2, <1>6, <1>7, <2>2, NoXferType
       DEF ServedOne, Served, TaskInv, Dirs
<1>10. QED
  BY <1>2, <1>6, <1>8, <1>9

LEMMA ResetReqServed ==
  ASSUME Client, ReqInv, NEW c \in Channels, ResetReq(c)
  PROVE  LinkInv' /\ Alone(c) /\ ServedOne(c)'
<1> DEFINE k == chn[c]
<1>0. Known(c)
  BY Knows
<1> USE <1>0 DEF Known
<1>1. /\ ResetChannel(c) /\ call[c] = "none" /\ UNCHANGED <<call, tag>>
      /\ slot' = [slot EXCEPT ![k.slot].state = "IDLE"]
  BY DEF ResetReq, SvcReset, Becoming, FindSlot, Idle, Stays
<1>2. LinkInv'
  BY <1>1, ResetChannelKeeps DEF Client, CarefulUser, ReqInv
<1>3. /\ use[c] = "open" /\ CmdReset(c) /\ lib' = lib
      /\ use' = [use EXCEPT ![c] = "resetting"] /\ xfer' = [xfer EXCEPT ![c] = NoXfer]
      /\ lib[c].view = "ACTIVE"
  BY <1>1 DEF ResetChannel, LibReset, IsActive
<1>4. \A o \in Channels : o # c => chn'[o] = chn[o]
  BY <1>3, CmdResetLegit, DeviceStep
<1>5. k.state = "ACTIVE" /\ Bound(c)
  BY <1>1, <1>3 DEF Served, Fits, LifeInv, Bound
<1>6. chn'[c] = Notify(SetState(k, "ACTIVE"))
  <2>1. chn'[c] \in ResetWork(k)
    BY <1>3, <1>5, BecomesOne DEF CmdReset
  <2>2. QED
    BY <2>1, RequestHandler DEF ResetWork, Reset
<1>7. /\ chn'[c].state = "ACTIVE" /\ chn'[c].task = k.task /\ chn'[c].slot = k.slot
      /\ chn'[c].service = k.service
  BY <1>6 DEF Notify, SetState, Channel
<1>8. Alone(c)
  BY <1>1, <1>3, <1>4, <1>5, <1>7 DEF Alone, OwnSlot, Bound
<1>9. slot'[chn'[c].slot].state = "IDLE"
  BY <1>1, <1>5, <1>7, OnlyService DEF ReqSlot
<1>10. use'[c] = "resetting" /\ xfer'[c] = NoXfer /\ call'[c] = "none"
  BY <1>1, <1>3
<1>11. ServedOne(c)'
  BY <1>1, <1>7, <1>9, <1>10, NoXferType DEF ServedOne, Served, Expects, TaskInv, Dirs
<1>12. QED
  BY <1>2, <1>8, <1>11

LEMMA GetMtuReqServed ==
  ASSUME Client, ReqInv, NEW c \in Channels, GetMtuReq(c)
  PROVE  LinkInv' /\ Alone(c) /\ ServedOne(c)'
<1>0. Known(c)
  BY Knows
<1> USE <1>0 DEF Known
<1>1. GetMtu(c) /\ call[c] = "none" /\ UNCHANGED <<slot, call, tag>>
  BY DEF GetMtuReq, Idle, Stays
<1>2. LinkInv'
  BY <1>1, GetMtuKeeps DEF Client, CarefulUser, ReqInv
<1>3. UNCHANGED <<chn, use, xfer>> /\ lib' = [lib EXCEPT ![c].mtu = chn[c].mtu]
  BY <1>1 DEF GetMtu, LibGetMtu, deviceVars
<1>4. Alone(c)
  BY <1>1, <1>3 DEF Alone, OwnSlot
<1>5. lib'[c].view = lib[c].view
  BY <1>3 DEF LibChannel
<1>6. ServedOne(c)'
  BY <1>1, <1>3, <1>5 DEF ServedOne, Served
<1>7. QED
  BY <1>2, <1>4, <1>6

(* The service's open() succeeds or fails at once.                         *)
LEMMA OpenOutcome ==
  ASSUME DeviceInv, NEW c \in Channels, NEW port, CmdOpen(c, port)
  PROVE  /\ chn'[c].state \in {"ACTIVE", "OPEN_ERROR"}
         /\ chn'[c].bits = chn[c].bits /\ chn'[c].task = chn[c].task
<1> DEFINE k == chn[c]
<1>1. k \in Channel
  BY DEF DeviceInv, TypeOK
<1>2. ASSUME NEW e, Becomes(c, {Notify(SetOpenError(k, e))})
      PROVE  /\ chn'[c].state = "OPEN_ERROR"
             /\ chn'[c].bits = k.bits /\ chn'[c].task = k.task
  <2>1. chn'[c] = Notify(SetOpenError(k, e))
    BY <1>2, BecomesOne
  <2>2. QED
    BY <1>1, <2>1 DEF Notify, SetOpenError, Channel
<1>3. ASSUME NEW srv \in Services, NEW sl \in FreeSlots(srv),
             Becomes(c, OpenWork([k EXCEPT !.service = srv, !.slot = sl,
                                           !.mtu = HandlerOf(srv).defMtu]))
      PROVE  /\ chn'[c].state \in {"ACTIVE", "OPEN_ERROR"}
             /\ chn'[c].bits = k.bits /\ chn'[c].task = k.task
  <2> DEFINE k1 == [k EXCEPT !.service = srv, !.slot = sl, !.mtu = HandlerOf(srv).defMtu]
  <2>1. HandlerOf(srv).defMtu \in Nat /\ sl \in 0 .. EmptySlot
    BY HandlerType, SlotNumbers DEF HandlerRec
  <2>2. k1 \in Channel /\ k1.bits = k.bits /\ k1.task = k.task
    BY <1>1, <2>1 DEF Channel
  <2>3. chn'[c] \in OpenWork(k1)
    BY <1>3, BecomesOne
  <2> HIDE DEF k1
  <2>4. PICK r \in {"ok", "err"} : chn'[c] = Open(k1, r)
    BY <2>3, RequestHandler DEF OpenWork
  <2>5. QED
    BY <2>2, <2>4 DEF Open, Notify, SetState, SetOpenError, Channel
<1>4. QED
  BY <1>2, <1>3 DEF CmdOpen

LEMMA OpenReqServed ==
  ASSUME Client, ReqInv, NEW c \in Channels, NEW port \in Ports, OpenReq(c, port)
  PROVE  LinkInv' /\ Alone(c) /\ ServedOne(c)'
<1> DEFINE k == chn[c]
<1>0. Known(c)
  BY Knows
<1> USE <1>0 DEF Known
<1>1. OpenChannel(c, port) /\ SvcOpen(c) /\ UNCHANGED <<call, tag>>
  BY DEF OpenReq, Stays
<1>2. LinkInv'
  BY <1>1, OpenChannelKeeps DEF Client, CarefulUser, ReqInv
<1>3. CmdOpen(c, port) /\ lib[c].view = "INACTIVE" /\ use[c] # "opening"
  BY <1>1 DEF OpenChannel, LibOpen, IsFreeChannel, Client, CarefulUser, Careful
<1>4. use[c] = "free"
  BY <1>3 DEF Fits, LifeInv
<1>5. k.state = "INACTIVE" /\ call[c] = "none"
  BY <1>3, <1>4 DEF Fits, LifeInv, Served
<1>6. /\ lib' = [lib EXCEPT ![c].mtu = 0] /\ xfer' = xfer
      /\ use' = [use EXCEPT ![c] = "opening"]
  BY <1>1, <1>4 DEF OpenChannel, LibOpen
<1>7. \A o \in Channels : o # c => chn'[o] = chn[o]
  BY <1>3, CmdOpenLegit, DeviceStep
<1>8. /\ chn'[c].state \in {"ACTIVE", "OPEN_ERROR"}
      /\ chn'[c].bits = k.bits /\ chn'[c].task = k.task
  BY <1>3, OpenOutcome
<1>9. \/ slot' = slot
      \/ Bound(c)' /\ slot' = [slot EXCEPT ![chn'[c].slot].state = "IDLE"]
  BY <1>1 DEF SvcOpen, Bound
<1>10. Alone(c)
  BY <1>1, <1>6, <1>7, <1>9 DEF Alone, OwnSlot
<1>11. ASSUME chn'[c].state = "ACTIVE" PROVE slot'[chn'[c].slot].state = "IDLE"
  <2>1. Bound(c)' /\ DeviceInv'
    BY <1>2, <1>11 DEF LinkInv, DeviceInv, ActiveIsBound, ActiveStates
  <2>2. (DeviceInv /\ Bound(c) => chn[c].slot \in Slots)'
    BY OnlyService, PTL
  <2>3. slot' = [slot EXCEPT ![chn'[c].slot].state = "IDLE"]
    BY <1>1, <2>1 DEF SvcOpen, Bound
  <2>4. QED
    BY <2>1, <2>2, <2>3 DEF ReqSlot
<1>12. ServedOne(c)'
  <2>1. /\ call'[c] = "none" /\ use'[c] = "opening" /\ xfer'[c] = xfer[c]
        /\ \A d \in Dirs : chn'[c].bits[d] = {}
    BY <1>1, <1>5, <1>6, <1>8 DEF Served
  <2>2. xfer[c]["read"] = "idle" /\ xfer[c]["write"] = "idle" /\ (~Hasty => ~k.task)
    BY <1>5 DEF Served, TaskInv
  <2>3. QED
    BY <1>8, <1>11, <2>1, <2>2 DEF ServedOne, Served, Expects, TaskInv
<1>13. QED
  BY <1>2, <1>10, <1>12

LEMMA UpdateReqServed ==
  ASSUME Client, ReqInv, NEW c \in Channels, UpdateReq(c)
  PROVE  LinkInv' /\ Alone(c) /\ ServedOne(c)'
<1> DEFINE k == chn[c]
           x == xfer[c]
<1>0. Known(c)
  BY Knows
<1> USE <1>0 DEF Known
<1>1. /\ Update(c) /\ slot' = slot /\ tag' = tag
      /\ call' = [call EXCEPT ![c] = CallAfter(c)]
  BY DEF UpdateReq, Moves
<1>2. LinkInv'
  BY <1>1, UpdateKeeps DEF Client, CarefulUser, ReqInv
<1>3. /\ chn' = chn
      /\ lib' = [lib EXCEPT ![c].view = k.state, ![c].bits = k.bits]
      /\ use' = [use EXCEPT ![c] = Answered(@, k.state)]
      /\ xfer' = [xfer EXCEPT ![c] = [d \in Dirs |-> XferAnswered(@[d], k.state, k.bits[d])]]
  BY <1>1 DEF Update, LibUpdate, deviceVars
<1>4. Alone(c)
  BY <1>1, <1>3 DEF Alone, OwnSlot
<1>5. /\ lib'[c].view = k.state /\ lib'[c].mtu = lib[c].mtu
      /\ use'[c] = Answered(use[c], k.state)
      /\ \A d \in Dirs : xfer'[c][d] = XferAnswered(x[d], k.state, k.bits[d])
  BY <1>3 DEF LibChannel
<1>6. call'[c] = CallAfter(c) /\ tag'[c] = tag[c]
  BY <1>1
<1>7. CASE k.state = "ERROR"
  <2>1. call'[c] = "none" /\ xfer'[c]["read"] = "idle" /\ xfer'[c]["write"] = "idle"
    BY <1>5, <1>6, <1>7 DEF CallAfter, XferAnswered, Dirs
  <2>2. ServedOne(c)'
    BY <1>1, <1>3, <1>5, <1>7, <2>1 DEF ServedOne, Served, TaskInv
  <2>3. QED
    BY <1>2, <1>4, <2>2
<1>8. CASE k.state # "ERROR"
  <2>1. xfer'[c]["read"] = x["read"] /\ xfer'[c]["write"] = x["write"]
    BY <1>5, <1>8 DEF Served, XferAnswered, Dirs
  <2>2. call'[c] = call[c]
    BY <1>5, <1>6, <1>8, <2>1 DEF CallAfter, Served
  <2>3. call[c] # "none" => use'[c] = "open" /\ k.state = "ACTIVE"
    BY <1>5, <1>8 DEF Served, Answered, Fits, LifeInv, Ended
  <2>4. ServedOne(c)'
    BY <1>1, <1>3, <1>5, <1>6, <2>1, <2>2, <2>3 DEF ServedOne, Served
  <2>5. QED
    BY <1>2, <1>4, <2>4
<1>9. QED
  BY <1>7, <1>8

LEMMA EventsServed ==
  ASSUME Client, ReqInv, Events
  PROVE  LinkInv' /\ ServedInv' /\ UNCHANGED <<slot, call, tag>>
<1>1. FetchEvents /\ UNCHANGED <<slot, call, tag>>
  BY DEF Events, Stays
<1>2. LinkInv'
  BY <1>1, FetchEventsKeeps DEF ReqInv
<1>3. UNCHANGED <<lib, use, xfer>> /\ CmdEventMask
  BY <1>1 DEF FetchEvents, LibFetchEvents
<1>4. ASSUME NEW c \in Channels PROVE ServedOne(c)'
  <2>1. chn[c] \in Channel /\ ServedOne(c)
    BY Knows DEF Known, ServedOne
  <2>2. chn'[c] = [chn[c] EXCEPT !.event = FALSE]
    BY <1>3 DEF CmdEventMask
  <2>3. /\ chn'[c].state = chn[c].state /\ chn'[c].bits = chn[c].bits
        /\ chn'[c].task = chn[c].task /\ chn'[c].slot = chn[c].slot
    BY <2>1, <2>2 DEF Channel
  <2>4. QED
    BY <1>1, <1>3, <2>1, <2>3 DEF ServedOne, Served, TaskInv, Refuses
<1>5. QED
  BY <1>1, <1>2, <1>4 DEF ServedInv, ServedOne

(* The slot of an active channel that its task finds POLLING has the       *)
(* request of the client's call.                                           *)
LEMMA PollingMeansWritten ==
  ASSUME ReqInv, NEW c \in Channels, chn[c].state = "ACTIVE", StateOf(c) = "POLLING"
  PROVE  call[c] = "written" /\ slot[chn[c].slot].data = tag[c]
  BY Knows DEF Known, Served, Expects, StateOf, FindSlot, Calls

LEMMA TaskReqServed ==
  ASSUME Client, ReqInv, NEW c \in Channels, TaskReq(c)
  PROVE  LinkInv' /\ Alone(c) /\ ServedOne(c)'
<1> DEFINE k   == chn[c]
           off == [k EXCEPT !.task = FALSE]
<1>0. Known(c)
  BY Knows
<1> USE <1>0 DEF Known
<1>1. /\ ChannelTask(c) /\ UNCHANGED <<lib, use, xfer, pend, call, tag>> /\ k.task
      /\ IF Bound(c) THEN SvcTask(c) ELSE slot' = slot
  BY DEF TaskReq, Stays, ChannelTask
<1>2. LinkInv'
  BY <1>1, DeviceWorkKeeps DEF ReqInv, DeviceWork, Work
<1>3. CASE UNCHANGED <<chn, slot>>
  BY <1>1, <1>2, <1>3 DEF Alone, OwnSlot, ServedOne
<1>4. ASSUME ~UNCHANGED <<chn, slot>>
      PROVE  /\ Bound(c) /\ StateOf(c) = "POLLING"
             /\ \/ chn' = [chn EXCEPT ![c] = off] /\ Becoming(c, "READ_WAIT")
                \/ chn' = [chn EXCEPT ![c] = EndStream(off, 3)] /\ slot' = slot
  BY <1>1, <1>4 DEF ChannelTask, Hang, SvcTask
<1>5. /\ off \in Channel /\ off.state = k.state /\ off.bits = k.bits /\ off.task = FALSE
      /\ off.slot = k.slot /\ off.service = k.service
  BY DEF Channel
<1> HIDE DEF off
<1>6. CASE ~UNCHANGED <<chn, slot>> /\ slot' # slot
  <2>1. /\ StateOf(c) = "POLLING" /\ chn'[c] = off /\ Bound(c)
        /\ slot' = [slot EXCEPT ![k.slot].state = "READ_WAIT"]
        /\ \A o \in Channels : o # c => chn'[o] = chn[o]
    BY <1>4, <1>6 DEF Becoming, FindSlot, DeviceInv, TypeOK
  <2>2. Alone(c)
    BY <1>1, <1>5, <2>1 DEF Alone, OwnSlot, Bound
  <2>3. /\ slot'[k.slot].state = "READ_WAIT" /\ slot'[k.slot].data = slot[k.slot].data
    BY <2>1, OnlyService DEF ReqSlot
  <2>4. /\ k.state = "ACTIVE" => call[c] = "written" /\ slot[k.slot].data = tag[c]
        /\ k.state # "ACTIVE" => call[c] # "written"
    BY <1>1, <2>1, PollingMeansWritten DEF Served, Refuses, StateOf, FindSlot
  <2>5. ServedOne(c)'
    BY <1>1, <1>5, <2>1, <2>3, <2>4 DEF ServedOne, Served, Expects, TaskInv
  <2>6. QED
    BY <1>2, <2>2, <2>5
<1>7. CASE ~UNCHANGED <<chn, slot>> /\ slot' = slot
  <2>1. /\ StateOf(c) = "POLLING" /\ Bound(c)
        /\ chn'[c] = off \/ chn'[c] = EndStream(off, 3)
        /\ \A o \in Channels : o # c => chn'[o] = chn[o]
    BY <1>4, <1>7 DEF DeviceInv, TypeOK
  <2>2. Alone(c)
    BY <1>1, <1>7, <2>1 DEF Alone, OwnSlot
  <2>3. chn'[c] = EndStream(off, 3)
    <3>1. ASSUME Becoming(c, "READ_WAIT") PROVE FALSE
      BY <1>7, <2>1, <3>1, OnlyService DEF Becoming, StateOf, FindSlot, ReqSlot
    <3>2. QED
      BY <1>4, <1>7, <3>1 DEF DeviceInv, TypeOK
  <2>4. /\ chn'[c].state = "ERROR" /\ chn'[c].bits = k.bits /\ chn'[c].task = FALSE
        /\ chn'[c].slot = k.slot
    BY <1>5, <2>3 DEF EndStream, Notify, SetError, Channel
  <2>5. \A d \in Dirs : k.bits[d] = {}
    <3>1. ASSUME k.state = "ACTIVE", NEW d \in Dirs PROVE k.bits[d] = {}
      <4>1. call[c] = "written"
        BY <2>1, <3>1, PollingMeansWritten
      <4>2. /\ xfer[c]["read"] = "idle" /\ xfer[c]["write"] = "idle"
            /\ use[c] = "open" /\ lib[c].view = "ACTIVE"
        BY <4>1 DEF Served
      <4>3. QED
        BY <4>2, QuietBits DEF Dirs
    <3>2. QED
      BY <3>1 DEF Served
  <2>6. k.state = "ACTIVE" => call[c] = "written"
    BY <2>1, PollingMeansWritten
  <2>7. call[c] = "none" /\ use[c] = "open" => lib[c].view = "ERROR"
    BY <2>6 DEF Served, Fits, LifeInv, Ended
  <2>8. ServedOne(c)'
    BY <1>1, <1>7, <2>1, <2>4, <2>5, <2>7
       DEF ServedOne, Served, TaskInv, Refuses, StateOf, FindSlot
  <2>9. QED
    BY <1>2, <2>2, <2>8
<1>8. QED
  BY <1>3, <1>6, <1>7

----------------------------------------------------------------------------
(* A new request is accepted, or it fails and leaves nothing behind. *)

(* A change that leaves all but one direction, the state and the task.     *)
SameSlot(k, k2) == k2.service = k.service /\ k2.slot = k.slot

RestOf(k, k2, d) ==
  SameSlot(k, k2) /\ \A o \in Dirs : o # d => k2.bits[o] = k.bits[o]

LEMMA DoneOutcome ==
  ASSUME NEW k \in Channel, NEW d \in Dirs
  PROVE  LET k2 == Done(k, d)
         IN  RestOf(k, k2, d) /\ k2.bits[d] = {} /\ k2.state = k.state /\ k2.task = k.task
  BY DEF Done, Notify, Channel, RestOf, SameSlot

LEMMA PreOutcome ==
  ASSUME NEW k \in Channel, NEW d \in Dirs, NEW k2 \in PreWork(k, d)
  PROVE  /\ RestOf(k, k2, d) /\ k2.task = k.task
         /\ \/ "READY" \in k2.bits[d] /\ k2.state = k.state
            \/ k2.bits[d] = {} /\ k2.state = "ERROR"
<1>1. PICK r \in {"ok", "err"} : \E n : k2 = Pre(k, d, r, n)
  BY RequestHandler DEF PreWork
<1>2. CASE r = "ok"
  <2>1. PICK n : k2 = Reply(k, d, n)
    BY <1>1, <1>2 DEF Pre
  <2>2. QED
    BY <2>1 DEF Reply, Notify, Channel, RestOf, SameSlot
<1>3. CASE r = "err"
  <2> DEFINE k1 == SetError(k, 3)
  <2>1. k2 = Done(k1, d)
    BY <1>1, <1>3 DEF Pre
  <2>2. k1 \in Channel
    BY SetErrorKeeps DEF Keeps, Errors
  <2>3. /\ k1.state = "ERROR" /\ k1.task = k.task /\ k1.bits = k.bits
        /\ SameSlot(k, k1)
    BY DEF SetError, Channel, SameSlot
  <2> HIDE DEF k1
  <2>4. QED
    BY <2>1, <2>2, <2>3, DoneOutcome DEF RestOf, SameSlot
<1>4. QED
  BY <1>2, <1>3

LEMMA ReqOutcome ==
  ASSUME DeviceInv, NEW c \in Channels, Bound(c), NEW d \in Dirs, NEW size \in Nat,
         CmdReq(c, d, size)
  PROVE  /\ RestOf(chn[c], chn'[c], d) /\ chn'[c].task = chn[c].task
         /\ \/ "READY" \in chn'[c].bits[d] /\ chn'[c].state = chn[c].state
            \/ chn'[c].bits[d] = {} /\ chn'[c].state = "ERROR"
<1> DEFINE k  == chn[c]
           k1 == [k EXCEPT !.bits[d] = @ \cup {"PRE"},
                           !.buf[d] = [org |-> size, size |-> size, blk |-> 0, off |-> 0]]
<1>1. k \in Channel
  BY DEF DeviceInv, TypeOK
<1>2. /\ k1 \in Channel /\ RestOf(k, k1, d) /\ k1.task = k.task /\ k1.state = k.state
  <2>1. "PRE" \in Bits /\ [org |-> size, size |-> size, blk |-> 0, off |-> 0] \in Buf
    BY DEF Bits, Buf
  <2>2. QED
    BY <1>1, <2>1 DEF Channel, RestOf, SameSlot
<1>3. chn'[c] \in PreWork(k1, d)
  BY BecomesOne DEF CmdReq
<1> HIDE DEF k1
<1>4. QED
  BY <1>2, <1>3, PreOutcome DEF RestOf, SameSlot

(* What is common to both directions.                                      *)
LEMMA RequestStep ==
  ASSUME Client, ReqInv, NEW c \in Channels, NEW d \in Dirs, NEW size \in Nat \ {0},
         Request(c, d, size), \A o \in Dirs : xfer[c][o] = "idle"
  PROVE  /\ LinkInv' /\ Bound(c)
         /\ \A o \in Channels : o # c => /\ chn'[o] = chn[o] /\ lib'[o] = lib[o]
                                         /\ use'[o] = use[o] /\ xfer'[o] = xfer[o]
         /\ use'[c] = "open" /\ use[c] = "open" /\ lib[c].view = "ACTIVE"
         /\ lib'[c].view = "ACTIVE" /\ lib'[c].mtu = lib[c].mtu
         /\ \A o \in Dirs : xfer'[c][o] = IF o = d THEN "asked" ELSE "idle"
         /\ chn'[c].slot = chn[c].slot /\ Bound(c)' /\ chn'[c].task = chn[c].task
         /\ \A o \in Dirs : o # d => chn'[c].bits[o] = {}
         /\ \/ Accepted(c, d) /\ chn'[c].state = chn[c].state
            \/ chn'[c].bits[d] = {} /\ chn'[c].state = "ERROR"
<1>0. Known(c)
  BY Knows
<1> USE <1>0 DEF Known
<1>1. LinkInv'
  BY RequestKeeps DEF Client, CarefulUser, MayAsk, ReqInv
<1>2. /\ CmdReq(c, d, size) /\ use[c] = "open" /\ lib[c].view = "ACTIVE"
      /\ lib' = [lib EXCEPT ![c].bits[d] = @ \cup {"PRE"}, ![c].left[d] = size]
      /\ xfer' = [xfer EXCEPT ![c][d] = "asked"] /\ use' = use
  BY DEF Request, LibRequest, MayRequest, IsActive
<1>3. Bound(c)
  BY <1>2 DEF Fits, LifeInv, Bound
<1>4. \A o \in Channels : o # c => chn'[o] = chn[o]
  BY <1>2, CmdReqLegit, DeviceStep
<1>5. lib'[c].view = lib[c].view /\ lib'[c].mtu = lib[c].mtu
  BY <1>2 DEF LibChannel
<1>6. \A o \in Channels : o # c => lib'[o] = lib[o] /\ use'[o] = use[o] /\ xfer'[o] = xfer[o]
  BY <1>2
<1>7. \A o \in Dirs : xfer'[c][o] = IF o = d THEN "asked" ELSE "idle"
  BY <1>2
<1>8. \A o \in Dirs : chn[c].bits[o] = {}
  BY <1>2, QuietBits
<1>9. /\ RestOf(chn[c], chn'[c], d) /\ chn'[c].task = chn[c].task
      /\ \/ Accepted(c, d) /\ chn'[c].state = chn[c].state
         \/ chn'[c].bits[d] = {} /\ chn'[c].state = "ERROR"
  BY <1>2, <1>3, ReqOutcome DEF Accepted
<1>10. QED
  BY <1>1, <1>2, <1>3, <1>4, <1>5, <1>6, <1>7, <1>8, <1>9 DEF RestOf, SameSlot, Bound

LEMMA WriteReqServed ==
  ASSUME Client, ReqInv, NEW c \in Channels, NEW size \in Sizes["write"],
         WriteReq(c, size)
  PROVE  LinkInv' /\ Alone(c) /\ ServedOne(c)'
<1>0. Known(c)
  BY Knows
<1> USE <1>0 DEF Known
<1>1. /\ call[c] = "none" /\ lib[c].mtu # 0 /\ Request(c, "write", size)
      /\ SvcWritePre(c)
      /\ call' = [call EXCEPT ![c] = "write"] /\ tag' = [tag EXCEPT ![c] = 1 - @]
  BY DEF WriteReq, Idle
<1>2. size \in Nat \ {0} /\ "write" \in Dirs
  BY DeviceAssumption DEF Client, CarefulUser, MayAsk, Dirs
<1>3. \A o \in Dirs : xfer[c][o] = "idle"
  BY <1>1 DEF Served, Dirs
<1>4. /\ LinkInv' /\ Bound(c)
      /\ \A o \in Channels : o # c => /\ chn'[o] = chn[o] /\ lib'[o] = lib[o]
                                      /\ use'[o] = use[o] /\ xfer'[o] = xfer[o]
      /\ use'[c] = "open" /\ use[c] = "open" /\ lib[c].view = "ACTIVE"
      /\ lib'[c].view = "ACTIVE" /\ lib'[c].mtu = lib[c].mtu
      /\ \A o \in Dirs : xfer'[c][o] = IF o = "write" THEN "asked" ELSE "idle"
      /\ chn'[c].slot = chn[c].slot /\ Bound(c)' /\ chn'[c].task = chn[c].task
      /\ \A o \in Dirs : o # "write" => chn'[c].bits[o] = {}
      /\ \/ Accepted(c, "write") /\ chn'[c].state = chn[c].state
         \/ chn'[c].bits["write"] = {} /\ chn'[c].state = "ERROR"
  BY <1>1, <1>2, <1>3, RequestStep
<1>5. chn[c].state = "ACTIVE"
  BY <1>1, <1>4 DEF Served
<1>6. \/ ~Accepted(c, "write") /\ slot' = slot
      \/ /\ Accepted(c, "write")
         /\ slot' = [slot EXCEPT ![chn[c].slot].state = "IN_WRITE"]
  BY <1>1 DEF SvcWritePre, Becoming, FindSlot
<1>7. Alone(c)
  <2>1. OwnSlot(c)
    <3>1. CASE slot' = slot
      BY <3>1, LeavesSlots
    <3>2. CASE slot' = [slot EXCEPT ![chn[c].slot].state = "IN_WRITE"]
      <4> DEFINE v == [slot[chn[c].slot] EXCEPT !.state = "IN_WRITE"]
      <4>1. slot' = [slot EXCEPT ![chn'[c].slot] = v] /\ Bound(c)'
        BY <1>4, <3>2
      <4>2. QED
        BY <4>1, SetsSlot
    <3>3. QED
      BY <1>6, <3>1, <3>2
  <2>2. \A o \in Channels : o # c => call'[o] = call[o] /\ tag'[o] = tag[o]
    BY <1>1
  <2>3. QED
    BY <1>4, <2>1, <2>2 DEF Alone
<1>8. Accepted(c, "write") => slot'[chn[c].slot].state = "IN_WRITE"
  BY <1>4, <1>6, OnlyService DEF ReqSlot
<1>9. call'[c] = "write" /\ xfer'[c]["write"] = "asked" /\ xfer'[c]["read"] = "idle"
  BY <1>1, <1>4 DEF Dirs
<1>10. ~Hasty => ~chn[c].task
  BY <1>1 DEF Served, TaskInv
<1>11. Accepted(c, "write") => chn'[c].state = "ACTIVE"
  BY <1>4, <1>5 DEF Accepted
<1>12. ServedOne(c)'
  BY <1>1, <1>4, <1>5, <1>8, <1>9, <1>10, <1>11
     DEF ServedOne, Served, Expects, TaskInv, Accepted, Dirs
<1>13. QED
  BY <1>4, <1>7, <1>12

LEMMA ReadReqServed ==
  ASSUME Client, ReqInv, NEW c \in Channels, ReadReq(c)
  PROVE  LinkInv' /\ Alone(c) /\ ServedOne(c)'
<1> DEFINE sl == slot[chn[c].slot]
<1>0. Known(c)
  BY Knows
<1> USE <1>0 DEF Known
<1>1. /\ call[c] = "written"
      /\ Hasty \/ StateOf(c) # "POLLING"
      /\ Request(c, "read", lib[c].mtu) /\ SvcReadPre(c)
      /\ call' = [call EXCEPT ![c] = "read"] /\ tag' = tag
  BY DEF ReadReq
<1>2. lib[c].mtu \in Nat \ {0} /\ "read" \in Dirs
  BY <1>1 DEF Served, LibChannel, Dirs
<1>3. \A o \in Dirs : xfer[c][o] = "idle"
  BY <1>1 DEF Served, Dirs
<1>4. /\ LinkInv' /\ Bound(c)
      /\ \A o \in Channels : o # c => /\ chn'[o] = chn[o] /\ lib'[o] = lib[o]
                                      /\ use'[o] = use[o] /\ xfer'[o] = xfer[o]
      /\ use'[c] = "open" /\ use[c] = "open" /\ lib[c].view = "ACTIVE"
      /\ lib'[c].view = "ACTIVE" /\ lib'[c].mtu = lib[c].mtu
      /\ \A o \in Dirs : xfer'[c][o] = IF o = "read" THEN "asked" ELSE "idle"
      /\ chn'[c].slot = chn[c].slot /\ Bound(c)' /\ chn'[c].task = chn[c].task
      /\ \A o \in Dirs : o # "read" => chn'[c].bits[o] = {}
      /\ \/ Accepted(c, "read") /\ chn'[c].state = chn[c].state
         \/ chn'[c].bits["read"] = {} /\ chn'[c].state = "ERROR"
  BY <1>1, <1>2, <1>3, RequestStep
<1>5. \/ ~Accepted(c, "read") /\ sl.state # "READ_WAIT" /\ slot' = slot
      \/ /\ Accepted(c, "read") /\ sl.state = "READ_WAIT"
         /\ slot' = [slot EXCEPT ![chn[c].slot].state = "IN_READ"]
  BY <1>1 DEF SvcReadPre, Becoming, StateOf, FindSlot
<1>6. sl.state = "READ_WAIT" => chn[c].state = "ACTIVE" /\ sl.data = tag[c]
  BY <1>1 DEF Served, Expects, Refuses
<1>7. Alone(c)
  <2>1. OwnSlot(c)
    <3>1. CASE slot' = slot
      BY <3>1, LeavesSlots
    <3>2. CASE slot' = [slot EXCEPT ![chn[c].slot].state = "IN_READ"]
      <4> DEFINE v == [sl EXCEPT !.state = "IN_READ"]
      <4>1. slot' = [slot EXCEPT ![chn'[c].slot] = v] /\ Bound(c)'
        BY <1>4, <3>2
      <4>2. QED
        BY <4>1, SetsSlot
    <3>3. QED
      BY <1>5, <3>1, <3>2
  <2>2. \A o \in Channels : o # c => call'[o] = call[o] /\ tag'[o] = tag[o]
    BY <1>1
  <2>3. QED
    BY <1>4, <2>1, <2>2 DEF Alone
<1>8. Accepted(c, "read") => /\ slot'[chn[c].slot].state = "IN_READ"
                             /\ slot'[chn[c].slot].data = tag[c]
  <2>1. sl \in ReqSlot /\ chn[c].slot \in Slots
    BY <1>4, OnlyService
  <2>2. Accepted(c, "read") => slot'[chn[c].slot] = [sl EXCEPT !.state = "IN_READ"]
    BY <1>5, <2>1
  <2>3. QED
    BY <1>5, <1>6, <2>1, <2>2 DEF ReqSlot
<1>9. /\ call'[c] = "read" /\ tag'[c] = tag[c]
      /\ xfer'[c]["read"] = "asked" /\ xfer'[c]["write"] = "idle"
  BY <1>1, <1>4 DEF Dirs
<1>10. ~Hasty => ~chn[c].task
  BY <1>1 DEF Served, TaskInv, StateOf, FindSlot
<1>11. Accepted(c, "read") => chn'[c].state = "ACTIVE"
  BY <1>4, <1>5, <1>6 DEF Accepted
<1>12. ServedOne(c)'
  BY <1>1, <1>2, <1>4, <1>8, <1>9, <1>10, <1>11
     DEF ServedOne, Served, Expects, TaskInv, Accepted, Dirs
<1>13. QED
  BY <1>4, <1>7, <1>12

----------------------------------------------------------------------------
(* A step of a transfer goes on with it, or ends it and the handler        *)
(* post-processes. *)

LEMMA PostOutcome ==
  ASSUME NEW k \in Channel, NEW d \in Dirs, NEW k2 \in PostWork(k, d)
  PROVE  /\ RestOf(k, k2, d) /\ k2.bits[d] = {}
         /\ \/ k2.state = k.state /\ (d = "read" => k2.task = k.task)
            \/ d = "write" /\ k2.state = "ERROR" /\ k2.task = k.task
<1> DEFINE h == HandlerOf(k.service)
<1>1. PICK r \in h.post[d], t \in TaskStarts(h, d) : k2 = Post(k, d, r, t)
  BY DEF PostWork
<1>2. r \in {"ok", "err"} /\ (d = "read" => r = "ok" /\ t = FALSE) /\ t \in BOOLEAN
  BY <1>1, RequestHandler DEF Dirs, TaskStarts
<1>3. CASE r = "ok"
  <2> DEFINE k1 == [k EXCEPT !.task = @ \/ t]
  <2>1. k1 \in Channel
    BY <1>2 DEF Channel
  <2>2. /\ k1.state = k.state /\ k1.bits = k.bits /\ SameSlot(k, k1)
        /\ d = "read" => k1.task = k.task
    BY <1>2 DEF Channel, SameSlot
  <2>3. k2 = Done(k1, d)
    BY <1>1, <1>3 DEF Post
  <2> HIDE DEF k1
  <2>4. QED
    BY <2>1, <2>2, <2>3, DoneOutcome DEF RestOf, SameSlot
<1>4. CASE r = "err"
  <2> DEFINE k1 == SetError(k, 3)
  <2>1. k1 \in Channel
    BY SetErrorKeeps DEF Keeps, Errors
  <2>2. /\ k1.state = "ERROR" /\ k1.task = k.task /\ k1.bits = k.bits
        /\ SameSlot(k, k1)
    BY DEF SetError, Channel, SameSlot
  <2>3. k2 = Done(k1, d)
    BY <1>1, <1>4 DEF Post
  <2> HIDE DEF k1
  <2>4. QED
    BY <1>2, <1>4, <2>1, <2>2, <2>3, DoneOutcome DEF RestOf, SameSlot, Dirs
<1>5. QED
  BY <1>2, <1>3, <1>4

(* The transfer goes on, or it was the last block.                         *)
GoesOn(c, d) ==
  /\ xfer'[c][d] = "moving" /\ chn'[c].bits = chn[c].bits
  /\ chn'[c].state = chn[c].state /\ chn'[c].task = chn[c].task
  /\ SameSlot(chn[c], chn'[c])

Ends(c, d) ==
  LET k  == chn[c]
      k2 == chn'[c]
  IN  /\ xfer'[c][d] = "idle" /\ RestOf(k, k2, d) /\ k2.bits[d] = {}
      /\ \/ k2.state = k.state /\ (d = "read" => k2.task = k.task)
         \/ d = "write" /\ k2.state = "ERROR" /\ k2.task = k.task

LEMMA BlkDoneOutcome ==
  ASSUME NEW k \in Channel, NEW d \in Dirs, NEW k2 \in BlkDone(k, d)
  PROVE  \/ k.buf[d].blk # 0 /\ k2 = k
         \/ /\ k.buf[d].blk = 0 /\ RestOf(k, k2, d) /\ k2.bits[d] = {}
            /\ \/ k2.state = k.state /\ (d = "read" => k2.task = k.task)
               \/ d = "write" /\ k2.state = "ERROR" /\ k2.task = k.task
<1> DEFINE k1 == [k EXCEPT !.bits[d] = @ \cup {"POST"}]
<1>1. k1 \in Channel /\ RestOf(k, k1, d) /\ k1.state = k.state /\ k1.task = k.task
  BY DEF Channel, Bits, RestOf, SameSlot
<1>2. CASE k.buf[d].blk = 0
  <2>1. k2 \in PostWork(k1, d)
    BY <1>2 DEF BlkDone
  <2> HIDE DEF k1
  <2>2. QED
    BY <1>1, <1>2, <2>1, PostOutcome DEF RestOf, SameSlot
<1>3. CASE k.buf[d].blk # 0
  BY <1>3 DEF BlkDone
<1>4. QED
  BY <1>2, <1>3

LEMMA SetupOutcome ==
  ASSUME Client, ReqInv, NEW c \in Channels, NEW d \in Dirs, Setup(c, d)
  PROVE  GoesOn(c, d) \/ Ends(c, d)
<1> DEFINE k == chn[c]
           l == lib[c]
<1>0. Known(c)
  BY Knows
<1> USE <1>0 DEF Known
<1>1. /\ use[c] = "open" /\ xfer[c][d] = "asked" /\ LibSetup(c, d)
      /\ xfer' = [xfer EXCEPT ![c][d] = IF SetupSize(c, d) = 0 THEN "idle" ELSE "moving"]
  BY DEF Setup, AfterLast, Client
<1>2. xfer'[c][d] = IF SetupSize(c, d) = 0 THEN "idle" ELSE "moving"
  BY <1>1
<1>3. "READY" \in l.bits[d] /\ AskedInv(k, l, d) /\ Bound(c)
  BY <1>1 DEF LibSetup, MaySetup, Fits, XferInv, LifeInv, Bound
<1>4. /\ k.bits[d] = l.bits[d] /\ "READY" \in k.bits[d]
      /\ l.left[d] # 0
      /\ k.buf[d].blk = Smaller(k.buf[d].size, k.mtu)
      /\ "SIZE" \in l.bits[d] <=> k.buf[d].size # l.left[d]
  BY <1>3 DEF AskedInv, Client, MayAsk
<1>5. SetupSize(c, d) = k.buf[d].size /\ k.buf[d].size \in Nat /\ k.mtu \in Nat
  BY <1>4 DEF SetupSize, Resized, Channel, Buf
<1>6. CASE k.buf[d].size # 0
  <2>1. chn' = chn
    BY <1>1, <1>5, <1>6 DEF LibSetup, CmdRes, deviceVars
  <2>2. QED
    BY <1>2, <1>5, <1>6, <2>1 DEF GoesOn, SameSlot
<1>7. CASE k.buf[d].size = 0
  <2>1. Resized(c, d)
    BY <1>4, <1>7 DEF Resized
  <2>2. Becomes(c, BlkDone(k, d))
    BY <1>1, <1>3, <1>7, <2>1 DEF LibSetup, CmdRes
  <2>3. k.buf[d].blk = 0
    BY <1>4, <1>5, <1>7 DEF Smaller
  <2>4. chn'[c] \in BlkDone(k, d)
    BY <2>2, BecomesOne
  <2>5. QED
    BY <1>2, <1>5, <1>7, <2>3, <2>4, BlkDoneOutcome DEF Ends
<1>8. QED
  BY <1>6, <1>7

LEMMA BlockOutcome ==
  ASSUME Client, ReqInv, NEW c \in Channels, NEW d \in Dirs, Block(c, d)
  PROVE  GoesOn(c, d) \/ Ends(c, d)
<1> DEFINE k  == chn[c]
           l  == lib[c]
           b1 == NextBlk(k.buf[d], k.mtu)
           k1 == [k EXCEPT !.buf[d] = NextBlk(@, k.mtu)]
           n  == LeftAfterBlock(c, d)
<1>0. Known(c)
  BY Knows
<1> USE <1>0 DEF Known
<1>1. /\ xfer[c][d] = "moving" /\ CmdBlk(c, d)
      /\ xfer' = [xfer EXCEPT ![c][d] = IF n = 0 THEN "idle" ELSE @]
  BY DEF Block, LibBlock, AfterLast, Client
<1>2. xfer'[c][d] = IF n = 0 THEN "idle" ELSE "moving"
  BY <1>1
<1>3. MovingInv(k, l, d) /\ l.mtu \in {0, k.mtu} /\ Bound(c)
  BY <1>1 DEF Fits, XferInv, LifeInv, Bound
<1>4. /\ k.buf[d] \in Buf /\ l.left[d] \in Nat /\ k.mtu \in Nat
      /\ l.mtu = k.mtu /\ k.mtu # 0 /\ l.left[d] = k.buf[d].size - k.buf[d].off
      /\ k.buf[d].blk = Smaller(l.left[d], k.mtu)
  BY <1>3 DEF MovingInv, Channel, LibChannel
<1>5. n = l.left[d] - k.buf[d].blk
  BY <1>4 DEF LeftAfterBlock, BlockSize
<1>6. n \in Nat /\ b1 \in Buf /\ b1.blk = IF n = 0 THEN 0 ELSE Smaller(n, k.mtu)
  <2> DEFINE b == k.buf[d]
  <2>1. b \in Buf /\ b.blk = Smaller(l.left[d], k.mtu) /\ l.left[d] = b.size - b.off
    BY <1>4
  <2>2. b1 = NextBlk(b, k.mtu) /\ n = l.left[d] - b.blk
    BY <1>5
  <2>3. l.left[d] \in Nat /\ k.mtu \in Nat
    BY <1>4
  <2> HIDE <1>0 DEF b1, b, n, k, l
  <2>4. QED
    BY <2>1, <2>2, <2>3, BlockCounts
<1>7. b1.blk = 0 <=> n = 0
  BY <1>4, <1>6 DEF Smaller
<1>8. /\ k1 \in Channel /\ k1.buf[d] = b1 /\ k1.bits = k.bits /\ k1.state = k.state
      /\ k1.task = k.task /\ SameSlot(k, k1)
  BY <1>6 DEF Channel, SameSlot
<1>9. chn'[c] \in BlkDone(k1, d)
  BY <1>1, <1>3, BecomesOne DEF CmdBlk
<1> HIDE DEF k1, b1, n
<1>10. CASE n = 0
  BY <1>2, <1>7, <1>8, <1>9, <1>10, BlkDoneOutcome DEF Ends, RestOf, SameSlot
<1>11. CASE n # 0
  BY <1>2, <1>7, <1>8, <1>9, <1>11, BlkDoneOutcome DEF GoesOn, SameSlot
<1>12. QED
  BY <1>10, <1>11

LEMMA TransferServed ==
  ASSUME Client, ReqInv, NEW c \in Channels, NEW d \in Dirs, Transfer(c, d)
  PROVE  LinkInv' /\ Alone(c) /\ ServedOne(c)'
<1> DEFINE k  == chn[c]
           k2 == chn'[c]
           x2 == xfer'[c]
<1>0. Known(c)
  BY Knows
<1> USE <1>0 DEF Known
<1>1. Setup(c, d) \/ Block(c, d)
  BY DEF Transfer
<1>2. LinkInv'
  BY <1>1, SetupKeeps, BlockKeeps DEF Client, CarefulUser, ReqInv
<1>3. GoesOn(c, d) \/ Ends(c, d)
  BY <1>1, SetupOutcome, BlockOutcome
<1>4. /\ use' = use /\ use[c] = "open" /\ xfer[c][d] \in {"asked", "moving"}
      /\ \A o \in Dirs : o # d => x2[o] = xfer[c][o]
      /\ \A o \in Channels : o # c => lib'[o] = lib[o] /\ xfer'[o] = xfer[o]
      /\ lib'[c].view = lib[c].view /\ lib'[c].mtu = lib[c].mtu
  BY <1>1 DEF Setup, LibSetup, Block, LibBlock, Fits, XferInv, LibChannel
<1>5. \A o \in Channels : o # c => chn'[o] = chn[o]
  <2>1. CmdRes(c, d) \/ CmdBlk(c, d) \/ UNCHANGED deviceVars
    BY <1>1 DEF Setup, LibSetup, Block, LibBlock
  <2>2. QED
    BY <2>1, CmdResLegit, CmdBlkLegit, DeviceStep DEF deviceVars
<1>6. d \in {"read", "write"} /\ call[c] = d
  BY <1>4 DEF Served, Dirs
<1>7. /\ lib[c].view = "ACTIVE" /\ lib[c].mtu # 0 /\ Bound(c)
      /\ \A o \in Dirs : o # d => xfer[c][o] = "idle" /\ k.bits[o] = {}
  <2>1. lib[c].view = "ACTIVE" /\ lib[c].mtu # 0 /\ Bound(c)
    BY <1>4, <1>6 DEF Served, Fits, LifeInv, Bound
  <2>2. \A o \in Dirs : o # d => xfer[c][o] = "idle"
    BY <1>6 DEF Served, Dirs
  <2>3. QED
    BY <1>4, <2>1, <2>2, QuietBits
<1>8. k.bits[d] # {}
  <2>1. CASE Setup(c, d)
    <3>1. xfer[c][d] = "asked" /\ "READY" \in lib[c].bits[d]
      BY <2>1 DEF Setup, LibSetup, MaySetup
    <3>2. AskedInv(k, lib[c], d)
      BY <3>1 DEF Fits, XferInv
    <3>3. QED
      BY <3>1, <3>2 DEF AskedInv
  <2>2. CASE Block(c, d)
    <3>1. MovingInv(k, lib[c], d)
      BY <2>2 DEF Block, Fits, XferInv
    <3>2. QED
      BY <3>1 DEF MovingInv
  <2>3. QED
    BY <1>1, <2>1, <2>2
<1>9. k.state = "ACTIVE"
  BY <1>8 DEF Served
<1>10. /\ call' = [call EXCEPT ![c] = CallAfter(c)] /\ tag' = tag
       /\ IF PostRuns(c, d)
          THEN IF d = "read" THEN SvcReadPost(c) ELSE SvcWritePost(c)
          ELSE slot' = slot
  BY DEF Transfer, Moves
<1>11. ~Hasty => ~k.task
  BY <1>6 DEF Served, TaskInv
<1>12. CASE GoesOn(c, d)
  <2>1. slot' = slot /\ k2.slot = k.slot /\ x2[d] = "moving"
    BY <1>8, <1>10, <1>12 DEF GoesOn, PostRuns, SameSlot
  <2>2. call'[c] = call[c]
    BY <1>4, <1>6, <1>7, <1>10, <2>1 DEF CallAfter
  <2>3. Alone(c)
    BY <1>4, <1>5, <1>10, <2>1 DEF Alone, OwnSlot
  <2>4. x2["read"] = (IF d = "read" THEN "moving" ELSE "idle")
        /\ x2["write"] = (IF d = "write" THEN "moving" ELSE "idle")
    BY <1>4, <1>6, <1>7, <2>1 DEF Dirs
  <2>5. ServedOne(c)'
    BY <1>4, <1>6, <1>7, <1>9, <1>10, <1>11, <1>12, <2>1, <2>2, <2>4
       DEF ServedOne, Served, GoesOn, TaskInv
  <2>6. QED
    BY <1>2, <2>3, <2>5
<1>13. CASE Ends(c, d)
  <2>1. /\ PostRuns(c, d) /\ k2.slot = k.slot /\ Bound(c)'
        /\ k.slot \in Slots /\ slot[k.slot] \in ReqSlot /\ slot[k.slot].state = IF d = "read" THEN "IN_READ" ELSE "IN_WRITE"
    <3>1. k.slot \in Slots
      BY <1>7, OnlyService
    <3>2. slot[k.slot].state = IF d = "read" THEN "IN_READ" ELSE "IN_WRITE"
      BY <1>6, <1>9 DEF Served, Expects
    <3>3. QED
      BY <1>7, <1>8, <1>13, <3>1, <3>2 DEF Ends, PostRuns, RestOf, SameSlot, Bound
  <2>2. /\ x2["read"] = "idle" /\ x2["write"] = "idle"
        /\ \A o \in Dirs : k2.bits[o] = {}
    BY <1>4, <1>6, <1>7, <1>13 DEF Ends, RestOf, Dirs
  <2>3. call'[c] = (IF d = "read" THEN "none" ELSE "written") /\ tag'[c] = tag[c]
    BY <1>4, <1>6, <1>7, <1>10, <2>2 DEF CallAfter
  <2>4. CASE d = "read"
    <3>1. slot' = [slot EXCEPT ![k.slot].state = "IDLE"]
      BY <1>10, <2>1, <2>4 DEF SvcReadPost, Becoming, FindSlot
    <3>2. slot'[k.slot].state = "IDLE"
      BY <2>1, <3>1 DEF ReqSlot
    <3>3. k2.state = "ACTIVE" /\ k2.task = k.task
      BY <1>9, <1>13, <2>4 DEF Ends
    <3>4. Alone(c)
      BY <1>4, <1>5, <1>10, <2>1, <3>1 DEF Alone, OwnSlot
    <3>5. ServedOne(c)'
      BY <1>4, <1>7, <1>11, <2>1, <2>2, <2>3, <2>4, <3>2, <3>3
         DEF ServedOne, Served, Expects, TaskInv
    <3>6. QED
      BY <1>2, <3>4, <3>5
  <2>5. CASE d = "write" /\ k2.state = "ERROR" /\ k2.task = k.task
    <3>1. slot' = slot
      BY <1>10, <2>1, <2>5 DEF SvcWritePost, Failed
    <3>2. Alone(c)
      BY <1>4, <1>5, <1>10, <3>1 DEF Alone, OwnSlot
    <3>3. ServedOne(c)'
      BY <1>4, <1>7, <1>11, <2>1, <2>2, <2>3, <2>5, <3>1
         DEF ServedOne, Served, Refuses, TaskInv
    <3>4. QED
      BY <1>2, <3>2, <3>3
  <2>6. CASE d = "write" /\ k2.state = "ACTIVE"
    <3>1. PICK s \in {"READ_WAIT", "POLLING"} :
            /\ slot' = [slot EXCEPT ![k.slot] = [state |-> s, data |-> tag[c]]]
            /\ s = "READ_WAIT" => k2.task = k.task
      BY <1>10, <2>1, <2>6 DEF SvcWritePost, Failed, Consumes, FindSlot
    <3>2. slot'[k.slot].state = s /\ slot'[k.slot].data = tag[c]
      BY <2>1, <3>1
    <3>3. Alone(c)
      BY <1>4, <1>5, <1>10, <2>1, <3>1 DEF Alone, OwnSlot
    <3>4. ServedOne(c)'
      BY <1>4, <1>7, <1>11, <2>1, <2>2, <2>3, <2>6, <3>1, <3>2
         DEF ServedOne, Served, Expects, TaskInv
    <3>5. QED
      BY <1>2, <3>3, <3>4
  <2>7. QED
    BY <1>6, <1>9, <1>13, <2>4, <2>5, <2>6 DEF Ends
<1>14. QED
  BY <1>3, <1>12, <1>13

----------------------------------------------------------------------------
(* The invariant of the request service. *)

LEMMA SlotTypes ==
  ASSUME slot \in [Slots -> ReqSlot], tag \in [Channels -> Tags], NEW c \in Channels
  PROVE  /\ \A s \in SlotStates : Becoming(c, s) => slot' \in [Slots -> ReqSlot]
         /\ \A s \in SlotStates : Consumes(c, s) => slot' \in [Slots -> ReqSlot]
         /\ SvcOpen(c) => slot' \in [Slots -> ReqSlot]
<1>1. \A i : \A s \in SlotStates :
        [slot EXCEPT ![i].state = s] \in [Slots -> ReqSlot]
  BY DEF ReqSlot
<1>2. \A i : \A s \in SlotStates :
        [slot EXCEPT ![i] = [state |-> s, data |-> tag[c]]] \in [Slots -> ReqSlot]
  BY DEF ReqSlot
<1>3. "IDLE" \in SlotStates
  BY DEF SlotStates
<1>4. QED
  BY <1>1, <1>2, <1>3 DEF Becoming, Consumes, SvcOpen

LEMMA ReqTypeStep ==
  ASSUME ReqInv, LinkInv', [ReqNext]_reqVars
  PROVE  ReqTypeOK'
<1>1. /\ slot \in [Slots -> ReqSlot] /\ call \in [Channels -> Calls]
      /\ tag \in [Channels -> Tags]
  BY DEF ReqInv, ReqTypeOK
<1>2. LinkTypeOK'
  BY DEF LinkInv
<1>3. {"IDLE", "IN_WRITE", "POLLING", "READ_WAIT", "IN_READ"} = SlotStates
  BY DEF SlotStates
<1>4. \A c \in Channels : CallAfter(c) \in Calls
  BY <1>1 DEF CallAfter, Calls
<1>5. \A c \in Channels : Moves(c) => call' \in [Channels -> Calls] /\ tag' = tag
  BY <1>1, <1>4 DEF Moves
<1>6. ASSUME NEW c \in Channels, NEW port \in Ports, OpenReq(c, port) PROVE ReqTypeOK'
  BY <1>1, <1>2, <1>6, SlotTypes DEF OpenReq, Stays, ReqTypeOK
<1>7. ASSUME NEW c \in Channels, CloseReq(c) \/ GetMtuReq(c) PROVE ReqTypeOK'
  BY <1>1, <1>2, <1>7 DEF CloseReq, GetMtuReq, Stays, ReqTypeOK
<1>8. ASSUME NEW c \in Channels, ResetReq(c) PROVE ReqTypeOK'
  BY <1>1, <1>2, <1>3, <1>8, SlotTypes DEF ResetReq, SvcReset, Stays, ReqTypeOK
<1>9. ASSUME NEW c \in Channels, NEW size \in Sizes["write"], WriteReq(c, size)
      PROVE  ReqTypeOK'
  <2>1. slot' \in [Slots -> ReqSlot]
    BY <1>1, <1>3, <1>9, SlotTypes DEF WriteReq, SvcWritePre
  <2>2. call' \in [Channels -> Calls] /\ tag' \in [Channels -> Tags]
    BY <1>1, <1>9 DEF WriteReq, Calls, Tags
  <2>3. QED
    BY <1>2, <2>1, <2>2 DEF ReqTypeOK
<1>10. ASSUME NEW c \in Channels, ReadReq(c) PROVE ReqTypeOK'
  <2>1. slot' \in [Slots -> ReqSlot]
    BY <1>1, <1>3, <1>10, SlotTypes DEF ReadReq, SvcReadPre
  <2>2. call' \in [Channels -> Calls] /\ tag' = tag
    BY <1>1, <1>10 DEF ReadReq, Calls
  <2>3. QED
    BY <1>1, <1>2, <2>1, <2>2 DEF ReqTypeOK
<1>11. ASSUME NEW c \in Channels, NEW d \in Dirs, Transfer(c, d) PROVE ReqTypeOK'
  <2>1. slot' \in [Slots -> ReqSlot]
    BY <1>1, <1>3, <1>11, SlotTypes DEF Transfer, SvcReadPost, SvcWritePost
  <2>2. QED
    BY <1>1, <1>2, <1>5, <1>11, <2>1 DEF Transfer, ReqTypeOK
<1>12. ASSUME NEW c \in Channels, UpdateReq(c) PROVE ReqTypeOK'
  BY <1>1, <1>2, <1>5, <1>12 DEF UpdateReq, ReqTypeOK
<1>13. ASSUME NEW c \in Channels, TaskReq(c) PROVE ReqTypeOK'
  BY <1>1, <1>2, <1>3, <1>13, SlotTypes DEF TaskReq, SvcTask, Stays, ReqTypeOK
<1>14. CASE Events \/ UNCHANGED reqVars
  BY <1>1, <1>2, <1>14 DEF Events, Stays, reqVars, ReqTypeOK
<1>15. QED
  BY <1>6, <1>7, <1>8, <1>9, <1>10, <1>11, <1>12, <1>13, <1>14 DEF ReqNext

LEMMA ReqNextInv ==
  ASSUME Client, ReqInv, [ReqNext]_reqVars
  PROVE  ReqInv'
<1>1. ASSUME NEW c \in Channels, LinkInv' /\ Alone(c) /\ ServedOne(c)'
      PROVE  LinkInv' /\ ServedInv'
  BY <1>1, OneServed
<1>2. CASE UNCHANGED reqVars
  <2>1. LinkInv'
    BY <1>2, LinkNextInv DEF reqVars, ReqInv, Client, CarefulUser
  <2>2. ServedInv'
    BY <1>2 DEF reqVars, linkVars, ReqInv, ServedInv
  <2>3. QED
    BY <2>1, <2>2, ReqTypeStep DEF ReqInv
<1>3. CASE Events
  BY <1>3, EventsServed, ReqTypeStep DEF ReqInv
<1>4. CASE ReqNext /\ ~Events
  <2>1. PICK c \in Channels :
          \/ \E port \in Ports : OpenReq(c, port)
          \/ CloseReq(c) \/ ResetReq(c) \/ GetMtuReq(c)
          \/ \E size \in Sizes["write"] : WriteReq(c, size)
          \/ ReadReq(c)
          \/ \E d \in Dirs : Transfer(c, d)
          \/ UpdateReq(c) \/ TaskReq(c)
    BY <1>4 DEF ReqNext
  <2>2. LinkInv' /\ Alone(c) /\ ServedOne(c)'
    BY <2>1, OpenReqServed, CloseReqServed, ResetReqServed, GetMtuReqServed,
       WriteReqServed, ReadReqServed, TransferServed, UpdateReqServed, TaskReqServed
  <2>3. QED
    BY <1>1, <2>2, ReqTypeStep DEF ReqInv
<1>5. QED
  BY <1>2, <1>3, <1>4

LEMMA ReqInitInv == ReqInit => ReqInv
<1> SUFFICES ASSUME ReqInit PROVE ReqInv
  OBVIOUS
<1>1. LinkInv
  BY LinkInitInv DEF ReqInit
<1>2. ReqTypeOK
  BY <1>1 DEF LinkInv, ReqInit, ReqTypeOK, ReqSlot, SlotStates, Calls, Tags
<1>3. ASSUME NEW c \in Channels PROVE ServedOne(c)
  <2>1. /\ chn[c].state = "INACTIVE" /\ chn[c].task = FALSE
        /\ \A d \in Dirs : chn[c].bits[d] = {}
        /\ use[c] = "free" /\ xfer[c] = NoXfer /\ call[c] = "none"
    BY DEF ReqInit, LinkInit, DeviceInit, FreshChannels
  <2>2. QED
    BY <2>1, NoXferType DEF ServedOne, Served, TaskInv, Dirs
<1>4. QED
  BY <1>1, <1>2, <1>3 DEF ReqInv, ServedInv, ServedOne

(* At any time, a client's call, its channel and its slot fit together,    *)
(* whether or not clients read before a polling handler has answered.      *)
THEOREM ReqInvariant == ASSUME Client PROVE ReqSpec => []ReqInv
<1>1. ReqInit => ReqInv
  BY ReqInitInv
<1>2. ReqInv /\ [ReqNext]_reqVars => ReqInv'
  BY ReqNextInv
<1>3. QED
  BY <1>1, <1>2, PTL DEF ReqSpec

(* Slots, calls and tags keep their types.                                 *)
THEOREM ReqTypeCorrect == ASSUME Client PROVE ReqSpec => []ReqTypeOK
<1>1. ReqInv => ReqTypeOK
  BY DEF ReqInv
<1>2. QED
  BY <1>1, ReqInvariant, PTL

(* A client gets the reply to the request it wrote last, though slots are  *)
(* used again and other channels use the service.                          *)
THEOREM RepliesAreMine == ASSUME Client PROVE ReqSpec => []ReplyIsMine
<1>1. ASSUME ReqInv, NEW c \in Channels, call[c] = "read", xfer[c]["read"] = "moving"
      PROVE  StateOf(c) = "IN_READ" /\ slot[FindSlot(c)].data = tag[c]
  <2>1. Known(c)
    BY <1>1, Knows
  <2>2. chn[c].bits["read"] # {}
    BY <1>1, <2>1 DEF Known, Fits, XferInv, MovingInv, Dirs
  <2>3. chn[c].state = "ACTIVE"
    BY <2>1, <2>2 DEF Known, Served, Dirs
  <2>4. QED
    BY <1>1, <2>1, <2>3 DEF Known, Served, Expects, StateOf, FindSlot
<1>2. ReqInv => ReplyIsMine
  BY <1>1 DEF ReplyIsMine
<1>3. QED
  BY <1>2, ReqInvariant, PTL

(* The slot of an active channel is in the state that its client's next    *)
(* step needs: nothing is refused for what an earlier user left behind.    *)
THEOREM SlotsInStep == ASSUME Client PROVE ReqSpec => []SlotInStep
<1>1. ASSUME ReqInv, NEW c \in Channels, use[c] = "open", chn[c].state = "ACTIVE"
      PROVE  StateOf(c) \in
               CASE call[c] = "none" -> {"IDLE"}
                 [] call[c] = "write" -> {"IN_WRITE"}
                 [] call[c] = "written" -> {"POLLING", "READ_WAIT"}
                 [] call[c] = "read" -> {"IN_READ"}
  <2>1. Expects(slot[chn[c].slot], call[c], tag[c]) /\ call[c] \in Calls
    BY <1>1, Knows DEF Known, Served
  <2>2. QED
    BY <2>1 DEF Expects, StateOf, FindSlot, Calls
<1>2. ReqInv => SlotInStep
  BY <1>1 DEF SlotInStep
<1>3. QED
  BY <1>2, ReqInvariant, PTL

(* The channel task runs only for a request that its handler polls, as     *)
(* long as no client reads before it is answered.                          *)
THEOREM TasksArePolling ==
  ASSUME Client, ~Hasty
  PROVE  ReqSpec => []TaskIsPolling
<1>1. ASSUME ReqInv, NEW c \in Channels, chn[c].task
      PROVE  Bound(c) /\ StateOf(c) = "POLLING"
  <2>1. Known(c)
    BY <1>1, Knows
  <2>2. chn[c].state = "ACTIVE" /\ slot[chn[c].slot].state = "POLLING"
    BY <1>1, <2>1 DEF Known, Served, TaskInv
  <2>3. QED
    BY <2>1, <2>2
       DEF Known, DeviceInv, ActiveIsBound, ActiveStates, StateOf, FindSlot
<1>2. ReqInv => TaskIsPolling
  BY <1>1 DEF TaskIsPolling
<1>3. QED
  BY <1>2, ReqInvariant, PTL
=============================================================================
