------------------------ MODULE PamelaDevice_proofs -------------------------
(***************************************************************************)
(* For any number of channels, any handler table and any host: types, the  *)
(* allocation of slots and the binding of active channels.                 *)
(*                                                                         *)
(* The argument: a command or a piece of work changes one channel.  All    *)
(* but opening and closing keep the channel's service and slot; opening    *)
(* takes a slot that no channel of the service has; closing gives it up    *)
(* and leaves the active states.                                           *)
(***************************************************************************)
EXTENDS PamelaDevice, TLAPS

(* A change of a channel that keeps its service and its slot.              *)
Keeps(k, k2) == k2 \in Channel /\ k2.service = k.service /\ k2.slot = k.slot

----------------------------------------------------------------------------
(* The updates of a channel keep its type, service and slot. *)

LEMMA HandlerType == ASSUME NEW srv PROVE HandlerOf(srv) \in HandlerRec
  BY DeviceAssumption DEF HandlerOf, SrvId, Services

LEMMA SmallerType ==
  ASSUME NEW a \in Nat, NEW b \in Nat PROVE Smaller(a, b) \in Nat
  BY DEF Smaller

LEMMA NotifyKeeps == ASSUME NEW k \in Channel PROVE Keeps(k, Notify(k))
  BY DEF Keeps, Notify, Channel

LEMMA SetStateKeeps ==
  ASSUME NEW k \in Channel, NEW s \in States PROVE Keeps(k, SetState(k, s))
  BY DEF Keeps, SetState, Channel

LEMMA SetErrorKeeps ==
  ASSUME NEW k \in Channel, NEW e \in Errors
  PROVE  Keeps(k, SetError(k, e)) /\ Keeps(k, SetOpenError(k, e))
  BY DEF Keeps, SetError, SetOpenError, Channel, States, PassiveStates

LEMMA KeepsTrans ==
  ASSUME NEW k, NEW k1, NEW k2, Keeps(k, k1), Keeps(k1, k2) PROVE Keeps(k, k2)
  BY DEF Keeps

LEMMA ReplyKeeps ==
  ASSUME NEW k \in Channel, NEW d \in Dirs, NEW n \in Nat
  PROVE  Keeps(k, Reply(k, d, n))
<1> DEFINE set == k.bits[d] \cup (IF k.buf[d].org # n THEN {"SIZE"} ELSE {}) \cup {"READY"}
           b   == [org |-> k.buf[d].org, size |-> n, off |-> 0, blk |-> Smaller(n, k.mtu)]
           k1  == [k EXCEPT !.bits[d] = set \ {"PRE"}, !.buf[d] = b]
<1>1. k.bits \in [Dirs -> SUBSET Bits] /\ k.buf \in [Dirs -> Buf] /\ k.mtu \in Nat
  BY DEF Channel
<1>2. set \ {"PRE"} \subseteq Bits
  BY <1>1 DEF Bits
<1>3. b \in Buf
  BY <1>1, SmallerType DEF Buf
<1> HIDE DEF set, b
<1>4. Keeps(k, k1)
  BY <1>1, <1>2, <1>3 DEF Keeps, Channel
<1>5. Reply(k, d, n) = Notify(k1)
  BY <1>1 DEF Reply, set, b, Channel
<1> HIDE DEF k1
<1>6. QED
  BY <1>4, <1>5, NotifyKeeps, KeepsTrans DEF Keeps

LEMMA DoneKeeps ==
  ASSUME NEW k \in Channel, NEW d \in Dirs PROVE Keeps(k, Done(k, d))
<1> DEFINE bits == [k.bits EXCEPT ![d] = {}]
           buf  == [k.buf EXCEPT ![d] = [k.buf[d] EXCEPT !.size = 0]]
           k2   == [[k EXCEPT !.bits = bits] EXCEPT !.buf = buf]
<1>1. bits \in [Dirs -> SUBSET Bits]
  BY DEF Channel
<1>2. buf \in [Dirs -> Buf]
  BY DEF Channel, Buf
<1>3. k2 \in Channel /\ k2.service = k.service /\ k2.slot = k.slot
  <2> HIDE DEF bits, buf
  <2> QED BY <1>1, <1>2 DEF Channel
<1>4. Done(k, d) = Notify(k2)
  BY DEF Done, Channel
<1> HIDE DEF k2
<1>5. QED
  BY <1>3, <1>4, NotifyKeeps DEF Keeps

(* The handler's answer to a request is a natural number of bytes, and     *)
(* every outcome of the pre- and post-processing keeps service and slot.   *)
LEMMA PreWorkKeeps ==
  ASSUME NEW k \in Channel, NEW d \in Dirs, NEW k2 \in PreWork(k, d)
  PROVE  Keeps(k, k2)
<1> DEFINE h == HandlerOf(k.service)
<1>1. h \in HandlerRec
  BY HandlerType
<1>2. k.buf[d].size \in Nat
  BY DEF Channel, Buf
<1>3. PICK r \in h.pre[d], n \in {k.buf[d].size} \cup {m \in h.cuts[d] : m < k.buf[d].size} :
        k2 = Pre(k, d, r, n)
  BY DEF PreWork
<1>4. r \in Results /\ n \in Nat
  BY <1>1, <1>2 DEF HandlerRec
<1>5. CASE r = "ok"
  BY <1>3, <1>4, <1>5, ReplyKeeps DEF Pre
<1>6. CASE r = "poll"
  BY <1>3, <1>6 DEF Pre, Keeps
<1>7. CASE r = "err"
  <2>1. Keeps(k, SetError(k, 3))
    BY SetErrorKeeps DEF Errors
  <2>2. Keeps(SetError(k, 3), Done(SetError(k, 3), d))
    BY <2>1, DoneKeeps DEF Keeps
  <2>3. QED
    BY <1>3, <1>7, <2>1, <2>2, KeepsTrans DEF Pre
<1>8. QED
  BY <1>4, <1>5, <1>6, <1>7 DEF Results

LEMMA PostWorkKeeps ==
  ASSUME NEW k \in Channel, NEW d \in Dirs, NEW k2 \in PostWork(k, d)
  PROVE  Keeps(k, k2)
<1> DEFINE h == HandlerOf(k.service)
<1>1. h \in HandlerRec
  BY HandlerType
<1>2. PICK r \in h.post[d], t \in TaskStarts(h, d) : k2 = Post(k, d, r, t)
  BY DEF PostWork
<1>3. r \in Results /\ t \in BOOLEAN
  BY <1>1 DEF HandlerRec, TaskStarts
<1>4. CASE r = "ok"
  <2> DEFINE k1 == [k EXCEPT !.task = @ \/ t]
  <2>1. Keeps(k, k1)
    BY <1>3 DEF Keeps, Channel
  <2>2. Keeps(k1, Done(k1, d))
    BY <2>1, DoneKeeps DEF Keeps
  <2>3. k2 = Done(k1, d)
    BY <1>2, <1>4 DEF Post
  <2>4. QED
    BY <2>1, <2>2, <2>3, KeepsTrans
<1>5. CASE r = "poll"
  BY <1>2, <1>5 DEF Post, Keeps
<1>6. CASE r = "err"
  <2>1. Keeps(k, SetError(k, 3))
    BY SetErrorKeeps DEF Errors
  <2>2. Keeps(SetError(k, 3), Done(SetError(k, 3), d))
    BY <2>1, DoneKeeps DEF Keeps
  <2>3. QED
    BY <1>2, <1>6, <2>1, <2>2, KeepsTrans DEF Post
<1>7. QED
  BY <1>3, <1>4, <1>5, <1>6 DEF Results

LEMMA BlkDoneKeeps ==
  ASSUME NEW k \in Channel, NEW d \in Dirs, NEW k2 \in BlkDone(k, d)
  PROVE  Keeps(k, k2)
<1> DEFINE k1 == [k EXCEPT !.bits[d] = @ \cup {"POST"}]
<1>1. Keeps(k, k1)
  BY DEF Keeps, Channel, Bits
<1>2. CASE k.buf[d].blk = 0
  <2>1. k2 \in PostWork(k1, d)
    BY <1>2 DEF BlkDone
  <2>2. Keeps(k1, k2)
    BY <1>1, <2>1, PostWorkKeeps DEF Keeps
  <2>3. QED
    BY <1>1, <2>2, KeepsTrans
<1>3. CASE k.buf[d].blk # 0
  BY <1>3 DEF BlkDone, Keeps
<1>4. QED
  BY <1>2, <1>3

LEMMA OpenWorkKeeps ==
  ASSUME NEW k \in Channel, NEW k2 \in OpenWork(k) PROVE Keeps(k, k2)
<1>1. PICK r \in HandlerOf(k.service).open : k2 = Open(k, r)
  BY DEF OpenWork
<1>2. r \in Results
  BY HandlerType DEF HandlerRec
<1>3. CASE r = "ok"
  BY <1>1, <1>3 DEF Open, Keeps, Notify, SetState, Channel, States, ActiveStates
<1>4. CASE r = "poll"
  BY <1>1, <1>4 DEF Open, Keeps, SetState, Channel, States, ActiveStates
<1>5. CASE r = "err"
  <2> DEFINE k1 == [SetOpenError(k, 3) EXCEPT !.session = "none"]
  <2>1. Keeps(k, SetOpenError(k, 3))
    BY SetErrorKeeps DEF Errors
  <2>2. Keeps(k, k1)
    BY <2>1 DEF Keeps, Channel
  <2>3. Keeps(k1, Notify(k1))
    BY <2>2, NotifyKeeps DEF Keeps
  <2>4. QED
    BY <1>1, <1>5, <2>2, <2>3, KeepsTrans DEF Open
<1>6. QED
  BY <1>2, <1>3, <1>4, <1>5 DEF Results

LEMMA ResetWorkKeeps ==
  ASSUME NEW k \in Channel, NEW k2 \in ResetWork(k) PROVE Keeps(k, k2)
<1>1. k2 \in {Notify(SetState(k, "ACTIVE")), SetState(k, "RESETTING")}
  BY DEF ResetWork, Reset
<1>2. SetState(k, "RESETTING") \in Channel /\ SetState(k, "ACTIVE") \in Channel
  BY DEF SetState, Channel, States, ActiveStates
<1>3. Keeps(k, SetState(k, "RESETTING")) /\ Keeps(k, SetState(k, "ACTIVE"))
  BY <1>2 DEF SetState, Keeps, Channel
<1>4. QED
  BY <1>1, <1>2, <1>3, NotifyKeeps, KeepsTrans

LEMMA EndStreamKeeps ==
  ASSUME NEW k \in Channel, NEW e \in Errors PROVE Keeps(k, EndStream(k, e))
  BY DEF EndStream, Keeps, Notify, SetState, SetError, Channel, States, PassiveStates

(* One stage of a pass, and so all four, keep service and slot.            *)
LEMMA StageKeeps ==
  ASSUME NEW k \in Channel, NEW S, \A k1 \in S : Keeps(k, k1),
         NEW d \in Dirs, NEW bit, NEW k2 \in Stage(S, d, bit)
  PROVE  Keeps(k, k2)
<1>1. PICK k1 \in S : k2 \in IF bit \notin k1.bits[d] THEN {k1}
                             ELSE IF bit = "PRE" THEN PreWork(k1, d)
                             ELSE PostWork(k1, d)
  BY DEF Stage
<1>2. Keeps(k, k1) /\ k1 \in Channel
  BY DEF Keeps
<1>3. Keeps(k1, k2)
  BY <1>1, <1>2, PreWorkKeeps, PostWorkKeeps DEF Keeps
<1>4. QED
  BY <1>2, <1>3, KeepsTrans

(* Closing keeps the channel as it is, or gives its slot up and leaves the *)
(* active states.                                                          *)
Frees(k2) ==
  k2 \in Channel /\ k2.service = NoService /\ k2.state \notin ActiveStates

LEMMA CloseDoneFrees == ASSUME NEW k \in Channel PROVE Frees(CloseDone(k))
<1> DEFINE bits == [d \in Dirs |-> {}]
           k0   == [k EXCEPT !.state = "INACTIVE", !.bits = bits]
           k1   == [k0 EXCEPT !.service = NoService, !.slot = EmptySlot]
<1>1. bits \in [Dirs -> SUBSET Bits]
  OBVIOUS
<1>4. CloseDone(k) = Notify(k1)
  BY DEF CloseDone
<1> HIDE DEF bits
<1>2. k0 \in Channel /\ k0.state = "INACTIVE"
  BY <1>1 DEF Channel, States, PassiveStates
<1> HIDE DEF k0
<1>3. k1 \in Channel /\ k1.service = NoService /\ k1.state = "INACTIVE"
  <2> DEFINE kn == [k0 EXCEPT !.service = NoService]
  <2>1. kn \in Channel /\ kn.service = NoService /\ kn.state = "INACTIVE"
    BY <1>2 DEF Channel
  <2>2. k1 = [kn EXCEPT !.slot = EmptySlot]
    BY <1>2 DEF Channel
  <2> HIDE DEF kn, k1
  <2>3. QED
    BY <2>1, <2>2 DEF Channel, EmptySlot
<1> HIDE DEF k1
<1>5. Notify(k1) \in Channel /\ Notify(k1).service = NoService
  BY <1>3, NotifyKeeps DEF Keeps
<1>6. Notify(k1).state = "INACTIVE"
  BY <1>3 DEF Notify, Channel
<1>7. QED
  BY <1>4, <1>5, <1>6 DEF Frees, ActiveStates

LEMMA CloseWorkKeepsOrFrees ==
  ASSUME NEW k \in Channel, NEW k2 \in CloseWork(k)
  PROVE  Keeps(k, k2) \/ Frees(k2)
<1>1. PICK r \in HandlerOf(k.service).close : k2 = Close(k, r)
  BY DEF CloseWork
<1>2. CASE r = "ok"
  <2>1. [k EXCEPT !.session = "none"] \in Channel
    BY DEF Channel
  <2>2. QED
    BY <1>1, <1>2, <2>1, CloseDoneFrees DEF Close
<1>3. CASE r # "ok"
  BY <1>1, <1>3 DEF Close, Keeps, SetState, Channel, States, ActiveStates
<1>4. QED
  BY <1>2, <1>3

----------------------------------------------------------------------------
(* Every step makes a legitimate change to one channel. *)

DeviceInv == TypeOK /\ SlotsExclusive /\ SlotInRange /\ ActiveIsBound

(* The change takes a slot that is free before it.                         *)
Takes(k2) ==
  /\ k2 \in Channel
  /\ \E srv \in Services :
       /\ k2.service = srv
       /\ k2.slot \in FreeSlots(srv)

Legit(c, k2) ==
  \/ Keeps(chn[c], k2) /\ (Bound(c) \/ k2.state \notin ActiveStates)
  \/ Frees(k2)
  \/ Takes(k2)

OneChange(c) ==
  \E k2 : Legit(c, k2) /\ chn' = [chn EXCEPT ![c] = k2] /\ halted' = halted

KeepsAll == UNCHANGED chn /\ halted' \in BOOLEAN

LEMMA BecomesLegit ==
  ASSUME NEW c \in Channels, NEW S, Becomes(c, S), \A k2 \in S : Legit(c, k2)
  PROVE  OneChange(c)
  BY DEF Becomes, OneChange

(* A bound channel may change in any way that keeps service and slot.      *)
LEMMA BoundKeepsLegit ==
  ASSUME NEW c \in Channels, Bound(c), NEW S, Becomes(c, S),
         \A k2 \in S : Keeps(chn[c], k2)
  PROVE  OneChange(c)
  BY BecomesLegit DEF Legit

LEMMA HangStays == Hang => KeepsAll
  BY DEF Hang, KeepsAll

LEMMA SlotNumbers ==
  ASSUME NEW srv, NEW sl \in FreeSlots(srv) PROVE sl \in 0 .. EmptySlot
<1>1. HandlerOf(srv).slots \in 0 .. EmptySlot
  BY HandlerType DEF HandlerRec
<1>2. QED
  BY <1>1 DEF FreeSlots, EmptySlot

LEMMA CmdOpenLegit ==
  ASSUME DeviceInv, NEW c \in Channels, NEW port, CmdOpen(c, port)
  PROVE  OneChange(c)
<1> DEFINE k == chn[c]
<1>1. k \in Channel
  BY DEF DeviceInv, TypeOK
<1>2. ASSUME NEW e \in {1, 2}, Becomes(c, {Notify(SetOpenError(k, e))})
      PROVE  OneChange(c)
  <2> DEFINE k1 == SetOpenError(k, e)
  <2>1. Keeps(k, k1)
    BY <1>1, SetErrorKeeps DEF Errors
  <2>2. Keeps(k1, Notify(k1))
    BY <2>1, NotifyKeeps DEF Keeps
  <2>3. Keeps(k, Notify(k1))
    BY <2>1, <2>2, KeepsTrans
  <2>4. Notify(k1).state = "OPEN_ERROR"
    BY <1>1 DEF Notify, SetOpenError, Channel
  <2>5. Notify(k1).state \notin ActiveStates
    BY <2>4 DEF ActiveStates
  <2>6. Legit(c, Notify(k1))
    BY <2>3, <2>5 DEF Legit
  <2>7. QED
    BY <1>2, <2>6, BecomesLegit
<1>3. ASSUME NEW srv \in Services, NEW sl \in FreeSlots(srv),
             Becomes(c, OpenWork([k EXCEPT !.service = srv, !.slot = sl,
                                           !.mtu = HandlerOf(srv).defMtu]))
      PROVE  OneChange(c)
  <2> DEFINE k0 == [k EXCEPT !.service = srv]
             k1 == [k0 EXCEPT !.slot = sl]
             k2 == [k1 EXCEPT !.mtu = HandlerOf(srv).defMtu]
  <2>1. HandlerOf(srv).defMtu \in Nat
    BY HandlerType DEF HandlerRec
  <2>2. k2 = [k EXCEPT !.service = srv, !.slot = sl, !.mtu = HandlerOf(srv).defMtu]
    OBVIOUS
  <2>3. k0 \in Channel /\ k0.service = srv
    BY <1>1 DEF Channel
  <2> HIDE DEF k0
  <2>4. k1 \in Channel /\ k1.service = srv /\ k1.slot = sl
    BY <2>3, SlotNumbers DEF Channel
  <2> HIDE DEF k1
  <2>5. k2 \in Channel /\ k2.service = srv /\ k2.slot = sl
    BY <2>1, <2>4 DEF Channel
  <2> HIDE DEF k2
  <2>6. ASSUME NEW k3 \in OpenWork(k2) PROVE Legit(c, k3)
    <3>1. Keeps(k2, k3)
      BY <2>5, OpenWorkKeeps
    <3>2. k3.service = srv /\ k3.slot \in FreeSlots(srv) /\ k3 \in Channel
      BY <2>5, <3>1 DEF Keeps
    <3>3. QED
      BY <3>2 DEF Legit, Takes
  <2>7. Becomes(c, OpenWork(k2))
    BY <1>3, <2>2
  <2>8. QED
    BY <2>6, <2>7, BecomesLegit
<1>4. QED
  BY <1>2, <1>3 DEF CmdOpen

LEMMA CmdCloseLegit ==
  ASSUME DeviceInv, NEW c \in Channels, CmdClose(c)
  PROVE  OneChange(c) \/ KeepsAll
<1> DEFINE k == chn[c]
<1>1. k \in Channel
  BY DEF DeviceInv, TypeOK
<1>2. CASE Bound(c) /\ Becomes(c, CloseWork(k))
  <2>1. ASSUME NEW k2 \in CloseWork(k) PROVE Legit(c, k2)
    BY <1>1, <1>2, CloseWorkKeepsOrFrees DEF Legit
  <2>2. QED
    BY <1>2, <2>1, BecomesLegit
<1>3. CASE Becomes(c, {CloseDone(k)})
  <2>1. Legit(c, CloseDone(k))
    BY <1>1, CloseDoneFrees DEF Legit
  <2>2. QED
    BY <1>3, <2>1, BecomesLegit
<1>4. CASE Hang
  BY <1>4, HangStays
<1>5. QED
  BY <1>2, <1>3, <1>4 DEF CmdClose

LEMMA CmdResetLegit ==
  ASSUME DeviceInv, NEW c \in Channels, CmdReset(c)
  PROVE  OneChange(c) \/ KeepsAll
  BY ResetWorkKeeps, BoundKeepsLegit, HangStays DEF CmdReset, DeviceInv, TypeOK

LEMMA CmdSetMtuLegit ==
  ASSUME DeviceInv, NEW c \in Channels, NEW mtu \in Nat, CmdSetMtu(c, mtu)
  PROVE  OneChange(c) \/ KeepsAll
<1> DEFINE k == chn[c]
           h == HandlerOf(k.service)
<1>1. k \in Channel
  BY DEF DeviceInv, TypeOK
<1>2. ASSUME NEW m \in MtuAnswers(h, mtu) PROVE Keeps(k, [k EXCEPT !.mtu = m])
  <2>1. h \in HandlerRec
    BY HandlerType
  <2>2. m \in Nat
    BY <1>2, <2>1, SmallerType DEF MtuAnswers, HandlerRec
  <2>3. QED
    BY <1>1, <2>2 DEF Keeps, Channel
<1>3. CASE Bound(c)
  <2>1. Becomes(c, {[k EXCEPT !.mtu = m] : m \in MtuAnswers(h, mtu)})
    BY <1>3 DEF CmdSetMtu
  <2>2. QED
    BY <1>2, <1>3, <2>1, BoundKeepsLegit
<1>4. CASE ~Bound(c)
  BY <1>4, HangStays DEF CmdSetMtu
<1>5. QED
  BY <1>3, <1>4

LEMMA CmdReqLegit ==
  ASSUME DeviceInv, NEW c \in Channels, NEW d \in Dirs, NEW size \in Nat,
         CmdReq(c, d, size)
  PROVE  OneChange(c) \/ KeepsAll
<1> DEFINE k  == chn[c]
           b  == [org |-> size, size |-> size, blk |-> 0, off |-> 0]
           k0 == [k EXCEPT !.bits[d] = @ \cup {"PRE"}]
           k1 == [k0 EXCEPT !.buf[d] = b]
<1>1. k \in Channel
  BY DEF DeviceInv, TypeOK
<1>2. b \in Buf
  BY DEF Buf
<1>3. k1 = [k EXCEPT !.bits[d] = @ \cup {"PRE"}, !.buf[d] = b]
  BY <1>1 DEF Channel
<1> HIDE DEF b
<1>4. Keeps(k, k0)
  BY <1>1 DEF Keeps, Channel, Bits
<1> HIDE DEF k0
<1>5. Keeps(k0, k1)
  BY <1>2, <1>4 DEF Keeps, Channel
<1>6. CASE Bound(c)
  <2>1. Becomes(c, PreWork(k1, d))
    BY <1>3, <1>6 DEF CmdReq, b
  <2> HIDE DEF k1
  <2>2. Keeps(k, k1)
    BY <1>4, <1>5, KeepsTrans
  <2>3. ASSUME NEW k2 \in PreWork(k1, d) PROVE Keeps(k, k2)
    BY <2>2, PreWorkKeeps, KeepsTrans DEF Keeps
  <2>4. QED
    BY <1>6, <2>1, <2>3, BoundKeepsLegit
<1>7. CASE ~Bound(c)
  BY <1>7, HangStays DEF CmdReq
<1>8. QED
  BY <1>6, <1>7

LEMMA CmdResLegit ==
  ASSUME DeviceInv, NEW c \in Channels, NEW d \in Dirs, CmdRes(c, d)
  PROVE  OneChange(c) \/ KeepsAll
<1>1. chn[c] \in Channel
  BY DEF DeviceInv, TypeOK
<1>2. CASE UNCHANGED deviceVars
  BY <1>2 DEF deviceVars, KeepsAll, DeviceInv, TypeOK
<1>3. CASE Bound(c) /\ Becomes(c, BlkDone(chn[c], d))
  BY <1>1, <1>3, BlkDoneKeeps, BoundKeepsLegit
<1>4. CASE Hang
  BY <1>4, HangStays
<1>5. QED
  BY <1>2, <1>3, <1>4 DEF CmdRes

LEMMA NextBlkType ==
  ASSUME NEW b \in Buf, NEW mtu \in Nat PROVE NextBlk(b, mtu) \in Buf
<1> DEFINE off == b.off + b.blk
           blk == IF off < b.size THEN Smaller(b.size - off, mtu) ELSE 0
<1>1. off \in Nat
  BY DEF Buf
<1>2. blk \in Nat
  <2>1. CASE off < b.size
    <3>1. b.size - off \in Nat
      BY <1>1, <2>1 DEF Buf
    <3>2. QED
      BY <2>1, <3>1, SmallerType
  <2>2. QED
    BY <2>1
<1>3. NextBlk(b, mtu) = [[b EXCEPT !.off = off] EXCEPT !.blk = blk]
  BY DEF NextBlk
<1> HIDE DEF off, blk
<1>4. QED
  BY <1>1, <1>2, <1>3 DEF Buf

LEMMA CmdBlkLegit ==
  ASSUME DeviceInv, NEW c \in Channels, NEW d \in Dirs, CmdBlk(c, d)
  PROVE  OneChange(c) \/ KeepsAll
<1> DEFINE k  == chn[c]
           b  == NextBlk(k.buf[d], k.mtu)
           k1 == [k EXCEPT !.buf[d] = b]
<1>1. k \in Channel
  BY DEF DeviceInv, TypeOK
<1>2. b \in Buf
  BY <1>1, NextBlkType DEF Channel
<1>3. k1 = [k EXCEPT !.buf[d] = NextBlk(@, k.mtu)]
  BY <1>1 DEF Channel
<1>4. Keeps(k, k1)
  <2> HIDE DEF b
  <2> QED BY <1>1, <1>2 DEF Keeps, Channel
<1>5. CASE Bound(c)
  <2>1. Becomes(c, BlkDone(k1, d))
    BY <1>3, <1>5 DEF CmdBlk
  <2> HIDE DEF k1
  <2>2. ASSUME NEW k2 \in BlkDone(k1, d) PROVE Keeps(k, k2)
    BY <1>4, BlkDoneKeeps, KeepsTrans DEF Keeps
  <2>3. QED
    BY <1>5, <2>1, <2>2, BoundKeepsLegit
<1>6. CASE ~Bound(c)
  BY <1>6, HangStays DEF CmdBlk
<1>7. QED
  BY <1>5, <1>6

(* The work of a pass: an active state has a service.                      *)
LEMMA WorkLegit ==
  ASSUME DeviceInv, NEW c \in Channels, Work(c)
  PROVE  OneChange(c) \/ KeepsAll
<1> DEFINE k == chn[c]
<1>1. k \in Channel
  BY DEF DeviceInv, TypeOK
<1>2. k.state \in ActiveStates => Bound(c)
  BY DEF DeviceInv, ActiveIsBound
<1>3. CASE OpeningWork(c)
  BY <1>1, <1>2, <1>3, OpenWorkKeeps, BoundKeepsLegit DEF OpeningWork, ActiveStates
<1>4. CASE ClosingWork(c)
  <2>1. Bound(c) /\ Becomes(c, CloseWork(k))
    BY <1>2, <1>4 DEF ClosingWork, ActiveStates
  <2>2. ASSUME NEW k2 \in CloseWork(k) PROVE Legit(c, k2)
    BY <1>1, <2>1, CloseWorkKeepsOrFrees DEF Legit
  <2>3. QED
    BY <2>1, <2>2, BecomesLegit
<1>5. CASE ResettingWork(c)
  BY <1>1, <1>2, <1>5, ResetWorkKeeps, BoundKeepsLegit DEF ResettingWork, ActiveStates
<1>6. CASE ActiveWork(c)
  <2> DEFINE S0 == {k}
             S1 == Stage(S0, "read", "PRE")
             S2 == Stage(S1, "read", "POST")
             S3 == Stage(S2, "write", "PRE")
             S4 == Stage(S3, "write", "POST")
  <2>1. Bound(c) /\ Becomes(c, S4)
    BY <1>2, <1>6 DEF ActiveWork, ActiveStates
  <2>2. \A k1 \in S0 : Keeps(k, k1)
    BY <1>1 DEF Keeps
  <2> "read" \in Dirs /\ "write" \in Dirs
    BY DEF Dirs
  <2> HIDE DEF S0
  <2>3. \A k1 \in S1 : Keeps(k, k1)
    BY <1>1, <2>2, StageKeeps
  <2> HIDE DEF S1
  <2>4. \A k1 \in S2 : Keeps(k, k1)
    BY <1>1, <2>3, StageKeeps
  <2> HIDE DEF S2
  <2>5. \A k1 \in S3 : Keeps(k, k1)
    BY <1>1, <2>4, StageKeeps
  <2> HIDE DEF S3
  <2>6. \A k1 \in S4 : Keeps(k, k1)
    BY <1>1, <2>5, StageKeeps
  <2> HIDE DEF S4
  <2>7. QED
    BY <2>1, <2>6, BoundKeepsLegit
<1>7. CASE ChannelTask(c)
  <2> DEFINE off == [k EXCEPT !.task = FALSE]
  <2>1. Keeps(k, off) /\ off \in Channel
    BY <1>1 DEF Keeps, Channel
  <2>2. Keeps(off, EndStream(off, 0)) /\ Keeps(off, EndStream(off, 3))
    BY <2>1, EndStreamKeeps DEF Errors
  <2>3. Keeps(k, EndStream(off, 0)) /\ Keeps(k, EndStream(off, 3)) /\ Keeps(k, k)
    BY <1>1, <2>1, <2>2, KeepsTrans DEF Keeps
  <2>4. CASE Bound(c)
    <3>1. Becomes(c, {k, off, EndStream(off, 0), EndStream(off, 3)})
      BY <1>7, <2>4 DEF ChannelTask
    <3> HIDE DEF off
    <3>2. QED
      BY <2>1, <2>3, <2>4, <3>1, BoundKeepsLegit
  <2>5. CASE ~Bound(c)
    BY <1>7, <2>5, HangStays DEF ChannelTask
  <2>6. QED
    BY <2>4, <2>5
<1>8. QED
  BY <1>3, <1>4, <1>5, <1>6, <1>7 DEF Work

----------------------------------------------------------------------------
(* A legitimate change keeps the invariant. *)

LEMMA OneChangePreserves ==
  ASSUME DeviceInv, NEW c \in Channels, OneChange(c) PROVE DeviceInv'
<1>1. PICK k2 : Legit(c, k2) /\ chn' = [chn EXCEPT ![c] = k2] /\ halted' = halted
  BY DEF OneChange
<1>2. chn \in [Channels -> Channel] /\ halted \in BOOLEAN
  BY DEF DeviceInv, TypeOK
<1>3. k2 \in Channel
  BY <1>1 DEF Legit, Keeps, Frees, Takes
<1>4. chn'[c] = k2 /\ \A o \in Channels : o # c => chn'[o] = chn[o]
  BY <1>1, <1>2
<1>5. TypeOK'
  BY <1>1, <1>2, <1>3 DEF TypeOK
<1>6. ASSUME NEW o \in Channels, o # c, k2.service # NoService,
             k2.service = chn[o].service
      PROVE  k2.slot # chn[o].slot
  <2>1. CASE Keeps(chn[c], k2)
    BY <1>6, <2>1 DEF Keeps, DeviceInv, SlotsExclusive, Bound
  <2>2. CASE Frees(k2)
    BY <1>6, <2>2 DEF Frees
  <2>3. CASE Takes(k2)
    BY <1>6, <2>3 DEF Takes, FreeSlots
  <2>4. QED
    BY <1>1, <2>1, <2>2, <2>3 DEF Legit
<1>7. SlotsExclusive'
  <2> SUFFICES ASSUME NEW c1 \in Channels, NEW c2 \in Channels, c1 # c2,
                      chn'[c1].service # NoService,
                      chn'[c1].service = chn'[c2].service
               PROVE  chn'[c1].slot # chn'[c2].slot
    BY DEF SlotsExclusive, Bound
  <2>1. CASE c1 = c
    BY <1>4, <1>6, <2>1
  <2>2. CASE c2 = c
    BY <1>4, <1>6, <2>2
  <2>3. CASE c1 # c /\ c2 # c
    BY <1>4, <2>3 DEF DeviceInv, SlotsExclusive, Bound
  <2>4. QED
    BY <2>1, <2>2, <2>3
<1>8. SlotInRange'
  <2> SUFFICES ASSUME NEW o \in Channels, chn'[o].service # NoService
               PROVE  chn'[o].slot < HandlerOf(chn'[o].service).slots
    BY DEF SlotInRange, Bound, HandlerOf, SrvId
  <2>1. CASE o # c
    BY <1>4, <2>1 DEF DeviceInv, SlotInRange, Bound
  <2>2. CASE o = c /\ Keeps(chn[c], k2)
    BY <1>4, <2>2 DEF Keeps, DeviceInv, SlotInRange, Bound
  <2>3. CASE o = c /\ Takes(k2)
    <3>1. k2.slot \in 0 .. (HandlerOf(k2.service).slots - 1)
      BY <2>3 DEF Takes, FreeSlots
    <3>2. HandlerOf(k2.service).slots \in Int
      BY HandlerType DEF HandlerRec
    <3>3. QED
      BY <1>4, <2>3, <3>1, <3>2
  <2>4. QED
    BY <1>1, <1>4, <2>1, <2>2, <2>3 DEF Legit, Frees
<1>9. ActiveIsBound'
  <2> SUFFICES ASSUME NEW o \in Channels, chn'[o].state \in ActiveStates
               PROVE  chn'[o].service # NoService
    BY DEF ActiveIsBound, Bound
  <2>1. CASE o # c
    BY <1>4, <2>1 DEF DeviceInv, ActiveIsBound, Bound
  <2>2. CASE o = c /\ Keeps(chn[c], k2)
    BY <1>1, <1>4, <2>2 DEF Legit, Keeps, Bound, Frees, Takes, Services, NoService
  <2>3. CASE o = c /\ Takes(k2)
    <3>1. k2.service \in Services
      BY <2>3 DEF Takes
    <3>2. QED
      BY <1>4, <2>3, <3>1, DeviceAssumption DEF Services, NoService
  <2>4. QED
    BY <1>1, <1>4, <2>1, <2>2, <2>3 DEF Legit, Frees
<1>10. QED
  BY <1>5, <1>7, <1>8, <1>9 DEF DeviceInv

LEMMA StaysPreserves == ASSUME DeviceInv, KeepsAll PROVE DeviceInv'
  BY DEF KeepsAll, DeviceInv, TypeOK, SlotsExclusive, SlotInRange, ActiveIsBound,
         Bound, HandlerOf, SrvId

(* A step of one channel leaves the others alone.                          *)
LEMMA BecomesOne ==
  ASSUME DeviceInv, NEW c \in Channels, NEW S, Becomes(c, S)
  PROVE  chn'[c] \in S /\ \A o \in Channels : o # c => chn'[o] = chn[o]
  BY DEF Becomes, DeviceInv, TypeOK

LEMMA DeviceStep ==
  ASSUME DeviceInv, NEW c \in Channels, OneChange(c) \/ KeepsAll
  PROVE  DeviceInv' /\ \A o \in Channels : o # c => chn'[o] = chn[o]
<1>1. DeviceInv'
  BY OneChangePreserves, StaysPreserves
<1>2. \A o \in Channels : o # c => chn'[o] = chn[o]
  BY DEF OneChange, KeepsAll, DeviceInv, TypeOK
<1>3. QED
  BY <1>1, <1>2

(* Reading the event mask changes nothing but the events.                  *)
LEMMA EventMaskPreserves == ASSUME DeviceInv, CmdEventMask PROVE DeviceInv'
<1>1. chn \in [Channels -> Channel] /\ halted \in BOOLEAN
  BY DEF DeviceInv, TypeOK
<1>2. chn' = [c \in Channels |-> [chn[c] EXCEPT !.event = FALSE]] /\ halted' = halted
  BY DEF CmdEventMask
<1>3. \A c \in Channels : /\ chn'[c] \in Channel
                          /\ chn'[c].service = chn[c].service
                          /\ chn'[c].slot = chn[c].slot
                          /\ chn'[c].state = chn[c].state
  <2> SUFFICES ASSUME NEW c \in Channels
               PROVE  /\ chn'[c] \in Channel
                      /\ chn'[c].service = chn[c].service
                      /\ chn'[c].slot = chn[c].slot
                      /\ chn'[c].state = chn[c].state
    OBVIOUS
  <2>1. chn[c] \in Channel /\ chn'[c] = [chn[c] EXCEPT !.event = FALSE]
    BY <1>1, <1>2
  <2>2. QED
    BY <2>1 DEF Channel
<1>4. TypeOK'
  BY <1>1, <1>2, <1>3 DEF TypeOK
<1>5. SlotsExclusive'
  BY <1>3 DEF DeviceInv, SlotsExclusive, Bound
<1>6. SlotInRange'
  BY <1>3 DEF DeviceInv, SlotInRange, Bound, HandlerOf, SrvId
<1>7. ActiveIsBound'
  BY <1>3 DEF DeviceInv, ActiveIsBound, Bound
<1>8. QED
  BY <1>4, <1>5, <1>6, <1>7 DEF DeviceInv

----------------------------------------------------------------------------
(* The invariant and its parts. *)

LEMMA InitInv == DeviceInit => DeviceInv
<1> SUFFICES ASSUME DeviceInit PROVE DeviceInv
  OBVIOUS
<1> DEFINE bits == [d \in Dirs |-> {}]
           buf  == [d \in Dirs |-> NoBuf]
           k0   == [state |-> "INACTIVE", bits |-> bits, buf |-> buf,
                    error |-> 0, service |-> NoService, slot |-> EmptySlot,
                    mtu |-> 0, task |-> FALSE, event |-> FALSE,
                    session |-> "none"]
<1>1. bits \in [Dirs -> SUBSET Bits] /\ buf \in [Dirs -> Buf]
  BY DEF NoBuf, Buf
<1>2. chn = [c \in Channels |-> k0] /\ halted = FALSE
  BY DEF DeviceInit, FreshChannels
<1>3. k0 \in Channel /\ k0.service = NoService /\ k0.state = "INACTIVE"
  <2> HIDE DEF bits, buf
  <2> QED BY <1>1 DEF Channel, States, PassiveStates, Errors, EmptySlot
<1> HIDE DEF k0
<1>4. QED
  BY <1>2, <1>3 DEF DeviceInv, TypeOK, SlotsExclusive, SlotInRange,
                    ActiveIsBound, Bound, ActiveStates

LEMMA NextPreserves == DeviceInv /\ [DeviceNext]_deviceVars => DeviceInv'
<1> SUFFICES ASSUME DeviceInv, [DeviceNext]_deviceVars PROVE DeviceInv'
  OBVIOUS
<1>1. ASSUME NEW c \in Channels, OneChange(c) \/ KeepsAll PROVE DeviceInv'
  BY <1>1, OneChangePreserves, StaysPreserves
<1>2. ASSUME NEW c \in Channels, NEW port \in Ports, CmdOpen(c, port)
      PROVE  DeviceInv'
  BY <1>1, <1>2, CmdOpenLegit
<1>3. ASSUME NEW c \in Channels, CmdClose(c) PROVE DeviceInv'
  BY <1>1, <1>3, CmdCloseLegit
<1>4. ASSUME NEW c \in Channels, CmdReset(c) PROVE DeviceInv'
  BY <1>1, <1>4, CmdResetLegit
<1>5. ASSUME NEW c \in Channels, NEW mtu \in Mtus, CmdSetMtu(c, mtu)
      PROVE  DeviceInv'
  BY <1>1, <1>5, CmdSetMtuLegit, DeviceAssumption
<1>6. CASE CmdEventMask
  BY <1>6, EventMaskPreserves
<1>7. ASSUME NEW c \in Channels, NEW d \in Dirs, NEW size \in Sizes[d],
             CmdReq(c, d, size)
      PROVE  DeviceInv'
  BY <1>1, <1>7, DeviceAssumption, CmdReqLegit
<1>8. ASSUME NEW c \in Channels, NEW d \in Dirs, CmdRes(c, d) PROVE DeviceInv'
  BY <1>1, <1>8, CmdResLegit
<1>9. ASSUME NEW c \in Channels, NEW d \in Dirs, CmdBlk(c, d) PROVE DeviceInv'
  BY <1>1, <1>9, CmdBlkLegit
<1>10. ASSUME NEW c \in Channels, Work(c) PROVE DeviceInv'
  BY <1>1, <1>10, WorkLegit
<1>11. CASE UNCHANGED deviceVars
  BY <1>11, StaysPreserves DEF deviceVars, KeepsAll, DeviceInv, TypeOK
<1>12. ASSUME NEW c \in Channels, CmdPosition(c) PROVE DeviceInv'
  <2>1. UNCHANGED deviceVars \/ Hang
    BY <1>12 DEF CmdPosition
  <2>2. CASE Hang
    BY <2>2, HangStays, StaysPreserves
  <2>3. QED
    BY <1>11, <2>1, <2>2
<1>13. QED
  BY <1>2, <1>3, <1>4, <1>5, <1>6, <1>7, <1>8, <1>9, <1>10, <1>11, <1>12
     DEF DeviceNext, Command, UsedDirs

(* Whatever commands arrive in whatever order, and whatever the handlers   *)
(* answer, the channel table stays consistent.                             *)
THEOREM DeviceInvariant == DeviceSpec => []DeviceInv
  BY InitInv, NextPreserves, PTL DEF DeviceSpec

(* pamela_channels[] always holds values of the types it declares.         *)
THEOREM DeviceTypeCorrect == DeviceSpec => []TypeOK
<1>1. DeviceInv => TypeOK
  BY DEF DeviceInv
<1>2. QED
  BY <1>1, DeviceInvariant, PTL

(* pamela_find_slot never hands a slot of a service to two channels, with  *)
(* any number of channels, services and slots.                             *)
THEOREM SlotsNeverShared == DeviceSpec => []SlotsExclusive
<1>1. DeviceInv => SlotsExclusive
  BY DEF DeviceInv
<1>2. QED
  BY <1>1, DeviceInvariant, PTL

(* A handler is never called with a slot beyond those its table entry has. *)
THEOREM SlotsWithinTable == DeviceSpec => []SlotInRange
<1>1. DeviceInv => SlotInRange
  BY DEF DeviceInv
<1>2. QED
  BY <1>1, DeviceInvariant, PTL

(* pamela_channel_work never calls a handler through a NULL service.       *)
THEOREM WorkHasService == DeviceSpec => []ActiveIsBound
<1>1. DeviceInv => ActiveIsBound
  BY DEF DeviceInv
<1>2. QED
  BY <1>1, DeviceInvariant, PTL
=============================================================================
