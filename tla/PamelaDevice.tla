---------------------------- MODULE PamelaDevice ----------------------------
(***************************************************************************)
(* The channel layer of the parbox firmware: mcu/src/pamela/pamela.c and   *)
(* pamela_io.c, driven by the command dispatch of mcu/src/proto/proto_io.c *)
(*                                                                         *)
(* The firmware is one loop: pamela_work() handles at most one command of  *)
(* the Amiga and then lets every channel do a piece of work.  Each command *)
(* and each piece of work is one action.  A handler (the application code  *)
(* behind a port) is nondeterministic: it may return any result its table  *)
(* entry allows.                                                           *)
(*                                                                         *)
(* Next lets the Amiga send any command at any time.  PamelaLink restricts *)
(* it to the commands that the Amiga's library sends.                      *)
(***************************************************************************)
EXTENDS Integers

CONSTANTS
  NumChannels,   \* PAMELA_NUM_CHANNELS
  NumServices,   \* the size of the handler table
  HandlerTable,  \* service number -> handler, see HandlerRec
  Ports,         \* the ports the Amiga asks for
  Sizes,         \* direction -> the sizes in bytes of its requests
  Mtus,          \* the MTUs it asks for
  NullOutcomes   \* what a build does with channel->service == NULL

Channels == 0 .. (NumChannels - 1)
Services == 0 .. (NumServices - 1)
Dirs     == {"read", "write"}
Results  == {"ok", "poll", "err"}

NoService == -1           \* channel->service == NULL
EmptySlot == 255          \* PAMELA_EMPTY_SLOT
Errors    == 0 .. 3       \* PAMELA_WIRE_OK, _NO_SERVICE, _NO_SLOT, a handler's

(* An entry of the handler table: its ports, slots and MTUs, the results   *)
(* its functions may return (a function it leaves out acts like one that   *)
(* returns "ok"), the sizes it may reduce a request to, the MTUs its       *)
(* set_mtu may answer with ({}: no function) and whether it uses a channel *)
(* task.                                                                   *)
HandlerRec ==
  [ports: SUBSET Ports, slots: 0 .. EmptySlot, defMtu: Nat, maxMtu: Nat,
   open: SUBSET Results, close: SUBSET Results, reset: SUBSET Results,
   pre: [Dirs -> SUBSET Results], post: [Dirs -> SUBSET Results],
   cuts: [Dirs -> SUBSET Nat], mtus: SUBSET Nat, task: BOOLEAN]

ASSUME DeviceAssumption ==
  /\ NumChannels \in 1 .. 16
  /\ NumServices \in 1 .. EmptySlot
  /\ HandlerTable \in [Services -> HandlerRec]
  /\ Sizes \in [Dirs -> SUBSET Nat]
  /\ Mtus \subseteq Nat
  /\ NullOutcomes \subseteq {"harmless", "hang"} /\ NullOutcomes # {}

(* The state nibble of the status word.  Bit 3 marks the active states,    *)
(* bit 0 is the one PAMELA_STATUS_OPEN_ERROR consists of.                  *)
PassiveStates == {"INACTIVE", "OPEN_ERROR", "EOS", "ERROR"}
ActiveStates  == {"ACTIVE", "OPENING", "CLOSING", "RESETTING"}
States        == PassiveStates \cup ActiveStates
OpenErrorBit  == {"OPEN_ERROR", "ERROR", "OPENING", "RESETTING"}

(* The four bits the status word has for each direction.                   *)
Bits == {"PRE", "READY", "SIZE", "POST"}

Buf == [org: Nat, size: Nat, blk: Nat, off: Nat]

(* A channel.  "event" is its bit in event_mask.  "session" is a history   *)
(* variable: what the handler believes of the slot, from the calls of      *)
(* open() and close() it answered.                                         *)
Channel ==
  [state: States, bits: [Dirs -> SUBSET Bits], buf: [Dirs -> Buf],
   error: Errors, service: Services \cup {NoService}, slot: 0 .. EmptySlot,
   mtu: Nat, task: BOOLEAN, event: BOOLEAN,
   session: {"none", "opening", "open", "closing"}]

VARIABLES
  chn,        \* pamela_channels[]
  halted      \* the firmware hangs

deviceVars == <<chn, halted>>

NoBuf == [org |-> 0, size |-> 0, blk |-> 0, off |-> 0]

(* pamela_init, after every reset of the firmware.                         *)
FreshChannels ==
  [c \in Channels |->
     [state |-> "INACTIVE", bits |-> [d \in Dirs |-> {}],
      buf |-> [d \in Dirs |-> NoBuf], error |-> 0,
      service |-> NoService, slot |-> EmptySlot, mtu |-> 0,
      task |-> FALSE, event |-> FALSE, session |-> "none"]]

DeviceInit == chn = FreshChannels /\ halted = FALSE

----------------------------------------------------------------------------
(* Services and slots *)

(* The handler a service dispatches to.  The table is indexed with         *)
(* srv->srv_id, which nothing ever assigns: it keeps its initial zero.     *)
SrvId(srv) == 0
HandlerOf(srv) == HandlerTable[SrvId(srv)]

(* pamela_find_service: the first handler whose port range has the port.   *)
IsServiceOf(srv, port) ==
  /\ port \in HandlerTable[srv].ports
  /\ \A s \in Services : s < srv => port \notin HandlerTable[s].ports

HasService(port) == \E srv \in Services : port \in HandlerTable[srv].ports

(* Mutant: a slot counts as taken only once its channel is active.         *)
FreeSlotsOfActive(srv) ==
  {sl \in 0 .. (HandlerOf(srv).slots - 1) :
     \A c \in Channels : ~(chn[c].service = srv /\ chn[c].slot = sl
                             /\ chn[c].state = "ACTIVE")}

(* pamela_find_slot: the lowest slot that no channel of the service has.   *)
FreeSlots(srv) ==
  {sl \in 0 .. (HandlerOf(srv).slots - 1) :
     \A c \in Channels : ~(chn[c].service = srv /\ chn[c].slot = sl)}

IsFreeSlot(srv, sl) ==
  /\ sl \in FreeSlots(srv)
  /\ \A other \in FreeSlots(srv) : sl <= other

----------------------------------------------------------------------------
(* Updates of a channel k *)

Notify(k)          == [k EXCEPT !.event = TRUE]
SetState(k, s)     == [k EXCEPT !.state = s]
SetError(k, e)     == [k EXCEPT !.state = "ERROR", !.error = e]
SetOpenError(k, e) == [k EXCEPT !.state = "OPEN_ERROR", !.error = e]

Smaller(a, b) == IF a <= b THEN a ELSE b

(* Mutants of Reply: a wrong clamp, no event.                              *)
ReplyBadClamp(k, d, n) ==
  Notify([k EXCEPT !.bits[d] = (@ \cup {"READY"}) \ {"PRE"},
                   !.buf[d] = [org |-> @.org, size |-> n, off |-> 0, blk |-> n - k.mtu]])

ReplySilently(k, d, n) ==
  [k EXCEPT !.bits[d] = (@ \cup {"READY"}) \ {"PRE"},
            !.buf[d] = [org |-> @.org, size |-> n, off |-> 0,
                        blk |-> Smaller(n, k.mtu)]]

(* pamela_read_reply, pamela_write_reply: the handler accepted the request *)
(* with n bytes, the first block is set up.                                *)
Reply(k, d, n) ==
  LET size == IF k.buf[d].org # n THEN {"SIZE"} ELSE {}
  IN  Notify([k EXCEPT
        !.bits[d] = (@ \cup size \cup {"READY"}) \ {"PRE"},
        !.buf[d]  = [org |-> @.org, size |-> n, off |-> 0,
                     blk |-> Smaller(n, k.mtu)]])

(* pamela_read_done, pamela_write_done *)
Done(k, d) == Notify([k EXCEPT !.bits[d] = {}, !.buf[d].size = 0])

(* pamela_read_pre_work, pamela_write_pre_work: the channel after the      *)
(* handler's function returned r.  The handler keeps the size it was asked *)
(* for or reduces it to n.                                                 *)
Pre(k, d, r, n) ==
  CASE r = "ok"   -> Reply(k, d, n)
    [] r = "poll" -> k
    [] r = "err"  -> Done(SetError(k, 3), d)

PreWork(k, d) ==
  LET h    == HandlerOf(k.service)
      size == k.buf[d].size
  IN  {Pre(k, d, r, n) : r \in h.pre[d],
                         n \in {size} \cup {m \in h.cuts[d] : m < size}}

(* pamela_read_post_work, pamela_write_post_work.  The write_post function *)
(* of a request handler may start its channel task (t).                    *)
Post(k, d, r, t) ==
  CASE r = "ok"   -> Done([k EXCEPT !.task = @ \/ t], d)
    [] r = "poll" -> k
    [] r = "err"  -> Done(SetError(k, 3), d)

TaskStarts(h, d) == IF d = "write" /\ h.task THEN BOOLEAN ELSE {FALSE}

PostWork(k, d) ==
  LET h == HandlerOf(k.service)
  IN  {Post(k, d, r, t) : r \in h.post[d], t \in TaskStarts(h, d)}

(* Mutant: no event for a channel that opens at once.                      *)
OpenSilently(k, r) ==
  CASE r = "ok"   -> [SetState(k, "ACTIVE") EXCEPT !.session = "open"]
    [] r = "poll" -> [SetState(k, "OPENING") EXCEPT !.session = "opening"]
    [] r = "err"  -> Notify([SetOpenError(k, 3) EXCEPT !.session = "none"])

(* pamela_open_work *)
Open(k, r) ==
  CASE r = "ok"   -> Notify([SetState(k, "ACTIVE") EXCEPT !.session = "open"])
    [] r = "poll" -> [SetState(k, "OPENING") EXCEPT !.session = "opening"]
    [] r = "err"  -> Notify([SetOpenError(k, 3) EXCEPT !.session = "none"])

OpenWork(k) == {Open(k, r) : r \in HandlerOf(k.service).open}

(* Mutants: the state is not cleared; no event.                            *)
CloseDoneInState(k) ==
  Notify([k EXCEPT !.bits = [d \in Dirs |-> {}],
                   !.service = NoService, !.slot = EmptySlot])

CloseDoneSilently(k) ==
  [k EXCEPT !.state = "INACTIVE", !.bits = [d \in Dirs |-> {}],
            !.service = NoService, !.slot = EmptySlot]

(* pamela_close_done.  The task flag, the buffers and the error stay.      *)
CloseDone(k) ==
  Notify([k EXCEPT !.state = "INACTIVE", !.bits = [d \in Dirs |-> {}],
                   !.service = NoService, !.slot = EmptySlot])

(* Mutant: a poll completes the close.                                     *)
CloseAtOnce(k, r) == CloseDone([k EXCEPT !.session = IF r = "ok" THEN "none" ELSE @])

(* pamela_close_work with a handler: only an "ok" completes the close.     *)
Close(k, r) ==
  IF r = "ok" THEN CloseDone([k EXCEPT !.session = "none"])
              ELSE [SetState(k, "CLOSING") EXCEPT !.session = "closing"]

CloseWork(k) == {Close(k, r) : r \in HandlerOf(k.service).close}

(* pamela_reset_work: only an "ok" completes the reset.                    *)
Reset(k, r) ==
  IF r = "ok" THEN Notify(SetState(k, "ACTIVE")) ELSE SetState(k, "RESETTING")

ResetWork(k) == {Reset(k, r) : r \in HandlerOf(k.service).reset}

(* Mutants: the next block ignores the MTU; it ignores what is left.       *)
NextBlkUncut(b, mtu) ==
  LET off == b.off + b.blk IN [b EXCEPT !.off = off, !.blk = b.size - off]

NextBlkFull(b, mtu) ==
  LET off == b.off + b.blk
  IN  [b EXCEPT !.off = off, !.blk = IF off < b.size THEN mtu ELSE 0]

(* setup_next_blk *)
NextBlk(b, mtu) ==
  LET off == b.off + b.blk
  IN  [b EXCEPT !.off = off,
                !.blk = IF off < b.size THEN Smaller(b.size - off, mtu) ELSE 0]

(* proto_io_api_read_done, proto_io_api_write_done: after the last block   *)
(* the handler post-processes.                                             *)
BlkDone(k, d) ==
  IF k.buf[d].blk = 0
  THEN PostWork([k EXCEPT !.bits[d] = @ \cup {"POST"}], d)
  ELSE {k}

----------------------------------------------------------------------------
(* Commands of the Amiga *)

(* Channel c becomes one of the channels in S.                             *)
Becomes(c, S) ==
  /\ chn' \in {[chn EXCEPT ![c] = k] : k \in S}
  /\ UNCHANGED halted

Bound(c) == chn[c].service # NoService

(* What follows from reading channel->service->srv_id while service is     *)
(* NULL, where the handler found that way is going to be called.           *)
Hang == halted' = TRUE /\ UNCHANGED chn

(* proto_io_api_open *)
CmdOpen(c, port) ==
  /\ ~halted
  /\ \/ /\ ~HasService(port)
        /\ Becomes(c, {Notify(SetOpenError(chn[c], 1))})
     \/ \E srv \in Services :
          /\ IsServiceOf(srv, port)
          /\ \/ /\ FreeSlots(srv) = {}
                /\ Becomes(c, {Notify(SetOpenError(chn[c], 2))})
             \/ \E sl \in FreeSlots(srv) :
                  /\ IsFreeSlot(srv, sl)
                  /\ Becomes(c, OpenWork(
                       [chn[c] EXCEPT !.service = srv, !.slot = sl,
                                      !.mtu = HandlerOf(srv).defMtu]))

(* proto_io_api_close.  The handler's close() is left out when bit 0 of    *)
(* the state is set.  Without a service, pamela_close_done writes through  *)
(* the NULL pointer: some builds survive that.                             *)
CmdClose(c) ==
  /\ ~halted
  /\ LET skip == chn[c].state \in OpenErrorBit
     IN  \/ Bound(c) /\ ~skip /\ Becomes(c, CloseWork(chn[c]))
         \/ Bound(c) /\ skip /\ Becomes(c, {CloseDone(chn[c])})
         \/ /\ ~Bound(c) /\ skip /\ "harmless" \in NullOutcomes
            /\ Becomes(c, {CloseDone(chn[c])})
         \/ ~Bound(c) /\ (~skip \/ "hang" \in NullOutcomes) /\ Hang

(* proto_io_api_reset *)
CmdReset(c) ==
  /\ ~halted
  /\ IF Bound(c) THEN Becomes(c, ResetWork(chn[c])) ELSE Hang

(* proto_io_api_seek, proto_io_api_tell: the handler keeps the position.   *)
CmdPosition(c) ==
  /\ ~halted
  /\ IF Bound(c) THEN UNCHANGED deviceVars ELSE Hang

(* proto_io_api_set_channel_mtu: the MTU is capped, a zero asks for the    *)
(* default, and the handler has the last word.  The channel is the one the *)
(* Amiga wrote with PROTO_IO_CMD_WWORD_CHANNEL_NO just before.             *)
MtuAnswers(h, mtu) ==
  LET capped == Smaller(mtu, h.maxMtu)
      asked  == IF capped = 0 THEN h.defMtu ELSE capped
  IN  IF h.mtus = {} THEN {asked} ELSE h.mtus

CmdSetMtu(c, mtu) ==
  /\ ~halted
  /\ IF Bound(c)
     THEN Becomes(c, {[chn[c] EXCEPT !.mtu = m] :
                        m \in MtuAnswers(HandlerOf(chn[c].service), mtu)})
     ELSE Hang

(* handle_global_cmd, PROTO_IO_CMD_RWORD_EVENT_MASK: clear on read.        *)
EventMask == {c \in Channels : chn[c].event}

CmdEventMask ==
  /\ ~halted
  /\ chn' = [c \in Channels |-> [chn[c] EXCEPT !.event = FALSE]]
  /\ UNCHANGED halted

(* proto_io_api_read_req, proto_io_api_write_req *)
CmdReq(c, d, size) ==
  /\ ~halted
  /\ IF Bound(c)
     THEN Becomes(c, PreWork(
            [chn[c] EXCEPT !.bits[d] = @ \cup {"PRE"},
                           !.buf[d] = [org |-> size, size |-> size,
                                       blk |-> 0, off |-> 0]], d))
     ELSE Hang

(* proto_io_api_read_res, proto_io_api_write_res: an empty transfer ends   *)
(* here.                                                                   *)
CmdRes(c, d) ==
  /\ ~halted
  /\ \/ chn[c].buf[d].size > 0 /\ UNCHANGED deviceVars
     \/ chn[c].buf[d].size = 0 /\ Bound(c) /\ Becomes(c, BlkDone(chn[c], d))
     \/ chn[c].buf[d].size = 0 /\ ~Bound(c) /\ Hang

(* handle_read_blk, handle_write_blk: a block moves, the next one is set   *)
(* up (proto_io_api_read_blk), and the transfer may be done.               *)
CmdBlk(c, d) ==
  /\ ~halted
  /\ IF Bound(c)
     THEN Becomes(c, BlkDone([chn[c] EXCEPT !.buf[d] = NextBlk(@, chn[c].mtu)], d))
     ELSE Hang

UsedDirs == {d \in Dirs : Sizes[d] # {}}

Command ==
  \/ \E c \in Channels : \/ \E port \in Ports : CmdOpen(c, port)
                         \/ CmdClose(c)
                         \/ CmdReset(c)
                         \/ CmdPosition(c)
                         \/ \E mtu \in Mtus : CmdSetMtu(c, mtu)
  \/ CmdEventMask
  \/ \E c \in Channels, d \in UsedDirs : \/ \E size \in Sizes[d] : CmdReq(c, d, size)
                                         \/ CmdRes(c, d)
                                         \/ CmdBlk(c, d)

----------------------------------------------------------------------------
(* The work of pamela_work() between two commands.  A pass that visits a   *)
(* channel whose handlers all poll changes nothing, so a step for one      *)
(* channel stands for a pass.                                              *)

(* pamela_channel_work *)
OpeningWork(c) ==
  ~halted /\ chn[c].state = "OPENING" /\ Becomes(c, OpenWork(chn[c]))

ClosingWork(c) ==
  ~halted /\ chn[c].state = "CLOSING" /\ Becomes(c, CloseWork(chn[c]))

ResettingWork(c) ==
  ~halted /\ chn[c].state = "RESETTING" /\ Becomes(c, ResetWork(chn[c]))

(* pamela_active_work: the four stages of one pass.  A stage tests its bit *)
(* only, so it also runs after an earlier stage left the ACTIVE state.     *)
(* (Mutant: the post-processing is never polled again.)                    *)
Stage(S, d, bit) ==
  UNION {IF bit \notin k.bits[d] THEN {k}
         ELSE IF bit = "PRE" THEN PreWork(k, d) ELSE PostWork(k, d) : k \in S}

ActiveWorkNoPost(c) ==
  /\ ~halted
  /\ chn[c].state = "ACTIVE"
  /\ Becomes(c, Stage(Stage({chn[c]}, "read", "PRE"), "write", "PRE"))

ActiveWork(c) ==
  /\ ~halted
  /\ chn[c].state = "ACTIVE"
  /\ LET reads == Stage(Stage({chn[c]}, "read", "PRE"), "read", "POST")
     IN  Becomes(c, Stage(Stage(reads, "write", "PRE"), "write", "POST"))

(* The channel task of a request handler: it may go on, stop, or stop and  *)
(* end the stream (pamela_end_stream, pamela_channel_task_control).        *)
EndStream(k, e) ==
  Notify(IF e = 0 THEN SetState(k, "EOS") ELSE SetError(k, e))

ChannelTask(c) ==
  /\ ~halted
  /\ chn[c].task
  /\ LET off == [chn[c] EXCEPT !.task = FALSE]
     IN  IF Bound(c)
         THEN Becomes(c, {chn[c], off, EndStream(off, 0), EndStream(off, 3)})
         ELSE Hang

Work(c) == \/ OpeningWork(c) \/ ClosingWork(c) \/ ResettingWork(c)
           \/ ActiveWork(c) \/ ChannelTask(c)

DeviceNext == Command \/ \E c \in Channels : Work(c)

DeviceSpec == DeviceInit /\ [][DeviceNext]_deviceVars

----------------------------------------------------------------------------
(* Properties *)

(* Every variable has the type the C declarations give it.                 *)
TypeOK ==
  /\ chn \in [Channels -> Channel]
  /\ halted \in BOOLEAN

(* Handlers index their own tables with pamela_get_slot(): two channels of *)
(* a service never have the same slot, whatever is opened, reopened,       *)
(* failed or closed in between.                                            *)
SlotsExclusive ==
  \A c1, c2 \in Channels :
    c1 # c2 /\ Bound(c1) /\ chn[c1].service = chn[c2].service
      => chn[c1].slot # chn[c2].slot

(* The slot of a bound channel is one its handler has memory for.          *)
SlotInRange ==
  \A c \in Channels :
    Bound(c) => chn[c].slot < HandlerOf(chn[c].service).slots

(* An active channel has a service: the work of a pass never goes through  *)
(* a NULL service pointer, whatever the Amiga sends.                       *)
ActiveIsBound ==
  \A c \in Channels : chn[c].state \in ActiveStates => Bound(c)
=============================================================================
