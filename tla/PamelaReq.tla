------------------------------ MODULE PamelaReq ------------------------------
(***************************************************************************)
(* Requests and replies: a service made with mcu/src/pamela_req/           *)
(* pamela_req.c, whose slots sit between the channel layer and a handler   *)
(* that consumes a request and prepares the reply in one buffer, and its   *)
(* clients, who write a request and then read the reply                    *)
(* (amiga/src/pamlib/pamlib_req.c).                                        *)
(*                                                                         *)
(* Every step is one of PamelaLink, together with what the functions of    *)
(* pamela_req.c do that it calls.  They never poll: a handler that needs   *)
(* time is called again by the channel task.                               *)
(***************************************************************************)
EXTENDS PamelaLink

CONSTANT Hasty    \* clients may read before a polling handler has answered

VARIABLES
  slot,    \* the request slots of the service
  call,    \* where each channel's client is in pamlib_req_transfer
  tag      \* the request it sends, told from the one before

reqVars == <<linkVars, slot, call, tag>>

Slots == 0 .. HandlerTable[0].slots - 1
Tags  == {0, 1}

(* pamela_req_slot_t: "data" is the request that the reply in the buffer   *)
(* answers.  The size of the reply is chosen when it is read.              *)
SlotStates == {"IDLE", "IN_WRITE", "POLLING", "READ_WAIT", "IN_READ"}

ReqSlot == [state: SlotStates, data: Tags]

(* A request handler: only its begin, its handle and its malloc may fail.  *)
ASSUME ReqAssumption ==
  /\ NumServices = 1 /\ Hasty \in BOOLEAN
  /\ LET h == HandlerTable[0]
     IN  /\ h.open \subseteq {"ok", "err"} /\ h.close = {"ok"} /\ h.reset = {"ok"}
         /\ \A d \in Dirs : h.pre[d] = {"ok", "err"}
         /\ h.post = [read |-> {"ok"}, write |-> {"ok", "err"}]
         /\ h.task

ReqInit ==
  /\ LinkInit
  /\ slot = [s \in Slots |-> [state |-> "IDLE", data |-> 0]]
  /\ call = [c \in Channels |-> "none"]
  /\ tag = [c \in Channels |-> 0]

(* Mutant: all channels use one slot.                                      *)
FirstSlot(c) == 0

(* find_slot *)
FindSlot(c) == chn[c].slot

StateOf(c) == slot[FindSlot(c)].state

Becoming(c, state) == slot' = [slot EXCEPT ![FindSlot(c)].state = state]

(* What the functions returned, as the channel shows it.                   *)
Accepted(c, d) == "READY" \in chn'[c].bits[d]
PostRuns(c, d) == chn[c].bits[d] # {} /\ chn'[c].bits[d] = {}
Failed(c)      == chn'[c].state = "ERROR"

(* The handler's first call consumes the request; the reply replaces it.   *)
Consumes(c, state) == slot' = [slot EXCEPT ![FindSlot(c)] = [state |-> state, data |-> tag[c]]]

----------------------------------------------------------------------------
(* The functions of pamela_req.c *)

(* Mutant: the slot keeps its state.                                       *)
SvcOpenAsLeft(c) == UNCHANGED slot

(* pamela_req_open: the slot is reset first, whether open() fails or not.  *)
SvcOpen(c) ==
  IF chn'[c].service = NoService THEN UNCHANGED slot
  ELSE slot' = [slot EXCEPT ![chn'[c].slot].state = "IDLE"]

(* pamela_req_reset *)
SvcReset(c) == Becoming(c, "IDLE")

(* pamela_req_write_pre *)
SvcWritePre(c) ==
  \/ ~Accepted(c, "write") /\ UNCHANGED slot
  \/ Accepted(c, "write") /\ StateOf(c) = "IDLE" /\ Becoming(c, "IN_WRITE")

(* pamela_req_write_post: the handler's first call.                        *)
SvcWritePost(c) ==
  \/ Failed(c) /\ UNCHANGED slot
  \/ /\ ~Failed(c) /\ StateOf(c) = "IN_WRITE"
     /\ \/ Consumes(c, "READ_WAIT") /\ chn'[c].task = chn[c].task
        \/ Consumes(c, "POLLING") /\ chn'[c].task

(* pamela_req_read_pre *)
SvcReadPre(c) ==
  \/ ~Accepted(c, "read") /\ StateOf(c) # "READ_WAIT" /\ UNCHANGED slot
  \/ Accepted(c, "read") /\ StateOf(c) = "READ_WAIT" /\ Becoming(c, "IN_READ")

(* pamela_req_read_post: it does not look at the state.                    *)
SvcReadPost(c) == Becoming(c, "IDLE")

(* Mutant: the task is not stopped by the reply.                           *)
SvcTaskLeftOn(c) ==
  \/ chn' = chn /\ UNCHANGED slot
  \/ StateOf(c) = "POLLING" /\ chn' = chn /\ Becoming(c, "READ_WAIT")

(* pamela_req_channel_task: the handler goes on polling, replies or fails. *)
SvcTask(c) ==
  LET off == [chn[c] EXCEPT !.task = FALSE]
  IN  \/ chn' = chn /\ UNCHANGED slot
      \/ /\ StateOf(c) = "POLLING" /\ chn' = [chn EXCEPT ![c] = off]
         /\ Becoming(c, "READ_WAIT")
      \/ /\ StateOf(c) = "POLLING" /\ chn' = [chn EXCEPT ![c] = EndStream(off, 3)]
         /\ UNCHANGED slot

----------------------------------------------------------------------------
(* Clients: pamlib_req_transfer, a write and then a read that may return   *)
(* as much as the MTU.                                                     *)

Idle(c) == call[c] = "none"

Stays == UNCHANGED <<call, tag>>

OpenReq(c, port) == OpenChannel(c, port) /\ SvcOpen(c) /\ Stays
CloseReq(c)      == Idle(c) /\ CloseChannel(c) /\ UNCHANGED slot /\ Stays
ResetReq(c)      == Idle(c) /\ ResetChannel(c) /\ SvcReset(c) /\ Stays
GetMtuReq(c)     == Idle(c) /\ GetMtu(c) /\ UNCHANGED slot /\ Stays

WriteReq(c, size) ==
  /\ Idle(c) /\ lib[c].mtu # 0
  /\ Request(c, "write", size) /\ SvcWritePre(c)
  /\ call' = [call EXCEPT ![c] = "write"]
  /\ tag' = [tag EXCEPT ![c] = 1 - @]

ReadReq(c) ==
  /\ call[c] = "written"
  /\ Hasty \/ StateOf(c) # "POLLING"
  /\ Request(c, "read", lib[c].mtu) /\ SvcReadPre(c)
  /\ call' = [call EXCEPT ![c] = "read"]
  /\ UNCHANGED tag

(* A write that fails ends the call, a read in any case.                   *)
CallAfter(c) ==
  IF lib'[c].view = "ERROR" THEN "none"
  ELSE CASE call[c] = "write" /\ xfer'[c]["write"] = "idle" -> "written"
         [] call[c] = "read" /\ xfer'[c]["read"] = "idle" -> "none"
         [] OTHER -> call[c]

Moves(c) == call' = [call EXCEPT ![c] = CallAfter(c)] /\ UNCHANGED tag

Transfer(c, d) ==
  /\ Setup(c, d) \/ Block(c, d)
  /\ IF PostRuns(c, d)
     THEN IF d = "read" THEN SvcReadPost(c) ELSE SvcWritePost(c)
     ELSE UNCHANGED slot
  /\ Moves(c)

Events == FetchEvents /\ UNCHANGED slot /\ Stays

UpdateReq(c) == Update(c) /\ UNCHANGED slot /\ Moves(c)

(* The channel task of a channel that was closed has no slot to look at.   *)
TaskReq(c) ==
  /\ ChannelTask(c) /\ UNCHANGED <<lib, use, xfer, pend>> /\ Stays
  /\ IF Bound(c) THEN SvcTask(c) ELSE UNCHANGED slot

ReqNext ==
  \/ \E c \in Channels :
       \/ \E port \in Ports : OpenReq(c, port)
       \/ CloseReq(c) \/ ResetReq(c) \/ GetMtuReq(c)
       \/ \E size \in Sizes["write"] : WriteReq(c, size)
       \/ ReadReq(c)
       \/ \E d \in Dirs : Transfer(c, d)
       \/ UpdateReq(c) \/ TaskReq(c)
  \/ Events

ReqSpec == ReqInit /\ [][ReqNext]_reqVars

----------------------------------------------------------------------------
(* Properties *)

Calls == {"none", "write", "written", "read"}

(* Every variable has the type the declarations give it.                   *)
ReqTypeOK ==
  /\ LinkTypeOK
  /\ slot \in [Slots -> ReqSlot]
  /\ call \in [Channels -> Calls] /\ tag \in [Channels -> Tags]

(* A client gets the reply to the request it wrote last: never that of     *)
(* another channel, of an earlier request or of one that was given up,     *)
(* though slots are used again.                                            *)
ReplyIsMine ==
  \A c \in Channels :
    call[c] = "read" /\ xfer[c]["read"] = "moving" =>
      StateOf(c) = "IN_READ" /\ slot[FindSlot(c)].data = tag[c]

(* As long as the handler does not fail, the slot expects what its client  *)
(* does next: nothing is refused with WRONG_STATE, neither for what an     *)
(* earlier user of the slot left behind nor for an error before a reset.   *)
SlotInStep ==
  \A c \in Channels :
    use[c] = "open" /\ chn[c].state = "ACTIVE" =>
      StateOf(c) \in
        CASE call[c] = "none" -> {"IDLE"}
          [] call[c] = "write" -> {"IN_WRITE"}
          [] call[c] = "written" -> {"POLLING", "READ_WAIT"}
          [] call[c] = "read" -> {"IN_READ"}

(* The channel task runs only for a request that its handler polls: it     *)
(* does not survive the reply, an error or the channel.                    *)
TaskIsPolling ==
  \A c \in Channels : chn[c].task => Bound(c) /\ StateOf(c) = "POLLING"
=============================================================================
