------------------------------ MODULE PamelaLib ------------------------------
(***************************************************************************)
(* The Amiga's channel library (amiga/src/pamela/pamela_chn.c, pamela.c)   *)
(* on top of the channel layer of the firmware (PamelaDevice).             *)
(*                                                                         *)
(* The library keeps a copy of each channel's status word and refreshes it *)
(* only when the device's event mask names the channel.  A call sends its  *)
(* command and updates the copy in one step: while a command is under way  *)
(* the firmware does nothing else.  Between two commands it goes on        *)
(* working, so that a call of several commands (pamela_event_update, the   *)
(* block loops) is several steps.                                          *)
(*                                                                         *)
(* PamelaLink adds a user who follows the test suite, PamelaEngine the     *)
(* engine of pamela.device.  Transport errors, where a command fails, are  *)
(* not part of this module.                                                *)
(***************************************************************************)
EXTENDS PamelaDevice

ASSUME LibAssumption == \A m \in Mtus : m % 2 = 0     \* PAMELA_ERROR_ODD_MTU

(* pamela_channel_t: the state nibble and the transfer bits of "status",   *)
(* the MTU (0: not asked for yet), and the bytes left of each transfer.    *)
(* "flags" and "error" follow from the state nibble.                       *)
LibChannel ==
  [view: States, bits: [Dirs -> SUBSET Bits], mtu: Nat, left: [Dirs -> Nat]]

VARIABLES
  lib,     \* pamela_handle_t.channels[]
  pend     \* the channels of the event mask whose status is not updated yet

libVars == <<lib, pend>>

(* pamela_channels_init *)
FreshLib ==
  [c \in Channels |-> [view |-> "INACTIVE", bits |-> [d \in Dirs |-> {}],
                       mtu |-> 0, left |-> [d \in Dirs |-> 0]]]

LibInit == lib = FreshLib /\ pend = {}

LibTypeOK == lib \in [Channels -> LibChannel] /\ pend \subseteq Channels

----------------------------------------------------------------------------
(* Mutant: any channel that is not active will do.                         *)
IsFreeChannelBusy(c) ==
  /\ lib[c].view # "ACTIVE"
  /\ \A other \in Channels : other < c => lib[other].view = "ACTIVE"

(* find_free_channel.  The flags of the channel change with the next       *)
(* update, not when it is opened.                                          *)
IsFreeChannel(c) ==
  /\ lib[c].view = "INACTIVE"
  /\ \A other \in Channels : other < c => lib[other].view # "INACTIVE"

(* pamela_open *)
LibOpen(c, port) ==
  /\ IsFreeChannel(c)
  /\ CmdOpen(c, port)
  /\ lib' = [lib EXCEPT ![c].mtu = 0]

(* pamela_close *)
LibClose(c) == CmdClose(c) /\ lib' = [lib EXCEPT ![c].mtu = 0]

(* check_channel_status: the commands below are for active channels.       *)
IsActive(c) == lib[c].view = "ACTIVE"

(* pamela_reset *)
LibReset(c) == IsActive(c) /\ CmdReset(c) /\ UNCHANGED lib

(* pamela_get_mtu *)
LibGetMtu(c) ==
  /\ ~halted
  /\ IsActive(c)
  /\ lib' = [lib EXCEPT ![c].mtu = chn[c].mtu]
  /\ UNCHANGED deviceVars

(* pamela_set_mtu: the device's answer is read back.                       *)
LibSetMtu(c, mtu) ==
  /\ IsActive(c)
  /\ CmdSetMtu(c, mtu)
  /\ lib' = [lib EXCEPT ![c].mtu = chn'[c].mtu]

(* pamela_read_request, pamela_write_request: refused while the library    *)
(* sees a bit of this direction.                                           *)
MayRequest(c, d) == IsActive(c) /\ lib[c].bits[d] = {}

LibRequest(c, d, size) ==
  /\ MayRequest(c, d)
  /\ CmdReq(c, d, size)
  /\ lib' = [lib EXCEPT ![c].bits[d] = @ \cup {"PRE"}, ![c].left[d] = size]

(* pamela_read_setup, pamela_write_setup: the size is read from the device *)
(* only if it differs from the size asked for.                             *)
MaySetup(c, d) == lib[c].mtu # 0 /\ IsActive(c) /\ "READY" \in lib[c].bits[d]

Resized(c, d) == "SIZE" \in lib[c].bits[d]

SetupSize(c, d) ==
  IF Resized(c, d) THEN chn[c].buf[d].size ELSE lib[c].left[d]

LibSetup(c, d) ==
  /\ MaySetup(c, d)
  /\ IF Resized(c, d) THEN CmdRes(c, d) ELSE UNCHANGED deviceVars
  /\ lib' = [lib EXCEPT ![c].left[d] = SetupSize(c, d),
                        ![c].bits[d] = IF SetupSize(c, d) = 0 THEN {} ELSE @]

(* pamela_read_block, pamela_write_block                                   *)
BlockSize(c, d) == Smaller(lib[c].left[d], lib[c].mtu)

LeftAfterBlock(c, d) == lib[c].left[d] - BlockSize(c, d)

LibBlock(c, d) ==
  /\ CmdBlk(c, d)
  /\ lib' = [lib EXCEPT ![c].left[d] = LeftAfterBlock(c, d),
                        ![c].bits[d] = IF LeftAfterBlock(c, d) = 0 THEN {} ELSE @]

----------------------------------------------------------------------------
(* pamela_event_update: the mask is read, and then the status of each      *)
(* channel it names, in the order of their numbers.                        *)

LibFetchEvents ==
  /\ CmdEventMask
  /\ pend' = EventMask
  /\ UNCHANGED lib

(* pamela_update *)
LibUpdate(c) ==
  /\ ~halted
  /\ c \in pend /\ \A other \in pend : c <= other
  /\ pend' = pend \ {c}
  /\ lib' = [lib EXCEPT ![c].view = chn[c].state, ![c].bits = chn[c].bits]
  /\ UNCHANGED deviceVars
=============================================================================
