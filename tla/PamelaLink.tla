---------------------------- MODULE PamelaLink -----------------------------
(***************************************************************************)
(* A user of the Amiga's channel library (PamelaLib) and, through it, of   *)
(* the firmware's channels.                                                *)
(*                                                                         *)
(* The library runs in the user's task: it does nothing else while it      *)
(* works through an event mask or moves the blocks of a transfer.          *)
(*                                                                         *)
(* Without Liberties the user is as careful as the test suite              *)
(* (amiga/src/test/pamela-testsuite.c): it waits for the event that        *)
(* answers an open, a close or a reset, and for the one that ends a        *)
(* transfer.  Each liberty lets it skip one of these waits, which the      *)
(* library does not forbid.                                                *)
(***************************************************************************)
EXTENDS PamelaLib

CONSTANT Liberties

(* "reopen":      opens a channel before the last open was answered        *)
(* "rerequest":   requests, closes or resets right after the last block    *)
(* "interrupt":   closes a channel whose reset was not answered            *)
(* "reset_busy":  resets a channel while requests are under way            *)
(* "mtu_busy":    changes the MTU while requests are under way             *)
AllLiberties == {"reopen", "rerequest", "interrupt", "reset_busy", "mtu_busy"}

ASSUME LinkAssumption == Liberties \subseteq AllLiberties

VARIABLES
  use,     \* what the user is doing with a channel
  xfer     \* what it is doing with each of the channel's two directions

linkVars == <<chn, halted, lib, use, xfer, pend>>

Uses  == {"free", "opening", "open", "failed", "resetting", "closing", "shared"}
Xfers == {"idle", "asked", "moving", "settling"}

NoXfer == [d \in Dirs |-> "idle"]

LinkInit ==
  /\ DeviceInit /\ LibInit
  /\ use = [c \in Channels |-> "free"]
  /\ xfer = [c \in Channels |-> NoXfer]

(* The library's task is not inside pamela_event_update or a block loop.   *)
LibIdle ==
  pend = {} /\ \A c \in Channels, d \in Dirs : xfer[c][d] # "moving"

Quiet(c) == xfer[c] = NoXfer

----------------------------------------------------------------------------
(* Calls of the user *)

OpenChannel(c, port) ==
  /\ LibIdle
  /\ "reopen" \in Liberties \/ \A other \in Channels : use[other] # "opening"
  /\ LibOpen(c, port)
  /\ use' = [use EXCEPT ![c] = IF @ = "free" THEN "opening" ELSE "shared"]
  /\ UNCHANGED <<xfer, pend>>

CloseChannel(c) ==
  /\ LibIdle
  /\ \/ use[c] \in {"open", "failed"} /\ \A d \in Dirs : xfer[c][d] # "settling"
     \/ use[c] = "resetting" /\ "interrupt" \in Liberties
  /\ LibClose(c)
  /\ use' = [use EXCEPT ![c] = "closing"]
  /\ xfer' = [xfer EXCEPT ![c] = NoXfer]
  /\ UNCHANGED pend

(* Mutant: the user resets with requests under way.                        *)
ResetChannelBusy(c) ==
  /\ LibIdle
  /\ use[c] = "open"
  /\ LibReset(c)
  /\ use' = [use EXCEPT ![c] = "resetting"]
  /\ xfer' = [xfer EXCEPT ![c] = NoXfer]
  /\ UNCHANGED pend

ResetChannel(c) ==
  /\ LibIdle
  /\ use[c] = "open"
  /\ Quiet(c) \/ "reset_busy" \in Liberties
  /\ LibReset(c)
  /\ use' = [use EXCEPT ![c] = "resetting"]
  /\ xfer' = [xfer EXCEPT ![c] = NoXfer]
  /\ UNCHANGED pend

GetMtu(c) ==
  /\ LibIdle
  /\ use[c] = "open"
  /\ LibGetMtu(c)
  /\ UNCHANGED <<use, xfer, pend>>

SetMtu(c, mtu) ==
  /\ LibIdle
  /\ use[c] = "open"
  /\ Quiet(c) \/ "mtu_busy" \in Liberties
  /\ LibSetMtu(c, mtu)
  /\ UNCHANGED <<use, xfer, pend>>

Request(c, d, size) ==
  /\ LibIdle
  /\ use[c] = "open" /\ xfer[c][d] = "idle"
  /\ LibRequest(c, d, size)
  /\ xfer' = [xfer EXCEPT ![c][d] = "asked"]
  /\ UNCHANGED <<use, pend>>

(* A careful user waits for the end of the post-processing.  (Mutant: it   *)
(* does not.)                                                              *)
AtOnce == "idle"
AfterLast == IF "rerequest" \in Liberties THEN "idle" ELSE "settling"

Setup(c, d) ==
  /\ LibIdle
  /\ use[c] = "open" /\ xfer[c][d] = "asked"
  /\ LibSetup(c, d)
  /\ xfer' = [xfer EXCEPT ![c][d] = IF SetupSize(c, d) = 0 THEN AfterLast ELSE "moving"]
  /\ UNCHANGED <<use, pend>>

Block(c, d) ==
  /\ xfer[c][d] = "moving"
  /\ LibBlock(c, d)
  /\ xfer' = [xfer EXCEPT ![c][d] = IF LeftAfterBlock(c, d) = 0 THEN AfterLast ELSE @]
  /\ UNCHANGED <<use, pend>>

----------------------------------------------------------------------------
(* The user's task is signalled and lets the library fetch the events.     *)
FetchEvents ==
  /\ LibIdle
  /\ EventMask # {}
  /\ LibFetchEvents
  /\ UNCHANGED <<use, xfer>>

(* What the user makes of the new state of its channel.                    *)
Answered(u, state) ==
  CASE u = "opening"   /\ state = "ACTIVE"     -> "open"
    [] u = "opening"   /\ state = "OPEN_ERROR" -> "failed"
    [] u = "resetting" /\ state = "ACTIVE"     -> "open"
    [] u = "closing"   /\ state = "INACTIVE"   -> "free"
    [] OTHER -> u

(* A failed request ends, and a finished transfer is settled.              *)
XferAnswered(x, state, bits) ==
  IF state = "ERROR" \/ (x = "settling" /\ bits = {}) THEN "idle" ELSE x

Update(c) ==
  /\ LibUpdate(c)
  /\ use' = [use EXCEPT ![c] = Answered(@, chn[c].state)]
  /\ xfer' = [xfer EXCEPT ![c] =
       [d \in Dirs |-> XferAnswered(@[d], chn[c].state, chn[c].bits[d])]]

----------------------------------------------------------------------------
DeviceWork(c) == Work(c) /\ UNCHANGED <<lib, use, xfer, pend>>

LinkNext ==
  \/ \E c \in Channels :
       \/ \E port \in Ports : OpenChannel(c, port)
       \/ CloseChannel(c)
       \/ ResetChannel(c)
       \/ GetMtu(c)
       \/ \E mtu \in Mtus : SetMtu(c, mtu)
       \/ \E d \in Dirs : \/ \E size \in Sizes[d] : Request(c, d, size)
                          \/ Setup(c, d)
                          \/ Block(c, d)
       \/ Update(c)
       \/ DeviceWork(c)
  \/ FetchEvents

LinkSpec == LinkInit /\ [][LinkNext]_linkVars

(* Fairness.  The firmware's loop visits every channel, and no handler     *)
(* polls for ever.  The Amiga's task reads the event mask when it is       *)
(* signalled and works through it, even if its user keeps it busy, asks    *)
(* for the MTU of an open channel and moves what is ready.                 *)
Finishes(c, s) == DeviceWork(c) /\ chn[c].state = s /\ chn'[c].state # s

Progress(c, d, bit) ==
  DeviceWork(c) /\ bit \in chn[c].bits[d] /\ bit \notin chn'[c].bits[d]

Fairness ==
  /\ SF_linkVars(FetchEvents)
  /\ \A c \in Channels :
       /\ WF_linkVars(Update(c))
       /\ SF_linkVars(GetMtu(c))
       /\ \A s \in {"OPENING", "CLOSING", "RESETTING"} : WF_linkVars(Finishes(c, s))
       /\ \A d \in Dirs : /\ SF_linkVars(Setup(c, d))
                          /\ WF_linkVars(Block(c, d))
                          /\ \A bit \in {"PRE", "POST"} :
                               WF_linkVars(Progress(c, d, bit))

FairLinkSpec == LinkSpec /\ Fairness

----------------------------------------------------------------------------
(* Properties *)

(* Every variable has the type the C declarations give it.                 *)
LinkTypeOK ==
  /\ TypeOK /\ LibTypeOK
  /\ use \in [Channels -> Uses]
  /\ xfer \in [Channels -> [Dirs -> Xfers]]

(* No change of state is lost between the two sides.  Where the library's  *)
(* copy of the state differs from the device's, either an event is on its  *)
(* way or the device is inside a transition that ends with one.            *)
ViewAnnounced ==
  \A c \in Channels :
    \/ lib[c].view = chn[c].state
    \/ chn[c].event
    \/ c \in pend
    \/ chn[c].state \in {"OPENING", "CLOSING", "RESETTING"}

(* No answer is lost: a user that waits for its request while the device   *)
(* waits for the user's blocks has the event before it.                    *)
ReadyAnnounced ==
  \A c \in Channels, d \in Dirs :
    xfer[c][d] = "asked" /\ "READY" \in chn[c].bits[d]
      => "READY" \in lib[c].bits[d] \/ chn[c].event \/ c \in pend

(* Nothing that a user waits for happens without an event.                 *)
NothingUnannounced == ViewAnnounced /\ ReadyAnnounced

(* A request never lands on a device that still has one of the same        *)
(* direction in any of its stages.                                         *)
RequestsFindDeviceIdle ==
  [][\A c \in Channels, d \in Dirs :
       xfer[c][d] # "asked" /\ xfer'[c][d] = "asked" => chn[c].bits[d] = {}]_linkVars

(* The Amiga rounds an odd block up; the device does so too when the Amiga *)
(* reads, but its handle_write_blk passes the unrounded size on.           *)
DeviceWords(c, d) ==
  LET blk == chn[c].buf[d].blk IN IF d = "read" THEN (blk + 1) \div 2 ELSE blk \div 2

(* During a transfer both sides agree on how many bytes are left and move  *)
(* the same number of words in a block, whatever the handler made of the   *)
(* size and the MTU.                                                       *)
BlocksInStep ==
  \A c \in Channels, d \in Dirs :
    xfer[c][d] = "moving" =>
      /\ lib[c].left[d] = chn[c].buf[d].size - chn[c].buf[d].off
      /\ DeviceWords(c, d) = (BlockSize(c, d) + 1) \div 2

(* The device never reads or writes beyond the buffer its handler set up.  *)
BlockWithinBuffer ==
  \A c \in Channels, d \in Dirs :
    LET b == chn[c].buf[d] IN chn[c].bits[d] # {} => b.off + b.blk <= b.size

(* find_free_channel never hands out a channel that a user has.            *)
ChannelHasOneUser == \A c \in Channels : use[c] # "shared"

(* A handler whose open() succeeded, or is under way, gets its close()     *)
(* before the channel is given up: what it allocates for a channel it can  *)
(* free.                                                                   *)
ClosedMeansReleased ==
  \A c \in Channels : ~Bound(c) => chn[c].session = "none"

(* A reset ends with no request pending (pamela_handler.h: "all pending    *)
(* reads/writes are cancelled").                                           *)
ResetCancels ==
  [][\A c \in Channels :
       use[c] = "resetting" /\ use'[c] = "open"
         => \A d \in Dirs : chn[c].bits[d] = {}]_linkVars

(* Every open is answered, and every close ends with a free channel, the   *)
(* ones of channels with requests under way or in an error state included. *)
OpenResolves == \A c \in Channels : use[c] = "opening" ~> use[c] # "opening"

CloseCompletes == \A c \in Channels : use[c] = "closing" ~> use[c] = "free"

(* Every request is answered and every transfer comes to its end.          *)
RequestAnswered ==
  \A c \in Channels, d \in Dirs : xfer[c][d] = "asked" ~> xfer[c][d] = "idle"
=============================================================================
