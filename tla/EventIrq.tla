------------------------------ MODULE EventIrq ------------------------------
(***************************************************************************)
(* How an event of the firmware wakes the Amiga: the event mask and the    *)
(* interrupt pulse of mcu/src/proto/proto_io.c, the parallel port's        *)
(* interrupt handler (amiga/src/arch/m68k/mach-cia) and the waiting task   *)
(* (amiga/src/proto/proto_env.c, amiga/src/pamela/pamela.c).               *)
(*                                                                         *)
(* The firmware pulses once and then keeps quiet until the mask is read.   *)
(* The interrupt handler signals once and then keeps quiet until the task  *)
(* confirms.  Both flags are cleared by the task, in several steps that    *)
(* the firmware and the interrupt run between.                             *)
(***************************************************************************)
EXTENDS Naturals

CONSTANT Channels   \* the channels of the firmware

VARIABLES
  mask,      \* event_mask
  pending,   \* event_irq_pending
  flg,       \* the latch of the CIA's FLG input
  sent,      \* pario_handle.sent_signal
  signal,    \* the task's ack_irq signal
  pc         \* where the task is

eventVars == <<mask, pending, flg, sent, signal, pc>>

(* "waiting":    in Wait()                                                 *)
(* "confirming": Wait() returned the signal, sent_signal is not cleared    *)
(* "clearing":   before the SetSignal() of pario_confirm_ack_irq           *)
(* "updating":   before the mask is read by pamela_event_update            *)
(* "busy":       doing anything else                                       *)
Places == {"waiting", "confirming", "clearing", "updating", "busy"}

(* After pario_setup_ack_irq and proto_io_init.                            *)
EventInit ==
  /\ mask = {} /\ pending = FALSE /\ flg = FALSE
  /\ sent = FALSE /\ signal = FALSE
  /\ pc = "busy"

----------------------------------------------------------------------------
(* The firmware *)

(* Mutant: the firmware pulses at every event.                             *)
RaiseAlways(c) ==
  /\ mask' = mask \cup {c}
  /\ flg' = TRUE
  /\ pending' = TRUE
  /\ UNCHANGED <<sent, signal, pc>>

(* proto_io_event_mask_add_chn *)
Raise(c) ==
  /\ mask' = mask \cup {c}
  /\ flg' = (flg \/ ~pending)
  /\ pending' = TRUE
  /\ UNCHANGED <<sent, signal, pc>>

(* Mutant: the pending flag stays set.                                     *)
TakeMaskOnly == mask' = {} /\ UNCHANGED pending

(* PROTO_IO_CMD_RWORD_EVENT_MASK: clear on read.                           *)
TakeMask == mask' = {} /\ pending' = FALSE

----------------------------------------------------------------------------
(* The Amiga *)

(* pario_irq_handler *)
Interrupt ==
  /\ flg
  /\ flg' = FALSE
  /\ sent' = TRUE
  /\ signal' = (signal \/ ~sent)
  /\ UNCHANGED <<mask, pending, pc>>

(* proto_env_wait_event: Wait() returns with the ack signal and clears it. *)
Wake ==
  /\ pc = "waiting" /\ signal
  /\ signal' = FALSE
  /\ pc' = "confirming"
  /\ UNCHANGED <<mask, pending, flg, sent>>

(* Wait() returns without it: a timeout or a signal of somebody else.      *)
WakeOther ==
  /\ pc = "waiting" /\ ~signal
  /\ pc' = "busy"
  /\ UNCHANGED <<mask, pending, flg, sent, signal>>

(* Mutant: sent_signal stays set.                                          *)
ConfirmNothing ==
  /\ pc = "confirming"
  /\ pc' = "clearing"
  /\ UNCHANGED <<mask, pending, flg, sent, signal>>

(* pario_confirm_ack_irq, its two steps                                    *)
ConfirmSent ==
  /\ pc = "confirming"
  /\ sent' = FALSE
  /\ pc' = "clearing"
  /\ UNCHANGED <<mask, pending, flg, signal>>

ConfirmSignal ==
  /\ pc = "clearing"
  /\ signal' = FALSE
  /\ pc' = "updating"
  /\ UNCHANGED <<mask, pending, flg, sent>>

(* pamela_event_update after the signal                                    *)
Update ==
  /\ pc = "updating"
  /\ TakeMask
  /\ pc' = "busy"
  /\ UNCHANGED <<flg, sent, signal>>

(* proto_env_wait_event is called (again).                                 *)
WaitAgain ==
  /\ pc = "busy"
  /\ pc' = "waiting"
  /\ UNCHANGED <<mask, pending, flg, sent, signal>>

EventNext ==
  \/ \E c \in Channels : Raise(c)
  \/ Interrupt
  \/ Wake \/ WakeOther \/ ConfirmSent \/ ConfirmSignal
  \/ Update \/ WaitAgain

EventSpec == EventInit /\ [][EventNext]_eventVars

(* The interrupt is served, and the task's loop comes back to Wait() and   *)
(* does what it does after it.                                             *)
FairEventSpec ==
  /\ EventSpec
  /\ WF_eventVars(Interrupt)
  /\ WF_eventVars(Wake \/ ConfirmSent \/ ConfirmSignal \/ Update \/ WaitAgain)

----------------------------------------------------------------------------
(* Properties *)

(* Every variable has the type the declarations give it.                   *)
EventTypeOK ==
  /\ mask \subseteq Channels
  /\ pending \in BOOLEAN /\ flg \in BOOLEAN
  /\ sent \in BOOLEAN /\ signal \in BOOLEAN
  /\ pc \in Places

(* Something is on its way to the task: the pulse, the signal, or the task *)
(* itself on its way to the mask.                                          *)
OnItsWay == flg \/ signal \/ pc \in {"confirming", "clearing", "updating"}

(* One token is handed from side to side: as soon as the mask holds an     *)
(* event, exactly one of the pulse, the signal and the task's way to the   *)
(* mask stands for it, and sent_signal tells the first from the second.    *)
(* This is the inductive invariant of the protocol.                        *)
AtRest == pc \in {"waiting", "busy"}

Token ==
  \/ flg /\ ~sent /\ ~signal /\ AtRest
  \/ ~flg /\ sent /\ signal /\ AtRest
  \/ ~flg /\ sent /\ ~signal /\ pc = "confirming"
  \/ ~flg /\ ~sent /\ ~signal /\ pc \in {"clearing", "updating"}

EventInv ==
  /\ EventTypeOK
  /\ pending <=> mask # {}
  /\ pending => Token
  /\ ~pending => ~flg /\ ~sent /\ ~signal /\ AtRest

(* No lost wakeup: no event waits in the mask while nothing is on its way. *)
WakeupOnItsWay == mask # {} => OnItsWay

(* The interrupt handler never finds sent_signal set: no pulse is          *)
(* swallowed, so that it need not count them.                              *)
NoPulseSwallowed == flg => ~sent

(* No spurious wakeup: a task that was signalled finds an event.           *)
SignalMeansEvent == signal \/ pc = "updating" => mask # {}

(* All of the above is a doorbell that rings while something is on its     *)
(* way: the flags of the two sides never disagree about it, and a ring is  *)
(* always answered.                                                        *)
Bell == INSTANCE Doorbell WITH events <- mask, rings <- OnItsWay

IsDoorbell == Bell!BellSpec
=============================================================================
