-------------------------- MODULE EventIrq_proofs ---------------------------
(***************************************************************************)
(* For any set of channels: no wakeup is lost between the firmware's event *)
(* mask and the waiting task, none is swallowed and none is spurious.      *)
(***************************************************************************)
EXTENDS EventIrq, TLAPS

(* Every step hands the token on, or leaves it where it is.                *)
THEOREM EventInvariant == EventSpec => []EventInv
<1>1. EventInit => EventInv
  BY DEF EventInit, EventInv, EventTypeOK, AtRest, Places
<1>2. EventInv /\ [EventNext]_eventVars => EventInv'
  <2> SUFFICES ASSUME EventInv, [EventNext]_eventVars PROVE EventInv'
    OBVIOUS
  <2> USE DEF EventInv, EventTypeOK, Token, AtRest, Places
  <2>1. ASSUME NEW c \in Channels, Raise(c) PROVE EventInv'
    BY <2>1 DEF Raise
  <2>2. CASE Interrupt
    BY <2>2 DEF Interrupt
  <2>3. CASE Wake
    BY <2>3 DEF Wake
  <2>4. CASE WakeOther
    BY <2>4 DEF WakeOther
  <2>5. CASE ConfirmSent
    BY <2>5 DEF ConfirmSent
  <2>6. CASE ConfirmSignal
    BY <2>6 DEF ConfirmSignal
  <2>7. CASE Update
    BY <2>7 DEF Update, TakeMask
  <2>8. CASE WaitAgain
    BY <2>8 DEF WaitAgain
  <2>9. CASE UNCHANGED eventVars
    BY <2>9 DEF eventVars
  <2>10. QED
    BY <2>1, <2>2, <2>3, <2>4, <2>5, <2>6, <2>7, <2>8, <2>9 DEF EventNext
<1>3. QED
  BY <1>1, <1>2, PTL DEF EventSpec

(* No lost wakeup: an event in the mask always has the pulse, the signal   *)
(* or the task itself on its way.                                          *)
THEOREM NoLostWakeup == EventSpec => []WakeupOnItsWay
<1>1. EventInv => WakeupOnItsWay
  BY DEF EventInv, Token, WakeupOnItsWay, OnItsWay
<1>2. QED
  BY <1>1, EventInvariant, PTL

(* The interrupt handler's early exit, which would swallow a pulse, is     *)
(* never taken.                                                            *)
THEOREM EveryPulseSignals == EventSpec => []NoPulseSwallowed
<1>1. EventInv => NoPulseSwallowed
  BY DEF EventInv, Token, NoPulseSwallowed
<1>2. QED
  BY <1>1, EventInvariant, PTL

(* No spurious wakeup: a signalled task finds an event in the mask.        *)
THEOREM NoSpuriousWakeup == EventSpec => []SignalMeansEvent
<1>1. EventInv => SignalMeansEvent
  BY DEF EventInv, Token, AtRest, SignalMeansEvent
<1>2. QED
  BY <1>1, EventInvariant, PTL

(* The pulse, the interrupt handler and the signal implement the doorbell: *)
(* an event that finds none of them under way starts one, every step of    *)
(* the Amiga hands it on, and only the step that fetches the mask ends it. *)
THEOREM EventPathIsDoorbell ==
  EventSpec => Bell!BellInit /\ [][Bell!BellNext]_Bell!bellVars
<1>1. EventInit => Bell!BellInit
  BY DEF EventInit, Bell!BellInit, OnItsWay
<1>2. EventInv /\ [EventNext]_eventVars => [Bell!BellNext]_Bell!bellVars
  <2> SUFFICES ASSUME EventInv, [EventNext]_eventVars
               PROVE [Bell!BellNext]_Bell!bellVars
    OBVIOUS
  <2> USE DEF EventInv, EventTypeOK, Token, AtRest, OnItsWay, Bell!bellVars
  <2>1. ASSUME NEW c \in Channels, Raise(c) PROVE Bell!Ring(c)
    BY <2>1 DEF Raise, Bell!Ring
  <2>2. CASE Interrupt
    BY <2>2 DEF Interrupt
  <2>3. CASE Wake \/ WakeOther
    BY <2>3 DEF Wake, WakeOther
  <2>4. CASE ConfirmSent \/ ConfirmSignal
    BY <2>4 DEF ConfirmSent, ConfirmSignal
  <2>5. CASE Update
    <3>1. Bell!Answer
      BY <2>5 DEF Update, TakeMask, Bell!Answer
    <3>2. QED
      BY <3>1 DEF Bell!BellNext
  <2>6. CASE WaitAgain
    BY <2>6 DEF WaitAgain
  <2>7. CASE UNCHANGED eventVars
    BY <2>7 DEF eventVars
  <2>8. QED
    BY <2>1, <2>2, <2>3, <2>4, <2>5, <2>6, <2>7 DEF EventNext, Bell!BellNext
<1>3. QED
  BY <1>1, <1>2, EventInvariant, PTL DEF EventSpec
=============================================================================
