----------------------------- MODULE ProtoTimer -----------------------------
(***************************************************************************)
(* The timer that guards the Amiga's calls (amiga/src/base/timer.c), and   *)
(* the calls of proto_atom.c that start and stop it around ProtoLow.       *)
(*                                                                         *)
(* One request to timer.device serves all calls.  Its reply, whether the   *)
(* time elapsed or the request was aborted, raises an exception in the     *)
(* task; the exception handler sets the flag that the call polls.  So      *)
(* timer_stop sets the flag too, some time later, and timer_start waits    *)
(* for it before it starts the request again.                              *)
(***************************************************************************)
EXTENDS ProtoLow

VARIABLES
  stage,     \* where the Amiga is around the call
  flag,      \* timeoutFlag
  sync,      \* the signal that the exception handler sends
  timerReq,  \* the request: with timer.device, replied to, or back
  elapsed    \* history: this call's own time has elapsed

timerVars == <<stage, flag, sync, timerReq, elapsed>>
timedVars == <<protoVars, timerVars>>

(* "testing", "syncing": in timer_start's loop, before it tests the flag   *)
(* and in Wait(); "started": the timer runs; "called": the call was made.  *)
Stages == {"none", "testing", "syncing", "started", "called"}

TimerReqs == {"back", "running", "elapsed", "aborted"}

(* timer_init *)
TimedInit ==
  /\ ProtoInit
  /\ stage = "none" /\ flag = TRUE /\ sync = FALSE
  /\ timerReq = "back" /\ elapsed = FALSE

----------------------------------------------------------------------------
(* proto_atom_action and its kind *)

Enter ==
  /\ stage = "none" /\ stage' = "testing"
  /\ UNCHANGED <<protoVars, flag, sync, timerReq, elapsed>>

(* timer_start.  (Mutants: the reply of the last call is not waited for;   *)
(* the flag is not cleared.)                                               *)
StartTimerFlagSet ==
  /\ stage = "testing" /\ flag
  /\ stage' = "started" /\ sync' = FALSE
  /\ timerReq' = "running" /\ elapsed' = FALSE
  /\ UNCHANGED <<protoVars, flag>>

StartTimerAtOnce ==
  /\ stage = "testing"
  /\ stage' = "started" /\ flag' = FALSE /\ sync' = FALSE
  /\ timerReq' = "running" /\ elapsed' = FALSE
  /\ UNCHANGED protoVars

StartTimer ==
  /\ stage = "testing" /\ flag
  /\ stage' = "started" /\ flag' = FALSE /\ sync' = FALSE
  /\ timerReq' = "running" /\ elapsed' = FALSE
  /\ UNCHANGED protoVars

AwaitSync ==
  /\ stage = "testing" /\ ~flag
  /\ stage' = "syncing"
  /\ UNCHANGED <<protoVars, flag, sync, timerReq, elapsed>>

GotSync ==
  /\ stage = "syncing" /\ sync
  /\ stage' = "testing" /\ sync' = FALSE
  /\ UNCHANGED <<protoVars, flag, timerReq, elapsed>>

MakeCall(c) ==
  /\ stage = "started" /\ Call(c)
  /\ stage' = "called"
  /\ UNCHANGED <<flag, sync, timerReq, elapsed>>

(* The waits for RAK give up when they find the flag set.                  *)
GiveUpByFlag == flag /\ (GiveUp \/ GiveUpEnd) /\ UNCHANGED timerVars

(* timer_stop: a request that is replied to already is left alone.         *)
StopTimer ==
  /\ stage = "called" /\ pcA = "idle"
  /\ stage' = "none"
  /\ timerReq' = IF timerReq = "running" THEN "aborted" ELSE timerReq
  /\ UNCHANGED <<protoVars, flag, sync, elapsed>>

----------------------------------------------------------------------------
(* timer.device and the exception *)

Elapse ==
  /\ timerReq = "running" /\ timerReq' = "elapsed" /\ elapsed' = TRUE
  /\ UNCHANGED <<protoVars, stage, flag, sync>>

(* exc_handler *)
Exception ==
  /\ timerReq \in {"elapsed", "aborted"}
  /\ timerReq' = "back" /\ flag' = TRUE /\ sync' = TRUE
  /\ UNCHANGED <<protoVars, stage, elapsed>>

----------------------------------------------------------------------------
TimedStep ==
  \/ StartTimer \/ AwaitSync \/ GotSync \/ StopTimer
  \/ \E c \in Cmds : MakeCall(c)

InCall == Access /\ UNCHANGED timerVars
AtFirmware == Firmware /\ UNCHANGED timerVars

TimedNext ==
  \/ Enter \/ TimedStep \/ InCall \/ GiveUpByFlag
  \/ Elapse \/ Exception
  \/ AtFirmware

TimedSpec == TimedInit /\ [][TimedNext]_timedVars

(* The task goes on, timer.device replies when the time has elapsed, the   *)
(* exception is raised, and a call that is still waiting with the flag set *)
(* finds it.  Nobody has to call.                                          *)
TimedFairness ==
  /\ WF_timedVars(TimedStep) /\ WF_timedVars(InCall) /\ WF_timedVars(AtFirmware)
  /\ WF_timedVars(Elapse) /\ WF_timedVars(Exception)
  /\ SF_timedVars(GiveUpByFlag)

FairTimedSpec == TimedSpec /\ TimedFairness

----------------------------------------------------------------------------
(* Properties *)

(* Every variable has its type.                                            *)
TimedTypeOK ==
  /\ ProtoTypeOK
  /\ stage \in Stages /\ timerReq \in TimerReqs
  /\ flag \in BOOLEAN /\ sync \in BOOLEAN /\ elapsed \in BOOLEAN

(* A call only gives up when its own time has elapsed: the flag it polls   *)
(* is never the one of the request that an earlier call aborted.           *)
GivesUpInTime == stage = "called" /\ result = "TIMEOUT" => elapsed

(* The request is never sent while timer.device, its reply port or the     *)
(* exception still has it.                                                 *)
RequestNotInUse == [][stage' = "started" /\ stage # "started" => timerReq = "back"]_timedVars

(* Every call of proto_atom returns, the wait of timer_start included.     *)
CallReturns == stage # "none" ~> stage = "none"
=============================================================================
