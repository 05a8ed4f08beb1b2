------------------------------ MODULE Doorbell ------------------------------
(***************************************************************************)
(* What the event path promises: the first event rings, the ring lasts     *)
(* until the events are fetched, and they are fetched all at once and only *)
(* after a ring.  EventIrq implements it with a pulse, an interrupt        *)
(* handler and a signal.                                                   *)
(***************************************************************************)
CONSTANT Channels

VARIABLES
  events,   \* the channels with an event
  rings     \* somebody is going to fetch them

bellVars == <<events, rings>>

BellInit == events = {} /\ rings = FALSE

Ring(c) == events' = events \cup {c} /\ rings' = TRUE

Answer == rings /\ events' = {} /\ rings' = FALSE

BellNext == Answer \/ \E c \in Channels : Ring(c)

BellSpec == BellInit /\ [][BellNext]_bellVars /\ WF_bellVars(Answer)
=============================================================================
