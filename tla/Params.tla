------------------------------- MODULE Params -------------------------------
(***************************************************************************)
(* The parameters a firmware keeps in its EEPROM (mcu/src/param/param.c).  *)
(* A checksum, the size and the version of the table guard the data.  All  *)
(* are written one after the other, and the power may go between any two   *)
(* writes or in the middle of one; the next start takes the data if the    *)
(* guards match and writes the defaults if they do not.                    *)
(*                                                                         *)
(* The checksum is taken to be perfect: it stands for the data it was      *)
(* computed of, and a torn one matches nothing.                            *)
(***************************************************************************)
EXTENDS Naturals

CONSTANTS
  Versions,   \* PARAM_VERSION of the firmwares that may be flashed
  Cells,      \* the parameters
  Table,      \* param_table: the parameters of each version
  Size,       \* PARAM_DEF_TOTAL of each version
  Blocks,     \* the parameters set and read by param_*_block
  Default,    \* def_val of each parameter, for each version
  Values,     \* what a parameter may hold
  Torn        \* what a write that was cut short leaves

ASSUME ParamsAssumption ==
  /\ Versions \subseteq Nat \ {0}
  /\ Table \in [Versions -> SUBSET Cells]
  /\ Size \in [Versions -> Nat]
  /\ Blocks \subseteq Cells
  /\ Default \in [Versions -> [Cells -> Values]]
  /\ Torn \notin Values \cup Nat
  /\ \A S \in SUBSET Cells : Torn \notin [S -> Values \cup {Torn}]

VARIABLES
  fw,        \* the version of the firmware in the flash
  cells,     \* the EEPROM: the data,
  crc,       \*   EEP_CRC,
  size,      \*   EEP_SIZE
  version,   \*   and EEP_VERSION
  state,     \* eep_state
  pc,        \* where the firmware is
  left,      \* the defaults that param_reset has not written yet
  arg,       \* the parameter that is being set, and its value
  saved,     \* history: what the last checksum was computed of, and by whom
  kept       \* history: a sync is complete and nothing was written since

eeprom == <<cells, crc, size, version>>
paramVars == <<fw, eeprom, state, pc, left, arg, saved, kept>>

States == {"INVALID", "VALID", "DIRTY"}

(* "check": in param_init; "ready": in the application; "set": in          *)
(* param_set_*; "data": in param_reset; the others: in param_sync.         *)
Places == {"off", "check", "ready", "set", "data", "crc", "size", "version"}

(* calc_eep_crc *)
Crc(v) == [c \in Table[v] |-> cells[c]]

(* param_check.  (Mutants: the checksum or the version is not compared.)   *)
PassesUnsummed == size = Size[fw] /\ version = fw
PassesAnyVersion == size = Size[fw] /\ crc = Crc(fw)
Passes == size = Size[fw] /\ version = fw /\ crc = Crc(fw)

(* A device whose EEPROM was never written.                                *)
ParamsInit ==
  /\ fw \in Versions
  /\ cells = [c \in Cells |-> Torn] /\ crc = Torn
  /\ size = Torn /\ version = Torn
  /\ state = "INVALID" /\ pc = "off" /\ left = {}
  /\ arg \in Cells \X Values
  /\ saved = [by |-> 0, data |-> Torn] /\ kept = FALSE

----------------------------------------------------------------------------
(* The application *)

(* param_check, called by the application                                  *)
CheckAgain ==
  /\ pc = "ready"
  /\ state' = IF Passes THEN "VALID" ELSE "INVALID"
  /\ UNCHANGED <<fw, eeprom, pc, left, arg, saved, kept>>

(* param_set_*: the write begins ...                                       *)
Set(c, x) ==
  /\ pc = "ready"
  /\ pc' = "set" /\ arg' = <<c, x>> /\ kept' = FALSE
  /\ UNCHANGED <<fw, eeprom, state, left, saved>>

(* ... and is done.  A block does not make the state DIRTY.                *)
SetDone ==
  /\ pc = "set"
  /\ pc' = "ready"
  /\ cells' = [cells EXCEPT ![arg[1]] = arg[2]]
  /\ state' = IF state = "VALID" /\ arg[1] \notin Blocks THEN "DIRTY" ELSE state
  /\ UNCHANGED <<fw, crc, size, version, left, arg, saved, kept>>

Sync ==
  /\ pc = "ready"
  /\ pc' = "crc" /\ kept' = FALSE
  /\ UNCHANGED <<fw, eeprom, state, left, arg, saved>>

Reset ==
  /\ pc = "ready"
  /\ pc' = "data" /\ left' = Table[fw] /\ kept' = FALSE
  /\ UNCHANGED <<fw, eeprom, state, arg, saved>>

(* param_get_*: only a block is read from an EEPROM that is not valid.     *)
Reading(c) ==
  IF state = "INVALID" /\ c \notin Blocks THEN Default[fw][c] ELSE cells[c]

----------------------------------------------------------------------------
(* The writes of param_reset, in any order, and of param_sync *)

WriteDefault(c) ==
  /\ pc = "data" /\ c \in left
  /\ cells' = [cells EXCEPT ![c] = Default[fw][c]]
  /\ left' = left \ {c}
  /\ UNCHANGED <<fw, crc, size, version, state, pc, arg, saved, kept>>

DefaultsDone ==
  /\ pc = "data" /\ left = {}
  /\ pc' = "crc"
  /\ UNCHANGED <<fw, eeprom, state, left, arg, saved, kept>>

WriteCrc ==
  /\ pc = "crc" /\ pc' = "size"
  /\ crc' = Crc(fw) /\ saved' = [by |-> fw, data |-> Crc(fw)]
  /\ UNCHANGED <<fw, cells, size, version, state, left, arg, kept>>

WriteSize ==
  /\ pc = "size" /\ pc' = "version"
  /\ size' = Size[fw]
  /\ UNCHANGED <<fw, cells, crc, version, state, left, arg, saved, kept>>

(* Mutant: the version is written only if there was none.                  *)
WriteVersionOnce ==
  /\ pc = "version" /\ pc' = "ready"
  /\ version' = IF version = Torn THEN fw ELSE version
  /\ state' = "VALID" /\ kept' = TRUE
  /\ UNCHANGED <<fw, cells, crc, size, left, arg, saved>>

WriteVersion ==
  /\ pc = "version" /\ pc' = "ready"
  /\ version' = fw /\ state' = "VALID" /\ kept' = TRUE
  /\ UNCHANGED <<fw, cells, crc, size, left, arg, saved>>

----------------------------------------------------------------------------
(* Power *)

PowerOn ==
  /\ pc = "off" /\ pc' = "check"
  /\ UNCHANGED <<fw, eeprom, state, left, arg, saved, kept>>

(* param_init *)
InitCheck ==
  /\ pc = "check"
  /\ IF Passes
       THEN pc' = "ready" /\ state' = "VALID" /\ UNCHANGED <<left, kept>>
       ELSE /\ pc' = "data" /\ left' = Table[fw]
            /\ state' = "INVALID" /\ kept' = FALSE
  /\ UNCHANGED <<fw, eeprom, arg, saved>>

(* The power goes, in the middle of whatever is being written.             *)
PowerCut ==
  /\ pc # "off" /\ pc' = "off" /\ state' = "INVALID"
  /\ \/ UNCHANGED eeprom
     \/ /\ \E c \in Cells :
             /\ (pc = "set" /\ c = arg[1]) \/ (pc = "data" /\ c \in left)
             /\ cells' = [cells EXCEPT ![c] = Torn]
        /\ UNCHANGED <<crc, size, version>>
     \/ pc = "crc" /\ crc' = Torn /\ UNCHANGED <<cells, size, version>>
     \/ pc = "size" /\ size' = Torn /\ UNCHANGED <<cells, crc, version>>
     \/ pc = "version" /\ version' = Torn /\ UNCHANGED <<cells, crc, size>>
  /\ UNCHANGED <<fw, left, arg, saved, kept>>

(* A later firmware is flashed.                                            *)
Upgrade(v) ==
  /\ pc = "off" /\ v > fw
  /\ fw' = v /\ kept' = FALSE
  /\ UNCHANGED <<eeprom, state, pc, left, arg, saved>>

Write ==
  \/ \E c \in Cells : WriteDefault(c)
  \/ DefaultsDone \/ WriteCrc \/ WriteSize \/ WriteVersion

Application ==
  \/ CheckAgain \/ SetDone \/ Sync \/ Reset
  \/ \E c \in Table[fw], x \in Values : Set(c, x)

ParamsNext ==
  \/ Application \/ Write \/ InitCheck
  \/ PowerOn \/ PowerCut
  \/ \E v \in Versions : Upgrade(v)

ParamsSpec == ParamsInit /\ [][ParamsNext]_paramVars

----------------------------------------------------------------------------
(* Properties *)

(* What the application reads is never the rest of a write that a power    *)
(* cut interrupted, in whatever state the EEPROM is.                       *)
ReadsAreWhole == pc = "ready" => \A c \in Table[fw] : Reading(c) \in Values

(* A start that accepts the EEPROM takes exactly what was last saved, and  *)
(* by the same version: no mixture of values saved, set and reset around   *)
(* power cuts and upgrades.                                                *)
TakesWhatWasSaved ==
  [][pc = "check" /\ pc' = "ready" => saved = [by |-> fw, data |-> Crc(fw)]]_paramVars

(* What was saved stays: once a sync is complete, a start finds the        *)
(* EEPROM valid until something is written, however often the power goes.  *)
SavedIsKept == kept => Passes
=============================================================================
