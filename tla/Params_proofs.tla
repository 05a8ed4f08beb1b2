---------------------------- MODULE Params_proofs ----------------------------
(***************************************************************************)
(* That the guards of the EEPROM guard it, for any table of parameters,    *)
(* any versions and any number of power cuts.                              *)
(*                                                                         *)
(* The checksum is always that of what was last saved, or torn; versions   *)
(* only grow, the stored one never beyond the one that saved last, that    *)
(* one never beyond the firmware's: a start that finds its own version     *)
(* finds what it saved itself.                                             *)
(***************************************************************************)
EXTENDS Params, TLAPS

ParamsTypeOK ==
  /\ fw \in Versions
  /\ cells \in [Cells -> Values \cup {Torn}]
  /\ state \in States /\ pc \in Places
  /\ left \subseteq Cells
  /\ arg \in Cells \X Values
  /\ kept \in BOOLEAN

Whole(S) == \A c \in S : cells[c] \in Values

(* Where the data is whole: everywhere but in the middle of a reset, where *)
(* the defaults written so far are.                                        *)
WholeInv ==
  /\ pc \in {"ready", "set", "crc", "size", "version"} => Whole(Table[fw])
  /\ pc = "data" => Whole(Table[fw] \ left)

SavedInv ==
  /\ saved = [by |-> saved.by, data |-> saved.data]
  /\ crc # Torn => saved.data = crc /\ saved.by \in Versions
                   /\ crc \in [Table[saved.by] -> Values]
  /\ saved.by \in Nat /\ saved.by <= fw
  /\ version # Torn => version \in Nat /\ version <= saved.by
  /\ pc \in {"size", "version"} => saved.by = fw /\ crc = Crc(fw)
  /\ pc = "version" => size = Size[fw]

KeptInv ==
  kept => /\ pc \in {"ready", "off", "check"}
          /\ SavedIsKept

ParamsInv == ParamsTypeOK /\ WholeInv /\ SavedInv /\ KeptInv

(* A checksum that was computed is not a torn one, and that of whole       *)
(* parameters is a function of values.                                     *)
LEMMA CrcIsFunction ==
  ASSUME ParamsTypeOK
  PROVE  /\ Crc(fw) # Torn
         /\ Whole(Table[fw]) <=> Crc(fw) \in [Table[fw] -> Values]
<1>1. Table[fw] \in SUBSET Cells
  BY ParamsAssumption DEF ParamsTypeOK
<1>2. Crc(fw) \in [Table[fw] -> Values \cup {Torn}]
  BY <1>1 DEF ParamsTypeOK, Crc
<1>3. Crc(fw) # Torn
  BY <1>1, <1>2, ParamsAssumption
<1>4. Whole(Table[fw]) => Crc(fw) \in [Table[fw] -> Values]
  BY <1>1 DEF Whole, Crc
<1>5. Crc(fw) \in [Table[fw] -> Values] => Whole(Table[fw])
  <2>1. \A c \in Table[fw] : Crc(fw)[c] = cells[c]
    BY DEF Crc
  <2> QED
    BY <2>1 DEF Whole
<1> QED
  BY <1>3, <1>4, <1>5

(* Data that passes the check is whole, and was saved by this version.     *)
LEMMA PassesIsSaved ==
  ASSUME ParamsTypeOK, SavedInv, Passes
  PROVE  Whole(Table[fw]) /\ saved.by = fw /\ saved.data = Crc(fw)
<1>1. crc # Torn /\ crc = Crc(fw)
  BY CrcIsFunction DEF Passes
<1>2. fw \in Nat /\ fw # Torn
  BY ParamsAssumption DEF ParamsTypeOK
<1>3. saved.by = fw
  BY <1>2 DEF SavedInv, Passes
<1> QED
  BY <1>1, <1>3, CrcIsFunction DEF SavedInv

LEMMA InvInit == ParamsInit => ParamsInv
<1> SUFFICES ASSUME ParamsInit PROVE ParamsInv
  OBVIOUS
<1> USE DEF ParamsInit
<1>1. ParamsTypeOK
  BY ParamsAssumption DEF ParamsTypeOK, States, Places
<1>2. SavedInv
  BY ParamsAssumption DEF SavedInv
<1> QED
  BY <1>1, <1>2 DEF ParamsInv, WholeInv, KeptInv

LEMMA TypeStep == ParamsTypeOK /\ [ParamsNext]_paramVars => ParamsTypeOK'
<1> SUFFICES ASSUME ParamsTypeOK, [ParamsNext]_paramVars PROVE ParamsTypeOK'
  OBVIOUS
<1>0. Table[fw] \subseteq Cells /\ Default[fw] \in [Cells -> Values]
  BY ParamsAssumption DEF ParamsTypeOK
<1> USE <1>0 DEF ParamsTypeOK, States, Places, eeprom
<1>1. CASE Application
  <2>1. CASE CheckAgain \/ Sync \/ Reset
    BY <2>1 DEF CheckAgain, Sync, Reset
  <2>2. CASE SetDone
    BY <2>2 DEF SetDone
  <2>3. ASSUME NEW c \in Table[fw], NEW x \in Values, Set(c, x) PROVE ParamsTypeOK'
    <3>1. <<c, x>> \in Cells \X Values
      OBVIOUS
    <3> QED
      BY <2>3, <3>1 DEF Set
  <2> QED
    BY <1>1, <2>1, <2>2, <2>3 DEF Application
<1>2. CASE Write
  <2>1. ASSUME NEW c \in Cells, WriteDefault(c) PROVE ParamsTypeOK'
    BY <2>1 DEF WriteDefault
  <2>2. CASE DefaultsDone
    BY <2>2 DEF DefaultsDone
  <2>3. CASE WriteCrc
    BY <2>3 DEF WriteCrc
  <2>4. CASE WriteSize
    BY <2>4 DEF WriteSize
  <2>5. CASE WriteVersion
    BY <2>5 DEF WriteVersion
  <2> QED
    BY <1>2, <2>1, <2>2, <2>3, <2>4, <2>5 DEF Write
<1>3. CASE InitCheck
  BY <1>3 DEF InitCheck
<1>4. CASE PowerOn
  BY <1>4 DEF PowerOn
<1>5. CASE PowerCut
  BY <1>5 DEF PowerCut
<1>6. ASSUME NEW v \in Versions, Upgrade(v) PROVE ParamsTypeOK'
  BY <1>6 DEF Upgrade
<1>7. CASE UNCHANGED paramVars
  BY <1>7 DEF paramVars
<1> QED
  BY <1>1, <1>2, <1>3, <1>4, <1>5, <1>6, <1>7 DEF ParamsNext

LEMMA InvStep == ParamsInv /\ [ParamsNext]_paramVars => ParamsInv'
<1> SUFFICES ASSUME ParamsInv, [ParamsNext]_paramVars PROVE ParamsInv'
  OBVIOUS
<1>0. ParamsTypeOK'
  BY TypeStep DEF ParamsInv
<1>f. fw \in Nat \ {0} /\ fw # Torn /\ Table[fw] \subseteq Cells
      /\ Default[fw] \in [Cells -> Values]
  BY ParamsAssumption DEF ParamsInv, ParamsTypeOK
<1> USE <1>0, <1>f DEF ParamsInv, eeprom
<1>1. CASE CheckAgain
  BY <1>1 DEF CheckAgain, WholeInv, Whole, SavedInv, KeptInv, SavedIsKept, Passes, Crc
<1>2. ASSUME NEW c \in Table[fw], NEW x \in Values, Set(c, x) PROVE ParamsInv'
  BY <1>2 DEF Set, WholeInv, Whole, SavedInv, KeptInv
<1>3. CASE SetDone
  BY <1>3 DEF SetDone, WholeInv, Whole, SavedInv, KeptInv, ParamsTypeOK
<1>4. CASE Sync
  BY <1>4 DEF Sync, WholeInv, Whole, SavedInv, KeptInv
<1>5. CASE Reset
  BY <1>5 DEF Reset, WholeInv, Whole, SavedInv, KeptInv
<1>6. ASSUME NEW c \in Cells, WriteDefault(c) PROVE ParamsInv'
  BY <1>6 DEF WriteDefault, WholeInv, Whole, SavedInv, KeptInv, ParamsTypeOK
<1>7. CASE DefaultsDone
  BY <1>7 DEF DefaultsDone, WholeInv, Whole, SavedInv, KeptInv
<1>8. CASE WriteCrc
  <2>1. WholeInv' /\ KeptInv'
    BY <1>8 DEF WriteCrc, WholeInv, Whole, KeptInv
  <2>2. Crc(fw)' = Crc(fw) /\ Crc(fw) \in [Table[fw] -> Values]
    BY <1>8, CrcIsFunction DEF WriteCrc, Crc, WholeInv
  <2>3. SavedInv'
    BY <1>8, <2>2 DEF WriteCrc, SavedInv, ParamsTypeOK
  <2> QED
    BY <2>1, <2>3
<1>9. CASE WriteSize
  BY <1>9 DEF WriteSize, WholeInv, Whole, SavedInv, KeptInv, Crc
<1>10. CASE WriteVersion
  BY <1>10 DEF WriteVersion, WholeInv, Whole, SavedInv, KeptInv, SavedIsKept, Passes, Crc
<1>11. CASE PowerOn
  BY <1>11 DEF PowerOn, WholeInv, SavedInv, KeptInv, SavedIsKept, Passes, Crc
<1>12. CASE InitCheck
  <2>1. CASE Passes
    <3>1. Whole(Table[fw])
      BY <2>1, PassesIsSaved
    <3> QED
      BY <1>12, <2>1, <3>1 DEF InitCheck, WholeInv, Whole, SavedInv, KeptInv, SavedIsKept, Passes, Crc
  <2>2. CASE ~Passes
    BY <1>12, <2>2 DEF InitCheck, WholeInv, Whole, SavedInv, KeptInv
  <2> QED
    BY <2>1, <2>2
<1>13. CASE PowerCut
  <2>1. WholeInv' /\ SavedInv'
    BY <1>13 DEF PowerCut, WholeInv, SavedInv
  <2>2. ASSUME kept PROVE UNCHANGED eeprom
    BY <1>13, <2>2 DEF PowerCut, KeptInv
  <2>3. KeptInv'
    BY <1>13, <2>2 DEF PowerCut, KeptInv, SavedIsKept, Passes, Crc
  <2> QED
    BY <2>1, <2>3
<1>14. ASSUME NEW v \in Versions, Upgrade(v) PROVE ParamsInv'
  <2>1. v \in Nat
    BY ParamsAssumption
  <2> QED
    BY <1>14, <2>1 DEF Upgrade, WholeInv, SavedInv, KeptInv
<1>15. CASE UNCHANGED paramVars
  BY <1>15 DEF paramVars, WholeInv, Whole, SavedInv, KeptInv, SavedIsKept, Passes, Crc
<1> QED
  BY <1>1, <1>2, <1>3, <1>4, <1>5, <1>6, <1>7, <1>8, <1>9, <1>10, <1>11, <1>12,
     <1>13, <1>14, <1>15 DEF ParamsNext, Application, Write

(* The inductive invariant of the parameter store.                         *)
THEOREM ParamsInvariant == ParamsSpec => []ParamsInv
BY InvInit, InvStep, PTL DEF ParamsSpec

(* The application never reads the rest of an interrupted write.           *)
THEOREM ReadsWhole == ParamsSpec => []ReadsAreWhole
<1>1. ParamsInv => ReadsAreWhole
  BY ParamsAssumption
  DEF ParamsInv, ParamsTypeOK, WholeInv, Whole, ReadsAreWhole, Reading
<1> QED
  BY <1>1, ParamsInvariant, PTL

(* A start takes what was last saved by its own version, or nothing.       *)
THEOREM StartTakesSaved == ParamsSpec => TakesWhatWasSaved
<1>1. ParamsInv /\ [ParamsNext]_paramVars
        => [pc = "check" /\ pc' = "ready" => saved = [by |-> fw, data |-> Crc(fw)]]_paramVars
  <2> SUFFICES ASSUME ParamsInv, ParamsNext, pc = "check", pc' = "ready"
               PROVE  saved = [by |-> fw, data |-> Crc(fw)]
    BY DEF paramVars
  <2>1. Passes
    BY DEF ParamsNext, Application, CheckAgain, Set, SetDone, Sync, Reset, Write, WriteDefault,
           DefaultsDone, WriteCrc, WriteSize, WriteVersion, PowerOn, InitCheck, PowerCut, Upgrade
  <2> QED
    BY <2>1, PassesIsSaved DEF ParamsInv, SavedInv
<1> QED
  BY <1>1, ParamsInvariant, PTL DEF ParamsSpec, TakesWhatWasSaved

(* What was saved passes the check of every later start.                   *)
THEOREM SavedKept == ParamsSpec => []SavedIsKept
<1>1. ParamsInv => SavedIsKept
  BY DEF ParamsInv, KeptInv, SavedIsKept
<1> QED
  BY <1>1, ParamsInvariant, PTL
=============================================================================
