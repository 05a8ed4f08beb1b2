-------------------------- MODULE DeviceLife_proofs --------------------------
(***************************************************************************)
(* That only whole images run, that pablo tells the truth and that nobody  *)
(* talks to the wrong program: for any images, any number of pages and of  *)
(* power cuts, whatever times out.                                         *)
(*                                                                         *)
(* Why it holds: the application is entered with RESET or BOOTLOADER only, *)
(* the bootloader's loop with BOOTLOADER only.  While the Amiga sends      *)
(* neither, a device that restarts does not come back to either.           *)
(***************************************************************************)
EXTENDS DeviceLife, TLAPS

LifeTypeOK ==
  /\ page \in Pages /\ pageAddr \in Pages
  /\ rom = [p \in Pages |-> rom[p]]
  /\ pc \in PCs /\ mode \in Modes
  /\ reply \in {"none", "ok", "timeout"}

(* What the Amiga may be asking at each place.                             *)
LinesInv ==
  /\ reply # "none" => line = "none"
  /\ pc = "idle" => line = "none" /\ reply = "none"
  /\ pc = "init" => line \in {"none", "RESET"}
  /\ pc = "session" => line = "none" /\ reply = "none"
  /\ pc = "asked" => line \in {"none", "PING", "ID"}
  /\ pc \in {"exit", "leave"} => line \in {"none", "KNOK"}
  /\ pc = "enter" => line \in {"none", "BOOTLOADER"}
  /\ pc \in {"magic", "check"} => line \in {"none", "ID"}
  /\ pc \in {"info", "reinfo"} => line \in {"none", "INFO"}
  /\ pc \in {"addr", "vaddr"} => line \in {"none", "ADDR"}
  /\ pc = "write" => line \in {"none", "WRITE"}
  /\ pc = "vread" => line \in {"none", "READ"}

(* A device without a bootloader keeps what it was given.                  *)
AppInv ==
  /\ OnlyWholeImagesRun
  /\ ~loader => AppIsValid /\ mode \notin {"bootinit", "bootwait", "loader", "flashing", "stuck"}

(* Who may be at the other end.                                            *)
ProgramInv ==
  /\ pc = "magic" /\ reply = "ok" /\ got = "loader" => mode # "app"
  /\ pc \in PageLoop => mode # "app"
  /\ pc = "init" /\ reply = "ok" => mode \notin {"loader", "flashing"}
  /\ pc \in Session => mode \notin {"loader", "flashing"}

(* What the loop over the pages has verified.                              *)
VerifyInv ==
  /\ pc \in {"info", "reinfo"} /\ reply = "ok" => mode # "flashing"
  /\ pc \in {"enter", "magic", "info", "reinfo"} => page = 0
  /\ pc \in {"vaddr", "vread", "leave", "check"} => mode # "flashing"
  /\ pc \in {"vaddr", "vread"} => \A p \in Pages : p < page => rom[p] = <<file, p>>
  /\ pc = "vaddr" /\ reply = "ok" /\ mode = "loader" => pageAddr = page
  /\ pc = "vread" /\ mode = "loader" => pageAddr = page
  /\ pc = "vread" /\ reply = "ok" => got = rom[page]
  /\ VerifiedMeansFlashed

LifeInv == LifeTypeOK /\ LinesInv /\ AppInv /\ ProgramInv /\ VerifyInv

LEMMA InvInit == LifeInit => LifeInv
<1> SUFFICES ASSUME LifeInit PROVE LifeInv
  OBVIOUS
<1> USE DEF LifeInit
<1>1. LifeTypeOK
  <2>1. 0 \in Pages
    BY LifeAssumption DEF Pages
  <2> QED
    BY <2>1 DEF LifeTypeOK, PCs, Modes, Holds
<1>2. AppInv
  BY LifeAssumption DEF AppInv, AppIsValid, OnlyWholeImagesRun
<1> QED
  BY <1>1, <1>2 DEF LifeInv, LinesInv, ProgramInv, VerifyInv, PageLoop, Session,
                    VerifiedMeansFlashed

(* The next page of a loop is a page.                                      *)
LEMMA NextPage == ASSUME page \in Pages, ~LastPage PROVE page + 1 \in Pages
BY LifeAssumption DEF Pages, LastPage

LEMMA TypeStep == LifeTypeOK /\ [LifeNext]_lifeVars => LifeTypeOK'
<1> SUFFICES ASSUME LifeTypeOK, [LifeNext]_lifeVars PROVE LifeTypeOK'
  OBVIOUS
<1>0. 0 \in Pages
  BY LifeAssumption DEF Pages
<1> USE <1>0 DEF LifeTypeOK, PCs, PageLoop, Session, Modes, lines, amiga, device, Answer, Silent,
                 Goto, Send, Proceed, End
<1>1. CASE DeviceStep
  <2>1. CASE FlashPage /\ UNCHANGED <<amiga, loader, cuts>>
    BY <2>1 DEF FlashPage
  <2>2. CASE LoaderCommand /\ UNCHANGED <<amiga, loader, cuts>>
    BY <2>2 DEF LoaderCommand, DevCommand
  <2> QED
    BY <1>1, <2>1, <2>2
       DEF DeviceStep, Restart, BootInit, BootWait, DevCommand, Leaving, Watchdog, KnokInit,
           KnokBails, UploadEnds, DevInit, AppCommand
<1>2. CASE AmigaStep
  <2>1. CASE StartUser \/ Ask \/ UserReturns \/ Reboot
    BY <2>1 DEF StartUser, Ask, UserReturns, Reboot
  <2>2. ASSUME NEW f \in Images, NEW fl \in BOOLEAN, StartPablo(f, fl) PROVE LifeTypeOK'
    BY <2>2 DEF StartPablo
  <2>3. CASE PabloReturns
    BY <2>3, NextPage DEF PabloReturns, Enter, FlashLoop, VerifyLoop, Leave, StopPablo
  <2> QED
    BY <1>2, <2>1, <2>2, <2>3 DEF AmigaStep
<1>3. CASE KeyArrives \/ GiveUp \/ GiveUpLate
  BY <1>3 DEF KeyArrives, Key, GiveUp, GiveUpLate
<1>4. CASE PowerCut
  BY <1>4 DEF PowerCut
<1>5. CASE UNCHANGED lifeVars
  BY <1>5 DEF lifeVars
<1> QED
  BY <1>1, <1>2, <1>3, <1>4, <1>5 DEF LifeNext

LEMMA LinesStep == LifeTypeOK /\ LinesInv /\ [LifeNext]_lifeVars => LinesInv'
<1> SUFFICES ASSUME LifeTypeOK, LinesInv, [LifeNext]_lifeVars PROVE LinesInv'
  OBVIOUS
<1> USE DEF LifeTypeOK, LinesInv, PCs, PageLoop, Session, lines, amiga, Answer, Silent, Goto,
            Send, Proceed, End
<1>1. CASE DeviceStep
  BY <1>1 DEF DeviceStep, Restart, BootInit, BootWait, LoaderCommand, DevCommand, FlashPage,
              Leaving, Watchdog, KnokInit, KnokBails, UploadEnds, DevInit, AppCommand
<1>2. CASE AmigaStep
  <2>1. CASE StartUser \/ Ask \/ UserReturns \/ Reboot
    BY <2>1 DEF StartUser, Ask, UserReturns, Reboot
  <2>2. ASSUME NEW f \in Images, NEW fl \in BOOLEAN, StartPablo(f, fl) PROVE LinesInv'
    BY <2>2 DEF StartPablo
  <2>3. CASE PabloReturns
    BY <2>3 DEF PabloReturns, Enter, FlashLoop, VerifyLoop, Leave, StopPablo
  <2> QED
    BY <1>2, <2>1, <2>2, <2>3 DEF AmigaStep
<1>3. CASE KeyArrives \/ GiveUp \/ GiveUpLate \/ PowerCut
  BY <1>3 DEF KeyArrives, Key, GiveUp, GiveUpLate, PowerCut
<1>4. CASE UNCHANGED lifeVars
  BY <1>4 DEF lifeVars
<1> QED
  BY <1>1, <1>2, <1>3, <1>4 DEF LifeNext

(* The flash changes in one mode only, and no application runs then.       *)
LEMMA AppStep == AppInv /\ [LifeNext]_lifeVars => AppInv'
<1> SUFFICES ASSUME AppInv, [LifeNext]_lifeVars PROVE AppInv'
  OBVIOUS
<1>0. rom' = rom => AppIsValid' = AppIsValid
  BY DEF AppIsValid, Holds
<1> USE <1>0 DEF AppInv, OnlyWholeImagesRun, device, Goto
<1>1. CASE DeviceStep
  BY <1>1 DEF DeviceStep, Restart, BootInit, BootWait, LoaderCommand, DevCommand, FlashPage,
              Leaving, Watchdog, KnokInit, KnokBails, UploadEnds, DevInit, AppCommand
<1>2. CASE AmigaStep \/ GiveUp
  BY <1>2 DEF AmigaStep, StartUser, Ask, UserReturns, Reboot, StartPablo, PabloReturns, GiveUp
<1>3. CASE KeyArrives \/ GiveUpLate \/ PowerCut
  BY <1>3 DEF KeyArrives, Key, GiveUpLate, PowerCut
<1>4. CASE UNCHANGED lifeVars
  BY <1>4 DEF lifeVars
<1> QED
  BY <1>1, <1>2, <1>3, <1>4 DEF LifeNext

LEMMA ProgramStep ==
  LifeTypeOK /\ LinesInv /\ ProgramInv /\ [LifeNext]_lifeVars => ProgramInv'
<1> SUFFICES ASSUME LifeTypeOK, LinesInv, ProgramInv, [LifeNext]_lifeVars PROVE ProgramInv'
  OBVIOUS
<1> USE DEF LifeTypeOK, LinesInv, ProgramInv, PCs, PageLoop, Session, lines, amiga, device,
            Answer, Silent, Goto, Send, Proceed, End
<1>1. CASE DeviceStep
  BY <1>1 DEF DeviceStep, Restart, BootInit, BootWait, LoaderCommand, DevCommand, FlashPage,
              Leaving, Watchdog, KnokInit, KnokBails, UploadEnds, DevInit, AppCommand
<1>2. CASE AmigaStep
  <2>1. CASE StartUser \/ Ask \/ UserReturns \/ Reboot
    BY <2>1 DEF StartUser, Ask, UserReturns, Reboot
  <2>2. ASSUME NEW f \in Images, NEW fl \in BOOLEAN, StartPablo(f, fl) PROVE ProgramInv'
    BY <2>2 DEF StartPablo
  <2>3. CASE PabloReturns
    BY <2>3 DEF PabloReturns, Enter, FlashLoop, VerifyLoop, Leave, StopPablo
  <2> QED
    BY <1>2, <2>1, <2>2, <2>3 DEF AmigaStep
<1>3. CASE KeyArrives \/ GiveUp \/ GiveUpLate \/ PowerCut
  BY <1>3 DEF KeyArrives, Key, GiveUp, GiveUpLate, PowerCut
<1>4. CASE UNCHANGED lifeVars
  BY <1>4 DEF lifeVars
<1> QED
  BY <1>1, <1>2, <1>3, <1>4 DEF LifeNext

(* The last page that matches completes the image.                         *)
LEMMA LastMatch ==
  ASSUME LifeTypeOK, \A p \in Pages : p < page => rom[p] = <<file, p>>,
         rom[page] = <<file, page>>, LastPage
  PROVE  Holds(file)
<1>1. \A p \in Pages : rom[p] = <<file, p>>
  BY LifeAssumption DEF LifeTypeOK, Pages, LastPage
<1> QED
  BY <1>1 DEF LifeTypeOK, Holds

LEMMA VerifyStep ==
  LifeTypeOK /\ LinesInv /\ VerifyInv /\ [LifeNext]_lifeVars => VerifyInv'
<1> SUFFICES ASSUME LifeTypeOK, LinesInv, VerifyInv, [LifeNext]_lifeVars PROVE VerifyInv'
  OBVIOUS
<1> USE DEF LifeTypeOK, LinesInv, VerifyInv, VerifiedMeansFlashed, Holds, lines, amiga, device,
            Answer, Silent, Goto
<1>1. CASE DeviceStep
  <2>1. CASE FlashPage /\ UNCHANGED <<amiga, loader, cuts>>
    BY <2>1 DEF FlashPage
  <2>2. CASE LoaderCommand /\ UNCHANGED <<amiga, loader, cuts>>
    BY <2>2 DEF LoaderCommand, DevCommand
  <2>3. CASE Restart /\ UNCHANGED <<amiga, loader, cuts>>
    BY <2>3 DEF Restart
  <2>4. CASE (BootInit \/ BootWait) /\ UNCHANGED <<amiga, loader, cuts>>
    BY <2>4 DEF BootInit, BootWait
  <2>5. CASE (DevInit \/ AppCommand) /\ UNCHANGED <<amiga, loader, cuts>>
    BY <2>5 DEF DevInit, AppCommand, DevCommand
  <2>6. CASE (Leaving \/ Watchdog \/ KnokInit \/ KnokBails \/ UploadEnds)
             /\ UNCHANGED <<amiga, loader, cuts>>
    BY <2>6 DEF Leaving, Watchdog, KnokInit, KnokBails, UploadEnds
  <2> QED
    BY <1>1, <2>1, <2>2, <2>3, <2>4, <2>5, <2>6 DEF DeviceStep
<1>2. CASE AmigaStep
  <2> USE DEF Send, Proceed, End
  <2>1. CASE StartUser \/ Ask \/ UserReturns \/ Reboot
    BY <2>1 DEF StartUser, Ask, UserReturns, Reboot
  <2>2. ASSUME NEW f \in Images, NEW fl \in BOOLEAN, StartPablo(f, fl) PROVE VerifyInv'
    BY <2>2 DEF StartPablo
  <2>3. CASE PabloReturns
    <3>1. CASE (Enter \/ FlashLoop) /\ UNCHANGED <<file, flash, device, cuts>>
      BY <3>1 DEF Enter, FlashLoop, Pages
    <3>2. CASE VerifyLoop /\ UNCHANGED <<file, flash, device, cuts>>
      BY <3>2, LastMatch, NextPage DEF VerifyLoop, Matches, Pages
    <3>3. CASE (Leave \/ StopPablo) /\ UNCHANGED <<file, flash, device, cuts>>
      BY <3>3 DEF Leave, StopPablo
    <3> QED
      BY <2>3, <3>1, <3>2, <3>3 DEF PabloReturns
  <2> QED
    BY <1>2, <2>1, <2>2, <2>3 DEF AmigaStep
<1>3. CASE KeyArrives \/ GiveUp \/ GiveUpLate
  BY <1>3 DEF KeyArrives, Key, GiveUp, GiveUpLate
<1>4. CASE PowerCut
  BY <1>4 DEF PowerCut
<1>5. CASE UNCHANGED lifeVars
  BY <1>5 DEF lifeVars
<1> QED
  BY <1>1, <1>2, <1>3, <1>4, <1>5 DEF LifeNext

(* The invariant is inductive.                                             *)
THEOREM LifeInvariant == LifeSpec => []LifeInv
<1>1. LifeInv /\ [LifeNext]_lifeVars => LifeInv'
  BY TypeStep, LinesStep, AppStep, ProgramStep, VerifyStep DEF LifeInv
<1> QED
  BY InvInit, <1>1, PTL DEF LifeSpec

(* An application runs only if the flash holds one whole image for the     *)
(* machine, whatever pablo flashed, gave up or lost power in.              *)
THEOREM WholeImagesRun == LifeSpec => []OnlyWholeImagesRun
<1>1. LifeInv => OnlyWholeImagesRun
  BY DEF LifeInv, AppInv
<1> QED
  BY LifeInvariant, <1>1, PTL

(* When pablo says that a file was verified, the device has it.            *)
THEOREM VerifiedIsFlashed == LifeSpec => []VerifiedMeansFlashed
<1>1. LifeInv => VerifiedMeansFlashed
  BY DEF LifeInv, VerifyInv
<1> QED
  BY LifeInvariant, <1>1, PTL

(* Page commands never reach an application, nor a driver's a bootloader.  *)
THEOREM TalksToRightProgram == LifeSpec => []RightProgram
<1>1. LifeInv => RightProgram
  BY DEF LifeInv, ProgramInv, RightProgram
<1> QED
  BY LifeInvariant, <1>1, PTL
=============================================================================
