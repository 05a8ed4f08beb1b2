----------------------------- MODULE DeviceLife -----------------------------
(***************************************************************************)
(* The lives of a device: bootloader, knok mode, application, and the      *)
(* restarts between them, some of them in the middle of a command.         *)
(*                                                                         *)
(* Firmware: arch/common/bootbase.c, arch/avr/bootloader.c, proto/knok.c,  *)
(* proto_dev.c and proto_boot.c.  Amiga: proto/proto_dev.c, proto_boot.c,  *)
(* and the flash tool pablo (pablo.c, bootloader.c).                       *)
(*                                                                         *)
(* A command is up on the lines until it is answered or its time is over:  *)
(* ProtoLow has the handshake itself.  RESET and BOOTLOADER are not        *)
(* answered where they are received, but by what runs after the restart.   *)
(***************************************************************************)
EXTENDS Naturals

CONSTANTS
  Images,     \* the firmware files; their checksums are good
  Ours,       \* those with the machine tag of the device
  NumPages,   \* flash pages of an image
  MaxCuts,    \* bound: how often the power goes
  Torn        \* a page whose programming was cut short

ASSUME LifeAssumption ==
  /\ Ours \subseteq Images /\ NumPages \in Nat \ {0} /\ MaxCuts \in Nat
  /\ Torn \notin Images \X (0..NumPages - 1)

Pages == 0..NumPages - 1
Contents == (Images \X Pages) \cup {Torn}

VARIABLES
  line,      \* the command on the lines, "none" when CLK is high
  reply,     \* how the last command ended, until the Amiga takes it up
  got,       \* what the last read returned
  pc,        \* where the Amiga is
  file,      \* pablo: the image,
  flash,     \*   whether it is flashed or only verified,
  page,      \*   and the page at hand
  mode,      \* what the device does
  loader,    \* the device has a bootloader (AVR only)
  rom,       \* its flash
  pageAddr,  \* page_addr
  buf,       \* page_buf
  cuts       \* how often the power went

lines == <<line, reply, got>>
amiga == <<pc, file, flash, page>>
device == <<mode, loader, rom, pageAddr, buf>>
lifeVars == <<lines, amiga, device, cuts>>

Cmds == {"PING", "ID", "BOOTLOADER", "RESET", "KNOK", "INFO", "ADDR", "WRITE", "READ"}

(* "bootinit", "bootwait", "loader", "flashing": in the bootloader;        *)
(* "knokinit", "knok", "upload": in knok_main; "devinit", "app": after it. *)
(* "leaving": before hw_system_reset; "stuck": waiting for an edge of CLK. *)
Modes == {"reset", "bootinit", "bootwait", "loader", "flashing", "stuck",
          "knokinit", "knok", "upload", "devinit", "app", "leaving"}

(* Which command of pablo, or of a user of the device, is under way.       *)
PageLoop == {"info", "addr", "write", "reinfo", "vaddr", "vread"}
Session == {"session", "asked"}
PCs == {"idle", "init", "exit", "enter", "magic", "leave", "check"} \cup PageLoop \cup Session

(* pablo_check_rom_crc and the machine tag in the footer.  A mixture of    *)
(* images is taken to have a wrong checksum.                               *)
Holds(f) == rom = [p \in Pages |-> <<f, p>>]
AppIsValid == \E f \in Images : Holds(f) /\ f \in Ours

LifeInit ==
  /\ line = "none" /\ reply = "none" /\ got = Torn
  /\ pc = "idle" /\ file \in Images /\ flash = FALSE /\ page = 0
  /\ mode = "reset" /\ loader \in BOOLEAN /\ cuts = 0
  /\ pageAddr \in Pages /\ buf = Torn
  /\ \/ \E f \in Ours : Holds(f)
     \/ loader /\ rom = [p \in Pages |-> Torn]

----------------------------------------------------------------------------
(* Amiga *)

Send(cmd) == line' = cmd /\ reply' = "none" /\ UNCHANGED got

Proceed(next, cmd) == pc' = next /\ Send(cmd)

End == pc' = "idle" /\ line' = "none" /\ reply' = "none" /\ UNCHANGED <<got, page>>

(* proto_dev_init; its user's commands; proto_dev_exit                     *)
StartUser ==
  /\ pc = "idle" /\ Proceed("init", "RESET")
  /\ UNCHANGED <<file, flash, page, device, cuts>>

Ask ==
  /\ pc = "session"
  /\ \/ \E cmd \in {"PING", "ID"} : Proceed("asked", cmd)
     \/ Proceed("exit", "KNOK")
  /\ UNCHANGED <<file, flash, page, device, cuts>>

UserReturns ==
  /\ \/ /\ (pc = "init" /\ reply = "ok") \/ (pc = "asked" /\ reply # "none")
        /\ pc' = "session" /\ line' = "none" /\ reply' = "none" /\ UNCHANGED got
     \/ pc = "init" /\ reply = "timeout" /\ End
     \/ pc = "exit" /\ reply # "none" /\ End
  /\ UNCHANGED <<file, flash, page, device, cuts>>

(* bootloader_init; the file was loaded and checked before                 *)
StartPablo(f, fl) ==
  /\ pc = "idle" /\ Proceed("enter", "BOOTLOADER")
  /\ file' = f /\ flash' = fl /\ page' = 0
  /\ UNCHANGED <<device, cuts>>

(* The rest of bootloader_init, and bootloader_check_file.  Mutant: the    *)
(* firmware id is not compared.                                            *)
EnterAnyProgram ==
  /\ reply = "ok" /\ UNCHANGED page
  /\ \/ pc = "enter" /\ Proceed("magic", "ID")
     \/ pc = "magic" /\ Proceed("info", "INFO")
     \/ pc = "info" /\ file \in Ours /\ Proceed(IF flash THEN "addr" ELSE "vaddr", "ADDR")

Enter ==
  /\ reply = "ok" /\ UNCHANGED page
  /\ \/ pc = "enter" /\ Proceed("magic", "ID")
     \/ pc = "magic" /\ got = "loader" /\ Proceed("info", "INFO")
     \/ pc = "info" /\ file \in Ours /\ Proceed(IF flash THEN "addr" ELSE "vaddr", "ADDR")

(* Mutant: the loops end a page too early.                                 *)
LastPageEarly == page + 2 >= NumPages
LastPage == page + 1 = NumPages

(* bootloader_flash, and bootloader_update_fw_info after it                *)
FlashLoop ==
  /\ reply = "ok"
  /\ \/ pc = "addr" /\ Proceed("write", "WRITE") /\ UNCHANGED page
     \/ pc = "write" /\ ~LastPage /\ Proceed("addr", "ADDR") /\ page' = page + 1
     \/ pc = "write" /\ LastPage /\ Proceed("reinfo", "INFO") /\ page' = 0
     \/ pc = "reinfo" /\ Proceed("vaddr", "ADDR") /\ UNCHANGED page

Matches == got = <<file, page>>

(* bootloader_read with post_verify_func, bootloader_leave                 *)
VerifyLoop ==
  /\ reply = "ok"
  /\ \/ pc = "vaddr" /\ Proceed("vread", "READ") /\ UNCHANGED page
     \/ pc = "vread" /\ Matches /\ ~LastPage /\ Proceed("vaddr", "ADDR") /\ page' = page + 1
     \/ pc = "vread" /\ Matches /\ LastPage /\ Proceed("leave", "KNOK") /\ UNCHANGED page

(* bootloader_leave goes on, and ends well, whatever its commands return.  *)
Leave == pc = "leave" /\ reply # "none" /\ Proceed("check", "ID") /\ UNCHANGED page

(* Errors end pablo, in whatever state the device is; and it may stay in   *)
(* the bootloader on request.                                              *)
StopPablo ==
  /\ reply # "none" /\ End
  /\ \/ reply = "timeout" /\ pc \in {"enter", "magic"} \cup PageLoop
     \/ pc = "magic" /\ got # "loader"
     \/ pc = "info" /\ file \notin Ours
     \/ pc = "vread" /\ (Matches => LastPage)
     \/ pc = "check"

PabloReturns ==
  /\ Enter \/ FlashLoop \/ VerifyLoop \/ Leave \/ StopPablo
  /\ UNCHANGED <<file, flash, device, cuts>>

(* The timer of the call expires.                                          *)
GiveUp ==
  /\ line # "none" /\ line' = "none" /\ reply' = "timeout"
  /\ UNCHANGED <<got, amiga, device, cuts>>

(* The Amiga is rebooted.                                                  *)
Reboot == pc # "idle" /\ End /\ UNCHANGED <<file, flash, device, cuts>>

----------------------------------------------------------------------------
(* Firmware *)

Answer(g) == line' = "none" /\ reply' = "ok" /\ got' = g

Silent == UNCHANGED lines

Goto(m) == mode' = m /\ UNCHANGED <<rom, pageAddr, buf>>

(* The start-up code of the bootloader does not initialise its variables.  *)
Restart ==
  /\ mode = "reset" /\ mode' = IF loader THEN "bootinit" ELSE "knokinit"
  /\ pageAddr' \in Pages /\ buf' = Torn
  /\ UNCHANGED <<lines, rom>>

(* bootbase_main.  Mutant: the application is not checked.                 *)
BootInitUnchecked ==
  /\ mode = "bootinit"
  /\ IF line = "BOOTLOADER"
       THEN Answer(Torn) /\ Goto("loader")
       ELSE Silent /\ Goto("knokinit")

BootInit ==
  /\ mode = "bootinit"
  /\ IF line = "BOOTLOADER"
       THEN Answer(Torn) /\ Goto("loader")
       ELSE Silent /\ Goto(IF AppIsValid THEN "knokinit" ELSE "bootwait")

(* proto_boot_wait, which the watchdog of the AVR turns into restarts      *)
BootWait ==
  /\ mode = "bootwait"
  /\ IF line = "BOOTLOADER" THEN Answer(Torn) /\ Goto("loader") ELSE Silent /\ Goto("reset")

(* proto_dev_handle: the commands of any program, by firmware id.          *)
DevCommand(id) ==
  \/ line = "PING" /\ Answer(Torn) /\ UNCHANGED <<mode, rom, pageAddr, buf>>
  \/ line = "ID" /\ Answer(id) /\ UNCHANGED <<mode, rom, pageAddr, buf>>
  \/ line \in {"BOOTLOADER", "RESET"} /\ Silent /\ Goto("leaving")
  \/ line = "KNOK" /\ Answer(Torn) /\ Goto("leaving")

Leaving == mode = "leaving" /\ Silent /\ Goto("reset")

(* proto_boot_handle_cmd.  A block is acknowledged before it is flashed.   *)
LoaderCommand ==
  /\ mode = "loader"
  /\ \/ DevCommand("loader")
     \/ line = "INFO" /\ Answer(Torn) /\ UNCHANGED <<mode, rom, pageAddr, buf>>
     \/ line = "ADDR" /\ Answer(Torn) /\ pageAddr' = page /\ UNCHANGED <<mode, rom, buf>>
     \/ /\ line = "WRITE" /\ Answer(Torn)
        /\ buf' = <<file, page>> /\ mode' = "flashing" /\ UNCHANGED <<rom, pageAddr>>
     \/ /\ line = "READ" /\ Answer(rom[pageAddr])
        /\ buf' = rom[pageAddr] /\ UNCHANGED <<mode, rom, pageAddr>>

(* proto_boot_api_flash_page                                               *)
FlashPage ==
  /\ mode = "flashing" /\ mode' = "loader"
  /\ rom' = [rom EXCEPT ![pageAddr] = buf]
  /\ UNCHANGED <<lines, pageAddr, buf>>

(* A command whose Amiga gives up while it is taken up leaves the firmware *)
(* waiting (ProtoTimeout); in the bootloader the watchdog ends that.       *)
Watchdog == mode = "stuck" /\ Silent /\ Goto("reset")

(* knok_main: the test at its start.  (Mutant: it is left out.)            *)
KnokInitAlways == mode = "knokinit" /\ Silent /\ Goto("knok")

KnokInit ==
  /\ mode = "knokinit" /\ Silent
  /\ Goto(IF line \in {"RESET", "BOOTLOADER"} THEN "devinit" ELSE "knok")

(* Mutant: only RESET leaves the loop.                                     *)
KnokOnReset == mode = "knok" /\ line = "RESET" /\ Silent /\ Goto("reset")

KnokBails == mode = "knok" /\ line \in {"RESET", "BOOTLOADER"} /\ Silent /\ Goto("reset")

(* A key arrives; the upload ends by itself or is given up.                *)
Key == mode = "knok" /\ line = "none" /\ Silent /\ Goto("upload")
UploadEnds == mode = "upload" /\ Silent /\ Goto("knok")

(* proto_dev_init after knok_main                                          *)
DevInit ==
  /\ mode = "devinit"
  /\ IF line \in {"RESET", "BOOTLOADER"}
       THEN Answer(Torn) /\ Goto("app")
       ELSE Silent /\ Goto("reset")

AppCommand == mode = "app" /\ DevCommand("app")

----------------------------------------------------------------------------
DeviceStep ==
  /\ \/ Restart \/ BootInit \/ BootWait \/ LoaderCommand \/ FlashPage \/ Watchdog
     \/ KnokInit \/ KnokBails \/ UploadEnds \/ DevInit \/ AppCommand \/ Leaving
  /\ UNCHANGED <<amiga, loader, cuts>>

GiveUpLate ==
  /\ mode = "loader" /\ line # "none"
  /\ line' = "none" /\ reply' = "timeout" /\ Goto("stuck")
  /\ UNCHANGED <<got, amiga, loader, cuts>>

KeyArrives == Key /\ UNCHANGED <<amiga, loader, cuts>>

PowerCut ==
  /\ cuts < MaxCuts /\ cuts' = cuts + 1
  /\ mode' = "reset" /\ pageAddr' \in Pages /\ buf' = Torn
  /\ \/ UNCHANGED rom
     \/ mode = "flashing" /\ rom' = [rom EXCEPT ![pageAddr] = Torn]
  /\ UNCHANGED <<lines, amiga, loader>>

AmigaStep ==
  \/ StartUser \/ Ask \/ UserReturns \/ PabloReturns \/ Reboot
  \/ \E f \in Images, fl \in BOOLEAN : StartPablo(f, fl)

LifeNext == DeviceStep \/ KeyArrives \/ AmigaStep \/ GiveUp \/ GiveUpLate \/ PowerCut

LifeSpec == LifeInit /\ [][LifeNext]_lifeVars

(* The firmware runs; the Amiga need not do anything, nor give up.         *)
FairLifeSpec == LifeSpec /\ WF_lifeVars(DeviceStep)

----------------------------------------------------------------------------
(* Properties *)

(* An application runs only if the flash holds one complete image for this *)
(* machine, whatever was flashed, aborted or cut short before.             *)
OnlyWholeImagesRun == mode \in {"knokinit", "knok", "upload", "devinit", "app"} => AppIsValid

(* pablo only says that a file was verified when the device has it, page   *)
(* for page, restarts of the device in the middle included.                *)
VerifiedMeansFlashed == pc \in {"leave", "check"} => Holds(file)

(* The page commands of pablo, which an application would take for channel *)
(* commands, never reach one, and a driver's session never a bootloader,   *)
(* whatever timed out or lost power on the way.                            *)
RightProgram ==
  /\ pc \in PageLoop /\ line # "none" => mode # "app"
  /\ pc \in Session => mode \notin {"loader", "flashing"}

(* BOOTLOADER is answered, whatever the device did and has in its flash,   *)
(* if the Amiga waits: no device needs another way in.                     *)
BootloaderAnswers == line = "BOOTLOADER" ~> line # "BOOTLOADER"

(* RESET is answered if there is an application.                           *)
ResetAnswers == line = "RESET" /\ AppIsValid /\ mode # "flashing" ~> line # "RESET"
=============================================================================
