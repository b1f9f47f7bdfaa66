---------------------------------- MODULE Boots ----------------------------------
(***************************************************************************)
(* What a device knows of its own past when it boots: the crashes that led *)
(* to the boot, counted in RAM that is not initialized; the count of its   *)
(* boots, in NVS; and the core dump of a crash, reported in BOOT once, with*)
(* the firmware that crashed.                                              *)
(***************************************************************************)
EXTENDS Naturals, Sequences, FiniteSets

CONSTANT MaxBoots              \* bound

ASSUME BootsAssumption == MaxBoots \in Nat

Firmware == {"old", "new"}
Reasons == {"power on", "panic", "watchdog", "brownout", "software", "deep sleep"}
isCrash(r) == r \in {"panic", "watchdog"}
NoDump == [by |-> "none", sound |-> TRUE, switched |-> FALSE]
NoReport == [blames |-> "none", by |-> "none", switched |-> FALSE]

VARIABLES
  reason, boot,              \* esp_reset_reason(), and how far the boot is
  magic, crashCount,         \* CrashCounter::state
  consecutiveCrashes,        \* what recordBoot() returned
  crashLoop,                 \* the boots in a row, of those recorded, that a crash led to
  nvsCount, bootCount,       \* "count" in NVS, and what this boot got
  told, reused,              \* the counts of the boots since NVS was last erased; one was had twice
  unwritten,                 \* NVS failed, or was edited, since
  firmware, ota,             \* what runs; what the bootloader knows of it
  pending,                   \* an update is to be installed, from a command
  rollback,                  \* the version detectAndClearRollback() found
  dump,                      \* the core dump, and whether a switch of the firmware was unreported since
  report,                    \* "crash" in BOOT
  bootsLeft

bootVars == <<reason, boot, magic, crashCount, consecutiveCrashes, crashLoop, nvsCount, bootCount, told, reused,
              unwritten, firmware, ota, pending, rollback, dump, report, bootsLeft>>

BootsInit ==
  /\ reason = "power on" /\ boot = "reset" /\ magic = FALSE /\ crashCount = 0
  /\ consecutiveCrashes = 0 /\ crashLoop = 0
  /\ nvsCount = 0 /\ bootCount = 0 /\ told = {} /\ reused = FALSE /\ unwritten = FALSE
  /\ firmware = "old" /\ ota = "stable" /\ pending = FALSE /\ rollback = "none"
  /\ dump = NoDump /\ report = NoReport /\ bootsLeft = MaxBoots

-----------------------------------------------------------------------------
(* Resets.                                                                 *)

\* .noinit RAM stays through a crash and a restart; a power cycle and deep sleep lose it, a brownout may.
KeepsRam(r) == IF r = "brownout" THEN BOOLEAN ELSE {isCrash(r) \/ r = "software"}

\* A firmware that is reset before it is confirmed is given up for the one before it.
Reset(r, from) ==
  /\ bootsLeft > 0 /\ bootsLeft' = bootsLeft - 1
  /\ reason' = r /\ boot' = "reset" /\ report' = NoReport /\ rollback' = "none"
  /\ consecutiveCrashes' = 0 /\ bootCount' = 0
  /\ \E kept \in KeepsRam(r): magic' = (magic /\ kept)
  /\ IF from.ota = "installed" THEN firmware' = "new" /\ ota' = "unconfirmed"
     ELSE IF from.ota = "unconfirmed" THEN firmware' = "old" /\ ota' = "failed"
     ELSE firmware' = from.firmware /\ ota' = from.ota

\* The dump, if a switch of the firmware goes unreported or not.
StoredThrough(switch) == IF dump.by = "none" THEN dump ELSE [dump EXCEPT !.switched = @ \/ switch]

\* A panic, or the watchdog, leaves a core dump, in the place of any before it.
Crash ==
  /\ \E r \in {"panic", "watchdog"}: Reset(r, [firmware |-> firmware, ota |-> ota])
  /\ \E sound \in BOOLEAN: dump' = [by |-> firmware, sound |-> sound, switched |-> ota = "failed"]
  /\ crashLoop' = crashLoop
  /\ UNCHANGED <<crashCount, nvsCount, told, reused, unwritten, pending>>

\* Power comes and goes; the battery is low and the device sleeps; the sleep command.
LosePower ==
  /\ \E r \in {"power on", "brownout", "deep sleep"}: Reset(r, [firmware |-> firmware, ota |-> ota])
  /\ dump' = StoredThrough(ota = "unconfirmed" \/ rollback # "none")
  /\ crashLoop' = IF reason' = "brownout" /\ magic' THEN crashLoop ELSE 0
  /\ UNCHANGED <<crashCount, nvsCount, told, reused, unwritten, pending>>

\* delayedRestart(): a command, a configuration that failed, a reset of the network's settings. A factory
\* reset erases NVS first.
performFactoryReset(erase) ==
  /\ nvsCount' = IF erase THEN 0 ELSE nvsCount
  /\ told' = IF erase THEN {} ELSE told
  /\ reused' = (reused /\ ~erase)
  /\ unwritten' = (unwritten /\ ~erase)
  /\ pending' = (pending /\ ~erase)
delayedRestart ==
  /\ boot \in {"updated", "published", "ready"}
  /\ Reset("software", [firmware |-> firmware, ota |-> ota])
  /\ \E erase \in {FALSE, boot # "updated"}: performFactoryReset(erase)
  /\ dump' = StoredThrough(ota = "unconfirmed" \/ rollback # "none")
  /\ UNCHANGED <<crashCount, crashLoop>>

-----------------------------------------------------------------------------
(* The boot.                                                               *)

\* CrashCounter::recordBoot, first of all.
Counted(r) == IF isCrash(r) THEN (IF magic THEN crashCount ELSE 0) + 1 ELSE 0
RecordCrashes ==
  /\ boot = "reset" /\ boot' = "crashes"
  /\ consecutiveCrashes' = Counted(reason)
  /\ magic' = TRUE /\ crashCount' = consecutiveCrashes'
  /\ crashLoop' = IF isCrash(reason) THEN crashLoop + 1 ELSE 0
  /\ UNCHANGED <<reason, nvsCount, bootCount, told, reused, unwritten, firmware, ota, pending, rollback, dump, report, bootsLeft>>

\* STABLE_UPTIME: the timer set at a boot after a crash, wherever the boot is by then.
StayUp ==
  /\ boot # "reset" /\ crashCount > 0
  /\ crashCount' = 0 /\ crashLoop' = 0
  /\ UNCHANGED <<reason, boot, magic, consecutiveCrashes, nvsCount, bootCount, told, reused, unwritten, firmware, ota, pending,
                 rollback, dump, report, bootsLeft>>

\* BootCounter::recordBoot, after initNvsFlash(), which erases NVS that cannot be used: it cannot be opened,
\* or is read, or not, and written, or not.
NextCount(read) == (IF read THEN nvsCount ELSE 0) + 1
RecordBoot ==
  /\ boot = "crashes" /\ boot' = "counted"
  /\ \/ /\ bootCount' = 0 /\ UNCHANGED <<nvsCount, told, reused, unwritten, pending>>
     \/ /\ nvsCount' = 1 /\ bootCount' = 1 /\ told' = {1} /\ reused' = FALSE /\ unwritten' = FALSE /\ pending' = FALSE
     \/ \E read, written \in BOOLEAN:
          /\ bootCount' = NextCount(read)
          /\ nvsCount' = IF written THEN bootCount' ELSE nvsCount
          /\ told' = told \cup {bootCount'} /\ reused' = (reused \/ bootCount' \in told)
          /\ unwritten' = (unwritten \/ ~read \/ ~written)
          /\ UNCHANGED pending
  /\ UNCHANGED <<reason, magic, crashCount, consecutiveCrashes, crashLoop, firmware, ota, rollback, dump, report,
                 bootsLeft>>

\* performPendingHttpUpdateIfNecessary(): it restarts into what it installed, and without it if it failed.
InstallUpdate ==
  /\ boot = "counted" /\ pending
  /\ \E installed \in {FALSE, firmware = "old"}:
       /\ Reset("software", [firmware |-> firmware, ota |-> IF installed THEN "installed" ELSE ota])
       /\ dump' = StoredThrough(installed \/ ota = "unconfirmed")
  /\ pending' = FALSE
  /\ UNCHANGED <<crashCount, crashLoop, nvsCount, told, reused, unwritten>>

\* detectAndClearRollback().
DetectRollback ==
  /\ boot = "counted" /\ ~pending /\ boot' = "updated"
  /\ IF ota = "failed" THEN rollback' = "new" /\ ota' = "stable" ELSE UNCHANGED <<rollback, ota>>
  /\ UNCHANGED <<reason, magic, crashCount, consecutiveCrashes, crashLoop, nvsCount, bootCount, told, reused, unwritten, firmware,
                 pending, dump, report, bootsLeft>>

\* publishBootMessage(), and in it handleCrashReport(): the dump is erased, whether it could be reported or
\* not; or that fails, and it is there to be reported at the next boot.
Blamed == IF rollback # "none" THEN rollback ELSE firmware
publishBootMessage ==
  /\ boot = "updated" /\ boot' = "published"
  /\ report' \in {NoReport} \cup
       (IF dump.by # "none" /\ dump.sound THEN {[blames |-> Blamed, by |-> dump.by, switched |-> dump.switched]} ELSE {})
  /\ dump' \in {NoDump, dump}
  /\ UNCHANGED <<reason, magic, crashCount, consecutiveCrashes, crashLoop, nvsCount, bootCount, told, reused, unwritten, firmware,
                 ota, pending, rollback, bootsLeft>>

\* kernelReady is set, and the firmware confirmed.
confirmFirmwareValid ==
  /\ boot = "published" /\ boot' = "ready"
  /\ ota' = IF ota = "unconfirmed" THEN "stable" ELSE ota
  /\ UNCHANGED <<reason, magic, crashCount, consecutiveCrashes, crashLoop, nvsCount, bootCount, told, reused, unwritten, firmware,
                 pending, rollback, dump, report, bootsLeft>>

\* The commands that are served from here on: an update, and edits of NVS.
Command ==
  /\ boot \in {"updated", "published", "ready"}
  /\ \/ /\ ~pending /\ pending' = TRUE /\ UNCHANGED <<nvsCount, unwritten>>
     \/ /\ ~unwritten /\ unwritten' = TRUE /\ nvsCount' \in 0..nvsCount /\ UNCHANGED pending
  /\ UNCHANGED <<reason, boot, magic, crashCount, consecutiveCrashes, crashLoop, bootCount, told, reused, firmware, ota, rollback,
                 dump, report, bootsLeft>>

BootsNext ==
  \/ Crash \/ LosePower \/ delayedRestart \/ RecordCrashes \/ StayUp \/ RecordBoot \/ InstallUpdate \/ DetectRollback
  \/ publishBootMessage \/ confirmFirmwareValid \/ Command

-----------------------------------------------------------------------------
(* Properties.                                                             *)

BootsTypeOK ==
  /\ reason \in Reasons /\ boot \in {"reset", "crashes", "counted", "updated", "published", "ready"}
  /\ crashCount \in 0..MaxBoots /\ nvsCount \in 0..MaxBoots + 1 /\ told \subseteq 1..MaxBoots + 1
  /\ firmware \in Firmware /\ ota \in {"stable", "installed", "unconfirmed", "failed"}
  /\ dump.by \in Firmware \cup {"none"}

\* The boot is told how many crashes in a row led to it, whatever RAM held after a power cycle, and a
\* device that stays up, for however little of its boot, is out of the loop (CrashCounter.hpp:31-63).
CrashesCounted ==
  boot # "reset" =>
    /\ magic /\ crashCount = crashLoop /\ crashLoop \in {0, consecutiveCrashes}
    /\ ~isCrash(reason) => consecutiveCrashes = 0

\* No two boots have one count while NVS works and is not edited (BootCounter.hpp:27-59).
BootsToldApart == reused => unwritten

\* A crash is blamed on the firmware that crashed, at each boot that finds its dump, unless the firmware
\* was switched, by an update or a rollback, while the dump was there or the rollback was yet to be
\* reported (CrashManager.hpp:37-62, Device.hpp:240-255).
RightlyBlamed == report.blames # report.by => report.switched

BootsSound == CrashesCounted /\ BootsToldApart /\ RightlyBlamed

=============================================================================
