------------------------------ MODULE Recovery ------------------------------
(***************************************************************************)
(* The recovery program, recovery/main.c: it takes its orders from the     *)
(* bootloader control block (BCB) of the /misc partition or from           *)
(* /cache/recovery/command, erases volumes, clears the orders and reboots. *)
(* What is on flash survives a power loss, which may come between any two  *)
(* steps; the program's variables do not.                                  *)
(***************************************************************************)
EXTENDS Naturals, Sequences, SequencesExt

CONSTANTS
    Fstab,          \* the volumes of recovery.fstab, in its order
    Wipe,           \* those with '1' in the wipe column
    CACHE,          \* the volume that holds /cache/recovery/command
    SDCARD,
    Devices,        \* the devices and troubles that are looked at, see device
    KeepsMode,      \* whether the bootloader may keep, or not, a stored reboot mode
    Requests        \* the command lines the main system may leave

ASSUME FstabAssumption ==
    /\ Fstab \in Seq(ToSet(Fstab))
    /\ {CACHE, SDCARD} \cup Wipe \subseteq ToSet(Fstab) /\ SDCARD \notin Wipe
ASSUME DeviceAssumption ==
    Devices \subseteq [misc : {"none", "mtd", "emmc"}, faults : BOOLEAN, disturbances : Nat]
ASSUME ModeAssumption == KeepsMode \subseteq BOOLEAN

VARIABLES
    bcb,            \* struct bootloader_message in /misc: is it "boot-recovery",
                    \* and its recovery arguments
    command,        \* arguments in /cache/recovery/command
    reboot_mode,    \* __REBOOT_MODE in the parameter block of the bootloader
    volume,         \* what is on each volume: "user" data, "blank", or "torn": power was
                    \* lost while it was formatted, and it cannot be mounted
    pc, args, index, failed,    \* the run of the program
    asked,          \* history: arguments requested and not yet carried out
    began,          \* history: get_args has recorded --wipe_data, and the record was not
                    \* erased since to be written anew
    told,           \* history: "Data partially wiped" was shown
    disturbances,
    device          \* the device of this behaviour: misc is the fs_type of /misc or "none"
                    \* when it is not in the fstab, faults whether mounting, unmounting,
                    \* formatting and writing an erased flash block may fail (a /misc that
                    \* cannot be read, or opened for writing, is like one that is missing),
                    \* disturbances bounds the power losses, boots with the keys held and
                    \* menu choices

flash == <<bcb, command, reboot_mode, volume>>
run == <<args, index, failed>>
history == <<asked, began, told, disturbances, device>>
vars == <<flash, pc, run, history>>

Trouble == disturbances < device.disturbances /\ disturbances' = disturbances + 1

Arguments == {"wipe_data", "wipe_cache", "update_package", "send_intent"}

ASSUME RequestsAssumption == Requests \subseteq SUBSET Arguments

Volumes == ToSet(Fstab)

\* The array index of foreach_volume that has no next entry.
Past == Len(Fstab) + 1

CLEAR == [boot |-> FALSE, args |-> {}]

Goes(from, to) == pc = from /\ pc' = to

-----------------------------------------------------------------------------
(***************************************************************************)
(* The main system, as far as recovery sees it: it leaves a command in     *)
(* /cache and restarts with the argument "recovery", which the kernel's    *)
(* reboot notifier stores; it fills the volumes it finds empty.            *)
(***************************************************************************)
MainRequests(request) ==
    /\ pc = "main" /\ asked = {} /\ volume[CACHE] # "torn"
    /\ command' = request /\ asked' = request
    /\ began' = FALSE /\ told' = FALSE
    /\ UNCHANGED <<bcb, reboot_mode, volume, pc, run, disturbances, device>>

MainReboots ==
    /\ Goes("main", "off") /\ asked # {}
    /\ reboot_mode' = "recovery"
    /\ UNCHANGED <<bcb, command, volume, run, history>>

MainUses ==
    /\ pc = "main" /\ \E v \in Volumes : volume[v] = "blank"
    /\ volume' = [v \in Volumes |-> IF volume[v] = "blank" THEN "user" ELSE volume[v]]
    /\ began' = FALSE /\ told' = FALSE
    /\ UNCHANGED <<bcb, command, reboot_mode, pc, run, asked, disturbances, device>>

(***************************************************************************)
(* The bootloader starts recovery when the BCB, the stored reboot mode or  *)
(* the user's keys say so.  It is not in the repository: it may keep the   *)
(* mode until the kernel stores another, or clear it.                      *)
(***************************************************************************)
IntoRecovery == bcb.boot \/ reboot_mode = "recovery"

Boots(keys) ==
    /\ Goes("off", IF IntoRecovery \/ keys THEN "get_args" ELSE "main")
    /\ IF keys THEN Trouble ELSE UNCHANGED disturbances
    /\ \E keeps \in KeepsMode : reboot_mode' = IF keeps THEN reboot_mode ELSE "none"
    /\ UNCHANGED <<bcb, command, volume, run, asked, began, told, device>>

\* Stopped while formatting a volume, it leaves the old content or a torn one.
Formatting(v) ==
    \/ pc = "formatting" /\ v = Fstab[index]
    \/ pc = "formatting_cache" /\ v = CACHE

FailedFormat(v) ==
    \/ volume' = volume
    \/ Formatting(v) /\ volume' = [volume EXCEPT ![v] = "torn"]

PowerLoss ==
    /\ pc # "off" /\ pc' = "off" /\ Trouble
    /\ \E v \in Volumes : FailedFormat(v)
    /\ args' = {} /\ index' = 1 /\ failed' = FALSE
    /\ UNCHANGED <<bcb, command, reboot_mode, asked, began, told, device>>

-----------------------------------------------------------------------------
\* A block device takes the message at once; closing it writes it out.
set_bootloader_message_block(from, to, message) == Goes(from, to) /\ bcb' = message

\* write_block erases the flash block before it writes it; an erased block, all
\* ones, reads as no message.  When writing or verifying fails twice the block is
\* erased once more and skipped, and the caller goes on all the same.
set_bootloader_message_mtd(from, erased, to, message) ==
    \/ Goes(from, erased) /\ bcb' = CLEAR
    \/ Goes(erased, to) /\ bcb' = message
    \/ device.faults /\ Goes(erased, to) /\ bcb' = CLEAR

set_bootloader_message(from, erased, to, message) ==
    \/ device.misc = "none" /\ Goes(from, to) /\ UNCHANGED bcb
    \/ device.misc = "emmc" /\ set_bootloader_message_block(from, to, message)
    \/ device.misc = "mtd" /\ set_bootloader_message_mtd(from, erased, to, message)

\* fopen_path(COMMAND_FILE): mounts /cache if it can.
CommandFile == IF volume[CACHE] = "torn" THEN {} ELSE command

\* The BCB's arguments, or else those of the command file.
get_args == IF bcb.args # {} THEN bcb.args ELSE CommandFile

ReadArgs ==
    /\ Goes("get_args", "set_bcb")
    /\ \/ args' = get_args
       \/ device.faults /\ args' = bcb.args      \* /cache did not mount
    /\ UNCHANGED <<flash, index, failed, history>>

\* The message is in the BCB, now or from an earlier run.
Recorded == pc' = "dispatch" /\ (began \/ (bcb'.boot /\ "wipe_data" \in args))

RecordArgs_unrecorded ==
    /\ set_bootloader_message("set_bcb", "erased_misc", "dispatch", [boot |-> TRUE, args |-> {}])
    /\ began' = Recorded
    /\ UNCHANGED <<command, reboot_mode, volume, run, asked, told, disturbances, device>>

RecordArgs ==
    /\ set_bootloader_message("set_bcb", "erased_misc", "dispatch",
                              [boot |-> TRUE, args |-> args])
    /\ began' = Recorded
    /\ UNCHANGED <<command, reboot_mode, volume, run, asked, told, disturbances, device>>

(***************************************************************************)
(* main: --wipe_data, then --wipe_cache; the menu only without either.     *)
(* --update_package is parsed and not looked at again.                     *)
(***************************************************************************)
AfterWipeData == IF "wipe_cache" \in args THEN "wipe_cache" ELSE "finish"
Dispatch ==
    /\ pc = "dispatch"
    /\ pc' = IF "wipe_data" \in args THEN "wipe_volume"
             ELSE IF "wipe_cache" \in args THEN "wipe_cache" ELSE "menu"
    /\ UNCHANGED <<flash, run, history>>

\* From the menu the user may wipe or leave.  Its other orders are not modelled: they
\* flash packages, delete the Dalvik cache and battery statistics (menu-wipe.c:89-92), and
\* convert, format and restore volumes (menu-volumemanagement.c:490, 669, 882).
Menu ==
    /\ \/ Goes("menu", "wipe_volume") /\ asked' = asked \cup {"wipe_data"}
       \/ Goes("menu", "wipe_cache") /\ asked' = asked \cup {"wipe_cache"}
    /\ Trouble
    /\ index' = 1 /\ failed' = FALSE
    /\ UNCHANGED <<flash, args, began, told, device>>

MenuExit == Goes("menu", "finish") /\ UNCHANGED <<flash, run, history>>

-----------------------------------------------------------------------------
(***************************************************************************)
(* cmd_wipe_device.  wipe_volume mounts the volume to learn which file     *)
(* system to make; a volume that cannot be mounted, unmounted or formatted *)
(* is passed over and remembered in failed.                                *)
(***************************************************************************)
Wiped(v) == [volume EXCEPT ![v] = "blank"]

\* Formatting /cache removes the command file.
CommandAfterWipe(v) == IF v = CACHE THEN {} ELSE command

NextVolume == index' = index + 1 /\ UNCHANGED <<bcb, reboot_mode, args, history>>

SkipVolume ==
    /\ pc = "wipe_volume" /\ index < Past /\ Fstab[index] \notin Wipe
    /\ NextVolume /\ UNCHANGED <<command, volume, pc, failed>>

WipeFails ==
    /\ pc \in {"wipe_volume", "formatting"} /\ index < Past /\ Fstab[index] \in Wipe
    /\ volume[Fstab[index]] = "torn" \/ device.faults
    /\ pc' = "wipe_volume" /\ FailedFormat(Fstab[index]) /\ failed' = TRUE
    /\ NextVolume /\ UNCHANGED command

\* volume_stats mounts the volume to look, and format_volume unmounts it.
FormatBegins ==
    /\ Goes("wipe_volume", "formatting")
    /\ index < Past /\ Fstab[index] \in Wipe /\ volume[Fstab[index]] # "torn"
    /\ UNCHANGED <<flash, run, history>>

format_volume ==
    /\ Goes("formatting", "wipe_volume")
    /\ volume' = Wiped(Fstab[index])
    /\ command' = CommandAfterWipe(Fstab[index])
    /\ NextVolume /\ UNCHANGED failed

\* When the menu asked, the program goes back to it.
Back == IF {"wipe_data", "wipe_cache"} \cap args = {} THEN "menu" ELSE AfterWipeData

VolumesDone ==
    /\ Goes("wipe_volume", "sdcard") /\ index = Past
    /\ UNCHANGED <<flash, run, history>>

\* The application directories of the card are removed, if it can be mounted;
\* then the user is told whether anything failed.
CleanSdcard ==
    /\ Goes("sdcard", Back) /\ index' = 1
    /\ \/ volume' = Wiped(SDCARD) /\ UNCHANGED failed
       \/ device.faults /\ failed' = TRUE /\ UNCHANGED volume
    /\ told' = (told \/ failed')
    /\ UNCHANGED <<bcb, command, reboot_mode, args, asked, began, disturbances, device>>

(***************************************************************************)
(* cmd_wipe_cache: the same for /cache alone; its failure is only logged.  *)
(***************************************************************************)
AfterWipeCache == IF Back = "menu" THEN "menu" ELSE "finish"

WipeCacheBegins ==
    /\ Goes("wipe_cache", "formatting_cache") /\ volume[CACHE] # "torn"
    /\ UNCHANGED <<flash, run, history>>

WipeCacheFails ==
    /\ pc \in {"wipe_cache", "formatting_cache"}
    /\ volume[CACHE] = "torn" \/ device.faults
    /\ pc' = AfterWipeCache /\ FailedFormat(CACHE)
    /\ UNCHANGED <<bcb, command, reboot_mode, run, history>>

WipeCacheEnds ==
    /\ Goes("formatting_cache", AfterWipeCache)
    /\ volume' = Wiped(CACHE) /\ command' = {}
    /\ UNCHANGED <<bcb, reboot_mode, run, history>>

-----------------------------------------------------------------------------
(***************************************************************************)
(* finish_recovery clears the BCB, unlinks the command file, which is on   *)
(* flash only after sync(), and main reboots.  The reboot notifier of the  *)
(* kernel, given no argument, stores the mode "none".                      *)
(***************************************************************************)
FinishClears_command_kept ==
    /\ set_bootloader_message("finish", "erasing_misc", "unlink", [bcb EXCEPT !.boot = FALSE])
    /\ asked' = IF pc' = "unlink" THEN {} ELSE asked
    /\ UNCHANGED <<command, reboot_mode, volume, run, began, told, disturbances, device>>

FinishClears_not_at_all ==
    /\ Goes("finish", "unlink") /\ asked' = {}
    /\ UNCHANGED <<flash, run, began, told, disturbances, device>>

FinishClears ==
    /\ set_bootloader_message("finish", "erasing_misc", "unlink", CLEAR)
    /\ asked' = IF pc' = "unlink" THEN {} ELSE asked
    /\ UNCHANGED <<command, reboot_mode, volume, run, began, told, disturbances, device>>

FinishUnlinks ==
    /\ Goes("unlink", "reboot")
    /\ \/ volume[CACHE] # "torn" /\ command' = {}
       \/ (volume[CACHE] = "torn" \/ device.faults) /\ UNCHANGED command
    /\ UNCHANGED <<bcb, reboot_mode, volume, run, history>>

Reboot ==
    /\ Goes("reboot", "off")
    /\ reboot_mode' = "none" /\ args' = {} /\ index' = 1 /\ failed' = FALSE
    /\ UNCHANGED <<bcb, command, volume, history>>

-----------------------------------------------------------------------------
Init ==
    /\ bcb = CLEAR /\ command = {} /\ reboot_mode = "none"
    /\ volume = [v \in Volumes |-> "user"]
    /\ pc = "main" /\ args = {} /\ index = 1 /\ failed = FALSE
    /\ asked = {} /\ began = FALSE /\ told = FALSE
    /\ disturbances = 0 /\ device \in Devices

\* What runs to its end by itself once the device is on.
Program ==
    \/ Boots(FALSE)
    \/ ReadArgs \/ RecordArgs \/ Dispatch
    \/ SkipVolume \/ WipeFails \/ FormatBegins \/ format_volume \/ VolumesDone
    \/ CleanSdcard \/ WipeCacheBegins \/ WipeCacheFails \/ WipeCacheEnds
    \/ FinishClears \/ FinishUnlinks \/ Reboot

Surroundings ==
    \/ \E request \in Requests : MainRequests(request)
    \/ MainReboots \/ MainUses \/ Boots(TRUE) \/ PowerLoss \/ Menu

Next == Program \/ Surroundings \/ MenuExit

Spec == Init /\ [][Next]_vars

\* The processor runs the program, and the user leaves the menu some time.
FairSpec == Spec /\ WF_vars(Program) /\ WF_vars(MenuExit)

-----------------------------------------------------------------------------
(***************************************************************************)
(* "after this, rebooting will restart the erase" (main.c:87): once        *)
(* get_args has recorded --wipe_data the main system runs again only when  *)
(* no volume to be wiped has its old content, or the user was told that    *)
(* the wipe was partial, wherever power was lost in between, on a device   *)
(* that has a /misc to record it in.  A restarted recovery records the     *)
(* erase again; on raw flash a power loss between erasing and writing that *)
(* block (mtdutils.c:433) loses the record, and began ends there.          *)
(***************************************************************************)
ErasedUnlessReported ==
    device.misc # "none" /\ pc = "main" /\ began /\ ~told => \A v \in Wipe : volume[v] # "user"

(***************************************************************************)
(* "Remove the command file, so recovery won't repeat" (main.c:326): data  *)
(* is only erased by a request that is not yet carried out; no BCB and no  *)
(* command file left from an earlier one starts it again.  On devices      *)
(* without faults: there mounting /cache, and so removing the file, only   *)
(* fails when a power loss has torn it.                                    *)
(***************************************************************************)
MayErase ==
    (IF "wipe_data" \in asked THEN Wipe \cup {SDCARD} ELSE {})
    \cup (IF "wipe_cache" \in asked THEN {CACHE} ELSE {})

OnlyWhatWasAsked ==
    [][\A v \in Volumes : ~device.faults /\ volume[v] = "user" /\ volume'[v] # "user" => v \in MayErase]_vars

(***************************************************************************)
(* "Reset to mormal system boot so recovery won't cycle indefinitely"      *)
(* (main.c:321): whatever recovery was asked and wherever power was lost,  *)
(* the main system comes up again.                                         *)
(***************************************************************************)
RecoveryEnds == (pc # "main") ~> (pc = "main")
=============================================================================
