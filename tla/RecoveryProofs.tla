--------------------------- MODULE RecoveryProofs ---------------------------
(***************************************************************************)
(* The recovery program for any recovery.fstab and any number of power     *)
(* losses: an erase that get_args has recorded is carried out, or its      *)
(* failure shown, before the main system runs again; and nothing is erased *)
(* that was not asked for.                                                 *)
(***************************************************************************)
EXTENDS Recovery, TLAPS

Contents == {"user", "blank", "torn"}

RecoveryTypeInv ==
    /\ bcb \in [boot : BOOLEAN, args : SUBSET Arguments]
    /\ command \in SUBSET Arguments
    /\ volume \in [Volumes -> Contents]
    /\ args \in SUBSET Arguments /\ asked \in SUBSET Arguments
    /\ index \in 1 .. Past
    /\ failed \in BOOLEAN /\ began \in BOOLEAN /\ told \in BOOLEAN
    /\ disturbances \in Nat
    /\ device \in Devices

\* Where the program has not begun to wipe.
BeforeWipe == {"main", "off", "get_args", "set_bcb", "erased_misc", "dispatch"}
Wiping == {"wipe_volume", "formatting", "sdcard"}

(***************************************************************************)
(* The loop of cmd_wipe_device: what it has passed is erased, or failed    *)
(* is set.                                                                 *)
(***************************************************************************)
LoopInv ==
    /\ pc \in BeforeWipe => index = 1 /\ ~failed
    /\ pc = "formatting" => index < Past /\ Fstab[index] \in Wipe
    /\ pc = "sdcard" => index = Past
    /\ pc \in Wiping =>
          failed \/ \A i \in 1 .. index - 1 : Fstab[i] \in Wipe => volume[Fstab[i]] # "user"

\* A recorded erase that is neither carried out nor reported.
Owed == device.misc # "none" /\ began /\ ~told /\ \E v \in Wipe : volume[v] = "user"

(***************************************************************************)
(* While it is owed the BCB holds it, so that every boot comes back to it. *)
(***************************************************************************)
OwedInv ==
    Owed =>
      /\ pc \in {"off", "get_args", "set_bcb", "dispatch"} \cup Wiping
      /\ bcb.boot /\ "wipe_data" \in bcb.args
      /\ pc \in {"set_bcb", "dispatch"} => "wipe_data" \in args

EraseInv == RecoveryTypeInv /\ LoopInv /\ OwedInv

-----------------------------------------------------------------------------
\* The arguments that erase something.
Erasing(arguments) == arguments \cap {"wipe_data", "wipe_cache"}

Running == {"set_bcb", "erased_misc", "dispatch", "wipe_cache", "formatting_cache", "menu",
            "finish", "erasing_misc"} \cup Wiping

(***************************************************************************)
(* The orders on flash and those of the run are orders still to be carried *)
(* out; the command file says the same as the BCB, or has been erased with *)
(* /cache, or cannot be read any more.                                     *)
(***************************************************************************)
OrdersInv ==
    /\ bcb.args # {} => bcb.boot
    /\ pc = "main" => ~bcb.boot
    /\ device.misc = "none" => bcb = CLEAR
    /\ Erasing(bcb.args) \subseteq asked
    /\ Erasing(CommandFile) \subseteq asked
    /\ bcb.args # {} => CommandFile \in {{}, bcb.args}
    /\ pc \in Running => Erasing(args) \subseteq asked /\ CommandFile \in {{}, args}

\* What the steps that erase rely on, and that the file is gone at the end.
WipeInv ==
    /\ pc \in Wiping => /\ "wipe_data" \in asked
                        /\ "wipe_data" \in args \/ Erasing(args) = {}
                        /\ (\E i \in 1 .. index - 1 : Fstab[i] = CACHE) => CommandFile = {}
    /\ pc = "formatting" => volume[Fstab[index]] # "torn"
    /\ pc \in {"wipe_cache", "formatting_cache"} =>
          "wipe_cache" \in asked /\ ("wipe_cache" \in args \/ Erasing(args) = {})
    /\ pc = "formatting_cache" => volume[CACHE] # "torn"
    /\ pc = "menu" => Erasing(args) = {}
    /\ pc \in {"finish", "erasing_misc"} => Erasing(CommandFile) = {}

AskedInv == RecoveryTypeInv /\ LoopInv /\ (~device.faults => OrdersInv /\ WipeInv)

LEMMA FstabFacts ==
    /\ Past \in Nat /\ 1 \in 1 .. Past
    /\ \A i \in 1 .. Past - 1 : Fstab[i] \in Volumes
    /\ \A v \in Volumes : \E i \in 1 .. Past - 1 : Fstab[i] = v
    /\ CACHE \in Volumes /\ SDCARD \in Volumes /\ Wipe \subseteq Volumes /\ SDCARD \notin Wipe
<1>1. Fstab \in Seq(ToSet(Fstab)) /\ {CACHE, SDCARD} \cup Wipe \subseteq ToSet(Fstab) /\ SDCARD \notin Wipe
    BY FstabAssumption
<1>2. Len(Fstab) \in Nat /\ DOMAIN Fstab = 1 .. Len(Fstab)
    BY <1>1
<1>3. ToSet(Fstab) = {Fstab[i] : i \in 1 .. Len(Fstab)}
    BY <1>2 DEF ToSet
<1>4. QED
    BY <1>1, <1>2, <1>3 DEF Past, Volumes

LEMMA DeviceFacts ==
    ASSUME device \in Devices
    PROVE  device.misc \in {"none", "mtd", "emmc"} /\ device.faults \in BOOLEAN /\ device.disturbances \in Nat
BY DeviceAssumption

\* Formatting that fails tears the volume that is formatted, or nothing.
LEMMA FailedFormatFacts ==
    ASSUME RecoveryTypeInv, NEW v \in Volumes, FailedFormat(v)
    PROVE  /\ volume' \in [Volumes -> Contents]
           /\ \A u \in Volumes : volume'[u] = volume[u] \/ (u = v /\ Formatting(v) /\ volume'[u] = "torn")
BY DEF RecoveryTypeInv, Contents, FailedFormat

LEMMA WipedFacts ==
    ASSUME RecoveryTypeInv, NEW v \in Volumes
    PROVE  /\ Wiped(v) \in [Volumes -> Contents] /\ Wiped(v)[v] = "blank"
           /\ \A u \in Volumes \ {v} : Wiped(v)[u] = volume[u]
BY DEF RecoveryTypeInv, Contents, Wiped

LEMMA MessageFacts ==
    ASSUME RecoveryTypeInv, NEW from, NEW erased, NEW to,
           NEW message \in [boot : BOOLEAN, args : SUBSET Arguments],
           set_bootloader_message(from, erased, to, message)
    PROVE  /\ bcb' \in [boot : BOOLEAN, args : SUBSET Arguments]
           /\ \/ device.misc = "none" /\ pc = from /\ pc' = to /\ bcb' = bcb
              \/ device.misc = "emmc" /\ pc = from /\ pc' = to /\ bcb' = message
              \/ device.misc = "mtd" /\ pc = from /\ pc' = erased /\ bcb' = CLEAR
              \/ device.misc = "mtd" /\ pc = erased /\ pc' = to /\ bcb' = message
              \/ device.misc = "mtd" /\ device.faults /\ pc = erased /\ pc' = to /\ bcb' = CLEAR
<1>1. \/ device.misc = "none" /\ pc = from /\ pc' = to /\ bcb' = bcb
      \/ device.misc = "emmc" /\ pc = from /\ pc' = to /\ bcb' = message
      \/ device.misc = "mtd" /\ pc = from /\ pc' = erased /\ bcb' = CLEAR
      \/ device.misc = "mtd" /\ pc = erased /\ pc' = to /\ bcb' = message
      \/ device.misc = "mtd" /\ device.faults /\ pc = erased /\ pc' = to /\ bcb' = CLEAR
    BY DEF set_bootloader_message, set_bootloader_message_block, set_bootloader_message_mtd, Goes
<1>2. CLEAR \in [boot : BOOLEAN, args : SUBSET Arguments]
    BY DEF CLEAR
<1>3. QED
    BY <1>1, <1>2 DEF RecoveryTypeInv

LEMMA TypeStep ==
    ASSUME RecoveryTypeInv, LoopInv, Next
    PROVE  RecoveryTypeInv'
<1> USE FstabFacts
<1>1. ASSUME NEW request \in Requests, MainRequests(request) PROVE RecoveryTypeInv'
    BY <1>1, RequestsAssumption DEF RecoveryTypeInv, MainRequests, run
<1>2. CASE MainReboots
    BY <1>2 DEF RecoveryTypeInv, LoopInv, MainReboots, Goes, run, history
<1>3. CASE MainUses
    BY <1>3 DEF RecoveryTypeInv, Contents, MainUses, run
<1>4. ASSUME NEW keys \in BOOLEAN, Boots(keys) PROVE RecoveryTypeInv'
    BY <1>4 DEF RecoveryTypeInv, LoopInv, Boots, Goes, Trouble, run
<1>5. CASE PowerLoss
    <2>1. PICK v \in Volumes : FailedFormat(v)
        BY <1>5 DEF PowerLoss
    <2>2. volume' \in [Volumes -> Contents]
        BY <2>1, FailedFormatFacts
    <2>3. disturbances' \in Nat
        BY <1>5 DEF RecoveryTypeInv, PowerLoss, Trouble
    <2>4. args' = {} /\ index' = 1 /\ failed' = FALSE /\ UNCHANGED <<bcb, command, asked, began, told, device>>
        BY <1>5 DEF PowerLoss
    <2>5. QED
        BY <2>2, <2>3, <2>4 DEF RecoveryTypeInv
<1>6. CASE ReadArgs
    <2>1. bcb.args \in SUBSET Arguments /\ get_args \in SUBSET Arguments
        BY DEF RecoveryTypeInv, get_args, CommandFile
    <2>2. QED
        BY <1>6, <2>1 DEF RecoveryTypeInv, ReadArgs, flash, history
<1>7. CASE RecordArgs
    <2>1. [boot |-> TRUE, args |-> args] \in [boot : BOOLEAN, args : SUBSET Arguments]
        BY DEF RecoveryTypeInv
    <2>2. bcb' \in [boot : BOOLEAN, args : SUBSET Arguments]
        BY <1>7, <2>1, MessageFacts DEF RecordArgs
    <2>3. began' \in BOOLEAN
        BY <1>7 DEF RecordArgs, Recorded
    <2>4. QED
        BY <1>7, <2>2, <2>3 DEF RecoveryTypeInv, RecordArgs, run
<1>8. CASE Dispatch
    BY <1>8 DEF RecoveryTypeInv, LoopInv, Dispatch, flash, run, history
<1>9. CASE Menu
    <2>1. asked' \in SUBSET Arguments
        BY <1>9 DEF RecoveryTypeInv, Arguments, Menu
    <2>2. disturbances' \in Nat
        BY <1>9 DEF RecoveryTypeInv, Menu, Trouble
    <2>3. QED
        BY <1>9, <2>1, <2>2 DEF RecoveryTypeInv, Menu, flash
<1>10. CASE MenuExit
    BY <1>10 DEF RecoveryTypeInv, LoopInv, MenuExit, Goes, flash, run, history
<1>11. CASE SkipVolume
    BY <1>11 DEF RecoveryTypeInv, LoopInv, SkipVolume, NextVolume, history
<1>12. CASE WipeFails
    <2>1. Fstab[index] \in Volumes /\ index + 1 \in 1 .. Past
        BY <1>12 DEF RecoveryTypeInv, WipeFails
    <2>2. volume' \in [Volumes -> Contents]
        BY <1>12, <2>1, FailedFormatFacts DEF WipeFails
    <2>3. QED
        BY <1>12, <2>1, <2>2 DEF RecoveryTypeInv, WipeFails, NextVolume, history
<1>13. CASE FormatBegins
    BY <1>13 DEF RecoveryTypeInv, LoopInv, FormatBegins, Goes, flash, run, history
<1>14. CASE format_volume
    <2>1. Fstab[index] \in Volumes /\ index + 1 \in 1 .. Past
        BY <1>14 DEF RecoveryTypeInv, LoopInv, format_volume, Goes
    <2>2. volume' \in [Volumes -> Contents] /\ command' \in SUBSET Arguments
        BY <1>14, <2>1, WipedFacts DEF RecoveryTypeInv, format_volume, CommandAfterWipe
    <2>3. QED
        BY <1>14, <2>1, <2>2 DEF RecoveryTypeInv, format_volume, NextVolume, history
<1>15. CASE VolumesDone
    BY <1>15 DEF RecoveryTypeInv, LoopInv, VolumesDone, Goes, flash, run, history
<1>16. CASE CleanSdcard
    <2>1. volume' \in [Volumes -> Contents]
        BY <1>16, WipedFacts DEF RecoveryTypeInv, CleanSdcard
    <2>2. failed' \in BOOLEAN /\ told' \in BOOLEAN
        BY <1>16 DEF RecoveryTypeInv, CleanSdcard
    <2>3. QED
        BY <1>16, <2>1, <2>2 DEF RecoveryTypeInv, CleanSdcard
<1>17. CASE WipeCacheBegins
    BY <1>17 DEF RecoveryTypeInv, LoopInv, WipeCacheBegins, Goes, flash, run, history
<1>18. CASE WipeCacheFails
    <2>1. volume' \in [Volumes -> Contents]
        BY <1>18, FailedFormatFacts DEF WipeCacheFails
    <2>2. QED
        BY <1>18, <2>1 DEF RecoveryTypeInv, WipeCacheFails, run, history
<1>19. CASE WipeCacheEnds
    <2>1. volume' \in [Volumes -> Contents]
        BY <1>19, WipedFacts DEF WipeCacheEnds
    <2>2. QED
        BY <1>19, <2>1 DEF RecoveryTypeInv, WipeCacheEnds, run, history
<1>20. CASE FinishClears
    <2>1. CLEAR \in [boot : BOOLEAN, args : SUBSET Arguments]
        BY DEF CLEAR
    <2>2. bcb' \in [boot : BOOLEAN, args : SUBSET Arguments]
        BY <1>20, <2>1, MessageFacts DEF FinishClears
    <2>3. QED
        BY <1>20, <2>2 DEF RecoveryTypeInv, FinishClears, run
<1>21. CASE FinishUnlinks
    BY <1>21 DEF RecoveryTypeInv, LoopInv, FinishUnlinks, Goes, run, history
<1>22. CASE Reboot
    BY <1>22 DEF RecoveryTypeInv, LoopInv, Reboot, Goes, history
<1>23. QED
    BY <1>1, <1>2, <1>3, <1>4, <1>5, <1>6, <1>7, <1>8, <1>9, <1>10, <1>11, <1>12, <1>13, <1>14,
       <1>15, <1>16, <1>17, <1>18, <1>19, <1>20, <1>21, <1>22 DEF Next, Program, Surroundings

LEMMA BackPlaces ==
    Back \in {"menu", "wipe_cache", "finish"} /\ AfterWipeCache \in {"menu", "finish"}
BY DEF Back, AfterWipeCache, AfterWipeData

LEMMA LoopStep ==
    ASSUME RecoveryTypeInv, LoopInv, Next
    PROVE  LoopInv'
<1> USE FstabFacts
<1>1. ASSUME NEW request \in Requests, MainRequests(request) PROVE LoopInv'
    BY <1>1 DEF LoopInv, RecoveryTypeInv, BeforeWipe, Wiping, MainRequests, run
<1>2. CASE MainReboots
    BY <1>2 DEF LoopInv, RecoveryTypeInv, BeforeWipe, Wiping, MainReboots, Goes, run, history
<1>3. CASE MainUses
    BY <1>3 DEF LoopInv, RecoveryTypeInv, BeforeWipe, Wiping, MainUses, run
<1>4. ASSUME NEW keys \in BOOLEAN, Boots(keys) PROVE LoopInv'
    BY <1>4 DEF LoopInv, RecoveryTypeInv, BeforeWipe, Wiping, Boots, Goes, run
<1>5. CASE PowerLoss
    BY <1>5 DEF LoopInv, RecoveryTypeInv, BeforeWipe, Wiping, PowerLoss
<1>6. CASE ReadArgs
    BY <1>6 DEF LoopInv, RecoveryTypeInv, BeforeWipe, Wiping, ReadArgs, Goes, flash, history
<1>7. CASE RecordArgs
    <2>1. [boot |-> TRUE, args |-> args] \in [boot : BOOLEAN, args : SUBSET Arguments]
        BY DEF RecoveryTypeInv
    <2>2. pc \in {"set_bcb", "erased_misc"} /\ pc' \in {"erased_misc", "dispatch"}
        BY <1>7, <2>1, MessageFacts DEF RecordArgs
    <2>3. QED
        BY <1>7, <2>2 DEF LoopInv, BeforeWipe, Wiping, RecordArgs, run
<1>8. CASE Dispatch
    BY <1>8 DEF LoopInv, RecoveryTypeInv, BeforeWipe, Wiping, Dispatch, flash, run, history
<1>9. CASE Menu
    BY <1>9 DEF LoopInv, RecoveryTypeInv, BeforeWipe, Wiping, Menu, Goes, flash
<1>10. CASE MenuExit
    BY <1>10 DEF LoopInv, RecoveryTypeInv, BeforeWipe, Wiping, MenuExit, Goes, flash, run, history
<1>11. CASE SkipVolume
    <2>1. Fstab[index] \in Volumes /\ index \in Nat /\ index < Past
        BY <1>11 DEF RecoveryTypeInv, LoopInv, SkipVolume
    <2>2. /\ pc = "wipe_volume" /\ Fstab[index] \notin Wipe /\ index' = index + 1
          /\ UNCHANGED <<volume, pc, failed>>
        BY <1>11 DEF SkipVolume, NextVolume
    <2>3. QED
        BY <2>1, <2>2 DEF LoopInv, BeforeWipe, Wiping
<1>12. CASE WipeFails
    BY <1>12 DEF LoopInv, BeforeWipe, Wiping, WipeFails
<1>13. CASE FormatBegins
    BY <1>13 DEF LoopInv, RecoveryTypeInv, BeforeWipe, Wiping, FormatBegins, Goes, flash, run, history
<1>14. CASE format_volume
    <2>1. Fstab[index] \in Volumes /\ index \in Nat /\ index < Past
        BY <1>14 DEF RecoveryTypeInv, LoopInv, format_volume, Goes
    <2>2. index' = index + 1 /\ UNCHANGED failed /\ pc = "formatting" /\ pc' = "wipe_volume"
        BY <1>14 DEF format_volume, NextVolume, Goes
    <2>3. \A u \in Volumes : u # Fstab[index] => volume'[u] = volume[u]
        BY <1>14, <2>1, WipedFacts DEF format_volume
    <2>4. volume'[Fstab[index]] # "user"
        BY <1>14, <2>1, WipedFacts DEF format_volume
    <2>5. ASSUME NEW i \in 1 .. index' - 1, ~failed, Fstab[i] \in Wipe
          PROVE  volume'[Fstab[i]] # "user"
        <3>1. CASE Fstab[i] = Fstab[index]
            BY <2>4, <3>1
        <3>2. CASE Fstab[i] # Fstab[index]
            <4>1. i \in 1 .. index - 1 /\ Fstab[i] \in Volumes
                BY <2>1, <2>2, <2>5, <3>2
            <4>2. QED
                BY <2>2, <2>3, <2>5, <3>2, <4>1 DEF LoopInv, Wiping
        <3>3. QED
            BY <3>1, <3>2
    <2>6. QED
        BY <2>2, <2>5 DEF LoopInv, BeforeWipe, Wiping
<1>15. CASE VolumesDone
    BY <1>15 DEF LoopInv, BeforeWipe, Wiping, VolumesDone, Goes, flash, run
<1>16. CASE CleanSdcard
    BY <1>16, BackPlaces DEF LoopInv, BeforeWipe, Wiping, CleanSdcard, Goes
<1>17. CASE WipeCacheBegins
    BY <1>17 DEF LoopInv, RecoveryTypeInv, BeforeWipe, Wiping, WipeCacheBegins, Goes, flash, run, history
<1>18. CASE WipeCacheFails
    BY <1>18, BackPlaces DEF LoopInv, BeforeWipe, Wiping, WipeCacheFails
<1>19. CASE WipeCacheEnds
    BY <1>19, BackPlaces DEF LoopInv, BeforeWipe, Wiping, WipeCacheEnds, Goes
<1>20. CASE FinishClears
    <2>1. CLEAR \in [boot : BOOLEAN, args : SUBSET Arguments]
        BY DEF CLEAR
    <2>2. pc' \in {"erasing_misc", "unlink"}
        BY <1>20, <2>1, MessageFacts DEF FinishClears
    <2>3. QED
        BY <2>2 DEF LoopInv, BeforeWipe, Wiping
<1>21. CASE FinishUnlinks
    BY <1>21 DEF LoopInv, RecoveryTypeInv, BeforeWipe, Wiping, FinishUnlinks, Goes, run, history
<1>22. CASE Reboot
    BY <1>22 DEF LoopInv, RecoveryTypeInv, BeforeWipe, Wiping, Reboot, Goes, history
<1>23. QED
    BY <1>1, <1>2, <1>3, <1>4, <1>5, <1>6, <1>7, <1>8, <1>9, <1>10, <1>11, <1>12, <1>13, <1>14,
       <1>15, <1>16, <1>17, <1>18, <1>19, <1>20, <1>21, <1>22 DEF Next, Program, Surroundings

\* No step gives a volume its content back but the main system's.
LEMMA UserStays ==
    ASSUME RecoveryTypeInv, LoopInv, Next, NEW v \in Volumes, volume'[v] = "user"
    PROVE  volume[v] = "user" \/ MainUses
<1> USE FstabFacts
<1>1. ASSUME NEW request \in Requests, MainRequests(request) PROVE volume[v] = "user" \/ MainUses
    BY <1>1 DEF MainRequests
<1>2. CASE MainReboots
    BY <1>2 DEF MainReboots
<1>3. CASE MainUses
    BY <1>3
<1>4. ASSUME NEW keys \in BOOLEAN, Boots(keys) PROVE volume[v] = "user" \/ MainUses
    BY <1>4 DEF Boots
<1>5. CASE PowerLoss
    BY <1>5, FailedFormatFacts DEF PowerLoss
<1>6. CASE ReadArgs
    BY <1>6 DEF ReadArgs, flash
<1>7. CASE RecordArgs
    BY <1>7 DEF RecordArgs
<1>8. CASE Dispatch
    BY <1>8 DEF Dispatch, flash
<1>9. CASE Menu
    BY <1>9 DEF Menu, flash
<1>10. CASE MenuExit
    BY <1>10 DEF MenuExit, flash
<1>11. CASE SkipVolume
    BY <1>11 DEF SkipVolume
<1>12. CASE WipeFails
    <2>1. Fstab[index] \in Volumes
        BY <1>12 DEF RecoveryTypeInv, WipeFails
    <2>2. QED
        BY <1>12, <2>1, FailedFormatFacts DEF WipeFails
<1>13. CASE FormatBegins
    BY <1>13 DEF FormatBegins, flash
<1>14. CASE format_volume
    <2>1. Fstab[index] \in Volumes
        BY <1>14 DEF RecoveryTypeInv, LoopInv, format_volume, Goes
    <2>2. QED
        BY <1>14, <2>1, WipedFacts DEF format_volume
<1>15. CASE VolumesDone
    BY <1>15 DEF VolumesDone, flash
<1>16. CASE CleanSdcard
    BY <1>16, WipedFacts DEF CleanSdcard
<1>17. CASE WipeCacheBegins
    BY <1>17 DEF WipeCacheBegins, flash
<1>18. CASE WipeCacheFails
    BY <1>18, FailedFormatFacts DEF WipeCacheFails
<1>19. CASE WipeCacheEnds
    BY <1>19, WipedFacts DEF WipeCacheEnds
<1>20. CASE FinishClears
    BY <1>20 DEF FinishClears
<1>21. CASE FinishUnlinks
    BY <1>21 DEF FinishUnlinks
<1>22. CASE Reboot
    BY <1>22 DEF Reboot
<1>23. QED
    BY <1>1, <1>2, <1>3, <1>4, <1>5, <1>6, <1>7, <1>8, <1>9, <1>10, <1>11, <1>12, <1>13, <1>14,
       <1>15, <1>16, <1>17, <1>18, <1>19, <1>20, <1>21, <1>22 DEF Next, Program, Surroundings

LEMMA OwedStep ==
    ASSUME EraseInv, Next
    PROVE  OwedInv'
<1> USE FstabFacts
<1>t. RecoveryTypeInv /\ LoopInv /\ OwedInv
    BY DEF EraseInv
<1>d. device' = device /\ device \in Devices
    BY <1>t DEF RecoveryTypeInv, Next, Program, Surroundings, MainRequests, MainReboots, MainUses,
       Boots, PowerLoss, ReadArgs, RecordArgs, Dispatch, Menu, MenuExit, SkipVolume, WipeFails,
       FormatBegins, format_volume, NextVolume, VolumesDone, CleanSdcard, WipeCacheBegins,
       WipeCacheFails, WipeCacheEnds, FinishClears, FinishUnlinks, Reboot, history
<1>u. ASSUME pc # "main" \/ pc' # "main", Owed', began, ~told PROVE Owed
    BY <1>t, <1>u, <1>d, UserStays DEF Owed, MainUses
<1>h. ASSUME pc # "main" \/ pc' # "main", UNCHANGED <<began, told>>, Owed' PROVE Owed
    BY <1>u, <1>h DEF Owed
<1>1. ASSUME NEW request \in Requests, MainRequests(request) PROVE OwedInv'
    BY <1>1 DEF OwedInv, Owed, MainRequests
<1>2. CASE MainReboots
    BY <1>2, <1>t, <1>u DEF OwedInv, Owed, Wiping, MainReboots, Goes, run, history
<1>3. CASE MainUses
    BY <1>3 DEF OwedInv, Owed, MainUses
<1>4. ASSUME NEW keys \in BOOLEAN, Boots(keys) PROVE OwedInv'
    <2>1. UNCHANGED <<bcb, args, began, told>> /\ pc = "off"
        BY <1>4 DEF Boots, Goes, run
    <2>2. Owed' => bcb.boot /\ "wipe_data" \in bcb.args
        BY <1>t, <1>h, <2>1 DEF OwedInv
    <2>3. bcb.boot => pc' = "get_args"
        BY <1>4 DEF Boots, Goes, IntoRecovery
    <2>4. QED
        BY <2>1, <2>2, <2>3 DEF OwedInv
<1>5. CASE PowerLoss
    <2>1. UNCHANGED <<bcb, began, told>> /\ pc' = "off"
        BY <1>5 DEF PowerLoss
    <2>2. Owed' => Owed
        BY <1>h, <2>1
    <2>3. QED
        BY <1>t, <2>1, <2>2 DEF OwedInv
<1>6. CASE ReadArgs
    <2>1. /\ UNCHANGED <<bcb, began, told, disturbances>> /\ pc = "get_args" /\ pc' = "set_bcb"
          /\ bcb.args # {} => args' = bcb.args
        BY <1>6 DEF ReadArgs, get_args, Goes, flash, history
    <2>2. QED
        BY <1>t, <1>h, <2>1 DEF OwedInv
<1>7. CASE RecordArgs
    <2>1. /\ pc \in {"set_bcb", "erased_misc"} /\ UNCHANGED <<args, told>>
          /\ began' = (pc' = "dispatch" /\ (began \/ (bcb'.boot /\ "wipe_data" \in args)))
        BY <1>7 DEF RecordArgs, Recorded, Goes, run, set_bootloader_message,
                    set_bootloader_message_block, set_bootloader_message_mtd
    <2>2. pc' = "dispatch" /\ device.misc # "none" =>
             \/ bcb' = [boot |-> TRUE, args |-> args]
             \/ pc = "erased_misc" /\ bcb' = CLEAR
        BY <1>7 DEF RecordArgs, Goes, set_bootloader_message, set_bootloader_message_block,
                    set_bootloader_message_mtd
    <2>3. /\ [boot |-> TRUE, args |-> args].boot /\ [boot |-> TRUE, args |-> args].args = args
          /\ ~CLEAR.boot
        BY DEF CLEAR
    <2>4. CASE ~Owed'
        BY <2>4 DEF OwedInv
    <2>5. CASE Owed'
        <3>1. began' /\ ~told /\ device.misc # "none" /\ pc' = "dispatch"
            BY <1>d, <2>1, <2>5 DEF Owed
        <3>2. began => Owed
            BY <1>u, <2>1, <2>5, <3>1
        <3>3. began => pc # "erased_misc" /\ "wipe_data" \in args
            BY <1>t, <2>1, <3>2 DEF OwedInv, Wiping
        <3>4. "wipe_data" \in args /\ bcb' = [boot |-> TRUE, args |-> args]
            BY <2>1, <2>2, <2>3, <3>1, <3>3
        <3>5. QED
            BY <2>1, <2>3, <3>1, <3>4 DEF OwedInv
    <2>6. QED
        BY <2>4, <2>5
<1>8. CASE Dispatch
    BY <1>8, <1>t, <1>u DEF OwedInv, Owed, Wiping, Dispatch, flash, run, history
<1>9. CASE Menu
    BY <1>9, <1>t, <1>u DEF OwedInv, Owed, Wiping, Menu, Goes, flash
<1>10. CASE MenuExit
    BY <1>10, <1>t, <1>u DEF OwedInv, Owed, Wiping, MenuExit, Goes, flash, run, history
<1>11. CASE SkipVolume
    BY <1>11, <1>t, <1>h DEF OwedInv, Wiping, SkipVolume, NextVolume, history
<1>12. CASE WipeFails
    BY <1>12, <1>t, <1>h DEF OwedInv, Wiping, WipeFails, NextVolume, history
<1>13. CASE FormatBegins
    BY <1>13, <1>t, <1>u DEF OwedInv, Owed, Wiping, FormatBegins, Goes, flash, run, history
<1>14. CASE format_volume
    BY <1>14, <1>t, <1>h DEF OwedInv, Wiping, format_volume, NextVolume, Goes, history
<1>15. CASE VolumesDone
    BY <1>15, <1>t, <1>u DEF OwedInv, Owed, Wiping, VolumesDone, Goes, flash, run, history
<1>16. CASE CleanSdcard
    <2>1. /\ pc = "sdcard" /\ UNCHANGED <<bcb, began>>
          /\ told' = (told \/ failed') /\ (failed => failed')
        BY <1>16 DEF CleanSdcard, Goes
    <2>2. ASSUME Owed' PROVE FALSE
        <3>1. began /\ ~told /\ ~failed'
            BY <1>16, <2>1, <2>2 DEF Owed
        <3>2. Owed /\ ~failed
            BY <1>u, <2>1, <2>2, <3>1
        <3>3. \A i \in 1 .. Past - 1 : Fstab[i] \in Wipe => volume[Fstab[i]] # "user"
            BY <1>t, <2>1, <3>2 DEF LoopInv, Wiping
        <3>4. QED
            BY <3>2, <3>3 DEF Owed
    <2>3. QED
        BY <2>2 DEF OwedInv
<1>17. CASE WipeCacheBegins
    BY <1>17, <1>t, <1>u DEF OwedInv, Owed, Wiping, WipeCacheBegins, Goes, flash, run, history
<1>18. CASE WipeCacheFails
    BY <1>18, <1>t, <1>h DEF OwedInv, Wiping, WipeCacheFails, history
<1>19. CASE WipeCacheEnds
    BY <1>19, <1>t, <1>h DEF OwedInv, Wiping, WipeCacheEnds, Goes, history
<1>20. CASE FinishClears
    <2>1. CLEAR \in [boot : BOOLEAN, args : SUBSET Arguments]
        BY DEF CLEAR
    <2>2. pc \in {"finish", "erasing_misc"} /\ UNCHANGED <<began, told>>
        BY <1>20, <1>t, <2>1, MessageFacts DEF FinishClears
    <2>3. QED
        BY <1>t, <1>h, <2>2 DEF OwedInv, Wiping
<1>21. CASE FinishUnlinks
    BY <1>21, <1>t, <1>u DEF OwedInv, Owed, Wiping, FinishUnlinks, Goes, run, history
<1>22. CASE Reboot
    BY <1>22, <1>t, <1>u DEF OwedInv, Owed, Wiping, Reboot, Goes, history
<1>23. QED
    BY <1>1, <1>2, <1>3, <1>4, <1>5, <1>6, <1>7, <1>8, <1>9, <1>10, <1>11, <1>12, <1>13, <1>14,
       <1>15, <1>16, <1>17, <1>18, <1>19, <1>20, <1>21, <1>22 DEF Next, Program, Surroundings

LEMMA EraseStep == EraseInv /\ [Next]_vars => EraseInv'
<1>1. ASSUME EraseInv, Next PROVE EraseInv'
    BY <1>1, TypeStep, LoopStep, OwedStep DEF EraseInv
<1>2. ASSUME EraseInv, UNCHANGED vars PROVE EraseInv'
    BY <1>2 DEF EraseInv, RecoveryTypeInv, LoopInv, OwedInv, Owed, vars, flash, run, history
<1>3. QED
    BY <1>1, <1>2

LEMMA RecoveryInit == Init => RecoveryTypeInv /\ LoopInv
<1> SUFFICES ASSUME Init PROVE RecoveryTypeInv /\ LoopInv
    OBVIOUS
<1>1. RecoveryTypeInv
    BY FstabFacts DEF Init, RecoveryTypeInv, CLEAR, Contents
<1>2. LoopInv
    BY DEF Init, LoopInv, Wiping
<1>3. QED
    BY <1>1, <1>2

(***************************************************************************)
(* "after this, rebooting will restart the erase" (main.c:87): for any     *)
(* fstab, any orders and any number of power losses the main system does   *)
(* not run on data whose erase is recorded in the BCB, unless the user was *)
(* told; on raw flash, as long as power is not lost while the record is    *)
(* erased to be written anew.                                              *)
(***************************************************************************)
THEOREM ErasedCorrect == Spec => []ErasedUnlessReported
<1>1. Init => EraseInv
    BY RecoveryInit DEF Init, EraseInv, OwedInv, Owed
<1>2. EraseInv /\ [Next]_vars => EraseInv'
    BY EraseStep
<1>3. EraseInv => ErasedUnlessReported
    BY DEF EraseInv, OwedInv, Owed, Wiping, ErasedUnlessReported
<1>4. QED
    BY <1>1, <1>2, <1>3, PTL DEF Spec

-----------------------------------------------------------------------------
\* But for a new request, the command file stays as it is or is gone.
LEMMA FileStep ==
    ASSUME RecoveryTypeInv, LoopInv, Next, CACHE # SDCARD,
           pc # "main" \/ pc' # "main"
    PROVE  CommandFile' \in {CommandFile, {}}
<1> USE FstabFacts
<1>1. ASSUME NEW request \in Requests, MainRequests(request) PROVE CommandFile' \in {CommandFile, {}}
    BY <1>1 DEF MainRequests
<1>2. CASE MainReboots
    BY <1>2 DEF CommandFile, MainReboots
<1>3. CASE MainUses
    BY <1>3 DEF MainUses
<1>4. ASSUME NEW keys \in BOOLEAN, Boots(keys) PROVE CommandFile' \in {CommandFile, {}}
    BY <1>4 DEF CommandFile, Boots
<1>5. CASE PowerLoss
    BY <1>5, FailedFormatFacts DEF PowerLoss, CommandFile
<1>6. CASE ReadArgs
    BY <1>6 DEF CommandFile, ReadArgs, flash
<1>7. CASE RecordArgs
    BY <1>7 DEF CommandFile, RecordArgs
<1>8. CASE Dispatch
    BY <1>8 DEF CommandFile, Dispatch, flash
<1>9. CASE Menu
    BY <1>9 DEF CommandFile, Menu, flash
<1>10. CASE MenuExit
    BY <1>10 DEF CommandFile, MenuExit, flash
<1>11. CASE SkipVolume
    BY <1>11 DEF SkipVolume, CommandFile
<1>12. CASE WipeFails
    <2>1. Fstab[index] \in Volumes
        BY <1>12 DEF RecoveryTypeInv, WipeFails
    <2>2. QED
        BY <1>12, <2>1, FailedFormatFacts DEF WipeFails, CommandFile
<1>13. CASE FormatBegins
    BY <1>13 DEF CommandFile, FormatBegins, flash
<1>14. CASE format_volume
    <2>1. Fstab[index] \in Volumes
        BY <1>14 DEF RecoveryTypeInv, LoopInv, format_volume, Goes
    <2>2. command' = {} \/ (command' = command /\ volume'[CACHE] = volume[CACHE])
        BY <1>14, <2>1, WipedFacts DEF format_volume, CommandAfterWipe
    <2>3. QED
        BY <2>2 DEF CommandFile
<1>15. CASE VolumesDone
    BY <1>15 DEF CommandFile, VolumesDone, flash
<1>16. CASE CleanSdcard
    <2>1. command' = {} \/ (command' = command /\ volume'[CACHE] = volume[CACHE])
        BY <1>16, WipedFacts DEF CleanSdcard
    <2>2. QED
        BY <2>1 DEF CommandFile
<1>17. CASE WipeCacheBegins
    BY <1>17 DEF CommandFile, WipeCacheBegins, flash
<1>18. CASE WipeCacheFails
    BY <1>18, FailedFormatFacts DEF WipeCacheFails, CommandFile
<1>19. CASE WipeCacheEnds
    BY <1>19 DEF WipeCacheEnds, CommandFile
<1>20. CASE FinishClears
    BY <1>20 DEF CommandFile, FinishClears
<1>21. CASE FinishUnlinks
    BY <1>21 DEF CommandFile, FinishUnlinks
<1>22. CASE Reboot
    BY <1>22 DEF CommandFile, Reboot
<1>23. QED
    BY <1>1, <1>2, <1>3, <1>4, <1>5, <1>6, <1>7, <1>8, <1>9, <1>10, <1>11, <1>12, <1>13, <1>14,
       <1>15, <1>16, <1>17, <1>18, <1>19, <1>20, <1>21, <1>22 DEF Next, Program, Surroundings

LEMMA OrdersStep ==
    ASSUME RecoveryTypeInv, LoopInv, OrdersInv, WipeInv, CACHE # SDCARD, ~device.faults, Next
    PROVE  OrdersInv'
<1>f. pc # "main" \/ pc' # "main" => CommandFile' \in {CommandFile, {}}
    BY FileStep
<1>1. ASSUME NEW request \in Requests, MainRequests(request) PROVE OrdersInv'
    BY <1>1 DEF OrdersInv, Erasing, Running, Wiping, MainRequests, CommandFile, run
<1>2. CASE MainReboots
    BY <1>2, <1>f DEF OrdersInv, Erasing, Running, Wiping, MainReboots, Goes, run, history
<1>3. CASE MainUses
    <2>1. volume'[CACHE] = "torn" <=> volume[CACHE] = "torn"
        BY <1>3, FstabFacts DEF MainUses, RecoveryTypeInv
    <2>2. CommandFile' = CommandFile
        BY <1>3, <2>1 DEF MainUses, CommandFile
    <2>3. QED
        BY <1>3, <2>2 DEF OrdersInv, Running, Wiping, MainUses, run
<1>4. ASSUME NEW keys \in BOOLEAN, Boots(keys) PROVE OrdersInv'
    <2>1. /\ UNCHANGED <<bcb, command, volume, asked, device>> /\ pc = "off" /\ pc' \in {"get_args", "main"}
          /\ bcb.boot => pc' = "get_args"
        BY <1>4 DEF Boots, Goes, IntoRecovery
    <2>2. QED
        BY <2>1 DEF OrdersInv, Running, Wiping, CommandFile
<1>5. CASE PowerLoss
    BY <1>5, <1>f DEF OrdersInv, Erasing, Running, Wiping, PowerLoss
<1>6. CASE ReadArgs
    <2>1. UNCHANGED <<bcb, command, volume, asked, device>> /\ pc = "get_args" /\ pc' = "set_bcb"
        BY <1>6 DEF ReadArgs, Goes, flash, history
    <2>2. args' = IF bcb.args # {} THEN bcb.args ELSE CommandFile
        BY <1>6 DEF ReadArgs, get_args
    <2>3. CommandFile' = CommandFile
        BY <2>1 DEF CommandFile
    <2>4. Erasing(args') \subseteq asked' /\ CommandFile' \in {{}, args'}
        BY <2>1, <2>2, <2>3 DEF OrdersInv
    <2>5. QED
        BY <2>1, <2>3, <2>4 DEF OrdersInv
<1>7. CASE RecordArgs
    <2>1. \/ device.misc = "none" /\ pc = "set_bcb" /\ pc' = "dispatch" /\ bcb' = bcb
          \/ device.misc # "none" /\ bcb' = CLEAR /\ pc' \in {"erased_misc", "dispatch"}
             /\ pc \in {"set_bcb", "erased_misc"}
          \/ device.misc # "none" /\ bcb' = [boot |-> TRUE, args |-> args] /\ pc' = "dispatch"
             /\ pc \in {"set_bcb", "erased_misc"}
        BY <1>7 DEF RecordArgs, Goes, set_bootloader_message, set_bootloader_message_block,
                  set_bootloader_message_mtd
    <2>2. UNCHANGED <<command, volume, args, asked, device>> /\ CommandFile' = CommandFile
        BY <1>7 DEF RecordArgs, run, CommandFile
    <2>3. Erasing(args) \subseteq asked /\ CommandFile \in {{}, args} /\ pc' \in Running /\ pc' # "main"
        BY <2>1 DEF OrdersInv, Running
    <2>4. CASE bcb' = bcb /\ device.misc = "none"
        BY <2>2, <2>3, <2>4 DEF OrdersInv
    <2>5. CASE bcb' = CLEAR /\ device.misc # "none"
        <3>1. bcb'.args = {} /\ ~bcb'.boot
            BY <2>5 DEF CLEAR
        <3>2. QED
            BY <2>2, <2>3, <2>5, <3>1 DEF OrdersInv, Erasing
    <2>6. CASE bcb' = [boot |-> TRUE, args |-> args] /\ device.misc # "none"
        <3>1. bcb'.args = args /\ bcb'.boot
            BY <2>6
        <3>2. QED
            BY <2>2, <2>3, <2>6, <3>1 DEF OrdersInv
    <2>7. QED
        BY <2>1, <2>4, <2>5, <2>6
<1>8. CASE Dispatch
    BY <1>8, <1>f DEF OrdersInv, Erasing, Running, Wiping, Dispatch, flash, run, history
<1>9. CASE Menu
    BY <1>9, <1>f DEF OrdersInv, Erasing, Running, Wiping, Menu, Goes, flash
<1>10. CASE MenuExit
    BY <1>10, <1>f DEF OrdersInv, Erasing, Running, Wiping, MenuExit, Goes, flash, run, history
<1>11. CASE SkipVolume
    BY <1>11, <1>f DEF OrdersInv, Erasing, Running, Wiping, SkipVolume, NextVolume, history
<1>12. CASE WipeFails
    BY <1>12, <1>f DEF OrdersInv, Erasing, Running, Wiping, WipeFails, NextVolume, history
<1>13. CASE FormatBegins
    BY <1>13, <1>f DEF OrdersInv, Erasing, Running, Wiping, FormatBegins, Goes, flash, run, history
<1>14. CASE format_volume
    BY <1>14, <1>f DEF OrdersInv, Erasing, Running, Wiping, format_volume, NextVolume, Goes, history
<1>15. CASE VolumesDone
    BY <1>15, <1>f DEF OrdersInv, Erasing, Running, Wiping, VolumesDone, Goes, flash, run, history
<1>16. CASE CleanSdcard
    BY <1>16, <1>f, BackPlaces DEF OrdersInv, Erasing, Running, Wiping, CleanSdcard, Goes
<1>17. CASE WipeCacheBegins
    BY <1>17, <1>f DEF OrdersInv, Erasing, Running, Wiping, WipeCacheBegins, Goes, flash, run, history
<1>18. CASE WipeCacheFails
    BY <1>18, <1>f, BackPlaces DEF OrdersInv, Erasing, Running, Wiping, WipeCacheFails, run, history
<1>19. CASE WipeCacheEnds
    BY <1>19, <1>f, BackPlaces DEF OrdersInv, Erasing, Running, Wiping, WipeCacheEnds, Goes, run, history
<1>20. CASE FinishClears
    <2>1. /\ pc \in {"finish", "erasing_misc"}
          /\ \/ pc' = "unlink" /\ asked' = {}
             \/ pc' = "erasing_misc" /\ asked' = asked
          /\ bcb' = CLEAR
        BY <1>20 DEF FinishClears, OrdersInv, Goes, set_bootloader_message, set_bootloader_message_block,
                  set_bootloader_message_mtd
    <2>2. UNCHANGED <<command, volume, args, device>> /\ CommandFile' = CommandFile
        BY <1>20 DEF FinishClears, run, CommandFile
    <2>3. bcb'.args = {} /\ ~bcb'.boot
        BY <2>1 DEF CLEAR
    <2>4. Erasing(CommandFile) = {}
        BY <2>1 DEF WipeInv
    <2>5. QED
        BY <2>1, <2>2, <2>3, <2>4 DEF OrdersInv, Erasing, Running, Wiping
<1>21. CASE FinishUnlinks
    BY <1>21, <1>f DEF OrdersInv, Erasing, Running, Wiping, FinishUnlinks, Goes, run, history
<1>22. CASE Reboot
    BY <1>22, <1>f DEF OrdersInv, Erasing, Running, Wiping, Reboot, Goes, history
<1>23. QED
    BY <1>1, <1>2, <1>3, <1>4, <1>5, <1>6, <1>7, <1>8, <1>9, <1>10, <1>11, <1>12, <1>13, <1>14,
       <1>15, <1>16, <1>17, <1>18, <1>19, <1>20, <1>21, <1>22 DEF Next, Program, Surroundings

LEMMA BackFacts ==
    /\ Back = "menu" => Erasing(args) = {}
    /\ Back = "wipe_cache" => "wipe_cache" \in args
    /\ AfterWipeCache = "menu" => Erasing(args) = {}
BY DEF Back, AfterWipeCache, AfterWipeData, Erasing

LEMMA WipeStep ==
    ASSUME RecoveryTypeInv, LoopInv, OrdersInv, WipeInv, CACHE # SDCARD, CACHE \in Wipe,
           ~device.faults, Next
    PROVE  WipeInv'
<1> USE FstabFacts
<1>f. pc # "main" \/ pc' # "main" => CommandFile' \in {CommandFile, {}}
    BY FileStep
<1>1. ASSUME NEW request \in Requests, MainRequests(request) PROVE WipeInv'
    BY <1>1, <1>f DEF WipeInv, Wiping, MainRequests, run
<1>2. CASE MainReboots
    BY <1>2, <1>f DEF WipeInv, Wiping, MainReboots, Goes, run, history
<1>3. CASE MainUses
    BY <1>3, <1>f DEF WipeInv, Wiping, MainUses, run
<1>4. ASSUME NEW keys \in BOOLEAN, Boots(keys) PROVE WipeInv'
    BY <1>4, <1>f DEF WipeInv, Wiping, Boots, Goes, run
<1>5. CASE PowerLoss
    BY <1>5, <1>f DEF WipeInv, Wiping, PowerLoss
<1>6. CASE ReadArgs
    BY <1>6, <1>f DEF WipeInv, Wiping, ReadArgs, Goes, flash, history
<1>7. CASE RecordArgs
    <2>1. pc' \in {"dispatch", "erased_misc"}
        BY <1>7 DEF RecordArgs, Goes, set_bootloader_message, set_bootloader_message_block,
                  set_bootloader_message_mtd
    <2>2. QED
        BY <2>1 DEF WipeInv, Wiping
<1>8. CASE Dispatch
    <2>1. pc = "dispatch" /\ UNCHANGED <<args, index, asked, volume>>
        BY <1>8 DEF Dispatch, flash, run, history
    <2>2. Erasing(args) \subseteq asked /\ index = 1
        BY <2>1 DEF OrdersInv, Running, LoopInv, BeforeWipe
    <2>3. CASE "wipe_data" \in args
        BY <1>8, <2>1, <2>2, <2>3 DEF WipeInv, Wiping, Erasing, Dispatch
    <2>4. CASE "wipe_data" \notin args
        BY <1>8, <2>1, <2>2, <2>4 DEF WipeInv, Wiping, Erasing, Dispatch
    <2>5. QED
        BY <2>3, <2>4
<1>9. CASE Menu
    BY <1>9, <1>f DEF WipeInv, Wiping, Menu, Goes, flash
<1>10. CASE MenuExit
    <2>1. pc = "menu" /\ pc' = "finish"
        BY <1>10 DEF MenuExit, Goes
    <2>2. Erasing(CommandFile') = {}
        BY <1>f, <2>1 DEF WipeInv, OrdersInv, Running, Erasing
    <2>3. QED
        BY <2>1, <2>2 DEF WipeInv, Wiping, Erasing
<1>11. CASE SkipVolume
    <2>1. /\ pc = "wipe_volume" /\ pc' = "wipe_volume" /\ Fstab[index] # CACHE /\ index' = index + 1
          /\ UNCHANGED <<args, asked>>
        BY <1>11 DEF SkipVolume, NextVolume, history
    <2>2. index \in Nat
        BY DEF RecoveryTypeInv
    <2>3. (\E i \in 1 .. index' - 1 : Fstab[i] = CACHE) => CommandFile' = {}
        BY <1>f, <2>1, <2>2 DEF WipeInv, Wiping
    <2>4. QED
        BY <2>1, <2>3 DEF WipeInv, Wiping
<1>12. CASE WipeFails
    <2>1. /\ pc \in {"wipe_volume", "formatting"} /\ pc' = "wipe_volume" /\ index' = index + 1
          /\ volume[Fstab[index]] = "torn" /\ UNCHANGED <<args, asked>>
        BY <1>12 DEF WipeFails, NextVolume, history
    <2>2. index \in Nat
        BY DEF RecoveryTypeInv
    <2>3. Fstab[index] = CACHE => CommandFile = {}
        BY <2>1 DEF CommandFile
    <2>4. (\E i \in 1 .. index' - 1 : Fstab[i] = CACHE) => CommandFile' = {}
        BY <1>f, <2>1, <2>2, <2>3 DEF WipeInv, Wiping
    <2>5. QED
        BY <2>1, <2>4 DEF WipeInv, Wiping
<1>13. CASE FormatBegins
    BY <1>13, <1>f DEF WipeInv, Wiping, FormatBegins, Goes, flash, run, history
<1>14. CASE format_volume
    <2>1. /\ pc = "formatting" /\ pc' = "wipe_volume" /\ index' = index + 1 /\ UNCHANGED <<args, asked>>
          /\ Fstab[index] = CACHE => command' = {}
        BY <1>14 DEF format_volume, NextVolume, Goes, CommandAfterWipe, history
    <2>2. index \in Nat
        BY DEF RecoveryTypeInv
    <2>3. Fstab[index] = CACHE => CommandFile' = {}
        BY <2>1 DEF CommandFile
    <2>4. (\E i \in 1 .. index' - 1 : Fstab[i] = CACHE) => CommandFile' = {}
        BY <1>f, <2>1, <2>2, <2>3 DEF WipeInv, Wiping
    <2>5. QED
        BY <2>1, <2>4 DEF WipeInv, Wiping
<1>15. CASE VolumesDone
    BY <1>15, <1>f DEF WipeInv, Wiping, VolumesDone, Goes, flash, run, history
<1>16. CASE CleanSdcard
    <2>1. pc = "sdcard" /\ pc' = Back /\ UNCHANGED <<args, asked>>
        BY <1>16 DEF CleanSdcard, Goes
    <2>2. CommandFile' = {}
        BY <1>f, <2>1 DEF LoopInv, WipeInv, Wiping
    <2>3. Erasing(args) \subseteq asked
        BY <2>1 DEF OrdersInv, Running, Wiping
    <2>4. QED
        BY <2>1, <2>2, <2>3, BackPlaces, BackFacts DEF WipeInv, Wiping, Erasing
<1>17. CASE WipeCacheBegins
    BY <1>17, <1>f DEF WipeInv, Wiping, WipeCacheBegins, Goes, flash, run, history
<1>18. CASE WipeCacheFails
    <2>1. /\ pc \in {"wipe_cache", "formatting_cache"} /\ pc' = AfterWipeCache /\ UNCHANGED <<args, asked>>
          /\ volume[CACHE] = "torn"
        BY <1>18 DEF WipeCacheFails, run, history
    <2>2. CommandFile' = {}
        BY <1>f, <2>1, BackPlaces DEF CommandFile
    <2>3. QED
        BY <2>1, <2>2, BackPlaces, BackFacts DEF WipeInv, Wiping, Erasing
<1>19. CASE WipeCacheEnds
    <2>1. pc' = AfterWipeCache /\ UNCHANGED <<args, asked>> /\ CommandFile' = {}
        BY <1>19 DEF WipeCacheEnds, Goes, run, history, CommandFile
    <2>2. QED
        BY <2>1, BackPlaces, BackFacts DEF WipeInv, Wiping, Erasing
<1>20. CASE FinishClears
    <2>1. pc \in {"finish", "erasing_misc"} /\ pc' \in {"erasing_misc", "unlink"}
        BY <1>20 DEF FinishClears, Goes, set_bootloader_message, set_bootloader_message_block,
                  set_bootloader_message_mtd
    <2>2. Erasing(CommandFile') = {}
        BY <1>f, <2>1 DEF WipeInv, Erasing
    <2>3. QED
        BY <2>1, <2>2 DEF WipeInv, Wiping
<1>21. CASE FinishUnlinks
    BY <1>21, <1>f DEF WipeInv, Wiping, FinishUnlinks, Goes, run, history
<1>22. CASE Reboot
    BY <1>22, <1>f DEF WipeInv, Wiping, Reboot, Goes, history
<1>23. QED
    BY <1>1, <1>2, <1>3, <1>4, <1>5, <1>6, <1>7, <1>8, <1>9, <1>10, <1>11, <1>12, <1>13, <1>14,
       <1>15, <1>16, <1>17, <1>18, <1>19, <1>20, <1>21, <1>22 DEF Next, Program, Surroundings

LEMMA AskedStep == CACHE \in Wipe /\ AskedInv /\ [Next]_vars => AskedInv'
<1> SUFFICES ASSUME CACHE \in Wipe, AskedInv, [Next]_vars PROVE AskedInv'
    OBVIOUS
<1>1. CASE Next
    <2>1. RecoveryTypeInv' /\ LoopInv'
        BY <1>1, TypeStep, LoopStep DEF AskedInv
    <2>2. device' = device
        BY <1>1 DEF Next, Program, Surroundings, MainRequests, MainReboots, MainUses,
           Boots, PowerLoss, ReadArgs, RecordArgs, Dispatch, Menu, MenuExit, SkipVolume, WipeFails,
           FormatBegins, format_volume, NextVolume, VolumesDone, CleanSdcard, WipeCacheBegins,
           WipeCacheFails, WipeCacheEnds, FinishClears, FinishUnlinks, Reboot, history
    <2>3. ~device.faults => OrdersInv' /\ WipeInv'
        BY <1>1, OrdersStep, WipeStep, FstabFacts DEF AskedInv
    <2>4. QED
        BY <2>1, <2>2, <2>3 DEF AskedInv
<1>2. CASE UNCHANGED vars
    BY <1>2 DEF AskedInv, RecoveryTypeInv, LoopInv, OrdersInv, WipeInv, CommandFile, vars, flash, run, history
<1>3. QED
    BY <1>1, <1>2

\* A step that takes a volume's content away has been asked for.
LEMMA EraseAsked ==
    ASSUME RecoveryTypeInv, LoopInv, WipeInv, ~device.faults, Next,
           NEW v \in Volumes, volume[v] = "user", volume'[v] # "user"
    PROVE  v \in MayErase
<1> USE FstabFacts
<1>1. ASSUME NEW request \in Requests, MainRequests(request) PROVE v \in MayErase
    BY <1>1 DEF MainRequests
<1>2. CASE MainReboots
    BY <1>2 DEF MainReboots
<1>3. CASE MainUses
    BY <1>3 DEF MainUses
<1>4. ASSUME NEW keys \in BOOLEAN, Boots(keys) PROVE v \in MayErase
    BY <1>4 DEF Boots
<1>5. CASE PowerLoss
    <2>1. Formatting(v)
        BY <1>5, FailedFormatFacts DEF PowerLoss
    <2>2. QED
        BY <2>1 DEF Formatting, LoopInv, WipeInv, Wiping, MayErase
<1>6. CASE ReadArgs
    BY <1>6 DEF ReadArgs, flash
<1>7. CASE RecordArgs
    BY <1>7 DEF RecordArgs
<1>8. CASE Dispatch
    BY <1>8 DEF Dispatch, flash
<1>9. CASE Menu
    BY <1>9 DEF Menu, flash
<1>10. CASE MenuExit
    BY <1>10 DEF MenuExit, flash
<1>11. CASE SkipVolume
    BY <1>11 DEF SkipVolume
<1>12. CASE WipeFails
    <2>1. Fstab[index] \in Volumes
        BY <1>12 DEF RecoveryTypeInv, WipeFails
    <2>2. v = Fstab[index]
        BY <1>12, <2>1, FailedFormatFacts DEF WipeFails
    <2>3. QED
        BY <1>12, <2>2 DEF WipeFails
<1>13. CASE FormatBegins
    BY <1>13 DEF FormatBegins, flash
<1>14. CASE format_volume
    <2>1. Fstab[index] \in Volumes /\ Fstab[index] \in Wipe /\ "wipe_data" \in asked
        BY <1>14 DEF RecoveryTypeInv, LoopInv, WipeInv, Wiping, format_volume, Goes
    <2>2. v = Fstab[index]
        BY <1>14, <2>1, WipedFacts DEF format_volume
    <2>3. QED
        BY <2>1, <2>2 DEF MayErase
<1>15. CASE VolumesDone
    BY <1>15 DEF VolumesDone, flash
<1>16. CASE CleanSdcard
    <2>1. v = SDCARD /\ "wipe_data" \in asked
        BY <1>16, WipedFacts DEF CleanSdcard, Goes, WipeInv, Wiping
    <2>2. QED
        BY <2>1 DEF MayErase
<1>17. CASE WipeCacheBegins
    BY <1>17 DEF WipeCacheBegins, flash
<1>18. CASE WipeCacheFails
    <2>1. v = CACHE /\ volume[CACHE] = "torn"
        BY <1>18, FailedFormatFacts DEF WipeCacheFails
    <2>2. QED
        BY <2>1
<1>19. CASE WipeCacheEnds
    <2>1. v = CACHE /\ "wipe_cache" \in asked
        BY <1>19, WipedFacts DEF WipeCacheEnds, Goes, WipeInv
    <2>2. QED
        BY <2>1 DEF MayErase
<1>20. CASE FinishClears
    BY <1>20 DEF FinishClears
<1>21. CASE FinishUnlinks
    BY <1>21 DEF FinishUnlinks
<1>22. CASE Reboot
    BY <1>22 DEF Reboot
<1>23. QED
    BY <1>1, <1>2, <1>3, <1>4, <1>5, <1>6, <1>7, <1>8, <1>9, <1>10, <1>11, <1>12, <1>13, <1>14,
       <1>15, <1>16, <1>17, <1>18, <1>19, <1>20, <1>21, <1>22 DEF Next, Program, Surroundings

(***************************************************************************)
(* "Remove the command file, so recovery won't repeat" (main.c:326): for   *)
(* any fstab that wipes /cache, as the shipped one does, any orders and    *)
(* any number of power losses, a volume loses its content only to an order *)
(* that is still to be carried out.                                        *)
(***************************************************************************)
THEOREM AskedCorrect ==
    ASSUME CACHE \in Wipe
    PROVE  Spec => OnlyWhatWasAsked
<1>1. Init => AskedInv
    <2> SUFFICES ASSUME Init PROVE AskedInv
        OBVIOUS
    <2>1. RecoveryTypeInv /\ LoopInv
        BY RecoveryInit
    <2>2. CommandFile = {} /\ bcb = CLEAR /\ bcb.args = {} /\ ~bcb.boot /\ pc = "main"
        BY DEF Init, CommandFile, CLEAR
    <2>3. OrdersInv /\ WipeInv
        BY <2>2 DEF OrdersInv, WipeInv, Erasing, Running, Wiping
    <2>4. QED
        BY <2>1, <2>3 DEF AskedInv
<1>2. AskedInv /\ [Next]_vars => AskedInv'
    BY AskedStep
<1>3. AskedInv /\ [Next]_vars =>
          [\A v \in Volumes : ~device.faults /\ volume[v] = "user" /\ volume'[v] # "user" => v \in MayErase]_vars
    BY EraseAsked DEF AskedInv, vars, flash
<1>4. QED
    BY <1>1, <1>2, <1>3, PTL DEF Spec, OnlyWhatWasAsked

=============================================================================
