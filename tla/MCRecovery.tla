----------------------------- MODULE MCRecovery -----------------------------
(***************************************************************************)
(* Recovery on the volumes of ramdisk/sbin/recovery.fstab: /cache, with    *)
(* the command file, is wiped before /data.  /fota and /preinstall behave  *)
(* like /data and /system.                                                 *)
(***************************************************************************)
EXTENDS Recovery

CONSTANTS system, dbdata, cache, data, sdcard

MCFstab == <<system, dbdata, cache, data, sdcard>>
MCWipe == {dbdata, cache, data}
MCRequests == {{"wipe_data"}, {"wipe_cache"}, {"update_package"},
               {"wipe_cache", "send_intent"}, {"wipe_data", "wipe_cache"}}

\* The device itself has no /misc; the first four are what the code is written for.
MCDevices ==
    {[misc |-> "emmc", faults |-> FALSE, disturbances |-> 3],
     [misc |-> "emmc", faults |-> TRUE, disturbances |-> 2],
     [misc |-> "mtd", faults |-> FALSE, disturbances |-> 3],
     [misc |-> "mtd", faults |-> TRUE, disturbances |-> 2],
     [misc |-> "none", faults |-> FALSE, disturbances |-> 3]}
=============================================================================
