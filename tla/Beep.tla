-------------------------------- MODULE Beep --------------------------------
(***************************************************************************)
(* The beeper driver of src/kernel/drivers/char/beep/x4412-beep.c.        *)
(*                                                                         *)
(* Module load registers the static platform device and the driver; the   *)
(* driver core then probes, which drives GPD0(1) low, clears               *)
(* __x4412_beep_status and creates the sysfs attribute "state".  A write   *)
(* of "state" sets the pin and then the status, in two steps and without   *)
(* a lock; a read reports the status.  Module unload unregisters the       *)
(* driver only: remove frees the GPIO, then removes the attribute group,   *)
(* which waits for the writes in progress; a write may still start before  *)
(* the group is gone.                                                      *)
(*                                                                         *)
(* The GPIO level is what gpio_set_value last drove (low before the first  *)
(* probe: the pin is an input with its pull-down at reset).  The result    *)
(* of gpio_request is only logged and changes nothing modelled; the PM     *)
(* callbacks return 0 and do nothing.                                      *)
(***************************************************************************)
EXTENDS Naturals

CONSTANTS
    Writers,    \* the processes that write the "state" attribute
    Values      \* the numbers written (simple_strtoul of the buffer)

VARIABLES
    loaded,     \* the module is loaded
    drv,        \* "none", "bound", or "removing" (remove has freed the GPIO)
    pin,        \* the level of GPD0(1): 1 sounds the beeper
    status,     \* __x4412_beep_status
    wpc,        \* wpc[w]: "idle", or "status" between the two writes
    wval        \* wval[w]: the status the write of w will store

vars == <<loaded, drv, pin, status, wpc, wval>>

(* The attribute group exists from probe until remove has removed it *)
GroupUp == drv \in {"bound", "removing"}

Init ==
    /\ loaded = FALSE /\ drv = "none"
    /\ pin = 0 /\ status = 0
    /\ wpc = [w \in Writers |-> "idle"]
    /\ wval = [w \in Writers |-> 0]

(* x4412_beep_read for "state": "1" when the status is non-zero *)
x4412_beep_read == IF status # 0 THEN 1 ELSE 0

(* __x4412_beep_probe: drive the pin low and clear the status *)
BeepProbe == pin' = 0 /\ status' = 0

(* x4412_beep_init: register the device and the driver, which binds to    *)
(* the device and probes it; the driver's result is the module's.  After  *)
(* an unload the static device is still registered, so the second         *)
(* registration fails, which is only logged, and the driver binds to the  *)
(* device that is left.                                                   *)
x4412_beep_init ==
    /\ ~loaded
    /\ \/ /\ loaded' = TRUE /\ drv' = "bound"
          /\ BeepProbe
       \/ UNCHANGED <<loaded, drv, pin, status>>
    /\ UNCHANGED <<wpc, wval>>

(* x4412_beep_exit -> x4412_beep_remove: __x4412_beep_remove frees the GPIO *)
x4412_beep_exit ==
    /\ loaded /\ drv = "bound"
    /\ drv' = "removing"
    /\ UNCHANGED <<loaded, pin, status, wpc, wval>>

(* sysfs_remove_group: waits for the writes in progress, then the module  *)
(* is gone.                                                               *)
RemoveGroup ==
    /\ drv = "removing"
    /\ \A w \in Writers : wpc[w] = "idle"
    /\ drv' = "none" /\ loaded' = FALSE
    /\ UNCHANGED <<pin, status, wpc, wval>>

(* x4412_beep_write: if(on) gpio_set_value(GPD0(1), 1) else ... 0 *)
WritePin(w, on) ==
    /\ wpc[w] = "idle" /\ GroupUp
    /\ pin' = IF on # 0 THEN 1 ELSE 0
    /\ wpc' = [wpc EXCEPT ![w] = "status"]
    /\ wval' = [wval EXCEPT ![w] = IF on # 0 THEN 1 ELSE 0]
    /\ UNCHANGED <<loaded, drv, status>>

(* x4412_beep_write: __x4412_beep_status = 1 (or 0); return count *)
WriteStatus(w) ==
    /\ wpc[w] = "status"
    /\ status' = wval[w]
    /\ wpc' = [wpc EXCEPT ![w] = "idle"]
    /\ UNCHANGED <<loaded, drv, pin, wval>>

Next ==
    \/ x4412_beep_init \/ x4412_beep_exit \/ RemoveGroup
    \/ \E w \in Writers, on \in Values : WritePin(w, on)
    \/ \E w \in Writers : WriteStatus(w)

(* A write in progress completes: sysfs stores run to their end *)
Spec == Init /\ [][Next]_vars /\ \A w \in Writers : WF_vars(WriteStatus(w))

-----------------------------------------------------------------------------

TypeOK ==
    /\ loaded \in BOOLEAN
    /\ drv \in {"none", "bound", "removing"}
    /\ pin \in {0, 1} /\ status \in {0, 1}
    /\ wpc \in [Writers -> {"idle", "status"}]
    /\ wval \in [Writers -> {0, 1}]

(* While the driver is bound and no write of "state" is in progress, a     *)
(* read of "state" (x4412_beep_read) reports the level the GPIO drives.    *)
(* It relies on probe resetting the status together with the pin across    *)
(* an unload and a reload, and on every write storing the status it drove. *)
ReadMatchesPin ==
    (drv = "bound" /\ \A w \in Writers : wpc[w] = "idle")
        => x4412_beep_read = pin

(* After the module is unloaded the beeper is silent: remove leaves the    *)
(* GPIO as the last write drove it.                                        *)
SilentWhenUnloaded == ~loaded => pin = 0

=============================================================================
