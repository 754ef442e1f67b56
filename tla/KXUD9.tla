-------------------------------- MODULE KXUD9 --------------------------------
(***************************************************************************)
(* The KXUD9 accelerometer driver, src/kernel/drivers/input/misc/kxud9.c.  *)
(*                                                                         *)
(* Actors: kxud9_probe, which holds ud9->lock until it returns; user       *)
(* processes that write the sysfs attributes, open and release the misc    *)
(* device and call its ioctls; the PM core calling kxud9_suspend and       *)
(* kxud9_resume (the actor "pm" beside the user processes, with a pc like  *)
(* theirs); the workqueue that runs kxud9_input_work_func; and the I2C     *)
(* core calling kxud9_remove (the actor "rm", with a pc like theirs).  A   *)
(* user process may also open and close the input event device: the      *)
(* input core calls kxud9_input_open for the device's first user and      *)
(* kxud9_input_close for its last, under the input device's mutex.        *)
(*                                                                         *)
(* The atomic_t enabled and kxud9_dev_open_count are single variables,     *)
(* each atomic operation one step.  The delayed work has a pending bit     *)
(* ("timer" while queued, "grabbed" while cancel_delayed_work_sync owns    *)
(* it) and a running flag.  hw_initialized is the driver's flag, set      *)
(* while the supply is on (pdata->power_on and power_off switch it with    *)
(* the flag).  chip is what the chip's registers hold: whether CTRL_REGB   *)
(* has ENABLE and which output data rate CTRL_REGC holds; resume is        *)
(* ud9->resume[RES_CTRL_REGC], the rate the driver believes the chip has,  *)
(* and st the ST bit of ud9->resume[RES_CTRL_REGB] (its ENABLE bit is      *)
(* always set); chip.st is the chip's ST bit.  Rates are model values; the *)
(* poll interval to rate table, the g range (written once, by probe) and   *)
(* the axis data are not modelled, nor are the ioctls that only read the   *)
(* chip (GET_COUNT, GET_MG, GET_ENABLE).  Under I2CFails an I2C transfer   *)
(* to the powered chip may fail.                                           *)
(***************************************************************************)
EXTENDS Naturals, FiniteSets

CONSTANTS
    Procs,            \* user processes
    Ops,              \* the calls users make (see Call)
    UserDuringProbe,  \* whether users may call before kxud9_probe returns
    MaxFiles,         \* bound on the files one process holds open
    Rates,            \* output data rates a poll interval maps to
    InitRate,         \* the rate of pdata->poll_interval
    I2CFails,         \* whether I2C transfers may fail
    GRange            \* pdata->g_range: "g2", "g4", "g6" or "g8"

ASSUME Ops \subseteq {"enable", "disable", "open", "release", "delay", "reset",
                      "ioctl_enable", "ioctl_disable", "ioctl_odr", "selftest",
                      "suspend", "get_mg", "input_open", "input_close"}
ASSUME InitRate \in Rates /\ I2CFails \in BOOLEAN /\ GRange \in STRING
ASSUME UserDuringProbe \in BOOLEAN
ASSUME MaxFiles \in Nat \ {0}

VARIABLES
    enabled,   \* atomic_t ud9->enabled
    count,     \* atomic_t kxud9_dev_open_count
    hw_initialized, \* ud9->hw_initialized
    chip,      \* the chip's CTRL_REGB ENABLE bit and CTRL_REGC rate
    resume,    \* ud9->resume[RES_CTRL_REGC]
    pending,   \* pending bit of ud9->input_work
    running,   \* kxud9_input_work_func has started
    probePc,   \* where kxud9_probe is
    freed,     \* ud9 has been kfree'd
    upc,       \* where each user process is
    uret,      \* where kxud9_enable / kxud9_disable return to
    fd,        \* the number of open files of the misc device a process holds
    ucfg,      \* the rate a process's kxud9_update_odr computed
    st,        \* the ST bit of ud9->resume[RES_CTRL_REGB]
    ust,       \* the ST bit of a process's copy ctrl in kxud9_selftest_store
    pm,        \* "running" or "suspended"
    pmSaved,   \* history: enabled when the PM core last suspended
    sensitivity, \* ud9->sensitivity, counts per g (0 from kzalloc)
    divzero,   \* kxud9_get_mg has divided by a zero sensitivity
    evUsers    \* the processes that hold the input event device open

vars == <<enabled, count, hw_initialized, chip, resume, pending, running,
          probePc, freed, upc, uret, fd, ucfg, st, ust, pm, pmSaved,
          sensitivity, divzero, evUsers>>

(* The user processes, the PM core and the remover *)
Actors == Procs \cup {"pm", "rm"}

UserLabels == {"idle", "en_cmpxchg", "en_power", "en_sched", "dis_cmpxchg",
               "dis_grab", "dis_wait", "dis_power", "open_inc", "rel_read", "odr_write",
               "st_write", "ev_unlock", "ev_fail", "rm_rest"}
ProbeLabels == {"sysfs", "power_on", "config", "input", "misc", "power_off",
                "disable", "done", "failed"}

(* The attribute group exists from sysfs_create_group until ud9 is freed; *)
(* the misc device from misc_register until then, but once the module is *)
(* going (remove has started) open fails to take a module reference.      *)
(* The input event device is taken to be opened only after probe has      *)
(* returned, and disappears when kxud9_input_cleanup unregisters it.       *)
SysfsUp == ~freed /\ probePc \notin {"sysfs", "failed"}
MiscUp == ~freed /\ probePc \in {"power_off", "disable", "done"} /\ upc["rm"] = "idle"
InputUp == ~freed /\ probePc = "done" /\ upc["rm"] = "idle"
ProbeHoldsLock == probePc \notin {"done", "failed"}
CanCall == ~freed /\ (UserDuringProbe \/ probePc = "done")
(* The freezer stops user processes from kxud9_suspend until kxud9_resume  *)
(* has returned.                                                           *)
Awake == pm = "running" /\ upc["pm"] = "idle"
UserCan(p) == CanCall /\ Awake /\ upc[p] = "idle"


(* What the registers hold after a soft reset or a power cycle: CTRL_REGB  *)
(* without ENABLE, CTRL_REGC at its reset value.                           *)
ChipDefault == [on |-> FALSE, odr |-> "default", st |-> FALSE]

(* kxud9_power_off, pdata->power_off of the board file (mach-x4412.c):    *)
(* GPX2(2) low cuts the sensor's supply, and its registers lose what they *)
(* held.                                                                   *)
kxud9_power_off == chip' = ChipDefault

(* kxud9_device_power_off: CTRL_REGB without ENABLE (its failure is only   *)
(* logged), pdata->power_off, hw_initialized = 0.                          *)
kxud9_device_power_off == hw_initialized' = FALSE /\ kxud9_power_off

Init ==
    /\ enabled = 0 /\ count = 0 /\ hw_initialized = FALSE
    /\ chip = ChipDefault /\ resume = InitRate
    /\ pending = "none" /\ running = FALSE
    /\ probePc = "sysfs" /\ freed = FALSE
    /\ upc = [a \in Actors |-> "idle"]
    /\ uret = [a \in Actors |-> "idle"]
    /\ fd = [p \in Procs |-> 0]
    /\ ucfg = [p \in Procs |-> InitRate]
    /\ st = FALSE /\ ust = [p \in Procs |-> FALSE]
    /\ pm = "running" /\ pmSaved = 0
    /\ sensitivity = 0 /\ divzero = FALSE
    /\ evUsers = {}

devVars == <<hw_initialized, chip, resume, st, sensitivity>>
workVars == <<pending, running>>
userVars == <<upc, uret, fd, ucfg, ust, divzero, evUsers>>
pmVars == <<pm, pmSaved>>

Goto(p, l) == upc' = [upc EXCEPT ![p] = l]

(* schedule_delayed_work: queues the work unless its pending bit is set *)
Schedule(pd) == IF pd = "none" THEN "timer" ELSE pd

(* The results a transfer to the chip may have: it fails with the supply *)
(* off, and may fail under I2CFails.  kxud9_i2c_read and kxud9_i2c_write  *)
(* return the error when i2c_transfer does not move all their messages.   *)
I2COutcome(powered) ==
    IF ~powered THEN {FALSE} ELSE IF I2CFails THEN BOOLEAN ELSE {TRUE}

(* kxud9_hw_init: CTRL_REGC from resume[], then CTRL_REGB (ENABLE and ST) *)
HwInit == [on |-> TRUE, odr |-> resume, st |-> st]

(* ---------------- kxud9_enable ---------------- *)

(* if(!atomic_cmpxchg(&ud9->enabled, 0, 1)) ... return 0 *)
EnableCmpxchg(p) ==
    /\ upc[p] = "en_cmpxchg"
    /\ \/ enabled = 0 /\ enabled' = 1 /\ Goto(p, "en_power")
       \/ enabled = 1 /\ Goto(p, uret[p]) /\ UNCHANGED enabled
    /\ UNCHANGED <<count, devVars, workVars, probePc, freed, uret, fd, ucfg, ust, divzero, evUsers, pmVars>>

(* A failed power-on that leaves enabled set *)
EnablePowerOn_keeps_flag(p) ==
    /\ upc[p] = "en_power"
    /\ \/ /\ hw_initialized' = TRUE
          /\ chip' = IF hw_initialized THEN chip ELSE HwInit
          /\ Goto(p, "en_sched")
       \/ /\ I2CFails /\ ~hw_initialized
          /\ kxud9_device_power_off
          /\ Goto(p, "idle")
    /\ UNCHANGED <<enabled, resume, sensitivity, st, count, workVars, probePc, freed, uret, fd, ucfg, ust, divzero, evUsers, pmVars>>

(* A kxud9_hw_init that writes CTRL_REGB only *)
EnablePowerOn_no_regc(p) ==
    /\ upc[p] = "en_power"
    /\ \/ /\ hw_initialized' = TRUE
          /\ chip' = IF hw_initialized THEN chip ELSE [chip EXCEPT !.on = TRUE]
          /\ Goto(p, "en_sched") /\ UNCHANGED enabled
       \/ /\ I2CFails /\ ~hw_initialized
          /\ kxud9_device_power_off
          /\ enabled' = 0 /\ Goto(p, "idle")
    /\ UNCHANGED <<resume, sensitivity, st, count, workVars, probePc, freed, uret, fd, ucfg, ust, divzero, evUsers, pmVars>>

(* Where a kxud9_enable that fails returns to: the input core undoes its  *)
(* count of users; every other caller returns the error (kxud9_open before *)
(* counting the file).                                                     *)
EnableFailed(ret) == IF ret = "ev_unlock" THEN "ev_fail" ELSE "idle"

(* kxud9_device_power_on: pdata->power_on, then kxud9_hw_init unless       *)
(* hw_initialized; if an I2C write fails it powers off and kxud9_enable    *)
(* does atomic_set(&ud9->enabled, 0) and returns the error.               *)
EnablePowerOn(p) ==
    /\ upc[p] = "en_power"
    /\ \/ /\ hw_initialized' = TRUE
          /\ chip' = IF hw_initialized THEN chip ELSE HwInit
          /\ Goto(p, "en_sched") /\ UNCHANGED enabled
       \/ /\ I2CFails /\ ~hw_initialized
          /\ kxud9_device_power_off
          /\ enabled' = 0 /\ Goto(p, EnableFailed(uret[p]))
    /\ UNCHANGED <<resume, sensitivity, st, count, workVars, probePc, freed, uret, fd, ucfg, ust, divzero, evUsers, pmVars>>

(* An enable that never starts the polling *)
EnableSchedule_none(p) ==
    /\ upc[p] = "en_sched"
    /\ Goto(p, uret[p])
    /\ UNCHANGED <<enabled, count, devVars, workVars, probePc, freed, uret, fd, ucfg, ust, divzero, evUsers, pmVars>>

(* schedule_delayed_work(&ud9->input_work, ...); return 0 *)
EnableSchedule(p) ==
    /\ upc[p] = "en_sched"
    /\ pending' = Schedule(pending)
    /\ Goto(p, uret[p])
    /\ UNCHANGED <<enabled, count, devVars, running, probePc, freed, uret, fd, ucfg, ust, divzero, evUsers, pmVars>>

(* ---------------- kxud9_disable ---------------- *)

(* if(atomic_cmpxchg(&ud9->enabled, 1, 0)) ... return 0 *)
DisableCmpxchg(p) ==
    /\ upc[p] = "dis_cmpxchg"
    /\ \/ enabled = 1 /\ enabled' = 0 /\ Goto(p, "dis_grab")
       \/ enabled = 0 /\ Goto(p, uret[p]) /\ UNCHANGED enabled
    /\ UNCHANGED <<count, devVars, workVars, probePc, freed, uret, fd, ucfg, ust, divzero, evUsers, pmVars>>

(* cancel_delayed_work_sync, first half: take the pending bit, which       *)
(* removes a queued timer and makes every later queueing attempt fail.     *)
DisableGrab(p) ==
    /\ upc[p] = "dis_grab"
    /\ pending' = "grabbed"
    /\ Goto(p, "dis_wait")
    /\ UNCHANGED <<enabled, count, devVars, running, probePc, freed, uret, fd, ucfg, ust, divzero, evUsers, pmVars>>

(* cancel_delayed_work without the wait for a running instance *)
DisableWait_nosync(p) ==
    /\ upc[p] = "dis_wait"
    /\ pending' = "none"
    /\ Goto(p, "dis_power")
    /\ UNCHANGED <<enabled, count, devVars, running, probePc, freed, uret, fd, ucfg, ust, divzero, evUsers, pmVars>>

(* cancel_delayed_work_sync, second half: wait until the work function     *)
(* has returned, then release the pending bit.                             *)
DisableWait(p) ==
    /\ upc[p] = "dis_wait"
    /\ ~running
    /\ pending' = "none"
    /\ Goto(p, "dis_power")
    /\ UNCHANGED <<enabled, count, devVars, running, probePc, freed, uret, fd, ucfg, ust, divzero, evUsers, pmVars>>

(* kxud9_disable: kxud9_device_power_off() once the work is cancelled *)
DisablePowerOff(p) ==
    /\ upc[p] = "dis_power"
    /\ kxud9_device_power_off
    /\ Goto(p, uret[p])
    /\ UNCHANGED <<enabled, resume, sensitivity, st, count, workVars, probePc, freed, uret, fd, ucfg, ust, divzero, evUsers, pmVars>>

(* ---------------- the calls of user processes ---------------- *)

(* Every call starts a kxud9_enable (at en_cmpxchg) or a kxud9_disable (at *)
(* dis_cmpxchg) that returns to ret.                                       *)
Start(p, l, ret) ==
    /\ Goto(p, l) /\ uret' = [uret EXCEPT ![p] = ret]
    /\ UNCHANGED <<enabled, count, devVars, workVars, probePc, freed, fd, ucfg,
                   ust, divzero, evUsers, pmVars>>

(* kxud9_enable_store with a value other than 0 *)
CallEnable(p) ==
    /\ "enable" \in Ops /\ UserCan(p) /\ SysfsUp
    /\ Start(p, "en_cmpxchg", "idle")

(* kxud9_enable_store with 0 *)
CallDisable(p) ==
    /\ "disable" \in Ops /\ UserCan(p) /\ SysfsUp
    /\ Start(p, "dis_cmpxchg", "idle")

(* KXUD9_IOCTL_ENABLE_OUTPUT on an open file: retval = kxud9_enable() *)
IoctlEnable(p) ==
    /\ "ioctl_enable" \in Ops /\ UserCan(p) /\ MiscUp /\ fd[p] > 0
    /\ Start(p, "en_cmpxchg", "idle")

(* KXUD9_IOCTL_DISABLE_OUTPUT on an open file: retval = kxud9_disable() *)
IoctlDisable(p) ==
    /\ "ioctl_disable" \in Ops /\ UserCan(p) /\ MiscUp /\ fd[p] > 0
    /\ Start(p, "dis_cmpxchg", "idle")

(* kxud9_open: if(kxud9_enable() < 0) return -1; *)
CallOpen(p) ==
    /\ "open" \in Ops /\ UserCan(p) /\ MiscUp /\ fd[p] < MaxFiles
    /\ Start(p, "en_cmpxchg", "open_inc")

(* kxud9_open: atomic_inc(&kxud9_dev_open_count); return 0 *)
OpenInc(p) ==
    /\ upc[p] = "open_inc"
    /\ count' = count + 1
    /\ fd' = [fd EXCEPT ![p] = @ + 1]
    /\ Goto(p, "idle") /\ uret' = [uret EXCEPT ![p] = "idle"]
    /\ UNCHANGED <<enabled, devVars, workVars, probePc, freed, ucfg, ust, divzero, evUsers, pmVars>>

(* A release that forgets atomic_dec *)
CallRelease_no_dec(p) ==
    /\ "release" \in Ops /\ Awake /\ upc[p] = "idle" /\ fd[p] > 0
    /\ fd' = [fd EXCEPT ![p] = @ - 1]
    /\ Goto(p, "rel_read")
    /\ UNCHANGED <<enabled, count, devVars, workVars, probePc, freed, uret, ucfg,
                   ust, divzero, evUsers, pmVars>>

(* kxud9_release: atomic_dec(&kxud9_dev_open_count) *)
CallRelease(p) ==
    /\ "release" \in Ops /\ Awake /\ upc[p] = "idle" /\ fd[p] > 0
    /\ count' = count - 1
    /\ fd' = [fd EXCEPT ![p] = @ - 1]
    /\ Goto(p, "rel_read")
    /\ UNCHANGED <<enabled, devVars, workVars, probePc, freed, uret, ucfg, ust, divzero,
                   evUsers, pmVars>>

(* A release that never disables *)
ReleaseRead_no_disable(p) ==
    /\ upc[p] = "rel_read"
    /\ Goto(p, "idle")
    /\ uret' = [uret EXCEPT ![p] = "idle"]
    /\ UNCHANGED <<enabled, count, devVars, workVars, probePc, freed, fd, ucfg,
                   ust, divzero, evUsers, pmVars>>

(* open_count = atomic_read(...); if(open_count == 0) kxud9_disable(); *)
ReleaseRead(p) ==
    /\ upc[p] = "rel_read"
    /\ \/ count = 0 /\ Goto(p, "dis_cmpxchg")
       \/ count # 0 /\ Goto(p, "idle")
    /\ uret' = [uret EXCEPT ![p] = "idle"]
    /\ UNCHANGED <<enabled, count, devVars, workVars, probePc, freed, fd, ucfg,
                   ust, divzero, evUsers, pmVars>>

(* kxud9_update_odr(res_interval), up to its test of enabled: the table    *)
(* picks the rate r for the interval, and r is stored in                   *)
(* ud9->resume[RES_CTRL_REGC] (its other bits kept) whether or not the     *)
(* sensor is enabled.                                                      *)
kxud9_update_odr(p) ==
    /\ \E r \in Rates :
          /\ resume' = r
          /\ ucfg' = [ucfg EXCEPT ![p] = r]
    /\ Goto(p, "odr_write")
    /\ UNCHANGED <<enabled, count, hw_initialized, chip, sensitivity, workVars,
                   probePc, freed, uret, fd, st, ust, divzero, evUsers, pmVars>>

(* kxud9_delay_store: res_interval = max(val, min_interval), with no lock, *)
(* then kxud9_update_odr.                                                  *)
CallDelay(p) ==
    /\ "delay" \in Ops /\ UserCan(p) /\ SysfsUp
    /\ kxud9_update_odr(p)

(* KXUD9_IOCTL_UPDATE_ODR on an open file: res_interval is set under       *)
(* ud9->lock (so not while probe holds it), then kxud9_update_odr.         *)
IoctlUpdateOdr(p) ==
    /\ "ioctl_odr" \in Ops /\ UserCan(p) /\ MiscUp /\ fd[p] > 0
    /\ ~ProbeHoldsLock
    /\ kxud9_update_odr(p)

(* if(atomic_read(&ud9->enabled)) kxud9_set_byte(RES_CTRL_REGC, ...):      *)
(* read CTRL_REGC, resume[] = config again, write resume[] to CTRL_REGC.  *)
(* The transfers fail when the supply is off or under I2CFails; the error *)
(* is returned and resume[] keeps the new rate.                            *)
OdrWrite(p) ==
    /\ upc[p] = "odr_write"
    /\ \/ enabled = 0 /\ UNCHANGED <<resume, chip>>
       \/ /\ enabled = 1 /\ hw_initialized
          /\ resume' = ucfg[p]
          /\ chip' = [chip EXCEPT !.odr = ucfg[p]]
       \/ enabled = 1 /\ (~hw_initialized \/ I2CFails) /\ UNCHANGED <<resume, chip>>
    /\ Goto(p, "idle")
    /\ UNCHANGED <<enabled, count, hw_initialized, st, workVars, probePc, freed,
                   sensitivity, uret, fd, ucfg, ust, divzero, evUsers, pmVars>>

(* KXUD9_IOCTL_RESET on an open file: kxud9_reset writes RESET to          *)
(* RESET_WRITE; the chip reloads its defaults.  hw_initialized and resume  *)
(* are left as they are.                                                   *)
CallReset(p) ==
    /\ "reset" \in Ops /\ UserCan(p) /\ MiscUp /\ fd[p] > 0
    /\ \E ok \in I2COutcome(hw_initialized) :
          chip' = IF ok THEN ChipDefault ELSE chip
    /\ UNCHANGED <<enabled, count, hw_initialized, resume, sensitivity, st, workVars, probePc,
                   freed, userVars, pmVars>>

(* kxud9_selftest_store: resume[RES_CTRL_REGB] |= ST for a value other     *)
(* than 0, &= ~ST for 0, then ctrl = resume[RES_CTRL_REGB]; no lock.       *)
SelftestStore(p) ==
    /\ "selftest" \in Ops /\ UserCan(p) /\ SysfsUp
    /\ \E v \in BOOLEAN : st' = v /\ ust' = [ust EXCEPT ![p] = v]
    /\ Goto(p, "st_write")
    /\ UNCHANGED <<enabled, count, hw_initialized, chip, resume, sensitivity, workVars,
                   probePc, freed, uret, fd, ucfg, divzero, evUsers, pmVars>>

(* kxud9_i2c_write(CTRL_REGB, &ctrl, 1), whatever enabled is, and its      *)
(* result ignored.  ctrl holds ENABLE (probe set resume[RES_CTRL_REGB] to  *)
(* ctrl_regb_init | ENABLE), so a write that reaches the chip also starts  *)
(* it measuring.                                                           *)
SelftestWrite(p) ==
    /\ upc[p] = "st_write"
    /\ \E ok \in I2COutcome(hw_initialized) :
          chip' = IF ok THEN [chip EXCEPT !.on = TRUE, !.st = ust[p]] ELSE chip
    /\ Goto(p, "idle")
    /\ UNCHANGED <<enabled, count, hw_initialized, resume, sensitivity, st, workVars, probePc,
                   freed, uret, fd, ucfg, ust, divzero, evUsers, pmVars>>

(* kxud9_get_mg: read the six output registers (no lock) and, when the     *)
(* read succeeds, convert each axis to mg as xyz * 1000 / ud9->sensitivity. *)
(* The ARM kernel's __aeabi_idiv reports a zero divisor through __div0 and *)
(* returns 0; divzero records that it happened.                             *)
kxud9_get_mg(ok) == divzero' = (divzero \/ (ok /\ sensitivity = 0))

(* KXUD9_IOCTL_GET_MG on an open file.  A NULL argument or a failed         *)
(* copy_to_user returns -EFAULT after the read and changes nothing more.   *)
IoctlGetMg(p) ==
    /\ "get_mg" \in Ops /\ UserCan(p) /\ MiscUp /\ fd[p] > 0
    /\ \E ok \in I2COutcome(hw_initialized) : kxud9_get_mg(ok)
    /\ UNCHANGED <<enabled, count, devVars, workVars, probePc, freed, upc, uret,
                   fd, ucfg, ust, evUsers, pmVars>>

(* ---------------- the input core ---------------- *)

(* A process is inside input_open_device or input_close_device, which hold *)
(* the input device's mutex across the driver's open and close.            *)
InputBusy ==
    \E q \in Procs : upc[q] \in {"ev_unlock", "ev_fail"} \/ (upc[q] # "idle" /\ uret[q] = "ev_unlock")

(* input_open_device: the input core counts the user and, for the first   *)
(* one, calls dev->open, kxud9_input_open, which is kxud9_enable.          *)
InputOpen(p) ==
    /\ "input_open" \in Ops /\ UserCan(p) /\ InputUp /\ p \notin evUsers /\ ~InputBusy
    /\ evUsers' = evUsers \cup {p}
    /\ \/ evUsers = {} /\ Goto(p, "en_cmpxchg") /\ uret' = [uret EXCEPT ![p] = "ev_unlock"]
       \/ evUsers # {} /\ UNCHANGED <<upc, uret>>
    /\ UNCHANGED <<enabled, count, devVars, workVars, probePc, freed, fd, ucfg, ust, divzero, pmVars>>

(* input_close_device: for the last user the input core calls dev->close, *)
(* kxud9_input_close, which is kxud9_disable.                              *)
InputClose(p) ==
    /\ "input_close" \in Ops /\ UserCan(p) /\ InputUp /\ p \in evUsers /\ ~InputBusy
    /\ evUsers' = evUsers \ {p}
    /\ \/ evUsers = {p} /\ Goto(p, "dis_cmpxchg") /\ uret' = [uret EXCEPT ![p] = "ev_unlock"]
       \/ evUsers # {p} /\ UNCHANGED <<upc, uret>>
    /\ UNCHANGED <<enabled, count, devVars, workVars, probePc, freed, fd, ucfg, ust, divzero, pmVars>>

(* The driver call has returned: mutex_unlock(&dev->mutex). *)
EvUnlock(p) ==
    /\ upc[p] = "ev_unlock"
    /\ Goto(p, "idle") /\ uret' = [uret EXCEPT ![p] = "idle"]
    /\ UNCHANGED <<enabled, count, devVars, workVars, probePc, freed, fd, ucfg, ust, divzero, evUsers, pmVars>>

(* kxud9_input_open failed: the input core takes the user back, then      *)
(* unlocks and returns the error.                                          *)
EvFail(p) ==
    /\ upc[p] = "ev_fail"
    /\ evUsers' = evUsers \ {p}
    /\ Goto(p, "idle") /\ uret' = [uret EXCEPT ![p] = "idle"]
    /\ UNCHANGED <<enabled, count, devVars, workVars, probePc, freed, fd, ucfg, ust, divzero, pmVars>>

(* ---------------- the PM core ---------------- *)

(* System suspend: the freezer has stopped every process outside the       *)
(* driver; the I2C core calls kxud9_suspend, which is kxud9_disable.       *)
(* pmSaved records enabled for ResumeRestoresEnabled.                      *)
kxud9_suspend ==
    /\ "suspend" \in Ops /\ probePc = "done" /\ ~freed /\ pm = "running"
    /\ \A a \in Actors : upc[a] = "idle"
    /\ pm' = "suspended" /\ pmSaved' = enabled
    /\ Goto("pm", "dis_cmpxchg") /\ uret' = [uret EXCEPT !["pm"] = "idle"]
    /\ UNCHANGED <<enabled, count, devVars, workVars, probePc, freed, fd, ucfg,
                   ust, divzero, evUsers>>

(* System resume: kxud9_resume is kxud9_enable; processes are thawed once  *)
(* it has returned.                                                        *)
kxud9_resume ==
    /\ pm = "suspended" /\ upc["pm"] = "idle"
    /\ pm' = "running"
    /\ Goto("pm", "en_cmpxchg") /\ uret' = [uret EXCEPT !["pm"] = "idle"]
    /\ UNCHANGED <<enabled, count, devVars, workVars, probePc, freed, fd, ucfg,
                   ust, divzero, evUsers, pmSaved>>

(* ---------------- the workqueue ---------------- *)

(* The timer expires and a worker starts kxud9_input_work_func *)
WorkStart ==
    /\ pending = "timer" /\ ~running
    /\ pending' = "none" /\ running' = TRUE
    /\ UNCHANGED <<enabled, count, devVars, probePc, freed, userVars, pmVars>>

(* kxud9_input_work_func: mutex_lock(&ud9->lock), read the axes over I2C,  *)
(* report them, schedule_delayed_work, mutex_unlock, return.              *)
WorkRun ==
    /\ running /\ ~ProbeHoldsLock
    /\ pending' = Schedule(pending)
    /\ running' = FALSE
    /\ UNCHANGED <<enabled, count, devVars, probePc, freed, userVars, pmVars>>

(* ---------------- kxud9_probe and kxud9_remove ---------------- *)

ProbeStep(from, to) ==
    /\ probePc = from /\ probePc' = to
    /\ UNCHANGED <<count, resume, st, workVars, freed, userVars, pmVars>>

(* sysfs_create_group, pdata->init, resume[] from the platform data *)
ProbeSysfs ==
    /\ ProbeStep("sysfs", "power_on")
    /\ UNCHANGED <<enabled, hw_initialized, chip, sensitivity>>

(* kxud9_device_power_on(); atomic_set(&ud9->enabled, 1) *)
ProbePowerOn ==
    /\ ProbeStep("power_on", "config")
    /\ hw_initialized' = TRUE /\ enabled' = 1
    /\ chip' = IF hw_initialized THEN chip ELSE HwInit
    /\ UNCHANGED sensitivity

(* The counts per g of each range *)
SENS == [g2 |-> 819, g4 |-> 410, g6 |-> 273, g8 |-> 205]

(* kxud9_update_g_range: the switch sets ud9->sensitivity for the range,  *)
(* or returns -EINVAL for a value that is not one.  The range bits it      *)
(* then writes to CTRL_REGC (the sensor is enabled) are not modelled; the  *)
(* write may fail, and so may fail the probe (ProbeFail).                 *)
kxud9_update_g_range(g) == g \in DOMAIN SENS /\ sensitivity' = SENS[g]

(* kxud9_update_g_range(pdata->g_range), kxud9_update_odr(res_interval)    *)
(* (which rewrites the rate resume[] already holds), kxud9_input_init,    *)
(* misc_register; each of them may fail (ProbeFail).                       *)
ProbeConfig ==
    /\ ProbeStep("config", "input")
    /\ kxud9_update_g_range(GRange)
    /\ UNCHANGED <<enabled, hw_initialized, chip>>
ProbeInput ==
    /\ ProbeStep("input", "misc")
    /\ UNCHANGED <<enabled, hw_initialized, chip, sensitivity>>
ProbeMisc ==
    /\ ProbeStep("misc", "power_off")
    /\ UNCHANGED <<enabled, hw_initialized, chip, sensitivity>>

(* kxud9_device_power_off() *)
ProbePowerOff ==
    /\ ProbeStep("power_off", "disable")
    /\ kxud9_device_power_off
    /\ UNCHANGED <<enabled, sensitivity>>

(* atomic_set(&ud9->enabled, 0); mutex_unlock(&ud9->lock); return 0 *)
ProbeDisable ==
    /\ ProbeStep("disable", "done") /\ enabled' = 0
    /\ UNCHANGED <<hw_initialized, chip, sensitivity>>

(* The error paths err3, err4, err5: power off, pdata->exit, remove the    *)
(* sysfs group (which waits for running attribute calls), unlock, kfree.   *)
ProbeFail ==
    /\ probePc \in {"power_on", "config", "input", "misc"}
    /\ \A a \in Actors : upc[a] = "idle"
    /\ probePc' = "failed" /\ freed' = TRUE
    /\ kxud9_device_power_off
    /\ UNCHANGED <<enabled, count, resume, sensitivity, st, workVars, userVars, pmVars>>

(* kxud9_remove, first call: kxud9_input_cleanup.  input_unregister_device *)
(* closes the event device for its users, and if it had any the input core *)
(* calls kxud9_input_close, i.e. kxud9_disable, in the remover.  An open   *)
(* misc file pins the module; the device core does not remove a device in *)
(* the middle of a system suspend.                                         *)
Remove ==
    /\ probePc = "done" /\ ~freed /\ count = 0 /\ pm = "running"
    /\ \A a \in Actors : upc[a] = "idle"
    /\ evUsers' = {}
    /\ \/ evUsers # {} /\ Goto("rm", "dis_cmpxchg") /\ uret' = [uret EXCEPT !["rm"] = "rm_rest"]
       \/ evUsers = {} /\ Goto("rm", "rm_rest") /\ UNCHANGED uret
    /\ UNCHANGED <<enabled, count, devVars, workVars, probePc, freed, fd, ucfg, ust, divzero, pmVars>>

(* The rest of kxud9_remove: misc_deregister, kxud9_device_power_off,      *)
(* pdata->exit, remove the sysfs group (which waits for running attribute  *)
(* calls), kfree(ud9).                                                      *)
RemoveRest ==
    /\ upc["rm"] = "rm_rest"
    /\ \A a \in Actors \ {"rm"} : upc[a] = "idle"
    /\ kxud9_device_power_off /\ freed' = TRUE
    /\ Goto("rm", "idle") /\ uret' = [uret EXCEPT !["rm"] = "idle"]
    /\ UNCHANGED <<enabled, count, resume, sensitivity, st, workVars, probePc, fd, ucfg,
                   ust, divzero, evUsers, pmVars>>

(* ---------------- the system ---------------- *)

Call(p) ==
    \/ CallEnable(p) \/ CallDisable(p) \/ CallOpen(p) \/ CallRelease(p)
    \/ CallDelay(p) \/ CallReset(p) \/ IoctlEnable(p) \/ IoctlDisable(p)
    \/ IoctlUpdateOdr(p) \/ SelftestStore(p) \/ IoctlGetMg(p)
    \/ InputOpen(p) \/ InputClose(p)

(* The steps inside a call, of a user process or a kernel actor *)
Inside(a) ==
    \/ EnableCmpxchg(a) \/ EnablePowerOn(a) \/ EnableSchedule(a)
    \/ DisableCmpxchg(a) \/ DisableGrab(a) \/ DisableWait(a)
    \/ DisablePowerOff(a) \/ OpenInc(a) \/ ReleaseRead(a) \/ OdrWrite(a)
    \/ SelftestWrite(a) \/ EvUnlock(a) \/ EvFail(a)

PM == kxud9_suspend \/ kxud9_resume

Probe ==
    \/ ProbeSysfs \/ ProbePowerOn \/ ProbeConfig \/ ProbeInput \/ ProbeMisc
    \/ ProbePowerOff \/ ProbeDisable \/ ProbeFail

Work == WorkStart \/ WorkRun

Next ==
    \/ \E p \in Procs : Call(p)
    \/ \E a \in Actors : Inside(a)
    \/ PM \/ Work \/ Probe \/ Remove \/ RemoveRest

(* Kernel code that has started a call runs on (nothing it waits for is   *)
(* held forever); a queued delayed work runs once its timer expires; the  *)
(* probe runs to its end.  Users need not call, the system need not       *)
(* suspend or resume, and remove need not come; once it has started it   *)
(* frees ud9 when the calls in progress have returned.                     *)
Fairness ==
    /\ \A a \in Actors : WF_vars(Inside(a))
    /\ WF_vars(Work)
    /\ WF_vars(Probe)
    /\ WF_vars(RemoveRest)

Spec == Init /\ [][Next]_vars /\ Fairness

-----------------------------------------------------------------------------

TypeOK ==
    /\ enabled \in {0, 1}
    /\ count \in 0 .. Cardinality(Procs) * MaxFiles
    /\ hw_initialized \in BOOLEAN /\ running \in BOOLEAN /\ freed \in BOOLEAN
    /\ chip \in [on : BOOLEAN, odr : Rates \cup {"default"}, st : BOOLEAN]
    /\ resume \in Rates /\ st \in BOOLEAN
    /\ pending \in {"none", "timer", "grabbed"}
    /\ probePc \in ProbeLabels
    /\ upc \in [Actors -> UserLabels] /\ uret \in [Actors -> UserLabels]
    /\ fd \in [Procs -> 0 .. MaxFiles] /\ ucfg \in [Procs -> Rates]
    /\ ust \in [Procs -> BOOLEAN]
    /\ pm \in {"running", "suspended"} /\ pmSaved \in {0, 1}
    /\ sensitivity \in {0} \cup {SENS[g] : g \in DOMAIN SENS}
    /\ divzero \in BOOLEAN
    /\ evUsers \subseteq Procs


(* No user or kernel actor is inside a driver call, and probe has         *)
(* returned successfully.                                                  *)
Quiescent == probePc = "done" /\ ~freed /\ \A a \in Actors : upc[a] = "idle"

(* Whenever no call is in progress, the enabled flag tells the truth: the  *)
(* chip is powered and the polling work is queued or running exactly when *)
(* enabled is 1.  kxud9_enable and kxud9_disable flip the flag by          *)
(* compare-exchange first and do the power and work changes afterwards.   *)
EnabledMatchesDevice ==
    Quiescent =>
        /\ (enabled = 1) = hw_initialized
        /\ (enabled = 1) = (pending = "timer" \/ running)

(* Whenever no call is in progress and the driver counts the chip as       *)
(* initialised, the chip holds what ud9->resume[] records: it is measuring *)
(* (CTRL_REGB ENABLE) at the rate of resume[RES_CTRL_REGC], in self test   *)
(* exactly when resume[RES_CTRL_REGB] has ST.  kxud9_hw_init writes        *)
(* resume[] on power on, kxud9_update_odr writes the new rate to the chip  *)
(* while enabled, and kxud9_selftest_store writes CTRL_REGB after changing *)
(* resume[], whether or not the sensor is enabled.                         *)
ChipMatchesResume ==
    (Quiescent /\ hw_initialized) =>
        chip = [on |-> TRUE, odr |-> resume, st |-> st]

(* Whenever no call is in progress, a user holding the misc device or the *)
(* input event device open means the sensor is enabled.  kxud9_open and    *)
(* kxud9_input_open enable before they return; kxud9_release disables     *)
(* when the misc count it read back is 0 and kxud9_input_close disables   *)
(* for the last input user, each without looking at the other interface.  *)
OpenImpliesEnabled == (Quiescent /\ (count > 0 \/ evUsers # {})) => enabled = 1

(* Once ud9 is freed (a failed probe or kxud9_remove), the delayed work is *)
(* neither queued nor running: it would run on freed memory.               *)
NoWorkAfterFree == freed => (pending = "none" /\ ~running)

(* kxud9_input_work_func only reads the chip while it is powered: disable  *)
(* powers off only after cancel_delayed_work_sync has waited for it.       *)
ReadsPoweredDevice == [][(WorkRun /\ ~freed) => hw_initialized]_vars

(* An enabled sensor keeps being polled: after enable the work runs, and   *)
(* it keeps rescheduling itself, until the sensor is disabled or removed.  *)
EnabledDevicePolls ==
    (Quiescent /\ enabled = 1) ~> (running \/ enabled = 0 \/ freed)

(* System suspend and resume leave the sensor as they found it: when       *)
(* kxud9_resume returns, enabled is what it was when kxud9_suspend was     *)
(* called.  kxud9_suspend disables; kxud9_resume calls kxud9_enable         *)
(* whatever the sensor was before.                                         *)
ResumeRestoresEnabled ==
    [][(pm = "running" /\ upc["pm"] # "idle" /\ upc'["pm"] = "idle")
          => enabled' = pmSaved]_vars

=============================================================================
