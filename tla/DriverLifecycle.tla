--------------------------- MODULE DriverLifecycle ---------------------------
(***************************************************************************)
(* Load, probe, unload and error unwinding of the kernel module:           *)
(* src/kernel/driver.c with the character device set-up of part_004 and    *)
(* the /proc set-up of part_005.  One loader thread runs pcie_sim_init     *)
(* (which probes each platform device synchronously from                   *)
(* platform_device_add) and later pcie_sim_exit; user processes open and   *)
(* release the character device concurrently, from the moment cdev_add     *)
(* makes it reachable.  Every allocation or registration may fail.         *)
(* An open file pins the module (fops.owner = THIS_MODULE), so rmmod       *)
(* waits for it, but the unwinding inside a failed probe or a failed init  *)
(* does not.                                                                *)
(***************************************************************************)
EXTENDS Naturals

CONSTANTS
  DeviceCount,  \* DEVICE_COUNT
  Users,        \* user processes that open /dev/pcie_simN
  MaxOpens,     \* bound: opens per user process over a behaviour
  NoDev

Devs == 0 .. DeviceCount - 1

\* The objects pcie_sim_probe creates for a device, in order: the struct
\* (kzalloc), the cdev (cdev_add), the /dev node (device_create), the proc
\* directory and the proc stats file.
Objs == {"mem", "cdev", "node", "dir", "stats"}

\* The object each probe step creates next.
NextObj == [mem |-> "cdev", cdev |-> "node", node |-> "dir", dir |-> "stats"]

VARIABLES
  pc,      \* the loader: an init/exit label, or the object being created
  i,       \* the loop variable i (device_id during its probe)
  region,  \* alloc_chrdev_region held
  cls,     \* driver_state.class created
  pdrv,    \* platform driver registered
  pdev,    \* pcie_sim_devices[d]: "none" | "alloc" | "added"
  bound,   \* pcie_sim_probe of d returned 0, so remove will run
  held,    \* held[d]: the objects of device d that exist
  file,    \* file[u]: the device u's open file points to, or NoDev
  opens    \* opens[u]: the opens u has made

vars == <<pc, i, region, cls, pdrv, pdev, bound, held, file, opens>>

\* After delete_module, or once init has failed, try_module_get fails.
Going == pc \in {"exit_driver", "exit_class", "done", "failed"}

Init ==
  /\ pc = "region" /\ i = 0
  /\ region = FALSE /\ cls = FALSE /\ pdrv = FALSE
  /\ pdev = [d \in Devs |-> "none"]
  /\ bound = [d \in Devs |-> FALSE]
  /\ held = [d \in Devs |-> {}]
  /\ file = [u \in Users |-> NoDev]
  /\ opens = [u \in Users |-> 0]

\* The loop of create_platform_devices moves on to the next device.
NextDevice ==
  IF i + 1 < DeviceCount THEN i' = i + 1 /\ pc' = "alloc"
                         ELSE i' = i /\ pc' = "live"

\* platform_device_unregister of every device in S: device_del unbinds the
\* driver, which runs pcie_sim_remove on a bound device (proc cleanup,
\* char cleanup, kfree); then the platform device itself is released.
UnregisterAll(S) ==
  /\ pdev' = [d \in Devs |-> IF d \in S THEN "none" ELSE pdev[d]]
  /\ bound' = [d \in Devs |-> bound[d] /\ d \notin S]
  /\ held' = [d \in Devs |-> IF d \in S /\ bound[d] THEN {} ELSE held[d]]

---------------------------------------------------------------------------
(* pcie_sim_init up to the platform devices.  A failure unwinds what the *)
(* earlier steps registered (err_driver, err_class) and the load fails.   *)

AllocRegion(ok) ==
  /\ pc = "region"
  /\ region' = ok
  /\ pc' = IF ok THEN "class" ELSE "failed"
  /\ UNCHANGED <<i, cls, pdrv, pdev, bound, held, file, opens>>

CreateClass(ok) ==
  /\ pc = "class"
  /\ cls' = ok /\ region' = ok
  /\ pc' = IF ok THEN "driver" ELSE "failed"
  /\ UNCHANGED <<i, pdrv, pdev, bound, held, file, opens>>

RegisterDriver(ok) ==
  /\ pc = "driver"
  /\ pdrv' = ok /\ cls' = ok /\ region' = ok
  /\ pc' = IF ok THEN "alloc" ELSE "failed"
  /\ UNCHANGED <<i, pdev, bound, held, file, opens>>

\* platform_device_alloc(DRIVER_NAME, i); NULL jumps to cleanup.
DeviceAlloc(ok) ==
  /\ pc = "alloc"
  /\ pdev' = IF ok THEN [pdev EXCEPT ![i] = "alloc"] ELSE pdev
  /\ pc' = IF ok THEN "add" ELSE "cleanup"
  /\ UNCHANGED <<i, region, cls, pdrv, bound, held, file, opens>>

\* platform_device_add: on success the bus probes the device at once; on
\* failure platform_device_put, NULL, and cleanup.
DeviceAdd(ok) ==
  /\ pc = "add"
  /\ pdev' = [pdev EXCEPT ![i] = IF ok THEN "added" ELSE "none"]
  /\ pc' = IF ok THEN "mem" ELSE "cleanup"
  /\ UNCHANGED <<i, region, cls, pdrv, bound, held, file, opens>>

---------------------------------------------------------------------------
(* pcie_sim_probe of device i.  pc names the object it creates next.  A   *)
(* failed probe leaves the platform device added but unbound, and         *)
(* platform_device_add still returns 0.                                   *)

\* kzalloc, cdev_add, device_create or proc_mkdir succeeds.
ProbeCreate ==
  /\ pc \in DOMAIN NextObj
  /\ held' = [held EXCEPT ![i] = @ \cup {pc}]
  /\ pc' = NextObj[pc]
  /\ UNCHANGED <<i, region, cls, pdrv, pdev, bound, file, opens>>

\* proc_create_data("stats") succeeds and the probe returns 0.
ProbeComplete ==
  /\ pc = "stats"
  /\ held' = [held EXCEPT ![i] = @ \cup {"stats"}]
  /\ bound' = [bound EXCEPT ![i] = TRUE]
  /\ NextDevice
  /\ UNCHANGED <<region, cls, pdrv, pdev, file, opens>>

\* Mutant of ProbeFails: err_proc forgets pcie_sim_char_cleanup.
ProbeFailsKeepChar ==
  /\ pc \in Objs
  /\ held' = [held EXCEPT ![i] = IF pc \in {"dir", "stats"}
                                   THEN @ \cap {"cdev", "node"} ELSE {}]
  /\ NextDevice
  /\ UNCHANGED <<region, cls, pdrv, pdev, bound, file, opens>>

\* The step creating pc fails.  Every failure path releases all that the
\* probe created: device_create's failure does cdev_del, proc_create_data's
\* does proc_remove of the directory, err_proc runs pcie_sim_char_cleanup
\* and err_char clears driver_state.devices[i] and kfrees the struct.
ProbeFails ==
  /\ pc \in Objs
  /\ held' = [held EXCEPT ![i] = {}]
  /\ NextDevice
  /\ UNCHANGED <<region, cls, pdrv, pdev, bound, file, opens>>

---------------------------------------------------------------------------
(* Unwinding of a failed create_platform_devices, and module exit.        *)

\* Mutant of CleanupDevices: the loop stops one device early.
CleanupDevicesSkipFirst ==
  /\ pc = "cleanup"
  /\ UnregisterAll({d \in Devs : 0 < d /\ d < i /\ pdev[d] # "none"})
  /\ pdrv' = FALSE /\ cls' = FALSE /\ region' = FALSE
  /\ pc' = "failed"
  /\ UNCHANGED <<i, file, opens>>

\* cleanup: while (--i >= 0) unregisters every device added before the
\* failing one; then err_devices, err_driver and err_class.
CleanupDevices ==
  /\ pc = "cleanup"
  /\ UnregisterAll({d \in Devs : d < i /\ pdev[d] # "none"})
  /\ pdrv' = FALSE /\ cls' = FALSE /\ region' = FALSE
  /\ pc' = "failed"
  /\ UNCHANGED <<i, file, opens>>

\* delete_module: refused while an open file holds a module reference;
\* otherwise the module goes away and pcie_sim_exit runs
\* destroy_platform_devices.
ExitDevices ==
  /\ pc = "live" /\ \A u \in Users : file[u] = NoDev
  /\ UnregisterAll({d \in Devs : pdev[d] # "none"})
  /\ pc' = "exit_driver"
  /\ UNCHANGED <<i, region, cls, pdrv, file, opens>>

ExitDriver ==
  /\ pc = "exit_driver" /\ pdrv' = FALSE /\ pc' = "exit_class"
  /\ UNCHANGED <<i, region, cls, pdev, bound, held, file, opens>>

\* class_destroy, then unregister_chrdev_region.
ExitClass ==
  /\ pc = "exit_class" /\ cls' = FALSE /\ region' = FALSE /\ pc' = "done"
  /\ UNCHANGED <<i, pdrv, pdev, bound, held, file, opens>>

---------------------------------------------------------------------------
(* User processes.                                                         *)

\* chrdev_open finds the cdev, takes a module reference, and
\* pcie_sim_open stores dev in filp->private_data (dev->enabled is set by
\* the probe and never cleared, so -ENODEV does not happen).
UserOpen(u, d) ==
  /\ file[u] = NoDev /\ "cdev" \in held[d] /\ ~Going
  /\ opens[u] < MaxOpens /\ opens' = [opens EXCEPT ![u] = @ + 1]
  /\ file' = [file EXCEPT ![u] = d]
  /\ UNCHANGED <<pc, i, region, cls, pdrv, pdev, bound, held>>

\* pcie_sim_release reads filp->private_data; the reference is dropped.
UserRelease(u) ==
  /\ file[u] # NoDev
  /\ file' = [file EXCEPT ![u] = NoDev]
  /\ UNCHANGED <<pc, i, region, cls, pdrv, pdev, bound, held, opens>>

Next ==
  \/ \E ok \in BOOLEAN :
       \/ AllocRegion(ok) \/ CreateClass(ok) \/ RegisterDriver(ok)
       \/ DeviceAlloc(ok) \/ DeviceAdd(ok)
  \/ ProbeCreate \/ ProbeComplete \/ ProbeFails
  \/ CleanupDevices
  \/ ExitDevices \/ ExitDriver \/ ExitClass
  \/ \E u \in Users : UserRelease(u) \/ \E d \in Devs : UserOpen(u, d)

Spec == Init /\ [][Next]_vars

---------------------------------------------------------------------------
(* Properties *)

TypeOK ==
  /\ pc \in {"region", "class", "driver", "alloc", "add", "cleanup", "live",
             "exit_driver", "exit_class", "done", "failed"} \cup Objs
  /\ i \in Devs
  /\ region \in BOOLEAN /\ cls \in BOOLEAN /\ pdrv \in BOOLEAN
  /\ pdev \in [Devs -> {"none", "alloc", "added"}]
  /\ bound \in [Devs -> BOOLEAN]
  /\ held \in [Devs -> SUBSET Objs]
  /\ file \in [Users -> Devs \cup {NoDev}]
  /\ opens \in [Users -> 0 .. MaxOpens]

\* What each object is built on, within its device.
Needs == [cdev |-> "mem", node |-> "cdev", dir |-> "mem", stats |-> "dir"]

\* No kernel object outlives what it is built on, at any point of loading,
\* probing, unwinding or unloading: a cdev lives inside its device struct
\* and needs the chrdev region, a /dev node needs its cdev and the class,
\* the stats file needs its directory, and a device struct needs its
\* added platform device and the registered driver.
ResourceNesting ==
  \A d \in Devs :
    /\ \A o \in held[d] \ {"mem"} : Needs[o] \in held[d]
    /\ "cdev" \in held[d] => region
    /\ "node" \in held[d] => cls
    /\ "mem" \in held[d] => pdev[d] = "added" /\ pdrv

\* Once pcie_sim_init has failed, or pcie_sim_exit has finished, every
\* registration and allocation of the module has been undone: the error
\* labels and the cleanup loop unwind exactly what was set up.
UnwindComplete ==
  pc \in {"failed", "done"} =>
    /\ ~region /\ ~cls /\ ~pdrv
    /\ \A d \in Devs : pdev[d] = "none" /\ held[d] = {}

\* An open file never refers to a freed device: the struct a file's
\* private_data (and its inode's i_cdev) points to stays allocated while
\* the file is open.
NoDanglingFile ==
  \A u \in Users : file[u] # NoDev => "mem" \in held[file[u]]
=============================================================================
