------------------------------ MODULE CppDevice ------------------------------
(***************************************************************************)
(* The C++ interface of src/lib: Device (device.hpp), an RAII owner of a  *)
(* pcie_sim_handle_t, PerformanceMonitor and BenchmarkRunner              *)
(* (monitor.hpp), over the library entry points of core.c, which forward  *)
(* to the Linux backend (linux_sim.c).                                     *)
(*                                                                         *)
(* The main thread runs any sequence of C++ calls on the Device objects   *)
(* Objs and on one PerformanceMonitor, catching DeviceError as the test   *)
(* programs do; the monitor thread runs start_monitoring's loop.  A       *)
(* Device object is raw storage, live (constructed) or dead (destroyed).  *)
(* The backend's handles are heap blocks that malloc hands out once and   *)
(* free releases.  Statistics values are left to LinuxSim: here only who  *)
(* holds which handle, and when a block is read and used, matter.        *)
(***************************************************************************)
EXTENDS Integers, FiniteSets

CONSTANTS
  Objs,        \* Device objects of the client (model values)
  Handles,     \* heap blocks malloc can return for a handle
  DevIds,      \* device ids passed to the constructor
  MaxDevices,  \* MAX_DEVICES
  Null         \* nullptr

ASSUME Null \notin Handles

VARIABLES
  obj,         \* Device object state: "raw" | "live" | "dead"
  hd,          \* the object's handle_, or Null
  heap,        \* handle block: "unused" | "open" | "freed"
  err,         \* the code of the last DeviceError the main thread caught
  mobj,        \* the PerformanceMonitor: "raw" | "live" | "dead"
  mref,        \* the Device its device_ reference names
  monitoring,  \* monitoring_ (std::atomic<bool>)
  thr,         \* monitor_thread_: "none" | "running" | "exited" (joinable)
  tpc,         \* the monitor thread's place in its loop
  mh,          \* the handle_ value get_statistics read for the backend
  mpc,         \* the main thread: "idle" or inside a monitor member
  terminated   \* std::terminate has ended the process

devVars == <<obj, hd, heap>>
monVars == <<mobj, mref, monitoring, thr, tpc, mh, mpc>>
vars == <<devVars, monVars, err, terminated>>

Init ==
  /\ obj = [o \in Objs |-> "raw"]
  /\ hd = [o \in Objs |-> Null]
  /\ heap = [h \in Handles |-> "unused"]
  /\ err = "none"
  /\ mobj = "raw"
  /\ mref = CHOOSE o \in Objs : TRUE
  /\ monitoring = FALSE
  /\ thr = "none"
  /\ tpc = "test"
  /\ mh = Null
  /\ mpc = "idle"
  /\ terminated = FALSE

Main == mpc = "idle" /\ ~terminated

\* A backend call on handle h reaches freed memory.
UsesFreed(h) == h # Null /\ heap[h] = "freed"

\* pcie_sim_close forwarded to pcie_sim_close_linux: NULL is refused,
\* anything else is free()d.
CloseHandle(h) ==
  heap' = IF h = Null THEN heap ELSE [heap EXCEPT ![h] = "freed"]

\* What pcie_sim_open, forwarded to pcie_sim_open_linux, can return for
\* device id d: PARAM for an id outside 0 .. MAX_DEVICES-1, otherwise
\* success or, when malloc of the handle fails, MEMORY.
OpenResults(d) ==
  IF d \in 0 .. MaxDevices - 1 THEN {"SUCCESS", "MEMORY"} ELSE {"PARAM"}

\* The result of pcie_sim_transfer, pcie_sim_get_stats or
\* pcie_sim_reset_stats forwarded to the backend: a NULL handle is refused
\* with PCIE_SIM_ERROR_PARAM.
CallResult(h) == IF h = Null THEN "PARAM" ELSE "SUCCESS"

-----------------------------------------------------------------------------
(* Device *)

\* Device(int device_id): pcie_sim_open succeeds with a fresh block.
DeviceCtor(o, d) ==
  /\ Main /\ obj[o] = "raw"
  /\ "SUCCESS" \in OpenResults(d)
  /\ \E h \in Handles :
       /\ heap[h] = "unused"
       /\ heap' = [heap EXCEPT ![h] = "open"]
       /\ hd' = [hd EXCEPT ![o] = h]
  /\ obj' = [obj EXCEPT ![o] = "live"]
  /\ UNCHANGED <<err, monVars, terminated>>

\* Device(int device_id): pcie_sim_open fails (an id out of range, or
\* malloc returns NULL); the constructor throws, the object never lives.
DeviceCtorFails(o, d) ==
  /\ Main /\ obj[o] = "raw"
  /\ \E r \in OpenResults(d) \ {"SUCCESS"} : err' = r
  /\ UNCHANGED <<devVars, monVars, terminated>>

\* Device(Device&& other): take other's handle, leave it nullptr.
DeviceMoveCtor(o, src) ==
  /\ Main /\ obj[o] = "raw" /\ obj[src] = "live"
  /\ obj' = [obj EXCEPT ![o] = "live"]
  /\ hd' = [hd EXCEPT ![o] = hd[src], ![src] = Null]
  /\ UNCHANGED <<heap, err, monVars, terminated>>

\* Mutant of DeviceMoveAssign: the object's own handle is overwritten
\* without pcie_sim_close.
DeviceMoveAssignNoClose(o, src) ==
  /\ Main /\ obj[o] = "live" /\ obj[src] = "live" /\ o # src
  /\ hd' = [hd EXCEPT ![o] = hd[src], ![src] = Null]
  /\ UNCHANGED <<obj, heap, err, monVars, terminated>>

\* operator=(Device&& other), this != &other (self-assignment does
\* nothing): close the own handle if set, take other's, null other's.
DeviceMoveAssign(o, src) ==
  /\ Main /\ obj[o] = "live" /\ obj[src] = "live" /\ o # src
  /\ IF hd[o] # Null THEN CloseHandle(hd[o]) ELSE UNCHANGED heap
  /\ hd' = [hd EXCEPT ![o] = hd[src], ![src] = Null]
  /\ UNCHANGED <<obj, err, monVars, terminated>>

\* ~Device(): close the handle if set.  The client never destroys the
\* Device a live PerformanceMonitor holds a reference to (its device_
\* would dangle: the declaration order of the examples rules it out).
DeviceDtor(o) ==
  /\ Main /\ obj[o] = "live"
  /\ ~(mobj = "live" /\ mref = o)
  /\ IF hd[o] # Null THEN CloseHandle(hd[o]) ELSE UNCHANGED heap
  /\ obj' = [obj EXCEPT ![o] = "dead"]
  /\ UNCHANGED <<hd, err, monVars, terminated>>

\* transfer (write, read), get_statistics, reset_statistics: forward
\* handle_ and throw DeviceError on a failure (a moved-from Device).
DeviceCall(o) ==
  /\ Main /\ obj[o] = "live"
  /\ err' = IF CallResult(hd[o]) = "SUCCESS" THEN err ELSE CallResult(hd[o])
  /\ UNCHANGED <<devVars, monVars, terminated>>

\* BenchmarkRunner::run_benchmark on a Device: reset, warm-up transfers,
\* reset, the timed transfers, get_statistics; the first failing call
\* (reset_statistics on a moved-from Device) throws out of it.
RunBenchmark(o) ==
  /\ Main /\ obj[o] = "live"
  /\ err' = IF hd[o] = Null THEN "PARAM" ELSE err
  /\ UNCHANGED <<devVars, monVars, terminated>>

-----------------------------------------------------------------------------
(* PerformanceMonitor *)

\* PerformanceMonitor(Device& device): binds device_ to a live Device.
MonitorCtor(o) ==
  /\ Main /\ mobj = "raw" /\ obj[o] = "live"
  /\ mobj' = "live"
  /\ mref' = o
  /\ UNCHANGED <<devVars, err, monitoring, thr, tpc, mh, mpc, terminated>>

Joinable == thr # "none"

\* The main thread blocked in monitor_thread_.join() inside member m.
JoinPc == [start |-> "join_start", stop |-> "join_stop", dtor |-> "join_dtor"]

\* Where the main thread goes once stop_monitoring, called from member
\* m, has returned: start_monitoring goes on to spawn the thread, the
\* destructor ends the monitor's lifetime.
AfterStop(m) ==
  /\ mpc' = IF m = "start" THEN "spawn" ELSE "idle"
  /\ mobj' = IF m = "dtor" THEN "dead" ELSE mobj

\* Mutant of StopMonitoring: monitoring_ is cleared but the thread is not
\* joined before the call returns.
StopMonitoringNoJoin(m) ==
  /\ Main /\ mobj = "live"
  /\ monitoring' = FALSE
  /\ AfterStop(m)
  /\ UNCHANGED <<devVars, err, mref, thr, tpc, mh, terminated>>

\* stop_monitoring, called directly (m = "stop"), first thing in
\* start_monitoring (m = "start") or by ~PerformanceMonitor (m = "dtor"):
\* if monitoring_, clear it and, if the thread is joinable, join it.
StopMonitoring(m) ==
  /\ Main /\ mobj = "live"
  /\ monitoring' = FALSE
  /\ IF monitoring /\ Joinable
     THEN mpc' = JoinPc[m] /\ UNCHANGED mobj
     ELSE AfterStop(m)
  /\ UNCHANGED <<devVars, err, mref, thr, tpc, mh, terminated>>

\* monitor_thread_.join() returns once the thread has left its loop.
Join(m) ==
  /\ mpc = JoinPc[m] /\ ~terminated
  /\ thr = "exited"
  /\ thr' = "none"
  /\ AfterStop(m)
  /\ UNCHANGED <<devVars, err, mref, monitoring, tpc, mh, terminated>>

\* start_monitoring after its stop_monitoring: monitoring_ = true and
\* monitor_thread_ = std::thread(...); move-assigning onto a joinable
\* std::thread calls std::terminate.
SpawnMonitor ==
  /\ mpc = "spawn" /\ ~terminated
  /\ monitoring' = TRUE
  /\ IF Joinable
     THEN terminated' = TRUE /\ UNCHANGED <<thr, tpc>>
     ELSE thr' = "running" /\ tpc' = "test" /\ UNCHANGED terminated
  /\ mpc' = "idle"
  /\ UNCHANGED <<devVars, err, mobj, mref, mh>>

Running == thr = "running" /\ ~terminated

\* Mutant of MonitorTest: the loop never re-reads monitoring_.
MonitorTestForever ==
  /\ Running /\ tpc = "test"
  /\ tpc' = "sample"
  /\ UNCHANGED <<devVars, err, mobj, mref, monitoring, thr, mh, mpc,
                 terminated>>

\* while (monitoring_): go on sampling, or leave the loop and end.
MonitorTest ==
  /\ Running /\ tpc = "test"
  /\ IF monitoring THEN tpc' = "sample" /\ UNCHANGED thr
                   ELSE thr' = "exited" /\ UNCHANGED tpc
  /\ UNCHANGED <<devVars, err, mobj, mref, monitoring, mh, mpc,
                 terminated>>

\* get_current_metrics calls device_.get_statistics(), which reads
\* handle_ and passes it to pcie_sim_get_stats.  A nullptr (a moved-from
\* Device) is refused, DeviceError escapes the thread's function and
\* std::terminate ends the process.
MonitorRead ==
  LET h == hd[mref] IN
  /\ Running /\ tpc = "sample"
  /\ IF CallResult(h) = "SUCCESS"
     THEN tpc' = "use" /\ mh' = h /\ UNCHANGED terminated
     ELSE terminated' = TRUE /\ UNCHANGED <<tpc, mh>>
  /\ UNCHANGED <<devVars, err, mobj, mref, monitoring, thr, mpc>>

\* pcie_sim_get_stats_linux dereferences the handle it was given and
\* copies the statistics under the device mutex; then the callback or
\* print runs on the metrics.
MonitorUse ==
  /\ Running /\ tpc = "use"
  /\ tpc' = "sleep"
  /\ UNCHANGED <<devVars, err, mobj, mref, monitoring, thr, mh, mpc,
                 terminated>>

\* std::this_thread::sleep_for(interval), then the loop test again.
MonitorSleep ==
  /\ Running /\ tpc = "sleep"
  /\ tpc' = "test"
  /\ UNCHANGED <<devVars, err, mobj, mref, monitoring, thr, mh, mpc,
                 terminated>>

MonitorMembers == {"start", "stop", "dtor"}

MainStep ==
  \/ \E o \in Objs, d \in DevIds : DeviceCtor(o, d) \/ DeviceCtorFails(o, d)
  \/ \E o, src \in Objs : DeviceMoveCtor(o, src) \/ DeviceMoveAssign(o, src)
  \/ \E o \in Objs : DeviceDtor(o) \/ DeviceCall(o) \/ RunBenchmark(o)
                     \/ MonitorCtor(o)
  \/ \E m \in MonitorMembers : StopMonitoring(m) \/ Join(m)
  \/ SpawnMonitor

MonitorStep == MonitorTest \/ MonitorRead \/ MonitorUse \/ MonitorSleep

Next == MainStep \/ MonitorStep

Spec == Init /\ [][Next]_vars

\* The monitor thread is scheduled while it runs, and join returns once it
\* has ended; the client's own calls are not forced to happen.
FairSpec ==
  Spec /\ WF_vars(MonitorStep) /\ \A m \in MonitorMembers : WF_vars(Join(m))

-----------------------------------------------------------------------------
(* Properties *)

\* RAII ownership through constructors, moves and destructors: every open
\* handle is held by exactly one live Device (none leaked by a move
\* assignment, none shared after a move), and no live Device holds a
\* handle that has been closed.
HandleOwnership ==
  /\ \A h \in Handles :
       heap[h] = "open" =>
         Cardinality({o \in Objs : obj[o] = "live" /\ hd[o] = h}) = 1
  /\ \A o \in Objs : obj[o] = "live" => ~UsesFreed(hd[o])

\* ~PerformanceMonitor does not return while the monitor thread runs: the
\* thread's lambda captures this and keeps reading monitoring_ and
\* device_, so the stop_monitoring the destructor calls must have joined
\* it, whichever step of its loop the thread was at.
ThreadEndsBeforeMonitor == mobj = "dead" => thr = "none"

\* start_monitoring never move-assigns a new std::thread onto a joinable
\* monitor_thread_ (which would call std::terminate): the stop_monitoring
\* it calls first has always joined the previous monitor thread.
SpawnOntoJoined == mpc = "spawn" => ~Joinable

\* stop_monitoring (directly, in start_monitoring or in the destructor)
\* returns: the monitor loop re-reads monitoring_ after every sleep and
\* ends, so the join completes, unless the process has terminated.
StopReturns ==
  \A m \in MonitorMembers :
    mpc = JoinPc[m] ~> (mpc # JoinPc[m] \/ terminated)
=============================================================================
