----------------------------- MODULE WindowsSim -----------------------------
(***************************************************************************)
(* The Windows user-space backend, src/sim/windows_sim.c, for one device.  *)
(* windows_sim_init runs without any lock: a thread that saw               *)
(* g_initialized = FALSE runs the whole init later, recreating the device  *)
(* mutex (a new generation in gen), clearing active and the statistics.   *)
(* The g_global_lock sections of open and close are atomic steps.  A       *)
(* transfer checks active, waits on dev->mutex (which may time out while   *)
(* another thread holds it), bumps the counters, then updates min, max and *)
(* the arithmetic-mean average and calls ReleaseMutex on dev->mutex.       *)
(* One open handle is shared by the threads that use the device, as the   *)
(* PerformanceMonitor thread shares the Device of monitor.hpp.            *)
(***************************************************************************)
EXTENDS Naturals, Sequences, SequencesExt, FiniteSets

CONSTANTS
  Threads, Sizes, Latencies,
  MaxXfers,          \* bound: transfer calls over the behaviour
  MaxTransferSize,   \* the 1024 * 1024 limit of pcie_sim_transfer_impl
  UInt64Max,         \* UINT64_MAX: any value above every latency
  StartInitialized,  \* TRUE: start just after one completed windows_sim_init
  NoThread, Unset

ASSUME Latencies \subseteq Nat \ {0} /\ \A l \in Latencies : l < UInt64Max
ASSUME StartInitialized \in BOOLEAN

Law == INSTANCE StatsLaw

Gens == 0 .. Cardinality(Threads)   \* mutex generations; 0 = no mutex

VARIABLES
  initialized,  \* g_initialized
  gen,          \* which CreateMutex result dev->mutex holds (0: NULL)
  created,      \* mutexes created so far
  owner,        \* owner[g]: thread owning mutex generation g
  active, stats,
  handle,       \* handle[t]: the thread holds an open handle
  pc,           \* "idle" | "init" | "claim" | "alloc" | "wait" | "count"
                \*  | "write" | "latency" | "dead" (process gone)
  cur, ret,
  seen,         \* the counters a thread loaded for its increment
  hist, issued

vars == <<initialized, gen, created, owner, active, stats, handle, pc, cur, ret,
          seen, hist, issued>>

\* memset to 0 then min_latency_ns = UINT64_MAX (init and reset).
WinZero ==
  [total_transfers |-> 0, total_bytes |-> 0, total_errors |-> 0,
   avg |-> 0, min |-> UInt64Max, max |-> 0]

\* The statistics as the static g_devices array holds them before any init.
StaticZero == [WinZero EXCEPT !.min = 0]

\* A successful transfer of pcie_sim_transfer_impl, applied sequentially.
WinRecord(s, o) ==
  LET n == s.total_transfers + 1 IN
  [s EXCEPT !.total_transfers = n, !.total_bytes = @ + o.size,
            !.min = IF o.lat < @ THEN o.lat ELSE @,
            !.max = IF o.lat > @ THEN o.lat ELSE @,
            !.avg = IF n = 1 THEN o.lat ELSE (@ * (n - 1) + o.lat) \div n]

Init ==
  /\ initialized = StartInitialized
  /\ gen = IF StartInitialized THEN 1 ELSE 0
  /\ created = gen
  /\ owner = [g \in Gens |-> NoThread]
  /\ active = FALSE
  /\ stats = IF StartInitialized THEN WinZero ELSE StaticZero
  /\ handle = [t \in Threads |-> FALSE]
  /\ pc = [t \in Threads |-> "idle"]
  /\ cur = [t \in Threads |-> [size |-> 0, lat |-> 0]]
  /\ ret = [t \in Threads |-> "SUCCESS"]
  /\ seen = [t \in Threads |-> [n |-> 0, bytes |-> 0]]
  /\ hist = <<>>
  /\ issued = 0

\* Some thread holds the open handle, which every thread may use.
HandleOpen == \E u \in Threads : handle[u]

Goto(t, l) == pc' = [pc EXCEPT ![t] = l]
Return(t, r) == pc' = [pc EXCEPT ![t] = "idle"] /\ ret' = [ret EXCEPT ![t] = r]

\* pcie_sim_open_impl calls windows_sim_init, which reads g_initialized.
OpenCheck(t) ==
  /\ pc[t] = "idle" /\ ~handle[t]
  /\ Goto(t, IF initialized THEN "claim" ELSE "init")
  /\ UNCHANGED <<initialized, gen, created, owner, active, stats, handle, cur, ret,
                 seen, hist, issued>>

\* The body of windows_sim_init: active = FALSE, CreateMutex, statistics
\* memset with min = UINT64_MAX, g_initialized = TRUE.
OpenInit(t) ==
  /\ pc[t] = "init"
  /\ created' = created + 1 /\ gen' = created + 1
  /\ active' = FALSE
  /\ stats' = WinZero
  /\ hist' = <<>>
  /\ initialized' = TRUE
  /\ Goto(t, "claim")
  /\ UNCHANGED <<owner, handle, cur, ret, seen, issued>>

\* CreateMutex fails: active was already cleared, dev->mutex is NULL,
\* and open returns PCIE_SIM_ERROR_SYSTEM.
OpenInitFails(t) ==
  /\ pc[t] = "init"
  /\ gen' = 0
  /\ active' = FALSE
  /\ Return(t, "SYSTEM")
  /\ UNCHANGED <<initialized, created, owner, stats, handle, cur, seen, hist, issued>>

\* Under g_global_lock: the device is already active, ERROR_DEVICE.
OpenBusy(t) ==
  /\ pc[t] = "claim" /\ active
  /\ Return(t, "DEVICE")
  /\ UNCHANGED <<initialized, gen, created, owner, active, stats, handle, cur, seen,
                 hist, issued>>

\* Mutant of OpenClaim: the device is marked active without the check.
OpenClaimUnchecked(t) ==
  /\ pc[t] = "claim"
  /\ active' = TRUE
  /\ Goto(t, "alloc")
  /\ UNCHANGED <<initialized, gen, created, owner, stats, handle, cur, ret, seen, hist,
                 issued>>

\* Under g_global_lock: mark the device active.
OpenClaim(t) ==
  /\ pc[t] = "claim" /\ ~active
  /\ active' = TRUE
  /\ Goto(t, "alloc")
  /\ UNCHANGED <<initialized, gen, created, owner, stats, handle, cur, ret, seen, hist,
                 issued>>

\* malloc of the handle: on success active is left as it is (a racing
\* windows_sim_init may have cleared it); on failure active = FALSE,
\* written outside the lock.
OpenAlloc(t, ok) ==
  /\ pc[t] = "alloc"
  /\ handle' = [handle EXCEPT ![t] = ok]
  /\ active' = (active /\ ok)
  /\ Return(t, IF ok THEN "SUCCESS" ELSE "MEMORY")
  /\ UNCHANGED <<initialized, gen, created, owner, stats, cur, seen, hist, issued>>

\* pcie_sim_close_impl: active = FALSE under g_global_lock, free.  The
\* owner closes only once no call on the shared handle is in flight.
Close(t) ==
  /\ pc[t] = "idle" /\ handle[t]
  /\ \A u \in Threads : pc[u] \notin {"wait", "count", "write", "latency"}
  /\ active' = FALSE
  /\ handle' = [handle EXCEPT ![t] = FALSE]
  /\ Return(t, "SUCCESS")
  /\ UNCHANGED <<initialized, gen, created, owner, stats, cur, seen, hist, issued>>

\* pcie_sim_transfer_impl: size 0 or above 1 MiB, PCIE_SIM_ERROR_PARAM.
TransferParam(t, size) ==
  /\ pc[t] = "idle" /\ HandleOpen
  /\ issued < MaxXfers /\ issued' = issued + 1
  /\ size = 0 \/ size > MaxTransferSize
  /\ Return(t, "PARAM")
  /\ UNCHANGED <<initialized, gen, created, owner, active, stats, handle, cur,
                 seen, hist>>

\* ... the unlocked check of dev->active fails: PCIE_SIM_ERROR_DEVICE.
TransferInactive(t, size) ==
  /\ pc[t] = "idle" /\ HandleOpen
  /\ issued < MaxXfers /\ issued' = issued + 1
  /\ size > 0 /\ size <= MaxTransferSize /\ ~active
  /\ Return(t, "DEVICE")
  /\ UNCHANGED <<initialized, gen, created, owner, active, stats, handle, cur,
                 seen, hist>>

\* ... the checks pass; the thread goes to WaitForSingleObject.  lat is the
\* latency the simulated delay will measure.
TransferStart(t, size, lat) ==
  /\ pc[t] = "idle" /\ HandleOpen
  /\ issued < MaxXfers /\ issued' = issued + 1
  /\ size > 0 /\ size <= MaxTransferSize /\ active
  /\ cur' = [cur EXCEPT ![t] = [size |-> size, lat |-> lat]]
  /\ Goto(t, "wait")
  /\ UNCHANGED <<initialized, gen, created, owner, active, stats, handle, ret,
                 seen, hist>>

\* Mutant of TransferAcquire: the wait returns without owning the mutex.
TransferAcquireUnguarded(t) ==
  /\ pc[t] = "wait" /\ gen # 0
  /\ owner' = [owner EXCEPT ![gen] = t]
  /\ Goto(t, "count")
  /\ UNCHANGED <<initialized, gen, created, active, stats, handle, cur, ret,
                 seen, hist, issued>>

\* WaitForSingleObject(dev->mutex, 5000) returns WAIT_OBJECT_0.
TransferAcquire(t) ==
  /\ pc[t] = "wait" /\ gen # 0 /\ owner[gen] = NoThread
  /\ owner' = [owner EXCEPT ![gen] = t]
  /\ Goto(t, "count")
  /\ UNCHANGED <<initialized, gen, created, active, stats, handle, cur, ret,
                 seen, hist, issued>>

\* Mutant of TransferTimeout: a wait on a NULL mutex blocks instead of
\* failing at once.
TransferTimeoutHeldOnly(t) ==
  /\ pc[t] = "wait"
  /\ gen # 0 /\ owner[gen] # NoThread
  /\ Return(t, "TIMEOUT")
  /\ UNCHANGED <<initialized, gen, created, owner, active, stats, handle, cur,
                 seen, hist, issued>>

\* The wait fails (NULL mutex) or times out while another thread holds it:
\* PCIE_SIM_ERROR_TIMEOUT, nothing counted.
TransferTimeout(t) ==
  /\ pc[t] = "wait"
  /\ gen = 0 \/ owner[gen] # NoThread
  /\ Return(t, "TIMEOUT")
  /\ UNCHANGED <<initialized, gen, created, owner, active, stats, handle, cur,
                 seen, hist, issued>>

\* total_transfers++ and total_bytes += size are plain read-modify-writes:
\* first the loads ...
TransferRead(t) ==
  /\ pc[t] = "count"
  /\ seen' = [seen EXCEPT ![t] = [n |-> stats.total_transfers,
                                  bytes |-> stats.total_bytes]]
  /\ Goto(t, "write")
  /\ UNCHANGED <<initialized, gen, created, owner, active, stats, handle, cur,
                 ret, hist, issued>>

\* ... then the stores.
TransferWrite(t) ==
  /\ pc[t] = "write"
  /\ stats' = [stats EXCEPT !.total_transfers = seen[t].n + 1,
                            !.total_bytes = seen[t].bytes + cur[t].size]
  /\ hist' = Append(hist, Law!Success(cur[t].size, cur[t].lat))
  /\ Goto(t, "latency")
  /\ UNCHANGED <<initialized, gen, created, owner, active, handle, cur, ret,
                 seen, issued>>

\* Mutant of TransferLatency: the old average is weighted by the new
\* count, avg * n instead of avg * (n - 1).
TransferLatencyAvgWeight(t) ==
  LET l == cur[t].lat
      n == stats.total_transfers
  IN
  /\ pc[t] = "latency" /\ stats.total_transfers # 0
  /\ stats' = [stats EXCEPT !.min = IF l < @ THEN l ELSE @,
                            !.max = IF l > @ THEN l ELSE @,
                            !.avg = IF n = 1 THEN l ELSE (@ * n + l) \div n]
  /\ owner' = IF gen # 0 /\ owner[gen] = t
              THEN [owner EXCEPT ![gen] = NoThread] ELSE owner
  /\ Return(t, "SUCCESS")
  /\ UNCHANGED <<initialized, gen, created, active, handle, cur, seen, hist,
                 issued>>

\* min, max, and the arithmetic mean over total_transfers; then
\* ReleaseMutex(dev->mutex), which only releases a mutex the thread owns.
TransferLatency(t) ==
  LET l == cur[t].lat
      n == stats.total_transfers
  IN
  /\ pc[t] = "latency" /\ stats.total_transfers # 0
  /\ stats' = [stats EXCEPT !.min = IF l < @ THEN l ELSE @,
                            !.max = IF l > @ THEN l ELSE @,
                            !.avg = IF n = 1 THEN l
                                    ELSE (@ * (n - 1) + l) \div n]
  /\ owner' = IF gen # 0 /\ owner[gen] = t
              THEN [owner EXCEPT ![gen] = NoThread] ELSE owner
  /\ Return(t, "SUCCESS")
  /\ UNCHANGED <<initialized, gen, created, active, handle, cur, seen, hist,
                 issued>>

\* total_transfers is 0 (a racing windows_sim_init zeroed it after this
\* thread's increment): the else branch divides by zero and the process
\* dies with an integer divide fault.
TransferDivideByZero(t) ==
  /\ pc[t] = "latency" /\ stats.total_transfers = 0
  /\ pc' = [u \in Threads |-> "dead"]
  /\ UNCHANGED <<initialized, gen, created, owner, active, stats, handle, cur,
                 ret, seen, hist, issued>>

\* get_stats / reset_stats: device inactive (ERROR_DEVICE), or the 1000 ms
\* wait fails or times out (ERROR_TIMEOUT).
StatsCallRejected(t, r) ==
  /\ pc[t] = "idle" /\ HandleOpen
  /\ \/ r = "DEVICE" /\ ~active
     \/ r = "TIMEOUT" /\ active /\ (gen = 0 \/ owner[gen] # NoThread)
  /\ Return(t, r)
  /\ UNCHANGED <<initialized, gen, created, owner, active, stats, handle, cur,
                 seen, hist, issued>>

\* pcie_sim_get_stats_impl: copy under dev->mutex.
GetStats(t) ==
  /\ pc[t] = "idle" /\ HandleOpen /\ active
  /\ gen # 0 /\ owner[gen] = NoThread
  /\ Return(t, "SUCCESS")
  /\ UNCHANGED <<seen, initialized, gen, created, owner, active, stats, handle, cur,
                 hist, issued>>

\* pcie_sim_reset_stats_impl: memset, min = UINT64_MAX, under dev->mutex.
ResetStats(t) ==
  /\ pc[t] = "idle" /\ HandleOpen /\ active
  /\ gen # 0 /\ owner[gen] = NoThread
  /\ stats' = WinZero
  /\ hist' = <<>>
  /\ Return(t, "SUCCESS")
  /\ UNCHANGED <<initialized, gen, created, owner, active, handle, cur, seen,
                 issued>>

\* A caller starts an API call.
Call(t) ==
  \/ OpenCheck(t) \/ Close(t)
  \/ \E size \in Sizes :
       \/ TransferParam(t, size)
       \/ TransferInactive(t, size)
       \/ \E lat \in Latencies : TransferStart(t, size, lat)
  \/ \E r \in {"DEVICE", "TIMEOUT"} : StatsCallRejected(t, r)
  \/ GetStats(t) \/ ResetStats(t)

\* A call in progress takes its next step.
InCall(t) ==
  \/ OpenInit(t) \/ OpenInitFails(t)
  \/ OpenBusy(t) \/ OpenClaim(t) \/ \E ok \in BOOLEAN : OpenAlloc(t, ok)
  \/ TransferAcquire(t) \/ TransferTimeout(t)
  \/ TransferRead(t) \/ TransferWrite(t)
  \/ TransferLatency(t) \/ TransferDivideByZero(t)

Next == \E t \in Threads : Call(t) \/ InCall(t)

Spec == Init /\ [][Next]_vars

\* The scheduler keeps running a thread that is inside a call, and every
\* wait of the code has a finite timeout; callers need not make new calls.
FairSpec == Spec /\ \A t \in Threads : WF_vars(InCall(t))

-----------------------------------------------------------------------------
(* Properties *)

StatsRec ==
  [total_transfers: Nat, total_bytes: Nat, total_errors: Nat,
   avg: Nat, min: Nat, max: Nat]

TypeOK ==
  /\ initialized \in BOOLEAN /\ active \in BOOLEAN
  /\ gen \in Gens /\ created \in Gens
  /\ owner \in [Gens -> Threads \cup {NoThread}]
  /\ stats \in StatsRec
  /\ handle \in [Threads -> BOOLEAN]
  /\ pc \in [Threads -> {"idle", "init", "claim", "alloc", "wait", "count",
                         "write", "latency", "dead"}]
  /\ ret \in [Threads -> {"SUCCESS", "SYSTEM", "DEVICE", "MEMORY", "PARAM",
                          "TIMEOUT"}]
  /\ issued \in 0 .. MaxXfers

\* No transfer is between storing its counters and updating its latency.
Quiescent == \A t \in Threads : pc[t] \notin {"write", "latency"}

\* Once initialised, and whenever no update is half done, the statistics
\* are the sequential application of pcie_sim_transfer_impl's update to
\* the transfers counted since the last init or reset: dev->mutex keeps
\* concurrent transfers and resets from interleaving their updates.
StatsMatchWindowsLaw ==
  (initialized /\ Quiescent) => stats = FoldLeft(WinRecord, WinZero, hist)

\* The running mean of pcie_sim_transfer_impl, (avg * (n - 1) + L) / n in
\* integer arithmetic, stays between the smallest and the largest latency
\* counted since the last init or reset, whatever the order of the
\* samples and the truncation of each division.
AvgWithinRange ==
  (initialized /\ Quiescent /\ stats.total_transfers > 0)
    => stats.min <= stats.avg /\ stats.avg <= stats.max

\* The open path's own rule (pcie_sim_open_impl, "device already in use"):
\* at most one handle to the device is open at a time.
ExclusiveOpen == Cardinality({t \in Threads : handle[t]}) <= 1

\* Every API call returns to its caller (or the process dies): no call
\* waits forever, because each WaitForSingleObject has a timeout and
\* fails at once on a NULL mutex, even across a racing windows_sim_init.
CallsReturn ==
  \A t \in Threads : pc[t] \notin {"idle", "dead"} ~> pc[t] \in {"idle", "dead"}

\* The process never dies inside pcie_sim_transfer_impl: the average
\* update never divides by a zero total_transfers.
NoDivideByZero == \A t \in Threads : pc[t] # "dead"
=============================================================================
