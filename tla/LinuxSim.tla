------------------------------ MODULE LinuxSim ------------------------------
(***************************************************************************)
(* The unprivileged Linux simulation backend, src/sim/linux_sim.c, which   *)
(* src/lib/core.c calls for every pcie_sim_* entry point on non-Windows    *)
(* builds.  Each thread of Threads holds at most one handle and issues     *)
(* open, close, transfer, get_stats and reset_stats calls on it.           *)
(*                                                                         *)
(* A transfer measures its latency and sleeps OUTSIDE the device mutex,    *)
(* then takes the mutex and updates the statistics in two steps:           *)
(* the counters (TransferLock) and the latency figures (TransferUpdate),   *)
(* the latter deciding "first sample" by reading total_transfers == 1.     *)
(* hist is a history variable: the outcomes folded into a device's         *)
(* statistics since its last reset, in the order they were counted.        *)
(***************************************************************************)
EXTENDS Naturals, Sequences, FiniteSets

CONSTANTS
  Threads,     \* calling threads (model values)
  Devices,     \* device ids in 0 .. MAX_DEVICES-1 that callers open
  Sizes,       \* transfer sizes callers pass, 0 included (rejected)
  Latencies,   \* measured latencies end_time - start_time, in ns units
  MaxXfers,    \* bound: transfer calls issued over the whole behaviour
  NoThread, NoHandle, NoXfer, Unset

ASSUME Latencies \subseteq Nat \ {0}   \* nanosleep of >= 10us: never 0
ASSUME Sizes \subseteq Nat /\ MaxXfers \in Nat

Law == INSTANCE StatsLaw

VARIABLES
  initialized, \* g_sim_initialized
  active,      \* g_sim_devices[d].active
  devMutex,    \* holder of g_sim_devices[d].mutex, or NoThread
  stats,       \* g_sim_devices[d].stats
  handle,      \* device of the thread's open handle, or NoHandle
  pc,          \* "idle" | "lock" (slept, waiting for mutex) | "update"
  cur,         \* the thread's transfer in progress: [size, lat]
  ret,         \* last pcie_sim_error_t the thread's call returned
  snap,        \* last statistics copy get_stats returned to the thread
  hist,        \* history: outcomes counted since the device's last reset
  issued       \* transfer calls issued so far (bounded by MaxXfers)

vars == <<initialized, active, devMutex, stats, handle, pc, cur, ret, snap,
          hist, issued>>

\* memset(&stats, 0, sizeof stats): min/max 0 mean "not measured".
LinuxZero ==
  [total_transfers |-> 0, total_bytes |-> 0, total_errors |-> 0,
   avg |-> 0, min |-> 0, max |-> 0]

StatsRec ==
  [total_transfers: Nat, total_bytes: Nat, total_errors: Nat,
   avg: Nat, min: Nat, max: Nat]

Init ==
  /\ initialized = FALSE
  /\ active = [d \in Devices |-> FALSE]
  /\ devMutex = [d \in Devices |-> NoThread]
  /\ stats = [d \in Devices |-> LinuxZero]
  /\ handle = [t \in Threads |-> NoHandle]
  /\ pc = [t \in Threads |-> "idle"]
  /\ cur = [t \in Threads |-> NoXfer]
  /\ ret = [t \in Threads |-> "SUCCESS"]
  /\ snap = [t \in Threads |-> LinuxZero]
  /\ hist = [d \in Devices |-> <<>>]
  /\ issued = 0

Idle(t) == pc[t] = "idle"

\* linux_sim_init, under g_init_mutex: the first call initialises every
\* device mutex and marks every device inactive; later calls do nothing.
SimActive == IF initialized THEN active ELSE [d \in Devices |-> FALSE]

\* pcie_sim_open_linux: linux_sim_init() under g_init_mutex, then malloc
\* of the handle fails.
OpenNoMem(t, d) ==
  /\ Idle(t) /\ handle[t] = NoHandle
  /\ initialized' = TRUE /\ active' = SimActive
  /\ ret' = [ret EXCEPT ![t] = "MEMORY"]
  /\ UNCHANGED <<devMutex, stats, handle, pc, cur, snap, hist, issued>>

\* pcie_sim_open_linux: init, then under the device mutex the first open
\* ever of the device activates it and zeroes its statistics; later opens
\* leave active and stats as they are.
Open(t, d) ==
  /\ Idle(t) /\ handle[t] = NoHandle
  /\ devMutex[d] = NoThread
  /\ initialized' = TRUE
  /\ active' = [SimActive EXCEPT ![d] = TRUE]
  /\ stats' = IF SimActive[d] THEN stats ELSE [stats EXCEPT ![d] = LinuxZero]
  /\ hist' = IF SimActive[d] THEN hist ELSE [hist EXCEPT ![d] = <<>>]
  /\ handle' = [handle EXCEPT ![t] = d]
  /\ ret' = [ret EXCEPT ![t] = "SUCCESS"]
  /\ UNCHANGED <<devMutex, pc, cur, snap, issued>>

\* pcie_sim_close_linux: frees the handle; the device stays active.
Close(t) ==
  /\ Idle(t) /\ handle[t] # NoHandle
  /\ handle' = [handle EXCEPT ![t] = NoHandle]
  /\ ret' = [ret EXCEPT ![t] = "SUCCESS"]
  /\ UNCHANGED <<initialized, active, devMutex, stats, pc, cur, snap, hist,
                 issued>>

\* pcie_sim_transfer_linux up to the mutex: size 0 is rejected; otherwise
\* the latency is computed, slept and measured as end - start (any value
\* of Latencies: the timing model is abstracted here).
TransferStart(t, size, lat) ==
  /\ Idle(t) /\ handle[t] # NoHandle
  /\ issued < MaxXfers
  /\ issued' = issued + 1
  /\ IF size = 0
     THEN /\ ret' = [ret EXCEPT ![t] = "PARAM"]
          /\ UNCHANGED <<pc, cur>>
     ELSE /\ pc' = [pc EXCEPT ![t] = "lock"]
          /\ cur' = [cur EXCEPT ![t] = [size |-> size, lat |-> lat]]
          /\ UNCHANGED ret
  /\ UNCHANGED <<initialized, active, devMutex, stats, handle, snap, hist>>

\* Mutant of TransferLock: the counters are bumped without waiting for the
\* device mutex (as if the pthread_mutex_lock call were missing).
TransferLockUnguarded(t) ==
  LET d == handle[t] IN
  /\ pc[t] = "lock"
  /\ devMutex' = [devMutex EXCEPT ![d] = t]
  /\ stats' = [stats EXCEPT ![d].total_transfers = @ + 1,
                            ![d].total_bytes = @ + cur[t].size]
  /\ hist' = [hist EXCEPT ![d] = Append(@, Law!Success(cur[t].size, cur[t].lat))]
  /\ pc' = [pc EXCEPT ![t] = "update"]
  /\ UNCHANGED <<initialized, active, handle, cur, ret, snap, issued>>

\* Takes the device mutex and bumps total_transfers and total_bytes.
TransferLock(t) ==
  LET d == handle[t] IN
  /\ pc[t] = "lock"
  /\ devMutex[d] = NoThread
  /\ devMutex' = [devMutex EXCEPT ![d] = t]
  /\ stats' = [stats EXCEPT ![d].total_transfers = @ + 1,
                            ![d].total_bytes = @ + cur[t].size]
  /\ hist' = [hist EXCEPT ![d] = Append(@, Law!Success(cur[t].size, cur[t].lat))]
  /\ pc' = [pc EXCEPT ![t] = "update"]
  /\ UNCHANGED <<initialized, active, handle, cur, ret, snap, issued>>

\* Latency figures: total_transfers == 1 means first sample; then unlock
\* and return the latency.
TransferUpdate(t) ==
  LET d == handle[t]
      l == cur[t].lat
      s == stats[d]
  IN
  /\ pc[t] = "update"
  /\ stats' = [stats EXCEPT ![d] =
                 IF s.total_transfers = 1
                 THEN [s EXCEPT !.avg = l, !.min = l, !.max = l]
                 ELSE [s EXCEPT !.avg = (@ + l) \div 2,
                                !.min = IF l < @ THEN l ELSE @,
                                !.max = IF l > @ THEN l ELSE @]]
  /\ devMutex' = [devMutex EXCEPT ![d] = NoThread]
  /\ pc' = [pc EXCEPT ![t] = "idle"]
  /\ cur' = [cur EXCEPT ![t] = NoXfer]
  /\ ret' = [ret EXCEPT ![t] = "SUCCESS"]
  /\ UNCHANGED <<initialized, active, handle, snap, hist, issued>>

\* Mutant of GetStats: the copy moves only the first 8 bytes of the
\* statistics (a memcpy sized by a pointer, not by the struct).
GetStatsPrefix(t) ==
  /\ Idle(t) /\ handle[t] # NoHandle
  /\ devMutex[handle[t]] = NoThread
  /\ snap' = [snap EXCEPT ![t] =
               [total_transfers |-> stats[handle[t]].total_transfers]]
  /\ ret' = [ret EXCEPT ![t] = "SUCCESS"]
  /\ UNCHANGED <<initialized, active, devMutex, stats, handle, pc, cur, hist,
                 issued>>

\* pcie_sim_get_stats_linux: copy under the device mutex.
GetStats(t) ==
  /\ Idle(t) /\ handle[t] # NoHandle
  /\ devMutex[handle[t]] = NoThread
  /\ snap' = [snap EXCEPT ![t] = stats[handle[t]]]
  /\ ret' = [ret EXCEPT ![t] = "SUCCESS"]
  /\ UNCHANGED <<initialized, active, devMutex, stats, handle, pc, cur, hist,
                 issued>>

\* pcie_sim_reset_stats_linux: memset under the device mutex.
ResetStats(t) ==
  /\ Idle(t) /\ handle[t] # NoHandle
  /\ devMutex[handle[t]] = NoThread
  /\ stats' = [stats EXCEPT ![handle[t]] = LinuxZero]
  /\ hist' = [hist EXCEPT ![handle[t]] = <<>>]
  /\ ret' = [ret EXCEPT ![t] = "SUCCESS"]
  /\ UNCHANGED <<initialized, active, devMutex, handle, pc, cur, snap, issued>>

Next ==
  \E t \in Threads :
    \/ \E d \in Devices : OpenNoMem(t, d) \/ Open(t, d)
    \/ Close(t)
    \/ \E size \in Sizes, lat \in Latencies : TransferStart(t, size, lat)
    \/ TransferLock(t)
    \/ TransferUpdate(t)
    \/ GetStats(t)
    \/ ResetStats(t)

Spec == Init /\ [][Next]_vars

-----------------------------------------------------------------------------
(* Properties *)

TypeOK ==
  /\ initialized \in BOOLEAN
  /\ active \in [Devices -> BOOLEAN]
  /\ devMutex \in [Devices -> Threads \cup {NoThread}]
  /\ stats \in [Devices -> StatsRec]
  /\ handle \in [Threads -> Devices \cup {NoHandle}]
  /\ pc \in [Threads -> {"idle", "lock", "update"}]
  /\ cur \in [Threads -> [size: Sizes, lat: Latencies] \cup {NoXfer}]
  /\ ret \in [Threads -> {"SUCCESS", "PARAM", "MEMORY"}]
  /\ snap \in [Threads -> StatsRec]
  /\ issued \in 0 .. MaxXfers

\* The backend's statistics as the law sees them: 0 is the unset marker.
SpecView(s) ==
  [s EXCEPT !.min = IF @ = 0 THEN Unset ELSE @,
            !.max = IF @ = 0 THEN Unset ELSE @]

\* No thread is between the two statistics steps of a transfer on d.
Quiescent(d) == \A t \in Threads : ~(pc[t] = "update" /\ handle[t] = d)

\* Whenever no transfer is half-way through its update, a device's
\* statistics are exactly what spec 4.4 prescribes for the transfers
\* counted since its last reset: no update lost to a concurrent transfer,
\* reset or open, and the "total_transfers == 1" first-sample test of
\* pcie_sim_transfer_linux picks the first sample after every reset.
StatsMatchLaw ==
  \A d \in Devices :
    Quiescent(d) => SpecView(stats[d]) = Law!Aggregate(hist[d])
=============================================================================
