---------------------------- MODULE KernelDevice ----------------------------
(***************************************************************************)
(* The privileged backend: one device of the kernel module.  Threads call  *)
(* pcie_sim_char_ioctl (src/unnamed/part_004), which serialises commands   *)
(* on dev->mutex, and PCIE_SIM_IOC_TRANSFER runs pcie_sim_dma_transfer     *)
(* (src/kernel/dma.c) with the mutex held.  update_transfer_stats bumps    *)
(* the atomic64 counters and then rewrites min/max/avg with plain          *)
(* read-modify-writes: two steps here, TransferCounts and TransferLatency. *)
(* The /proc stats file (proc_stats_show, src/unnamed/part_005) reads the  *)
(* same fields WITHOUT the mutex, counters first, latency figures later.   *)
(*                                                                         *)
(* History variables: hist, the outcomes counted since the last reset;     *)
(* okCalls, the TRANSFER ioctls since the last reset that returned 0.      *)
(***************************************************************************)
EXTENDS Naturals, Sequences, SequencesExt

CONSTANTS
  Threads,          \* calling threads (model values)
  Sizes,            \* req.size values callers pass
  Latencies,        \* measured ktime latencies (ns units), all > 0
  MaxCalls,         \* bound: ioctl calls issued over the behaviour
  MaxTransferSize,  \* MAX_TRANSFER_SIZE of dma.c
  NoThread, NoXfer, NoView, Unset

ASSUME Latencies \subseteq Nat \ {0, 1}
ASSUME Sizes \subseteq Nat /\ MaxCalls \in Nat /\ MaxTransferSize \in Nat

Law == INSTANCE StatsLaw

Cmds == {"TRANSFER", "GET_STATS", "RESET_STATS", "SET_ERROR"}

VARIABLES
  stats,    \* dev->stats
  mutex,    \* holder of dev->mutex, or NoThread
  pc,       \* "idle" | "wait" | "body" | "latency"
  cmd,      \* the ioctl command the thread is executing
  cur,      \* its transfer request [size, lat], or NoXfer
  ret,      \* last value the thread's ioctl returned ("OK" for 0)
  snap,     \* statistics last copied to the thread by GET_STATS
  procPc,   \* proc_stats_show: "idle" | "mid" (counters read)
  procView, \* the figures proc_stats_show printed / is printing
  hist, okCalls, issued

vars == <<stats, mutex, pc, cmd, cur, ret, snap, procPc, procView, hist,
          okCalls, issued>>

\* memset(&dev->stats, 0, ...) in probe and RESET_STATS.
KZero ==
  [total_transfers |-> 0, total_bytes |-> 0, total_errors |-> 0,
   avg |-> 0, min |-> 0, max |-> 0]

StatsRec ==
  [total_transfers: Nat, total_bytes: Nat, total_errors: Nat,
   avg: Nat, min: Nat, max: Nat]

\* validate_transfer_request: size within [MIN_TRANSFER_SIZE, MAX].
ValidSize(size) == size >= 1 /\ size <= MaxTransferSize

\* update_transfer_stats(dev, req, latency, success) applied sequentially.
KernelRecord(s, o) ==
  IF ~o.ok
  THEN [s EXCEPT !.total_errors = @ + 1]
  ELSE [s EXCEPT !.total_transfers = @ + 1, !.total_bytes = @ + o.size,
                 !.min = IF @ = 0 \/ o.lat < @ THEN o.lat ELSE @,
                 !.max = IF o.lat > @ THEN o.lat ELSE @,
                 !.avg = (@ + o.lat) \div 2]

Init ==
  /\ stats = KZero
  /\ mutex = NoThread
  /\ pc = [t \in Threads |-> "idle"]
  /\ cmd = [t \in Threads |-> "GET_STATS"]
  /\ cur = [t \in Threads |-> NoXfer]
  /\ ret = [t \in Threads |-> "OK"]
  /\ snap = [t \in Threads |-> KZero]
  /\ procPc = "idle"
  /\ procView = NoView
  /\ hist = <<>>
  /\ okCalls = 0
  /\ issued = 0

\* Leaves the critical section: mutex_unlock and return r.
Release(t, r) ==
  /\ mutex' = NoThread
  /\ pc' = [pc EXCEPT ![t] = "idle"]
  /\ cur' = [cur EXCEPT ![t] = NoXfer]
  /\ ret' = [ret EXCEPT ![t] = r]

\* A thread enters pcie_sim_char_ioctl with a valid magic number.
IoctlCall(t, c, size, lat) ==
  /\ pc[t] = "idle"
  /\ issued < MaxCalls
  /\ issued' = issued + 1
  /\ pc' = [pc EXCEPT ![t] = "wait"]
  /\ cmd' = [cmd EXCEPT ![t] = c]
  /\ cur' = [cur EXCEPT ![t] =
               IF c = "TRANSFER" THEN [size |-> size, lat |-> lat] ELSE NoXfer]
  /\ UNCHANGED <<stats, mutex, ret, snap, procPc, procView, hist, okCalls>>

\* Mutant of IoctlLock: the command runs without waiting for dev->mutex.
IoctlLockUnguarded(t) ==
  /\ pc[t] = "wait"
  /\ mutex' = t
  /\ pc' = [pc EXCEPT ![t] = "body"]
  /\ UNCHANGED <<stats, cmd, cur, ret, snap, procPc, procView, hist, okCalls,
                 issued>>

\* mutex_lock_interruptible acquires dev->mutex.
IoctlLock(t) ==
  /\ pc[t] = "wait"
  /\ mutex = NoThread
  /\ mutex' = t
  /\ pc' = [pc EXCEPT ![t] = "body"]
  /\ UNCHANGED <<stats, cmd, cur, ret, snap, procPc, procView, hist, okCalls,
                 issued>>

\* A signal arrives while the thread sleeps on a held mutex: -ERESTARTSYS.
IoctlInterrupted(t) ==
  /\ pc[t] = "wait"
  /\ mutex # NoThread
  /\ pc' = [pc EXCEPT ![t] = "idle"]
  /\ cur' = [cur EXCEPT ![t] = NoXfer]
  /\ ret' = [ret EXCEPT ![t] = "ERESTARTSYS"]
  /\ UNCHANGED <<stats, mutex, cmd, snap, procPc, procView, hist, okCalls,
                 issued>>

\* TRANSFER: copy_from_user of the request itself faults; dma_transfer is
\* never called.
TransferCopyInFault(t) ==
  /\ pc[t] = "body" /\ cmd[t] = "TRANSFER"
  /\ Release(t, "EFAULT")
  /\ UNCHANGED <<stats, cmd, snap, procPc, procView, hist, okCalls, issued>>

\* pcie_sim_dma_transfer fails: validation (-EINVAL: a size out of range
\* always, a NULL buffer or a direction > 1 at any size), kzalloc (-ENOMEM)
\* or the data copy in either direction (-EFAULT); every path ends in
\* update_transfer_stats(dev, req, 0, false).
TransferFails(t, code) ==
  /\ pc[t] = "body" /\ cmd[t] = "TRANSFER"
  /\ code \in IF ValidSize(cur[t].size) THEN {"EINVAL", "ENOMEM", "EFAULT"}
                                        ELSE {"EINVAL"}
  /\ stats' = [stats EXCEPT !.total_errors = @ + 1]
  /\ hist' = Append(hist, Law!Failure)
  /\ Release(t, code)
  /\ UNCHANGED <<cmd, snap, procPc, procView, okCalls, issued>>

\* The transfer succeeded: update_transfer_stats' atomic64 increments.
TransferCounts(t) ==
  /\ pc[t] = "body" /\ cmd[t] = "TRANSFER"
  /\ ValidSize(cur[t].size)
  /\ stats' = [stats EXCEPT !.total_transfers = @ + 1,
                            !.total_bytes = @ + cur[t].size]
  /\ hist' = Append(hist, Law!Success(cur[t].size, cur[t].lat))
  /\ pc' = [pc EXCEPT ![t] = "latency"]
  /\ UNCHANGED <<mutex, cmd, cur, ret, snap, procPc, procView, okCalls, issued>>

\* ... then min (0 = unset), max and avg = (avg + latency) / 2; back in
\* the ioctl, copy_to_user of the request may still fault (-EFAULT).
TransferLatency(t, outFault) ==
  LET l == cur[t].lat IN
  /\ pc[t] = "latency"
  /\ stats' = [stats EXCEPT !.min = IF @ = 0 \/ l < @ THEN l ELSE @,
                            !.max = IF l > @ THEN l ELSE @,
                            !.avg = (@ + l) \div 2]
  /\ okCalls' = IF outFault THEN okCalls ELSE okCalls + 1
  /\ Release(t, IF outFault THEN "EFAULT" ELSE "OK")
  /\ UNCHANGED <<cmd, snap, procPc, procView, hist, issued>>

\* Mutant of GetStats: copy_to_user sized by a pointer, sizeof(&dev->stats),
\* so only the first field reaches the caller.
GetStatsPrefix(t, fault) ==
  /\ pc[t] = "body" /\ cmd[t] = "GET_STATS"
  /\ snap' = IF fault THEN snap
             ELSE [snap EXCEPT ![t] =
                     [total_transfers |-> stats.total_transfers]]
  /\ Release(t, IF fault THEN "EFAULT" ELSE "OK")
  /\ UNCHANGED <<stats, cmd, procPc, procView, hist, okCalls, issued>>

\* GET_STATS: copy_to_user of dev->stats, which may fault.
GetStats(t, fault) ==
  /\ pc[t] = "body" /\ cmd[t] = "GET_STATS"
  /\ snap' = IF fault THEN snap ELSE [snap EXCEPT ![t] = stats]
  /\ Release(t, IF fault THEN "EFAULT" ELSE "OK")
  /\ UNCHANGED <<stats, cmd, procPc, procView, hist, okCalls, issued>>

\* RESET_STATS: memset of dev->stats.
ResetStats(t) ==
  /\ pc[t] = "body" /\ cmd[t] = "RESET_STATS"
  /\ stats' = KZero
  /\ hist' = <<>>
  /\ okCalls' = 0
  /\ Release(t, "OK")
  /\ UNCHANGED <<cmd, snap, procPc, procView, issued>>

\* PCIE_SIM_IOC_SET_ERROR has no case in the switch: -ENOTTY.
UnknownCmd(t) ==
  /\ pc[t] = "body" /\ cmd[t] = "SET_ERROR"
  /\ Release(t, "ENOTTY")
  /\ UNCHANGED <<stats, cmd, snap, procPc, procView, hist, okCalls, issued>>

\* proc_stats_show: the three atomic64_read calls ...
ProcReadCounters ==
  /\ procPc = "idle"
  /\ procPc' = "mid"
  /\ procView' = [total_transfers |-> stats.total_transfers,
                  total_bytes |-> stats.total_bytes,
                  total_errors |-> stats.total_errors,
                  avg |-> 0, min |-> 0, max |-> 0]
  /\ UNCHANGED <<stats, mutex, pc, cmd, cur, ret, snap, hist, okCalls, issued>>

\* ... and, later, the plain reads of avg, min and max it prints.
ProcReadLatency ==
  /\ procPc = "mid"
  /\ procPc' = "idle"
  /\ procView' = [procView EXCEPT !.avg = stats.avg, !.min = stats.min,
                                  !.max = stats.max]
  /\ UNCHANGED <<stats, mutex, pc, cmd, cur, ret, snap, hist, okCalls, issued>>

Next ==
  \/ \E t \in Threads :
       \/ \E c \in Cmds, size \in Sizes, lat \in Latencies :
            IoctlCall(t, c, size, lat)
       \/ IoctlLock(t)
       \/ IoctlInterrupted(t)
       \/ TransferCopyInFault(t)
       \/ \E code \in {"EINVAL", "ENOMEM", "EFAULT"} : TransferFails(t, code)
       \/ TransferCounts(t)
       \/ \E f \in BOOLEAN : TransferLatency(t, f)
       \/ \E f \in BOOLEAN : GetStats(t, f)
       \/ ResetStats(t)
       \/ UnknownCmd(t)
  \/ ProcReadCounters
  \/ ProcReadLatency

Spec == Init /\ [][Next]_vars

-----------------------------------------------------------------------------
(* Properties *)

TypeOK ==
  /\ stats \in StatsRec
  /\ mutex \in Threads \cup {NoThread}
  /\ pc \in [Threads -> {"idle", "wait", "body", "latency"}]
  /\ cmd \in [Threads -> Cmds]
  /\ cur \in [Threads -> [size: Sizes, lat: Latencies] \cup {NoXfer}]
  /\ ret \in [Threads -> {"OK", "EINVAL", "ENOMEM", "EFAULT", "ENOTTY",
                          "ERESTARTSYS"}]
  /\ snap \in [Threads -> StatsRec]
  /\ procPc \in {"idle", "mid"}
  /\ procView \in StatsRec \cup {NoView}
  /\ okCalls \in Nat /\ issued \in 0 .. MaxCalls

\* No successful transfer is between its counter and latency updates.
Quiescent == \A t \in Threads : pc[t] # "latency"

\* Concurrent ioctls are serialisable: whenever no transfer is half-way
\* through update_transfer_stats, dev->stats equals the sequential
\* application of update_transfer_stats to the outcomes counted since the
\* last RESET_STATS -- no increment, latency update or reset is lost or
\* interleaved into another, thanks to dev->mutex.
StatsSerializable ==
  Quiescent => stats = FoldLeft(KernelRecord, KZero, hist)

\* Spec 7: only successful transfers are counted as transfers, and every
\* call reaches exactly one outcome: total_transfers equals the TRANSFER
\* ioctls since the last reset that returned 0 to their caller.
FailedCallNotCounted ==
  Quiescent => stats.total_transfers = okCalls

\* Spec 4.4: a reader never sees a partially updated view.  In every
\* whole state, no transfer counted <=> no average; the /proc view must
\* satisfy the same.
ProcViewConsistent ==
  (procPc = "idle" /\ procView # NoView)
    => (procView.total_transfers = 0 <=> procView.avg = 0)
=============================================================================
