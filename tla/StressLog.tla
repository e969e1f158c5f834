------------------------------ MODULE StressLog ------------------------------
(***************************************************************************)
(* The test application's transfer loops and its CSV session log:         *)
(* run_pattern_tests, run_stress_tests and stress_test_worker of part_003  *)
(* writing through SessionLogger and CSVLogger (part_008, utils/config.h). *)
(* The main thread runs the pattern tests device by device, then starts    *)
(* one std::async worker per stress thread and waits for their futures;   *)
(* the static g_session_logger is destroyed after main returns and writes  *)
(* the session end.  Workers log concurrently; CSVLogger::mutex_ makes     *)
(* each row one atomic step.  Every row ends with std::endl, so what has   *)
(* been written is in the file even if the process dies.                   *)
(***************************************************************************)
EXTENDS Integers, Functions

CONSTANTS
  NumDevices,        \* config->num_devices
  NumThreads,        \* config->stress.num_threads (> 1: stress enabled)
  PatternTransfers,  \* bound: rows one pattern test logs for a device
  MaxTransfers       \* bound: iterations of one worker before its deadline

Threads == 1 .. NumThreads
MainThread == 0

\* Writers of rows: the stress workers and the main thread.
Writers == Threads \cup {MainThread}

\* The file is abstracted to what the session's properties read: how many
\* rows each writer has in it, the "Total Records" of the session end
\* (NoEnd before it is written), and the rows after the session end.  The
\* order of rows and their fields (error_status, latency, throughput) are
\* left out.
NoEnd == -1

VARIABLES
  logOpen,      \* SessionLogger::logger_ is set (the file opened)
  rows,         \* rows[w]: the rows writer w has in the file
  endTotal,     \* the session end's record count, or NoEnd
  afterEnd,     \* rows written after the session end
  recordCount,  \* CSVLogger::record_count_
  mpc,          \* the main thread
  pdev,         \* device_id of run_pattern_tests
  prow,         \* i of pattern_based_transfer_test
  spawned,      \* futures.size()
  waitIdx,      \* the future the wait loop is at
  wpc,          \* wpc[t]: where worker t is
  count,        \* count[t]: transfer_count of worker t
  expired       \* expired[t]: steady_clock::now() >= end_time of worker t

vars == <<logOpen, rows, endTotal, afterEnd, recordCount, mpc, pdev, prow,
          spawned, waitIdx, wpc, count, expired>>

\* CSVLogger's constructor truncates the file (or throws, and
\* SessionLogger's constructor catches it and resets logger_), writes the
\* header, and SessionLogger's constructor writes the session start.
Init ==
  /\ logOpen \in BOOLEAN
  /\ rows = [w \in Writers |-> 0]
  /\ endTotal = NoEnd
  /\ afterEnd = 0
  /\ recordCount = 0
  /\ mpc = "popen" /\ pdev = 0 /\ prow = 0
  /\ spawned = 0 /\ waitIdx = 1
  /\ wpc = [t \in Threads |-> "idle"]
  /\ count = [t \in Threads |-> 0]
  /\ expired = [t \in Threads |-> FALSE]

\* Mutant: the row is written but record_count_ is not incremented.
WriteRowNoCount(w) ==
  /\ rows' = [rows EXCEPT ![w] = @ + 1]
  /\ UNCHANGED recordCount
  /\ afterEnd' = IF endTotal = NoEnd THEN afterEnd ELSE afterEnd + 1

\* CSVLogger::log_transfer: stamps the record, then under mutex_ writes
\* one row and increments record_count_.
WriteRow(w) ==
  /\ rows' = [rows EXCEPT ![w] = @ + 1]
  /\ recordCount' = recordCount + 1
  /\ afterEnd' = IF endTotal = NoEnd THEN afterEnd ELSE afterEnd + 1

\* SessionLogger::log_transfer: only with a logger.
Log(w) ==
  IF logOpen THEN WriteRow(w) ELSE UNCHANGED <<rows, recordCount, afterEnd>>

\* CSVLogger::log_session_end: "# Total Records: " << record_count_.
SessionEndTotal == recordCount

Alive == mpc # "crashed"

fileVars == <<logOpen, rows, endTotal, afterEnd, recordCount>>
workerVars == <<wpc, count, expired>>
mainVars == <<mpc, pdev, prow, spawned, waitIdx>>

(* ------------------------------ main thread ---------------------------- *)

\* pattern_based_transfer_test: DeviceManager::open_device succeeds.
PatternOpen ==
  /\ Alive /\ mpc = "popen" /\ pdev < NumDevices
  /\ mpc' = "prow" /\ prow' = 0
  /\ UNCHANGED <<fileVars, pdev, spawned, waitIdx, workerVars>>

\* open_device throws; the catch moves on to the next device.
PatternOpenFails ==
  /\ Alive /\ mpc = "popen" /\ pdev < NumDevices
  /\ pdev' = pdev + 1
  /\ UNCHANGED <<fileVars, mpc, prow, spawned, waitIdx, workerVars>>

\* One iteration of the pattern loop: a write, and its row.
PatternRow ==
  /\ Alive /\ mpc = "prow" /\ prow < PatternTransfers
  /\ Log(MainThread)
  /\ prow' = prow + 1
  /\ UNCHANGED <<logOpen, endTotal, mpc, pdev, spawned, waitIdx, workerVars>>

PatternDone ==
  /\ Alive /\ mpc = "prow" /\ prow = PatternTransfers
  /\ mpc' = "popen" /\ pdev' = pdev + 1
  /\ UNCHANGED <<fileVars, prow, spawned, waitIdx, workerVars>>

\* run_pattern_tests returns; run_stress_tests starts (stress enabled).
StartStress ==
  /\ Alive /\ mpc = "popen" /\ pdev = NumDevices
  /\ mpc' = "spawn"
  /\ UNCHANGED <<fileVars, pdev, prow, spawned, waitIdx, workerVars>>

\* std::async(std::launch::async, stress_test_worker, ..., i).
Spawn ==
  /\ Alive /\ mpc = "spawn" /\ spawned < NumThreads
  /\ spawned' = spawned + 1
  /\ wpc' = [wpc EXCEPT ![spawned + 1] = "open"]
  /\ UNCHANGED <<fileVars, mpc, pdev, prow, waitIdx, count, expired>>

\* std::async throws std::system_error: the exception leaves
\* run_stress_tests and is caught in main.
SpawnFails ==
  /\ Alive /\ mpc = "spawn" /\ spawned < NumThreads
  /\ mpc' = "unwind"
  /\ UNCHANGED <<fileVars, pdev, prow, spawned, waitIdx, workerVars>>

SpawnDone ==
  /\ Alive /\ mpc = "spawn" /\ spawned = NumThreads
  /\ mpc' = "wait"
  /\ UNCHANGED <<fileVars, pdev, prow, spawned, waitIdx, workerVars>>

\* future.wait() on futures[waitIdx].
WaitFuture ==
  /\ Alive /\ mpc = "wait" /\ waitIdx <= NumThreads
  /\ wpc[waitIdx] = "done"
  /\ waitIdx' = waitIdx + 1
  /\ UNCHANGED <<fileVars, mpc, pdev, prow, spawned, workerVars>>

\* Mutant: the wait loop stops one future early.
WaitDoneEarly ==
  /\ Alive /\ mpc = "wait" /\ waitIdx >= NumThreads
  /\ mpc' = "exit"
  /\ UNCHANGED <<fileVars, pdev, prow, spawned, waitIdx, workerVars>>

\* The wait loop ends; main returns 0.
WaitDone ==
  /\ Alive /\ mpc = "wait" /\ waitIdx > NumThreads
  /\ mpc' = "exit"
  /\ UNCHANGED <<fileVars, pdev, prow, spawned, waitIdx, workerVars>>

UnwindJoinAll ==
  /\ Alive /\ mpc = "unwind"
  /\ \A k \in Threads : wpc[k] = "done"
  /\ mpc' = "exit"
  /\ UNCHANGED <<fileVars, pdev, prow, spawned, waitIdx, workerVars>>

\* Unwinding destroys the futures vector; the destructor of a future from
\* std::async blocks until its thread ends.  main's catch returns 1.
Unwind ==
  /\ Alive /\ mpc = "unwind"
  /\ \A k \in 1 .. spawned : wpc[k] = "done"
  /\ mpc' = "exit"
  /\ UNCHANGED <<fileVars, pdev, prow, spawned, waitIdx, workerVars>>

\* ~SessionLogger at static destruction: log_session_end writes the end
\* comments with record_count_.
SessionEnd ==
  /\ Alive /\ mpc = "exit"
  /\ endTotal' = IF logOpen THEN SessionEndTotal ELSE NoEnd
  /\ mpc' = "ended"
  /\ UNCHANGED <<logOpen, rows, afterEnd, recordCount, pdev, prow, spawned,
                 waitIdx, workerVars>>

(* ----------------------------- stress workers -------------------------- *)

\* DeviceManager::open_device succeeds and end_time is set.
WorkerOpen(t) ==
  /\ Alive /\ wpc[t] = "open"
  /\ wpc' = [wpc EXCEPT ![t] = "loop"]
  /\ UNCHANGED <<fileVars, count, expired, mainVars>>

\* open_device throws; the worker's catch prints and returns.
WorkerOpenFails(t) ==
  /\ Alive /\ wpc[t] = "open"
  /\ wpc' = [wpc EXCEPT ![t] = "done"]
  /\ UNCHANGED <<fileVars, count, expired, mainVars>>

\* The steady clock passes the worker's end_time.
Expire(t) ==
  /\ Alive /\ wpc[t] \in {"loop", "log"} /\ ~expired[t]
  /\ expired' = [expired EXCEPT ![t] = TRUE]
  /\ UNCHANGED <<fileVars, wpc, count, mainVars>>

\* One loop iteration up to the logging: the optional injected fault and
\* the write, which may throw (either way the transfer is counted), and
\* transfer_count++.
Iterate(t) ==
  /\ Alive /\ wpc[t] = "loop" /\ ~expired[t]
  /\ count[t] < MaxTransfers
  /\ count' = [count EXCEPT ![t] = @ + 1]
  /\ wpc' = [wpc EXCEPT ![t] = "log"]
  /\ UNCHANGED <<fileVars, expired, mainVars>>

\* if (g_session_logger) g_session_logger->log_transfer(...); then the
\* rate delay and the loop test.
LogRow(t) ==
  /\ Alive /\ wpc[t] = "log"
  /\ Log(t)
  /\ wpc' = [wpc EXCEPT ![t] = "loop"]
  /\ UNCHANGED <<logOpen, endTotal, count, expired, mainVars>>

\* The loop test fails; the average latency is printed and the worker ends.
WorkerEnd(t) ==
  /\ Alive /\ wpc[t] = "loop" /\ expired[t] /\ count[t] > 0
  /\ wpc' = [wpc EXCEPT ![t] = "done"]
  /\ UNCHANGED <<fileVars, count, expired, mainVars>>

\* total_latency / transfer_count with transfer_count = 0: an integer
\* division by zero, which kills the process (SIGFPE).
DivideByZero(t) ==
  /\ Alive /\ wpc[t] = "loop" /\ expired[t] /\ count[t] = 0
  /\ mpc' = "crashed"
  /\ UNCHANGED <<fileVars, pdev, prow, spawned, waitIdx, workerVars>>

Next ==
  \/ PatternOpen \/ PatternOpenFails \/ PatternRow \/ PatternDone
  \/ StartStress \/ Spawn \/ SpawnFails \/ SpawnDone
  \/ WaitFuture \/ WaitDone \/ Unwind \/ SessionEnd
  \/ \E t \in Threads :
       \/ WorkerOpen(t) \/ WorkerOpenFails(t) \/ Expire(t)
       \/ Iterate(t) \/ LogRow(t) \/ WorkerEnd(t) \/ DivideByZero(t)

Spec == Init /\ [][Next]_vars

\* Some thread that can run does run, and the clock advances.
FairSpec == Spec /\ WF_vars(Next)

(* ------------------------------- properties ---------------------------- *)

TypeOK ==
  /\ mpc \in {"popen", "prow", "spawn", "wait", "unwind", "exit", "ended", "crashed"}
  /\ wpc \in [Threads -> {"idle", "open", "loop", "log", "done"}]
  /\ count \in [Threads -> 0 .. MaxTransfers]
  /\ rows \in [Writers -> Nat]
  /\ recordCount = SumFunction(rows)

\* Spec section 6: one row per completed transfer.  Once the session end
\* is written, every stress worker has exactly one row per transfer it
\* counted, and the end's "Total Records" is the number of rows.  This
\* depends on main's wait loop joining every worker before main returns.
OneRowPerTransfer ==
  (mpc = "ended" /\ logOpen) =>
    /\ \A t \in Threads : rows[t] = count[t]
    /\ endTotal = SumFunction(rows)

SessionCloses == <>(mpc \in {"ended", "crashed"})
=============================================================================
