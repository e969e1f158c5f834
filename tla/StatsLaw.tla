------------------------------ MODULE StatsLaw ------------------------------
(***************************************************************************)
(* The law of the Statistics Aggregator as the specification states it     *)
(* (spec.md 4.4 and 8): the statistics a device must report after a given  *)
(* sequence of transfer outcomes since the last reset.  It is the          *)
(* reference the backend modules (LinuxSim, KernelDevice, ...) are checked *)
(* against; it models no code of its own.                                  *)
(*                                                                         *)
(* An outcome is a record [ok, size, lat]: ok = FALSE for a failed         *)
(* transfer, whose size and latency the law ignores.                       *)
(***************************************************************************)
EXTENDS Naturals, Sequences, SequencesExt

CONSTANT Unset   \* the "not measured" marker of min/max after a reset

Success(size, lat) == [ok |-> TRUE, size |-> size, lat |-> lat]
Failure            == [ok |-> FALSE, size |-> 0, lat |-> 0]

\* reset(): all counters zero, min/max unset.
ZeroStats ==
  [total_transfers |-> 0, total_bytes |-> 0, total_errors |-> 0,
   avg |-> 0, min |-> Unset, max |-> Unset]

\* record(outcome): the first sample since reset initialises avg, min and
\* max; later samples fold in with avg = (avg + latency) / 2 (integer).
\* A failure counts an error and leaves the latency figures alone.
RecordOutcome(s, o) ==
  IF ~o.ok
  THEN [s EXCEPT !.total_errors = @ + 1]
  ELSE IF s.total_transfers = 0
  THEN [s EXCEPT !.total_transfers = 1, !.total_bytes = @ + o.size,
                 !.avg = o.lat, !.min = o.lat, !.max = o.lat]
  ELSE [s EXCEPT !.total_transfers = @ + 1, !.total_bytes = @ + o.size,
                 !.avg = (@ + o.lat) \div 2,
                 !.min = IF o.lat < @ THEN o.lat ELSE @,
                 !.max = IF o.lat > @ THEN o.lat ELSE @]

\* What snapshot() must return after the outcomes h since the last reset.
Aggregate(h) == FoldLeft(RecordOutcome, ZeroStats, h)

=============================================================================
