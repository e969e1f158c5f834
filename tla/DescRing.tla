----------------------------- MODULE DescRing -----------------------------
(***************************************************************************)
(* One descriptor ring of src/kernel/ringbuffer.c, as init_ring leaves it. *)
(* pcie_sim_ring_submit and pcie_sim_ring_complete each run under the      *)
(* ring spinlock (irqsave), so each is one atomic step here.  The          *)
(* pr_debug at the end of pcie_sim_ring_complete reads desc->length after  *)
(* the unlock; that read is the separate step CompleteLog.                  *)
(* Descriptor data is abstracted to its length and status; buffer address, *)
(* flags and timestamps do not affect the ring's control.                   *)
(***************************************************************************)
EXTENDS Naturals, Sequences

CONSTANTS
  Size,        \* ring->size (RING_SIZE)
  Lengths,     \* descriptor lengths callers submit (all > 0)
  Statuses,    \* completion status values callers pass
  Completers,  \* contexts calling pcie_sim_ring_complete
  MaxSubmits   \* bound: pcie_sim_ring_submit calls over the behaviour

ASSUME Size \in Nat \ {0} /\ Lengths \subseteq Nat \ {0} /\ MaxSubmits \in Nat

Slots == 0 .. Size - 1

VARIABLES
  descriptors,  \* ring->descriptors[slot]: [length, status]
  head, tail,   \* producer and consumer indices
  count,        \* ring->count
  submissions, completions, overruns,
  ret,          \* each completer's last return: "OK" | "ENODATA"
  retLen,       \* *length handed to each completer by its last completion
  logPc,        \* "idle" | "log": completer between unlock and pr_debug
  logSlot,      \* the slot its desc pointer still points at
  logged,       \* the length its pr_debug printed
  reused,       \* history: a submit refilled logSlot[c] while c was at "log"
  ops           \* submit calls so far

vars == <<descriptors, head, tail, count, submissions, completions, overruns,
          ret, retLen, logPc, logSlot, logged, reused, ops>>

\* init_ring: indices and counters zeroed, descriptors memset to 0.
Init ==
  /\ descriptors = [s \in Slots |-> [length |-> 0, status |-> 0]]
  /\ head = 0 /\ tail = 0 /\ count = 0
  /\ submissions = 0 /\ completions = 0 /\ overruns = 0
  /\ ret = [c \in Completers |-> "OK"]
  /\ retLen \in [Completers -> Lengths]
  /\ logPc = [c \in Completers |-> "idle"]
  /\ logSlot = [c \in Completers |-> 0]
  /\ logged = retLen
  /\ reused = [c \in Completers |-> FALSE]
  /\ ops = 0

\* Mutant of SubmitFull: the overrun check fires one slot early.
SubmitFullEarly ==
  /\ ops < MaxSubmits /\ ops' = ops + 1
  /\ count >= Size - 1
  /\ overruns' = overruns + 1
  /\ UNCHANGED <<descriptors, head, tail, count, submissions, completions,
                 ret, retLen, logPc, logSlot, logged, reused>>

\* pcie_sim_ring_submit on a full ring: overruns++ and -ENOSPC.
SubmitFull ==
  /\ ops < MaxSubmits /\ ops' = ops + 1
  /\ count >= Size
  /\ overruns' = overruns + 1
  /\ UNCHANGED <<descriptors, head, tail, count, submissions, completions,
                 ret, retLen, logPc, logSlot, logged, reused>>

\* pcie_sim_ring_submit: fill the descriptor at head (status 0, pending),
\* advance head modulo size, count++ and submissions++.
Submit(len) ==
  /\ ops < MaxSubmits /\ ops' = ops + 1
  /\ count < Size
  /\ descriptors' = [descriptors EXCEPT ![head] = [length |-> len, status |-> 0]]
  /\ head' = (head + 1) % Size
  /\ count' = count + 1
  /\ submissions' = submissions + 1
  /\ reused' = [c \in Completers |->
                  reused[c] \/ (logPc[c] = "log" /\ logSlot[c] = head)]
  /\ UNCHANGED <<tail, completions, overruns, ret, retLen, logPc, logSlot,
                 logged>>

\* pcie_sim_ring_complete on an empty ring: -ENODATA.
CompleteEmpty(c) ==
  /\ logPc[c] = "idle"
  /\ count = 0
  /\ ret' = [ret EXCEPT ![c] = "ENODATA"]
  /\ UNCHANGED <<descriptors, head, tail, count, submissions, completions,
                 overruns, retLen, logPc, logSlot, logged, reused, ops>>

\* Mutant of Complete: the tail index is advanced without the modulo.
CompleteNoWrap(c, st) ==
  /\ logPc[c] = "idle"
  /\ count # 0
  /\ ret' = [ret EXCEPT ![c] = "OK"]
  /\ retLen' = [retLen EXCEPT ![c] = descriptors[tail].length]
  /\ descriptors' = [descriptors EXCEPT ![tail].status = st]
  /\ tail' = tail + 1
  /\ count' = count - 1
  /\ completions' = completions + 1
  /\ logPc' = [logPc EXCEPT ![c] = "log"]
  /\ logSlot' = [logSlot EXCEPT ![c] = tail]
  /\ reused' = [reused EXCEPT ![c] = FALSE]
  /\ UNCHANGED <<head, submissions, overruns, logged, ops>>

\* pcie_sim_ring_complete: hand back the length of the descriptor at tail,
\* store the status, advance tail, count-- and completions++, unlock.
Complete(c, st) ==
  /\ logPc[c] = "idle"
  /\ count # 0
  /\ ret' = [ret EXCEPT ![c] = "OK"]
  /\ retLen' = [retLen EXCEPT ![c] = descriptors[tail].length]
  /\ descriptors' = [descriptors EXCEPT ![tail].status = st]
  /\ tail' = (tail + 1) % Size
  /\ count' = count - 1
  /\ completions' = completions + 1
  /\ logPc' = [logPc EXCEPT ![c] = "log"]
  /\ logSlot' = [logSlot EXCEPT ![c] = tail]
  /\ reused' = [reused EXCEPT ![c] = FALSE]
  /\ UNCHANGED <<head, submissions, overruns, logged, ops>>

\* Mutant of CompleteLog: the descriptor is looked up again at the current
\* tail after the unlock instead of through desc.
CompleteLogAtTail(c) ==
  /\ logPc[c] = "log"
  /\ logged' = [logged EXCEPT ![c] = descriptors[tail].length]
  /\ logPc' = [logPc EXCEPT ![c] = "idle"]
  /\ UNCHANGED <<descriptors, head, tail, count, submissions, completions,
                 overruns, ret, retLen, logSlot, reused, ops>>

\* ... then, after the unlock, pr_debug prints desc->length.
CompleteLog(c) ==
  /\ logPc[c] = "log"
  /\ logged' = [logged EXCEPT ![c] = descriptors[logSlot[c]].length]
  /\ logPc' = [logPc EXCEPT ![c] = "idle"]
  /\ UNCHANGED <<descriptors, head, tail, count, submissions, completions,
                 overruns, ret, retLen, logSlot, reused, ops>>

Next ==
  \/ \E len \in Lengths : Submit(len)
  \/ SubmitFull
  \/ \E c \in Completers :
       \/ \E st \in Statuses : Complete(c, st)
       \/ CompleteEmpty(c)
       \/ CompleteLog(c)

Spec == Init /\ [][Next]_vars

-----------------------------------------------------------------------------
(* Properties *)

TypeOK ==
  /\ descriptors \in [Slots -> [length: Lengths \cup {0}, status: Statuses]]
  /\ head \in Slots /\ tail \in Slots /\ count \in 0 .. Size
  /\ {submissions, completions, overruns} \subseteq Nat
  /\ ret \in [Completers -> {"OK", "ENODATA"}]
  /\ retLen \in [Completers -> Lengths] /\ logged \in [Completers -> Lengths]
  /\ logPc \in [Completers -> {"idle", "log"}]
  /\ logSlot \in [Completers -> Slots]
  /\ reused \in [Completers -> BOOLEAN]
  /\ ops \in 0 .. MaxSubmits

\* The live descriptors, oldest first: slots tail, tail+1, ... modulo size.
Queued == [i \in 1 .. count |-> descriptors[(tail + i - 1) % Size].length]

Fifo == INSTANCE BoundedFifo WITH Capacity <- Size, Values <- Lengths,
                                  q <- Queued, got <- retLen

\* Spec 4.1: the ring is a bounded FIFO -- a submission is rejected (and
\* counted as an overrun) exactly when the ring holds Size descriptors,
\* and every completion hands back the oldest live descriptor, across
\* wrap-around of head and tail.
FifoRefinement == Fifo!Spec

\* pcie_sim_ring_complete reads desc->length for its pr_debug after the
\* spinlock is released.  The length it prints differs from the length the
\* call handed back only when a submission from another context refilled
\* that very slot in between; nothing else can change it.
StaleLogNeedsReuse ==
  \A c \in Completers :
    (logPc[c] = "idle" /\ logged[c] # retLen[c]) => reused[c]
=============================================================================
