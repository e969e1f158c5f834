---------------------------- MODULE BoundedFifo ----------------------------
(***************************************************************************)
(* What spec.md 4.1 promises of the descriptor queue: a first-in first-out *)
(* queue of fixed capacity.  submit on a full queue is rejected and counted *)
(* as an overrun; complete on an empty queue is rejected and changes        *)
(* nothing; complete hands its caller the oldest submitted value.           *)
(***************************************************************************)
EXTENDS Naturals, Sequences

CONSTANTS Capacity, Values, Completers

VARIABLES
  q,         \* the queued values, oldest first
  got,       \* the value each completer was last handed
  overruns   \* rejected submissions

Init ==
  /\ q = <<>>
  /\ got \in [Completers -> Values]
  /\ overruns = 0

Submit(v) ==
  /\ Len(q) < Capacity
  /\ q' = Append(q, v)
  /\ UNCHANGED <<got, overruns>>

Overrun ==
  /\ Len(q) = Capacity
  /\ overruns' = overruns + 1
  /\ UNCHANGED <<q, got>>

Complete(c) ==
  /\ q # <<>>
  /\ got' = [got EXCEPT ![c] = Head(q)]
  /\ q' = Tail(q)
  /\ UNCHANGED overruns

Next ==
  \/ \E v \in Values : Submit(v)
  \/ Overrun
  \/ \E c \in Completers : Complete(c)

Spec == Init /\ [][Next]_<<q, got, overruns>>
=============================================================================
