--------------------------- MODULE CommandBacklog ---------------------------
(* What becomes of a worker command when its bounded queue is full          *)
(* (backpressure/src/backlog.rs).  The owner never waits and never drops:   *)
(* a command the queue cannot take is parked behind the earlier ones, or    *)
(* folded into the last of them where the payload says the newer one        *)
(* supersedes it.                                                           *)
(*                                                                          *)
(* A link is a record: chan, the bounded channel the worker reads, and      *)
(* parked, the commands waiting on the owner's side.                        *)
EXTENDS Naturals, Sequences, SequencesExt

CONSTANTS Capacity,       \* places in the channel
          Merge(_, _)     \* <<folded>>, or <<older, newer>> when both must go

NoLink == [chan |-> << >>, parked |-> << >>]

Least(a, b) == IF a < b THEN a ELSE b

(* Parked commands the channel can take now, oldest first. *)
Entering(q) == Least(Capacity - Len(q.chan), Len(q.parked))

Drain(q) ==
  LET n == Entering(q)
  IN  [chan   |-> q.chan \o SubSeq(q.parked, 1, n),
       parked |-> SubSeq(q.parked, n + 1, Len(q.parked))]

Park(q, c) ==
  [q EXCEPT !.parked = IF @ = << >> THEN <<c>> ELSE Front(@) \o Merge(Last(@), c)]

(* After the drain, anything still parked means the channel is full. *)
Queues(q) == Drain(q).parked = << >> /\ Len(Drain(q).chan) < Capacity

Offer(q, c) ==
  IF Queues(q) THEN [Drain(q) EXCEPT !.chan = Append(@, c)] ELSE Park(Drain(q), c)

=============================================================================
