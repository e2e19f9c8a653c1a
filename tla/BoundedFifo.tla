----------------------------- MODULE BoundedFifo -----------------------------
(***************************************************************************)
(* What SpscRingBuffer (embedded/audio/ring_buffer.hpp) promises to its    *)
(* one producer and one consumer: a first-in first-out queue of at most    *)
(* Capacity items.  An offered batch is claimed as far as it fits and the  *)
(* rest is counted in lost, a claimed batch becomes visible as a whole,    *)
(* and a taken batch is always the oldest items of the queue.  Slack is by *)
(* how many items the producer may underestimate the free space.           *)
(***************************************************************************)
EXTENDS Integers, Sequences

CONSTANTS Item, Capacity, CountModulus, MaxBatch, Slack

VARIABLES
  queue,     \* items published and not yet taken, oldest first
  pending,   \* items claimed by the producer, not yet published
  out,       \* the items the last take returned
  lost       \* items refused so far, modulo CountModulus

vars == <<queue, pending, out, lost>>

Batch == UNION {[1..n -> Item] : n \in 1..MaxBatch}

Init ==
  /\ queue = <<>>
  /\ pending = <<>>
  /\ out = <<>>
  /\ lost = 0

Free == Capacity - Len(queue)

\* n items of the batch fit; the producer sees all the free space but Slack.
Offer(items, n) ==
  /\ pending = <<>>
  /\ n <= Len(items) /\ n <= Free
  /\ n = Len(items) \/ n + Slack >= Free
  /\ pending' = SubSeq(items, 1, n)
  /\ lost' = (lost + Len(items) - n) % CountModulus
  /\ UNCHANGED <<queue, out>>

Commit ==
  /\ queue' = queue \o pending
  /\ pending' = <<>>
  /\ UNCHANGED <<out, lost>>

\* Both at once, for a producer whose claim nobody else sees.
Insert(items, n) ==
  /\ pending = <<>>
  /\ n <= Len(items) /\ n <= Free
  /\ n = Len(items) \/ n + Slack >= Free
  /\ queue' = queue \o SubSeq(items, 1, n)
  /\ lost' = (lost + Len(items) - n) % CountModulus
  /\ UNCHANGED <<pending, out>>

\* The consumer asks again: what it got last is no longer its answer.
Poll ==
  /\ out' = <<>>
  /\ UNCHANGED <<queue, pending, lost>>

Take(n) ==
  /\ out' = SubSeq(queue, 1, n)
  /\ queue' = SubSeq(queue, n + 1, Len(queue))
  /\ UNCHANGED <<pending, lost>>

Clear ==
  /\ pending = <<>>
  /\ queue' = <<>>
  /\ lost' = 0
  /\ UNCHANGED <<pending, out>>

ResetLost ==
  /\ lost' = 0
  /\ UNCHANGED <<queue, pending, out>>

Next ==
  \/ \E items \in Batch, n \in 0..MaxBatch : Offer(items, n) \/ Insert(items, n)
  \/ Commit
  \/ Poll
  \/ \E n \in 1..Len(queue) : Take(n)
  \/ Clear
  \/ ResetLost

Spec == Init /\ [][Next]_vars

=============================================================================
