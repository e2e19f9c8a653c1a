------------------------------- MODULE SpscRing -------------------------------
(***************************************************************************)
(* SpscRingBuffer<T, Capacity> of embedded/audio/ring_buffer.hpp: the      *)
(* lock-free queue between a capture thread and the processing thread, and *)
(* between the processing thread and the playback thread.                  *)
(*                                                                         *)
(* A push or pop is several steps: one load of the other side's index, one *)
(* step per slot copied, one store of the own index.  push(item) and       *)
(* pop(item) are the batches of one item.  The indices are size_t: they    *)
(* wrap at IndexModulus (2^64 in the program), and a slot is the index's   *)
(* low bits.  An acquire load may miss the latest stores of the other      *)
(* thread: it returns any index between the one seen last and the current  *)
(* one, at most MaxLag behind.                                             *)
(***************************************************************************)
EXTENDS Integers, Sequences

CONSTANTS
  Item,           \* the elements, AudioChunk<1024> in the program
  Blank,          \* the value-initialised element in a slot never written
  Capacity,       \* number of slots
  IndexModulus,   \* the indices are counters modulo this
  MaxBatch,       \* longest batch offered or requested
  MaxLag          \* how far behind an index load may be

\* The static_assert of line 25 makes Capacity a power of two, so a size_t
\* holds a multiple of it; nothing more is needed of it.
ASSUME RingAssumption ==
  /\ Capacity \in Nat \ {0}
  /\ IndexModulus \in Nat
  /\ IndexModulus > Capacity
  /\ IndexModulus % Capacity = 0
  /\ MaxBatch \in Nat
  /\ MaxLag \in Nat

VARIABLES
  buffer,           \* buffer_: the slots
  write_idx,        \* write_idx_, stored by the producer only
  read_idx,         \* read_idx_, stored by the consumer only
  overflow_count,   \* overflow_count_
  src,              \* the items the push in progress writes; none when idle
  copied,           \* how many of them are in their slots
  current_read,     \* the read index the producer loaded last
  to_read,          \* how many items the pop in progress reads; 0 when idle
  dst,              \* the items it copied; when idle, those of the last pop
  current_write     \* the write index the consumer loaded last

ring == <<buffer, write_idx, read_idx, overflow_count>>
producer == <<src, copied, current_read>>
consumer == <<to_read, dst, current_write>>
vars == <<buffer, write_idx, read_idx, overflow_count,
          src, copied, current_read, to_read, dst, current_write>>

Index == 0..(IndexModulus - 1)
Batch == UNION {[1..n -> Item] : n \in 1..MaxBatch}

Wrap(i) == i % IndexModulus

\* Faulty variant: INDEX_MASK one too small.
SlotBadMask(i) == Wrap(i) % (Capacity - 1)
Slot(i) == Wrap(i) % Capacity
Least(a, b) == IF a <= b THEN a ELSE b

\* current - earlier in size_t arithmetic.
Dist(current, earlier) == Wrap(current - earlier)

Visible(current, seen) ==
  {Wrap(current - lag) : lag \in 0..Least(MaxLag, Dist(current, seen))}

Init ==
  /\ buffer = [s \in 0..(Capacity - 1) |-> Blank]
  /\ write_idx = 0
  /\ read_idx = 0
  /\ overflow_count = 0
  /\ src = <<>>
  /\ copied = 0
  /\ current_read = 0
  /\ to_read = 0
  /\ dst = <<>>
  /\ current_write = 0

------------------------------------------------------------------------------
\* The producer.

\* Faulty variant: one slot more than there is.
AvailableOffByOne(r) ==
  LET occupied == Dist(write_idx, r)
  IN  IF occupied <= Capacity THEN Capacity - occupied + 1 ELSE 0

Available(r) ==
  LET occupied == Dist(write_idx, r)
  IN  IF occupied < Capacity THEN Capacity - occupied ELSE 0

\* push, push_batch: load read_idx_, count what does not fit as overflow.
Offer(items) ==
  /\ src = <<>>
  /\ \E r \in Visible(read_idx, current_read) :
       LET to_write == Least(Len(items), Available(r))
       IN  /\ overflow_count' = Wrap(overflow_count + Len(items) - to_write)
           /\ src' = SubSeq(items, 1, to_write)
           /\ current_read' = r
  /\ UNCHANGED <<buffer, write_idx, read_idx, copied, consumer>>

CopyIn ==
  /\ copied < Len(src)
  /\ buffer' = [buffer EXCEPT ![Slot(write_idx + copied)] = src[copied + 1]]
  /\ copied' = copied + 1
  /\ UNCHANGED <<write_idx, read_idx, overflow_count, src, current_read, consumer>>

\* Faulty variant: write_idx_ is stored before the items are.
PublishEarly ==
  /\ src # <<>>
  /\ write_idx' = Wrap(write_idx + Len(src))
  /\ src' = <<>>
  /\ copied' = 0
  /\ UNCHANGED <<buffer, read_idx, overflow_count, current_read, consumer>>

\* The release store of write_idx_.
Publish ==
  /\ src # <<>>
  /\ copied = Len(src)
  /\ write_idx' = Wrap(write_idx + Len(src))
  /\ src' = <<>>
  /\ copied' = 0
  /\ UNCHANGED <<buffer, read_idx, overflow_count, current_read, consumer>>

------------------------------------------------------------------------------
\* The consumer.

\* Faulty variant: the pop is not limited to the items there are.
RequestUnlimited(max_count) ==
  /\ to_read = 0
  /\ \E w \in Visible(write_idx, current_write) :
       /\ to_read' = IF w = read_idx THEN 0 ELSE max_count
       /\ current_write' = w
  /\ dst' = <<>>
  /\ UNCHANGED <<ring, producer>>

\* pop, pop_batch: load write_idx_; an empty buffer returns at once.
Request(max_count) ==
  /\ to_read = 0
  /\ \E w \in Visible(write_idx, current_write) :
       /\ to_read' = Least(max_count, Dist(w, read_idx))
       /\ current_write' = w
  /\ dst' = <<>>
  /\ UNCHANGED <<ring, producer>>

CopyOut ==
  /\ Len(dst) < to_read
  /\ dst' = Append(dst, buffer[Slot(read_idx + Len(dst))])
  /\ UNCHANGED <<ring, producer, to_read, current_write>>

\* Faulty variant: read_idx_ is not stored.
ReleaseForgotten ==
  /\ to_read > 0
  /\ Len(dst) = to_read
  /\ to_read' = 0
  /\ UNCHANGED <<ring, producer, dst, current_write>>

\* The release store of read_idx_.
Release ==
  /\ to_read > 0
  /\ Len(dst) = to_read
  /\ read_idx' = Wrap(read_idx + to_read)
  /\ to_read' = 0
  /\ UNCHANGED <<buffer, write_idx, overflow_count, producer, dst, current_write>>

------------------------------------------------------------------------------
\* clear() must not run beside a push or a pop; both sides then see index 0.
Clear ==
  /\ src = <<>>
  /\ to_read = 0
  /\ write_idx' = 0
  /\ read_idx' = 0
  /\ overflow_count' = 0
  /\ current_read' = 0
  /\ current_write' = 0
  /\ UNCHANGED <<buffer, src, copied, to_read, dst>>

ResetOverflow ==
  /\ overflow_count' = 0
  /\ UNCHANGED <<buffer, write_idx, read_idx, producer, consumer>>

Stream ==
  \/ \E items \in Batch : Offer(items)
  \/ CopyIn
  \/ Publish
  \/ \E max_count \in 1..MaxBatch : Request(max_count)
  \/ CopyOut
  \/ Release

Next == Stream \/ Clear \/ ResetOverflow

Spec == Init /\ [][Next]_vars

\* A capture thread finishes the push it began, and the processing thread
\* polls in a loop; a store is seen by the other thread's loads in time, so that
\* not every load is stale.  Nobody has to push.
Fairness ==
  /\ WF_vars(CopyIn)
  /\ WF_vars(Publish)
  /\ WF_vars(\E max_count \in 1..MaxBatch :
               Request(max_count) /\ current_write' = write_idx)
  /\ WF_vars(CopyOut)
  /\ WF_vars(Release)

LiveSpec == Spec /\ Fairness

------------------------------------------------------------------------------
\* Properties.

Used == Dist(write_idx, read_idx)

\* Every variable stays in its range, and neither side copies more items than
\* it set out to (buffer_, write_idx_, read_idx_, overflow_count_).
TypeOK ==
  /\ buffer \in [0..(Capacity - 1) -> Item \cup {Blank}]
  /\ {write_idx, read_idx, overflow_count, current_read, current_write} \subseteq Index
  /\ src \in Seq(Item)
  /\ copied \in 0..Len(src)
  /\ to_read \in 0..MaxBatch
  /\ dst \in Seq(Item \cup {Blank})
  /\ to_read > 0 => Len(dst) <= to_read

\* In wrapped arithmetic the four indices keep their order
\*   producer's view <= read_idx <= consumer's view <= write_idx
\* within Capacity of one another, and neither side goes beyond the room or
\* the items it saw: the unsigned subtractions of push and pop never go wrong,
\* across the wrap of size_t and with stale views.
IndexOrder ==
  /\ Dist(write_idx, current_read) = Used + Dist(read_idx, current_read)
  /\ Used = Dist(write_idx, current_write) + Dist(current_write, read_idx)
  /\ Dist(write_idx, current_read) + Len(src) <= Capacity
  /\ to_read <= Dist(current_write, read_idx)

\* The plain (non-atomic) slots are never written by the producer while the
\* consumer reads them: no slot the push in progress writes is a slot of the
\* pop in progress.
NoSlotRace ==
  \A i \in 0..(Len(src) - 1), j \in 0..(to_read - 1) :
    Slot(write_idx + i) # Slot(read_idx + j)

\* What is copied stays intact until it changes hands: a slot the push wrote
\* holds its item until the indices move, and a slot the pop copied still
\* holds what the pop got when read_idx_ is released.
CopiesIntact ==
  /\ \A i \in 0..(copied - 1) : buffer[Slot(write_idx + i)] = src[i + 1]
  /\ to_read > 0 =>
       \A j \in 0..(Len(dst) - 1) : dst[j + 1] = buffer[Slot(read_idx + j)]

\* The published items, oldest first.
Contents == [k \in 1..Used |-> buffer[Slot(read_idx + k - 1)]]

Fifo == INSTANCE BoundedFifo WITH
  CountModulus <- IndexModulus,
  Slack   <- MaxLag,
  queue   <- Contents,
  pending <- src,
  out     <- IF to_read = 0 THEN dst ELSE <<>>,
  lost    <- overflow_count

\* The ring is a first-in first-out queue: every accepted item is popped once,
\* in order, none before it is published, and a push refuses an item, counting
\* it in overflow_count_, only when the queue is full up to the stale view.
ImplementsFifo == Fifo!Spec

\* A consumer that keeps polling gets every published item, whatever the
\* producer does and although loads may be stale (the processing loop pops
\* whenever it comes round); only clear() may empty the queue otherwise.
EveryItemDelivered ==
  \A v \in Item :
    (\E k \in 1..Used : Contents[k] = v)
      ~> (Used = 0 \/ (to_read = 0 /\ \E k \in 1..Len(dst) : dst[k] = v))

=============================================================================
