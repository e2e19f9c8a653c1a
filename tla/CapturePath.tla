----------------------------- MODULE CapturePath -----------------------------
(***************************************************************************)
(* The audio path: capture threads (embedded/audio/alsa_backend.cpp), the  *)
(* processing thread (embedded/runtime/realtime_pipeline.cpp), playback.   *)
(*                                                                         *)
(* A capture thread reads a period from its device and pushes it on a      *)
(* ring; the processing thread pops a primary chunk, then a reference      *)
(* chunk if there is one, and pushes what it computed on the playback      *)
(* ring.  A ring is the bounded queue that SpscRing implements; a chunk is *)
(* its session (how often the pipeline was restarted), its frame_index and *)
(* its length; samples are left out.  The topology decides which threads   *)
(* capture which microphones.                                              *)
(***************************************************************************)
EXTENDS Integers, Sequences

CONSTANTS
  Topology,      \* status_.topology
  Capacity,      \* chunks in a ring, 64 in the program
  Period,        \* frames the device delivers at a time
  Hop,           \* frames the processing thread takes from a chunk
  MaxDrift,      \* frames of drift the detector tolerates
  MaxPeriods,    \* bound: periods each device delivers or loses
  MaxRestarts    \* bound: stop() followed by start()

ASSUME PathAssumption ==
  /\ Topology \in {"single_mic", "multichannel", "separate"}
  /\ Capacity \in Nat \ {0}
  /\ Period \in Nat \ {0} /\ Hop \in Nat \ {0}
  /\ MaxDrift \in Nat /\ MaxPeriods \in Nat /\ MaxRestarts \in Nat

Mic == {"primary", "reference"}
Ring == Mic \cup {"playback"}

\* The capture threads, named after the first microphone they read.
Capturer == IF Topology = "separate" THEN Mic ELSE {"primary"}

\* The microphones a capture thread pushes and records, in this order.
MicsOf(t) ==
  IF Topology = "multichannel" THEN <<"primary", "reference">> ELSE <<t>>

VARIABLES
  session,           \* restarts so far
  elapsed,           \* periods each capture thread's device has delivered or lost
  frame_index,       \* of the next chunk of each capture thread
  at,                \* where each capture thread is in its loop
  nth,               \* and at which of its microphones
  frames, warning, step, seen,   \* the DriftDetector
  ring,              \* the queues
  overflow_count,    \* chunks each ring refused
  processing,        \* where the processing thread is
  primary_chunk, reference_chunk, has_ref, nlms_available,   \* its locals
  processed_frames, dropped_frames,   \* its telemetry
  misses,            \* primary chunks it took without a reference chunk
  fused,             \* all primary chunks it took
  heard,             \* the last chunk the playback thread took
  played             \* how many it took

device == <<session, elapsed>>
capture == <<frame_index, at, nth>>
drift == <<frames, warning, step, seen>>
rings == <<ring, overflow_count>>
local == <<primary_chunk, reference_chunk, has_ref, nlms_available>>
telemetry == <<processed_frames, dropped_frames>>
ghost == <<misses, fused>>
output == <<heard, played>>
vars == <<session, elapsed, frame_index, at, nth, frames, warning, step, seen, ring,
          overflow_count, processing, primary_chunk, reference_chunk, has_ref,
          nlms_available, processed_frames, dropped_frames, misses, fused, heard, played>>

D == INSTANCE DriftDetector WITH Recorder <- Capturer, Sizes <- {Period}, MaxFrames <- MaxPeriods * Period

Chunk == [session : Nat, index : Int, count : Nat]
NoChunk == [session |-> 0, index |-> -1, count |-> 0]

CaptureTypes ==
  /\ session \in Nat
  /\ elapsed \in [Capturer -> Nat]
  /\ frame_index \in [Capturer -> Nat]
  /\ at \in [Capturer -> {"read", "push", "record", "update"}]
  /\ nth \in [Capturer -> 1..2]
  /\ \A t \in Capturer : nth[t] <= Len(MicsOf(t))

RingTypes ==
  /\ ring \in [Ring -> Seq(Chunk)]
  /\ \A r \in Ring : Len(ring[r]) <= Capacity
  /\ overflow_count \in [Ring -> Nat]

ProcessTypes ==
  /\ processing \in {"poll", "reference", "drift", "push"}
  /\ {primary_chunk, reference_chunk, heard} \subseteq Chunk
  /\ has_ref \in BOOLEAN /\ nlms_available \in BOOLEAN
  /\ {processed_frames, dropped_frames, misses, fused, played} \subseteq Nat

TypeOK == CaptureTypes /\ D!TypeOK /\ RingTypes /\ ProcessTypes

Init ==
  /\ session = 0
  /\ elapsed = [t \in Capturer |-> 0]
  /\ frame_index = [t \in Capturer |-> 0]
  /\ at = [t \in Capturer |-> "read"]
  /\ nth = [t \in Capturer |-> 1]
  /\ D!Init
  /\ ring = [r \in Ring |-> <<>>]
  /\ overflow_count = [r \in Ring |-> 0]
  /\ processing = "poll"
  /\ primary_chunk = NoChunk /\ reference_chunk = NoChunk
  /\ has_ref = FALSE /\ nlms_available = FALSE
  /\ processed_frames = 0 /\ dropped_frames = 0
  /\ misses = 0 /\ fused = 0
  /\ heard = NoChunk /\ played = 0

Full(r) == Len(ring[r]) >= Capacity

\* Faulty variant: a refused chunk is not counted.
PushUncounted(r, c) ==
  /\ ring' = IF Full(r) THEN ring ELSE [ring EXCEPT ![r] = Append(@, c)]
  /\ UNCHANGED overflow_count

Push(r, c) ==
  IF Full(r)
    THEN overflow_count' = [overflow_count EXCEPT ![r] = @ + 1] /\ UNCHANGED ring
    ELSE ring' = [ring EXCEPT ![r] = Append(@, c)] /\ UNCHANGED overflow_count

Dequeue(r) == ring' = [ring EXCEPT ![r] = Tail(@)] /\ UNCHANGED overflow_count

------------------------------------------------------------------------------
\* The capture loops.

Goto(t, step_name, k) ==
  /\ at' = [at EXCEPT ![t] = step_name]
  /\ nth' = [nth EXCEPT ![t] = k]

Elapse(t) ==
  /\ at[t] = "read"
  /\ elapsed[t] < MaxPeriods
  /\ elapsed' = [elapsed EXCEPT ![t] = @ + 1]

\* snd_pcm_readi returns a period.
Read(t) ==
  /\ Elapse(t)
  /\ Goto(t, "push", 1)
  /\ UNCHANGED <<session, frame_index, drift, rings, processing, local, telemetry, ghost, output>>

\* snd_pcm_readi fails; snd_pcm_recover restarts the device without the period.
Xrun(t) ==
  /\ Elapse(t)
  /\ UNCHANGED <<session, capture, drift, rings, processing, local, telemetry, ghost, output>>

\* One push per microphone; then, but for a single microphone, the drift detector.
PushChunk(t) ==
  /\ at[t] = "push"
  /\ LET k == nth[t] IN
       /\ Push(MicsOf(t)[k], [session |-> session, index |-> frame_index[t], count |-> Period])
       /\ IF k < Len(MicsOf(t))
            THEN Goto(t, "push", k + 1) /\ UNCHANGED frame_index
            ELSE /\ frame_index' = [frame_index EXCEPT ![t] = @ + 1]
                 /\ Goto(t, IF Topology = "single_mic" THEN "read" ELSE "record", 1)
  /\ UNCHANGED <<device, drift, processing, local, telemetry, ghost, output>>

RecordFrames(t) ==
  /\ at[t] = "record"
  /\ D!Record(t, MicsOf(t)[nth[t]], Period)
  /\ Goto(t, "update", nth[t])
  /\ UNCHANGED <<device, frame_index, rings, processing, local, telemetry, ghost, output>>

UpdateDrift(t) ==
  /\ at[t] = "update"
  /\ D!Update(t)
  /\ IF step'[t] # "idle" THEN UNCHANGED <<at, nth>>
       ELSE IF nth[t] < Len(MicsOf(t)) THEN Goto(t, "record", nth[t] + 1)
       ELSE Goto(t, "read", 1)
  /\ UNCHANGED <<device, frame_index, rings, processing, local, telemetry, ghost, output>>

Capture(t) == Read(t) \/ Xrun(t) \/ PushChunk(t) \/ RecordFrames(t) \/ UpdateDrift(t)

------------------------------------------------------------------------------
\* The processing loop.

\* Faulty variant: a reference chunk is awaited before the frame is taken.
PopPrimarySynchronized ==
  /\ processing = "poll"
  /\ ring["primary"] # <<>> /\ ring["reference"] # <<>>
  /\ primary_chunk' = Head(ring["primary"])
  /\ Dequeue("primary")
  /\ processing' = "reference"
  /\ fused' = fused + 1
  /\ UNCHANGED <<device, capture, drift, reference_chunk, has_ref, nlms_available, telemetry,
                 misses, output>>

\* Without a primary chunk the thread yields and polls again.
PopPrimary ==
  /\ processing = "poll"
  /\ ring["primary"] # <<>>
  /\ primary_chunk' = Head(ring["primary"])
  /\ Dequeue("primary")
  /\ processing' = "reference"
  /\ fused' = fused + 1
  /\ UNCHANGED <<device, capture, drift, reference_chunk, has_ref, nlms_available, telemetry,
                 misses, output>>

\* Faulty variant: a late reference chunk is skipped in favour of a newer one.
PopReferenceNewest ==
  /\ processing = "reference"
  /\ processing' = "drift"
  /\ has_ref' = (Topology # "single_mic" /\ ring["reference"] # <<>>)
  /\ IF has_ref'
       THEN /\ reference_chunk' = ring["reference"][Len(ring["reference"])]
            /\ ring' = [ring EXCEPT !["reference"] = <<>>]
            /\ UNCHANGED <<misses, overflow_count>>
       ELSE misses' = misses + 1 /\ UNCHANGED <<rings, reference_chunk>>
  /\ UNCHANGED <<device, capture, drift, primary_chunk, nlms_available, telemetry, fused, output>>

\* What the ring holds now, if anything, whichever chunk that is.
PopReference ==
  /\ processing = "reference"
  /\ processing' = "drift"
  /\ has_ref' = (Topology # "single_mic" /\ ring["reference"] # <<>>)
  /\ IF has_ref'
       THEN /\ reference_chunk' = Head(ring["reference"])
            /\ Dequeue("reference")
            /\ UNCHANGED misses
       ELSE misses' = misses + 1 /\ UNCHANGED <<rings, reference_chunk>>
  /\ UNCHANGED <<device, capture, drift, primary_chunk, nlms_available, telemetry, fused, output>>

Taken(c) == IF c.count < Hop THEN c.count ELSE Hop

CheckDrift ==
  /\ processing = "drift"
  /\ processing' = "push"
  /\ nlms_available' = (has_ref /\ ~warning /\ reference_chunk.count >= Taken(primary_chunk))
  /\ UNCHANGED <<device, capture, drift, rings, primary_chunk, reference_chunk, has_ref,
                 telemetry, ghost, output>>

\* The DSP stages, then write_playback_chunk() and the counters.
PushPlayback ==
  /\ processing = "push"
  /\ processing' = "poll"
  /\ Push("playback", [primary_chunk EXCEPT !.count = Taken(primary_chunk)])
  /\ processed_frames' = processed_frames + 1
  /\ dropped_frames' = dropped_frames + (IF Full("playback") THEN 1 ELSE 0)
  /\ UNCHANGED <<device, capture, drift, local, ghost, output>>

Process == PopPrimary \/ PopReference \/ CheckDrift \/ PushPlayback

\* Faulty variant: the chunk stays in the ring.
PlayAgain ==
  /\ ring["playback"] # <<>>
  /\ heard' = Head(ring["playback"])
  /\ played' = played + 1
  /\ UNCHANGED <<device, capture, drift, rings, processing, local, telemetry, ghost>>

\* The playback loop.  Of a chunk taken, what a write error or a stop leaves
\* unwritten is not heard.
Play ==
  /\ ring["playback"] # <<>>
  /\ heard' = Head(ring["playback"])
  /\ played' = played + 1
  /\ Dequeue("playback")
  /\ UNCHANGED <<device, capture, drift, processing, local, telemetry, ghost>>

\* stop() and start(): the threads leave at the heads of their loops; telemetry
\* and the threads' own counters start anew, the rings and the detector do not.
Restart ==
  /\ session < MaxRestarts
  /\ processing = "poll"
  /\ \A t \in Capturer : at[t] = "read"
  /\ session' = session + 1
  /\ frame_index' = [t \in Capturer |-> 0]
  /\ processed_frames' = 0 /\ dropped_frames' = 0
  /\ primary_chunk' = NoChunk /\ reference_chunk' = NoChunk
  /\ has_ref' = FALSE /\ nlms_available' = FALSE
  /\ UNCHANGED <<elapsed, at, nth, drift, rings, processing, ghost, output>>

Next == (\E t \in Capturer : Capture(t)) \/ Process \/ Play \/ Restart

Spec == Init /\ [][Next]_vars

\* The processing and playback threads are scheduled.
FairSpec == Spec /\ WF_vars(Process) /\ WF_vars(Play)

------------------------------------------------------------------------------
\* c was captured before d.
Before(c, d) == c.session < d.session \/ (c.session = d.session /\ c.index < d.index)

\* Nothing disappears unaccounted: what a session's capture threads read is
\* refused by a ring, queued, or taken by the processing thread, and what that
\* took is refused, queued, in its hands or taken by the playback thread.
NothingLostSilently ==
  /\ (session = 0 /\ at["primary"] # "push")
       => frame_index["primary"] = fused + Len(ring["primary"]) + overflow_count["primary"]
  /\ fused = played + Len(ring["playback"]) + overflow_count["playback"]
               + (IF processing = "poll" THEN 0 ELSE 1)

\* How far the reference paired with a primary chunk lags it: by one chunk for
\* every primary ever taken without a reference, more by at most the refused
\* primaries, less by at most the refused references, and by nothing else.  A lag
\* is never made good.
SkewExplained ==
  (session = 0 /\ has_ref /\ processing \in {"drift", "push"}) =>
    LET skew == primary_chunk.index - reference_chunk.index
    IN  skew \in (misses - overflow_count["reference"])..(misses + overflow_count["primary"])

\* Audio comes out in the order it was captured, never twice, across restarts.
HeardInOrder == [][played' # played => Before(heard, heard')]_vars

Queued(i) == \E k \in 1..Len(ring["primary"]) : ring["primary"][k].index = i

\* Every chunk captured is taken, even if the other microphone delivers nothing.
ChunkTaken ==
  \A i \in 0..MaxPeriods : Queued(i) ~> ~Queued(i)

\* Of a device with both microphones the warning is exact whenever no record call
\* is in progress: a period longer than the threshold raises it after the primary
\* microphone is recorded, and the reference microphone's call takes it back.
WarningExact == Topology = "multichannel" => D!WarningExact

\* The same of any devices ("Returns true if inter-stream drift exceeds max allowable
\* threshold", drift_detector.hpp, is_warning_active).  Two recorders refute it: the
\* older of two verdicts may be stored last, and stays until the next record call.
WarningTrue == D!WarningExact

\* A device with both microphones has no drift, and no warning ever disables its
\* NLMS stage, although the two microphones are recorded one after the other.
NoSpuriousWarning == (Topology = "multichannel" /\ Period <= MaxDrift) => ~warning

\* What the consumer of each ring holds of it, until it asks again.
InHand(r) ==
  CASE r = "primary" -> (IF processing = "poll" THEN <<>> ELSE <<primary_chunk>>)
    [] r = "reference" -> (IF has_ref THEN <<reference_chunk>> ELSE <<>>)
    [] OTHER -> (IF played = 0 THEN <<>> ELSE <<heard>>)

\* The path uses each ring as the queue that SpscRing implements: one producer that
\* pushes single chunks, one consumer that takes the oldest, whatever the threads and
\* restarts do; items and count_modulus are the chunks and the width of the counter.
Fifo(r, items, count_modulus) == INSTANCE BoundedFifo WITH
  Item <- items, MaxBatch <- 1, Slack <- 0, CountModulus <- count_modulus,
  queue <- ring[r], pending <- <<>>, out <- InHand(r),
  lost <- overflow_count[r] % count_modulus

\* The NLMS stage is given the two microphones' chunks of the same period
\* ("Synchronized dequeue", realtime_pipeline.hpp).
SynchronizedDequeue ==
  (processing = "push" /\ nlms_available) => primary_chunk.index = reference_chunk.index
=============================================================================
