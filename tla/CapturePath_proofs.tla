------------------------- MODULE CapturePath_proofs -------------------------
(***************************************************************************)
(* The accounting of the audio path, the bound on how far the chunks of    *)
(* the two microphones get apart, the drift warning, the order in which    *)
(* chunks are heard, and the path's use of each ring as a first-in         *)
(* first-out queue, for every topology, every ring size and any number of  *)
(* periods.                                                                *)
(***************************************************************************)
EXTENDS CapturePath, SequenceTheorems, TLAPS

\* A push either appends the chunk or counts it as refused.
LEMMA PushFacts ==
  ASSUME ring \in [Ring -> Seq(Chunk)], overflow_count \in [Ring -> Nat],
         \A q \in Ring : Len(ring[q]) <= Capacity,
         NEW r \in Ring, NEW c \in Chunk, Push(r, c)
  PROVE  /\ ring' \in [Ring -> Seq(Chunk)]
         /\ overflow_count' \in [Ring -> Nat]
         /\ \A q \in Ring : Len(ring'[q]) <= Capacity
         /\ \A q \in Ring \ {r} : ring'[q] = ring[q] /\ overflow_count'[q] = overflow_count[q]
         /\ Len(ring'[r]) + overflow_count'[r] = Len(ring[r]) + overflow_count[r] + 1
         /\ overflow_count'[r] >= overflow_count[r]
         /\ \A k \in 1..Len(ring[r]) : ring'[r][k] = ring[r][k]
         /\ \A k \in 1..Len(ring'[r]) : k > Len(ring[r]) =>
              /\ k = Len(ring[r]) + 1 /\ ring'[r][k] = c
              /\ overflow_count'[r] = overflow_count[r]
<1>0. Len(ring[r]) \in Nat /\ overflow_count[r] \in Nat
  OBVIOUS
<1>1. CASE Full(r)
  <2>1. ring' = ring /\ overflow_count' = [overflow_count EXCEPT ![r] = @ + 1]
    BY <1>1 DEF Push
  <2>2. overflow_count'[r] = overflow_count[r] + 1
    BY <2>1
  <2>3. \A k \in 1..Len(ring'[r]) : ~(k > Len(ring[r]))
    BY <1>0, <2>1
  <2>4. Len(ring'[r]) + overflow_count'[r] = Len(ring[r]) + overflow_count[r] + 1
    BY <1>0, <2>1, <2>2
  <2>5. overflow_count' \in [Ring -> Nat]
    BY <2>1
  <2>6. overflow_count'[r] >= overflow_count[r]
    BY <1>0, <2>2
  <2>7. \A q \in Ring \ {r} : ring'[q] = ring[q] /\ overflow_count'[q] = overflow_count[q]
    BY <2>1
  <2> QED BY <2>1, <2>3, <2>4, <2>5, <2>6, <2>7
<1>2. CASE ~Full(r)
  <2>1. /\ ring' = [ring EXCEPT ![r] = Append(@, c)] /\ overflow_count' = overflow_count
        /\ Len(ring[r]) < Capacity
    BY <1>2, PathAssumption DEF Push, Full
  <2>2. ring[r] \in Seq(Chunk) /\ Len(ring[r]) \in Nat
    OBVIOUS
  <2>3. /\ Append(ring[r], c) \in Seq(Chunk)
        /\ Len(Append(ring[r], c)) = Len(ring[r]) + 1
        /\ \A k \in 1..Len(ring[r]) : Append(ring[r], c)[k] = ring[r][k]
        /\ Append(ring[r], c)[Len(ring[r]) + 1] = c
    BY <2>2
  <2>4. ring'[r] = Append(ring[r], c) /\ \A q \in Ring \ {r} : ring'[q] = ring[q]
    BY <2>1
  <2>5. Len(ring'[r]) <= Capacity
    BY <2>1, <2>2, <2>3, <2>4, PathAssumption
  <2>6. ring' \in [Ring -> Seq(Chunk)]
    BY <2>1, <2>3
  <2>7. Len(ring'[r]) = Len(ring[r]) + 1
    BY <2>3, <2>4
  <2>8. Len(ring'[r]) + overflow_count'[r] = Len(ring[r]) + overflow_count[r] + 1
    BY <1>0, <2>1, <2>7
  <2>9. overflow_count'[r] >= overflow_count[r]
    BY <1>0, <2>1
  <2>10. ASSUME NEW k \in 1..Len(ring'[r]), k > Len(ring[r])
         PROVE  k = Len(ring[r]) + 1 /\ ring'[r][k] = c
    <3>1. k = Len(ring[r]) + 1 BY <1>0, <2>7, <2>10
    <3> QED BY <2>3, <2>4, <3>1
  <2>11. \A k \in 1..Len(ring[r]) : ring'[r][k] = ring[r][k]
    BY <2>3, <2>4
  <2>12. \A q \in Ring : Len(ring'[q]) <= Capacity
    BY <2>4, <2>5
  <2> QED BY <2>1, <2>4, <2>6, <2>8, <2>9, <2>10, <2>11, <2>12
<1> QED BY <1>1, <1>2

\* Taking the head shifts the queue by one.
LEMMA DequeueFacts ==
  ASSUME ring \in [Ring -> Seq(Chunk)],
         \A q \in Ring : Len(ring[q]) <= Capacity,
         NEW r \in Ring, ring[r] # <<>>, Dequeue(r)
  PROVE  /\ ring' \in [Ring -> Seq(Chunk)]
         /\ \A q \in Ring : Len(ring'[q]) <= Capacity
         /\ overflow_count' = overflow_count
         /\ \A q \in Ring \ {r} : ring'[q] = ring[q]
         /\ Len(ring[r]) \in Nat \ {0}
         /\ Len(ring'[r]) = Len(ring[r]) - 1
         /\ Head(ring[r]) = ring[r][1] /\ ring[r][1] \in Chunk
         /\ \A k \in 1..Len(ring'[r]) : ring'[r][k] = ring[r][k + 1]
<1>1. ring[r] \in Seq(Chunk)
  OBVIOUS
<1>2. /\ Len(ring[r]) \in Nat \ {0}
      /\ Tail(ring[r]) \in Seq(Chunk) /\ Len(Tail(ring[r])) = Len(ring[r]) - 1
      /\ Head(ring[r]) = ring[r][1] /\ ring[r][1] \in Chunk
      /\ \A k \in 1..Len(Tail(ring[r])) : Tail(ring[r])[k] = ring[r][k + 1]
  BY <1>1
<1>3. ring' = [ring EXCEPT ![r] = Tail(@)] /\ overflow_count' = overflow_count
  BY DEF Dequeue
<1>4. ring'[r] = Tail(ring[r]) /\ \A q \in Ring \ {r} : ring'[q] = ring[q]
  BY <1>3
<1>5. ring' \in [Ring -> Seq(Chunk)]
  BY <1>2, <1>3
<1>6. Len(ring'[r]) <= Capacity
  BY <1>2, <1>4, PathAssumption
<1> QED BY <1>2, <1>3, <1>4, <1>5, <1>6

\* What a capture thread reads are microphones, and every microphone is a ring.
LEMMA MicsFacts ==
  ASSUME NEW t \in Capturer
  PROVE  /\ Len(MicsOf(t)) \in 1..2
         /\ \A k \in 1..Len(MicsOf(t)) : MicsOf(t)[k] \in Mic
         /\ Mic \subseteq Ring /\ Capturer \subseteq Mic
BY PathAssumption DEF Capturer, MicsOf, Mic, Ring

\* A hop of a chunk has a length.
LEMMA TakenFacts ==
  ASSUME NEW c \in Chunk
  PROVE  [c EXCEPT !.count = Taken(c)] \in Chunk
<1>1. Taken(c) \in Nat
  BY PathAssumption DEF Taken, Chunk
<1> QED BY <1>1 DEF Chunk

------------------------------------------------------------------------------
\* A part of the state that a step leaves alone keeps its type.
LEMMA SameTypes ==
  ASSUME TypeOK
  PROVE  /\ UNCHANGED <<device, capture>> => CaptureTypes'
         /\ UNCHANGED drift => D!TypeOK'
         /\ UNCHANGED rings => RingTypes'
         /\ UNCHANGED <<processing, local, telemetry, ghost, output>> => ProcessTypes'
BY DEF TypeOK, CaptureTypes, D!TypeOK, RingTypes, ProcessTypes, device, capture, drift,
       rings, local, telemetry, ghost, output

\* A capture thread moves to one of its microphones.
LEMMA GotoTypes ==
  ASSUME CaptureTypes, NEW t \in Capturer, NEW w \in {"read", "push", "record", "update"},
         NEW k \in 1..2, k <= Len(MicsOf(t)), Goto(t, w, k)
  PROVE  /\ at' \in [Capturer -> {"read", "push", "record", "update"}]
         /\ nth' \in [Capturer -> 1..2]
         /\ \A u \in Capturer : nth'[u] <= Len(MicsOf(u))
<1>1. /\ at' \in [Capturer -> {"read", "push", "record", "update"}]
      /\ nth' \in [Capturer -> 1..2]
  BY DEF CaptureTypes, Goto
<1>2. ASSUME NEW u \in Capturer PROVE nth'[u] <= Len(MicsOf(u))
  BY DEF CaptureTypes, Goto
<1> QED BY <1>1, <1>2

\* There is a next microphone only below the last.
LEMMA NextMic ==
  ASSUME NEW n \in 1..2, NEW i \in 1..n, i < n
  PROVE  i + 1 \in 1..2 /\ i + 1 <= n
OBVIOUS

\* What the locals hold before the first chunk.
LEMMA NoChunkFacts == NoChunk \in Chunk /\ NoChunk.index = -1
BY DEF NoChunk, Chunk

\* A capture thread's step keeps the types.
LEMMA CaptureStep ==
  ASSUME TypeOK, NEW t \in Capturer, Capture(t)
  PROVE  TypeOK'
<1>t. CaptureTypes /\ D!TypeOK /\ RingTypes /\ ProcessTypes
  BY DEF TypeOK
<1>a. /\ at[t] \in {"read", "push", "record", "update"} /\ nth[t] \in 1..2
      /\ nth[t] <= Len(MicsOf(t)) /\ frame_index[t] \in Nat /\ elapsed[t] \in Nat
      /\ session \in Nat
  BY <1>t DEF CaptureTypes
<1>m. /\ Len(MicsOf(t)) \in 1..2 /\ nth[t] \in 1..Len(MicsOf(t))
      /\ MicsOf(t)[nth[t]] \in Mic /\ MicsOf(t)[nth[t]] \in Ring
  <2>1. Len(MicsOf(t)) \in 1..2 /\ nth[t] \in 1..Len(MicsOf(t))
    BY <1>a, MicsFacts
  <2> QED BY <2>1, MicsFacts
<1>1. CASE Read(t)
  <2>1. Goto(t, "push", 1) /\ elapsed' = [elapsed EXCEPT ![t] = @ + 1]
        /\ UNCHANGED <<session, frame_index>>
    BY <1>1 DEF Read, Elapse
  <2>2. CaptureTypes'
    BY <1>t, <1>a, <1>m, <2>1, GotoTypes DEF CaptureTypes
  <2> QED BY <1>1, <2>2, SameTypes DEF Read, TypeOK
<1>2. CASE Xrun(t)
  <2>1. elapsed' = [elapsed EXCEPT ![t] = @ + 1] /\ UNCHANGED <<session, capture>>
    BY <1>2 DEF Xrun, Elapse
  <2>2. CaptureTypes'
    BY <1>t, <1>a, <2>1 DEF CaptureTypes, capture
  <2> QED BY <1>2, <2>2, SameTypes DEF Xrun, TypeOK
<1>3. CASE PushChunk(t)
  <2> DEFINE c == [session |-> session, index |-> frame_index[t], count |-> Period]
             next == IF Topology = "single_mic" THEN "read" ELSE "record"
  <2>1. c \in Chunk
    BY <1>a, PathAssumption DEF Chunk
  <2>2. Push(MicsOf(t)[nth[t]], c)
        /\ UNCHANGED <<device, drift, processing, local, telemetry, ghost, output>>
    BY <1>3 DEF PushChunk
  <2>3. \/ nth[t] < Len(MicsOf(t)) /\ Goto(t, "push", nth[t] + 1) /\ UNCHANGED frame_index
        \/ frame_index' = [frame_index EXCEPT ![t] = @ + 1] /\ Goto(t, next, 1)
    BY <1>3 DEF PushChunk
  <2>4. next \in {"read", "push", "record", "update"}
    OBVIOUS
  <2> HIDE DEF c, next
  <2>5. RingTypes'
    BY <1>t, <1>m, <2>1, <2>2, PushFacts DEF RingTypes
  <2>6. ASSUME nth[t] < Len(MicsOf(t)), Goto(t, "push", nth[t] + 1), UNCHANGED frame_index
        PROVE  CaptureTypes'
    <3>1. nth[t] + 1 \in 1..2 /\ nth[t] + 1 <= Len(MicsOf(t))
      BY <1>m, <2>6, NextMic
    <3> QED BY <1>t, <2>2, <2>6, <3>1, GotoTypes DEF CaptureTypes, device
  <2>7. ASSUME frame_index' = [frame_index EXCEPT ![t] = @ + 1], Goto(t, next, 1)
        PROVE  CaptureTypes'
    <3>1. frame_index' \in [Capturer -> Nat]
      BY <1>t, <2>7 DEF CaptureTypes
    <3>2. 1 \in 1..2 /\ 1 <= Len(MicsOf(t))
      BY <1>m
    <3> QED BY <1>t, <2>2, <2>4, <2>7, <3>1, <3>2, GotoTypes DEF CaptureTypes, device
  <2> QED BY <2>2, <2>3, <2>5, <2>6, <2>7, SameTypes DEF TypeOK
<1>4. CASE RecordFrames(t)
  <2>1. CaptureTypes'
    BY <1>4, <1>t, <1>a, GotoTypes DEF RecordFrames, CaptureTypes, device
  <2>2. D!TypeOK'
    <3>1. /\ frames' = [frames EXCEPT ![MicsOf(t)[nth[t]]] = @ + Period]
          /\ step' = [step EXCEPT ![t] = "load_primary"]
          /\ UNCHANGED <<warning, seen>>
      BY <1>4 DEF RecordFrames, D!Record
    <3>2. frames' \in [D!Mic -> Nat]
      BY <1>t, <1>m, <3>1, PathAssumption DEF D!TypeOK, D!Mic, Mic
    <3> QED BY <1>t, <3>1, <3>2 DEF D!TypeOK
  <2> QED BY <1>4, <2>1, <2>2, SameTypes DEF RecordFrames, TypeOK
<1>5. CASE UpdateDrift(t)
  <2>1. D!TypeOK'
    <3>0. D!TypeOK /\ D!Mic = Mic
      BY <1>t DEF D!Mic, Mic
    <3>1. CASE D!LoadPrimary(t) BY <3>0, <3>1 DEF D!LoadPrimary, D!TypeOK, Mic
    <3>2. CASE D!LoadReference(t) BY <3>0, <3>2 DEF D!LoadReference, D!TypeOK, Mic
    <3>3. CASE D!Store(t) BY <3>0, <3>3 DEF D!Store, D!TypeOK
    <3> QED BY <1>5, <3>1, <3>2, <3>3 DEF UpdateDrift, D!Update
  <2>2. CaptureTypes'
    <3>1. CASE UNCHANGED <<at, nth>>
      BY <1>5, <3>1, SameTypes DEF UpdateDrift, capture
    <3>2. CASE nth[t] < Len(MicsOf(t)) /\ Goto(t, "record", nth[t] + 1)
      <4>1. nth[t] + 1 \in 1..2 /\ nth[t] + 1 <= Len(MicsOf(t))
        BY <1>m, <3>2, NextMic
      <4> QED BY <1>5, <1>t, <3>2, <4>1, GotoTypes DEF UpdateDrift, CaptureTypes, device
    <3>3. CASE Goto(t, "read", 1)
      BY <1>5, <1>t, <1>m, <3>3, GotoTypes DEF UpdateDrift, CaptureTypes, device
    <3> QED BY <1>5, <3>1, <3>2, <3>3 DEF UpdateDrift
  <2> QED BY <1>5, <2>1, <2>2, SameTypes DEF UpdateDrift, TypeOK
<1> QED BY <1>1, <1>2, <1>3, <1>4, <1>5 DEF Capture

\* A step of the processing or the playback thread keeps the types.
LEMMA ProcessStep ==
  ASSUME TypeOK, Process \/ Play
  PROVE  TypeOK'
<1>t. CaptureTypes /\ D!TypeOK /\ RingTypes /\ ProcessTypes
  BY DEF TypeOK
<1>r. {"primary", "reference", "playback"} \subseteq Ring
  BY DEF Ring, Mic
<1>1. CASE PopPrimary
  <2>1. RingTypes' /\ primary_chunk' \in Chunk
    BY <1>1, <1>t, <1>r, DequeueFacts DEF PopPrimary, RingTypes
  <2>2. ProcessTypes'
    BY <1>1, <1>t, <2>1 DEF PopPrimary, ProcessTypes, telemetry, output
  <2> QED BY <1>1, <2>1, <2>2, SameTypes DEF PopPrimary, TypeOK
<1>2. CASE PopReference
  <2>1. CASE has_ref'
    <3>1. ring["reference"] # <<>> /\ Dequeue("reference")
          /\ reference_chunk' = Head(ring["reference"]) /\ UNCHANGED misses
      BY <1>2, <2>1 DEF PopReference
    <3>2. RingTypes' /\ reference_chunk' \in Chunk
      BY <1>t, <1>r, <3>1, DequeueFacts DEF RingTypes
    <3>3. ProcessTypes'
      BY <1>2, <1>t, <3>1, <3>2 DEF PopReference, ProcessTypes, telemetry, output
    <3> QED BY <1>2, <3>2, <3>3, SameTypes DEF PopReference, TypeOK
  <2>2. CASE ~has_ref'
    <3>1. misses' = misses + 1 /\ UNCHANGED <<rings, reference_chunk>>
      BY <1>2, <2>2 DEF PopReference
    <3>2. ProcessTypes'
      BY <1>2, <1>t, <3>1 DEF PopReference, ProcessTypes, telemetry, output
    <3> QED BY <1>2, <3>1, <3>2, SameTypes DEF PopReference, TypeOK
  <2> QED BY <2>1, <2>2
<1>3. CASE CheckDrift
  <2>1. ProcessTypes'
    BY <1>3, <1>t DEF CheckDrift, ProcessTypes, telemetry, ghost, output
  <2> QED BY <1>3, <2>1, SameTypes DEF CheckDrift, TypeOK
<1>4. CASE PushPlayback
  <2>0. primary_chunk \in Chunk /\ processed_frames \in Nat /\ dropped_frames \in Nat
    BY <1>t DEF ProcessTypes
  <2>1. RingTypes'
    BY <1>4, <1>t, <1>r, <2>0, PushFacts, TakenFacts DEF PushPlayback, RingTypes
  <2>2. processed_frames' \in Nat /\ dropped_frames' \in Nat
    BY <1>4, <2>0 DEF PushPlayback
  <2>3. ProcessTypes'
    BY <1>4, <1>t, <2>2 DEF PushPlayback, ProcessTypes, local, ghost, output
  <2> QED BY <1>4, <2>1, <2>3, SameTypes DEF PushPlayback, TypeOK
<1>5. CASE Play
  <2>1. RingTypes' /\ heard' \in Chunk
    BY <1>5, <1>t, <1>r, DequeueFacts DEF Play, RingTypes
  <2>2. ProcessTypes'
    BY <1>5, <1>t, <2>1 DEF Play, ProcessTypes, local, telemetry, ghost
  <2> QED BY <1>5, <2>1, <2>2, SameTypes DEF Play, TypeOK
<1> QED BY <1>1, <1>2, <1>3, <1>4, <1>5 DEF Process

\* Every variable keeps its type, and no ring holds more than its capacity.
THEOREM TypeCorrect == Spec => []TypeOK
<1>1. Init => TypeOK
  <2> SUFFICES ASSUME Init PROVE TypeOK
    OBVIOUS
  <2>1. D!TypeOK
    <3>1. frames \in [D!Mic -> Nat] /\ seen \in [Capturer -> Int]
      BY DEF Init, D!Init
    <3>2. step \in [Capturer -> {"idle", "load_primary", "load_reference", "store"}]
      BY DEF Init, D!Init
    <3> QED BY <3>1, <3>2 DEF Init, D!Init, D!TypeOK
  <2>2. CaptureTypes
    <3>1. /\ session \in Nat
          /\ elapsed \in [Capturer -> Nat] /\ frame_index \in [Capturer -> Nat]
          /\ at \in [Capturer -> {"read", "push", "record", "update"}]
          /\ nth = [t \in Capturer |-> 1]
      BY DEF Init
    <3>2. nth \in [Capturer -> 1..2] /\ \A t \in Capturer : nth[t] = 1
      BY <3>1
    <3>3. \A t \in Capturer : Len(MicsOf(t)) \in 1..2
      BY MicsFacts
    <3>4. \A t \in Capturer : nth[t] <= Len(MicsOf(t))
      BY <3>2, <3>3
    <3>5. /\ session \in Nat
          /\ elapsed \in [Capturer -> Nat] /\ frame_index \in [Capturer -> Nat]
          /\ at \in [Capturer -> {"read", "push", "record", "update"}]
      BY <3>1
    <3> QED
      <4> HIDE DEF Init
      <4> QED BY <3>2, <3>4, <3>5, SMTT(30) DEF CaptureTypes
  <2>3. RingTypes
    BY PathAssumption DEF Init, RingTypes
  <2>4. ProcessTypes
    <3>1. has_ref \in BOOLEAN /\ nlms_available \in BOOLEAN
      BY DEF Init
    <3>2. {primary_chunk, reference_chunk, heard} \subseteq Chunk
      BY NoChunkFacts DEF Init
    <3>3. {processed_frames, dropped_frames, misses, fused, played} \subseteq Nat
      BY DEF Init
    <3> QED BY <3>1, <3>2, <3>3 DEF Init, ProcessTypes
  <2> QED BY <2>1, <2>2, <2>3, <2>4 DEF TypeOK
<1>2. TypeOK /\ [Next]_vars => TypeOK'
  <2> SUFFICES ASSUME TypeOK, [Next]_vars PROVE TypeOK'
    OBVIOUS
  <2>1. CASE Restart
    <3>1. /\ session' = session + 1 /\ frame_index' = [t \in Capturer |-> 0]
          /\ UNCHANGED <<elapsed, at, nth>>
      BY <2>1 DEF Restart
    <3>2. CaptureTypes'
      BY <3>1 DEF TypeOK, CaptureTypes
    <3>3. ProcessTypes'
      <4>1. has_ref' \in BOOLEAN /\ nlms_available' \in BOOLEAN
        BY <2>1 DEF Restart
      <4>2. {primary_chunk', reference_chunk', heard'} \subseteq Chunk
        BY <2>1, NoChunkFacts DEF Restart, TypeOK, ProcessTypes, output
      <4>3. {processed_frames', dropped_frames', misses', fused', played'} \subseteq Nat
        BY <2>1 DEF Restart, TypeOK, ProcessTypes, ghost, output
      <4> QED BY <2>1, <4>1, <4>2, <4>3 DEF Restart, TypeOK, ProcessTypes
    <3> QED BY <2>1, <3>2, <3>3, SameTypes DEF Restart, TypeOK
  <2>2. CASE UNCHANGED vars
    BY <2>2, SameTypes DEF vars, device, capture, drift, rings, local, telemetry, ghost,
       output, TypeOK
  <2> QED BY <2>1, <2>2, CaptureStep, ProcessStep DEF Next
<1> QED BY <1>1, <1>2, PTL DEF Spec

------------------------------------------------------------------------------
\* Up to the first restart: the chunks of the primary microphone pushed or
\* refused, those of the reference microphone, and the reference chunks taken.
PrimaryPushed ==
  frame_index["primary"] + (IF at["primary"] = "push" /\ nth["primary"] = 2 THEN 1 ELSE 0)

ReferencePushed == frame_index[IF Topology = "separate" THEN "reference" ELSE "primary"]

ReferenceTaken == fused - misses - (IF processing = "reference" THEN 1 ELSE 0)

\* q holds consecutive chunks from the given index on, but for up to slack gaps.
Near(q, from, slack) ==
  \A k \in 1..Len(q) : q[k].index \in (from + k - 1)..(from + k - 1 + slack)

PrimaryInv ==
  session = 0 =>
    /\ PrimaryPushed = fused + Len(ring["primary"]) + overflow_count["primary"]
    /\ Near(ring["primary"], fused, overflow_count["primary"])
    /\ processing # "poll" =>
         primary_chunk.index \in (fused - 1)..(fused - 1 + overflow_count["primary"])

ReferenceInv ==
  (session = 0 /\ Topology # "single_mic") =>
    /\ ReferencePushed = ReferenceTaken + Len(ring["reference"]) + overflow_count["reference"]
    /\ Near(ring["reference"], ReferenceTaken, overflow_count["reference"])
    /\ (processing \in {"drift", "push"} /\ has_ref) =>
         reference_chunk.index
           \in (ReferenceTaken - 1)..(ReferenceTaken - 1 + overflow_count["reference"])

PlaybackInv ==
  /\ fused = played + Len(ring["playback"]) + overflow_count["playback"]
               + (IF processing = "poll" THEN 0 ELSE 1)
  /\ (processing \in {"drift", "push"} /\ has_ref) => Topology # "single_mic"

\* The strengthening: every chunk queued or in hand lies as far from its place in
\* the stream as chunks of its microphone were refused.
AccountInv == PrimaryInv /\ ReferenceInv /\ PlaybackInv

\* A push of the next index keeps a queue near its place.
LEMMA NearPush ==
  ASSUME RingTypes, NEW r \in Ring, NEW c \in Chunk, Push(r, c), NEW from \in Int,
         c.index = from + Len(ring[r]) + overflow_count[r],
         Near(ring[r], from, overflow_count[r])
  PROVE  Near(ring'[r], from, overflow_count'[r])
<1>1. /\ Len(ring[r]) \in Nat /\ overflow_count[r] \in Nat
      /\ overflow_count'[r] \in Nat /\ Len(ring'[r]) \in Nat
      /\ overflow_count'[r] >= overflow_count[r]
      /\ \A k \in 1..Len(ring[r]) : ring'[r][k] = ring[r][k] /\ ring[r][k].index \in Int
      /\ \A k \in 1..Len(ring'[r]) : k > Len(ring[r]) =>
           /\ k = Len(ring[r]) + 1 /\ ring'[r][k] = c
           /\ overflow_count'[r] = overflow_count[r]
  <2>1. /\ ring \in [Ring -> Seq(Chunk)] /\ overflow_count \in [Ring -> Nat]
        /\ \A q \in Ring : Len(ring[q]) <= Capacity
    BY DEF RingTypes
  <2>2. /\ ring' \in [Ring -> Seq(Chunk)] /\ overflow_count' \in [Ring -> Nat]
        /\ overflow_count'[r] >= overflow_count[r]
        /\ \A k \in 1..Len(ring[r]) : ring'[r][k] = ring[r][k]
        /\ \A k \in 1..Len(ring'[r]) : k > Len(ring[r]) =>
              /\ k = Len(ring[r]) + 1 /\ ring'[r][k] = c
              /\ overflow_count'[r] = overflow_count[r]
    BY <2>1, PushFacts
  <2>3. ring[r] \in Seq(Chunk) /\ ring'[r] \in Seq(Chunk)
    BY <2>1, <2>2
  <2>4. ASSUME NEW k \in 1..Len(ring[r]) PROVE ring[r][k].index \in Int
    <3>1. ring[r][k] \in Chunk BY <2>3
    <3> QED BY <3>1 DEF Chunk
  <2> QED BY <2>1, <2>2, <2>3, <2>4
<1> SUFFICES ASSUME NEW k \in 1..Len(ring'[r])
             PROVE  ring'[r][k].index \in (from + k - 1)..(from + k - 1 + overflow_count'[r])
  BY DEF Near
<1>2. CASE k > Len(ring[r])
  <2>1. /\ k = Len(ring[r]) + 1 /\ ring'[r][k] = c
        /\ overflow_count'[r] = overflow_count[r]
    BY <1>1, <1>2
  <2> QED BY <1>1, <2>1
<1>3. CASE k <= Len(ring[r])
  <2>1. k \in 1..Len(ring[r]) BY <1>1, <1>3
  <2>2. /\ ring'[r][k] = ring[r][k] /\ ring[r][k].index \in Int
        /\ ring[r][k].index \in (from + k - 1)..(from + k - 1 + overflow_count[r])
    BY <1>1, <2>1 DEF Near
  <2> QED BY <1>1, <2>2, SMTT(30)
<1> QED BY <1>1, <1>2, <1>3

\* Taking the head of such a queue leaves the rest near the next place.
LEMMA NearDequeue ==
  ASSUME RingTypes, NEW r \in Ring, ring[r] # <<>>, Dequeue(r), NEW from \in Int,
         Near(ring[r], from, overflow_count[r])
  PROVE  /\ Near(ring'[r], from + 1, overflow_count'[r])
         /\ Head(ring[r]).index \in from..(from + overflow_count[r])
<1>1. /\ Len(ring[r]) \in Nat \ {0} /\ Len(ring'[r]) = Len(ring[r]) - 1
      /\ overflow_count'[r] = overflow_count[r] /\ overflow_count[r] \in Nat
      /\ Head(ring[r]) = ring[r][1]
      /\ \A k \in 1..Len(ring'[r]) : ring'[r][k] = ring[r][k + 1]
  BY DequeueFacts DEF RingTypes
<1>2. ASSUME NEW k \in 1..Len(ring'[r])
      PROVE  ring'[r][k].index \in (from + 1 + k - 1)..(from + 1 + k - 1 + overflow_count'[r])
  <2>1. k + 1 \in 1..Len(ring[r])
    BY <1>1
  <2>2. ring[r][k + 1].index \in (from + (k + 1) - 1)..(from + (k + 1) - 1 + overflow_count[r])
    BY <2>1 DEF Near
  <2>3. ring'[r][k] = ring[r][k + 1]
    BY <1>1
  <2>4. from + (k + 1) - 1 = from + 1 + k - 1
    BY <1>1
  <2> QED BY <1>1, <2>2, <2>3, <2>4
<1>3. Head(ring[r]).index \in from..(from + overflow_count[r])
  <2>1. 1 \in 1..Len(ring[r])
    BY <1>1
  <2>2. ring[r][1].index \in (from + 1 - 1)..(from + 1 - 1 + overflow_count[r])
    BY <2>1 DEF Near
  <2>3. from + 1 - 1 = from
    OBVIOUS
  <2> QED BY <1>1, <2>2, <2>3
<1> QED BY <1>2, <1>3 DEF Near

\* A step of a capture thread other than a push leaves the counts of pushes alone.
LEMMA CountsKept ==
  ASSUME TypeOK, NEW t \in Capturer, Read(t) \/ Xrun(t) \/ RecordFrames(t) \/ UpdateDrift(t)
  PROVE  /\ UNCHANGED <<session, frame_index, rings, processing, local, ghost, output>>
         /\ PrimaryPushed' = PrimaryPushed
<1>1. UNCHANGED <<session, frame_index, rings, processing, local, ghost, output>>
  BY DEF Read, Xrun, RecordFrames, UpdateDrift, Elapse, device, capture
<1>2. \/ UNCHANGED <<at, nth>>
      \/ /\ at[t] # "push"
         /\ \E w \in {"read", "push", "record", "update"}, k \in 1..2 :
              Goto(t, w, k) /\ ~(w = "push" /\ k = 2)
  <2>1. nth[t] \in 1..2 /\ nth[t] <= Len(MicsOf(t)) /\ Len(MicsOf(t)) \in 1..2
    BY MicsFacts DEF TypeOK, CaptureTypes
  <2>2. ASSUME nth[t] < Len(MicsOf(t)) PROVE nth[t] + 1 \in 1..2
    <3>1. nth[t] \in 1..Len(MicsOf(t)) BY <2>1
    <3> QED BY <2>1, <2>2, <3>1, NextMic
  <2>3. CASE Read(t) BY <2>3 DEF Read, Elapse
  <2>4. CASE Xrun(t) BY <2>4 DEF Xrun, capture
  <2>5. CASE RecordFrames(t) BY <2>1, <2>5 DEF RecordFrames
  <2>6. CASE UpdateDrift(t) BY <2>2, <2>6 DEF UpdateDrift
  <2> QED BY <2>3, <2>4, <2>5, <2>6
<1>3. CASE UNCHANGED <<at, nth>>
  BY <1>1, <1>3 DEF PrimaryPushed
<1>4. ASSUME NEW w \in {"read", "push", "record", "update"}, NEW k \in 1..2,
             at[t] # "push", Goto(t, w, k), ~(w = "push" /\ k = 2)
      PROVE  PrimaryPushed' = PrimaryPushed
  <2>1. ~(at["primary"] = "push" /\ nth["primary"] = 2)
          <=> ~(at'["primary"] = "push" /\ nth'["primary"] = 2)
    <3>1. CASE t = "primary"
      BY <1>4, <3>1 DEF Goto, TypeOK, CaptureTypes
    <3>2. CASE t # "primary"
      BY <1>4, <3>2 DEF Goto, TypeOK, CaptureTypes, Capturer
    <3> QED BY <3>1, <3>2
  <2> QED BY <1>1, <2>1 DEF PrimaryPushed
<1> QED BY <1>1, <1>2, <1>3, <1>4

\* A push has the next index of its microphone, and only that count grows.
LEMMA PushCounts ==
  ASSUME TypeOK, NEW t \in Capturer, PushChunk(t)
  PROVE  LET m == MicsOf(t)[nth[t]] IN
           /\ m \in Mic
           /\ \E c \in Chunk :
                /\ Push(m, c)
                /\ c.session = session
                /\ c.index = IF m = "primary" THEN PrimaryPushed ELSE ReferencePushed
           /\ m = "reference" => Topology # "single_mic"
           /\ PrimaryPushed' = PrimaryPushed + (IF m = "primary" THEN 1 ELSE 0)
           /\ Topology # "single_mic" =>
                ReferencePushed' = ReferencePushed + (IF m = "reference" THEN 1 ELSE 0)
<1> DEFINE m == MicsOf(t)[nth[t]]
           c == [session |-> session, index |-> frame_index[t], count |-> Period]
           next == IF Topology = "single_mic" THEN "read" ELSE "record"
<1>1. /\ nth \in [Capturer -> 1..2] /\ nth[t] \in 1..2 /\ nth[t] <= Len(MicsOf(t))
      /\ at \in [Capturer -> {"read", "push", "record", "update"}] /\ at[t] = "push"
      /\ frame_index \in [Capturer -> Nat] /\ session \in Nat
  BY DEF TypeOK, CaptureTypes, PushChunk
<1>2. Push(m, c)
  BY DEF PushChunk
<1>3. c \in Chunk /\ c.index = frame_index[t] /\ c.session = session
  BY <1>1, PathAssumption DEF Chunk
<1>4. \/ nth[t] < Len(MicsOf(t)) /\ Goto(t, "push", nth[t] + 1) /\ UNCHANGED frame_index
      \/ /\ frame_index' = [frame_index EXCEPT ![t] = @ + 1] /\ Goto(t, next, 1)
         /\ ~(nth[t] < Len(MicsOf(t)))
  BY DEF PushChunk
<1>5. next # "push"
  OBVIOUS
<1> HIDE DEF c, next
<1>6. CASE Topology = "multichannel"
  <2>1. /\ t = "primary" /\ Capturer = {"primary"} /\ MicsOf(t) = <<"primary", "reference">>
        /\ Len(MicsOf(t)) = 2
    BY <1>6 DEF Capturer, MicsOf
  <2>2. CASE nth[t] = 1
    <3>1. m = "primary" /\ Goto(t, "push", 2) /\ UNCHANGED frame_index
      BY <1>4, <2>1, <2>2
    <3>2. PrimaryPushed = frame_index["primary"] /\ PrimaryPushed' = frame_index["primary"] + 1
      BY <1>1, <2>1, <2>2, <3>1 DEF PrimaryPushed, Goto
    <3>3. ReferencePushed' = ReferencePushed /\ ReferencePushed \in Int
      BY <1>1, <1>6, <2>1, <3>1 DEF ReferencePushed
    <3> QED BY <1>1, <1>2, <1>3, <1>6, <2>1, <3>1, <3>2, <3>3 DEF Mic
  <2>3. CASE nth[t] = 2
    <3>1. /\ m = "reference" /\ Goto(t, next, 1)
          /\ frame_index' = [frame_index EXCEPT ![t] = @ + 1]
      <4>1. m = "reference"
        BY <2>1, <2>3
      <4>2. ~(nth[t] < Len(MicsOf(t)))
        <5>1. Len(MicsOf(t)) = 2 BY <2>1
        <5> HIDE DEF m
        <5> QED BY <2>3, <5>1
      <4> QED BY <1>4, <4>1, <4>2
    <3>2. /\ PrimaryPushed = frame_index["primary"] + 1
          /\ PrimaryPushed' = frame_index["primary"] + 1
      BY <1>1, <1>5, <2>1, <2>3, <3>1 DEF PrimaryPushed, Goto
    <3>3. ReferencePushed = frame_index[t] /\ ReferencePushed' = ReferencePushed + 1
      BY <1>1, <1>6, <2>1, <3>1 DEF ReferencePushed
    <3> QED BY <1>1, <1>2, <1>3, <1>6, <2>1, <3>1, <3>2, <3>3 DEF Mic
  <2> QED BY <1>1, <2>2, <2>3
<1>7. CASE Topology # "multichannel"
  <2>1. MicsOf(t) = <<t>> /\ Len(MicsOf(t)) = 1 /\ t \in Mic
    BY <1>7 DEF MicsOf, Capturer, Mic
  <2>2. /\ m = t /\ nth[t] = 1 /\ Goto(t, next, 1)
        /\ frame_index' = [frame_index EXCEPT ![t] = @ + 1]
    BY <1>1, <1>4, <2>1
  <2>3. CASE t = "primary"
    <3>1. PrimaryPushed = frame_index[t] /\ PrimaryPushed' = frame_index[t] + 1
      BY <1>1, <1>5, <2>2, <2>3 DEF PrimaryPushed, Goto
    <3>2. Topology # "single_mic" =>
            ReferencePushed' = ReferencePushed /\ ReferencePushed \in Int
      BY <1>1, <1>7, <2>2, <2>3, PathAssumption DEF ReferencePushed, Capturer, Mic
    <3> QED BY <1>1, <1>2, <1>3, <2>1, <2>2, <2>3, <3>1, <3>2
  <2>4. CASE t = "reference"
    <3>1. Topology = "separate"
      BY <2>4 DEF Capturer
    <3>2. PrimaryPushed' = PrimaryPushed /\ PrimaryPushed \in Int
      BY <1>1, <2>2, <2>4, <3>1 DEF PrimaryPushed, Goto, Capturer, Mic
    <3>3. ReferencePushed = frame_index[t] /\ ReferencePushed' = frame_index[t] + 1
      BY <1>1, <2>2, <2>4, <3>1 DEF ReferencePushed
    <3> QED BY <1>1, <1>2, <1>3, <2>1, <2>2, <2>4, <3>1, <3>2, <3>3
  <2> QED BY <2>1, <2>3, <2>4 DEF Mic
<1> QED BY <1>6, <1>7

\* The types the arithmetic below needs.
LEMMA CountTypes ==
  ASSUME TypeOK
  PROVE  /\ RingTypes /\ {"primary", "reference", "playback"} \subseteq Ring
         /\ \A r \in Ring : Len(ring[r]) \in Nat /\ overflow_count[r] \in Nat
         /\ {fused, misses, played} \subseteq Nat
         /\ PrimaryPushed \in Int
         /\ Topology # "single_mic" => ReferencePushed \in Int
         /\ ReferenceTaken \in Int
<1>1. RingTypes /\ {"primary", "reference", "playback"} \subseteq Ring
  BY DEF TypeOK, Ring, Mic
<1>2. \A r \in Ring : Len(ring[r]) \in Nat /\ overflow_count[r] \in Nat
  BY <1>1 DEF RingTypes
<1>3. {fused, misses, played} \subseteq Nat
  BY DEF TypeOK, ProcessTypes
<1>4. frame_index \in [Capturer -> Nat] /\ "primary" \in Capturer
  BY PathAssumption DEF TypeOK, CaptureTypes, Capturer, Mic
<1>5. PrimaryPushed \in Int
  BY <1>4 DEF PrimaryPushed
<1>6. Topology # "single_mic" => ReferencePushed \in Int
  BY <1>4, PathAssumption DEF ReferencePushed, Capturer, Mic
<1>7. ReferenceTaken \in Int
  BY <1>3 DEF ReferenceTaken
<1> QED BY <1>1, <1>2, <1>3, <1>5, <1>6, <1>7

\* A capture thread's step preserves the accounting.
LEMMA CaptureAccounts ==
  ASSUME TypeOK, AccountInv, NEW t \in Capturer, Capture(t)
  PROVE  AccountInv'
<1>1. CASE Read(t) \/ Xrun(t) \/ RecordFrames(t) \/ UpdateDrift(t)
  <2>1. /\ UNCHANGED <<session, frame_index, rings, processing, local, ghost, output>>
        /\ PrimaryPushed' = PrimaryPushed
    BY <1>1, CountsKept
  <2>2. ReferencePushed' = ReferencePushed /\ ReferenceTaken' = ReferenceTaken
    BY <2>1 DEF ReferencePushed, ReferenceTaken, ghost
  <2> QED
    BY <2>1, <2>2 DEF AccountInv, PrimaryInv, ReferenceInv, PlaybackInv, Near, rings, local,
       ghost, output
<1>2. CASE PushChunk(t)
  <2> DEFINE m == MicsOf(t)[nth[t]]
  <2>1. /\ m \in Mic
        /\ m = "reference" => Topology # "single_mic"
        /\ PrimaryPushed' = PrimaryPushed + (IF m = "primary" THEN 1 ELSE 0)
        /\ Topology # "single_mic" =>
             ReferencePushed' = ReferencePushed + (IF m = "reference" THEN 1 ELSE 0)
    BY <1>2, PushCounts
  <2>2. PICK c \in Chunk :
          /\ Push(m, c)
          /\ c.index = IF m = "primary" THEN PrimaryPushed ELSE ReferencePushed
    BY <1>2, PushCounts
  <2>3. UNCHANGED <<session, processing, local, ghost, output>>
    BY <1>2 DEF PushChunk, device
  <2> HIDE DEF m
  <2>4. /\ m \in Ring /\ RingTypes
        /\ \A q \in Ring \ {m} : ring'[q] = ring[q] /\ overflow_count'[q] = overflow_count[q]
        /\ Len(ring'[m]) + overflow_count'[m] = Len(ring[m]) + overflow_count[m] + 1
        /\ overflow_count'[m] >= overflow_count[m]
        /\ overflow_count'[m] \in Nat /\ Len(ring'[m]) \in Nat
    <3>1. m \in Ring /\ RingTypes
      BY <2>1, CountTypes DEF Ring
    <3>2. ring' \in [Ring -> Seq(Chunk)] /\ overflow_count' \in [Ring -> Nat]
      BY <2>2, <3>1, PushFacts DEF RingTypes
    <3>3. ring'[m] \in Seq(Chunk)
      BY <3>1, <3>2
    <3> QED BY <2>2, <3>1, <3>2, <3>3, PushFacts DEF RingTypes
  <2>5. PlaybackInv'
    <3>1. "playback" \in Ring \ {m}
      BY <2>1 DEF Ring, Mic
    <3> QED BY <2>3, <2>4, <3>1 DEF AccountInv, PlaybackInv, local, ghost, output
  <2>6. PrimaryInv'
    <3> SUFFICES ASSUME session = 0 PROVE PrimaryInv'
      BY <2>3 DEF PrimaryInv
    <3>0. /\ PrimaryPushed = fused + Len(ring["primary"]) + overflow_count["primary"]
          /\ Near(ring["primary"], fused, overflow_count["primary"])
          /\ processing # "poll" =>
               primary_chunk.index \in (fused - 1)..(fused - 1 + overflow_count["primary"])
      BY DEF AccountInv, PrimaryInv
    <3>1. CASE m = "primary"
      <4>0. /\ Push("primary", c) /\ "primary" \in Ring /\ RingTypes /\ c \in Chunk
            /\ c.index = PrimaryPushed
            /\ PrimaryPushed' = PrimaryPushed + 1
            /\ Len(ring'["primary"]) + overflow_count'["primary"]
                 = Len(ring["primary"]) + overflow_count["primary"] + 1
            /\ overflow_count'["primary"] >= overflow_count["primary"]
            /\ overflow_count'["primary"] \in Nat /\ Len(ring'["primary"]) \in Nat
        BY <2>1, <2>2, <2>4, <3>1
      <4>a. overflow_count["primary"] \in Nat /\ Len(ring["primary"]) \in Nat /\ fused \in Int
        BY <4>0, CountTypes
      <4>1. Near(ring'["primary"], fused, overflow_count'["primary"])
        <5>1. c.index = fused + Len(ring["primary"]) + overflow_count["primary"]
          BY <3>0, <4>0
        <5> QED BY <3>0, <4>0, <4>a, <5>1, NearPush
      <4>2. PrimaryPushed' = fused + Len(ring'["primary"]) + overflow_count'["primary"]
        <5> DEFINE a == Len(ring["primary"])  b == overflow_count["primary"]
                   p == Len(ring'["primary"])  q == overflow_count'["primary"]
        <5>1. /\ PrimaryPushed = fused + a + b /\ PrimaryPushed' = PrimaryPushed + 1
              /\ p + q = a + b + 1 /\ fused \in Int
              /\ a \in Nat /\ b \in Nat /\ p \in Nat /\ q \in Nat
          BY <3>0, <4>0, <4>a
        <5> HIDE DEF a, b, p, q
        <5>2. PrimaryPushed' = fused + p + q
          BY <5>1
        <5> QED BY <5>2 DEF p, q
      <4>3. processing # "poll" =>
              primary_chunk.index \in (fused - 1)..(fused - 1 + overflow_count'["primary"])
        BY <3>0, <4>0, <4>a, SMTT(30)
      <4> QED BY <2>3, <4>1, <4>2, <4>3 DEF PrimaryInv, Near, local, ghost
    <3>2. CASE m # "primary"
      <4>1. ring'["primary"] = ring["primary"]
            /\ overflow_count'["primary"] = overflow_count["primary"]
        BY <2>4, <3>2, CountTypes
      <4>2. PrimaryPushed' = PrimaryPushed
        BY <2>1, <3>2, CountTypes
      <4> QED BY <2>3, <3>0, <4>1, <4>2 DEF PrimaryInv, Near, local, ghost
    <3> QED BY <3>1, <3>2
  <2>7. ReferenceInv'
    <3> SUFFICES ASSUME session = 0, Topology # "single_mic" PROVE ReferenceInv'
      BY <2>3 DEF ReferenceInv
    <3>t. ReferenceTaken' = ReferenceTaken
      BY <2>3 DEF ReferenceTaken, ghost
    <3>0. /\ ReferencePushed
               = ReferenceTaken + Len(ring["reference"]) + overflow_count["reference"]
          /\ Near(ring["reference"], ReferenceTaken, overflow_count["reference"])
          /\ (processing \in {"drift", "push"} /\ has_ref) =>
               reference_chunk.index
                 \in (ReferenceTaken - 1)..(ReferenceTaken - 1 + overflow_count["reference"])
      BY DEF AccountInv, ReferenceInv
    <3>1. CASE m = "reference"
      <4>0. /\ Push("reference", c) /\ "reference" \in Ring /\ RingTypes /\ c \in Chunk
            /\ c.index = ReferencePushed
            /\ ReferencePushed' = ReferencePushed + 1
            /\ Len(ring'["reference"]) + overflow_count'["reference"]
                 = Len(ring["reference"]) + overflow_count["reference"] + 1
            /\ overflow_count'["reference"] >= overflow_count["reference"]
            /\ overflow_count'["reference"] \in Nat /\ Len(ring'["reference"]) \in Nat
        BY <2>1, <2>2, <2>4, <3>1
      <4>a. overflow_count["reference"] \in Nat /\ Len(ring["reference"]) \in Nat /\ ReferenceTaken \in Int
        BY <4>0, CountTypes
      <4>1. Near(ring'["reference"], ReferenceTaken, overflow_count'["reference"])
        <5>1. c.index = ReferenceTaken + Len(ring["reference"]) + overflow_count["reference"]
          BY <3>0, <4>0
        <5> QED BY <3>0, <4>0, <4>a, <5>1, NearPush
      <4>2. ReferencePushed'
              = ReferenceTaken + Len(ring'["reference"]) + overflow_count'["reference"]
        <5> DEFINE a == Len(ring["reference"])  b == overflow_count["reference"]
                   p == Len(ring'["reference"])  q == overflow_count'["reference"]
        <5>1. /\ ReferencePushed = ReferenceTaken + a + b /\ ReferencePushed' = ReferencePushed + 1
              /\ p + q = a + b + 1 /\ ReferenceTaken \in Int
              /\ a \in Nat /\ b \in Nat /\ p \in Nat /\ q \in Nat
          BY <3>0, <4>0, <4>a
        <5> HIDE DEF a, b, p, q
        <5>2. ReferencePushed' = ReferenceTaken + p + q
          BY <5>1
        <5> QED BY <5>2 DEF p, q
      <4>3. (processing \in {"drift", "push"} /\ has_ref) =>
              reference_chunk.index
                \in (ReferenceTaken - 1)..(ReferenceTaken - 1 + overflow_count'["reference"])
        BY <3>0, <4>0, <4>a, SMTT(30)
      <4> QED BY <2>3, <3>t, <4>1, <4>2, <4>3 DEF ReferenceInv, Near, local
    <3>2. CASE m # "reference"
      <4>1. ring'["reference"] = ring["reference"]
            /\ overflow_count'["reference"] = overflow_count["reference"]
        BY <2>4, <3>2, CountTypes
      <4>2. ReferencePushed' = ReferencePushed
        BY <2>1, <3>2, CountTypes
      <4> QED BY <2>3, <3>t, <3>0, <4>1, <4>2 DEF ReferenceInv, Near, local
    <3> QED BY <3>1, <3>2
  <2> QED BY <2>5, <2>6, <2>7 DEF AccountInv
<1> QED BY <1>1, <1>2 DEF Capture

\* Unless its queue, its counts or the chunk in hand change, a clause of the
\* accounting is kept.
LEMMA PrimaryKept ==
  ASSUME TypeOK, PrimaryInv, UNCHANGED <<session, frame_index, at, nth, fused, primary_chunk>>,
         ring'["primary"] = ring["primary"],
         overflow_count'["primary"] = overflow_count["primary"],
         processing' # "poll" => processing # "poll"
  PROVE  PrimaryInv'
<1>1. PrimaryPushed' = PrimaryPushed
  BY DEF PrimaryPushed
<1> QED BY <1>1 DEF PrimaryInv, Near

LEMMA ReferenceKept ==
  ASSUME TypeOK, ReferenceInv, UNCHANGED <<session, frame_index>>,
         ReferenceTaken' = ReferenceTaken,
         ring'["reference"] = ring["reference"],
         overflow_count'["reference"] = overflow_count["reference"],
         (processing' \in {"drift", "push"} /\ has_ref')
           => /\ processing \in {"drift", "push"} /\ has_ref
              /\ UNCHANGED reference_chunk
  PROVE  ReferenceInv'
<1>1. ReferencePushed' = ReferencePushed
  BY DEF ReferencePushed
<1> QED BY <1>1 DEF ReferenceInv, Near

\* A step of the processing or the playback thread preserves the accounting.
LEMMA ProcessAccounts ==
  ASSUME TypeOK, AccountInv, Process \/ Play
  PROVE  AccountInv'
<1>t. /\ RingTypes /\ ring \in [Ring -> Seq(Chunk)]
      /\ "primary" \in Ring /\ "reference" \in Ring /\ "playback" \in Ring
      /\ fused \in Nat /\ misses \in Nat /\ played \in Nat
      /\ \A r \in Ring : Len(ring[r]) <= Capacity
  BY CountTypes DEF RingTypes
<1>i. PrimaryInv /\ ReferenceInv /\ PlaybackInv
  BY DEF AccountInv
<1>1. CASE PopPrimary
  <2>1. /\ processing = "poll" /\ processing' = "reference" /\ fused' = fused + 1
        /\ UNCHANGED <<session, frame_index, at, nth, misses, played, reference_chunk, has_ref>>
        /\ primary_chunk' = Head(ring["primary"])
        /\ ring["primary"] # <<>> /\ Dequeue("primary")
    BY <1>1 DEF PopPrimary, device, capture, output
  <2>2. /\ overflow_count' = overflow_count
        /\ ring'["reference"] = ring["reference"] /\ ring'["playback"] = ring["playback"]
        /\ Len(ring'["primary"]) = Len(ring["primary"]) - 1
    BY <1>t, <2>1, DequeueFacts
  <2>3. PrimaryInv'
    <3> SUFFICES ASSUME session = 0 PROVE PrimaryInv'
      BY <2>1 DEF PrimaryInv
    <3>0. /\ PrimaryPushed = fused + Len(ring["primary"]) + overflow_count["primary"]
          /\ Near(ring["primary"], fused, overflow_count["primary"])
      BY <1>i DEF PrimaryInv
    <3>1. PrimaryPushed' = PrimaryPushed
      BY <2>1 DEF PrimaryPushed
    <3>2. /\ Near(ring'["primary"], fused + 1, overflow_count'["primary"])
          /\ primary_chunk'.index \in fused..(fused + overflow_count["primary"])
      BY <1>t, <2>1, <3>0, NearDequeue
    <3>3. PrimaryPushed' = fused' + Len(ring'["primary"]) + overflow_count'["primary"]
      <4> DEFINE a == Len(ring["primary"])  b == overflow_count["primary"]
                 p == Len(ring'["primary"])
      <4>1. /\ PrimaryPushed = fused + a + b /\ p = a - 1
            /\ a \in Nat /\ b \in Nat /\ fused \in Nat
        BY <1>t, <2>2, <3>0, CountTypes
      <4> HIDE DEF a, b, p
      <4>2. PrimaryPushed = (fused + 1) + p + b
        BY <4>1
      <4> QED BY <2>1, <2>2, <3>1, <4>2 DEF b, p
    <3>4. Near(ring'["primary"], fused', overflow_count'["primary"])
      BY <2>1, <3>2
    <3>5. primary_chunk'.index \in (fused' - 1)..(fused' - 1 + overflow_count'["primary"])
      <4>1. fused' - 1 = fused
        BY <1>t, <2>1
      <4> QED BY <2>2, <3>2, <4>1
    <3> QED BY <3>3, <3>4, <3>5 DEF PrimaryInv, Near
  <2>4. ReferenceInv'
    <3>1. ReferenceTaken' = ReferenceTaken
      BY <1>t, <2>1 DEF ReferenceTaken
    <3> QED BY <1>i, <2>1, <2>2, <3>1, ReferenceKept
  <2>5. PlaybackInv'
    <3>1. Len(ring["playback"]) \in Nat /\ overflow_count["playback"] \in Nat
      BY <1>t, CountTypes
    <3> QED BY <1>t, <1>i, <2>1, <2>2, <3>1 DEF PlaybackInv
  <2> QED BY <2>3, <2>4, <2>5 DEF AccountInv
<1>2. CASE PopReference
  <2>1. /\ processing = "reference" /\ processing' = "drift"
        /\ UNCHANGED <<session, frame_index, at, nth, fused, played, primary_chunk>>
        /\ has_ref' => Topology # "single_mic"
    BY <1>2 DEF PopReference, device, capture, output
  <2>2. CASE has_ref'
    <3>1. /\ ring["reference"] # <<>> /\ Dequeue("reference") /\ UNCHANGED misses
          /\ reference_chunk' = Head(ring["reference"])
      BY <1>2, <2>2 DEF PopReference
    <3>2. /\ overflow_count' = overflow_count
          /\ ring'["primary"] = ring["primary"] /\ ring'["playback"] = ring["playback"]
          /\ Len(ring'["reference"]) = Len(ring["reference"]) - 1
      BY <1>t, <3>1, DequeueFacts
    <3>3. ReferenceTaken' = ReferenceTaken + 1 /\ ReferenceTaken \in Int
      BY <1>t, <2>1, <3>1 DEF ReferenceTaken
    <3>4. ReferenceInv'
      <4> SUFFICES ASSUME session = 0, Topology # "single_mic" PROVE ReferenceInv'
        BY <2>1 DEF ReferenceInv
      <4>0. /\ ReferencePushed
                 = ReferenceTaken + Len(ring["reference"]) + overflow_count["reference"]
            /\ Near(ring["reference"], ReferenceTaken, overflow_count["reference"])
        BY <1>i DEF ReferenceInv
      <4>1. ReferencePushed' = ReferencePushed
        BY <2>1 DEF ReferencePushed
      <4>2. /\ Near(ring'["reference"], ReferenceTaken + 1, overflow_count'["reference"])
            /\ reference_chunk'.index
                 \in ReferenceTaken..(ReferenceTaken + overflow_count["reference"])
        BY <1>t, <3>1, <3>3, <4>0, NearDequeue
      <4>3. ReferencePushed'
              = ReferenceTaken' + Len(ring'["reference"]) + overflow_count'["reference"]
        <5> DEFINE a == Len(ring["reference"])  b == overflow_count["reference"]
                   p == Len(ring'["reference"])
        <5>1. /\ ReferencePushed = ReferenceTaken + a + b /\ p = a - 1
              /\ a \in Nat /\ b \in Nat
          BY <1>t, <3>2, <4>0, CountTypes
        <5> HIDE DEF a, b, p
        <5>2. ReferencePushed = (ReferenceTaken + 1) + p + b
          BY <3>3, <5>1
        <5> QED BY <3>2, <3>3, <4>1, <5>2 DEF b, p
      <4>4. Near(ring'["reference"], ReferenceTaken', overflow_count'["reference"])
        BY <3>3, <4>2
      <4>5. reference_chunk'.index
              \in (ReferenceTaken' - 1)..(ReferenceTaken' - 1 + overflow_count'["reference"])
        <5>1. ReferenceTaken' - 1 = ReferenceTaken
          BY <3>3
        <5> QED BY <3>2, <4>2, <5>1
      <4> QED BY <4>3, <4>4, <4>5 DEF ReferenceInv, Near
    <3>5. PrimaryInv'
      BY <1>i, <2>1, <3>2, PrimaryKept
    <3>6. PlaybackInv'
      BY <1>i, <2>1, <3>2 DEF PlaybackInv
    <3> QED BY <3>4, <3>5, <3>6 DEF AccountInv
  <2>3. CASE ~has_ref'
    <3>1. misses' = misses + 1 /\ UNCHANGED <<ring, overflow_count>>
      BY <1>2, <2>3 DEF PopReference, rings
    <3>2. ReferenceTaken' = ReferenceTaken
      BY <1>t, <2>1, <3>1 DEF ReferenceTaken
    <3>3. ReferenceInv'
      BY <1>i, <2>1, <2>3, <3>1, <3>2, ReferenceKept
    <3>4. PrimaryInv'
      BY <1>i, <2>1, <3>1, PrimaryKept
    <3>5. PlaybackInv'
      BY <1>i, <2>1, <2>3, <3>1 DEF PlaybackInv
    <3> QED BY <3>3, <3>4, <3>5 DEF AccountInv
  <2> QED BY <2>2, <2>3
<1>3. CASE CheckDrift
  <2>1. /\ processing = "drift" /\ processing' = "push"
        /\ UNCHANGED <<session, frame_index, at, nth, ring, overflow_count, fused, misses,
                       played, primary_chunk, reference_chunk, has_ref>>
    BY <1>3 DEF CheckDrift, device, capture, rings, ghost, output
  <2>2. ReferenceTaken' = ReferenceTaken
    BY <2>1 DEF ReferenceTaken
  <2>3. PlaybackInv'
    BY <1>i, <2>1 DEF PlaybackInv
  <2> QED BY <1>i, <2>1, <2>2, <2>3, PrimaryKept, ReferenceKept DEF AccountInv
<1>4. CASE PushPlayback
  <2> DEFINE c == [primary_chunk EXCEPT !.count = Taken(primary_chunk)]
  <2>1. /\ processing = "push" /\ processing' = "poll" /\ Push("playback", c)
        /\ UNCHANGED <<session, frame_index, at, nth, fused, misses, played, primary_chunk>>
    BY <1>4 DEF PushPlayback, device, capture, local, ghost, output
  <2>2. c \in Chunk
    BY TakenFacts DEF TypeOK, ProcessTypes
  <2> HIDE DEF c
  <2>3. /\ ring'["primary"] = ring["primary"] /\ ring'["reference"] = ring["reference"]
        /\ overflow_count'["primary"] = overflow_count["primary"]
        /\ overflow_count'["reference"] = overflow_count["reference"]
        /\ Len(ring'["playback"]) + overflow_count'["playback"]
             = Len(ring["playback"]) + overflow_count["playback"] + 1
        /\ ring' \in [Ring -> Seq(Chunk)] /\ overflow_count' \in [Ring -> Nat]
    BY <1>t, <2>1, <2>2, PushFacts, SMTT(30) DEF RingTypes
  <2>4. ReferenceTaken' = ReferenceTaken
    BY <2>1 DEF ReferenceTaken
  <2>5. PlaybackInv'
    <3> DEFINE a == Len(ring["playback"])  b == overflow_count["playback"]
               p == Len(ring'["playback"])  q == overflow_count'["playback"]
    <3>0. ring'["playback"] \in Seq(Chunk)
      BY <1>t, <2>3
    <3>1. /\ fused = played + a + b + 1 /\ p + q = a + b + 1
          /\ a \in Nat /\ b \in Nat /\ p \in Nat /\ q \in Nat
      BY <1>t, <1>i, <2>1, <2>3, <3>0, CountTypes DEF PlaybackInv
    <3> HIDE DEF a, b, p, q
    <3>2. fused = played + p + q + 0
      BY <1>t, <3>1
    <3> QED BY <2>1, <3>2 DEF PlaybackInv, p, q
  <2> QED BY <1>i, <2>1, <2>3, <2>4, <2>5, PrimaryKept, ReferenceKept DEF AccountInv
<1>5. CASE Play
  <2>1. /\ played' = played + 1 /\ ring["playback"] # <<>> /\ Dequeue("playback")
        /\ UNCHANGED <<session, frame_index, at, nth, processing, fused, misses,
                       primary_chunk, reference_chunk, has_ref>>
    BY <1>5 DEF Play, device, capture, local, ghost
  <2>2. /\ overflow_count' = overflow_count
        /\ ring'["primary"] = ring["primary"] /\ ring'["reference"] = ring["reference"]
        /\ Len(ring'["playback"]) = Len(ring["playback"]) - 1
    BY <1>t, <2>1, DequeueFacts
  <2>3. ReferenceTaken' = ReferenceTaken
    BY <2>1 DEF ReferenceTaken
  <2>4. PlaybackInv'
    <3> DEFINE a == Len(ring["playback"])  b == overflow_count["playback"]
               p == Len(ring'["playback"])  h == IF processing = "poll" THEN 0 ELSE 1
    <3>1. /\ fused = played + a + b + h /\ p = a - 1
          /\ a \in Nat /\ b \in Nat /\ h \in Nat
      BY <1>t, <1>i, <2>2, CountTypes DEF PlaybackInv
    <3> HIDE DEF a, b, p, h
    <3>2. fused = (played + 1) + p + b + h
      BY <1>t, <3>1
    <3> QED BY <1>i, <2>1, <2>2, <3>2 DEF PlaybackInv, b, p, h
  <2> QED BY <1>i, <2>1, <2>2, <2>3, <2>4, PrimaryKept, ReferenceKept DEF AccountInv
<1> QED BY <1>1, <1>2, <1>3, <1>4, <1>5 DEF Process

\* The accounting, and the types it is stated over, hold in every state.
LEMMA Accounts == Spec => [](TypeOK /\ AccountInv)
<1>1. Init => AccountInv
  <2> SUFFICES ASSUME Init PROVE AccountInv
    OBVIOUS
  <2>1. /\ session = 0 /\ processing = "poll" /\ has_ref = FALSE
        /\ fused = 0 /\ misses = 0 /\ played = 0
        /\ \A r \in Ring : ring[r] = <<>> /\ Len(ring[r]) = 0 /\ overflow_count[r] = 0
        /\ \A t \in Capturer : frame_index[t] = 0 /\ at[t] = "read"
    BY DEF Init
  <2>2. {"primary", "reference", "playback"} \subseteq Ring /\ "primary" \in Capturer
    BY DEF Ring, Mic, Capturer
  <2>3. Topology = "separate" => "reference" \in Capturer
    BY DEF Capturer, Mic
  <2>4. PrimaryPushed = 0 /\ ReferencePushed = 0 /\ ReferenceTaken = 0
    BY <2>1, <2>2, <2>3 DEF PrimaryPushed, ReferencePushed, ReferenceTaken
  <2>5. \A r \in Ring, n \in Int : Near(ring[r], n, 0)
    BY <2>1 DEF Near
  <2> QED BY <2>1, <2>2, <2>4, <2>5 DEF AccountInv, PrimaryInv, ReferenceInv, PlaybackInv
<1>2. TypeOK /\ TypeOK' /\ AccountInv /\ [Next]_vars => AccountInv'
  <2> SUFFICES ASSUME TypeOK, TypeOK', AccountInv, [Next]_vars PROVE AccountInv'
    OBVIOUS
  <2>1. CASE Restart
    <3>1. session' = session + 1 /\ session \in Nat
      BY <2>1 DEF Restart, TypeOK, CaptureTypes
    <3>2. session' # 0
      BY <3>1
    <3>3. PlaybackInv'
      BY <2>1 DEF Restart, AccountInv, PlaybackInv, rings, ghost, output
    <3> QED BY <3>2, <3>3 DEF AccountInv, PrimaryInv, ReferenceInv
  <2>2. CASE UNCHANGED vars
    <3>1. UNCHANGED <<PrimaryPushed, ReferencePushed, ReferenceTaken>>
      BY <2>2 DEF vars, PrimaryPushed, ReferencePushed, ReferenceTaken
    <3> QED
      BY <2>2, <3>1 DEF vars, AccountInv, PrimaryInv, ReferenceInv, PlaybackInv, Near
  <2> QED BY <2>1, <2>2, CaptureAccounts, ProcessAccounts DEF Next
<1> QED BY <1>1, <1>2, TypeCorrect, PTL DEF Spec

\* Nothing disappears unaccounted: every chunk the capture threads read is
\* refused and counted, queued, or taken, and every chunk taken is refused and
\* counted, queued, in the processing thread's hands or heard.
THEOREM NothingLost == Spec => []NothingLostSilently
<1>1. TypeOK /\ AccountInv => NothingLostSilently
  <2> SUFFICES ASSUME TypeOK, AccountInv PROVE NothingLostSilently
    OBVIOUS
  <2>1. ASSUME session = 0, at["primary"] # "push"
        PROVE  frame_index["primary"]
                 = fused + Len(ring["primary"]) + overflow_count["primary"]
    <3>1. frame_index["primary"] \in Nat
      BY PathAssumption DEF TypeOK, CaptureTypes, Capturer, Mic
    <3>2. PrimaryPushed = frame_index["primary"]
      BY <2>1, <3>1 DEF PrimaryPushed
    <3> QED BY <2>1, <3>2 DEF AccountInv, PrimaryInv
  <2> QED BY <2>1 DEF NothingLostSilently, AccountInv, PlaybackInv
<1> QED BY <1>1, Accounts, PTL

\* The reference chunk paired with a primary chunk lags it by the primary chunks
\* ever taken alone, give or take the refused chunks of the two microphones.
THEOREM SkewBounded == Spec => []SkewExplained
<1>1. TypeOK /\ AccountInv => SkewExplained
  <2> SUFFICES ASSUME TypeOK, AccountInv, session = 0, has_ref,
                      processing \in {"drift", "push"}
               PROVE  primary_chunk.index - reference_chunk.index
                        \in (misses - overflow_count["reference"])
                              ..(misses + overflow_count["primary"])
    BY DEF SkewExplained
  <2> DEFINE p == primary_chunk.index  r == reference_chunk.index
             a == overflow_count["primary"]  b == overflow_count["reference"]
  <2>1. Topology # "single_mic"
    BY DEF AccountInv, PlaybackInv
  <2>2. ReferenceTaken = fused - misses /\ fused \in Nat /\ misses \in Nat
    BY DEF ReferenceTaken, TypeOK, ProcessTypes
  <2>3. a \in Nat /\ b \in Nat
    BY CountTypes
  <2>4. p \in (fused - 1)..(fused - 1 + a)
    BY DEF AccountInv, PrimaryInv
  <2>5. r \in (ReferenceTaken - 1)..(ReferenceTaken - 1 + b)
    BY <2>1 DEF AccountInv, ReferenceInv
  <2> HIDE DEF p, r, a, b
  <2>6. p - r \in (misses - b)..(misses + a)
    BY <2>2, <2>3, <2>4, <2>5
  <2> QED BY <2>6 DEF p, r, a, b
<1> QED BY <1>1, Accounts, PTL

------------------------------------------------------------------------------
\* How far the counters of one device with both microphones are apart: a period,
\* once the primary's is recorded and until the reference's is.
Ahead ==
  IF (at["primary"] = "record" /\ nth["primary"] = 2)
       \/ (at["primary"] = "update" /\ nth["primary"] = 1)
    THEN Period ELSE 0

\* Its only recorder has seen the counters as they still are.
DriftInv ==
  Topology = "multichannel" =>
    /\ D!Drift = Ahead
    /\ step["primary"] = "load_reference" => seen["primary"] = frames["primary"]
    /\ step["primary"] = "store" => seen["primary"] = D!Drift
    /\ step["primary"] = "idle" => (warning <=> D!Distance(D!Drift) > MaxDrift)
    /\ Period <= MaxDrift => ~warning

\* Either distance of a multichannel device, and how the tolerance judges it.
LEMMA AheadFacts ==
  /\ Ahead \in {0, Period}
  /\ D!Distance(Ahead) = Ahead
  /\ Period <= MaxDrift => ~(D!Distance(Ahead) > MaxDrift)
<1>1. Ahead \in {0, Period}
  BY DEF Ahead
<1> QED BY <1>1, PathAssumption DEF D!Distance

\* A step that is none of the detector's own keeps the relation.
LEMMA DriftKept ==
  ASSUME DriftInv, UNCHANGED drift, Topology = "multichannel" => Ahead' = Ahead
  PROVE  DriftInv'
BY DEF DriftInv, drift, D!Drift, D!Distance

\* A record call and the update of the warning after it, on one device.
LEMMA DriftRecorded ==
  ASSUME TypeOK, TypeOK', DriftInv, NEW t \in Capturer, RecordFrames(t) \/ UpdateDrift(t)
  PROVE  DriftInv'
<1> SUFFICES ASSUME Topology = "multichannel" PROVE DriftInv'
  BY DEF DriftInv
<1>0. t = "primary" /\ Capturer = {"primary"} /\ MicsOf(t) = <<"primary", "reference">>
  BY DEF Capturer, MicsOf
<1>1. /\ nth["primary"] \in 1..2 /\ Len(MicsOf(t)) = 2
      /\ at \in [Capturer -> {"read", "push", "record", "update"}]
      /\ nth \in [Capturer -> 1..2]
      /\ frames \in [Mic -> Nat] /\ seen \in [Capturer -> Int] /\ warning \in BOOLEAN
      /\ step \in [Capturer -> {"idle", "load_primary", "load_reference", "store"}]
  BY <1>0 DEF TypeOK, CaptureTypes, D!TypeOK, D!Mic, Mic
<1>2. /\ D!Drift = Ahead /\ (Period <= MaxDrift => ~warning)
      /\ step["primary"] = "load_reference" => seen["primary"] = frames["primary"]
      /\ step["primary"] = "store" => seen["primary"] = D!Drift
      /\ step["primary"] = "idle" => (warning <=> D!Distance(D!Drift) > MaxDrift)
  BY DEF DriftInv
<1>3. CASE RecordFrames(t)
  <2>1. /\ at["primary"] = "record" /\ step["primary"] = "idle"
        /\ frames' = [frames EXCEPT ![MicsOf(t)[nth[t]]] = @ + Period]
        /\ step' = [step EXCEPT ![t] = "load_primary"]
        /\ at' = [at EXCEPT ![t] = "update"] /\ nth' = [nth EXCEPT ![t] = nth[t]]
        /\ UNCHANGED <<warning, seen>>
    BY <1>3, <1>0 DEF RecordFrames, D!Record, Goto
  <2>2. at'["primary"] = "update" /\ nth'["primary"] = nth["primary"]
        /\ step'["primary"] = "load_primary"
    BY <1>0, <1>1, <2>1
  <2>3. D!Drift' = Ahead'
    <3>1. CASE nth["primary"] = 1
      <4>1. D!Drift = 0 /\ Ahead' = Period
        BY <1>2, <2>1, <2>2, <3>1 DEF Ahead
      <4>2. frames' = [frames EXCEPT !["primary"] = @ + Period]
        BY <1>0, <2>1, <3>1
      <4>3. D!Drift' = D!Drift + Period
        BY <1>1, <4>2, PathAssumption DEF D!Drift, Mic
      <4> QED BY <4>1, <4>3, PathAssumption
    <3>2. CASE nth["primary"] = 2
      <4>1. D!Drift = Period /\ Ahead' = 0
        BY <1>2, <2>1, <2>2, <3>2 DEF Ahead
      <4>2. frames' = [frames EXCEPT !["reference"] = @ + Period]
        BY <1>0, <2>1, <3>2
      <4>3. D!Drift' = D!Drift - Period
        BY <1>1, <4>2, PathAssumption DEF D!Drift, Mic
      <4> QED BY <4>1, <4>3, PathAssumption
    <3> QED BY <1>1, <3>1, <3>2
  <2> QED BY <1>2, <2>1, <2>2, <2>3 DEF DriftInv
<1>4. CASE UpdateDrift(t)
  <2>0. at["primary"] = "update" /\ frames' = frames /\ D!Drift' = D!Drift
    BY <1>0, <1>4 DEF UpdateDrift, D!Update, D!LoadPrimary, D!LoadReference, D!Store, D!Drift
  <2>1. CASE D!LoadPrimary(t) \/ D!LoadReference(t)
    <3>1. step'["primary"] \in {"load_reference", "store"}
      BY <1>0, <1>1, <2>1 DEF D!LoadPrimary, D!LoadReference
    <3>2. UNCHANGED <<at, nth>>
      BY <1>0, <1>4, <3>1 DEF UpdateDrift
    <3>3. Ahead' = Ahead
      BY <3>2 DEF Ahead
    <3>4. /\ step'["primary"] = "load_reference" => seen'["primary"] = frames["primary"]
          /\ step'["primary"] = "store" => seen'["primary"] = D!Drift
          /\ warning' = warning
      BY <1>0, <1>1, <1>2, <2>1 DEF D!LoadPrimary, D!LoadReference, D!Drift, Mic
    <3> QED BY <1>2, <2>0, <3>1, <3>3, <3>4 DEF DriftInv
  <2>2. CASE D!Store(t)
    <3>1. /\ warning' = (D!Distance(seen["primary"]) > MaxDrift) /\ step'["primary"] = "idle"
          /\ seen["primary"] = Ahead
      BY <1>0, <1>1, <1>2, <2>2 DEF D!Store
    <3>2. Ahead' = Ahead
      <4>1. CASE nth["primary"] = 1
        <5>1. Goto(t, "record", 2)
          BY <1>0, <1>1, <1>4, <3>1, <4>1, SMTT(60) DEF UpdateDrift
        <5> QED BY <1>0, <1>1, <2>0, <4>1, <5>1 DEF Goto, Ahead
      <4>2. CASE nth["primary"] = 2
        <5>1. Goto(t, "read", 1)
          BY <1>0, <1>1, <1>4, <3>1, <4>2, SMTT(60) DEF UpdateDrift
        <5> QED BY <1>0, <1>1, <2>0, <4>2, <5>1 DEF Goto, Ahead
      <4> QED BY <1>1, <4>1, <4>2
    <3>3. warning' <=> D!Distance(D!Drift') > MaxDrift
      BY <1>2, <2>0, <3>1
    <3>4. Period <= MaxDrift => ~warning'
      BY <3>1, AheadFacts
    <3> QED BY <1>2, <2>0, <3>1, <3>2, <3>3, <3>4 DEF DriftInv
  <2> QED BY <1>4, <2>1, <2>2 DEF UpdateDrift, D!Update
<1> QED BY <1>3, <1>4

\* The relation holds in every state.
LEMMA DriftKnown == Spec => [](TypeOK /\ DriftInv)
<1>1. Init => DriftInv
  <2> SUFFICES ASSUME Init, Topology = "multichannel" PROVE DriftInv
    BY DEF DriftInv
  <2>1. Capturer = {"primary"}
    BY DEF Capturer
  <2>2. /\ frames = [m \in Mic |-> 0] /\ warning = FALSE
        /\ step["primary"] = "idle" /\ at["primary"] = "read"
    BY <2>1 DEF Init, D!Init, D!Mic, Mic
  <2>3. D!Drift = 0 /\ Ahead = 0
    BY <2>2 DEF D!Drift, Ahead, Mic
  <2>4. ~(D!Distance(0) > MaxDrift)
    BY PathAssumption DEF D!Distance
  <2> QED BY <2>2, <2>3, <2>4 DEF DriftInv
<1>2. TypeOK /\ TypeOK' /\ DriftInv /\ [Next]_vars => DriftInv'
  <2> SUFFICES ASSUME TypeOK, TypeOK', DriftInv, [Next]_vars PROVE DriftInv'
    OBVIOUS
  <2>1. ASSUME NEW t \in Capturer, Read(t) \/ Xrun(t) \/ PushChunk(t) PROVE DriftInv'
    <3>1. UNCHANGED drift
      BY <2>1 DEF Read, Xrun, PushChunk
    <3>2. Topology = "multichannel" => Ahead' = Ahead
      <4> SUFFICES ASSUME Topology = "multichannel" PROVE Ahead' = Ahead
        OBVIOUS
      <4>1. t = "primary" /\ Capturer = {"primary"} /\ MicsOf(t) = <<"primary", "reference">>
        BY DEF Capturer, MicsOf
      <4>2. at \in [Capturer -> {"read", "push", "record", "update"}] /\ nth \in [Capturer -> 1..2]
        BY DEF TypeOK, CaptureTypes
      <4>3. CASE Read(t)
        BY <4>1, <4>2, <4>3 DEF Read, Elapse, Goto, Ahead
      <4>4. CASE Xrun(t)
        BY <4>4 DEF Xrun, capture, Ahead
      <4>5. CASE PushChunk(t)
        <5>1. \/ Goto(t, "push", nth[t] + 1) \/ Goto(t, "record", 1)
          BY <4>5 DEF PushChunk
        <5>2. at["primary"] = "push"
          BY <4>1, <4>5 DEF PushChunk
        <5> QED BY <4>1, <4>2, <5>1, <5>2 DEF Goto, Ahead
      <4> QED BY <2>1, <4>3, <4>4, <4>5
    <3> QED BY <3>1, <3>2, DriftKept
  <2>2. ASSUME Process \/ Play \/ Restart \/ UNCHANGED vars PROVE DriftInv'
    <3>1. UNCHANGED <<drift, at, nth>>
      BY <2>2 DEF Process, PopPrimary, PopReference, CheckDrift, PushPlayback, Play, Restart,
         capture, vars, drift
    <3>2. Ahead' = Ahead
      BY <3>1 DEF Ahead
    <3> QED BY <3>1, <3>2, DriftKept
  <2> QED BY <2>1, <2>2, DriftRecorded DEF Next, Capture
<1> QED BY <1>1, <1>2, TypeCorrect, PTL DEF Spec

\* Between two record calls on a device with both microphones the warning is exact.
THEOREM WarningIsExact == Spec => []WarningExact
<1>1. TypeOK /\ DriftInv => WarningExact
  <2> SUFFICES ASSUME DriftInv, Topology = "multichannel", D!Idle
               PROVE  warning <=> D!Distance(D!Drift) > MaxDrift
    BY DEF WarningExact, D!WarningExact
  <2>1. step["primary"] = "idle"
    BY DEF D!Idle, Capturer
  <2> QED BY <2>1 DEF DriftInv
<1> QED BY <1>1, DriftKnown, PTL

\* No warning ever disables the NLMS stage of such a device, if the tolerance is at
\* least a period.
THEOREM NeverSpurious == Spec => []NoSpuriousWarning
<1>1. DriftInv => NoSpuriousWarning
  BY DEF DriftInv, NoSpuriousWarning
<1> QED BY <1>1, DriftKnown, PTL

------------------------------------------------------------------------------
\* The order of the chunks on their way from the primary microphone to the ear.

\* The place of the next chunk of that microphone.
Upcoming == [session |-> session, index |-> PrimaryPushed]

Sorted(q) == \A j, k \in 1..Len(q) : j < k => Before(q[j], q[k])

\* Taken from the primary ring, and handed over by the processing thread.
Below(c) == Before(c, Upcoming) /\ \A k \in 1..Len(ring["primary"]) : Before(c, ring["primary"][k])
Out(c) == Below(c) /\ (processing # "poll" => Before(c, primary_chunk))

\* Both rings are in order, and every chunk is before all that come after it.
SortedInv ==
  /\ Sorted(ring["primary"]) /\ Sorted(ring["playback"])
  /\ \A k \in 1..Len(ring["primary"]) : Before(ring["primary"][k], Upcoming)
  /\ processing # "poll" => Below(primary_chunk)
  /\ \A k \in 1..Len(ring["playback"]) : Out(ring["playback"][k])
  /\ Out(heard) /\ \A k \in 1..Len(ring["playback"]) : Before(heard, ring["playback"][k])

LEMMA ChunkTypes ==
  ASSUME TypeOK
  PROVE  /\ ring \in [Ring -> Seq(Chunk)] /\ overflow_count \in [Ring -> Nat]
         /\ \A r \in Ring : Len(ring[r]) <= Capacity /\ Len(ring[r]) \in Nat
         /\ \A r \in Ring : \A k \in 1..Len(ring[r]) : ring[r][k] \in Chunk
         /\ {"primary", "reference", "playback"} = Ring
         /\ primary_chunk \in Chunk /\ heard \in Chunk
         /\ session \in Nat /\ PrimaryPushed \in Int
<1>1. ring \in [Ring -> Seq(Chunk)]
  BY DEF TypeOK, RingTypes
<1>2. \A r \in Ring : Len(ring[r]) \in Nat /\ \A k \in 1..Len(ring[r]) : ring[r][k] \in Chunk
  BY <1>1
<1> QED BY <1>1, <1>2, CountTypes DEF TypeOK, RingTypes, ProcessTypes, CaptureTypes, Ring, Mic

\* The next chunk's place only moves on, within a session or to the next one.
LEMMA PlaceAdvances ==
  ASSUME TypeOK, NEW c \in Chunk, Before(c, Upcoming),
         \/ session' = session /\ PrimaryPushed' \in {PrimaryPushed, PrimaryPushed + 1}
         \/ session' = session + 1
  PROVE  Before(c, Upcoming')
<1>1. c.session \in Nat /\ c.index \in Int /\ session \in Nat /\ PrimaryPushed \in Int
  BY ChunkTypes DEF Chunk
<1> QED BY <1>1 DEF Before, Upcoming

\* Where neither ring nor the chunk in hand changes.
LEMMA OrderKept ==
  ASSUME TypeOK, SortedInv, UNCHANGED heard,
         ring'["primary"] = ring["primary"], ring'["playback"] = ring["playback"],
         processing' # "poll" => processing # "poll" /\ UNCHANGED primary_chunk,
         \/ session' = session /\ PrimaryPushed' \in {PrimaryPushed, PrimaryPushed + 1}
         \/ session' = session + 1
  PROVE  SortedInv'
<1>1. \A c \in Chunk : Before(c, Upcoming) => Before(c, Upcoming')
  BY PlaceAdvances
<1>2. /\ heard \in Chunk /\ primary_chunk \in Chunk
      /\ \A k \in 1..Len(ring["primary"]) : ring["primary"][k] \in Chunk
      /\ \A k \in 1..Len(ring["playback"]) : ring["playback"][k] \in Chunk
  BY ChunkTypes
<1> QED BY <1>1, <1>2 DEF SortedInv, Sorted, Out, Below

\* The primary microphone's chunk is queued behind all others, or refused.
LEMMA PrimaryOrder ==
  ASSUME TypeOK, SortedInv, NEW c \in Chunk, Push("primary", c),
         c.session = session, c.index = PrimaryPushed, PrimaryPushed' = PrimaryPushed + 1,
         UNCHANGED <<session, processing, local, output>>
  PROVE  SortedInv'
<1>1. /\ ring'["playback"] = ring["playback"]
      /\ Len(ring["primary"]) \in Nat /\ Len(ring'["primary"]) \in Nat
      /\ \A k \in 1..Len(ring["primary"]) : ring'["primary"][k] = ring["primary"][k]
      /\ \A k \in 1..Len(ring'["primary"]) :
           k \in 1..Len(ring["primary"]) \/ (k = Len(ring["primary"]) + 1 /\ ring'["primary"][k] = c)
  <2>1. /\ "primary" \in Ring /\ "playback" \in Ring
        /\ \A q \in Ring \ {"primary"} : ring'[q] = ring[q]
        /\ \A k \in 1..Len(ring["primary"]) : ring'["primary"][k] = ring["primary"][k]
        /\ \A k \in 1..Len(ring'["primary"]) : k > Len(ring["primary"]) =>
             k = Len(ring["primary"]) + 1 /\ ring'["primary"][k] = c
        /\ ring' \in [Ring -> Seq(Chunk)]
    <3>1. /\ "primary" \in Ring /\ "playback" \in Ring
          /\ ring \in [Ring -> Seq(Chunk)] /\ overflow_count \in [Ring -> Nat]
          /\ \A r \in Ring : Len(ring[r]) <= Capacity
      BY ChunkTypes
    <3> QED BY <3>1, PushFacts, ZenonT(30)
  <2>2. Len(ring["primary"]) \in Nat /\ Len(ring'["primary"]) \in Nat
    BY <2>1, ChunkTypes
  <2> QED BY <2>1, <2>2
<1>2. \A x : Before(x, Upcoming) => Before(x, c)
  BY DEF Before, Upcoming
<1>3. \A x \in Chunk : Before(x, Upcoming) => Before(x, Upcoming')
  BY PlaceAdvances
<1>4. Before(c, Upcoming')
  <2>1. session \in Nat /\ PrimaryPushed \in Int
    BY ChunkTypes
  <2> QED BY <2>1 DEF Before, Upcoming
<1>5. /\ heard \in Chunk /\ primary_chunk \in Chunk
      /\ \A k \in 1..Len(ring["primary"]) : ring["primary"][k] \in Chunk
      /\ \A k \in 1..Len(ring["playback"]) : ring["playback"][k] \in Chunk
  BY ChunkTypes
<1>6. ASSUME NEW x \in Chunk, Below(x)
      PROVE  Before(x, Upcoming') /\ \A k \in 1..Len(ring'["primary"]) : Before(x, ring'["primary"][k])
  BY <1>1, <1>2, <1>3, <1>6 DEF Below
<1>7. Sorted(ring'["primary"])
  <2> SUFFICES ASSUME NEW j \in 1..Len(ring'["primary"]), NEW k \in 1..Len(ring'["primary"]), j < k
               PROVE  Before(ring'["primary"][j], ring'["primary"][k])
    BY DEF Sorted
  <2>1. j \in 1..Len(ring["primary"])
    BY <1>1
  <2>2. CASE k \in 1..Len(ring["primary"])
    BY <1>1, <2>1, <2>2 DEF SortedInv, Sorted
  <2>3. CASE k \notin 1..Len(ring["primary"])
    BY <1>1, <1>2, <2>1, <2>3 DEF SortedInv
  <2> QED BY <2>2, <2>3
<1>8. \A k \in 1..Len(ring'["primary"]) : Before(ring'["primary"][k], Upcoming')
  BY <1>1, <1>3, <1>4, <1>5 DEF SortedInv
<1>9. /\ processing' # "poll" => Below(primary_chunk)'
      /\ \A k \in 1..Len(ring'["playback"]) : Out(ring["playback"][k])'
      /\ Out(heard)' /\ \A k \in 1..Len(ring'["playback"]) : Before(heard', ring'["playback"][k])
  BY <1>1, <1>5, <1>6 DEF SortedInv, Out, Below, local, output
<1> QED BY <1>1, <1>7, <1>8, <1>9 DEF SortedInv, Sorted

\* The processing thread takes the oldest chunk.
LEMMA PopOrder ==
  ASSUME TypeOK, SortedInv, PopPrimary
  PROVE  SortedInv'
<1>1. /\ processing = "poll" /\ processing' = "reference"
      /\ UNCHANGED <<session, frame_index, at, nth, heard>>
      /\ primary_chunk' = Head(ring["primary"])
      /\ ring["primary"] # <<>> /\ Dequeue("primary")
  BY DEF PopPrimary, device, capture, output
<1>2. /\ ring'["playback"] = ring["playback"]
      /\ Len(ring["primary"]) \in Nat \ {0} /\ Len(ring'["primary"]) = Len(ring["primary"]) - 1
      /\ primary_chunk' = ring["primary"][1] /\ ring["primary"][1] \in Chunk
      /\ \A k \in 1..Len(ring'["primary"]) : ring'["primary"][k] = ring["primary"][k + 1]
  BY <1>1, ChunkTypes, DequeueFacts
<1>3. /\ 1 \in 1..Len(ring["primary"])
      /\ \A k \in 1..Len(ring'["primary"]) : k + 1 \in 1..Len(ring["primary"]) /\ 1 < k + 1
      /\ \A j, k \in 1..Len(ring'["primary"]) : j < k => j + 1 < k + 1
  BY <1>2
<1>4. Upcoming' = Upcoming
  BY <1>1 DEF Upcoming, PrimaryPushed
<1>5. Sorted(ring'["primary"])
  BY <1>2, <1>3 DEF SortedInv, Sorted
<1>6. /\ Before(primary_chunk', Upcoming')
      /\ \A k \in 1..Len(ring'["primary"]) : Before(primary_chunk', ring'["primary"][k])
  BY <1>2, <1>3, <1>4 DEF SortedInv, Sorted
<1>7. ASSUME NEW x, Below(x)
      PROVE  /\ Before(x, Upcoming') /\ Before(x, primary_chunk')
             /\ \A k \in 1..Len(ring'["primary"]) : Before(x, ring'["primary"][k])
  BY <1>2, <1>3, <1>4, <1>7 DEF Below
<1>8. /\ \A k \in 1..Len(ring'["playback"]) : Out(ring["playback"][k])'
      /\ Out(heard)'
  BY <1>1, <1>2, <1>7 DEF SortedInv, Out, Below
<1>9. \A k \in 1..Len(ring'["primary"]) : Before(ring'["primary"][k], Upcoming')
  BY <1>2, <1>3, <1>4 DEF SortedInv
<1> QED BY <1>1, <1>2, <1>5, <1>6, <1>8, <1>9 DEF SortedInv, Sorted, Below

\* It hands the chunk over behind those before it, or drops it.
LEMMA HandOverOrder ==
  ASSUME TypeOK, SortedInv, PushPlayback
  PROVE  SortedInv'
<1> DEFINE c == [primary_chunk EXCEPT !.count = Taken(primary_chunk)]
<1>1. /\ processing = "push" /\ processing' = "poll" /\ Push("playback", c)
      /\ UNCHANGED <<session, frame_index, at, nth, heard, primary_chunk>>
  BY DEF PushPlayback, device, capture, output, local
<1>2. c \in Chunk /\ c.session = primary_chunk.session /\ c.index = primary_chunk.index
  BY ChunkTypes, TakenFacts DEF Chunk
<1> HIDE DEF c
<1>3. /\ ring'["primary"] = ring["primary"]
      /\ Len(ring["playback"]) \in Nat /\ Len(ring'["playback"]) \in Nat
      /\ \A k \in 1..Len(ring["playback"]) : ring'["playback"][k] = ring["playback"][k]
      /\ \A k \in 1..Len(ring'["playback"]) :
           k \in 1..Len(ring["playback"]) \/ (k = Len(ring["playback"]) + 1 /\ ring'["playback"][k] = c)
  <2>1. /\ "primary" \in Ring /\ "playback" \in Ring
        /\ \A q \in Ring \ {"playback"} : ring'[q] = ring[q]
        /\ \A k \in 1..Len(ring["playback"]) : ring'["playback"][k] = ring["playback"][k]
        /\ \A k \in 1..Len(ring'["playback"]) : k > Len(ring["playback"]) =>
             k = Len(ring["playback"]) + 1 /\ ring'["playback"][k] = c
        /\ ring' \in [Ring -> Seq(Chunk)]
    <3>1. /\ ring \in [Ring -> Seq(Chunk)] /\ overflow_count \in [Ring -> Nat]
          /\ \A q \in Ring : Len(ring[q]) <= Capacity
          /\ "primary" \in Ring /\ "playback" \in Ring
      BY ChunkTypes
    <3>2. Push("playback", c) /\ c \in Chunk
      BY <1>1, <1>2
    <3> QED BY ONLY <3>1, <3>2, PushFacts, SMTT(30)
  <2>2. Len(ring["playback"]) \in Nat /\ Len(ring'["playback"]) \in Nat
    BY <2>1, ChunkTypes
  <2> QED BY <2>1, <2>2
<1>4. Upcoming' = Upcoming
  BY <1>1 DEF Upcoming, PrimaryPushed
<1>5. /\ \A x : Before(x, primary_chunk) => Before(x, c)
      /\ \A x : Before(primary_chunk, x) => Before(c, x)
  BY <1>2 DEF Before
<1>6. /\ Before(c, Upcoming') /\ \A k \in 1..Len(ring'["primary"]) : Before(c, ring'["primary"][k])
  BY <1>1, <1>3, <1>4, <1>5 DEF SortedInv, Below
<1>7. Sorted(ring'["playback"])
  <2> SUFFICES ASSUME NEW j \in 1..Len(ring'["playback"]), NEW k \in 1..Len(ring'["playback"]), j < k
               PROVE  Before(ring'["playback"][j], ring'["playback"][k])
    BY DEF Sorted
  <2>1. j \in 1..Len(ring["playback"])
    BY <1>3
  <2>2. CASE k \in 1..Len(ring["playback"])
    BY <1>3, <2>1, <2>2 DEF SortedInv, Sorted
  <2>3. CASE k \notin 1..Len(ring["playback"])
    BY <1>1, <1>3, <1>5, <2>1, <2>3 DEF SortedInv, Out
  <2> QED BY <2>2, <2>3
<1>8. ASSUME NEW k \in 1..Len(ring'["playback"])
      PROVE  /\ Before(ring'["playback"][k], Upcoming')
             /\ \A j \in 1..Len(ring'["primary"]) : Before(ring'["playback"][k], ring'["primary"][j])
             /\ Before(heard, ring'["playback"][k])
  <2>1. CASE k \in 1..Len(ring["playback"])
    BY <1>3, <1>4, <2>1 DEF SortedInv, Out, Below
  <2>2. CASE k \notin 1..Len(ring["playback"])
    BY <1>1, <1>3, <1>5, <1>6, <2>2 DEF SortedInv, Out
  <2> QED BY <2>1, <2>2
<1>9. Out(heard)'
  BY <1>1, <1>3, <1>4 DEF SortedInv, Out, Below
<1> QED BY <1>1, <1>3, <1>4, <1>7, <1>8, <1>9 DEF SortedInv, Sorted, Out, Below

\* The playback thread takes the oldest chunk, which comes after the last.
LEMMA PlayOrder ==
  ASSUME TypeOK, SortedInv, Play
  PROVE  SortedInv' /\ Before(heard, heard')
<1>1. /\ UNCHANGED <<session, frame_index, at, nth, processing, primary_chunk>>
      /\ heard' = Head(ring["playback"])
      /\ ring["playback"] # <<>> /\ Dequeue("playback")
  BY DEF Play, device, capture, local
<1>2. /\ ring'["primary"] = ring["primary"]
      /\ Len(ring["playback"]) \in Nat \ {0} /\ Len(ring'["playback"]) = Len(ring["playback"]) - 1
      /\ heard' = ring["playback"][1]
      /\ \A k \in 1..Len(ring'["playback"]) : ring'["playback"][k] = ring["playback"][k + 1]
  BY <1>1, ChunkTypes, DequeueFacts
<1>3. /\ 1 \in 1..Len(ring["playback"])
      /\ \A k \in 1..Len(ring'["playback"]) : k + 1 \in 1..Len(ring["playback"]) /\ 1 < k + 1
      /\ \A j, k \in 1..Len(ring'["playback"]) : j < k => j + 1 < k + 1
  BY <1>2
<1>4. Upcoming' = Upcoming
  BY <1>1 DEF Upcoming, PrimaryPushed
<1>5. ASSUME NEW x, Out(x)
      PROVE  /\ Before(x, Upcoming') /\ (processing' # "poll" => Before(x, primary_chunk'))
             /\ \A k \in 1..Len(ring'["primary"]) : Before(x, ring'["primary"][k])
  BY <1>1, <1>2, <1>4, <1>5 DEF Out, Below
<1>6. Out(heard)' /\ \A k \in 1..Len(ring'["playback"]) : Out(ring[ "playback"][k])'
  <2>1. \A k \in 1..Len(ring'["playback"]) : Out(ring["playback"][k + 1])
    BY <1>3 DEF SortedInv
  <2>2. Out(ring["playback"][1])
    BY <1>3 DEF SortedInv
  <2> QED BY <1>2, <1>5, <2>1, <2>2 DEF Out, Below
<1>7. Sorted(ring'["playback"]) /\ \A k \in 1..Len(ring'["playback"]) : Before(heard', ring'["playback"][k])
  BY <1>2, <1>3 DEF SortedInv, Sorted
<1>8. Before(heard, heard')
  BY <1>2, <1>3 DEF SortedInv
<1>9. /\ Sorted(ring'["primary"])
      /\ \A k \in 1..Len(ring'["primary"]) : Before(ring'["primary"][k], Upcoming')
      /\ processing' # "poll" => Below(primary_chunk)'
  BY <1>1, <1>2, <1>4 DEF SortedInv, Below
<1> QED BY <1>6, <1>7, <1>8, <1>9 DEF SortedInv, Sorted

LEMMA SortedStep ==
  ASSUME TypeOK, SortedInv, [Next]_vars
  PROVE  SortedInv' /\ (played' # played => Before(heard, heard'))
<1>1. ASSUME NEW t \in Capturer, Read(t) \/ Xrun(t) \/ RecordFrames(t) \/ UpdateDrift(t)
      PROVE  SortedInv' /\ played' = played
  <2>1. UNCHANGED <<session, rings, processing, local, output>> /\ PrimaryPushed' = PrimaryPushed
    BY <1>1, CountsKept
  <2> QED BY <2>1, OrderKept DEF rings, local, output
<1>2. ASSUME NEW t \in Capturer, PushChunk(t)
      PROVE  SortedInv' /\ played' = played
  <2>1. UNCHANGED <<session, processing, local, output>>
    BY <1>2 DEF PushChunk, device
  <2>2. PICK m \in Mic, c \in Chunk :
          /\ Push(m, c) /\ c.session = session
          /\ m = "primary" => c.index = PrimaryPushed
          /\ PrimaryPushed' = PrimaryPushed + (IF m = "primary" THEN 1 ELSE 0)
    <3>1. LET m == MicsOf(t)[nth[t]] IN
            /\ m \in Mic
            /\ \E c \in Chunk : /\ Push(m, c) /\ c.session = session
                                /\ m = "primary" => c.index = PrimaryPushed
            /\ PrimaryPushed' = PrimaryPushed + (IF m = "primary" THEN 1 ELSE 0)
      BY <1>2, PushCounts
    <3> QED BY <3>1
  <2>3. CASE m = "primary"
    BY <2>1, <2>2, <2>3, PrimaryOrder DEF output
  <2>4. CASE m # "primary"
    <3>1. m = "reference" /\ PrimaryPushed' = PrimaryPushed
      BY <2>2, <2>4, ChunkTypes DEF Mic
    <3>2. /\ m \in Ring /\ "primary" \in Ring \ {m} /\ "playback" \in Ring \ {m}
          /\ \A q \in Ring \ {m} : ring'[q] = ring[q]
      BY <2>2, <3>1, ChunkTypes, PushFacts
    <3> QED BY <2>1, <3>1, <3>2, OrderKept DEF local, output
  <2> QED BY <2>3, <2>4
<1>3. CASE PopReference \/ CheckDrift
  <2>1. /\ UNCHANGED <<session, frame_index, at, nth, primary_chunk, heard, played>>
        /\ processing # "poll"
        /\ ring' = ring \/ (ring["reference"] # <<>> /\ Dequeue("reference"))
    BY <1>3 DEF PopReference, CheckDrift, device, capture, rings, output
  <2>2. ring'["primary"] = ring["primary"] /\ ring'["playback"] = ring["playback"]
    BY <2>1, ChunkTypes, DequeueFacts
  <2>3. PrimaryPushed' = PrimaryPushed
    BY <2>1 DEF PrimaryPushed
  <2> QED BY <2>1, <2>2, <2>3, OrderKept
<1>4. CASE Restart
  BY <1>4, OrderKept DEF Restart, rings, output
<1>5. CASE UNCHANGED vars
  <2>1. UNCHANGED <<session, PrimaryPushed, ring, processing, primary_chunk, heard, played>>
    BY <1>5 DEF vars, PrimaryPushed
  <2> QED BY <2>1, OrderKept
<1>6. CASE PopPrimary \/ PushPlayback
  BY <1>6, PopOrder, HandOverOrder DEF PopPrimary, PushPlayback, output
<1> QED BY <1>1, <1>2, <1>3, <1>4, <1>5, <1>6, PlayOrder DEF Next, Capture, Process

\* What was captured first is heard first and once, in every topology and across
\* restarts (enqueue, dequeue and write_playback_chunk).
THEOREM OrderOfHearing == Spec => HeardInOrder
<1>1. Init => SortedInv
  <2> SUFFICES ASSUME Init PROVE SortedInv
    OBVIOUS
  <2>1. /\ Len(ring["primary"]) = 0 /\ Len(ring["playback"]) = 0 /\ processing = "poll"
        /\ heard = NoChunk /\ session = 0
    BY DEF Init, Ring, Mic
  <2>2. PrimaryPushed = 0
    BY PathAssumption DEF Init, PrimaryPushed, Capturer, Mic
  <2> QED BY <2>1, <2>2 DEF SortedInv, Sorted, Out, Below, Before, Upcoming, NoChunk
<1>2. TypeOK /\ SortedInv /\ [Next]_vars
        => SortedInv' /\ [played' # played => Before(heard, heard')]_vars
  BY SortedStep
<1> QED BY <1>1, <1>2, TypeCorrect, PTL DEF Spec, HeardInOrder

------------------------------------------------------------------------------
\* Each ring is the queue of BoundedFifo.

\* Division leaves a remainder below the divisor.
LEMMA DivMod ==
  ASSUME NEW m \in Nat \ {0}, NEW x \in Int
  PROVE  /\ x \div m \in Int
         /\ x % m \in 0..(m - 1)
         /\ x = m * (x \div m) + (x % m)
<1>1. x \div m \in Int
  OBVIOUS
<1>2. x % m \in 0..(m - 1)
  OBVIOUS
<1>3. x = m * (x \div m) + (x % m)
  OBVIOUS
<1> QED BY <1>1, <1>2, <1>3

\* In a form that rewrites under a quantifier.
LEMMA Remainder == \A m \in Nat \ {0} : \A x \in Nat : x % m \in Int
<1> SUFFICES ASSUME NEW m \in Nat \ {0}, NEW x \in Nat PROVE x % m \in Int
  OBVIOUS
<1>1. x \in Int /\ 0..(m - 1) \subseteq Int
  OBVIOUS
<1> QED BY <1>1, DivMod

\* The remainder is determined by what it leaves.
LEMMA ModUnique ==
  ASSUME NEW m \in Nat \ {0}, NEW x \in Int, NEW q \in Int, NEW r \in 0..(m - 1),
         x = m * q + r
  PROVE  x % m = r
<1> DEFINE p == x \div m
           s == x % m
<1>1. p \in Int /\ s \in 0..(m - 1) /\ x = m * p + s
  BY DivMod
<1> HIDE DEF p, s
<1>2. m * (q - p) = s - r /\ m * (q - p) \in Int
  <2>1. m * (q - p) = m * q - m * p /\ m * q \in Int /\ m * p \in Int
    BY <1>1
  <2> QED BY <1>1, <2>1
<1>3. CASE q - p >= 1
  <2>1. m * (q - p) >= m
    <3>1. m * (q - p) - m = m * (q - p - 1) /\ m * (q - p - 1) >= 0
      BY <1>1, <1>3
    <3> QED BY <1>2, <3>1
  <2> QED BY <1>1, <1>2, <2>1
<1>4. CASE q - p <= -1
  <2>1. m * (q - p) <= -m
    <3>1. m * (q - p) + m = -(m * (p - q - 1)) /\ m * (p - q - 1) >= 0
      BY <1>1, <1>4
    <3>2. m * (p - q - 1) \in Int
      BY <1>1
    <3> QED BY <1>2, <3>1, <3>2
  <2> QED BY <1>1, <1>2, <2>1
<1>5. q = p
  BY <1>1, <1>3, <1>4
<1>6. s = r
  BY <1>1, <1>5
<1> QED BY <1>6 DEF s

\* A counter may be wrapped before or after it counts.
LEMMA WrapCount ==
  ASSUME NEW m \in Nat \ {0}, NEW x \in Nat
  PROVE  /\ (x % m) % m = x % m
         /\ ((x % m) + 1) % m = (x + 1) % m
<1> DEFINE q == x \div m
           r == x % m
<1>1. q \in Int /\ r \in 0..(m - 1) /\ x = m * q + r
  BY DivMod
<1> HIDE DEF q, r
<1>2. r % m = r
  <2>1. r = m * 0 + r /\ r \in Int
    BY <1>1
  <2> QED BY <1>1, <2>1, ModUnique
<1>3. (r + 1) % m = (x + 1) % m
  <2>1. CASE r + 1 < m
    <3>1. (r + 1) % m = r + 1
      <4>1. r + 1 = m * 0 + (r + 1) /\ r + 1 \in 0..(m - 1)
        BY <1>1, <2>1
      <4> QED BY <4>1, ModUnique
    <3>2. (x + 1) % m = r + 1
      <4>1. x + 1 = m * q + (r + 1) /\ r + 1 \in 0..(m - 1) /\ x + 1 \in Int
        <5>1. m * q \in Int
          BY <1>1
        <5> QED BY <1>1, <2>1, <5>1
      <4> QED BY <1>1, <4>1, ModUnique
    <3> QED BY <3>1, <3>2
  <2>2. CASE ~(r + 1 < m)
    <3>1. r + 1 = m /\ 0 \in 0..(m - 1)
      BY <1>1, <2>2
    <3>2. (r + 1) % m = 0
      <4>1. r + 1 = m * 1 + 0 /\ r + 1 \in Int
        BY <1>1, <3>1
      <4> QED BY <3>1, <4>1, ModUnique
    <3>3. (x + 1) % m = 0
      <4>1. x + 1 = m * (q + 1) + 0 /\ x + 1 \in Int /\ q + 1 \in Int
        <5>1. m * (q + 1) = m * q + m /\ m * q \in Int
          BY <1>1
        <5> QED BY <1>1, <3>1, <5>1
      <4> QED BY <3>1, <4>1, ModUnique
    <3> QED BY <3>2, <3>3
  <2> QED BY <2>1, <2>2
<1> QED BY <1>2, <1>3 DEF r

\* A push is an insertion of one chunk, of which none or one fits.
LEMMA PushInserts ==
  ASSUME RingTypes, NEW r \in Ring, NEW m \in Nat \ {0}, NEW c \in Chunk, Push(r, c),
         InHand(r)' = InHand(r)
  PROVE  Fifo(r, Chunk, m)!Next
<1> DEFINE items == <<c>>
<1>1. items \in Fifo(r, Chunk, m)!Batch /\ Len(items) = 1
  <2>1. items \in [1..1 -> Chunk]
    OBVIOUS
  <2> QED BY <2>1 DEF Fifo!Batch
<1>2. /\ Len(ring[r]) \in Nat /\ Len(ring[r]) <= Capacity /\ ring[r] \in Seq(Chunk)
      /\ overflow_count[r] \in Nat
  BY DEF RingTypes
<1>3. CASE Full(r)
  <2>1. Fifo(r, Chunk, m)!Insert(items, 0)
    <3>1. SubSeq(items, 1, 0) = <<>> /\ ring[r] \o SubSeq(items, 1, 0) = ring[r]
      BY <1>2
    <3>2. ring'[r] = ring[r] /\ overflow_count'[r] = overflow_count[r] + 1
      BY <1>3 DEF Push, RingTypes
    <3>3. overflow_count'[r] % m = ((overflow_count[r] % m) + Len(items) - 0) % m
      <4>1. overflow_count[r] % m \in Int
        BY <1>2, Remainder
      <4>2. (overflow_count[r] % m) + Len(items) - 0 = (overflow_count[r] % m) + 1
        BY <1>1, <4>1
      <4> QED BY <1>2, <3>2, <4>2, WrapCount
    <3>4. 0 <= Len(items) /\ 0 <= Capacity - Len(ring[r]) /\ 0 + 0 >= Capacity - Len(ring[r])
      BY <1>1, <1>2, <1>3, PathAssumption DEF Full
    <3> QED BY <3>1, <3>2, <3>3, <3>4 DEF Fifo!Insert, Fifo!Free
  <2> QED BY <1>1, <2>1 DEF Fifo!Next
<1>4. CASE ~Full(r)
  <2>1. Fifo(r, Chunk, m)!Insert(items, 1)
    <3>1. SubSeq(items, 1, 1) = items /\ ring[r] \o items = Append(ring[r], c)
      <4>1. items \in Seq(Chunk) /\ Len(items) = 1
        OBVIOUS
      <4>2. SubSeq(items, 1, 1) = items
        BY <4>1, SubSeqFull
      <4>3. ring[r] \o <<c>> = Append(ring[r], c)
        BY <1>2, AppendIsConcat
      <4> QED BY <4>2, <4>3
    <3>2. ring'[r] = Append(ring[r], c) /\ overflow_count'[r] = overflow_count[r]
      BY <1>4 DEF Push, RingTypes
    <3>3. overflow_count'[r] % m = ((overflow_count[r] % m) + Len(items) - 1) % m
      <4>1. overflow_count[r] % m \in Int
        BY <1>2, Remainder
      <4>2. (overflow_count[r] % m) + Len(items) - 1 = overflow_count[r] % m
        BY <1>1, <4>1
      <4> QED BY <1>2, <3>2, <4>2, WrapCount
    <3>4. 1 <= Len(items) /\ 1 <= Capacity - Len(ring[r]) /\ 1 = Len(items)
      BY <1>1, <1>2, <1>4, PathAssumption DEF Full
    <3> QED BY <3>1, <3>2, <3>3, <3>4 DEF Fifo!Insert, Fifo!Free
  <2> QED BY <1>1, <2>1 DEF Fifo!Next
<1> QED BY <1>3, <1>4

\* Dequeueing is taking one item, which the consumer then holds.
LEMMA DequeueTakes ==
  ASSUME RingTypes, NEW r \in Ring, NEW m \in Nat \ {0}, ring[r] # <<>>, Dequeue(r),
         InHand(r)' = <<Head(ring[r])>>
  PROVE  Fifo(r, Chunk, m)!Next
<1>1. ring[r] \in Seq(Chunk) /\ Len(ring[r]) \in Nat /\ 1 \in 1..Len(ring[r])
  BY DEF RingTypes
<1>2. ring'[r] = Tail(ring[r]) /\ overflow_count'[r] = overflow_count[r]
  BY DEF Dequeue, RingTypes
<1>3. Tail(ring[r]) = SubSeq(ring[r], 1 + 1, Len(ring[r]))
  BY <1>1, TailIsSubSeq
<1>4. SubSeq(ring[r], 1, 1) = <<Head(ring[r])>>
  <2>1. /\ SubSeq(ring[r], 1, 1) \in Seq(Chunk) /\ Len(SubSeq(ring[r], 1, 1)) = 1
        /\ SubSeq(ring[r], 1, 1)[1] = ring[r][1]
    BY <1>1
  <2>2. /\ <<Head(ring[r])>> \in Seq(Chunk) /\ Len(<<Head(ring[r])>>) = 1
        /\ <<Head(ring[r])>>[1] = ring[r][1]
    BY <1>1
  <2>3. \A i \in 1..1 : SubSeq(ring[r], 1, 1)[i] = <<Head(ring[r])>>[i]
    BY <2>1, <2>2
  <2> QED BY <2>1, <2>2, <2>3, SeqEqual
<1>5. Fifo(r, Chunk, m)!Take(1)
  BY <1>2, <1>3, <1>4 DEF Fifo!Take
<1> QED BY <1>1, <1>5 DEF Fifo!Next

\* To a ring a step leaves alone its consumer at most asks again.
LEMMA OthersPoll ==
  ASSUME NEW r \in Ring, NEW m \in Nat \ {0},
         ring'[r] = ring[r], overflow_count'[r] = overflow_count[r],
         InHand(r)' = InHand(r) \/ InHand(r)' = <<>>
  PROVE  Fifo(r, Chunk, m)!Next \/ UNCHANGED Fifo(r, Chunk, m)!vars
BY DEF Fifo!Next, Fifo!Poll, Fifo!vars

\* No capture thread and no drift check changes what the consumers hold.
LEMMA HandsKept ==
  ASSUME NEW r \in Ring, UNCHANGED <<processing, local, output>>
  PROVE  InHand(r)' = InHand(r)
BY DEF InHand, local, output

\* A capture thread's step on each ring.
LEMMA CaptureUsesFifo ==
  ASSUME TypeOK, NEW t \in Capturer, Capture(t), NEW r \in Ring, NEW m \in Nat \ {0}
  PROVE  Fifo(r, Chunk, m)!Next \/ UNCHANGED Fifo(r, Chunk, m)!vars
<1>1. InHand(r)' = InHand(r)
  <2>1. UNCHANGED <<processing, local, output>>
    BY DEF Capture, Read, Xrun, PushChunk, RecordFrames, UpdateDrift
  <2> QED BY <2>1, HandsKept
<1>2. CASE UNCHANGED rings
  BY <1>1, <1>2, OthersPoll DEF rings
<1>3. CASE PushChunk(t)
  <2> DEFINE q == MicsOf(t)[nth[t]]
             c == [session |-> session, index |-> frame_index[t], count |-> Period]
  <2>1. q \in Ring
    BY MicsFacts DEF TypeOK, CaptureTypes
  <2>2. c \in Chunk
    BY PathAssumption DEF TypeOK, CaptureTypes, Chunk
  <2>3. Push(q, c)
    BY <1>3 DEF PushChunk
  <2> HIDE DEF q, c
  <2>4. CASE q = r
    BY <1>1, <2>2, <2>3, <2>4, PushInserts DEF TypeOK
  <2>5. CASE q # r
    <3>1. ring'[r] = ring[r] /\ overflow_count'[r] = overflow_count[r]
      BY <2>1, <2>2, <2>3, <2>5, PushFacts DEF TypeOK, RingTypes
    <3> QED BY <1>1, <3>1, OthersPoll
  <2> QED BY <2>4, <2>5
<1> QED BY <1>2, <1>3 DEF Capture, Read, Xrun, RecordFrames, UpdateDrift

\* The processing thread's step on each ring.
LEMMA ProcessUsesFifo ==
  ASSUME TypeOK, Process, NEW r \in Ring, NEW m \in Nat \ {0}
  PROVE  Fifo(r, Chunk, m)!Next \/ UNCHANGED Fifo(r, Chunk, m)!vars
<1> USE DEF TypeOK
<1>0. /\ Ring = {"primary", "reference", "playback"}
      /\ ring \in [Ring -> Seq(Chunk)] /\ \A q \in Ring : Len(ring[q]) <= Capacity
      /\ overflow_count \in [Ring -> Nat]
  BY DEF Ring, Mic, RingTypes
<1>1. CASE PopPrimary
  <2>1. ring["primary"] # <<>> /\ Dequeue("primary")
    BY <1>1 DEF PopPrimary
  <2>2. CASE r = "primary"
    <3>1. InHand(r)' = <<Head(ring[r])>>
      BY <1>1, <2>2 DEF PopPrimary, InHand
    <3> QED BY <2>1, <2>2, <3>1, DequeueTakes
  <2>3. CASE r # "primary"
    <3>1. InHand(r)' = InHand(r)
      BY <1>0, <1>1, <2>3 DEF PopPrimary, InHand, output
    <3>2. ring'[r] = ring[r] /\ overflow_count'[r] = overflow_count[r]
      BY <1>0, <2>1, <2>3, DequeueFacts
    <3> QED BY <3>1, <3>2, OthersPoll
  <2> QED BY <2>2, <2>3
<1>2. CASE PopReference
  <2>1. CASE has_ref' /\ r = "reference"
    <3>1. ring["reference"] # <<>> /\ Dequeue("reference")
      BY <1>2, <2>1 DEF PopReference
    <3>2. InHand(r)' = <<Head(ring[r])>>
      BY <1>2, <2>1 DEF PopReference, InHand
    <3> QED BY <2>1, <3>1, <3>2, DequeueTakes
  <2>2. CASE ~(has_ref' /\ r = "reference")
    <3>1. ring'[r] = ring[r] /\ overflow_count'[r] = overflow_count[r]
      <4>1. CASE has_ref'
        <5>1. ring["reference"] # <<>> /\ Dequeue("reference")
          BY <1>2, <4>1 DEF PopReference
        <5> QED BY <1>0, <2>2, <4>1, <5>1, DequeueFacts
      <4>2. CASE ~has_ref'
        BY <1>2, <4>2 DEF PopReference, rings
      <4> QED BY <4>1, <4>2
    <3>2. InHand(r)' = InHand(r) \/ InHand(r)' = <<>>
      BY <1>0, <1>2, <2>2 DEF PopReference, InHand, output
    <3> QED BY <3>1, <3>2, OthersPoll
  <2> QED BY <2>1, <2>2
<1>3. CASE CheckDrift
  <2>1. InHand(r)' = InHand(r)
    BY <1>3 DEF CheckDrift, InHand, output
  <2> QED BY <1>3, <2>1, OthersPoll DEF CheckDrift, rings
<1>4. CASE PushPlayback
  <2> DEFINE c == [primary_chunk EXCEPT !.count = Taken(primary_chunk)]
  <2>1. c \in Chunk /\ Push("playback", c)
    BY <1>4, TakenFacts DEF ProcessTypes, PushPlayback
  <2> HIDE DEF c
  <2>2. CASE r = "playback"
    <3>1. InHand(r)' = InHand(r)
      BY <1>4, <2>2 DEF PushPlayback, InHand, output
    <3> QED BY <2>1, <2>2, <3>1, PushInserts
  <2>3. CASE r # "playback"
    <3>1. ring'[r] = ring[r] /\ overflow_count'[r] = overflow_count[r]
      BY <1>0, <2>1, <2>3, PushFacts
    <3>2. InHand(r)' = InHand(r) \/ InHand(r)' = <<>>
      BY <1>0, <1>4, <2>3 DEF PushPlayback, InHand, local
    <3> QED BY <3>1, <3>2, OthersPoll
  <2> QED BY <2>2, <2>3
<1> QED BY <1>1, <1>2, <1>3, <1>4 DEF Process

\* The playback thread takes from its ring; a restart makes the consumers ask again.
LEMMA OthersUseFifo ==
  ASSUME TypeOK, Play \/ Restart \/ UNCHANGED vars, NEW r \in Ring, NEW m \in Nat \ {0}
  PROVE  Fifo(r, Chunk, m)!Next \/ UNCHANGED Fifo(r, Chunk, m)!vars
<1> USE DEF TypeOK
<1>0. /\ Ring = {"primary", "reference", "playback"}
      /\ ring \in [Ring -> Seq(Chunk)] /\ \A q \in Ring : Len(ring[q]) <= Capacity
  BY DEF Ring, Mic, RingTypes
<1>1. CASE Play
  <2>1. ring["playback"] # <<>> /\ Dequeue("playback")
    BY <1>1 DEF Play
  <2>2. CASE r = "playback"
    <3>1. played' # 0
      BY <1>1 DEF Play, ProcessTypes
    <3>2. InHand(r)' = <<Head(ring[r])>>
      BY <1>1, <2>2, <3>1 DEF Play, InHand
    <3> QED BY <2>1, <2>2, <3>2, DequeueTakes
  <2>3. CASE r # "playback"
    <3>1. InHand(r)' = InHand(r)
      BY <1>0, <1>1, <2>3 DEF Play, InHand, local
    <3>2. ring'[r] = ring[r] /\ overflow_count'[r] = overflow_count[r]
      BY <1>0, <2>1, <2>3, DequeueFacts
    <3> QED BY <3>1, <3>2, OthersPoll
  <2> QED BY <2>2, <2>3
<1>2. CASE Restart
  <2>1. InHand(r)' = InHand(r) \/ InHand(r)' = <<>>
    BY <1>0, <1>2 DEF Restart, InHand, output
  <2> QED BY <1>2, <2>1, OthersPoll DEF Restart, rings
<1>3. CASE UNCHANGED vars
  <2>1. InHand(r)' = InHand(r)
    BY <1>3 DEF vars, InHand
  <2> QED BY <1>3, <2>1, OthersPoll DEF vars
<1> QED BY <1>1, <1>2, <1>3

\* The capture, processing and playback threads use each of their rings as the queue of
\* BoundedFifo, in any topology and for any ring size and counter width: one chunk offered
\* at a time and refused only when the queue is full, the oldest one taken, across restarts.
\* It is the specification that SpscRing_proofs shows the lock-free ring to implement.
THEOREM RingsAreFifos ==
  ASSUME NEW r \in Ring, NEW m \in Nat \ {0}
  PROVE  Spec => Fifo(r, Chunk, m)!Spec
<1>1. Init => Fifo(r, Chunk, m)!Init
  <2>1. 0 % m = 0
    <3>1. 0 = m * 0 + 0 /\ 0 \in 0..(m - 1)
      OBVIOUS
    <3> QED BY <3>1, ModUnique
  <2> QED BY <2>1 DEF Init, Fifo!Init, InHand
<1>2. TypeOK /\ [Next]_vars => [Fifo(r, Chunk, m)!Next]_(Fifo(r, Chunk, m)!vars)
  BY CaptureUsesFifo, ProcessUsesFifo, OthersUseFifo DEF Next
<1> QED BY <1>1, <1>2, TypeCorrect, PTL DEF Spec, Fifo!Spec
==============================================================================
