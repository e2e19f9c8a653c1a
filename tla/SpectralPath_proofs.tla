-------------------------- MODULE SpectralPath_proofs --------------------------
(***************************************************************************)
(* Proofs about SpectralPath for every window, hop and length of input,    *)
(* hops of any length, and a reset() that may begin and end anywhere.      *)
(***************************************************************************)
EXTENDS SpectralPath, TLAPS

\* The shared parts of the steps, and the buffers they work on.
LEMMA Sizes ==
  /\ HopSize \in Nat /\ HopSize > 0 /\ FftSize \in Nat /\ FftSize > HopSize
  /\ MaxSamples \in Nat
  /\ Window = 0..(FftSize - 1) /\ Hop = 0..(HopSize - 1)
  /\ Place = 0..(FftSize + 4 * HopSize - 1)
  /\ Hop \subseteq Window /\ Window \subseteq Place
BY SpectralAssumption DEF Window, Hop, Place

\* A buffer copied down by a hop: the entry a hop further, then the tail.
LEMMA ShiftEntry ==
  ASSUME NEW size \in Nat, NEW buffer, NEW tail, NEW n \in 0..(size - 1)
  PROVE  Shift(buffer, size, tail)[n] =
           IF n < size - HopSize THEN buffer[n + HopSize] ELSE tail[n]
BY DEF Shift

\* Shifting keeps the type of a buffer whose tail has it from the seam on.
LEMMA ShiftType ==
  ASSUME NEW size \in Nat, NEW S, NEW buffer \in [0..(size - 1) -> S], NEW tail,
         \A n \in 0..(size - 1) : n >= size - HopSize => tail[n] \in S
  PROVE  Shift(buffer, size, tail) \in [0..(size - 1) -> S]
<1>1. ASSUME NEW n \in 0..(size - 1)
      PROVE  (IF n < size - HopSize THEN buffer[n + HopSize] ELSE tail[n]) \in S
  <2>1. CASE n < size - HopSize
    <3>1. n + HopSize \in 0..(size - 1)
      BY <2>1, Sizes
    <3> QED BY <2>1, <3>1
  <2>2. CASE ~(n < size - HopSize)
    BY <2>2, Sizes
  <2> QED BY <2>1, <2>2
<1> QED BY <1>1 DEF Shift

\* The quotient of sums over one sample and the same windows is that sample.
LEMMA NormalisedOne ==
  ASSUME NEW audio, NEW weight, NEW sample,
         \A a \in audio : a.sample = sample,
         {a.window : a \in audio} = weight
  PROVE  Normalised(audio, weight) = IF audio = {} THEN Silence ELSE sample
<1>1. CASE audio # {}
  <2>1. \A a, b \in audio : a.sample = b.sample
    OBVIOUS
  <2>2. (CHOOSE a \in audio : TRUE) \in audio
    BY <1>1
  <2> QED BY <1>1, <2>1, <2>2 DEF Normalised
<1> QED BY <1>1 DEF Normalised

\* In any case the quotient is a sample, silence, or garbled.
LEMMA NormalisedType ==
  ASSUME NEW audio \in SUBSET [sample : Heard, window : Window], NEW weight
  PROVE  Normalised(audio, weight) \in Heard
<1>1. CASE audio # {}
  <2>1. (CHOOSE a \in audio : TRUE) \in audio
    BY <1>1
  <2>2. (CHOOSE a \in audio : TRUE).sample \in Heard
    BY <2>1
  <2> QED BY <1>1, <2>2 DEF Normalised, Heard
<1> QED BY <1>1, Sizes DEF Normalised, Silence, Heard

------------------------------------------------------------------------------
\* Types.

Adds == [sample : Heard, window : Window]

\* The hop under way is part of the input.
HopTaken == taken >= count

LEMMA InitTyped == Init => TypeOK /\ HopTaken
<1>1. 0 \in 0..MaxSamples /\ FftSize \in 0..FftSize /\ 0 \in 0..HopSize
  BY Sizes
<1>2. Zeros \in [Place -> SUBSET Window] /\ Blank \in Memory
      /\ Zeros \in [Place -> SUBSET [sample : Heard, window : Window]]
  BY DEF Zeros, Blank, Memory
<1>3. /\ [n \in Window |-> Silence] \in [Window -> Heard]
      /\ [i \in Hop |-> Silence] \in [Hop -> Heard]
  BY Sizes DEF Silence, Heard
<1>4. Init => HopTaken
  BY DEF Init, HopTaken
<1>5. Init => /\ phase \in Phase /\ taken \in 0..MaxSamples /\ count \in 0..HopSize
              /\ degraded \in BOOLEAN /\ resetting \in Fill /\ crossed \in BOOLEAN
              /\ reset_at \in 0..MaxSamples /\ lost \in BOOLEAN
              /\ steady \in 0..FftSize /\ whole \in 0..FftSize
  BY <1>1, Zenon DEF Init, Phase, Fill
<1>6. Init => /\ history \in [Window -> Heard]
              /\ frame \in [Window -> Heard]
              /\ out \in [Hop -> Heard]
              /\ accum_audio \in [Place -> SUBSET [sample : Heard, window : Window]]
              /\ accum_weight \in [Place -> SUBSET Window]
              /\ hidden_in \in Memory /\ hidden_out \in Memory
  BY <1>2, <1>3, Zenon DEF Init
<1> QED BY <1>4, <1>5, <1>6, Zenon DEF TypeOK

LEMMA RememberType ==
  ASSUME taken \in Nat, count \in Nat, taken >= count, NEW memory \in Memory
  PROVE  Remember(memory) \in Memory
BY DEF Remember, Memory

LEMMA RawType ==
  ASSUME TypeOK, HopTaken, Emit(Raw)
  PROVE  out' \in [Hop -> Heard]
<1>1. \A i \in Hop : i < count => taken - count + 1 + i \in 0..MaxSamples
  BY Sizes DEF TypeOK, HopTaken
<1> QED BY <1>1 DEF Emit, Raw, TypeOK, Heard

LEMMA HistoryType ==
  ASSUME TypeOK, NEW n \in 1..HopSize, Analyse(n)
  PROVE  history' \in [Window -> Heard]
<1>1. CASE resetting = "none"
  <2> DEFINE tail == [m \in Window |-> LET i == m - (FftSize - HopSize)
                                       IN  IF i < n THEN taken + 1 + i ELSE history[m]]
  <2>1. \A m \in 0..(FftSize - 1) : m >= FftSize - HopSize => tail[m] \in Heard
    <3>1. \A m \in Window : m >= FftSize - HopSize /\ m - (FftSize - HopSize) < n =>
            taken + 1 + (m - (FftSize - HopSize)) \in 0..MaxSamples
      BY Sizes DEF TypeOK, Analyse
    <3>2. \A m \in Window : history[m] \in Heard
      BY DEF TypeOK, Heard
    <3> QED BY <3>1, <3>2, Sizes DEF Heard
  <2>2. history \in [0..(FftSize - 1) -> Heard] /\ FftSize \in Nat
    BY Sizes DEF TypeOK, Heard
  <2>3. history' = Shift(history, FftSize, tail)
    BY <1>1 DEF Analyse
  <2> HIDE DEF tail
  <2> QED BY <2>1, <2>2, <2>3, ShiftType, Sizes
<1>2. CASE resetting # "none"
  BY <1>2 DEF Analyse, Unknown, Heard
<1> QED BY <1>1, <1>2

LEMMA JunkType ==
  /\ \A size : Junk(size) \in [Place -> SUBSET Adds]
  /\ Zeros \in [Place -> SUBSET Adds] /\ Zeros \in [Place -> SUBSET Window]
BY Sizes DEF Junk, Zeros, Adds, Heard

LEMMA AddType ==
  ASSUME TypeOK, OverlapAdd
  PROVE  /\ accum_audio' \in [Place -> SUBSET Adds]
         /\ accum_weight' \in [Place -> SUBSET Window]
<1>1. \A n \in Window : [sample |-> frame[n], window |-> n] \in Adds
  BY DEF TypeOK, Adds, Heard
<1> QED BY <1>1, JunkType DEF TypeOK, OverlapAdd, Adds, Heard

LEMMA AdvanceType ==
  ASSUME TypeOK, Advance
  PROVE  /\ accum_audio' \in [Place -> SUBSET Adds]
         /\ accum_weight' \in [Place -> SUBSET Window]
<1>1. CASE crossed
  BY <1>1, JunkType DEF Advance
<1>2. CASE ~crossed
  <2> DEFINE size == FftSize + 4 * HopSize
  <2>1. size \in Nat /\ Place = 0..(size - 1)
    BY Sizes
  <2>2. \A S : \A n \in 0..(size - 1) : Zeros[n] \in SUBSET S
    BY <2>1 DEF Zeros
  <2>3. /\ accum_audio' = Shift(accum_audio, size, Zeros)
        /\ accum_weight' = Shift(accum_weight, size, Zeros)
    BY <1>2 DEF Advance
  <2>4. accum_audio \in [Place -> SUBSET Adds] /\ accum_weight \in [Place -> SUBSET Window]
    BY DEF TypeOK, Adds, Heard
  <2> HIDE DEF size
  <2>5. accum_audio' \in [0..(size - 1) -> SUBSET Adds]
    BY <2>1, <2>2, <2>3, <2>4, ShiftType
  <2>6. accum_weight' \in [0..(size - 1) -> SUBSET Window]
    BY <2>1, <2>2, <2>3, <2>4, ShiftType
  <2> QED BY <2>1, <2>5, <2>6
<1> QED BY <1>1, <1>2

LEMMA ExtractType ==
  ASSUME TypeOK, Extract
  PROVE  out' \in [Hop -> Heard]
<1>1. ASSUME NEW i \in Hop PROVE Synthesised(i) \in Heard
  <2>1. i \in Place
    BY Sizes
  <2>2. accum_audio[i] \in SUBSET [sample : Heard, window : Window]
    BY <2>1 DEF TypeOK
  <2> QED BY <2>2, NormalisedType DEF Synthesised, Heard
<1> QED BY <1>1 DEF Extract, Emit, TypeOK, Heard

LEMMA StepTyped ==
  ASSUME TypeOK, HopTaken, [Next]_vars
  PROVE  TypeOK' /\ HopTaken'
<1> USE DEF Heard, Adds
<1>1. ASSUME NEW n \in 1..HopSize, Analyse(n) PROVE TypeOK' /\ HopTaken'
  <2>1. history' \in [Window -> Heard] /\ frame' \in [Window -> Heard]
    BY <1>1, HistoryType DEF Analyse
  <2>2. /\ taken' \in 0..MaxSamples /\ taken' >= count' /\ phase' = "analysed" /\ count' \in 0..HopSize
    BY <1>1, Sizes DEF Analyse, TypeOK
  <2>3. UNCHANGED <<accum_audio, accum_weight, hidden, degraded, out, resetting, reset_at>>
    BY <1>1 DEF Analyse
  <2>4. crossed' \in BOOLEAN /\ steady' \in 0..FftSize /\ whole' \in 0..FftSize /\ lost' \in BOOLEAN
    <3>1. \A places \in 0..FftSize : Filled(places) \in 0..FftSize
      BY Sizes DEF Filled
    <3>2. 0 \in 0..FftSize
      BY Sizes
    <3> QED BY <1>1, <3>1, <3>2 DEF Analyse, TypeOK, Cross
  <2> QED BY <2>1, <2>2, <2>3, <2>4 DEF Phase, TypeOK, HopTaken, hidden
<1>2. CASE PassThrough
  <2>1. out' \in [Hop -> Heard]
    BY <1>2, RawType DEF PassThrough
  <2> QED
    BY <1>2, <2>1 DEF PassThrough, Step, Phase, TypeOK, HopTaken, stft, hidden, trust
<1>3. CASE Run
  BY <1>3 DEF Run, Step, Phase, TypeOK, HopTaken, stft, hidden, trust
<1>m. Remember(hidden_in) \in Memory /\ Mixed \in Memory /\ Blank \in Memory
  BY RememberType, Sizes DEF TypeOK, HopTaken, Mixed, Blank, Memory
<1>4. CASE RunReturns
  BY <1>4, <1>m DEF RunReturns, Step, Phase, TypeOK, HopTaken, Written, stft, trust
<1>5. CASE RunThrows
  <2>1. out' \in [Hop -> Heard]
    BY <1>5, RawType DEF RunThrows
  <2>2. hidden_out' \in Memory
    BY <1>5, <1>m DEF RunThrows, Written, TypeOK
  <2> QED
    BY <1>5, <2>1, <2>2 DEF RunThrows, Step, Phase, TypeOK, HopTaken, stft, trust
<1>6. CASE Persist
  BY <1>6, <1>m DEF Persist, Step, Phase, TypeOK, HopTaken, Written, stft, trust
<1>7. CASE OverlapAdd
  BY <1>7, AddType DEF OverlapAdd, Step, Phase, TypeOK, HopTaken, hidden, trust
<1>8. CASE Extract
  BY <1>8, ExtractType DEF Extract, Step, Phase, TypeOK, HopTaken, stft, hidden, trust
<1>9. CASE Advance
  BY <1>9, AdvanceType DEF Advance, Step, Phase, TypeOK, HopTaken, hidden, trust
<1>10. CASE ResetBegins
  <2>1. 0 \in 0..FftSize
    BY Sizes
  <2>2. /\ UNCHANGED <<phase, taken, count, history, accum_audio, accum_weight, frame,
                       hidden_in, hidden_out, degraded, out>>
        /\ resetting' \in Fill /\ reset_at' \in 0..MaxSamples
    BY <1>10 DEF ResetBegins, Fill, TypeOK, stft, hidden
  <2>3. crossed' \in BOOLEAN /\ steady' \in 0..FftSize /\ whole' \in 0..FftSize /\ lost' \in BOOLEAN
    BY <1>10, <2>1 DEF ResetBegins, Cross, TypeOK, trust
  <2> QED BY <2>2, <2>3 DEF TypeOK, HopTaken
<1>11. CASE Reset /\ ~ResetBegins
  <2>1. /\ [n \in Window |-> Silence] \in [Window -> Heard] /\ Unknown \in [Window -> Heard]
        /\ FftSize \in 0..FftSize
    BY Sizes DEF Silence, Unknown
  <2>2. /\ UNCHANGED <<phase, taken, count, frame, degraded, out, reset_at>>
        /\ resetting' \in Fill /\ crossed' \in BOOLEAN
    BY <1>11 DEF Reset, ResetHistory, ResetAudio, ResetWeight, ResetHiddenIn,
      ResetHiddenOut, Refill, Fill, TypeOK
  <2>3. CASE ResetHistory
    BY <2>1, <2>2, <2>3 DEF ResetHistory, TypeOK, HopTaken, hidden, trust
  <2>4. CASE ResetAudio
    BY JunkType, <2>2, <2>4 DEF ResetAudio, TypeOK, HopTaken, hidden, trust
  <2>5. CASE ResetWeight
    BY JunkType, <2>2, <2>5 DEF ResetWeight, TypeOK, HopTaken, hidden, trust
  <2>6. CASE ResetHiddenIn
    BY <1>m, <2>2, <2>6 DEF ResetHiddenIn, Written, TypeOK, HopTaken, stft, trust
  <2>7. CASE ResetHiddenOut
    BY <1>m, <2>1, <2>2, <2>7 DEF ResetHiddenOut, Written, TypeOK, HopTaken, stft, trust
  <2> QED BY <1>11, <2>3, <2>4, <2>5, <2>6, <2>7 DEF Reset
<1>12. CASE UNCHANGED vars
  BY <1>12 DEF vars, TypeOK, HopTaken, stft, hidden, trust
<1> QED BY <1>1, <1>2, <1>3, <1>4, <1>5, <1>6, <1>7, <1>8, <1>9, <1>10, <1>11, <1>12
        DEF Next, Process, Reset

\* Types: every step of the loop and of reset() keeps every buffer's size and
\* contents in range, also when the two cross (stft.cpp, onnx_engine.cpp).
THEOREM TypeCorrect == Spec => []TypeOK
<1>1. Spec => [](TypeOK /\ HopTaken)
  BY InitTyped, StepTyped, PTL DEF Spec
<1> QED BY <1>1, PTL

------------------------------------------------------------------------------
\* The bookkeeping of crossings, and what a reset() that crosses no hop has done.

CrossInv ==
  /\ phase # "idle" /\ resetting # "none" => crossed
  /\ phase = "idle" /\ resetting = "none" => ~crossed
  /\ crossed => steady = 0 /\ lost
  /\ whole <= steady
  /\ reset_at <= taken
  /\ phase # "idle" => count > 0
  /\ phase # "idle" /\ ~crossed => reset_at + count <= taken
  /\ phase \notin {"idle", "analysed"} => ~degraded

CleanInv ==
  resetting # "none" /\ ~crossed =>
    /\ phase = "idle" /\ taken = reset_at
    /\ resetting # "history" => history = [n \in Window |-> Silence]
    /\ resetting \notin {"history", "audio"} => accum_audio = Zeros
    /\ resetting \notin {"history", "audio", "weight"} => accum_weight = Zeros
    /\ resetting = "hidden_out" => hidden_in = Blank

LEMMA CrossStep ==
  ASSUME TypeOK, HopTaken, CrossInv, [Next]_vars
  PROVE  CrossInv'
<1>0. /\ taken \in Nat /\ reset_at \in Nat /\ count \in Nat
      /\ steady \in 0..FftSize /\ whole \in 0..FftSize
      /\ HopSize \in Nat /\ HopSize > 0 /\ FftSize \in Nat /\ FftSize > HopSize
      /\ crossed \in BOOLEAN /\ lost \in BOOLEAN /\ degraded \in BOOLEAN
  BY Sizes DEF TypeOK
<1>1. ASSUME NEW n \in 1..HopSize, Analyse(n) PROVE CrossInv'
  <2>1. /\ phase = "idle" /\ phase' = "analysed" /\ count' = n /\ taken' = taken + n
        /\ UNCHANGED <<resetting, reset_at, degraded>>
    BY <1>1 DEF Analyse
  <2>2. n \in Nat /\ n > 0 /\ reset_at' + count' <= taken' /\ reset_at' <= taken' /\ count' > 0
    BY <1>0, <2>1 DEF CrossInv
  <2>3. CASE resetting = "none"
    <3>1. ~crossed /\ UNCHANGED <<crossed, lost>>
      BY <1>1, <2>1, <2>3 DEF Analyse, CrossInv
    <3>2. whole' <= steady'
      BY <1>0, <1>1, <2>3 DEF Analyse, Filled, CrossInv
    <3> QED BY <2>1, <2>2, <2>3, <3>1, <3>2 DEF CrossInv
  <2>4. CASE resetting # "none"
    <3>1. crossed' /\ steady' = 0 /\ whole' = 0 /\ lost'
      BY <1>1, <2>4 DEF Analyse, Cross
    <3> QED BY <2>1, <2>2, <3>1 DEF CrossInv
  <2> QED BY <2>3, <2>4
<1>2. CASE PassThrough \/ Run \/ RunReturns \/ RunThrows \/ Persist \/ OverlapAdd
             \/ Extract \/ Advance
  <2>1. UNCHANGED <<taken, count, resetting, reset_at, steady, whole, lost>>
    BY <1>2 DEF PassThrough, Run, RunReturns, RunThrows, Persist, OverlapAdd, Extract,
      Advance, trust
  <2>2. /\ phase # "idle"
        /\ crossed' = (crossed /\ (phase' # "idle" \/ resetting # "none"))
    BY <1>2 DEF PassThrough, Run, RunReturns, RunThrows, Persist, OverlapAdd, Extract,
      Advance, Step
  <2>3. phase' \notin {"idle", "analysed"} => ~degraded'
    BY <1>2 DEF PassThrough, Run, RunReturns, RunThrows, Persist, OverlapAdd, Extract,
      Advance, Step, CrossInv
  <2> QED BY <1>0, <2>1, <2>2, <2>3 DEF CrossInv
<1>3. CASE ResetBegins
  BY <1>0, <1>3 DEF ResetBegins, Cross, CrossInv, trust
<1>4. CASE Reset /\ ~ResetBegins
  <2>1. /\ UNCHANGED <<phase, taken, count, degraded, reset_at>>
        /\ resetting # "none"
        /\ crossed' = (crossed /\ (phase # "idle" \/ resetting' # "none"))
        /\ \/ UNCHANGED trust
           \/ ~crossed /\ steady' = FftSize /\ whole' = FftSize
    BY <1>4 DEF Reset, ResetHistory, ResetAudio, ResetWeight, ResetHiddenIn,
      ResetHiddenOut, Refill
  <2>2. CASE UNCHANGED trust
    BY <1>0, <2>1, <2>2 DEF CrossInv, trust
  <2>3. CASE ~crossed /\ steady' = FftSize /\ whole' = FftSize
    <3>1. phase = "idle" /\ ~crossed'
      BY <2>1, <2>3 DEF CrossInv
    <3>2. whole' <= steady' /\ reset_at' <= taken'
      BY <1>0, <2>1, <2>3 DEF CrossInv
    <3> QED BY <2>1, <3>1, <3>2 DEF CrossInv
  <2> QED BY <2>1, <2>2, <2>3
<1>5. CASE UNCHANGED vars
  BY <1>5 DEF vars, trust, CrossInv
<1> QED BY <1>1, <1>2, <1>3, <1>4, <1>5 DEF Next, Process, Reset

LEMMA CleanStep ==
  ASSUME TypeOK, CrossInv, CleanInv, [Next]_vars
  PROVE  CleanInv'
<1>1. CASE \E n \in 1..HopSize : Analyse(n)
  <2>1. resetting' = resetting /\ (resetting # "none" => crossed')
    BY <1>1 DEF Analyse, Cross
  <2> QED BY <2>1 DEF CleanInv
<1>2. CASE PassThrough \/ Run \/ RunReturns \/ RunThrows \/ Persist \/ OverlapAdd
             \/ Extract \/ Advance
  <2>1. /\ resetting' = resetting /\ phase # "idle"
        /\ crossed' = (crossed /\ (phase' # "idle" \/ resetting # "none"))
    BY <1>2 DEF PassThrough, Run, RunReturns, RunThrows, Persist, OverlapAdd, Extract,
      Advance, Step
  <2> QED BY <2>1 DEF CleanInv, CrossInv
<1>3. CASE ResetBegins
  <2>1. resetting' = "history" /\ UNCHANGED <<phase, taken>> /\ reset_at' = taken
        /\ (phase # "idle" => crossed')
    BY <1>3 DEF ResetBegins, Cross
  <2> QED BY <2>1 DEF CleanInv
<1>4. CASE Reset /\ ~ResetBegins
  <2>1. /\ UNCHANGED <<phase, taken, reset_at>>
        /\ resetting # "none" /\ (resetting' # "none" => crossed' = crossed)
    BY <1>4 DEF Reset, ResetHistory, ResetAudio, ResetWeight, ResetHiddenIn,
      ResetHiddenOut, Refill, TypeOK
  <2>2. CASE ResetHistory
    BY <2>1, <2>2 DEF ResetHistory, Refill, CleanInv
  <2>3. CASE ResetAudio
    BY <2>1, <2>3 DEF ResetAudio, Refill, CleanInv
  <2>4. CASE ResetWeight
    BY <2>1, <2>4 DEF ResetWeight, Refill, CleanInv
  <2>5. CASE ResetHiddenIn
    BY <2>1, <2>5 DEF ResetHiddenIn, Refill, Written, CleanInv, stft
  <2>6. CASE ResetHiddenOut
    BY <2>6 DEF ResetHiddenOut, Refill, CleanInv
  <2> QED BY <1>4, <2>2, <2>3, <2>4, <2>5, <2>6 DEF Reset
<1>5. CASE UNCHANGED vars
  BY <1>5 DEF vars, CleanInv, stft, hidden
<1> QED BY <1>1, <1>2, <1>3, <1>4, <1>5 DEF Next, Process, Reset

------------------------------------------------------------------------------
\* What the buffers hold as far as nothing has disturbed it.

\* The last places of the line are the newest samples, and the frame is the line.
FrameInv ==
  /\ resetting = "none" => \A n \in Window : n >= FftSize - whole => history[n] = Due(n)
  /\ phase # "idle" /\ ~crossed => frame = history
  /\ phase # "idle" /\ ~crossed =>
       \A i \in 0..(count - 1) : history[i + (FftSize - HopSize)] = Raw(i)

\* Between hops the accumulators are a hop further than the history.
Ahead == IF phase = "idle" THEN HopSize ELSE 0

\* Every sample in the accumulators is the one on the line, each with its weight; the
\* front place, whose weight is zero in the newest frame, has another's or is silent.
AccumInv ==
  ~degraded =>
    /\ \A n \in Place : n + Ahead >= FftSize => accum_audio[n] = {} /\ accum_weight[n] = {}
    /\ resetting = "none" => \A n \in Place :
         n + Ahead < FftSize /\ n + Ahead >= FftSize - steady =>
           /\ \A a \in accum_audio[n] : a.sample = history[n + Ahead]
           /\ accum_weight[n] = {a.window : a \in accum_audio[n]}
    /\ resetting = "none" /\ Ahead >= FftSize - steady /\ accum_weight[0] = {} =>
         history[Ahead] = Silence
    /\ phase \in {"added", "extracted"} /\ ~crossed =>
         \A n \in Window \ {0} : n \in accum_weight[n]

\* The GRU state over the samples up to some hop of the session.
MemoryUpTo(last) == IF last = reset_at THEN Blank ELSE [since |-> reset_at, last |-> last]

MemoryInv ==
  ~degraded /\ ~lost =>
    /\ phase = "idle" /\ resetting = "none" => hidden_in = MemoryUpTo(taken)
    /\ phase \in {"analysed", "running"} => hidden_in = MemoryUpTo(taken - count)
    /\ phase = "ran" => hidden_out = MemoryUpTo(taken)
    /\ phase \in {"inferred", "added", "extracted"} => hidden_in = MemoryUpTo(taken)

SessionInv ==
  /\ TypeOK /\ HopTaken
  /\ CrossInv /\ CleanInv
  /\ FrameInv /\ AccumInv /\ MemoryInv
  /\ ConstantDelay

LEMMA InitSession == Init => SessionInv
<1> SUFFICES ASSUME Init PROVE SessionInv
  OBVIOUS
<1>1. TypeOK /\ HopTaken
  BY InitTyped
<1>2. CrossInv /\ CleanInv
  BY Sizes DEF Init, CrossInv, CleanInv
<1>3. FrameInv
  BY Sizes DEF Init, FrameInv, Due, Silence
<1>4. AccumInv
  BY Sizes DEF Init, AccumInv, Zeros, Ahead
<1>5. MemoryInv
  BY DEF Init, MemoryInv, MemoryUpTo
<1>6. ConstantDelay
  BY DEF Init, ConstantDelay
<1> QED BY <1>1, <1>2, <1>3, <1>4, <1>5, <1>6 DEF SessionInv

\* A place of the line after a hop of n samples.
LEMMA LineEntry ==
  ASSUME TypeOK, NEW n \in 1..HopSize, Analyse(n), resetting = "none", NEW m \in Window
  PROVE  history'[m] = IF m < FftSize - HopSize THEN history[m + HopSize]
                       ELSE IF m - (FftSize - HopSize) < n
                              THEN taken + 1 + (m - (FftSize - HopSize))
                              ELSE history[m]
<1> DEFINE tail == [p \in Window |-> LET i == p - (FftSize - HopSize)
                                     IN  IF i < n THEN taken + 1 + i ELSE history[p]]
<1>1. history' = Shift(history, FftSize, tail)
  BY DEF Analyse
<1>2. tail[m] = IF m - (FftSize - HopSize) < n THEN taken + 1 + (m - (FftSize - HopSize))
                                               ELSE history[m]
  OBVIOUS
<1> HIDE DEF tail
<1>3. history'[m] = IF m < FftSize - HopSize THEN history[m + HopSize] ELSE tail[m]
  BY <1>1, Sizes, ShiftEntry
<1> QED BY <1>2, <1>3

LEMMA FrameStep ==
  ASSUME TypeOK, HopTaken, CrossInv, CleanInv, FrameInv, [Next]_vars
  PROVE  FrameInv'
<1>0. /\ taken \in Nat /\ reset_at \in Nat /\ count \in Nat /\ Window = 0..(FftSize - 1)
      /\ HopSize \in Nat /\ HopSize > 0 /\ FftSize \in Nat /\ FftSize > HopSize
      /\ whole \in 0..FftSize
  BY Sizes DEF TypeOK
<1>1. ASSUME NEW n \in 1..HopSize, Analyse(n) PROVE FrameInv'
  <2>1. /\ phase = "idle" /\ phase' = "analysed" /\ count' = n /\ taken' = taken + n
        /\ UNCHANGED <<resetting, reset_at>> /\ frame' = history'
    BY <1>1 DEF Analyse
  <2>2. CASE resetting # "none"
    BY <1>1, <2>1, <2>2 DEF Analyse, Cross, FrameInv
  <2>3. CASE resetting = "none"
    <3>1. ASSUME NEW i \in 0..(count' - 1)
          PROVE  history'[i + (FftSize - HopSize)] = Raw(i)'
      <4> DEFINE m == i + (FftSize - HopSize)
      <4>1. /\ m \in Window /\ ~(m < FftSize - HopSize)
            /\ m - (FftSize - HopSize) = i /\ i < n
        BY <1>0, <2>1
      <4> HIDE DEF m
      <4>a. history'[m] = IF m < FftSize - HopSize THEN history[m + HopSize]
                          ELSE IF m - (FftSize - HopSize) < n
                                 THEN taken + 1 + (m - (FftSize - HopSize)) ELSE history[m]
        BY <1>1, <2>3, <4>1, LineEntry
      <4>2. history'[i + (FftSize - HopSize)] = taken + 1 + i
        BY <4>1, <4>a DEF m
      <4> QED BY <1>0, <2>1, <4>2 DEF Raw
    <3>2. ASSUME NEW m \in Window, m >= FftSize - whole'
          PROVE  history'[m] = Due(m)'
      <4>1. n = HopSize /\ whole' = Filled(whole)
        BY <1>0, <1>1, <2>3, <3>2 DEF Analyse
      <4>2. taken' - FftSize + 1 + m = taken - FftSize + 1 + (m + HopSize)
        BY <1>0, <2>1, <4>1
      <4>3. CASE m < FftSize - HopSize
        <5>1. m + HopSize \in Window /\ m + HopSize >= FftSize - whole
          BY <1>0, <3>2, <4>1, <4>3 DEF Filled
        <5>2. history'[m] = history[m + HopSize]
          BY <1>1, <2>3, <4>3, LineEntry
        <5>3. history[m + HopSize] = Due(m + HopSize)
          BY <2>3, <5>1 DEF FrameInv
        <5> QED BY <2>1, <4>2, <5>2, <5>3 DEF Due
      <4>4. CASE ~(m < FftSize - HopSize)
        <5>1. m - (FftSize - HopSize) < n
              /\ taken + 1 + (m - (FftSize - HopSize)) = taken' - FftSize + 1 + m
              /\ taken' - FftSize + 1 + m > reset_at'
          BY <1>0, <2>1, <4>1, <4>4 DEF CrossInv
        <5>2. history'[m] = taken + 1 + (m - (FftSize - HopSize))
          BY <1>1, <2>3, <4>4, <5>1, LineEntry
        <5> QED BY <5>1, <5>2 DEF Due
      <4> QED BY <4>3, <4>4
    <3> QED BY <2>1, <3>1, <3>2 DEF FrameInv
  <2> QED BY <2>2, <2>3
<1>2. CASE PassThrough \/ Run \/ RunReturns \/ RunThrows \/ Persist \/ OverlapAdd
             \/ Extract \/ Advance
  <2>1. UNCHANGED <<taken, count, history, frame, resetting, reset_at, whole>>
    BY <1>2 DEF PassThrough, Run, RunReturns, RunThrows, Persist, OverlapAdd, Extract,
      Advance, stft, trust
  <2>2. phase # "idle" /\ (phase' # "idle" => crossed' = crossed)
    BY <1>2 DEF PassThrough, Run, RunReturns, RunThrows, Persist, OverlapAdd, Extract,
      Advance, Step, TypeOK
  <2>3. (\A n \in Window : Due(n)' = Due(n)) /\ \A i \in Nat : Raw(i)' = Raw(i)
    BY <2>1 DEF Due, Raw
  <2> QED BY <1>0, <2>1, <2>2, <2>3 DEF FrameInv
<1>3. CASE ResetBegins
  <2>1. resetting' = "history" /\ (phase' # "idle" => crossed')
    BY <1>3 DEF ResetBegins, Cross
  <2> QED BY <2>1 DEF FrameInv
<1>4. CASE Reset /\ ~ResetBegins
  <2>1. /\ UNCHANGED <<phase, taken, reset_at>> /\ resetting # "none"
        /\ phase # "idle" => crossed' = crossed
    BY <1>4 DEF Reset, ResetHistory, ResetAudio, ResetWeight, ResetHiddenIn,
      ResetHiddenOut, Refill, TypeOK
  <2>2. phase # "idle" => crossed'
    BY <2>1 DEF CrossInv
  <2>3. CASE resetting' # "none"
    BY <2>1, <2>2, <2>3 DEF FrameInv
  <2>4. CASE resetting' = "none"
    <3>1. /\ ResetHiddenOut /\ resetting = "hidden_out" /\ history' = history
      BY <1>4, <2>4 DEF Reset, ResetHistory, ResetAudio, ResetWeight, ResetHiddenIn,
        ResetHiddenOut, Refill, stft
    <3>2. CASE crossed
      <4>1. whole' = 0
        BY <1>0, <3>1, <3>2 DEF ResetHiddenOut, trust, CrossInv, TypeOK
      <4>2. \A n \in Window : ~(n >= FftSize - whole')
        BY <1>0, <4>1
      <4> QED BY <2>1, <2>2, <4>2 DEF FrameInv
    <3>3. CASE ~crossed
      <4>1. history = [n \in Window |-> Silence] /\ taken = reset_at
        BY <3>1, <3>3 DEF CleanInv
      <4>2. \A n \in Window : Due(n)' = Silence
        BY <1>0, <2>1, <4>1 DEF Due
      <4> QED BY <2>1, <2>2, <3>1, <4>1, <4>2 DEF FrameInv
    <3> QED BY <3>2, <3>3
  <2> QED BY <2>3, <2>4
<1>5. CASE UNCHANGED vars
  BY <1>5 DEF vars, stft, trust, FrameInv, Due, Raw
<1> QED BY <1>1, <1>2, <1>3, <1>4, <1>5 DEF Next, Process, Reset

------------------------------------------------------------------------------
\* The accumulators.

LEMMA FreshTerms ==
  /\ \A n \in Place : Zeros[n] = {}
  /\ \A size \in Nat, n \in Place : n >= size => Junk(size)[n] = {}
  /\ 0 \in Place
BY Sizes DEF Zeros, Junk

\* Overlap-add puts each place's sample and weight to those it has.
LEMMA OverlapAddStep ==
  ASSUME TypeOK, CrossInv, FrameInv, AccumInv, OverlapAdd
  PROVE  AccumInv'
<1>0. /\ Window = 0..(FftSize - 1) /\ Place = 0..(FftSize + 4 * HopSize - 1)
      /\ HopSize \in Nat /\ HopSize > 0 /\ FftSize \in Nat /\ FftSize > HopSize
      /\ steady \in 0..FftSize /\ Window \subseteq Place
  BY Sizes DEF TypeOK
<1>1. /\ phase = "inferred" /\ phase' = "added" /\ ~degraded /\ ~degraded'
      /\ UNCHANGED <<resetting, steady, history>> /\ crossed' = crossed
  BY DEF OverlapAdd, Step, CrossInv, TypeOK, trust
<1>2. Ahead = 0 /\ Ahead' = 0 /\ \A n \in Place : n + 0 = n
  BY <1>0, <1>1 DEF Ahead
<1>3. CASE crossed
  <2>1. accum_audio' = Junk(FftSize) /\ accum_weight' = Zeros /\ steady = 0
    BY <1>3 DEF OverlapAdd, CrossInv
  <2>2. \A n \in Place : n >= FftSize => accum_audio'[n] = {} /\ accum_weight'[n] = {}
    BY <1>0, <2>1, FreshTerms
  <2>3. \A n \in Place : ~(n < FftSize /\ n >= FftSize - steady)
    BY <1>0, <2>1
  <2>4. ~(0 >= FftSize - steady)
    BY <1>0, <2>1
  <2> QED BY <1>1, <1>2, <1>3, <2>2, <2>3, <2>4 DEF AccumInv
<1>4. CASE ~crossed
  <2>1. frame = history
    BY <1>1, <1>4 DEF FrameInv
  <2>2. ASSUME NEW n \in Window \ {0}
        PROVE  /\ accum_audio'[n] = accum_audio[n] \cup {[sample |-> history[n], window |-> n]}
               /\ accum_weight'[n] = accum_weight[n] \cup {n}
    BY <1>0, <1>4, <2>1, <2>2 DEF OverlapAdd
  <2>3. ASSUME NEW n \in Place, n \notin Window \ {0}
        PROVE  accum_audio'[n] = accum_audio[n] /\ accum_weight'[n] = accum_weight[n]
    BY <1>4, <2>3 DEF OverlapAdd
  <2>4. ASSUME NEW n \in Place, n >= FftSize
        PROVE  accum_audio'[n] = {} /\ accum_weight'[n] = {}
    <3>1. n \notin Window
      BY <1>0, <2>4
    <3> QED BY <1>1, <1>2, <2>3, <2>4, <3>1 DEF AccumInv
  <2>5. ASSUME resetting = "none", NEW n \in Place, n < FftSize, n >= FftSize - steady
        PROVE  /\ \A a \in accum_audio'[n] : a.sample = history[n]
               /\ accum_weight'[n] = {a.window : a \in accum_audio'[n]}
    <3>1. /\ \A a \in accum_audio[n] : a.sample = history[n]
          /\ accum_weight[n] = {a.window : a \in accum_audio[n]}
      BY <1>1, <1>2, <2>5 DEF AccumInv
    <3>2. CASE n \in Window \ {0}
      <4> DEFINE new == [sample |-> history[n], window |-> n]
      <4>1. new.sample = history[n] /\ new.window = n
        OBVIOUS
      <4>2. accum_audio'[n] = accum_audio[n] \cup {new} /\ accum_weight'[n] = accum_weight[n] \cup {n}
        BY <2>2, <3>2
      <4> HIDE DEF new
      <4>3. {a.window : a \in accum_audio'[n]} = {a.window : a \in accum_audio[n]} \cup {n}
        BY <4>1, <4>2
      <4> QED BY <3>1, <4>1, <4>2, <4>3
    <3>3. CASE n \notin Window \ {0}
      BY <2>3, <3>1, <3>3
    <3> QED BY <3>2, <3>3
  <2>6. ASSUME resetting = "none", 0 >= FftSize - steady, accum_weight'[0] = {}
        PROVE  history[0] = Silence
    <3>1. accum_weight[0] = {}
      BY <2>3, <2>6, FreshTerms
    <3> QED BY <1>1, <1>2, <2>6, <3>1 DEF AccumInv
  <2>7. \A n \in Window \ {0} : n \in accum_weight'[n]
    BY <2>2
  <2> QED BY <1>1, <1>2, <2>4, <2>5, <2>6, <2>7 DEF AccumInv
<1> QED BY <1>3, <1>4

\* The accumulators move as far as the line does with the next hop.
LEMMA AdvanceStep ==
  ASSUME TypeOK, CrossInv, AccumInv, Advance
  PROVE  AccumInv'
<1>0. /\ Window = 0..(FftSize - 1) /\ Place = 0..(FftSize + 4 * HopSize - 1)
      /\ HopSize \in Nat /\ HopSize > 0 /\ FftSize \in Nat /\ FftSize > HopSize
      /\ steady \in 0..FftSize
  BY Sizes DEF TypeOK
<1>1. /\ phase = "extracted" /\ phase' = "idle" /\ ~degraded /\ ~degraded'
      /\ UNCHANGED <<resetting, steady, history>>
  BY DEF Advance, Step, CrossInv, trust
<1>2. Ahead = 0 /\ Ahead' = HopSize
  BY <1>1 DEF Ahead
<1>3. CASE crossed
  <2>1. /\ accum_audio' = Junk(FftSize - HopSize) /\ accum_weight' = Zeros /\ steady = 0
    BY <1>3 DEF Advance, CrossInv
  <2>2. \A n \in Place : n + HopSize >= FftSize => accum_audio'[n] = {} /\ accum_weight'[n] = {}
    <3>1. \A n \in Place : n + HopSize >= FftSize => n >= FftSize - HopSize
      BY <1>0
    <3>2. FftSize - HopSize \in Nat
      BY <1>0
    <3> QED BY <2>1, <3>1, <3>2, FreshTerms
  <2>3. \A n \in Place : ~(n + HopSize < FftSize /\ n + HopSize >= FftSize - steady)
    BY <1>0, <2>1
  <2>4. ~(HopSize >= FftSize - steady)
    BY <1>0, <2>1
  <2> QED BY <1>1, <1>2, <2>2, <2>3, <2>4 DEF AccumInv
<1>4. CASE ~crossed
  <2> DEFINE size == FftSize + 4 * HopSize
  <2>1. size \in Nat /\ Place = 0..(size - 1)
    BY <1>0
  <2>2. ASSUME NEW n \in Place
        PROVE  \/ /\ n + HopSize \in Place /\ n + HopSize + 0 = n + HopSize
                  /\ accum_audio'[n] = accum_audio[n + HopSize]
                  /\ accum_weight'[n] = accum_weight[n + HopSize]
               \/ accum_audio'[n] = {} /\ accum_weight'[n] = {} /\ n + HopSize >= FftSize
    <3>1. /\ accum_audio' = Shift(accum_audio, size, Zeros)
          /\ accum_weight' = Shift(accum_weight, size, Zeros)
      BY <1>4 DEF Advance
    <3>2. n < size - HopSize => n + HopSize \in Place /\ n + HopSize + 0 = n + HopSize
      BY <1>0
    <3>3. ~(n < size - HopSize) => n + HopSize >= FftSize
      BY <1>0
    <3> HIDE DEF size
    <3>4. /\ accum_audio'[n] = IF n < size - HopSize THEN accum_audio[n + HopSize] ELSE Zeros[n]
          /\ accum_weight'[n] = IF n < size - HopSize THEN accum_weight[n + HopSize] ELSE Zeros[n]
      BY <2>1, <3>1, ShiftEntry
    <3> QED BY <3>2, <3>3, <3>4, FreshTerms
  <2>3. ASSUME NEW n \in Place, n + HopSize >= FftSize
        PROVE  accum_audio'[n] = {} /\ accum_weight'[n] = {}
    BY <1>1, <1>2, <2>2, <2>3 DEF AccumInv
  <2>4. ASSUME resetting = "none", NEW n \in Place, n + HopSize < FftSize,
               n + HopSize >= FftSize - steady
        PROVE  /\ \A a \in accum_audio'[n] : a.sample = history[n + HopSize]
               /\ accum_weight'[n] = {a.window : a \in accum_audio'[n]}
    <3>1. /\ n + HopSize \in Place /\ n + HopSize + 0 = n + HopSize
          /\ accum_audio'[n] = accum_audio[n + HopSize]
          /\ accum_weight'[n] = accum_weight[n + HopSize]
      BY <1>0, <2>2, <2>4
    <3> QED BY <1>1, <1>2, <2>4, <3>1 DEF AccumInv
  <2>5. accum_weight'[0] # {}
    <3>1. HopSize \in Window \ {0} /\ 0 \in Place /\ 0 + HopSize = HopSize /\ ~(HopSize >= FftSize)
      BY <1>0
    <3>2. HopSize \in accum_weight[HopSize]
      BY <1>1, <1>4, <3>1 DEF AccumInv
    <3>3. accum_weight'[0] = accum_weight[0 + HopSize]
      BY <2>2, <3>1
    <3> QED BY <3>1, <3>2, <3>3
  <2> QED BY <1>1, <1>2, <2>3, <2>4, <2>5 DEF AccumInv
<1> QED BY <1>3, <1>4

\* A hop moves the line to where the accumulators are.
LEMMA AnalyseStep ==
  ASSUME TypeOK, AccumInv, NEW n \in 1..HopSize, Analyse(n)
  PROVE  AccumInv'
<1>0. /\ Window = 0..(FftSize - 1) /\ Place = 0..(FftSize + 4 * HopSize - 1)
      /\ HopSize \in Nat /\ HopSize > 0 /\ FftSize \in Nat /\ FftSize > HopSize
      /\ steady \in 0..FftSize
  BY Sizes DEF TypeOK
<1>1. /\ phase = "idle" /\ phase' = "analysed"
      /\ UNCHANGED <<resetting, degraded, accum_audio, accum_weight>>
  BY DEF Analyse
<1>2. Ahead = HopSize /\ Ahead' = 0 /\ \A m \in Place : m + 0 = m
  BY <1>0, <1>1 DEF Ahead
<1>3. \A m \in Place : m >= FftSize => m + HopSize >= FftSize
  BY <1>0
<1>4. CASE degraded
  BY <1>1, <1>4 DEF AccumInv
<1>5. CASE ~degraded /\ resetting # "none"
  BY <1>1, <1>2, <1>3, <1>5 DEF AccumInv
<1>6. CASE ~degraded /\ resetting = "none"
  <2>1. steady' = Filled(steady)
    BY <1>6 DEF Analyse
  <2>2. ASSUME NEW m \in Place, m < FftSize, m >= FftSize - steady'
        PROVE  /\ \A a \in accum_audio[m] : a.sample = history'[m]
               /\ accum_weight[m] = {a.window : a \in accum_audio[m]}
    <3>1. CASE m < FftSize - HopSize
      <4>1. m \in Window /\ m + HopSize < FftSize /\ m + HopSize >= FftSize - steady
        BY <1>0, <2>1, <2>2, <3>1 DEF Filled
      <4>2. history'[m] = history[m + HopSize]
        BY <1>6, <3>1, <4>1, LineEntry
      <4> QED BY <1>1, <1>2, <1>6, <4>1, <4>2 DEF AccumInv
    <3>2. CASE ~(m < FftSize - HopSize)
      <4>1. m + HopSize >= FftSize
        BY <1>0, <3>2
      <4>2. accum_audio[m] = {} /\ accum_weight[m] = {}
        BY <1>2, <1>6, <4>1 DEF AccumInv
      <4> QED BY <4>2
    <3> QED BY <3>1, <3>2
  <2>3. ASSUME 0 >= FftSize - steady', accum_weight[0] = {}
        PROVE  history'[0] = Silence
    <3>1. 0 \in Window /\ 0 < FftSize - HopSize /\ 0 + HopSize = HopSize
          /\ HopSize >= FftSize - steady
      BY <1>0, <2>1, <2>3 DEF Filled
    <3>2. history'[0] = history[0 + HopSize]
      BY <1>6, <3>1, LineEntry
    <3> QED BY <1>2, <1>6, <2>3, <3>1, <3>2 DEF AccumInv
  <2> QED BY <1>1, <1>2, <1>3, <1>6, <2>2, <2>3 DEF AccumInv
<1> QED BY <1>4, <1>5, <1>6

\* A reset() leaves silence, or nothing that is known.
LEMMA RefillStep ==
  ASSUME TypeOK, CrossInv, CleanInv, AccumInv, Reset /\ ~ResetBegins
  PROVE  AccumInv'
<1>0. /\ Window = 0..(FftSize - 1) /\ Place = 0..(FftSize + 4 * HopSize - 1)
      /\ HopSize \in Nat /\ HopSize > 0 /\ FftSize \in Nat /\ FftSize > HopSize
      /\ steady \in 0..FftSize
  BY Sizes DEF TypeOK
<1>1. /\ UNCHANGED <<phase, degraded>> /\ resetting # "none" /\ Ahead' = Ahead
      /\ (phase # "idle" => crossed')
  BY DEF Reset, ResetHistory, ResetAudio, ResetWeight, ResetHiddenIn, ResetHiddenOut,
    Refill, TypeOK, CrossInv, Ahead
<1>2. ASSUME ~degraded, NEW n \in Place, n + Ahead >= FftSize
      PROVE  accum_audio'[n] = {} /\ accum_weight'[n] = {}
  <2>1. accum_audio[n] = {} /\ accum_weight[n] = {}
    BY <1>2 DEF AccumInv
  <2>2. Reach \in Nat /\ n >= Reach
    BY <1>0, <1>2 DEF Ahead, Reach
  <2>3. accum_audio' \in {accum_audio, Junk(Reach), Zeros} /\ accum_weight' \in {accum_weight, Zeros}
    BY DEF Reset, ResetHistory, ResetAudio, ResetWeight, ResetHiddenIn, ResetHiddenOut, stft
  <2> QED BY <2>1, <2>2, <2>3, FreshTerms
<1>3. CASE resetting' # "none"
  BY <1>1, <1>2, <1>3 DEF AccumInv
<1>4. CASE resetting' = "none"
  <2>1. /\ ResetHiddenOut /\ resetting = "hidden_out"
        /\ UNCHANGED <<history, accum_audio, accum_weight>>
    BY <1>4 DEF Reset, ResetHistory, ResetAudio, ResetWeight, ResetHiddenIn,
      ResetHiddenOut, Refill, stft
  <2>2. CASE crossed
    <3>1. steady' = 0 /\ Ahead < FftSize
      BY <1>0, <2>1, <2>2 DEF ResetHiddenOut, trust, CrossInv, Ahead
    <3>2. (\A n \in Place : ~(n + Ahead < FftSize /\ n + Ahead >= FftSize - steady'))
          /\ ~(Ahead >= FftSize - steady')
      BY <1>0, <3>1 DEF Ahead
    <3> QED BY <1>1, <1>2, <3>2 DEF AccumInv
  <2>3. CASE ~crossed
    <3>1. /\ phase = "idle" /\ history = [n \in Window |-> Silence]
          /\ accum_audio = Zeros /\ accum_weight = Zeros
      BY <2>1, <2>3 DEF CleanInv
    <3>2. \A n \in Place : accum_audio'[n] = {} /\ accum_weight'[n] = {}
      BY <2>1, <3>1, FreshTerms
    <3>3. Ahead' \in Window /\ history'[Ahead'] = Silence
      BY <1>0, <1>1, <2>1, <3>1 DEF Ahead
    <3> QED BY <1>1, <3>1, <3>2, <3>3 DEF AccumInv
  <2> QED BY <2>2, <2>3
<1> QED BY <1>3, <1>4

LEMMA AccumStep ==
  ASSUME TypeOK, CrossInv, CleanInv, FrameInv, AccumInv, [Next]_vars
  PROVE  AccumInv'
<1>1. CASE \E n \in 1..HopSize : Analyse(n)
  BY <1>1, AnalyseStep
<1>2. CASE PassThrough \/ RunThrows
  BY <1>2 DEF PassThrough, RunThrows, AccumInv
<1>3. CASE Run \/ RunReturns \/ Persist \/ Extract
  <2>1. /\ phase # "idle" /\ phase' # "idle" /\ (phase' \in {"added", "extracted"} => phase = "added")
        /\ crossed' = crossed
        /\ UNCHANGED <<degraded, resetting, history, accum_audio, accum_weight, steady>>
    BY <1>3 DEF Run, RunReturns, Persist, Extract, Step, TypeOK, stft, trust
  <2>2. Ahead' = Ahead
    BY <2>1 DEF Ahead
  <2> QED BY <2>1, <2>2 DEF AccumInv
<1>4. CASE OverlapAdd
  BY <1>4, OverlapAddStep
<1>5. CASE Advance
  BY <1>5, AdvanceStep
<1>6. CASE ResetBegins
  <2>1. /\ resetting' = "history" /\ (phase' # "idle" => crossed')
        /\ UNCHANGED <<phase, degraded, accum_audio, accum_weight>>
    BY <1>6 DEF ResetBegins, Cross, stft
  <2>2. Ahead' = Ahead
    BY <2>1 DEF Ahead
  <2> QED BY <2>1, <2>2 DEF AccumInv
<1>7. CASE Reset /\ ~ResetBegins
  BY <1>7, RefillStep
<1>8. CASE UNCHANGED vars
  BY <1>8 DEF vars, AccumInv, Ahead, stft, trust
<1> QED BY <1>1, <1>2, <1>3, <1>4, <1>5, <1>6, <1>7, <1>8 DEF Next, Process, Reset

------------------------------------------------------------------------------
\* The GRU state.

LEMMA MemoryStep ==
  ASSUME TypeOK, HopTaken, CrossInv, CleanInv, MemoryInv, [Next]_vars
  PROVE  MemoryInv'
<1>0. taken \in Nat /\ reset_at \in Nat /\ count \in Nat
  BY Sizes DEF TypeOK
<1>1. ASSUME NEW n \in 1..HopSize, Analyse(n) PROVE MemoryInv'
  <2>1. /\ phase = "idle" /\ phase' = "analysed" /\ taken' = taken + n /\ count' = n
        /\ UNCHANGED <<resetting, reset_at, degraded, hidden_in>>
    BY <1>1 DEF Analyse, hidden
  <2>2. taken' - count' = taken
    BY <1>0, <2>1
  <2>3. ~lost' => ~lost /\ resetting = "none"
    BY <1>1 DEF Analyse, Cross
  <2> QED BY <2>1, <2>2, <2>3 DEF MemoryInv, MemoryUpTo
<1>2. CASE PassThrough \/ RunThrows
  BY <1>2 DEF PassThrough, RunThrows, MemoryInv
<1>3. CASE RunReturns
  <2>1. /\ phase = "running" /\ phase' = "ran"
        /\ UNCHANGED <<taken, count, reset_at, degraded, lost>>
    BY <1>3 DEF RunReturns, Step, trust
  <2>2. SUFFICES ASSUME ~degraded, ~lost
                 PROVE  hidden_out' = MemoryUpTo(taken)
    BY <2>1 DEF MemoryInv, MemoryUpTo
  <2>3. ~crossed /\ reset_at + count <= taken /\ count > 0
    BY <2>1, <2>2 DEF CrossInv
  <2>4. hidden_out' = Remember(hidden_in) /\ hidden_in = MemoryUpTo(taken - count)
    BY <1>3, <2>1, <2>2, <2>3 DEF RunReturns, Written, MemoryInv
  <2>5. CASE taken - count = reset_at
    <3>1. hidden_in = Blank /\ Blank # Mixed /\ taken # reset_at
      BY <1>0, <2>3, <2>4, <2>5 DEF MemoryUpTo, Blank, Mixed
    <3> QED BY <2>4, <2>5, <3>1 DEF MemoryUpTo, Remember
  <2>6. CASE taken - count # reset_at
    <3>1. hidden_in = [since |-> reset_at, last |-> taken - count] /\ taken # reset_at
          /\ taken - count # 0
      BY <1>0, <2>3, <2>4, <2>6 DEF MemoryUpTo
    <3>2. hidden_in.since = reset_at /\ hidden_in.last # 0
      BY <3>1
    <3>3. hidden_in # Blank /\ hidden_in # Mixed
      BY <3>2 DEF Blank, Mixed
    <3> QED BY <2>4, <3>1, <3>2, <3>3 DEF MemoryUpTo, Remember
  <2> QED BY <2>5, <2>6
<1>4. CASE Persist
  <2>1. /\ phase = "ran" /\ phase' = "inferred"
        /\ UNCHANGED <<taken, reset_at, degraded, lost>>
        /\ hidden_in' \in Written(hidden_out)
    BY <1>4 DEF Persist, Step, trust
  <2>2. ~lost => ~crossed
    BY DEF CrossInv
  <2> QED BY <2>1, <2>2 DEF MemoryInv, MemoryUpTo, Written
<1>5. CASE Run \/ OverlapAdd \/ Extract \/ Advance
  <2>1. /\ UNCHANGED <<taken, count, reset_at, degraded, lost, hidden_in, hidden_out>>
        /\ \/ phase = "analysed" /\ phase' = "running"
           \/ /\ phase \in {"inferred", "added", "extracted"}
              /\ phase' \in {"added", "extracted", "idle"}
    BY <1>5 DEF Run, OverlapAdd, Extract, Advance, Step, hidden, trust
  <2> QED BY <2>1 DEF MemoryInv, MemoryUpTo
<1>6. CASE ResetBegins
  <2>1. /\ resetting' = "history" /\ phase' = phase /\ (phase # "idle" => lost')
    BY <1>6 DEF ResetBegins, Cross
  <2> QED BY <2>1 DEF MemoryInv
<1>7. CASE Reset /\ ~ResetBegins
  <2>1. /\ UNCHANGED <<phase, taken, degraded, reset_at>> /\ resetting # "none"
        /\ (lost => lost' \/ ~crossed)
    BY <1>7 DEF Reset, ResetHistory, ResetAudio, ResetWeight, ResetHiddenIn,
      ResetHiddenOut, Refill, trust, TypeOK
  <2>2. phase # "idle" => lost'
    BY <2>1 DEF CrossInv
  <2>3. CASE resetting' # "none"
    BY <2>1, <2>2, <2>3 DEF MemoryInv
  <2>4. CASE resetting' = "none"
    <3>1. ResetHiddenOut /\ resetting = "hidden_out" /\ hidden_in' = hidden_in
      BY <1>7, <2>4 DEF Reset, ResetHistory, ResetAudio, ResetWeight, ResetHiddenIn,
        ResetHiddenOut, Refill
    <3>2. crossed => lost'
      BY <3>1 DEF ResetHiddenOut, trust, CrossInv
    <3>3. ~crossed => hidden_in = Blank /\ taken = reset_at
      BY <3>1 DEF CleanInv
    <3> QED BY <2>1, <2>2, <3>1, <3>2, <3>3 DEF MemoryInv, MemoryUpTo
  <2> QED BY <2>3, <2>4
<1>8. CASE UNCHANGED vars
  BY <1>8 DEF vars, hidden, trust, MemoryInv, MemoryUpTo
<1> QED BY <1>1, <1>2, <1>3, <1>4, <1>5, <1>6, <1>7, <1>8 DEF Next, Process, Reset

------------------------------------------------------------------------------
\* The answers.

\* A synthesised sample whose place nothing has disturbed is the one on the line.
LEMMA ExtractLine ==
  ASSUME TypeOK, CrossInv, AccumInv, Extract, NEW i \in Hop, i < count, i >= FftSize - steady
  PROVE  /\ resetting = "none"
         /\ out'[i] = history[i]
<1>0. /\ Window = 0..(FftSize - 1)
      /\ HopSize \in Nat /\ HopSize > 0 /\ FftSize \in Nat /\ FftSize > HopSize
      /\ i \in Window /\ i \in Place /\ i \in Nat /\ i < FftSize
      /\ steady \in 0..FftSize
  BY Sizes DEF TypeOK
<1>1. phase = "added" /\ ~degraded
  BY DEF Extract, Step, CrossInv
<1>2. ~crossed /\ resetting = "none"
  BY <1>0, <1>1 DEF CrossInv
<1>3. Ahead = 0 /\ i + 0 = i
  BY <1>0, <1>1 DEF Ahead
<1>4. out'[i] = Normalised(accum_audio[i], accum_weight[i])
  BY <1>2 DEF Extract, Emit, Synthesised
<1>5. /\ \A a \in accum_audio[i] : a.sample = history[i]
      /\ accum_weight[i] = {a.window : a \in accum_audio[i]}
  BY <1>0, <1>1, <1>2, <1>3 DEF AccumInv
<1>6. out'[i] = IF accum_audio[i] = {} THEN Silence ELSE history[i]
  BY <1>4, <1>5, NormalisedOne
<1>7. ASSUME accum_audio[i] = {} PROVE history[i] = Silence
  <2>1. accum_weight[i] = {}
    BY <1>5, <1>7
  <2>2. i = 0
    BY <1>0, <1>1, <1>2, <2>1 DEF AccumInv
  <2> QED BY <1>1, <1>2, <1>3, <2>1, <2>2 DEF AccumInv
<1> QED BY <1>2, <1>6, <1>7

\* The synthesised hop is what is due.
LEMMA OutStep ==
  ASSUME TypeOK, HopTaken, CrossInv, CleanInv, FrameInv, AccumInv, ConstantDelay, [Next]_vars
  PROVE  ConstantDelay'
<1>0. /\ taken \in Nat /\ HopSize \in Nat /\ FftSize \in Nat /\ FftSize > HopSize
      /\ Hop = 0..(HopSize - 1) /\ Hop \subseteq Window
      /\ count \in 0..HopSize /\ whole \in 0..FftSize /\ steady \in 0..FftSize
  BY Sizes DEF TypeOK
<1>1. CASE Extract
  <2>1. phase' = "extracted" /\ UNCHANGED <<taken, reset_at, count, whole>>
    BY <1>1 DEF Extract, Step, trust
  <2>2. ASSUME NEW i \in 0..(count - 1), i >= FftSize - whole
        PROVE  out'[i] = Due(i)
    <3>1. i \in Hop /\ i < count /\ i >= FftSize - steady /\ i \in Window
      BY <1>0, <2>2 DEF CrossInv
    <3>2. resetting = "none" /\ out'[i] = history[i]
      BY <1>1, <3>1, ExtractLine
    <3> QED BY <2>2, <3>1, <3>2 DEF FrameInv
  <2> QED BY <2>1, <2>2 DEF ConstantDelay, Due
<1>2. CASE \/ \E n \in 1..HopSize : Analyse(n)
           \/ PassThrough \/ Run \/ RunReturns \/ RunThrows \/ Persist \/ OverlapAdd \/ Advance
  <2>1. phase' # "extracted"
    BY <1>2 DEF Analyse, PassThrough, Run, RunReturns, RunThrows, Persist, OverlapAdd,
      Advance, Step
  <2> QED BY <2>1 DEF ConstantDelay
<1>3. CASE ResetBegins
  <2>1. UNCHANGED <<phase, count>> /\ (phase # "idle" => whole' = 0)
    BY <1>3 DEF ResetBegins, Cross
  <2>2. \A i \in 0..(count - 1) : ~(i >= FftSize - 0)
    BY <1>0
  <2> QED BY <2>1, <2>2 DEF ConstantDelay
<1>4. CASE Reset /\ ~ResetBegins
  <2>1. /\ UNCHANGED <<phase, taken, count, out, reset_at>> /\ resetting # "none"
        /\ whole' = whole \/ ~crossed
    BY <1>4 DEF Reset, ResetHistory, ResetAudio, ResetWeight, ResetHiddenIn,
      ResetHiddenOut, Refill, trust
  <2>2. phase # "idle" => whole' = whole
    BY <2>1 DEF CrossInv
  <2> QED BY <2>1, <2>2 DEF ConstantDelay, Due
<1>5. CASE UNCHANGED vars
  BY <1>5 DEF vars, trust, ConstantDelay, Due
<1> QED BY <1>1, <1>2, <1>3, <1>4, <1>5 DEF Next, Process, Reset

THEOREM SessionCorrect == Spec => []SessionInv
<1>1. SessionInv /\ [Next]_vars => SessionInv'
  BY StepTyped, CrossStep, CleanStep, FrameStep, AccumStep, MemoryStep, OutStep DEF SessionInv
<1> QED BY InitSession, <1>1, PTL DEF Spec

\* The enhanced branch lags the input by FftSize - HopSize samples exactly, whenever
\* FftSize places have been filled since a reset() crossed a hop and a hop was short
\* (process_synthesis_complex in stft.cpp).
THEOREM Delay == Spec => []ConstantDelay
<1>1. SessionInv => ConstantDelay
  BY DEF SessionInv
<1> QED BY SessionCorrect, <1>1, PTL

\* Unless degraded, an inference starts from the state of the session, all of it
\* and nothing older, as long as no reset() has met it under way (infer and
\* reset_state in onnx_engine.cpp).
THEOREM SessionMemory == Spec => []MemoryOfSession
<1>1. SessionInv => MemoryOfSession
  BY DEF SessionInv, MemoryInv, MemoryUpTo, MemoryOfSession
<1> QED BY SessionCorrect, <1>1, PTL

------------------------------------------------------------------------------
\* The refinement of the delay line.

\* Analysis shifts a hop of new samples into the history.
LEMMA AnalyseFeeds ==
  ASSUME TypeOK, NEW n \in 1..HopSize, Analyse(n)
  PROVE  \E hop \in [0..(n - 1) -> 1..MaxSamples] : Line!Feed(hop, n)
<1>0. /\ taken \in Nat /\ MaxSamples \in Nat /\ Window = 0..(FftSize - 1)
      /\ HopSize \in Nat /\ HopSize > 0 /\ FftSize \in Nat /\ FftSize > HopSize
  BY Sizes DEF TypeOK
<1> DEFINE hop == [i \in 0..(n - 1) |-> taken + 1 + i]
<1>1. hop \in [0..(n - 1) -> 1..MaxSamples]
  <2>1. ASSUME NEW i \in 0..(n - 1) PROVE taken + 1 + i \in 1..MaxSamples
    BY <1>0, <2>1 DEF Analyse
  <2> QED BY <2>1
<1>2. /\ phase = "idle" /\ phase' = "analysed" /\ count' = n
      /\ UNCHANGED <<out, degraded, resetting>>
  BY DEF Analyse
<1>3. CASE resetting = "none"
  <2>1. ASSUME NEW m \in Window
        PROVE  history'[m] = IF m < FftSize - HopSize THEN history[m + HopSize]
                             ELSE IF m - (FftSize - HopSize) < n THEN hop[m - (FftSize - HopSize)]
                             ELSE history[m]
    <3>1. ~(m < FftSize - HopSize) /\ m - (FftSize - HopSize) < n =>
            m - (FftSize - HopSize) \in 0..(n - 1)
      BY <1>0
    <3> QED BY <1>3, <3>1, LineEntry
  <2>2. history' = [m \in Window |-> history'[m]]
    BY HistoryType
  <2> HIDE DEF hop
  <2>3. history' = [m \in Window |->
          IF m < FftSize - HopSize THEN history[m + HopSize]
          ELSE IF m - (FftSize - HopSize) < n THEN hop[m - (FftSize - HopSize)]
          ELSE history[m]]
    BY <2>1, <2>2, Zenon
  <2>4. steady' = IF steady + HopSize < FftSize THEN steady + HopSize ELSE FftSize
    BY <1>3 DEF Analyse, Filled
  <2>5. Line!Feed(hop, n)
    BY <1>2, <1>3, <2>3, <2>4 DEF Line!Feed, Line!Window, Window, Phase
  <2> QED BY <1>1, <2>5
<1>4. CASE resetting # "none"
  <2>1. history' = Unknown /\ steady' = 0
    BY <1>4 DEF Analyse, Cross
  <2>2. Line!Lost
    BY <2>1 DEF Line!Lost, Line!Window, Line!Value, Window, Unknown
  <2> HIDE DEF hop
  <2>3. Line!Feed(hop, n)
    BY <1>2, <1>4, <2>2 DEF Line!Feed, Phase
  <2> QED BY <1>1, <2>3
<1> QED BY <1>3, <1>4

\* What is heard of the branch is on the line's side a sample, silence or garbled.
LEMMA LineValues == Line!Value = Heard /\ Line!Window = Window /\ Line!Hop = Hop
BY Sizes DEF Line!Value, Line!Window, Line!Hop, Window, Hop, Heard, Silence

\* Synthesis answers with the front of the history.
LEMMA ExtractAnswers ==
  ASSUME TypeOK, TypeOK', CrossInv, AccumInv, Extract
  PROVE  Line!Answer
<1>1. /\ phase = "added" /\ phase' = "extracted" /\ ~degraded
      /\ UNCHANGED <<history, steady, count, degraded, resetting>>
  BY DEF Extract, Step, stft, trust, CrossInv
<1>2. out' \in [Hop -> Heard]
  BY DEF TypeOK
<1>3. ASSUME NEW i \in Hop, i < count, 0 + i >= FftSize - steady
      PROVE  out'[i] = history[0 + i]
  <2>1. 0 + i = i
    BY Sizes
  <2> QED BY <1>3, <2>1, ExtractLine
<1>4. \A i \in Hop : i >= count => out'[i] = out[i]
  BY Sizes DEF Extract, Emit, TypeOK
<1> QED BY <1>1, <1>2, <1>3, <1>4, LineValues DEF Line!Answer, Line!AnswerFrom, Phase

\* What is passed through is the newest hop of the history.
LEMMA RawAnswers ==
  ASSUME TypeOK, TypeOK', CrossInv, FrameInv, PassThrough \/ RunThrows
  PROVE  Line!AnswerRaw
<1>0. /\ Hop = 0..(HopSize - 1) /\ HopSize \in Nat /\ FftSize \in Nat /\ FftSize > HopSize
      /\ steady \in 0..FftSize /\ count \in 0..HopSize
  BY Sizes DEF TypeOK
<1>1. /\ phase # "idle" /\ phase # "extracted" /\ phase \in Phase /\ phase' = "idle" /\ degraded' = TRUE
      /\ UNCHANGED <<history, steady, count, resetting>> /\ Emit(Raw)
  BY DEF PassThrough, RunThrows, Step, stft, trust, TypeOK
<1>2. out' \in [Hop -> Heard]
  BY DEF TypeOK
<1>3. ASSUME NEW i \in Hop, i < count, FftSize - HopSize + i >= FftSize - steady
      PROVE  out'[i] = history[FftSize - HopSize + i]
  <2>1. i \in 0..(count - 1) /\ i + (FftSize - HopSize) = FftSize - HopSize + i /\ steady # 0
    BY <1>0, <1>3
  <2>2. ~crossed
    BY <2>1 DEF CrossInv
  <2>3. history[i + (FftSize - HopSize)] = Raw(i)
    BY <1>1, <2>1, <2>2 DEF FrameInv
  <2>4. out'[i] = Raw(i)
    BY <1>1, <1>3 DEF Emit
  <2> QED BY <2>1, <2>3, <2>4
<1>4. \A i \in Hop : i >= count => out'[i] = out[i]
  BY <1>0, <1>1 DEF Emit
<1> QED BY <1>1, <1>2, <1>3, <1>4, LineValues DEF Line!AnswerRaw, Line!AnswerFrom, Phase

\* A reset() is seen where it begins, where it fills the history, and where it ends.
LEMMA ResetClears ==
  ASSUME TypeOK, CrossInv, CleanInv, Reset
  PROVE  [Line!Next]_(Line!vars)
<1>0. history \in [Line!Window -> Line!Value]
  BY LineValues DEF TypeOK
<1>1. CASE ResetBegins /\ phase = "idle"
  <2>1. Line!BeginClear
    BY <1>1 DEF ResetBegins, Line!BeginClear, stft, trust
  <2> QED BY <2>1 DEF Line!Next
<1>2. CASE ResetBegins /\ phase # "idle"
  <2>1. /\ steady' = 0 /\ resetting' = "history"
        /\ UNCHANGED <<history, phase, count, out, degraded>>
    BY <1>2 DEF ResetBegins, Cross, stft
  <2>2. Line!Lost
    BY <1>0, <2>1 DEF Line!Lost
  <2>3. Line!Lose
    BY <2>1, <2>2 DEF Line!Lose
  <2> QED BY <2>3 DEF Line!Next
<1>3. CASE ResetHistory
  <2>1. /\ resetting # "none" /\ resetting' # "none"
        /\ UNCHANGED <<steady, phase, count, out, degraded>>
    BY <1>3 DEF ResetHistory, Refill, trust
  <2>2. CASE crossed
    <3>1. history' = Unknown /\ steady' = 0
      BY <1>3, <2>1, <2>2 DEF ResetHistory, CrossInv
    <3>2. Line!Lost
      BY <3>1, LineValues DEF Line!Lost, Unknown, Heard
    <3>3. Line!Lose
      BY <2>1, <3>2 DEF Line!Lose
    <3> QED BY <3>3 DEF Line!Next
  <2>3. CASE ~crossed
    <3>1. history' = [n \in Window |-> Silence] /\ phase = "idle"
      BY <1>3, <2>1, <2>3 DEF ResetHistory, CleanInv
    <3>2. Line!Clear
      BY <2>1, <3>1, LineValues DEF Line!Clear
    <3> QED BY <3>2 DEF Line!Next
  <2> QED BY <2>2, <2>3
<1>4. CASE ResetAudio \/ ResetWeight \/ ResetHiddenIn
  <2>1. /\ resetting # "none" /\ resetting' # "none"
        /\ UNCHANGED <<history, steady, phase, count, out, degraded>>
    BY <1>4 DEF ResetAudio, ResetWeight, ResetHiddenIn, Refill, stft, trust
  <2> QED BY <2>1 DEF Line!vars
<1>5. CASE ResetHiddenOut
  <2>1. /\ resetting = "hidden_out" /\ resetting' = "none"
        /\ UNCHANGED <<history, phase, count, out, degraded>>
    BY <1>5 DEF ResetHiddenOut, Refill, stft
  <2>2. \/ steady = 0 /\ steady' = steady
        \/ history = [n \in Line!Window |-> Silence] /\ steady' = FftSize
    BY <1>5, <2>1, LineValues DEF ResetHiddenOut, trust, CrossInv, CleanInv
  <2>3. Line!EndClear
    BY <2>1, <2>2 DEF Line!EndClear
  <2> QED BY <2>3 DEF Line!Next
<1> QED BY <1>1, <1>2, <1>3, <1>4, <1>5 DEF Reset

\* What happens to a hop in between, and the other fills of a reset, are hidden.
LEMMA LineStep ==
  ASSUME SessionInv, SessionInv', [Next]_vars
  PROVE  [Line!Next]_(Line!vars)
<1> USE DEF SessionInv
<1>1. ASSUME NEW n \in 1..HopSize, Analyse(n) PROVE [Line!Next]_(Line!vars)
  BY <1>1, AnalyseFeeds DEF Line!Next
<1>2. CASE Extract
  BY <1>2, ExtractAnswers DEF Line!Next
<1>3. CASE PassThrough \/ RunThrows
  BY <1>3, RawAnswers DEF Line!Next
<1>4. CASE Run \/ RunReturns \/ Persist \/ OverlapAdd \/ Advance
  BY <1>4 DEF Run, RunReturns, Persist, OverlapAdd, Advance, Step, stft, trust, Phase, Line!vars
<1>5. CASE Reset
  BY <1>5, ResetClears
<1>6. CASE UNCHANGED vars
  BY <1>6 DEF vars, stft, trust, Line!vars
<1> QED BY <1>1, <1>2, <1>3, <1>4, <1>5, <1>6 DEF Next, Process

\* The enhancement branch implements the delay line: whatever fails, however short the
\* hops are and whenever it is reset, each hop is answered once, by what is on the line,
\* and from the first failure on by itself; only a reset() that crosses a hop loses the
\* line (process_analysis, process_synthesis_complex and reset in stft.cpp, infer in
\* onnx_engine.cpp).
THEOREM BranchIsDelayLine == Spec => IsDelayLine
<1>1. Init => Line!Init
  BY LineValues DEF Init, Line!Init, Phase
<1>2. SessionInv /\ SessionInv' /\ [Next]_vars => [Line!Next]_(Line!vars)
  BY LineStep
<1> QED BY <1>1, <1>2, SessionCorrect, PTL DEF Spec, IsDelayLine, Line!Spec
===============================================================================
