----------------------------- MODULE SpectralPath -----------------------------
(***************************************************************************)
(* The enhancement branch of RealtimePipeline: StftEngine (dsp/stft.cpp)   *)
(* and SpeechEnhancer (ai/onnx_engine.cpp) as processing_thread_loop calls *)
(* them for each hop, and the part of reset() that concerns them, which    *)
(* main (in start()) and the IPC thread call without a lock.               *)
(*                                                                         *)
(* A sample is its number in the input, from 1; Silence stands for zero.   *)
(* Transform, network and inverse transform keep a sample's place in the   *)
(* window and are abstracted to that.  The GRU state is abstracted to the  *)
(* span of input it remembers.  Where a reset() and a hop cross, they race *)
(* for the buffers: what either leaves there is unknown.  One reset() runs *)
(* at a time.                                                              *)
(***************************************************************************)
EXTENDS Integers

CONSTANTS
  FftSize,             \* fft_size_
  HopSize,             \* hop_size_
  MaxSamples           \* the input is followed up to this sample

ASSUME SpectralAssumption ==
  /\ HopSize \in Nat \ {0}
  /\ FftSize \in Nat /\ FftSize > HopSize
  /\ MaxSamples \in Nat

VARIABLES
  phase,          \* where processing_thread_loop is in its iteration
  taken,          \* samples analysed so far
  count,          \* of these, the ones of the last hop
  history,        \* history_buffer_
  frame,          \* the frame in fft_out_ and complex_out
  accum_audio,    \* per place the samples added, each with its place in the window
  accum_weight,   \* per place the window places whose weight was added
  hidden_in,      \* hidden_in_buffer_
  hidden_out,     \* output_hidden_buffer_
  degraded,       \* degraded_mode_, or not initialized_
  out,            \* ai_hop_out
  resetting,      \* the next buffer reset() fills with zeros, or "none"
  crossed,        \* have the hop and the reset() under way crossed?
  \* For the properties, history variables:
  reset_at,       \* taken when the last reset() began
  steady,         \* places at the end of the line filled since hop and reset() last crossed
  whole,          \* ... and since the last hop that was short
  lost            \* have they crossed since the last reset() that crossed no hop?

stft == <<history, accum_audio, accum_weight>>
hidden == <<hidden_in, hidden_out>>
trust == <<steady, whole, lost>>
vars == <<phase, taken, count, stft, frame, hidden, degraded, out, resetting, crossed,
          reset_at, trust>>

Silence == 0
Window == 0..(FftSize - 1)
Hop == 0..(HopSize - 1)
Place == 0..(FftSize + 4 * HopSize - 1)

\* What a GRU state remembers: the samples after since, up to last.
Memory == [since : Nat, last : Nat]
Blank == [since |-> 0, last |-> 0]
Mixed == [since |-> 1, last |-> 0]     \* what a race has left

Remember(memory) ==
  IF memory = Mixed THEN Mixed
  ELSE [since |-> IF memory = Blank THEN taken - count ELSE memory.since, last |-> taken]

\* Copying a buffer down by a hop; what comes after the end is tail.
Shift(buffer, size, tail) ==
  [n \in 0..(size - 1) |-> IF n < size - HopSize THEN buffer[n + HopSize] ELSE tail[n]]

Zeros == [n \in Place |-> {}]

\* The sum of weighted samples over the sum of the weights.  The quotient is a
\* sample when both sums are over the same windows and that sample alone.
Garbled == -1
Normalised(audio, weight) ==
  IF audio = {} THEN Silence
  ELSE IF /\ {a.window : a \in audio} = weight
          /\ \A a, b \in audio : a.sample = b.sample
       THEN (CHOOSE a \in audio : TRUE).sample
       ELSE Garbled

\* What a race leaves in the history, and in the first places of an accumulator.
Unknown == [n \in Window |-> Garbled]
Junk(size) ==
  [n \in Place |-> IF n < size THEN {[sample |-> Garbled, window |-> 0]} ELSE {}]

\* The places of the accumulators that may hold something.
Reach == IF phase = "idle" THEN FftSize - HopSize ELSE FftSize

Phase == {"idle", "analysed", "running", "ran", "inferred", "added", "extracted"}
Fill == {"none", "history", "audio", "weight", "hidden_in", "hidden_out"}

\* After initialize(), which fails without a model and leaves degraded mode.
Init ==
  /\ phase = "idle"
  /\ taken = 0 /\ count = 0
  /\ history = [n \in Window |-> Silence]
  /\ frame = [n \in Window |-> Silence]
  /\ accum_audio = Zeros
  /\ accum_weight = Zeros
  /\ hidden_in = Blank
  /\ hidden_out = Blank
  /\ degraded \in BOOLEAN
  /\ out = [i \in Hop |-> Silence]
  /\ resetting = "none" /\ crossed = FALSE
  /\ reset_at = 0
  /\ steady = FftSize /\ whole = FftSize /\ lost = FALSE

\* A hop and a reset() cross: nothing can be said of the buffers they share.
Cross ==
  /\ crossed' = TRUE
  /\ steady' = 0 /\ whole' = 0 /\ lost' = TRUE

------------------------------------------------------------------------------
\* The processing thread, one hop.

Step(from, to) ==
  /\ phase = from
  /\ phase' = to
  /\ crossed' = (crossed /\ (to # "idle" \/ resetting # "none"))

Filled(places) == IF places + HopSize < FftSize THEN places + HopSize ELSE FftSize

\* process_analysis on a dequeued hop of n samples.  The history always moves by
\* HopSize: after a short hop its last places still hold what they held before.
Analyse(n) ==
  /\ phase = "idle" /\ phase' = "analysed"
  /\ taken + n <= MaxSamples
  /\ taken' = taken + n /\ count' = n
  /\ IF resetting = "none"
       THEN /\ history' = Shift(history, FftSize,
                 [m \in Window |-> LET i == m - (FftSize - HopSize)
                                   IN  IF i < n THEN taken + 1 + i ELSE history[m]])
            /\ steady' = Filled(steady)
            /\ whole' = IF n = HopSize THEN Filled(whole) ELSE 0
            /\ UNCHANGED <<crossed, lost>>
       ELSE history' = Unknown /\ Cross
  /\ frame' = history'
  /\ UNCHANGED <<accum_audio, accum_weight, hidden, degraded, out, resetting, reset_at>>

\* The first count samples of a hop; the others are left over from longer hops.
Emit(sample(_)) == out' = [i \in Hop |-> IF i < count THEN sample(i) ELSE out[i]]

Raw(i) == taken - count + 1 + i

\* A degraded branch passes the hop through.
PassThrough ==
  /\ Step("analysed", "idle")
  /\ degraded
  /\ Emit(Raw)
  /\ UNCHANGED <<taken, count, stft, frame, hidden, degraded, resetting, reset_at, trust>>

\* session_->Run starts, on the tensor over hidden_in_buffer_ ...
Run ==
  /\ Step("analysed", "running")
  /\ ~degraded
  /\ UNCHANGED <<taken, count, stft, frame, hidden, degraded, out, resetting, reset_at, trust>>

\* What is written to a GRU state that a crossing reset() may be filling.
Written(memory) == IF crossed THEN {memory, Mixed} ELSE {memory}

\* ... and writes output_hidden_buffer_ ...
RunReturns ==
  /\ Step("running", "ran")
  /\ hidden_out' \in Written(Remember(hidden_in))
  /\ UNCHANGED <<taken, count, stft, frame, hidden_in, degraded, out, resetting, reset_at, trust>>

\* ... or throws, whatever it had written: degraded, and the hop passed through.
RunThrows ==
  /\ Step("running", "idle")
  /\ hidden_out' \in {hidden_out} \cup Written(Remember(hidden_in))
  /\ degraded' = TRUE
  /\ Emit(Raw)
  /\ UNCHANGED <<taken, count, stft, frame, hidden_in, resetting, reset_at, trust>>

\* The state is fed back to the next call.
Persist ==
  /\ Step("ran", "inferred")
  /\ hidden_in' \in Written(hidden_out)
  /\ UNCHANGED <<taken, count, stft, frame, hidden_out, degraded, out, resetting, reset_at, trust>>

\* process_synthesis_complex: overlap-add, with a window that starts at zero ...
OverlapAdd ==
  /\ Step("inferred", "added")
  /\ IF crossed
       THEN accum_audio' = Junk(FftSize) /\ accum_weight' = Zeros
       ELSE /\ accum_audio' = [n \in Place |->
                 IF n \in Window \ {0}
                   THEN accum_audio[n] \cup {[sample |-> frame[n], window |-> n]}
                   ELSE accum_audio[n]]
            /\ accum_weight' = [n \in Place |->
                 IF n \in Window \ {0} THEN accum_weight[n] \cup {n} ELSE accum_weight[n]]
  /\ UNCHANGED <<taken, count, history, frame, hidden, degraded, out, resetting, reset_at, trust>>

Synthesised(i) == IF crossed THEN Garbled ELSE Normalised(accum_audio[i], accum_weight[i])

\* ... the hop taken from the front ...
Extract ==
  /\ Step("added", "extracted")
  /\ Emit(Synthesised)
  /\ UNCHANGED <<taken, count, stft, frame, hidden, degraded, resetting, reset_at, trust>>

\* Faulty variant: the accumulators move by the samples taken from them.
AdvanceByCount ==
  /\ Step("extracted", "idle")
  /\ IF crossed
       THEN accum_audio' = Junk(FftSize - HopSize) /\ accum_weight' = Zeros
       ELSE /\ accum_audio' = [n \in Place |->
                 IF n + count \in Place THEN accum_audio[n + count] ELSE {}]
            /\ accum_weight' = [n \in Place |->
                 IF n + count \in Place THEN accum_weight[n + count] ELSE {}]
  /\ UNCHANGED <<taken, count, history, frame, hidden, degraded, out, resetting, reset_at, trust>>

\* ... and the accumulators moved by HopSize, their tail zeroed.
Advance ==
  /\ Step("extracted", "idle")
  /\ IF crossed
       THEN accum_audio' = Junk(FftSize - HopSize) /\ accum_weight' = Zeros
       ELSE /\ accum_audio' = Shift(accum_audio, FftSize + 4 * HopSize, Zeros)
            /\ accum_weight' = Shift(accum_weight, FftSize + 4 * HopSize, Zeros)
  /\ UNCHANGED <<taken, count, history, frame, hidden, degraded, out, resetting, reset_at, trust>>

------------------------------------------------------------------------------
\* reset(), as start() and the IPC command call it: one fill after the other.

ResetBegins ==
  /\ resetting = "none"
  /\ resetting' = "history"
  /\ reset_at' = taken
  /\ IF phase = "idle" THEN UNCHANGED <<crossed, trust>> ELSE Cross
  /\ UNCHANGED <<phase, taken, count, stft, frame, hidden, degraded, out>>

Refill(from, to) ==
  /\ resetting = from
  /\ resetting' = to
  /\ crossed' = (crossed /\ (phase # "idle" \/ to # "none"))
  /\ UNCHANGED <<phase, taken, count, frame, degraded, out, reset_at>>

\* Faulty variant: the analysis history is kept.
ResetHistoryForgotten ==
  /\ Refill("history", "audio")
  /\ UNCHANGED <<stft, hidden, trust>>

ResetHistory ==
  /\ Refill("history", "audio")
  /\ history' = IF crossed THEN Unknown ELSE [n \in Window |-> Silence]
  /\ UNCHANGED <<accum_audio, accum_weight, hidden, trust>>

ResetAudio ==
  /\ Refill("audio", "weight")
  /\ accum_audio' = IF crossed THEN Junk(Reach) ELSE Zeros
  /\ UNCHANGED <<history, accum_weight, hidden, trust>>

ResetWeight ==
  /\ Refill("weight", "hidden_in")
  /\ accum_weight' = Zeros
  /\ UNCHANGED <<history, accum_audio, hidden, trust>>

\* Faulty variant: only the output state is cleared.
ResetHiddenInForgotten ==
  /\ Refill("hidden_in", "hidden_out")
  /\ UNCHANGED <<stft, hidden, trust>>

ResetHiddenIn ==
  /\ Refill("hidden_in", "hidden_out")
  /\ hidden_in' \in Written(Blank)
  /\ UNCHANGED <<stft, hidden_out, trust>>

\* The last fill: after a reset() that crossed no hop all buffers are what they
\* were after initialize().
ResetHiddenOut ==
  /\ Refill("hidden_out", "none")
  /\ hidden_out' \in Written(Blank)
  /\ IF crossed THEN UNCHANGED trust
                ELSE steady' = FftSize /\ whole' = FftSize /\ lost' = FALSE
  /\ UNCHANGED <<stft, hidden_in>>

Process ==
  \/ \E n \in 1..HopSize : Analyse(n)
  \/ PassThrough \/ Run \/ RunReturns \/ RunThrows \/ Persist
  \/ OverlapAdd \/ Extract \/ Advance

Reset ==
  \/ ResetBegins
  \/ ResetHistory \/ ResetAudio \/ ResetWeight \/ ResetHiddenIn \/ ResetHiddenOut

Next == Process \/ Reset

Spec == Init /\ [][Next]_vars

------------------------------------------------------------------------------
\* Properties.

Heard == (0..MaxSamples) \cup {Garbled}

TypeOK ==
  /\ phase \in Phase
  /\ taken \in 0..MaxSamples /\ count \in 0..HopSize
  /\ history \in [Window -> Heard]
  /\ frame \in [Window -> Heard]
  /\ accum_audio \in [Place -> SUBSET [sample : Heard, window : Window]]
  /\ accum_weight \in [Place -> SUBSET Window]
  /\ hidden_in \in Memory /\ hidden_out \in Memory
  /\ degraded \in BOOLEAN
  /\ out \in [Hop -> Heard]
  /\ resetting \in Fill /\ crossed \in BOOLEAN
  /\ reset_at \in 0..MaxSamples
  /\ steady \in 0..FftSize /\ whole \in 0..FftSize /\ lost \in BOOLEAN

\* The input FftSize - HopSize samples ago, for the i-th sample of a whole hop, or
\* the silence before the last reset.
Due(i) ==
  LET heard == taken - FftSize + 1 + i IN IF heard > reset_at THEN heard ELSE Silence

\* The synthesised hop is the input delayed by FftSize - HopSize samples, exactly, with
\* silence before the last reset: from the first hop on where hops are whole and reset()
\* comes between them, and otherwise again once FftSize places have been filled by whole
\* hops that no reset() crossed.
ConstantDelay ==
  phase = "extracted" =>
    \A i \in 0..(count - 1) : i >= FftSize - whole => out[i] = Due(i)

\* The branch is a delay line: buffers, weights, network and its failures answer each
\* hop once, however short, with the front of the line or, after a failure, as it is;
\* only a reset() that crosses a hop makes it lose what is on the line.
Line == INSTANCE DelayLine WITH
  Sample <- 1..MaxSamples, Length <- FftSize,
  line <- history, raw <- degraded, settled <- steady,
  clearing <- resetting # "none",
  fed <- phase \in Phase \ {"idle", "extracted"}

IsDelayLine == Line!Spec

\* Between hops, the GRU state that the next inference starts from is the last
\* one's: it remembers everything since the last reset, and nothing before it, as long
\* as no reset() has crossed a hop, and again after the next one that does not.
MemoryOfSession ==
  phase = "idle" /\ resetting = "none" /\ ~degraded /\ ~lost =>
    hidden_in = IF taken = reset_at THEN Blank
                                    ELSE [since |-> reset_at, last |-> taken]

\* Documented (stft.hpp): overlap-add reconstructs the input, here after any sequence
\* of hops that no reset() has crossed.
ExactReconstruction ==
  phase = "extracted" /\ steady = FftSize => \A i \in 0..(count - 1) : out[i] = Due(i)

\* Documented (speech_enhancer.hpp): reset_state() zeroes the recurrent state, so that
\* nothing is remembered after it but the hop it met under way.
ForgetsSession ==
  phase = "idle" /\ resetting = "none" /\ hidden_in \notin {Blank, Mixed} =>
    hidden_in.since >= reset_at - HopSize
===============================================================================
