------------------------------- MODULE FrontEnd -------------------------------
(***************************************************************************)
(* What the processing thread does to a hop before inference and fusion,   *)
(* with the components it calls: DcBlocker, the high-pass BiquadFilter,    *)
(* ImpulseDetector and FeatureBasedVad, in the order of                    *)
(* RealtimePipeline::processing_thread_loop.  Of the impulse detector the  *)
(* loop hands on the probability; its detection is followed too, but not   *)
(* the gain it computes, which is applied to nothing.                      *)
(*                                                                         *)
(* A hop is one of Frames: its wave is two samples, enough to tell a       *)
(* signal from silence, and the features the detectors compute from it are *)
(* given with it (the raw impulse probability is one of them, as if its    *)
(* spectral flux did not depend on the hop before).  A hop that the        *)
(* filters silence has the features of Silent.  Probabilities are          *)
(* hundredths, the DC blocker's mean thousandths of a sample, levels dB,   *)
(* the tracked noise floor hundredths of a dB; products are rounded down.  *)
(* A reset() of the IPC thread clears one component after the other while  *)
(* hops go on; that it meets one in the middle of a hop is left out.       *)
(***************************************************************************)
EXTENDS Integers

CONSTANTS
  DcRate,       \* what the DcBlocker is constructed with, in millihertz:
  DcCutoff,     \* ... sample_rate and cutoff_hz
  Frames,       \* the hops that may arrive
  MaxHops       \* bound: hops processed

Percent == 0 .. 100
Silent == [wave |-> <<0, 0>>, energy |-> -120, flatness |-> 100, zcr |-> 0, transient |-> 0]

ASSUME FrontEndAssumption ==
  /\ DcRate \in Nat \ {0} /\ DcCutoff \in Nat \ {0}
  /\ 10 * DcCutoff < DcRate \/ 3 * DcRate < DcCutoff
  /\ MaxHops \in Nat
  /\ Frames \subseteq [wave : Int \X Int, energy : -120 .. 0, flatness : Percent,
                       zcr : Percent, transient : Percent]

VARIABLES
  running,      \* does the processing thread run?
  mean,         \* DcBlocker::running_mean_
  impulse,      \* smoothed_prob_, detected_latched_
  vad,          \* smoothed_prob_, hangover_count_, noise_floor_db_
  hop,          \* history: the last hop, and is it audible after preprocessing?
  hops,         \* history: their number
  quiet, held   \* history: hops since the last sound; for how many it was latched

detectors == <<impulse, vad, hop, hops, quiet, held>>
vars == <<running, mean, detectors>>

TypeOK ==
  /\ running \in BOOLEAN
  /\ mean \in Int
  /\ impulse \in [smoothed : Percent, latched : BOOLEAN]
  /\ vad \in [smoothed : Percent, hangover : 0 .. 5, floor : Int]
  /\ hop \in [frame : Frames \cup {Silent}, audible : BOOLEAN]
  /\ {hops, quiet, held} \subseteq Nat

\* A weighted mean; the weight alpha is in hundredths.
Blend(alpha, a, b) == (alpha * a + (100 - alpha) * b) \div 100
Larger(a, b) == IF a < b THEN b ELSE a
Smaller(a, b) == IF a < b THEN a ELSE b

------------------------------------------------------------------------------
\* DcBlocker: 1 - exp(-2 pi cutoff / rate) in thousandths, to first order; in
\* floats it is 1 when the cutoff is some three times the rate.
DcAlpha == IF 3 * DcRate < DcCutoff THEN 1000 ELSE 1 + (6283 * DcCutoff) \div DcRate

\* Faulty variant: the mean follows the signal at once.
DcMeanFollows(m, sample) == 1000 * sample

DcMean(m, sample) == ((1000 - DcAlpha) * m + DcAlpha * 1000 * sample) \div 1000

\* The two samples after process_sample; the high-pass filter has no zero but at
\* DC, so it passes what is left of them.
DcBlocked(m, wave) ==
  LET first == DcMean(m, wave[1])
  IN <<1000 * wave[1] - first, 1000 * wave[2] - DcMean(first, wave[2])>>

------------------------------------------------------------------------------
\* ImpulseDetector::detect, from the raw probability of the frame.
ThresholdOn == 65
ThresholdOff == 35
AttackAlpha == 80
ReleaseAlpha == 15

\* Faulty variant: slow attack, fast release.
SmoothedSwapped(raw) ==
  Blend(IF raw > impulse.smoothed THEN ReleaseAlpha ELSE AttackAlpha, raw, impulse.smoothed)

Smoothed(raw) ==
  Blend(IF raw > impulse.smoothed THEN AttackAlpha ELSE ReleaseAlpha, raw, impulse.smoothed)

\* Faulty variant: one threshold for both directions.
LatchedOnce(smoothed) == smoothed >= ThresholdOn

Latched(smoothed) ==
  IF impulse.latched THEN smoothed > ThresholdOff ELSE smoothed >= ThresholdOn

Detect(frame) ==
  LET smoothed == Smoothed(frame.transient) IN
    impulse' = [smoothed |-> smoothed, latched |-> Latched(smoothed)]

------------------------------------------------------------------------------
\* FeatureBasedVad::process_frame.
SpeechThreshold == 50
Hangover == 5

\* Quiet frames draw the floor down faster than loud ones draw it up.
NoiseFloor(energy) ==
  IF 100 * energy < vad.floor + 600
    THEN (98 * vad.floor + 2 * 100 * energy) \div 100
    ELSE (999 * vad.floor + 100 * energy) \div 1000

EnergyScore(energy, floor) ==
  LET snr == 100 * energy - floor IN
    IF snr > 300 /\ energy > -45 THEN Smaller((snr - 300) \div 12, 100) ELSE 0

ZcrScore(zcr) ==
  IF zcr < 2 THEN 50 * zcr
  ELSE IF zcr <= 35 THEN 100 ELSE Larger(100 - 4 * (zcr - 35), 0)

\* The features combined, gated below -60 dB.
RawVoice(frame, floor) ==
  IF frame.energy < -60 THEN 0
  ELSE (50 * EnergyScore(frame.energy, floor) + 35 * (100 - frame.flatness)
         + 15 * ZcrScore(frame.zcr)) \div 100

\* Faulty variant: the hangover counts down but the probability is not held up.
HeldVoiceForgotten(raw) == raw

\* Within the hangover the probability is held at the threshold.
HeldVoice(raw) == IF vad.hangover > 0 THEN Larger(raw, SpeechThreshold) ELSE raw

\* Faulty variant: the hangover never counts down.
NextHangoverStuck(raw) == IF raw >= SpeechThreshold THEN Hangover ELSE vad.hangover

NextHangover(raw) ==
  IF raw >= SpeechThreshold THEN Hangover ELSE Larger(vad.hangover - 1, 0)

Decide(frame) ==
  LET floor == NoiseFloor(frame.energy)
      raw == RawVoice(frame, floor)
  IN vad' = [smoothed |-> Blend(70, vad.smoothed, HeldVoice(raw)),
             hangover |-> NextHangover(raw), floor |-> floor]

IsSpeech == vad.smoothed >= SpeechThreshold

FreshVad == [smoothed |-> 0, hangover |-> 0, floor |-> -6500]
------------------------------------------------------------------------------
Init ==
  /\ running = FALSE
  /\ mean = 0
  /\ impulse = [smoothed |-> 0, latched |-> FALSE]
  /\ vad = FreshVad
  /\ hop = [frame |-> Silent, audible |-> FALSE]
  /\ hops = 0 /\ quiet = 0 /\ held = 0

\* One hop, up to inference.
Hop(frame) ==
  /\ running
  /\ hops < MaxHops
  /\ LET out == DcBlocked(mean, frame.wave)
         heard == IF out = <<0, 0>> THEN Silent ELSE frame
     IN /\ mean' = DcMean(DcMean(mean, frame.wave[1]), frame.wave[2])
        /\ Detect(heard) /\ Decide(heard)
        /\ hop' = [frame |-> frame, audible |-> out # <<0, 0>>]
        /\ quiet' = IF heard.energy < -60 /\ heard.transient = 0
                      THEN quiet + 1 ELSE 0
  /\ held' = IF impulse'.latched THEN held + 1 ELSE 0
  /\ hops' = hops + 1
  /\ UNCHANGED running

\* reset() from the IPC thread: one component after the other, hops in between; the
\* impulse detector is not among them.
ResetDc ==
  /\ mean' = 0
  /\ UNCHANGED <<running, detectors>>

ResetVad ==
  /\ vad' = FreshVad
  /\ UNCHANGED <<running, mean, impulse, hop, hops, quiet, held>>

\* RealtimePipeline::start(), with a reset(), and stop(), which joins the thread
\* after its hop.
Start ==
  /\ ~running
  /\ running' = TRUE
  /\ mean' = 0 /\ vad' = FreshVad
  /\ UNCHANGED <<impulse, hop, hops, quiet, held>>

Stop ==
  /\ running
  /\ running' = FALSE
  /\ UNCHANGED <<mean, detectors>>

Next ==
  \/ \E frame \in Frames : Hop(frame)
  \/ ResetDc \/ ResetVad \/ Start \/ Stop

Spec == Init /\ [][Next]_vars

------------------------------------------------------------------------------
\* A hop whose samples differ is not silenced by the filters before inference,
\* voice detection and fusion (dc_blocker.hpp: "DC Offset Removal").
SoundSurvives == hops > 0 /\ hop.frame.wave[1] # hop.frame.wave[2] => hop.audible

\* Hysteresis and slow release keep a detection for at least four frames,
\* whatever follows ("Slow release to avoid audio flapping").
NoFlapping == [][held > 0 /\ held < 4 => held' # 0]_held

\* A hop that is surely an impulse is reported at once, from any state of the detector:
\* sure is the least probability that one attack brings over the threshold from nothing.
Sure == 82
ImpulseCaught ==
  [][hops' # hops /\ hop'.audible /\ hop'.frame.transient >= Sure
       => impulse'.latched]_hops

\* Speech is not clipped at a word boundary: it goes on while the hangover lasts.
SpeechBridged == [][hops' # hops /\ IsSpeech /\ vad.hangover > 0 => IsSpeech']_hops

\* Six quiet hops end speech and seven an impulse, also one that was carried over
\* a reset or a restart.
QuietEndsBoth ==
  /\ quiet >= 6 => ~IsSpeech
  /\ quiet >= 7 => ~impulse.latched
=============================================================================
