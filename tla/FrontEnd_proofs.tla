---------------------------- MODULE FrontEnd_proofs ----------------------------
(***************************************************************************)
(* What preprocessing and detection do to hops, proved for every set of    *)
(* frames and number of hops; and, with an instance of its own, what the   *)
(* NLMS filter reads, for every length of the filter and number of         *)
(* references.                                                             *)
(***************************************************************************)
EXTENDS FrontEnd, TLAPS

Heard == Frames \cup {Silent}

\* A frame as the detectors are given it.
LEMMA FrameType ==
  ASSUME NEW f \in Heard
  PROVE  /\ f.energy \in Int /\ f.energy <= 0
         /\ f.flatness \in Percent /\ f.zcr \in Percent /\ f.transient \in Percent
         /\ f.wave[1] \in Int /\ f.wave[2] \in Int
<1>1. CASE f \in Frames
  <2>1. f \in [wave : Int \X Int, energy : -120 .. 0, flatness : Percent,
                zcr : Percent, transient : Percent]
    BY <1>1, FrontEndAssumption
  <2> QED BY <2>1 DEF Percent
<1>2. CASE f = Silent
  BY <1>2 DEF Silent, Percent
<1> QED BY <1>1, <1>2 DEF Heard

\* A weighted mean lies between what it is taken of, rounding included.
LEMMA BlendBetween ==
  ASSUME NEW alpha \in {15, 70, 80}, NEW a \in Percent, NEW b \in Percent
  PROVE  /\ Blend(alpha, a, b) \in Percent
         /\ a <= b => a <= Blend(alpha, a, b) /\ Blend(alpha, a, b) <= b
         /\ b <= a => b <= Blend(alpha, a, b) /\ Blend(alpha, a, b) <= a
<1>1. CASE alpha = 15
  BY <1>1 DEF Blend, Percent
<1>2. CASE alpha = 70
  BY <1>2 DEF Blend, Percent
<1>3. CASE alpha = 80
  BY <1>3 DEF Blend, Percent
<1> QED BY <1>1, <1>2, <1>3

\* FeatureBasedVad's score is a percentage, and nothing below -60 dB.
LEMMA RawVoiceType ==
  ASSUME NEW f \in Heard, NEW floor \in Int
  PROVE  /\ RawVoice(f, floor) \in Percent
         /\ f.energy < -60 => RawVoice(f, floor) = 0
<1>1. EnergyScore(f.energy, floor) \in Percent
  BY FrameType DEF EnergyScore, Smaller, Percent
<1>2. ZcrScore(f.zcr) \in Percent
  BY FrameType DEF ZcrScore, Larger, Percent
<1>3. 100 - f.flatness \in Percent
  BY FrameType DEF Percent
<1>4. ASSUME NEW x \in Percent, NEW y \in Percent, NEW z \in Percent
      PROVE  (50 * x + 35 * y + 15 * z) \div 100 \in Percent
  BY DEF Percent
<1>5. (50 * EnergyScore(f.energy, floor) + 35 * (100 - f.flatness)
         + 15 * ZcrScore(f.zcr)) \div 100 \in Percent
  BY <1>1, <1>2, <1>3, <1>4
<1>6. 0 \in Percent
  BY DEF Percent
<1> QED BY <1>5, <1>6 DEF RawVoice

\* The DC blocker's weight is a fraction in thousandths, one for an alpha of 1.0f.
LEMMA DcAlphaType ==
  /\ DcAlpha \in Int
  /\ 10 * DcCutoff < DcRate => DcAlpha \in 1 .. 999
  /\ 3 * DcRate < DcCutoff => DcAlpha = 1000
<1>1. DcRate \in Nat \ {0} /\ DcCutoff \in Nat \ {0}
  BY FrontEndAssumption
<1>2. DEFINE q == (6283 * DcCutoff) \div DcRate
<1>3. q \in Nat /\ q * DcRate <= 6283 * DcCutoff
  BY <1>1
<1> HIDE DEF q
<1>4. ASSUME 10 * DcCutoff < DcRate
      PROVE  q < 629
  <2>1. SUFFICES ASSUME q >= 629 PROVE FALSE
    BY <1>3
  <2>2. q * DcRate >= 629 * DcRate
    BY <1>1, <1>3, <2>1
  <2>3. q * DcRate \in Int
    BY <1>1, <1>3
  <2> QED BY <1>1, <1>3, <1>4, <2>2, <2>3
<1>5. DcAlpha = IF 3 * DcRate < DcCutoff THEN 1000 ELSE 1 + q
  BY DEF DcAlpha, q
<1> QED BY <1>1, <1>3, <1>4, <1>5

LEMMA DcMeanType ==
  ASSUME NEW m \in Int, NEW s \in Int
  PROVE  DcMean(m, s) \in Int
<1>1. DcAlpha \in Int
  BY DcAlphaType
<1>2. (1000 - DcAlpha) * m + DcAlpha * 1000 * s \in Int
  BY <1>1
<1> QED BY <1>2 DEF DcMean

\* What a hop changes, and what the detectors are given.
LEMMA HopFacts ==
  ASSUME TypeOK, NEW frame \in Frames, Hop(frame),
         NEW out, out = DcBlocked(mean, frame.wave),
         NEW heard, heard = IF out = <<0, 0>> THEN Silent ELSE frame
  PROVE  /\ heard \in Heard
         /\ Detect(heard) /\ Decide(heard)
         /\ hop' = [frame |-> frame, audible |-> out # <<0, 0>>]
         /\ quiet' = IF heard.energy < -60 /\ heard.transient = 0 THEN quiet + 1 ELSE 0
         /\ held' = IF impulse'.latched THEN held + 1 ELSE 0
         /\ hops' = hops + 1
BY DEF Hop, Heard

\* ImpulseDetector's state after a frame.
LEMMA DetectFacts ==
  ASSUME TypeOK, NEW f \in Heard, Detect(f)
  PROVE  /\ impulse' \in [smoothed : Percent, latched : BOOLEAN]
         /\ impulse'.smoothed = Smoothed(f.transient)
         /\ impulse'.latched = Latched(impulse'.smoothed)
<1>1. f.transient \in Percent /\ impulse.smoothed \in Percent
      /\ impulse.latched \in BOOLEAN
  BY FrameType DEF TypeOK
<1>2. Smoothed(f.transient) \in Percent
  BY <1>1, BlendBetween DEF Smoothed, AttackAlpha, ReleaseAlpha
<1>5. Latched(Smoothed(f.transient)) \in BOOLEAN
  <2> DEFINE x == Smoothed(f.transient)
  <2>1. (x > ThresholdOff) \in BOOLEAN /\ (x >= ThresholdOn) \in BOOLEAN
    BY <1>2 DEF ThresholdOn, ThresholdOff, Percent
  <2> HIDE DEF x
  <2>2. Latched(x) \in BOOLEAN
    BY <2>1, Zenon DEF Latched
  <2> QED BY <2>2 DEF x
<1>6. impulse' = [smoothed |-> Smoothed(f.transient), latched |-> Latched(Smoothed(f.transient))]
  BY DEF Detect
<1> QED BY <1>2, <1>5, <1>6

\* FeatureBasedVad's state after a frame, from the score of the frame.
LEMMA DecideFacts ==
  ASSUME TypeOK, NEW f \in Heard, Decide(f)
  PROVE  /\ vad' \in [smoothed : Percent, hangover : 0 .. 5, floor : Int]
         /\ \E raw \in Percent :
              /\ f.energy < -60 => raw = 0
              /\ HeldVoice(raw) \in Percent
              /\ vad'.smoothed = Blend(70, vad.smoothed, HeldVoice(raw))
              /\ vad'.hangover = NextHangover(raw)
<1>1. /\ vad.smoothed \in Percent /\ vad.hangover \in 0 .. 5 /\ vad.floor \in Int
      /\ f.energy \in Int
  BY FrameType DEF TypeOK
<1> DEFINE floor == NoiseFloor(f.energy)
<1> DEFINE raw == RawVoice(f, floor)
<1>2. floor \in Int
  BY <1>1 DEF NoiseFloor
<1>3. raw \in Percent /\ (f.energy < -60 => raw = 0)
  BY <1>2, RawVoiceType
<1>4. vad' = [smoothed |-> Blend(70, vad.smoothed, HeldVoice(raw)),
              hangover |-> NextHangover(raw), floor |-> floor]
  BY DEF Decide
<1> HIDE DEF floor, raw
<1>5. HeldVoice(raw) \in Percent
  BY <1>3 DEF HeldVoice, Larger, SpeechThreshold, Percent
<1>6. Blend(70, vad.smoothed, HeldVoice(raw)) \in Percent
  BY <1>1, <1>5, BlendBetween
<1>7. NextHangover(raw) \in 0 .. 5
  BY <1>1 DEF NextHangover, Larger, Hangover
<1>8. vad' \in [smoothed : Percent, hangover : 0 .. 5, floor : Int]
  BY <1>2, <1>4, <1>6, <1>7
<1>9. /\ vad'.smoothed = Blend(70, vad.smoothed, HeldVoice(raw))
      /\ vad'.hangover = NextHangover(raw)
  BY <1>4
<1> QED BY <1>3, <1>5, <1>8, <1>9

------------------------------------------------------------------------------
\* TypeOK, one action after the other.
LEMMA FreshTyped == FreshVad \in [smoothed : Percent, hangover : 0 .. 5, floor : Int]
BY DEF FreshVad, Percent

LEMMA HopTyped ==
  ASSUME TypeOK, NEW frame \in Frames, Hop(frame)
  PROVE  TypeOK'
<1> DEFINE out == DcBlocked(mean, frame.wave)
<1> DEFINE heard == IF out = <<0, 0>> THEN Silent ELSE frame
<1>1. /\ heard \in Heard /\ Detect(heard) /\ Decide(heard)
      /\ hop' = [frame |-> frame, audible |-> out # <<0, 0>>]
      /\ quiet' = IF heard.energy < -60 /\ heard.transient = 0 THEN quiet + 1 ELSE 0
      /\ held' = IF impulse'.latched THEN held + 1 ELSE 0
      /\ hops' = hops + 1
  BY HopFacts
<1>2. impulse' \in [smoothed : Percent, latched : BOOLEAN]
  BY <1>1, DetectFacts
<1>3. vad' \in [smoothed : Percent, hangover : 0 .. 5, floor : Int]
  BY <1>1, DecideFacts
<1>4. mean' \in Int
  <2>1. frame \in Heard /\ mean \in Int
    BY DEF Heard, TypeOK
  <2>2. frame.wave[1] \in Int /\ frame.wave[2] \in Int
    BY <2>1, FrameType
  <2>3. DcMean(mean, frame.wave[1]) \in Int
    BY <2>1, <2>2, DcMeanType
  <2>4. mean' = DcMean(DcMean(mean, frame.wave[1]), frame.wave[2])
    BY DEF Hop
  <2> QED BY <2>2, <2>3, <2>4, DcMeanType
<1>5. hop' \in [frame : Frames \cup {Silent}, audible : BOOLEAN]
  BY <1>1
<1>6. {hops', quiet', held'} \subseteq Nat
  BY <1>1, SMTT(30) DEF TypeOK
<1>7. UNCHANGED running
  BY DEF Hop
<1> QED BY <1>2, <1>3, <1>4, <1>5, <1>6, <1>7 DEF TypeOK

\* Probabilities stay fractions and counters in range.
THEOREM TypeCorrect == Spec => []TypeOK
<1>1. Init => TypeOK
  <2> SUFFICES ASSUME Init PROVE TypeOK
    OBVIOUS
  <2>1. /\ impulse \in [smoothed : Percent, latched : BOOLEAN]
        /\ vad \in [smoothed : Percent, hangover : 0 .. 5, floor : Int]
    BY DEF Init, FreshVad, Percent
  <2>3. hop \in [frame : Frames \cup {Silent}, audible : BOOLEAN]
    BY DEF Init
  <2>4. running \in BOOLEAN
    BY Zenon DEF Init
  <2>5. mean = 0 /\ hops = 0 /\ quiet = 0 /\ held = 0
    BY DEF Init
  <2>6. mean \in Int /\ {hops, quiet, held} \subseteq Nat
    BY <2>5
  <2> QED BY <2>1, <2>3, <2>4, <2>6 DEF TypeOK
<1>2. TypeOK /\ [Next]_vars => TypeOK'
  <2> SUFFICES ASSUME TypeOK, [Next]_vars PROVE TypeOK'
    OBVIOUS
  <2>1. ASSUME NEW frame \in Frames, Hop(frame)
        PROVE  TypeOK'
    BY <2>1, HopTyped
  <2>2. CASE ResetDc
    BY <2>2 DEF ResetDc, detectors, TypeOK
  <2>3. CASE ResetVad
    BY <2>3, FreshTyped DEF ResetVad, TypeOK
  <2>4. CASE Start
    BY <2>4, FreshTyped DEF Start, TypeOK
  <2>5. CASE Stop
    BY <2>5 DEF Stop, detectors, TypeOK
  <2>6. CASE UNCHANGED vars
    BY <2>6 DEF vars, detectors, TypeOK
  <2> QED BY <2>1, <2>2, <2>3, <2>4, <2>5, <2>6 DEF Next
<1> QED BY <1>1, <1>2, PTL DEF Spec

------------------------------------------------------------------------------
\* Only a hop changes the detectors and the history of hops.
LEMMA OthersKeepDetectors ==
  ASSUME [Next]_vars,
         ~ \E frame \in Frames : Hop(frame)
  PROVE  UNCHANGED <<impulse, hop, hops, quiet, held>>
         /\ (vad' = vad \/ vad' = FreshVad)
BY DEF Next, ResetDc, ResetVad, Start, Stop, vars, detectors

\* How far the smoothed probability can have fallen since the latch.
HeldInv ==
  /\ held = 0 <=> ~impulse.latched
  /\ held = 1 => impulse.smoothed >= 65
  /\ held = 2 => impulse.smoothed >= 55
  /\ held = 3 => impulse.smoothed >= 46

\* What a hop does to the latch and the smoothed probability.
LEMMA LatchStep ==
  ASSUME TypeOK, NEW f \in Heard, Detect(f)
  PROVE  /\ impulse.smoothed \in 0 .. 100 /\ impulse'.smoothed \in 0 .. 100
         /\ 100 * impulse'.smoothed > 85 * impulse.smoothed - 100
         /\ f.transient = 0 => 100 * impulse'.smoothed <= 85 * impulse.smoothed
         /\ f.transient >= 82 => impulse'.smoothed >= 65
         /\ ~impulse.latched => (impulse'.latched <=> impulse'.smoothed >= 65)
         /\ impulse.latched => (impulse'.latched <=> impulse'.smoothed > 35)
<1>1. /\ impulse.smoothed \in 0 .. 100 /\ impulse'.smoothed \in 0 .. 100
      /\ f.transient \in 0 .. 100
      /\ impulse'.smoothed = Smoothed(f.transient)
      /\ impulse'.latched = Latched(impulse'.smoothed)
  BY DetectFacts, FrameType DEF TypeOK, Percent
<1>2. impulse'.smoothed = IF f.transient > impulse.smoothed
                            THEN (80 * f.transient + 20 * impulse.smoothed) \div 100
                            ELSE (15 * f.transient + 85 * impulse.smoothed) \div 100
  BY <1>1 DEF Smoothed, Blend, AttackAlpha, ReleaseAlpha
<1>3. /\ ~impulse.latched => (impulse'.latched <=> impulse'.smoothed >= 65)
      /\ impulse.latched => (impulse'.latched <=> impulse'.smoothed > 35)
  BY <1>1, Zenon DEF Latched, ThresholdOn, ThresholdOff
<1>4. /\ 100 * impulse'.smoothed > 85 * impulse.smoothed - 100
      /\ f.transient = 0 => 100 * impulse'.smoothed <= 85 * impulse.smoothed
      /\ f.transient >= 82 => impulse'.smoothed >= 65
  <2> DEFINE raw == f.transient  x == impulse.smoothed  y == impulse'.smoothed
  <2>1. /\ raw \in 0 .. 100 /\ x \in 0 .. 100 /\ y \in 0 .. 100
        /\ y = IF raw > x THEN (80 * raw + 20 * x) \div 100 ELSE (15 * raw + 85 * x) \div 100
    BY <1>1, <1>2
  <2> HIDE DEF raw, x, y
  <2>2. /\ 100 * y > 85 * x - 100
        /\ raw = 0 => 100 * y <= 85 * x
        /\ raw >= 82 => y >= 65
    BY <2>1
  <2> QED BY <2>2 DEF raw, x, y
<1> QED BY <1>1, <1>3, <1>4

LEMMA HeldStep ==
  ASSUME TypeOK, HeldInv, [Next]_vars
  PROVE  HeldInv' /\ (held > 0 /\ held < 4 /\ held' # held => held' # 0)
<1>1. ASSUME NEW frame \in Frames, Hop(frame)
      PROVE  HeldInv' /\ (held > 0 /\ held < 4 => held' # 0)
  <2> DEFINE out == DcBlocked(mean, frame.wave)
  <2> DEFINE heard == IF out = <<0, 0>> THEN Silent ELSE frame
  <2>1. heard \in Heard /\ Detect(heard) /\ held' = IF impulse'.latched THEN held + 1 ELSE 0
    BY <1>1, HopFacts
  <2> HIDE DEF heard
  <2>2. /\ impulse.smoothed \in 0 .. 100 /\ impulse'.smoothed \in 0 .. 100
        /\ 100 * impulse'.smoothed > 85 * impulse.smoothed - 100
        /\ ~impulse.latched => (impulse'.latched <=> impulse'.smoothed >= 65)
        /\ impulse.latched => (impulse'.latched <=> impulse'.smoothed > 35)
    BY <2>1, LatchStep
  <2>3. held \in Nat
    BY DEF TypeOK
  <2> QED BY <2>1, <2>2, <2>3 DEF HeldInv
<1>2. CASE ~ \E frame \in Frames : Hop(frame)
  BY <1>2, OthersKeepDetectors DEF HeldInv
<1> QED BY <1>1, <1>2

\* A detection lasts four frames at least (ReleaseAlpha and ThresholdOff of
\* impulse_detector.cpp).
THEOREM DetectionsLast == Spec => NoFlapping
<1>1. Init => HeldInv
  BY DEF Init, HeldInv
<1>2. TypeOK /\ HeldInv /\ [Next]_vars
        => HeldInv' /\ [held > 0 /\ held < 4 => held' # 0]_held
  BY HeldStep
<1> QED BY <1>1, <1>2, TypeCorrect, PTL DEF Spec, NoFlapping

------------------------------------------------------------------------------
\* How much is left of a sound after n quiet hops: the impulse and the voice
\* probability and the hangover.
LeftAfter(n, i, v, h) ==
  /\ n = 1 => i <= 85 /\ v <= 85 /\ h <= 4
  /\ n = 2 => i <= 72 /\ v <= 74 /\ h <= 3
  /\ n = 3 => i <= 61 /\ v <= 66 /\ h <= 2
  /\ n = 4 => i <= 51 /\ v <= 61 /\ h <= 1
  /\ n = 5 => i <= 43 /\ v <= 57 /\ h = 0
  /\ n = 6 => i <= 36
  /\ n >= 6 => v <= 39 /\ h = 0
  /\ n >= 7 => i <= 30

QuietInv ==
  /\ LeftAfter(quiet, impulse.smoothed, vad.smoothed, vad.hangover)
  /\ quiet >= 7 => ~impulse.latched

\* What a frame below -60 dB does to the voice detector.
LEMMA QuietVoice ==
  ASSUME TypeOK, NEW f \in Heard, Decide(f), f.energy < -60
  PROVE  /\ vad.smoothed \in 0 .. 100 /\ vad.hangover \in 0 .. 5 /\ vad'.smoothed \in 0 .. 100
         /\ vad.hangover > 0 => 100 * vad'.smoothed <= 70 * vad.smoothed + 1500
         /\ vad.hangover = 0 => 100 * vad'.smoothed <= 70 * vad.smoothed
         /\ vad'.hangover = IF vad.hangover = 0 THEN 0 ELSE vad.hangover - 1
<1>1. vad.smoothed \in 0 .. 100 /\ vad.hangover \in 0 .. 5
  BY DEF TypeOK, Percent
<1>2. /\ vad'.smoothed \in 0 .. 100
      /\ vad'.smoothed = Blend(70, vad.smoothed, HeldVoice(0))
      /\ vad'.hangover = NextHangover(0)
  BY DecideFacts DEF Percent
<1>3. HeldVoice(0) = IF vad.hangover > 0 THEN 50 ELSE 0
  BY DEF HeldVoice, Larger, SpeechThreshold
<1>4. NextHangover(0) = IF vad.hangover = 0 THEN 0 ELSE vad.hangover - 1
  BY <1>1 DEF NextHangover, SpeechThreshold, Larger
<1> QED BY <1>1, <1>2, <1>3, <1>4 DEF Blend

LEMMA QuietStep ==
  ASSUME TypeOK, QuietInv, [Next]_vars
  PROVE  QuietInv'
<1>1. ASSUME NEW frame \in Frames, Hop(frame)
      PROVE  QuietInv'
  <2> DEFINE out == DcBlocked(mean, frame.wave)
  <2> DEFINE heard == IF out = <<0, 0>> THEN Silent ELSE frame
  <2>1. /\ heard \in Heard /\ Detect(heard) /\ Decide(heard)
        /\ quiet' = IF heard.energy < -60 /\ heard.transient = 0 THEN quiet + 1 ELSE 0
    BY <1>1, HopFacts
  <2> HIDE DEF heard
  <2>2. quiet \in Nat
    BY DEF TypeOK
  <2>3. CASE ~(heard.energy < -60 /\ heard.transient = 0)
    BY <2>1, <2>3 DEF QuietInv, LeftAfter
  <2>4. CASE heard.energy < -60 /\ heard.transient = 0
    <3>1. /\ impulse.smoothed \in 0 .. 100 /\ impulse'.smoothed \in 0 .. 100
          /\ 100 * impulse'.smoothed <= 85 * impulse.smoothed
          /\ ~impulse.latched => (impulse'.latched <=> impulse'.smoothed >= 65)
          /\ impulse.latched => (impulse'.latched <=> impulse'.smoothed > 35)
      BY <2>1, <2>4, LatchStep
    <3>2. /\ vad.smoothed \in 0 .. 100 /\ vad.hangover \in 0 .. 5 /\ vad'.smoothed \in 0 .. 100
          /\ vad.hangover > 0 => 100 * vad'.smoothed <= 70 * vad.smoothed + 1500
          /\ vad.hangover = 0 => 100 * vad'.smoothed <= 70 * vad.smoothed
          /\ vad'.hangover = IF vad.hangover = 0 THEN 0 ELSE vad.hangover - 1
      BY <2>1, <2>4, QuietVoice
    <3>3. quiet' = quiet + 1
      BY <2>1, <2>4
    <3>4. LeftAfter(quiet', impulse'.smoothed, vad'.smoothed, vad'.hangover)
      <4>1. /\ vad'.hangover \in 0 .. 5
            /\ vad.hangover > 0
                 => 100 * vad'.smoothed <= 70 * vad.smoothed + 1500 /\ vad'.hangover = vad.hangover - 1
            /\ vad.hangover = 0 => 100 * vad'.smoothed <= 70 * vad.smoothed /\ vad'.hangover = 0
        BY <3>2
      <4>2. LeftAfter(quiet, impulse.smoothed, vad.smoothed, vad.hangover)
        BY DEF QuietInv
      <4>3. LeftAfter(quiet + 1, impulse'.smoothed, vad'.smoothed, vad'.hangover)
        <5> DEFINE n == quiet  i == impulse.smoothed  v == vad.smoothed  h == vad.hangover
                   i1 == impulse'.smoothed  v1 == vad'.smoothed  h1 == vad'.hangover
        <5>1. /\ n \in Nat /\ i \in 0 .. 100 /\ v \in 0 .. 100 /\ h \in 0 .. 5
              /\ i1 \in 0 .. 100 /\ v1 \in 0 .. 100 /\ h1 \in 0 .. 5
              /\ LeftAfter(n, i, v, h)
              /\ 100 * i1 <= 85 * i
              /\ h > 0 => 100 * v1 <= 70 * v + 1500 /\ h1 = h - 1
              /\ h = 0 => 100 * v1 <= 70 * v /\ h1 = 0
          BY <2>2, <3>1, <3>2, <4>1, <4>2
        <5> HIDE DEF n, i, v, h, i1, v1, h1
        <5>2. LeftAfter(n + 1, i1, v1, h1)
          BY <5>1 DEF LeftAfter
        <5> QED BY <5>2 DEF n, i1, v1, h1
      <4> QED BY <3>3, <4>3
    <3>5. quiet' >= 7 => ~impulse'.latched
      BY <2>2, <3>1, <3>3, <3>4 DEF QuietInv, LeftAfter
    <3> QED BY <3>4, <3>5 DEF QuietInv
  <2> QED BY <2>3, <2>4
<1>2. CASE ~ \E frame \in Frames : Hop(frame)
  <2>1. UNCHANGED <<impulse, quiet>> /\ (vad' = vad \/ vad' = FreshVad)
    BY <1>2, OthersKeepDetectors
  <2>2. CASE vad' = vad
    BY <2>1, <2>2 DEF QuietInv
  <2>3. CASE vad' = FreshVad
    BY <2>1, <2>3 DEF QuietInv, LeftAfter, FreshVad
  <2> QED BY <2>1, <2>2, <2>3
<1> QED BY <1>1, <1>2

\* Both detectors come to rest after a sound, wherever reset() cleared only one
\* of them (RealtimePipeline::reset leaves the impulse detector alone).
THEOREM SilenceSettles == Spec => []QuietEndsBoth
<1>1. Init => QuietInv
  BY DEF Init, QuietInv, LeftAfter
<1>2. TypeOK /\ QuietInv /\ [Next]_vars => QuietInv'
  BY QuietStep
<1>3. TypeOK /\ QuietInv => QuietEndsBoth
  <2> SUFFICES ASSUME TypeOK, QuietInv PROVE QuietEndsBoth
    OBVIOUS
  <2>1. quiet \in Nat /\ vad.smoothed \in 0 .. 100
    BY DEF TypeOK, Percent
  <2>2. quiet >= 6 => ~IsSpeech
    BY <2>1 DEF QuietInv, LeftAfter, IsSpeech, SpeechThreshold
  <2>3. quiet >= 7 => ~impulse.latched
    BY <2>1 DEF QuietInv
  <2> QED BY <2>2, <2>3 DEF QuietEndsBoth
<1> QED BY <1>1, <1>2, <1>3, TypeCorrect, PTL DEF Spec

------------------------------------------------------------------------------
\* Speech is bridged, whatever was said (HeldVoice's hangover in vad.cpp).
THEOREM HangoverBridges == Spec => SpeechBridged
<1>1. TypeOK /\ [Next]_vars => [hops' # hops /\ IsSpeech /\ vad.hangover > 0 => IsSpeech']_hops
  <2> SUFFICES ASSUME TypeOK, [Next]_vars, hops' # hops, IsSpeech, vad.hangover > 0
               PROVE  IsSpeech'
    OBVIOUS
  <2>1. PICK frame \in Frames : Hop(frame)
    BY OthersKeepDetectors
  <2> DEFINE out == DcBlocked(mean, frame.wave)
  <2> DEFINE heard == IF out = <<0, 0>> THEN Silent ELSE frame
  <2>2. heard \in Heard /\ Decide(heard)
    BY <2>1, HopFacts
  <2> HIDE DEF heard
  <2>3. PICK raw \in Percent :
             HeldVoice(raw) \in Percent /\ vad'.smoothed = Blend(70, vad.smoothed, HeldVoice(raw))
    BY <2>2, DecideFacts
  <2>4. HeldVoice(raw) \in 50 .. 100
    BY <2>3 DEF HeldVoice, Larger, SpeechThreshold, Percent
  <2>5. vad.smoothed \in 50 .. 100
    <3>1. vad.smoothed \in 0 .. 100
      BY DEF TypeOK, Percent
    <3>2. vad.smoothed >= 50
      BY DEF IsSpeech, SpeechThreshold
    <3> QED BY <3>1, <3>2
  <2>6. (70 * vad.smoothed + (100 - 70) * HeldVoice(raw)) \div 100 >= 50
    BY <2>4, <2>5
  <2> QED BY <2>3, <2>6 DEF IsSpeech, SpeechThreshold, Blend
<1> QED BY <1>1, TypeCorrect, PTL DEF Spec, SpeechBridged

\* Sure is exactly where one attack reaches the threshold from nothing.
LEMMA SureIsLeast ==
  ASSUME NEW raw \in Percent
  PROVE  Blend(AttackAlpha, raw, 0) >= ThresholdOn <=> raw >= Sure
BY DEF Blend, AttackAlpha, ThresholdOn, Sure, Percent

\* A sure impulse is never missed, whatever came before (AttackAlpha, ThresholdOn).
THEOREM SharpImpulseCaught == Spec => ImpulseCaught
<1>1. TypeOK /\ [Next]_vars
        => [hops' # hops /\ hop'.audible /\ hop'.frame.transient >= Sure => impulse'.latched]_hops
  <2> SUFFICES ASSUME TypeOK, [Next]_vars, hops' # hops, hop'.audible,
                      hop'.frame.transient >= Sure
               PROVE  impulse'.latched
    OBVIOUS
  <2>1. PICK frame \in Frames : Hop(frame)
    BY OthersKeepDetectors
  <2> DEFINE out == DcBlocked(mean, frame.wave)
  <2> DEFINE heard == IF out = <<0, 0>> THEN Silent ELSE frame
  <2>2. /\ heard \in Heard /\ Detect(heard)
        /\ hop' = [frame |-> frame, audible |-> out # <<0, 0>>]
    BY <2>1, HopFacts
  <2>3. heard = frame /\ frame.transient >= 82
    BY <2>2 DEF Sure
  <2> HIDE DEF heard
  <2>4. /\ impulse'.smoothed \in 0 .. 100 /\ impulse'.smoothed >= 65
        /\ ~impulse.latched => (impulse'.latched <=> impulse'.smoothed >= 65)
        /\ impulse.latched => (impulse'.latched <=> impulse'.smoothed > 35)
    BY <2>2, <2>3, LatchStep
  <2> QED BY <2>4
<1> QED BY <1>1, TypeCorrect, PTL DEF Spec, ImpulseCaught

------------------------------------------------------------------------------
\* A mean that has reached the sample stays there; two steps reach one sample
\* after the other only if they are the same, or the mean follows at once.
LEMMA Blocked ==
  ASSUME NEW m \in Int, NEW frame \in Frames
  PROVE  /\ 10 * DcCutoff < DcRate /\ frame.wave[1] # frame.wave[2]
              => DcBlocked(m, frame.wave) # <<0, 0>>
         /\ 3 * DcRate < DcCutoff => DcBlocked(m, frame.wave) = <<0, 0>>
<1> DEFINE x == frame.wave[1]  y == frame.wave[2]  first == DcMean(m, x)
<1>1. x \in Int /\ y \in Int /\ DcAlpha \in Int /\ first \in Int
  <2>1. frame \in Heard
    BY DEF Heard
  <2>2. x \in Int /\ y \in Int
    BY <2>1, FrameType
  <2>3. first \in Int
    BY <2>2, DcMeanType
  <2> QED BY <2>2, <2>3, DcAlphaType
<1>2. ASSUME NEW k \in Int
      PROVE  (1000 * k) \div 1000 = k
  BY <1>2
<1>3. ASSUME 10 * DcCutoff < DcRate, x # y
      PROVE  DcBlocked(m, frame.wave) # <<0, 0>>
  <2>1. SUFFICES ASSUME 1000 * x - first = 0, 1000 * y - DcMean(first, y) = 0
                 PROVE  FALSE
    BY DEF DcBlocked
  <2>2. DcAlpha \in 1 .. 999
    BY <1>3, DcAlphaType
  <2> DEFINE k == (1000 - DcAlpha) * x + DcAlpha * y
  <2>3. k \in Int
    BY <1>1
  <2>4. (1000 - DcAlpha) * first + DcAlpha * 1000 * y = 1000 * k
    <3>1. first = 1000 * x
      BY <1>1, <2>1
    <3> HIDE DEF x, y, first
    <3> QED BY <1>1, <3>1
  <2>5. DcMean(first, y) = k
    BY <1>2, <2>3, <2>4 DEF DcMean
  <2>6. k = 1000 * y
    <3> HIDE DEF k, x, y, first
    <3> QED BY <1>1, <2>1, <2>3, <2>5
  <2>7. (1000 - DcAlpha) * (x - y) = 0
    <3> HIDE DEF x, y
    <3> QED BY <1>1, <2>6
  <2>8. 1000 - DcAlpha \in Int /\ 1000 - DcAlpha # 0 /\ x - y \in Int /\ x - y # 0
    BY <1>1, <1>3, <2>2
  <2>9. ASSUME NEW a \in Int, NEW b \in Int, a * b = 0 PROVE a = 0 \/ b = 0
    BY <2>9
  <2> QED BY <2>7, <2>8, <2>9
<1>4. ASSUME 3 * DcRate < DcCutoff
      PROVE  DcBlocked(m, frame.wave) = <<0, 0>>
  <2>1. DcAlpha = 1000
    BY <1>4, DcAlphaType
  <2>2. ASSUME NEW a \in Int, NEW s \in Int
        PROVE  DcMean(a, s) = 1000 * s
    BY <2>1, <2>2 DEF DcMean
  <2>3. first = 1000 * x /\ DcMean(first, y) = 1000 * y
    BY <1>1, <2>2
  <2> QED BY <1>1, <2>3 DEF DcBlocked
<1> QED BY <1>3, <1>4

\* A hop that is anything but a constant gets through the filters, for a cutoff
\* below a tenth of the rate (DcBlocker constructed with rate and cutoff).
THEOREM SoundHeard ==
  ASSUME 10 * DcCutoff < DcRate
  PROVE  Spec => []SoundSurvives
<1>1. Init => SoundSurvives
  BY DEF Init, SoundSurvives
<1>2. TypeOK /\ SoundSurvives /\ [Next]_vars => SoundSurvives'
  <2> SUFFICES ASSUME TypeOK, SoundSurvives, [Next]_vars PROVE SoundSurvives'
    OBVIOUS
  <2>1. ASSUME NEW frame \in Frames, Hop(frame)
        PROVE  SoundSurvives'
    <3>1. hop' = [frame |-> frame, audible |-> DcBlocked(mean, frame.wave) # <<0, 0>>]
      BY <2>1 DEF Hop
    <3>2. mean \in Int
      BY DEF TypeOK
    <3>3. frame.wave[1] # frame.wave[2] => DcBlocked(mean, frame.wave) # <<0, 0>>
      BY <3>2, Blocked
    <3> QED BY <3>1, <3>3 DEF SoundSurvives
  <2>2. CASE ~ \E frame \in Frames : Hop(frame)
    BY <2>2, OthersKeepDetectors DEF SoundSurvives
  <2> QED BY <2>1, <2>2
<1> QED BY <1>1, <1>2, TypeCorrect, PTL DEF Spec

\* With the arguments RealtimePipeline passes, the sample rate where the cutoff
\* belongs, no hop is ever heard (realtime_pipeline.cpp:17).
THEOREM AlwaysSilent ==
  ASSUME 3 * DcRate < DcCutoff
  PROVE  Spec => []~hop.audible
<1>1. Init => ~hop.audible
  BY DEF Init
<1>2. TypeOK /\ ~hop.audible /\ [Next]_vars => (~hop.audible)'
  <2> SUFFICES ASSUME TypeOK, ~hop.audible, [Next]_vars PROVE ~hop'.audible
    OBVIOUS
  <2>1. ASSUME NEW frame \in Frames, Hop(frame)
        PROVE  ~hop'.audible
    <3>1. hop' = [frame |-> frame, audible |-> DcBlocked(mean, frame.wave) # <<0, 0>>]
      BY <2>1 DEF Hop
    <3>2. mean \in Int
      BY DEF TypeOK
    <3>3. DcBlocked(mean, frame.wave) = <<0, 0>>
      BY <3>2, Blocked
    <3> QED BY <3>1, <3>3
  <2>2. CASE ~ \E frame \in Frames : Hop(frame)
    BY <2>2, OthersKeepDetectors
  <2> QED BY <2>1, <2>2
<1> QED BY <1>1, <1>2, TypeCorrect, PTL DEF Spec

------------------------------------------------------------------------------
\* NLMSFilter, which the loop calls after inference with the hop of the reference.

CONSTANTS Taps, MaxSamples
VARIABLES phase, taken, history, history_idx, base, taps, resetting, cleared, crossed,
          reset_at, settled

Nlms == INSTANCE NlmsFilter

Ring == 0 .. Taps - 1
FilterLength == Taps \in Nat \ {0} /\ MaxSamples \in Nat

\* The slots before and after one of NLMSFilter's ring.
LEMMA SlotArithmetic ==
  ASSUME FilterLength, NEW x \in Ring
  PROVE  /\ (x + 1) % Taps = IF x = Taps - 1 THEN 0 ELSE x + 1
         /\ (x + 1) % Taps \in Ring
<1>1. Taps \in Nat \ {0} /\ x \in Int /\ 0 <= x /\ x <= Taps - 1
  BY DEF FilterLength, Ring
<1>2. ASSUME NEW y \in 0 .. Taps - 1 PROVE y % Taps = y
  <2>1. y = Taps * (y \div Taps) + (y % Taps) /\ y % Taps \in 0 .. Taps - 1 /\ y \div Taps \in Int
    BY <1>1
  <2>2. CASE y \div Taps >= 1
    <3>1. Taps * (y \div Taps) >= Taps
      BY <1>1, <2>1, <2>2
    <3> QED BY <1>1, <2>1, <3>1
  <2>3. CASE y \div Taps <= -1
    <3>1. Taps * (y \div Taps) <= -Taps
      BY <1>1, <2>1, <2>3
    <3> QED BY <1>1, <2>1, <3>1
  <2> QED BY <1>1, <2>1, <2>2, <2>3
<1>3. CASE x = Taps - 1
  <2>1. Taps % Taps = 0
    BY <1>1
  <2> QED BY <1>1, <1>3, <2>1 DEF Ring
<1>4. CASE x # Taps - 1
  <2>1. x + 1 \in 0 .. Taps - 1
    BY <1>1, <1>4
  <2> QED BY <1>1, <1>2, <1>4, <2>1 DEF Ring
<1> QED BY <1>3, <1>4

LEMMA ReadTyped ==
  ASSUME Nlms!TypeOK, NEW part1, Nlms!Read(part1)
  PROVE  taps' \in [Nlms!Slot -> Nlms!Reference]
<1>1. \A k : Nlms!At(k) \in Nlms!Reference
  BY DEF Nlms!At, Nlms!TypeOK, Nlms!Reference
<1> QED BY <1>1 DEF Nlms!Read

LEMMA FilterTyped ==
  ASSUME FilterLength, Nlms!TypeOK, [Nlms!Next]_(Nlms!vars)
  PROVE  Nlms!TypeOK'
<1> USE DEF Nlms!TypeOK, Nlms!ring, Nlms!call, Nlms!clearing
<1>0. 0 \in Nlms!Slot /\ Nlms!Slot = Ring /\ 0 \in 0 .. Taps /\ Taps \in 0 .. Taps
      /\ (\A n \in 0 .. MaxSamples : n \in Nlms!Reference)
  BY DEF FilterLength, Nlms!Slot, Nlms!Reference, Ring
<1>1. CASE Nlms!Insert
  <2>1. taken' \in 0 .. MaxSamples
    BY <1>1 DEF Nlms!Insert, FilterLength
  <2>2. settled' \in 0 .. Taps
    BY <1>1 DEF Nlms!Insert, FilterLength
  <2>3. history' \in [Nlms!Slot -> Nlms!Reference]
    BY <1>0, <1>1, <2>1 DEF Nlms!Insert
  <2>4. /\ phase' \in Nlms!Phase /\ crossed' \in BOOLEAN /\ base' = history_idx
        /\ UNCHANGED <<history_idx, taps, resetting, cleared, reset_at>>
    BY <1>1 DEF Nlms!Insert, Nlms!Phase
  <2> QED BY <2>1, <2>2, <2>3, <2>4
<1>2. CASE Nlms!Estimate
  <2>1. taps' \in [Nlms!Slot -> Nlms!Reference]
    BY <1>2, ReadTyped DEF Nlms!Estimate
  <2> QED BY <1>2, <2>1 DEF Nlms!Estimate, Nlms!Index, Nlms!Phase
<1>3. CASE Nlms!Adapt
  <2>1. taps' \in [Nlms!Slot -> Nlms!Reference]
    BY <1>3, ReadTyped DEF Nlms!Adapt
  <2> QED BY <1>3, <2>1 DEF Nlms!Adapt, Nlms!Phase
<1>4. CASE Nlms!Advance
  <2>1. history_idx' \in Nlms!Slot
    BY <1>0, <1>4, SlotArithmetic DEF Nlms!Advance, Nlms!Index
  <2> QED BY <1>4, <2>1 DEF Nlms!Advance, Nlms!Phase
<1>5. CASE Nlms!ResetBegins
  BY <1>0, <1>5 DEF Nlms!ResetBegins
<1>6. CASE Nlms!ResetSlot
  <2>1. cleared' \in Nlms!Slot
    <3>1. cleared # Taps - 1 => cleared + 1 \in Ring
      BY <1>0 DEF FilterLength, Ring
    <3> QED BY <1>0, <1>6, <3>1 DEF Nlms!ResetSlot
  <2>2. history' \in [Nlms!Slot -> Nlms!Reference]
    <3>1. Nlms!Silence \in Nlms!Reference
      BY DEF Nlms!Silence, Nlms!Reference, FilterLength
    <3> QED BY <1>6, <3>1 DEF Nlms!ResetSlot
  <2> QED BY <1>6, <2>1, <2>2 DEF Nlms!ResetSlot
<1>7. CASE Nlms!ResetIndex
  BY <1>0, <1>7 DEF Nlms!ResetIndex
<1>8. CASE UNCHANGED Nlms!vars
  BY <1>8 DEF Nlms!vars
<1> QED BY <1>1, <1>2, <1>3, <1>4, <1>5, <1>6, <1>7, <1>8 DEF Nlms!Next

\* The slot of the reference given i samples ago: the newest is in the slot before the
\* index, or during a call at it.
Newest == IF phase # "idle" THEN history_idx
          ELSE IF history_idx = 0 THEN Taps - 1 ELSE history_idx - 1
SlotOf(i, newest) == IF i <= newest THEN newest - i ELSE newest + Taps - i

\* As far as no reset() has crossed a call, the ring holds the last references, and the
\* loops have read them; a reset() that crosses none has cleared the slots it passed.
RingInv ==
  /\ phase # "idle" /\ resetting # "none" => crossed
  /\ phase = "idle" /\ resetting = "none" => ~crossed
  /\ crossed => settled = 0
  /\ reset_at <= taken
  /\ resetting # "history" => cleared = 0
  /\ phase # "idle" /\ ~crossed => taken > reset_at /\ base = history_idx
  /\ resetting = "none" => \A i \in Ring : i < settled => history[SlotOf(i, Newest)] = Nlms!Due(i)
  /\ resetting # "none" /\ ~crossed =>
       /\ taken = reset_at
       /\ \A k \in Ring : k < cleared \/ resetting = "index" => history[k] = Nlms!Silence

LEMMA SlotOfType ==
  ASSUME FilterLength, NEW i \in Ring, NEW n \in Ring
  PROVE  SlotOf(i, n) \in Ring
BY DEF FilterLength, Ring, SlotOf

\* A reference later, each slot that stays has aged by one.
LEMMA SlotAges ==
  ASSUME FilterLength, NEW idx \in Ring, NEW i \in Ring, i # 0
  PROVE  /\ i - 1 \in Ring
         /\ SlotOf(i - 1, IF idx = 0 THEN Taps - 1 ELSE idx - 1) = SlotOf(i, idx)
         /\ SlotOf(i, idx) # idx
BY DEF FilterLength, Ring, SlotOf

\* What a loop has read when nothing crosses it.
LEMMA ReadAligned ==
  ASSUME FilterLength, Nlms!TypeOK, RingInv, phase # "idle", ~crossed, Nlms!Read(base)
  PROVE  \A i \in Ring : i < settled => taps'[i] = Nlms!Due(i)
<1>1. base = history_idx /\ resetting = "none" /\ Newest = history_idx
      /\ history_idx \in Ring /\ Nlms!Slot = Ring
  BY DEF RingInv, Newest, Nlms!TypeOK, Nlms!Slot, Ring
<1>2. PICK index \in [Ring -> {base, history_idx}] :
        taps' = [i \in Ring |-> IF i <= base THEN Nlms!At(index[i] - i)
                                             ELSE Nlms!At(index[i] + Taps - i)]
  BY <1>1 DEF Nlms!Read, Nlms!Index
<1>3. ASSUME NEW i \in Ring PROVE taps'[i] = history[SlotOf(i, history_idx)]
  <2>1. index[i] = history_idx
    BY <1>1, <1>2
  <2>2. taps'[i] = Nlms!At(SlotOf(i, history_idx))
    BY <1>1, <1>2, <2>1 DEF SlotOf
  <2> QED BY <1>1, <2>2, SlotOfType DEF Nlms!At
<1> QED BY <1>1, <1>3 DEF RingInv

LEMMA RingStep ==
  ASSUME FilterLength, Nlms!TypeOK, RingInv, Nlms!TapsAligned, [Nlms!Next]_(Nlms!vars)
  PROVE  RingInv' /\ Nlms!TapsAligned'
<1>0. /\ taken \in Nat /\ reset_at \in Nat /\ Nlms!Slot = Ring
      /\ history_idx \in Ring /\ base \in Ring /\ cleared \in Ring
      /\ Ring = 0 .. Taps - 1 /\ Taps \in Nat /\ Taps > 0 /\ settled \in 0 .. Taps
      /\ \A i \in Ring : i \in Int
      /\ history \in [Ring -> Nlms!Reference] /\ crossed \in BOOLEAN
  BY DEF Nlms!TypeOK, FilterLength, Ring, Nlms!Slot
<1> USE DEF Nlms!ring, Nlms!call, Nlms!clearing
<1>1. CASE Nlms!Insert
  <2>1. /\ phase = "idle" /\ phase' = "inserted" /\ taken' = taken + 1 /\ base' = history_idx
        /\ history' = [history EXCEPT ![history_idx] = taken + 1]
        /\ crossed' = (resetting # "none")
        /\ settled' = IF crossed' THEN 0 ELSE IF settled < Taps THEN settled + 1 ELSE Taps
        /\ UNCHANGED <<history_idx, resetting, cleared, reset_at>>
    BY <1>1 DEF Nlms!Insert
  <2>2. Nlms!TapsAligned'
    BY <2>1 DEF Nlms!TapsAligned
  <2>3. ASSUME resetting = "none", NEW i \in Ring, i < settled'
        PROVE  history'[SlotOf(i, history_idx)] = Nlms!Due(i)'
    <3>1. CASE i = 0
      <4>1. SlotOf(i, history_idx) = history_idx
        BY <1>0, <3>1 DEF SlotOf
      <4>2. taken' - i = taken + 1 /\ taken' - i > reset_at'
        BY <1>0, <2>1, <3>1 DEF RingInv
      <4>3. Nlms!Due(i)' = taken + 1
        BY <4>2 DEF Nlms!Due
      <4> QED BY <1>0, <2>1, <4>1, <4>3
    <3>2. CASE i # 0
      <4>1. /\ i - 1 \in Ring /\ SlotOf(i - 1, Newest) = SlotOf(i, history_idx)
            /\ SlotOf(i, history_idx) # history_idx /\ SlotOf(i, history_idx) \in Ring
        BY <1>0, <2>1, <3>2, SlotAges, SlotOfType DEF Newest
      <4>2. history'[SlotOf(i, history_idx)] = history[SlotOf(i - 1, Newest)]
        BY <1>0, <2>1, <4>1
      <4>3. i - 1 < settled
        BY <1>0, <2>1, <2>3
      <4>4. history[SlotOf(i - 1, Newest)] = Nlms!Due(i - 1)
        BY <2>3, <4>1, <4>3 DEF RingInv
      <4>5. taken - (i - 1) = taken' - i
        BY <1>0, <2>1
      <4> QED BY <2>1, <4>2, <4>4, <4>5 DEF Nlms!Due
    <3> QED BY <3>1, <3>2
  <2>4. Newest' = history_idx
    BY <2>1 DEF Newest
  <2>5. taken' > reset_at' /\ reset_at' <= taken'
    BY <1>0, <2>1 DEF RingInv
  <2>7. resetting' = "none" => \A i \in Ring : i < settled' =>
          history'[SlotOf(i, Newest)'] = Nlms!Due(i)'
    BY <2>1, <2>3, <2>4 DEF SlotOf
  <2>8. crossed' => settled' = 0
    BY <2>1
  <2>9. /\ phase' # "idle" /\ (resetting' # "none" <=> crossed') /\ base' = history_idx'
        /\ (resetting' # "history" => cleared' = 0)
    BY <2>1 DEF RingInv
  <2> QED BY <2>2, <2>5, <2>7, <2>8, <2>9 DEF RingInv
<1>2. CASE Nlms!Estimate
  <2>1. /\ phase = "inserted" /\ phase' = "estimated" /\ base' \in {base, history_idx}
        /\ Nlms!Read(base')
        /\ UNCHANGED <<taken, history, history_idx, resetting, cleared, crossed, reset_at, settled>>
    BY <1>2 DEF Nlms!Estimate, Nlms!Index
  <2>2. ~crossed => base' = base /\ base = history_idx
    BY <2>1 DEF RingInv
  <2>3. ~crossed => \A i \in Ring : i < settled => taps'[i] = Nlms!Due(i)
    BY <2>1, <2>2, ReadAligned
  <2>4. crossed => \A i \in Ring : ~(i < settled)
    BY <1>0 DEF RingInv
  <2>5. Newest' = Newest /\ \A i \in Ring : Nlms!Due(i)' = Nlms!Due(i)
    BY <2>1 DEF Newest, Nlms!Due
  <2>6. Nlms!TapsAligned'
    BY <1>0, <2>1, <2>3, <2>4, <2>5 DEF Nlms!TapsAligned, Nlms!Slot
  <2>7. RingInv'
    BY <2>1, <2>2, <2>5 DEF RingInv, SlotOf
  <2> QED BY <2>6, <2>7
<1>3. CASE Nlms!Adapt
  <2>1. /\ phase = "estimated" /\ phase' = "adapted" /\ Nlms!Read(base)
        /\ UNCHANGED <<taken, base, history, history_idx, resetting, cleared, crossed, reset_at,
                       settled>>
    BY <1>3 DEF Nlms!Adapt
  <2>3. ~crossed => \A i \in Ring : i < settled => taps'[i] = Nlms!Due(i)
    BY <2>1, ReadAligned
  <2>4. crossed => \A i \in Ring : ~(i < settled)
    BY <1>0 DEF RingInv
  <2>5. Newest' = Newest /\ \A i \in Ring : Nlms!Due(i)' = Nlms!Due(i)
    BY <2>1 DEF Newest, Nlms!Due
  <2>6. Nlms!TapsAligned'
    BY <1>0, <2>1, <2>3, <2>4, <2>5 DEF Nlms!TapsAligned, Nlms!Slot
  <2>7. RingInv'
    BY <2>1, <2>5 DEF RingInv, SlotOf
  <2> QED BY <2>6, <2>7
<1>4. CASE Nlms!Advance
  <2>1. /\ phase = "adapted" /\ phase' = "idle"
        /\ \E index \in {base, history_idx} : history_idx' = (index + 1) % Taps
        /\ crossed' = (crossed /\ resetting # "none")
        /\ UNCHANGED <<taken, history, resetting, cleared, reset_at, settled>>
    BY <1>4 DEF Nlms!Advance, Nlms!Index
  <2>2. Nlms!TapsAligned'
    BY <2>1 DEF Nlms!TapsAligned
  <2>3. \A i \in Ring : Nlms!Due(i)' = Nlms!Due(i)
    BY <2>1 DEF Nlms!Due
  <2>4. CASE crossed
    <3>1. \A i \in Ring : ~(i < settled')
      BY <1>0, <2>1, <2>4 DEF RingInv
    <3> QED BY <2>1, <2>2, <2>4, <3>1 DEF RingInv
  <2>5. CASE ~crossed
    <3>1. resetting = "none" /\ history_idx' = (history_idx + 1) % Taps
      BY <2>1, <2>5 DEF RingInv
    <3>2. Newest = history_idx /\ Newest' = history_idx
      BY <1>0, <2>1, <3>1, SlotArithmetic DEF Newest
    <3> QED BY <2>1, <2>2, <2>3, <2>5, <3>1, <3>2 DEF RingInv, SlotOf
  <2> QED BY <2>4, <2>5
<1>5. CASE Nlms!ResetBegins
  <2>1. /\ resetting = "none" /\ resetting' = "history" /\ reset_at' = taken
        /\ UNCHANGED <<phase, taken, base, taps, history, history_idx, cleared>>
        /\ (phase = "idle" => UNCHANGED <<crossed, settled>>)
        /\ (phase # "idle" => crossed' = TRUE /\ settled' = 0)
    BY <1>5 DEF Nlms!ResetBegins
  <2>2. Nlms!TapsAligned'
    <3>1. phase # "idle" => \A i \in Ring : ~(i < settled')
      BY <1>0, <2>1
    <3> QED BY <1>0, <2>1, <3>1 DEF Nlms!TapsAligned, Nlms!Slot
  <2> QED BY <1>0, <2>1, <2>2 DEF RingInv
<1>6. CASE Nlms!ResetSlot
  <2>1. /\ resetting = "history" /\ history' = [history EXCEPT ![cleared] = Nlms!Silence]
        /\ \/ cleared = Taps - 1 /\ resetting' = "index" /\ cleared' = 0
           \/ cleared # Taps - 1 /\ resetting' = "history" /\ cleared' = cleared + 1
        /\ UNCHANGED <<phase, taken, base, taps, history_idx, crossed, reset_at, settled>>
    BY <1>6 DEF Nlms!ResetSlot
  <2>2. Nlms!TapsAligned'
    BY <2>1 DEF Nlms!TapsAligned, Nlms!Due
  <2>3. ASSUME ~crossed, NEW k \in Ring, k < cleared' \/ resetting' = "index"
        PROVE  history'[k] = Nlms!Silence
    <3>1. k <= cleared
      BY <1>0, <2>1, <2>3
    <3>2. k < cleared => history[k] = Nlms!Silence
      BY <2>1, <2>3 DEF RingInv
    <3> QED BY <1>0, <2>1, <3>1, <3>2
  <2>4. resetting' # "none" /\ Nlms!Silence' = Nlms!Silence
    BY <2>1 DEF Nlms!Silence
  <2> QED BY <1>0, <2>1, <2>2, <2>3, <2>4 DEF RingInv
<1>7. CASE Nlms!ResetIndex
  <2>1. /\ resetting = "index" /\ resetting' = "none" /\ history_idx' = 0
        /\ crossed' = (crossed /\ phase # "idle")
        /\ settled' = IF crossed THEN settled ELSE Taps
        /\ UNCHANGED <<history, phase, taken, base, taps, cleared, reset_at>>
    BY <1>7 DEF Nlms!ResetIndex
  <2>2. CASE crossed
    <3>1. settled = 0 /\ \A i \in Ring : ~(i < settled')
      BY <1>0, <2>1, <2>2 DEF RingInv
    <3>2. Nlms!TapsAligned'
      BY <1>0, <3>1 DEF Nlms!TapsAligned, Nlms!Slot
    <3> QED BY <2>1, <2>2, <3>1, <3>2 DEF RingInv
  <2>3. CASE ~crossed
    <3>1. /\ phase = "idle" /\ taken = reset_at /\ \A k \in Ring : history[k] = Nlms!Silence
      BY <2>1, <2>3 DEF RingInv
    <3>2. Newest' = Taps - 1 /\ Newest' \in Ring
      BY <1>0, <2>1, <3>1 DEF Newest
    <3>3. \A i \in Ring : SlotOf(i, Newest') \in Ring
      BY <3>2, SlotOfType
    <3>4. \A i \in Ring : Nlms!Due(i)' = Nlms!Silence
      BY <1>0, <2>1, <3>1 DEF Nlms!Due
    <3>5. Nlms!TapsAligned'
      BY <2>1, <3>1 DEF Nlms!TapsAligned
    <3>6. \A i \in Ring : history'[SlotOf(i, Newest)'] = Nlms!Due(i)'
      BY <2>1, <3>1, <3>2, <3>3, <3>4 DEF SlotOf
    <3> QED BY <1>0, <2>1, <2>3, <3>1, <3>5, <3>6 DEF RingInv
  <2> QED BY <2>2, <2>3
<1>8. CASE UNCHANGED Nlms!vars
  <2>1. UNCHANGED <<history, history_idx, phase, taken, base, taps, resetting, cleared,
                    crossed, reset_at, settled>>
    BY <1>8 DEF Nlms!vars
  <2>2. Nlms!TapsAligned'
    BY <2>1 DEF Nlms!TapsAligned, Nlms!Due, Nlms!Slot
  <2>3. RingInv'
    BY <2>1 DEF RingInv, SlotOf, Newest, Nlms!Due
  <2> QED BY <2>2, <2>3
<1> QED BY <1>1, <1>2, <1>3, <1>4, <1>5, <1>6, <1>7, <1>8 DEF Nlms!Next

\* NLMSFilter takes weight i with the reference i samples old in both of its loops, for
\* every length of the filter, as many samples back as no reset() has crossed a call
\* (process and reset in nlms.cpp).
THEOREM FilterAligned ==
  ASSUME FilterLength
  PROVE  Nlms!Spec => []Nlms!TapsAligned
<1> DEFINE IInv == Nlms!TypeOK /\ RingInv /\ Nlms!TapsAligned
<1>1. Nlms!Init => IInv
  <2> SUFFICES ASSUME Nlms!Init PROVE IInv
    OBVIOUS
  <2>1. /\ phase = "idle" /\ taken = 0 /\ history_idx = 0 /\ base = 0 /\ resetting = "none"
        /\ cleared = 0 /\ crossed = FALSE /\ reset_at = 0 /\ settled = Taps
        /\ history = [k \in Ring |-> Nlms!Silence] /\ taps = [i \in Ring |-> Nlms!Silence]
    BY DEF Nlms!Init, Nlms!Slot, Ring
  <2>2. Nlms!TypeOK
    <3>1. 0 \in Nlms!Slot /\ Nlms!Slot = Ring /\ 0 \in 0 .. MaxSamples /\ Taps \in 0 .. Taps
          /\ Nlms!Silence \in Nlms!Reference /\ "idle" \in Nlms!Phase
      BY DEF FilterLength, Nlms!Phase, Nlms!Reference, Nlms!Slot, Nlms!Silence, Ring
    <3>2. history \in [Nlms!Slot -> Nlms!Reference] /\ taps \in [Nlms!Slot -> Nlms!Reference]
      BY <2>1, <3>1
    <3> QED BY <2>1, <3>1, <3>2 DEF Nlms!TypeOK
  <2>3. Taps - 1 \in Ring /\ Newest = Taps - 1
    BY <2>1 DEF Newest, FilterLength, Ring
  <2>4. \A i \in Ring : SlotOf(i, Newest) \in Ring
    BY <2>3, SlotOfType
  <2>5. \A i \in Ring : Nlms!Due(i) = Nlms!Silence
    BY <2>1 DEF Nlms!Due, Ring, FilterLength
  <2>6. RingInv
    BY <2>1, <2>4, <2>5 DEF RingInv
  <2> QED BY <2>1, <2>2, <2>6 DEF Nlms!TapsAligned
<1>2. IInv /\ [Nlms!Next]_(Nlms!vars) => IInv'
  BY FilterTyped, RingStep
<1>3. IInv => Nlms!TapsAligned
  OBVIOUS
<1> QED BY <1>1, <1>2, <1>3, PTL DEF Nlms!Spec
==============================================================================
