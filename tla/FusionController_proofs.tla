------------------------ MODULE FusionController_proofs ------------------------
(***************************************************************************)
(* Proofs about FusionController for every FusionConfig and every input.   *)
(***************************************************************************)
EXTENDS FusionController, TLAPS

\* A positive multiple of m is at least m.
LEMMA Scale ==
  ASSUME NEW m \in Nat \ {0}, NEW d \in Int, d >= 1
  PROVE  m * d >= m
<1>1. m * d - m = m * (d - 1)
  OBVIOUS
<1>2. m * (d - 1) >= 0
  OBVIOUS
<1>3. m * d \in Int
  OBVIOUS
<1> QED BY <1>1, <1>2, <1>3

\* Euclidean division: quotient, remainder and what they sum to.
LEMMA DivMod ==
  ASSUME NEW m \in Nat \ {0}, NEW x \in Int
  PROVE  /\ x \div m \in Int
         /\ x % m \in 0..(m - 1)
         /\ x = m * (x \div m) + (x % m)
<1>1. x \div m \in Int
  OBVIOUS
<1>2. x % m \in 0..(m - 1)
  OBVIOUS
<1>3. x = m * (x \div m) + (x % m)
  OBVIOUS
<1> QED BY <1>1, <1>2, <1>3

\* A weighted mean, rounded down, lies between the two values.
LEMMA MixBetween ==
  ASSUME NEW alpha \in 0..Unity, NEW a \in 0..Unity, NEW b \in 0..Unity
  PROVE  /\ Mix(alpha, a, b) \in Int
         /\ a <= b => a <= Mix(alpha, a, b) /\ Mix(alpha, a, b) <= b
         /\ b <= a => b <= Mix(alpha, a, b) /\ Mix(alpha, a, b) <= a
<1> DEFINE U == Unity
           x == alpha * a + (U - alpha) * b
           q == x \div U
           r == x % U
<1>1. U \in Nat \ {0} /\ alpha \in Int /\ a \in Int /\ b \in Int
  BY FusionAssumption
<1>2. x \in Int
  BY <1>1
<1>3. q \in Int /\ r \in 0..(U - 1) /\ x = U * q + r
  <2> HIDE DEF x, U
  <2> QED BY <1>1, <1>2, DivMod
<1>4. /\ x = U * b + alpha * (a - b)
      /\ x = U * a + (U - alpha) * (b - a)
  BY <1>1
<1>5. Mix(alpha, a, b) = q
  BY DEF Mix
<1>6. ASSUME NEW k \in Int, NEW d \in Nat, x = U * k + d
      PROVE  k <= q
  <2>1. CASE k >= q + 1
    <3>1. U * (k - q) >= U
      BY <1>1, <1>3, <2>1, Scale
    <3>2. U * (k - q) = U * k - U * q
      BY <1>1, <1>3
    <3> QED
      <4> HIDE DEF U, x, q, r
      <4> QED BY <1>1, <1>3, <1>6, <3>1, <3>2
  <2> QED BY <1>3, <2>1
<1>7. ASSUME NEW k \in Int, NEW d \in Nat, x = U * k - d
      PROVE  q <= k
  <2>1. CASE q >= k + 1
    <3>1. U * (q - k) >= U
      BY <1>1, <1>3, <2>1, Scale
    <3>2. U * (q - k) = U * q - U * k
      BY <1>1, <1>3
    <3> QED
      <4> HIDE DEF U, x, q, r
      <4> QED BY <1>1, <1>3, <1>7, <3>1, <3>2
  <2> QED BY <1>3, <2>1
<1>8. CASE a <= b
  <2>1. (U - alpha) * (b - a) \in Nat /\ alpha * (b - a) \in Nat
    BY <1>1, <1>8
  <2>2. alpha * (a - b) = -(alpha * (b - a))
    BY <1>1
  <2>3. x = U * b - alpha * (b - a)
    <3> HIDE DEF x, U
    <3> QED BY <1>1, <1>4, <2>1, <2>2
  <2>4. a <= q
    BY <1>1, <1>4, <1>6, <2>1
  <2>5. q <= b
    BY <1>1, <1>7, <2>1, <2>3
  <2> QED BY <1>1, <1>3, <1>5, <1>8, <2>4, <2>5
<1>9. CASE b <= a
  <2>1. (U - alpha) * (a - b) \in Nat /\ alpha * (a - b) \in Nat
    BY <1>1, <1>9
  <2>2. (U - alpha) * (b - a) = -((U - alpha) * (a - b))
    BY <1>1
  <2>3. x = U * a - (U - alpha) * (a - b)
    <3> HIDE DEF x, U
    <3> QED BY <1>1, <1>4, <2>1, <2>2
  <2>4. b <= q
    BY <1>1, <1>4, <1>6, <2>1
  <2>5. q <= a
    BY <1>1, <1>7, <2>1, <2>3
  <2> QED BY <1>1, <1>3, <1>5, <1>9, <2>4, <2>5
<1> QED BY <1>1, <1>8, <1>9

\* The product of two fractions is a fraction.
LEMMA ProductBound ==
  ASSUME NEW a \in 0..Unity, NEW b \in 0..Unity
  PROVE  (a * b) \div Unity \in 0..Unity
<1>1. Unity \in Nat \ {0} /\ a \in Int /\ b \in Int
  BY FusionAssumption
<1>2. Mix(a, b, 0) = (a * b) \div Unity
  BY <1>1 DEF Mix
<1>3. 0 \in 0..Unity
  BY <1>1
<1> QED BY <1>1, <1>2, <1>3, MixBetween

\* The target of the envelope is never under the floor.
LEMMA TargetBound ==
  ASSUME NEW impulse \in 0..Unity
  PROVE  TargetGain(impulse) \in Floor..Unity
<1> DEFINE p == (Beta * impulse) \div Unity
<1>1. p \in 0..Unity
  BY ProductBound, FusionAssumption
<1> HIDE DEF p
<1>2. Larger(Unity - p, Floor) \in Floor..Unity
  BY <1>1, FusionAssumption DEF Larger
<1> QED BY <1>2 DEF TargetGain, p

\* Lambda is a fraction.
LEMMA LambdaBound ==
  ASSUME TypeOK
  PROVE  Lambda(FALSE) \in 0..Unity /\ Lambda(TRUE) \in 0..Unity
<1> DEFINE c == (input.confidence * input.vad) \div Unity
           l == Clamp(c, LambdaMin, LambdaMax)
           h == LambdaMin + (LambdaMax - LambdaMin) \div 4
           m == (l * LowConfidenceScale) \div Unity
<1>1. input.confidence \in 0..Unity /\ input.vad \in 0..Unity
  BY FusionAssumption DEF TypeOK, FusionInput
<1>2. c \in 0..Unity
  BY <1>1, ProductBound
<1> HIDE DEF c
<1>3. /\ Unity \in Nat /\ LambdaMin \in 0..Unity /\ LambdaMax \in LambdaMin..Unity
      /\ LowConfidenceScale \in 0..Unity
  BY FusionAssumption
<1>4. l \in 0..Unity
  BY <1>2, <1>3 DEF Clamp
<1> HIDE DEF l
<1>5. m \in 0..Unity
  BY <1>3, <1>4, ProductBound
<1> HIDE DEF m
<1>6. h \in 0..Unity
  BY <1>3
<1> HIDE DEF h
<1>7. Clamp(m, LambdaMin, h) \in 0..Unity
  BY <1>3, <1>5, <1>6 DEF Clamp
<1> QED BY <1>4, <1>7 DEF Lambda, c, l, m, h

\* The envelope moves between where it was and its target; the clamp of
\* update_gain_envelope never engages.
LEMMA EnvelopeBetween ==
  ASSUME TypeOK, UpdateEnvelope
  PROVE  LET target == TargetGain(input.impulse)
         IN  /\ target \in Floor..Unity
             /\ gain' \in Floor..Unity
             /\ IF target < gain THEN target <= gain' /\ gain' <= gain
                                 ELSE gain <= gain' /\ gain' <= target
<1> DEFINE target == TargetGain(input.impulse)
           alpha == IF target < gain THEN AttackAlpha ELSE ReleaseAlpha
           mix == Mix(alpha, target, gain)
<1>1. input.impulse \in 0..Unity
  BY FusionAssumption DEF TypeOK, FusionInput
<1>2. target \in Floor..Unity
  BY <1>1, TargetBound
<1>3. /\ Unity \in Nat /\ Floor \in 1..Unity /\ gain \in Floor..Unity
      /\ alpha \in 0..Unity
  BY FusionAssumption DEF TypeOK
<1>4. gain' = Clamp(mix, Floor, Unity)
  BY DEF UpdateEnvelope
<1> HIDE DEF target, alpha
<1>5. /\ mix \in Int
      /\ target <= gain => target <= mix /\ mix <= gain
      /\ gain <= target => gain <= mix /\ mix <= target
  <2>1. target \in 0..Unity /\ gain \in 0..Unity
    BY <1>2, <1>3
  <2> QED BY <1>3, <2>1, MixBetween
<1> HIDE DEF mix
<1>6. gain' = mix
  BY <1>2, <1>3, <1>4, <1>5 DEF Clamp
<1>7. /\ gain' \in Floor..Unity
      /\ IF target < gain THEN target <= gain' /\ gain' <= gain
                          ELSE gain <= gain' /\ gain' <= target
  BY <1>2, <1>3, <1>5, <1>6
<1> QED BY <1>2, <1>7 DEF target

------------------------------------------------------------------------------
\* The state machine.

\* The mode chosen for a frame.
LEMMA ModeFacts ==
  ASSUME NEW inp \in Inputs
  PROVE  /\ EvaluateMode(inp) \in Mode
         /\ EvaluateMode(inp) = "ERROR" <=> ~inp.hardware_available \/ BothDown(inp)
         /\ EvaluateMode(inp) = "DEGRADED" => inp.nlms_available
         /\ EvaluateMode(inp) = "NLMS_FAULT" => inp.ai_available
         /\ EvaluateMode(inp) \in {"NORMAL", "IMPULSE", "LOW_CONFIDENCE"}
              => inp.ai_available /\ inp.nlms_available
BY DEF EvaluateMode, Mode, BothDown

\* What one dispatch does to the output, lambda and the envelope.
LEMMA DispatchFacts ==
  ASSUME TypeOK, Dispatch
  PROVE  /\ current_lambda' \in 0..Unity
         /\ gain' \in Floor..Unity
         /\ previous_gain' \in Floor..Unity
         /\ out' \in Source
         /\ out' = "silence" => current_mode = "ERROR"
         /\ out' \in {"ai", "blend"}
              => current_mode \in {"NORMAL", "IMPULSE", "LOW_CONFIDENCE", "NLMS_FAULT"}
         /\ out' \in {"nlms", "blend"}
              => current_mode \in {"NORMAL", "IMPULSE", "LOW_CONFIDENCE", "DEGRADED"}
         /\ current_mode = "DEGRADED" => current_lambda' = 0
         /\ current_mode = "NLMS_FAULT" => current_lambda' = Unity
<1>1. Unity \in Nat /\ current_lambda \in 0..Unity /\ {gain, previous_gain} \subseteq Floor..Unity
  BY FusionAssumption DEF TypeOK
<1>2. UpdateEnvelope => gain' \in Floor..Unity /\ previous_gain' \in Floor..Unity
  BY <1>1, EnvelopeBetween DEF UpdateEnvelope
<1>3. CASE ProcessBlend
  BY <1>2, <1>3, LambdaBound DEF ProcessBlend, Source
<1>4. CASE ProcessLowConfidence
  BY <1>2, <1>4, LambdaBound DEF ProcessLowConfidence, Source
<1>5. CASE ProcessDegraded
  BY <1>1, <1>2, <1>5 DEF ProcessDegraded, Source
<1>6. CASE ProcessNlmsFault
  BY <1>1, <1>2, <1>6 DEF ProcessNlmsFault, Source
<1>7. CASE ProcessBypass
  BY <1>1, <1>7 DEF ProcessBypass, Source
<1>8. CASE ProcessError
  BY <1>1, <1>8 DEF ProcessError, Source
<1> QED BY <1>3, <1>4, <1>5, <1>6, <1>7, <1>8 DEF Dispatch

\* What a reset sets.
LEMMA ResetValues ==
  /\ Unity \div 2 \in 0..Unity
  /\ Unity \in Floor..Unity
  /\ 0 \in 0..FaultLimit
<1>1. Unity \in Nat /\ Floor \in 1..Unity /\ FaultLimit \in Nat
  BY FusionAssumption
<1> QED BY <1>1

\* Every variable keeps its type; in particular no sequence of frames and
\* control calls takes the gain under the floor or above unity.
THEOREM TypeCorrect == Spec => []TypeOK
<1>1. Init => TypeOK
  BY ResetValues DEF Init, TypeOK, Mode, Source
<1>2. TypeOK /\ [Next]_vars => TypeOK'
  <2> SUFFICES ASSUME TypeOK, [Next]_vars
               PROVE  TypeOK'
    OBVIOUS
  <2>1. ASSUME NEW inp \in Inputs, Evaluate(inp)
        PROVE  TypeOK'
    <3>1. current_mode' \in Mode /\ previous_mode' \in Mode
      BY <2>1, ModeFacts DEF Evaluate, TypeOK, modes
    <3>2. fault_count' \in 0..FaultLimit /\ last_fault' \in Fault \cup {"none"}
      BY <2>1, FusionAssumption DEF Evaluate, TypeOK, record
    <3>3. UNCHANGED <<levels, out, control, ramping>> /\ {torn', mode_lost', gain_lost'} \subseteq BOOLEAN
      BY <2>1 DEF Evaluate, SeeMode, TypeOK
    <3> QED BY <2>1, <3>1, <3>2, <3>3 DEF Evaluate, TypeOK, control, levels
  <2>2. CASE Dispatch
    <3>1. in_frame' \in BOOLEAN /\ ramping' \in BOOLEAN
      <4>1. in_frame' = FALSE /\ ramping' = (current_mode \in Enveloped)
        BY <2>2 DEF Dispatch
      <4>2. (current_mode \in Enveloped) \in BOOLEAN
        OBVIOUS
      <4> QED BY <4>1, <4>2
    <3> QED BY <2>2, <3>1, DispatchFacts DEF Dispatch, TypeOK, control, modes, record, history
  <2>3. ASSUME NEW bypass \in BOOLEAN, SetBypass(bypass)
        PROVE  TypeOK'
    BY <2>3 DEF SetBypass, TypeOK, modes, record, levels, history
  <2>4. CASE ResetMode
    BY <2>4 DEF ResetMode, TypeOK, Mode, record, levels
  <2>5. CASE ResetRest
    BY <2>5, ResetValues DEF ResetRest, TypeOK, modes
  <2>6. CASE Ramp
    BY <2>6 DEF Ramp, TypeOK, modes, record, levels, control, history
  <2>7. CASE UNCHANGED vars
    BY <2>7 DEF vars, TypeOK, modes, record, levels, control, history
  <2> QED BY <2>1, <2>2, <2>3, <2>4, <2>5, <2>6, <2>7 DEF Next, Frame, Control
<1> QED BY <1>1, <1>2, PTL DEF Spec

\* The envelope moves towards its target and never past it.
THEOREM GainMovesTowardsTarget == Spec => GainTowardsTarget
<1> DEFINE A == Dispatch /\ current_mode \in Enveloped =>
                  LET target == TargetGain(input.impulse)
                  IN  IF target < gain THEN target <= gain' /\ gain' <= gain
                                       ELSE gain <= gain' /\ gain' <= target
<1>1. TypeOK /\ [Next]_vars => [A]_vars
  <2> SUFFICES ASSUME TypeOK, Dispatch, current_mode \in Enveloped
               PROVE  LET target == TargetGain(input.impulse)
                      IN  IF target < gain THEN target <= gain' /\ gain' <= gain
                                           ELSE gain <= gain' /\ gain' <= target
    OBVIOUS
  <2>1. UpdateEnvelope
    BY DEF Dispatch, Enveloped, ProcessBlend, ProcessLowConfidence, ProcessDegraded,
           ProcessNlmsFault, ProcessBypass, ProcessError
  <2> QED BY <2>1, EnvelopeBetween
<1> QED BY <1>1, TypeCorrect, PTL DEF Spec, GainTowardsTarget

\* The strengthening.  Within a frame the mode is one that the frame's inputs call
\* for, or NORMAL where a reset() has replaced it; and a fault mode has its record
\* unless it was entered while reset() was at work.
ModeFits ==
  /\ current_mode = "ERROR" <=> Down(input)
  /\ current_mode = "DEGRADED" => input.nlms_available
  /\ current_mode = "NLMS_FAULT" => input.ai_available
  /\ current_mode \in {"NORMAL", "IMPULSE", "LOW_CONFIDENCE"}
       => input.ai_available /\ input.nlms_available

FrameInv ==
  /\ ShownStateConsistent
  /\ SourcesUp
  /\ SilenceJustified
  /\ in_frame => IF mode_lost THEN current_mode = "NORMAL" ELSE ModeFits
  /\ resetting /\ ~torn => current_mode = "NORMAL"
  /\ ~resetting /\ ~torn /\ current_mode \in Fault => fault_count > 0 /\ last_fault = current_mode

\* The strengthening is inductive, however control calls overlap the frames.
LEMMA FramesKept == Spec => []FrameInv
<1> USE DEF Down, BothDown
<1>1. Init => FrameInv
  BY DEF Init, FrameInv, ShownStateConsistent, SourcesUp, SilenceJustified, Fault
<1>2. TypeOK /\ FrameInv /\ [Next]_vars => FrameInv'
  <2> SUFFICES ASSUME TypeOK, FrameInv, [Next]_vars
               PROVE  FrameInv'
    OBVIOUS
  <2>1. ASSUME NEW inp \in Inputs, Evaluate(inp)
        PROVE  FrameInv'
    <3>1. /\ in_frame' /\ input' = inp /\ current_mode' = EvaluateMode(inp)
          /\ ~mode_lost' /\ resetting' = resetting
          /\ torn' = IF current_mode' # current_mode THEN resetting ELSE torn
      BY <2>1 DEF Evaluate, SeeMode, control, modes
    <3>2. ModeFits'
      BY <3>1, ModeFacts DEF ModeFits
    <3>3. ~resetting' /\ ~torn' /\ current_mode' \in Fault =>
            fault_count' > 0 /\ last_fault' = current_mode'
      <4>1. fault_count \in Nat /\ FaultLimit \in Nat /\ FaultLimit > 0
        BY FusionAssumption DEF TypeOK
      <4>2. CASE current_mode' = current_mode
        BY <2>1, <3>1, <4>2 DEF Evaluate, FrameInv, record
      <4>3. CASE current_mode' # current_mode
        BY <2>1, <3>1, <4>1, <4>3 DEF Evaluate
      <4> QED BY <4>2, <4>3
    <3>4. resetting' /\ ~torn' => current_mode' = "NORMAL"
      BY <3>1 DEF FrameInv
    <3> QED BY <3>1, <3>2, <3>3, <3>4
      DEF FrameInv, ShownStateConsistent, SourcesUp, SilenceJustified
  <2>2. CASE Dispatch
    <3>1. /\ in_frame /\ ~in_frame'
          /\ UNCHANGED <<current_mode, fault_count, last_fault, input, resetting, torn, mode_lost>>
      BY <2>2 DEF Dispatch, control, modes, record, history
    <3>2. /\ current_mode = "DEGRADED" => current_lambda' = 0
          /\ current_mode = "NLMS_FAULT" => current_lambda' = Unity
          /\ out' = "silence" <=> current_mode = "ERROR"
          /\ out' = "ai" => current_mode = "NLMS_FAULT"
          /\ out' = "nlms" => current_mode = "DEGRADED"
          /\ out' = "blend" => current_mode \in {"NORMAL", "IMPULSE", "LOW_CONFIDENCE"}
      BY <2>2 DEF Dispatch, ProcessBlend, ProcessLowConfidence, ProcessDegraded,
        ProcessNlmsFault, ProcessBypass, ProcessError
    <3>3. SourcesUp'
      BY <3>1, <3>2 DEF FrameInv, ModeFits, SourcesUp
    <3>4. SilenceJustified'
      BY <3>1, <3>2 DEF FrameInv, ModeFits, SilenceJustified
    <3>5. ShownStateConsistent'
      BY <3>1, <3>2 DEF FrameInv, ShownStateConsistent
    <3> QED BY <3>1, <3>3, <3>4, <3>5 DEF FrameInv
  <2>3. ASSUME NEW bypass \in BOOLEAN, SetBypass(bypass)
        PROVE  FrameInv'
    BY <2>3 DEF SetBypass, FrameInv, ShownStateConsistent, SourcesUp, SilenceJustified,
      ModeFits, modes, record, levels, history
  <2>4. CASE ResetMode
    <3>1. /\ resetting' /\ current_mode' = "NORMAL" /\ mode_lost' = (mode_lost \/ in_frame)
          /\ UNCHANGED <<in_frame, input, out>>
      BY <2>4 DEF ResetMode
    <3>2. mode_lost \in BOOLEAN /\ in_frame \in BOOLEAN
      BY DEF TypeOK
    <3>3. SourcesUp' /\ SilenceJustified'
      BY <3>1 DEF FrameInv, SourcesUp, SilenceJustified
    <3> QED BY <3>1, <3>2, <3>3 DEF FrameInv, ShownStateConsistent
  <2>5. CASE ResetRest
    <3>1. /\ resetting /\ ~resetting'
          /\ UNCHANGED <<current_mode, torn, mode_lost, in_frame, input, out>>
      BY <2>5 DEF ResetRest, modes
    <3>2. ~torn => current_mode = "NORMAL"
      BY <3>1 DEF FrameInv
    <3>3. SourcesUp' /\ SilenceJustified' /\ (ModeFits <=> ModeFits')
      BY <3>1 DEF FrameInv, SourcesUp, SilenceJustified, ModeFits
    <3> QED BY <3>1, <3>2, <3>3 DEF FrameInv, ShownStateConsistent, Fault
  <2>6. CASE Ramp
    BY <2>6 DEF Ramp, FrameInv, ShownStateConsistent, SourcesUp, SilenceJustified,
      ModeFits, modes, record, levels, control, history
  <2>7. CASE UNCHANGED vars
    BY <2>7 DEF vars, FrameInv, ShownStateConsistent, SourcesUp, SilenceJustified,
      ModeFits, modes, record, levels, control, history
  <2> QED BY <2>1, <2>2, <2>3, <2>4, <2>5, <2>6, <2>7 DEF Next, Frame, Control
<1> QED BY <1>1, <1>2, TypeCorrect, PTL DEF Spec

\* Silence needs a cause the frame came with, and that cause is heard as silence unless
\* a reset() took the frame's mode away (evaluate_mode and the switch of fuse).
THEOREM SilenceHasCause == Spec => []SilenceJustified
<1>1. FrameInv => SilenceJustified
  BY DEF FrameInv
<1> QED BY <1>1, FramesKept, PTL

\* The mode shown, its fault record and lambda agree, unless the mode was entered
\* while reset() was at work.
THEOREM ShownConsistently == Spec => []ShownStateConsistent
<1>1. FrameInv => ShownStateConsistent
  BY DEF FrameInv
<1> QED BY <1>1, FramesKept, PTL

\* A path that was down as its frame began is sounded only in the blend and only where
\* a reset() fell between the evaluation of the mode and the dispatch.
THEOREM SoundedPathsUp == Spec => []SourcesUp
<1>1. FrameInv => SourcesUp
  BY DEF FrameInv
<1> QED BY <1>1, FramesKept, PTL

------------------------------------------------------------------------------
\* How far one impulse frame brings the gain down.

LEMMA DivMonotone ==
  ASSUME NEW m \in Nat \ {0}, NEW x \in Int, NEW y \in Int, x <= y
  PROVE  x \div m <= y \div m
<1> DEFINE p == x \div m  q == y \div m  r == x % m  s == y % m
<1>1. p \in Int /\ r \in 0..(m - 1) /\ x = m * p + r
  BY DivMod
<1>2. q \in Int /\ s \in 0..(m - 1) /\ y = m * q + s
  BY DivMod
<1> HIDE DEF p, q, r, s
<1>3. CASE p >= q + 1
  <2>1. m * (p - q) >= m
    BY <1>1, <1>2, <1>3, Scale
  <2>2. m * (p - q) = m * p - m * q
    BY <1>1, <1>2
  <2> QED BY <1>1, <1>2, <2>1, <2>2
<1>4. p <= q
  BY <1>1, <1>2, <1>3
<1> QED BY <1>4 DEF p, q

LEMMA ProductMonotone ==
  ASSUME NEW k \in Nat, NEW a \in Int, NEW b \in Int, a <= b
  PROVE  k * a <= k * b /\ k * a \in Int /\ k * b \in Int
<1>1. k * b - k * a = k * (b - a) /\ k * (b - a) \in Nat
  OBVIOUS
<1>2. k * a \in Int /\ k * b \in Int
  OBVIOUS
<1> QED BY <1>1, <1>2

\* A weighted mean grows with both its values.
LEMMA MixMonotone ==
  ASSUME NEW alpha \in 0..Unity, NEW a \in Int, NEW b \in Int, NEW c \in Int, NEW d \in Int,
         a <= c, b <= d
  PROVE  Mix(alpha, a, b) <= Mix(alpha, c, d)
<1>1. Unity \in Nat \ {0} /\ alpha \in Nat /\ Unity - alpha \in Nat
  BY FusionAssumption
<1>2. /\ alpha * a <= alpha * c /\ alpha * a \in Int /\ alpha * c \in Int
      /\ (Unity - alpha) * b <= (Unity - alpha) * d
      /\ (Unity - alpha) * b \in Int /\ (Unity - alpha) * d \in Int
  BY <1>1, ProductMonotone
<1> DEFINE x == alpha * a + (Unity - alpha) * b
           y == alpha * c + (Unity - alpha) * d
<1>3. x \in Int /\ y \in Int /\ x <= y
  BY <1>2
<1>4. x \div Unity <= y \div Unity
  <2> HIDE DEF x, y
  <2> QED BY <1>1, <1>3, DivMonotone
<1> QED BY <1>4 DEF Mix

\* A louder impulse asks for no more gain.
LEMMA TargetMonotone ==
  ASSUME NEW i \in 0..Unity, NEW j \in 0..Unity, i <= j
  PROVE  TargetGain(j) <= TargetGain(i)
<1>1. Unity \in Nat \ {0} /\ Beta \in 0..Unity /\ Floor \in 1..Unity
  BY FusionAssumption
<1>2. Beta * i <= Beta * j /\ Beta * i \in Int /\ Beta * j \in Int
  BY <1>1, ProductMonotone
<1> DEFINE p == (Beta * i) \div Unity  q == (Beta * j) \div Unity
<1>3. p <= q
  BY <1>1, <1>2, DivMonotone
<1>4. p \in 0..Unity /\ q \in 0..Unity
  BY <1>1, ProductBound
<1> HIDE DEF p, q
<1>5. Larger(Unity - q, Floor) <= Larger(Unity - p, Floor)
  BY <1>1, <1>3, <1>4 DEF Larger
<1> QED BY <1>5 DEF TargetGain, p, q

\* The envelope of a frame whose impulse passed the threshold.
LEMMA AttackReaches ==
  ASSUME TypeOK, UpdateEnvelope, ImpulseThreshold <= input.impulse
  PROVE  gain' <= Mix(AttackAlpha, TargetGain(ImpulseThreshold), Unity)
<1> DEFINE target == TargetGain(input.impulse)
           limit == TargetGain(ImpulseThreshold)
           level == Mix(AttackAlpha, limit, Unity)
           mix == Mix(AttackAlpha, target, gain)
<1>1. input.impulse \in 0..Unity
  BY FusionAssumption DEF TypeOK, FusionInput
<1>2. /\ Unity \in Nat \ {0} /\ Floor \in 1..Unity /\ gain \in Floor..Unity
      /\ AttackAlpha \in 0..Unity /\ ImpulseThreshold \in 0..Unity
  BY FusionAssumption DEF TypeOK
<1>3. target \in Floor..Unity /\ limit \in Floor..Unity /\ target <= limit
  BY <1>1, <1>2, TargetBound, TargetMonotone
<1>4. /\ gain' \in Floor..Unity
      /\ IF target < gain THEN target <= gain' /\ gain' <= gain
                          ELSE gain <= gain' /\ gain' <= target
  BY EnvelopeBetween
<1>5. target < gain => gain' = Clamp(mix, Floor, Unity)
  BY DEF UpdateEnvelope
<1> HIDE DEF target, limit
<1>6. /\ mix \in Int /\ level \in Int /\ limit <= level
      /\ target <= gain => target <= mix /\ mix <= gain
  <2>1. target \in 0..Unity /\ gain \in 0..Unity /\ limit \in 0..Unity /\ Unity \in 0..Unity
        /\ limit <= Unity
    BY <1>2, <1>3
  <2> QED BY <1>2, <2>1, MixBetween
<1>7. mix <= level
  BY <1>2, <1>3, MixMonotone
<1> HIDE DEF mix, level
<1>8. CASE target < gain
  <2>1. gain' = mix
    BY <1>2, <1>3, <1>5, <1>6, <1>8 DEF Clamp
  <2>2. gain' <= level
    BY <1>6, <1>7, <2>1
  <2> QED BY <2>2 DEF level, limit
<1>9. CASE ~(target < gain)
  <2>1. gain' <= level
    BY <1>2, <1>3, <1>4, <1>6, <1>9
  <2> QED BY <2>1 DEF level, limit
<1> QED BY <1>8, <1>9

\* The gain a loud frame's ramp will end at.
Attacked ==
  ramping /\ input.impulse >= ImpulseThreshold =>
    gain <= Mix(AttackAlpha, TargetGain(ImpulseThreshold), Unity) \/ gain_lost

\* One impulse frame limits the gain, from every level that bypass, faults, resets or
\* recoveries left behind, unless a reset() comes between update_gain_envelope and
\* apply_gain_envelope.
THEOREM ImpulseLimited == Spec => ListenerProtected
<1> DEFINE level == Mix(AttackAlpha, TargetGain(ImpulseThreshold), Unity)
<1>1. Init => Attacked
  BY DEF Init, Attacked
<1>2. TypeOK /\ Attacked /\ [Next]_vars => Attacked'
  <2> SUFFICES ASSUME TypeOK, Attacked, [Next]_vars
               PROVE  Attacked'
    OBVIOUS
  <2>1. level' = level
    BY DEF Mix, TargetGain, Larger
  <2>2. Attacked <=> (ramping /\ input.impulse >= ImpulseThreshold => gain <= level \/ gain_lost)
    BY DEF Attacked
  <2>3. Attacked' <=>
          (ramping' /\ input'.impulse >= ImpulseThreshold => gain' <= level \/ gain_lost')
    BY <2>1 DEF Attacked
  <2>4. ASSUME NEW inp \in Inputs, Evaluate(inp)
        PROVE  ~ramping'
    BY <2>4 DEF Evaluate
  <2>5. CASE Dispatch
    <3>1. ramping' => UpdateEnvelope
      BY <2>5 DEF Dispatch, Enveloped, ProcessBlend, ProcessLowConfidence, ProcessDegraded,
        ProcessNlmsFault, ProcessBypass, ProcessError
    <3>2. input.impulse \in 0..Unity /\ ImpulseThreshold \in 0..Unity /\ Unity \in Nat
      BY FusionAssumption DEF TypeOK, FusionInput
    <3>3. input' = input
      BY <2>5 DEF Dispatch
    <3>4. ramping' /\ input.impulse >= ImpulseThreshold => gain' <= level
      BY <3>1, <3>2, AttackReaches
    <3> QED BY <2>3, <3>3, <3>4
  <2>6. ASSUME NEW bypass \in BOOLEAN, SetBypass(bypass)
        PROVE  UNCHANGED <<ramping, input, gain, gain_lost>>
    BY <2>6 DEF SetBypass, levels, history
  <2>7. CASE ResetMode
    BY <2>2, <2>3, <2>7 DEF ResetMode, levels
  <2>8. CASE ResetRest
    BY <2>2, <2>3, <2>8 DEF ResetRest
  <2>9. CASE Ramp
    BY <2>3, <2>9 DEF Ramp
  <2>10. CASE UNCHANGED vars
    BY <2>2, <2>3, <2>10 DEF vars, levels, history
  <2> QED BY <2>2, <2>3, <2>4, <2>5, <2>6, <2>7, <2>8, <2>9, <2>10 DEF Next, Frame, Control
<1>3. Attacked => [Ramp /\ input.impulse >= ImpulseThreshold => gain <= level \/ gain_lost]_vars
  BY DEF Attacked, Ramp
<1> QED BY <1>1, <1>2, <1>3, TypeCorrect, PTL DEF Spec, ListenerProtected

------------------------------------------------------------------------------
\* Recovery.

\* The numbers tell the share of the release apart from nothing up to Recovered; the
\* defaults 0.12 and 0.85 do in hundredths.
ReleaseVisible == ReleaseAlpha * (Unity - Recovered) >= Unity

\* A quiet input asks for full gain.
LEMMA QuietTarget ==
  TargetGain(0) = Unity
<1>1. Unity \in Nat \ {0} /\ Beta \in 0..Unity /\ Floor \in 1..Unity
  BY FusionAssumption
<1>2. Beta * 0 = 0 /\ 0 \div Unity = 0
  BY <1>1
<1> QED BY <1>1, <1>2 DEF TargetGain, Larger

\* One release step from below Recovered is visible.
LEMMA ReleaseRises ==
  ASSUME ReleaseVisible, NEW g \in Floor..Unity, g < Recovered
  PROVE  Mix(ReleaseAlpha, Unity, g) >= g + 1
<1>1. /\ Unity \in Nat \ {0} /\ ReleaseAlpha \in 0..Unity /\ Floor \in 1..Unity
      /\ Recovered \in Floor..Unity /\ g \in Nat
  BY FusionAssumption
<1> DEFINE x == ReleaseAlpha * Unity + (Unity - ReleaseAlpha) * g
<1>2. x = Unity * g + ReleaseAlpha * (Unity - g) /\ x \in Int
  BY <1>1
<1>3. ReleaseAlpha * (Unity - Recovered) <= ReleaseAlpha * (Unity - g)
  BY <1>1, ProductMonotone
<1>4. ReleaseAlpha * (Unity - g) >= Unity
  <2>1. /\ ReleaseAlpha * (Unity - Recovered) \in Int
        /\ ReleaseAlpha * (Unity - g) \in Int
    BY <1>1
  <2> QED BY <1>1, <1>3, <2>1 DEF ReleaseVisible
<1>5. Unity * (g + 1) = Unity * g + Unity /\ Unity * (g + 1) \in Int /\ Unity * g \in Int
      /\ ReleaseAlpha * (Unity - g) \in Int
  BY <1>1
<1>6. Unity * (g + 1) <= x
  <2> HIDE DEF x
  <2> QED BY <1>1, <1>2, <1>4, <1>5
<1>7. (Unity * (g + 1)) \div Unity <= x \div Unity
  <2> HIDE DEF x
  <2> QED BY <1>1, <1>2, <1>5, <1>6, DivMonotone
<1>8. (Unity * (g + 1)) \div Unity = g + 1
  BY <1>1
<1> QED BY <1>7, <1>8 DEF Mix

\* A frame with an envelope and no impulse.
LEMMA QuietEnvelope ==
  ASSUME TypeOK, UpdateEnvelope, input.impulse = 0
  PROVE  gain' >= gain /\ (ReleaseVisible /\ gain < Recovered => gain' > gain)
<1>1. /\ Unity \in Nat \ {0} /\ Floor \in 1..Unity /\ gain \in Floor..Unity
      /\ Recovered \in Floor..Unity /\ ReleaseAlpha \in 0..Unity
  BY FusionAssumption DEF TypeOK
<1>2. TargetGain(input.impulse) = Unity
  BY QuietTarget
<1>3. gain' \in Floor..Unity /\ gain <= gain'
  BY <1>1, <1>2, EnvelopeBetween
<1>4. gain' = Clamp(Mix(ReleaseAlpha, Unity, gain), Floor, Unity)
  BY <1>1, <1>2 DEF UpdateEnvelope
<1>5. ASSUME ReleaseVisible, gain < Recovered PROVE gain' > gain
  <2>1. Mix(ReleaseAlpha, Unity, gain) >= gain + 1
    BY <1>1, <1>5, ReleaseRises
  <2>2. Mix(ReleaseAlpha, Unity, gain) \in Int /\ Mix(ReleaseAlpha, Unity, gain) <= Unity
    <3>1. Unity \in 0..Unity /\ gain \in 0..Unity /\ gain <= Unity
      BY <1>1
    <3> QED BY <1>1, <3>1, MixBetween
  <2> DEFINE mix == Mix(ReleaseAlpha, Unity, gain)
  <2>3. mix \in Int /\ mix <= Unity /\ mix >= gain + 1 /\ gain' = Clamp(mix, Floor, Unity)
    BY <1>4, <2>1, <2>2
  <2> HIDE DEF mix
  <2> QED BY <1>1, <2>3 DEF Clamp
<1> QED BY <1>1, <1>3, <1>5

\* The level comes back step by step: while the input is quiet no step lowers it, and
\* each frame that applies the envelope raises it until it counts as recovered.
THEOREM RecoveryNeverStalls ==
  ASSUME ReleaseVisible
  PROVE  Spec => RecoveryAdvances
<1>1. TypeOK /\ [Next]_vars =>
        [input.impulse = 0 =>
           /\ gain' >= gain
           /\ Dispatch /\ current_mode \in Enveloped /\ gain < Recovered => gain' > gain]_vars
  <2> SUFFICES ASSUME TypeOK, Next, input.impulse = 0
               PROVE  /\ gain' >= gain
                      /\ Dispatch /\ current_mode \in Enveloped /\ gain < Recovered => gain' > gain
    OBVIOUS
  <2>1. Unity \in Nat \ {0} /\ Floor \in 1..Unity /\ gain \in Floor..Unity
    BY FusionAssumption DEF TypeOK
  <2>2. CASE Dispatch
    <3>1. UpdateEnvelope \/ (gain' = gain /\ current_mode \notin Enveloped)
      BY <2>2 DEF Dispatch, Enveloped, ProcessBlend, ProcessLowConfidence, ProcessDegraded,
        ProcessNlmsFault, ProcessBypass, ProcessError
    <3> QED BY <2>1, <3>1, QuietEnvelope
  <2>3. CASE ~Dispatch
    <3>1. gain' \in {gain, Unity}
      BY <2>3 DEF Next, Frame, Control, Evaluate, SetBypass, ResetMode, ResetRest, Ramp, levels
    <3> QED BY <2>1, <2>3, <3>1
  <2> QED BY <2>2, <2>3
<1> QED BY <1>1, TypeCorrect, PTL DEF Spec, RecoveryAdvances

================================================================================
