--------------------------- MODULE FusionController ---------------------------
(***************************************************************************)
(* noiselessx::fusion::FusionController (embedded/fusion): the state       *)
(* machine that chooses, frame by frame, what the listener hears.          *)
(*                                                                         *)
(* The processing thread runs fuse(): it evaluates the mode from the       *)
(* frame's inputs, then dispatches on current_mode_, which it reads again. *)
(* set_bypass() and reset() are called by the main thread and by the IPC   *)
(* thread, without a lock, and so at any point of a frame.  A frame is cut *)
(* where it reads again what a reset() writes: the evaluation of the mode, *)
(* the dispatch on it with the mixing and the envelope, and the ramp.      *)
(* Audio frames are abstracted to where their samples come from and the    *)
(* gain their ramp ends at.  Gains, probabilities, weights and lambda are  *)
(* fixed-point numbers: n stands for n / Unity, rounded down.              *)
(***************************************************************************)
EXTENDS Integers

CONSTANTS
  Unity,                    \* what stands for 1.0
  Floor, Beta,              \* impulse_gain_floor, impulse_beta
  AttackAlpha, ReleaseAlpha,
  LambdaMin, LambdaMax,
  LowConfidenceScale,
  ConfidenceThreshold,      \* low_confidence_threshold
  ImpulseThreshold,
  Recovered,                \* the level from which the gain counts as recovered
  Inputs,                   \* the FusionInputs that are fed in
  FaultLimit                \* fault_count_ is not followed beyond this

\* The fields of a FusionInput but for the samples.
FusionInput ==
  [ai_available : BOOLEAN, nlms_available : BOOLEAN, hardware_available : BOOLEAN,
   bypass_requested : BOOLEAN,
   confidence : 0..Unity, impulse : 0..Unity, vad : 0..Unity]

ASSUME FusionAssumption ==
  /\ Unity \in Nat \ {0}
  /\ Floor \in 1..Unity
  /\ {Beta, AttackAlpha, ReleaseAlpha, LowConfidenceScale} \subseteq 0..Unity
  /\ LambdaMin \in 0..Unity /\ LambdaMax \in LambdaMin..Unity
  /\ {ConfidenceThreshold, ImpulseThreshold} \subseteq 0..Unity
  /\ Recovered \in Floor..Unity
  /\ Inputs \subseteq FusionInput
  /\ FaultLimit \in Nat \ {0}

Mode == {"NORMAL", "LOW_CONFIDENCE", "IMPULSE", "DEGRADED", "NLMS_FAULT", "BYPASS", "ERROR"}
Fault == {"NLMS_FAULT", "DEGRADED", "ERROR"}
Source == {"none", "blend", "ai", "nlms", "raw", "silence"}

\* The modes whose handlers apply the envelope.
Enveloped == Mode \ {"BYPASS", "ERROR"}

VARIABLES
  current_mode,
  previous_mode,
  current_lambda,
  gain,                \* current_envelope_gain_
  previous_gain,       \* previous_envelope_gain_
  manual_bypass,
  fault_count,
  last_fault,          \* the mode last_fault_message_ is about; "none" if empty
  in_frame,            \* fuse() has evaluated the mode and not yet dispatched
  ramping,             \* it has moved the envelope and not yet applied it
  input,               \* the FusionInput of the frame, kept until the next one
  out,                 \* where the samples of the last frame returned come from
  resetting,           \* reset() has set the modes and not yet the rest
  \* What the calls of other threads did to the frame, for the properties alone:
  torn,                \* the current mode was entered while reset() was at work
  mode_lost,           \* reset() replaced the frame's mode before its dispatch
  gain_lost            \* reset() replaced the frame's gain before its ramp

modes == <<current_mode, previous_mode>>
record == <<fault_count, last_fault>>
levels == <<current_lambda, gain, previous_gain>>
control == <<manual_bypass, resetting>>
history == <<torn, mode_lost, gain_lost>>
vars == <<modes, record, levels, control, history, in_frame, ramping, input, out>>

Larger(a, b) == IF a >= b THEN a ELSE b
Clamp(x, low, high) == IF x < low THEN low ELSE IF x > high THEN high ELSE x

\* Weighted mean, alpha / Unity of the first.
Mix(alpha, a, b) == (alpha * a + (Unity - alpha) * b) \div Unity

TypeOK ==
  /\ {current_mode, previous_mode} \subseteq Mode
  /\ current_lambda \in 0..Unity
  /\ {gain, previous_gain} \subseteq Floor..Unity
  /\ manual_bypass \in BOOLEAN
  /\ fault_count \in 0..FaultLimit
  /\ last_fault \in Fault \cup {"none"}
  /\ in_frame \in BOOLEAN
  /\ input \in Inputs
  /\ out \in Source
  /\ resetting \in BOOLEAN
  /\ ramping \in BOOLEAN
  /\ {torn, mode_lost, gain_lost} \subseteq BOOLEAN

Init ==
  /\ current_mode = "NORMAL" /\ previous_mode = "NORMAL"
  /\ current_lambda = Unity \div 2
  /\ gain = Unity /\ previous_gain = Unity
  /\ manual_bypass = FALSE
  /\ fault_count = 0 /\ last_fault = "none"
  /\ in_frame = FALSE /\ ramping = FALSE
  /\ input \in Inputs
  /\ out = "none"
  /\ resetting = FALSE
  /\ torn = FALSE /\ mode_lost = FALSE /\ gain_lost = FALSE

------------------------------------------------------------------------------
\* fuse().

\* Faulty variant: one path down is taken for both.
EvaluateModeEitherDown(inp) ==
  IF ~inp.hardware_available \/ ~inp.ai_available \/ ~inp.nlms_available THEN "ERROR"
  ELSE IF manual_bypass \/ inp.bypass_requested THEN "BYPASS"
  ELSE IF inp.impulse >= ImpulseThreshold THEN "IMPULSE"
  ELSE IF inp.confidence < ConfidenceThreshold THEN "LOW_CONFIDENCE"
  ELSE "NORMAL"

\* Faulty variant: the heuristics are looked at before the AI fault.
EvaluateModeHeuristicsFirst(inp) ==
  IF ~inp.hardware_available \/ (~inp.ai_available /\ ~inp.nlms_available) THEN "ERROR"
  ELSE IF manual_bypass \/ inp.bypass_requested THEN "BYPASS"
  ELSE IF ~inp.nlms_available THEN "NLMS_FAULT"
  ELSE IF inp.impulse >= ImpulseThreshold THEN "IMPULSE"
  ELSE IF inp.confidence < ConfidenceThreshold THEN "LOW_CONFIDENCE"
  ELSE IF ~inp.ai_available THEN "DEGRADED"
  ELSE "NORMAL"

\* manual_error_ is left out: nothing in the program sets it.
EvaluateMode(inp) ==
  IF ~inp.hardware_available \/ (~inp.ai_available /\ ~inp.nlms_available) THEN "ERROR"
  ELSE IF manual_bypass \/ inp.bypass_requested THEN "BYPASS"
  ELSE IF ~inp.ai_available THEN "DEGRADED"
  ELSE IF ~inp.nlms_available THEN "NLMS_FAULT"
  ELSE IF inp.impulse >= ImpulseThreshold THEN "IMPULSE"
  ELSE IF inp.confidence < ConfidenceThreshold THEN "LOW_CONFIDENCE"
  ELSE "NORMAL"

\* What the properties keep of an evaluation.
SeeMode ==
  /\ torn' = IF current_mode' # current_mode THEN resetting ELSE torn
  /\ mode_lost' = FALSE /\ gain_lost' = FALSE

\* Faulty variant: only faults entered from NORMAL are logged.
EvaluateLogFromNormal(inp) ==
  /\ ~in_frame /\ ~ramping
  /\ in_frame' = TRUE
  /\ input' = inp
  /\ current_mode' = EvaluateMode(inp)
  /\ IF current_mode' # current_mode THEN previous_mode' = current_mode
                                     ELSE UNCHANGED previous_mode
  /\ IF current_mode = "NORMAL" /\ current_mode' \in Fault
     THEN fault_count' = (IF fault_count < FaultLimit THEN fault_count + 1 ELSE FaultLimit)
          /\ last_fault' = current_mode'
     ELSE UNCHANGED record
  /\ SeeMode
  /\ UNCHANGED <<levels, out, control, ramping>>

\* Step 1 of fuse: the transition, and the log of an entry into a fault mode.
Evaluate(inp) ==
  /\ ~in_frame /\ ~ramping
  /\ in_frame' = TRUE
  /\ input' = inp
  /\ LET next_mode == EvaluateMode(inp) IN
       IF next_mode # current_mode
       THEN /\ previous_mode' = current_mode
            /\ current_mode' = next_mode
            /\ IF next_mode \in Fault
               THEN /\ fault_count' = IF fault_count < FaultLimit THEN fault_count + 1 ELSE FaultLimit
                    /\ last_fault' = next_mode
               ELSE UNCHANGED record
       ELSE UNCHANGED <<modes, record>>
  /\ SeeMode
  /\ UNCHANGED <<levels, out, control, ramping>>

TargetGain(impulse) == Larger(Unity - (Beta * impulse) \div Unity, Floor)

\* compute_dynamic_lambda
Lambda(low_confidence_mode) ==
  LET lambda == Clamp((input.confidence * input.vad) \div Unity, LambdaMin, LambdaMax)
  IN  IF low_confidence_mode
      THEN Clamp((lambda * LowConfidenceScale) \div Unity, LambdaMin,
                 LambdaMin + (LambdaMax - LambdaMin) \div 4)
      ELSE lambda

\* Faulty variant: attack and release swapped.
UpdateEnvelopeSwapped ==
  LET target == TargetGain(input.impulse)
      alpha == IF target < gain THEN ReleaseAlpha ELSE AttackAlpha
  IN  /\ previous_gain' = gain
      /\ gain' = Clamp(Mix(alpha, target, gain), Floor, Unity)

\* Faulty variant: the weights do not add up to one, and no clamp.
UpdateEnvelopeUnweighted ==
  LET target == TargetGain(input.impulse)
      alpha == IF target < gain THEN AttackAlpha ELSE ReleaseAlpha
  IN  /\ previous_gain' = gain
      /\ gain' = (alpha * target) \div Unity + gain

\* Faulty variant: no recovery phase.
UpdateEnvelopeNoRelease ==
  LET target == TargetGain(input.impulse)
  IN  /\ previous_gain' = gain
      /\ gain' = IF target < gain
                 THEN Clamp(Mix(AttackAlpha, target, gain), Floor, Unity) ELSE gain

\* update_gain_envelope.
UpdateEnvelope ==
  LET target == TargetGain(input.impulse)
      alpha == IF target < gain THEN AttackAlpha ELSE ReleaseAlpha
  IN  /\ previous_gain' = gain
      /\ gain' = Clamp(Mix(alpha, target, gain), Floor, Unity)

ProcessBlend ==
  /\ current_mode \in {"NORMAL", "IMPULSE"}
  /\ current_lambda' = Lambda(FALSE)
  /\ out' = "blend"
  /\ UpdateEnvelope

ProcessLowConfidence ==
  /\ current_mode = "LOW_CONFIDENCE"
  /\ current_lambda' = Lambda(TRUE)
  /\ out' = "blend"
  /\ UpdateEnvelope

ProcessDegraded ==
  /\ current_mode = "DEGRADED"
  /\ current_lambda' = 0
  /\ out' = "nlms"
  /\ UpdateEnvelope

ProcessNlmsFault ==
  /\ current_mode = "NLMS_FAULT"
  /\ current_lambda' = Unity
  /\ out' = "ai"
  /\ UpdateEnvelope

\* Neither touches lambda nor the envelope.
ProcessBypass ==
  /\ current_mode = "BYPASS"
  /\ out' = "raw"
  /\ UNCHANGED <<current_lambda, gain, previous_gain>>

ProcessError ==
  /\ current_mode = "ERROR"
  /\ out' = "silence"
  /\ UNCHANGED <<current_lambda, gain, previous_gain>>

\* Step 3 of fuse: dispatch on the mode as it is now, up to the ramp.
Dispatch ==
  /\ in_frame
  /\ in_frame' = FALSE
  /\ ramping' = (current_mode \in Enveloped)
  /\ \/ ProcessBlend \/ ProcessLowConfidence \/ ProcessDegraded
     \/ ProcessNlmsFault \/ ProcessBypass \/ ProcessError
  /\ UNCHANGED <<modes, record, input, control, history>>

\* apply_gain_envelope, from previous_gain to gain as they are now.
Ramp ==
  /\ ramping
  /\ ramping' = FALSE
  /\ UNCHANGED <<modes, record, levels, control, history, in_frame, input, out>>

------------------------------------------------------------------------------
\* The other threads.

SetBypass(bypass) ==
  /\ manual_bypass' = bypass
  /\ UNCHANGED <<modes, record, levels, resetting, history, in_frame, ramping, input, out>>

\* reset(), in two steps: a frame may go on, end or begin in between.
ResetMode ==
  /\ ~resetting
  /\ resetting' = TRUE
  /\ current_mode' = "NORMAL"
  /\ previous_mode' = "NORMAL"
  /\ torn' = FALSE
  /\ mode_lost' = (mode_lost \/ in_frame)
  /\ UNCHANGED <<record, levels, manual_bypass, gain_lost, in_frame, ramping, input, out>>

ResetRest ==
  /\ resetting
  /\ resetting' = FALSE
  /\ current_lambda' = Unity \div 2
  /\ gain' = Unity /\ previous_gain' = Unity
  /\ manual_bypass' = FALSE
  /\ fault_count' = 0
  /\ last_fault' = "none"
  /\ gain_lost' = (gain_lost \/ ramping)
  /\ UNCHANGED <<modes, torn, mode_lost, in_frame, ramping, input, out>>

Frame == (\E inp \in Inputs : Evaluate(inp)) \/ Dispatch \/ Ramp
Control == (\E bypass \in BOOLEAN : SetBypass(bypass)) \/ ResetMode \/ ResetRest

Next == Frame \/ Control

Spec == Init /\ [][Next]_vars

\* Audio keeps arriving, so frames keep being fused; a reset ends.
LiveSpec == Spec /\ WF_vars(Frame) /\ WF_vars(ResetRest)

------------------------------------------------------------------------------
\* Properties.

BothDown(inp) == ~inp.ai_available /\ ~inp.nlms_available
Down(inp) == ~inp.hardware_available \/ BothDown(inp)

\* Whatever control calls fall within a frame, it is silent only when, as it began, the
\* hardware or both processing paths were reported down; and then it is, unless a
\* reset() took its mode away before the dispatch (evaluate_mode, the switch of fuse).
SilenceJustified ==
  ~in_frame /\ out # "none" =>
    /\ out = "silence" => Down(input)
    /\ Down(input) => out = "silence" \/ mode_lost

\* The impulse envelope moves towards the frame's target and never past it:
\* no overshoot above a target, no dip under it, and so no gain beneath the
\* floor or above one, from any mode the frame was entered from.
GainTowardsTarget ==
  [][Dispatch /\ current_mode \in Enveloped =>
       LET target == TargetGain(input.impulse)
       IN  IF target < gain THEN target <= gain' /\ gain' <= gain
                            ELSE gain <= gain' /\ gain' <= target]_vars

\* After each frame, what the dashboard shows is one story: a fault mode has been
\* counted and its message is the last one, and lambda says what was mixed.  Only a
\* mode that fuse() entered while reset() was clearing the record is without one, and
\* only until the mode changes again.
ShownStateConsistent ==
  ~in_frame /\ ~resetting /\ ~torn =>
    /\ current_mode \in Fault => fault_count > 0 /\ last_fault = current_mode
    /\ current_mode = "DEGRADED" => current_lambda = 0
    /\ current_mode = "NLMS_FAULT" => current_lambda = Unity

\* A frame that was sounded comes from paths that were up when it began, whatever
\* bypass calls and resets fell within it; only a reset() between the evaluation and
\* the dispatch, which reads current_mode_ again, can bring in a path that was down,
\* and then only in the blend.
SourcesUp ==
  ~in_frame =>
    /\ out = "ai" => input.ai_available
    /\ out = "nlms" => input.nlms_available
    /\ out = "blend" => (input.ai_available /\ input.nlms_available) \/ mode_lost

\* The ramp of a frame whose impulse reaches the threshold ends under the level a full
\* attack from unity reaches, in every mode with an envelope, whatever bypass, fault,
\* recovery or reset came before or within the frame; only a reset() between
\* update_gain_envelope and apply_gain_envelope lets it out.
ListenerProtected ==
  [][Ramp /\ input.impulse >= ImpulseThreshold =>
       gain <= Mix(AttackAlpha, TargetGain(ImpulseThreshold), Unity) \/ gain_lost]_vars

\* When the impulses are over the level comes back, unless the controller stays
\* in BYPASS or ERROR, which leave the envelope where it was.
LevelRecovers ==
  <>[](input.impulse = 0 /\ current_mode \in Enveloped) => <>[](gain >= Recovered)

\* Every quiet frame of a mode with an envelope brings the level up until it counts
\* as recovered, and no step takes it down while the input is quiet, however bypass,
\* faults and resets alternate (update_gain_envelope, the release).
RecoveryAdvances ==
  [][input.impulse = 0 =>
       /\ gain' >= gain
       /\ Dispatch /\ current_mode \in Enveloped /\ gain < Recovered => gain' > gain]_vars

\* Documented: ERROR, and so silence, is for microphones and hardware that are
\* unavailable (fusion_types.hpp, the comment of ERROR).
SilenceIsHardware ==
  out = "silence" /\ ~in_frame => ~input.hardware_available

=============================================================================
