-------------------------- MODULE MCFusionController --------------------------
(***************************************************************************)
(* FusionController with the default FusionConfig scaled to Unity, and the *)
(* inputs of each kind: what the pipeline feeds in (confidence 0.92 or 0,  *)
(* no hardware failure), and the lower confidence and the hardware failure *)
(* of the component's own tests.                                           *)
(***************************************************************************)
EXTENDS FusionController

InputWith(ai, nlms, bypass, hardware, conf, impulse) ==
  [ai_available |-> ai, nlms_available |-> nlms, hardware_available |-> hardware,
   bypass_requested |-> bypass, confidence |-> conf, impulse |-> impulse, vad |-> Unity]

High == (92 * Unity) \div 100

\* Every impulse with both paths up, silence and a crack with one or both down.
PipelineInputs ==
  {InputWith(ai, nlms, FALSE, TRUE, IF ai THEN High ELSE 0, p) :
     ai \in BOOLEAN, nlms \in BOOLEAN, p \in {0, Unity}}
    \cup {InputWith(TRUE, TRUE, FALSE, TRUE, High, (60 * Unity) \div 100),
          InputWith(TRUE, TRUE, TRUE, TRUE, High, Unity)}

TestInputs ==
  PipelineInputs
    \cup {InputWith(TRUE, TRUE, FALSE, TRUE, (25 * Unity) \div 100, 0),
          InputWith(TRUE, TRUE, FALSE, FALSE, High, 0)}

==============================================================================
