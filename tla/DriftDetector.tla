---------------------------- MODULE DriftDetector ----------------------------
(***************************************************************************)
(* DriftDetector (embedded/audio/drift_detector.hpp): how many frames each *)
(* microphone has delivered, and the warning that disables the NLMS stage. *)
(*                                                                         *)
(* Every capture thread is a recorder.  A record call adds to one counter, *)
(* then update_metrics() loads the primary counter, loads the reference    *)
(* counter and stores the verdict: four atomic accesses, not one.  With    *)
(* two devices there are two recorders and nothing orders their stores.    *)
(* The timestamps only feed get_timestamp_drift_ms(), which nothing calls. *)
(***************************************************************************)
EXTENDS Integers

CONSTANTS
  Recorder,    \* the capture threads
  Sizes,       \* lengths of the chunks they record, in frames
  MaxDrift,    \* max_allowable_drift_ms_, in frames
  MaxFrames    \* bound: frames recorded per microphone

Mic == {"primary", "reference"}

VARIABLES
  frames,     \* primary_frames_ and reference_frames_
  warning,    \* warning_active_
  step,       \* where each recorder is in its record call
  seen        \* what update_metrics() has computed so far

vars == <<frames, warning, step, seen>>

TypeOK ==
  /\ frames \in [Mic -> Nat]
  /\ warning \in BOOLEAN
  /\ step \in [Recorder -> {"idle", "load_primary", "load_reference", "store"}]
  /\ seen \in [Recorder -> Int]

Init ==
  /\ frames = [m \in Mic |-> 0]
  /\ warning = FALSE
  /\ step = [r \in Recorder |-> "idle"]
  /\ seen = [r \in Recorder |-> 0]

Distance(d) == IF d < 0 THEN -d ELSE d

\* get_drift_samples()
Drift == frames["primary"] - frames["reference"]

\* record_primary(n) or record_reference(n): the fetch_add.
Record(r, m, n) ==
  /\ step[r] = "idle"
  /\ frames[m] + n <= MaxFrames
  /\ frames' = [frames EXCEPT ![m] = @ + n]
  /\ step' = [step EXCEPT ![r] = "load_primary"]
  /\ UNCHANGED <<warning, seen>>

LoadPrimary(r) ==
  /\ step[r] = "load_primary"
  /\ seen' = [seen EXCEPT ![r] = frames["primary"]]
  /\ step' = [step EXCEPT ![r] = "load_reference"]
  /\ UNCHANGED <<frames, warning>>

LoadReference(r) ==
  /\ step[r] = "load_reference"
  /\ seen' = [seen EXCEPT ![r] = @ - frames["reference"]]
  /\ step' = [step EXCEPT ![r] = "store"]
  /\ UNCHANGED <<frames, warning>>

\* Faulty variant: a drift of exactly the threshold already counts.
StoreInclusive(r) ==
  /\ step[r] = "store"
  /\ warning' = (Distance(seen[r]) >= MaxDrift)
  /\ step' = [step EXCEPT ![r] = "idle"]
  /\ UNCHANGED <<frames, seen>>

Store(r) ==
  /\ step[r] = "store"
  /\ warning' = (Distance(seen[r]) > MaxDrift)
  /\ step' = [step EXCEPT ![r] = "idle"]
  /\ UNCHANGED <<frames, seen>>

Update(r) == LoadPrimary(r) \/ LoadReference(r) \/ Store(r)

\* A thread records the microphones it reads: one of two devices' or both of one.
Next == \E r \in Recorder : (\E m \in Mic, n \in Sizes : Record(r, m, n)) \/ Update(r)

Spec == Init /\ [][Next]_vars

Idle == \A r \in Recorder : step[r] = "idle"

\* When no record call is in progress the warning says whether the drift
\* exceeds the threshold, however the calls interleaved ("Returns true if
\* inter-stream drift exceeds max allowable threshold", is_warning_active).
WarningExact == Idle => (warning <=> Distance(Drift) > MaxDrift)
=============================================================================
