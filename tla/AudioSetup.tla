------------------------------ MODULE AudioSetup ------------------------------
(***************************************************************************)
(* From the configuration file to samples at the internal rate: the audio  *)
(* section as parse_yaml_config (runtime/main.cpp) reads it, the devices   *)
(* AlsaBackend opens, closes and opens again, and the capture loop of the  *)
(* primary microphone with Decimator3.                                     *)
(*                                                                         *)
(* One thread calls initialize(), start() and stop(), one after the other  *)
(* (PipelineLifecycle interleaves two).  Each snd_pcm_open and setting of  *)
(* parameters succeeds or fails; a device that is opened grants what it is *)
(* asked for.  A file is the sequence of its key and value lines.  Reads   *)
(* return one to MaxRead frames; a sample is known by its number.          *)
(***************************************************************************)
EXTENDS Integers, SequencesExt

CONSTANTS
  Files,          \* the configuration files, each a sequence of <<key, value>>
  Defaults,       \* AudioConfig's member initialisers
  Taps,           \* the length of the decimation filter
  ChunkCapacity,  \* samples of a chunk
  MaxRead,        \* bound: frames of one read
  MaxFrames,      \* bound: frames captured in one session
  MaxStarts       \* bound: calls of start()

ASSUME AudioSetupAssumption ==
  /\ Taps \in Nat \ {0}
  /\ {ChunkCapacity, MaxRead, MaxFrames, MaxStarts} \subseteq Nat
  /\ MaxRead <= 3 * ChunkCapacity

VARIABLES
  config,         \* config_, one of Files parsed
  pc,             \* where in initialize(), start() or the time between the calls are
  caller,         \* who called initialize(): "main", or "start" on closed handles
  handle,         \* the pcm_ members that are not null
  opened,         \* history: how often each device is open
  running,        \* is_running_
  starts,         \* history: calls of start()
  captured, produced,     \* history: frames read, samples pushed, in this session
  pending, filled,        \* of the current read: frames to convert, samples converted
  ring, history_index, decimation,   \* Decimator3: history_, history_index_, phase_
  recent          \* history: the last samples of this session, newest first

devices == <<handle, opened>>
decimator == <<ring, history_index, decimation, recent>>
capture == <<captured, produced, pending, filled, decimator>>
vars == <<config, pc, caller, devices, running, starts, capture>>

Role == {"primary", "reference", "playback"}
NoSample == 0

TypeOK ==
  /\ pc \in {"initialize", "done", "failed", "exit", "idle", "run"} \cup Role
  /\ caller \in {"main", "start"}
  /\ handle \subseteq Role /\ opened \in [Role -> Int]
  /\ running \in BOOLEAN
  /\ {starts, captured, produced, pending, filled} \subseteq Nat
  /\ ring \in [0 .. Taps - 1 -> Int] /\ history_index \in 0 .. Taps - 1
  /\ decimation \in 0 .. 2
  /\ recent \in [1 .. Taps -> Int]

------------------------------------------------------------------------------
\* parse_yaml_config: a line at a time, over the defaults.

\* Of what the audio section sets, the rates and the devices are kept.
Apply(parsed, line) ==
  LET key == line[1]  value == line[2] IN
    CASE key = "input_device" -> [parsed EXCEPT !.primary_device = value]
      [] key \in {"sample_rate", "hardware_sample_rate", "reference_device", "single_mic"} ->
           [parsed EXCEPT ![key] = value]
      [] OTHER -> parsed

Parsed(file) == FoldLeft(Apply, Defaults, file)

ASSUME FilesAssumption ==
  \A file \in Files :
    Parsed(file).sample_rate \in Nat \ {0} /\ Parsed(file).hardware_sample_rate \in Nat

------------------------------------------------------------------------------
\* AlsaBackend::initialize().

Topology ==
  IF config.single_mic \/ config.reference_device \in {"", "disabled", "null"} THEN "single"
  ELSE IF config.primary_device = config.reference_device THEN "multichannel"
  ELSE "two_devices"

Ratio == config.hardware_sample_rate \div config.sample_rate

\* A ratio below one is zero here, and refused.
RateSupported == Ratio > 0 /\ config.hardware_sample_rate % config.sample_rate = 0

Needed == IF Topology = "two_devices" THEN Role ELSE Role \ {"reference"}

\* The device opened after this one, or the end of initialize().
NextRole(role) ==
  IF role = "playback" THEN "done"
  ELSE IF role = "primary" /\ Topology = "two_devices" THEN "reference" ELSE "playback"

Closed(roles) == opened' = [r \in Role |-> IF r \in roles THEN opened[r] - 1 ELSE opened[r]]

Initialize ==
  /\ pc = "initialize"
  /\ pc' = IF RateSupported THEN "primary" ELSE "failed"
  /\ UNCHANGED <<config, caller, devices, running, starts, capture>>

\* configure_pcm_handle(): open, then set and check the parameters.
OpenDevice(role) ==
  /\ pc = role
  /\ handle' = handle \cup {role}
  /\ opened' = [opened EXCEPT ![role] = @ + 1]
  /\ pc' = NextRole(role)
  /\ UNCHANGED <<config, caller, running, starts, capture>>

\* Faulty variant: the primary device is left open when another one fails.
OpenFailsLeaving(role) ==
  /\ pc = role
  /\ handle' = handle \ {role} /\ UNCHANGED opened
  /\ pc' = "failed"
  /\ UNCHANGED <<config, caller, running, starts, capture>>

\* It closes its own handle; initialize() closes those opened before it.
OpenFails(role) ==
  /\ pc = role
  /\ Closed(handle)
  /\ handle' = {}
  /\ pc' = "failed"
  /\ UNCHANGED <<config, caller, running, starts, capture>>

------------------------------------------------------------------------------
\* main() ends when its initialize() fails; a start() that fails may be repeated.
Failed ==
  /\ pc = "failed"
  /\ pc' = IF caller = "main" THEN "exit" ELSE "idle"
  /\ UNCHANGED <<config, caller, devices, running, starts, capture>>

Initialized ==
  /\ pc = "done"
  /\ pc' = IF caller = "main" THEN "idle" ELSE "run"
  /\ UNCHANGED <<config, caller, devices, running, starts, capture>>

\* AlsaBackend::start(): closed handles are opened again.
Start ==
  /\ pc = "idle" /\ ~running
  /\ starts < MaxStarts
  /\ starts' = starts + 1
  /\ caller' = "start"
  /\ pc' = IF {"primary", "playback"} \subseteq handle THEN "run" ELSE "initialize"
  /\ UNCHANGED <<config, devices, running, capture>>

Silence == [i \in 0 .. Taps - 1 |-> NoSample]

\* Faulty variant: the decimator keeps the last session's samples.
RunStale ==
  /\ pc = "run"
  /\ pc' = "idle"
  /\ running' = (Needed \subseteq handle)
  /\ captured' = 0 /\ produced' = 0
  /\ recent' = [i \in 1 .. Taps |-> NoSample]
  /\ UNCHANGED <<config, caller, devices, starts, pending, filled, ring, history_index,
                 decimation>>

Run ==
  /\ pc = "run"
  /\ pc' = "idle"
  /\ running' = (Needed \subseteq handle)
  /\ ring' = Silence /\ history_index' = 0 /\ decimation' = 0
  /\ captured' = 0 /\ produced' = 0
  /\ recent' = [i \in 1 .. Taps |-> NoSample]
  /\ UNCHANGED <<config, caller, devices, starts, pending, filled>>

\* stop(), which joins the capture thread after its current read.
Stop ==
  /\ pc = "idle" /\ running
  /\ pending = 0
  /\ running' = FALSE
  /\ Closed(handle)
  /\ handle' = {}
  /\ UNCHANGED <<config, pc, caller, starts, capture>>

------------------------------------------------------------------------------
\* The capture thread of the primary microphone.

\* snd_pcm_readi; only the loop of the single microphone resamples.
Read(frames) ==
  /\ running /\ pending = 0
  /\ captured + frames <= MaxFrames
  /\ captured' = captured + frames
  /\ IF Topology = "single"
       THEN pending' = frames /\ filled' = 0 /\ UNCHANGED produced
       ELSE produced' = produced + frames /\ UNCHANGED <<pending, filled>>
  /\ UNCHANGED <<config, pc, caller, devices, running, starts, decimator>>

\* Faulty variant: every second sample is put out.
PhaseEarly == IF decimation = 1 THEN 0 ELSE decimation + 1

\* Decimator3 puts out one sample for every third it is given.
Phase == IF decimation = 2 THEN 0 ELSE decimation + 1

\* The sample that tap t weighs when the next one goes to slot idx.
Tap(t, idx) == ring[(idx + t) % Taps]

\* One frame through Decimator3::process(); the chunk is pushed after the last.
Convert ==
  LET due == Phase = 0 /\ filled < ChunkCapacity
      sample == captured - pending + 1
      now == filled + (IF due THEN 1 ELSE 0)
  IN /\ pending > 0
     /\ ring' = [ring EXCEPT ![history_index] = sample]
     /\ history_index' = (history_index + 1) % Taps
     /\ decimation' = Phase
     /\ recent' = [i \in 1 .. Taps |-> IF i = 1 THEN sample ELSE recent[i - 1]]
     /\ pending' = pending - 1
     /\ filled' = IF pending = 1 THEN 0 ELSE now
     /\ produced' = IF pending = 1 THEN produced + now ELSE produced
     /\ UNCHANGED <<config, pc, caller, devices, running, starts, captured>>

------------------------------------------------------------------------------
Init ==
  /\ config \in {Parsed(file) : file \in Files}
  /\ pc = "initialize" /\ caller = "main"
  /\ handle = {} /\ opened = [r \in Role |-> 0]
  /\ running = FALSE /\ starts = 0
  /\ captured = 0 /\ produced = 0 /\ pending = 0 /\ filled = 0
  /\ ring = Silence /\ history_index = 0 /\ decimation = 0
  /\ recent = [i \in 1 .. Taps |-> NoSample]

Next ==
  \/ Initialize \/ Failed \/ Initialized \/ Start \/ Run \/ Stop \/ Convert
  \/ \E role \in Role : OpenDevice(role) \/ OpenFails(role)
  \/ \E frames \in 1 .. MaxRead : Read(frames)

Spec == Init /\ [][Next]_vars

------------------------------------------------------------------------------
\* Whatever fails and however often it is tried again: no device is open twice or
\* without a handle to close it by, between calls either all the devices of the
\* topology are open or none is, so that start() can tell from two of them, and
\* the audio threads run on all of them.
NoHandleLeak ==
  /\ \A r \in Role : opened[r] = IF r \in handle THEN 1 ELSE 0
  /\ pc = "idle" => handle \in {{}, Needed}
  /\ running => handle = Needed

\* What the pipeline is given is at the internal rate: one sample for each
\* hardware frame, divided by the ratio of the rates.
InternalRate == running /\ pending = 0 => produced = captured \div Ratio

\* Whatever the configured rates are, what the loops do: the single microphone's hands
\* over every third frame, the others every frame, however the frames are cut into reads.
Divisor == IF Topology = "single" THEN 3 ELSE 1
EveryThird == running /\ pending = 0 => produced = captured \div Divisor

\* The decimator's cut at the capacity of a chunk never discards a sample that is due.
NothingCut == pending > 0 /\ Phase = 0 => filled < ChunkCapacity

\* However a session's frames are cut into reads, and whatever session came
\* before, the decimator weighs the last frames of this session, oldest first.
WindowExact == \A t \in 0 .. Taps - 1 : Tap(t, history_index) = recent[Taps - t]
=============================================================================
