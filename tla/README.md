# NOICELESS-X in TLA+

TLA+ specifications of the real-time engine of NOICELESS-X, the TLC
configurations that check them on small instances, and TLAPS proofs of what
holds for every value of the constants.

The engine is a C++ program (`embedded/`): threads that capture one or two
microphones, a processing thread that denoises one hop at a time, a playback
thread, and an IPC server through which a FastAPI backend and a dashboard start,
stop and observe it. What is hard to test in it is concurrency (three to five
threads, lock-free queues, flags instead of locks), the order of starting,
stopping and destroying, failures half-way through opening devices, and state that
is carried from hop to hop: a fusion state machine whose outputs depend on the
history of faults, detectors with hysteresis, hangovers and envelopes, rings of
filter samples. The specifications are about these, and about which samples and
which memory the enhancement branch combines. What a transform, a filter's
coefficients, adaptive weights or the network compute is left out. A Python twin of the engine
(`ai/runtime/`) has one component of its own, the session logger, which is
modelled too.

## Inventory

| component | state | operations | interacts with | hard behaviour |
|---|---|---|---|---|
| `SpscRingBuffer` (`audio/ring_buffer.hpp`) | slots, two `size_t` indices, overflow count | `push`, `pop`, `push_batch`, `pop_batch`, `clear`, `reset_overflow_count` | one producer and one consumer thread | data races, stale loads, wrap of the indices, full and empty |
| `DriftDetector` (`audio/drift_detector.hpp`) | two frame counters, a warning flag | `record_primary`, `record_reference`, `is_warning_active` | written by the capture threads, read by the processing thread | two threads updating one flag |
| `AlsaBackend` (`audio/alsa_backend.cpp`) | pcm handles, three rings, detector, flags, up to three threads | `initialize`, `start`, `stop`, the capture and playback loops | owned by the pipeline | one of several opens failing, overruns, handles closed while in use, independent devices |
| `Decimator3` (`audio/decimator.hpp`) | history, write position, phase | `process`, `reset` | the single microphone's capture loop | reads that are no multiple of three, a full chunk |
| `RealtimePipeline` (`runtime/realtime_pipeline.cpp`) | flags, processing thread, DSP stages, telemetry | `start`, `stop`, `reset`, `set_bypass`, the loop | called by main and by the IPC thread | check-then-act on `is_running_`, pairing of the two streams |
| `FusionController` (`fusion/`) | mode, lambda, gain envelope, fault record, manual bypass | `fuse`, `set_bypass`, `reset` | the loop calls `fuse`; the IPC thread the other two | priorities of modes, stale envelope, unsynchronised control |
| `IpcServer` (`runtime/ipc_server.cpp`) | flags, listener thread | `start`, `stop`, the listener loop | runs main's handler on its own thread | blocking calls, failures of the socket, shutdown |
| `main` (`runtime/main.cpp`) | the shutdown flag | configure, start, loop, tear down | owns pipeline and server | order of teardown, destructors of joinable threads |
| `SpeechEnhancer` (`ai/onnx_engine.cpp`) | ONNX session, two buffers of hidden state, degraded flag | `infer`, `reset_state` | the loop; `reset()` of the IPC thread | a failed inference, a latch that is never reset, a reset during an inference |
| `StftEngine` (`dsp/stft.cpp`) | history, two accumulators | `process_analysis`, `process_synthesis_complex`, `reset` | the loop; `reset()` of the IPC thread | buffers that must advance in step across hops, failures and resets; hops that are short |
| `DcBlocker`, `BiquadFilter` (`dsp/`) | running mean, delays | `process_sample`, `reset` | the loop, before everything else | a constructor whose arguments do not mean what the caller passes |
| `FeatureBasedVad` (`dsp/vad.hpp`) | noise floor, hangover, smoothed probability | `process_frame`, `reset` | the loop | clipping a word's end, never ending |
| `ImpulseDetector` (`impulse/`) | smoothed probability, latch, a gain nothing applies | `detect`, `reset` | the loop, which hands on the probability only | flapping, missed onsets, a reset that leaves it out |
| `NLMSFilter` (`dsp/nlms.cpp`) | weights, circular history, its index | `process`, `reset` | the loop; `reset()` of the IPC thread | a ring that wraps in the middle of a loop, a reset in the middle of a call |
| `SystemMetrics`, device enumeration, `SnrTracker` | counters, lists | reads of the kernel's files | telemetry, `--list-devices`; the tracker is unused | none |
| `SessionLogger` (`ai/runtime/session_logger.py`) | bounded queue, writer thread, three files | `log_frame`, `log_event`, `close` | `process_hop` and `stop` of the Python pipeline, IPC handlers | closing beside a writer that hangs and a thread that logs |
| Python runtime (`ai/runtime`, `ai/fusion`) | twins of the C++ components | as above | the same IPC protocol | as above |
| backend, dashboard (`backend/`, `frontend/`) | connections, reconnect timer | HTTP and WebSocket relays | the IPC server | reconnection, stale state shown |
| training, datasets, evaluation (`ai/`) | files | batch jobs | none at run time | resumed downloads |

What makes each correct: the ring is a bounded first-in first-out queue without a
race; the drift warning is the comparison it claims to be; the audio path loses
nothing without counting it, keeps the order, and pairs chunks within an error
one can account for; the fusion controller protects the listener, is silent only
for a cause and shows a consistent record; what reaches the detectors is still the
sound, an impulse is caught and let go, speech is not cut off, and each filter tap
meets its own sample; devices are all open or all closed, and the pipeline gets its
samples at its own rate; the enhanced branch is the input after a constant delay, with
the memory of the session and of nothing else; the log is complete, in order and without
repetition once it is closed; start, stop and destruction never terminate the process,
never use a closed handle and always finish. Where one thread calls `reset()`, `start()`
or `stop()` within another's frame or call, some of this fails in the code: the
properties then say what is left of it, and until when.

## Modules

| module | models | checked as |
|---|---|---|
| `BoundedFifo` | what the ring promises: an abstract queue with claim, commit, insertion and take | refined by `SpscRing`, and by `CapturePath` for each ring |
| `SpscRing` | `ring_buffer.hpp`: one step per index load, slot copied and index store | `MCSpscRing` |
| `SpscRing_proofs` | facts about `%`, and the proofs of the ring | tlapm |
| `DriftDetector` | `drift_detector.hpp`: one step per atomic access | within `MCCapturePath` |
| `CapturePath` | the capture loops, the processing loop's dequeue and hand-over, the playback loop, and `stop()`/`start()` in between; instantiates `DriftDetector`, and uses each ring as `BoundedFifo` | `MCCapturePath` |
| `CapturePath_proofs` | its proofs, the detector's among them | tlapm |
| `FrontEnd` | the loop's preprocessing and detectors: `dc_blocker.hpp`, `vad.cpp`, `impulse_detector.cpp`, and their part of `reset()` | `MCFrontEnd` |
| `NlmsFilter` | `nlms.cpp`: a call in four steps, and a reset slot by slot | `MCNlmsFilter` |
| `FrontEnd_proofs` | the proofs of both | tlapm |
| `AudioSetup` | `parse_yaml_config`, `AlsaBackend::initialize()` and the handles through `start()` and `stop()`, the single microphone's loop with `decimator.hpp` | `MCAudioSetup` |
| `AudioSetup_proofs` | its proofs | tlapm |
| `FusionController` | `fusion_controller.cpp`: a frame in three steps, and control calls of another thread between any two | `MCFusionController` |
| `FusionController_proofs` | its proofs | tlapm |
| `DelayLine` | what the enhancement branch promises: each hop answered by the input a constant time ago, or by itself, and what it may lose | refined by `SpectralPath` |
| `SpectralPath` | `stft.cpp` and `onnx_engine.cpp` as the loop calls them, one step per buffer written where another thread could see it, and their part of `reset()` | `MCSpectralPath` |
| `SpectralPath_proofs` | its proofs | tlapm |
| `SessionLog` | `session_logger.py`, with the calls of `process_hop()` and `stop()` | `MCSessionLog` |
| `SessionLog_proofs` | its proofs | tlapm |
| `PcmSession` | what the ALSA backend promises to ALSA: threads use only open handles, which close behind the last | refined by `PipelineLifecycle` |
| `PipelineLifecycle` | `main`, `RealtimePipeline` and `AlsaBackend` `start`/`stop`, `IpcServer`, destructors, clients | `MCPipelineLifecycle` |
| `PipelineLifecycle_proofs` | its proofs | tlapm |

### How state and actions correspond to the code

*SpscRing.* `write_idx`, `read_idx`, `overflow_count` and `buffer` are the class's
members; `src`, `copied`, `current_read` are the locals of the push in progress,
`to_read`, `dst`, `current_write` those of the pop. `Offer` is a push up to its
first slot, `CopyIn` one slot, `Publish` the release store; `Request`, `CopyOut`
and `Release` are the pop. `push(item)` and `pop(item)` are batches of one. An
acquire load may return any index between the one seen last and the current one
(`Visible`), so the specification covers delayed visibility as well as delayed
threads. Slots are `index % Capacity`, indices `% IndexModulus`.

*DriftDetector.* `Record` is the `fetch_add`, `LoadPrimary`, `LoadReference` and
`Store` are `update_metrics()`; `seen` is its local. Milliseconds are frames.

*CapturePath.* A chunk is its `frame_index`, its length and the session it was
captured in; samples and timestamps are left out. `Topology` chooses the loops
`AlsaBackend::start` spawns. `Read` and `Xrun` are the two outcomes of
`snd_pcm_readi`; `PushChunk`, `RecordFrames` and `UpdateDrift` are the rest of the
loop, one step per call. `PopPrimary`, `PopReference`, `CheckDrift` and
`PushPlayback` are the processing loop; `nlms_enabled` is true. `Play` is the
playback loop's pop. `Restart` is a `stop()` and `start()`, when all loops are at
their heads: the rings, overflow counts and drift counters stay, the telemetry
and the threads' own counters start anew. `fused`, `misses`, `played` and `heard`
are counters and a record of the specification, not of the code.

*FrontEnd.* `Hop` is the loop's body up to the detectors: the DC blocker's mean over
the hop, `detect`, `process_frame`. A hop is a member of `Frames`: two samples, enough
to tell sound from silence, and the features the detectors compute of it; the filters'
output decides whether the detectors see these features or those of silence.
Probabilities are hundredths, so that blending rounds down. The loop hands on the
impulse detector's probability alone; the gain it computes is applied to nothing and
left out. `ResetDc` and `ResetVad` are the part of `reset()` that concerns these
components, one at a time between hops: the impulse detector is not among them, which
is why `Start` does not clear it either. The thresholds are those both configuration
files give (`main.cpp`, lines 107 to 110, would read others). The high-pass filter's
state is left out.

*NlmsFilter.* `Insert`, `Estimate`, `Adapt` and `Advance` are one call of `process`:
the reference stored, the two loops over the weights, each cut in two where the ring
wraps, and the index moved. `ResetBegins`, `ResetSlot` and `ResetIndex` are `reset()`,
the history slot by slot and then the index, and may come between any two of them. A
loop reads `history_idx` from a register or again, per weight, as the build has it, and
a slot out of range holds anything (`Garbled`). `settled` counts the references since a
call and a reset last crossed.

*AudioSetup.* A configuration file is the sequence of its lines; `Parsed` folds
them over the defaults, a later line over an earlier one. `OpenDevice` and
`OpenFails` are the outcomes of `configure_pcm_handle`, in the order of
`initialize()`; a failure closes what is open and sets the handles to null. `Start`
looks at two of the handles and opens them again if they are closed, `Run` is the
rest of `start()`, with the decimator's reset. `Read` is one `snd_pcm_readi`, and
`Convert` one frame of it through `Decimator3::process`, with its cut when the chunk
is full. `opened`, `captured`, `produced` and `recent` are histories of the
specification.

*FusionController.* `Evaluate` is `fuse` up to the switch, `Dispatch` the handler,
which reads the mode again and sets the envelope, `Ramp` the envelope's use; what another
thread does in between is `SetBypass`, `ResetMode` and `ResetRest`. Numbers in [0, 1]
are integers in `0..Unity`, products are divided by `Unity` and rounded down. What
reaches the output is the path it comes from. Three history variables say what a
crossing `reset()` has overwritten: the evaluated mode (`mode_lost`), the gain before its
ramp (`gain_lost`), the fault record or lambda (`torn`).

*SpectralPath.* A sample is its number in the input, 0 is silence. `history` is
`history_buffer_`; the accumulators hold, per place, which samples and which
window weights were added, so that their quotient (`Normalised`) is a sample when
it is one, and `Garbled` when different samples or weights of other frames are
mixed. `Analyse(n)` takes a hop of `n` samples, 1 to `HopSize`: the buffers move by
`HopSize` all the same, the last places keep what they held (`stft.cpp`, lines 98 to
103), and `Emit` writes `n` samples. `OverlapAdd`, `Extract` and `Advance` are the
synthesis, `Run`, `RunReturns`, `RunThrows` and `Persist` are `infer`; `PassThrough` is
the loop's branch without the network. A hidden state is the span of samples it
remembers. The window is zero at its first place, as the code computes it. The
`Reset` steps are the fills of `StftEngine::reset()` and `reset_state()`, in order,
between any two steps of a hop. Where the two cross they race for the buffers, and what
they leave is unknown (`Unknown`, `Junk`), or for the hidden state either thread's value
or a mixture (`Mixed`). `steady` and `whole` count the places filled since then, by any
and by whole hops; `lost` lasts until a reset that crosses nothing.

*SessionLog.* A record is its frame number; `Started` is the constructor's event.
`SeeLogger` to `Put` are the end of `process_hop` and `log_frame`, one step per
attribute, flag and queue that is read; `WriterTest` to `WriterRaises` are the
writer's loop; `StopCheck` to `Unset` are `stop()` and the `close()` in it, for
each thread that calls it. Any write may raise: `failed` are the records the disk
failed on, while a write to a closed file loses the record. `accepted`, `late`,
`failed` and `timed_out` are a history kept by the specification.

*PipelineLifecycle.* Every flag access, thread assignment and join is an action.
`pc[c]` is where caller `c` (main, or the listener running a client's command) is
within `start()` or `stop()`; `s_` and `t_` steps are the pipeline's, `a_` and `b_`
steps the backend's. A `std::thread` member is none, alive or dead: assigning to
one that is not none, or destroying it, sets `terminated`. `phase` is where `main`
is, down to the destructors in reverse order of declaration; `serving` is where
the listener is. A client may connect as soon as the listener has its socket, which is
before `main` calls `pipeline.start()` (`main.cpp`, lines 400 and 402): `overlapped`
records that a call went past its check of `is_running_` while another was at work. The
assignment of a `std::thread` is one step.

## Runs

| run | constants | distinct states | shows |
|---|---|---|---|
| `ring` | 2 slots, indices modulo 4, batches to 3, loads to 2 behind | 7,361 | index order, no slot race, intact copies, the refinement of `BoundedFifo`, and that every published item is delivered |
| `fusion` | default `FusionConfig` in hundredths, 26 inputs, fault count to 1, control calls anywhere | 975,482 | the consistency, protection, cause of silence, movement and recovery of the gain |
| `lifecycle` | clients connect once the listener has its socket, the socket may fail, `--bypass` | 66,828 | calls overlap during `main`'s own start only; without that the process is ended only over a dead listener's thread, `PcmSession` is refined (no use after close), flags are honest, shutdown and commands end; no command during teardown |
| `path_multichannel` | one device, 2-chunk rings, 4 periods, 1 restart | 70,790 | accounting, pairing, order, no spurious warning, progress |
| `spectral_path` | windows of 5, hops of 1 or 2, 9 samples, resets anywhere | 1,590,829 | the refinement of `DelayLine`, constant delay, memory of the session |
| `session_log` | queue of 2, 2 frames, two threads that stop | 286,157 | no record twice or out of order, a complete log, `stop()` returns |
| `front_end` | DC blocker as `MonoPipeline` constructs it, 3 kinds of hop, 9 hops, resets between hops | 1,277,664 | sound survives, impulses are caught and held, speech is bridged, silence ends both |
| `nlms` | 3 taps, 10 references, resets anywhere | 115,019 | weights meet the references of their delays |
| `audio_setup` | the repository's two files, the defaults, a refused rate; 5 taps, 13 frames, 3 starts | 1,070 | no leaked handle, the internal rate, the decimator's window |

Three runs end in a violation, because a comment or a help text promises what the
code does not do:

* `bypass_flag_lost`: `--bypass` sets the flag, `start()` resets it.
* `silent_client`: a client that connects and sends nothing blocks shutdown for
  ever in `recv()`.
* `overlapping_calls`: a client's stop between the store of `is_running_` and the
  assignment of the thread in `main`'s start joins nothing and clears the flag; the
  thread that is then created runs on beside it, and no later `stop()` ends it.

Seven configurations stand beside the runs. Each checks one property that a comment of
the code states and that the code breaks, and TLC finds the counterexample:

| configuration | property | what happens |
|---|---|---|
| `MCFusionSilence.cfg` | `SilenceIsHardware` | on a single microphone an AI failure means ERROR, that is silence, with working hardware (`fusion_types.hpp`, line 58, promises otherwise) |
| `MCFrontEndSilence.cfg` | `SoundSurvives` | `RealtimePipeline` constructs `dc_blocker_(0.995f)` (`realtime_pipeline.cpp`, line 17), a pole, where the constructor takes a sample rate and a cutoff of 5 Hz by default: the weight of the running mean becomes 1 - exp(-10 pi / 0.995), which is 1 in a float, the mean is always the last sample, and every hop is silent before the detectors, the enhancement and NLMS see it. Only BYPASS, which forwards the raw chunk, is heard |
| `MCLifecycleSocket.cfg` | `ListenerJoined` | a listener whose socket fails clears `is_running_`, `IpcServer::stop()` returns before its join (`ipc_server.cpp`, lines 58 and 136), and the destructor meets a joinable thread |
| `MCPathSeparate.cfg` | `WarningTrue` | with two devices two threads update the drift warning, and the older of two verdicts may be stored last and stay until the next chunk |
| `MCSpectralShort.cfg` | `ExactReconstruction` | one hop shorter than `HopSize` puts later audio in the wrong place, with no reset involved |
| `MCSpectralReset.cfg` | `ForgetsSession` | a reset during an inference clears the hidden state, and the result of the inference brings the old session back (`onnx_engine.cpp`, line 216) |
| `MCNlmsFilterReset.cfg` | `ExactProduct` | a reset in the middle of a call leaves references in the slots of other delays, for later calls too (`nlms.cpp`, lines 23 to 27 and 77) |

### Properties in words

* Ring: `IndexOrder` keeps producer's view, read index, consumer's view and write
  index in order in wrapped arithmetic; `NoSlotRace` and `CopiesIntact` are the
  absence of data races on slots; `ImplementsFifo` is the refinement;
  `EveryItemDelivered` is its liveness.
* Path: `NothingLostSilently` balances what was captured, queued, refused, taken
  and heard; `SkewExplained` bounds the distance between the chunks of a pair by
  misses and refusals; `NoSpuriousWarning` says that one device, whose two microphones
  are recorded one after the other, never disables NLMS if a period is within the threshold;
  `WarningExact`, that such a device's warning is the comparison of the two counters between
  record calls, is proved, and `MCPathLongPeriod.cfg`, beside the runs, checks it where a
  period exceeds the threshold, so that the warning comes and goes within each; `HeardInOrder` and `ChunkTaken` are order and
  progress.
* Front end: `SoundSurvives` (a hop whose samples differ is not silenced),
  `ImpulseCaught` (a raw probability of 82 or more, in its own frame, from any state), `NoFlapping` (a detection
  lasts four frames), `SpeechBridged` (speech goes on for the hangover),
  `QuietEndsBoth` (six quiet hops end speech, seven an impulse, also across the
  reset that forgets one of the detectors).
* NLMS: `TapsAligned` (both loops take weight `i` with the reference of `i` samples
  ago, or silence before the last reset, for the references that have come since a call
  and a reset crossed; a reset between two calls loses none).
* Set-up: `NoHandleLeak` (open devices and handles agree, all or none between calls,
  all while the threads run), `InternalRate` (one sample out for each `Ratio` in),
  `WindowExact` (the decimator weighs the last samples of this session, oldest
  first).
* Fusion: `ShownStateConsistent`, `SourcesUp`, `ListenerProtected`,
  `SilenceJustified`, `GainTowardsTarget`, `LevelRecovers`, with control calls at any
  point. Three of them have an exception each, which is what a `reset()` within a frame
  does in the code: `SourcesUp`, that it may send to the blend a path that is down,
  when it overwrites the mode between its evaluation and the dispatch; `ListenerProtected`,
  that it may release the gain between the envelope and its ramp; `ShownStateConsistent`,
  that the record and lambda it has torn stay wrong until the mode changes and is
  dispatched. `SilenceJustified` and the movement of the gain have none.
* Enhancement: `IsDelayLine` is the refinement of `DelayLine`, so that no sample of the
  output mixes samples or weights but those a crossing reset has lost;
  `ConstantDelay` (a whole hop is the input `FftSize - HopSize` samples ago, from the first
  hop after a reset on, and after a short hop or a reset that crosses one, once whole hops have
  filled the window again), `MemoryOfSession` (the GRU state starts at the last reset,
  from a reset that crosses no hop until one that does).
* Session log: `LoggedOnce`, `LoggedInOrder`, `CompleteLog` and `StopReturns`, over
  joins that time out, failing disks and two closers at once.
* Lifecycle: `OverlapOnlyAtStart` (one caller has the pipeline to itself once
  `main`'s own start is over), `TerminatedOnlyByListener` (a `std::thread` is never overwritten,
  and destroyed joinable only where the listener's socket failed), `KeepsSession` (the
  refinement of `PcmSession`: threads come to open handles only while no stop is asked
  for and go only when one is, and handles close behind the last), `QuietConsistent`,
  `NoCommandDuringTeardown`, `ShutdownCompletes`, `CommandReturns`. All but the first and
  `NoCommandDuringTeardown` end with calls that have overlapped, which leave threads, handles
  and flags in any state: `overlapping_calls` is the proof that they do.

### Bounds, and why they are enough

* `Capacity`, `IndexModulus`: with two slots and indices modulo 4 the indices wrap
  every second filling, the ring is often full and empty, and batches exceed it.
  The proofs cover every size.
* `MaxLag`: a view as old as the capacity is as stale as it can be, since the
  indices are never further apart.
* `MaxPeriods` (periods per device) exceeds what the rings hold, so that both the
  capture and the playback ring overflow; `MaxRestarts` 1 leaves chunks of one
  session to the next. The proofs cover every number of both.
* `FaultLimit`: the fault count is compared with 0 only; it stops at the limit.
* `Inputs`: every combination of the paths' availability, bypass and an impulse
  below, at and above the threshold; the confidences the pipeline produces (0.92
  or 0), and the low confidence and hardware failure of the component's tests.
  They are the inputs the code distinguishes.
* Windows of 5 samples and hops of 2 overlap unevenly, as 512 and 80 do; hops of one or
  two samples are the short and the whole one; 9 samples are enough for a short hop or a
  crossing reset, the whole hops that fill the window again, and one more. The proofs cover
  every window, hop and length.
* A queue of two records holds the event and a frame, and refuses the second frame
  when the writer is slow; both threads that call `stop()` in the program are
  there. With 3 frames (2,001,539 states) the result is the same.
* `MaxHops` 9 is two hops of speech or impulse and the seven quiet ones that must end
  both. With three kinds of hop the impulse detector is below, between and above its two
  thresholds, and each detector is sure of a hop the other is not sure of. The proofs cover
  every hop and length.
* Three taps and ten references wrap the filter's history three times, with the cut of
  its loops at every slot, and leave a crossed history time to fill again. The proof covers
  every filter and length.
* `Taps` 5 and reads of one to five frames meet the phase at every offset; a read of
  five can fill a chunk of two samples; 13 frames turn the history over
  twice; of three calls of `start()`, the first runs, the second fails or runs after
  a `stop()`, and the third repeats it. The configurations are those of
  `config/raspberrypi.yaml`, `config/development.yaml`, the defaults and a rate that
  is refused, which together select each topology.
* The lifecycle needs no bound: clients may send any number of commands.
* The run of `CapturePath` ends when the devices have delivered their periods, that
  of `AudioSetup` when its frames and starts are used up or `main` gave up, those of
  `PipelineLifecycle` with the process, that of `SessionLog` when all frames are
  logged and the pipeline is stopped: only their configurations turn the deadlock
  check off.

### Fairness, and why the code justifies it

* `SpscRing`: a thread that began a push or a pop finishes it, and the consumer
  keeps polling (`processing_thread_loop` polls in a loop); the other side's store
  is visible to some of its loads in time, as C++ asks of atomics. Nobody has to
  push.
* `CapturePath`: the processing and playback threads are scheduled. Devices are
  not assumed to deliver.
* `FrontEnd` and `AudioSetup` state no liveness: what must end, ends in a number of
  hops (`QuietEndsBoth`), which is safety.
* `FusionController`: audio keeps arriving and a reset that began ends.
* `SessionLog`: a thread within `stop()` is scheduled, and its timeouts pass. The
  writer may hang on the disk for ever, and the audio thread may do what it wants.
* `PipelineLifecycle`: every thread is scheduled. `PoliteClients` adds that a
  connected client sends its command or hangs up, which the backend's IPC client
  does; `lifecycle` uses it, `silent_client` shows what happens without.

## Proofs

Assumptions on constants are the `ASSUME` of each module: sizes are natural
numbers, `IndexModulus` is a larger multiple of `Capacity` (the `static_assert` of
`ring_buffer.hpp`), the shares of the fusion configuration lie in `0..Unity` with a
positive floor, the DC blocker's rate is either more than ten times its cutoff (the
linear weight is then below one) or less than a third of it (it is then one), a
period is at least one frame. Theorems under a condition name it in their statement:
`Topology = "multichannel"` (one capture thread), the ratio the decimator is made for
(`RatesMatch`), the DC blocker's rate against its cutoff, and `ReleaseVisible` (at the
recovered level a release still moves the gain by one unit; with the default
configuration it moves it by 1.8). No theorem assumes that calls of different threads do
not meet: where they do, the statement says through `overlapped`, `mode_lost`, `gain_lost`,
`torn`, `lost`, `steady`, `whole` and `settled`, which the actions set, what is given up and
until when. Every invariant and action property of a passing run is proved.

* *Ring* (`SpscRing_proofs`). `IndexOrder` needs the views, not only the indices:
  a stale view is still between the last view and the index, so distances modulo
  `IndexModulus` add up, and that is inductive with the types. Slots in use by the
  two sides are then at distances below `Capacity`, so `NoSlotRace` follows, and
  with it `CopiesIntact` is inductive. The refinement maps a push to `Offer` and
  `Commit`, the end of a pop to `Take`, and copying to stuttering; its core is that
  a publish appends the copied batch to `Contents` and a release drops a prefix.
  `RingsAreFifos` is the other side: the path, whose threads push and pop single
  chunks, uses each of its rings as that same queue (with `Slack` 0: its view of the free
  space is current), in every topology and across restarts. A push is `Insert`, a pop
  `Take`, and a chunk let go of a `Poll`; wrapping the overflow counter at any width
  commutes with counting (`WrapCount`).
* *Path* (`CapturePath_proofs`). `NothingLostSilently` and `SkewExplained` follow
  from `AccountInv`: pushed equals taken plus queued plus refused for each
  microphone, and the k-th chunk of a queue has an index between its place and its
  place plus the number of refused chunks. That one is inductive because a push
  has the next index and a pop moves all places by one. A capture thread between
  its two pushes is accounted for in `PrimaryPushed`. `WarningExact` and
  `NoSpuriousWarning` follow from `DriftInv`: with one recorder the values an update
  has loaded are current, and the counters differ by at most the period it has
  recorded for one microphone and not yet for the other. `HeardInOrder` needs
  `SortedInv`: the chunk heard last, those queued for playback, the one in hand,
  those queued for processing and the next to be captured are in order of session
  and index, along the whole path.
* *Fusion* (`FusionController_proofs`). The envelope is a mean of two values in
  range, whence `TypeOK` and `GainTowardsTarget`. `FrameInv` adds what the mode may be within
  a frame: the frame's own (`ModeFits`), or NORMAL where a reset has overwritten it
  (`mode_lost`); and that between frames the record is the mode's unless a reset has torn
  it. `ShownStateConsistent`, `SourcesUp` and `SilenceJustified` follow, with control calls at
  every point. `ListenerProtected` adds arithmetic: the mix and the target are
  monotone, so from any level up to `Unity` one attack reaches at least as far down as
  the attack from `Unity` (`AttackReaches`), and the gain stays there until the ramp unless a
  reset comes between (`Attacked`). `RecoveryNeverStalls` is the safety heart of
  `LevelRecovers`: while the input is quiet no step of anyone lowers the gain, and each
  frame that applies the envelope raises it until it counts as recovered; rounding
  would stop it short where `ReleaseVisible` fails.
* *Front end* (`FrontEnd_proofs`). A weighted mean lies between what it is of,
  rounding included. `NoFlapping` needs how far the
  smoothed probability can have fallen `held` frames after the onset (`HeldInv`).
  `QuietEndsBoth` needs what `n` quiet hops leave of each detector (`LeftAfter`),
  for the worst case at the start, whether or not a reset came between
  (`QuietInv`). `ImpulseCaught` holds for every raw probability from `Sure` on, which
  is the least that does it (`SureIsLeast`). `SoundSurvives` holds where the mean's weight is below one, because
  two different samples cannot both equal a mean that moves less than they do;
  `AlwaysSilent` is the other case, which is the one the program is built with.
* *NLMS* (in `FrontEnd_proofs`, as `Nlms == INSTANCE NlmsFilter`, so that `FilterAligned` states
  `Nlms!TapsAligned`). `RingInv`: the last `settled` references are in the slots behind the
  newest (`SlotOf`, `Newest`), and while no call and reset cross, the index the call has read
  is the index and what the reset has passed is silent. A reference goes to the
  slot after the newest, which is where the oldest was; a crossing sets `settled` to zero.
* *Set-up* (`AudioSetup_proofs`). `NoHandleLeak` needs which handles are open at each
  place of `initialize()` (`HandleInv`). `WindowExact` is a fact about the ring like
  `TapsAligned`. `InternalRate` needs that the phase is the number of captured frames
  modulo three, and that a read fits a chunk (`RateInv`); it holds where the ratio of
  the rates is three on a single microphone and one elsewhere (`RatesMatch`), which
  the code does not check. What holds whatever the rates are is `EveryThirdKept`: the
  single microphone's loop hands over every third frame, the others every frame; and
  the decimator's test of its capacity never drops a sample (`NoSampleCut`).
* *Enhancement* (`SpectralPath_proofs`). `CrossInv` relates hop, reset and crossing,
  `CleanInv` says how far a reset that crosses nothing has come. `SessionInv` adds what each
  buffer holds: the history is the input, or silence where it is older than the last reset,
  in the places whole hops have filled (`FrameInv`); every
  sample in the accumulators is the one the history holds at that place, a hop
  further between hops, and its weight is beside it, in the `steady` places
  (`AccumInv`); the hidden state
  spans the session up to this hop or the last one, unless `lost` (`MemoryInv`). The quotient at a
  place is then the sample that is due, also at the place where the window is
  zero, since the frame before has added to it. `BranchIsDelayLine` puts it together:
  mapped to its history alone, the branch implements `DelayLine`, where analysis feeds
  a hop, short or whole, `Extract` answers it with the front of the line, `PassThrough` and a failed
  inference answer it with itself from then on, a reset between hops silences the
  line, one that crosses a hop loses what is on it (`Lose`), and all other steps are hidden.
* *Session log* (`SessionLog_proofs`). `CompleteLog` needs where a record is on its
  way (`KeptInv`: queued, in the writer's hand, between its two files, or in both)
  and that without a timeout nobody but the writer takes a record or closes a file
  before the writer ends (`WriterInv`). `LoggedOnce` needs that numbers are increasing
  along the queue and the hand of whoever took one last (`FifoInv`) and that what is
  in hand is in no file yet (`OnceInv`), for every number of closers that drain
  beside the writer. `LoggedInOrder` adds that the files are sorted and everything
  still queued is newer (`OrderInv`); at most one record comes after the writer has
  ended. `LogMissesOne` counts what `CompleteLog` exempts: one record at most, whichever
  way `stop()` and `process_hop()` meet (`LateInv`). `EveryCloserAdvances` is the safety
  heart of `StopReturns`: with the number of queued records, open files and places
  still to pass as a measure (`Left`), each step of a closer makes its own smaller and
  nobody's step makes it larger, since once a closer is within `close()` the audio thread
  can put at most the record it already holds (`ClosingInv`).
* *Lifecycle* (`PipelineLifecycle_proofs`). `NoCommandDuringTeardown` needs that the
  listener serves only while its thread is alive and that `main` passes the join
  only when it is not, whatever order client and `main` take (`ListenerInv`); `start` and `stop`
  steps are shown once and for all not to touch the listener (`CallFrame`).
  `OverlapOnlyAtStart` follows: at `main`'s `stop()` no client is served (`OverlapStep`).
  `QuietConsistent` and `TerminatedOnlyByListener` need, as long as no calls have overlapped,
  that one caller at most is at work, what each step of its call leaves of flags, threads and
  handles (`StepInv`), that between calls all agree (`PipelineInv`), and what `main`'s
  phase says of them (`PhaseInv`). `BackendKeepsSession` maps the handles, the living audio
  threads and `should_stop_` to `PcmSession`; it needs in addition that whenever the
  handles are closed a stop has been asked for, and that an audio thread lives only over
  open handles (`HandleInv`). `JoinsEnd` is the safety heart of `ShutdownCompletes` and
  `CommandReturns`: whoever is in a join waits for a thread that was told to stop.

Only model-checked: the liveness properties (`EveryItemDelivered`, `LevelRecovers`,
`ChunkTaken`, `StopReturns`, `ShutdownCompletes`, `CommandReturns`), since fairness and
`ENABLED` are beyond the prover. What is proved of four of them is why they hold: the
measure that falls (`ClosingEnds`), the gain that rises (`RecoveryAdvances`), and the
threads joined that were told to end (`JoinsAnswered`). The properties that only
theorems state (`NoUseAfterClose`, `JoinsAnswered`, `AllButOne`, `ClosingEnds`,
`RecoveryAdvances`, `EveryThird`, `NothingCut`, and `WarningExact`)
also hold when added to the configuration of their module's run; so does the
refinement of `BoundedFifo` by each ring of the path.

## What else the model shows about the code

Beside the runs and configurations above:

* A `reset()` that falls between the evaluation of a mode and its dispatch leaves the
  telemetry with a fault record or a lambda that is not the mode's, the record until the
  mode next changes, lambda until the next dispatch that sets it.
* Only `hop_size` = half a period of a chunk is processed (`realtime_pipeline.cpp`,
  lines 50 and 194): `Taken` is smaller than the chunk, and the rest is dropped.
* With two devices (`Topology` "separate") nothing more holds of the pairs than
  `SkewExplained`, which is proved for every topology.
* The two dequeues of a hop are not synchronised: with two devices one reference
  chunk that comes late shifts all later pairs by a period.
* `reset()` leaves the impulse detector and the high-pass filter's delays as they are
  (`realtime_pipeline.cpp`, line 151): a latched impulse is carried over a restart.
  `QuietEndsBoth` bounds for how long.
* The high-pass filter's members are constructed with rate and cutoff exchanged
  (`realtime_pipeline.cpp`, line 18); `initialize()` configures it again.
* `Decimator3` always divides by three, and only the single microphone's loop calls
  it: with 32 kHz, or 48 kHz on two devices, `initialize()` accepts the ratio and
  `InternalRate` fails. What `set_rate_near` grants is not compared with what was
  asked for, and the reference device is opened at the internal rate with the
  primary's period.
* A `sample_rate` of 0 in the file divides by zero (`alsa_backend.cpp`, line 50);
  `periods` is multiplied by the `buffer_frames` read so far, so the order of the two
  lines matters (`main.cpp`, line 93).
* A `reset()` in the middle of `process()` makes its loops read slots before the first
  (`0 - i`, `nlms.cpp`, line 49) when `history_idx` is read again.
* `degraded` is never cleared: one failed inference, and the branch passes the raw
  hop through until the process ends, across `stop()`, `reset()` and `start()`.
  This is also what keeps frames from being added out of step afterwards.
* The enhanced branch is `FftSize - HopSize` samples later than the raw hop and the
  NLMS output with which the fusion controller blends it.
* In `SessionLog` the audio thread can raise: `process_hop` tests
  `self.session_logger` and loads it again, and `stop()` may have set it to None in
  between (`realtime_pipeline.py`, line 320). Two threads in `stop()` can raise in
  the same way, or by writing the line on dropped records to a closed file.
* A record that passed the test of `_running` before it was cleared may be queued
  after the final drain, and is then neither written nor counted (`late`). After a
  join that timed out, records may be out of order in `runtime.jsonl` and without
  a row in `metrics.csv`.
* After a restart the first chunks come from the session before, since no ring is
  cleared; the order of what is heard is still right (`HeardInOrder`).

## Not modelled

* What transforms, filter coefficients, features, adaptive weights and the network
  compute: numbers without concurrency. What depends on them enters as an input.
* Parsing of options and of requests, JSON, logging, telemetry of times: no property
  is about them. `get_telemetry()` copies a structure the loop writes without a lock,
  and may tear; nothing in the program decides on its contents.
* A `reset()` in the middle of one of `FrontEnd`'s components (a torn running mean or noise
  floor heals as fast as the component forgets), and two `reset()` calls at once. A `reset()` in the
  middle of a frame, a hop or a call is modelled in `FusionController`, `SpectralPath` and
  `NlmsFilter`.
* The impulse detector's own gain, which nothing applies; the loop's test whether a
  reference is fit for NLMS (`NlmsFilter` starts with the references it lets through).
* The relaxed orders of the atomics other than the ring's indices: the threads are
  joined before anything that depends on them. Timestamps of the drift detector:
  nothing reads them.
* `SnrTracker` and the mono and dual-microphone pipelines: only tests use them. (The
  dual one drops a hop whose reference is empty, `dual_mic_pipeline.cpp`, line 40.)
* System metrics and device enumeration: reads of the kernel's files.
* The Python runtime but for its session logger: a twin of the C++ engine. The
  backend: a relay without state. The dashboard, whose telemetry hook arms a
  reconnect timer also after it was unmounted (`useTelemetry.ts`, line 113). Tools,
  assets, training, evaluation, download.
* The vendored transform (`dsp/pffft`, with its SIMD headers): about 14,700 of the
  20,900 implementation lines, third-party, pure arithmetic, and half of it not
  compiled for the target. No model of the engine's own code can therefore stand for
  more than some 30 % of the lines of the repository, and what is mapped is a large
  part of the engine's control and far less of the whole.

## Plan

Done: the ring and its refinement, the audio path with the drift detector, the fusion
controller, the lifecycle, the enhancement branch, the session logger, preprocessing
and detection, the NLMS filter's ring, configuration, devices and decimation, with resets and
calls of other threads at any point where one could tear what a property is about; the proofs of all their
invariants and action properties; and the four refinements, of `BoundedFifo` by the
ring and by both rings of the path, of `PcmSession` and of `DelayLine`, proved step by
step. The leads-to properties stay with TLC.

Left, in this order:

1. The fusion controller composed with `SpectralPath` and `FrontEnd`: what a session
   sounds like after a failed inference, with branches of different delay, and the
   detectors' outputs in place of the enumerated inputs.
2. `TelemetrySocket` (`frontend/src/hooks/useTelemetry.ts`) and the relay of the
   backend: connection, backoff and unmounting.
3. The Python `RuntimeIpcServer` and its handlers, composed with `SessionLog`.
4. The resumable downloader of the training data.
