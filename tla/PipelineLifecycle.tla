-------------------------- MODULE PipelineLifecycle --------------------------
(***************************************************************************)
(* Starting and stopping the real-time engine: main() (runtime/main.cpp),  *)
(* RealtimePipeline::start/stop, AlsaBackend::start/stop and IpcServer.    *)
(*                                                                         *)
(* Two threads call start() and stop(): main, and the IPC listener, which  *)
(* runs the command of the client it is connected to.  Nothing serialises  *)
(* them, and the listener already serves while main is in its own start(), *)
(* so each call is a sequence of steps.  A std::thread member is           *)
(* "none" when not joinable, and "alive" or "dead" while it is: assigning  *)
(* to a joinable one, or destroying it, terminates the process.  The ALSA  *)
(* handles are abstracted to whether they are open, and the one or two     *)
(* capture threads of a topology to one.  The atomics are sequentially     *)
(* consistent where the order matters; relaxed loads of the stop flags in  *)
(* the loops only delay an exit.                                           *)
(***************************************************************************)
EXTENDS Integers

CONSTANTS
  BypassFlag,     \* was --bypass given?
  SocketFails     \* may socket(), bind() or listen() fail?

ASSUME LifecycleAssumption == {BypassFlag, SocketFails} \subseteq BOOLEAN

Caller == {"main", "ipc"}
Thread == {"none", "alive", "dead"}

VARIABLES
  phase,              \* where main() is
  listener,           \* server_thread_
  serving,            \* where the listener thread is
  command,            \* the command being served
  ipc_running, ipc_should_stop,   \* IpcServer: is_running_, should_stop_
  pc,                 \* for each caller, where in start() or stop() it is
  result,             \* what the last start() of each caller returned
  overlapped,         \* for the properties: did a call ever go past its check of
                      \* is_running_ while the other caller was past its own?
  is_running, should_stop,        \* RealtimePipeline
  processing,         \* processing_thread_
  alsa_running, alsa_should_stop, \* AlsaBackend
  capture, playback,  \* its threads
  open,               \* the pcm handles
  manual_bypass,      \* FusionController::manual_bypass_
  wanted_bypass,      \* what the operator asked for last
  shutdown,           \* g_shutdown_requested
  terminated          \* std::terminate was called

main == <<phase, shutdown>>
ipc == <<listener, serving, command, ipc_running, ipc_should_stop>>
call == <<pc, result, overlapped>>
pipeline == <<is_running, should_stop, processing>>
alsa == <<alsa_running, alsa_should_stop, capture, playback, open>>
bypass == <<manual_bypass, wanted_bypass>>
vars == <<phase, shutdown, listener, serving, command, ipc_running, ipc_should_stop,
          pc, result, overlapped, is_running, should_stop, processing,
          alsa_running, alsa_should_stop, capture, playback, open,
          manual_bypass, wanted_bypass, terminated>>

Phase == {"configure", "ipc_start", "start", "started", "loop", "ipc_stop", "ipc_join",
          "stop", "stopped", "destroy_ipc", "destroy_pipeline", "destroy_alsa",
          "destroy_threads", "exit"}
Serving == {"off", "socket", "check", "select", "recv", "run"}
Command == {"start", "stop", "reset", "bypass_on", "bypass_off", "get_metrics"}
StartStep == {"s_check", "s_reset", "a_check", "a_open", "a_flags", "a_capture",
              "a_playback", "s_clear", "s_run", "s_spawn"}
StopStep == {"t_check", "t_flag", "t_join", "b_check", "b_flag", "b_join", "b_close", "t_done"}

TypeOK ==
  /\ phase \in Phase
  /\ {listener, processing, capture, playback} \subseteq Thread
  /\ serving \in Serving
  /\ command \in Command \cup {"none"}
  /\ (command # "none") <=> (serving = "run")
  /\ pc \in [Caller -> StartStep \cup StopStep \cup {"ready"}]
  /\ result \in [Caller -> BOOLEAN]
  /\ overlapped \in BOOLEAN
  /\ {ipc_running, ipc_should_stop, is_running, should_stop, alsa_running,
      alsa_should_stop, open, manual_bypass, wanted_bypass, shutdown, terminated}
       \subseteq BOOLEAN

\* pipeline.initialize() has returned true.
Init ==
  /\ phase = "configure"
  /\ shutdown = FALSE
  /\ listener = "none" /\ serving = "off" /\ command = "none"
  /\ ipc_running = FALSE /\ ipc_should_stop = FALSE
  /\ pc = [c \in Caller |-> "ready"]
  /\ result = [c \in Caller |-> FALSE]
  /\ overlapped = FALSE
  /\ is_running = FALSE /\ should_stop = FALSE
  /\ processing = "none"
  /\ alsa_running = FALSE /\ alsa_should_stop = FALSE
  /\ capture = "none" /\ playback = "none"
  /\ open = TRUE
  /\ manual_bypass = FALSE /\ wanted_bypass = FALSE
  /\ terminated = FALSE

Go(c, step) == pc' = [pc EXCEPT ![c] = step] /\ UNCHANGED overlapped

\* In start() or stop(), and past the check of is_running_.
Working(c) == pc[c] \notin {"ready", "s_check", "t_check"}

\* Past the check, which claims nothing: the other caller may be at work too.
GoToWork(c, step) ==
  /\ pc' = [pc EXCEPT ![c] = step]
  /\ overlapped' = (overlapped \/ \E d \in Caller \ {c} : Working(d))

Return(c, value) ==
  /\ pc' = [pc EXCEPT ![c] = "ready"]
  /\ UNCHANGED overlapped
  /\ result' = [result EXCEPT ![c] = value]

\* Assigning a new thread to a std::thread member.
Spawn(thread) ==
  /\ terminated' = (thread # "none")
  /\ thread' = "alive"

------------------------------------------------------------------------------
\* RealtimePipeline::start(), with AlsaBackend::start() inlined.

\* if (is_running_) return true
StartCheck(c) ==
  /\ pc[c] = "s_check"
  /\ IF is_running THEN Return(c, TRUE) ELSE GoToWork(c, "s_reset") /\ UNCHANGED result
  /\ UNCHANGED <<main, ipc, pipeline, alsa, bypass, terminated>>

\* reset() reaches FusionController::reset(), which clears manual_bypass_.
StartReset(c) ==
  /\ pc[c] = "s_reset"
  /\ manual_bypass' = FALSE
  /\ Go(c, "a_check")
  /\ UNCHANGED <<main, ipc, result, pipeline, alsa, wanted_bypass, terminated>>

AlsaCheck(c) ==
  /\ pc[c] = "a_check"
  /\ Go(c, IF alsa_running THEN "s_clear" ELSE "a_open")
  /\ UNCHANGED <<main, ipc, result, pipeline, alsa, bypass, terminated>>

\* Handles closed by an earlier stop() are opened again, which may fail.
AlsaOpen(c) ==
  /\ pc[c] = "a_open"
  /\ \/ open' = TRUE /\ Go(c, "a_flags") /\ UNCHANGED result
     \/ ~open /\ Return(c, FALSE) /\ UNCHANGED open
  /\ UNCHANGED <<main, ipc, pipeline, alsa_running, alsa_should_stop, capture, playback,
                 bypass, terminated>>

AlsaFlags(c) ==
  /\ pc[c] = "a_flags"
  /\ alsa_should_stop' = FALSE
  /\ alsa_running' = TRUE
  /\ Go(c, "a_capture")
  /\ UNCHANGED <<main, ipc, result, pipeline, capture, playback, open, bypass, terminated>>

\* The single microphone's thread returns at once if snd_pcm_start fails.
AlsaCapture(c) ==
  /\ pc[c] = "a_capture"
  /\ terminated' = (capture # "none")
  /\ capture' \in {"alive", "dead"}
  /\ Go(c, "a_playback")
  /\ UNCHANGED <<main, ipc, result, pipeline, alsa_running, alsa_should_stop, playback,
                 open, bypass>>

AlsaPlayback(c) ==
  /\ pc[c] = "a_playback"
  /\ Spawn(playback)
  /\ Go(c, "s_clear")
  /\ UNCHANGED <<main, ipc, result, pipeline, alsa_running, alsa_should_stop, capture,
                 open, bypass>>

\* Faulty variant: should_stop_ keeps the value the last stop() gave it.
StartClearForgotten(c) ==
  /\ pc[c] = "s_clear"
  /\ Go(c, "s_run")
  /\ UNCHANGED <<main, ipc, result, pipeline, alsa, bypass, terminated>>

StartClear(c) ==
  /\ pc[c] = "s_clear"
  /\ should_stop' = FALSE
  /\ Go(c, "s_run")
  /\ UNCHANGED <<main, ipc, result, is_running, processing, alsa, bypass, terminated>>

StartRun(c) ==
  /\ pc[c] = "s_run"
  /\ is_running' = TRUE
  /\ Go(c, "s_spawn")
  /\ UNCHANGED <<main, ipc, result, should_stop, processing, alsa, bypass, terminated>>

StartSpawn(c) ==
  /\ pc[c] = "s_spawn"
  /\ Spawn(processing)
  /\ Return(c, TRUE)
  /\ UNCHANGED <<main, ipc, is_running, should_stop, alsa, bypass>>

------------------------------------------------------------------------------
\* RealtimePipeline::stop(), with AlsaBackend::stop() inlined ("b_" steps,
\* which the destructor of AlsaBackend also runs).

StopCheck(c) ==
  /\ pc[c] = "t_check"
  /\ IF is_running THEN GoToWork(c, "t_flag") ELSE Go(c, "ready")
  /\ UNCHANGED <<main, ipc, result, pipeline, alsa, bypass, terminated>>

\* Faulty variant: the thread is joined without being asked to stop.
StopFlagForgotten(c) ==
  /\ pc[c] = "t_flag"
  /\ Go(c, "t_join")
  /\ UNCHANGED <<main, ipc, result, pipeline, alsa, bypass, terminated>>

StopFlag(c) ==
  /\ pc[c] = "t_flag"
  /\ should_stop' = TRUE
  /\ Go(c, "t_join")
  /\ UNCHANGED <<main, ipc, result, is_running, processing, alsa, bypass, terminated>>

\* Faulty variant: the processing thread is not joined.
StopJoinForgotten(c) ==
  /\ pc[c] = "t_join"
  /\ Go(c, "b_check")
  /\ UNCHANGED <<main, ipc, result, pipeline, alsa, bypass, terminated>>

StopJoin(c) ==
  /\ pc[c] = "t_join"
  /\ processing # "alive"
  /\ processing' = "none"
  /\ Go(c, "b_check")
  /\ UNCHANGED <<main, ipc, result, is_running, should_stop, alsa, bypass, terminated>>

AlsaStopCheck(c) ==
  /\ pc[c] = "b_check"
  /\ Go(c, IF alsa_running THEN "b_flag" ELSE "t_done")
  /\ UNCHANGED <<main, ipc, result, pipeline, alsa, bypass, terminated>>

\* should_stop_, then snd_pcm_drop, which returns the threads from blocking calls.
AlsaStopFlag(c) ==
  /\ pc[c] = "b_flag"
  /\ alsa_should_stop' = TRUE
  /\ Go(c, "b_join")
  /\ UNCHANGED <<main, ipc, result, pipeline, alsa_running, capture, playback, open,
                 bypass, terminated>>

\* Faulty variant: the playback thread is not waited for.
AlsaStopJoinCapture(c) ==
  /\ pc[c] = "b_join"
  /\ capture # "alive"
  /\ capture' = "none"
  /\ Go(c, "b_close")
  /\ UNCHANGED <<main, ipc, result, pipeline, alsa_running, alsa_should_stop, playback,
                 open, bypass, terminated>>

AlsaStopJoin(c) ==
  /\ pc[c] = "b_join"
  /\ capture # "alive" /\ playback # "alive"
  /\ capture' = "none" /\ playback' = "none"
  /\ Go(c, "b_close")
  /\ UNCHANGED <<main, ipc, result, pipeline, alsa_running, alsa_should_stop, open,
                 bypass, terminated>>

AlsaStopClose(c) ==
  /\ pc[c] = "b_close"
  /\ open' = FALSE
  /\ alsa_running' = FALSE
  /\ Go(c, "t_done")
  /\ UNCHANGED <<main, ipc, result, pipeline, alsa_should_stop, capture, playback,
                 bypass, terminated>>

StopDone(c) ==
  /\ pc[c] = "t_done"
  /\ is_running' = FALSE
  /\ Go(c, "ready")
  /\ UNCHANGED <<main, ipc, result, should_stop, processing, alsa, bypass, terminated>>

CallStep(c) ==
  \/ StartCheck(c) \/ StartReset(c) \/ AlsaCheck(c) \/ AlsaOpen(c) \/ AlsaFlags(c)
  \/ AlsaCapture(c) \/ AlsaPlayback(c) \/ StartClear(c) \/ StartRun(c) \/ StartSpawn(c)
  \/ StopCheck(c) \/ StopFlag(c) \/ StopJoin(c) \/ AlsaStopCheck(c) \/ AlsaStopFlag(c)
  \/ AlsaStopJoin(c) \/ AlsaStopClose(c) \/ StopDone(c)

------------------------------------------------------------------------------
\* main(), from the return of pipeline.initialize().

\* if (bypass_mode) pipeline.set_bypass(true)
MainConfigure ==
  /\ phase = "configure"
  /\ phase' = "ipc_start"
  /\ manual_bypass' = BypassFlag
  /\ wanted_bypass' = BypassFlag
  /\ UNCHANGED <<shutdown, ipc, call, pipeline, alsa, terminated>>

\* IpcServer::start(): the listener opens its socket by itself.
MainIpcStart ==
  /\ phase = "ipc_start"
  /\ phase' = "start"
  /\ ipc_should_stop' = FALSE
  /\ ipc_running' = TRUE
  /\ Spawn(listener)
  /\ serving' = "socket"
  /\ UNCHANGED <<shutdown, command, call, pipeline, alsa, bypass>>

MainStart ==
  /\ phase = "start"
  /\ phase' = "started"
  /\ Go("main", "s_check")
  /\ UNCHANGED <<shutdown, ipc, result, pipeline, alsa, bypass, terminated>>

MainStarted ==
  /\ phase = "started"
  /\ pc["main"] = "ready"
  /\ phase' = IF result["main"] THEN "loop" ELSE "ipc_stop"
  /\ UNCHANGED <<shutdown, ipc, call, pipeline, alsa, bypass, terminated>>

\* SIGINT, SIGTERM, or the end of --duration.
ShutdownRequested ==
  /\ ~shutdown
  /\ phase # "exit"
  /\ shutdown' = TRUE
  /\ UNCHANGED <<phase, ipc, call, pipeline, alsa, bypass, terminated>>

MainLoopEnds ==
  /\ phase = "loop"
  /\ shutdown
  /\ phase' = "ipc_stop"
  /\ UNCHANGED <<shutdown, ipc, call, pipeline, alsa, bypass, terminated>>

AfterIpcStop == IF result["main"] THEN "stop" ELSE "destroy_ipc"

\* IpcServer::stop() does nothing if the listener has cleared is_running_.
MainIpcStop ==
  /\ phase = "ipc_stop"
  /\ IF ipc_running
       THEN ipc_should_stop' = TRUE /\ phase' = "ipc_join"
       ELSE phase' = AfterIpcStop /\ UNCHANGED ipc_should_stop
  /\ UNCHANGED <<shutdown, listener, serving, command, ipc_running, call, pipeline, alsa,
                 bypass, terminated>>

\* Faulty variant: the listener is asked to stop but not joined.
MainIpcJoinForgotten ==
  /\ phase = "ipc_join"
  /\ ipc_running' = FALSE
  /\ phase' = AfterIpcStop
  /\ UNCHANGED <<shutdown, listener, serving, command, ipc_should_stop, call, pipeline, alsa,
                 bypass, terminated>>

MainIpcJoin ==
  /\ phase = "ipc_join"
  /\ listener # "alive"
  /\ listener' = "none"
  /\ ipc_running' = FALSE
  /\ phase' = AfterIpcStop
  /\ UNCHANGED <<shutdown, serving, command, ipc_should_stop, call, pipeline, alsa,
                 bypass, terminated>>

MainStop ==
  /\ phase = "stop"
  /\ phase' = "stopped"
  /\ Go("main", "t_check")
  /\ UNCHANGED <<shutdown, ipc, result, pipeline, alsa, bypass, terminated>>

\* The end of main's scope: ~IpcServer finds is_running_ false and destroys
\* server_thread_.
MainDestroyIpc ==
  /\ phase \in {"stopped", "destroy_ipc"}
  /\ pc["main"] = "ready"
  /\ phase' = "destroy_pipeline"
  /\ terminated' = (listener # "none")
  /\ UNCHANGED <<shutdown, ipc, call, pipeline, alsa, bypass>>

\* ~RealtimePipeline calls stop(); its members then die, last declared first.
MainDestroyPipeline ==
  /\ phase = "destroy_pipeline"
  /\ phase' = "destroy_alsa"
  /\ Go("main", "t_check")
  /\ UNCHANGED <<shutdown, ipc, result, pipeline, alsa, bypass, terminated>>

\* processing_thread_, then ~AlsaBackend, which calls AlsaBackend::stop().
MainDestroyAlsa ==
  /\ phase = "destroy_alsa"
  /\ pc["main"] = "ready"
  /\ phase' = "destroy_threads"
  /\ terminated' = (processing # "none")
  /\ Go("main", "b_check")
  /\ UNCHANGED <<shutdown, ipc, result, pipeline, alsa, bypass>>

MainDestroyThreads ==
  /\ phase = "destroy_threads"
  /\ pc["main"] = "ready"
  /\ phase' = "exit"
  /\ terminated' = ({capture, playback} # {"none"})
  /\ UNCHANGED <<shutdown, ipc, call, pipeline, alsa, bypass>>

Main ==
  \/ MainConfigure \/ MainIpcStart \/ MainStart \/ MainStarted \/ MainLoopEnds
  \/ MainIpcStop \/ MainIpcJoin \/ MainStop
  \/ MainDestroyIpc \/ MainDestroyPipeline \/ MainDestroyAlsa \/ MainDestroyThreads
  \/ CallStep("main")

------------------------------------------------------------------------------
\* The listener thread: one client at a time, one command per connection.

\* socket(), bind(), listen(): after a failure the thread returns.
ListenerSocket ==
  /\ serving = "socket"
  /\ \/ serving' = "check" /\ UNCHANGED <<listener, ipc_running>>
     \/ /\ SocketFails
        /\ serving' = "off" /\ listener' = "dead"
        /\ ipc_running' = FALSE
  /\ UNCHANGED <<main, command, ipc_should_stop, call, pipeline, alsa, bypass, terminated>>

\* Faulty variant: the loop never looks at should_stop_.
ListenerCheckNever ==
  /\ serving = "check"
  /\ serving' = "select"
  /\ UNCHANGED <<main, listener, command, ipc_running, ipc_should_stop, call, pipeline, alsa,
                 bypass, terminated>>

ListenerCheck ==
  /\ serving = "check"
  /\ IF ipc_should_stop
       THEN serving' = "off" /\ listener' = "dead"
       ELSE serving' = "select" /\ UNCHANGED listener
  /\ UNCHANGED <<main, command, ipc_running, ipc_should_stop, call, pipeline, alsa,
                 bypass, terminated>>

\* select() times out after 200 ms.
ListenerTimeout ==
  /\ serving = "select"
  /\ serving' = "check"
  /\ UNCHANGED <<main, listener, command, ipc_running, ipc_should_stop, call, pipeline, alsa,
                 bypass, terminated>>

\* dispatch_command() has run the handler: the reply is sent, the socket closed.
ListenerReply ==
  /\ serving = "run"
  /\ pc["ipc"] = "ready"
  /\ serving' = "check"
  /\ command' = "none"
  /\ CASE command = "bypass_on" -> manual_bypass' = TRUE /\ wanted_bypass' = TRUE
       [] command \in {"bypass_off", "reset"} -> manual_bypass' = FALSE /\ wanted_bypass' = FALSE
       [] OTHER -> UNCHANGED bypass
  /\ UNCHANGED <<main, listener, ipc_running, ipc_should_stop, call, pipeline, alsa, terminated>>

Listener ==
  \/ ListenerSocket \/ ListenerCheck \/ ListenerTimeout \/ ListenerReply
  \/ CallStep("ipc")

\* The clients: backend/ipc_client.py and anything else on 127.0.0.1:9099.
ClientConnects ==
  /\ serving = "select"
  /\ serving' = "recv"
  /\ UNCHANGED <<main, listener, command, ipc_running, ipc_should_stop, call, pipeline, alsa,
                 bypass, terminated>>

ClientSends ==
  /\ serving = "recv"
  /\ serving' = "run"
  /\ command' \in Command
  /\ CASE command' = "start" -> Go("ipc", "s_check")
       [] command' = "stop" -> Go("ipc", "t_check")
       [] OTHER -> UNCHANGED <<pc, overlapped>>
  /\ UNCHANGED <<main, listener, ipc_running, ipc_should_stop, result, pipeline, alsa,
                 bypass, terminated>>

ClientHangsUp ==
  /\ serving = "recv"
  /\ serving' = "check"
  /\ UNCHANGED <<main, listener, command, ipc_running, ipc_should_stop, call, pipeline, alsa,
                 bypass, terminated>>

------------------------------------------------------------------------------
\* The audio threads leave their loops when their backend's flag is set.

ProcessingExits ==
  /\ processing = "alive" /\ should_stop
  /\ processing' = "dead"
  /\ UNCHANGED <<main, ipc, call, is_running, should_stop, alsa, bypass, terminated>>

CaptureExits ==
  /\ capture = "alive" /\ alsa_should_stop
  /\ capture' = "dead"
  /\ UNCHANGED <<main, ipc, call, pipeline, alsa_running, alsa_should_stop, playback, open,
                 bypass, terminated>>

PlaybackExits ==
  /\ playback = "alive" /\ alsa_should_stop
  /\ playback' = "dead"
  /\ UNCHANGED <<main, ipc, call, pipeline, alsa_running, alsa_should_stop, capture, open,
                 bypass, terminated>>

Workers == ProcessingExits \/ CaptureExits \/ PlaybackExits

Client == ClientConnects \/ ClientSends \/ ClientHangsUp

Next ==
  /\ ~terminated
  /\ Main \/ Listener \/ Client \/ Workers \/ ShutdownRequested

Spec == Init /\ [][Next]_vars

Running(A) == ~terminated /\ A

\* Every thread is scheduled.
Fairness ==
  /\ WF_vars(Running(Main)) /\ WF_vars(Running(Listener))
  /\ WF_vars(Running(ProcessingExits)) /\ WF_vars(Running(CaptureExits))
  /\ WF_vars(Running(PlaybackExits))

FairSpec == Spec /\ Fairness

\* Moreover, a client that connects sends its command or closes the connection.
PoliteClients == WF_vars(Running(ClientSends \/ ClientHangsUp))

PoliteSpec == FairSpec /\ PoliteClients

------------------------------------------------------------------------------
Quiet == \A c \in Caller : pc[c] = "ready"

\* No start() assigns to a thread that has not been joined, and no destructor finds
\* one, unless the two callers were in start() or stop() at once, or the listener's
\* socket failed: stop() then returns before its join, and the destructor of the dead
\* listener's thread terminates the process.
TerminatedOnlyByListener ==
  terminated =>
    overlapped \/ (phase = "destroy_pipeline" /\ listener = "dead" /\ ~ipc_running)

\* The two callers can only be at work at once while main is in its own start(), which
\* comes after ipc_server.start(); from main's loop to the last destructor one caller
\* has the pipeline to itself, however many clients come.
OverlapOnlyAtStart == [][overlapped' /\ ~overlapped => phase = "started"]_vars

\* The audio threads, which hold the pcm handles start() gave them, never run
\* after stop() has closed these, unless calls have overlapped.
NoUseAfterClose == "alive" \in {capture, playback} => open \/ overlapped

\* Over any number of starts and stops the backend keeps to the session of handles
\* and threads that ALSA expects (AlsaBackend::start, stop and the thread loops), up to
\* a step that follows calls that overlapped.
Session == INSTANCE PcmSession WITH
  User <- {"capture", "playback"},
  held <- open,
  users <- {t \in {"capture", "playback"} :
              (IF t = "capture" THEN capture ELSE playback) = "alive"},
  asked <- alsa_should_stop

KeepsSession == Session!Init /\ [][overlapped \/ Session!Next]_(Session!vars)

\* Between calls the two is_running_ flags tell the truth: the pipeline runs
\* with its threads and no pending request to stop, or everything is joined.  Calls
\* that overlapped may leave it otherwise.
QuietConsistent ==
  Quiet /\ ~overlapped =>
    IF is_running
      THEN /\ processing = "alive" /\ ~should_stop
           /\ alsa_running /\ playback = "alive" /\ capture # "none" /\ open
      ELSE /\ ~alsa_running
           /\ {processing, capture, playback} = {"none"}

\* Nobody waits for a thread that was not told to stop: RealtimePipeline::stop() for
\* the processing thread, AlsaBackend::stop() for the audio threads, main() for the
\* listener.  Only a start() that overlaps the stop() can take a request back.
JoinsAnswered ==
  /\ \A c \in Caller : pc[c] = "t_join" => should_stop \/ overlapped
  /\ \A c \in Caller : pc[c] = "b_join" => alsa_should_stop \/ overlapped
  /\ phase = "ipc_join" => ipc_should_stop

\* Once main is past ipc_server.stop() no client's command is still starting or
\* stopping the pipeline that main is about to stop and destroy.
NoCommandDuringTeardown ==
  phase \in {"stop", "stopped", "destroy_ipc", "destroy_pipeline", "destroy_alsa",
             "destroy_threads", "exit"}
    => pc["ipc"] = "ready" /\ serving \notin {"recv", "run"}

\* The operator's BYPASS is in force while the pipeline runs (main.cpp: "Start
\* pipeline with fusion engine in operator BYPASS mode").
BypassKept == Quiet /\ is_running /\ wanted_bypass => manual_bypass


\* Documented: IpcServer::stop() stops the listener thread (ipc_server.hpp), so main
\* leaves no joinable thread behind it.
ListenerJoined ==
  phase \in {"stop", "stopped", "destroy_ipc", "destroy_pipeline"} => listener = "none"

\* A request to shut down ends with the end of the process, which is main()
\* returning but for the case above; calls that overlapped may keep a join waiting.
ShutdownCompletes == shutdown ~> (phase = "exit" \/ terminated \/ overlapped)

\* A start or stop requested by a client gets its answer, unless it has overlapped
\* main's start(), which may withdraw the request to stop it waits for.
CommandReturns == (serving = "run") ~> (serving # "run" \/ overlapped)
=============================================================================
