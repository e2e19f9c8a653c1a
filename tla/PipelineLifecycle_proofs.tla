---------------------- MODULE PipelineLifecycle_proofs ----------------------
(***************************************************************************)
(* Type correctness of PipelineLifecycle, and that no client's command     *)
(* survives ipc_server.stop(), for every value of the constants; and that  *)
(* the calls of start() and stop() leave flags, threads and handles        *)
(* consistent until two of them overlap, which only main's own start() and *)
(* a client's command can.                                                 *)
(***************************************************************************)
EXTENDS PipelineLifecycle, TLAPS

Step == StartStep \cup StopStep \cup {"ready"}

\* A step of start() or stop() moves only its own caller's program counter, and
\* touches neither main()'s nor the IPC server's state.
LEMMA CallFrame ==
  ASSUME TypeOK, NEW c \in Caller, CallStep(c)
  PROVE  /\ UNCHANGED <<main, ipc>>
         /\ pc[c] # "ready"
         /\ pc' \in [Caller -> Step]
         /\ \A d \in Caller \ {c} : pc'[d] = pc[d]
         /\ overlapped => overlapped'
         /\ overlapped' /\ ~overlapped => \E d \in Caller \ {c} : Working(d)
<1> USE DEF TypeOK, Go, GoToWork, Return, Spawn, Step, StartStep, StopStep
<1>1. CASE StartCheck(c) BY <1>1 DEF StartCheck
<1>2. CASE StartReset(c) BY <1>2 DEF StartReset
<1>3. CASE AlsaCheck(c) BY <1>3 DEF AlsaCheck
<1>4. CASE AlsaOpen(c) BY <1>4 DEF AlsaOpen
<1>5. CASE AlsaFlags(c) BY <1>5 DEF AlsaFlags
<1>6. CASE AlsaCapture(c) BY <1>6 DEF AlsaCapture
<1>7. CASE AlsaPlayback(c) BY <1>7 DEF AlsaPlayback
<1>8. CASE StartClear(c) BY <1>8 DEF StartClear
<1>9. CASE StartRun(c) BY <1>9 DEF StartRun
<1>10. CASE StartSpawn(c) BY <1>10 DEF StartSpawn
<1>11. CASE StopCheck(c) BY <1>11 DEF StopCheck
<1>12. CASE StopFlag(c) BY <1>12 DEF StopFlag
<1>13. CASE StopJoin(c) BY <1>13 DEF StopJoin
<1>14. CASE AlsaStopCheck(c) BY <1>14 DEF AlsaStopCheck
<1>15. CASE AlsaStopFlag(c) BY <1>15 DEF AlsaStopFlag
<1>16. CASE AlsaStopJoin(c) BY <1>16 DEF AlsaStopJoin
<1>17. CASE AlsaStopClose(c) BY <1>17 DEF AlsaStopClose
<1>18. CASE StopDone(c) BY <1>18 DEF StopDone
<1> QED
  BY <1>1, <1>2, <1>3, <1>4, <1>5, <1>6, <1>7, <1>8, <1>9, <1>10, <1>11, <1>12, <1>13,
     <1>14, <1>15, <1>16, <1>17, <1>18 DEF CallStep

\* A step of start() or stop() keeps every variable in its type.
LEMMA CallTypes ==
  ASSUME TypeOK, NEW c \in Caller, CallStep(c)
  PROVE  TypeOK'
<1> USE DEF TypeOK, Go, GoToWork, Return, Spawn, Thread, Step, StartStep, StopStep, main, ipc, call,
            pipeline, alsa, bypass
<1>1. CASE StartCheck(c) BY <1>1 DEF StartCheck
<1>2. CASE StartReset(c) BY <1>2 DEF StartReset
<1>3. CASE AlsaCheck(c) BY <1>3 DEF AlsaCheck
<1>4. CASE AlsaOpen(c) BY <1>4 DEF AlsaOpen
<1>5. CASE AlsaFlags(c) BY <1>5 DEF AlsaFlags
<1>6. CASE AlsaCapture(c) BY <1>6 DEF AlsaCapture
<1>7. CASE AlsaPlayback(c) BY <1>7 DEF AlsaPlayback
<1>8. CASE StartClear(c) BY <1>8 DEF StartClear
<1>9. CASE StartRun(c) BY <1>9 DEF StartRun
<1>10. CASE StartSpawn(c) BY <1>10 DEF StartSpawn
<1>11. CASE StopCheck(c) BY <1>11 DEF StopCheck
<1>12. CASE StopFlag(c) BY <1>12 DEF StopFlag
<1>13. CASE StopJoin(c) BY <1>13 DEF StopJoin
<1>14. CASE AlsaStopCheck(c) BY <1>14 DEF AlsaStopCheck
<1>15. CASE AlsaStopFlag(c) BY <1>15 DEF AlsaStopFlag
<1>16. CASE AlsaStopJoin(c) BY <1>16 DEF AlsaStopJoin
<1>17. CASE AlsaStopClose(c) BY <1>17 DEF AlsaStopClose
<1>18. CASE StopDone(c) BY <1>18 DEF StopDone
<1> QED
  BY <1>1, <1>2, <1>3, <1>4, <1>5, <1>6, <1>7, <1>8, <1>9, <1>10, <1>11, <1>12, <1>13,
     <1>14, <1>15, <1>16, <1>17, <1>18 DEF CallStep

------------------------------------------------------------------------------
Teardown == {"stop", "stopped", "destroy_ipc", "destroy_pipeline", "destroy_alsa",
             "destroy_threads", "exit"}

\* The strengthening: the listener runs commands only while its thread is alive,
\* and that thread is dead before is_running_ says so, so that main may skip the
\* join.
ListenerInv ==
  /\ (serving # "off") <=> (listener = "alive")
  /\ pc["ipc"] # "ready" => serving = "run"
  /\ phase \in {"configure", "ipc_start"} => listener # "alive"
  /\ phase \in Phase \ {"configure", "ipc_start"} /\ ~ipc_running => listener # "alive"
  /\ phase \in Teardown => listener # "alive"
  /\ phase = "ipc_join" => ipc_should_stop

\* Every step preserves it.
LEMMA ListenerStep ==
  ASSUME TypeOK, ListenerInv, [Next]_vars
  PROVE  ListenerInv'
<1>t. /\ phase \in Phase /\ listener \in Thread /\ serving \in Serving
      /\ pc \in [Caller -> Step] /\ result["main"] \in BOOLEAN
  BY DEF TypeOK, Step, Caller
<1>c. ASSUME NEW c \in Caller, CallStep(c) PROVE ListenerInv'
  <2>1. UNCHANGED <<phase, listener, serving, ipc_running, ipc_should_stop>>
    BY <1>c, CallFrame DEF main, ipc
  <2>2. pc'["ipc"] # "ready" => pc["ipc"] # "ready"
    BY <1>c, CallFrame DEF Caller
  <2> QED BY <2>1, <2>2 DEF ListenerInv
<1> USE <1>t DEF ListenerInv, Phase, Teardown, Thread, Serving, Go, Spawn,
            main, ipc, call, pipeline, alsa, bypass
<1>1. CASE Main
  <2>1. CASE CallStep("main") BY <2>1, <1>c DEF Caller
  <2>2. CASE MainConfigure BY <2>2 DEF MainConfigure
  <2>3. CASE MainIpcStart BY <2>3 DEF MainIpcStart
  <2>4. CASE MainStart BY <2>4 DEF MainStart, Caller
  <2>5. CASE MainStarted BY <2>5 DEF MainStarted
  <2>6. CASE MainLoopEnds BY <2>6 DEF MainLoopEnds
  <2>7. CASE MainIpcStop BY <2>7 DEF MainIpcStop, AfterIpcStop
  <2>8. CASE MainIpcJoin BY <2>8 DEF MainIpcJoin, AfterIpcStop
  <2>9. CASE MainStop BY <2>9 DEF MainStop, Caller
  <2>10. CASE MainDestroyIpc BY <2>10 DEF MainDestroyIpc
  <2>11. CASE MainDestroyPipeline BY <2>11 DEF MainDestroyPipeline, Caller
  <2>12. CASE MainDestroyAlsa BY <2>12 DEF MainDestroyAlsa, Caller
  <2>13. CASE MainDestroyThreads BY <2>13 DEF MainDestroyThreads
  <2> QED
    BY <1>1, <2>1, <2>2, <2>3, <2>4, <2>5, <2>6, <2>7, <2>8, <2>9, <2>10, <2>11,
       <2>12, <2>13 DEF Main
<1>2. CASE Listener
  <2>1. CASE CallStep("ipc") BY <2>1, <1>c DEF Caller
  <2>2. CASE ListenerSocket BY <2>2 DEF ListenerSocket
  <2>3. CASE ListenerCheck BY <2>3 DEF ListenerCheck
  <2>4. CASE ListenerTimeout BY <2>4 DEF ListenerTimeout
  <2>5. CASE ListenerReply BY <2>5 DEF ListenerReply
  <2> QED BY <1>2, <2>1, <2>2, <2>3, <2>4, <2>5 DEF Listener
<1>3. CASE Client
  <2>1. CASE ClientConnects BY <2>1 DEF ClientConnects
  <2>2. CASE ClientSends BY <2>2 DEF ClientSends, Caller
  <2>3. CASE ClientHangsUp BY <2>3 DEF ClientHangsUp
  <2> QED BY <1>3, <2>1, <2>2, <2>3 DEF Client
<1>4. CASE Workers
  BY <1>4 DEF Workers, ProcessingExits, CaptureExits, PlaybackExits
<1>5. CASE ShutdownRequested BY <1>5 DEF ShutdownRequested
<1>6. CASE UNCHANGED vars BY <1>6 DEF vars
<1> QED BY <1>1, <1>2, <1>3, <1>4, <1>5, <1>6 DEF Next

\* Every variable keeps its type, and a command is pending exactly while the
\* listener serves it.
THEOREM TypeCorrect == Spec => []TypeOK
<1>1. Init => TypeOK
  BY LifecycleAssumption DEF Init, TypeOK, Phase, Thread, Serving, Caller
<1>2. Init => ListenerInv
  BY DEF Init, ListenerInv, Teardown, Caller
<1>3. TypeOK /\ ListenerInv /\ [Next]_vars => TypeOK'
  <2> SUFFICES ASSUME TypeOK, ListenerInv, [Next]_vars PROVE TypeOK'
    OBVIOUS
  <2> USE DEF TypeOK, Phase, Thread, Serving, Command, StartStep, StopStep, Go, Spawn,
              main, ipc, call, pipeline, alsa, bypass
  <2>1. CASE Main
    <3>1. CASE CallStep("main") BY <3>1, CallTypes DEF Caller
    <3>2. CASE MainConfigure BY <3>2, LifecycleAssumption DEF MainConfigure
    <3>3. CASE MainIpcStart BY <3>3, ZenonT(30) DEF MainIpcStart, ListenerInv
    <3>4. CASE MainStart BY <3>4 DEF MainStart, Caller
    <3>5. CASE MainStarted BY <3>5 DEF MainStarted
    <3>6. CASE MainLoopEnds BY <3>6 DEF MainLoopEnds
    <3>7. CASE MainIpcStop BY <3>7, ZenonT(30) DEF MainIpcStop, AfterIpcStop
    <3>8. CASE MainIpcJoin BY <3>8 DEF MainIpcJoin, AfterIpcStop
    <3>9. CASE MainStop BY <3>9 DEF MainStop, Caller
    <3>10. CASE MainDestroyIpc BY <3>10 DEF MainDestroyIpc
    <3>11. CASE MainDestroyPipeline BY <3>11 DEF MainDestroyPipeline, Caller
    <3>12. CASE MainDestroyAlsa BY <3>12 DEF MainDestroyAlsa, Caller
    <3>13. CASE MainDestroyThreads BY <3>13 DEF MainDestroyThreads
    <3> QED
      BY <2>1, <3>1, <3>2, <3>3, <3>4, <3>5, <3>6, <3>7, <3>8, <3>9, <3>10, <3>11,
         <3>12, <3>13 DEF Main
  <2>2. CASE Listener
    <3>1. CASE CallStep("ipc") BY <3>1, CallTypes DEF Caller
    <3>2. CASE ListenerSocket BY <3>2, ZenonT(30) DEF ListenerSocket
    <3>3. CASE ListenerCheck BY <3>3 DEF ListenerCheck
    <3>4. CASE ListenerTimeout BY <3>4 DEF ListenerTimeout
    <3>5. CASE ListenerReply BY <3>5 DEF ListenerReply
    <3> QED BY <2>2, <3>1, <3>2, <3>3, <3>4, <3>5 DEF Listener
  <2>3. CASE Client
    <3>1. CASE ClientConnects BY <3>1 DEF ClientConnects
    <3>2. CASE ClientSends BY <3>2 DEF ClientSends, Caller
    <3>3. CASE ClientHangsUp BY <3>3 DEF ClientHangsUp
    <3> QED BY <2>3, <3>1, <3>2, <3>3 DEF Client
  <2>4. CASE Workers
    BY <2>4 DEF Workers, ProcessingExits, CaptureExits, PlaybackExits
  <2>5. CASE ShutdownRequested BY <2>5 DEF ShutdownRequested
  <2>6. CASE UNCHANGED vars BY <2>6 DEF vars
  <2> QED BY <2>1, <2>2, <2>3, <2>4, <2>5, <2>6 DEF Next
<1>4. TypeOK /\ ListenerInv /\ [Next]_vars => ListenerInv'
  BY ListenerStep
<1> QED BY <1>1, <1>2, <1>3, <1>4, PTL DEF Spec

\* Once main is past ipc_server.stop() the listener thread is gone, and no client's
\* start or stop is under way.
THEOREM NoClientDuringTeardown == Spec => []NoCommandDuringTeardown
<1>1. Init => ListenerInv
  BY DEF Init, ListenerInv, Teardown, Caller
<1>2. TypeOK /\ ListenerInv /\ [Next]_vars => ListenerInv'
  BY ListenerStep
<1>3. ListenerInv => NoCommandDuringTeardown
  BY DEF ListenerInv, NoCommandDuringTeardown, Teardown
<1> QED BY <1>1, <1>2, <1>3, TypeCorrect, PTL DEF Spec

------------------------------------------------------------------------------
\* The pipeline between calls.
Idle ==
  /\ ~is_running /\ processing = "none"
  /\ ~alsa_running /\ capture = "none" /\ playback = "none"

AlsaUp ==
  /\ alsa_running /\ ~alsa_should_stop /\ open
  /\ capture # "none" /\ playback = "alive"

Up == is_running /\ processing = "alive" /\ ~should_stop /\ AlsaUp

\* How far start() or stop() has got; nothing is known of it at its check.
StepInv(c) ==
  /\ pc[c] \in {"s_reset", "a_check", "a_open"} => Idle
  /\ pc[c] = "a_flags" => Idle /\ open
  /\ pc[c] \in {"a_capture", "a_playback"}
       => /\ ~is_running /\ processing = "none"
          /\ alsa_running /\ ~alsa_should_stop /\ open /\ playback = "none"
  /\ pc[c] = "a_capture" => capture = "none"
  /\ pc[c] = "a_playback" => capture # "none"
  /\ pc[c] \in {"s_clear", "s_run"} => ~is_running /\ processing = "none" /\ AlsaUp
  /\ pc[c] = "s_run" => ~should_stop
  /\ pc[c] = "s_spawn" => is_running /\ processing = "none" /\ ~should_stop /\ AlsaUp
  /\ pc[c] = "t_flag" => Up
  /\ pc[c] = "t_join" => AlsaUp /\ should_stop
  /\ pc[c] \in {"b_check", "b_flag", "b_join", "b_close", "t_done"} => processing = "none"
  /\ pc[c] = "b_check" => AlsaUp \/ (~alsa_running /\ capture = "none" /\ playback = "none")
  /\ pc[c] = "b_flag" => AlsaUp
  /\ pc[c] \in {"b_join", "b_close"} => open /\ alsa_should_stop
  /\ pc[c] \in {"b_close", "t_done"} => capture = "none" /\ playback = "none"
  /\ pc[c] = "t_done" => ~alsa_running

\* The handles stay open while a thread uses them, and are closed on request only.
HandleInv ==
  /\ "alive" \in {capture, playback} => open
  /\ open \/ alsa_should_stop

Rest == \A c \in Caller : ~Working(c)

\* As long as no calls have overlapped, one caller is at work at a time.
PipelineInv ==
  ~overlapped =>
    /\ \A c \in Caller : StepInv(c)
    /\ Rest => Idle \/ Up
    /\ \A c, d \in Caller : Working(c) /\ Working(d) => c = d
    /\ phase \in {"destroy_alsa", "destroy_threads"} /\ pc["main"] = "ready" => Idle
    /\ HandleInv

PhaseInv ==
  /\ pc["main"] \in StartStep => phase = "started"
  /\ pc["main"] \in StopStep => phase \in {"stopped", "destroy_alsa", "destroy_threads"}
  /\ serving \in {"recv", "run"} =>
       phase \in {"start", "started", "loop", "ipc_stop", "ipc_join"}
  /\ phase \in {"configure", "ipc_start"} => listener = "none"
  /\ phase \in Teardown => ~ipc_running
  /\ TerminatedOnlyByListener

LEMMA CallProgress ==
  ASSUME TypeOK, NEW c \in Caller, CallStep(c), StepInv(c), HandleInv, ~terminated,
         ~Working(c) => Idle \/ Up
  PROVE  /\ StepInv(c)'
         /\ ~Working(c)' => (Idle \/ Up)'
         /\ pc'[c] = "ready" /\ pc[c] \in StopStep => Idle'
         /\ HandleInv'
         /\ ~terminated'
<1>t. /\ pc \in [Caller -> StartStep \cup StopStep \cup {"ready"}]
      /\ {processing, capture, playback} \subseteq Thread
      /\ {is_running, should_stop, alsa_running, alsa_should_stop, open, terminated} \subseteq BOOLEAN
  BY DEF TypeOK
<1> USE <1>t DEF StepInv, Idle, Up, AlsaUp, HandleInv, Working, Go, GoToWork, Return, Spawn, Thread,
                 StartStep, StopStep, pipeline, alsa
<1>1. CASE StartCheck(c) BY <1>1 DEF StartCheck
<1>2. CASE StartReset(c) BY <1>2 DEF StartReset
<1>3. CASE AlsaCheck(c) BY <1>3 DEF AlsaCheck
<1>4. CASE AlsaOpen(c) BY <1>4 DEF AlsaOpen
<1>5. CASE AlsaFlags(c) BY <1>5 DEF AlsaFlags
<1>6. CASE AlsaCapture(c) BY <1>6 DEF AlsaCapture
<1>7. CASE AlsaPlayback(c) BY <1>7 DEF AlsaPlayback
<1>8. CASE StartClear(c) BY <1>8 DEF StartClear
<1>9. CASE StartRun(c) BY <1>9 DEF StartRun
<1>10. CASE StartSpawn(c) BY <1>10 DEF StartSpawn
<1>11. CASE StopCheck(c) BY <1>11 DEF StopCheck
<1>12. CASE StopFlag(c) BY <1>12 DEF StopFlag
<1>13. CASE StopJoin(c) BY <1>13 DEF StopJoin
<1>14. CASE AlsaStopCheck(c) BY <1>14 DEF AlsaStopCheck
<1>15. CASE AlsaStopFlag(c) BY <1>15 DEF AlsaStopFlag
<1>16. CASE AlsaStopJoin(c) BY <1>16 DEF AlsaStopJoin
<1>17. CASE AlsaStopClose(c) BY <1>17 DEF AlsaStopClose
<1>18. CASE StopDone(c) BY <1>18 DEF StopDone
<1> QED
  BY <1>1, <1>2, <1>3, <1>4, <1>5, <1>6, <1>7, <1>8, <1>9, <1>10, <1>11, <1>12, <1>13,
     <1>14, <1>15, <1>16, <1>17, <1>18 DEF CallStep

\* A caller at its check that leaves it for work notices the other one's.
LEMMA CheckSees ==
  ASSUME TypeOK, NEW c \in Caller, CallStep(c), ~Working(c), Working(c)'
  PROVE  overlapped' <=> overlapped \/ \E d \in Caller \ {c} : Working(d)
<1>1. pc[c] \in {"s_check", "t_check"}
  BY CallFrame DEF Working
<1>2. StartCheck(c) \/ StopCheck(c)
  BY <1>1 DEF CallStep, StartReset, AlsaCheck, AlsaOpen, AlsaFlags, AlsaCapture, AlsaPlayback,
     StartClear, StartRun, StartSpawn, StopFlag, StopJoin, AlsaStopCheck, AlsaStopFlag,
     AlsaStopJoin, AlsaStopClose, StopDone
<1>3. pc \in [Caller -> StartStep \cup StopStep \cup {"ready"}]
  BY DEF TypeOK
<1>4. pc'[c] # "ready"
  BY DEF Working
<1> QED BY <1>2, <1>3, <1>4 DEF StartCheck, StopCheck, Go, GoToWork, Return

\* Where the other caller is at work, a caller can only find out that it has nothing
\* to do, or overlap it.
LEMMA CheckReturns ==
  ASSUME TypeOK, NEW c \in Caller, CallStep(c), ~Working(c), ~Working(c)'
  PROVE  UNCHANGED <<pipeline, alsa, terminated>> /\ pc'[c] = "ready"
<1>1. pc[c] \in {"s_check", "t_check"}
  BY CallFrame DEF Working
<1>2. StartCheck(c) \/ StopCheck(c)
  BY <1>1 DEF CallStep, StartReset, AlsaCheck, AlsaOpen, AlsaFlags, AlsaCapture, AlsaPlayback,
     StartClear, StartRun, StartSpawn, StopFlag, StopJoin, AlsaStopCheck, AlsaStopFlag,
     AlsaStopJoin, AlsaStopClose, StopDone
<1>3. pc \in [Caller -> StartStep \cup StopStep \cup {"ready"}]
  BY DEF TypeOK
<1> QED BY <1>2, <1>3 DEF StartCheck, StopCheck, Go, GoToWork, Return, Working

\* Within a call of main(), its program counter stays among the steps of that call.
LEMMA MainCall ==
  ASSUME TypeOK, CallStep("main")
  PROVE  /\ pc'["main"] \in StartStep => pc["main"] \in StartStep
         /\ pc'["main"] \in StopStep => pc["main"] \in StopStep
<1> DEFINE c == "main"
<1> USE DEF TypeOK, Caller, Go, GoToWork, Return, StartStep, StopStep
<1>1. CASE StartCheck(c) BY <1>1 DEF StartCheck
<1>2. CASE StartReset(c) BY <1>2 DEF StartReset
<1>3. CASE AlsaCheck(c) BY <1>3 DEF AlsaCheck
<1>4. CASE AlsaOpen(c) BY <1>4 DEF AlsaOpen
<1>5. CASE AlsaFlags(c) BY <1>5 DEF AlsaFlags
<1>6. CASE AlsaCapture(c) BY <1>6 DEF AlsaCapture
<1>7. CASE AlsaPlayback(c) BY <1>7 DEF AlsaPlayback
<1>8. CASE StartClear(c) BY <1>8 DEF StartClear
<1>9. CASE StartRun(c) BY <1>9 DEF StartRun
<1>10. CASE StartSpawn(c) BY <1>10 DEF StartSpawn
<1>11. CASE StopCheck(c) BY <1>11 DEF StopCheck
<1>12. CASE StopFlag(c) BY <1>12 DEF StopFlag
<1>13. CASE StopJoin(c) BY <1>13 DEF StopJoin
<1>14. CASE AlsaStopCheck(c) BY <1>14 DEF AlsaStopCheck
<1>15. CASE AlsaStopFlag(c) BY <1>15 DEF AlsaStopFlag
<1>16. CASE AlsaStopJoin(c) BY <1>16 DEF AlsaStopJoin
<1>17. CASE AlsaStopClose(c) BY <1>17 DEF AlsaStopClose
<1>18. CASE StopDone(c) BY <1>18 DEF StopDone
<1> QED
  BY <1>1, <1>2, <1>3, <1>4, <1>5, <1>6, <1>7, <1>8, <1>9, <1>10, <1>11, <1>12, <1>13,
     <1>14, <1>15, <1>16, <1>17, <1>18 DEF CallStep

LEMMA CallPipeline ==
  ASSUME TypeOK, ListenerInv, PhaseInv, PipelineInv, NEW c \in Caller, CallStep(c), ~terminated
  PROVE  PipelineInv' /\ PhaseInv'
<1>2. /\ UNCHANGED <<main, ipc>> /\ pc[c] # "ready" /\ pc' \in [Caller -> Step]
      /\ \A d \in Caller \ {c} : pc'[d] = pc[d]
      /\ overlapped => overlapped'
  BY CallFrame
<1>3. UNCHANGED <<phase, listener, serving, ipc_running>>
  BY <1>2 DEF main, ipc
<1>4. \A d \in Caller \ {c} : Working(d)' <=> Working(d)
  BY <1>2 DEF Working
<1>5. ASSUME ~overlapped' PROVE ~terminated' /\ PipelineInv'
  <2>1. ~overlapped /\ (\A d \in Caller : StepInv(d)) /\ HandleInv /\ (Rest => Idle \/ Up)
        /\ (\A d, e \in Caller : Working(d) /\ Working(e) => d = e)
        /\ (phase \in {"destroy_alsa", "destroy_threads"} /\ pc["main"] = "ready" => Idle)
    BY <1>2, <1>5 DEF PipelineInv
  <2>2. CASE \E d \in Caller \ {c} : Working(d)
    <3>1. ~Working(c)
      BY <2>1, <2>2
    <3>2. ~Working(c)'
      BY <1>5, <2>2, <3>1, CheckSees
    <3>3. UNCHANGED <<pipeline, alsa, terminated>> /\ pc'[c] = "ready"
      BY <3>1, <3>2, CheckReturns
    <3>4. \A d \in Caller : StepInv(d)'
      <4>1. StepInv(c)'
        BY <3>3 DEF StepInv
      <4>2. ASSUME NEW d \in Caller \ {c} PROVE StepInv(d)'
        BY <1>2, <2>1, <3>3 DEF StepInv, Idle, Up, AlsaUp, pipeline, alsa
      <4> QED BY <4>1, <4>2
    <3>5. ~Rest'
      BY <1>4, <2>2 DEF Rest
    <3>6. \A d, e \in Caller : Working(d)' /\ Working(e)' => d = e
      BY <1>4, <2>1, <3>2
    <3>7. HandleInv' /\ (Idle => Idle')
      BY <2>1, <3>3 DEF HandleInv, Idle, pipeline, alsa
    <3>8. phase' \in {"destroy_alsa", "destroy_threads"} => c = "main" /\ pc["ipc"] = "ready"
      BY <1>2, <1>3 DEF ListenerInv, Teardown, Caller
    <3>9. ~(phase' \in {"destroy_alsa", "destroy_threads"})
      BY <2>2, <3>8 DEF Caller, Working
    <3> QED BY <3>3, <3>4, <3>5, <3>6, <3>7, <3>9 DEF PipelineInv
  <2>3. CASE \A d \in Caller \ {c} : ~Working(d)
    <3>1. ~Working(c) => Idle \/ Up
      BY <2>1, <2>3 DEF Rest
    <3>2. /\ StepInv(c)'
          /\ ~Working(c)' => (Idle \/ Up)'
          /\ pc'[c] = "ready" /\ pc[c] \in StopStep => Idle'
          /\ HandleInv' /\ ~terminated'
      BY <2>1, <3>1, CallProgress
    <3>3. ASSUME NEW d \in Caller \ {c} PROVE StepInv(d)'
      <4>1. pc'[d] \in {"ready", "s_check", "t_check"}
        BY <1>2, <2>3 DEF Working
      <4> QED BY <4>1 DEF StepInv
    <3>4. Rest' => (Idle \/ Up)'
      BY <3>2 DEF Rest
    <3>5. \A d, e \in Caller : Working(d)' /\ Working(e)' => d = e
      BY <1>4, <2>3
    <3>6. phase' \in {"destroy_alsa", "destroy_threads"} /\ pc'["main"] = "ready" => Idle'
      <4> SUFFICES ASSUME phase \in {"destroy_alsa", "destroy_threads"}, pc'["main"] = "ready"
                   PROVE  Idle'
        BY <1>3
      <4>1. pc["ipc"] = "ready"
        BY DEF ListenerInv, Teardown
      <4>2. c = "main" /\ pc[c] \in StartStep \cup StopStep
        BY <1>2, <4>1 DEF Caller, TypeOK
      <4>3. pc[c] \in StopStep
        BY <4>2 DEF PhaseInv
      <4> QED BY <3>2, <4>2, <4>3
    <3> QED BY <3>2, <3>3, <3>4, <3>5, <3>6 DEF PipelineInv
  <2> QED BY <2>2, <2>3
<1>6. PipelineInv'
  BY <1>5 DEF PipelineInv
<1>7. PhaseInv'
  <2>1. /\ pc'["main"] \in StartStep => pc["main"] \in StartStep
        /\ pc'["main"] \in StopStep => pc["main"] \in StopStep
    BY <1>2, MainCall DEF Caller
  <2>2. TerminatedOnlyByListener'
    BY <1>5 DEF TerminatedOnlyByListener
  <2> QED BY <1>3, <2>1, <2>2 DEF PhaseInv
<1> QED BY <1>6, <1>7

\* Steps that leave the pipeline and its threads alone.
LEMMA SamePipeline ==
  ASSUME PipelineInv, UNCHANGED <<pipeline, alsa, pc, overlapped>>,
         phase' \in {"destroy_alsa", "destroy_threads"} => phase' = phase
  PROVE  PipelineInv'
<1>1. UNCHANGED <<is_running, should_stop, processing, alsa_running, alsa_should_stop,
                  capture, playback, open>>
  BY DEF pipeline, alsa
<1>2. (Idle <=> Idle') /\ (Up <=> Up') /\ (HandleInv <=> HandleInv')
  BY <1>1 DEF Idle, Up, AlsaUp, HandleInv
<1>3. (Rest <=> Rest') /\ \A c \in Caller : Working(c) <=> Working(c)'
  BY DEF Rest, Working
<1>4. \A c \in Caller : StepInv(c) => StepInv(c)'
  BY <1>1 DEF StepInv, Idle, Up, AlsaUp
<1> QED BY <1>2, <1>3, <1>4 DEF PipelineInv

\* main() or the listener begins a call of start() or stop(); the destructor of
\* AlsaBackend begins its stop() where nobody else can be at work.
LEMMA BeginCall ==
  ASSUME TypeOK, PipelineInv, UNCHANGED <<pipeline, alsa>>, NEW c \in Caller, pc[c] = "ready",
         \/ Go(c, "s_check") \/ Go(c, "t_check")
         \/ Go(c, "b_check") /\ (overlapped \/ Idle) /\ Quiet,
         phase' \in {"destroy_alsa", "destroy_threads"} => c = "main" \/ phase' = phase
  PROVE  PipelineInv'
<1> SUFFICES ASSUME ~overlapped PROVE PipelineInv'
  BY DEF Go, PipelineInv
<1>1. UNCHANGED <<is_running, should_stop, processing, alsa_running, alsa_should_stop,
                  capture, playback, open>>
  BY DEF pipeline, alsa
<1>2. (Idle <=> Idle') /\ (Up <=> Up') /\ HandleInv'
  BY <1>1 DEF PipelineInv, Idle, Up, AlsaUp, HandleInv
<1>3. /\ pc'[c] \in {"s_check", "t_check", "b_check"}
      /\ pc'[c] = "b_check" => Idle /\ Quiet
      /\ \A d \in Caller \ {c} : pc'[d] = pc[d]
  BY DEF Go, TypeOK
<1>4. StepInv(c)'
  BY <1>2, <1>3 DEF StepInv, Idle
<1>5. ASSUME NEW d \in Caller \ {c} PROVE StepInv(d)' /\ (Working(d)' <=> Working(d))
  <2>1. StepInv(d)
    BY DEF PipelineInv
  <2> QED BY <1>1, <1>3, <2>1 DEF StepInv, Idle, Up, AlsaUp, Working
<1>6. Rest' => (Idle \/ Up)'
  <2>1. ~Working(c)
    BY DEF Working
  <2> QED BY <1>2, <1>5, <2>1 DEF Rest, PipelineInv
<1>7. \A d, e \in Caller : Working(d)' /\ Working(e)' => d = e
  <2>1. Working(c)' => \A d \in Caller \ {c} : ~Working(d)
    BY <1>3 DEF Working, Quiet
  <2> QED BY <1>5, <2>1 DEF PipelineInv
<1>8. phase' \in {"destroy_alsa", "destroy_threads"} /\ pc'["main"] = "ready" => Idle'
  <2>1. CASE c = "main"
    BY <1>3, <2>1
  <2>2. CASE c # "main"
    BY <1>2, <1>3, <2>2 DEF PipelineInv, Caller
  <2> QED BY <2>1, <2>2
<1> QED BY <1>2, <1>4, <1>5, <1>6, <1>7, <1>8 DEF PipelineInv

\* Where main() is outside its calls of start() and stop().
LEMMA MainReady ==
  ASSUME TypeOK, PhaseInv, phase \notin {"started", "stopped", "destroy_alsa", "destroy_threads"}
  PROVE  pc["main"] = "ready"
<1>1. pc["main"] \in StartStep \cup StopStep \cup {"ready"}
  BY DEF TypeOK, Caller
<1> QED BY <1>1 DEF PhaseInv

LEMMA MainPipeline ==
  ASSUME TypeOK, ListenerInv, PhaseInv, PipelineInv, Main, ~terminated
  PROVE  PipelineInv' /\ PhaseInv'
<1>t. /\ phase \in Phase /\ listener \in Thread /\ serving \in Serving
      /\ pc \in [Caller -> Step] /\ result["main"] \in BOOLEAN /\ ipc_running \in BOOLEAN
  BY DEF TypeOK, Step, Caller
<1>q. pc["main"] = "ready" /\ phase \in Teardown => Quiet
  BY <1>t DEF ListenerInv, Quiet, Caller
<1>1. CASE CallStep("main")
  BY <1>1, CallPipeline DEF Caller
<1>2. CASE MainConfigure \/ MainIpcStart \/ MainStarted \/ MainLoopEnds \/ MainIpcStop \/ MainIpcJoin
  <2>1. /\ UNCHANGED <<pipeline, alsa, pc, overlapped>>
        /\ phase' \notin {"destroy_alsa", "destroy_threads"}
    BY <1>2 DEF MainConfigure, MainIpcStart, MainStarted, MainLoopEnds, MainIpcStop, MainIpcJoin,
                AfterIpcStop, call
  <2>2. PipelineInv'
    BY <2>1, SamePipeline
  <2> SUFFICES PhaseInv'
    BY <2>2
  <2> USE <1>t, <2>1, MainReady DEF PhaseInv, ListenerInv, TerminatedOnlyByListener, Teardown,
          Phase, Thread, Serving, StartStep, StopStep, Spawn, ipc
  <2>3. CASE MainConfigure BY <2>3 DEF MainConfigure
  <2>4. CASE MainIpcStart BY <2>4 DEF MainIpcStart
  <2>5. CASE MainStarted BY <2>5 DEF MainStarted
  <2>6. CASE MainLoopEnds BY <2>6 DEF MainLoopEnds
  <2>7. CASE MainIpcStop BY <2>7 DEF MainIpcStop, AfterIpcStop
  <2>8. CASE MainIpcJoin BY <2>8 DEF MainIpcJoin, AfterIpcStop
  <2> QED BY <1>2, <2>3, <2>4, <2>5, <2>6, <2>7, <2>8
<1>3. CASE MainStart \/ MainStop \/ MainDestroyPipeline
  <2>1. pc["main"] = "ready" /\ UNCHANGED <<pipeline, alsa, ipc, terminated>>
    BY <1>3, MainReady DEF MainStart, MainStop, MainDestroyPipeline
  <2>2. Go("main", "s_check") \/ Go("main", "t_check")
    BY <1>3 DEF MainStart, MainStop, MainDestroyPipeline
  <2>3. PipelineInv'
    BY <2>1, <2>2, BeginCall DEF Caller
  <2> SUFFICES PhaseInv'
    BY <2>3
  <2> USE <1>t, <2>1 DEF PhaseInv, TerminatedOnlyByListener, Teardown, StartStep, StopStep, Go,
          Caller, ipc
  <2>4. CASE MainStart BY <2>4 DEF MainStart
  <2>5. CASE MainStop BY <2>5 DEF MainStop
  <2>6. CASE MainDestroyPipeline BY <2>6 DEF MainDestroyPipeline
  <2> QED BY <1>3, <2>4, <2>5, <2>6
<1>4. CASE MainDestroyIpc
  <2>1. UNCHANGED <<pipeline, alsa, pc, overlapped>> /\ phase' = "destroy_pipeline"
    BY <1>4 DEF MainDestroyIpc, call
  <2>2. PipelineInv'
    BY <2>1, SamePipeline
  <2>3. PhaseInv'
    BY <1>4, <1>t, <2>1 DEF MainDestroyIpc, PhaseInv, ListenerInv, TerminatedOnlyByListener,
       Teardown, StartStep, StopStep, Thread, ipc
  <2> QED BY <2>2, <2>3
<1>5. CASE MainDestroyAlsa
  <2>1. pc["main"] = "ready" /\ phase = "destroy_alsa" /\ Quiet /\ (overlapped \/ Idle)
    BY <1>5, <1>q DEF MainDestroyAlsa, PipelineInv, Teardown
  <2>2. /\ UNCHANGED <<pipeline, alsa, ipc>> /\ Go("main", "b_check")
        /\ phase' = "destroy_threads" /\ (terminated' => overlapped')
    BY <1>5, <2>1 DEF MainDestroyAlsa, Idle, Go
  <2>3. PipelineInv'
    BY <2>1, <2>2, BeginCall DEF Caller
  <2>4. PhaseInv'
    BY <1>t, <2>1, <2>2 DEF PhaseInv, TerminatedOnlyByListener, Teardown, StartStep, StopStep, Go,
       Caller, ipc
  <2> QED BY <2>3, <2>4
<1>6. CASE MainDestroyThreads
  <2>1. overlapped \/ Idle
    BY <1>6 DEF MainDestroyThreads, PipelineInv
  <2>2. /\ UNCHANGED <<pipeline, alsa, pc, overlapped, ipc>> /\ phase' = "exit"
        /\ terminated' => overlapped'
    BY <1>6, <2>1 DEF MainDestroyThreads, Idle, call
  <2>3. PipelineInv'
    BY <2>2, SamePipeline
  <2>4. PhaseInv'
    BY <1>6, <1>t, <2>2 DEF MainDestroyThreads, PhaseInv, TerminatedOnlyByListener, Teardown,
       StartStep, StopStep, ipc
  <2> QED BY <2>3, <2>4
<1> QED BY <1>1, <1>2, <1>3, <1>4, <1>5, <1>6 DEF Main

LEMMA LifeStep ==
  ASSUME TypeOK, ListenerInv, PhaseInv, PipelineInv, [Next]_vars
  PROVE  PipelineInv' /\ PhaseInv'
<1>t. /\ phase \in Phase /\ listener \in Thread /\ serving \in Serving
      /\ pc \in [Caller -> Step] /\ command \in Command \cup {"none"}
  BY DEF TypeOK, Step, Caller
<1>1. CASE Main /\ ~terminated
  BY <1>1, MainPipeline
<1>2. CASE CallStep("ipc") /\ ~terminated
  BY <1>2, CallPipeline DEF Caller
<1>3. CASE ~terminated /\ (ListenerSocket \/ ListenerCheck \/ ListenerTimeout \/ ListenerReply
                             \/ ClientConnects \/ ClientHangsUp \/ ShutdownRequested)
  <2>1. UNCHANGED <<pipeline, alsa, pc, overlapped, phase, terminated>>
    BY <1>3 DEF ListenerSocket, ListenerCheck, ListenerTimeout, ListenerReply, ClientConnects,
                ClientHangsUp, ShutdownRequested, main, call
  <2>2. PipelineInv'
    BY <2>1, SamePipeline
  <2> SUFFICES PhaseInv'
    BY <2>2
  <2> USE <1>t, <2>1 DEF PhaseInv, ListenerInv, TerminatedOnlyByListener, Teardown, Phase, Serving, ipc
  <2>3. CASE ListenerSocket BY <1>3, <2>3 DEF ListenerSocket
  <2>4. CASE ListenerCheck BY <1>3, <2>4 DEF ListenerCheck
  <2>5. CASE ListenerTimeout BY <1>3, <2>5 DEF ListenerTimeout
  <2>6. CASE ListenerReply BY <1>3, <2>6 DEF ListenerReply
  <2>7. CASE ClientConnects BY <1>3, <2>7 DEF ClientConnects
  <2>8. CASE ClientHangsUp BY <1>3, <2>8 DEF ClientHangsUp
  <2>9. CASE ShutdownRequested BY <1>3, <2>9 DEF ShutdownRequested
  <2> QED BY <1>3, <2>3, <2>4, <2>5, <2>6, <2>7, <2>8, <2>9
<1>4. CASE ClientSends /\ ~terminated
  <2>1. /\ serving = "recv" /\ serving' = "run"
        /\ UNCHANGED <<pipeline, alsa, phase, listener, ipc_running, terminated>>
    BY <1>4 DEF ClientSends, main
  <2>2. pc["ipc"] = "ready"
    BY <1>t, <1>4 DEF ClientSends, ListenerInv
  <2>3. \/ Go("ipc", "s_check") \/ Go("ipc", "t_check")
        \/ UNCHANGED <<pc, overlapped>>
    BY <1>4 DEF ClientSends
  <2>4. PipelineInv'
    BY <2>1, <2>2, <2>3, BeginCall, SamePipeline DEF Caller
  <2>5. pc'["main"] = pc["main"] /\ overlapped' = overlapped
    BY <1>t, <2>3 DEF Go, Caller
  <2>6. PhaseInv'
    BY <1>4, <2>1, <2>5 DEF PhaseInv, TerminatedOnlyByListener
  <2> QED BY <2>4, <2>6
<1>5. CASE Workers /\ ~terminated
  <2>1. UNCHANGED <<phase, listener, serving, ipc_running, pc, overlapped, terminated>>
    BY <1>5 DEF Workers, ProcessingExits, CaptureExits, PlaybackExits, main, ipc, call
  <2>2. PhaseInv'
    BY <2>1 DEF PhaseInv, TerminatedOnlyByListener
  <2>3. UNCHANGED <<is_running, should_stop, alsa_running, alsa_should_stop, open>>
    BY <1>5 DEF Workers, ProcessingExits, CaptureExits, PlaybackExits, pipeline, alsa
  <2>4. /\ processing' = processing \/ (processing = "alive" /\ should_stop)
        /\ capture' = capture \/ (capture = "alive" /\ capture' = "dead" /\ alsa_should_stop)
        /\ playback' = playback \/ (playback = "alive" /\ playback' = "dead" /\ alsa_should_stop)
    BY <1>5 DEF Workers, ProcessingExits, CaptureExits, PlaybackExits, pipeline, alsa
  <2>5. HandleInv => HandleInv'
    BY <2>3, <2>4 DEF HandleInv
  <2>6. (Idle => Idle') /\ (Up => Up') /\ (AlsaUp => AlsaUp')
    BY <2>3, <2>4 DEF Idle, Up, AlsaUp
  <2>7. ASSUME NEW c \in Caller, StepInv(c) PROVE StepInv(c)'
    BY <2>1, <2>3, <2>4, <2>6, <2>7 DEF StepInv
  <2>8. (Rest <=> Rest') /\ \A c \in Caller : Working(c) <=> Working(c)'
    BY <2>1 DEF Rest, Working
  <2>9. PipelineInv'
    BY <2>1, <2>5, <2>6, <2>7, <2>8 DEF PipelineInv
  <2> QED BY <2>2, <2>9
<1>6. CASE UNCHANGED vars
  <2>1. PipelineInv'
    BY <1>6, SamePipeline DEF vars, pipeline, alsa
  <2> QED BY <1>6, <2>1 DEF vars, PhaseInv, TerminatedOnlyByListener
<1> QED BY <1>1, <1>2, <1>3, <1>4, <1>5, <1>6 DEF Next, Listener, Client

LEMMA LifeInit == Init => ListenerInv /\ PhaseInv /\ PipelineInv
<1> SUFFICES ASSUME Init PROVE ListenerInv /\ PhaseInv /\ PipelineInv
  OBVIOUS
<1>1. \A c \in Caller : pc[c] = "ready"
  BY DEF Init
<1>2. Idle
  BY DEF Init, Idle
<1>3. \A c \in Caller : StepInv(c)
  BY <1>1 DEF StepInv
<1>4. HandleInv
  BY DEF Init, HandleInv
<1>5. ListenerInv /\ PhaseInv
  BY <1>1 DEF Init, ListenerInv, PhaseInv, Teardown, StartStep, StopStep, Caller,
              TerminatedOnlyByListener
<1> QED BY <1>1, <1>2, <1>3, <1>4, <1>5 DEF PipelineInv, Working

LEMMA LifeCorrect ==
  Spec => [](TypeOK /\ ListenerInv /\ PhaseInv /\ PipelineInv)
<1>1. TypeOK /\ ListenerInv /\ PhaseInv /\ PipelineInv /\ [Next]_vars
        => ListenerInv' /\ PhaseInv' /\ PipelineInv'
  BY ListenerStep, LifeStep
<1> QED BY <1>1, LifeInit, TypeCorrect, PTL DEF Spec

\* Until two calls overlap, the two is_running_ flags tell the truth between calls
\* (RealtimePipeline::start and stop with AlsaBackend's).
THEOREM FlagsTellTheTruth == Spec => []QuietConsistent
<1>1. PipelineInv => QuietConsistent
  BY DEF PipelineInv, QuietConsistent, Quiet, Rest, Working, Idle, Up, AlsaUp
<1> QED BY <1>1, LifeCorrect, PTL

\* Until two calls overlap, the audio threads never outlive the handles they use
\* (AlsaBackend::stop joins before it closes).
THEOREM HandlesOutliveThreads == Spec => []NoUseAfterClose
<1>1. PipelineInv => NoUseAfterClose
  BY DEF PipelineInv, HandleInv, NoUseAfterClose
<1> QED BY <1>1, LifeCorrect, PTL

\* Whatever the clients send and whenever, a joinable thread is assigned to or
\* destroyed only after two calls have overlapped, or it is the listener's, after its
\* socket has failed.
THEOREM OnlyListenerTerminates == Spec => []TerminatedOnlyByListener
<1>1. PhaseInv => TerminatedOnlyByListener
  BY DEF PhaseInv
<1> QED BY <1>1, LifeCorrect, PTL

\* Whoever waits in a join waits for a thread that was told to stop, so its loop
\* ends by itself (RealtimePipeline::stop, AlsaBackend::stop, IpcServer::stop), and
\* only a call that overlaps this one can revoke the request.
THEOREM JoinsEnd == Spec => []JoinsAnswered
<1>1. ListenerInv /\ PipelineInv => JoinsAnswered
  BY DEF ListenerInv, PipelineInv, StepInv, JoinsAnswered
<1> QED BY <1>1, LifeCorrect, PTL

LEMMA OverlapStep ==
  ASSUME TypeOK, ListenerInv, PhaseInv, PipelineInv, [Next]_vars, overlapped', ~overlapped
  PROVE  phase = "started"
<1>1. PICK c \in Caller : CallStep(c)
  BY DEF Next, Main, Listener, Client, Workers, vars, call, Go, MainConfigure, MainIpcStart,
     MainStart, MainStarted, MainLoopEnds, MainIpcStop, MainIpcJoin, MainStop, MainDestroyIpc,
     MainDestroyPipeline, MainDestroyAlsa, MainDestroyThreads, ListenerSocket, ListenerCheck,
     ListenerTimeout, ListenerReply, ClientConnects, ClientSends, ClientHangsUp,
     ProcessingExits, CaptureExits, PlaybackExits, ShutdownRequested, Caller
<1>2. pc[c] # "ready" /\ \E d \in Caller \ {c} : pc[d] # "ready"
  BY <1>1, CallFrame DEF Working
<1>3. pc["main"] # "ready" /\ pc["ipc"] # "ready"
  BY <1>2 DEF Caller
<1>4. pc["main"] \in StartStep \cup StopStep /\ phase \notin Teardown
  BY <1>3 DEF TypeOK, Caller, ListenerInv
<1> QED BY <1>4 DEF PhaseInv, Teardown

\* Two calls can begin to overlap only while main() is in its own start(), after
\* ipc_server.start(): from then on one caller at a time has the pipeline to itself,
\* however many clients come and whenever main() is told to shut down.
THEOREM OverlapsAtStart == Spec => OverlapOnlyAtStart
<1>1. TypeOK /\ ListenerInv /\ PhaseInv /\ PipelineInv /\ [Next]_vars
        => [overlapped' /\ ~overlapped => phase = "started"]_vars
  BY OverlapStep
<1> QED BY <1>1, LifeCorrect, PTL DEF Spec, OverlapOnlyAtStart

------------------------------------------------------------------------------
\* The threads that use the handles.
AudioThread == {"capture", "playback"}
Using == {t \in AudioThread : (IF t = "capture" THEN capture ELSE playback) = "alive"}

\* The session's actions in terms of the backend.
SessionAction ==
  \/ /\ ~open /\ alsa_should_stop /\ open' = TRUE
     /\ Using' = Using /\ alsa_should_stop' = alsa_should_stop
  \/ /\ open /\ Using = {} /\ alsa_should_stop' = FALSE
     /\ open' = open /\ Using' = Using
  \/ /\ open /\ alsa_should_stop' = TRUE
     /\ open' = open /\ Using' = Using
  \/ /\ open /\ alsa_should_stop /\ Using = {} /\ open' = FALSE
     /\ Using' = Using /\ alsa_should_stop' = alsa_should_stop
  \/ \E t \in AudioThread :
       /\ open /\ ~alsa_should_stop /\ t \notin Using /\ Using' = Using \cup {t}
       /\ open' = open /\ alsa_should_stop' = alsa_should_stop
  \/ \E t \in AudioThread :
       /\ open /\ alsa_should_stop /\ t \in Using /\ Using' = Using \ {t}
       /\ open' = open /\ alsa_should_stop' = alsa_should_stop
  \/ /\ open' = open /\ Using' = Using /\ alsa_should_stop' = alsa_should_stop

LEMMA SessionActionMaps ==
  ASSUME SessionAction
  PROVE  [Session!Next]_(Session!vars)
BY DEF SessionAction, Using, AudioThread, Session!Next, Session!Open, Session!Arm, Session!Ask,
       Session!Close, Session!Attach, Session!Detach, Session!vars

\* A step of start() or stop() is a step of the session or leaves it alone.
LEMMA CallSession ==
  ASSUME TypeOK, NEW c \in Caller, CallStep(c), StepInv(c), HandleInv
  PROVE  SessionAction
<1>t. /\ pc \in [Caller -> StartStep \cup StopStep \cup {"ready"}]
      /\ {capture, playback} \subseteq Thread
      /\ {alsa_should_stop, open} \subseteq BOOLEAN
  BY DEF TypeOK
<1>1. CASE UNCHANGED alsa
  BY <1>1 DEF SessionAction, alsa, Using
<1>2. CASE AlsaOpen(c)
  BY <1>2, <1>t DEF AlsaOpen, SessionAction, Using, HandleInv
<1>3. CASE AlsaFlags(c)
  <2>1. open /\ capture = "none" /\ playback = "none" /\ alsa_should_stop' = FALSE
        /\ UNCHANGED <<open, capture, playback>>
    BY <1>3 DEF AlsaFlags, StepInv, Idle
  <2> QED BY <2>1 DEF SessionAction, Using
<1>4. CASE AlsaCapture(c)
  <2>1. /\ open /\ ~alsa_should_stop /\ capture = "none" /\ playback = "none"
        /\ capture' \in {"alive", "dead"}
        /\ UNCHANGED <<open, playback, alsa_should_stop>>
    BY <1>4 DEF AlsaCapture, StepInv
  <2>2. CASE capture' = "alive"
    <3>1. "capture" \notin Using /\ Using' = Using \cup {"capture"}
      BY <2>1, <2>2 DEF Using, AudioThread
    <3> QED BY <2>1, <3>1 DEF SessionAction, AudioThread
  <2>3. CASE capture' = "dead"
    BY <2>1, <2>3 DEF SessionAction, Using
  <2> QED BY <2>1, <2>2, <2>3
<1>5. CASE AlsaPlayback(c)
  <2>1. /\ open /\ ~alsa_should_stop /\ playback = "none" /\ playback' = "alive"
        /\ UNCHANGED <<open, capture, alsa_should_stop>>
    BY <1>5 DEF AlsaPlayback, StepInv, Spawn
  <2>2. "playback" \notin Using /\ Using' = Using \cup {"playback"}
    BY <2>1 DEF Using, AudioThread
  <2> QED BY <2>1, <2>2 DEF SessionAction, AudioThread
<1>6. CASE AlsaStopFlag(c)
  BY <1>6 DEF AlsaStopFlag, StepInv, AlsaUp, SessionAction, Using
<1>7. CASE AlsaStopJoin(c)
  BY <1>7 DEF AlsaStopJoin, SessionAction, Using
<1>8. CASE AlsaStopClose(c)
  <2>1. open /\ alsa_should_stop /\ capture = "none" /\ playback = "none" /\ open' = FALSE
        /\ UNCHANGED <<capture, playback, alsa_should_stop>>
    BY <1>8 DEF AlsaStopClose, StepInv
  <2> QED BY <2>1 DEF SessionAction, Using
<1> QED
  BY <1>1, <1>2, <1>3, <1>4, <1>5, <1>6, <1>7, <1>8 DEF CallStep, StartCheck, StartReset,
     AlsaCheck, StartClear, StartRun, StartSpawn, StopCheck, StopFlag, StopJoin, AlsaStopCheck,
     StopDone

LEMMA SessionStep ==
  ASSUME TypeOK, PipelineInv, ~overlapped, [Next]_vars
  PROVE  [Session!Next]_(Session!vars)
<1> SUFFICES SessionAction
  BY SessionActionMaps
<1>1. ASSUME NEW c \in Caller, CallStep(c) PROVE SessionAction
  BY <1>1, CallSession DEF PipelineInv
<1>2. CASE UNCHANGED alsa
  BY <1>2 DEF SessionAction, alsa, Using
<1>3. CASE CaptureExits
  <2>1. /\ open /\ alsa_should_stop /\ capture = "alive" /\ capture' = "dead"
        /\ UNCHANGED <<open, playback, alsa_should_stop>>
    BY <1>3 DEF CaptureExits, PipelineInv, HandleInv
  <2>2. "capture" \in Using /\ Using' = Using \ {"capture"}
    BY <2>1 DEF Using, AudioThread
  <2> QED BY <2>1, <2>2 DEF SessionAction, AudioThread
<1>4. CASE PlaybackExits
  <2>1. /\ open /\ alsa_should_stop /\ playback = "alive" /\ playback' = "dead"
        /\ UNCHANGED <<open, capture, alsa_should_stop>>
    BY <1>4 DEF PlaybackExits, PipelineInv, HandleInv
  <2>2. "playback" \in Using /\ Using' = Using \ {"playback"}
    BY <2>1 DEF Using, AudioThread
  <2> QED BY <2>1, <2>2 DEF SessionAction, AudioThread
<1>5. CASE Main /\ ~CallStep("main")
  BY <1>2, <1>5 DEF Main, MainConfigure, MainIpcStart, MainStart, MainStarted, MainLoopEnds,
     MainIpcStop, MainIpcJoin, MainStop, MainDestroyIpc, MainDestroyPipeline, MainDestroyAlsa,
     MainDestroyThreads
<1>6. CASE Listener /\ ~CallStep("ipc")
  BY <1>2, <1>6 DEF Listener, ListenerSocket, ListenerCheck, ListenerTimeout, ListenerReply
<1>7. CASE Client \/ ProcessingExits \/ ShutdownRequested
  BY <1>2, <1>7 DEF Client, ClientConnects, ClientSends, ClientHangsUp, ProcessingExits,
     ShutdownRequested
<1>8. CASE UNCHANGED vars
  BY <1>2, <1>8 DEF vars, alsa
<1> QED
  BY <1>1, <1>3, <1>4, <1>5, <1>6, <1>7, <1>8 DEF Next, Workers, Caller

\* AlsaBackend implements the session of handles and threads, over any number of
\* starts and stops by main() and by clients, up to a step that follows calls that
\* overlapped.
THEOREM BackendKeepsSession == Spec => KeepsSession
<1>1. Init => Session!Init
  BY DEF Init, Session!Init
<1>2. TypeOK /\ PipelineInv /\ [Next]_vars => [overlapped \/ Session!Next]_(Session!vars)
  BY SessionStep
<1> QED BY <1>1, <1>2, LifeCorrect, PTL DEF Spec, KeepsSession
==============================================================================
