---------------------------- MODULE DaemonProofs ----------------------------
(***************************************************************************)
(* The scheduler inside the daemon keeps what TaskSchedProofs proves of it *)
(* alone, and the daemon takes its parts down in an order that leaves      *)
(* nobody to log after the log is closed.                                  *)
(***************************************************************************)
EXTENDS Daemon, TaskSchedProofs

-----------------------------------------------------------------------------
(***************************************************************************)
(* Every step of the daemon is a step of the scheduler, or leaves it alone *)
(***************************************************************************)

\* Whatever a daemon step does, the scheduler sees one of its own steps or none.
LEMMA DaemonStepRefines == [DaemonNext]_daemonVars => [Next]_vars
  <1> SUFFICES ASSUME [DaemonNext]_daemonVars PROVE [Next]_vars
    OBVIOUS
  <1>1. CASE UNCHANGED daemonVars
    BY <1>1 DEF daemonVars
  <1>2. CASE MainCode
    <2>1. ASSUME NEW ok \in BOOLEAN,
                 LoadConfig(ok) \/ InitLog(ok) \/ Fork(ok) \/ MeasureInit(ok) \/ TasksInit(ok)
          PROVE  UNCHANGED vars
      BY <2>1 DEF LoadConfig, InitLog, Fork, MeasureInit, TasksInit
    <2>2. CASE InstallHandlers \/ FinalizeMeasure \/ Farewell \/ RemoveHandlers
                 \/ CloseLog \/ Exit
      BY <2>2 DEF InstallHandlers, FinalizeMeasure, Farewell, RemoveHandlers, CloseLog, Exit
    <2>3. CASE StartScheduler \/ StopScheduler \/ JoinScheduler
      BY <2>3 DEF StartScheduler, StopScheduler, JoinScheduler, Next, MainStep
    <2> QED
      BY <1>2, <2>1, <2>2, <2>3 DEF MainCode
  <1>3. CASE LoopLogs \/ LoopInterrupted \/ LoopGivesUp
    BY <1>3 DEF LoopLogs, LoopInterrupted, LoopGivesUp, Next
  <1>4. CASE SchedulerStep
    <2>1. ThreadStep
      BY <1>4 DEF SchedulerStep, ThreadStep
    <2> QED
      BY <2>1 DEF Next
  <1>5. CASE \E w \in Threads : LogGoesOn(w) \/ HandlerStep(w)
    BY <1>5 DEF LogGoesOn, HandlerStep
  <1>6. CASE \E sig \in Signals : Kill(sig) \/ \E w \in Threads : Handle(sig, w)
    BY <1>6 DEF Kill, Handle
  <1>7. CASE TimePasses
    BY <1>7 DEF TimePasses, Next
  <1> QED
    BY <1>1, <1>2, <1>3, <1>4, <1>5, <1>6, <1>7 DEF DaemonNext

\* In the daemon too the list of tasks is freed after its last use, no task is
\* overdue when the scheduler sleeps, and tasks run all their commands or halt.
THEOREM DaemonKeepsScheduler ==
    DaemonSpec => [](TypeOK /\ FreedAfterUse /\ NoneOverdue /\ RunsAllOrHalts)
  <1> DEFINE Inv == TypeOK /\ AtWork /\ Handover /\ Scanned /\ Outcomes
  <1>1. DaemonInit => Inv
    BY InitType DEF DaemonInit, Init, Handover, Scanned, Outcomes, Running, Tasks
  <1>2. Inv /\ [DaemonNext]_daemonVars => Inv'
    BY DaemonStepRefines, NextType, NextHandover, NextScanned, NextOutcomes
  <1>3. Inv => FreedAfterUse /\ NoneOverdue /\ RunsAllOrHalts
    BY DEF Handover, FreedAfterUse, Scanned, Served, NoneOverdue,
           Outcomes, Running, Outcome, RunsAllOrHalts
  <1> QED
    BY <1>1, <1>2, <1>3, PTL DEF DaemonSpec

-----------------------------------------------------------------------------
(***************************************************************************)
(* Type correctness                                                        *)
(***************************************************************************)

\* What meterd_log does first changes only where its thread is.
LEMMA LogsFrame ==
    ASSUME NEW w \in Threads, NEW level, DaemonTypeOK,
           Logs(w, level) \/ UNCHANGED logging
    PROVE  /\ logging' \in [Threads -> {"no", "localtime", "write", "syslog"}]
           /\ \A v \in Threads : v # w => logging'[v] = logging[v]
  BY DEF Logs, DaemonTypeOK

\* The main thread's code changes nothing of the scheduler thread's messages or of
\* a handler, and goes on, if at all, to a phase that there is.
LEMMA MainFrame ==
    ASSUME MainCode, DaemonTypeOK
    PROVE  /\ logging' \in [Threads -> {"no", "localtime", "write", "syslog"}]
           /\ logging'["sched"] = logging["sched"]
           /\ UNCHANGED <<run_measurement, handler, asked>>
           /\ handlers' = handlers \/ handlers' \in BOOLEAN
           /\ log_file' = log_file \/ log_file' \in {"open", "closed"}
           /\ \/ phase' = phase
              \/ phase' \in {"log", "fork", "install", "measure", "tasks", "run",
                             "farewell", "remove", "close", "exit", "ended"}
  <1> USE DEF At, signalVars, logVars
  <1>1. (\E level \in {ERROR, INFO} : Logs("main", level)) \/ UNCHANGED logging
    BY DEF MainCode, LoadConfig, InitLog, Fork, MeasureInit, TasksInit, InstallHandlers,
           StartScheduler, StopScheduler, JoinScheduler, FinalizeMeasure, Farewell,
           RemoveHandlers, CloseLog, Exit
  <1>2. /\ logging' \in [Threads -> {"no", "localtime", "write", "syslog"}]
        /\ logging'["sched"] = logging["sched"]
    BY <1>1, LogsFrame DEF Threads
  <1>3. /\ UNCHANGED <<run_measurement, handler, asked>>
        /\ handlers' = handlers \/ handlers' \in BOOLEAN
        /\ log_file' = log_file \/ log_file' \in {"open", "closed"}
    BY DEF MainCode, LoadConfig, InitLog, Fork, MeasureInit, TasksInit, InstallHandlers,
           StartScheduler, StopScheduler, JoinScheduler, FinalizeMeasure, Farewell,
           RemoveHandlers, CloseLog, Exit
  <1>4. \/ phase' = phase
        \/ phase' \in {"log", "fork", "install", "measure", "tasks", "run",
                       "farewell", "remove", "close", "exit", "ended"}
    BY DEF MainCode, LoadConfig, InitLog, Fork, MeasureInit, TasksInit, InstallHandlers,
           StartScheduler, StopScheduler, JoinScheduler, FinalizeMeasure, Farewell,
           RemoveHandlers, CloseLog, Exit
  <1> QED
    BY <1>2, <1>3, <1>4

\* Whatever is logged and however many signals are handled.
LEMMA DaemonNextType == DaemonTypeOK /\ [DaemonNext]_daemonVars => DaemonTypeOK'
  <1> SUFFICES ASSUME DaemonTypeOK, [DaemonNext]_daemonVars PROVE DaemonTypeOK'
    OBVIOUS
  <1> USE DEF signalVars, logVars
  <1>1. CASE MainCode
    BY <1>1, MainFrame DEF DaemonTypeOK
  <1>2. CASE SchedulerStep \/ LoopLogs \/ LoopInterrupted \/ LoopGivesUp \/ TimePasses
    <2>1. \E w \in Threads : (\E level \in {ERROR, INFO} : Logs(w, level))
                             \/ UNCHANGED logging
      BY <1>2 DEF SchedulerStep, LoopLogs, LoopInterrupted, LoopGivesUp, TimePasses, Threads
    <2>2. logging' \in [Threads -> {"no", "localtime", "write", "syslog"}]
      BY <2>1, LogsFrame
    <2>3. UNCHANGED <<phase, handlers, run_measurement, handler, asked, log_file>>
      BY <1>2 DEF SchedulerStep, LoopLogs, LoopInterrupted, LoopGivesUp, TimePasses
    <2> QED
      BY <2>2, <2>3 DEF DaemonTypeOK
  <1>3. ASSUME NEW w \in Threads, LogGoesOn(w) PROVE DaemonTypeOK'
    BY <1>3 DEF LogGoesOn, DaemonTypeOK
  <1>4. ASSUME NEW w \in Threads, HandlerStep(w) PROVE DaemonTypeOK'
    BY <1>4 DEF HandlerStep, AfterIt, DaemonTypeOK
  <1>5. ASSUME NEW sig \in Signals, Kill(sig) PROVE DaemonTypeOK'
    BY <1>5 DEF Kill, DaemonTypeOK
  <1>6. ASSUME NEW sig \in Signals, NEW w \in Threads, Handle(sig, w) PROVE DaemonTypeOK'
    BY <1>6, DaemonAssumption DEF Handle, DaemonTypeOK
  <1>7. CASE UNCHANGED daemonVars
    BY <1>7 DEF daemonVars, DaemonTypeOK
  <1> QED
    BY <1>1, <1>2, <1>3, <1>4, <1>5, <1>6, <1>7 DEF DaemonNext

-----------------------------------------------------------------------------
(***************************************************************************)
(* The order in which the daemon is taken down                             *)
(***************************************************************************)

\* Outside "run" the scheduler is not started yet or stopped, and only there do
\* signals take their default action; the scheduler thread logs and handles
\* signals only between its start and its join; and by the time the log is
\* closed neither thread is in it or in a handler.
Takedown ==
    /\ phase \in {"load", "log", "fork", "install", "measure", "tasks"} => main = "start"
    /\ phase # "run" => main \in {"start", "done"}
    /\ ~handlers => phase \notin {"measure", "tasks", "run"}
    /\ thread = "absent" \/ main \in {"finalize", "done"} => Quiet("sched")
    /\ handlers => phase \notin {"close", "exit"}
    /\ phase \in {"close", "exit"} => \A w \in Threads : handler[w] = "no"
    /\ log_file = "closed" => /\ phase \in {"exit", "ended", "killed"}
                              /\ \A w \in Threads : Quiet(w)

\* The main thread takes the daemon down in the order Takedown describes.
LEMMA MainTakedown ==
    ASSUME DaemonTypeOK, Takedown, Handover, MainCode
    PROVE  Takedown'
  <1>1. /\ logging'["sched"] = logging["sched"] /\ handler' = handler
        /\ Quiet("sched")' = Quiet("sched")
    BY MainFrame DEF Quiet
  <1>2. phase \notin {"ended", "killed"} /\ Quiet("main")
    BY DEF MainCode, LoadConfig, InitLog, Fork, MeasureInit, TasksInit, InstallHandlers,
           StartScheduler, StopScheduler, JoinScheduler, FinalizeMeasure, Farewell,
           RemoveHandlers, CloseLog, Exit, At, Runs, Over
  <1>3. main \in {"start", "done"} => Quiet("sched")
    BY DEF Handover, Takedown
  <1> USE DEF At, signalVars, logVars, vars
  <1>4. ASSUME NEW ok \in BOOLEAN,
               LoadConfig(ok) \/ InitLog(ok) \/ Fork(ok) \/ MeasureInit(ok) \/ TasksInit(ok)
        PROVE  Takedown'
    <2>1. /\ UNCHANGED <<main, thread>> /\ main = "start"
          /\ log_file # "closed" /\ log_file' \in {log_file, "open"} /\ handlers' = handlers
      BY <1>4 DEF LoadConfig, InitLog, Fork, MeasureInit, TasksInit, Takedown
    <2>2. /\ phase' \in {"log", "fork", "install", "tasks", "run", "farewell", "ended"}
          /\ phase' \in {"tasks", "run"} => phase \in {"measure", "tasks"}
      BY <1>4 DEF LoadConfig, InitLog, Fork, MeasureInit, TasksInit
    <2>3. phase \in {"measure", "tasks"} => handlers
      BY DEF Takedown
    <2> QED
      BY <1>1, <2>1, <2>2, <2>3 DEF Takedown
  <1>5. CASE InstallHandlers
    BY <1>5, <1>1 DEF InstallHandlers, Takedown
  <1>6. CASE StartScheduler
    <2>1. phase' = phase /\ phase = "run" /\ UNCHANGED <<handlers, log_file>>
      BY <1>6 DEF StartScheduler
    <2>2. main' = "loop" /\ thread = "absent"
      BY <1>6 DEF StartScheduler, StartNoTasks, StartThread, StartFails, Handover
    <2> QED
      BY <1>1, <2>1, <2>2 DEF Takedown
  <1>7. CASE StopScheduler
    <2>1. /\ phase = "run" /\ thread' = thread
          /\ UNCHANGED <<phase, handlers, log_file>>
      BY <1>7 DEF StopScheduler, Stop, Finalize
    <2>2. main' \in {"finalize", "done"} => main = "finalize" \/ thread = "absent"
      BY <1>7 DEF StopScheduler, Stop, Finalize, Handover
    <2> QED
      BY <1>1, <2>1, <2>2 DEF Takedown
  <1>8. CASE JoinScheduler
    BY <1>8, <1>1 DEF JoinScheduler, Join, Takedown
  <1>9. CASE FinalizeMeasure \/ Farewell
    <2>1. /\ UNCHANGED <<main, thread, handlers, log_file>> /\ main \in {"start", "done"}
          /\ phase' \in {"farewell", "remove"} /\ log_file # "closed"
      BY <1>9 DEF FinalizeMeasure, Farewell, Takedown
    <2> QED
      BY <1>1, <2>1 DEF Takedown
  <1>10. CASE RemoveHandlers
    <2>1. /\ UNCHANGED <<main, thread, log_file>> /\ main \in {"start", "done"}
          /\ phase' = "close" /\ ~handlers' /\ log_file # "closed"
      BY <1>10 DEF RemoveHandlers, Takedown
    <2>2. \A w \in Threads : handler[w] = "no"
      BY <2>1, <1>2, <1>3 DEF Quiet, Threads
    <2> QED
      BY <1>1, <2>1, <2>2 DEF Takedown
  <1>11. CASE CloseLog \/ Exit
    <2>1. /\ UNCHANGED <<main, thread, handlers, logging>> /\ main \in {"start", "done"}
          /\ phase' \in {"exit", "ended"} /\ phase \in {"close", "exit"}
      BY <1>11 DEF CloseLog, Exit, Takedown
    <2>2. \A w \in Threads : Quiet(w) /\ Quiet(w)'
      BY <2>1, <1>1, <1>2, <1>3 DEF Quiet, Threads
    <2> QED
      BY <1>1, <2>1, <2>2 DEF Takedown
  <1> QED
    BY <1>4, <1>5, <1>6, <1>7, <1>8, <1>9, <1>10, <1>11 DEF MainCode

\* The scheduler steps only while there is a thread, so that main is neither
\* before its start nor past its join.
LEMMA SchedulerTakedown ==
    ASSUME Takedown, Handover, SchedulerStep
    PROVE  Takedown'
  <1>1. ThreadStep
    BY DEF SchedulerStep, ThreadStep
  <1>2. thread \notin {"absent", "left"} /\ thread' # "absent" /\ main' = main
    BY <1>1, ThreadStepFrame
  <1>3. main \notin {"start", "finalize", "done"}
    BY <1>2 DEF Handover
  <1>4. UNCHANGED <<phase, handlers, handler, log_file>>
    BY DEF SchedulerStep, signalVars
  <1>5. phase = "run" /\ log_file # "closed"
    BY <1>3 DEF Takedown
  <1> QED
    BY <1>2, <1>3, <1>4, <1>5 DEF Takedown

\* No step of the daemon leaves that order.
LEMMA NextTakedown ==
    ASSUME DaemonTypeOK, Takedown, Handover, [DaemonNext]_daemonVars
    PROVE  Takedown'
  <1> USE DEF signalVars, logVars, vars
  <1>1. CASE MainCode
    BY <1>1, MainTakedown
  <1>2. CASE SchedulerStep
    BY <1>2, SchedulerTakedown
  <1>3. CASE LoopLogs \/ LoopInterrupted \/ LoopGivesUp
    <2>1. /\ UNCHANGED <<thread, phase, handlers, handler, log_file>>
          /\ phase = "run" /\ main = "loop" /\ main' \in {"loop", "stop"}
      BY <1>3 DEF LoopLogs, LoopInterrupted, LoopGivesUp, LoopReturns, At
    <2>2. logging'["sched"] = logging["sched"]
      <3>1. Logs("main", ERROR) \/ UNCHANGED logging
        BY <1>3 DEF LoopLogs, LoopInterrupted, LoopGivesUp
      <3> QED
        BY <3>1, LogsFrame DEF Threads
    <2> QED
      BY <2>1, <2>2 DEF Takedown, Quiet
  <1>4. ASSUME NEW w \in Threads, LogGoesOn(w) PROVE Takedown'
    <2>1. /\ UNCHANGED <<main, thread, phase, handlers, handler, log_file>>
          /\ logging[w] # "no" /\ phase \notin {"ended", "killed"}
          /\ \A v \in Threads : logging[v] = "no" => logging'[v] = "no"
      BY <1>4 DEF LogGoesOn, DaemonTypeOK, Over
    <2>2. \A v \in Threads : Quiet(v) => Quiet(v)'
      BY <2>1 DEF Quiet
    <2> QED
      BY <2>1, <2>2 DEF Takedown, Threads
  <1>5. ASSUME NEW w \in Threads, HandlerStep(w) PROVE Takedown'
    <2>1. /\ UNCHANGED <<main, thread, phase, handlers, logging, log_file>>
          /\ handler[w] # "no"
          /\ \A v \in Threads : handler[v] = "no" => handler'[v] = "no"
      BY <1>5 DEF HandlerStep, AfterIt, DaemonTypeOK
    <2>2. \A v \in Threads : Quiet(v) => Quiet(v)'
      BY <2>1 DEF Quiet
    <2> QED
      BY <2>1, <2>2 DEF Takedown, Threads
  <1>6. ASSUME NEW sig \in Signals, Kill(sig) PROVE Takedown'
    <2>1. /\ UNCHANGED <<main, thread, handlers, logging, handler, log_file>>
          /\ phase' = "killed" /\ phase # "run"
      BY <1>6 DEF Kill, Takedown
    <2> QED
      BY <2>1 DEF Takedown, Quiet
  <1>7. ASSUME NEW sig \in Signals, NEW w \in Threads, Handle(sig, w) PROVE Takedown'
    <2>1. /\ UNCHANGED <<main, thread, phase, handlers, logging, log_file>>
          /\ handlers /\ phase \notin {"ended", "killed"}
          /\ w = "main" \/ thread \notin {"absent", "left"}
          /\ \A v \in Threads : v # w => handler'[v] = handler[v]
      BY <1>7 DEF Handle, Over, Exists, DaemonTypeOK
    <2>2. log_file # "closed" /\ phase \notin {"close", "exit"}
      BY <2>1 DEF Takedown
    <2>3. thread = "absent" \/ main \in {"finalize", "done"} => w # "sched"
      BY <2>1 DEF Handover
    <2> QED
      BY <2>1, <2>2, <2>3 DEF Takedown, Quiet, Threads
  <1>8. CASE TimePasses \/ UNCHANGED daemonVars
    <2>1. UNCHANGED <<main, thread, phase, handlers, handler, logging, log_file>>
      BY <1>8 DEF TimePasses, Tick, daemonVars
    <2> QED
      BY <2>1 DEF Takedown, Quiet
  <1> QED
    BY <1>1, <1>2, <1>3, <1>4, <1>5, <1>6, <1>7, <1>8 DEF DaemonNext

\* All three hold together, of every daemon.
DaemonInv == DaemonTypeOK /\ Handover /\ Takedown

LEMMA DaemonInvHolds == DaemonSpec => []DaemonInv
  <1>1. DaemonInit => DaemonInv
    <2> SUFFICES ASSUME DaemonInit PROVE DaemonInv
      OBVIOUS
    <2>1. phase = "load" /\ handlers = FALSE /\ log_file = "unset"
          /\ main = "start" /\ thread = "absent"
      BY Zenon DEF DaemonInit, Init
    <2>2. run_measurement \in BOOLEAN
      BY Zenon DEF DaemonInit
    <2>3. /\ logging = [w \in Threads |-> "no"] /\ handler = [w \in Threads |-> "no"]
          /\ asked \in 0 .. MaxSignals
      BY DaemonAssumption DEF DaemonInit
    <2>4. Handover
      BY DEF DaemonInit, Init, Handover
    <2>5. DaemonTypeOK
      BY <2>1, <2>2, <2>3 DEF DaemonTypeOK
    <2>6. Takedown
      BY <2>1, <2>3 DEF Takedown, Quiet, Threads
    <2> QED
      BY <2>4, <2>5, <2>6 DEF DaemonInv
  <1>2. DaemonInv /\ [DaemonNext]_daemonVars => DaemonInv'
    BY DaemonStepRefines, DaemonNextType, NextHandover, NextTakedown DEF DaemonInv
  <1> QED
    BY <1>1, <1>2, PTL DEF DaemonSpec

\* Nobody logs after meterd_uninit_log, for any tasks, any log level, any stop
\* signals and any interleaving of the two threads and the handlers.
THEOREM NothingLoggedAfterClose == DaemonSpec => []NoLogAfterClose
  <1>1. DaemonInv => NoLogAfterClose
    BY DEF DaemonInv, Takedown, NoLogAfterClose
  <1> QED
    BY <1>1, DaemonInvHolds, PTL

\* A stop signal kills only a daemon whose loop and scheduler have not started or
\* have ended: handlers are installed before the one and removed after the other.
THEOREM KillsOnlyAtRest == DaemonSpec => []KilledAtRest
  <1>1. DaemonInv => KilledAtRest
    BY DEF DaemonInv, Takedown, Handover, KilledAtRest
  <1> QED
    BY <1>1, DaemonInvHolds, PTL
=============================================================================
