------------------------------- MODULE Daemon -------------------------------
(***************************************************************************)
(* The daemon as a whole (main of src/meterd_main.c): it loads its         *)
(* configuration, opens the log, forks, installs signal handlers, starts   *)
(* the measurement loop beside the scheduler thread of TaskSched, and      *)
(* takes everything down again.  A stop signal may arrive at any moment    *)
(* and its handler runs in either thread, wherever that thread is: also    *)
(* inside meterd_log (src/meterd_log.c), which takes no lock of its own    *)
(* but calls localtime and then syslog.  Each holds a lock of the C        *)
(* library meanwhile, which a handler cannot enter again; between the two  *)
(* the message is written to the file.                                     *)
(*                                                                         *)
(* Each action of TaskSched is taken together with what it logs; one       *)
(* message stands for those of one step, and a log file is configured.  Of *)
(* the measurement loop only its end is seen here, see MeasureLoop.        *)
(***************************************************************************)
EXTENDS TaskSched

CONSTANTS
    LogLevel,       \* logging.loglevel
    Signals,        \* the stop signals that may arrive
    MaxSignals      \* BOUND on how many of them are handled

ERROR == 1
INFO == 3

ASSUME DaemonAssumption ==
    /\ LogLevel \in 0 .. 4
    /\ Signals \subseteq {"SIGTERM", "SIGINT", "SIGQUIT"}
    /\ MaxSignals \in Nat

VARIABLES
    phase,          \* how far main is
    handlers,       \* the handlers are installed
    run_measurement,
    log_file,       \* "unset", "open" or "closed" (the pointer stays)
    logging,        \* where each thread is in meterd_log
    handler,        \* and in the handler that interrupted it
    asked           \* history: how many stop signals were handled

signalVars == <<handlers, run_measurement, handler, asked>>
logVars == <<log_file, logging>>
daemonVars == <<vars, phase, signalVars, logVars>>

Threads == {"main", "sched"}

(***************************************************************************)
(* phase  "load", "log", "fork", "install", "measure", "tasks", "run" (the *)
(*        phases of main in TaskSched), "farewell", "remove", "close",     *)
(*        "exit", "ended", "killed"                                        *)
(* logging  "no", "localtime", "write" (between the two), "syslog"         *)
(* handler  "no", or what it does next: "localtime", "syslog" (in its      *)
(*        message), "interrupt" (meterd_measure_interrupt)                 *)
(***************************************************************************)
DaemonInit ==
    /\ Init
    /\ phase = "load"
    /\ handlers = FALSE
    /\ run_measurement = TRUE
    /\ log_file = "unset"
    /\ logging = [w \in Threads |-> "no"]
    /\ handler = [w \in Threads |-> "no"]
    /\ asked = 0

Over == phase \in {"ended", "killed"}

\* the thread executes its own code
Quiet(w) == logging[w] = "no" /\ handler[w] = "no"
Runs(w) == ~Over /\ Quiet(w)

\* nobody is inside localtime, or syslog
Free(lock) == \A w \in Threads : logging[w] # lock

\* meterd_log: nothing above the level, otherwise localtime is waited for
Logs(w, level) ==
    IF level <= LogLevel
    THEN Free("localtime") /\ logging' = [logging EXCEPT ![w] = "localtime"]
    ELSE UNCHANGED logging

\* out of localtime, into syslog, and out of that
LogGoesOn(w) ==
    /\ ~Over /\ handler[w] = "no"
    /\ \/ logging[w] = "localtime" /\ logging' = [logging EXCEPT ![w] = "write"]
       \/ /\ logging[w] = "write" /\ Free("syslog")
          /\ logging' = [logging EXCEPT ![w] = "syslog"]
       \/ logging[w] = "syslog" /\ logging' = [logging EXCEPT ![w] = "no"]
    /\ UNCHANGED <<vars, phase, signalVars, log_file>>

-----------------------------------------------------------------------------
(***************************************************************************)
(* main before and after the measurement loop                              *)
(***************************************************************************)
At(p) == phase = p /\ Runs("main")

\* a failure ends the program before there is a log
LoadConfig(ok) ==
    /\ At("load")
    /\ phase' = IF ok THEN "log" ELSE "ended"
    /\ UNCHANGED <<vars, signalVars, logVars>>

InitLog(ok) ==
    /\ At("log")
    /\ phase' = IF ok THEN "fork" ELSE "ended"
    /\ log_file' = IF ok THEN "open" ELSE log_file
    /\ UNCHANGED <<vars, signalVars, logging>>

\* The child goes on, or the process itself when it is not to fork.  When fork
\* fails only the parent is there, which writes -1 to the pid file and ends.
Fork(ok) ==
    /\ At("fork")
    /\ IF ok THEN phase' = "install" /\ Logs("main", INFO)
             ELSE phase' = "ended" /\ UNCHANGED logging
    /\ UNCHANGED <<vars, signalVars, log_file>>

InstallHandlers ==
    /\ At("install")
    /\ handlers' = TRUE
    /\ phase' = "measure"
    /\ UNCHANGED <<vars, run_measurement, handler, asked, logVars>>

\* mutant: whoever initialises the loop also sets its flag
MeasureInitSetsFlag(ok) ==
    /\ At("measure")
    /\ run_measurement' = TRUE
    /\ IF ok THEN phase' = "tasks" /\ Logs("main", INFO)
             ELSE phase' = "farewell" /\ Logs("main", ERROR)
    /\ UNCHANGED <<vars, handlers, handler, asked, log_file>>

\* Databases, counters and the serial line; run_measurement keeps its value
MeasureInit(ok) ==
    /\ At("measure")
    /\ IF ok THEN phase' = "tasks" /\ Logs("main", INFO)
             ELSE phase' = "farewell" /\ Logs("main", ERROR)
    /\ UNCHANGED <<vars, signalVars, log_file>>

\* a failure leaves the serial line and the databases open
TasksInit(ok) ==
    /\ At("tasks")
    /\ IF ok THEN phase' = "run" /\ Logs("main", INFO)
             ELSE phase' = "farewell" /\ Logs("main", ERROR)
    /\ UNCHANGED <<vars, signalVars, log_file>>

FinalizeMeasure ==
    /\ At("run") /\ main = "done"
    /\ phase' = "farewell"
    /\ Logs("main", INFO)
    /\ UNCHANGED <<vars, signalVars, log_file>>

\* "Stopping the Smart Meter Monitoring Daemon"; the configuration is unloaded
Farewell ==
    /\ At("farewell")
    /\ phase' = "remove"
    /\ Logs("main", INFO)
    /\ UNCHANGED <<vars, signalVars, log_file>>

RemoveHandlers ==
    /\ At("remove")
    /\ handlers' = FALSE
    /\ phase' = "close"
    /\ UNCHANGED <<vars, run_measurement, handler, asked, logVars>>

CloseLog ==
    /\ At("close")
    /\ log_file' = "closed"
    /\ phase' = "exit"
    /\ UNCHANGED <<vars, signalVars, logging>>

\* main returns, and whatever thread there is goes with it
Exit ==
    /\ At("exit")
    /\ phase' = "ended"
    /\ UNCHANGED <<vars, signalVars, logVars>>

-----------------------------------------------------------------------------
(***************************************************************************)
(* The threads of TaskSched and what they log                              *)
(***************************************************************************)
StartScheduler ==
    /\ At("run")
    /\ \/ (StartNoTasks \/ StartThread) /\ Logs("main", INFO)
       \/ StartFails /\ Logs("main", ERROR)
    /\ UNCHANGED <<phase, signalVars, log_file>>

\* anything that goes wrong in the measurement loop, a failed INSERT say; also
\* with the telegram in hand when run_measurement is cleared
LoopLogs ==
    /\ At("run") /\ main = "loop"
    /\ ERROR <= LogLevel
    /\ Logs("main", ERROR)
    /\ UNCHANGED <<vars, phase, signalVars, log_file>>

LoopInterrupted ==
    /\ At("run") /\ ~run_measurement
    /\ LoopReturns
    /\ UNCHANGED <<phase, signalVars, logVars>>

\* "Communication error, giving up"
LoopGivesUp ==
    /\ At("run")
    /\ LoopReturns
    /\ Logs("main", ERROR)
    /\ UNCHANGED <<phase, signalVars, log_file>>

\* mutant: the log is closed before the scheduler is stopped
StopSchedulerLast ==
    /\ At("run")
    /\ Stop \/ Finalize
    /\ log_file' = "closed"
    /\ UNCHANGED <<phase, signalVars, logging>>

\* mutant: the handlers go before the scheduler is stopped
StopSchedulerUnhandled ==
    /\ At("run")
    /\ Stop \/ Finalize
    /\ handlers' = FALSE
    /\ UNCHANGED <<phase, run_measurement, handler, asked, logVars>>

StopScheduler ==
    /\ At("run")
    /\ Stop \/ Finalize
    /\ UNCHANGED <<phase, signalVars, logVars>>

\* pthread_join also waits for the message of a thread that is leaving
JoinScheduler ==
    /\ At("run")
    /\ Join
    /\ Quiet("sched")
    /\ UNCHANGED <<phase, signalVars, logVars>>

\* its first scan stands for entering the thread, which is logged too
SchedulerStep ==
    /\ Runs("sched")
    /\ \/ Leave /\ Logs("sched", INFO)
       \/ CommandEnds(1) /\ Logs("sched", ERROR)
       \/ /\ BeginScan
          /\ IF now = 0 THEN Logs("sched", INFO) ELSE UNCHANGED logging
       \/ /\ PassOver \/ BeginTask \/ EndScan \/ Wake \/ CommandEnds(0)
          /\ UNCHANGED logging
    /\ UNCHANGED <<phase, signalVars, log_file>>

\* time counts from when there are tasks
TimePasses ==
    /\ phase = "run"
    /\ Tick
    /\ UNCHANGED <<phase, signalVars, logVars>>

-----------------------------------------------------------------------------
(***************************************************************************)
(* Signals                                                                 *)
(***************************************************************************)
Exists(w) == w = "main" \/ thread \notin {"absent", "left"}

\* system() ignores these in the whole process while a command runs
Ignored(sig) == sig \in {"SIGINT", "SIGQUIT"} /\ thread = "command"

\* The handler interrupts the thread where it is, and logs if the level says so.
Handle(sig, w) ==
    /\ ~Over /\ handlers /\ ~Ignored(sig)
    /\ Exists(w) /\ handler[w] = "no"
    /\ asked < MaxSignals
    /\ asked' = asked + 1
    /\ handler' = [handler EXCEPT ![w] = IF INFO <= LogLevel THEN "localtime" ELSE "interrupt"]
    /\ UNCHANGED <<vars, phase, handlers, run_measurement, logVars>>

AfterIt == [localtime |-> "syslog", syslog |-> "interrupt", interrupt |-> "no"]

\* Its message goes through localtime and syslog like any other; then it clears
\* run_measurement and returns.
HandlerStep(w) ==
    /\ ~Over /\ handler[w] # "no"
    /\ handler[w] # "interrupt" => Free(handler[w])
    /\ handler' = [handler EXCEPT ![w] = AfterIt[@]]
    /\ run_measurement' = (run_measurement /\ handler[w] # "interrupt")
    /\ UNCHANGED <<vars, phase, handlers, asked, logVars>>

\* the default action, before the handlers are installed and after their removal
Kill(sig) ==
    /\ ~Over /\ ~handlers
    /\ phase' = "killed"
    /\ UNCHANGED <<vars, signalVars, logVars>>

-----------------------------------------------------------------------------
MainCode ==
    \/ \E ok \in BOOLEAN :
          LoadConfig(ok) \/ InitLog(ok) \/ Fork(ok) \/ MeasureInit(ok) \/ TasksInit(ok)
    \/ InstallHandlers
    \/ StartScheduler \/ StopScheduler \/ JoinScheduler
    \/ FinalizeMeasure \/ Farewell \/ RemoveHandlers \/ CloseLog \/ Exit

DaemonNext ==
    \/ MainCode
    \/ LoopLogs \/ LoopInterrupted \/ LoopGivesUp
    \/ SchedulerStep
    \/ \E w \in Threads : LogGoesOn(w) \/ HandlerStep(w)
    \/ \E sig \in Signals : Kill(sig) \/ \E w \in Threads : Handle(sig, w)
    \/ TimePasses

(***************************************************************************)
(* Both threads run, commands end, and neither a handler nor meterd_log    *)
(* stays where it is; who waits for a lock that is free again and again    *)
(* gets it.  An interrupted loop returns because the meter sends telegrams *)
(* (MeasureLoop!StopsWhenAsked), and does so however often it could log    *)
(* instead: it hands over no more than the telegram it is waiting for      *)
(* (MeasureLoop!AtMostOneLate).                                            *)
(***************************************************************************)
DaemonSpec ==
    /\ DaemonInit /\ [][DaemonNext]_daemonVars
    /\ WF_daemonVars(MainCode) /\ SF_daemonVars(LoopInterrupted)
    /\ WF_daemonVars(SchedulerStep)
    /\ \A w \in Threads : SF_daemonVars(LogGoesOn(w)) /\ SF_daemonVars(HandlerStep(w))

-----------------------------------------------------------------------------
(***************************************************************************)
(* Properties                                                              *)
(***************************************************************************)

\* The type of every variable of this module.
DaemonTypeOK ==
    /\ phase \in {"load", "log", "fork", "install", "measure", "tasks", "run",
                  "farewell", "remove", "close", "exit", "ended", "killed"}
    /\ handlers \in BOOLEAN /\ run_measurement \in BOOLEAN
    /\ log_file \in {"unset", "open", "closed"}
    /\ logging \in [Threads -> {"no", "localtime", "write", "syslog"}]
    /\ handler \in [Threads -> {"no", "localtime", "syslog", "interrupt"}]
    /\ asked \in 0 .. MaxSignals

\* Nobody is logging once meterd_uninit_log has closed the file (log_file is not
\* reset, meterd_log would write to it), wherever the scheduler thread and the
\* handlers were when main began to stop.
NoLogAfterClose == log_file = "closed" => \A w \in Threads : Quiet(w)

\* A stop signal takes its default action only where nothing is cut short: not
\* while the measurement loop may be in an INSERT, nor while the scheduler thread
\* is there, with a command of its running, however impatiently signals follow
\* one another.
KilledAtRest ==
    phase = "killed" => main \in {"start", "done"} /\ thread \in {"absent", "left"}

\* "Caught SIGTERM, exiting": once a stop signal was handled the daemon ends, also
\* when it came while the daemon was starting, or in the middle of a command (as
\* long as there is a thread to join).
StopHeeded == asked > 0 ~> Over \/ main = "undefined"
=============================================================================
