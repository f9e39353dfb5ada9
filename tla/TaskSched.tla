----------------------------- MODULE TaskSched -----------------------------
(***************************************************************************)
(* The task scheduler (src/tasksched.c): a thread that once a second looks *)
(* for tasks whose interval has passed and runs their commands one after   *)
(* the other, and the main thread that starts it before the measurement    *)
(* loop and stops it after (src/meterd_main.c:318-331).  The two share     *)
(* tasksched_run and the list of tasks.                                    *)
(***************************************************************************)
EXTENDS Integers, Sequences

CONSTANTS
    MaxTasks,       \* BOUND on the tasks in the configuration
    Interval,       \* their intervals
    NumCmds,        \* and how many commands each has
    ScanTakesTime,  \* time may pass in the scan itself, not only in commands
    Epoch,          \* the clock when the daemon starts
    MaxClock        \* BOUND on the clock

\* meterd_conf_get_scheduled_tasks drops tasks without commands or with an
\* interval that is not positive
ASSUME TasksAssumption ==
    /\ MaxTasks \in Nat
    /\ Interval \in [1 .. MaxTasks -> Nat \ {0}]
    /\ NumCmds \in [1 .. MaxTasks -> Nat \ {0}]
    /\ ScanTakesTime \in BOOLEAN
    /\ Epoch \in Nat /\ MaxClock \in Nat

VARIABLES
    tasks,          \* how many tasks are in the list
    clock,          \* what time() returns
    main,           \* where the main thread is
    thread,         \* where the scheduler thread is
    tasksched_run,
    now,            \* locals of the thread
    task_it,
    last_executed,
    results,        \* exit statuses of the commands a task ran last; its length is i
    freed,          \* the list of tasks has been freed
    started         \* history: when each task last started its commands

vars == <<tasks, clock, main, thread, tasksched_run, now, task_it,
          last_executed, results, freed, started>>

Tasks == 1 .. tasks

(***************************************************************************)
(* main    "start", "loop" (meterd_measure_loop), "stop", "join",          *)
(*         "finalize", "done", or "undefined": joined a thread that never  *)
(*         was                                                             *)
(* thread  "absent", "test" (the while), "scan" (LL_FOREACH), "command"    *)
(*         (in system), "sleep", "left"                                    *)
(***************************************************************************)
Init ==
    /\ tasks \in 0 .. MaxTasks
    /\ clock = Epoch
    /\ main = "start"
    /\ thread = "absent"
    /\ tasksched_run = TRUE
    /\ now = 0
    /\ task_it = 0
    /\ last_executed = [t \in Tasks |-> 0]
    /\ results = [t \in Tasks |-> << >>]
    /\ freed = FALSE
    /\ started = [t \in Tasks |-> 0]

-----------------------------------------------------------------------------
(***************************************************************************)
(* The main thread                                                         *)
(***************************************************************************)
StartNoTasks ==
    /\ main = "start" /\ tasks = 0
    /\ main' = "loop"
    /\ tasksched_run' = FALSE
    /\ UNCHANGED <<tasks, clock, thread, now, task_it, last_executed, results, freed, started>>

StartThread ==
    /\ main = "start" /\ tasks > 0
    /\ main' = "loop"
    /\ thread' = "test"
    /\ UNCHANGED <<tasks, clock, tasksched_run, now, task_it, last_executed,
                   results, freed, started>>

\* pthread_create failed: an error is logged, tasksched_run stays 1
StartFails ==
    /\ main = "start" /\ tasks > 0
    /\ main' = "loop"
    /\ UNCHANGED <<tasks, clock, thread, tasksched_run, now, task_it, last_executed,
                   results, freed, started>>

LoopReturns ==
    /\ main = "loop"
    /\ main' = "stop"
    /\ UNCHANGED <<tasks, clock, thread, tasksched_run, now, task_it, last_executed,
                   results, freed, started>>

\* mutants: stopping does not wait for the thread, or does not tell it
StopNoJoin ==
    /\ main = "stop"
    /\ main' = "finalize"
    /\ tasksched_run' = FALSE
    /\ UNCHANGED <<tasks, clock, thread, now, task_it, last_executed, results, freed, started>>
StopUntold ==
    /\ main = "stop"
    /\ main' = IF tasksched_run THEN "join" ELSE "finalize"
    /\ UNCHANGED <<tasks, clock, thread, tasksched_run, now, task_it, last_executed,
                   results, freed, started>>

Stop ==
    /\ main = "stop"
    /\ main' = IF tasksched_run THEN "join" ELSE "finalize"
    /\ tasksched_run' = FALSE
    /\ UNCHANGED <<tasks, clock, thread, now, task_it, last_executed, results, freed, started>>

Join ==
    /\ main = "join"
    /\ thread \in {"absent", "left"}
    /\ main' = IF thread = "absent" THEN "undefined" ELSE "finalize"
    /\ UNCHANGED <<tasks, clock, thread, tasksched_run, now, task_it, last_executed,
                   results, freed, started>>

Finalize ==
    /\ main = "finalize"
    /\ main' = "done"
    /\ freed' = TRUE
    /\ UNCHANGED <<tasks, clock, thread, tasksched_run, now, task_it, last_executed,
                   results, started>>

-----------------------------------------------------------------------------
(***************************************************************************)
(* The scheduler thread                                                    *)
(***************************************************************************)
Leave ==
    /\ thread = "test" /\ ~tasksched_run
    /\ thread' = "left"
    /\ UNCHANGED <<tasks, clock, main, tasksched_run, now, task_it, last_executed,
                   results, freed, started>>

\* mutant: the time is read once, before the loop
BeginScanSameTime ==
    /\ thread = "test" /\ tasksched_run
    /\ thread' = "scan"
    /\ now' = IF now = 0 THEN clock ELSE now
    /\ task_it' = 1
    /\ UNCHANGED <<tasks, clock, main, tasksched_run, last_executed, results, freed, started>>

\* the time is read once for the whole list
BeginScan ==
    /\ thread = "test" /\ tasksched_run
    /\ thread' = "scan"
    /\ now' = clock
    /\ task_it' = 1
    /\ UNCHANGED <<tasks, clock, main, tasksched_run, last_executed, results, freed, started>>

AtTask == thread = "scan" /\ task_it \in Tasks
Due(t) == now - last_executed[t] > Interval[t]

PassOver ==
    /\ AtTask
    /\ ~Due(task_it)
    /\ task_it' = task_it + 1
    /\ UNCHANGED <<tasks, clock, main, thread, tasksched_run, now, last_executed,
                   results, freed, started>>

BeginTask ==
    /\ AtTask
    /\ Due(task_it)
    /\ thread' = "command"
    /\ results' = [results EXCEPT ![task_it] = << >>]
    /\ started' = [started EXCEPT ![task_it] = clock]
    /\ UNCHANGED <<tasks, clock, main, tasksched_run, now, task_it, last_executed, freed>>

\* mutants: a failure does not halt the task, and a failure ends the scan
CommandEndsGoesOn(status) ==
    /\ thread = "command"
    /\ results' = [results EXCEPT ![task_it] = Append(@, status)]
    /\ IF Len(results[task_it]) + 1 < NumCmds[task_it]
       THEN UNCHANGED <<tasks, thread, task_it, last_executed>>
       ELSE /\ thread' = "scan"
            /\ task_it' = task_it + 1
            /\ last_executed' = [last_executed EXCEPT ![task_it] = now]
    /\ UNCHANGED <<tasks, clock, main, tasksched_run, now, freed, started>>
CommandEndsScan(status) ==
    /\ thread = "command"
    /\ results' = [results EXCEPT ![task_it] = Append(@, status)]
    /\ IF status = 0 /\ Len(results[task_it]) + 1 < NumCmds[task_it]
       THEN UNCHANGED <<tasks, thread, task_it, last_executed>>
       ELSE /\ thread' = IF status = 0 THEN "scan" ELSE "sleep"
            /\ task_it' = task_it + 1
            /\ last_executed' = [last_executed EXCEPT ![task_it] = now]
    /\ UNCHANGED <<tasks, clock, main, tasksched_run, now, freed, started>>

\* system() returns: the next command, or the task is done or halted; either
\* way it counts as executed at the time the list was begun
CommandEnds(status) ==
    /\ thread = "command"
    /\ results' = [results EXCEPT ![task_it] = Append(@, status)]
    /\ IF status = 0 /\ Len(results[task_it]) + 1 < NumCmds[task_it]
       THEN UNCHANGED <<tasks, thread, task_it, last_executed>>
       ELSE /\ thread' = "scan"
            /\ task_it' = task_it + 1
            /\ last_executed' = [last_executed EXCEPT ![task_it] = now]
    /\ UNCHANGED <<tasks, clock, main, tasksched_run, now, freed, started>>

\* mutant: the walk goes past the end of the list
EndScanTooFar ==
    /\ thread = "scan" /\ task_it \notin Tasks
    /\ thread' = "sleep"
    /\ task_it' = task_it + 1
    /\ UNCHANGED <<tasks, clock, main, tasksched_run, now, last_executed,
                   results, freed, started>>

EndScan ==
    /\ thread = "scan" /\ task_it \notin Tasks
    /\ thread' = "sleep"
    /\ UNCHANGED <<tasks, clock, main, tasksched_run, now, task_it, last_executed,
                   results, freed, started>>

\* sleep(1) is over, or a signal handled by this thread ended it
Wake ==
    /\ thread = "sleep"
    /\ thread' = "test"
    /\ UNCHANGED <<tasks, clock, main, tasksched_run, now, task_it, last_executed,
                   results, freed, started>>

Tick ==
    /\ clock < MaxClock
    /\ thread = "scan" => ScanTakesTime
    /\ clock' = clock + 1
    /\ UNCHANGED <<tasks, main, thread, tasksched_run, now, task_it, last_executed,
                   results, freed, started>>

MainStep == StartNoTasks \/ StartThread \/ StartFails \/ Stop \/ Join \/ Finalize
ThreadStep ==
    \/ Leave \/ BeginScan \/ PassOver \/ BeginTask \/ EndScan \/ Wake
    \/ \E status \in {0, 1} : CommandEnds(status)

Next == MainStep \/ LoopReturns \/ ThreadStep \/ Tick

(***************************************************************************)
(* Both threads run, and commands end (the thread waits in system for      *)
(* them); nothing makes the measurement loop return or the clock advance.  *)
(***************************************************************************)
Spec == Init /\ [][Next]_vars /\ WF_vars(MainStep) /\ WF_vars(ThreadStep)

-----------------------------------------------------------------------------
(***************************************************************************)
(* Properties                                                              *)
(***************************************************************************)

\* The type of every variable.
TypeOK ==
    /\ tasks \in 0 .. MaxTasks
    /\ clock \in Nat
    /\ main \in {"start", "loop", "stop", "join", "finalize", "done", "undefined"}
    /\ thread \in {"absent", "test", "scan", "command", "sleep", "left"}
    /\ tasksched_run \in BOOLEAN
    /\ now \in Nat
    /\ task_it \in 0 .. tasks + 1
    /\ last_executed \in [Tasks -> Nat]
    /\ results \in [Tasks -> Seq({0, 1})]
    /\ freed \in BOOLEAN
    /\ started \in [Tasks -> Nat]

\* The list of tasks is freed only when no thread will look at it again, wherever
\* the scheduler thread was when the measurement loop returned.
FreedAfterUse == freed => thread \in {"absent", "left"}

\* "Multiple commands [...] will be run consecutively; if the return value of a
\* command is other than 0 execution of subsequent commands is halted": a task
\* that is not running ran all its commands or failed in the last one it ran.
RunsAllOrHalts ==
    \A t \in Tasks : (last_executed[t] # 0 /\ ~(thread = "command" /\ task_it = t)) =>
        LET r == results[t] IN
        /\ Len(r) \in 1 .. NumCmds[t]
        /\ \A i \in 1 .. Len(r) - 1 : r[i] = 0
        /\ r[Len(r)] = 0 => Len(r) = NumCmds[t]

\* When the thread goes to sleep no task is overdue: a task that failed, or one
\* that was skipped, does not keep the tasks behind it from running.
NoneOverdue ==
    thread = "sleep" => \A t \in Tasks : now - last_executed[t] <= Interval[t]

Overdue(t) == t \in Tasks /\ clock - last_executed[t] > Interval[t]

\* A task whose interval has passed is started, unless the daemon is stopping.
OverdueStarts ==
    \A t \in 1 .. MaxTasks :
        (Overdue(t) /\ main = "loop" /\ thread # "absent")
            ~> (thread = "command" /\ task_it = t) \/ main # "loop"

\* Once the measurement loop has returned the scheduler is stopped and the main
\* thread gets past pthread_join, with tasks still due or running (when there is
\* a thread, or there are no tasks to need one).
StopEnds ==
    main = "stop" /\ (thread # "absent" \/ ~tasksched_run) ~> main = "done"

\* "The interval at which the task runs": the commands of a task are not started
\* again before its interval has passed.
StartsApart ==
    [][\A t \in Tasks : started'[t] # started[t] =>
            started'[t] - started[t] >= Interval[t]]_vars
=============================================================================
