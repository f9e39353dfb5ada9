-------------------------- MODULE TaskSchedProofs --------------------------
(***************************************************************************)
(* The safety properties of the task scheduler, for every list of tasks.   *)
(***************************************************************************)
EXTENDS TaskSched, TLAPS

-----------------------------------------------------------------------------
(***************************************************************************)
(* The list of tasks is freed after its last use                           *)
(***************************************************************************)

\* tasksched_run says whether the main thread has to wait: while the loop runs
\* it is cleared only when there is no thread, and past the join (or without
\* one) the thread is gone for good.
Handover ==
    /\ freed => main = "done"
    /\ main = "start" => thread = "absent" /\ tasksched_run
    /\ main \in {"loop", "stop"} /\ ~tasksched_run => thread = "absent"
    /\ main \in {"finalize", "done"} => thread \in {"absent", "left"}

\* A step of the thread happens only while there is one, and keeps it there
\* unless it leaves; it touches neither main nor the flags.
LEMMA ThreadStepFrame ==
    ASSUME ThreadStep
    PROVE  /\ thread \notin {"absent", "left"}
           /\ thread' # "absent"
           /\ UNCHANGED <<main, tasksched_run, freed>>
  <1>1. CASE Leave
    BY <1>1 DEF Leave
  <1>2. CASE BeginScan
    BY <1>2 DEF BeginScan
  <1>3. CASE PassOver
    BY <1>3 DEF PassOver, AtTask
  <1>4. CASE BeginTask
    BY <1>4 DEF BeginTask, AtTask
  <1>5. CASE EndScan
    BY <1>5 DEF EndScan
  <1>6. CASE Wake
    BY <1>6 DEF Wake
  <1>7. ASSUME NEW status \in {0, 1}, CommandEnds(status)
        PROVE  /\ thread = "command"
               /\ thread' \in {"command", "scan"}
               /\ UNCHANGED <<main, tasksched_run, freed>>
    BY <1>7 DEF CommandEnds
  <1> QED
    BY <1>1, <1>2, <1>3, <1>4, <1>5, <1>6, <1>7 DEF ThreadStep

\* Every step of either thread keeps the hand-over.
LEMMA NextHandover == Handover /\ [Next]_vars => Handover'
  <1> SUFFICES ASSUME Handover, [Next]_vars PROVE Handover'
    OBVIOUS
  <1>1. CASE StartNoTasks
    BY <1>1 DEF Handover, StartNoTasks
  <1>2. CASE StartThread
    BY <1>2 DEF Handover, StartThread
  <1>3. CASE StartFails
    BY <1>3 DEF Handover, StartFails
  <1>4. CASE LoopReturns
    BY <1>4 DEF Handover, LoopReturns
  <1>5. CASE Stop
    BY <1>5 DEF Handover, Stop
  <1>6. CASE Join
    BY <1>6 DEF Handover, Join
  <1>7. CASE Finalize
    BY <1>7 DEF Handover, Finalize
  <1>8. CASE ThreadStep
    BY <1>8, ThreadStepFrame DEF Handover
  <1>9. CASE Tick
    BY <1>9 DEF Handover, Tick
  <1>10. CASE UNCHANGED vars
    BY <1>10 DEF Handover, vars
  <1> QED
    BY <1>1, <1>2, <1>3, <1>4, <1>5, <1>6, <1>7, <1>8, <1>9, <1>10 DEF Next, MainStep

\* The list of tasks is freed only when the scheduler thread does not exist or
\* has left its procedure, for any tasks and any order of the two threads.
THEOREM TasksFreedAfterUse == Spec => []FreedAfterUse
  <1>1. Init => Handover
    BY DEF Init, Handover
  <1>2. Handover /\ [Next]_vars => Handover'
    BY NextHandover
  <1>3. Handover => FreedAfterUse
    BY DEF Handover, FreedAfterUse
  <1> QED
    BY <1>1, <1>2, <1>3, PTL DEF Spec

-----------------------------------------------------------------------------
(***************************************************************************)
(* Types                                                                   *)
(***************************************************************************)

\* In a scan task_it is past the head of the list, and while a command runs it is
\* at its task.
AtWork ==
    /\ thread = "scan" => task_it # 0
    /\ thread = "command" => task_it \in Tasks

\* The main thread touches neither the list nor what the scheduler thread has
\* done with it, and starts the thread in front of its loop.
LEMMA MainStepFrame ==
    ASSUME MainStep \/ LoopReturns
    PROVE  /\ UNCHANGED <<tasks, clock, now, task_it, last_executed, results, started>>
           /\ thread' = thread \/ (main = "start" /\ thread' = "test")
  BY DEF MainStep, LoopReturns, StartNoTasks, StartThread, StartFails, Stop, Join, Finalize

\* The main thread's steps keep the state type correct.
LEMMA MainStepType ==
    ASSUME TypeOK, MainStep \/ LoopReturns
    PROVE  TypeOK'
  <1>1. /\ main' \in {"loop", "stop", "join", "finalize", "done", "undefined"}
        /\ tasksched_run' \in BOOLEAN /\ freed' \in BOOLEAN
    BY DEF TypeOK, MainStep, LoopReturns, StartNoTasks, StartThread, StartFails, Stop,
           Join, Finalize
  <1> QED
    BY <1>1, MainStepFrame DEF TypeOK, Tasks

\* The end of a command keeps the state type correct.
LEMMA CommandEndsType ==
    ASSUME TypeOK, AtWork, NEW status \in {0, 1}, CommandEnds(status)
    PROVE  TypeOK' /\ AtWork'
  <1>1. task_it \in Tasks /\ tasks' = tasks /\ tasks \in Nat
    BY DEF AtWork, CommandEnds, TypeOK
  <1>2. Append(results[task_it], status) \in Seq({0, 1})
    BY <1>1 DEF TypeOK
  <1>3. results' \in [Tasks -> Seq({0, 1})]
    BY <1>2 DEF TypeOK, CommandEnds
  <1>4. last_executed' \in [Tasks -> Nat]
    BY DEF TypeOK, CommandEnds
  <1>5. /\ task_it' \in 0 .. tasks + 1 /\ thread' \in {"command", "scan"}
        /\ thread' = "command" => task_it' = task_it
        /\ task_it' # 0
    <2>1. task_it \in 1 .. tasks
      BY <1>1 DEF Tasks
    <2>2. CASE UNCHANGED <<tasks, thread, task_it, last_executed>>
      BY <1>1, <2>1, <2>2 DEF CommandEnds
    <2>3. CASE thread' = "scan" /\ task_it' = task_it + 1
      BY <1>1, <2>1, <2>3
    <2> QED
      BY <2>2, <2>3 DEF CommandEnds
  <1> QED
    BY <1>1, <1>3, <1>4, <1>5 DEF TypeOK, AtWork, CommandEnds, Tasks

\* Every step keeps the state type correct.
LEMMA NextType == TypeOK /\ AtWork /\ [Next]_vars => TypeOK' /\ AtWork'
  <1> SUFFICES ASSUME TypeOK, AtWork, [Next]_vars PROVE TypeOK' /\ AtWork'
    OBVIOUS
  <1> USE DEF AtWork, Tasks
  <1>1. CASE MainStep \/ LoopReturns
    BY <1>1, MainStepType, MainStepFrame
  <1>2. CASE Leave
    BY <1>2 DEF TypeOK, Leave
  <1>3. CASE BeginScan
    BY <1>3 DEF TypeOK, BeginScan
  <1>4. CASE PassOver
    BY <1>4 DEF TypeOK, PassOver, AtTask
  <1>5. CASE BeginTask
    <2>1. << >> \in Seq({0, 1})
      OBVIOUS
    <2> QED
      BY <1>5, <2>1 DEF TypeOK, BeginTask, AtTask
  <1>6. CASE EndScan
    BY <1>6 DEF TypeOK, EndScan
  <1>7. CASE Wake
    BY <1>7 DEF TypeOK, Wake
  <1>8. ASSUME NEW status \in {0, 1}, CommandEnds(status) PROVE TypeOK' /\ AtWork'
    BY <1>8, CommandEndsType
  <1>9. CASE Tick
    BY <1>9 DEF TypeOK, Tick
  <1>10. CASE UNCHANGED vars
    BY <1>10 DEF TypeOK, vars
  <1> QED
    BY <1>1, <1>2, <1>3, <1>4, <1>5, <1>6, <1>7, <1>8, <1>9, <1>10 DEF Next, ThreadStep

\* The initial state is type correct.
LEMMA InitType == Init => TypeOK /\ AtWork
  <1> SUFFICES ASSUME Init PROVE TypeOK /\ AtWork
    OBVIOUS
  <1>1. tasks \in 0 .. MaxTasks /\ clock \in Nat /\ 0 \in 0 .. tasks + 1
    BY TasksAssumption DEF Init
  <1>2. results \in [Tasks -> Seq({0, 1})]
    <2>1. << >> \in Seq({0, 1})
      OBVIOUS
    <2> QED
      BY <2>1 DEF Init
  <1>3. last_executed \in [Tasks -> Nat] /\ started \in [Tasks -> Nat]
    BY DEF Init
  <1> QED
    BY <1>1, <1>2, <1>3 DEF Init, TypeOK, AtWork

\* The state of the scheduler is type correct for any list of tasks; in
\* particular the walk never leaves the list.
THEOREM TasksTypeCorrect == Spec => []TypeOK
  <1>1. Init => TypeOK /\ AtWork
    BY InitType
  <1>2. TypeOK /\ AtWork /\ [Next]_vars => TypeOK' /\ AtWork'
    BY NextType
  <1> QED
    BY <1>1, <1>2, PTL DEF Spec

-----------------------------------------------------------------------------
(***************************************************************************)
(* No task is left behind                                                  *)
(***************************************************************************)

Served(t) == now - last_executed[t] <= Interval[t]

\* The tasks in front of task_it are served in this scan, and all of them when
\* the thread sleeps.
Scanned ==
    /\ thread \in {"scan", "command"} => \A t \in Tasks : t < task_it => Served(t)
    /\ thread = "sleep" => \A t \in Tasks : Served(t)

\* Every step keeps the tasks behind task_it free of overdue ones.
LEMMA NextScanned ==
    ASSUME TypeOK, AtWork, Scanned, [Next]_vars
    PROVE  Scanned'
  <1> USE TasksAssumption DEF Scanned, Served, Tasks
  <1>1. CASE MainStep \/ LoopReturns
    BY <1>1, MainStepFrame
  <1>2. CASE Leave
    BY <1>2 DEF Leave
  <1>3. CASE BeginScan
    BY <1>3 DEF BeginScan
  <1>4. CASE PassOver
    <2>1. now \in Nat /\ tasks \in 0 .. MaxTasks /\ \A t \in Tasks : last_executed[t] \in Nat
      BY DEF TypeOK
    <2>2. Served(task_it)
      BY <1>4, <2>1 DEF PassOver, Due, AtTask
    <2> QED
      BY <1>4, <2>1, <2>2 DEF PassOver, AtTask
  <1>5. CASE BeginTask
    BY <1>5 DEF BeginTask, AtTask
  <1>6. CASE EndScan
    <2>1. task_it = tasks + 1
      BY <1>6 DEF EndScan, TypeOK, AtWork
    <2> QED
      BY <1>6, <2>1 DEF EndScan, TypeOK
  <1>7. CASE Wake
    BY <1>7 DEF Wake
  <1>8. ASSUME NEW status \in {0, 1}, CommandEnds(status) PROVE Scanned'
    <2>1. task_it \in Tasks /\ tasks \in 0 .. MaxTasks /\ now \in Nat
      BY <1>8 DEF CommandEnds, AtWork, TypeOK
    <2>2. CASE UNCHANGED <<tasks, thread, task_it, last_executed>>
      BY <1>8, <2>2 DEF CommandEnds
    <2>3. CASE /\ thread' = "scan" /\ task_it' = task_it + 1
               /\ last_executed' = [last_executed EXCEPT ![task_it] = now]
      <3>1. now' = now /\ tasks' = tasks
        BY <1>8 DEF CommandEnds
      <3>2. ASSUME NEW t \in Tasks, t < task_it' PROVE Served(t)'
        <4>1. CASE t = task_it
          <5>1. last_executed'[t] = now /\ Interval[t] \in Nat
            BY <2>1, <2>3, <4>1 DEF TypeOK
          <5> QED
            BY <2>1, <3>1, <5>1
        <4>2. CASE t # task_it
          <5>1. last_executed'[t] = last_executed[t] /\ t < task_it
            BY <2>1, <2>3, <3>2, <4>2 DEF TypeOK
          <5> QED
            BY <1>8, <3>1, <5>1 DEF CommandEnds
        <4> QED
          BY <4>1, <4>2
      <3> QED
        BY <2>3, <3>1, <3>2
    <2> QED
      BY <1>8, <2>2, <2>3 DEF CommandEnds
  <1>9. CASE Tick
    BY <1>9 DEF Tick
  <1>10. CASE UNCHANGED vars
    BY <1>10 DEF vars
  <1> QED
    BY <1>1, <1>2, <1>3, <1>4, <1>5, <1>6, <1>7, <1>8, <1>9, <1>10 DEF Next, ThreadStep

\* No task is overdue when the thread goes to sleep, whatever commands fail and
\* however long they take.
THEOREM NoTaskLeftBehind == Spec => []NoneOverdue
  <1>1. Init => TypeOK /\ AtWork /\ Scanned
    BY InitType DEF Init, Scanned
  <1>2. TypeOK /\ AtWork /\ Scanned /\ [Next]_vars => TypeOK' /\ AtWork' /\ Scanned'
    BY NextType, NextScanned
  <1>3. Scanned => NoneOverdue
    BY DEF Scanned, Served, NoneOverdue
  <1> QED
    BY <1>1, <1>2, <1>3, PTL DEF Spec

-----------------------------------------------------------------------------
(***************************************************************************)
(* A task runs all its commands or halts at the first that fails           *)
(***************************************************************************)

\* r are the results of n commands, run up to the end or the first failure
Outcome(r, n) ==
    /\ Len(r) \in 1 .. n
    /\ \A i \in 1 .. Len(r) - 1 : r[i] = 0
    /\ r[Len(r)] = 0 => Len(r) = n

\* r are the results of commands that are followed by another
OnTheWay(r, n) ==
    /\ Len(r) < n
    /\ \A i \in 1 .. Len(r) : r[i] = 0

Running(t) == thread = "command" /\ task_it = t

Outcomes ==
    \A t \in Tasks :
        /\ Running(t) => OnTheWay(results[t], NumCmds[t])
        /\ ~Running(t) /\ last_executed[t] # 0 => Outcome(results[t], NumCmds[t])

\* The result of one more command: the task goes on, or this is its outcome.
LEMMA OneMore ==
    ASSUME NEW r \in Seq({0, 1}), NEW n \in Nat, OnTheWay(r, n), NEW status \in {0, 1}
    PROVE  IF status = 0 /\ Len(r) + 1 < n THEN OnTheWay(Append(r, status), n)
           ELSE Outcome(Append(r, status), n)
  <1> DEFINE longer == Append(r, status)
  <1>1. /\ Len(r) \in Nat
        /\ Len(longer) = Len(r) + 1
        /\ longer[Len(r) + 1] = status
        /\ \A i \in 1 .. Len(r) : longer[i] = r[i]
    OBVIOUS
  <1> HIDE DEF longer
  <1>2. CASE status = 0 /\ Len(r) + 1 < n
    BY <1>1, <1>2 DEF OnTheWay, longer
  <1>3. CASE ~(status = 0 /\ Len(r) + 1 < n)
    <2>1. Len(longer) \in 1 .. n
      BY <1>1 DEF OnTheWay
    <2>2. \A i \in 1 .. Len(longer) - 1 : longer[i] = 0
      BY <1>1 DEF OnTheWay
    <2>3. longer[Len(longer)] = 0 => Len(longer) = n
      BY <1>1, <1>3, <2>1
    <2> QED
      BY <1>3, <2>1, <2>2, <2>3 DEF Outcome, longer
  <1> QED
    BY <1>2, <1>3

\* A step that keeps the lists of results and the time of each task, and starts
\* or ends no command, keeps the outcomes.
LEMMA OutcomesFrame ==
    ASSUME Outcomes, UNCHANGED <<tasks, last_executed, results>>,
           thread # "command", thread' # "command"
    PROVE  Outcomes'
  BY DEF Outcomes, Running, Tasks

\* The end of a command keeps the outcomes of its task: success in all but the last.
LEMMA CommandEndsOutcomes ==
    ASSUME TypeOK, AtWork, Outcomes, NEW status \in {0, 1}, CommandEnds(status)
    PROVE  Outcomes'
  <1>1. /\ task_it \in Tasks /\ thread = "command" /\ tasks' = tasks
        /\ tasks \in 0 .. MaxTasks
    BY DEF AtWork, CommandEnds, TypeOK
  <1>2. results[task_it] \in Seq({0, 1}) /\ NumCmds[task_it] \in Nat
    BY <1>1, TasksAssumption DEF TypeOK, Tasks
  <1>3. OnTheWay(results[task_it], NumCmds[task_it])
    BY <1>1 DEF Outcomes, Running
  <1>4. /\ results'[task_it] = Append(results[task_it], status)
        /\ \A t \in Tasks \ {task_it} :
              results'[t] = results[t] /\ last_executed'[t] = last_executed[t]
    BY <1>1 DEF CommandEnds, TypeOK
  <1>5. ASSUME NEW t \in Tasks, t # task_it
        PROVE  ~Running(t)' /\ (last_executed'[t] # 0 => Outcome(results'[t], NumCmds[t]))
    <2>1. ~Running(t) /\ ~Running(t)'
      BY <1>5 DEF Running, CommandEnds
    <2> QED
      BY <1>4, <1>5, <2>1 DEF Outcomes
  <1>6. IF thread' = "command" /\ task_it' = task_it
        THEN OnTheWay(results'[task_it], NumCmds[task_it])
        ELSE Outcome(results'[task_it], NumCmds[task_it])
    <2>1. CASE status = 0 /\ Len(results[task_it]) + 1 < NumCmds[task_it]
      <3>1. thread' = "command" /\ task_it' = task_it
        BY <1>1, <2>1 DEF CommandEnds
      <3>2. OnTheWay(results'[task_it], NumCmds[task_it])
        BY <1>2, <1>3, <1>4, <2>1, OneMore
      <3> QED
        BY <3>1, <3>2
    <2>2. CASE ~(status = 0 /\ Len(results[task_it]) + 1 < NumCmds[task_it])
      <3>1. thread' # "command"
        BY <2>2 DEF CommandEnds
      <3>2. Outcome(results'[task_it], NumCmds[task_it])
        BY <1>2, <1>3, <1>4, <2>2, OneMore
      <3> QED
        BY <3>1, <3>2
    <2> QED
      BY <2>1, <2>2
  <1>7. ASSUME NEW t \in Tasks
        PROVE  /\ Running(t)' => OnTheWay(results'[t], NumCmds[t])
               /\ ~Running(t)' /\ last_executed'[t] # 0 => Outcome(results'[t], NumCmds[t])
    <2>1. CASE t = task_it
      BY <1>6, <2>1 DEF Running
    <2>2. CASE t # task_it
      BY <1>5, <2>2
    <2> QED
      BY <2>1, <2>2
  <1>8. Tasks' = Tasks
    BY <1>1 DEF Tasks
  <1> QED
    BY <1>7, <1>8 DEF Outcomes, Running

\* Every step keeps the outcomes of every task.
LEMMA NextOutcomes ==
    ASSUME TypeOK, AtWork, Handover, Outcomes, [Next]_vars
    PROVE  Outcomes'
  <1>1. CASE MainStep \/ LoopReturns
    <2>1. (thread # "command" /\ thread' # "command") \/ thread' = thread
      BY <1>1, MainStepFrame DEF Handover
    <2> QED
      BY <1>1, <2>1, MainStepFrame DEF Outcomes, Running, Tasks
  <1>2. CASE Leave
    BY <1>2, OutcomesFrame DEF Leave
  <1>3. CASE BeginScan
    BY <1>3, OutcomesFrame DEF BeginScan
  <1>4. CASE PassOver
    BY <1>4, OutcomesFrame DEF PassOver, AtTask
  <1>5. CASE BeginTask
    <2>1. /\ task_it \in Tasks /\ tasks' = tasks /\ tasks \in 0 .. MaxTasks
          /\ results'[task_it] = << >>
          /\ \A t \in Tasks \ {task_it} : results'[t] = results[t]
      BY <1>5 DEF BeginTask, AtTask, TypeOK
    <2>2. OnTheWay(<< >>, NumCmds[task_it])
      BY <2>1, TasksAssumption DEF OnTheWay, Tasks
    <2> QED
      BY <1>5, <2>1, <2>2 DEF Outcomes, Running, BeginTask, AtTask, Tasks
  <1>6. CASE EndScan
    BY <1>6, OutcomesFrame DEF EndScan
  <1>7. CASE Wake
    BY <1>7, OutcomesFrame DEF Wake
  <1>8. ASSUME NEW status \in {0, 1}, CommandEnds(status) PROVE Outcomes'
    BY <1>8, CommandEndsOutcomes
  <1>9. CASE Tick
    BY <1>9 DEF Tick, Outcomes, Running, Tasks
  <1>10. CASE UNCHANGED vars
    BY <1>10 DEF vars, Outcomes, Running, Tasks
  <1> QED
    BY <1>1, <1>2, <1>3, <1>4, <1>5, <1>6, <1>7, <1>8, <1>9, <1>10 DEF Next, ThreadStep

\* A task that is not running has run all its commands, or failed in the last
\* one it ran, for any number of tasks and commands.
THEOREM TasksRunAllOrHalt == Spec => []RunsAllOrHalts
  <1>1. Init => TypeOK /\ AtWork /\ Handover /\ Outcomes
    BY InitType DEF Init, Handover, Outcomes, Running, Tasks
  <1>2. TypeOK /\ AtWork /\ Handover /\ Outcomes /\ [Next]_vars
           => TypeOK' /\ AtWork' /\ Handover' /\ Outcomes'
    BY NextType, NextHandover, NextOutcomes
  <1>3. Outcomes => RunsAllOrHalts
    BY DEF Outcomes, Running, Outcome, RunsAllOrHalts
  <1> QED
    BY <1>1, <1>2, <1>3, PTL DEF Spec
=============================================================================
