# meterd in TLA+

meterd is a daemon that reads the telegrams of a smart electricity meter from a
serial line, records the readings in SQLite databases, and runs commands at
intervals; two command line tools create the databases and print what they
hold. This directory models it in TLA+, checks the models with TLC and proves
theorems about them with TLAPS. Paths such as `measure.c:391` are files of
`src/src/`.

Run a check with `tlc -config <cfg> <module>`, the proofs with
`tlapm <module>`. `PROJECT.json` lists runs, mutants, the lines each definition
models, hazards, findings and theorems.

## 1. Inventory

### The parts

| Part | Source | State it keeps | Operations | Module |
| --- | --- | --- | --- | --- |
| Measurement recording | `measure.c` | the `counter_spec` list: sums, counters and times of the five-minute and hourly averages, time of the last total; database handles | init, record one telegram, finalize | `Measure`, `AverageSeries` |
| Telegram reception | `comm.c`, loop of `measure.c` | the list of lines, `run_measurement`, `errno`, the terminal | sync to `/`, read to `!`, hand over, stop, give up | `MeasureLoop` |
| P1 parser | `p1_parser.c` | the list of readings, `next_is_gas` | parse a telegram | `P1Parser` |
| Task scheduler | `tasksched.c` | `tasksched_run`, the list of tasks with `last_executed` | init, start, thread, stop, finalize | `TaskSched` |
| Daemon start and stop, signals | `meterd_main.c` | the pid file, what is initialised | fork, initialise in order, loop, stop in reverse; handle signals | `Daemon`, with `TaskSched` and `MeasureLoop` |
| Database access | `db.c` | SQLite handles | create, open, record, query | `Measure`, `Query`, `CreateDb` (in part) |
| Output tool | `meterd_output.c` | lists of rows, the extremes | select, merge, print | `Query` |
| Creation tool | `meterd_createdb.c` | none | make four databases | `CreateDb`, `Config` |
| Configuration | `meterd_config.c` | the libconfig tree | read values, counters, tasks | `Config` |
| Logging | `meterd_log.c` | the log file, static buffers | init, log, finish | `Daemon` (in part) |
| Telegram dump | `measure.c` (`dump_telegram`) | none | write a file and rename it | none |
| Parser test program | `testp1_parse.c` | none | | none |
| Lists and hashes | `utlist.h`, `uthash.h` (vendored) | | | none |

### How they interact

- The main thread runs the measurement loop. It calls reception, then the
  parser, then the recording, and frees both lists before it reads again.
- The scheduler thread shares with the main thread `tasksched_run` and the list
  of tasks, and with everything the buffers of the log.
- The signal handler clears `run_measurement` and logs. It may run in either
  thread, at any instruction.
- The daemon, the output tool and the creation tool are processes that share
  database files, with nothing between them but the locks SQLite takes for one
  statement. The output tool is usually a command of a scheduled task.
- The outside: the meter, which sends whenever it likes, on a line that loses
  bytes; the clock, which may be set back; commands, which take any time and may
  fail; SQLite, any statement of which may fail.

### What is hard, and what makes each part correct

- **Recording.** State is carried over arbitrarily many telegrams; INSERTs
  fail without consequence for the caller; the clock steps; the process dies
  between two readings. *Correct:* no reading is dropped or counted twice; no
  average mixes two intervals; rows of one table are an interval apart and in
  order; the tables of a database agree in their timestamps.
- **Reception.** It starts in mid-telegram, lines get lost, signals come at any
  point, the line hangs up. *Correct:* what is handed over is one telegram, in
  order; after noise it finds its way back; told to stop, it stops.
- **Parser.** The flag `next_is_gas` carries over to the next line, whatever
  that is; memory may run out half-way. *Correct:* every value goes to its
  counter, once.
- **Scheduler.** Two threads; commands of any length. *Correct:* no task
  starves; a failed command halts its task and no other; the list is not freed
  under the thread; stopping ends.
- **Output tool.** It reads tables one by one while rows come in. *Correct:* a
  line shows rows of one time; the window is complete; it ends.
- **Creation tool.** Runs fail or are killed half-way and are repeated.
  *Correct:* "finished" means complete; what is left can be told from a complete
  database; readings are not deleted without `-f`.
- **Start and stop, signals.** A signal may come before the loop runs, in
  either thread, inside a call that holds a lock, while a command runs.
  *Correct:* a stop request that was handled ends the daemon; what threads and
  handlers use goes away after them.
- **Configuration.** Two programs read it, each in its own way. *Correct:* a task
  that gets through has a positive interval and a command; the creation tool
  makes the tables the daemon writes to.
- **Logging.** Static buffers, a file, and calls that hold locks, used from two
  threads and a handler. *Correct:* nothing is logged after the log is closed;
  logging does not keep the daemon from stopping (it may, see below).

The full list, each hazard at its line, is in `PROJECT.json`.

## 2. Modules and the code

Each module says at its top what it models, and its operators have the names of
the code's functions and variables where they have one. Definitions marked
"mutant" are faulty variants of the definition that follows. No action uses
them; putting one in place of the original shows that a property notices.

**`Measure`** (`measure.c`, `db.c: meterd_db_record`). `Receive` reads the time
once and takes the list of readings. `Record(failed)` is one iteration of
`LL_FOREACH(p1_counters, ...)`: every `counter_spec` with the identifier of the
reading is entered in every database that keeps it; `failed` are the databases
whose INSERT fails for this reading, of which the caller sees nothing.
`EndTelegram` goes round. A new process (`Restart` between telegrams, `Crash`
between readings) has empty averages and timers at zero. `Tick` and `SetBack`
are the clock. An average is a dividend and a divisor instead of a quotient,
and `ToInt` is the conversion of `time_t` to the 32-bit `db_ts`. History
variables hold the sum and number of the readings given (`fed`), written
(`stored`) and gone (`lost`). Reading the configuration and opening the
databases is the constant `OpenDbs` (not empty: the code gives up otherwise).

**`AverageSeries`** is the abstract specification of one counter in one database
of averages, alone. It goes through the readings of a telegram (`input`) one by
one: a reading with another identifier passes by (`Pass`), one with the counter's
own must go into the open average (`Take`) or also close it (`Close`; `CloseLost`
when the row cannot be written, which the constant `CanFail` has to allow). No
step drops a reading of this counter, or adds another's. `Measure!Series(d, c)`
instantiates it under a refinement mapping: `input` is the list of readings
still to come, the open average is `cumul` and `ctr` of the accumulator, `since`
its `ts`, the averages are the table, and rows can get lost only where INSERTs
fail. `ImplementsSeries` says that every step of `Measure` is, for each counter
and database at the same time, a step of its series or leaves all of the series
alone; a crash or restart of the process is a step too.

**`MeasureLoop`** (`comm.c`, `measure.c`, `meterd_main.c: signal_handler`). The
terminal is a queue of lines (canonical mode: a read returns one line). `Test`
is the `while`, `Skip`, `First`, `More` and `Last` are a read each, `Process`
is all that happens to a complete telegram. `Signal` is the handler: where reads
are not restarted it breaks a read that waits, or leaves it alone when the
scheduler thread is the one that gets it. `Fail` is a failing read: the list
is freed, the caller's pointer stays, and `errno` decides between going on and
giving up. `restarts` tells whether `signal()` restarts reads: it does with
glibc's default (BSD semantics), which is what the build uses on Linux; with
System V semantics it does not. The meter sends, loses lines while there is
noise, and hangs up.

**`P1Parser`** (`p1_parser.c`). One action per branch of the loop over the
lines, cut where the parser asks for memory and may be told there is none. The
regular expressions are abstracted to what they tell of a line: its form, its
identifier, what its last parentheses hold, and what the gas branch would read
in it. Memory is a set of blocks (`heap`): every `malloc`, `strdup` and `free` of
a path is there, on the error paths too. The four `strdup` calls whose result is
not looked at are as in the code: the identifier of a gas value may come out as
NULL (`NoId`), and the unit of any entry may be missing. An entry
of the list owns its blocks, and `CountersFree` is the caller's
`meterd_p1_counters_free`. The reference definition (`Yields`, `IdsOf`, `ValueOf`)
says which value each line stands for without running the parser.

**`TaskSched`** (`tasksched.c`, `meterd_main.c:312-331`). The main thread starts
the scheduler, is in the loop, stops, joins and frees; the scheduler thread
scans the list, runs commands one by one (`CommandEnds(status)`), sleeps. The
time is read once per scan, as in the code, while the clock runs on:
everywhere, or (`ScanTakesTime` FALSE) only in commands and between scans. When
`pthread_create` fails the code joins a thread that never was; the model stops
at "undefined" there.

**`Config`** (`meterd_config.c`) has no state: its operators are the functions
that read a value, a list of counters or the list of tasks, applied to a
configuration given as nested functions. What is skipped (an entry without an
identifier, a task without a command or with an interval that is not positive,
a value of another type) is skipped as in the code. The entries may be members
of a group or elements of a list (`Members`), as `config_lookup` takes both.

**`Subsequence`** is one operator, `ElementsAt(s, positions)`: the elements of a
list at some positions, in order. It is what a loop with `continue` makes of a
list (`Config`) and a WHERE clause of a table (`Query!Since`). It is a recursive
function, so that theorems about it can be proved.

**`Daemon`** (`meterd_main.c`, `meterd_log.c`) extends `TaskSched`: `main` from
the configuration to its end, each initialisation with its failure (`phase`),
and around each action of `TaskSched` what it logs and who may take it.
`Logs(w, level)` is the beginning of `meterd_log`: above the level it does
nothing, otherwise the thread enters `localtime`, once nobody else is in it.
`LogGoesOn(w)` takes it out, past the write to the file, through `syslog`, and
back; `logging[w]` says where it is. `Handle(sig, w)` interrupts thread `w`
anywhere, also in there; the thread goes on only when the handler has taken its
steps (`HandlerStep(w)`). The handler logs too, if the level says so, and
therefore waits for whoever is in `localtime` and then in `syslog`, its own
thread included, before it clears `run_measurement`. SIGINT and SIGQUIT cannot be handled while a command runs
(`Ignored`). Outside the time in which handlers are installed a signal kills (`Kill`).
The tasks come from a configuration through `Config!ScheduledTasks`
(`MCDaemon`).

**`Query`** (`meterd_output.c: meterd_output`, `db.c: meterd_db_get_results`).
The daemon inserts the rows of a telegram one at a time while the tool selects
counter by counter (`Select`), or sample by sample with `-j` (`Sample`), then
merges (`PrintLine`) until the shortest list ends. A row is its timestamp. That
the tables agree in their timestamps is assumed here: it is `Aligned` of
`Measure`. Values, inversion, addition of columns and layout are left out; of
the two output formats the CSV branch is mapped.

**`CreateDb`** (`meterd_createdb.c`, `db.c: meterd_db_create`,
`meterd_db_create_tables`). The types are made in the order of `main`; the
first error ends the run. Each statement takes effect by itself, so a file is
described by how many of its statements it has seen. Any call may fail, a run
may be killed between two calls and another started, with or without `-f`.
Files may be there before the first run, unreadable, or in a directory that
cannot be written, and the daemon records in what has tables. The counters of
the tool (`ToolCounters`) and of the daemon (`DaemonCounters`) are computed from
the same configuration, as each program does it; two counters with one
identifier or one table make a statement fail (`Clashes`).

`MCMeasure`, `MCP1Parser`, `MCTaskSched`, `MCDaemon`, `MCQuery` and `MCCreateDb`
give the constants values. `MeasureProofs`, `MeasureLoopProofs`, `P1ParserProofs`,
`TaskSchedProofs`, `DaemonProofs`, `QueryProofs` and `CreateDbProofs` hold the theorems
about the module of their name, `SubsequenceProofs` the lemmas about `ElementsAt`.

## 3. What the runs show

| Run | Checks | Shows |
| --- | --- | --- |
| `measure_faults` | `TypeOK AverageInRange Spaced ImplementsSeries` | with failing INSERTs, a clock set back and crashes, each counter's averages are a series as `AverageSeries` promises it, averages stay within the readings, and the rows of one process are an interval apart |
| `measure_complete` | `Conserved NeverStale Aligned Chronological ImplementsSeries` | with complete telegrams of two raw counters and clean restarts, tables agree row by row, are in order and never stale, no reading is lost but at a stop, and none gets into an average of the other counter |
| `measure_misaligned` | violates `Aligned` | one incomplete telegram and the tables disagree for good |
| `parser_lines` | `TypeOK ReadsWhatIsThere LeaksOnlyThere` | the parser against its reference, whichever `malloc` or `strdup` fails, and where it leaks |
| `loop_sending` | `TypeOK Whole NoUseAfterFree AtMostOneLate InOrder Recovers StopsWhenAsked HangUpEnds KeepsMeasuring` | reception from a meter that keeps sending |
| `loop_silent` | violates `StopsWhenAsked` | a silent meter keeps the daemon from stopping |
| `daemon_threads` | `TypeOK FreedAfterUse RunsAllOrHalts NoneOverdue NoLogAfterClose KilledAtRest OverdueStarts StopEnds StopHeeded` | the two threads, start-up and its failures, and stop signals at any moment |
| `daemon_info` | violates `StopHeeded` | at the default log level a signal that interrupts the log hangs the daemon |
| `tasks_slow` | violates `StartsApart` | a task behind a slow command starts late, counts as started early, and starts again a second later |
| `query_merge` | `TypeOK Paired PrintsWindow RangeSpans Ends` | reading while rows come in |
| `query_samples` | violates `SamplesApart` | `-j` repeats a row across a gap |
| `createdb_runs` | `TypeOK FinishedIsComplete WholeOrAbsent SchemaAgrees KeepsReadings` | repeated, failing and killed runs of the creation tool, and its tables against the daemon's counters |

The comment in front of each property states it in words. Some need their limits
said:

- `Spaced` is about the rows of one process: after a restart the timers are
  zero and the first reading is recorded at once.
- `ImplementsSeries` is about the averages of raw counters; that every reading a
  counter was given is, in every database, in exactly one place is `Conserved`. The
  average that is open when the process ends is lost: both book it as lost.
- `Chronological` is checked below `IntMax`: from 2038 on `db_ts` wraps and the
  property is false.
- `ReadsWhatIsThere` allows one thing to be missing, the identifier of a gas value
  whose `strdup` failed. `measure.c:399` would crash on it; no state comes after
  that.
- `StopHeeded` is about signals that were handled. In `daemon_threads` only
  errors are logged, so the handler takes no lock, and signals are handled
  without exception as long as there is a thread to join; `daemon_info` is
  the same program at the level the sample configuration has.
- `KilledAtRest` is about the default action of the stop signals, which they have
  before the handlers are installed and after they are removed.
- `SchemaAgrees` leaves out `other_raw_counters`, for which the tool makes no
  tables: the daemon's INSERTs for them fail.
- `NoUseAfterFree` needs reads that are restarted after a signal, as with glibc's
  `signal()`. With System V's, a signal in mid-telegram leaves the caller with
  a pointer to a freed list; the model has both.
- `HangUpEnds` leaves out the loop whose `errno` is still `EINTR` from a read that
  was not restarted: it takes the hang-up for another interruption, for ever.
- `Whole` and `InOrder` hold as long as no line was lost. `Recovers` says that
  afterwards telegrams are whole again; a telegram whose `!` was lost is handed
  over together with the next.
- `LeaksOnlyThere` accounts for every block on the heap: it is in an entry of the
  list, held by a local, or one of those that two branches forget. So no other
  path leaks, and none frees what is still referred to.
- `KeepsReadings` has two exceptions, and both are in the code: a file that
  exists but cannot be opened counts as absent and is deleted, and the daemon
  may have recorded in a database that was still being made.
- `RangeSpans` leaves out a single line and lines in falling order, for which the
  end of the range is never set.
- `Ends` of `Query` is about values of `-j` that are not negative; `main` accepts
  negative ones too, and with those the sampling loop does not end while there are
  rows.

### Bounds, and why they are enough

- *Time* (`FiveMin` 2, `Hour` 4, `TotalInterval` 3, `MaxClock` 7 or 8, `Epoch`
  4). Only differences are compared, with three constants; the small ones keep
  their order and the ratio above one. The clock starts later than every
  interval, as in reality, so that timers at zero are due. The clock can pass
  the longest interval, and be set back by a whole five-minute interval.
- *Telegrams* (`MaxTelegrams` 3 or 4): one to start the averages, one that only
  adds, one that closes the short average but not the long one, one that closes
  both. Two raw counters, one of which shares its identifier with the totals
  counter, is the least for alignment and for an identifier with several
  entries; the run with faults has one raw counter, for its properties are about
  one counter at a time, and one average database (the two run through the
  same definition and differ in the interval only). `measure_complete` has both
  databases and both counters, for the properties that relate them:
  `ImplementsSeries` is checked there too, since with one counter no reading could
  go astray.
- *Lines* (`MaxLines` 4 of 8 kinds for the parser): enough for two headers in a
  row, a value and a line after it. For reception `Body` 1, `QMax` 3 (a whole telegram
  queues, and one begins while another is still in the queue), `Tags` 3 (so that a
  skipped telegram differs from a repeated one); lines are lost while fewer
  than `MaxLines` 3 are queued and on the list, which bounds how far telegrams can
  run together. `loop_silent` needs a queue of one line only.
- *Tasks* (up to 2, with 2 and 1 commands and intervals 1 and 2; the clock runs
  from 3 to 5 with signals, from 4 to 9 in `tasks_slow`, where time passes in
  commands and between scans only): one in front and one
  behind, one with a command after the failing one, time for the one in front to
  become due again and the other not. The configuration they are read from has four more groups that must not
  become tasks.
- *Signals* (`MaxSignals` 1; SIGTERM, which is never ignored, and SIGINT, which
  is): the first one handled must be enough. It may come in any phase, and
  SIGTERM and SIGINT that are not handled kill. `LogLevel` 1 (errors) and 3 (the
  default).
- *Rows* (`MaxRows` 3, window 1, two counters or one that does not exist): a row
  before, in and after the window, lists that differ in length.
- *Databases* (three of the four types, one or two counters): one type without a
  file, two of the same kind, one of the other; configurations that lack a group,
  have nothing raw, a counter no table is made for, entries without an
  identifier, and counters that share a table or an identifier. The number of runs is not bounded.

`CHECK_DEADLOCK FALSE` is in the runs of programs that really stop, or that reach
the bound of their clock; `createdb_runs` has no bound and checks for deadlock.

### Fairness

- `WF(LoopStep)`, `WF(MainStep)`, `WF(ThreadStep)`, `WF(ToolStep)`: a thread or
  process that can take a step takes one. In `TaskSched` this includes that
  commands end. `Measure`, `P1Parser` and `CreateDb` state no liveness and have no
  fairness.
- `SpecSending` adds that the meter sends and that noise ends. Only properties
  about such a meter use it; `loop_silent` shows what happens without.
- `DaemonSpec`: both threads take their steps, and neither `meterd_log` nor a
  handler stays where it is unless it waits for a lock. Strong fairness there
  (`SF(LogGoesOn)`, `SF(HandlerStep)`) says that a lock which is free again and
  again is obtained in the end; a lock that is never given back keeps its waiter,
  as in `daemon_info`. The measurement loop, once interrupted, returns
  (`SF(LoopInterrupted)`): that is `StopsWhenAsked` of `MeasureLoop`, for a meter
  that keeps sending. It is strong because the loop may log in between, which it
  cannot do for ever: it hands over no more than one further telegram
  (`AtMostOneLate`).
- Nothing makes the clock advance, the loop return, a signal arrive, or the
  daemon record. `OverdueStarts`, for instance, starts from a task that is
  overdue already.

### Where code and documentation differ

1. `measure_misaligned`: timers are kept per counter, so one telegram that lacks
   a counter leaves the tables with different timestamps for good;
   `meterd_output.c:240` relies on their being the same.
2. `loop_silent`: `run_measurement` is looked at between telegrams only, and
   `signal()` restarts the read: SIGTERM waits for the meter.
3. `daemon_info`: the handler calls `meterd_log` before it clears
   `run_measurement`. When it has interrupted its thread inside `localtime` or
   `syslog`, whose locks are not recursive, it waits for ever.
4. `tasks_slow`: `last_executed` is set to the time at which the scan began, not to
   the time at which the task's turn came. Behind a slow command a task starts
   late, counts as started early, and is due again before its interval is over.
5. `query_samples`: with `-j` the next query starts a skip after the last
   query, not after the row it found.

## 4. What is proved

The theorems hold for every value of the constants that satisfies the `ASSUME`s
of the module (any counters, telegrams, intervals, clock bound, combination of
faults; any number of tasks and commands).

- **`TypeCorrect`** (`MeasureProofs`): `Spec => []TypeOK`. `TypeOK` is
  inductive as it stands. Its work is in the accumulators: lemmas on `Plus`,
  `NextAverage`, `Row` and `Gain` say that what a reading does to them stays in
  the type.
- **`ReadingsConserved`** (`MeasureProofs`): `Spec => []Conserved`. Inductive
  together with `TypeOK`, which is needed because `Plus` is commutative and
  associative on amounts only. For `Record` the proof is by counter and
  database: not addressed, so all four terms stay; added to the average, so
  given and pending grow alike; closing the average, so pending moves into
  stored or lost with the new reading. A new process moves pending to lost.
- **`TasksFreedAfterUse`** (`TaskSchedProofs`): `Spec => []FreedAfterUse`.
  The property is not inductive: it says nothing of the moments between the loop
  and the free. The invariant `Handover` adds them: the list is freed only once
  the main thread is done; from `finalize` on the thread is absent or has
  left; it starts only from `start`; and as long as it runs and the main thread
  has not begun to stop, `tasksched_run` is set, so that `Stop` goes to the join.
- **`TasksTypeCorrect`**, **`NoTaskLeftBehind`**, **`TasksRunAllOrHalt`**
  (`TaskSchedProofs`): `TypeOK`, `NoneOverdue` and `RunsAllOrHalts`. They share
  `AtWork` (while a command runs, `task_it` is at its task). `NoneOverdue` speaks
  of the moment the thread goes to sleep; `Scanned` extends it to the whole scan,
  for the tasks in front of `task_it`. `RunsAllOrHalts` leaves out the task that
  is running; `Outcomes` adds that all its commands so far succeeded and one is
  left. It needs `Handover`, for starting the thread must not interrupt a
  command.
- **`MeasureImplementsSeries`** (`MeasureProofs`): `Spec => ImplementsSeries`.
  `NextIsSeriesStep` maps each action: a reading of another counter is `Pass`, the end
  of a telegram and the clock leave a series alone, `Receive` is its next telegram,
  a reading is `Take`, `Close` or, when the INSERT fails, `CloseLost`, and a new
  process is `NewProcess`. A reading has to be consumed by every series at once, by
  `Pass` in those of other counters: that the accumulators of two counters or two
  databases do not touch each other is what the step shows. It rests on `TypeOK` and
  on `OneTelegram` (no telegram is received before the last one was gone
  through).
- **`DaemonKeepsScheduler`** (`DaemonProofs`): `DaemonSpec` keeps `TypeOK`,
  `FreedAfterUse`, `NoneOverdue` and `RunsAllOrHalts`. `DaemonStepRefines` shows
  that a step of the daemon is one of `TaskSched` or leaves its variables alone,
  so the invariants proved there carry over.
- **`NothingLoggedAfterClose`** and **`KillsOnlyAtRest`** (`DaemonProofs`):
  `DaemonSpec => []NoLogAfterClose` and `DaemonSpec => []KilledAtRest`, at any log
  level. Each is about one moment; the invariant `Takedown` says how the daemon
  gets there: `phase` and `main` agree; handlers are there from before the loop
  until after it; once the thread is joined it is neither in the log nor in a
  handler; with the handlers removed no handler is left in the main
  thread, and so none at all; and only then is the log closed. It
  needs `Handover` for the join: without it a signal could kill the daemon in the
  middle of a command. The type invariant (`DaemonTypeOK`) is part of the proof.
- **`AveragesInRange`** (`MeasureProofs`): `Spec => []AverageInRange`. A row is
  an accumulator and one more reading; `SumsInRange` says that what an accumulator
  holds lies between its counter times the smallest and the largest reading, and
  `BetweenAdd` that a reading keeps it there.
- **`RowsSpaced`** (`MeasureProofs`): `TimesFit /\ Spec => []Spaced`. The
  invariant `TablesTimed` says that the newest row of this process is not later
  than the timer of its table (earlier when an INSERT failed after it), and that a
  table without a timer gets no rows. The next row is an interval after the
  timer. `TimesFit` is what it needs: a clock that fits `db_ts` (the year
  2038), and a `total_interval` that is not negative, for otherwise a timer could
  move back; the code checks neither.
- **`NoCounterStale`** (`MeasureProofs`): `ClockFits /\ NothingFails /\ EpochLate /\
  Spec => []NeverStale`. While every INSERT succeeds, the timer of a table is
  exactly the time of its newest row, or zero as long as the process has written
  none (`TablesFresh`); `NoneStale` says the property for the counters entered so
  far. Its hypotheses are those of the run: the clock fits `db_ts` and started
  later than any interval, INSERTs succeed. Restarts, crashes and a clock that is
  set back are in it.
- **`RowsChronological`** (`MeasureProofs`): `ClockFits /\ ClockKept /\ Spec =>
  []Chronological`. No row is later than the time of the telegram at hand or, between
  telegrams, the clock (`InOrderSoFar`). INSERTs may fail, processes may die; the
  clock must not be set back, for then the property is false.
- **`TablesAligned`** (`MeasureProofs`): `EveryCounterOnce /\ NotBrokenOff /\
  NothingFails /\ Spec => []Aligned`, for any number of counters. In the middle of
  a telegram tables do differ. The invariant `Alike` looks at each table, and its
  timer, as they will be at the end of the telegram (`LenAfter`, `TimeAfter`,
  `TimerAfter`): the row it is due for is added in advance, and then all are the
  same. `Progress` says that each counter is either entered or still to come, once.
  The hypotheses are needed: a telegram without one of the counters is
  `measure_misaligned`.
- **`ParserTyped`**, **`ReadsLines`**, **`LeaksOnlyAtThese`** (`P1ParserProofs`):
  `TypeOK`, `ReadsWhatIsThere` and `LeaksOnlyThere`, for telegrams of any length and
  whichever allocation fails. The
  reference definition decides for each line, from the whole telegram, whether it is
  the value of the gas header before it (`TakenAsGas`); `FlagAgrees` says that
  `next_is_gas` tells the same of the line at hand. `CountsAfter` and `PlaceInList`
  say where in the list the entry of a line is. For the heap `RestApart` says that
  what a line leaves behind is apart from the blocks of the line at hand, so that
  a `free` takes away what it should and nothing else (`EndOfLineLeaks`,
  `WithinLineLeaks`).
- **`CreateDbTyped`**, **`FinishedComplete`**, **`NoHalfDatabase`**, **`SchemasAgree`**,
  **`ReadingsKept`** (`CreateDbProofs`): `TypeOK`, `FinishedIsComplete`, `WholeOrAbsent`,
  `SchemaAgrees` and `KeepsReadings`, for any configuration in which each type has a
  file of its own. The invariant follows a run: the types in front of the one at
  hand are done (`DoneSoFar`), a database is half made only while it is made or
  after a kill (`HalfMade`), no statement that repeats a table or an identifier
  was executed (`NoClash`, from which `SchemaAgrees` has distinct tables), and
  readings are in files that are there (`RowsThere`).
- **`QueryTyped`**, **`LinesPaired`**, **`WindowPrinted`**, **`RangeCorrect`**
  (`QueryProofs`): `TypeOK`, `Paired`, `PrintsWindow` and `RangeSpans`, for tables of any
  length, any list of counters and every interleaving of SELECTs and INSERTs. Tables
  grow at their end only, so the row that is printed k-th of a table (`RowAt`: the
  k-th of the window, or with `-j` the first since the k-th sample time) stays what
  it is (`RowStays`), and `Shown` can say of each list and each line, whenever it
  was read, that it has the rows of the table as it is now. `Agree` is what the
  daemon guarantees: two tables differ by the row of the telegram at hand, at
  most. `LinesPaired` follows from the two. `InWindow` adds that a list and the
  lines together have at least the rows its table had at the start (`Owed`), and
  `RangeSoFar` is the range while the lines are in order.
- Lemmas they share (`SubsequenceProofs`): `UpToDefined` (the recursive function
  of `ElementsAt` exists and has the type expected), `ElementsAreOfIt`,
  `ElementsAppend` (an element more at the end of the list is one more at the end of
  the result, or none), and `InductionTo`, induction over an interval for a set
  instead of a predicate, from the well-foundedness of `<`.
- **`LoopTypeCorrect`**, **`ListNotUsedAfterFree`**, **`OneTelegramAfterStop`**
  (`MeasureLoopProofs`): `TypeOK`, `NoUseAfterFree` and `AtMostOneLate`. `TypeOK` needs
  `Begun` (in mid-telegram the list is not empty). `Restarted` is why restarted
  reads are enough for the second: no error is then `EINTR`, so a read that fails
  is the last. `Latest` is why one telegram is all: the test comes right after it.
- **`TelegramsWhole`** and **`TelegramsInOrder`** (`MeasureLoopProofs`): `Spec =>
  []Whole` and `Spec => InOrder`, for telegrams and queues of any length. The
  invariant `Flow` follows the lines from the meter to the loop: the queue is a
  stretch of what the meter sends (`Linked`), the list is the beginning of a
  telegram (`Gathered`), the next line (`Coming`) continues it, and between
  telegrams it opens the one after `last`. All of it while no line was lost.

Every invariant and action property that a passing run checks is proved. Only
model-checked is liveness, which is out of the prover's reach together with
fairness and ENABLED: `Recovers`, `StopsWhenAsked`, `HangUpEnds`, `KeepsMeasuring`,
`OverdueStarts`, `StopEnds`, `StopHeeded` and `Ends`. What the regular
expressions and number formats do is not in the models, and so in no theorem.

## 5. Not modelled

- Regular expressions, number parsing and unit strings: data no property tells
  apart.
- Terminal settings, apart from canonical mode and the flush; the baud rate.
- Options and help, the GNUplot layout, messages: wording and layout.
- `dump_telegram`: file output that nothing else depends on. Its unchecked writes
  are listed as a hazard.
- The pid file, the parent after a fork, signals that only log.
- The text in the log's static buffers: that it may be mixed is plain from the
  code. What the log's locks do to the daemon is in `Daemon`.
- SQLite: a statement takes effect or fails. Each handle is used by one thread;
  what processes do to each other is what SQLite's own locks allow.
- `utlist.h`, `uthash.h`: lists are sequences.

Assumptions made instead: entries of the `counter_spec` list are distinct and each has
its own table; a database whose INSERT fails fails it for all entries of that
reading; at least one counter is selected for output (with none, the merging
loop has no exit); every type of database has a file of its own; a log file is
configured; `localtime` and `syslog` each hold a lock that a handler cannot enter
again, as in glibc; `-j` is not negative (see `Ends` above).

## 6. Plan

1. Done: `Measure` with `AverageSeries`, `P1Parser`, `MeasureLoop`, `TaskSched`,
   `Daemon`, `Config`, `Query` and `CreateDb` with the runs above.
   Proved: every invariant and action property of the passing runs.
2. Proofs that are left: what a configuration yields (`CounterSpecs`,
   `ScheduledTasks`: every task has a positive interval and a command, no usable
   entry is skipped), as lemmas; that the assumption of `Query` on the tables,
   which differ by one telegram at most, is what `TablesAligned` shows.
3. An abstract `TelegramStream` for `MeasureLoop`, as `AverageSeries` is for
   `Measure`, with the refinement proved.
4. The GNUplot branch and the column sums of the output tool.
