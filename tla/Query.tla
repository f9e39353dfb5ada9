-------------------------------- MODULE Query --------------------------------
(***************************************************************************)
(* The output tool (src/meterd_output.c with meterd_db_get_results of      *)
(* src/db.c): the rows of each selected counter since now - interval are   *)
(* read, one SELECT per counter or, with -j, one SELECT per sample, and    *)
(* the lists are then merged row by row into lines.                        *)
(*                                                                         *)
(* The daemon goes on recording meanwhile: the readings of a telegram are  *)
(* inserted one by one, all with the time of the telegram, and a SELECT    *)
(* may come between any two of them.  That the tables of a database agree  *)
(* in their timestamps is what Measure says (Aligned) and assumed here.    *)
(* A row is its timestamp; inversion, addition of columns and the layout   *)
(* of lines are left out.                                                  *)
(***************************************************************************)
EXTENDS Integers, Sequences, Subsequence

CONSTANTS
    Tables,         \* counters the database has a table for
    Selections,     \* lists of counters asked for with -s and -S
    Skips,          \* values of -j; 0 when it is not given
    Window,         \* interval, the value of -i
    TimeOfs,        \* timeofs, the value of -t
    MaxInt,         \* 0x7fffffff in the code
    Epoch,          \* the clock when the model starts
    MaxClock,       \* BOUND on the clock
    MaxRows         \* BOUND on the rows of a table

\* main refuses an interval that is not positive; with no counter selected the
\* loop that merges the lists never ends.  A negative -j, which main accepts too,
\* is left out: the samples then go back in time, and meterd_db_get_results finds
\* a first row for ever
ASSUME QueryAssumption ==
    /\ \A s \in Selections : s \in Seq(STRING) /\ s # << >>
    /\ Skips \subseteq Nat
    /\ Window \in Nat \ {0} /\ TimeOfs \in Int /\ MaxInt \in Nat
    /\ Epoch \in Nat /\ MaxClock \in Nat /\ MaxRows \in Nat /\ Epoch <= MaxClock
    /\ MaxClock + TimeOfs < MaxInt /\ Epoch + TimeOfs > 0

VARIABLES
    clock,          \* what time() returns
    tables,         \* the timestamp column of each table, in the order of the rows
    db_ts,          \* the daemon: the time of the telegram it records
    to_insert,      \* the daemon: counters of that telegram not inserted yet
    pc,             \* the tool: "start", "select", "merge", "done", "failed"
    sel_counters, skip_time,    \* its arguments
    i,              \* index of the counter being selected
    select_from,
    timestamp,      \* where the next sample starts
    results,        \* a list for each selected counter
    lines,          \* the lines printed: their time and the rows they show
    min_x, max_x,
    outfile,        \* "none", "partial" or "whole"
    before          \* history: the length of each table when the tool started

daemon == <<clock, tables, db_ts, to_insert>>
args == <<sel_counters, skip_time>>
range == <<lines, min_x, max_x>>
vars == <<daemon, args, pc, i, select_from, timestamp, results, range, outfile, before>>

Init ==
    /\ clock = Epoch
    /\ tables = [c \in Tables |-> << >>]
    /\ db_ts = 0
    /\ to_insert = {}
    /\ pc = "start"
    /\ sel_counters \in Selections
    /\ skip_time \in Skips
    /\ i = 1
    /\ select_from = 0
    /\ timestamp = 0
    /\ results = [j \in DOMAIN sel_counters |-> << >>]
    /\ lines = << >>
    /\ min_x = MaxInt
    /\ max_x = 0
    /\ outfile = "none"
    /\ before = [c \in Tables |-> 0]

-----------------------------------------------------------------------------
(***************************************************************************)
(* The daemon                                                              *)
(***************************************************************************)
tool == <<args, pc, i, select_from, timestamp, results, range, outfile, before>>

Telegram ==
    /\ to_insert = {}
    /\ \A c \in Tables : Len(tables[c]) < MaxRows
    /\ db_ts' = clock
    /\ to_insert' = Tables
    /\ UNCHANGED <<clock, tables, tool>>

InsertRow(c) ==
    /\ c \in to_insert
    /\ to_insert' = to_insert \ {c}
    /\ tables' = [tables EXCEPT ![c] = Append(@, db_ts)]
    /\ UNCHANGED <<clock, db_ts, tool>>

Tick ==
    /\ clock < MaxClock
    /\ clock' = clock + 1
    /\ UNCHANGED <<tables, db_ts, to_insert, tool>>

\* the clock is set back: rows are not in the order of time any more
SetBack ==
    /\ clock > Epoch
    /\ clock' = clock - 1
    /\ UNCHANGED <<tables, db_ts, to_insert, tool>>

-----------------------------------------------------------------------------
(***************************************************************************)
(* The tool: meterd_output                                                 *)
(***************************************************************************)

\* the time is read, then the file and the database are opened
Open ==
    /\ pc = "start"
    /\ pc' = "select"
    /\ select_from' = clock - Window
    /\ timestamp' = clock - Window
    /\ outfile' = "partial"
    /\ before' = [c \in Tables |-> Len(tables[c])]
    /\ UNCHANGED <<daemon, args, i, results, range>>

OpenFails ==
    /\ pc = "start"
    /\ pc' = "failed"
    /\ UNCHANGED <<daemon, args, i, select_from, timestamp, results, range, outfile, before>>

(***************************************************************************)
(* meterd_db_get_results for one counter.  Each SELECT sees the rows as    *)
(* they are when it runs.                                                  *)
(***************************************************************************)
Counter == sel_counters[i]

\* SELECT * FROM ... WHERE timestamp >= from
Since(s, from) == ElementsAt(s, {k \in DOMAIN s : s[k] >= from})

\* mutant: the index goes past the last counter
NextCounterTooFar ==
    /\ pc' = IF i = Len(sel_counters) THEN "merge" ELSE "select"
    /\ i' = i + 1
    /\ timestamp' = select_from
NextCounter ==
    /\ IF i = Len(sel_counters) THEN pc' = "merge" /\ i' = i ELSE pc' = pc /\ i' = i + 1
    /\ timestamp' = select_from

\* mutants: the time is read again for every counter, and the row at the start
\* of the window is left out
SelectOwnTime ==
    /\ pc = "select" /\ skip_time = 0 /\ Counter \in Tables
    /\ results' = [results EXCEPT ![i] = Since(tables[Counter], clock - Window)]
    /\ NextCounter
    /\ UNCHANGED <<daemon, args, select_from, range, outfile, before>>
SelectAfter ==
    /\ pc = "select" /\ skip_time = 0 /\ Counter \in Tables
    /\ results' = [results EXCEPT ![i] = Since(tables[Counter], select_from + 1)]
    /\ NextCounter
    /\ UNCHANGED <<daemon, args, select_from, range, outfile, before>>

\* all rows since select_from
Select ==
    /\ pc = "select" /\ skip_time = 0 /\ Counter \in Tables
    /\ results' = [results EXCEPT ![i] = Since(tables[Counter], select_from)]
    /\ NextCounter
    /\ UNCHANGED <<daemon, args, select_from, range, outfile, before>>

\* the first row since timestamp (LIMIT 1), until there is none
Sample ==
    /\ pc = "select" /\ skip_time > 0 /\ Counter \in Tables
    /\ LET found == Since(tables[Counter], timestamp) IN
       IF found = << >> THEN NextCounter /\ UNCHANGED results
       ELSE /\ results' = [results EXCEPT ![i] = Append(@, Head(found))]
            /\ timestamp' = timestamp + skip_time
            /\ UNCHANGED <<pc, i>>
    /\ UNCHANGED <<daemon, args, select_from, range, outfile, before>>

\* the counter has no table or the database is locked: the file is removed
SelectFails ==
    /\ pc = "select"
    /\ pc' = "failed"
    /\ outfile' = "none"
    /\ UNCHANGED <<daemon, args, i, select_from, timestamp, results, range, before>>

(***************************************************************************)
(* The merge: one line from the head of every list, with the time of the   *)
(* first, until a list is empty.                                           *)
(***************************************************************************)
Exhausted == \E j \in DOMAIN results : results[j] = << >>
Heads == [j \in DOMAIN results |-> Head(results[j])]
Time == Heads[1] + TimeOfs

\* mutant: the largest time is not kept
PrintLineNoMax ==
    /\ pc = "merge" /\ ~Exhausted
    /\ lines' = Append(lines, [ts |-> Time, rows |-> Heads])
    /\ min_x' = IF Time < min_x THEN Time ELSE min_x
    /\ UNCHANGED max_x
    /\ results' = [j \in DOMAIN results |-> Tail(results[j])]
    /\ UNCHANGED <<daemon, args, pc, i, select_from, timestamp, outfile, before>>

\* if (ts < min_x) ... else if (ts > max_x)
PrintLine ==
    /\ pc = "merge" /\ ~Exhausted
    /\ lines' = Append(lines, [ts |-> Time, rows |-> Heads])
    /\ IF Time < min_x THEN min_x' = Time /\ UNCHANGED max_x
       ELSE UNCHANGED min_x /\ max_x' = IF Time > max_x THEN Time ELSE max_x
    /\ results' = [j \in DOMAIN results |-> Tail(results[j])]
    /\ UNCHANGED <<daemon, args, pc, i, select_from, timestamp, outfile, before>>

\* mutant: all lists must be empty
FinishAllEmpty ==
    /\ pc = "merge" /\ \A j \in DOMAIN results : results[j] = << >>
    /\ pc' = "done"
    /\ outfile' = "whole"
    /\ UNCHANGED <<daemon, args, i, select_from, timestamp, results, range, before>>

\* what is left of the longer lists is freed, the file is closed
Finish ==
    /\ pc = "merge" /\ Exhausted
    /\ pc' = "done"
    /\ results' = [j \in DOMAIN results |-> << >>]
    /\ outfile' = "whole"
    /\ UNCHANGED <<daemon, args, i, select_from, timestamp, range, before>>

DaemonStep == Telegram \/ (\E c \in Tables : InsertRow(c)) \/ Tick \/ SetBack
ToolStep == Open \/ OpenFails \/ Select \/ Sample \/ SelectFails \/ PrintLine \/ Finish

Next == DaemonStep \/ ToolStep

\* the tool is a running process; nothing makes the daemon record
Spec == Init /\ [][Next]_vars /\ WF_vars(ToolStep)

-----------------------------------------------------------------------------
(***************************************************************************)
(* Properties                                                              *)
(***************************************************************************)

\* The type of every variable.
TypeOK ==
    /\ clock \in Nat /\ db_ts \in Nat
    /\ tables \in [Tables -> Seq(Nat)]
    /\ to_insert \subseteq Tables
    /\ pc \in {"start", "select", "merge", "done", "failed"}
    /\ sel_counters \in Selections /\ skip_time \in Skips
    /\ i \in DOMAIN sel_counters
    /\ select_from \in Int /\ timestamp \in Int
    /\ results \in [DOMAIN sel_counters -> Seq(Nat)]
    /\ lines \in Seq([ts : Int, rows : [DOMAIN sel_counters -> Nat]])
    /\ min_x \in Int /\ max_x \in Int
    /\ outfile \in {"none", "partial", "whole"}
    /\ before \in [Tables -> Nat]

\* Every line shows rows of one time, the time printed in front of it, although
\* the lists were read at different moments with rows coming in between, one
\* table at a time, and whatever the order of their times
\* (meterd_output.c:238, where only the first list is asked for its time).
Paired ==
    \A k \in 1 .. Len(lines) : \A j \in DOMAIN lines[k].rows :
        lines[k].rows[j] + TimeOfs = lines[k].ts

\* the rows a table had when the tool read the time
WhenStarted(c) == SubSeq(tables[c], 1, before[c])

\* Without -j the lines are the rows since now - interval: those that were in
\* every selected table when the tool started are all printed, once and in the
\* order of the table, and after them only rows that came since.
PrintsWindow ==
    pc = "done" /\ skip_time = 0 =>
        LET printed == [k \in DOMAIN lines |-> lines[k].ts - TimeOfs]
            all == Since(tables[sel_counters[1]], select_from)
        IN  /\ Len(printed) <= Len(all)
            /\ printed = SubSeq(all, 1, Len(printed))
            /\ \E j \in DOMAIN sel_counters :
                  Len(printed) >= Len(Since(WhenStarted(sel_counters[j]), select_from))

\* "set xrange": when the lines are in the order of time and there are at least
\* two, the range is from the first to the last (for one line, or lines in
\* falling order, the largest time is never set).
RangeSpans ==
    /\ pc = "done"
    /\ Len(lines) > 1
    /\ \A k \in 1 .. Len(lines) - 1 : lines[k].ts < lines[k + 1].ts
    => min_x = lines[1].ts /\ max_x = lines[Len(lines)].ts

\* The tool ends, with rows coming in while it reads, lists of different length
\* and, with -j, samples taken one by one.
Ends == <>(pc \in {"done", "failed"})

\* "Skip <seconds> between each query results": the lines are at least that far
\* apart.
SamplesApart ==
    skip_time > 0 =>
        \A k \in 1 .. Len(lines) - 1 : lines[k + 1].ts - lines[k].ts >= skip_time
=============================================================================
