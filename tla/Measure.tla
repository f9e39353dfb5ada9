------------------------------ MODULE Measure ------------------------------
(***************************************************************************)
(* The recording half of meterd's measurement loop (src/measure.c): every  *)
(* telegram that was received and parsed becomes a list of readings, and   *)
(* each reading is entered in the databases of every configured counter    *)
(* with its identifier.  A raw counter is recorded as it is and also feeds *)
(* a five-minute and an hourly average; a totals counter is recorded once  *)
(* per total_interval.                                                     *)
(*                                                                         *)
(* The wall clock runs on its own (it may also be set back), so does an    *)
(* INSERT that fails (meterd_db_record then only logs a warning), and the  *)
(* daemon may be stopped and started again or die between two readings.    *)
(* How a telegram is received and parsed is in MeasureLoop and P1Parser.   *)
(***************************************************************************)
EXTENDS Integers, Sequences

CONSTANTS
    RawCounters,    \* counter_spec entries of type COUNTER_TYPE_RAW
    TotalCounters,  \* counter_spec entries of the other types
    IdOf,           \* the identifier each entry is configured with
    Ids,            \* identifiers that occur in telegrams or entries
    MinValue, MaxValue,   \* the readings lie between these
    Telegrams,      \* lists of readings the parser may deliver
    OpenDbs,        \* databases meterd_measure_init managed to open
    FiveMin, Hour,  \* 300 and 3600 in the code
    TotalInterval,  \* total_interval of the configuration
    IntMax,         \* 2^31 in the code: db_ts is a 32-bit int
    Epoch,          \* earliest value of the clock
    MaxClock,       \* BOUND on the clock
    MaxTelegrams,   \* BOUND on the number of telegrams
    StepBack,       \* how far the clock may be set back
    Faults          \* which of "insert", "stepback", "restart", "crash" occur

AverageDbs == {"fivemin", "hourly"}
RawDbs == {"raw"} \cup AverageDbs
Dbs == RawDbs \cup {"total"}
Counters == RawCounters \cup TotalCounters
Readings == [id : Ids, value : MinValue..MaxValue]

ASSUME CountersAssumption ==
    /\ RawCounters \cap TotalCounters = {}
    /\ IdOf \in [Counters -> Ids]
    /\ MinValue \in Int /\ MaxValue \in Int
    /\ Telegrams \subseteq Seq(Readings)
ASSUME DbsAssumption == OpenDbs \subseteq Dbs /\ OpenDbs # {}
ASSUME TimeAssumption ==
    /\ FiveMin \in Nat \ {0} /\ Hour \in Nat \ {0} /\ TotalInterval \in Int
    /\ Epoch \in Nat /\ MaxClock \in Nat /\ StepBack \in Nat
    /\ IntMax \in Nat \ {0}
    /\ MaxTelegrams \in Nat

VARIABLES
    clock,          \* what time() returns
    pc,             \* "receive": in meterd_comm_recv_p1; "record": in the loop below it
    now,            \* local of the loop: the time of the telegram
    p1_counters,    \* local of the loop: readings not yet entered
    avg,            \* fivemin_* and hourly_* of every raw counter_spec
    cumul_rec_ts,   \* cumul_rec_ts of every other counter_spec
    db,             \* the rows of each counter's table in each database
    \* history variables, read by the properties only
    fed,            \* sum and number of the readings a raw counter was given
    stored,         \* ... of those that are in some row of the database
    lost,           \* ... of those in a row whose INSERT failed, or pending at a stop
    base,           \* rows already in the table when this process started
    entered,        \* counters entered while handling the current telegram
    telegrams       \* number of telegrams handled

vars == <<clock, pc, now, p1_counters, avg, cumul_rec_ts, db,
          fed, stored, lost, base, entered, telegrams>>

Interval == [d \in AverageDbs |-> IF d = "fivemin" THEN FiveMin ELSE Hour]

\* mutant: a timestamp type that is too small
ToIntNarrow(t) == t % 6

\* int db_ts = (int) now
ToInt(t) == ((t + IntMax) % (2 * IntMax)) - IntMax

(***************************************************************************)
(* Amounts: a sum of readings together with how many they are.             *)
(***************************************************************************)
Amounts == [sum : Int, n : Nat]
Nothing == [sum |-> 0, n |-> 0]
Plus(a, b) == [sum |-> a.sum + b.sum, n |-> a.n + b.n]
Pending(d, c) == IF d \in AverageDbs
                 THEN [sum |-> avg[d][c].cumul, n |-> avg[d][c].ctr]
                 ELSE Nothing

(***************************************************************************)
(* A row: the timestamp column and, for the value column sum/n, the        *)
(* dividend and the divisor.                                               *)
(***************************************************************************)
Rows == [ts : Int, sum : Int, n : Nat]
Accumulators == [cumul : Int, ctr : Nat, ts : Int]
FreshAverages == [d \in AverageDbs |->
                    [c \in RawCounters |-> [cumul |-> 0, ctr |-> 0, ts |-> 0]]]
FreshTotals == [c \in TotalCounters |-> 0]

Init ==
    /\ clock = Epoch
    /\ pc = "receive"
    /\ now = 0
    /\ p1_counters = << >>
    /\ avg = FreshAverages
    /\ cumul_rec_ts = FreshTotals
    /\ db = [d \in Dbs |-> [c \in Counters |-> << >>]]
    /\ fed = [c \in RawCounters |-> Nothing]
    /\ stored = [d \in RawDbs |-> [c \in RawCounters |-> Nothing]]
    /\ lost = [d \in RawDbs |-> [c \in RawCounters |-> Nothing]]
    /\ base = [d \in Dbs |-> [c \in Counters |-> 0]]
    /\ entered = {}
    /\ telegrams = 0

-----------------------------------------------------------------------------
(***************************************************************************)
(* A telegram arrives and is parsed; its time is read once, here.          *)
(***************************************************************************)
Receive(t) ==
    /\ pc = "receive"
    /\ telegrams < MaxTelegrams
    /\ pc' = "record"
    /\ p1_counters' = t
    /\ now' = clock
    /\ entered' = {}
    /\ telegrams' = telegrams + 1
    /\ UNCHANGED <<clock, avg, cumul_rec_ts, db, fed, stored, lost, base>>

(***************************************************************************)
(* The body of LL_FOREACH(p1_counters, ...): the first reading is entered  *)
(* for every counter_spec with its identifier.                             *)
(***************************************************************************)
Reading == Head(p1_counters)
\* mutant: the result of strcmp is taken for "equal"
MatchesOthers(c) == IdOf[c] # Reading.id
Matches(c) == IdOf[c] = Reading.id
\* mutants: the interval is over one second early, or one second late
ElapsedEarly(ts, interval) == now - ts + 1 >= interval
ElapsedLate(ts, interval) == now - ts > interval
Elapsed(ts, interval) == now - ts >= interval

Add(a) == [cumul |-> a.cumul + Reading.value, ctr |-> a.ctr + 1, ts |-> a.ts]
AverageDue(d, c) == d \in OpenDbs /\ Elapsed(avg[d][c].ts, Interval[d])
TotalDue(c) == "total" \in OpenDbs /\ Elapsed(cumul_rec_ts[c], TotalInterval)

\* mutants of the reset after an average: a counter that is one too low, one
\* that keeps the sum, one that keeps the counter, and one that starts the next
\* average with the reading that closed this one
NextAverageLow(d, c) ==
    IF ~Matches(c) THEN avg[d][c]
    ELSE IF AverageDue(d, c) THEN [cumul |-> 0, ctr |-> -1, ts |-> now]
    ELSE Add(avg[d][c])
NextAverageKeepsSum(d, c) ==
    IF ~Matches(c) THEN avg[d][c]
    ELSE IF AverageDue(d, c) THEN [Add(avg[d][c]) EXCEPT !.ctr = 0, !.ts = now]
    ELSE Add(avg[d][c])
NextAverageKeepsCtr(d, c) ==
    IF ~Matches(c) THEN avg[d][c]
    ELSE IF AverageDue(d, c) THEN [Add(avg[d][c]) EXCEPT !.cumul = 0, !.ts = now]
    ELSE Add(avg[d][c])
NextAverageTwice(d, c) ==
    IF ~Matches(c) THEN avg[d][c]
    ELSE IF AverageDue(d, c) THEN [cumul |-> Reading.value, ctr |-> 1, ts |-> now]
    ELSE Add(avg[d][c])

NextAverage(d, c) ==
    IF ~Matches(c) THEN avg[d][c]
    ELSE IF AverageDue(d, c) THEN [cumul |-> 0, ctr |-> 0, ts |-> now]
    ELSE Add(avg[d][c])

Writes(d, c) ==
    /\ Matches(c)
    /\ \/ d = "raw" /\ c \in RawCounters /\ d \in OpenDbs
       \/ d \in AverageDbs /\ c \in RawCounters /\ AverageDue(d, c)
       \/ d = "total" /\ c \in TotalCounters /\ TotalDue(c)

\* mutant: a row has the time at which it is written
RowAtClock(d, c) ==
    IF d \in AverageDbs
    THEN [ts |-> ToInt(clock), sum |-> Add(avg[d][c]).cumul, n |-> Add(avg[d][c]).ctr]
    ELSE [ts |-> ToInt(clock), sum |-> Reading.value, n |-> 1]

Row(d, c) ==
    IF d \in AverageDbs
    THEN [ts |-> ToInt(now), sum |-> Add(avg[d][c]).cumul, n |-> Add(avg[d][c]).ctr]
    ELSE [ts |-> ToInt(now), sum |-> Reading.value, n |-> 1]

\* meterd_db_record: a failed INSERT is a warning, the caller is told MRV_OK
Insert(d, c, failed) ==
    IF Writes(d, c) /\ d \notin failed THEN Append(db[d][c], Row(d, c)) ELSE db[d][c]

\* what the history variable h[d][c] gains when a row goes to a database in where
Gain(h, d, c, where) ==
    IF Writes(d, c) /\ d \in where
    THEN Plus(h[d][c], [sum |-> Row(d, c).sum, n |-> Row(d, c).n])
    ELSE h[d][c]

Record(failed) ==
    /\ pc = "record"
    /\ p1_counters # << >>
    /\ p1_counters' = Tail(p1_counters)
    /\ avg' = [d \in AverageDbs |-> [c \in RawCounters |-> NextAverage(d, c)]]
    /\ cumul_rec_ts' = [c \in TotalCounters |->
                          IF Matches(c) /\ TotalDue(c) THEN now ELSE cumul_rec_ts[c]]
    /\ db' = [d \in Dbs |-> [c \in Counters |-> Insert(d, c, failed)]]
    /\ fed' = [c \in RawCounters |->
                 IF Matches(c) THEN Plus(fed[c], [sum |-> Reading.value, n |-> 1]) ELSE fed[c]]
    /\ stored' = [d \in RawDbs |-> [c \in RawCounters |-> Gain(stored, d, c, RawDbs \ failed)]]
    /\ lost' = [d \in RawDbs |-> [c \in RawCounters |-> Gain(lost, d, c, failed)]]
    /\ entered' = entered \cup {c \in Counters : Matches(c)}
    /\ UNCHANGED <<clock, pc, now, base, telegrams>>

\* the readings are exhausted: everything is freed and the loop goes round
EndTelegram ==
    /\ pc = "record"
    /\ p1_counters = << >>
    /\ pc' = "receive"
    /\ UNCHANGED <<clock, now, p1_counters, avg, cumul_rec_ts, db,
                   fed, stored, lost, base, entered, telegrams>>

-----------------------------------------------------------------------------
(***************************************************************************)
(* A new process: the counter_spec list is rebuilt with every field zero,  *)
(* whatever the averages had accumulated is gone (meterd_measure_finalize  *)
(* records nothing).                                                       *)
(***************************************************************************)
NewProcess ==
    /\ pc' = "receive"
    /\ now' = 0
    /\ p1_counters' = << >>
    /\ avg' = FreshAverages
    /\ cumul_rec_ts' = FreshTotals
    /\ lost' = [d \in RawDbs |-> [c \in RawCounters |-> Plus(lost[d][c], Pending(d, c))]]
    /\ base' = [d \in Dbs |-> [c \in Counters |-> Len(db[d][c])]]
    /\ entered' = {}
    /\ UNCHANGED <<clock, db, fed, stored, telegrams>>

\* SIGTERM and a new start: the loop is left between two telegrams
Restart == "restart" \in Faults /\ pc = "receive" /\ NewProcess

\* the process dies inside the loop, possibly between two readings
Crash == "crash" \in Faults /\ pc = "record" /\ NewProcess

Tick ==
    /\ clock < MaxClock
    /\ clock' = clock + 1
    /\ UNCHANGED <<pc, now, p1_counters, avg, cumul_rec_ts, db,
                   fed, stored, lost, base, entered, telegrams>>

SetBack ==
    /\ "stepback" \in Faults
    /\ clock - StepBack >= Epoch
    /\ clock' = clock - StepBack
    /\ UNCHANGED <<pc, now, p1_counters, avg, cumul_rec_ts, db,
                   fed, stored, lost, base, entered, telegrams>>

Next ==
    \/ \E t \in Telegrams : Receive(t)
    \/ \E failed \in SUBSET (IF "insert" \in Faults THEN OpenDbs ELSE {}) : Record(failed)
    \/ EndTelegram
    \/ Restart
    \/ Crash
    \/ Tick
    \/ SetBack

Spec == Init /\ [][Next]_vars
-----------------------------------------------------------------------------
(***************************************************************************)
(* Properties                                                              *)
(***************************************************************************)

\* The type of every variable.
TypeOK ==
    /\ clock \in Nat
    /\ pc \in {"receive", "record"}
    /\ now \in Nat
    /\ p1_counters \in Seq(Readings)
    /\ avg \in [AverageDbs -> [RawCounters -> Accumulators]]
    /\ cumul_rec_ts \in [TotalCounters -> Int]
    /\ db \in [Dbs -> [Counters -> Seq(Rows)]]
    /\ fed \in [RawCounters -> Amounts]
    /\ stored \in [RawDbs -> [RawCounters -> Amounts]]
    /\ lost \in [RawDbs -> [RawCounters -> Amounts]]
    /\ base \in [Dbs -> [Counters -> Nat]]
    /\ entered \subseteq Counters
    /\ telegrams \in Nat

\* Every reading a raw counter was given is in exactly one row of each open
\* database, or in a row that could not be written or was pending when the
\* process stopped, or still in the accumulator: the resets in
\* meterd_measure_loop neither drop a reading nor count one twice.
Conserved ==
    \A d \in AverageDbs \cup (OpenDbs \cap {"raw"}), c \in RawCounters :
        fed[c] = Plus(Plus(stored[d][c], lost[d][c]), Pending(d, c))

\* The rows one process writes for a counter are at least the interval of
\* their database apart, whatever fails and even when the clock is set back
\* between two telegrams (the two comparisons of now with *_ts).
Spaced ==
    \A d \in Dbs \ {"raw"}, c \in Counters :
        \A i \in base[d][c] + 1 .. Len(db[d][c]) - 1 :
            db[d][c][i + 1].ts - db[d][c][i].ts >=
                (IF d = "total" THEN TotalInterval ELSE Interval[d])

\* Every average is over at least one reading (no division by zero) and lies
\* between the smallest and the largest reading, so no accumulator is carried
\* over from one average to the next without its counter.
AverageInRange ==
    \A d \in RawDbs, c \in RawCounters : \A i \in 1 .. Len(db[d][c]) :
        LET row == db[d][c][i] IN
        /\ row.n >= 1
        /\ MinValue * row.n <= row.sum /\ row.sum <= MaxValue * row.n

\* No counter goes stale while its readings arrive: once a reading of this
\* telegram was entered, the newest row of every open database that keeps the
\* counter was written less than the interval of the database before it, or at
\* that very telegram (when no INSERT fails).
NeverStale ==
    \A d \in OpenDbs, c \in entered :
        (d = "total") = (c \in TotalCounters) =>
            LET rows == db[d][c] IN
            /\ Len(rows) > base[d][c]
            /\ \/ rows[Len(rows)].ts = ToInt(now)
               \/ /\ d # "raw"
                  /\ now - rows[Len(rows)].ts <
                        (IF d = "total" THEN TotalInterval ELSE Interval[d])

\* One counter in one database of averages, as AverageSeries describes it.
Series(d, c) == INSTANCE AverageSeries
    WITH Id <- IdOf[c], Length <- Interval[d], CanFail <- "insert" \in Faults, Stamp <- ToInt,
         input <- p1_counters, open <- Pending(d, c), since <- avg[d][c].ts,
         averages <- db[d][c], lost <- lost[d][c]

SeriesInit == \A d \in OpenDbs \cap AverageDbs, c \in RawCounters : Series(d, c)!Init
SeriesStep ==
    \A d \in OpenDbs \cap AverageDbs, c \in RawCounters :
        Series(d, c)!Next \/ UNCHANGED Series(d, c)!vars

\* Every raw counter in every open database of averages is a series of its own:
\* each reading of a telegram with the identifier of the counter goes into the
\* open average of that counter, once, and a reading with another identifier into
\* none; an average is closed by the first reading that comes when its interval
\* is over and by no other; it then is a row, unless INSERTs can fail, and the next
\* one starts empty; and no row that was written changes (the loop body of
\* meterd_measure_loop, whichever INSERT fails and whenever the process ends).
ImplementsSeries == SeriesInit /\ [][SeriesStep]_vars

SameTimes(s1, s2) ==
    /\ Len(s1) = Len(s2)
    /\ \A i \in 1 .. Len(s1) : s1[i].ts = s2[i].ts

\* Between two telegrams the tables of the counters one database keeps have
\* the same timestamps row by row: what meterd_output relies on when it merges
\* them (meterd_output.c:238, "timestamps are the same in all tables per row").
Aligned ==
    pc = "receive" =>
        /\ \A d \in RawDbs, c1, c2 \in RawCounters : SameTimes(db[d][c1], db[d][c2])
        /\ \A c1, c2 \in TotalCounters : SameTimes(db["total"][c1], db["total"][c2])

\* The rows of a table are in the order of their timestamps: a reader that
\* selects without ORDER BY (meterd_db_get_results) gets them in that order.
Chronological ==
    \A d \in Dbs, c \in Counters : \A i \in 1 .. Len(db[d][c]) - 1 :
        db[d][c][i].ts <= db[d][c][i + 1].ts
=============================================================================
