--------------------------- MODULE MeasureProofs ---------------------------
(***************************************************************************)
(* What holds of Measure for every set of counters, every telegram, every  *)
(* interval and every combination of faults.                               *)
(***************************************************************************)
EXTENDS Measure, SequenceTheorems, TLAPS

-----------------------------------------------------------------------------
(***************************************************************************)
(* The pieces of the state                                                 *)
(***************************************************************************)

\* Adding two amounts gives an amount.
LEMMA PlusType ==
    ASSUME NEW a \in Amounts, NEW b \in Amounts
    PROVE  Plus(a, b) \in Amounts
  BY DEF Plus, Amounts

\* The timestamp column holds an integer whatever the time is.
LEMMA ToIntType ==
    ASSUME NEW t \in Int
    PROVE  ToInt(t) \in Int
  BY TimeAssumption DEF ToInt

\* The reading at the head of the list has an identifier and an integer value.
LEMMA ReadingType ==
    ASSUME p1_counters \in Seq(Readings), p1_counters # << >>
    PROVE  /\ Reading \in Readings
           /\ Reading.value \in Int
           /\ Reading.value >= MinValue /\ Reading.value <= MaxValue
           /\ Tail(p1_counters) \in Seq(Readings)
  <1>1. Reading \in Readings
    BY DEF Reading
  <1>2. Tail(p1_counters) \in Seq(Readings)
    OBVIOUS
  <1> QED
    BY <1>1, <1>2, CountersAssumption DEF Readings

\* What an average has accumulated is an amount.
LEMMA PendingType ==
    ASSUME TypeOK, NEW d \in RawDbs, NEW c \in RawCounters
    PROVE  Pending(d, c) \in Amounts
  BY DEF TypeOK, Pending, Amounts, Accumulators, Nothing, RawDbs

\* The accumulators and the rows an entry leads to.
LEMMA EntryType ==
    ASSUME TypeOK, p1_counters # << >>
    PROVE  /\ \A d \in AverageDbs, c \in RawCounters : Add(avg[d][c]) \in Accumulators
           /\ \A d \in Dbs, c \in Counters : Writes(d, c) => Row(d, c) \in Rows
  <1>1. Reading.value \in Int
    BY ReadingType DEF TypeOK
  <1>2. ToInt(now) \in Int
    BY ToIntType DEF TypeOK
  <1>3. ASSUME NEW d \in AverageDbs, NEW c \in RawCounters
        PROVE  Add(avg[d][c]) \in Accumulators
    <2>1. avg[d][c] \in Accumulators
      BY DEF TypeOK
    <2> QED
      BY <1>1, <2>1 DEF Add, Accumulators
  <1>4. ASSUME NEW d \in Dbs, NEW c \in Counters, Writes(d, c)
        PROVE  Row(d, c) \in Rows
    <2>1. CASE d \in AverageDbs
      <3>1. c \in RawCounters
        BY <1>4, <2>1 DEF Writes, AverageDbs
      <3>2. Add(avg[d][c]).cumul \in Int /\ Add(avg[d][c]).ctr \in Nat
        BY <1>3, <2>1, <3>1 DEF Accumulators
      <3> QED
        BY <1>2, <2>1, <3>2 DEF Row, Rows
    <2>2. CASE d \notin AverageDbs
      BY <1>1, <1>2, <2>2 DEF Row, Rows
    <2> QED
      BY <2>1, <2>2
  <1> QED
    BY <1>3, <1>4

-----------------------------------------------------------------------------
(***************************************************************************)
(* Type correctness                                                        *)
(***************************************************************************)

\* The initial state is type correct.
LEMMA InitType == Init => TypeOK
  BY TimeAssumption
     DEF Init, TypeOK, FreshAverages, FreshTotals, Accumulators, Amounts, Nothing

\* Entering one reading keeps the state type correct.
LEMMA RecordType ==
    ASSUME TypeOK, NEW failed, Record(failed)
    PROVE  TypeOK'
  <1> USE DEF Record
  <1>1. p1_counters # << >> /\ p1_counters \in Seq(Readings)
    BY DEF TypeOK
  <1>2. Reading.value \in Int /\ Tail(p1_counters) \in Seq(Readings)
    BY <1>1, ReadingType
  <1>3. avg' \in [AverageDbs -> [RawCounters -> Accumulators]]
    <2>1. ASSUME NEW d \in AverageDbs, NEW c \in RawCounters
          PROVE  NextAverage(d, c) \in Accumulators
      <3>1. avg[d][c] \in Accumulators /\ now \in Nat
        BY DEF TypeOK
      <3>2. Add(avg[d][c]) \in Accumulators
        BY <1>1, EntryType
      <3> QED
        BY <3>1, <3>2 DEF NextAverage, Accumulators
    <2> QED
      BY <2>1
  <1>4. cumul_rec_ts' \in [TotalCounters -> Int]
    BY DEF TypeOK
  <1>5. db' \in [Dbs -> [Counters -> Seq(Rows)]]
    <2>1. ASSUME NEW d \in Dbs, NEW c \in Counters
          PROVE  Insert(d, c, failed) \in Seq(Rows)
      <3>1. db[d][c] \in Seq(Rows)
        BY DEF TypeOK
      <3>2. Writes(d, c) => Row(d, c) \in Rows
        BY <1>1, EntryType
      <3> QED
        BY <3>1, <3>2 DEF Insert
    <2> QED
      BY <2>1
  <1>6. fed' \in [RawCounters -> Amounts]
    <2>1. [sum |-> Reading.value, n |-> 1] \in Amounts
      BY <1>2 DEF Amounts
    <2> QED
      BY <2>1, PlusType DEF TypeOK
  <1>7. ASSUME NEW h \in [RawDbs -> [RawCounters -> Amounts]],
               NEW d \in RawDbs, NEW c \in RawCounters, NEW where
        PROVE  Gain(h, d, c, where) \in Amounts
    <2>1. Writes(d, c) => [sum |-> Row(d, c).sum, n |-> Row(d, c).n] \in Amounts
      BY <1>1, EntryType DEF Rows, Amounts, RawDbs, Dbs, Counters
    <2> QED
      BY <2>1, PlusType DEF Gain
  <1>8. stored' \in [RawDbs -> [RawCounters -> Amounts]]
    BY <1>7 DEF TypeOK
  <1>9. lost' \in [RawDbs -> [RawCounters -> Amounts]]
    BY <1>7 DEF TypeOK
  <1>10. entered' \subseteq Counters
    BY DEF TypeOK
  <1> QED
    BY <1>2, <1>3, <1>4, <1>5, <1>6, <1>8, <1>9, <1>10 DEF TypeOK

\* A new process starts from a type-correct state.
LEMMA NewProcessType == TypeOK /\ NewProcess => TypeOK'
  <1> SUFFICES ASSUME TypeOK, NewProcess PROVE TypeOK'
    OBVIOUS
  <1> USE DEF NewProcess
  <1>1. avg' \in [AverageDbs -> [RawCounters -> Accumulators]]
    BY DEF FreshAverages, Accumulators
  <1>2. cumul_rec_ts' \in [TotalCounters -> Int]
    BY DEF FreshTotals
  <1>3. lost' \in [RawDbs -> [RawCounters -> Amounts]]
    BY PendingType, PlusType DEF TypeOK
  <1>4. base' \in [Dbs -> [Counters -> Nat]]
    <2>1. \A d \in Dbs, c \in Counters : Len(db[d][c]) \in Nat
      BY DEF TypeOK
    <2> QED
      BY <2>1
  <1> QED
    BY <1>1, <1>2, <1>3, <1>4 DEF TypeOK

\* Every step keeps the state type correct.
LEMMA NextType == TypeOK /\ [Next]_vars => TypeOK'
  <1> SUFFICES ASSUME TypeOK, [Next]_vars PROVE TypeOK'
    OBVIOUS
  <1>1. ASSUME NEW t \in Telegrams, Receive(t) PROVE TypeOK'
    BY <1>1, CountersAssumption DEF TypeOK, Receive
  <1>2. ASSUME NEW failed, Record(failed) PROVE TypeOK'
    BY <1>2, RecordType
  <1>3. CASE EndTelegram
    BY <1>3 DEF TypeOK, EndTelegram
  <1>4. CASE Restart
    BY <1>4, NewProcessType DEF Restart
  <1>5. CASE Crash
    BY <1>5, NewProcessType DEF Crash
  <1>6. CASE Tick
    BY <1>6 DEF TypeOK, Tick
  <1>7. CASE SetBack
    BY <1>7, TimeAssumption DEF TypeOK, SetBack
  <1>8. CASE UNCHANGED vars
    BY <1>8 DEF TypeOK, vars
  <1> QED
    BY <1>1, <1>2, <1>3, <1>4, <1>5, <1>6, <1>7, <1>8 DEF Next

\* The measurement state is type correct for all values of the constants.
THEOREM TypeCorrect == Spec => []TypeOK
  <1>1. Init => TypeOK
    BY InitType
  <1>2. TypeOK /\ [Next]_vars => TypeOK'
    BY NextType
  <1> QED
    BY <1>1, <1>2, PTL DEF Spec

-----------------------------------------------------------------------------
(***************************************************************************)
(* Every reading is accounted for                                          *)
(***************************************************************************)

\* An account of s stored, l lost and p pending that is given v: v may be added
\* to what is pending, or all of p and v be stored or lost; and p may be lost.
LEMMA AccountLaws ==
    ASSUME NEW s \in Amounts, NEW l \in Amounts, NEW p \in Amounts, NEW v \in Amounts
    PROVE  LET account == Plus(Plus(s, l), p) IN
           /\ Plus(account, v) = Plus(Plus(s, l), Plus(p, v))
           /\ Plus(account, v) = Plus(Plus(Plus(s, Plus(p, v)), l), Nothing)
           /\ Plus(account, v) = Plus(Plus(s, Plus(l, Plus(p, v))), Nothing)
           /\ account = Plus(Plus(s, Plus(l, p)), Nothing)
  BY DEF Plus, Amounts, Nothing

\* The account of one counter in one database, before and after its reading:
\* what is pending grows by the reading, and a row takes all of it.
LEMMA EntryBalance ==
    ASSUME TypeOK, NEW failed, Record(failed),
           NEW d \in AverageDbs \cup (OpenDbs \cap {"raw"}), NEW c \in RawCounters, Matches(c)
    PROVE  LET v == [sum |-> Reading.value, n |-> 1]
               row == [sum |-> Row(d, c).sum, n |-> Row(d, c).n]
           IN  /\ v \in Amounts
               /\ Writes(d, c) => /\ row = Plus(Pending(d, c), v)
                                  /\ Pending(d, c)' = Nothing
               /\ ~Writes(d, c) => Pending(d, c)' = Plus(Pending(d, c), v)
  <1>1. p1_counters # << >> /\ Reading.value \in Int
    BY ReadingType DEF Record, TypeOK
  <1>2. CASE d \in AverageDbs
    <2>1. avg[d][c] \in Accumulators /\ avg'[d][c] = NextAverage(d, c)
      BY <1>2 DEF TypeOK, Record
    <2>2. Writes(d, c) <=> AverageDue(d, c)
      BY <1>2 DEF Writes, AverageDbs
    <2>3. Pending(d, c) = [sum |-> avg[d][c].cumul, n |-> avg[d][c].ctr]
      BY <1>2 DEF Pending
    <2>4. Pending(d, c)' = [sum |-> NextAverage(d, c).cumul, n |-> NextAverage(d, c).ctr]
      BY <1>2, <2>1 DEF Pending
    <2>5. CASE AverageDue(d, c)
      BY <1>1, <1>2, <2>1, <2>2, <2>3, <2>4, <2>5
         DEF NextAverage, Row, Add, Plus, Nothing, Amounts, Accumulators
    <2>6. CASE ~AverageDue(d, c)
      BY <1>1, <1>2, <2>1, <2>2, <2>3, <2>4, <2>6
         DEF NextAverage, Add, Plus, Amounts, Accumulators
    <2> QED
      BY <2>5, <2>6
  <1>3. CASE d \notin AverageDbs
    <2>1. d = "raw" /\ Writes(d, c)
      BY <1>3 DEF Writes
    <2>2. Pending(d, c) = Nothing /\ Pending(d, c)' = Nothing
      BY <1>3 DEF Pending
    <2> QED
      BY <1>1, <1>3, <2>1, <2>2 DEF Row, Plus, Nothing, Amounts
  <1> QED
    BY <1>2, <1>3

\* Entering a reading keeps the account: the reading goes to what is pending,
\* to a row, or to a row that failed, and to one of them only.
LEMMA RecordConserves ==
    ASSUME TypeOK, Conserved, NEW failed, Record(failed)
    PROVE  Conserved'
  <1> SUFFICES ASSUME NEW d \in AverageDbs \cup (OpenDbs \cap {"raw"}), NEW c \in RawCounters
               PROVE  fed'[c] = Plus(Plus(stored'[d][c], lost'[d][c]), Pending(d, c)')
    BY DEF Conserved
  <1> DEFINE v == [sum |-> Reading.value, n |-> 1]
             row == [sum |-> Row(d, c).sum, n |-> Row(d, c).n]
  <1>1. /\ d \in RawDbs
        /\ fed[c] \in Amounts /\ stored[d][c] \in Amounts /\ lost[d][c] \in Amounts
        /\ Pending(d, c) \in Amounts
    BY PendingType DEF TypeOK, RawDbs
  <1>2. fed[c] = Plus(Plus(stored[d][c], lost[d][c]), Pending(d, c))
    BY DEF Conserved
  <1>3. /\ fed'[c] = IF Matches(c) THEN Plus(fed[c], v) ELSE fed[c]
        /\ stored'[d][c] = Gain(stored, d, c, RawDbs \ failed)
        /\ lost'[d][c] = Gain(lost, d, c, failed)
        /\ d \in AverageDbs => avg'[d][c] = NextAverage(d, c)
    BY <1>1 DEF Record
  <1>4. CASE ~Matches(c)
    <2>1. fed'[c] = fed[c] /\ stored'[d][c] = stored[d][c] /\ lost'[d][c] = lost[d][c]
      BY <1>3, <1>4 DEF Gain, Writes
    <2>2. Pending(d, c)' = Pending(d, c)
      BY <1>3, <1>4 DEF Pending, NextAverage
    <2> QED
      BY <1>2, <2>1, <2>2
  <1>5. CASE Matches(c) /\ ~Writes(d, c)
    <2>1. fed'[c] = Plus(fed[c], v) /\ stored'[d][c] = stored[d][c] /\ lost'[d][c] = lost[d][c]
      BY <1>3, <1>5 DEF Gain
    <2>2. v \in Amounts /\ Pending(d, c)' = Plus(Pending(d, c), v)
      BY <1>5, EntryBalance
    <2> QED
      BY <1>1, <1>2, <2>1, <2>2, AccountLaws
  <1>6. CASE Matches(c) /\ Writes(d, c)
    <2>1. v \in Amounts /\ row = Plus(Pending(d, c), v) /\ Pending(d, c)' = Nothing
      BY <1>6, EntryBalance
    <2>2. fed'[c] = Plus(fed[c], v)
      BY <1>3, <1>6
    <2>3. CASE d \in failed
      <3>1. stored'[d][c] = stored[d][c] /\ lost'[d][c] = Plus(lost[d][c], row)
        BY <1>3, <1>6, <2>3 DEF Gain
      <3> QED
        BY <1>1, <1>2, <2>1, <2>2, <3>1, AccountLaws
    <2>4. CASE d \notin failed
      <3>1. stored'[d][c] = Plus(stored[d][c], row) /\ lost'[d][c] = lost[d][c]
        BY <1>1, <1>3, <1>6, <2>4 DEF Gain
      <3>2. Plus(fed[c], v)
              = Plus(Plus(Plus(stored[d][c], Plus(Pending(d, c), v)), lost[d][c]), Nothing)
        BY <1>1, <1>2, <2>1, AccountLaws
      <3> QED
        BY <2>1, <2>2, <3>1, <3>2
    <2> QED
      BY <2>3, <2>4
  <1> QED
    BY <1>4, <1>5, <1>6

\* A new process keeps the account: what was pending is lost.
LEMMA NewProcessConserves == TypeOK /\ Conserved /\ NewProcess => Conserved'
  <1> SUFFICES ASSUME TypeOK, Conserved, NewProcess,
                      NEW d \in AverageDbs \cup (OpenDbs \cap {"raw"}), NEW c \in RawCounters
               PROVE  fed'[c] = Plus(Plus(stored'[d][c], lost'[d][c]), Pending(d, c)')
    BY DEF Conserved
  <1>1. /\ d \in RawDbs
        /\ stored[d][c] \in Amounts /\ lost[d][c] \in Amounts /\ Pending(d, c) \in Amounts
    BY PendingType DEF TypeOK, RawDbs
  <1>2. fed[c] = Plus(Plus(stored[d][c], lost[d][c]), Pending(d, c))
    BY DEF Conserved
  <1>3. /\ fed'[c] = fed[c] /\ stored'[d][c] = stored[d][c]
        /\ lost'[d][c] = Plus(lost[d][c], Pending(d, c))
    BY <1>1 DEF NewProcess
  <1>4. Pending(d, c)' = Nothing
    BY DEF NewProcess, FreshAverages, Pending, Nothing
  <1> QED
    BY <1>1, <1>2, <1>3, <1>4, AccountLaws

\* For every raw counter and every database that keeps it, the readings given
\* to the counter are exactly those in its rows, those in rows that could not
\* be written or were pending at a stop, and those still being averaged.
THEOREM ReadingsConserved == Spec => []Conserved
  <1>1. Init => Conserved
    <2> SUFFICES ASSUME Init,
                        NEW d \in AverageDbs \cup (OpenDbs \cap {"raw"}), NEW c \in RawCounters
                 PROVE  fed[c] = Plus(Plus(stored[d][c], lost[d][c]), Pending(d, c))
      BY DEF Conserved
    <2>1. Pending(d, c) = Nothing
      BY DEF Init, FreshAverages, Pending, Nothing
    <2>2. fed[c] = Nothing /\ stored[d][c] = Nothing /\ lost[d][c] = Nothing
      BY DEF Init, RawDbs
    <2> QED
      BY <2>1, <2>2 DEF Plus, Nothing
  <1>2. TypeOK /\ Conserved /\ [Next]_vars => Conserved'
    <2> SUFFICES ASSUME TypeOK, Conserved, [Next]_vars PROVE Conserved'
      OBVIOUS
    <2>1. ASSUME UNCHANGED <<avg, fed, stored, lost>> PROVE Conserved'
      BY <2>1 DEF Conserved, Pending
    <2>2. ASSUME NEW t \in Telegrams, Receive(t) PROVE Conserved'
      BY <2>1, <2>2 DEF Receive
    <2>3. ASSUME NEW failed, Record(failed) PROVE Conserved'
      BY <2>3, RecordConserves
    <2>4. CASE EndTelegram
      BY <2>1, <2>4 DEF EndTelegram
    <2>5. CASE Restart \/ Crash
      BY <2>5, NewProcessConserves DEF Restart, Crash
    <2>6. CASE Tick \/ SetBack
      BY <2>1, <2>6 DEF Tick, SetBack
    <2>7. CASE UNCHANGED vars
      BY <2>1, <2>7 DEF vars
    <2> QED
      BY <2>2, <2>3, <2>4, <2>5, <2>6, <2>7 DEF Next
  <1> QED
    BY <1>1, <1>2, TypeCorrect, PTL DEF Spec

-----------------------------------------------------------------------------
(***************************************************************************)
(* The averages are the ones AverageSeries describes: the step simulation  *)
(* of Measure!Series, one case per action of Measure.                      *)
(***************************************************************************)

\* Between two telegrams no reading is left over.
OneTelegram == pc = "receive" => p1_counters = << >>

\* The loop over the readings ends only when there are none left.
LEMMA OneTelegramHolds == Spec => []OneTelegram
  <1>1. Init => OneTelegram
    BY DEF Init, OneTelegram
  <1>2. OneTelegram /\ [Next]_vars => OneTelegram'
    BY DEF OneTelegram, Next, vars, Receive, Record, EndTelegram, Restart, Crash,
           NewProcess, Tick, SetBack
  <1> QED
    BY <1>1, <1>2, PTL DEF Spec

\* A reading that is entered is a step of each series: the counter's own reading
\* goes into its average, the reading of another counter passes it by.
LEMMA RecordIsSeriesStep ==
    ASSUME TypeOK, NEW failed, Record(failed),
           failed \subseteq IF "insert" \in Faults THEN OpenDbs ELSE {},
           NEW d \in OpenDbs \cap AverageDbs, NEW c \in RawCounters
    PROVE  Series(d, c)!Next
  <1> DEFINE filled == [sum |-> Pending(d, c).sum + Reading.value, n |-> Pending(d, c).n + 1]
  <1>1. /\ d \in AverageDbs /\ d \in OpenDbs /\ d \in Dbs /\ d \in RawDbs /\ c \in Counters
        /\ p1_counters # << >>
    BY DEF Record, RawDbs, Dbs, Counters
  <1>2. /\ now' = now
        /\ p1_counters' = Tail(p1_counters)
        /\ avg'[d][c] = NextAverage(d, c)
        /\ db'[d][c] = Insert(d, c, failed)
        /\ lost'[d][c] = Gain(lost, d, c, failed)
    BY <1>1 DEF Record
  <1>3. /\ Matches(c) => Series(d, c)!Read(TRUE)
        /\ ~Matches(c) => Series(d, c)!Read(FALSE)
    BY <1>1, <1>2 DEF Series!Read, Matches, Reading
  <1>4. /\ Pending(d, c) = [sum |-> avg[d][c].cumul, n |-> avg[d][c].ctr]
        /\ Pending(d, c)' = [sum |-> NextAverage(d, c).cumul, n |-> NextAverage(d, c).ctr]
    BY <1>1, <1>2 DEF Pending
  <1>5. Series(d, c)!Filled = filled
    BY DEF Series!Filled, Series!Sum, Reading
  <1>6. AverageDue(d, c) <=> Series(d, c)!Over
    BY <1>1 DEF AverageDue, Elapsed, Series!Over
  <1>7. Writes(d, c) <=> Matches(c) /\ AverageDue(d, c)
    BY <1>1 DEF Writes, AverageDbs
  <1>8. Row(d, c) = [ts |-> ToInt(now), sum |-> filled.sum, n |-> filled.n]
    BY <1>1, <1>4 DEF Row, Add
  <1>9. CASE ~Matches(c)
    <2>1. /\ avg'[d][c] = avg[d][c] /\ db'[d][c] = db[d][c] /\ lost'[d][c] = lost[d][c]
          /\ Pending(d, c)' = Pending(d, c)
      BY <1>2, <1>4, <1>7, <1>9 DEF NextAverage, Insert, Gain
    <2>2. Series(d, c)!Pass
      BY <1>3, <1>9, <2>1 DEF Series!Pass
    <2> QED
      BY <2>2 DEF Series!Next
  <1>10. CASE Matches(c) /\ ~AverageDue(d, c)
    <2>1. /\ avg'[d][c].ts = avg[d][c].ts /\ Pending(d, c)' = filled
          /\ db'[d][c] = db[d][c] /\ lost'[d][c] = lost[d][c]
      BY <1>2, <1>4, <1>7, <1>10 DEF NextAverage, Add, Insert, Gain
    <2>2. Series(d, c)!Take
      BY <1>3, <1>5, <1>6, <1>10, <2>1 DEF Series!Take
    <2> QED
      BY <2>2 DEF Series!Next
  <1>11. CASE Matches(c) /\ AverageDue(d, c)
    <2>1. /\ avg'[d][c].ts = now /\ Pending(d, c)' = [sum |-> 0, n |-> 0]
      BY <1>2, <1>4, <1>11 DEF NextAverage
    <2>2. CASE d \notin failed
      <3>1. /\ db'[d][c] = Append(db[d][c],
                             [ts |-> ToInt(now), sum |-> filled.sum, n |-> filled.n])
            /\ lost'[d][c] = lost[d][c]
        BY <1>2, <1>7, <1>8, <1>11, <2>2 DEF Insert, Gain
      <3>2. Series(d, c)!Close
        BY <1>3, <1>5, <1>6, <1>11, <2>1, <3>1 DEF Series!Close, Series!Empty
      <3> QED
        BY <3>2 DEF Series!Next
    <2>3. CASE d \in failed
      <3>1. db'[d][c] = db[d][c] /\ lost'[d][c] = Plus(lost[d][c], filled)
        BY <1>2, <1>7, <1>8, <1>11, <2>3 DEF Insert, Gain
      <3>2. Series(d, c)!CloseLost
        BY <1>3, <1>5, <1>6, <1>11, <2>1, <2>3, <3>1
           DEF Series!CloseLost, Series!Empty, Series!Sum, Plus
      <3> QED
        BY <3>2 DEF Series!Next
    <2> QED
      BY <2>2, <2>3
  <1> QED
    BY <1>9, <1>10, <1>11

\* So is every other step, or it leaves every series alone.
LEMMA NextIsSeriesStep ==
    ASSUME TypeOK, TypeOK', [Next]_vars, OneTelegram
    PROVE  SeriesStep
  <1> SUFFICES ASSUME NEW d \in OpenDbs \cap AverageDbs, NEW c \in RawCounters
               PROVE  Series(d, c)!Next \/ UNCHANGED Series(d, c)!vars
    BY DEF SeriesStep
  <1>1. d \in AverageDbs /\ d \in Dbs /\ d \in RawDbs /\ c \in Counters
    BY DEF RawDbs, Dbs, Counters
  <1>2. ASSUME NEW t \in Telegrams, Receive(t)
        PROVE  Series(d, c)!Next
    <2>1. Pending(d, c)' = Pending(d, c)
      BY <1>2 DEF Receive, Pending
    <2>2. now' \in Nat /\ p1_counters' \in Seq(Readings) /\ p1_counters = << >>
      BY <1>2 DEF TypeOK, OneTelegram, Receive
    <2>3. Series(d, c)!NextTelegram
      BY <1>2, <2>1, <2>2 DEF Receive, Series!NextTelegram
    <2> QED
      BY <2>3 DEF Series!Next
  <1>3. ASSUME NewProcess
        PROVE  Series(d, c)!Next
    <2>1. /\ now' = 0 /\ p1_counters' = << >> /\ db'[d][c] = db[d][c]
          /\ avg'[d][c] = [cumul |-> 0, ctr |-> 0, ts |-> 0]
          /\ lost'[d][c] = Plus(lost[d][c], Pending(d, c))
      BY <1>1, <1>3 DEF NewProcess, FreshAverages
    <2>2. Pending(d, c)' = [sum |-> 0, n |-> 0]
      BY <1>1, <2>1 DEF Pending
    <2>3. Series(d, c)!NewProcess
      BY <2>1, <2>2 DEF Series!NewProcess, Series!Empty, Series!Sum, Plus
    <2> QED
      BY <2>3 DEF Series!Next
  <1>4. ASSUME NEW failed \in SUBSET (IF "insert" \in Faults THEN OpenDbs ELSE {}),
               Record(failed)
        PROVE  Series(d, c)!Next
    BY <1>4, RecordIsSeriesStep
  <1>5. ASSUME UNCHANGED <<now, p1_counters, avg, db, lost>>
        PROVE  UNCHANGED Series(d, c)!vars
    BY <1>5 DEF Series!vars, Pending
  <1>6. CASE EndTelegram \/ Tick \/ SetBack
    BY <1>5, <1>6 DEF EndTelegram, Tick, SetBack
  <1>7. CASE Restart \/ Crash
    BY <1>3, <1>7 DEF Restart, Crash
  <1>8. CASE UNCHANGED vars
    BY <1>5, <1>8 DEF vars
  <1> QED
    BY <1>2, <1>4, <1>6, <1>7, <1>8 DEF Next

\* Every raw counter in every open database of averages is a series of averages
\* of its own, for any counters, telegrams, intervals and faults.
THEOREM MeasureImplementsSeries == Spec => ImplementsSeries
  <1>1. Init => SeriesInit
    <2> SUFFICES ASSUME Init, NEW d \in OpenDbs \cap AverageDbs, NEW c \in RawCounters
                 PROVE  Series(d, c)!Init
      BY DEF SeriesInit
    <2>1. d \in AverageDbs /\ d \in Dbs /\ d \in RawDbs /\ c \in Counters
      BY DEF RawDbs, Dbs, Counters
    <2> QED
      BY <2>1 DEF Init, FreshAverages, Pending, Nothing, Series!Init, Series!Empty
  <1>2. TypeOK /\ TypeOK' /\ OneTelegram /\ [Next]_vars => [SeriesStep]_vars
    BY NextIsSeriesStep
  <1> QED
    BY <1>1, <1>2, TypeCorrect, OneTelegramHolds, PTL DEF Spec, ImplementsSeries

-----------------------------------------------------------------------------
(***************************************************************************)
(* The rows themselves: the averages lie between the readings, the rows of *)
(* one process are an interval apart, no counter goes stale, and tables    *)
(* are in order and agree with each other.                                 *)
(***************************************************************************)

\* A table before and after a reading: it gains the row at its end, or nothing.
LEMMA InsertIsAppend ==
    ASSUME TypeOK, NEW failed, Record(failed), NEW d \in Dbs, NEW c \in Counters
    PROVE  \/ db'[d][c] = db[d][c]
           \/ /\ Writes(d, c) /\ Row(d, c) \in Rows
              /\ Len(db'[d][c]) = Len(db[d][c]) + 1
              /\ \A i \in 1 .. Len(db[d][c]) : db'[d][c][i] = db[d][c][i]
              /\ db'[d][c][Len(db[d][c]) + 1] = Row(d, c)
  <1>1. db'[d][c] = Insert(d, c, failed)
    BY DEF Record
  <1>2. db[d][c] \in Seq(Rows)
    BY DEF TypeOK
  <1>3. CASE Writes(d, c) /\ d \notin failed
    <2>1. Row(d, c) \in Rows
      BY <1>3, EntryType DEF Record
    <2>2. db'[d][c] = Append(db[d][c], Row(d, c))
      BY <1>1, <1>3 DEF Insert
    <2> QED
      BY <1>2, <1>3, <2>1, <2>2, AppendProperties
  <1>4. CASE ~(Writes(d, c) /\ d \notin failed)
    BY <1>1, <1>4 DEF Insert
  <1> QED
    BY <1>3, <1>4

-----------------------------------------------------------------------------
(***************************************************************************)
(* Averages lie between the readings.  The invariant adds to this that     *)
(* what an accumulator holds does, so that a row that takes all of it and  *)
(* one more reading does as well.                                          *)
(***************************************************************************)
Between(sum, n) == MinValue * n <= sum /\ sum <= MaxValue * n

SumsInRange ==
    \A d \in AverageDbs, c \in RawCounters : Between(avg[d][c].cumul, avg[d][c].ctr)

\* One more reading between the two keeps a sum between its multiples of them.
LEMMA BetweenAdd ==
    ASSUME NEW sum \in Int, NEW n \in Nat, Between(sum, n),
           NEW v \in Int, MinValue <= v, v <= MaxValue
    PROVE  Between(sum + v, n + 1)
  <1>1. MinValue * (n + 1) = MinValue * n + MinValue
    BY CountersAssumption
  <1>2. MaxValue * (n + 1) = MaxValue * n + MaxValue
    BY CountersAssumption
  <1>3. MinValue * n \in Int /\ MaxValue * n \in Int /\ MinValue \in Int /\ MaxValue \in Int
    BY CountersAssumption
  <1> QED
    BY <1>1, <1>2, <1>3 DEF Between

\* Nothing at all is between the multiples.
LEMMA BetweenNothing == Between(0, 0)
  BY CountersAssumption DEF Between

\* So does one more reading in an accumulator.
LEMMA AddBetween ==
    ASSUME TypeOK, SumsInRange, p1_counters # << >>,
           NEW d \in AverageDbs, NEW c \in RawCounters
    PROVE  Between(Add(avg[d][c]).cumul, Add(avg[d][c]).ctr) /\ Add(avg[d][c]).ctr >= 1
  <1>1. avg[d][c].cumul \in Int /\ avg[d][c].ctr \in Nat
    BY DEF TypeOK, Accumulators
  <1>2. Reading.value \in Int /\ MinValue <= Reading.value /\ Reading.value <= MaxValue
    BY ReadingType, CountersAssumption DEF TypeOK
  <1> QED
    BY <1>1, <1>2, BetweenAdd DEF SumsInRange, Add

\* Entering a reading keeps the sums in range.
LEMMA RecordSums ==
    ASSUME TypeOK, SumsInRange, NEW failed, Record(failed)
    PROVE  SumsInRange'
  <1> SUFFICES ASSUME NEW d \in AverageDbs, NEW c \in RawCounters
               PROVE  Between(avg'[d][c].cumul, avg'[d][c].ctr)
    BY DEF SumsInRange, Between
  <1>1. avg'[d][c] = NextAverage(d, c) /\ p1_counters # << >>
    BY DEF Record
  <1>2. Between(avg[d][c].cumul, avg[d][c].ctr)
    BY DEF SumsInRange
  <1> QED
    BY <1>1, <1>2, AddBetween, BetweenNothing DEF NextAverage

\* ... and adds only rows in range.
LEMMA RecordAverages ==
    ASSUME TypeOK, SumsInRange, AverageInRange, NEW failed, Record(failed)
    PROVE  AverageInRange'
  <1> SUFFICES ASSUME NEW d \in RawDbs, NEW c \in RawCounters, NEW i \in 1 .. Len(db'[d][c])
               PROVE  db'[d][c][i].n >= 1 /\ Between(db'[d][c][i].sum, db'[d][c][i].n)
    BY DEF AverageInRange, Between
  <1>1. d \in Dbs /\ c \in Counters /\ db[d][c] \in Seq(Rows)
    BY DEF TypeOK, RawDbs, Dbs, Counters
  <1>2. \A j \in 1 .. Len(db[d][c]) :
            db[d][c][j].n >= 1 /\ Between(db[d][c][j].sum, db[d][c][j].n)
    BY DEF AverageInRange, Between
  <1>3. CASE db'[d][c] = db[d][c]
    BY <1>2, <1>3
  <1>4. CASE db'[d][c] # db[d][c]
    <2>1. /\ Len(db'[d][c]) = Len(db[d][c]) + 1
          /\ \A j \in 1 .. Len(db[d][c]) : db'[d][c][j] = db[d][c][j]
          /\ db'[d][c][Len(db[d][c]) + 1] = Row(d, c)
      BY <1>1, <1>4, InsertIsAppend
    <2>2. CASE i \in 1 .. Len(db[d][c])
      BY <1>2, <2>1, <2>2
    <2>3. CASE i = Len(db[d][c]) + 1
      <3>1. CASE d \in AverageDbs
        BY <2>1, <2>3, <3>1, AddBetween DEF Row, Record
      <3>2. CASE d \notin AverageDbs
        <4>1. Row(d, c).n = 1 /\ Row(d, c).sum = Reading.value
          BY <3>2 DEF Row
        <4>2. Reading.value \in Int /\ MinValue <= Reading.value /\ Reading.value <= MaxValue
          BY ReadingType, CountersAssumption DEF TypeOK, Record
        <4>3. Between(Reading.value, 1)
          BY <4>2, CountersAssumption DEF Between
        <4> QED
          BY <2>1, <2>3, <4>1, <4>3
      <3> QED
        BY <3>1, <3>2
    <2> QED
      BY <1>1, <2>1, <2>2, <2>3
  <1> QED
    BY <1>3, <1>4

\* Every average a process records is over at least one reading and lies between
\* the smallest and the largest one, for any readings, intervals and faults.
THEOREM AveragesInRange == Spec => []AverageInRange
  <1> DEFINE Inv == SumsInRange /\ AverageInRange
  <1>1. Init => Inv
    <2> SUFFICES ASSUME Init PROVE Inv
      OBVIOUS
    <2>1. SumsInRange
      BY BetweenNothing DEF Init, FreshAverages, SumsInRange
    <2>2. AverageInRange
      BY DEF Init, AverageInRange, RawDbs, Dbs, Counters
    <2> QED
      BY <2>1, <2>2
  <1>2. TypeOK /\ Inv /\ [Next]_vars => Inv'
    <2> SUFFICES ASSUME TypeOK, Inv, [Next]_vars PROVE Inv'
      OBVIOUS
    <2>1. ASSUME UNCHANGED <<avg, db>> PROVE Inv'
      BY <2>1 DEF SumsInRange, AverageInRange, Between
    <2>2. ASSUME NEW failed, Record(failed) PROVE Inv'
      BY <2>2, RecordSums, RecordAverages
    <2>3. CASE Restart \/ Crash
      <3>1. avg' = FreshAverages /\ db' = db
        BY <2>3 DEF Restart, Crash, NewProcess
      <3>2. SumsInRange'
        BY <3>1, BetweenNothing DEF SumsInRange, FreshAverages, Between
      <3>3. AverageInRange'
        BY <3>1 DEF AverageInRange
      <3> QED
        BY <3>2, <3>3
    <2>4. CASE (\E t \in Telegrams : Receive(t)) \/ EndTelegram \/ Tick \/ SetBack
      BY <2>1, <2>4 DEF Receive, EndTelegram, Tick, SetBack
    <2>5. CASE UNCHANGED vars
      BY <2>1, <2>5 DEF vars
    <2> QED
      BY <2>2, <2>3, <2>4, <2>5 DEF Next
  <1> QED
    BY <1>1, <1>2, TypeCorrect, PTL DEF Spec

-----------------------------------------------------------------------------
(***************************************************************************)
(* The rows of one process are an interval apart.  The invariant adds      *)
(* where the newest row of this process lies: not later than the timer,    *)
(* which only moves forward, since it is set when the interval since its   *)
(* last value is over.  It holds while the clock fits the timestamp column *)
(* and the interval of the configuration is not negative.                  *)
(***************************************************************************)
ClockFits == Epoch < IntMax /\ MaxClock < IntMax
TimesFit == ClockFits /\ TotalInterval >= 0

Timed(d, c) == d = "total" <=> c \in TotalCounters
Timer(d, c) == IF d = "total" THEN cumul_rec_ts[c] ELSE avg[d][c].ts
Gap(d) == IF d = "total" THEN TotalInterval ELSE Interval[d]

InTime == clock < IntMax /\ now < IntMax

TableTimed(d, c) ==
    /\ base[d][c] <= Len(db[d][c])
    /\ ~Timed(d, c) => Len(db[d][c]) = base[d][c]
    /\ Timed(d, c) /\ Len(db[d][c]) > base[d][c] =>
            db[d][c][Len(db[d][c])].ts <= Timer(d, c)
TablesTimed == \A d \in Dbs \ {"raw"}, c \in Counters : TableTimed(d, c)

\* A time that fits the column is stored as it is.
LEMMA ToIntFits ==
    ASSUME NEW t \in Nat, t < IntMax
    PROVE  ToInt(t) = t
  <1>1. t + IntMax \in 0 .. 2 * IntMax - 1 /\ 2 * IntMax \in Nat \ {0} /\ IntMax \in Nat
    BY TimeAssumption
  <1>2. (t + IntMax) % (2 * IntMax) = t + IntMax
    BY <1>1
  <1> QED
    BY <1>1, <1>2 DEF ToInt

\* The kinds of tables that have a timer.
LEMMA TimedKinds ==
    ASSUME NEW d \in Dbs \ {"raw"}, NEW c \in Counters
    PROVE  /\ Timed(d, c) <=> \/ d \in AverageDbs /\ c \in RawCounters
                              \/ d = "total" /\ c \in TotalCounters
           /\ Gap(d) \in Int /\ (TimesFit => Gap(d) >= 0)
  <1>1. d \in AverageDbs \/ d = "total"
    BY DEF Dbs, RawDbs
  <1>2. "total" \notin AverageDbs
    BY DEF AverageDbs
  <1>3. c \in RawCounters <=> c \notin TotalCounters
    BY CountersAssumption DEF Counters
  <1>4. Gap(d) \in Int /\ (TimesFit => Gap(d) >= 0)
    BY <1>1, <1>2, TimeAssumption DEF Gap, Interval, TimesFit
  <1> QED
    BY <1>1, <1>2, <1>3, <1>4 DEF Timed

\* ... and what it holds is a time.
LEMMA TimerType ==
    ASSUME TypeOK, NEW d \in Dbs \ {"raw"}, NEW c \in Counters, Timed(d, c)
    PROVE  Timer(d, c) \in Int
  <1>1. CASE d \in AverageDbs /\ c \in RawCounters
    <2>1. d # "total"
      BY <1>1 DEF AverageDbs
    <2> QED
      BY <1>1, <2>1 DEF Timer, TypeOK, Accumulators
  <1>2. CASE d = "total" /\ c \in TotalCounters
    BY <1>2 DEF Timer, TypeOK
  <1> QED
    BY <1>1, <1>2, TimedKinds

\* A counter is written when it is read and its interval is over, and only then
\* its timer is set.
LEMMA EntryTimer ==
    ASSUME TypeOK, NEW failed, Record(failed),
           NEW d \in Dbs \ {"raw"}, NEW c \in Counters
    PROVE  LET due == Matches(c) /\ d \in OpenDbs /\ Elapsed(Timer(d, c), Gap(d)) IN
           /\ Writes(d, c) <=> Timed(d, c) /\ due
           /\ Timed(d, c) => Timer(d, c)' = IF due THEN now ELSE Timer(d, c)
  <1> DEFINE due == Matches(c) /\ d \in OpenDbs /\ Elapsed(Timer(d, c), Gap(d))
  <1>1. CASE d \in AverageDbs /\ c \in RawCounters
    <2>1. d # "total" /\ avg'[d][c] = NextAverage(d, c) /\ Timed(d, c)
      BY <1>1, TimedKinds DEF AverageDbs, Record
    <2>2. due <=> Matches(c) /\ AverageDue(d, c)
      BY <1>1, <2>1 DEF AverageDue, Timer, Gap
    <2>3. Writes(d, c) <=> Matches(c) /\ AverageDue(d, c)
      BY <1>1, <2>1 DEF Writes
    <2>4. avg'[d][c].ts = IF Matches(c) /\ AverageDue(d, c) THEN now ELSE avg[d][c].ts
      BY <2>1 DEF NextAverage, Add
    <2> QED
      BY <2>1, <2>2, <2>3, <2>4 DEF Timer
  <1>2. CASE d = "total" /\ c \in TotalCounters
    <2>1. cumul_rec_ts'[c] = IF Matches(c) /\ TotalDue(c) THEN now ELSE cumul_rec_ts[c]
      BY <1>2 DEF Record
    <2>2. Writes(d, c) <=> Matches(c) /\ TotalDue(c)
      BY <1>2 DEF Writes, AverageDbs
    <2>3. due <=> Matches(c) /\ TotalDue(c)
      BY <1>2 DEF TotalDue, Timer, Gap
    <2> QED
      BY <1>2, <2>1, <2>2, <2>3, TimedKinds DEF Timer
  <1>3. CASE ~Timed(d, c)
    <2>1. ~Writes(d, c)
      <3>1. Writes(d, c) => \/ d \in AverageDbs /\ c \in RawCounters
                            \/ d = "total" /\ c \in TotalCounters
        BY DEF Writes
      <3> QED
        BY <1>3, <3>1, TimedKinds
    <2> QED
      BY <1>3, <2>1
  <1> QED
    BY <1>1, <1>2, <1>3, TimedKinds

\* A timer stays, or its interval is over and it is set to now.  A row is only
\* written in the second case, and its timestamp is now.
LEMMA TimerMoves ==
    ASSUME TypeOK, InTime, NEW failed, Record(failed),
           NEW d \in Dbs \ {"raw"}, NEW c \in Counters
    PROVE  /\ Writes(d, c) => Timed(d, c) /\ Row(d, c).ts = now
           /\ Timed(d, c) =>
                  \/ Timer(d, c)' = Timer(d, c) /\ ~Writes(d, c)
                  \/ Timer(d, c)' = now /\ now - Timer(d, c) >= Gap(d)
  <1>1. Row(d, c).ts = now
    <2>1. now \in Nat /\ now < IntMax
      BY DEF TypeOK, InTime
    <2>2. ToInt(now) = now
      BY <2>1, ToIntFits
    <2> QED
      BY <2>2 DEF Row
  <1> QED
    BY <1>1, EntryTimer DEF Elapsed

\* Entering a reading: a table's newest row is again not later than its timer,
\* and a new row is an interval after the one before it.
LEMMA RecordTimed ==
    ASSUME TimesFit, TypeOK, InTime, TablesTimed, Spaced, NEW failed, Record(failed)
    PROVE  TablesTimed' /\ Spaced'
  <1>1. ASSUME NEW d \in Dbs \ {"raw"}, NEW c \in Counters
        PROVE  /\ TableTimed(d, c)'
               /\ \A i \in base'[d][c] + 1 .. Len(db'[d][c]) - 1 :
                      db'[d][c][i + 1].ts - db'[d][c][i].ts >= Gap(d)
    <2> DEFINE n == Len(db[d][c])
    <2>1. /\ db[d][c] \in Seq(Rows) /\ n \in Nat /\ base[d][c] \in Nat /\ now \in Nat
          /\ base'[d][c] = base[d][c] /\ Gap(d) \in Int /\ Gap(d) >= 0
      BY TimedKinds DEF TypeOK, Record
    <2>2. \A i \in base[d][c] + 1 .. n - 1 : db[d][c][i + 1].ts - db[d][c][i].ts >= Gap(d)
      BY DEF Spaced, Gap
    <2>3. TableTimed(d, c)
      BY DEF TablesTimed
    <2>4. /\ Writes(d, c) => Timed(d, c) /\ Row(d, c).ts = now
          /\ Timed(d, c) =>
                 \/ Timer(d, c)' = Timer(d, c) /\ ~Writes(d, c)
                 \/ Timer(d, c)' = now /\ now - Timer(d, c) >= Gap(d)
      BY TimerMoves
    <2>5. Timed(d, c) => Timer(d, c) \in Int
      BY TimerType
    <2>6. \A i \in 1 .. n : db[d][c][i].ts \in Int
      <3>1. \A i \in 1 .. n : db[d][c][i] \in Rows
        BY <2>1
      <3> QED
        BY <3>1 DEF Rows
    <2>7. CASE db'[d][c] = db[d][c]
      <3>1. TableTimed(d, c)'
        <4>1. ASSUME Timed(d, c), n > base[d][c]
              PROVE  db[d][c][n].ts <= Timer(d, c)'
          <5>1. db[d][c][n].ts <= Timer(d, c) /\ db[d][c][n].ts \in Int
            BY <2>1, <2>3, <2>6, <4>1 DEF TableTimed
          <5> QED
            BY <2>1, <2>4, <2>5, <4>1, <5>1
        <4> QED
          BY <2>1, <2>3, <2>7, <4>1 DEF TableTimed
      <3> QED
        BY <2>1, <2>2, <2>7, <3>1
    <2>8. CASE db'[d][c] # db[d][c]
      <3>1. /\ Writes(d, c)
            /\ Len(db'[d][c]) = n + 1
            /\ \A i \in 1 .. n : db'[d][c][i] = db[d][c][i]
            /\ db'[d][c][n + 1] = Row(d, c)
        BY <2>8, InsertIsAppend
      <3>2. /\ Timed(d, c) /\ Timer(d, c)' = now /\ now - Timer(d, c) >= Gap(d)
            /\ db'[d][c][n + 1].ts = now
        BY <2>4, <3>1
      <3>3. TableTimed(d, c)'
        BY <2>1, <2>3, <3>1, <3>2 DEF TableTimed
      <3>4. ASSUME NEW i \in base[d][c] + 1 .. n
            PROVE  db'[d][c][i + 1].ts - db'[d][c][i].ts >= Gap(d)
        <4>1. i \in 1 .. n /\ db'[d][c][i] = db[d][c][i]
          BY <2>1, <3>1
        <4>2. CASE i < n
          <5>1. i \in base[d][c] + 1 .. n - 1 /\ i + 1 \in 1 .. n
            BY <2>1, <4>2
          <5> QED
            BY <2>2, <3>1, <4>1, <5>1
        <4>3. CASE i = n
          <5>1. n > base[d][c]
            BY <2>1, <4>3
          <5>2. db[d][c][n].ts <= Timer(d, c) /\ db[d][c][n].ts \in Int
            BY <2>3, <2>6, <3>2, <4>1, <4>3, <5>1 DEF TableTimed
          <5> QED
            BY <2>1, <2>5, <3>2, <4>1, <4>3, <5>2
        <4> QED
          BY <2>1, <4>2, <4>3
      <3> QED
        BY <2>1, <3>1, <3>3, <3>4
    <2> QED
      BY <2>7, <2>8
  <1> QED
    BY <1>1 DEF TablesTimed, Spaced, Gap, Interval

\* A new process begins with no row of its own.
LEMMA NewProcessTimed ==
    ASSUME TypeOK, NewProcess
    PROVE  TablesTimed' /\ Spaced'
  <1>1. ASSUME NEW d \in Dbs, NEW c \in Counters
        PROVE  base'[d][c] = Len(db[d][c]) /\ db'[d][c] = db[d][c] /\ Len(db[d][c]) \in Nat
    BY DEF NewProcess, TypeOK
  <1>2. TablesTimed'
    BY <1>1 DEF TablesTimed, TableTimed
  <1>3. Spaced'
    <2>1. ASSUME NEW d \in Dbs, NEW c \in Counters
          PROVE  base'[d][c] + 1 .. Len(db'[d][c]) - 1 = {}
      BY <1>1
    <2> QED
      BY <2>1 DEF Spaced
  <1> QED
    BY <1>2, <1>3

\* The time stays within the column.
LEMMA NextInTime == ClockFits /\ TypeOK /\ InTime /\ [Next]_vars => InTime'
  <1> SUFFICES ASSUME ClockFits, TypeOK, InTime, [Next]_vars PROVE InTime'
    OBVIOUS
  <1>1. /\ clock \in Nat /\ MaxClock \in Nat /\ StepBack \in Nat /\ IntMax \in Nat
        /\ MaxClock < IntMax /\ clock < IntMax /\ now < IntMax /\ 0 < IntMax
    BY TimeAssumption DEF ClockFits, TypeOK, InTime
  <1>2. clock' < IntMax
    <2>1. CASE clock' = clock
      BY <1>1, <2>1
    <2>2. CASE Tick \/ SetBack
      BY <1>1, <2>2 DEF Tick, SetBack
    <2> QED
      BY <2>1, <2>2
         DEF Next, Receive, Record, EndTelegram, Restart, Crash, NewProcess, vars
  <1>3. now' \in {now, clock, 0}
    BY DEF Next, Receive, Record, EndTelegram, Restart, Crash, NewProcess, Tick, SetBack, vars
  <1> QED
    BY <1>1, <1>2, <1>3 DEF InTime

\* The rows one process writes for a counter are at least the interval apart, for
\* any telegrams and faults, while the clock fits the timestamp column.
THEOREM RowsSpaced == TimesFit /\ Spec => []Spaced
  <1> SUFFICES ASSUME TimesFit PROVE Spec => []Spaced
    OBVIOUS
  <1> DEFINE Inv == InTime /\ TablesTimed /\ Spaced
  <1>1. Init => Inv
    <2> SUFFICES ASSUME Init PROVE Inv
      OBVIOUS
    <2>1. InTime
      BY TimeAssumption DEF TimesFit, ClockFits, Init, InTime
    <2>2. \A d \in Dbs, c \in Counters : db[d][c] = << >> /\ base[d][c] = 0
      BY DEF Init
    <2> QED
      BY <2>1, <2>2 DEF TablesTimed, TableTimed, Spaced
  <1>2. TypeOK /\ Inv /\ [Next]_vars => Inv'
    <2> SUFFICES ASSUME TypeOK, Inv, [Next]_vars PROVE Inv'
      OBVIOUS
    <2>1. InTime'
      BY NextInTime DEF TimesFit
    <2>2. ASSUME UNCHANGED <<avg, cumul_rec_ts, db, base>> PROVE TablesTimed' /\ Spaced'
      BY <2>2 DEF TablesTimed, TableTimed, Timer, Spaced
    <2>3. ASSUME NEW failed, Record(failed) PROVE TablesTimed' /\ Spaced'
      BY <2>3, RecordTimed
    <2>4. CASE Restart \/ Crash
      BY <2>1, <2>4, NewProcessTimed DEF Restart, Crash
    <2>5. CASE (\E t \in Telegrams : Receive(t)) \/ EndTelegram \/ Tick \/ SetBack
      BY <2>1, <2>2, <2>5 DEF Receive, EndTelegram, Tick, SetBack
    <2>6. CASE UNCHANGED vars
      BY <2>1, <2>2, <2>6 DEF vars
    <2> QED
      BY <2>1, <2>3, <2>4, <2>5, <2>6 DEF Next
  <1> QED
    BY <1>1, <1>2, TypeCorrect, PTL DEF Spec
-----------------------------------------------------------------------------
(***************************************************************************)
(* No counter goes stale.  While every INSERT succeeds the newest row of   *)
(* this process is exactly at the timer, and the timer is zero as long as  *)
(* there is none; so the first reading of a process finds its interval     *)
(* over, for no interval is longer than the clock has been running.        *)
(***************************************************************************)
NothingFails == "insert" \notin Faults
EpochLate == \A d \in Dbs \ {"raw"} : Gap(d) <= Epoch

SinceEpoch == clock >= Epoch /\ (pc = "record" => now >= Epoch)

TableFresh(d, c) ==
    Timer(d, c) = IF Len(db[d][c]) = base[d][c] THEN 0 ELSE db[d][c][Len(db[d][c])].ts
TablesFresh ==
    /\ \A d \in Dbs, c \in Counters : base[d][c] <= Len(db[d][c])
    /\ \A d \in OpenDbs \ {"raw"}, c \in Counters : Timed(d, c) => TableFresh(d, c)

\* the property, of one counter in one database
NotStale(d, c) ==
    LET rows == db[d][c] IN
    /\ Len(rows) > base[d][c]
    /\ \/ rows[Len(rows)].ts = ToInt(now)
       \/ d # "raw" /\ now - rows[Len(rows)].ts < Gap(d)
NoneStale == \A d \in OpenDbs, c \in entered : Timed(d, c) => NotStale(d, c)

\* A row that is due is inserted when no INSERT fails.
LEMMA DueIsInserted ==
    ASSUME TypeOK, NEW failed, Record(failed), NEW d \in Dbs \ failed, NEW c \in Counters
    PROVE  /\ ~Writes(d, c) => db'[d][c] = db[d][c]
           /\ Writes(d, c) => /\ Len(db'[d][c]) = Len(db[d][c]) + 1
                              /\ db'[d][c][Len(db[d][c]) + 1] = Row(d, c)
  <1>1. db'[d][c] = Insert(d, c, failed) /\ db[d][c] \in Seq(Rows)
    BY DEF Record, TypeOK
  <1>2. CASE Writes(d, c)
    <2>1. Row(d, c) \in Rows
      BY <1>2, EntryType DEF Record
    <2>2. db'[d][c] = Append(db[d][c], Row(d, c))
      BY <1>1, <1>2 DEF Insert
    <2> QED
      BY <1>1, <1>2, <2>1, <2>2, AppendProperties
  <1>3. CASE ~Writes(d, c)
    BY <1>1, <1>3 DEF Insert
  <1> QED
    BY <1>2, <1>3

\* A raw counter is written to the database of raw values whenever it is read.
LEMMA RawIsWritten ==
    ASSUME NEW c \in Counters, Timed("raw", c), "raw" \in OpenDbs
    PROVE  Writes("raw", c) <=> Matches(c)
  <1>1. c \in RawCounters
    BY DEF Timed, Counters
  <1> QED
    BY <1>1 DEF Writes, AverageDbs

\* After a reading the newest row of a table of averages or totals is at the timer.
LEMMA RecordFresh ==
    ASSUME TypeOK, InTime, TablesFresh, Record({})
    PROVE  TablesFresh'
  <1>a. ASSUME NEW d \in Dbs, NEW c \in Counters
        PROVE  base'[d][c] <= Len(db'[d][c])
    <2>1. /\ base'[d][c] = base[d][c] /\ base[d][c] <= Len(db[d][c])
          /\ base[d][c] \in Nat /\ Len(db[d][c]) \in Nat
      BY DEF TablesFresh, Record, TypeOK
    <2> QED
      BY <2>1, InsertIsAppend
  <1> SUFFICES ASSUME NEW d \in OpenDbs \ {"raw"}, NEW c \in Counters, Timed(d, c)
               PROVE  TableFresh(d, c)'
    BY <1>a DEF TablesFresh, Timed
  <1>1. /\ d \in Dbs /\ db[d][c] \in Seq(Rows) /\ Len(db[d][c]) \in Nat
        /\ base[d][c] \in Nat /\ base'[d][c] = base[d][c]
    BY DbsAssumption DEF TypeOK, Record
  <1>2. TableFresh(d, c) /\ base[d][c] <= Len(db[d][c])
    BY <1>1 DEF TablesFresh
  <1>3. now \in Nat /\ ToInt(now) = now
    BY ToIntFits DEF TypeOK, InTime
  <1>4. CASE Writes(d, c)
    <2>1. Timer(d, c)' = now
      BY <1>1, <1>4, EntryTimer
    <2>2. Len(db'[d][c]) = Len(db[d][c]) + 1 /\ db'[d][c][Len(db[d][c]) + 1].ts = now
      <3>1. Row(d, c).ts = now
        BY <1>3 DEF Row
      <3> QED
        BY <1>1, <1>4, <3>1, DueIsInserted
    <2> QED
      BY <1>1, <1>2, <2>1, <2>2 DEF TableFresh
  <1>5. CASE ~Writes(d, c)
    <2>1. Timer(d, c)' = Timer(d, c)
      BY <1>1, <1>5, EntryTimer
    <2>2. db'[d][c] = db[d][c]
      BY <1>1, <1>5, DueIsInserted
    <2> QED
      BY <1>1, <1>2, <2>1, <2>2 DEF TableFresh
  <1> QED
    BY <1>4, <1>5

\* A counter that has just been read is not stale, and the others stay as they are.
LEMMA RecordNotStale ==
    ASSUME TypeOK, InTime, EpochLate, now >= Epoch, TablesFresh, NoneStale, Record({})
    PROVE  NoneStale'
  <1> SUFFICES ASSUME NEW d \in OpenDbs, NEW c \in entered', Timed(d, c)
               PROVE  NotStale(d, c)'
    BY DEF NoneStale, Timed
  <1>1. /\ d \in Dbs /\ c \in Counters /\ now' = now
        /\ c \in entered \/ Matches(c)
        /\ db[d][c] \in Seq(Rows) /\ Len(db[d][c]) \in Nat
        /\ base[d][c] \in Nat /\ base'[d][c] = base[d][c] /\ now \in Nat
    BY DbsAssumption DEF TypeOK, Record
  <1>2. CASE Writes(d, c)
    <2>1. /\ Len(db'[d][c]) = Len(db[d][c]) + 1
          /\ db'[d][c][Len(db[d][c]) + 1].ts = ToInt(now)
      <3>1. Row(d, c).ts = ToInt(now)
        BY DEF Row
      <3> QED
        BY <1>1, <1>2, <3>1, DueIsInserted
    <2>2. Len(db[d][c]) >= base[d][c]
      BY <1>1 DEF TablesFresh
    <2> QED
      BY <1>1, <2>1, <2>2 DEF NotStale
  <1>3. CASE ~Writes(d, c) /\ ~Matches(c)
    <2>1. db'[d][c] = db[d][c] /\ NotStale(d, c)
      BY <1>1, <1>3, DueIsInserted DEF NoneStale
    <2> QED
      BY <1>1, <2>1 DEF NotStale, Gap, Interval
  <1>4. CASE ~Writes(d, c) /\ Matches(c)
    <2>1. d # "raw"
      BY <1>1, <1>4, RawIsWritten
    <2>2. db'[d][c] = db[d][c]
      BY <1>1, <1>4, DueIsInserted
    <2>3. ~(now - Timer(d, c) >= Gap(d)) /\ Gap(d) \in Int /\ Gap(d) <= Epoch
      BY <1>1, <1>4, <2>1, EntryTimer, TimedKinds DEF Elapsed, EpochLate
    <2>4. TableFresh(d, c) /\ base[d][c] <= Len(db[d][c])
      BY <1>1, <2>1 DEF TablesFresh
    <2>5. Len(db[d][c]) > base[d][c]
      BY <1>1, <2>3, <2>4, TimeAssumption DEF TableFresh
    <2>6. now - db[d][c][Len(db[d][c])].ts < Gap(d)
      <3>1. db[d][c][Len(db[d][c])] \in Rows
        BY <1>1, <2>5
      <3> QED
        BY <1>1, <2>3, <2>4, <2>5, <3>1 DEF TableFresh, Rows
    <2> QED
      BY <1>1, <2>1, <2>2, <2>5, <2>6 DEF NotStale, Gap, Interval
  <1> QED
    BY <1>2, <1>3, <1>4

\* No counter goes stale while its readings arrive, for any telegrams, restarts
\* and clock set back, when no INSERT fails and the epoch is longer ago than any
\* interval.
THEOREM NoCounterStale ==
    ClockFits /\ NothingFails /\ EpochLate /\ Spec => []NeverStale
  <1> SUFFICES ASSUME ClockFits, NothingFails, EpochLate PROVE Spec => []NeverStale
    OBVIOUS
  <1> DEFINE Inv == InTime /\ SinceEpoch /\ TablesFresh /\ NoneStale
  <1>1. Init => Inv
    <2> SUFFICES ASSUME Init PROVE Inv
      OBVIOUS
    <2>1. InTime /\ SinceEpoch
      BY TimeAssumption DEF ClockFits, Init, InTime, SinceEpoch
    <2>2. \A d \in Dbs, c \in Counters : db[d][c] = << >> /\ base[d][c] = 0
      BY DEF Init
    <2>3. ASSUME NEW d \in OpenDbs \ {"raw"}, NEW c \in Counters, Timed(d, c)
          PROVE  Timer(d, c) = 0 /\ db[d][c] = << >> /\ base[d][c] = 0
      <3>1. d \in Dbs \ {"raw"}
        BY DbsAssumption
      <3> QED
        BY <2>2, <2>3, <3>1, TimedKinds DEF Init, FreshAverages, FreshTotals, Timer, AverageDbs
    <2>4. TablesFresh
      BY <2>2, <2>3 DEF TablesFresh, TableFresh
    <2> QED
      BY <2>1, <2>4 DEF NoneStale, Init
  <1>2. TypeOK /\ Inv /\ [Next]_vars => Inv'
    <2> SUFFICES ASSUME TypeOK, Inv, [Next]_vars PROVE Inv'
      OBVIOUS
    <2>1. InTime'
      BY NextInTime
    <2>2. SinceEpoch'
      <3>1. clock \in Nat /\ now \in Nat /\ StepBack \in Nat /\ Epoch \in Nat
        BY TimeAssumption DEF TypeOK
      <3>2. CASE Tick \/ SetBack
        BY <3>1, <3>2 DEF SinceEpoch, Tick, SetBack
      <3>3. ASSUME NEW failed, Record(failed) PROVE SinceEpoch'
        BY <3>1, <3>3 DEF SinceEpoch, Record
      <3>4. CASE ~(Tick \/ SetBack) /\ ~\E failed : Record(failed)
        BY <3>1, <3>4 DEF SinceEpoch, Next, Receive, EndTelegram, Restart, Crash, NewProcess, vars
      <3> QED
        BY <3>2, <3>3, <3>4
    <2>3. ASSUME UNCHANGED <<avg, cumul_rec_ts, db, base>> PROVE TablesFresh'
      BY <2>3 DEF TablesFresh, TableFresh, Timer
    <2>4. ASSUME UNCHANGED <<now, db, base, entered>> PROVE NoneStale'
      <3>1. ToInt(now)' = ToInt(now)
        BY <2>4 DEF ToInt
      <3> QED
        BY <2>4, <3>1 DEF NoneStale, NotStale, Gap, Interval
    <2>5. ASSUME NEW t \in Telegrams, Receive(t) PROVE Inv'
      BY <2>1, <2>2, <2>3, <2>5 DEF Receive, NoneStale
    <2>6. CASE Restart \/ Crash
      <3>1. NewProcess
        BY <2>6 DEF Restart, Crash
      <3>2. ASSUME NEW d \in Dbs, NEW c \in Counters
            PROVE  base'[d][c] = Len(db[d][c]) /\ db'[d][c] = db[d][c] /\ Len(db[d][c]) \in Nat
        BY <3>1 DEF NewProcess, TypeOK
      <3>3. ASSUME NEW d \in OpenDbs \ {"raw"}, NEW c \in Counters, Timed(d, c)
            PROVE  d \in Dbs /\ Timer(d, c)' = 0
        <4>1. d \in Dbs \ {"raw"}
          BY DbsAssumption
        <4> QED
          BY <3>1, <3>3, <4>1, TimedKinds
             DEF NewProcess, FreshAverages, FreshTotals, Timer, AverageDbs
      <3>4. TablesFresh'
        BY <3>2, <3>3 DEF TablesFresh, TableFresh, Timed
      <3>5. NoneStale'
        BY <3>1 DEF NewProcess, NoneStale
      <3> QED
        BY <2>1, <2>2, <3>4, <3>5
    <2>7. ASSUME NEW failed \in SUBSET (IF "insert" \in Faults THEN OpenDbs ELSE {}),
                 Record(failed)
          PROVE  Inv'
      <3>1. failed = {}
        BY DEF NothingFails
      <3>2. TablesFresh'
        BY <2>7, <3>1, RecordFresh
      <3>3. now >= Epoch
        BY <2>7 DEF SinceEpoch, Record
      <3>4. NoneStale'
        BY <2>7, <3>1, <3>3, RecordNotStale
      <3> QED
        BY <2>1, <2>2, <3>2, <3>4
    <2>8. CASE EndTelegram \/ Tick \/ SetBack
      BY <2>1, <2>2, <2>3, <2>4, <2>8 DEF EndTelegram, Tick, SetBack
    <2>9. CASE UNCHANGED vars
      BY <2>1, <2>2, <2>3, <2>4, <2>9 DEF vars
    <2> QED
      BY <2>5, <2>6, <2>7, <2>8, <2>9 DEF Next
  <1>3. Inv => NeverStale
    BY DEF NoneStale, NotStale, NeverStale, Timed, Gap
  <1> QED
    BY <1>1, <1>2, <1>3, TypeCorrect, PTL DEF Spec

-----------------------------------------------------------------------------
(***************************************************************************)
(* Rows in the order of time.  No row is later than the telegram that is   *)
(* recorded or, between telegrams, than the clock.                         *)
(***************************************************************************)
ClockKept == "stepback" \notin Faults

Latest == IF pc = "record" THEN now ELSE clock
InOrderSoFar ==
    /\ now <= clock
    /\ \A d \in Dbs, c \in Counters : \A i \in 1 .. Len(db[d][c]) : db[d][c][i].ts <= Latest

\* A reading adds at most a row of the time of the telegram at the end of a table.
LEMMA RecordInOrder ==
    ASSUME TypeOK, InTime, InOrderSoFar, Chronological, NEW failed, Record(failed)
    PROVE  InOrderSoFar' /\ Chronological'
  <1>1. Latest = now /\ Latest' = now /\ now' <= clock' /\ now \in Nat /\ ToInt(now) = now
    BY ToIntFits DEF Latest, Record, InOrderSoFar, TypeOK, InTime
  <1>2. ASSUME NEW d \in Dbs, NEW c \in Counters
        PROVE  /\ \A i \in 1 .. Len(db'[d][c]) : db'[d][c][i].ts <= now
               /\ \A i \in 1 .. Len(db'[d][c]) - 1 : db'[d][c][i].ts <= db'[d][c][i + 1].ts
    <2> DEFINE n == Len(db[d][c])
    <2>1. db[d][c] \in Seq(Rows) /\ n \in Nat
      BY DEF TypeOK
    <2>2. /\ \A i \in 1 .. n : db[d][c][i].ts <= now
          /\ \A i \in 1 .. n - 1 : db[d][c][i].ts <= db[d][c][i + 1].ts
      BY <1>1 DEF InOrderSoFar, Chronological
    <2>3. CASE db'[d][c] = db[d][c]
      BY <2>2, <2>3
    <2>4. CASE db'[d][c] # db[d][c]
      <3>1. Row(d, c).ts = now
        BY <1>1 DEF Row
      <3>2. /\ Len(db'[d][c]) = n + 1 /\ db'[d][c][n + 1].ts = now
            /\ \A i \in 1 .. n : db'[d][c][i] = db[d][c][i]
        BY <2>4, <3>1, InsertIsAppend
      <3>3. ASSUME NEW i \in 1 .. n + 1 PROVE db'[d][c][i].ts <= now
        <4>1. CASE i \in 1 .. n
          BY <2>2, <3>2, <4>1
        <4>2. CASE i = n + 1
          BY <1>1, <3>2, <4>2
        <4> QED
          BY <2>1, <4>1, <4>2
      <3>4. ASSUME NEW i \in 1 .. n PROVE db'[d][c][i].ts <= db'[d][c][i + 1].ts
        <4>1. CASE i < n
          <5>1. i \in 1 .. n - 1 /\ i + 1 \in 1 .. n
            BY <2>1, <4>1
          <5> QED
            BY <2>2, <3>2, <5>1
        <4>2. CASE i = n
          BY <2>1, <2>2, <3>2, <4>2
        <4> QED
          BY <2>1, <4>1, <4>2
      <3> QED
        BY <2>1, <3>2, <3>3, <3>4
    <2> QED
      BY <2>3, <2>4
  <1> QED
    BY <1>1, <1>2 DEF InOrderSoFar, Chronological

\* The rows of every table are in the order of their timestamps, whatever else
\* fails, while the clock is not set back and fits the timestamp column.
THEOREM RowsChronological == ClockFits /\ ClockKept /\ Spec => []Chronological
  <1> SUFFICES ASSUME ClockFits, ClockKept PROVE Spec => []Chronological
    OBVIOUS
  <1> DEFINE Inv == InTime /\ InOrderSoFar /\ Chronological
  <1>1. Init => Inv
    <2> SUFFICES ASSUME Init PROVE Inv
      OBVIOUS
    <2>1. InTime /\ now <= clock
      BY TimeAssumption DEF ClockFits, Init, InTime
    <2>2. \A d \in Dbs, c \in Counters : db[d][c] = << >>
      BY DEF Init
    <2> QED
      BY <2>1, <2>2 DEF InOrderSoFar, Chronological
  <1>2. TypeOK /\ Inv /\ [Next]_vars => Inv'
    <2> SUFFICES ASSUME TypeOK, Inv, [Next]_vars PROVE Inv'
      OBVIOUS
    <2>1. InTime'
      BY NextInTime
    <2>2. ASSUME db' = db, now' <= clock', Latest <= Latest' PROVE Inv'
      <3>1. ASSUME NEW d \in Dbs, NEW c \in Counters, NEW i \in 1 .. Len(db[d][c])
            PROVE  db[d][c][i].ts <= Latest'
        <4>1. db[d][c][i].ts <= Latest
          BY DEF InOrderSoFar
        <4>2. db[d][c][i].ts \in Int
          <5>1. db[d][c] \in Seq(Rows)
            BY DEF TypeOK
          <5>2. db[d][c][i] \in Rows
            BY <5>1
          <5> QED
            BY <5>2 DEF Rows
        <4>3. Latest \in Int /\ Latest' \in Int
          <5>1. TypeOK'
            BY NextType
          <5> QED
            BY <5>1 DEF Latest, TypeOK
        <4> QED
          BY <2>2, <4>1, <4>2, <4>3
      <3> QED
        BY <2>1, <2>2, <3>1 DEF InOrderSoFar, Chronological
    <2>3. /\ clock \in Nat /\ now \in Nat /\ now <= clock
      BY DEF TypeOK, InOrderSoFar
    <2>4. ASSUME NEW t \in Telegrams, Receive(t) PROVE Inv'
      <3>1. db' = db /\ now' <= clock' /\ Latest <= Latest'
        BY <2>3, <2>4 DEF Receive, Latest
      <3> QED
        BY <2>2, <3>1
    <2>5. ASSUME NEW failed, Record(failed) PROVE Inv'
      BY <2>1, <2>5, RecordInOrder
    <2>6. CASE EndTelegram \/ Restart \/ Crash \/ Tick \/ UNCHANGED vars
      <3>1. db' = db /\ now' <= clock' /\ Latest <= Latest'
        BY <2>3, <2>6 DEF EndTelegram, Restart, Crash, NewProcess, Tick, Latest, vars, TypeOK
      <3> QED
        BY <2>2, <3>1
    <2>7. CASE SetBack
      BY <2>7 DEF SetBack, ClockKept
    <2> QED
      BY <2>4, <2>5, <2>6, <2>7 DEF Next
  <1> QED
    BY <1>1, <1>2, TypeCorrect, PTL DEF Spec

-----------------------------------------------------------------------------
(***************************************************************************)
(* Tables that agree row by row.  Every telegram has one reading of every  *)
(* counter, and none is broken off.  While a telegram is being recorded    *)
(* some tables have its row and others have not; the invariant Alike       *)
(* compares them as they will be after it: what a counter is yet to gain   *)
(* depends on its timer only, and the timers agree as the tables do.       *)
(***************************************************************************)
Complete(t) ==
    \A c \in Counters :
        /\ \E i \in 1 .. Len(t) : t[i].id = IdOf[c]
        /\ \A i, j \in 1 .. Len(t) : t[i].id = IdOf[c] /\ t[j].id = IdOf[c] => i = j
EveryCounterOnce == \A t \in Telegrams : Complete(t)
NotBrokenOff == "crash" \notin Faults

\* the counters with a reading to come, and those whose reading has been entered
Awaits(c) == \E i \in 1 .. Len(p1_counters) : p1_counters[i].id = IdOf[c]
Progress ==
    pc = "record" => \A c \in Counters :
        /\ c \in entered <=> ~Awaits(c)
        /\ \A i, j \in 1 .. Len(p1_counters) :
               p1_counters[i].id = IdOf[c] /\ p1_counters[j].id = IdOf[c] => i = j

\* what is still to come in this telegram, and the table and timer after it
Due(d, c) == d = "raw" \/ Elapsed(Timer(d, c), Gap(d))
ToCome(d, c) == pc = "record" /\ c \notin entered /\ d \in OpenDbs /\ Due(d, c)
LenAfter(d, c) == Len(db[d][c]) + (IF ToCome(d, c) THEN 1 ELSE 0)
TimeAfter(d, c, i) == IF i <= Len(db[d][c]) THEN db[d][c][i].ts ELSE ToInt(now)
TimerAfter(d, c) == IF ToCome(d, c) THEN now ELSE Timer(d, c)

AlikeIn(d, c1, c2) ==
    /\ LenAfter(d, c1) = LenAfter(d, c2)
    /\ \A i \in 1 .. LenAfter(d, c1) : TimeAfter(d, c1, i) = TimeAfter(d, c2, i)
    /\ d # "raw" => TimerAfter(d, c1) = TimerAfter(d, c2)
Alike == \A d \in Dbs, c1, c2 \in Counters :
             Timed(d, c1) /\ Timed(d, c2) => AlikeIn(d, c1, c2)

\* Between telegrams nothing is to come.
LEMMA NothingToCome ==
    ASSUME TypeOK, pc = "receive" \/ entered = Counters, NEW d \in Dbs, NEW c \in Counters
    PROVE  /\ ~ToCome(d, c) /\ LenAfter(d, c) = Len(db[d][c])
           /\ TimerAfter(d, c) = Timer(d, c)
           /\ \A i \in 1 .. Len(db[d][c]) : TimeAfter(d, c, i) = db[d][c][i].ts
  <1>1. ~ToCome(d, c)
    BY DEF ToCome
  <1>2. Len(db[d][c]) \in Nat
    BY DEF TypeOK
  <1> QED
    BY <1>1, <1>2 DEF LenAfter, TimerAfter, TimeAfter

\* The tables agree then.
LEMMA AlikeAligned == TypeOK /\ Alike => Aligned
  <1> SUFFICES ASSUME TypeOK, Alike, pc = "receive" PROVE
          /\ \A d \in RawDbs, c1, c2 \in RawCounters : SameTimes(db[d][c1], db[d][c2])
          /\ \A c1, c2 \in TotalCounters : SameTimes(db["total"][c1], db["total"][c2])
    BY DEF Aligned
  <1>1. ASSUME NEW d \in Dbs, NEW c1 \in Counters, NEW c2 \in Counters,
               Timed(d, c1), Timed(d, c2)
        PROVE  SameTimes(db[d][c1], db[d][c2])
    BY <1>1, NothingToCome DEF Alike, AlikeIn, SameTimes
  <1>2. ASSUME NEW d \in RawDbs, NEW c \in RawCounters
        PROVE  Timed(d, c) /\ d \in Dbs /\ c \in Counters
    BY CountersAssumption DEF Timed, RawDbs, AverageDbs, Dbs, Counters
  <1>3. ASSUME NEW c \in TotalCounters
        PROVE  Timed("total", c) /\ "total" \in Dbs /\ c \in Counters
    BY DEF Timed, Dbs, Counters
  <1> QED
    BY <1>1, <1>2, <1>3

\* When a telegram begins, what is to come agrees because the timers do.
LEMMA ReceiveAlike ==
    ASSUME TypeOK, Alike, NEW t \in Telegrams, Receive(t)
    PROVE  Alike'
  <1> SUFFICES ASSUME NEW d \in Dbs, NEW c1 \in Counters, NEW c2 \in Counters,
                      Timed(d, c1), Timed(d, c2)
               PROVE  AlikeIn(d, c1, c2)'
    BY DEF Alike, Timed
  <1>1. AlikeIn(d, c1, c2) /\ pc = "receive"
    BY DEF Alike, Receive
  <1>2. /\ Len(db[d][c1]) = Len(db[d][c2]) /\ Len(db[d][c1]) \in Nat
        /\ \A i \in 1 .. Len(db[d][c1]) : db[d][c1][i].ts = db[d][c2][i].ts
        /\ d # "raw" => Timer(d, c1) = Timer(d, c2)
    BY <1>1, NothingToCome DEF AlikeIn, TypeOK
  <1>3. db' = db /\ pc' = "record" /\ entered' = {} /\ now' = clock
    BY DEF Receive
  <1>4. Timer(d, c1)' = Timer(d, c1) /\ Timer(d, c2)' = Timer(d, c2)
    BY DEF Receive, Timer
  <1>5. ToCome(d, c1)' <=> ToCome(d, c2)'
    <2>1. Due(d, c1)' <=> Due(d, c2)'
      BY <1>2, <1>4 DEF Due, Elapsed, Gap
    <2> QED
      BY <1>3, <2>1 DEF ToCome
  <1>6. LenAfter(d, c1)' = LenAfter(d, c2)'
    BY <1>2, <1>3, <1>5 DEF LenAfter
  <1>7. ASSUME NEW i \in 1 .. LenAfter(d, c1)'
        PROVE  TimeAfter(d, c1, i)' = TimeAfter(d, c2, i)'
    <2>1. LenAfter(d, c1)' \in {Len(db[d][c1]), Len(db[d][c1]) + 1}
      <3>1. CASE ToCome(d, c1)'
        BY <1>2, <1>3, <3>1 DEF LenAfter
      <3>2. CASE ~ToCome(d, c1)'
        BY <1>2, <1>3, <3>2 DEF LenAfter
      <3> QED
        BY <3>1, <3>2
    <2>2. i \in 1 .. Len(db[d][c1]) + 1
      BY <1>2, <2>1
    <2> QED
      BY <1>2, <1>3, <2>2 DEF TimeAfter
  <1>8. d # "raw" => TimerAfter(d, c1)' = TimerAfter(d, c2)'
    BY <1>2, <1>4, <1>5 DEF TimerAfter
  <1> QED
    BY <1>6, <1>7, <1>8 DEF AlikeIn

\* A reading brings a table to where it was expected, and no other table is moved.
LEMMA RecordAfter ==
    ASSUME TypeOK, Progress, Record({}), NEW d \in Dbs, NEW c \in Counters, Timed(d, c)
    PROVE  /\ LenAfter(d, c)' = LenAfter(d, c)
           /\ \A i \in 1 .. LenAfter(d, c) : TimeAfter(d, c, i)' = TimeAfter(d, c, i)
           /\ d # "raw" => TimerAfter(d, c)' = TimerAfter(d, c)
  <1> DEFINE n == Len(db[d][c])
  <1>1. /\ db[d][c] \in Seq(Rows) /\ n \in Nat /\ pc = "record" /\ pc' = "record"
        /\ now' = now /\ p1_counters \in Seq(Readings) /\ p1_counters # << >>
        /\ entered' = entered \cup {x \in Counters : Matches(x)}
    BY DEF TypeOK, Record
  <1>2. ToInt(now)' = ToInt(now)
    BY <1>1 DEF ToInt
  <1>3. Writes(d, c) <=> Matches(c) /\ d \in OpenDbs /\ Due(d, c)
    <2>1. CASE d = "raw"
      <3>1. c \in RawCounters
        BY <2>1 DEF Timed, Counters
      <3> QED
        BY <2>1, <3>1 DEF Writes, AverageDbs, Due
    <2>2. CASE d # "raw"
      BY <2>2, EntryTimer DEF Due
    <2> QED
      BY <2>1, <2>2
  <1>4. CASE Matches(c)
    <2>1. c \notin entered /\ c \in entered'
      <3>1. p1_counters[1].id = IdOf[c] /\ 1 \in 1 .. Len(p1_counters)
        BY <1>1, <1>4 DEF Matches, Reading
      <3> QED
        BY <1>1, <1>4, <3>1 DEF Progress, Awaits
    <2>2. ~ToCome(d, c)' /\ (ToCome(d, c) <=> Writes(d, c))
      BY <1>1, <1>3, <1>4, <2>1 DEF ToCome
    <2>3. d # "raw" => TimerAfter(d, c)' = TimerAfter(d, c)
      <3>1. ASSUME d # "raw"
            PROVE  Timer(d, c)' = IF Writes(d, c) THEN now ELSE Timer(d, c)
        BY <3>1, EntryTimer
      <3> QED
        BY <2>2, <3>1 DEF TimerAfter
    <2>4. CASE Writes(d, c)
      <3>1. Row(d, c).ts = ToInt(now)
        BY DEF Row
      <3>2. /\ Len(db'[d][c]) = n + 1
            /\ \A i \in 1 .. n : db'[d][c][i] = db[d][c][i]
            /\ db'[d][c][n + 1].ts = ToInt(now)
        <4>1. Len(db'[d][c]) = n + 1 /\ db'[d][c][n + 1] = Row(d, c)
          BY <2>4, DueIsInserted
        <4>2. db'[d][c] # db[d][c]
          BY <1>1, <4>1
        <4> QED
          BY <3>1, <4>1, <4>2, InsertIsAppend
      <3>3. LenAfter(d, c)' = n + 1 /\ LenAfter(d, c) = n + 1
        BY <1>1, <2>2, <2>4, <3>2 DEF LenAfter
      <3>4. ASSUME NEW i \in 1 .. n + 1 PROVE TimeAfter(d, c, i)' = TimeAfter(d, c, i)
        <4>1. CASE i \in 1 .. n
          BY <1>1, <3>2, <4>1 DEF TimeAfter
        <4>2. CASE i = n + 1
          BY <1>1, <3>2, <4>2 DEF TimeAfter
        <4> QED
          BY <1>1, <4>1, <4>2
      <3> QED
        BY <2>3, <3>3, <3>4
    <2>5. CASE ~Writes(d, c)
      <3>1. db'[d][c] = db[d][c]
        BY <2>5, DueIsInserted
      <3> QED
        BY <1>1, <1>2, <2>2, <2>3, <2>5, <3>1 DEF LenAfter, TimeAfter
    <2> QED
      BY <2>4, <2>5
  <1>5. CASE ~Matches(c)
    <2>1. db'[d][c] = db[d][c]
      BY <1>3, <1>5, DueIsInserted
    <2>2. d # "raw" => Timer(d, c)' = Timer(d, c)
      BY <1>5, EntryTimer
    <2>3. c \in entered' <=> c \in entered
      BY <1>1, <1>5
    <2>4. ToCome(d, c)' <=> ToCome(d, c)
      BY <1>1, <2>2, <2>3 DEF ToCome, Due, Elapsed, Gap, Interval
    <2> QED
      BY <1>1, <1>2, <2>1, <2>2, <2>4 DEF LenAfter, TimeAfter, TimerAfter
  <1> QED
    BY <1>4, <1>5

\* A counter is entered when the reading it waited for is, and only then.
LEMMA RecordProgress ==
    ASSUME TypeOK, Progress, NEW failed, Record(failed)
    PROVE  Progress'
  <1> DEFINE n == Len(p1_counters)
  <1>1. /\ p1_counters \in Seq(Readings) /\ p1_counters # << >> /\ pc = "record"
        /\ p1_counters' = Tail(p1_counters)
        /\ entered' = entered \cup {x \in Counters : Matches(x)}
    BY DEF TypeOK, Record
  <1>2. /\ n \in Nat /\ n >= 1 /\ Len(p1_counters') = n - 1
        /\ \A i \in 1 .. n - 1 : p1_counters'[i] = p1_counters[i + 1]
    BY <1>1, EmptySeq, HeadTailProperties
  <1>3. ASSUME NEW c \in Counters
        PROVE  /\ c \in entered' <=> ~Awaits(c)'
               /\ \A i, j \in 1 .. n - 1 :
                      p1_counters'[i].id = IdOf[c] /\ p1_counters'[j].id = IdOf[c] => i = j
    <2>1. \A i, j \in 1 .. n :
              p1_counters[i].id = IdOf[c] /\ p1_counters[j].id = IdOf[c] => i = j
      BY <1>1 DEF Progress
    <2>2. ASSUME NEW i \in 1 .. n - 1, NEW j \in 1 .. n - 1,
                 p1_counters'[i].id = IdOf[c], p1_counters'[j].id = IdOf[c]
          PROVE  i = j
      <3>1. i + 1 \in 1 .. n /\ j + 1 \in 1 .. n
        BY <1>2
      <3>2. i + 1 = j + 1
        BY <1>2, <2>1, <2>2, <3>1
      <3> QED
        BY <3>2
    <2>3. Awaits(c)' <=> \E i \in 2 .. n : p1_counters[i].id = IdOf[c]
      <3>1. Awaits(c)' <=> \E i \in 1 .. n - 1 : p1_counters[i + 1].id = IdOf[c]
        BY <1>2 DEF Awaits
      <3>2. ASSUME NEW i \in 2 .. n, p1_counters[i].id = IdOf[c]
            PROVE  \E j \in 1 .. n - 1 : p1_counters[j + 1].id = IdOf[c]
        <4>1. i - 1 \in 1 .. n - 1 /\ (i - 1) + 1 = i
          BY <1>2
        <4> QED
          BY <3>2, <4>1
      <3>3. \A j \in 1 .. n - 1 : j + 1 \in 2 .. n
        BY <1>2
      <3> QED
        BY <3>1, <3>2, <3>3
    <2>4. Awaits(c) <=> Matches(c) \/ \E i \in 2 .. n : p1_counters[i].id = IdOf[c]
      <3>1. Matches(c) <=> p1_counters[1].id = IdOf[c]
        BY <1>1 DEF Matches, Reading
      <3>2. \A i : i \in 1 .. n <=> i = 1 \/ i \in 2 .. n
        BY <1>2
      <3> QED
        BY <3>1, <3>2 DEF Awaits
    <2>5. Matches(c) => ~\E i \in 2 .. n : p1_counters[i].id = IdOf[c]
      <3>1. Matches(c) => p1_counters[1].id = IdOf[c]
        BY <1>1 DEF Matches, Reading
      <3>2. 1 \in 1 .. n /\ \A i \in 2 .. n : i \in 1 .. n /\ i # 1
        BY <1>2
      <3> QED
        BY <2>1, <3>1, <3>2
    <2>6. c \in entered' <=> c \in entered \/ Matches(c)
      BY <1>1
    <2>7. c \in entered <=> ~Awaits(c)
      BY <1>1 DEF Progress
    <2> QED
      BY <2>2, <2>3, <2>4, <2>5, <2>6, <2>7
  <1> QED
    BY <1>2, <1>3 DEF Progress

\* Between two telegrams the tables of the counters a database keeps agree row by
\* row, over restarts and with the clock set back, when every telegram is complete,
\* none is broken off and no INSERT fails: what the output tool relies on.
THEOREM TablesAligned ==
    EveryCounterOnce /\ NotBrokenOff /\ NothingFails /\ Spec => []Aligned
  <1> SUFFICES ASSUME EveryCounterOnce, NotBrokenOff, NothingFails PROVE Spec => []Aligned
    OBVIOUS
  <1> DEFINE Inv == Progress /\ Alike
  <1>1. Init => Inv
    <2> SUFFICES ASSUME Init PROVE Inv
      OBVIOUS
    <2>1. TypeOK /\ pc = "receive"
      BY InitType DEF Init
    <2>2. ASSUME NEW d \in Dbs, NEW c \in Counters, Timed(d, c)
          PROVE  db[d][c] = << >> /\ (d # "raw" => Timer(d, c) = 0)
      <3>1. db[d][c] = << >>
        BY DEF Init
      <3>2. d # "raw" => Timer(d, c) = 0
        BY <2>2, TimedKinds DEF Init, FreshAverages, FreshTotals, Timer, AverageDbs
      <3> QED
        BY <3>1, <3>2
    <2>3. ASSUME NEW d \in Dbs, NEW c1 \in Counters, NEW c2 \in Counters,
                 Timed(d, c1), Timed(d, c2)
          PROVE  AlikeIn(d, c1, c2)
      <3>1. LenAfter(d, c1) = 0 /\ LenAfter(d, c2) = 0
        BY <2>1, <2>2, <2>3, NothingToCome
      <3>2. d # "raw" => TimerAfter(d, c1) = 0 /\ TimerAfter(d, c2) = 0
        BY <2>1, <2>2, <2>3, NothingToCome
      <3> QED
        BY <3>1, <3>2 DEF AlikeIn
    <2> QED
      BY <2>1, <2>3 DEF Progress, Alike
  <1>2. TypeOK /\ Inv /\ [Next]_vars => Inv'
    <2> SUFFICES ASSUME TypeOK, Inv, [Next]_vars PROVE Inv'
      OBVIOUS
    <2>1. ASSUME UNCHANGED <<pc, now, p1_counters, avg, cumul_rec_ts, db, entered>>
          PROVE  Inv'
      <3>1. ToInt(now)' = ToInt(now)
        BY <2>1 DEF ToInt
      <3>2. Progress'
        BY <2>1 DEF Progress, Awaits
      <3>3. ASSUME NEW d \in Dbs, NEW c \in Counters
            PROVE  /\ LenAfter(d, c)' = LenAfter(d, c)
                   /\ TimerAfter(d, c)' = TimerAfter(d, c)
                   /\ \A i : TimeAfter(d, c, i)' = TimeAfter(d, c, i)
        <4>1. Timer(d, c)' = Timer(d, c)
          BY <2>1 DEF Timer
        <4>2. ToCome(d, c)' <=> ToCome(d, c)
          BY <2>1, <4>1 DEF ToCome, Due, Elapsed, Gap, Interval
        <4> QED
          BY <2>1, <3>1, <4>1, <4>2 DEF LenAfter, TimerAfter, TimeAfter
      <3> QED
        BY <3>2, <3>3 DEF Alike, AlikeIn, Timed
    <2>2. ASSUME NEW t \in Telegrams, Receive(t) PROVE Inv'
      <3>1. Progress'
        BY <2>2 DEF Receive, Progress, Awaits, EveryCounterOnce, Complete
      <3> QED
        BY <2>2, <3>1, ReceiveAlike
    <2>3. ASSUME NEW failed \in SUBSET (IF "insert" \in Faults THEN OpenDbs ELSE {}),
                 Record(failed)
          PROVE  Inv'
      <3>1. Record({})
        <4>1. failed = {}
          BY DEF NothingFails
        <4> QED
          BY <2>3, <4>1
      <3>2. Alike'
        BY <3>1, RecordAfter DEF Alike, AlikeIn, Timed
      <3> QED
        BY <2>3, <3>2, RecordProgress
    <2>4. CASE EndTelegram
      <3>1. p1_counters = << >> /\ pc = "record" /\ pc' = "receive"
        BY <2>4 DEF EndTelegram
      <3>2. entered = Counters
        <4>1. \A c \in Counters : ~Awaits(c)
          BY <3>1 DEF Awaits
        <4>2. \A c \in Counters : c \in entered
          BY <3>1, <4>1 DEF Progress
        <4> QED
          BY <4>2 DEF TypeOK
      <3>3. TypeOK'
        BY NextType
      <3>4. ASSUME NEW d \in Dbs, NEW c \in Counters
            PROVE  /\ LenAfter(d, c)' = LenAfter(d, c)
                   /\ TimerAfter(d, c)' = TimerAfter(d, c)
                   /\ \A i \in 1 .. LenAfter(d, c) : TimeAfter(d, c, i)' = TimeAfter(d, c, i)
        <4>1. db' = db /\ avg' = avg /\ cumul_rec_ts' = cumul_rec_ts /\ now' = now
          BY <2>4 DEF EndTelegram
        <4>2. ToInt(now)' = ToInt(now) /\ Timer(d, c)' = Timer(d, c)
          BY <4>1 DEF ToInt, Timer
        <4>3. ~ToCome(d, c) /\ ~ToCome(d, c)'
          BY <3>1, <3>2 DEF ToCome
        <4> QED
          BY <4>1, <4>2, <4>3 DEF LenAfter, TimerAfter, TimeAfter
      <3>5. Alike'
        BY <3>4 DEF Alike, AlikeIn, Timed
      <3> QED
        BY <3>1, <3>5 DEF Progress
    <2>5. CASE Restart
      <3>1. /\ pc = "receive" /\ pc' = "receive" /\ db' = db
            /\ avg' = FreshAverages /\ cumul_rec_ts' = FreshTotals
        BY <2>5 DEF Restart, NewProcess
      <3>2. ASSUME NEW d \in Dbs, NEW c1 \in Counters, NEW c2 \in Counters,
                   Timed(d, c1), Timed(d, c2)
            PROVE  AlikeIn(d, c1, c2)'
        <4>1. ASSUME NEW c \in {c1, c2}
              PROVE  /\ LenAfter(d, c)' = Len(db[d][c]) /\ LenAfter(d, c) = Len(db[d][c])
                     /\ \A i \in 1 .. Len(db[d][c]) :
                            TimeAfter(d, c, i)' = db[d][c][i].ts /\ TimeAfter(d, c, i) = db[d][c][i].ts
                     /\ d # "raw" => TimerAfter(d, c)' = 0
          <5>1. ~ToCome(d, c)' /\ ~ToCome(d, c) /\ Len(db[d][c]) \in Nat
            BY <3>1 DEF ToCome, TypeOK
          <5>2. d # "raw" => Timer(d, c)' = 0
            BY <3>1, <3>2, TimedKinds DEF FreshAverages, FreshTotals, Timer, AverageDbs
          <5> QED
            BY <3>1, <5>1, <5>2 DEF LenAfter, TimeAfter, TimerAfter
        <4> QED
          BY <3>2, <4>1 DEF Alike, AlikeIn
      <3>3. Alike'
        BY <3>2 DEF Alike, Timed
      <3> QED
        BY <3>1, <3>3 DEF Progress
    <2>6. CASE Crash
      BY <2>6 DEF Crash, NotBrokenOff
    <2>7. CASE Tick \/ SetBack \/ UNCHANGED vars
      BY <2>1, <2>7 DEF Tick, SetBack, vars
    <2> QED
      BY <2>2, <2>3, <2>4, <2>5, <2>6, <2>7 DEF Next
  <1> QED
    BY <1>1, <1>2, AlikeAligned, TypeCorrect, PTL DEF Spec

=============================================================================
