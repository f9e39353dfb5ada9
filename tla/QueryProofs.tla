---------------------------- MODULE QueryProofs ----------------------------
(***************************************************************************)
(* Theorems about the output tool beside a daemon that goes on recording,  *)
(* for any tables, any list of counters and tables of any length.          *)
(*                                                                         *)
(* The argument: tables only grow at their end, so the k-th row to be      *)
(* printed from a table stays what it is, and what the tool holds or has   *)
(* printed of each counter can be told from the table as it is now.  The   *)
(* tables agree but for the telegram at hand, so the lines do.             *)
(***************************************************************************)
EXTENDS Query, SubsequenceProofs

-----------------------------------------------------------------------------
(***************************************************************************)
(* The rows of a table that grows                                          *)
(***************************************************************************)

\* A row inserted at the end is found at the end, or not at all.
LEMMA SinceGrows ==
    ASSUME NEW E, NEW s \in Seq(E), NEW x \in E, NEW from
    PROVE  Since(Append(s, x), from) =
               IF x >= from THEN Append(Since(s, from), x) ELSE Since(s, from)
  <1> DEFINE t == Append(s, x)
             I == {k \in DOMAIN s : s[k] >= from}
             J == {k \in DOMAIN t : t[k] >= from}
  <1>1. /\ Len(s) \in Nat /\ DOMAIN s = 1 .. Len(s) /\ DOMAIN t = 1 .. Len(s) + 1
        /\ t[Len(s) + 1] = x /\ \A k \in 1 .. Len(s) : t[k] = s[k]
    BY LenProperties, AppendProperties
  <1>2. \A k \in 1 .. Len(s) : k \in I <=> k \in J
    <2> HIDE DEF t
    <2> QED
      BY <1>1
  <1>3. Len(s) + 1 \in J <=> x >= from
    <2> HIDE DEF t
    <2> QED
      BY <1>1
  <1>4. Since(s, from) = ElementsAt(s, I) /\ Since(t, from) = ElementsAt(t, J)
    BY DEF Since
  <1> HIDE DEF I, J
  <1>5. ElementsAt(t, J) = IF Len(s) + 1 \in J THEN Append(ElementsAt(s, I), x)
                           ELSE ElementsAt(s, I)
    BY <1>2, ElementsAppend
  <1> QED
    BY <1>3, <1>4, <1>5

\* Rows found are rows of the table.
LEMMA SinceType ==
    ASSUME NEW E, NEW s \in Seq(E), NEW from
    PROVE  Since(s, from) \in Seq(E)
  BY ElementsAreOfIt DEF Since

\* the k-th row to be printed from a table: the k-th of the window, or with -j
\* the first since the time of the k-th sample
From(k) == IF skip_time = 0 THEN select_from ELSE select_from + (k - 1) * skip_time
Nth(k) == IF skip_time = 0 THEN k ELSE 1
HasRow(s, k) == Nth(k) \in 1 .. Len(Since(s, From(k)))
RowAt(s, k) == Since(s, From(k))[Nth(k)]

\* It stays what it is when the table grows.
LEMMA RowStays ==
    ASSUME NEW E, NEW s \in Seq(E), NEW x \in E, NEW k, HasRow(s, k)
    PROVE  HasRow(Append(s, x), k) /\ RowAt(Append(s, x), k) = RowAt(s, k)
  <1> DEFINE f == Since(s, From(k))
  <1>1. f \in Seq(E) /\ Len(f) \in Nat
    BY SinceType, LenProperties
  <1>2. Since(Append(s, x), From(k)) \in {f, Append(f, x)}
    BY SinceGrows
  <1>3. Nth(k) \in 1 .. Len(f)
    BY DEF HasRow
  <1> HIDE DEF f
  <1>4. /\ Nth(k) \in 1 .. Len(Append(f, x))
        /\ Append(f, x)[Nth(k)] = f[Nth(k)]
    BY <1>1, <1>3, AppendProperties
  <1> QED
    BY <1>2, <1>3, <1>4 DEF HasRow, RowAt, f

-----------------------------------------------------------------------------
(***************************************************************************)
(* The inductive invariant                                                 *)
(***************************************************************************)
Clock == Epoch .. MaxClock
LineType == [ts : Epoch + TimeOfs .. MaxClock + TimeOfs,
             rows : [DOMAIN sel_counters -> Clock]]

\* every row has the time of some reading of the clock
Typed ==
    /\ TypeOK
    /\ clock \in Clock /\ (to_insert # {} => db_ts \in Clock)
    /\ tables \in [Tables -> Seq(Clock)]
    /\ results \in [DOMAIN sel_counters -> Seq(Clock)]
    /\ lines \in Seq(LineType)

\* the tables have the same rows, but for the telegram that is being recorded
Agree ==
    \A c, d \in Tables :
        /\ (c \in to_insert <=> d \in to_insert) => tables[c] = tables[d]
        /\ c \in to_insert /\ d \notin to_insert => tables[d] = Append(tables[c], db_ts)

\* where the tool is
Place ==
    /\ pc = "start" => i = 1
    /\ pc \in {"start", "select"} =>
          /\ lines = << >>
          /\ \A j \in DOMAIN sel_counters : j > i => results[j] = << >>
    /\ pc = "start" \/ (pc = "select" /\ skip_time = 0) => results[i] = << >>
    /\ pc = "select" /\ skip_time > 0 => timestamp = From(Len(results[i]) + 1)

\* a counter that was read has a table
Read(j) == pc = "merge" \/ pc = "done" \/ (pc = "select" /\ j < i)
TablesRead ==
    \A j \in DOMAIN sel_counters :
        Read(j) \/ results[j] # << >> \/ lines # << >> => sel_counters[j] \in Tables

\* what the tool holds and has printed of a counter are the rows of its table
Shown ==
    \A j \in DOMAIN sel_counters :
        /\ \A k \in 1 .. Len(lines) :
              /\ HasRow(tables[sel_counters[j]], k)
              /\ lines[k].rows[j] = RowAt(tables[sel_counters[j]], k)
        /\ \A k \in 1 .. Len(results[j]) :
              /\ HasRow(tables[sel_counters[j]], Len(lines) + k)
              /\ results[j][k] = RowAt(tables[sel_counters[j]], Len(lines) + k)

\* a line has the time of its first row
Stamped == \A k \in 1 .. Len(lines) : lines[k].ts = lines[k].rows[1] + TimeOfs

\* none of the rows that were there at the start is left out
Owed(j) == Len(Since(WhenStarted(sel_counters[j]), select_from))
InWindow ==
    pc \notin {"start", "failed"} =>
        /\ \A c \in Tables : /\ before[c] \in 0 .. Len(tables[c])
                             /\ Len(Since(WhenStarted(c), select_from))
                                   <= Len(Since(tables[c], select_from))
        /\ skip_time = 0 =>
              /\ \A j \in DOMAIN sel_counters : Read(j) /\ pc # "done" =>
                    Len(lines) + Len(results[j]) >= Owed(j)
              /\ pc = "done" =>
                    \E j \in DOMAIN sel_counters : Len(lines) >= Owed(j)

\* min_x and max_x while the lines are in the order of time
Rising == \A k \in 1 .. Len(lines) - 1 : lines[k].ts < lines[k + 1].ts
RangeSoFar ==
    Rising =>
        /\ lines = << >> => min_x = MaxInt /\ max_x = 0
        /\ lines # << >> => min_x = lines[1].ts /\ min_x <= lines[Len(lines)].ts
        /\ max_x = IF Len(lines) > 1 THEN lines[Len(lines)].ts ELSE 0

Inv == /\ Typed /\ Agree /\ Place /\ TablesRead /\ Shown /\ Stamped /\ InWindow
       /\ RangeSoFar

\* It holds before the first telegram and before the tool runs.
LEMMA InitInv == Init => Inv
  <1> SUFFICES ASSUME Init PROVE Inv
    OBVIOUS
  <1> USE DEF Init
  <1>1. /\ sel_counters \in Seq(STRING) /\ Len(sel_counters) \in Nat \ {0}
        /\ DOMAIN sel_counters = 1 .. Len(sel_counters)
    BY QueryAssumption, LenProperties, EmptySeq
  <1>2. \A E : << >> \in Seq(E)
    BY EmptySeq
  <1>3. \A j \in DOMAIN sel_counters : results[j] = << >>
    OBVIOUS
  <1>4. Len(<< >>) = 0 /\ 1 .. 0 = {}
    OBVIOUS
  <1>5. Typed
    <2>1. /\ tables \in [Tables -> Seq(Clock)] /\ tables \in [Tables -> Seq(Nat)]
          /\ results \in [DOMAIN sel_counters -> Seq(Clock)]
          /\ results \in [DOMAIN sel_counters -> Seq(Nat)]
          /\ lines \in Seq(LineType)
          /\ lines \in Seq([ts : Int, rows : [DOMAIN sel_counters -> Nat]])
      <3>1. << >> \in Seq(Clock) /\ << >> \in Seq(Nat)
        BY <1>2
      <3> QED
        BY <1>2, <3>1
    <2>2. clock \in Clock /\ clock \in Nat /\ i \in DOMAIN sel_counters
          /\ before \in [Tables -> Nat] /\ min_x \in Int
      BY <1>1, QueryAssumption DEF Clock
    <2> QED
      BY <2>1, <2>2 DEF Typed, TypeOK
  <1>6. Agree /\ Stamped /\ Place /\ RangeSoFar
    BY <1>1, <1>3, <1>4 DEF Agree, Stamped, Place, RangeSoFar
  <1>7. TablesRead /\ Shown /\ InWindow
    BY <1>3, <1>4 DEF TablesRead, Read, Shown, InWindow
  <1> QED
    BY <1>5, <1>6, <1>7 DEF Inv

-----------------------------------------------------------------------------
(***************************************************************************)
(* The daemon's steps                                                      *)
(***************************************************************************)

\* the list of counters
LEMMA Selected ==
    ASSUME Typed
    PROVE  /\ sel_counters \in Seq(STRING) /\ Len(sel_counters) \in Nat \ {0}
           /\ DOMAIN sel_counters = 1 .. Len(sel_counters)
           /\ 1 \in DOMAIN sel_counters /\ i \in DOMAIN sel_counters
           /\ skip_time \in Nat /\ select_from \in Int
           /\ LineType \subseteq [ts : Int, rows : [DOMAIN sel_counters -> Nat]]
           /\ Clock \subseteq Nat
  <1>1. sel_counters \in Seq(STRING) /\ sel_counters # << >>
    BY QueryAssumption DEF Typed, TypeOK
  <1>2. Len(sel_counters) \in Nat \ {0} /\ DOMAIN sel_counters = 1 .. Len(sel_counters)
    BY <1>1, LenProperties, EmptySeq
  <1>3. Clock \subseteq Nat
    BY QueryAssumption DEF Clock
  <1>4. Epoch + TimeOfs .. MaxClock + TimeOfs \subseteq Int
    OBVIOUS
  <1>5. [DOMAIN sel_counters -> Clock] \subseteq [DOMAIN sel_counters -> Nat]
    BY <1>3
  <1>6. LineType \subseteq [ts : Int, rows : [DOMAIN sel_counters -> Nat]]
    BY <1>4, <1>5, Zenon DEF LineType
  <1>7. skip_time \in Nat /\ select_from \in Int /\ i \in DOMAIN sel_counters
    BY QueryAssumption DEF Typed, TypeOK
  <1> QED
    BY <1>1, <1>2, <1>3, <1>6, <1>7

\* While neither the tables nor the tool change, what relates them holds on.
LEMMA ToolSame ==
    ASSUME Inv, UNCHANGED <<tables, tool>>
    PROVE  /\ Place' /\ TablesRead' /\ Shown' /\ Stamped' /\ InWindow' /\ RangeSoFar'
           /\ sel_counters' = sel_counters /\ results' = results /\ lines' = lines
           /\ LineType' = LineType
  <1>1. /\ UNCHANGED <<sel_counters, skip_time, pc, i, select_from, timestamp, results>>
        /\ UNCHANGED <<lines, min_x, max_x, before, tables>>
    BY DEF tool, args, range
  <1>2. Place'
    BY <1>1 DEF Inv, Place, From
  <1>3. TablesRead'
    BY <1>1 DEF Inv, TablesRead, Read
  <1>4. Shown'
    BY <1>1 DEF Inv, Shown, HasRow, RowAt, From, Nth
  <1>5. Stamped' /\ RangeSoFar'
    BY <1>1 DEF Inv, Stamped, RangeSoFar, Rising
  <1>6. InWindow'
    <2>1. \A c : WhenStarted(c)' = WhenStarted(c)
      BY <1>1 DEF WhenStarted
    <2>2. \A j : Owed(j)' = Owed(j) /\ (Read(j)' <=> Read(j))
      BY <1>1, <2>1 DEF Owed, Read
    <2> QED
      BY <1>1, <2>1, <2>2 DEF Inv, InWindow
  <1> QED
    BY <1>1, <1>2, <1>3, <1>4, <1>5, <1>6 DEF LineType

\* A telegram that is taken in, and the clock, change no table.
LEMMA ClockStep ==
    ASSUME Inv, Telegram \/ Tick \/ SetBack \/ UNCHANGED vars
    PROVE  Inv'
  <1>1. /\ UNCHANGED <<tables, tool>> /\ clock' \in Clock
        /\ db_ts' \in Nat /\ (to_insert' # {} => db_ts' \in Clock)
        /\ to_insert' \subseteq Tables
    <2>1. clock \in Clock /\ db_ts \in Nat /\ (to_insert # {} => db_ts \in Clock)
          /\ to_insert \subseteq Tables /\ Clock \subseteq Nat
      BY Selected DEF Inv, Typed, TypeOK
    <2>2. CASE Telegram
      BY <2>1, <2>2 DEF Telegram
    <2>3. CASE Tick \/ SetBack
      BY <2>1, <2>3, QueryAssumption DEF Tick, SetBack, Clock
    <2>4. CASE UNCHANGED vars
      BY <2>1, <2>4 DEF vars, daemon, tool
    <2> QED
      BY <2>2, <2>3, <2>4
  <1>2. Agree'
    <2>1. CASE Telegram
      BY <2>1 DEF Telegram, Inv, Agree
    <2>2. CASE Tick \/ SetBack \/ UNCHANGED vars
      BY <2>2 DEF Tick, SetBack, vars, daemon, Inv, Agree
    <2> QED
      BY <2>1, <2>2
  <1>3. Typed'
    <2>1. /\ UNCHANGED <<sel_counters, skip_time, pc, i, select_from, timestamp, results>>
          /\ UNCHANGED <<lines, min_x, max_x, before, tables, outfile>>
      BY <1>1 DEF tool, args, range
    <2>2. clock' \in Nat
      BY <1>1, Selected DEF Inv
    <2> QED
      BY <1>1, <2>1, <2>2, ToolSame DEF Inv, Typed, TypeOK
  <1> QED
    BY <1>1, <1>2, <1>3, ToolSame DEF Inv

\* A table has a row more or is as it was.
LEMMA TableGrows ==
    ASSUME Inv, NEW c \in Tables, InsertRow(c)
    PROVE  /\ db_ts \in Clock /\ UNCHANGED <<clock, db_ts, tool>>
           /\ tables' \in [Tables -> Seq(Clock)]
           /\ tables'[c] = Append(tables[c], db_ts)
           /\ \A d \in Tables \ {c} : tables'[d] = tables[d]
           /\ \A d \in Tables : /\ tables[d] \in Seq(Clock)
                                /\ tables'[d] = tables[d] \/ tables'[d] = Append(tables[d], db_ts)
  <1>1. /\ db_ts \in Clock /\ tables \in [Tables -> Seq(Clock)]
        /\ tables' = [tables EXCEPT ![c] = Append(@, db_ts)]
        /\ UNCHANGED <<clock, db_ts, tool>>
    BY DEF InsertRow, Inv, Typed
  <1>2. Append(tables[c], db_ts) \in Seq(Clock)
    BY <1>1, AppendProperties
  <1> QED
    BY <1>1, <1>2

\* What was there when the tool started stays there, with all that was found.
LEMMA WindowStays ==
    ASSUME NEW E, NEW s \in Seq(E), NEW x \in E, NEW b \in 0 .. Len(s), NEW from
    PROVE  /\ b \in 0 .. Len(Append(s, x))
           /\ SubSeq(Append(s, x), 1, b) = SubSeq(s, 1, b)
           /\ Len(Since(s, from)) <= Len(Since(Append(s, x), from))
           /\ Len(Since(s, from)) \in Nat
  <1> DEFINE f == Since(s, from)
  <1>1. Len(s) \in Nat /\ Append(s, x) \in Seq(E) /\ Len(Append(s, x)) = Len(s) + 1
        /\ \A k \in 1 .. Len(s) : Append(s, x)[k] = s[k]
    BY LenProperties, AppendProperties
  <1>2. f \in Seq(E) /\ Len(f) \in Nat /\ Len(Append(f, x)) = Len(f) + 1
    BY SinceType, LenProperties, AppendProperties
  <1>3. Since(Append(s, x), from) = f \/ Since(Append(s, x), from) = Append(f, x)
    BY SinceGrows
  <1>4. SubSeq(Append(s, x), 1, b) = SubSeq(s, 1, b)
    BY <1>1, SubSeqProperties, SeqEqual
  <1> HIDE DEF f
  <1>5. Len(f) <= Len(Since(Append(s, x), from))
    BY <1>2, <1>3
  <1> QED
    BY <1>1, <1>2, <1>4, <1>5 DEF f

\* A row that comes in leaves what was read and printed true of its table.
LEMMA InsertStep ==
    ASSUME Inv, NEW c \in Tables, InsertRow(c)
    PROVE  Inv'
  <1>1. /\ db_ts \in Clock /\ UNCHANGED <<clock, db_ts, tool>>
        /\ tables' \in [Tables -> Seq(Clock)]
        /\ tables'[c] = Append(tables[c], db_ts)
        /\ \A d \in Tables \ {c} : tables'[d] = tables[d]
        /\ \A d \in Tables : /\ tables[d] \in Seq(Clock)
                             /\ tables'[d] = tables[d] \/ tables'[d] = Append(tables[d], db_ts)
    BY TableGrows
  <1>2. /\ UNCHANGED <<sel_counters, skip_time, pc, i, select_from, timestamp, results>>
        /\ UNCHANGED <<lines, min_x, max_x, before, outfile, clock, db_ts>>
    BY <1>1 DEF tool, args, range
  <1>3. c \in to_insert /\ to_insert' = to_insert \ {c} /\ to_insert \subseteq Tables
    BY DEF InsertRow, Inv, Typed, TypeOK
  <1>4. Typed'
    <2>1. tables' \in [Tables -> Seq(Nat)]
      <3>1. Seq(Clock) \subseteq Seq(Nat)
        BY Selected, SeqMonotonic DEF Inv
      <3> QED
        BY <1>1, <3>1
    <2> QED
      BY <1>1, <1>2, <1>3, <2>1 DEF Inv, Typed, TypeOK, LineType
  <1>5. Agree'
    <2> SUFFICES ASSUME NEW d \in Tables, NEW e \in Tables
                 PROVE  /\ (d \in to_insert' <=> e \in to_insert') => tables'[d] = tables'[e]
                        /\ d \in to_insert' /\ e \notin to_insert' =>
                              tables'[e] = Append(tables'[d], db_ts)
      BY <1>2 DEF Agree
    <2>1. /\ (d \in to_insert <=> e \in to_insert) => tables[d] = tables[e]
          /\ d \in to_insert /\ e \notin to_insert => tables[e] = Append(tables[d], db_ts)
          /\ e \in to_insert /\ d \notin to_insert => tables[d] = Append(tables[e], db_ts)
      BY DEF Inv, Agree
    <2>2. tables[d] = tables[c] \/ d \notin to_insert
      BY <1>3 DEF Inv, Agree
    <2>3. tables[e] = tables[c] \/ e \notin to_insert
      BY <1>3 DEF Inv, Agree
    <2>4. d \notin to_insert => tables[d] = Append(tables[c], db_ts)
      BY <1>3 DEF Inv, Agree
    <2>5. e \notin to_insert => tables[e] = Append(tables[c], db_ts)
      BY <1>3 DEF Inv, Agree
    <2> QED
      BY <1>1, <1>3, <2>1, <2>2, <2>3, <2>4, <2>5
  <1>6. Place'
    BY <1>2 DEF Inv, Place, From
  <1>7. TablesRead'
    BY <1>2 DEF Inv, TablesRead, Read
  <1>8. Shown'
    <2>1. \A s, k : (HasRow(s, k)' <=> HasRow(s, k)) /\ RowAt(s, k)' = RowAt(s, k)
      BY <1>2 DEF HasRow, RowAt, From, Nth
    <2>2. ASSUME NEW d \in Tables, NEW k, HasRow(tables[d], k)
          PROVE  HasRow(tables'[d], k) /\ RowAt(tables'[d], k) = RowAt(tables[d], k)
      <3>1. /\ HasRow(Append(tables[d], db_ts), k)
            /\ RowAt(Append(tables[d], db_ts), k) = RowAt(tables[d], k)
        BY <1>1, <2>2, RowStays
      <3>2. tables'[d] = tables[d] \/ tables'[d] = Append(tables[d], db_ts)
        BY <1>1
      <3> QED
        BY <2>2, <3>1, <3>2
    <2> SUFFICES ASSUME NEW j \in DOMAIN sel_counters
                 PROVE  /\ \A k \in 1 .. Len(lines) :
                              /\ HasRow(tables'[sel_counters[j]], k)
                              /\ lines[k].rows[j] = RowAt(tables'[sel_counters[j]], k)
                        /\ \A k \in 1 .. Len(results[j]) :
                              /\ HasRow(tables'[sel_counters[j]], Len(lines) + k)
                              /\ results[j][k] = RowAt(tables'[sel_counters[j]], Len(lines) + k)
      BY <1>2, <2>1 DEF Shown, HasRow, RowAt, From, Nth
    <2>3. lines # << >> \/ results[j] # << >> => sel_counters[j] \in Tables
      BY DEF Inv, TablesRead
    <2>4. (lines = << >> => 1 .. Len(lines) = {})
          /\ (results[j] = << >> => 1 .. Len(results[j]) = {})
      BY EmptySeq
    <2> QED
      BY <2>2, <2>3, <2>4 DEF Inv, Shown
  <1>9. Stamped' /\ RangeSoFar'
    BY <1>2 DEF Inv, Stamped, RangeSoFar, Rising
  <1>10. InWindow'
    <2> SUFFICES ASSUME pc \notin {"start", "failed"} PROVE InWindow'
      BY <1>2 DEF InWindow
    <2>1. \A d \in Tables : /\ before[d] \in 0 .. Len(tables[d])
                            /\ Len(Since(WhenStarted(d), select_from))
                                  <= Len(Since(tables[d], select_from))
      BY DEF Inv, InWindow
    <2>2. ASSUME NEW d \in Tables
          PROVE  /\ before[d] \in 0 .. Len(tables'[d])
                 /\ WhenStarted(d)' = WhenStarted(d)
                 /\ Len(Since(WhenStarted(d), select_from)) <= Len(Since(tables'[d], select_from))
      <3>1. CASE tables'[d] = tables[d]
        BY <1>2, <2>1, <3>1 DEF WhenStarted
      <3>2. CASE tables'[d] = Append(tables[d], db_ts)
        <4>1. /\ before[d] \in 0 .. Len(Append(tables[d], db_ts))
              /\ SubSeq(Append(tables[d], db_ts), 1, before[d]) = SubSeq(tables[d], 1, before[d])
              /\ Len(Since(tables[d], select_from))
                    <= Len(Since(Append(tables[d], db_ts), select_from))
              /\ Len(Since(tables[d], select_from)) \in Nat
          BY <1>1, <2>1, WindowStays
        <4>2. /\ Append(tables[d], db_ts) \in Seq(Clock)
              /\ SubSeq(tables[d], 1, before[d]) \in Seq(Clock)
          <5>1. \A k \in 1 .. before[d] : tables[d][k] \in Clock
            BY <1>1, <2>1, ElementOfSeq, LenProperties
          <5> QED
            BY <1>1, <2>1, <5>1, AppendProperties, SubSeqProperties
        <4>3. /\ Len(Since(Append(tables[d], db_ts), select_from)) \in Nat
              /\ Len(Since(WhenStarted(d), select_from)) \in Nat
          BY <4>2, SinceType, LenProperties DEF WhenStarted
        <4>4. WhenStarted(d)' = WhenStarted(d)
          BY <1>2, <3>2, <4>1 DEF WhenStarted
        <4>5. Len(Since(WhenStarted(d), select_from)) <= Len(Since(tables[d], select_from))
          BY <2>1
        <4> QED
          BY <3>2, <4>1, <4>3, <4>4, <4>5
      <3> QED
        BY <1>1, <3>1, <3>2
    <2>3. \A j \in DOMAIN sel_counters : sel_counters[j] \in Tables => Owed(j)' = Owed(j)
      BY <1>2, <2>2 DEF Owed
    <2>4. \A j : Read(j)' <=> Read(j)
      BY <1>2 DEF Read
    <2>5. \A j \in DOMAIN sel_counters : Read(j) => sel_counters[j] \in Tables
      BY DEF Inv, TablesRead
    <2>6. \A d \in Tables : /\ before'[d] \in 0 .. Len(tables'[d])
                            /\ Len(Since(WhenStarted(d)', select_from'))
                                  <= Len(Since(tables'[d], select_from'))
      BY <1>2, <2>2
    <2>7. ASSUME skip_time = 0
          PROVE  /\ \A j \in DOMAIN sel_counters : Read(j) /\ pc # "done" =>
                       Len(lines) + Len(results[j]) >= Owed(j)'
                 /\ pc = "done" => \E j \in DOMAIN sel_counters : Len(lines) >= Owed(j)'
      <3>1. \A j : pc = "done" => Read(j)
        BY DEF Read
      <3> QED
        BY <2>3, <2>5, <2>7, <3>1 DEF Inv, InWindow
    <2> QED
      BY <1>2, <2>4, <2>6, <2>7 DEF InWindow
  <1> QED
    BY <1>4, <1>5, <1>6, <1>7, <1>8, <1>9, <1>10 DEF Inv

-----------------------------------------------------------------------------
(***************************************************************************)
(* The tool's steps                                                        *)
(***************************************************************************)

\* The tables and what the daemon is at stay as they are.
LEMMA DaemonSame ==
    ASSUME Inv, UNCHANGED <<daemon, args>>
    PROVE  /\ Agree'
           /\ UNCHANGED <<clock, tables, db_ts, to_insert, sel_counters, skip_time>>
           /\ LineType' = LineType
  BY DEF daemon, args, Inv, Agree, LineType

\* The times of the samples are skip_time apart, from the first.
LEMMA FirstSample ==
    ASSUME NEW from \in Int, NEW skip \in Nat
    PROVE  from + ((0 + 1) - 1) * skip = from
  OBVIOUS

\* One sample more is one skip_time later.
LEMMA NextSample ==
    ASSUME NEW from \in Int, NEW skip \in Nat, NEW k \in Nat
    PROVE  from + ((k + 1) - 1) * skip + skip = from + (((k + 1) + 1) - 1) * skip
  <1>1. (k + 1) - 1 = k /\ ((k + 1) + 1) - 1 = k + 1
    OBVIOUS
  <1>2. (k + 1) * skip = k * skip + skip
    OBVIOUS
  <1>3. k * skip \in Int
    OBVIOUS
  <1> QED
    BY <1>1, <1>2, <1>3

\* The window starts with what is there.
LEMMA OpenStep ==
    ASSUME Inv, Open
    PROVE  Inv'
  <1>1. /\ pc = "start" /\ pc' = "select" /\ select_from' = clock - Window
        /\ timestamp' = select_from' /\ outfile' = "partial"
        /\ before' = [c \in Tables |-> Len(tables[c])]
        /\ UNCHANGED <<daemon, args, i, results, lines, min_x, max_x>>
    BY DEF Open, range
  <1>2. /\ UNCHANGED <<clock, tables, db_ts, to_insert, sel_counters, skip_time>>
        /\ Agree' /\ LineType' = LineType
    BY <1>1, DaemonSame
  <1>3. /\ i = 1 /\ lines = << >> /\ \A j \in DOMAIN sel_counters : results[j] = << >>
    BY <1>1, Selected DEF Inv, Place
  <1>4. \A c \in Tables : Len(tables[c]) \in Nat /\ tables[c] \in Seq(Clock)
    BY LenProperties DEF Inv, Typed
  <1>5. Len(<< >>) = 0 /\ 1 .. 0 = {}
    OBVIOUS
  <1>6. Typed'
    <2>1. clock \in Int /\ Window \in Int
      BY QueryAssumption, Selected DEF Inv, Typed, TypeOK
    <2>2. select_from' \in Int /\ timestamp' \in Int
      BY <1>1, <2>1
    <2> QED
      BY <1>1, <1>2, <1>4, <2>2 DEF Inv, Typed, TypeOK
  <1>7. Place'
    <2>1. From(Len(results[i]) + 1)' = select_from'
      <3>1. results'[i'] = << >> /\ skip_time \in Nat /\ select_from' \in Int
        BY <1>1, <1>3, <1>6, Selected DEF Inv, Typed, TypeOK
      <3>2. From(0 + 1)' = select_from'
        BY <1>2, <3>1, FirstSample DEF From
      <3> QED
        BY <1>5, <3>1, <3>2
    <2> QED
      BY <1>1, <1>2, <1>3, <2>1, Selected DEF Place, Inv
  <1>8. TablesRead'
    BY <1>1, <1>2, <1>3, Selected DEF TablesRead, Read, Inv
  <1>9. Shown' /\ Stamped'
    BY <1>1, <1>2, <1>3, <1>5 DEF Shown, Stamped
  <1>10. RangeSoFar'
    BY <1>1 DEF Inv, RangeSoFar, Rising
  <1>11. InWindow'
    <2>1. ASSUME NEW c \in Tables
          PROVE  before'[c] = Len(tables[c]) /\ WhenStarted(c)' = tables[c]
      <3>1. before'[c] = Len(tables[c])
        BY <1>1
      <3>2. SubSeq(tables[c], 1, Len(tables[c])) = tables[c]
        BY <1>4, SubSeqFull
      <3> QED
        BY <1>2, <3>1, <3>2 DEF WhenStarted
    <2>2. \A c \in Tables : Len(Since(tables[c], select_from')) \in Nat
      BY <1>4, SinceType, LenProperties
    <2>3. \A j \in DOMAIN sel_counters : ~(Read(j)')
      BY <1>1, <1>3, Selected DEF Read, Inv
    <2> QED
      BY <1>1, <1>2, <1>4, <2>1, <2>2, <2>3 DEF InWindow
  <1> QED
    BY <1>2, <1>6, <1>7, <1>8, <1>9, <1>10, <1>11 DEF Inv

\* A tool that has failed does nothing more.
LEMMA FailStep ==
    ASSUME Inv, OpenFails \/ SelectFails
    PROVE  Inv'
  <1>1. /\ pc' = "failed" /\ outfile' \in {"none", "partial", "whole"}
        /\ UNCHANGED <<daemon, args, i, select_from, timestamp, results>>
        /\ UNCHANGED <<lines, min_x, max_x, before>>
    BY DEF OpenFails, SelectFails, range, Inv, Typed, TypeOK
  <1>2. /\ UNCHANGED <<clock, tables, db_ts, to_insert, sel_counters, skip_time>>
        /\ Agree' /\ LineType' = LineType
    BY <1>1, DaemonSame
  <1>3. Typed'
    BY <1>1, <1>2 DEF Inv, Typed, TypeOK
  <1>4. Place' /\ InWindow'
    BY <1>1 DEF Place, InWindow
  <1>5. TablesRead'
    BY <1>1, <1>2 DEF Inv, TablesRead, Read
  <1>6. Shown'
    BY <1>1, <1>2 DEF Inv, Shown, HasRow, RowAt, From, Nth
  <1>7. Stamped' /\ RangeSoFar'
    BY <1>1 DEF Inv, Stamped, RangeSoFar, Rising
  <1> QED
    BY <1>2, <1>3, <1>4, <1>5, <1>6, <1>7 DEF Inv

\* Positions in a list.
LEMMA Positions ==
    ASSUME NEW len \in Nat, NEW a \in 1 .. len
    PROVE  /\ a # len => a + 1 \in 1 .. len
           /\ \A j \in 1 .. len : a = len => j < a \/ j = a
           /\ \A j \in 1 .. len : j < a + 1 <=> j < a \/ j = a
  OBVIOUS

\* From one counter to the next.
LEMMA Advance ==
    ASSUME Inv, pc = "select", Counter \in Tables, NextCounter,
           UNCHANGED <<daemon, args, select_from, lines>>,
           \A j \in DOMAIN sel_counters : j # i => results'[j] = results[j],
           skip_time > 0 => results' = results
    PROVE  /\ i' \in DOMAIN sel_counters /\ pc' \in {"select", "merge"}
           /\ timestamp' = select_from
           /\ \A j \in DOMAIN sel_counters : Read(j)' <=> Read(j) \/ j = i
           /\ Place' /\ TablesRead'
  <1>1. /\ UNCHANGED <<clock, tables, db_ts, to_insert, sel_counters, skip_time>>
    BY DaemonSame
  <1>2. /\ Len(sel_counters) \in Nat \ {0} /\ DOMAIN sel_counters = 1 .. Len(sel_counters)
        /\ i \in 1 .. Len(sel_counters) /\ skip_time \in Nat /\ select_from \in Int
    BY Selected DEF Inv
  <1>3. \/ i = Len(sel_counters) /\ pc' = "merge" /\ i' = i
        \/ i # Len(sel_counters) /\ pc' = "select" /\ i' = i + 1
    BY DEF NextCounter
  <1>4. timestamp' = select_from
    BY DEF NextCounter
  <1>5. i' \in DOMAIN sel_counters /\ pc' \in {"select", "merge"}
    <2>1. i # Len(sel_counters) => i + 1 \in 1 .. Len(sel_counters)
      BY <1>2, Positions
    <2>2. i' = i \/ (i # Len(sel_counters) /\ i' = i + 1)
      BY <1>3
    <2>3. i' \in 1 .. Len(sel_counters)
      BY <1>2, <2>1, <2>2
    <2>4. pc' \in {"select", "merge"}
      BY <1>3
    <2> QED
      BY <1>2, <2>3, <2>4
  <1>6. \A j \in DOMAIN sel_counters : Read(j)' <=> Read(j) \/ j = i
    <2> SUFFICES ASSUME NEW j \in 1 .. Len(sel_counters)
                 PROVE  Read(j)' <=> Read(j) \/ j = i
      BY <1>2
    <2>1. Read(j) <=> j < i
      BY DEF Read
    <2>2. CASE i = Len(sel_counters) /\ pc' = "merge"
      <3>1. Read(j)'
        BY <2>2 DEF Read
      <3>2. Len(sel_counters) \in Nat /\ i \in 1 .. Len(sel_counters)
        BY <1>2
      <3>3. i = Len(sel_counters) => j < i \/ j = i
        BY <3>2, Positions
      <3> QED
        BY <2>1, <2>2, <3>1, <3>3
    <2>3. CASE pc' = "select" /\ i' = i + 1
      <3>1. Read(j)' <=> j < i + 1
        BY <2>3 DEF Read
      <3>2. j < i + 1 <=> j < i \/ j = i
        BY <1>2
      <3> QED
        BY <2>1, <3>1, <3>2
    <2> QED
      BY <1>3, <2>2, <2>3
  <1>7. lines = << >> /\ \A j \in DOMAIN sel_counters : j > i => results[j] = << >>
    BY DEF Inv, Place
  <1>8. Place'
    <2>1. CASE pc' = "merge"
      BY <2>1 DEF Place
    <2>2. CASE pc' = "select"
      <3>1. i' = i + 1 /\ results'[i'] = << >>
        <4>1. i' = i + 1
          BY <1>3, <2>2
        <4>2. i' # i /\ i' > i
          BY <1>2, <4>1
        <4> QED
          BY <1>5, <1>7, <4>1, <4>2
      <3>2. \A j \in DOMAIN sel_counters : j > i' => results'[j] = << >>
        BY <1>2, <1>7, <3>1
      <3>3. From(Len(results[i]) + 1)' = select_from
        <4>1. From(0 + 1)' = select_from
          BY <1>1, <1>2, FirstSample DEF From
        <4>2. Len(<< >>) = 0
          OBVIOUS
        <4> QED
          BY <3>1, <4>1, <4>2
      <3> QED
        BY <1>1, <1>4, <1>7, <2>2, <3>1, <3>2, <3>3 DEF Place
    <2> QED
      BY <1>5, <2>1, <2>2
  <1>9. TablesRead'
    <2> SUFFICES ASSUME NEW j \in DOMAIN sel_counters,
                        Read(j)' \/ results'[j] # << >> \/ lines' # << >>
                 PROVE  sel_counters[j] \in Tables
      BY <1>1 DEF TablesRead
    <2>1. CASE j = i
      BY <2>1 DEF Counter
    <2>2. CASE j # i
      BY <1>6, <2>2 DEF Inv, TablesRead
    <2> QED
      BY <2>1, <2>2
  <1> QED
    BY <1>4, <1>5, <1>6, <1>8, <1>9

\* While nothing was printed and the clause about the lists is looked after, the
\* rest of the invariant does not mind what the lists are.
LEMMA Reading ==
    ASSUME Inv, pc = "select", pc' # "start",
           UNCHANGED <<daemon, args, select_from, lines, min_x, max_x, before, outfile>>
    PROVE  /\ Agree' /\ Stamped' /\ RangeSoFar' /\ lines = << >>
           /\ UNCHANGED <<clock, tables, db_ts, to_insert, sel_counters, skip_time>>
           /\ LineType' = LineType
           /\ \A j : Owed(j)' = Owed(j)
           /\ \A c \in Tables : /\ before'[c] \in 0 .. Len(tables'[c])
                                /\ Len(Since(WhenStarted(c)', select_from'))
                                      <= Len(Since(tables'[c], select_from'))
           /\ \A s, k : (HasRow(s, k)' <=> HasRow(s, k)) /\ RowAt(s, k)' = RowAt(s, k)
  <1>1. /\ UNCHANGED <<clock, tables, db_ts, to_insert, sel_counters, skip_time>>
        /\ Agree' /\ LineType' = LineType
    BY DaemonSame
  <1>2. Stamped' /\ RangeSoFar' /\ lines = << >>
    BY DEF Inv, Stamped, RangeSoFar, Rising, Place
  <1>3. \A c : WhenStarted(c)' = WhenStarted(c)
    BY <1>1 DEF WhenStarted
  <1>4. \A j : Owed(j)' = Owed(j)
    BY <1>1, <1>3 DEF Owed
  <1>5. \A c \in Tables : /\ before'[c] \in 0 .. Len(tables'[c])
                          /\ Len(Since(WhenStarted(c)', select_from'))
                                <= Len(Since(tables'[c], select_from'))
    BY <1>1, <1>3 DEF Inv, InWindow
  <1>6. \A s, k : (HasRow(s, k)' <=> HasRow(s, k)) /\ RowAt(s, k)' = RowAt(s, k)
    BY <1>1 DEF HasRow, RowAt, From, Nth
  <1> QED
    BY <1>1, <1>2, <1>4, <1>5, <1>6

\* A SELECT without a limit reads all rows of the window.
LEMMA SelectStep ==
    ASSUME Inv, Select
    PROVE  Inv'
  <1> DEFINE rows == Since(tables[Counter], select_from)
  <1>1. /\ pc = "select" /\ skip_time = 0 /\ Counter \in Tables /\ NextCounter
        /\ results' = [results EXCEPT ![i] = rows]
        /\ UNCHANGED <<daemon, args, select_from, lines, min_x, max_x, before, outfile>>
    BY DEF Select, range
  <1>2. /\ i \in DOMAIN sel_counters /\ results \in [DOMAIN sel_counters -> Seq(Clock)]
        /\ tables[Counter] \in Seq(Clock) /\ select_from \in Int
        /\ DOMAIN sel_counters = 1 .. Len(sel_counters) /\ Len(sel_counters) \in Nat
    BY <1>1, Selected DEF Inv, Typed
  <1>3. rows \in Seq(Clock) /\ Len(rows) \in Nat
    BY <1>2, SinceType, LenProperties
  <1>4. /\ results'[i] = rows
        /\ \A j \in DOMAIN sel_counters : j # i => results'[j] = results[j]
        /\ results' \in [DOMAIN sel_counters -> Seq(Clock)]
    <2> HIDE DEF rows
    <2> QED
      BY <1>1, <1>2, <1>3
  <1>5. /\ i' \in DOMAIN sel_counters /\ pc' \in {"select", "merge"}
        /\ timestamp' = select_from
        /\ \A j \in DOMAIN sel_counters : Read(j)' <=> Read(j) \/ j = i
        /\ Place' /\ TablesRead'
    BY <1>1, <1>4, Advance
  <1>6. pc' # "start" /\ pc' # "done" /\ pc' # "failed"
    BY <1>5
  <1>7. /\ Agree' /\ Stamped' /\ RangeSoFar' /\ lines = << >>
        /\ UNCHANGED <<clock, tables, db_ts, to_insert, sel_counters, skip_time>>
        /\ LineType' = LineType
        /\ \A j : Owed(j)' = Owed(j)
        /\ \A c \in Tables : /\ before'[c] \in 0 .. Len(tables'[c])
                             /\ Len(Since(WhenStarted(c)', select_from'))
                                   <= Len(Since(tables'[c], select_from'))
        /\ \A s, k : (HasRow(s, k)' <=> HasRow(s, k)) /\ RowAt(s, k)' = RowAt(s, k)
    BY <1>1, <1>6, Reading
  <1> HIDE DEF rows
  <1>8. Typed'
    <2>1. results' \in [DOMAIN sel_counters -> Seq(Nat)]
      <3>1. Seq(Clock) \subseteq Seq(Nat)
        BY Selected, SeqMonotonic DEF Inv
      <3> QED
        BY <1>4, <3>1
    <2>2. timestamp' \in Int
      BY <1>2, <1>5
    <2> QED
      BY <1>1, <1>4, <1>5, <1>7, <2>1, <2>2 DEF Inv, Typed, TypeOK
  <1>9. Shown'
    <2>1. Len(lines) = 0
      BY <1>7
    <2>2. ASSUME NEW k \in 1 .. Len(rows)
          PROVE  HasRow(tables[Counter], 0 + k) /\ rows[k] = RowAt(tables[Counter], 0 + k)
      <3>1. 0 + k = k
        BY <1>3
      <3>2. From(k) = select_from /\ Nth(k) = k
        BY <1>1 DEF From, Nth
      <3> QED
        BY <3>1, <3>2 DEF HasRow, RowAt, rows
    <2> SUFFICES ASSUME NEW j \in DOMAIN sel_counters
                 PROVE  \A k \in 1 .. Len(results'[j]) :
                           /\ HasRow(tables[sel_counters[j]], 0 + k)
                           /\ results'[j][k] = RowAt(tables[sel_counters[j]], 0 + k)
      BY <1>1, <1>7, <2>1 DEF Shown
    <2>3. CASE j = i
      BY <1>4, <2>2, <2>3 DEF Counter
    <2>4. CASE j # i
      BY <1>4, <2>1, <2>4 DEF Inv, Shown
    <2> QED
      BY <2>3, <2>4
  <1>10. InWindow'
    <2> SUFFICES ASSUME NEW j \in DOMAIN sel_counters, Read(j)'
                 PROVE  Len(lines) + Len(results'[j]) >= Owed(j)
      BY <1>1, <1>6, <1>7 DEF InWindow
    <2>1. CASE j = i
      <3>1. Owed(i) <= Len(rows)
        BY <1>1 DEF Owed, Inv, InWindow, Counter, rows
      <3>2. Owed(i) \in Int
        <4>1. before[Counter] \in 0 .. Len(tables[Counter])
          BY <1>1 DEF Inv, InWindow
        <4>2. WhenStarted(Counter) \in Seq(Clock)
          <5>1. \A k \in 1 .. before[Counter] : tables[Counter][k] \in Clock
            BY <1>2, <4>1, ElementOfSeq, LenProperties
          <5> QED
            BY <1>2, <4>1, <5>1, LenProperties, SubSeqProperties DEF WhenStarted
        <4>3. Len(Since(WhenStarted(Counter), select_from)) \in Nat
          BY <4>2, SinceType, LenProperties
        <4> QED
          BY <4>3 DEF Owed, Counter
      <3>3. Len(lines) = 0
        BY <1>7
      <3> QED
        BY <1>3, <1>4, <2>1, <3>1, <3>2, <3>3
    <2>2. CASE j # i
      BY <1>1, <1>4, <1>5, <2>2 DEF Inv, InWindow
    <2> QED
      BY <2>1, <2>2
  <1> QED
    BY <1>5, <1>7, <1>8, <1>9, <1>10 DEF Inv

\* With -j a sample is taken, or there is none left.
LEMMA SampleStep ==
    ASSUME Inv, Sample
    PROVE  Inv'
  <1> DEFINE found == Since(tables[Counter], timestamp)
  <1>1. /\ pc = "select" /\ skip_time > 0 /\ Counter \in Tables
        /\ UNCHANGED <<daemon, args, select_from, lines, min_x, max_x, before, outfile>>
    BY DEF Sample, range
  <1>2. /\ i \in DOMAIN sel_counters /\ results \in [DOMAIN sel_counters -> Seq(Clock)]
        /\ tables[Counter] \in Seq(Clock) /\ select_from \in Int /\ timestamp \in Int
        /\ skip_time \in Nat
    BY <1>1, Selected DEF Inv, Typed, TypeOK
  <1>3. found \in Seq(Clock) /\ Len(found) \in Nat
    BY <1>2, SinceType, LenProperties
  <1>4. timestamp = From(Len(results[i]) + 1) /\ Len(lines) = 0
    BY <1>1 DEF Inv, Place
  <1>5. \/ found = << >> /\ NextCounter /\ results' = results
        \/ /\ found # << >>
           /\ results' = [results EXCEPT ![i] = Append(@, Head(found))]
           /\ timestamp' = timestamp + skip_time
           /\ pc' = pc /\ i' = i
    BY DEF Sample
  <1>6. pc' \in {"select", "merge"} /\ pc' # "start" /\ pc' # "failed" /\ pc' # "done"
    BY <1>1, <1>5 DEF NextCounter
  <1>7. /\ Agree' /\ Stamped' /\ RangeSoFar' /\ lines = << >>
        /\ UNCHANGED <<clock, tables, db_ts, to_insert, sel_counters, skip_time>>
        /\ LineType' = LineType
        /\ \A j : Owed(j)' = Owed(j)
        /\ \A c \in Tables : /\ before'[c] \in 0 .. Len(tables'[c])
                             /\ Len(Since(WhenStarted(c)', select_from'))
                                   <= Len(Since(tables'[c], select_from'))
        /\ \A s, k : (HasRow(s, k)' <=> HasRow(s, k)) /\ RowAt(s, k)' = RowAt(s, k)
    BY <1>1, <1>6, Reading
  <1>8. InWindow'
    BY <1>1, <1>6, <1>7 DEF InWindow
  <1> HIDE DEF found
  <1>9. Seq(Clock) \subseteq Seq(Nat)
    BY Selected, SeqMonotonic DEF Inv
  <1>10. CASE found = << >> /\ NextCounter /\ results' = results
    <2>1. /\ i' \in DOMAIN sel_counters /\ timestamp' = select_from
          /\ Place' /\ TablesRead'
      BY <1>1, <1>10, Advance
    <2>2. Typed'
      BY <1>1, <1>2, <1>6, <1>7, <1>10, <2>1 DEF Inv, Typed, TypeOK
    <2>3. Shown'
      BY <1>1, <1>7, <1>10 DEF Inv, Shown
    <2> QED
      BY <1>7, <1>8, <2>1, <2>2, <2>3 DEF Inv
  <1>11. CASE /\ found # << >>
              /\ results' = [results EXCEPT ![i] = Append(@, Head(found))]
              /\ timestamp' = timestamp + skip_time
              /\ pc' = pc /\ i' = i
    <2> DEFINE n == Len(results[i])
               x == Head(found)
    <2>1. Len(found) \in Nat \ {0} /\ x = found[1] /\ x \in Clock
      BY <1>3, <1>11, EmptySeq, LenProperties, ElementOfSeq
    <2>2. n \in Nat /\ results[i] \in Seq(Clock)
      BY <1>2, LenProperties
    <2> HIDE DEF x
    <2>3. /\ Append(results[i], x) \in Seq(Clock) /\ Len(Append(results[i], x)) = n + 1
          /\ Append(results[i], x)[n + 1] = x
          /\ \A k \in 1 .. n : Append(results[i], x)[k] = results[i][k]
          /\ Append(results[i], x) # << >>
      BY <2>1, <2>2, AppendProperties
    <2>4. /\ results'[i] = Append(results[i], x)
          /\ \A j \in DOMAIN sel_counters : j # i => results'[j] = results[j]
          /\ results' \in [DOMAIN sel_counters -> Seq(Clock)]
      BY <1>2, <1>11, <2>3 DEF x
    <2> HIDE DEF n
    <2>5. Typed'
      <3>1. results' \in [DOMAIN sel_counters -> Seq(Nat)]
        BY <1>9, <2>4
      <3>2. timestamp' \in Int
        BY <1>2, <1>11
      <3> QED
        BY <1>1, <1>6, <1>7, <1>11, <2>4, <3>1, <3>2 DEF Inv, Typed, TypeOK
    <2>6. Place'
      <3>1. \A j \in DOMAIN sel_counters : j > i => results'[j] = << >>
        <4>1. i \in Int /\ \A j \in DOMAIN sel_counters : j > i => j # i
          BY <1>2, Selected DEF Inv
        <4> QED
          BY <1>1, <2>4, <4>1 DEF Inv, Place
      <3>2. timestamp + skip_time = From((n + 1) + 1)
        BY <1>1, <1>2, <1>4, <2>2, NextSample DEF From, n
      <3>3. Len(results'[i']) = n + 1
        BY <1>11, <2>3, <2>4
      <3>4. timestamp' = From(Len(results[i]) + 1)'
        BY <1>1, <1>7, <1>11, <3>2, <3>3 DEF From
      <3>5. pc' = "select" /\ skip_time' # 0 /\ lines' = << >> /\ i' = i
        BY <1>1, <1>2, <1>7, <1>11
      <3> QED
        BY <1>7, <3>1, <3>4, <3>5 DEF Place
    <2>7. TablesRead'
      <3>1. \A j : Read(j)' <=> Read(j)
        BY <1>11 DEF Read
      <3>2. sel_counters[i] \in Tables
        BY <1>1 DEF Counter
      <3> QED
        BY <1>1, <1>7, <2>4, <3>1, <3>2 DEF Inv, TablesRead
    <2>8. Shown'
      <3>1. Len(lines) = 0
        BY <1>4
      <3>2. HasRow(tables[Counter], 0 + (n + 1)) /\ x = RowAt(tables[Counter], 0 + (n + 1))
        <4>1. 0 + (n + 1) = n + 1
          BY <2>2
        <4>2. From(n + 1) = timestamp /\ Nth(n + 1) = 1
          BY <1>1, <1>2, <1>4 DEF n, Nth
        <4>3. 1 \in 1 .. Len(found)
          BY <2>1
        <4> QED
          BY <2>1, <4>1, <4>2, <4>3 DEF HasRow, RowAt, found
      <3> SUFFICES ASSUME NEW j \in DOMAIN sel_counters
                   PROVE  \A k \in 1 .. Len(results'[j]) :
                             /\ HasRow(tables[sel_counters[j]], 0 + k)
                             /\ results'[j][k] = RowAt(tables[sel_counters[j]], 0 + k)
        BY <1>1, <1>7, <3>1 DEF Shown
      <3>3. \A k \in 1 .. Len(results[j]) :
               /\ HasRow(tables[sel_counters[j]], 0 + k)
               /\ results[j][k] = RowAt(tables[sel_counters[j]], 0 + k)
        BY <3>1 DEF Inv, Shown
      <3>4. CASE j = i
        <4> SUFFICES ASSUME NEW k \in 1 .. n + 1
                     PROVE  /\ HasRow(tables[Counter], 0 + k)
                            /\ results'[i][k] = RowAt(tables[Counter], 0 + k)
          BY <2>3, <2>4, <3>4 DEF Counter
        <4>1. CASE k = n + 1
          BY <2>3, <2>4, <3>2, <4>1
        <4>2. CASE k \in 1 .. n
          BY <2>3, <2>4, <3>3, <3>4, <4>2 DEF Counter, n
        <4> QED
          BY <2>2, <4>1, <4>2
      <3>5. CASE j # i
        BY <2>4, <3>3, <3>5
      <3> QED
        BY <3>4, <3>5
    <2> QED
      BY <1>7, <1>8, <2>5, <2>6, <2>7, <2>8 DEF Inv
  <1> QED
    BY <1>5, <1>10, <1>11

\* Every line takes the head of every list.
LEMMA PrintStep ==
    ASSUME Inv, PrintLine
    PROVE  Inv'
  <1> DEFINE line == [ts |-> Time, rows |-> Heads]
             L == Len(lines)
  <1>1. /\ pc = "merge" /\ pc' = "merge"
        /\ lines' = Append(lines, line)
        /\ results' = [j \in DOMAIN results |-> Tail(results[j])]
        /\ UNCHANGED <<daemon, args, i, select_from, timestamp, outfile, before>>
        /\ \A j \in DOMAIN results : results[j] # << >>
    BY DEF PrintLine, Exhausted
  <1>2. /\ UNCHANGED <<clock, tables, db_ts, to_insert, sel_counters, skip_time>>
        /\ Agree' /\ LineType' = LineType
    BY <1>1, DaemonSame
  <1>3. /\ results \in [DOMAIN sel_counters -> Seq(Clock)] /\ lines \in Seq(LineType)
        /\ L \in Nat /\ 1 \in DOMAIN sel_counters
    BY Selected, LenProperties DEF Inv, Typed
  <1>4. ASSUME NEW j \in DOMAIN sel_counters
        PROVE  /\ results[j][1] \in Clock /\ Head(results[j]) = results[j][1]
               /\ Len(results[j]) \in Nat \ {0}
               /\ results'[j] = Tail(results[j]) /\ results'[j] \in Seq(Clock)
               /\ Len(results'[j]) = Len(results[j]) - 1
               /\ \A k \in 1 .. Len(results'[j]) : /\ k + 1 \in 1 .. Len(results[j])
                                                   /\ results'[j][k] = results[j][k + 1]
    <2>1. results[j] \in Seq(Clock) /\ results[j] # << >> /\ results'[j] = Tail(results[j])
      BY <1>1, <1>3
    <2>2. /\ Len(results[j]) \in Nat \ {0} /\ Head(results[j]) = results[j][1]
          /\ Tail(results[j]) \in Seq(Clock) /\ Len(Tail(results[j])) = Len(results[j]) - 1
          /\ \A k \in 1 .. Len(Tail(results[j])) : Tail(results[j])[k] = results[j][k + 1]
      BY <2>1, HeadTailProperties, EmptySeq, LenProperties
    <2>3. results[j][1] \in Clock
      BY <2>1, <2>2, ElementOfSeq
    <2> QED
      BY <2>1, <2>2, <2>3
  <1>5. /\ Heads \in [DOMAIN sel_counters -> Clock] /\ Heads[1] = results[1][1]
        /\ \A j \in DOMAIN sel_counters : Heads[j] = results[j][1]
    BY <1>3, <1>4 DEF Heads
  <1>6. /\ Time \in Epoch + TimeOfs .. MaxClock + TimeOfs /\ Time \in Int
        /\ 0 < Time /\ Time < MaxInt /\ line \in LineType
    <2>1. Heads[1] \in Epoch .. MaxClock
      BY <1>3, <1>5 DEF Clock
    <2>2. Time \in Epoch + TimeOfs .. MaxClock + TimeOfs /\ Time \in Int
          /\ 0 < Time /\ Time < MaxInt
      BY <2>1, QueryAssumption DEF Time
    <2> QED
      BY <1>5, <2>2 DEF LineType
  <1>7. /\ lines' \in Seq(LineType) /\ Len(lines') = L + 1
        /\ lines'[L + 1] = line /\ \A k \in 1 .. L : lines'[k] = lines[k]
        /\ lines' # << >>
    <2> HIDE DEF line
    <2> QED
      BY <1>1, <1>3, <1>6, AppendProperties
  <1>8. /\ min_x' \in Int /\ max_x' \in Int
        /\ \/ Time < min_x /\ min_x' = Time /\ max_x' = max_x
           \/ ~(Time < min_x) /\ min_x' = min_x /\ max_x' = IF Time > max_x THEN Time ELSE max_x
    <2>1. min_x \in Int /\ max_x \in Int
      BY DEF Inv, Typed, TypeOK
    <2> QED
      BY <1>6, <2>1 DEF PrintLine
  <1>9. Typed'
    <2>1. Seq(Clock) \subseteq Seq(Nat)
      BY Selected, SeqMonotonic DEF Inv
    <2>2. results' \in [DOMAIN sel_counters -> Seq(Clock)]
      BY <1>1, <1>3, <1>4
    <2>3. results' \in [DOMAIN sel_counters -> Seq(Nat)]
      BY <2>1, <2>2
    <2>4. lines' \in Seq([ts : Int, rows : [DOMAIN sel_counters -> Nat]])
      BY <1>7, Selected, SeqMonotonic DEF Inv
    <2> QED
      BY <1>1, <1>2, <1>7, <1>8, <2>2, <2>3, <2>4 DEF Inv, Typed, TypeOK
  <1>10. Place' /\ TablesRead'
    BY <1>1, <1>2 DEF Place, TablesRead, Read, Inv
  <1>11. Shown'
    <2> SUFFICES ASSUME NEW j \in DOMAIN sel_counters
                 PROVE  /\ \A k \in 1 .. L + 1 :
                              /\ HasRow(tables[sel_counters[j]], k)
                              /\ lines'[k].rows[j] = RowAt(tables[sel_counters[j]], k)
                        /\ \A k \in 1 .. Len(results'[j]) :
                              /\ HasRow(tables[sel_counters[j]], (L + 1) + k)
                              /\ results'[j][k] = RowAt(tables[sel_counters[j]], (L + 1) + k)
      <3>1. \A s, k : (HasRow(s, k)' <=> HasRow(s, k)) /\ RowAt(s, k)' = RowAt(s, k)
        BY <1>1, <1>2 DEF HasRow, RowAt, From, Nth
      <3> HIDE DEF L
      <3> QED
        BY <1>2, <1>7, <3>1 DEF Shown
    <2>1. /\ \A k \in 1 .. L : /\ HasRow(tables[sel_counters[j]], k)
                               /\ lines[k].rows[j] = RowAt(tables[sel_counters[j]], k)
          /\ \A k \in 1 .. Len(results[j]) :
                /\ HasRow(tables[sel_counters[j]], L + k)
                /\ results[j][k] = RowAt(tables[sel_counters[j]], L + k)
      BY DEF Inv, Shown
    <2>2. HasRow(tables[sel_counters[j]], L + 1) /\ line.rows[j] = RowAt(tables[sel_counters[j]], L + 1)
      <3>1. 1 \in 1 .. Len(results[j])
        BY <1>4
      <3> QED
        BY <1>5, <2>1, <3>1
    <2> HIDE DEF line, L
    <2>3. ASSUME NEW k \in 1 .. L + 1
          PROVE  /\ HasRow(tables[sel_counters[j]], k)
                 /\ lines'[k].rows[j] = RowAt(tables[sel_counters[j]], k)
      <3>1. CASE k = L + 1
        BY <1>7, <2>2, <3>1
      <3>2. CASE k \in 1 .. L
        BY <1>7, <2>1, <3>2
      <3> QED
        BY <1>3, <3>1, <3>2
    <2>4. ASSUME NEW k \in 1 .. Len(results'[j])
          PROVE  /\ HasRow(tables[sel_counters[j]], (L + 1) + k)
                 /\ results'[j][k] = RowAt(tables[sel_counters[j]], (L + 1) + k)
      <3>1. k + 1 \in 1 .. Len(results[j]) /\ results'[j][k] = results[j][k + 1]
        BY <1>4
      <3>2. L + (k + 1) = (L + 1) + k
        BY <1>3, <1>4
      <3>3. /\ HasRow(tables[sel_counters[j]], L + (k + 1))
            /\ results[j][k + 1] = RowAt(tables[sel_counters[j]], L + (k + 1))
        BY <2>1, <3>1
      <3> QED
        BY <3>1, <3>2, <3>3
    <2> QED
      BY <2>3, <2>4
  <1>12. Stamped'
    <2>1. line.ts = line.rows[1] + TimeOfs
      BY DEF Time
    <2>2. \A k \in 1 .. L : lines[k].ts = lines[k].rows[1] + TimeOfs
      BY DEF Inv, Stamped
    <2> HIDE DEF line, L
    <2> SUFFICES ASSUME NEW k \in 1 .. L + 1
                 PROVE  lines'[k].ts = lines'[k].rows[1] + TimeOfs
      BY <1>7 DEF Stamped
    <2>3. CASE k = L + 1
      BY <1>7, <2>1, <2>3
    <2>4. CASE k \in 1 .. L
      BY <1>7, <2>2, <2>4
    <2> QED
      BY <1>3, <2>3, <2>4
  <1>13. RangeSoFar'
    <2> SUFFICES ASSUME Rising'
                 PROVE  /\ min_x' = lines'[1].ts /\ min_x' <= Time
                        /\ max_x' = IF L + 1 > 1 THEN Time ELSE 0
      <3>1. lines'[Len(lines')].ts = Time
        BY <1>7
      <3> HIDE DEF line, L
      <3> QED
        BY <1>7, <3>1 DEF RangeSoFar
    <2>1. \A k \in 1 .. (L + 1) - 1 : lines'[k].ts < lines'[k + 1].ts
      BY <1>7 DEF Rising
    <2>2. line.ts = Time
      OBVIOUS
    <2> HIDE DEF line, L
    <2>3. Rising
      <3> SUFFICES ASSUME NEW k \in 1 .. L - 1
                   PROVE  lines[k].ts < lines[k + 1].ts
        BY DEF Rising, L
      <3>1. k \in 1 .. (L + 1) - 1 /\ k \in 1 .. L /\ k + 1 \in 1 .. L
        BY <1>3
      <3> QED
        BY <1>7, <2>1, <3>1
    <2>4. /\ lines = << >> => min_x = MaxInt /\ max_x = 0
          /\ lines # << >> => min_x = lines[1].ts /\ min_x <= lines[L].ts
          /\ max_x = IF L > 1 THEN lines[L].ts ELSE 0
      BY <2>3 DEF Inv, RangeSoFar, L
    <2>5. CASE L = 0
      <3>1. min_x = MaxInt /\ max_x = 0
        BY <1>3, <2>4, <2>5, EmptySeq DEF L
      <3>2. lines'[1].ts = Time
        BY <1>7, <2>2, <2>5
      <3> QED
        BY <1>6, <1>8, <2>5, <3>1, <3>2
    <2>6. CASE L > 0
      <3>1. /\ lines # << >> /\ 1 \in 1 .. L /\ L \in 1 .. L /\ L \in 1 .. (L + 1) - 1
            /\ L + 1 > 1
        BY <1>3, <2>6, EmptySeq DEF L
      <3>2. min_x = lines[1].ts /\ min_x <= lines[L].ts /\ lines[L].ts < Time
        BY <1>7, <2>1, <2>2, <2>4, <3>1
      <3>3. lines'[1].ts = lines[1].ts
        BY <1>7, <3>1
      <3>4. lines[L].ts \in Int /\ min_x \in Int /\ 0 < lines[L].ts
        <4>1. lines[L] \in LineType
          BY <1>3, <3>1, ElementOfSeq DEF L
        <4>2. lines[L].ts \in Epoch + TimeOfs .. MaxClock + TimeOfs
          BY <4>1 DEF LineType
        <4> QED
          BY <4>2, QueryAssumption DEF Inv, Typed, TypeOK
      <3>5. max_x < Time
        BY <1>6, <2>4, <3>2, <3>4
      <3>6. ~(Time < min_x) /\ min_x <= Time
        BY <1>6, <3>2, <3>4
      <3>7. max_x \in Int
        BY DEF Inv, Typed, TypeOK
      <3> QED
        BY <1>6, <1>8, <3>1, <3>2, <3>3, <3>5, <3>6, <3>7
    <2> QED
      BY <1>3, <2>5, <2>6
  <1>14. InWindow'
    <2>1. \A c : WhenStarted(c)' = WhenStarted(c)
      BY <1>1, <1>2 DEF WhenStarted
    <2>2. \A j : Owed(j)' = Owed(j)
      BY <1>1, <1>2, <2>1 DEF Owed
    <2>3. \A j \in DOMAIN sel_counters :
             Len(lines') + Len(results'[j]) = Len(lines) + Len(results[j])
      <3> SUFFICES ASSUME NEW j \in DOMAIN sel_counters
                   PROVE  Len(lines') + Len(results'[j]) = L + Len(results[j])
        OBVIOUS
      <3>1. Len(results[j]) \in Int /\ Len(results'[j]) = Len(results[j]) - 1
        BY <1>4
      <3>2. L \in Int /\ Len(lines') = L + 1
        BY <1>3, <1>7
      <3>3. \A a, b \in Int : (a + 1) + (b - 1) = a + b
        OBVIOUS
      <3> HIDE DEF L
      <3> QED
        BY <3>1, <3>2, <3>3, Zenon
    <2>4. \A j : Read(j)
      BY <1>1 DEF Read
    <2>5. pc' # "done" /\ pc \notin {"start", "failed"} /\ pc # "done"
      BY <1>1
    <2>6. \A c \in Tables : /\ before'[c] \in 0 .. Len(tables'[c])
                            /\ Len(Since(WhenStarted(c)', select_from'))
                                  <= Len(Since(tables'[c], select_from'))
      BY <1>1, <1>2, <2>1, <2>5 DEF Inv, InWindow
    <2>7. skip_time = 0 => \A j \in DOMAIN sel_counters :
             Len(lines) + Len(results[j]) >= Owed(j)
      BY <2>4, <2>5 DEF Inv, InWindow
    <2>8. skip_time' = 0 => \A j \in DOMAIN sel_counters :
             Len(lines') + Len(results'[j]) >= Owed(j)'
      BY <1>2, <2>2, <2>3, <2>7
    <2> QED
      BY <1>2, <2>5, <2>6, <2>8 DEF InWindow
  <1> QED
    BY <1>2, <1>9, <1>10, <1>11, <1>12, <1>13, <1>14 DEF Inv

\* The merge ends when a list has nothing more.
LEMMA FinishStep ==
    ASSUME Inv, Finish
    PROVE  Inv'
  <1>1. /\ pc = "merge" /\ pc' = "done" /\ outfile' = "whole"
        /\ results' = [j \in DOMAIN results |-> << >>]
        /\ UNCHANGED <<daemon, args, i, select_from, timestamp, lines, min_x, max_x, before>>
        /\ \E j \in DOMAIN results : results[j] = << >>
    BY DEF Finish, Exhausted, range
  <1>2. /\ UNCHANGED <<clock, tables, db_ts, to_insert, sel_counters, skip_time>>
        /\ Agree' /\ LineType' = LineType
    BY <1>1, DaemonSame
  <1>3. /\ DOMAIN results = DOMAIN sel_counters
        /\ results' \in [DOMAIN sel_counters -> Seq(Clock)]
        /\ results' \in [DOMAIN sel_counters -> Seq(Nat)]
        /\ \A j \in DOMAIN sel_counters : results'[j] = << >>
    <2>1. << >> \in Seq(Clock) /\ << >> \in Seq(Nat)
      BY EmptySeq
    <2> QED
      BY <1>1, <2>1 DEF Inv, Typed
  <1>4. Typed'
    BY <1>1, <1>2, <1>3 DEF Inv, Typed, TypeOK
  <1>5. Place' /\ TablesRead'
    BY <1>1, <1>2 DEF Place, TablesRead, Read, Inv
  <1>6. Shown'
    <2>1. \A s, k : (HasRow(s, k)' <=> HasRow(s, k)) /\ RowAt(s, k)' = RowAt(s, k)
      BY <1>1, <1>2 DEF HasRow, RowAt, From, Nth
    <2>2. \A j \in DOMAIN sel_counters : 1 .. Len(results'[j]) = {}
      BY <1>3
    <2> QED
      BY <1>1, <1>2, <2>1, <2>2 DEF Inv, Shown
  <1>7. Stamped' /\ RangeSoFar'
    BY <1>1 DEF Inv, Stamped, RangeSoFar, Rising
  <1>8. InWindow'
    <2>1. \A c : WhenStarted(c)' = WhenStarted(c)
      BY <1>1, <1>2 DEF WhenStarted
    <2>2. \A j : Owed(j)' = Owed(j)
      BY <1>1, <1>2, <2>1 DEF Owed
    <2>3. pc' = "done" /\ pc \notin {"start", "failed"} /\ pc # "done" /\ \A j : Read(j)
      BY <1>1 DEF Read
    <2>4. \A c \in Tables : /\ before'[c] \in 0 .. Len(tables'[c])
                            /\ Len(Since(WhenStarted(c)', select_from'))
                                  <= Len(Since(tables'[c], select_from'))
      BY <1>1, <1>2, <2>1, <2>3 DEF Inv, InWindow
    <2>5. ASSUME skip_time = 0
          PROVE  \E j \in DOMAIN sel_counters : Len(lines) >= Owed(j)
      <3>1. PICK j \in DOMAIN sel_counters : results[j] = << >>
        BY <1>1, <1>3
      <3>2. Len(lines) + Len(results[j]) >= Owed(j)
        BY <2>3, <2>5 DEF Inv, InWindow
      <3>3. Len(lines) \in Nat /\ Len(results[j]) = 0
        BY <3>1, LenProperties DEF Inv, Typed
      <3> QED
        BY <3>2, <3>3
    <2>6. skip_time' = 0 => \E j \in DOMAIN sel_counters' : Len(lines') >= Owed(j)'
      BY <1>1, <1>2, <2>2, <2>5
    <2> QED
      BY <1>2, <2>3, <2>4, <2>6 DEF InWindow
  <1> QED
    BY <1>2, <1>4, <1>5, <1>6, <1>7, <1>8 DEF Inv

\* No step of the daemon or of the tool disturbs the invariant.
LEMMA NextInv == Inv /\ [Next]_vars => Inv'
  <1> SUFFICES ASSUME Inv, [Next]_vars PROVE Inv'
    OBVIOUS
  <1>1. CASE Telegram \/ Tick \/ SetBack \/ UNCHANGED vars
    BY <1>1, ClockStep
  <1>2. ASSUME NEW c \in Tables, InsertRow(c) PROVE Inv'
    BY <1>2, InsertStep
  <1>3. CASE Open
    BY <1>3, OpenStep
  <1>4. CASE OpenFails \/ SelectFails
    BY <1>4, FailStep
  <1>5. CASE Select
    BY <1>5, SelectStep
  <1>6. CASE Sample
    BY <1>6, SampleStep
  <1>7. CASE PrintLine
    BY <1>7, PrintStep
  <1>8. CASE Finish
    BY <1>8, FinishStep
  <1> QED
    BY <1>1, <1>2, <1>3, <1>4, <1>5, <1>6, <1>7, <1>8 DEF Next, DaemonStep, ToolStep

\* It holds in every state of every behaviour.
LEMMA InvHolds == Spec => []Inv
  BY InitInv, NextInv, PTL DEF Spec

-----------------------------------------------------------------------------
(***************************************************************************)
(* What follows                                                            *)
(***************************************************************************)

\* Every variable keeps its type, and the tool's index stays at a counter that
\* was asked for (the loop over sel_counters, meterd_output.c:166).
THEOREM QueryTyped == Spec => []TypeOK
  <1>1. Inv => TypeOK
    BY DEF Inv, Typed
  <1> QED
    BY <1>1, InvHolds, PTL

\* A row that two tables both have is the same in both, for they differ by one
\* row at their end at most.
LEMMA SameRow ==
    ASSUME Inv, NEW c \in Tables, NEW d \in Tables, NEW k,
           HasRow(tables[c], k), HasRow(tables[d], k)
    PROVE  RowAt(tables[c], k) = RowAt(tables[d], k)
  <1>1. /\ (c \in to_insert <=> d \in to_insert) => tables[c] = tables[d]
        /\ c \in to_insert /\ d \notin to_insert => tables[d] = Append(tables[c], db_ts)
        /\ d \in to_insert /\ c \notin to_insert => tables[c] = Append(tables[d], db_ts)
    BY DEF Inv, Agree
  <1>2. tables[c] \in Seq(Clock) /\ tables[d] \in Seq(Clock)
    BY DEF Inv, Typed
  <1>3. c \in to_insert \/ d \in to_insert => db_ts \in Clock
    BY DEF Inv, Typed
  <1>4. CASE c \in to_insert <=> d \in to_insert
    BY <1>1, <1>4
  <1>5. CASE c \in to_insert /\ d \notin to_insert
    <2>1. RowAt(Append(tables[c], db_ts), k) = RowAt(tables[c], k)
      BY <1>2, <1>3, <1>5, RowStays
    <2> QED
      BY <1>1, <1>5, <2>1
  <1>6. CASE d \in to_insert /\ c \notin to_insert
    <2>1. RowAt(Append(tables[d], db_ts), k) = RowAt(tables[d], k)
      BY <1>2, <1>3, <1>6, RowStays
    <2> QED
      BY <1>1, <1>6, <2>1
  <1> QED
    BY <1>4, <1>5, <1>6

\* Every line shows rows of the time printed in front of it, however the
\* SELECTs and the daemon's INSERTs were interleaved, with or without -j, the
\* clock set back or not (meterd_output.c:238).
THEOREM LinesPaired == Spec => []Paired
  <1>1. ASSUME Inv PROVE Paired
    <2> SUFFICES ASSUME NEW k \in 1 .. Len(lines), NEW j \in DOMAIN lines[k].rows
                 PROVE  lines[k].rows[j] + TimeOfs = lines[k].ts
      BY DEF Paired
    <2>1. DOMAIN lines[k].rows = DOMAIN sel_counters /\ lines # << >>
      <3>1. lines \in Seq(LineType)
        BY <1>1 DEF Inv, Typed
      <3>2. lines[k] \in LineType /\ lines # << >>
        BY <3>1, ElementOfSeq, LenProperties, EmptySeq
      <3> QED
        BY <3>2 DEF LineType
    <2>2. 1 \in DOMAIN sel_counters
      BY <1>1, Selected DEF Inv
    <2>3. sel_counters[1] \in Tables /\ sel_counters[j] \in Tables
      BY <1>1, <2>1, <2>2 DEF Inv, TablesRead
    <2>4. /\ HasRow(tables[sel_counters[1]], k) /\ HasRow(tables[sel_counters[j]], k)
          /\ lines[k].rows[1] = RowAt(tables[sel_counters[1]], k)
          /\ lines[k].rows[j] = RowAt(tables[sel_counters[j]], k)
      BY <1>1, <2>1, <2>2 DEF Inv, Shown
    <2>5. lines[k].rows[1] = lines[k].rows[j]
      BY <1>1, <2>3, <2>4, SameRow
    <2> QED
      BY <1>1, <2>5 DEF Inv, Stamped
  <1> QED
    BY <1>1, InvHolds, PTL

\* Without -j the tool prints the rows of its window that every selected table
\* had when it started, once each, in their order and without a gap
\* (meterd_output.c:217 to 280 with db.c:332).
THEOREM WindowPrinted == Spec => []PrintsWindow
  <1>1. ASSUME Inv PROVE PrintsWindow
    <2> DEFINE printed == [k \in DOMAIN lines |-> lines[k].ts - TimeOfs]
               all == Since(tables[sel_counters[1]], select_from)
               L == Len(lines)
    <2> SUFFICES ASSUME pc = "done", skip_time = 0
                 PROVE  /\ Len(printed) <= Len(all)
                        /\ printed = SubSeq(all, 1, Len(printed))
                        /\ \E j \in DOMAIN sel_counters : Len(printed) >= Owed(j)
      BY DEF PrintsWindow, Owed
    <2>1. lines \in Seq(LineType) /\ L \in Nat /\ DOMAIN lines = 1 .. L
      BY <1>1, LenProperties DEF Inv, Typed
    <2>2. 1 \in DOMAIN sel_counters
      BY <1>1, Selected DEF Inv
    <2>3. sel_counters[1] \in Tables
      BY <1>1, <2>2 DEF Inv, TablesRead, Read
    <2>4. all \in Seq(Clock) /\ Len(all) \in Nat
      BY <1>1, <2>3, SinceType, LenProperties DEF Inv, Typed
    <2>5. ASSUME NEW k \in 1 .. L
          PROVE  k \in 1 .. Len(all) /\ lines[k].ts - TimeOfs = all[k] /\ all[k] \in Clock
      <3>1. From(k) = select_from /\ Nth(k) = k
        BY DEF From, Nth
      <3>2. k \in 1 .. Len(all) /\ lines[k].rows[1] = all[k]
        BY <1>1, <2>2, <3>1 DEF Inv, Shown, HasRow, RowAt
      <3>3. all[k] \in Clock /\ all[k] \in Int
        <4>1. all[k] \in Clock
          BY <2>4, <3>2, ElementOfSeq
        <4> QED
          BY <1>1, <4>1, Selected DEF Inv
      <3>4. lines[k].ts = all[k] + TimeOfs
        BY <1>1, <3>2 DEF Inv, Stamped
      <3> HIDE DEF all
      <3> QED
        BY <3>2, <3>3, <3>4, QueryAssumption
    <2> HIDE DEF all
    <2>6. printed \in Seq(Clock) /\ Len(printed) = L /\ \A k \in 1 .. L : printed[k] = all[k]
      <3>1. printed = [k \in 1 .. L |-> all[k]]
        BY <2>1, <2>5
      <3>2. [k \in 1 .. L |-> all[k]] \in [1 .. L -> Clock]
        BY <2>5
      <3> HIDE DEF printed
      <3>3. printed \in Seq(Clock)
        BY <2>1, <3>1, <3>2
      <3> QED
        BY <2>1, <3>1, <3>3, LenProperties
    <2>7. L <= Len(all)
      BY <2>1, <2>4, <2>5
    <2>8. /\ SubSeq(all, 1, L) \in Seq(Clock) /\ Len(SubSeq(all, 1, L)) = L
          /\ \A k \in 1 .. L : SubSeq(all, 1, L)[k] = all[k]
      BY <2>1, <2>4, <2>5, <2>7, SubSeqProperties
    <2>9. \E j \in DOMAIN sel_counters : L >= Owed(j)
      BY <1>1 DEF Inv, InWindow
    <2> HIDE DEF printed
    <2>10. printed = SubSeq(all, 1, L)
      BY <2>6, <2>8, SeqEqual
    <2> QED
      BY <2>6, <2>7, <2>9, <2>10
  <1> QED
    BY <1>1, InvHolds, PTL

\* The range given to gnuplot is from the first line to the last when the lines
\* are in the order of time (meterd_output.c:247 to 254, where the largest time
\* is looked at only in the else of the smallest).
THEOREM RangeCorrect == Spec => []RangeSpans
  <1>1. ASSUME Inv PROVE RangeSpans
    <2> SUFFICES ASSUME Len(lines) > 1, Rising
                 PROVE  min_x = lines[1].ts /\ max_x = lines[Len(lines)].ts
      BY DEF RangeSpans, Rising
    <2>1. lines # << >>
      BY EmptySeq
    <2> QED
      BY <1>1, <2>1 DEF Inv, RangeSoFar
  <1> QED
    BY <1>1, InvHolds, PTL
=============================================================================
