--------------------------- MODULE P1ParserProofs ---------------------------
(***************************************************************************)
(* Theorems about the telegram parser, for telegrams of any length made of *)
(* any lines: the flag next_is_gas agrees with what the lines themselves   *)
(* say, so the list of counters and the blocks that are lost are those the *)
(* lines read so far account for.                                          *)
(***************************************************************************)
EXTENDS P1Parser, FiniteSetTheorems, SequenceTheorems, WellFoundedInduction, TLAPS

-----------------------------------------------------------------------------
(***************************************************************************)
(* The reference definitions, from one line to the next                    *)
(***************************************************************************)

\* Of the headers directly before a line there is a first.
LEMMA FirstHeader ==
    ASSUME NEW t, NEW i \in Nat \ {0}, HeadersBefore(t, i) # {}
    PROVE  \E k \in HeadersBefore(t, i) : k - 1 \notin HeadersBefore(t, i)
  <1>1. HeadersBefore(t, i) \in SUBSET Nat
    BY DEF HeadersBefore
  <1>2. PICK k \in HeadersBefore(t, i) :
            \A m \in HeadersBefore(t, i) : ~(<<m, k>> \in OpToRel(<, Nat))
    BY <1>1, NatLessThanWellFounded, WFMin
  <1>3. k \in Nat /\ (k - 1 \in Nat => <<k - 1, k>> \in OpToRel(<, Nat))
    BY <1>1, <1>2 DEF OpToRel
  <1> QED
    BY <1>1, <1>2, <1>3

\* Only one of them is the first.
LEMMA OneFirst ==
    ASSUME NEW t, NEW i \in Nat \ {0},
           NEW k \in HeadersBefore(t, i), k - 1 \notin HeadersBefore(t, i),
           NEW m \in HeadersBefore(t, i), m - 1 \notin HeadersBefore(t, i)
    PROVE  k = m
  <1>1. ASSUME NEW a \in HeadersBefore(t, i), NEW b \in HeadersBefore(t, i), a < b
        PROVE  b - 1 \in HeadersBefore(t, i)
    BY <1>1 DEF HeadersBefore
  <1>2. k \in Int /\ m \in Int
    BY DEF HeadersBefore
  <1> QED
    BY <1>1, <1>2

\* A line that is not a header ends the row of headers, a header adds to it.
LEMMA HeadersAfter ==
    ASSUME NEW t, NEW i \in Nat \ {0}
    PROVE  /\ ~IsGasHeader(t[i]) => HeadersBefore(t, i + 1) = {}
           /\ IsGasHeader(t[i]) =>
                 HeadersBefore(t, i + 1) = HeadersBefore(t, i) \cup {i}
  BY DEF HeadersBefore

\* Of two headers in a row at most one announces a value: a header taken for a
\* value announces none.
LEMMA TakenAfter ==
    ASSUME NEW t, NEW i \in Nat \ {0}
    PROVE  TakenAsGas(t, i + 1) <=> IsGasHeader(t[i]) /\ ~TakenAsGas(t, i)
  <1> DEFINE Now == HeadersBefore(t, i)
             Then == HeadersBefore(t, i + 1)
  <1>1. Now \subseteq 1 .. i - 1 /\ Then \subseteq 1 .. i
    BY DEF HeadersBefore
  <1>2. CASE ~IsGasHeader(t[i])
    BY <1>2, HeadersAfter DEF TakenAsGas
  <1>3. CASE IsGasHeader(t[i])
    <2>1. Then = Now \cup {i}
      BY <1>3, HeadersAfter
    <2>2. CASE Now = {}
      <3>1. ~TakenAsGas(t, i)
        BY <2>2 DEF TakenAsGas
      <3>2. i \in Then /\ i - 1 \notin Then
        BY <2>1, <2>2
      <3>3. ((i + 1) - i) % 2 = 1
        OBVIOUS
      <3>4. TakenAsGas(t, i + 1)
        BY <3>2, <3>3 DEF TakenAsGas
      <3> QED
        BY <1>3, <3>1, <3>4
    <2>3. CASE Now # {}
      <3>1. PICK k \in Now : k - 1 \notin Now
        BY <2>3, FirstHeader
      <3>2. \A m \in Now : m - 1 \notin Now => m = k
        BY <3>1, OneFirst
      <3>3. i - 1 \in Now
        BY <2>3 DEF HeadersBefore
      <3>4. \A m \in Then : m - 1 \notin Then <=> m = k
        BY <1>1, <2>1, <3>1, <3>2, <3>3
      <3>5. k \in 1 .. i - 1 /\ k \in Then
        BY <1>1, <2>1, <3>1
      <3>6. TakenAsGas(t, i) <=> (i - k) % 2 = 1
        BY <3>1, <3>2 DEF TakenAsGas
      <3>7. TakenAsGas(t, i + 1) <=> ((i + 1) - k) % 2 = 1
        BY <3>4, <3>5 DEF TakenAsGas
      <3>8. ((i + 1) - k) % 2 = 1 <=> (i - k) % 2 # 1
        BY <3>5
      <3> QED
        BY <1>3, <3>6, <3>7, <3>8
    <2> QED
      BY <2>2, <2>3
  <1> QED
    BY <1>2, <1>3

\* How many lines count grows by one with a line that counts.
LEMMA CountsAfter ==
    ASSUME NEW t, NEW i \in Nat \ {0}
    PROVE  /\ Cardinality(Before(t, i)) \in Nat
           /\ Cardinality(Before(t, i + 1)) =
                 Cardinality(Before(t, i)) + (IF Yields(t, i) THEN 1 ELSE 0)
           /\ Before(t, i + 1) =
                 IF Yields(t, i) THEN Before(t, i) \cup {i} ELSE Before(t, i)
  <1>1. IsFiniteSet(1 .. i - 1)
    BY FS_Interval
  <1>2. IsFiniteSet(Before(t, i))
    BY <1>1, FS_Subset DEF Before
  <1>3. Before(t, i + 1) = IF Yields(t, i) THEN Before(t, i) \cup {i} ELSE Before(t, i)
    BY DEF Before
  <1>4. i \notin Before(t, i)
    BY DEF Before
  <1>5. /\ Cardinality(Before(t, i)) \in Nat
        /\ Cardinality(Before(t, i) \cup {i}) = Cardinality(Before(t, i)) + 1
    BY <1>2, <1>4, FS_AddElement, FS_CardinalityType
  <1> QED
    BY <1>3, <1>5

\* A line that gave a counter has its place in the list.
LEMMA PlaceInList ==
    ASSUME NEW t, NEW i \in Nat \ {0}, NEW j \in Before(t, i)
    PROVE  Cardinality(Before(t, j)) + 1 \in 1 .. Cardinality(Before(t, i))
  <1>1. j \in Nat \ {0} /\ j <= i - 1 /\ Yields(t, j)
    BY DEF Before
  <1>2. Before(t, j + 1) \subseteq Before(t, i)
    BY <1>1 DEF Before
  <1>3. IsFiniteSet(1 .. i - 1) /\ Before(t, i) \in SUBSET (1 .. i - 1)
    BY FS_Interval DEF Before
  <1>4. Cardinality(Before(t, j + 1)) <= Cardinality(Before(t, i))
    BY <1>2, <1>3, FS_Subset
  <1>5. /\ Cardinality(Before(t, j)) \in Nat
        /\ Cardinality(Before(t, j + 1)) = Cardinality(Before(t, j)) + 1
    BY <1>1, CountsAfter
  <1>6. Cardinality(Before(t, i)) \in Nat
    BY CountsAfter
  <1> QED
    BY <1>4, <1>5, <1>6

-----------------------------------------------------------------------------
(***************************************************************************)
(* The inductive invariant                                                 *)
(***************************************************************************)

Reading == pc \in {"line", "id", "value"}
\* the flag says of the line at hand what the lines before it say
FlagAgrees == Reading => (next_is_gas <=> TakenAsGas(telegram, telegram_it))
\* what has been found out about the line at hand
PcAgrees ==
    /\ pc \in {"id", "value"} => ~next_is_gas /\ telegram_it <= Len(telegram) /\ HasId(Line)
    /\ pc = "value" => ~IsGasHeader(Line)

Inv == TypeOK /\ (next_is_gas => GasId # NoId) /\ FlagAgrees /\ PcAgrees

\* It holds of the first line.
LEMMA InitInv == Init => Inv
  <1> SUFFICES ASSUME Init PROVE Inv
    OBVIOUS
  <1>1. TypeOK
    <2>1. telegram \in Seq(Lines) /\ Len(telegram) \in Nat
      BY ParserAssumption DEF Init
    <2>2. 1 \in 1 .. Len(telegram) + 1
      BY <2>1
    <2>3. counters \in Seq(Entry)
      BY EmptySeq, Zenon DEF Init
    <2> QED
      BY <2>1, <2>2, <2>3, Zenon DEF Init, TypeOK
  <1>2. ~TakenAsGas(telegram, 1)
    BY DEF TakenAsGas, HeadersBefore
  <1> QED
    BY <1>1, <1>2 DEF Init, Inv, FlagAgrees, PcAgrees

\* The line at hand and what is read of it.
LEMMA LineTyped ==
    ASSUME Inv, telegram_it <= Len(telegram)
    PROVE  /\ Line \in Lines /\ Line \in LineType
           /\ telegram_it \in Nat \ {0} /\ telegram_it + 1 \in 1 .. Len(telegram) + 1
           /\ next_is_gas => GasId \in Ids
  BY ParserAssumption DEF Inv, TypeOK, Line

\* The blocks of the line at hand.
LEMMA NewBlocks ==
    ASSUME Inv
    PROVE  /\ \A a \in SUBSET Parts : New(a) \subseteq Nat \X Parts
           /\ \A a, b : New(a) \cup New(b) = New(a \cup b)
           /\ \A a, b : New(a) \ New(b) = New(a \ b)
           /\ New({}) = {}
  <1>1. telegram_it \in Nat
    BY DEF Inv, TypeOK
  <1> QED
    BY <1>1 DEF New, Blocks

\* What can be obtained is some of what was asked for.
LEMMA ObtainedSome ==
    ASSUME NEW parts, NEW got \in Obtained(parts)
    PROVE  got \subseteq parts
  BY DEF Obtained

\* An entry made of the line at hand.
LEMMA EntryTyped ==
    ASSUME Inv, NEW id \in Ids \cup {NoId}, NEW value \in Values, NEW parts \in SUBSET Parts,
           AppendCounter(id, value, parts)
    PROVE  /\ counters' = Append(counters, [id |-> id, value |-> value, blocks |-> New(parts)])
           /\ [id |-> id, value |-> value, blocks |-> New(parts)] \in Entry
           /\ counters' \in Seq(Entry)
  <1> DEFINE entry == [id |-> id, value |-> value, blocks |-> New(parts)]
  <1>1. New(parts) \subseteq Nat \X Parts
    BY NewBlocks
  <1>2. entry \in Entry
    BY <1>1 DEF Entry
  <1>3. counters' = Append(counters, entry)
    BY DEF AppendCounter
  <1>4. counters' \in Seq(Entry)
    BY <1>2, <1>3, AppendProperties, Zenon DEF Inv, TypeOK
  <1> QED
    BY <1>2, <1>3, <1>4

\* What each step does to the list: the step that ends the iteration for a line
\* appends the entry it yields, if it does; meterd_p1_counters_free empties the
\* list; no other step changes it.
EntryOf(t, i, entry) ==
    /\ entry \in Entry
    /\ entry.id \in IdsOf(t, i)
    /\ entry.value = ValueOf(t, i)
    /\ entry.blocks \subseteq {i} \X {"id", "counter", "unit"}
ListStep ==
    \/ /\ Reading /\ pc' = "line"
       /\ telegram_it <= Len(telegram) /\ telegram_it' = telegram_it + 1
       /\ telegram' = telegram
       /\ IF Yields(telegram, telegram_it)
          THEN \E entry : /\ EntryOf(telegram, telegram_it, entry)
                          /\ counters' = Append(counters, entry)
          ELSE counters' = counters
    \/ /\ pc # "freed" /\ pc' # "freed"
       /\ UNCHANGED <<telegram, telegram_it, counters>>
    \/ /\ pc' = "freed"
       /\ pc = "freed" => UNCHANGED counters
       /\ pc # "freed" => counters' = << >>
       /\ UNCHANGED <<telegram, telegram_it>>

-----------------------------------------------------------------------------
(***************************************************************************)
(* The invariant is inductive                                              *)
(***************************************************************************)

\* The end of an iteration, with the flag as the line at hand leaves it.
LEMMA EndOfLine ==
    ASSUME Inv, Reading, telegram_it <= Len(telegram), NextLine,
           next_is_gas' = (IsGasHeader(Line) /\ ~next_is_gas),
           counters' \in Seq(Entry), heap' \subseteq Nat \X Parts
    PROVE  Inv'
  <1>1. /\ telegram_it \in Nat \ {0} /\ telegram_it + 1 \in 1 .. Len(telegram) + 1
        /\ telegram' = telegram /\ telegram_it' = telegram_it + 1 /\ pc' = "line"
    BY LineTyped DEF NextLine
  <1>2. TypeOK'
    BY <1>1 DEF Inv, TypeOK, IsGasHeader
  <1>3. TakenAsGas(telegram, telegram_it + 1) <=>
            IsGasHeader(telegram[telegram_it]) /\ ~TakenAsGas(telegram, telegram_it)
    BY <1>1, TakenAfter
  <1>4. FlagAgrees' /\ PcAgrees'
    BY <1>1, <1>3 DEF Inv, FlagAgrees, PcAgrees, Reading, Line
  <1>5. next_is_gas' => GasId # NoId
    BY DEF IsGasHeader
  <1> QED
    BY <1>2, <1>4, <1>5 DEF Inv

\* A return, and the steps between two places where memory is asked for.
LEMMA WithinLine ==
    ASSUME Inv, UNCHANGED <<telegram, telegram_it, next_is_gas>>,
           counters' \in Seq(Entry), heap' \subseteq Nat \X Parts,
           \/ pc' \in {"MRV_OK", "MRV_MEMORY", "freed"}
           \/ pc = "line" /\ pc' = "id" /\ ~next_is_gas /\ telegram_it <= Len(telegram)
                 /\ HasId(Line)
           \/ pc = "id" /\ pc' = "value" /\ ~IsGasHeader(Line)
    PROVE  Inv'
  <1>1. TypeOK'
    BY DEF Inv, TypeOK
  <1>2. FlagAgrees'
    BY DEF Inv, FlagAgrees, Reading
  <1>3. PcAgrees'
    BY DEF Inv, PcAgrees, Line
  <1> QED
    BY <1>1, <1>2, <1>3 DEF Inv

\* What the four steps that end a line with a value append.
LEMMA GasValueAppends ==
    ASSUME Inv, GasValue
    PROVE  \E entry : /\ EntryOf(telegram, telegram_it, entry)
                      /\ counters' = Append(counters, entry) /\ counters' \in Seq(Entry)
  <1>1. PICK got \in Obtained({"id", "unit"}) :
               AppendCounter(IF "id" \in got THEN GasId ELSE NoId, Line.paren,
                             got \cup {"counter"})
    BY DEF GasValue
  <1> DEFINE id == IF "id" \in got THEN GasId ELSE NoId
             entry == [id |-> id, value |-> Line.paren, blocks |-> New(got \cup {"counter"})]
  <1>2. got \subseteq {"id", "unit"} /\ (~MallocMayFail => got = {"id", "unit"})
    BY DEF Obtained
  <1>3. Line \in LineType /\ GasId \in Ids /\ TakenAsGas(telegram, telegram_it)
    BY LineTyped DEF GasValue, At, Inv, FlagAgrees, Reading
  <1>4. /\ id \in Ids \cup {NoId} /\ Line.paren \in Values
        /\ got \cup {"counter"} \in SUBSET Parts
    BY <1>2, <1>3 DEF LineType, Parts
  <1>5. /\ counters' = Append(counters, entry) /\ entry \in Entry
        /\ counters' \in Seq(Entry)
    BY <1>1, <1>4, EntryTyped
  <1>6. entry.id \in IdsOf(telegram, telegram_it) /\ entry.value = ValueOf(telegram, telegram_it)
    BY <1>2, <1>3 DEF IdsOf, ValueOf, Line
  <1>7. entry.blocks \subseteq {telegram_it} \X {"id", "counter", "unit"}
    BY <1>2 DEF New, Blocks
  <1> QED
    BY <1>5, <1>6, <1>7 DEF EntryOf

LEMMA NumberValueAppends ==
    ASSUME Inv, NumberValue
    PROVE  \E entry : /\ EntryOf(telegram, telegram_it, entry)
                      /\ counters' = Append(counters, entry) /\ counters' \in Seq(Entry)
  <1>1. PICK got \in Obtained({"unit"}) :
               AppendCounter(Line.id, Line.value, got \cup {"counter", "id"})
    BY DEF NumberValue
  <1> DEFINE entry == [id |-> Line.id, value |-> Line.value,
                       blocks |-> New(got \cup {"counter", "id"})]
  <1>2. got \subseteq {"unit"}
    BY ObtainedSome
  <1>3. Line \in LineType /\ ~TakenAsGas(telegram, telegram_it)
    BY LineTyped DEF NumberValue, At, Inv, FlagAgrees, PcAgrees, Reading
  <1>4. /\ Line.id \in Ids \cup {NoId} /\ Line.value \in Values
        /\ got \cup {"counter", "id"} \in SUBSET Parts
    BY <1>2, <1>3 DEF LineType, Parts
  <1>5. /\ counters' = Append(counters, entry) /\ entry \in Entry
        /\ counters' \in Seq(Entry)
    BY <1>1, <1>4, EntryTyped
  <1>6. entry.id \in IdsOf(telegram, telegram_it) /\ entry.value = ValueOf(telegram, telegram_it)
    BY <1>3 DEF IdsOf, ValueOf, Line
  <1>7. entry.blocks \subseteq {telegram_it} \X {"id", "counter", "unit"}
    BY <1>2 DEF New, Blocks
  <1> QED
    BY <1>5, <1>6, <1>7 DEF EntryOf

\* What is freed was allocated, what is allocated is a block of the line at hand.
LEMMA HeapTyped ==
    ASSUME Inv, [Next]_vars
    PROVE  heap' \subseteq Nat \X Parts
  <1>1. heap \subseteq Nat \X Parts
    BY DEF Inv, TypeOK
  <1>2. \A a \in SUBSET Parts : New(a) \subseteq Nat \X Parts
    BY NewBlocks
  <1>3. CASE GasValue
    <2>1. PICK got \in Obtained({"id", "unit"}) : heap' = heap \cup New(got \cup {"counter"})
      BY <1>3 DEF GasValue
    <2>2. got \cup {"counter"} \in SUBSET Parts
      BY ObtainedSome DEF Parts
    <2> QED
      BY <1>1, <1>2, <2>1, <2>2
  <1>4. CASE NewId \/ NewVal
    <2>1. FirstParts \in SUBSET Parts /\ SecondParts \in SUBSET Parts
      BY DEF FirstParts, SecondParts, Parts
    <2> QED
      BY <1>1, <1>2, <1>4, <2>1 DEF NewId, NewVal
  <1>5. CASE NoIdMemory
    <2>1. PICK got \in Obtained(FirstParts) : heap' = (heap \cup New(got)) \ New(FirstParts)
      BY <1>5 DEF NoIdMemory
    <2>2. got \in SUBSET Parts
      BY ObtainedSome DEF FirstParts, Parts
    <2> QED
      BY <1>1, <1>2, <2>1, <2>2
  <1>6. CASE NumberValue
    <2>1. PICK got \in Obtained({"unit"}) :
              heap' = (heap \cup New(got \cup {"counter"})) \ New({"val"})
      BY <1>6 DEF NumberValue
    <2>2. got \cup {"counter"} \in SUBSET Parts
      BY ObtainedSome DEF Parts
    <2> QED
      BY <1>1, <1>2, <2>1, <2>2
  <1>7. CASE \/ NoGasValue \/ NoGasMemory \/ GasHeader \/ NoValMemory \/ TextValue
             \/ OversizeValue \/ NoCounterMemory \/ NoMatch \/ Return \/ CountersFree
             \/ UNCHANGED vars
    BY <1>1, <1>7 DEF NoGasValue, NoGasMemory, GasHeader, NoValMemory, TextValue,
          OversizeValue, NoCounterMemory, NoMatch, Return, CountersFree, vars
  <1> QED
    BY <1>3, <1>4, <1>5, <1>6, <1>7 DEF Next

\* No step disturbs it, and each does to the list what ListStep says.
LEMMA NextInv ==
    ASSUME Inv, [Next]_vars
    PROVE  Inv' /\ ListStep
  <1>1. heap' \subseteq Nat \X Parts /\ counters \in Seq(Entry)
    BY HeapTyped DEF Inv, TypeOK
  <1>2. Reading => (next_is_gas <=> TakenAsGas(telegram, telegram_it))
    BY DEF Inv, FlagAgrees
  <1>3. /\ pc \in {"id", "value"} =>
               ~next_is_gas /\ telegram_it <= Len(telegram) /\ HasId(Line)
        /\ pc = "value" => ~IsGasHeader(Line)
    BY DEF Inv, PcAgrees
  <1>4. CASE NoGasValue
    <2>1. /\ Reading /\ telegram_it <= Len(telegram) /\ NextLine /\ counters' = counters
          /\ next_is_gas' = (IsGasHeader(Line) /\ ~next_is_gas)
      BY <1>4 DEF NoGasValue, At, Reading
    <2>2. Inv'
      BY <1>1, <2>1, EndOfLine
    <2>3. ~Yields(telegram, telegram_it)
      BY <1>2, <1>4, <2>1 DEF NoGasValue, Yields, Line
    <2> QED
      BY <2>1, <2>2, <2>3 DEF ListStep, NextLine
  <1>5. CASE GasValue
    <2>1. /\ Reading /\ telegram_it <= Len(telegram) /\ NextLine
          /\ next_is_gas' = (IsGasHeader(Line) /\ ~next_is_gas)
      BY <1>5 DEF GasValue, At, Reading
    <2>2. PICK entry : /\ EntryOf(telegram, telegram_it, entry)
                       /\ counters' = Append(counters, entry) /\ counters' \in Seq(Entry)
      BY <1>5, GasValueAppends
    <2>3. Inv'
      BY <1>1, <2>1, <2>2, EndOfLine
    <2>4. Yields(telegram, telegram_it)
      BY <1>2, <1>5, <2>1 DEF GasValue, Yields, Line
    <2> QED
      BY <2>1, <2>2, <2>3, <2>4 DEF ListStep, NextLine
  <1>6. CASE GasHeader
    <2>1. /\ Reading /\ telegram_it <= Len(telegram) /\ NextLine /\ counters' = counters
          /\ next_is_gas' = (IsGasHeader(Line) /\ ~next_is_gas)
      BY <1>3, <1>6 DEF GasHeader, At, Reading
    <2>2. Inv'
      BY <1>1, <2>1, EndOfLine
    <2>3. ~Yields(telegram, telegram_it)
      BY <1>2, <1>3, <1>6, <2>1 DEF GasHeader, At, Yields, Line
    <2> QED
      BY <2>1, <2>2, <2>3 DEF ListStep, NextLine
  <1>7. CASE TextValue \/ OversizeValue
    <2>1. /\ Reading /\ telegram_it <= Len(telegram) /\ NextLine /\ counters' = counters
          /\ pc = "value" /\ next_is_gas' = next_is_gas /\ Line.field # "number"
      BY <1>7 DEF TextValue, OversizeValue, At, Reading
    <2>2. next_is_gas' = (IsGasHeader(Line) /\ ~next_is_gas)
      BY <1>3, <2>1 DEF Inv, TypeOK
    <2>3. Inv'
      BY <1>1, <2>1, <2>2, EndOfLine
    <2>4. ~Yields(telegram, telegram_it)
      BY <1>2, <1>3, <2>1 DEF Yields, Line
    <2> QED
      BY <2>1, <2>3, <2>4 DEF ListStep, NextLine
  <1>8. CASE NumberValue
    <2>1. /\ Reading /\ telegram_it <= Len(telegram) /\ NextLine
          /\ pc = "value" /\ next_is_gas' = next_is_gas /\ Line.field = "number"
      BY <1>8 DEF NumberValue, At, Reading
    <2>2. next_is_gas' = (IsGasHeader(Line) /\ ~next_is_gas)
      BY <1>3, <2>1 DEF Inv, TypeOK
    <2>3. PICK entry : /\ EntryOf(telegram, telegram_it, entry)
                       /\ counters' = Append(counters, entry) /\ counters' \in Seq(Entry)
      BY <1>8, NumberValueAppends
    <2>4. Inv'
      BY <1>1, <2>1, <2>2, <2>3, EndOfLine
    <2>5. /\ ~TakenAsGas(telegram, telegram_it)
          /\ HasId(Line) /\ ~IsGasHeader(Line) /\ Line.field = "number"
      BY <1>2, <1>3, <2>1
    <2>6. Yields(telegram, telegram_it)
      BY <2>5 DEF Yields, Line
    <2> QED
      BY <2>1, <2>3, <2>4, <2>6 DEF ListStep, NextLine
  <1>9. CASE NoMatch
    <2>1. /\ Reading /\ telegram_it <= Len(telegram) /\ NextLine /\ counters' = counters
          /\ next_is_gas' = next_is_gas /\ ~next_is_gas /\ ~IsGasHeader(Line)
      BY <1>9 DEF NoMatch, At, Reading, IsGasHeader
    <2>2. next_is_gas' = (IsGasHeader(Line) /\ ~next_is_gas)
      BY <2>1 DEF Inv, TypeOK
    <2>3. Inv'
      BY <1>1, <2>1, <2>2, EndOfLine
    <2>4. ~Yields(telegram, telegram_it)
      BY <1>2, <1>9, <2>1 DEF NoMatch, Yields, Line
    <2> QED
      BY <2>1, <2>3, <2>4 DEF ListStep, NextLine
  <1>10. CASE NewId \/ NewVal
    <2>1. /\ UNCHANGED <<telegram, telegram_it, next_is_gas, counters>>
          /\ \/ /\ pc = "line" /\ pc' = "id" /\ ~next_is_gas /\ telegram_it <= Len(telegram)
                /\ HasId(Line)
             \/ pc = "id" /\ pc' = "value" /\ ~IsGasHeader(Line)
      BY <1>10 DEF NewId, NewVal, At
    <2>2. Inv'
      BY <1>1, <2>1, WithinLine
    <2> QED
      BY <2>1, <2>2 DEF ListStep
  <1>11. CASE NoGasMemory \/ NoIdMemory \/ NoValMemory \/ NoCounterMemory \/ Return
    <2>1. /\ UNCHANGED <<telegram, telegram_it, next_is_gas, counters>>
          /\ pc # "freed" /\ pc' \in {"MRV_OK", "MRV_MEMORY"}
      BY <1>11 DEF NoGasMemory, NoIdMemory, NoValMemory, NoCounterMemory, Return, MemoryError, At
    <2>2. Inv'
      BY <1>1, <2>1, WithinLine
    <2> QED
      BY <2>1, <2>2 DEF ListStep
  <1>12. CASE CountersFree
    <2>1. /\ UNCHANGED <<telegram, telegram_it, next_is_gas>> /\ counters' = << >>
          /\ pc' = "freed" /\ pc # "freed"
      BY <1>12 DEF CountersFree
    <2>2. counters' \in Seq(Entry)
      BY <2>1, EmptySeq, Zenon
    <2>3. Inv'
      BY <1>1, <2>1, <2>2, WithinLine
    <2> QED
      BY <2>1, <2>3 DEF ListStep
  <1>13. CASE UNCHANGED vars
    BY <1>13 DEF vars, Inv, TypeOK, FlagAgrees, PcAgrees, Reading, Line, HasId, IsGasHeader,
           ListStep
  <1> QED
    BY <1>4, <1>5, <1>6, <1>7, <1>8, <1>9, <1>10, <1>11, <1>12, <1>13 DEF Next

\* So it holds in every state.
LEMMA InvHolds == Spec => []Inv
  <1>1. Inv /\ [Next]_vars => Inv'
    BY NextInv
  <1> QED
    BY <1>1, InitInv, PTL DEF Spec

\* Every variable of the parser keeps its type (meterd_parse_p1_telegram).
THEOREM ParserTyped == Spec => []TypeOK
  <1>1. Inv => TypeOK
    BY DEF Inv
  <1> QED
    BY <1>1, InvHolds, PTL

-----------------------------------------------------------------------------
(***************************************************************************)
(* The list                                                                *)
(***************************************************************************)

\* The list of counters is what the lines read so far say, in their order,
\* whichever allocation fails (meterd_parse_p1_telegram).
THEOREM ReadsLines == Spec => []ReadsWhatIsThere
  <1> DEFINE i == telegram_it
             lines == Before(telegram, i)
             Place(j) == Cardinality(Before(telegram, j)) + 1
             Says(j, entry) == entry.id \in IdsOf(telegram, j) /\ entry.value = ValueOf(telegram, j)
  <1>1. Init => ReadsWhatIsThere
    <2> SUFFICES ASSUME Init PROVE ReadsWhatIsThere
      OBVIOUS
    <2>1. Before(telegram, 1) = {}
      BY DEF Before
    <2> QED
      BY <2>1, FS_EmptySet DEF Init, ReadsWhatIsThere
  <1>2. Inv /\ ReadsWhatIsThere /\ [Next]_vars => ReadsWhatIsThere'
    <2> SUFFICES ASSUME Inv, ReadsWhatIsThere, [Next]_vars, pc' # "freed"
                 PROVE  ReadsWhatIsThere'
      BY DEF ReadsWhatIsThere
    <2>1. i \in Nat \ {0} /\ counters \in Seq(Entry)
      BY DEF Inv, TypeOK
    <2>2. CASE UNCHANGED <<telegram, telegram_it, counters>> /\ pc # "freed"
      BY <2>2 DEF ReadsWhatIsThere
    <2>3. CASE /\ Reading /\ telegram' = telegram /\ telegram_it' = telegram_it + 1
               /\ IF Yields(telegram, i)
                  THEN \E entry : /\ EntryOf(telegram, i, entry)
                                  /\ counters' = Append(counters, entry)
                  ELSE counters' = counters
      <3>1. Len(counters) = Cardinality(lines) /\ Len(counters) \in Nat
        BY <2>1, <2>3 DEF ReadsWhatIsThere, Reading
      <3>2. \A j \in lines : Place(j) \in 1 .. Len(counters) /\ Says(j, counters[Place(j)])
        BY <2>1, <2>3, <3>1, PlaceInList DEF ReadsWhatIsThere, Reading
      <3>3. CASE ~Yields(telegram, i)
        <4>1. Before(telegram, i + 1) = lines
          BY <2>1, <3>3, CountsAfter
        <4>2. counters' = counters
          BY <2>3, <3>3
        <4> QED
          BY <2>3, <3>1, <3>2, <4>1, <4>2 DEF ReadsWhatIsThere
      <3>4. CASE Yields(telegram, i)
        <4>1. PICK entry : Says(i, entry) /\ counters' = Append(counters, entry)
                           /\ entry \in Entry
          BY <2>3, <3>4 DEF EntryOf
        <4>2. /\ Before(telegram, i + 1) = lines \cup {i}
              /\ Cardinality(Before(telegram, i + 1)) = Cardinality(lines) + 1
          BY <2>1, <3>4, CountsAfter
        <4>3. Len(counters') = Cardinality(lines) + 1
          BY <2>1, <3>1, <4>1
        <4>4. counters'[Place(i)] = entry
          BY <2>1, <3>1, <4>1
        <4>5. \A k \in 1 .. Len(counters) : counters'[k] = counters[k]
          BY <2>1, <4>1
        <4>6. \A j \in lines \cup {i} : Says(j, counters'[Place(j)])
          BY <3>2, <4>1, <4>4, <4>5
        <4> QED
          BY <2>3, <4>2, <4>3, <4>6 DEF ReadsWhatIsThere
      <3> QED
        BY <3>3, <3>4
    <2> QED
      BY <2>2, <2>3, NextInv DEF ListStep
  <1> QED
    BY <1>1, <1>2, InvHolds, PTL DEF Spec

-----------------------------------------------------------------------------
(***************************************************************************)
(* Memory                                                                  *)
(***************************************************************************)

\* Everything but the locals: the list's blocks and those that were forgotten.
Rest == Owned \cup Leaks(telegram, telegram_it)
\* the blocks of the list belong to lines already read, and none was forgotten
OwnedBehind ==
    Owned \subseteq {b \in (1 .. telegram_it - 1) \X {"id", "counter", "unit"} :
                        ~ForgetsId(telegram, b[1])}
LeakInv == LeaksOnlyThere /\ OwnedBehind

\* One line more, and what it forgets.
ForgottenParts(t, i) ==
    (IF ForgetsVal(t, i) THEN {"val"} ELSE {}) \cup (IF ForgetsId(t, i) THEN {"id"} ELSE {})
LEMMA LeaksAfter ==
    ASSUME NEW t, NEW i \in Nat \ {0}
    PROVE  Leaks(t, i + 1) = Leaks(t, i) \cup Blocks(i, ForgottenParts(t, i))
  <1> DEFINE Vals(n) == {j \in 1 .. n - 1 : ForgetsVal(t, j)}
             IdsAt(n) == {j \in 1 .. n - 1 : ForgetsId(t, j)}
  <1>1. Vals(i + 1) = Vals(i) \cup (IF ForgetsVal(t, i) THEN {i} ELSE {})
    OBVIOUS
  <1>2. IdsAt(i + 1) = IdsAt(i) \cup (IF ForgetsId(t, i) THEN {i} ELSE {})
    OBVIOUS
  <1>3. Blocks(i, ForgottenParts(t, i)) =
            (IF ForgetsVal(t, i) THEN {i} ELSE {}) \X {"val"}
                \cup (IF ForgetsId(t, i) THEN {i} ELSE {}) \X {"id"}
    BY DEF Blocks, ForgottenParts
  <1>4. /\ Leaks(t, i) = Vals(i) \X {"val"} \cup IdsAt(i) \X {"id"}
        /\ Leaks(t, i + 1) = Vals(i + 1) \X {"val"} \cup IdsAt(i + 1) \X {"id"}
    BY DEF Leaks
  <1> HIDE DEF Vals, IdsAt
  <1>5. \A A, B, p : (A \cup B) \X {p} = A \X {p} \cup B \X {p}
    OBVIOUS
  <1> QED
    BY <1>1, <1>2, <1>3, <1>4, <1>5

\* The line at hand shares no block with what is kept or was forgotten.
LEMMA RestApart ==
    ASSUME Inv, LeakInv
    PROVE  /\ \A a \in SUBSET Parts, b \in SUBSET Parts :
                 (Rest \cup New(a)) \ New(b) = Rest \cup New(a \ b)
           /\ \A a, b : (Rest \cup New(a)) \cup New(b) = Rest \cup New(a \cup b)
           /\ Owned \cap Leaks(telegram, telegram_it) = {}
           /\ heap = Rest \cup Locals
           /\ Rest \cup New({}) = Rest
  <1> DEFINE i == telegram_it
  <1>1. i \in Nat \ {0}
    BY DEF Inv, TypeOK
  <1>2. \A b \in Rest : b[1] < i
    <2>1. \A b \in Owned : b[1] \in 1 .. i - 1
      BY DEF LeakInv, OwnedBehind
    <2>2. \A b \in Leaks(telegram, i) : b[1] \in 1 .. i - 1
      BY DEF Leaks
    <2> QED
      BY <1>1, <2>1, <2>2 DEF Rest
  <1>3. \A a : \A b \in New(a) : b[1] = i
    BY DEF New, Blocks
  <1>4. \A a : Rest \cap New(a) = {}
    BY <1>1, <1>2, <1>3
  <1>5. Owned \cap Leaks(telegram, i) = {}
    BY DEF LeakInv, OwnedBehind, Leaks
  <1>6. heap = Rest \cup Locals
    BY DEF LeakInv, LeaksOnlyThere, Rest
  <1>7. /\ \A a, b : New(a) \cup New(b) = New(a \cup b)
        /\ \A a, b : New(a) \ New(b) = New(a \ b)
        /\ New({}) = {}
    BY NewBlocks
  <1>8. \A a, b : (Rest \cup New(a)) \ New(b) = Rest \cup (New(a) \ New(b))
    BY <1>4
  <1>9. \A a, b : (Rest \cup New(a)) \cup New(b) = Rest \cup (New(a) \cup New(b))
    OBVIOUS
  <1>10. \A a, b : (Rest \cup New(a)) \ New(b) = Rest \cup New(a \ b)
    BY <1>7, <1>8
  <1>11. \A a, b : (Rest \cup New(a)) \cup New(b) = Rest \cup New(a \cup b)
    BY <1>7, <1>9
  <1> QED
    BY <1>5, <1>6, <1>7, <1>10, <1>11

\* The end of a line that leaves the list the parts kept and forgets those that
\* ForgottenParts says.
LEMMA EndOfLineLeaks ==
    ASSUME Inv, LeakInv, NextLine,
           NEW kept \in SUBSET {"id", "counter", "unit"},
           Owned' = Owned \cup New(kept),
           kept # {} => ~ForgetsId(telegram, telegram_it),
           heap' = Rest \cup New(kept \cup ForgottenParts(telegram, telegram_it))
    PROVE  LeakInv'
  <1> DEFINE i == telegram_it
             gone == ForgottenParts(telegram, i)
  <1>1. /\ i \in Nat \ {0} /\ telegram' = telegram /\ telegram_it' = i + 1 /\ pc' = "line"
    BY DEF Inv, TypeOK, NextLine
  <1>2. Leaks(telegram, i)' = Leaks(telegram, i) \cup New(gone)
    BY <1>1, LeaksAfter DEF New
  <1>3. New(kept \cup gone) = New(kept) \cup New(gone)
    BY NewBlocks
  <1>4. Locals' = {}
    BY <1>1 DEF Locals
  <1>5. LeaksOnlyThere'
    BY <1>2, <1>3, <1>4 DEF LeaksOnlyThere, Rest
  <1>6. \A b \in New(kept) : /\ b \in {i} \X {"id", "counter", "unit"}
                             /\ b[1] = i /\ kept # {}
    BY DEF New, Blocks
  <1>7. OwnedBehind'
    BY <1>1, <1>6 DEF LeakInv, OwnedBehind
  <1> QED
    BY <1>5, <1>7 DEF LeakInv

\* A step within a line, or a return, of which the locals and the heap agree.
LEMMA WithinLineLeaks ==
    ASSUME Inv, LeakInv, UNCHANGED <<telegram, telegram_it, counters>>,
           heap' = Rest \cup Locals'
    PROVE  LeakInv'
  <1>1. Owned' = Owned /\ Leaks(telegram, telegram_it)' = Leaks(telegram, telegram_it)
    BY DEF Owned, Leaks, ForgetsVal, ForgetsId
  <1>2. LeaksOnlyThere'
    BY <1>1 DEF LeaksOnlyThere, Rest
  <1>3. OwnedBehind'
    BY <1>1 DEF LeakInv, OwnedBehind, ForgetsId
  <1> QED
    BY <1>2, <1>3 DEF LeakInv

\* The list owns the blocks of the entry that is appended.
LEMMA OwnedAppend ==
    ASSUME Inv, NEW id \in Ids \cup {NoId}, NEW value \in Values, NEW parts \in SUBSET Parts,
           AppendCounter(id, value, parts)
    PROVE  Owned' = Owned \cup New(parts)
  <1> DEFINE entry == [id |-> id, value |-> value, blocks |-> New(parts)]
  <1>1. counters \in Seq(Entry) /\ counters' = Append(counters, entry) /\ entry \in Entry
    BY EntryTyped DEF Inv, TypeOK
  <1>2. /\ Len(counters) \in Nat /\ Len(counters') = Len(counters) + 1
        /\ counters'[Len(counters) + 1] = entry
        /\ \A k \in 1 .. Len(counters) : counters'[k] = counters[k]
    BY <1>1
  <1>3. 1 .. Len(counters') = (1 .. Len(counters)) \cup {Len(counters) + 1}
    BY <1>2
  <1> HIDE DEF entry
  <1>4. entry.blocks = New(parts)
    BY DEF entry
  <1>5. Owned' = UNION {counters'[k].blocks : k \in 1 .. Len(counters')}
    BY DEF Owned
  <1>6. ASSUME NEW b PROVE b \in Owned' <=> b \in Owned \cup New(parts)
    BY <1>2, <1>3, <1>4, <1>5 DEF Owned
  <1> QED
    BY <1>6

\* No step but the two that ForgetsVal and ForgetsId name forgets a block.
LEMMA NextLeaks ==
    ASSUME Inv, LeakInv, [Next]_vars
    PROVE  LeakInv'
  <1> DEFINE i == telegram_it
             gone == ForgottenParts(telegram, i)
  <1>1. /\ pc \in {"line", "id", "value"} => (next_is_gas <=> TakenAsGas(telegram, i))
        /\ pc \in {"id", "value"} => ~TakenAsGas(telegram, i) /\ HasId(Line)
        /\ pc = "value" => ~IsGasHeader(Line)
    BY DEF Inv, FlagAgrees, PcAgrees, Reading
  <1>2. /\ heap = Rest \cup Locals /\ Rest = Rest \cup New({})
        /\ \A a \in SUBSET Parts, b \in SUBSET Parts :
              (Rest \cup New(a)) \ New(b) = Rest \cup New(a \ b)
        /\ \A a, b : (Rest \cup New(a)) \cup New(b) = Rest \cup New(a \cup b)
    BY RestApart
  <1>3. /\ pc \notin {"id", "value"} => Locals = New({})
        /\ pc = "id" => Locals = New(FirstParts)
        /\ pc = "value" => Locals = New({"id", "val"})
    BY NewBlocks DEF Locals
  <1>4. ForgetsVal(telegram, i) <=> /\ ~TakenAsGas(telegram, i) /\ IsGasHeader(Line)
                                    /\ Line.form = "extended"
    BY DEF ForgetsVal, Line
  <1>5. ForgetsId(telegram, i) <=> /\ ~TakenAsGas(telegram, i) /\ HasId(Line)
                                   /\ ~IsGasHeader(Line) /\ Line.field = "oversize"
    BY DEF ForgetsId, Line
  <1>6. Owned = Owned \cup New({})
    BY NewBlocks
  <1>7. CASE NoGasValue \/ NoMatch \/ TextValue \/ OversizeValue \/ GasHeader
    <2>1. NextLine /\ counters' = counters
      BY <1>7 DEF NoGasValue, NoMatch, TextValue, OversizeValue, GasHeader
    <2>2. Owned' = Owned \cup New({})
      BY <1>6, <2>1 DEF Owned
    <2>3. heap' = Rest \cup New({} \cup gone)
      <3>1. CASE NoGasValue \/ NoMatch
        <4>1. heap' = heap /\ pc = "line"
          BY <3>1 DEF NoGasValue, NoMatch, At
        <4>2. gone = {}
          BY <1>1, <1>4, <1>5, <3>1 DEF NoGasValue, NoMatch, At, ForgottenParts, IsGasHeader
        <4> QED
          BY <1>2, <1>3, <4>1, <4>2
      <3>2. CASE TextValue
        <4>1. heap' = heap \ New({"id", "val"}) /\ pc = "value" /\ Line.field = "text"
          BY <3>2 DEF TextValue, At
        <4>2. gone = {}
          BY <1>1, <1>4, <1>5, <4>1 DEF ForgottenParts
        <4>3. {"id", "val"} \in SUBSET Parts /\ {"id", "val"} \ {"id", "val"} = {}
          BY DEF Parts
        <4>4. heap' = Rest \cup New({"id", "val"} \ {"id", "val"})
          BY <1>2, <1>3, <4>1, <4>3
        <4> QED
          BY <4>2, <4>3, <4>4
      <3>3. CASE OversizeValue
        <4>1. heap' = heap \ New({"val"}) /\ pc = "value" /\ Line.field = "oversize"
          BY <3>3 DEF OversizeValue, At
        <4>2. gone = {"id"}
          BY <1>1, <1>4, <1>5, <4>1 DEF ForgottenParts
        <4>3. /\ {"id", "val"} \in SUBSET Parts /\ {"val"} \in SUBSET Parts
              /\ {"id", "val"} \ {"val"} = {"id"}
          BY DEF Parts
        <4>4. heap' = Rest \cup New({"id", "val"} \ {"val"})
          BY <1>2, <1>3, <4>1, <4>3
        <4> QED
          BY <4>2, <4>3, <4>4
      <3>4. CASE GasHeader
        <4>1. heap' = heap \ New({"id"}) /\ pc = "id" /\ IsGasHeader(Line)
          BY <3>4 DEF GasHeader, At
        <4>2. gone = FirstParts \ {"id"}
          BY <1>1, <1>4, <1>5, <4>1 DEF ForgottenParts, FirstParts
        <4>3. FirstParts \in SUBSET Parts /\ {"id"} \in SUBSET Parts
          BY DEF Parts, FirstParts
        <4>4. heap' = Rest \cup New(FirstParts \ {"id"})
          BY <1>2, <1>3, <4>1, <4>3
        <4> QED
          BY <4>2, <4>4
      <3> QED
        BY <1>7, <3>1, <3>2, <3>3, <3>4
    <2> QED
      BY <2>1, <2>2, <2>3, EndOfLineLeaks
  <1>8. CASE GasValue
    <2>1. PICK got \in Obtained({"id", "unit"}) :
               /\ AppendCounter(IF "id" \in got THEN GasId ELSE NoId, Line.paren,
                                got \cup {"counter"})
               /\ heap' = heap \cup New(got \cup {"counter"})
      BY <1>8 DEF GasValue
    <2> DEFINE kept == got \cup {"counter"}
    <2>2. kept \in SUBSET {"id", "counter", "unit"} /\ kept \in SUBSET Parts
      BY ObtainedSome DEF Parts
    <2>3. NextLine /\ pc = "line" /\ TakenAsGas(telegram, i) /\ i <= Len(telegram) /\ next_is_gas
      BY <1>1, <1>8 DEF GasValue, At
    <2>4. Line.paren \in Values /\ GasId \in Ids
      BY <2>3, LineTyped DEF LineType
    <2>5. Owned' = Owned \cup New(kept)
      <3>1. (IF "id" \in got THEN GasId ELSE NoId) \in Ids \cup {NoId}
        BY <2>4
      <3> QED
        BY <2>1, <2>2, <2>4, <3>1, OwnedAppend
    <2>6. gone = {} /\ ~ForgetsId(telegram, i)
      BY <1>4, <1>5, <2>3 DEF ForgottenParts
    <2>7. heap' = Rest \cup New(kept \cup gone)
      <3>1. heap' = Rest \cup New({} \cup kept)
        BY <1>2, <1>3, <2>1, <2>3
      <3>2. {} \cup kept = kept \cup gone
        BY <2>6
      <3> QED
        BY <3>1, <3>2
    <2> QED
      BY <2>2, <2>3, <2>5, <2>6, <2>7, EndOfLineLeaks
  <1>9. CASE NumberValue
    <2>1. PICK got \in Obtained({"unit"}) :
               /\ AppendCounter(Line.id, Line.value, got \cup {"counter", "id"})
               /\ heap' = (heap \cup New(got \cup {"counter"})) \ New({"val"})
      BY <1>9 DEF NumberValue
    <2> DEFINE kept == got \cup {"counter", "id"}
               held == {"id", "val"} \cup (got \cup {"counter"})
    <2>2. /\ kept \in SUBSET {"id", "counter", "unit"} /\ kept \in SUBSET Parts
          /\ held \in SUBSET Parts /\ {"val"} \in SUBSET Parts /\ held \ {"val"} = kept
      BY ObtainedSome DEF Parts
    <2>3. NextLine /\ pc = "value" /\ Line.field = "number" /\ i <= Len(telegram)
      BY <1>9 DEF NumberValue, At
    <2>4. Line.id \in Ids \cup {NoId} /\ Line.value \in Values
      BY <2>3, LineTyped DEF LineType
    <2>5. Owned' = Owned \cup New(kept)
      BY <2>1, <2>2, <2>4, OwnedAppend
    <2>6. gone = {} /\ ~ForgetsId(telegram, i)
      BY <1>1, <1>4, <1>5, <2>3 DEF ForgottenParts
    <2>7. heap' = Rest \cup New(kept \cup gone)
      <3>1. heap \cup New(got \cup {"counter"}) = Rest \cup New(held)
        BY <1>2, <1>3, <2>3
      <3>2. heap' = Rest \cup New(held \ {"val"})
        BY <1>2, <2>1, <2>2, <3>1
      <3>3. held \ {"val"} = kept \cup gone
        BY <2>2, <2>6
      <3> QED
        BY <3>2, <3>3
    <2> QED
      BY <2>2, <2>3, <2>5, <2>6, <2>7, EndOfLineLeaks
  <1>10. CASE NewId
    <2>1. /\ pc = "line" /\ heap' = heap \cup New(FirstParts) /\ pc' = "id"
          /\ UNCHANGED <<telegram, telegram_it, counters>>
      BY <1>10 DEF NewId, At
    <2>2. Locals' = New(FirstParts)
      BY <2>1 DEF Locals, New, FirstParts, Line
    <2>3. heap' = Rest \cup Locals'
      BY <1>2, <1>3, <2>1, <2>2
    <2> QED
      BY <2>1, <2>3, WithinLineLeaks
  <1>11. CASE NewVal
    <2>1. /\ pc = "id" /\ heap' = heap \cup New(SecondParts) /\ pc' = "value"
          /\ UNCHANGED <<telegram, telegram_it, counters>>
      BY <1>11 DEF NewVal, At
    <2>2. FirstParts \cup SecondParts = {"id", "val"}
      BY DEF FirstParts, SecondParts
    <2>3. Locals' = New(FirstParts \cup SecondParts)
      BY <2>1, <2>2 DEF Locals, New
    <2>4. heap' = Rest \cup New(FirstParts \cup SecondParts)
      BY <1>2, <1>3, <2>1
    <2> QED
      BY <2>1, <2>3, <2>4, WithinLineLeaks
  <1>12. CASE NoGasMemory \/ NoIdMemory \/ NoValMemory \/ NoCounterMemory \/ Return
    <2>1. /\ UNCHANGED <<telegram, telegram_it, counters>>
          /\ pc' \in {"MRV_OK", "MRV_MEMORY"}
      BY <1>12 DEF NoGasMemory, NoIdMemory, NoValMemory, NoCounterMemory, Return, MemoryError
    <2>2. Locals' = New({})
      BY <2>1, NewBlocks DEF Locals
    <2>3. heap' = Rest \cup New({})
      <3>1. CASE NoGasMemory \/ Return
        BY <1>2, <1>3, <3>1 DEF NoGasMemory, Return, At
      <3>2. CASE NoIdMemory
        <4>1. PICK got \in Obtained(FirstParts) :
                     heap' = (heap \cup New(got)) \ New(FirstParts)
          BY <3>2 DEF NoIdMemory
        <4>2. /\ got \subseteq FirstParts /\ FirstParts \in SUBSET Parts
              /\ {} \cup got \in SUBSET Parts /\ ({} \cup got) \ FirstParts = {}
          BY ObtainedSome DEF FirstParts, Parts
        <4>3. heap \cup New(got) = Rest \cup New({} \cup got)
          BY <1>2, <1>3, <3>2 DEF NoIdMemory, At
        <4>4. heap' = Rest \cup New(({} \cup got) \ FirstParts)
          BY <1>2, <4>1, <4>2, <4>3
        <4> QED
          BY <4>2, <4>4
      <3>3. CASE NoValMemory
        <4>1. heap' = heap \ New({"id"}) /\ pc = "id" /\ SecondParts # {}
          BY <3>3 DEF NoValMemory, At, Obtained
        <4>2. /\ FirstParts = {"id"} /\ {"id"} \in SUBSET Parts /\ {"id"} \ {"id"} = {}
          BY <4>1 DEF FirstParts, SecondParts, Parts
        <4>3. heap' = Rest \cup New({"id"} \ {"id"})
          BY <1>2, <1>3, <4>1, <4>2
        <4> QED
          BY <4>2, <4>3
      <3>4. CASE NoCounterMemory
        <4>1. heap' = heap \ New({"id", "val"}) /\ pc = "value"
          BY <3>4 DEF NoCounterMemory, At
        <4>2. {"id", "val"} \in SUBSET Parts /\ {"id", "val"} \ {"id", "val"} = {}
          BY DEF Parts
        <4>3. heap' = Rest \cup New({"id", "val"} \ {"id", "val"})
          BY <1>2, <1>3, <4>1, <4>2
        <4> QED
          BY <4>2, <4>3
      <3> QED
        BY <1>12, <3>1, <3>2, <3>3, <3>4
    <2> QED
      BY <2>1, <2>2, <2>3, WithinLineLeaks
  <1>13. CASE CountersFree
    <2>1. /\ UNCHANGED <<telegram, telegram_it>> /\ counters' = << >> /\ pc' = "freed"
          /\ heap' = heap \ Owned /\ pc \notin {"id", "value"}
      BY <1>13 DEF CountersFree
    <2>2. Owned' = {} /\ Locals' = {}
      BY <2>1 DEF Owned, Locals
    <2>3. Leaks(telegram, i)' = Leaks(telegram, i)
      BY <2>1 DEF Leaks, ForgetsVal, ForgetsId
    <2>4. heap = Owned \cup Leaks(telegram, i) /\ Owned \cap Leaks(telegram, i) = {}
      BY <1>2, <1>3, <2>1, RestApart DEF Rest
    <2>5. LeaksOnlyThere'
      BY <2>1, <2>2, <2>3, <2>4 DEF LeaksOnlyThere
    <2>6. OwnedBehind'
      BY <2>2 DEF OwnedBehind
    <2> QED
      BY <2>5, <2>6 DEF LeakInv
  <1>14. CASE UNCHANGED vars
    <2>1. UNCHANGED <<telegram, telegram_it, counters>> /\ Locals' = Locals /\ heap' = heap
      BY <1>14 DEF vars, Locals, New, FirstParts, Line
    <2> QED
      BY <1>2, <2>1, WithinLineLeaks
  <1> QED
    BY <1>7, <1>8, <1>9, <1>10, <1>11, <1>12, <1>13, <1>14 DEF Next

\* Each block that was allocated is freed, or still referred to, or one of those
\* that the parser forgets on the two paths the property names, whichever of the
\* allocations fail (meterd_parse_p1_telegram, meterd_p1_counters_free).
THEOREM LeaksOnlyAtThese == Spec => []LeaksOnlyThere
  <1>1. Init => LeakInv
    <2> SUFFICES ASSUME Init PROVE LeakInv
      OBVIOUS
    <2>1. Owned = {} /\ Locals = {} /\ Leaks(telegram, telegram_it) = {} /\ heap = {}
      BY DEF Init, Owned, Locals, Leaks
    <2> QED
      BY <2>1 DEF LeakInv, LeaksOnlyThere, OwnedBehind
  <1>2. Inv /\ LeakInv /\ [Next]_vars => LeakInv'
    BY NextLeaks
  <1>3. LeakInv => LeaksOnlyThere
    BY DEF LeakInv
  <1> QED
    BY <1>1, <1>2, <1>3, InvHolds, PTL DEF Spec
=============================================================================
