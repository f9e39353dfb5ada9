------------------------------ MODULE P1Parser ------------------------------
(***************************************************************************)
(* meterd_parse_p1_telegram (src/p1_parser.c): the lines of a telegram are  *)
(* matched one by one against four regular expressions and turned into a   *)
(* list of smart_counter entries, which the caller hands to                *)
(* meterd_p1_counters_free in the end.                                     *)
(*                                                                         *)
(* A line is abstracted to what the expressions tell of it: its form, the  *)
(* identifier, what follows in the last parentheses, and the number        *)
(* strtold would read there.  Memory is a set of blocks that were          *)
(* allocated and not yet freed.  A step of the model goes from one place   *)
(* where the parser asks for memory to the next, and each call of malloc   *)
(* or strdup in it may return NULL.                                        *)
(***************************************************************************)
EXTENDS Integers, Sequences, FiniteSets

CONSTANTS
    Ids, Values,
    GasId,          \* gas_id, or NoId when no gas counter is configured
    NoId,           \* NULL in the place of an identifier
    Lines,          \* the lines telegrams are made of
    Telegrams,      \* the telegrams received
    MallocMayFail   \* whether malloc and strdup may return NULL

(***************************************************************************)
(* form   "extended"  matches re_extended: id(..)(..)                      *)
(*        "simple"    matches re_simple only: id(..)                       *)
(*        "paren"     matches re_gas only: (..)                            *)
(*        "other"     matches none                                         *)
(* field  what the last parentheses hold: a "number" with a unit that      *)
(*        re_counterval matches, one whose number or unit has 256          *)
(*        characters or more ("oversize"), or other "text"                 *)
(* value  the number in front of the unit                                  *)
(* paren  what strtold reads between the first and the last parenthesis    *)
(* long   that text has 256 characters or more                             *)
(***************************************************************************)
LineType == [form : {"extended", "simple", "paren", "other"}, id : Ids,
             field : {"number", "oversize", "text"}, value : Values, paren : Values,
             long : BOOLEAN]

ASSUME ParserAssumption ==
    /\ Lines \subseteq LineType
    /\ \A l \in Lines : l.field = "oversize" => l.long
    /\ Telegrams \subseteq Seq(Lines)
    /\ NoId \notin Ids /\ GasId \in Ids \cup {NoId}
    /\ MallocMayFail \in BOOLEAN

(***************************************************************************)
(* What is allocated for a line: the copies of the identifier and of the   *)
(* text in parentheses, the smart_counter and the copy of its unit.        *)
(***************************************************************************)
Parts == {"id", "val", "counter", "unit"}
Blocks(i, parts) == {i} \X parts

(***************************************************************************)
(* An entry of the list: its identifier (NoId for NULL), its value and the *)
(* blocks that it is made of and that its two pointers refer to.           *)
(***************************************************************************)
Entry == [id : Ids \cup {NoId}, value : Values, blocks : SUBSET (Nat \X Parts)]

VARIABLES
    telegram,       \* the lines received
    telegram_it,    \* index of the line at hand
    next_is_gas,
    counters,       \* the list built so far
    pc,             \* "line": at the head of the loop; "id", "value": new_id, or
                    \* new_id and new_val, are filled in; what was returned; "freed"
    heap            \* the blocks allocated and not freed

vars == <<telegram, telegram_it, next_is_gas, counters, pc, heap>>

Init ==
    /\ telegram \in Telegrams
    /\ telegram_it = 1
    /\ next_is_gas = FALSE
    /\ counters = << >>
    /\ pc = "line"
    /\ heap = {}

Line == telegram[telegram_it]
HasId(line) == line.form \in {"extended", "simple"}
IsGasHeader(line) == HasId(line) /\ GasId # NoId /\ line.id = GasId
GivesGas(line) == line.form # "other" /\ ~line.long

\* which of the parts asked for malloc and strdup provide
Obtained(parts) == IF MallocMayFail THEN SUBSET parts ELSE {parts}
New(parts) == Blocks(telegram_it, parts)

At(place) == pc = place /\ telegram_it <= Len(telegram)

\* the end of an iteration of LL_FOREACH(telegram, telegram_it)
\* mutant: the line after it is skipped as well
NextLineTwice ==
    /\ pc' = "line"
    /\ telegram_it' = telegram_it + 2
    /\ UNCHANGED telegram
NextLine ==
    /\ pc' = "line"
    /\ telegram_it' = telegram_it + 1
    /\ UNCHANGED telegram

\* the parser gives up; the caller frees what is in its list
MemoryError ==
    /\ pc' = "MRV_MEMORY"
    /\ UNCHANGED <<telegram, telegram_it, next_is_gas, counters>>

AppendCounter(id, value, parts) ==
    counters' = Append(counters, [id |-> id, value |-> value, blocks |-> New(parts)])

-----------------------------------------------------------------------------
(***************************************************************************)
(* The line after a gas header: its parenthesised text is the gas value,   *)
(* whatever else the line may be.                                          *)
(***************************************************************************)
\* mutant: only a line that gives a value clears next_is_gas
NoGasValueKeepsFlag ==
    /\ At("line")
    /\ next_is_gas
    /\ ~GivesGas(Line)
    /\ NextLine
    /\ UNCHANGED <<next_is_gas, counters, heap>>
NoGasValue ==
    /\ At("line")
    /\ next_is_gas
    /\ ~GivesGas(Line)
    /\ next_is_gas' = FALSE
    /\ NextLine
    /\ UNCHANGED <<counters, heap>>

\* neither strdup is checked: an entry may be left without identifier or unit
GasValue ==
    /\ At("line")
    /\ next_is_gas
    /\ GivesGas(Line)
    /\ next_is_gas' = FALSE
    /\ \E got \in Obtained({"id", "unit"}) :
          /\ AppendCounter(IF "id" \in got THEN GasId ELSE NoId, Line.paren,
                           got \cup {"counter"})
          /\ heap' = heap \cup New(got \cup {"counter"})
    /\ NextLine

NoGasMemory ==
    /\ At("line")
    /\ next_is_gas
    /\ GivesGas(Line)
    /\ MallocMayFail
    /\ MemoryError
    /\ UNCHANGED heap

-----------------------------------------------------------------------------
(***************************************************************************)
(* A line with an identifier.  For the extended form the copies of the     *)
(* identifier and of the field are allocated together, before either is    *)
(* looked at; for the simple form the second only if it is needed.         *)
(***************************************************************************)
FirstParts == IF Line.form = "extended" THEN {"id", "val"} ELSE {"id"}
SecondParts == IF Line.form = "extended" THEN {} ELSE {"val"}

NewId ==
    /\ At("line")
    /\ ~next_is_gas
    /\ HasId(Line)
    /\ heap' = heap \cup New(FirstParts)
    /\ pc' = "id"
    /\ UNCHANGED <<telegram, telegram_it, next_is_gas, counters>>

\* mutant: the copy that was obtained is not freed
NoIdMemoryLeaks ==
    /\ At("line")
    /\ ~next_is_gas
    /\ HasId(Line)
    /\ \E got \in Obtained(FirstParts) \ {FirstParts} : heap' = heap \cup New(got)
    /\ MemoryError
NoIdMemory ==
    /\ At("line")
    /\ ~next_is_gas
    /\ HasId(Line)
    /\ \E got \in Obtained(FirstParts) \ {FirstParts} :
          heap' = (heap \cup New(got)) \ New(FirstParts)
    /\ MemoryError

\* the identifier of the gas counter announces its value; of the two copies of
\* the extended form only new_id is freed
GasHeader ==
    /\ At("id")
    /\ IsGasHeader(Line)
    /\ next_is_gas' = TRUE
    /\ heap' = heap \ New({"id"})
    /\ NextLine
    /\ UNCHANGED counters

NewVal ==
    /\ At("id")
    /\ ~IsGasHeader(Line)
    /\ heap' = heap \cup New(SecondParts)
    /\ pc' = "value"
    /\ UNCHANGED <<telegram, telegram_it, next_is_gas, counters>>

NoValMemory ==
    /\ At("id")
    /\ ~IsGasHeader(Line)
    /\ Obtained(SecondParts) # {SecondParts}
    /\ heap' = heap \ New({"id"})
    /\ MemoryError

TextValue ==
    /\ At("value")
    /\ Line.field = "text"
    /\ heap' = heap \ New({"id", "val"})
    /\ NextLine
    /\ UNCHANGED <<next_is_gas, counters>>

\* a number or unit that is too long: new_id is neither used nor freed
OversizeValue ==
    /\ At("value")
    /\ Line.field = "oversize"
    /\ heap' = heap \ New({"val"})
    /\ NextLine
    /\ UNCHANGED <<next_is_gas, counters>>

\* the entry takes new_id over; the strdup of the unit is not checked
NumberValue ==
    /\ At("value")
    /\ Line.field = "number"
    /\ \E got \in Obtained({"unit"}) :
          /\ AppendCounter(Line.id, Line.value, got \cup {"counter", "id"})
          /\ heap' = (heap \cup New(got \cup {"counter"})) \ New({"val"})
    /\ NextLine
    /\ UNCHANGED next_is_gas

NoCounterMemory ==
    /\ At("value")
    /\ Line.field = "number"
    /\ MallocMayFail
    /\ heap' = heap \ New({"id", "val"})
    /\ MemoryError

-----------------------------------------------------------------------------
NoMatch ==
    /\ At("line")
    /\ ~next_is_gas
    /\ ~HasId(Line)
    /\ NextLine
    /\ UNCHANGED <<next_is_gas, counters, heap>>

Return ==
    /\ pc = "line"
    /\ telegram_it > Len(telegram)
    /\ pc' = "MRV_OK"
    /\ UNCHANGED <<telegram, telegram_it, next_is_gas, counters, heap>>

(***************************************************************************)
(* meterd_p1_counters_free: the caller is done with the list, whatever was *)
(* returned.                                                               *)
(***************************************************************************)
Owned == UNION {counters[k].blocks : k \in 1 .. Len(counters)}

CountersFree ==
    /\ pc \in {"MRV_OK", "MRV_MEMORY"}
    /\ pc' = "freed"
    /\ heap' = heap \ Owned
    /\ counters' = << >>
    /\ UNCHANGED <<telegram, telegram_it, next_is_gas>>

Next ==
    \/ NoGasValue \/ GasValue \/ NoGasMemory
    \/ NewId \/ NoIdMemory \/ GasHeader
    \/ NewVal \/ NoValMemory
    \/ TextValue \/ OversizeValue \/ NumberValue \/ NoCounterMemory
    \/ NoMatch \/ Return \/ CountersFree

Spec == Init /\ [][Next]_vars

-----------------------------------------------------------------------------
(***************************************************************************)
(* What a telegram says, without reading it from the top: a line is taken  *)
(* for a gas value when the headers directly before it are odd in number   *)
(* (the first of them announces, the second is swallowed, ...).            *)
(***************************************************************************)
HeadersBefore(t, i) == {k \in 1 .. i - 1 : \A j \in k .. i - 1 : IsGasHeader(t[j])}
TakenAsGas(t, i) == \E k \in HeadersBefore(t, i) :
                       /\ k - 1 \notin HeadersBefore(t, i)
                       /\ (i - k) % 2 = 1

Yields(t, i) ==
    IF TakenAsGas(t, i) THEN GivesGas(t[i])
    ELSE HasId(t[i]) /\ ~IsGasHeader(t[i]) /\ t[i].field = "number"

\* the identifiers an entry made of line i may have: that of a gas value is
\* missing when its strdup failed, that of a reading never is
IdsOf(t, i) == IF TakenAsGas(t, i)
               THEN IF MallocMayFail THEN {GasId, NoId} ELSE {GasId}
               ELSE {t[i].id}
ValueOf(t, i) == IF TakenAsGas(t, i) THEN t[i].paren ELSE t[i].value

Before(t, i) == {j \in 1 .. i - 1 : Yields(t, j)}

-----------------------------------------------------------------------------
(***************************************************************************)
(* Properties                                                              *)
(***************************************************************************)

\* The type of every variable.
TypeOK ==
    /\ telegram \in Seq(Lines)
    /\ telegram_it \in 1 .. Len(telegram) + 1
    /\ next_is_gas \in BOOLEAN
    /\ counters \in Seq(Entry)
    /\ pc \in {"line", "id", "value", "MRV_OK", "MRV_MEMORY", "freed"}
    /\ heap \subseteq Nat \X Parts

\* Whatever the order of the lines, and whichever call of malloc or strdup finds
\* no memory, the list holds the counters of the lines read so far and nothing
\* else, in the order of the lines, until it is freed: the flag next_is_gas never
\* outlives the line after the header and no line is used twice.  Only the
\* identifier of a gas value can be missing, and only for want of memory.
ReadsWhatIsThere ==
    pc # "freed" =>
        LET lines == Before(telegram, telegram_it) IN
        /\ Len(counters) = Cardinality(lines)
        /\ \A j \in lines :
              LET entry == counters[Cardinality(Before(telegram, j)) + 1] IN
              /\ entry.id \in IdsOf(telegram, j)
              /\ entry.value = ValueOf(telegram, j)

\* the blocks that new_id and new_val point to
Locals == IF pc = "id" THEN New(FirstParts)
          ELSE IF pc = "value" THEN New({"id", "val"}) ELSE {}

\* the two paths that forget a block: a header of the gas counter in extended form
\* its new_val, a reading that is too long its new_id
ForgetsVal(t, j) == ~TakenAsGas(t, j) /\ IsGasHeader(t[j]) /\ t[j].form = "extended"
ForgetsId(t, j) ==
    ~TakenAsGas(t, j) /\ HasId(t[j]) /\ ~IsGasHeader(t[j]) /\ t[j].field = "oversize"
Leaks(t, i) == {j \in 1 .. i - 1 : ForgetsVal(t, j)} \X {"val"}
               \cup {j \in 1 .. i - 1 : ForgetsId(t, j)} \X {"id"}

\* What is allocated is what the list and the locals refer to and the blocks that
\* two paths forget to free (p1_parser.c:188-196 and 210-213): no other path
\* forgets one, the ones that run out of memory half-way included, and no path frees
\* a block that is still referred to.
LeaksOnlyThere == heap = Owned \cup Locals \cup Leaks(telegram, telegram_it)
=============================================================================
