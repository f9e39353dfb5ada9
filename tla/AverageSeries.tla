--------------------------- MODULE AverageSeries ---------------------------
(***************************************************************************)
(* What meterd promises of one counter in one database of averages,        *)
(* whatever other counters and databases there are.  The readings of a     *)
(* telegram are gone through one by one.  A reading of another counter     *)
(* changes nothing; each reading of this one goes into the average that is *)
(* open, and the first that comes Length or more after the last average    *)
(* was closed also closes it: the average becomes a row, or, when it       *)
(* cannot be written, is accounted for as lost.  Averages that are closed  *)
(* never change.  A process that ends loses the average that was open, and *)
(* the next one has closed none.                                           *)
(*                                                                         *)
(* Measure implements this for every raw counter (Measure!Series).         *)
(***************************************************************************)
EXTENDS Integers, Sequences

CONSTANTS
    Id,             \* the identifier of the counter
    Length,         \* how long an average is to be open at least
    Readings,       \* the readings a telegram may have, of this counter or not
    CanFail,        \* whether writing a row can fail
    Stamp(_)        \* the timestamp that stands for a time in the database

VARIABLES
    now,            \* the time of the telegram
    input,          \* the readings of the telegram that are still to come
    open,           \* sum and number of the readings in the open average
    since,          \* when this process last closed an average, or 0
    averages,       \* the rows
    lost            \* sum and number of the readings that are in no row

vars == <<now, input, open, since, averages, lost>>

Empty == [sum |-> 0, n |-> 0]
Sum(a, b) == [sum |-> a.sum + b.sum, n |-> a.n + b.n]
\* the open average together with the reading at hand
Filled == Sum(open, [sum |-> Head(input).value, n |-> 1])
Over == now - since >= Length

Init ==
    /\ now = 0
    /\ input = << >>
    /\ open = Empty
    /\ since = 0
    /\ averages = << >>
    /\ lost = Empty

\* another telegram, once the last one has been gone through
NextTelegram ==
    /\ input = << >>
    /\ input' \in Seq(Readings)
    /\ now' \in Nat
    /\ UNCHANGED <<open, since, averages, lost>>

Read(mine) ==
    /\ input # << >>
    /\ mine = (Head(input).id = Id)
    /\ input' = Tail(input)
    /\ UNCHANGED now

\* the reading of another counter
Pass ==
    /\ Read(FALSE)
    /\ UNCHANGED <<open, since, averages, lost>>

Take ==
    /\ Read(TRUE)
    /\ ~Over
    /\ open' = Filled
    /\ UNCHANGED <<since, averages, lost>>

Close ==
    /\ Read(TRUE)
    /\ Over
    /\ open' = Empty
    /\ since' = now
    /\ averages' = Append(averages, [ts |-> Stamp(now), sum |-> Filled.sum, n |-> Filled.n])
    /\ UNCHANGED lost

\* the row could not be written
CloseLost ==
    /\ CanFail
    /\ Read(TRUE)
    /\ Over
    /\ open' = Empty
    /\ since' = now
    /\ lost' = Sum(lost, Filled)
    /\ UNCHANGED averages

NewProcess ==
    /\ now' = 0
    /\ input' = << >>
    /\ open' = Empty
    /\ since' = 0
    /\ lost' = Sum(lost, open)
    /\ UNCHANGED averages

Next == NextTelegram \/ Pass \/ Take \/ Close \/ CloseLost \/ NewProcess

Spec == Init /\ [][Next]_vars
=============================================================================
