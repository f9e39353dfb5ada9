---------------------------- MODULE MeasureLoop ----------------------------
(***************************************************************************)
(* How telegrams reach the measurement loop: the smart meter sends lines,  *)
(* the terminal (in canonical mode, so one read returns one line) queues   *)
(* them, meterd_comm_recv_p1 (src/comm.c) collects the lines of one        *)
(* telegram and meterd_measure_loop (src/measure.c) hands it to the parser *)
(* until signal_handler (src/meterd_main.c) clears run_measurement.        *)
(*                                                                         *)
(* A telegram is a first line ('/'), Body lines of data and a last one     *)
(* ('!'); telegrams are numbered modulo Tags.                              *)
(***************************************************************************)
EXTENDS Integers, Sequences

CONSTANTS
    Body,           \* lines of data in a telegram
    Tags,           \* telegrams are told apart modulo Tags
    QMax,           \* BOUND on the lines in the queue of the terminal
    MaxLines,       \* BOUND on the lines received and not handed over beyond which none is lost
    ReadModes       \* values of restarts to consider

ASSUME LoopAssumption ==
    /\ Body \in Nat /\ Tags \in Nat /\ Tags > 2 /\ QMax \in Nat \ {0}
    /\ MaxLines \in Nat
    /\ ReadModes \subseteq BOOLEAN

VARIABLES
    meter,          \* the line the meter sends next
    noise,          \* lines may be lost (noise, a full queue): "yet" to come, "on", "over"
    tty,            \* lines the terminal holds
    up,             \* the terminal is there
    restarts,       \* signal() sets SA_RESTART (BSD, glibc); if FALSE a signal ends
                    \* a read that waits with EINTR (System V)
    pc,             \* where the loop is, see Places
    run_measurement,
    p1,             \* local of the loop: the lines of the telegram so far
    freed,          \* p1 points to a list that was freed
    errno,
    last,           \* history: the number of the telegram handed over last
    late            \* history: telegrams handed over since the loop was told to stop

line == <<meter, noise, up, restarts>>
loop == <<pc, run_measurement, p1, freed, errno, last, late>>
vars == <<line, tty, loop>>

(***************************************************************************)
(* "test"     while(run_measurement)                                       *)
(* "sync"     in the read that looks for a first line                      *)
(* "body"     in the read of a further line                                *)
(* "process"  a telegram is complete: dump, parse, record, free            *)
(* "stopped"  meterd_measure_loop has returned                             *)
(* "undefined" a freed list was used                                       *)
(***************************************************************************)
Places == {"test", "sync", "body", "process", "stopped", "undefined"}

None == -1      \* no telegram yet

Token == [tel : 0 .. Tags - 1, pos : 0 .. Body + 1]
IsFirst(token) == token.pos = 0
IsLast(token) == token.pos = Body + 1
After(token) == IF IsLast(token) THEN [tel |-> (token.tel + 1) % Tags, pos |-> 0]
                ELSE [token EXCEPT !.pos = @ + 1]

\* meterd_comm_init flushed the terminal: the meter may be in mid-telegram
Init ==
    /\ meter \in {token \in Token : token.tel = 0}
    /\ noise = "yet"
    /\ tty = << >>
    /\ up = TRUE
    /\ restarts \in ReadModes
    /\ pc = "test"
    /\ run_measurement = TRUE
    /\ p1 = << >>
    /\ freed = FALSE
    /\ errno = "none"
    /\ last = None
    /\ late = 0

-----------------------------------------------------------------------------
(***************************************************************************)
(* The meter and the line                                                  *)
(***************************************************************************)
Send ==
    /\ up
    /\ Len(tty) < QMax
    /\ tty' = Append(tty, meter)
    /\ meter' = After(meter)
    /\ UNCHANGED <<restarts, noise, up, loop>>

Lose ==
    /\ noise # "over"
    /\ Len(p1) + Len(tty) < MaxLines
    /\ noise' = "on"
    /\ meter' = After(meter)
    /\ UNCHANGED <<restarts, tty, up, loop>>

NoiseEnds ==
    /\ noise # "over"
    /\ noise' = "over"
    /\ UNCHANGED <<restarts, meter, tty, up, loop>>

\* a read of a terminal that hung up returns 0, what it held is gone
HangUp ==
    /\ up
    /\ up' = FALSE
    /\ tty' = << >>
    /\ UNCHANGED <<restarts, meter, noise, loop>>

-----------------------------------------------------------------------------
(***************************************************************************)
(* The loop                                                                *)
(***************************************************************************)
\* mutants of the test: it is left out, and it spins when told to stop
TestIgnoresFlag ==
    /\ pc = "test"
    /\ pc' = "sync"
    /\ UNCHANGED <<line, tty, run_measurement, p1, freed, errno, last, late>>
TestSpins ==
    /\ pc = "test"
    /\ pc' = IF run_measurement THEN "sync" ELSE "test"
    /\ UNCHANGED <<line, tty, run_measurement, p1, freed, errno, last, late>>

Test ==
    /\ pc = "test"
    /\ pc' = IF run_measurement THEN "sync" ELSE "stopped"
    /\ UNCHANGED <<line, tty, run_measurement, p1, freed, errno, last, late>>

\* read returned a line that is not the first of a telegram: read again
Skip ==
    /\ pc = "sync"
    /\ tty # << >>
    /\ ~IsFirst(Head(tty))
    /\ tty' = Tail(tty)
    /\ UNCHANGED <<line, loop>>

\* LL_APPEND(*telegram, new_tel_line), then the next read; walking a list that
\* was freed is undefined
AppendLine ==
    /\ tty' = Tail(tty)
    /\ pc' = IF freed THEN "undefined" ELSE "body"
    /\ p1' = Append(p1, Head(tty))
    /\ UNCHANGED <<line, run_measurement, freed, errno, last, late>>

\* mutant: any line starts a telegram
FirstAnyLine == pc = "sync" /\ tty # << >> /\ AppendLine

First == pc = "sync" /\ tty # << >> /\ IsFirst(Head(tty)) /\ AppendLine

\* any line but the last one, a first line included, continues the telegram
More == pc = "body" /\ tty # << >> /\ ~IsLast(Head(tty)) /\ AppendLine

\* mutant: a telegram must have all its lines
LastAfterAll ==
    /\ pc = "body"
    /\ tty # << >>
    /\ IsLast(Head(tty)) /\ Len(p1) = Body + 1
    /\ tty' = Tail(tty)
    /\ pc' = "process"
    /\ UNCHANGED <<line, run_measurement, p1, freed, errno, last, late>>

Last ==
    /\ pc = "body"
    /\ tty # << >>
    /\ IsLast(Head(tty))
    /\ tty' = Tail(tty)
    /\ pc' = "process"
    /\ UNCHANGED <<line, run_measurement, p1, freed, errno, last, late>>

\* mutants: the terminal is flushed before the next telegram, and the head of
\* the list is kept
ProcessFlushes ==
    /\ pc = "process"
    /\ pc' = "test"
    /\ last' = Head(p1).tel
    /\ p1' = << >>
    /\ tty' = << >>
    /\ late' = IF run_measurement THEN 0 ELSE late + 1
    /\ UNCHANGED <<line, run_measurement, freed, errno>>
ProcessKeepsHead ==
    /\ pc = "process"
    /\ pc' = "test"
    /\ last' = Head(p1).tel
    /\ p1' = << Head(p1) >>
    /\ late' = IF run_measurement THEN 0 ELSE late + 1
    /\ UNCHANGED <<line, tty, run_measurement, freed, errno>>

\* dump_telegram, the parser and the recording (Measure), then p1 is freed and
\* set to NULL
Process ==
    /\ pc = "process"
    /\ pc' = "test"
    /\ last' = Head(p1).tel
    /\ p1' = << >>
    /\ late' = IF run_measurement THEN 0 ELSE late + 1
    /\ UNCHANGED <<line, tty, run_measurement, freed, errno>>

\* mutant: every error is taken for an interruption
FailContinues(error) ==
    /\ errno' = error
    /\ freed' = (freed \/ (pc = "body" /\ p1 # << >>))
    /\ pc' = "test"
    /\ UNCHANGED <<p1, last, late>>

(***************************************************************************)
(* read returned 0 or -1.  In the body the list is freed, but the caller's *)
(* pointer to it stays.  Which error is reported depends on errno, which a *)
(* read that returns 0 does not set.  MRV_COMM_INTR: "continue".           *)
(***************************************************************************)
Fail(error) ==
    /\ errno' = error
    /\ freed' = (freed \/ (pc = "body" /\ p1 # << >>))
    /\ pc' = IF error = "EINTR" THEN "test" ELSE "stopped"
    /\ UNCHANGED <<p1, last, late>>

\* mutant: only -1 is taken for an error, so that 0 bytes read are an empty line
EmptyLine == [tel |-> None, pos |-> None]
ReadGoneUnseen ==
    /\ pc \in {"sync", "body"}
    /\ ~up
    /\ p1' = IF pc = "body" THEN Append(p1, EmptyLine) ELSE p1
    /\ UNCHANGED <<line, tty, pc, run_measurement, freed, errno, last, late>>

ReadGone ==
    /\ pc \in {"sync", "body"}
    /\ ~up
    /\ \E error \in {errno, "EIO"} : Fail(error)
    /\ UNCHANGED <<line, tty, run_measurement>>

(***************************************************************************)
(* A signal.  SIGINT, SIGTERM and SIGQUIT clear run_measurement, the       *)
(* others the handler catches only log a line.  A read that waits ends     *)
(* with EINTR if reads are not restarted and the signal is delivered to    *)
(* the thread of the loop; it goes on if they are, or if the signal is     *)
(* delivered to the thread of the scheduler.                               *)
(***************************************************************************)
Waiting == pc \in {"sync", "body"} /\ tty = << >> /\ up

\* mutant: handlers installed without SA_RESTART wherever the daemon runs
SignalBreaksRead(stops) ==
    /\ pc \notin {"stopped", "undefined"}
    /\ run_measurement' = (run_measurement /\ ~stops)
    /\ \/ Waiting /\ Fail("EINTR")
       \/ UNCHANGED <<pc, p1, freed, errno, last, late>>
    /\ UNCHANGED <<line, tty>>

Signal(stops) ==
    /\ pc \notin {"stopped", "undefined"}
    /\ run_measurement' = (run_measurement /\ ~stops)
    /\ \/ Waiting /\ ~restarts /\ Fail("EINTR")
       \/ UNCHANGED <<pc, p1, freed, errno, last, late>>
    /\ UNCHANGED <<line, tty>>

LoopStep == Test \/ Skip \/ First \/ More \/ Last \/ Process \/ ReadGone
MeterStep == Send \/ Lose \/ NoiseEnds \/ HangUp

Next == LoopStep \/ MeterStep \/ \E stops \in BOOLEAN : Signal(stops)

(***************************************************************************)
(* The loop is a running process: it takes its next step when it has one.  *)
(* Nothing makes the meter send; SpecSending is for a meter that does, on  *)
(* a line that is not noisy for ever.                                      *)
(***************************************************************************)
Spec == Init /\ [][Next]_vars /\ WF_vars(LoopStep)
SpecSending == Spec /\ WF_vars(Send) /\ WF_vars(NoiseEnds)

-----------------------------------------------------------------------------
(***************************************************************************)
(* Properties                                                              *)
(***************************************************************************)

\* The type of every variable.
TypeOK ==
    /\ meter \in Token
    /\ noise \in {"yet", "on", "over"}
    /\ tty \in Seq(Token) /\ Len(tty) <= QMax
    /\ up \in BOOLEAN
    /\ restarts \in ReadModes
    /\ pc \in Places
    /\ run_measurement \in BOOLEAN
    /\ p1 \in Seq(Token)
    /\ freed \in BOOLEAN
    /\ errno \in {"none", "EINTR", "EIO"}
    /\ last \in (0 .. Tags - 1) \cup {None}
    /\ late \in Nat

\* one telegram, from its first line to its last but the '!'
IsTelegram(lines) ==
    lines = [i \in 1 .. Body + 1 |-> [tel |-> Head(lines).tel, pos |-> i - 1]]

\* "reads the telegram, which ends with a '!' character": as long as no line was
\* lost, what is handed over is one telegram with no line of another, wherever
\* the meter was when the daemon started and whatever signals arrive.
Whole == pc = "process" /\ noise = "yet" => IsTelegram(p1)

\* Once no more lines are lost every telegram is whole again, after at most a
\* few: the loop finds the next first line by itself.
Recovers == noise = "over" ~> [](pc = "process" => IsTelegram(p1))

\* On a line that has lost nothing no telegram is skipped, handed over twice or
\* overtaken, with signals coming at any point of the loop (and restarting it).
InOrder ==
    [][last' # last /\ last # None /\ noise = "yet" /\ restarts =>
            last' = (last + 1) % Tags]_vars

\* Where signals restart reads (where they do not, a signal in mid-telegram is
\* enough), a list is never walked after meterd_comm_recv_p1 has freed it: every
\* failed read then ends the loop.
NoUseAfterFree == pc = "undefined" => ~restarts

\* When the handler has cleared run_measurement the loop hands over the telegram
\* it is waiting for, and no other.
AtMostOneLate == late <= 1

\* "Run the main measurement loop until interrupted": told to stop, it does.
StopsWhenAsked == ~run_measurement ~> pc \in {"stopped", "undefined"}

\* "Communication error, giving up": when the terminal is gone the loop ends
\* (where errno cannot be a stale EINTR).
HangUpEnds == ~up /\ restarts ~> pc = "stopped"

\* As long as the loop runs and the terminal is there it hands over telegrams.
KeepsMeasuring == []<>(pc = "process") \/ <>(pc \in {"stopped", "undefined"} \/ ~up)
=============================================================================
