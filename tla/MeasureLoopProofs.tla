------------------------- MODULE MeasureLoopProofs -------------------------
(***************************************************************************)
(* What reaches the measurement loop: the state keeps its type, a list     *)
(* that was freed is not walked where signals restart reads, at most one   *)
(* telegram follows a stop request, and on a line that loses nothing every *)
(* telegram handed over is whole and follows the one before it.            *)
(***************************************************************************)
EXTENDS MeasureLoop, SequenceTheorems, TLAPS

-----------------------------------------------------------------------------
(***************************************************************************)
(* Type correctness                                                        *)
(***************************************************************************)

\* The list is not empty from the first line on.
Begun == pc \in {"body", "process"} => p1 # << >>

\* The tag after a tag is a tag, and a line that follows one is a line.
LEMMA AfterType ==
    ASSUME NEW token \in Token
    PROVE  After(token) \in Token
  <1>1. CASE IsLast(token)
    BY <1>1, LoopAssumption DEF Token, After
  <1>2. CASE ~IsLast(token)
    BY <1>2, LoopAssumption DEF Token, After, IsLast
  <1> QED
    BY <1>1, <1>2

\* What a read takes from the queue of the terminal.
LEMMA TakeType ==
    ASSUME TypeOK, tty # << >>
    PROVE  /\ Head(tty) \in Token
           /\ Tail(tty) \in Seq(Token) /\ Len(Tail(tty)) <= QMax
  BY EmptySeq, HeadTailProperties, LoopAssumption DEF TypeOK

\* The list that holds nothing is a list of lines.
LEMMA EmptyType == << >> \in Seq(Token) /\ Len(<< >>) <= QMax
  BY EmptySeq, LoopAssumption

\* A list with a line more.
LEMMA MoreType ==
    ASSUME NEW s \in Seq(Token), NEW token \in Token
    PROVE  /\ Append(s, token) \in Seq(Token) /\ Append(s, token) # << >>
           /\ Len(Append(s, token)) = Len(s) + 1
  BY AppendProperties

\* What a failed read leaves.
LEMMA FailType ==
    ASSUME TypeOK, Begun, NEW error \in {"none", "EINTR", "EIO"}, Fail(error)
    PROVE  /\ errno' \in {"none", "EINTR", "EIO"} /\ freed' \in BOOLEAN
           /\ pc' \in {"test", "stopped"} /\ UNCHANGED <<p1, last, late>>
  BY DEF TypeOK, Fail

\* The initial state is type correct.
LEMMA InitType == Init => TypeOK /\ Begun
  <1> SUFFICES ASSUME Init PROVE TypeOK /\ Begun
    OBVIOUS
  <1>1. /\ meter \in Token /\ noise = "yet" /\ tty = << >> /\ restarts \in ReadModes
        /\ p1 = << >> /\ errno = "none" /\ last = None /\ late = 0 /\ pc = "test"
    BY DEF Init
  <1>2. up \in BOOLEAN /\ run_measurement \in BOOLEAN /\ freed \in BOOLEAN
    BY Zenon DEF Init
  <1> QED
    BY <1>1, <1>2, EmptyType DEF TypeOK, Begun, Places

\* Every step keeps the state type correct, and the list begun where it is.
LEMMA NextType == TypeOK /\ Begun /\ [Next]_vars => TypeOK' /\ Begun'
  <1> SUFFICES ASSUME TypeOK, Begun, [Next]_vars PROVE TypeOK' /\ Begun'
    OBVIOUS
  <1> USE DEF TypeOK, Begun, line, loop
  <1>1. CASE Send
    BY <1>1, AfterType, MoreType, LoopAssumption DEF Send
  <1>2. CASE Lose
    BY <1>2, AfterType DEF Lose
  <1>3. CASE NoiseEnds
    BY <1>3 DEF NoiseEnds
  <1>4. CASE HangUp
    BY <1>4, EmptyType DEF HangUp
  <1>5. CASE Test
    BY <1>5 DEF Test, Places
  <1>6. CASE Skip
    BY <1>6, TakeType DEF Skip
  <1>7. CASE First \/ More
    BY <1>7, TakeType, MoreType DEF First, More, AppendLine, Places
  <1>8. CASE Last
    BY <1>8, TakeType DEF Last, Places
  <1>9. CASE Process
    <2>1. Head(p1) \in Token
      BY <1>9 DEF Process
    <2> QED
      BY <1>9, <2>1 DEF Process, Places, Token
  <1>10. CASE ReadGone
    <2>1. PICK error \in {errno, "EIO"} : Fail(error)
      BY <1>10 DEF ReadGone
    <2> QED
      BY <1>10, <2>1, FailType DEF ReadGone, Places
  <1>11. ASSUME NEW stops \in BOOLEAN, Signal(stops) PROVE TypeOK' /\ Begun'
    <2>1. /\ UNCHANGED <<line, tty>>
          /\ run_measurement' \in BOOLEAN
      BY <1>11 DEF Signal
    <2>2. CASE Waiting /\ ~restarts /\ Fail("EINTR")
      BY <1>11, <2>1, <2>2, FailType DEF Signal, Places
    <2>3. CASE UNCHANGED <<pc, p1, freed, errno, last, late>>
      BY <1>11, <2>1, <2>3 DEF Signal
    <2> QED
      BY <1>11, <2>2, <2>3 DEF Signal
  <1>12. CASE UNCHANGED vars
    BY <1>12 DEF vars
  <1> QED
    BY <1>1, <1>2, <1>3, <1>4, <1>5, <1>6, <1>7, <1>8, <1>9, <1>10, <1>11, <1>12
       DEF Next, LoopStep, MeterStep

\* The state of reception keeps its type, for telegrams and queues of any length.
THEOREM LoopTypeCorrect == Spec => []TypeOK
  BY InitType, NextType, PTL DEF Spec

-----------------------------------------------------------------------------
(***************************************************************************)
(* Signals                                                                 *)
(***************************************************************************)

\* Where reads are restarted no error is EINTR, and a read that fails is the last.
Restarted ==
    restarts => /\ errno # "EINTR"
                /\ freed => pc = "stopped"
                /\ pc # "undefined"

\* Every step keeps: where signals restart reads, the list is not freed under the loop.
LEMMA NextRestarted == Restarted /\ [Next]_vars => Restarted'
  <1> SUFFICES ASSUME Restarted, [Next]_vars PROVE Restarted'
    OBVIOUS
  <1> USE DEF Restarted, line, loop
  <1>1. CASE MeterStep
    BY <1>1 DEF MeterStep, Send, Lose, NoiseEnds, HangUp
  <1>2. CASE Test \/ Skip \/ Last \/ Process
    BY <1>2 DEF Test, Skip, Last, Process
  <1>3. CASE First \/ More
    BY <1>3 DEF First, More, AppendLine
  <1>4. CASE ReadGone
    BY <1>4 DEF ReadGone, Fail
  <1>5. ASSUME NEW stops \in BOOLEAN, Signal(stops) PROVE Restarted'
    BY <1>5 DEF Signal, Fail, Waiting
  <1>6. CASE UNCHANGED vars
    BY <1>6 DEF vars
  <1> QED
    BY <1>1, <1>2, <1>3, <1>4, <1>5, <1>6 DEF Next, LoopStep

\* A freed list is never walked where signals restart reads, whatever is read, lost
\* or interrupted, and however the terminal hangs up.
THEOREM ListNotUsedAfterFree == Spec => []NoUseAfterFree
  <1>1. Init => Restarted
    BY DEF Init, Restarted
  <1>2. Restarted => NoUseAfterFree
    BY DEF Restarted, NoUseAfterFree
  <1> QED
    BY <1>1, <1>2, NextRestarted, PTL DEF Spec

\* A telegram handed over late is followed by the test that ends the loop.
Latest ==
    /\ late \in {0, 1}
    /\ late = 1 => ~run_measurement /\ pc \in {"test", "stopped"}

\* Every step keeps count of the telegrams handed over after a stop.
LEMMA NextLatest == Latest /\ [Next]_vars => Latest'
  <1> SUFFICES ASSUME Latest, [Next]_vars PROVE Latest'
    OBVIOUS
  <1> USE DEF Latest, line, loop
  <1>1. CASE MeterStep
    BY <1>1 DEF MeterStep, Send, Lose, NoiseEnds, HangUp
  <1>2. CASE Test \/ Skip \/ Last \/ Process
    BY <1>2 DEF Test, Skip, Last, Process
  <1>3. CASE First \/ More
    BY <1>3 DEF First, More, AppendLine
  <1>4. CASE ReadGone
    BY <1>4 DEF ReadGone, Fail
  <1>5. ASSUME NEW stops \in BOOLEAN, Signal(stops) PROVE Latest'
    BY <1>5 DEF Signal, Fail, Waiting
  <1>6. CASE UNCHANGED vars
    BY <1>6 DEF vars
  <1> QED
    BY <1>1, <1>2, <1>3, <1>4, <1>5, <1>6 DEF Next, LoopStep

\* After a stop request the loop hands over at most the telegram it was waiting
\* for, with signals, noise and failing reads at any point.
THEOREM OneTelegramAfterStop == Spec => []AtMostOneLate
  <1>1. Init => Latest
    BY DEF Init, Latest
  <1>2. Latest => AtMostOneLate
    BY DEF Latest, AtMostOneLate
  <1> QED
    BY <1>1, <1>2, NextLatest, PTL DEF Spec

-----------------------------------------------------------------------------
(***************************************************************************)
(* Telegrams on a line that loses nothing                                  *)
(***************************************************************************)

\* The queue of the terminal is a stretch of what the meter sends.
Linked ==
    /\ \A i \in 1 .. Len(tty) - 1 : tty[i + 1] = After(tty[i])
    /\ tty # << >> => meter = After(tty[Len(tty)])

\* the line the loop will read next
Coming == IF tty = << >> THEN meter ELSE Head(tty)

Opening(number) == [tel |-> number % Tags, pos |-> 0]

\* The list is a telegram from its first line on.
Gathered ==
    /\ Len(p1) \in 1 .. Body + 1
    /\ \A i \in 1 .. Len(p1) : p1[i] = [tel |-> p1[1].tel, pos |-> i - 1]

\* The line that comes next continues the list or, between telegrams, begins
\* the one after the telegram handed over last.
Flow ==
    /\ ~up => tty = << >>
    /\ noise = "yet" =>
        /\ Linked
        /\ pc \in {"test", "sync"} /\ ~freed => p1 = << >>
        /\ pc \in {"body", "process"} => ~freed /\ Gathered
        /\ pc = "body" /\ up => Coming = After(p1[Len(p1)])
        /\ pc = "process" => /\ Len(p1) = Body + 1
                             /\ up => Coming = Opening(p1[1].tel + 1)
        /\ restarts /\ last # None =>
            /\ pc \in {"test", "sync"} /\ up => Coming = Opening(last + 1)
            /\ pc \in {"body", "process"} => p1[1].tel = (last + 1) % Tags

\* A line sent is put behind the last line in the queue, of which it is the successor.
LEMMA SendLinked ==
    ASSUME TypeOK, Linked, Send
    PROVE  Linked' /\ Coming' = Coming
  <1>1. /\ tty' = Append(tty, meter) /\ meter' = After(meter)
        /\ tty \in Seq(Token) /\ meter \in Token
    BY DEF Send, TypeOK
  <1>2. /\ Len(tty') = Len(tty) + 1 /\ tty' # << >> /\ Len(tty) \in Nat
        /\ \A i \in 1 .. Len(tty) : tty'[i] = tty[i]
        /\ tty'[Len(tty) + 1] = meter
    BY <1>1, AppendProperties, LenProperties
  <1>3. ASSUME NEW i \in 1 .. Len(tty') - 1 PROVE tty'[i + 1] = After(tty'[i])
    <2>1. CASE i = Len(tty)
      <3>1. tty # << >>
        BY <1>2, <2>1, <1>3, EmptySeq
      <3> QED
        BY <1>2, <2>1, <3>1, <1>3 DEF Linked
    <2>2. CASE i # Len(tty)
      <3>1. i \in 1 .. Len(tty) - 1 /\ i + 1 \in 1 .. Len(tty)
        BY <1>2, <2>2
      <3> QED
        BY <1>2, <3>1 DEF Linked
    <2> QED
      BY <2>1, <2>2
  <1>4. Linked'
    BY <1>1, <1>2, <1>3 DEF Linked
  <1>5. Head(tty') = IF tty = << >> THEN meter ELSE Head(tty)
    BY <1>1, HeadTailAppend
  <1> QED
    BY <1>2, <1>4, <1>5 DEF Coming

\* What is left when the first line is taken still follows line after line.
LEMMA TakeLinked ==
    ASSUME TypeOK, Linked, tty # << >>, tty' = Tail(tty), meter' = meter
    PROVE  Linked' /\ Coming = Head(tty) /\ Coming' = After(Head(tty))
  <1>1. /\ tty \in Seq(Token) /\ Len(tty) \in Nat \ {0} /\ Head(tty) = tty[1]
    BY EmptySeq DEF TypeOK
  <1>2. /\ tty' \in Seq(Token) /\ Len(tty') = Len(tty) - 1
        /\ \A i \in 1 .. Len(tty') : tty'[i] = tty[i + 1]
    BY <1>1, HeadTailProperties
  <1>3. Linked'
    <2>1. ASSUME NEW i \in 1 .. Len(tty') - 1 PROVE tty'[i + 1] = After(tty'[i])
      <3>1. i + 1 \in 1 .. Len(tty) - 1 /\ i \in 1 .. Len(tty') /\ i + 1 \in 1 .. Len(tty')
        BY <1>1, <1>2
      <3> QED
        BY <1>2, <3>1 DEF Linked
    <2>2. tty' # << >> => meter' = After(tty'[Len(tty')])
      <3> SUFFICES ASSUME tty' # << >> PROVE meter' = After(tty'[Len(tty')])
        OBVIOUS
      <3>1. Len(tty') \in 1 .. Len(tty')
        BY <1>2, EmptySeq
      <3>2. tty'[Len(tty')] = tty[Len(tty)]
        BY <1>1, <1>2, <3>1
      <3> QED
        BY <3>2 DEF Linked
    <2> QED
      BY <2>1, <2>2 DEF Linked
  <1>4. Coming' = After(tty[1])
    <2>1. CASE tty' = << >>
      <3>1. Len(tty') = 0
        BY <2>1, EmptySeq
      <3>2. Len(tty) = 1
        BY <1>1, <1>2, <3>1
      <3> QED
        BY <1>1, <2>1, <3>2 DEF Coming, Linked
    <2>2. CASE tty' # << >>
      <3>1. Len(tty') \in Nat \ {0} /\ Head(tty') = tty'[1]
        BY <1>2, <2>2, EmptySeq
      <3>2. tty'[1] = tty[2] /\ 1 \in 1 .. Len(tty) - 1
        BY <1>1, <1>2, <3>1
      <3> QED
        BY <2>2, <3>1, <3>2 DEF Coming, Linked
    <2> QED
      BY <2>1, <2>2
  <1> QED
    BY <1>1, <1>3, <1>4 DEF Coming

\* The line after one that is not the last of its telegram, and after the last.
LEMMA AfterLine ==
    ASSUME NEW t \in 0 .. Tags - 1, NEW i \in 0 .. Body + 1
    PROVE  After([tel |-> t, pos |-> i]) =
             IF i = Body + 1 THEN Opening(t + 1) ELSE [tel |-> t, pos |-> i + 1]
  BY DEF After, IsLast, Opening

\* A first line starts the list.
LEMMA FirstFlow ==
    ASSUME TypeOK, Flow, First, noise' = "yet"
    PROVE  Flow'
  <1>1. /\ pc = "sync" /\ tty # << >> /\ IsFirst(Head(tty))
        /\ tty' = Tail(tty) /\ p1' = Append(p1, Head(tty))
        /\ pc' = IF freed THEN "undefined" ELSE "body"
        /\ UNCHANGED <<meter, noise, up, restarts, freed, last>>
    BY DEF First, AppendLine, line
  <1>2. up /\ Linked /\ noise = "yet"
    BY <1>1 DEF Flow
  <1>3. Linked' /\ Coming = Head(tty) /\ Coming' = After(Head(tty))
    BY <1>1, <1>2, TakeLinked
  <1>4. CASE freed
    BY <1>1, <1>2, <1>3, <1>4 DEF Flow
  <1>5. CASE ~freed
    <2>1. p1 = << >> /\ Head(tty) \in Token /\ pc' = "body"
      BY <1>1, <1>2, <1>5, TakeType DEF Flow
    <2>2. Len(p1') = 1 /\ p1'[1] = Head(tty)
      BY <1>1, <2>1, EmptySeq, AppendProperties
    <2>3. Head(tty) = [tel |-> Head(tty).tel, pos |-> 0]
      BY <1>1, <2>1 DEF Token, IsFirst
    <2>4. Gathered'
      <3>1. ASSUME NEW i \in 1 .. 1 PROVE p1'[i] = [tel |-> p1'[1].tel, pos |-> i - 1]
        <4>1. i = 1 /\ i - 1 = 0
          OBVIOUS
        <4> QED
          BY <2>2, <2>3, <4>1
      <3>2. 1 \in 1 .. Body + 1
        BY LoopAssumption
      <3> QED
        BY <2>2, <3>1, <3>2 DEF Gathered
    <2>5. restarts /\ last # None => p1'[1].tel = (last + 1) % Tags
      BY <1>1, <1>2, <1>3, <2>2 DEF Flow, Opening
    <2> QED
      BY <1>1, <1>2, <1>3, <1>5, <2>1, <2>2, <2>4, <2>5 DEF Flow
  <1> QED
    BY <1>4, <1>5

\* A data line is the successor of the line taken before it.
LEMMA MoreFlow ==
    ASSUME TypeOK, Flow, More, noise' = "yet"
    PROVE  Flow'
  <1>1. /\ pc = "body" /\ tty # << >> /\ ~IsLast(Head(tty))
        /\ tty' = Tail(tty) /\ p1' = Append(p1, Head(tty))
        /\ pc' = IF freed THEN "undefined" ELSE "body"
        /\ UNCHANGED <<meter, noise, up, restarts, freed, last>>
    BY DEF More, AppendLine, line
  <1>2. up /\ Linked /\ noise = "yet" /\ ~freed /\ Gathered
    BY <1>1 DEF Flow
  <1>3. Linked' /\ Coming = Head(tty) /\ Coming' = After(Head(tty))
    BY <1>1, <1>2, TakeLinked
  <1> DEFINE k == Len(p1)
             t == p1[1].tel
  <1>4. k \in 1 .. Body + 1 /\ p1[k] = [tel |-> t, pos |-> k - 1] /\ t \in 0 .. Tags - 1
    <2>1. p1[1] \in Token
      BY <1>2, ElementOfSeq, LoopAssumption DEF Gathered, TypeOK
    <2> QED
      BY <1>2, <2>1, LoopAssumption DEF Gathered, Token
  <1>5. Head(tty) = [tel |-> t, pos |-> k]
    <2>1. k - 1 \in 0 .. Body + 1 /\ k - 1 # Body + 1 /\ (k - 1) + 1 = k
      BY <1>4, LoopAssumption
    <2>2. After([tel |-> t, pos |-> k - 1]) = [tel |-> t, pos |-> k]
      BY <1>4, <2>1, AfterLine
    <2> QED
      BY <1>1, <1>2, <1>3, <1>4, <2>2 DEF Flow
  <1>6. k \in 1 .. Body
    BY <1>1, <1>4, <1>5, LoopAssumption DEF IsLast
  <1>7. /\ Len(p1') = k + 1 /\ p1'[k + 1] = Head(tty)
        /\ \A i \in 1 .. k : p1'[i] = p1[i]
    BY <1>1, TakeType, AppendProperties DEF TypeOK
  <1>8. Gathered'
    <2>1. p1'[1].tel = t
      BY <1>4, <1>7
    <2>2. ASSUME NEW i \in 1 .. Len(p1') PROVE p1'[i] = [tel |-> t, pos |-> i - 1]
      <3>1. CASE i = k + 1
        BY <1>5, <1>6, <1>7, <3>1
      <3>2. CASE i # k + 1
        <4>1. i \in 1 .. k
          BY <1>6, <1>7, <3>2
        <4> QED
          BY <1>2, <1>7, <4>1 DEF Gathered
      <3> QED
        BY <3>1, <3>2
    <2>3. Len(p1') \in 1 .. Body + 1
      BY <1>6, <1>7, LoopAssumption
    <2> QED
      BY <2>1, <2>2, <2>3 DEF Gathered
  <1>9. p1'[1] = p1[1] /\ p1'[Len(p1')] = Head(tty)
    BY <1>4, <1>7
  <1> QED
    BY <1>1, <1>2, <1>3, <1>8, <1>9 DEF Flow

\* A last line completes the list.
LEMMA LastFlow ==
    ASSUME TypeOK, Flow, Last, noise' = "yet"
    PROVE  Flow'
  <1>1. /\ pc = "body" /\ tty # << >> /\ IsLast(Head(tty))
        /\ tty' = Tail(tty) /\ pc' = "process"
        /\ UNCHANGED <<meter, noise, up, restarts, freed, last, p1>>
    BY DEF Last, line
  <1>2. up /\ Linked /\ noise = "yet" /\ ~freed /\ Gathered
    BY <1>1 DEF Flow
  <1>3. Linked' /\ Coming = Head(tty) /\ Coming' = After(Head(tty))
    BY <1>1, <1>2, TakeLinked
  <1> DEFINE k == Len(p1)
             t == p1[1].tel
  <1>4. k \in 1 .. Body + 1 /\ p1[k] = [tel |-> t, pos |-> k - 1] /\ t \in 0 .. Tags - 1
    <2>1. p1[1] \in Token
      BY <1>2, ElementOfSeq, LoopAssumption DEF Gathered, TypeOK
    <2> QED
      BY <1>2, <2>1, LoopAssumption DEF Gathered, Token
  <1>5. Head(tty) = [tel |-> t, pos |-> k]
    <2>1. k - 1 \in 0 .. Body + 1 /\ k - 1 # Body + 1 /\ (k - 1) + 1 = k
      BY <1>4, LoopAssumption
    <2>2. After([tel |-> t, pos |-> k - 1]) = [tel |-> t, pos |-> k]
      BY <1>4, <2>1, AfterLine
    <2> QED
      BY <1>1, <1>2, <1>3, <1>4, <2>2 DEF Flow
  <1>6. k = Body + 1
    BY <1>1, <1>5 DEF IsLast
  <1>7. Coming' = Opening(t + 1)
    <2>1. Body + 1 \in 0 .. Body + 1
      BY LoopAssumption
    <2>2. After([tel |-> t, pos |-> Body + 1]) = Opening(t + 1)
      BY <1>4, <2>1, AfterLine
    <2> QED
      BY <1>3, <1>5, <1>6, <2>2
  <1>8. Gathered'
    BY <1>1, <1>2 DEF Gathered
  <1> QED
    BY <1>1, <1>2, <1>3, <1>6, <1>7, <1>8 DEF Flow

\* A complete list is handed over and the loop waits for the next telegram.
LEMMA ProcessFlow ==
    ASSUME TypeOK, Begun, Flow, Process
    PROVE  Flow'
  <1>1. /\ pc = "process" /\ pc' = "test" /\ last' = Head(p1).tel /\ p1' = << >>
        /\ UNCHANGED <<meter, noise, up, restarts, tty, freed>>
    BY DEF Process, line
  <1>2. Coming' = Coming /\ (Linked => Linked')
    BY <1>1 DEF Coming, Linked
  <1>3. Head(p1) = p1[1]
    BY <1>1, EmptySeq DEF TypeOK, Begun
  <1> QED
    BY <1>1, <1>2, <1>3 DEF Flow

\* A read that fails frees the list, so that no telegram continues it.
LEMMA FailFlow ==
    ASSUME Flow, Restarted, NEW error, Fail(error),
           pc \in {"sync", "body"}, restarts => error # "EINTR",
           pc = "body" => p1 # << >>,
           UNCHANGED <<line, tty>>
    PROVE  Flow'
  <1>1. /\ freed' = (freed \/ (pc = "body" /\ p1 # << >>))
        /\ pc' = IF error = "EINTR" THEN "test" ELSE "stopped"
        /\ UNCHANGED <<p1, last, meter, noise, up, restarts, tty>>
    BY DEF Fail, line
  <1>2. Linked => Linked'
    BY <1>1 DEF Linked
  <1>3. pc' = "test" => ~restarts /\ (~freed' => pc = "sync" /\ ~freed)
    BY <1>1
  <1> QED
    BY <1>1, <1>2, <1>3 DEF Flow

\* Every step keeps the order of the lines from the meter to the list.
LEMMA NextFlow ==
    ASSUME TypeOK, Begun, Restarted, Flow, [Next]_vars
    PROVE  Flow'
  <1>1. CASE Send
    <2>1. UNCHANGED <<noise, up, restarts, pc, p1, freed, last>> /\ up
      BY <1>1 DEF Send, loop
    <2>2. noise = "yet" => Linked' /\ Coming' = Coming
      BY <1>1, SendLinked DEF Flow
    <2>3. Gathered' = Gathered
      BY <2>1 DEF Gathered
    <2> QED
      BY <2>1, <2>2, <2>3 DEF Flow
  <1>2. CASE Lose \/ NoiseEnds
    BY <1>2 DEF Lose, NoiseEnds, Flow
  <1>3. CASE HangUp
    <2>1. /\ UNCHANGED <<noise, restarts, meter, pc, p1, freed, last>>
          /\ ~up' /\ tty' = << >>
      BY <1>3 DEF HangUp, loop
    <2>2. Linked'
      BY <2>1, EmptySeq DEF Linked
    <2>3. Gathered' = Gathered
      BY <2>1 DEF Gathered
    <2> QED
      BY <2>1, <2>2, <2>3 DEF Flow
  <1>4. CASE Test
    <2>1. /\ UNCHANGED <<noise, up, restarts, meter, tty, p1, freed, last>>
          /\ pc = "test" /\ pc' \in {"sync", "stopped"}
      BY <1>4 DEF Test, line
    <2>2. Linked' = Linked /\ Coming' = Coming
      BY <2>1 DEF Linked, Coming
    <2> QED
      BY <2>1, <2>2 DEF Flow
  <1>5. CASE Skip
    <2>1. /\ UNCHANGED <<noise, up, restarts, meter, pc, p1, freed, last>>
          /\ pc = "sync" /\ tty # << >> /\ ~IsFirst(Head(tty)) /\ tty' = Tail(tty)
      BY <1>5 DEF Skip, line, loop
    <2>2. up
      BY <2>1 DEF Flow
    <2>3. noise = "yet" => Linked' /\ Coming = Head(tty)
      BY <2>1, TakeLinked DEF Flow
    <2>4. noise = "yet" => ~(restarts /\ last # None)
      BY <2>1, <2>2, <2>3 DEF Flow, IsFirst, Opening
    <2> QED
      BY <2>1, <2>2, <2>3, <2>4 DEF Flow
  <1>6. CASE First \/ More \/ Last
    <2>1. noise' = noise /\ up' = up /\ (tty # << >>)
      BY <1>6 DEF First, More, Last, AppendLine, line
    <2>2. CASE noise = "yet"
      BY <1>6, <2>1, <2>2, FirstFlow, MoreFlow, LastFlow
    <2>3. CASE noise # "yet"
      BY <2>1, <2>3 DEF Flow
    <2> QED
      BY <2>2, <2>3
  <1>7. CASE Process
    BY <1>7, ProcessFlow
  <1>8. CASE ReadGone
    <2>1. PICK error \in {errno, "EIO"} : Fail(error)
      BY <1>8 DEF ReadGone
    <2>2. restarts => error # "EINTR"
      BY <2>1 DEF Restarted
    <2> QED
      BY <1>8, <2>1, <2>2, FailFlow DEF ReadGone, Begun
  <1>9. ASSUME NEW stops \in BOOLEAN, Signal(stops) PROVE Flow'
    <2>1. CASE Waiting /\ ~restarts /\ Fail("EINTR")
      <3>1. Fail("EINTR") /\ UNCHANGED <<line, tty>>
        BY <1>9, <2>1 DEF Signal
      <3>2. pc \in {"sync", "body"}
        BY <2>1 DEF Waiting
      <3> QED
        BY <2>1, <3>1, <3>2, FailFlow DEF Begun
    <2>2. CASE UNCHANGED <<pc, p1, freed, errno, last, late>>
      <3>1. UNCHANGED <<noise, up, restarts, meter, tty, pc, p1, freed, last>>
        BY <1>9, <2>2 DEF Signal, line
      <3>2. Linked' = Linked /\ Coming' = Coming /\ Gathered' = Gathered
        BY <3>1 DEF Linked, Coming, Gathered
      <3> QED
        BY <3>1, <3>2 DEF Flow
    <2> QED
      BY <1>9, <2>1, <2>2 DEF Signal
  <1>10. CASE UNCHANGED vars
    <2>1. UNCHANGED <<noise, up, restarts, meter, tty, pc, p1, freed, last>>
      BY <1>10 DEF vars, line, loop
    <2>2. Linked' = Linked /\ Coming' = Coming /\ Gathered' = Gathered
      BY <2>1 DEF Linked, Coming, Gathered
    <2> QED
      BY <2>1, <2>2 DEF Flow
  <1> QED
    BY <1>1, <1>2, <1>3, <1>4, <1>5, <1>6, <1>7, <1>8, <1>9, <1>10
       DEF Next, LoopStep, MeterStep

\* At the start no line has come and nothing is gathered.
LEMMA InitFlow == Init => Flow /\ Restarted
  <1> SUFFICES ASSUME Init PROVE Flow /\ Restarted
    OBVIOUS
  <1>1. up /\ tty = << >> /\ pc = "test" /\ p1 = << >> /\ last = None /\ errno = "none" /\ ~freed
    BY DEF Init
  <1>2. Linked
    BY <1>1, EmptySeq DEF Linked
  <1> QED
    BY <1>1, <1>2 DEF Flow, Restarted

\* What is handed over is one telegram, with all its lines and no line of another,
\* wherever the meter was at the start and whatever signals arrive.
THEOREM TelegramsWhole == Spec => []Whole
  <1> DEFINE Inv == TypeOK /\ Begun /\ Restarted /\ Flow
  <1>1. Init => Inv
    BY InitType, InitFlow
  <1>2. Inv /\ [Next]_vars => Inv'
    BY NextType, NextRestarted, NextFlow
  <1>3. Inv => Whole
    <2> SUFFICES ASSUME Inv, pc = "process", noise = "yet" PROVE IsTelegram(p1)
      BY DEF Whole
    <2>1. Gathered /\ Len(p1) = Body + 1 /\ p1 \in Seq(Token) /\ p1 # << >>
      BY DEF Flow, TypeOK, Begun
    <2>2. p1 \in [1 .. Body + 1 -> Token] /\ Head(p1) = p1[1]
      BY <2>1, LenProperties, EmptySeq
    <2>3. \A i \in 1 .. Body + 1 : p1[i] = [tel |-> Head(p1).tel, pos |-> i - 1]
      BY <2>1, <2>2 DEF Gathered
    <2> QED
      BY <2>2, <2>3 DEF IsTelegram
  <1> QED
    BY <1>1, <1>2, <1>3, PTL DEF Spec

\* The telegrams handed over follow one another in the order of the meter, none
\* skipped and none twice, where signals restart reads.
THEOREM TelegramsInOrder == Spec => InOrder
  <1> DEFINE Inv == TypeOK /\ Begun /\ Restarted /\ Flow
             Ordered == last' # last /\ last # None /\ noise = "yet" /\ restarts =>
                            last' = (last + 1) % Tags
  <1>1. Init => Inv
    BY InitType, InitFlow
  <1>2. Inv /\ [Next]_vars => Inv'
    BY NextType, NextRestarted, NextFlow
  <1>3. Inv /\ [Next]_vars => [Ordered]_vars
    <2> SUFFICES ASSUME Inv, [Next]_vars, last' # last, last # None, noise = "yet", restarts
                 PROVE  last' = (last + 1) % Tags
      OBVIOUS
    <2>1. Process
      BY DEF Next, LoopStep, MeterStep, Send, Lose, NoiseEnds, HangUp, Test, Skip, First,
             More, AppendLine, Last, ReadGone, Signal, Fail, loop, vars
    <2>2. Head(p1) = p1[1]
      BY <2>1, EmptySeq DEF Process, TypeOK, Begun
    <2> QED
      BY <2>1, <2>2 DEF Process, Flow
  <1> QED
    BY <1>1, <1>2, <1>3, PTL DEF Spec, InOrder
=============================================================================
