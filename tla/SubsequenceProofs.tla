------------------------- MODULE SubsequenceProofs -------------------------
(***************************************************************************)
(* What ElementsAt returns: a sequence of the same elements that grows at  *)
(* its end as the sequence does.  The library's induction theorems take a  *)
(* predicate, so induction is done on sets of numbers instead: a set that  *)
(* lacks a number lacks a least one.                                       *)
(***************************************************************************)
EXTENDS Subsequence, SequenceTheorems, WellFoundedInduction, TLAPS

\* Every set of numbers has a least element.
LEMMA Least ==
    ASSUME NEW S \in SUBSET Nat, S # {}
    PROVE  \E n \in S : \A m \in S : n <= m
  <1>1. PICK n \in S : \A m \in S : ~(<<m, n>> \in OpToRel(<, Nat))
    BY NatLessThanWellFounded, WFMin
  <1>2. ASSUME NEW m \in S PROVE n <= m
    <2>1. <<m, n>> \in Nat \X Nat /\ <<m, n>>[1] = m /\ <<m, n>>[2] = n
      OBVIOUS
    <2>2. ~(m < n)
      BY <1>1, <2>1 DEF OpToRel
    <2> QED
      BY <2>2
  <1> QED
    BY <1>2

\* Induction up to N.
LEMMA InductionTo ==
    ASSUME NEW N \in Nat, NEW S, 0 \in S, \A n \in 0 .. N - 1 : n \in S => n + 1 \in S
    PROVE  0 .. N \subseteq S
  <1> SUFFICES ASSUME ~(0 .. N \subseteq S) PROVE FALSE
    OBVIOUS
  <1>1. (0 .. N) \ S \in SUBSET Nat /\ (0 .. N) \ S # {}
    OBVIOUS
  <1>2. PICK n \in (0 .. N) \ S : \A m \in (0 .. N) \ S : n <= m
    BY <1>1, Least
  <1>3. n # 0 /\ n - 1 \in 0 .. N - 1 /\ ~(n <= n - 1)
    BY <1>2
  <1>4. n - 1 \in S
    BY <1>2, <1>3
  <1> QED
    BY <1>2, <1>3, <1>4

-----------------------------------------------------------------------------
(***************************************************************************)
(* upTo, the function ElementsAt is defined with, exists and is a function *)
(* from numbers to sequences.                                              *)
(***************************************************************************)
Step(f, s, positions, n) ==
    IF n = 0 THEN << >>
    ELSE IF n \in positions THEN Append(f[n - 1], s[n])
    ELSE f[n - 1]
UpTo(s, positions) == CHOOSE f : f = [n \in 0 .. Len(s) |-> Step(f, s, positions, n)]
Solves(f, s, positions, m) == \A n \in 0 .. m : f[n] = Step(f, s, positions, n)

\* ElementsAt is the last value of upTo.
LEMMA IsUpTo ==
    ASSUME NEW s, NEW positions
    PROVE  ElementsAt(s, positions) = UpTo(s, positions)[Len(s)]
  BY DEF ElementsAt, UpTo, Step

\* A solution can be continued by one number.
LEMMA Continued ==
    ASSUME NEW E, NEW s \in Seq(E), NEW positions, NEW m \in 0 .. Len(s) - 1,
           NEW f \in [0 .. m -> Seq(E)], Solves(f, s, positions, m)
    PROVE  \E g \in [0 .. m + 1 -> Seq(E)] : Solves(g, s, positions, m + 1)
  <1> DEFINE x == Step(f, s, positions, m + 1)
             g == [n \in 0 .. m + 1 |-> IF n <= m THEN f[n] ELSE x]
  <1>1. m \in Nat /\ m + 1 \in 1 .. Len(s) /\ s[m + 1] \in E /\ f[m] \in Seq(E)
    BY LenProperties, ElementOfSeq
  <1>2. (m + 1) - 1 = m
    BY <1>1
  <1>3. x \in Seq(E)
    BY <1>1, <1>2, AppendProperties DEF Step
  <1>4. g \in [0 .. m + 1 -> Seq(E)]
    <2> HIDE DEF x
    <2> QED
      BY <1>1, <1>3
  <1>5. ASSUME NEW n \in 0 .. m PROVE g[n] = Step(g, s, positions, n)
    <2>1. f[n] = Step(f, s, positions, n) /\ g[n] = f[n]
      BY <1>1, <1>5 DEF Solves
    <2>2. n = 0 \/ g[n - 1] = f[n - 1]
      BY <1>1, <1>5
    <2> HIDE DEF g
    <2> QED
      BY <2>1, <2>2 DEF Step
  <1>6. g[m + 1] = Step(g, s, positions, m + 1)
    <2>1. g[m + 1] = x /\ g[m] = f[m]
      BY <1>1
    <2> HIDE DEF g
    <2> QED
      BY <1>1, <1>2, <2>1 DEF Step
  <1>7. Solves(g, s, positions, m + 1)
    <2> HIDE DEF g
    <2> QED
      BY <1>1, <1>5, <1>6 DEF Solves
  <1> QED
    BY <1>4, <1>7

\* A solution has sequences of the same elements for values.
LEMMA SolvesType ==
    ASSUME NEW E, NEW s \in Seq(E), NEW positions, NEW f,
           Solves(f, s, positions, Len(s))
    PROVE  \A n \in 0 .. Len(s) : f[n] \in Seq(E)
  <1> DEFINE S == {n \in 0 .. Len(s) : f[n] \in Seq(E)}
  <1>1. Len(s) \in Nat
    BY LenProperties
  <1>2. 0 \in S
    <2>1. 0 \in 0 .. Len(s)
      BY <1>1
    <2>2. f[0] = << >>
      BY <2>1 DEF Solves, Step
    <2> QED
      BY <2>1, <2>2, EmptySeq
  <1>3. ASSUME NEW n \in 0 .. Len(s) - 1, n \in S PROVE n + 1 \in S
    <2>1. n + 1 \in 1 .. Len(s) /\ (n + 1) - 1 = n /\ n + 1 # 0 /\ s[n + 1] \in E
      BY <1>1, ElementOfSeq
    <2>2. f[n + 1] = Step(f, s, positions, n + 1) /\ f[n] \in Seq(E)
      BY <1>3, <2>1 DEF Solves
    <2>3. f[n + 1] \in Seq(E)
      BY <2>1, <2>2, AppendProperties DEF Step
    <2> QED
      BY <2>1, <2>3
  <1> HIDE DEF S
  <1>4. 0 .. Len(s) \subseteq S
    BY <1>1, <1>2, <1>3, InductionTo
  <1> QED
    BY <1>4 DEF S

\* upTo is what the recursion says.
LEMMA UpToDefined ==
    ASSUME NEW E, NEW s \in Seq(E), NEW positions
    PROVE  /\ Solves(UpTo(s, positions), s, positions, Len(s))
           /\ UpTo(s, positions) \in [0 .. Len(s) -> Seq(E)]
  <1> DEFINE Solved == {m \in 0 .. Len(s) :
                          \E f \in [0 .. m -> Seq(E)] : Solves(f, s, positions, m)}
             f0 == [n \in 0 .. 0 |-> << >>]
             F(f) == [n \in 0 .. Len(s) |-> Step(f, s, positions, n)]
  <1>1. Len(s) \in Nat
    BY LenProperties
  <1>2. 0 \in Solved
    <2>1. f0 \in [0 .. 0 -> Seq(E)]
      BY EmptySeq
    <2>2. Solves(f0, s, positions, 0)
      BY DEF Solves, Step
    <2>3. 0 \in 0 .. Len(s)
      BY <1>1
    <2> HIDE DEF f0
    <2>4. \E f \in [0 .. 0 -> Seq(E)] : Solves(f, s, positions, 0)
      BY <2>1, <2>2
    <2> QED
      BY <2>3, <2>4
  <1>3. ASSUME NEW m \in 0 .. Len(s) - 1, m \in Solved
        PROVE  m + 1 \in Solved
    <2>1. m + 1 \in 0 .. Len(s)
      BY <1>1
    <2>2. PICK f \in [0 .. m -> Seq(E)] : Solves(f, s, positions, m)
      BY <1>3
    <2> QED
      BY <2>1, <2>2, Continued
  <1>4. Len(s) \in Solved
    <2> HIDE DEF Solved
    <2>1. \A m \in 0 .. Len(s) - 1 : m \in Solved => m + 1 \in Solved
      BY <1>3
    <2>2. 0 .. Len(s) \subseteq Solved
      BY <1>1, <1>2, <2>1, InductionTo
    <2> QED
      BY <1>1, <2>2
  <1>5. PICK f \in [0 .. Len(s) -> Seq(E)] : Solves(f, s, positions, Len(s))
    BY <1>4
  <1>6. f = F(f)
    BY <1>5 DEF Solves
  <1>7. UpTo(s, positions) = F(UpTo(s, positions))
    BY <1>6 DEF UpTo
  <1>8. Solves(UpTo(s, positions), s, positions, Len(s))
    BY <1>7 DEF Solves
  <1>9. \A n \in 0 .. Len(s) : UpTo(s, positions)[n] \in Seq(E)
    BY <1>8, SolvesType
  <1> QED
    BY <1>7, <1>8, <1>9

-----------------------------------------------------------------------------
(***************************************************************************)
(* What users of ElementsAt need to know                                   *)
(***************************************************************************)

\* A sequence of the same elements.
LEMMA ElementsAreOfIt ==
    ASSUME NEW E, NEW s \in Seq(E), NEW positions
    PROVE  ElementsAt(s, positions) \in Seq(E)
  BY UpToDefined, IsUpTo, LenProperties

\* Nothing of nothing.
LEMMA NothingOfNothing ==
    ASSUME NEW positions
    PROVE  ElementsAt(<< >>, positions) = << >>
  <1>1. << >> \in Seq({}) /\ Len(<< >>) = 0
    OBVIOUS
  <1>2. Solves(UpTo(<< >>, positions), << >>, positions, 0)
    BY <1>1, UpToDefined
  <1>3. UpTo(<< >>, positions)[0] = Step(UpTo(<< >>, positions), << >>, positions, 0)
    BY <1>2 DEF Solves
  <1> QED
    BY <1>1, <1>3, IsUpTo DEF Step

\* Positions that the same prefix of two sequences has in common give the same.
LEMMA SamePrefix ==
    ASSUME NEW E, NEW s \in Seq(E), NEW t \in Seq(E), NEW I, NEW J,
           NEW N \in 0 .. Len(s), N <= Len(t),
           \A n \in 1 .. N : s[n] = t[n] /\ (n \in I <=> n \in J)
    PROVE  UpTo(s, I)[N] = UpTo(t, J)[N]
  <1> DEFINE f == UpTo(s, I)
             g == UpTo(t, J)
             S == {n \in 0 .. N : f[n] = g[n]}
  <1>1. N \in Nat /\ Len(s) \in Nat /\ Len(t) \in Nat
    BY LenProperties
  <1>2. \A n \in 0 .. N : /\ f[n] = Step(f, s, I, n)
                          /\ g[n] = Step(g, t, J, n)
    BY <1>1, UpToDefined DEF Solves
  <1> HIDE DEF f, g
  <1>3. 0 \in S
    <2>1. 0 \in 0 .. N
      BY <1>1
    <2>2. f[0] = Step(f, s, I, 0) /\ g[0] = Step(g, t, J, 0)
      BY <1>2, <2>1
    <2> QED
      BY <2>1, <2>2 DEF Step
  <1>4. ASSUME NEW n \in 0 .. N - 1, n \in S PROVE n + 1 \in S
    <2>1. n + 1 \in 1 .. N /\ (n + 1) - 1 = n /\ n + 1 # 0
      BY <1>1
    <2>2. f[n] = g[n] /\ s[n + 1] = t[n + 1] /\ (n + 1 \in I <=> n + 1 \in J)
      BY <1>4, <2>1
    <2>3. f[n + 1] = g[n + 1]
      BY <1>2, <2>1, <2>2 DEF Step
    <2> QED
      BY <2>1, <2>3
  <1> HIDE DEF S
  <1>5. 0 .. N \subseteq S
    BY <1>1, <1>3, <1>4, InductionTo
  <1> QED
    BY <1>1, <1>5 DEF S, f, g

\* A sequence that grows at its end leaves what it left, and its new element.
LEMMA ElementsAppend ==
    ASSUME NEW E, NEW s \in Seq(E), NEW x \in E, NEW I, NEW J,
           \A n \in 1 .. Len(s) : n \in I <=> n \in J
    PROVE  ElementsAt(Append(s, x), J) =
               IF Len(s) + 1 \in J THEN Append(ElementsAt(s, I), x) ELSE ElementsAt(s, I)
  <1> DEFINE t == Append(s, x)
  <1>1. /\ Len(s) \in Nat /\ t \in Seq(E) /\ Len(t) = Len(s) + 1 /\ t[Len(s) + 1] = x
        /\ \A n \in 1 .. Len(s) : t[n] = s[n]
    BY LenProperties, AppendProperties
  <1> HIDE DEF t
  <1>2. UpTo(t, J)[Len(s) + 1] = Step(UpTo(t, J), t, J, Len(s) + 1)
    BY <1>1, UpToDefined DEF Solves
  <1>3. UpTo(s, I)[Len(s)] = UpTo(t, J)[Len(s)]
    BY <1>1, SamePrefix
  <1>4. (Len(s) + 1) - 1 = Len(s) /\ Len(s) + 1 # 0
    BY <1>1
  <1>5. ElementsAt(t, J) = UpTo(t, J)[Len(s) + 1] /\ ElementsAt(s, I) = UpTo(s, I)[Len(s)]
    BY <1>1, IsUpTo
  <1> QED
    BY <1>1, <1>2, <1>3, <1>4, <1>5 DEF Step, t
=============================================================================
