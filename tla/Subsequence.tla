---------------------------- MODULE Subsequence ----------------------------
(***************************************************************************)
(* The elements of a sequence at some of its positions, in their order:    *)
(* what a WHERE clause or a loop that skips entries leaves.  SelectSeq of  *)
(* the standard modules takes a test instead of the positions, which keeps *)
(* the provers from reasoning about it.                                    *)
(***************************************************************************)
EXTENDS Integers, Sequences

ElementsAt(s, positions) ==
    LET upTo[n \in 0 .. Len(s)] ==
            IF n = 0 THEN << >>
            ELSE IF n \in positions THEN Append(upTo[n - 1], s[n])
            ELSE upTo[n - 1]
    IN  upTo[Len(s)]
=============================================================================
