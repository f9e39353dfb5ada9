----------------------------- MODULE MCP1Parser -----------------------------
(***************************************************************************)
(* Telegrams of up to MaxLines lines, in every order, made of one line of  *)
(* each kind the parser distinguishes.  The numbers tell the lines apart.  *)
(***************************************************************************)
EXTENDS P1Parser

CONSTANTS MaxLines

ALine(form, id, field, value, paren, long) ==
    [form |-> form, id |-> id, field |-> field, value |-> value,
     paren |-> paren, long |-> long]

MCIds == {"gas", "power"}
MCValues == 0 .. 6

Simple == ALine("simple", "power", "number", 1, 1, FALSE)
Extended == ALine("extended", "power", "number", 2, 3, FALSE)
Text == ALine("simple", "power", "text", 0, 0, FALSE)
Oversize == ALine("simple", "power", "oversize", 0, 4, TRUE)
Header == ALine("simple", "gas", "text", 0, 0, FALSE)
LongHeader == ALine("extended", "gas", "number", 5, 6, FALSE)
Value == ALine("paren", "gas", "number", 4, 4, FALSE)
Blank == ALine("other", "gas", "text", 0, 0, FALSE)

MCLines == {Simple, Extended, Text, Oversize, Header, LongHeader, Value, Blank}
MCTelegrams == UNION {[1 .. n -> Lines] : n \in 1 .. MaxLines}
=============================================================================
