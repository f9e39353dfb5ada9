----------------------------- MODULE MCMeasure -----------------------------
(***************************************************************************)
(* Small instances of Measure for TLC.  The times keep the order of the    *)
(* code's: the five-minute interval is half the hour, the total interval   *)
(* lies between them, and the clock starts later than any interval.        *)
(***************************************************************************)
EXTENDS Measure

CONSTANTS power, extra, gas

\* extra is listed under other_raw_counters although gas has the same id
MCRaw == {power, extra}
MCOneRaw == {power}
MCTotal == {gas}
MCIdOf == [c \in Counters |-> IF c = power THEN "power" ELSE "gas"]
MCIds == {"power", "gas", "unknown"}

Line(id, value) == [id |-> id, value |-> value]

\* a complete telegram, and one that repeats one counter and lacks the other
MCAnyTelegrams ==
    { <<Line("power", 1), Line("gas", 2)>>, <<Line("power", 2), Line("power", 1)>> }

\* every telegram has every counter, in either order, and maybe a reading that
\* no counter is configured for
MCCompleteTelegrams ==
    { <<Line("power", 1), Line("gas", 2)>>,
      <<Line("gas", 1), Line("unknown", 1), Line("power", 2)>> }

\* a line of the second telegram was lost
MCIncompleteTelegrams ==
    { <<Line("power", 1), Line("gas", 2)>>, <<Line("power", 2)>> }

=============================================================================
