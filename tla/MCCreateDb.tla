----------------------------- MODULE MCCreateDb -----------------------------
(***************************************************************************)
(* Configurations with two databases of current values and one of totals:  *)
(* with a counter the tool makes no table for and entries that are not     *)
(* counters, with a list and without a group, without current counters and *)
(* with counters that share a table, and with counters that share an       *)
(* identifier.                                                             *)
(***************************************************************************)
EXTENDS CreateDb

String(s) == Setting("string", s)
Group(g) == Setting("group", g)
List(l) == Setting("list", l)
Id(a, b) == <<a, ".", b>>
Entry(id) == [description |-> String("text"), id |-> String(id)]

Files == [raw_db |-> String("raw"), hourly_avg |-> String("hourly"),
          total_consumed |-> String("totals")]
Current == [current_consumption_id |-> String(Id("1", "7"))]
Totals(consumption, production) ==
    [consumption |-> Group(consumption), production |-> Group(production)]

MCConfigurations ==
    { Files @@ Current
        @@ [other_raw_counters |-> Setting("array", <<String(Id("32", "7")), Setting("int", 1)>>)]
        @@ Totals(<< [id |-> String(Id("9", "9"))],
                     [description |-> String("text"), id |-> Setting("int", 18)] >>,
                  << >>)
        @@ [gascounter |-> Group([id |-> String(Id("24", "3"))])],
      Files @@ Current @@ [consumption |-> List(<<Entry(Id("1", "8")), [nothing |-> String("text")]>>)],
      Files @@ Totals(<<Entry(Id("1", "8")), Entry(<<"1", "_", "8">>)>>, << >>),
      Files @@ Totals(<<Entry(Id("1", "8"))>>, <<Entry(Id("2", "8"))>>),
      Files @@ Current @@ [current_production_id |-> String(Id("1", "7"))]
        @@ Totals(<< >>, << >>) }
=============================================================================
