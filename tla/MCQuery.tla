------------------------------ MODULE MCQuery ------------------------------
(***************************************************************************)
(* Two counters (rows are inserted in either order, so one order of reading *)
(* is enough), and one the database does not have.                         *)
(***************************************************************************)
EXTENDS Query

MCTables == {"1.7.0", "2.7.0"}
MCSelections == { <<"1.7.0", "2.7.0">>, <<"1.7.0", "24.3.0">> }
=============================================================================
