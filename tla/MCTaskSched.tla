---------------------------- MODULE MCTaskSched ----------------------------
(***************************************************************************)
(* Two tasks, one of two commands and one of one.                          *)
(***************************************************************************)
EXTENDS TaskSched

MCInterval == <<2, 3>>
MCNumCmds == <<2, 1>>
=============================================================================
