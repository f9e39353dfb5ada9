------------------------------ MODULE MCDaemon ------------------------------
(***************************************************************************)
(* The tasks of a configuration file, as Config reads it: two of six are   *)
(* usable, one of two commands and one of one.                             *)
(***************************************************************************)
EXTENDS Daemon, Config

String == Setting("string", "text")
Seconds(n) == Setting("int", n)

MCTaskGroups ==
    << [description |-> String, interval |-> Seconds(1), cmd |-> String, cmd1 |-> String],
       [description |-> String, interval |-> Seconds(1), cmd |-> Setting("int", 1)],
       [description |-> String, interval |-> Seconds(0), cmd |-> String],
       [interval |-> Seconds(1), cmd |-> String],
       [description |-> String, interval |-> String, cmd |-> String],
       [description |-> String, interval |-> Seconds(2), CMD2 |-> String, note |-> String] >>

MCTasks == ScheduledTasks([tasks |-> Setting("list", MCTaskGroups)])
MCMaxTasks == Len(MCTasks)
MCInterval == [t \in DOMAIN MCTasks |-> MCTasks[t].interval]
MCNumCmds == [t \in DOMAIN MCTasks |-> MCTasks[t].num_cmds]
=============================================================================
