------------------------------- MODULE Config -------------------------------
(***************************************************************************)
(* What the programs read from their configuration                         *)
(* (src/meterd_config.c).  A group of settings is a function from the      *)
(* names that are there to settings, a setting a type and a value; the     *)
(* value of a group or a list of groups is the sequence of its members, of *)
(* which one that is no group is a group of nothing.  A setting of another *)
(* type than the one asked for counts as absent.                           *)
(*                                                                         *)
(* An identifier is a sequence of its parts, dots among them.              *)
(***************************************************************************)
EXTENDS Integers, Sequences, FiniteSets, Subsequence

Setting(type, value) == [type |-> type, value |-> value]

\* config_lookup_* of libconfig
Has(group, name, type) == name \in DOMAIN group /\ group[name].type = type

\* meterd_conf_get_int, _bool and _string
Get(group, name, type, default) ==
    IF Has(group, name, type) THEN group[name].value ELSE default

\* config_lookup and config_setting_get_elem, on a group or a list (what other
\* settings hold has no members that could be asked for)
Members(group, name) ==
    IF Has(group, name, "group") \/ Has(group, name, "list") THEN group[name].value ELSE << >>

\* meterd_conf_get_string_array: an element that is not a string is an empty one
StringArray(group, name) ==
    LET elements == Get(group, name, "array", << >>)
    IN  [i \in DOMAIN elements |-> Get(elements, i, "string", << >>)]

CounterTypes == {"raw", "consumed", "produced"}

\* meterd_conf_create_table_name: a prefix for the type, and no dots
TableName(id, type) ==
    <<type>> \o [i \in DOMAIN id |-> IF id[i] = "." THEN "_" ELSE id[i]]

CounterSpec(id, type) == [id |-> id, type |-> type, table |-> TableName(id, type)]

\* meterd_conf_get_counter_specs: entries without a description or an id are
\* left out; a setting that is not there is an error, which only HasGroup sees
HasGroup(group, name) == name \in DOMAIN group
CounterSpecs(group, name, type) ==
    LET Usable(entry) == Has(entry, "description", "string") /\ Has(entry, "id", "string")
        all == Members(group, name)
        entries == ElementsAt(all, {k \in DOMAIN all : Usable(all[k])})
    IN  [i \in DOMAIN entries |-> CounterSpec(entries[i].id.value, type)]

\* strncasecmp with "cmd", of the names that occur in the models
IsCommand(name) == name \in {"cmd", "cmd1", "CMD2"}
Commands(task) == {name \in DOMAIN task : IsCommand(name) /\ task[name].type = "string"}

\* meterd_conf_get_scheduled_tasks: a task has a description, an interval that
\* is positive and at least one command, or is left out
ScheduledTasks(conf) ==
    LET Usable(task) ==
            /\ Has(task, "description", "string")
            /\ Get(task, "interval", "int", 0) > 0
            /\ Commands(task) # {}
        all == Members(conf, "tasks")
        usable == ElementsAt(all, {k \in DOMAIN all : Usable(all[k])})
    IN  [i \in DOMAIN usable |-> [interval |-> usable[i].interval.value,
                                  num_cmds |-> Cardinality(Commands(usable[i]))]]
=============================================================================
