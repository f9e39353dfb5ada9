------------------------------ MODULE CreateDb ------------------------------
(***************************************************************************)
(* The database creation tool (src/meterd_createdb.c with                  *)
(* meterd_db_create and meterd_db_create_tables of src/db.c): the          *)
(* databases of four types are made one after the other and the first      *)
(* error ends the run.  Any call may fail, the tool may be killed between  *)
(* two of them and be run again, with or without -f, and the daemon        *)
(* records in what it finds.                                               *)
(*                                                                         *)
(* A database is made by a list of statements: CREATE TABLE CONFIGURATION, *)
(* then for each counter its entry in CONFIGURATION and its table.  Each   *)
(* takes effect by itself and only on top of those before it, so a file is *)
(* described by how many of them it has seen.                              *)
(***************************************************************************)
EXTENDS Config, SequencesExt

CONSTANTS
    Configurations, \* what the group "database" of the configuration may say
    Paths           \* files

Types == << "raw_db", "fivemin_avg", "hourly_avg", "total_consumed" >>
TypeNames == ToSet(Types)

\* what a list or an array holds has an order
IsList(value) == Len(value) \in Nat /\ value = [k \in 1 .. Len(value) |-> value[k]]

ASSUME CreateDbAssumption ==
    \A c \in Configurations :
        /\ \A t1 \in TypeNames : Has(c, t1, "string") =>
              /\ c[t1].value \in Paths
              \* every type has a file of its own
              /\ \A t2 \in TypeNames :
                    Has(c, t2, "string") /\ c[t1].value = c[t2].value => t1 = t2
        /\ \A name \in {"consumption", "production"} :
              Has(c, name, "group") \/ Has(c, name, "list") => IsList(c[name].value)
        /\ Has(c, "other_raw_counters", "array") => IsList(c["other_raw_counters"].value)

VARIABLES
    conf,           \* the configuration
    locked,         \* files in a directory the tool may not write
    unreadable,     \* existing files the tool may not open
    made,           \* the statements each file has seen, Absent if it does not exist
    rows,           \* files in which there are readings
    pc,             \* "idle", "type", "open", "tables"
    force,          \* force_overwrite of this run
    n,              \* the type at hand
    outcome,        \* what the last run logged: "none", "errors" or "finished"
    torn            \* history: files that were being made when a run was killed

fixed == <<conf, locked>>
disk == <<unreadable, made, rows>>
run == <<pc, force, n, outcome>>
vars == <<fixed, disk, run, torn>>

Absent == -1
PathOf(type) == conf[type].value
Path == PathOf(Types[n])
IsRaw(type) == type # "total_consumed"

CurrentCounter(name) ==
    IF Has(conf, name, "string") THEN <<CounterSpec(conf[name].value, "raw")>> ELSE << >>
CurrentCounters ==
    CurrentCounter("current_consumption_id") \o CurrentCounter("current_production_id")
Gas == Get(conf, "gascounter", "group", << >>)
GasCounter(type) ==
    IF Has(Gas, "id", "string") THEN <<CounterSpec(Gas.id.value, type)>> ELSE << >>

\* mutant: the gas counter has a table of another type
ToolCountersGasRaw(type) ==
    IF IsRaw(type) THEN CurrentCounters
    ELSE CounterSpecs(conf, "consumption", "consumed")
         \o CounterSpecs(conf, "production", "produced") \o GasCounter("raw")

\* the counters a database of this type is made for
ToolCounters(type) ==
    IF IsRaw(type) THEN CurrentCounters
    ELSE CounterSpecs(conf, "consumption", "consumed")
         \o CounterSpecs(conf, "production", "produced") \o GasCounter("consumed")

\* the counters meterd_measure_init registers for it
OtherRawCounters ==
    LET ids == StringArray(conf, "other_raw_counters")
    IN  [i \in DOMAIN ids |-> CounterSpec(ids[i], "raw")]
DaemonCounters(type) ==
    IF IsRaw(type) THEN CurrentCounters \o OtherRawCounters
    ELSE CounterSpecs(conf, "consumption", "consumed")
         \o CounterSpecs(conf, "production", "produced") \o GasCounter("consumed")

\* there is nothing to make: no file or no counters
Nothing(type) == ~Has(conf, type, "string") \/ (IsRaw(type) /\ CurrentCounters = << >>)

\* CREATE TABLE CONFIGURATION, and for counter i INSERT (2i) and CREATE TABLE (2i + 1)
Statements(type) == 1 + 2 * Len(ToolCounters(type))
Complete(type) == made[PathOf(type)] = Statements(type)
Tables(type) ==
    {ToolCounters(type)[i].table :
        i \in {i \in DOMAIN ToolCounters(type) : 2 * i + 1 <= made[PathOf(type)]}}

\* the statement repeats a primary key or the name of a table
Clashes(type, statement) ==
    LET counters == ToolCounters(type)
        i == statement \div 2
    IN  \E j \in 1 .. i - 1 :
            IF statement % 2 = 0 THEN counters[j].id = counters[i].id
                                 ELSE counters[j].table = counters[i].table
ClashFree(type) == \A k \in 1 .. Statements(type) : ~Clashes(type, k)

\* before the first run a database is absent or complete
Init ==
    /\ conf \in Configurations
    /\ locked \in SUBSET Paths
    /\ \E old \in SUBSET {type \in TypeNames : ~Nothing(type) /\ ClashFree(type)} :
          LET oldFiles == {PathOf(type) : type \in old} IN
          /\ made = [p \in Paths |-> IF p \in oldFiles
                THEN Statements(CHOOSE type \in old : PathOf(type) = p) ELSE Absent]
          /\ unreadable \in SUBSET oldFiles
          /\ rows \in SUBSET oldFiles
    /\ pc = "idle"
    /\ force = FALSE
    /\ n = 0
    /\ outcome = "none"
    /\ torn = {}

\* the daemon records in a database that has the table of one of its counters
Record(type) ==
    /\ ~Nothing(type)
    /\ \E c \in ToSet(DaemonCounters(type)) : c.table \in Tables(type)
    /\ rows' = rows \cup {PathOf(type)}
    /\ UNCHANGED <<fixed, unreadable, made, run, torn>>

-----------------------------------------------------------------------------
(***************************************************************************)
(* A run of the tool                                                       *)
(***************************************************************************)
Start(f) ==
    /\ pc = "idle"
    /\ pc' = "type"
    /\ force' = f
    /\ n' = 1
    /\ outcome' = "none"
    /\ UNCHANGED <<fixed, disk, torn>>

NextType == pc' = "type" /\ n' = n + 1 /\ UNCHANGED <<force, outcome>>
Errors == pc' = "idle" /\ outcome' = "errors" /\ UNCHANGED <<force, n>>

\* the result of unlink is not looked at
Unlink(p) ==
    IF p \in locked THEN UNCHANGED <<disk, torn>>
    ELSE /\ made' = [made EXCEPT ![p] = Absent]
         /\ unreadable' = unreadable \ {p}
         /\ rows' = rows \ {p}
         /\ torn' = torn \ {p}

Finish ==
    /\ pc = "type" /\ n > Len(Types)
    /\ pc' = "idle"
    /\ outcome' = "finished"
    /\ UNCHANGED <<fixed, disk, force, n, torn>>

AtType == pc = "type" /\ n <= Len(Types)

Skip ==
    /\ AtType /\ Nothing(Types[n])
    /\ NextType
    /\ UNCHANGED <<fixed, disk, torn>>

\* a value that cannot be read, or no memory
ConfigurationFails ==
    /\ AtType
    /\ Errors
    /\ UNCHANGED <<fixed, disk, torn>>

Groups == HasGroup(conf, "consumption") /\ HasGroup(conf, "production")

\* without both groups meterd_createdb_counters has failed before it gets here
ToCreate == AtType /\ ~Nothing(Types[n]) /\ (IsRaw(Types[n]) \/ Groups)

\* meterd_db_exists: fopen succeeds
Exists(p) == made[p] # Absent /\ p \notin unreadable

Refuse ==
    /\ ToCreate
    /\ ~force /\ Exists(Path)
    /\ Errors
    /\ UNCHANGED <<fixed, disk, torn>>

\* mutant: whatever is in the way is deleted
DeleteAlways ==
    /\ ToCreate
    /\ Unlink(Path)
    /\ pc' = "open"
    /\ UNCHANGED <<fixed, force, n, outcome>>

Delete ==
    /\ ToCreate
    /\ force \/ ~Exists(Path)
    /\ Unlink(Path)
    /\ pc' = "open"
    /\ UNCHANGED <<fixed, force, n, outcome>>

\* a file that is not there is made, empty
Open ==
    /\ pc = "open"
    /\ Path \notin unreadable
    /\ Path \in locked => made[Path] # Absent
    /\ made' = [made EXCEPT ![Path] = IF @ = Absent THEN 0 ELSE @]
    /\ pc' = "tables"
    /\ UNCHANGED <<fixed, unreadable, rows, force, n, outcome, torn>>

OpenFails ==
    /\ pc = "open"
    /\ Errors
    /\ UNCHANGED <<fixed, disk, torn>>

\* mutant: one statement too many
ExecuteTooMany ==
    /\ pc = "tables"
    /\ Path \notin locked
    /\ made[Path] <= Statements(Types[n])
    /\ made' = [made EXCEPT ![Path] = @ + 1]
    /\ UNCHANGED <<fixed, unreadable, rows, run, torn>>

\* A statement; on a database that was there already the first one fails,
\* because CONFIGURATION exists.
Execute ==
    /\ pc = "tables"
    /\ Path \notin locked
    /\ made[Path] < Statements(Types[n])
    /\ ~Clashes(Types[n], made[Path] + 1)
    /\ made' = [made EXCEPT ![Path] = @ + 1]
    /\ UNCHANGED <<fixed, unreadable, rows, run, torn>>

\* mutant: the error is reported, the result is not
ExecuteFailsUnseen ==
    /\ pc = "tables"
    /\ made[Path] < Statements(Types[n]) \/ Path \in locked
    /\ Unlink(Path)
    /\ NextType
    /\ UNCHANGED fixed

\* mutant: the database is left as it is
ExecuteFailsKeeps ==
    /\ pc = "tables"
    /\ made[Path] < Statements(Types[n]) \/ Path \in locked
    /\ Errors
    /\ UNCHANGED <<fixed, disk, torn>>

ExecuteFails ==
    /\ pc = "tables"
    /\ made[Path] < Statements(Types[n]) \/ Path \in locked
    /\ Unlink(Path)
    /\ Errors
    /\ UNCHANGED fixed

AllExecuted ==
    /\ pc = "tables"
    /\ Path \notin locked
    /\ made[Path] = Statements(Types[n])
    /\ NextType
    /\ UNCHANGED <<fixed, disk, torn>>

\* the tool is killed
Killed ==
    /\ pc # "idle"
    /\ pc' = "idle"
    /\ torn' = IF pc = "tables" THEN torn \cup {Path} ELSE torn
    /\ UNCHANGED <<fixed, disk, force, n, outcome>>

ToolStep ==
    \/ Finish \/ Skip \/ ConfigurationFails \/ Refuse \/ Delete
    \/ Open \/ OpenFails \/ Execute \/ ExecuteFails \/ AllExecuted

Next ==
    \/ \E f \in BOOLEAN : Start(f)
    \/ ToolStep
    \/ Killed
    \/ \E type \in TypeNames : Record(type)

Spec == Init /\ [][Next]_vars

-----------------------------------------------------------------------------
(***************************************************************************)
(* Properties                                                              *)
(***************************************************************************)

\* The type of every variable.
TypeOK ==
    /\ conf \in Configurations /\ locked \subseteq Paths
    /\ unreadable \subseteq Paths /\ rows \subseteq Paths /\ torn \subseteq Paths
    /\ made \in [Paths -> Int]
    /\ \A type \in TypeNames :
          ~Nothing(type) => made[PathOf(type)] \in Absent .. Statements(type)
    /\ pc \in {"idle", "type", "open", "tables"} /\ force \in BOOLEAN
    /\ n \in 0 .. Len(Types) + 1
    /\ outcome \in {"none", "errors", "finished"}

\* "Finished database creation": all databases of the configuration are there
\* with all their tables, whatever failed or was killed in earlier runs
\* (meterd_createdb.c:390).
FinishedIsComplete ==
    outcome = "finished" => \A type \in TypeNames : Nothing(type) \/ Complete(type)

\* Between runs every database is absent or has all its tables, unless a run was
\* killed while it made this one: errors leave no database the daemon would
\* open but could not record in.
WholeOrAbsent ==
    pc = "idle" => \A type \in TypeNames :
        \/ Nothing(type)
        \/ made[PathOf(type)] = Absent
        \/ Complete(type)
        \/ PathOf(type) \in torn

\* The two programs agree on the schema: once the tool has finished, every counter
\* the daemon records has its table in the database it is recorded in, and no
\* other counter's readings go there (but for other_raw_counters, whose tables
\* nothing makes: measure.c:225 and meterd_createdb.c:81).
SchemaAgrees ==
    outcome = "finished" => \A type \in TypeNames : Nothing(type) \/
        LET counters == DaemonCounters(type)
            own == {i \in DOMAIN counters : counters[i] \notin ToSet(OtherRawCounters)}
        IN  /\ \A i \in own : counters[i].table \in Tables(type)
            /\ \A i, j \in own : counters[i].table = counters[j].table => i = j

\* Without -f no reading is lost, in the course of any number of failing and
\* killed runs, but those of a file that fopen cannot open and unlink can
\* remove (db.c:96), and those that the daemon has put in a database that is
\* still being made (meterd_createdb.c:188).
KeepsReadings ==
    [][\A p \in rows :
          \/ force \/ p \in unreadable
          \/ pc = "tables" /\ p = Path
          \/ p \in rows']_vars
=============================================================================
